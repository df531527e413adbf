------------------------------ MODULE Sessions ------------------------------
(***************************************************************************)
(* Sessions and what is read under them (backend/src/llm_model_explorer/   *)
(* sessions.py, the subscriptions of materialization.py, embeddings.py,    *)
(* embedding_analysis.py, neuron_execution, the guarded reads of           *)
(* tensor_source.py), on top of the catalogue.                             *)
(*                                                                         *)
(* A session pins what one discovery has found.  Every request suspends in *)
(* the pool, or in a subscription that waits for a cancelled flight to     *)
(* retire, and finds its session again, or not, when it goes on.  Of       *)
(* OperationRuntime this module keeps what a subscriber sees: a consumer,  *)
(* its cancellation, and keys whose cancelled flight is still in the       *)
(* table.                                                                  *)
(***************************************************************************)
EXTENDS ModelCatalogue, FiniteSets

CONSTANTS
    Requests,    \* requests per client
    MaxSession,  \* sessions that may be created
    Kinds        \* the requests that are made: see RequestKind

RequestKind == {"create", "query", "direct", "artifact", "delete"}

ASSUME SessionsAssumption ==
    /\ Requests \in Nat /\ MaxSession \in Nat /\ IsFiniteSet(Caller)
    /\ Kinds \subseteq RequestKind

VARIABLES
    table,       \* registry._sessions: the source that each id is bound to, or None
    created,     \* ids in use
    req,         \* the request of each client
    made,        \* requests each client has made
    consumer,    \* the consumer that each client's request has registered
    running,     \* keys with a flight that is neither finished nor cancelled
    retiring,    \* keys with a cancelled flight that has not finished
    closed       \* operations._closed

runtimeVars == <<consumer, running, retiring, closed>>
sessionVars == <<table, created, req, made, runtimeVars>>
vars == <<catalogueVars, sessionVars>>

SessionId == 1..MaxSession
Idle == [stage |-> "idle", kind |-> "query", session |-> None, source |-> None, waits |-> {}]
NoConsumer == [state |-> "none", session |-> None, key |-> Nothing, chunk |-> None]

Init ==
    /\ CatalogueInit
    /\ table = [s \in SessionId |-> None] /\ created = 0
    /\ req = [c \in Caller |-> Idle] /\ made = [c \in Caller |-> 0]
    /\ consumer = [c \in Caller |-> NoConsumer]
    /\ running = {} /\ retiring = {} /\ closed = FALSE

-----------------------------------------------------------------------------
(* The runtime, as its subscribers see it.                                 *)

Live(s) == {c \in Caller : consumer[c].state = "live" /\ consumer[c].session \in s}

\* Cancel the consumers cs at once: flights that only they needed are cancelled.
Cancelled(cs) ==
    LET kept == {consumer[d].key : d \in {d \in Caller \ cs : consumer[d].state = "live"}}
        lost == {consumer[c].key : c \in cs} \ kept
    IN  /\ running' = running \ lost
        /\ retiring' = retiring \cup (running \cap lost)
        /\ consumer' = [c \in Caller |->
             IF c \in cs THEN [consumer[c] EXCEPT !.state = "cancelled"] ELSE consumer[c]]

Others == <<catalogueVars, table, created, made, closed>>

\* The producer of a flight ends, or has given up after its cancellation.
Finished(k) ==
    /\ k \in running \cup retiring
    /\ running' = running \ {k} /\ retiring' = retiring \ {k}
    /\ UNCHANGED <<Others, req, consumer>>

\* A consumer whose cancellation or last read is over is disposed of: whoever waits for
\* that goes on.
Dispose(c) ==
    /\ consumer[c].state = "cancelled" /\ consumer[c].chunk = None
    /\ consumer' = [consumer EXCEPT ![c] = NoConsumer]
    /\ req' = [d \in Caller |->
                 IF d = c /\ req[c].stage = "streaming" THEN Idle
                 ELSE [req[d] EXCEPT !.waits = @ \ {c}]]
    /\ UNCHANGED <<Others, running, retiring>>

\* A new consumer, of a new flight or of the one in the table.
Registered(c, key) ==
    /\ consumer' = [consumer EXCEPT ![c] = [state |-> "live", session |-> req[c].session,
                                             key |-> key, chunk |-> None]]
    /\ IF key \in {consumer[d].key : d \in Live(SessionId)} \ running
       THEN UNCHANGED running
       ELSE running' = running \cup {key}
    /\ UNCHANGED retiring

-----------------------------------------------------------------------------
(* Requests.                                                               *)

Catalogue == <<disk, seen, cached, holder>>
Respond(c) == req' = [req EXCEPT ![c] = Idle]
Advance(c, stage) == req' = [req EXCEPT ![c].stage = stage]

\* POST /sessions: pin() is handed to a thread.
Create(c) ==
    /\ "create" \in Kinds
    /\ req[c].stage = "idle" /\ made[c] < Requests
    /\ created + Cardinality({d \in Caller : req[d].kind = "create"}) < MaxSession
    /\ made' = [made EXCEPT ![c] = @ + 1]
    /\ req' = [req EXCEPT ![c].stage = "pin", ![c].kind = "create"]
    /\ Call(c, "resolve", Nothing)
    /\ UNCHANGED <<Catalogue, table, created, runtimeVars>>

\* The discovery fails, or does not have the model.
CreateFails(c) ==
    /\ req[c].stage = "pin"
    /\ \/ call[c].stage = "error"
       \/ call[c].stage = "ok" /\ call[c].found.model \in Absent
    /\ Taken(c) /\ Respond(c)
    /\ UNCHANGED <<Catalogue, table, created, made, runtimeVars>>

\* entry.pin(): the content is hashed, which takes long ...
Hash(c) ==
    /\ req[c].stage = "pin" /\ call[c].stage = "ok" /\ call[c].found.model \notin Absent
    /\ req' = [req EXCEPT ![c].stage = "hashed",
                          ![c].source = [found |-> call[c].found, content |-> disk]]
    /\ Taken(c)
    /\ UNCHANGED <<Catalogue, table, created, made, runtimeVars>>

\* A stat of all the files finds them as they were found: as stamps never come back, it
\* does not matter that they are looked at one after another.
Unchanged(found) ==
    /\ disk.model = found.model
    /\ found.shard # None => disk.shard = found.shard

\* ... and the files are still those that were discovered.
Repinned(c) == Unchanged(req[c].source.found)

Pin(c) ==
    /\ req[c].stage = "hashed" /\ Repinned(c)
    /\ Advance(c, "insert")
    /\ UNCHANGED <<catalogueVars, table, created, made, runtimeVars>>

PinFails(c) ==
    /\ req[c].stage = "hashed" /\ ~Repinned(c)
    /\ Respond(c)
    /\ UNCHANGED <<catalogueVars, table, created, made, runtimeVars>>

\* Back on the loop: the session is registered.
Insert(c) ==
    /\ req[c].stage = "insert"
    /\ created' = created + 1
    /\ table' = [table EXCEPT ![created + 1] = req[c].source]
    /\ Respond(c)
    /\ UNCHANGED <<catalogueVars, made, runtimeVars>>

\* get(): require, and check_unchanged is handed to a thread.
Begin(c) ==
    /\ req[c].stage = "idle" /\ made[c] < Requests
    /\ made' = [made EXCEPT ![c] = @ + 1]
    /\ \E s \in SessionId, kind \in Kinds \ {"create", "delete"} :
        /\ table[s] # None
        /\ req' = [req EXCEPT ![c] = [stage |-> "check", kind |-> kind, session |-> s,
                                      source |-> table[s], waits |-> {}]]
    /\ UNCHANGED <<catalogueVars, table, created, runtimeVars>>

Present(c) == table[req[c].session] # None

\* The check in its thread, and require() again on the loop.
Guarded(c, from, to) ==
    /\ req[c].stage = from
    /\ IF Unchanged(req[c].source.found) /\ Present(c) THEN Advance(c, to) ELSE Respond(c)
    /\ UNCHANGED <<catalogueVars, table, created, made, runtimeVars>>

\* get(); the descriptors or the preflight of the request; and get() of
\* SessionRegistry.subscribe.
Checked(c) == Guarded(c, "check", "resolve")
Resolve(c) == Guarded(c, "resolve", "act")
Rechecked(c) == Guarded(c, "recheck", "subscribe")

\* What follows require() without a suspension: the response, subscribe_source, or the
\* second get() of an artifact.
Answer(c) ==
    /\ req[c].stage = "act" /\ req[c].kind = "query"
    /\ Respond(c)
    /\ UNCHANGED <<catalogueVars, table, created, made, runtimeVars>>

SubscribeSource(c) ==
    /\ req[c].stage = "act" /\ req[c].kind = "direct"
    /\ IF Present(c) /\ ~closed
       THEN /\ consumer' = [consumer EXCEPT ![c] =
                 [state |-> "live", session |-> req[c].session, key |-> Nothing, chunk |-> None]]
            /\ Advance(c, "streaming")
       ELSE Respond(c) /\ UNCHANGED consumer
    /\ UNCHANGED <<catalogueVars, table, created, made, running, retiring, closed>>

Reget(c) ==
    /\ req[c].stage = "act" /\ req[c].kind = "artifact"
    /\ IF Present(c) THEN Advance(c, "recheck") ELSE Respond(c)
    /\ UNCHANGED <<catalogueVars, table, created, made, runtimeVars>>

\* Mutant: the session is not looked up after the subscription has waited.
Kept_Unchecked(c) == TRUE
Kept(c) == Present(c)

\* operations.subscribe, which waits for a cancelled flight of the key to retire.  It
\* registers and returns without a suspension: a session that is gone by then costs the
\* consumer its life at once.
Subscribe(c) ==
    LET key == req[c].source.found
    IN  /\ req[c].stage = "subscribe"
        /\ IF closed
           THEN Respond(c) /\ UNCHANGED <<consumer, running, retiring>>
           ELSE /\ key \notin retiring
                /\ IF Kept(c)
                   THEN Registered(c, key) /\ Advance(c, "streaming")
                   ELSE \* the consumer lives and dies: its flight, if new, retires
                        /\ IF key \in running \cup {consumer[d].key : d \in Live(SessionId)}
                           THEN UNCHANGED retiring
                           ELSE retiring' = retiring \cup {key}
                        /\ Respond(c) /\ UNCHANGED <<consumer, running>>
        /\ UNCHANGED <<catalogueVars, table, created, made, closed>>

\* The response reads in a thread: the file is what it is at that moment ...
Read(c) ==
    /\ req[c].stage = "streaming" /\ consumer[c].state = "live" /\ consumer[c].chunk = None
    /\ consumer' = [consumer EXCEPT ![c].chunk = disk]
    /\ UNCHANGED <<Others, req, running, retiring>>

\* Mutant: read_guard is not asked about the bytes of a direct source.
Admitted_Trusting(c) == TRUE
\* ... and the bytes are handed out only if the snapshot is still unchanged afterwards.
Admitted(c) == Unchanged(req[c].source.found)

\* The bytes go to the client, who may have enough; a changed model ends the stream.
Deliver(c) ==
    /\ consumer[c].chunk # None
    /\ consumer' = [consumer EXCEPT ![c].chunk = None,
         ![c].state = IF Admitted(c) THEN @ ELSE "cancelled"]
    /\ IF consumer[c].state = "live" /\ ~Admitted(c)
          /\ ~\E d \in Live(SessionId) \ {c} : consumer[d].key = consumer[c].key
       THEN /\ running' = running \ {consumer[c].key}
            /\ retiring' = retiring \cup (running \cap {consumer[c].key})
       ELSE UNCHANGED <<running, retiring>>
    /\ UNCHANGED <<Others, req>>

\* DELETE of the operation, a disconnection, or the end of the stream.
Close(c) ==
    /\ consumer[c].state = "live"
    /\ Cancelled({c})
    /\ UNCHANGED <<Others, req>>

\* DELETE of a session: out of the table, and all its consumers cancelled, in one step;
\* the response waits until they are disposed of.
Delete(c) ==
    /\ "delete" \in Kinds
    /\ req[c].stage = "idle" /\ made[c] < Requests
    /\ made' = [made EXCEPT ![c] = @ + 1]
    /\ \E s \in SessionId :
        /\ table[s] # None
        /\ table' = [table EXCEPT ![s] = None]
        /\ Cancelled(Live({s}))
        /\ req' = [req EXCEPT ![c] =
             [Idle EXCEPT !.stage = "deleting", !.kind = "delete", !.session = s,
                          !.waits = {d \in Caller : consumer[d].session = s}]]
    /\ UNCHANGED <<catalogueVars, created, closed>>

Deleted(c) ==
    /\ req[c].stage = "deleting" /\ req[c].waits = {}
    /\ Respond(c)
    /\ UNCHANGED <<catalogueVars, table, created, made, runtimeVars>>

\* SessionRegistry.aclose.
Shutdown ==
    /\ ~closed
    /\ closed' = TRUE /\ table' = [s \in SessionId |-> None]
    /\ Cancelled(Live(SessionId))
    /\ UNCHANGED <<catalogueVars, created, req, made>>

-----------------------------------------------------------------------------
Serve(c) ==
    \/ CreateFails(c) \/ Hash(c) \/ Pin(c) \/ PinFails(c) \/ Insert(c)
    \/ Checked(c) \/ Resolve(c) \/ Answer(c) \/ SubscribeSource(c) \/ Reget(c)
    \/ Rechecked(c) \/ Subscribe(c) \/ Deliver(c) \/ Dispose(c) \/ Deleted(c)

Thread(c) == CatalogueStep(c) /\ UNCHANGED sessionVars
Key == [model : 0..Versions, shard : (0..Shards) \cup {None}]

Next ==
    \/ \E c \in Caller :
        \/ Thread(c) \/ Serve(c)
        \/ Create(c) \/ Begin(c) \/ Delete(c) \/ Read(c) \/ Close(c)
    \/ \E k \in Key : Finished(k)
    \/ Shutdown
    \/ Change /\ UNCHANGED sessionVars

Spec == Init /\ [][Next]_vars

-----------------------------------------------------------------------------
TypeOK ==
    /\ CatalogueTypeOK
    /\ created \in 0..MaxSession /\ closed \in BOOLEAN
    /\ \A s \in SessionId : table[s] # None => s <= created
    /\ running \cup retiring \subseteq Key \cup {Nothing}
    /\ \A c \in Caller :
        /\ made[c] \in 0..Requests
        /\ consumer[c].state \in {"none", "live", "cancelled"}
        /\ req[c].waits \subseteq Caller

\* What a session is bound to is one state of the files: its descriptors come from a
\* scan during which nothing changed, nested shards included, and its fingerprint is the
\* content's.  Whatever is streamed under the session is that content too.
OneSnapshot ==
    /\ TypeOK
    /\ CacheConsistent
    /\ \A s \in SessionId :
        table[s] # None =>
            /\ Consistent(table[s].found)
            /\ table[s].content.model = table[s].found.model
            /\ table[s].found.shard # None => table[s].content.shard = table[s].found.shard

\* What is delivered under a session is the content the session is bound to, though the
\* file is read before the snapshot is looked at.
OnlySnapshotDelivered ==
    [][\A c \in Caller :
          consumer[c].chunk # None /\ consumer'[c].chunk = None /\ consumer'[c].state = "live"
            => /\ consumer[c].chunk.model = req[c].source.content.model
               /\ req[c].source.found.shard # None =>
                    consumer[c].chunk.shard = req[c].source.content.shard]_vars

\* Nothing runs under a session that was deleted, even if its subscription was waiting
\* for a flight, or for a thread, while the deletion collected the consumers; the
\* deletion is answered when the last of them is gone; and a flight that is needed by a
\* consumer is not retired.
NoOrphan ==
    /\ \A c \in Caller : consumer[c].state = "live" =>
        /\ table[consumer[c].session] # None /\ ~closed
        /\ consumer[c].key \notin retiring
    /\ running \subseteq {consumer[c].key : c \in Live(SessionId)}
    /\ \A c, d \in Caller :
        consumer[d].session # None /\ req[c].stage = "deleting" /\ consumer[d].session = req[c].session
            => d \in req[c].waits
=============================================================================
