-------------------------- MODULE OperationRuntime --------------------------
(***************************************************************************)
(* Singleflight production and independently owned delivery                *)
(* (backend/src/llm_model_explorer/operations.py).                         *)
(*                                                                         *)
(* Consumers subscribe to artifact keys.  The first subscriber of a key    *)
(* creates a flight, whose producer task looks the artifact up in the      *)
(* cache or writes it; later subscribers join the flight.  Each consumer   *)
(* reads at its own pace, may be cancelled on its own, and is disposed of  *)
(* by its owner: an HTTP response of a session, or the producer of another *)
(* flight that depends on the artifact.                                    *)
(*                                                                         *)
(* One event loop runs every coroutine, so a step goes from one await to   *)
(* the next; work handed to the thread pool is a step of its own wherever  *)
(* another coroutine can see its effect before the awaiting one resumes.   *)
(***************************************************************************)
EXTENDS Naturals, FiniteSets

CONSTANTS
    Key,        \* artifact keys
    Direct,     \* the keys delivered straight from the source (subscribe_source)
    Dep,        \* Dep[k]: the key the producer of k depends on, or None
    Consumer,   \* consumer ids; a flight is named after the consumer that created it
    Session,    \* owners of HTTP consumers
    Asks,       \* Asks[c]: the <<session, key>> a client may request as c; {} for a dependency
    Warm,       \* the keys that may have an artifact from an earlier run
    Chunks,     \* appends that make a complete artifact
    Events,     \* the I/O and producer errors and outside events of the instance
    None

EventKinds == {"lookup", "begin", "producer", "append", "commit", "abort",
               "open", "read", "evict", "session", "close"}

ASSUME RuntimeAssumption ==
    /\ Direct \subseteq Key /\ Warm \subseteq Key \ Direct
    /\ Dep \in [Key -> Key \cup {None}]
    /\ Chunks \in Nat \ {0}
    /\ Events \subseteq EventKinds
    /\ Asks \in [Consumer -> SUBSET (Session \X Key)]
    /\ Session \cap Consumer = {}
    /\ None \notin Key \cup Consumer \cup Session

VARIABLES
    fpc,        \* the producer task of each flight
    table,      \* runtime._flights
    interests,  \* flight.interests
    abandoned,  \* the flights whose cancellation is requested
    finished,   \* the flights whose finished event is set
    committed,  \* flight.committed
    writer,     \* the state of flight.writer
    avail,      \* chunks the writer has made available
    error,      \* flight.error
    dep,        \* the consumer the producer holds while it reads a dependency
    cpc,        \* the read or subscription in progress of each consumer
    key,        \* consumer._flight.spec.key
    owner,      \* consumer.session_id, or the flight whose cancellation is its parent
    flightOf,   \* consumer._flight (while "waiting", the flight it waits for)
    terminal,   \* consumer.terminal
    reader,     \* consumer._reader or _source_reader
    pos,        \* the cursor of the reader
    sawFinished, \* the reads that captured flight.finished as set
    woken,      \* the reads whose captured changed event has been set
    disposing,  \* the consumers with an aclose() in progress
    registered, \* runtime._consumers
    phase,      \* of the runtime: "closed" and "failed" once its aclose() has ended
    draining,   \* the consumers the runtime's aclose() awaits
    cached      \* the keys with a valid entry in the artifact store

flightVars == <<fpc, committed, writer, avail, error, dep>>
sharedVars == <<table, interests, abandoned, finished>>
readVars == <<reader, pos, sawFinished>>
identityVars == <<key, owner, flightOf>>
ownVars == <<terminal, disposing, registered>>
runtimeVars == <<phase, draining>>
vars == <<flightVars, sharedVars, cpc, identityVars, ownVars, readVars, woken,
          runtimeVars, cached>>

FlightPC == {"unused", "start", "lookup", "begin", "run", "consume", "release", "emit",
             "append", "appended", "commit", "settle", "abort", "done", "direct", "dead"}
ConsumerPC == {"unused", "waiting", "idle", "open", "opening", "read", "empty",
               "wait", "gone"}
Reading == {"open", "opening", "read", "empty", "wait"}
Holding == {"lookup", "begin", "commit", "abort"}

TypeOK ==
    /\ fpc \in [Consumer -> FlightPC]
    /\ table \in [Key -> Consumer \cup {None}]
    /\ interests \in [Consumer -> SUBSET Consumer]
    /\ abandoned \subseteq Consumer /\ finished \subseteq Consumer
    /\ committed \subseteq Consumer
    /\ writer \in [Consumer -> {"none", "open", "complete", "aborted"}]
    /\ avail \in [Consumer -> 0..Chunks]
    /\ error \in [Consumer -> {"none", "cancelled", "failed"}]
    /\ dep \in [Consumer -> Consumer \cup {None}]
    /\ cpc \in [Consumer -> ConsumerPC]
    /\ key \in [Consumer -> Key \cup {None}]
    /\ owner \in [Consumer -> Session \cup Consumer \cup {None}]
    /\ flightOf \in [Consumer -> Consumer \cup {None}]
    /\ terminal \in [Consumer -> {"none", "complete", "cancelled", "error"}]
    /\ reader \in [Consumer -> {"none", "temp", "store", "source"}]
    /\ pos \in [Consumer -> 0..Chunks]
    /\ sawFinished \subseteq Consumer /\ woken \subseteq Consumer
    /\ disposing \subseteq Consumer /\ registered \subseteq Consumer
    /\ phase \in {"open", "closing", "closed", "failed"}
    /\ draining \subseteq Consumer
    /\ cached \subseteq Key

Init ==
    /\ fpc = [f \in Consumer |-> "unused"]
    /\ table = [k \in Key |-> None]
    /\ interests = [f \in Consumer |-> {}]
    /\ abandoned = {} /\ finished = {} /\ committed = {}
    /\ writer = [f \in Consumer |-> "none"]
    /\ avail = [f \in Consumer |-> 0]
    /\ error = [f \in Consumer |-> "none"]
    /\ dep = [f \in Consumer |-> None]
    /\ cpc = [c \in Consumer |-> "unused"]
    /\ key = [c \in Consumer |-> None]
    /\ owner = [c \in Consumer |-> None]
    /\ flightOf = [c \in Consumer |-> None]
    /\ terminal = [c \in Consumer |-> "none"]
    /\ reader = [c \in Consumer |-> "none"]
    /\ pos = [c \in Consumer |-> 0]
    /\ sawFinished = {} /\ woken = {} /\ disposing = {} /\ registered = {}
    /\ phase = "open" /\ draining = {}
    /\ cached \in SUBSET Warm

-----------------------------------------------------------------------------
(* The steps shared by several operations.                                 *)

\* Mutant: wake only the reads that already sleep.
Listeners_Asleep(f) == {c \in Consumer : flightOf[c] = f /\ cpc[c] = "wait"}

\* flight.notify(): the reads that hold the event now replaced are awake.
Listeners(f) == {c \in Consumer : flightOf[c] = f /\ cpc[c] \in Reading}

\* flight.file_lock is free: its holders are the producer and the opening reads.
LockFree(f) ==
    /\ fpc[f] \notin Holding
    /\ \A c \in Consumer : ~(cpc[c] = "opening" /\ flightOf[c] = f)

\* Mutant: any release stops the flight.
Unneeded_Any(C) == {flightOf[c] : c \in C}

\* The flights that nobody is interested in any more once C is discarded.
Unneeded(C) == {f \in {flightOf[c] : c \in C} : interests[f] \ C = {}}

\* _release for the consumers of C: forget a finished flight, cancel a running one.
Release(C) ==
    LET idle == Unneeded(C)
    IN  /\ interests' = [f \in Consumer |-> interests[f] \ C]
        /\ table' = [k \in Key |-> IF table[k] \in idle \cap finished THEN None ELSE table[k]]
        /\ abandoned' = abandoned \cup (idle \ finished)
        /\ UNCHANGED finished

\* The reads that _release notifies of the cancellation of their flight.
Roused(C) == UNION {Listeners(f) : f \in Unneeded(C) \ finished}

\* Mutant: cancel() overrides an outcome that is already decided.
Live_Override(C) == C

\* Consumer.cancel() for each consumer of C: only those without an outcome.
Live(C) == {c \in C : terminal[c] = "none"}
Cancel(C) ==
    /\ terminal' = [c \in Consumer |-> IF c \in Live(C) THEN "cancelled" ELSE terminal[c]]
    /\ Release(Live(C))
    /\ woken' = woken \cup Roused(Live(C))

-----------------------------------------------------------------------------
(* Subscription.                                                           *)

\* Ids are interchangeable: take a fixed one of the unused.
Fresh(c) ==
    /\ cpc[c] = "unused"
    /\ c = CHOOSE d \in Consumer : cpc[d] = "unused" /\ Asks[d] = Asks[c]

\* Mutant: join whatever flight the table holds.
Joinable_Any(f) == f = f

\* A flight whose cancellation is requested takes no new interest.
Joinable(f) == f \notin abandoned

\* The insertion that ends _subscribe: lookup and insertion do not suspend.
Admit(c, k, o, f) ==
    /\ interests' = [interests EXCEPT ![f] = @ \cup {c}]
    /\ registered' = registered \cup {c}
    /\ cpc' = [cpc EXCEPT ![c] = "idle"]
    /\ key' = [key EXCEPT ![c] = k]
    /\ owner' = [owner EXCEPT ![c] = o]
    /\ flightOf' = [flightOf EXCEPT ![c] = f]
    /\ UNCHANGED <<abandoned, terminal, disposing, readVars, woken, runtimeVars, cached,
                   committed, writer, avail>>

Create(c, k, o) ==
    /\ table[k] = None
    /\ table' = [table EXCEPT ![k] = c]
    /\ Admit(c, k, o, c)
    /\ UNCHANGED finished

Join(c, k, o) ==
    /\ table[k] # None /\ Joinable(table[k])
    /\ Admit(c, k, o, table[k])
    /\ UNCHANGED <<table, finished>>

\* Wait until the cancelled flight of this key has settled.
AwaitFinished(c, k, o) ==
    /\ table[k] # None /\ ~Joinable(table[k])
    /\ cpc' = [cpc EXCEPT ![c] = "waiting"]
    /\ key' = [key EXCEPT ![c] = k]
    /\ owner' = [owner EXCEPT ![c] = o]
    /\ flightOf' = [flightOf EXCEPT ![c] = table[k]]
    /\ UNCHANGED <<sharedVars, ownVars, readVars, woken, runtimeVars, cached,
                   committed, writer, avail>>

\* subscribe_source: a private flight, born finished and never in the table.
SubscribeSource(c, k, o) ==
    /\ finished' = finished \cup {c}
    /\ Admit(c, k, o, c)
    /\ UNCHANGED table

\* One turn of the loop of _subscribe with the runtime open and the parent live.
Attempt(c, k, o) ==
    \/ k \notin Direct /\ Create(c, k, o)
    \/ k \notin Direct /\ Join(c, k, o)
    \/ k \notin Direct /\ AwaitFinished(c, k, o)
    \/ k \in Direct /\ SubscribeSource(c, k, o)

\* The task of a flight created by this attempt.
Spawned(c, k) ==
    IF k \in Direct THEN [fpc EXCEPT ![c] = "direct"]
    ELSE IF table[k] = None THEN [fpc EXCEPT ![c] = "start"]
    ELSE fpc

\* OperationRuntime.subscribe or subscribe_source for a session.
Subscribe(c, k, s) ==
    /\ Fresh(c) /\ phase = "open"
    /\ Attempt(c, k, s)
    /\ fpc' = Spawned(c, k)
    /\ UNCHANGED <<error, dep>>

\* ProducerContext.dependency: the producer's own subscription.
DepSubscribe(p, c) ==
    /\ fpc[p] = "run" /\ Asks[c] = {} /\ Fresh(c)
    /\ phase = "open" /\ p \notin abandoned
    /\ LET k == Dep[key[p]] IN
        /\ k # key[p]
        /\ Attempt(c, k, p)
        /\ fpc' = [Spawned(c, k) EXCEPT ![p] = "consume"]
    /\ dep' = [dep EXCEPT ![p] = c]
    /\ UNCHANGED error

\* dependency() raises: runtime closed, parent cancelled, or a key that is its own dependency.
DepRefused(p) ==
    /\ fpc[p] = "run"
    /\ phase # "open" \/ p \in abandoned \/ Dep[key[p]] = key[p]
    /\ fpc' = [fpc EXCEPT ![p] = "settle"]
    /\ error' = [error EXCEPT ![p] = IF phase = "open" /\ Dep[key[p]] # key[p]
                                     THEN "cancelled" ELSE "failed"]
    /\ UNCHANGED <<sharedVars, cpc, identityVars, ownVars, readVars, woken, runtimeVars,
                   cached, committed, writer, avail, dep>>

ParentCancelled(c) == owner[c] \in Consumer /\ owner[c] \in abandoned

\* The wait for the cancelled flight is over: another turn of the loop.
Resume(c) ==
    /\ cpc[c] = "waiting"
    /\ flightOf[c] \in finished /\ ~ParentCancelled(c) /\ phase = "open"
    /\ Attempt(c, key[c], owner[c])
    /\ fpc' = Spawned(c, key[c])
    /\ UNCHANGED <<error, dep>>

\* ... or _subscribe raises, in the response's task or in the parent's producer.
Refuse(c) ==
    /\ cpc[c] = "waiting"
    /\ flightOf[c] \in finished \/ ParentCancelled(c)
    /\ phase # "open" \/ ParentCancelled(c)
    /\ cpc' = [cpc EXCEPT ![c] = "gone"]
    /\ LET p == owner[c] IN
        IF p \in Consumer
        THEN /\ fpc' = [fpc EXCEPT ![p] = "settle"]
             /\ error' = [error EXCEPT ![p] = IF p \in abandoned THEN "cancelled" ELSE "failed"]
             /\ dep' = [dep EXCEPT ![p] = None]
        ELSE UNCHANGED <<fpc, error, dep>>
    /\ UNCHANGED <<sharedVars, identityVars, ownVars, readVars, woken, runtimeVars,
                   cached, committed, writer, avail>>

-----------------------------------------------------------------------------
(* The producer task of flight f (_produce and ProducerContext).           *)

\* What no producer step changes but its last and those of its dependency.
UntouchedByProducer == <<identityVars, ownVars, readVars, cpc, runtimeVars>>
ProducerOnly == <<sharedVars, UntouchedByProducer, dep>>

Goto(f, pc) == fpc' = [fpc EXCEPT ![f] = pc]
Raise(f, e) == Goto(f, "settle") /\ error' = [error EXCEPT ![f] = e]

\* Mutant: go on without the check.
CheckThen_Unchecked(f, pc) == Goto(f, pc) /\ UNCHANGED error

\* cancellation.check() and then go on at pc.
CheckThen(f, pc) ==
    IF f \in abandoned THEN Raise(f, "cancelled") ELSE Goto(f, pc) /\ UNCHANGED error

Notify(f) == woken' = woken \cup Listeners(f)

\* The first check, then file_lock and store.lookup in a thread.
Start(f) ==
    /\ fpc[f] = "start" /\ LockFree(f)
    /\ CheckThen(f, "lookup")
    /\ UNCHANGED <<ProducerOnly, woken, committed, writer, avail, cached>>

LookupHit(f) ==
    /\ fpc[f] = "lookup" /\ key[f] \in cached
    /\ committed' = committed \cup {f}
    /\ Goto(f, "settle") /\ Notify(f)
    /\ UNCHANGED <<ProducerOnly, writer, avail, error, cached>>

LookupMiss(f) ==
    /\ fpc[f] = "lookup" /\ key[f] \notin cached
    /\ CheckThen(f, "begin")
    /\ UNCHANGED <<ProducerOnly, woken, committed, writer, avail, cached>>

LookupFails(f) ==
    /\ "lookup" \in Events /\ fpc[f] = "lookup"
    /\ Raise(f, "failed")
    /\ UNCHANGED <<ProducerOnly, woken, committed, writer, avail, cached>>

\* begin_write has returned: publish the writer, check, and run the producer.
Begin(f) ==
    /\ fpc[f] = "begin"
    /\ writer' = [writer EXCEPT ![f] = "open"]
    /\ Notify(f)
    /\ CheckThen(f, IF Dep[key[f]] = None THEN "emit" ELSE "run")
    /\ UNCHANGED <<ProducerOnly, committed, avail, cached>>

BeginFails(f) ==
    /\ "begin" \in Events /\ fpc[f] = "begin"
    /\ Raise(f, "failed")
    /\ UNCHANGED <<ProducerOnly, woken, committed, writer, avail, cached>>

\* The producer leaves the dependency: its consumer has ended, a check between two
\* reads raises, or the producer fails on its own.  aclose() runs on every way out.
DepExit(f) ==
    LET c == dep[f] IN
    /\ fpc[f] = "consume" /\ cpc[c] \in {"idle", "gone"}
    /\ \/ terminal[c] = "complete" /\ UNCHANGED error
       \/ terminal[c] = "error" /\ error' = [error EXCEPT ![f] = "failed"]
       \/ /\ terminal[c] = "cancelled" \/ f \in abandoned
          /\ error' = [error EXCEPT ![f] = "cancelled"]
       \/ "producer" \in Events /\ error' = [error EXCEPT ![f] = "failed"]
    /\ Goto(f, "release")
    /\ Cancel({c})
    /\ disposing' = disposing \cup ({c} \cap registered)
    /\ UNCHANGED <<identityVars, cpc, registered, readVars, runtimeVars, cached,
                   committed, writer, avail, dep>>

DepReleased(f) ==
    /\ fpc[f] = "release" /\ cpc[dep[f]] = "gone"
    /\ Goto(f, IF error[f] = "none" THEN "emit" ELSE "settle")
    /\ dep' = [dep EXCEPT ![f] = None]
    /\ UNCHANGED <<sharedVars, UntouchedByProducer, woken, committed, writer, avail, error,
                   cached>>

\* The check of ProducerContext.append, io or compute, while the payload is short.
Emit(f) ==
    /\ fpc[f] = "emit" /\ avail[f] < Chunks
    /\ CheckThen(f, "append")
    /\ UNCHANGED <<ProducerOnly, woken, committed, writer, avail, cached>>

ProducerFails(f) ==
    /\ "producer" \in Events /\ fpc[f] = "emit"
    /\ Raise(f, "failed")
    /\ UNCHANGED <<ProducerOnly, woken, committed, writer, avail, cached>>

\* writer.append in a thread: readers see the bytes before the loop notifies them.
Append(f) ==
    /\ fpc[f] = "append"
    /\ avail' = [avail EXCEPT ![f] = @ + 1]
    /\ Goto(f, "appended")
    /\ UNCHANGED <<ProducerOnly, woken, committed, writer, error, cached>>

\* A failed append aborts the writer before the exception reaches the loop.
AppendFails(f) ==
    /\ "append" \in Events /\ fpc[f] = "append"
    /\ writer' = [writer EXCEPT ![f] = "aborted"]
    /\ Raise(f, "failed")
    /\ UNCHANGED <<ProducerOnly, woken, committed, avail, cached>>

Appended(f) ==
    /\ fpc[f] = "appended"
    /\ Notify(f)
    /\ CheckThen(f, "emit")
    /\ UNCHANGED <<ProducerOnly, committed, writer, avail, cached>>

CommitBegin(f) ==
    /\ fpc[f] = "emit" /\ avail[f] = Chunks /\ LockFree(f)
    /\ CheckThen(f, "commit")
    /\ UNCHANGED <<ProducerOnly, woken, committed, writer, avail, cached>>

Commit(f) ==
    /\ fpc[f] = "commit"
    /\ writer' = [writer EXCEPT ![f] = "complete"]
    /\ cached' = cached \cup {key[f]}
    /\ committed' = committed \cup {f}
    /\ Goto(f, "settle")
    /\ UNCHANGED <<ProducerOnly, woken, avail, error>>

\* commit() raises; the rename may have been done (the last fsync failed).
CommitFails(f) ==
    /\ "commit" \in Events /\ fpc[f] = "commit"
    /\ writer' = [writer EXCEPT ![f] = "aborted"]
    /\ cached' \in {cached, cached \cup {key[f]}}
    /\ Raise(f, "failed")
    /\ UNCHANGED <<ProducerOnly, woken, committed, avail>>

\* The finally block: file_lock, then writer.abort in a thread if there is a writer.
SettleBegin(f) ==
    /\ fpc[f] = "settle" /\ LockFree(f) /\ writer[f] # "none"
    /\ Goto(f, "abort")
    /\ UNCHANGED <<ProducerOnly, woken, committed, writer, avail, error, cached>>

\* The table when f finishes: an entry without interests is deleted at once.
Retired(f) ==
    [k \in Key |-> IF k = key[f] /\ table[k] = f /\ interests[f] = {} THEN None ELSE table[k]]

\* Mutant: the private file is left behind.
Discarded_Kept(w) == w
\* writer.abort(): a terminal writer stays as it is.
Discarded(w) == IF w = "open" THEN "aborted" ELSE w

\* Mutant: finished.set() at the end of the try block, not in finally.
Signalled_OnSuccess(f) == IF error[f] = "none" THEN finished \cup {f} ELSE finished
Signalled(f) == finished \cup {f}

Finish(f) ==
    /\ \/ fpc[f] = "settle" /\ LockFree(f) /\ writer[f] = "none"
       \/ fpc[f] = "abort"
    /\ writer' = [writer EXCEPT ![f] = Discarded(@)]
    /\ finished' = Signalled(f)
    /\ Notify(f)
    /\ table' = Retired(f)
    /\ Goto(f, "done")
    /\ UNCHANGED <<interests, abandoned, UntouchedByProducer, dep, committed, avail, error,
                   cached>>

\* The disposals that aclose() of the runtime awaits have ended.
Drained == \A c \in draining : cpc[c] = "gone"

\* abort() raises while removing the private directory: the task ends unfinished, and so
\* does the aclose() of the runtime if it awaits the producer tasks by now.
AbortFails(f) ==
    /\ "abort" \in Events /\ fpc[f] = "abort" /\ writer[f] # "complete"
    /\ writer' = [writer EXCEPT ![f] = "aborted"]
    /\ Goto(f, "dead")
    /\ phase' \in {phase} \cup (IF phase = "closing" /\ Drained THEN {"failed"} ELSE {})
    /\ UNCHANGED <<sharedVars, identityVars, ownVars, readVars, cpc, draining, dep, woken,
                   committed, avail, error, cached>>

Produce(f) ==
    \/ Start(f) \/ LookupHit(f) \/ LookupMiss(f) \/ LookupFails(f)
    \/ Begin(f) \/ BeginFails(f)
    \/ DepRefused(f) \/ DepExit(f) \/ DepReleased(f)
    \/ Emit(f) \/ ProducerFails(f) \/ Append(f) \/ AppendFails(f) \/ Appended(f)
    \/ CommitBegin(f) \/ Commit(f) \/ CommitFails(f)
    \/ SettleBegin(f) \/ Finish(f) \/ AbortFails(f)

-----------------------------------------------------------------------------
(* One read of consumer c (Consumer._read).                                *)

UntouchedByReader == <<flightVars, identityVars, disposing, registered, runtimeVars, cached>>
ReadStep == <<UntouchedByReader, sharedVars, terminal>>

Move(c, pc) == cpc' = [cpc EXCEPT ![c] = pc]

\* The read raises or reports the end.  The reader is closed first; nothing can come
\* between, since the read lock is held and terminal is already set.
Leave(c, extra) ==
    /\ Move(c, "idle")
    /\ reader' = [reader EXCEPT ![c] = "none"]
    /\ sawFinished' = sawFinished \ {c}
    /\ woken' = (woken \cup extra) \ {c}
    /\ UNCHANGED pos

\* The top of the loop: check, then capture changed and finished.
Capture(c) ==
    IF terminal[c] = "cancelled"
    THEN Leave(c, {})
    ELSE /\ woken' = woken \ {c}
         /\ sawFinished' = IF flightOf[c] \in finished THEN sawFinished \cup {c}
                           ELSE sawFinished \ {c}
         /\ Move(c, IF reader[c] = "none" THEN "open" ELSE "read")
         /\ UNCHANGED <<reader, pos>>

\* The caller asks for a chunk: a response at will, a producer while it consumes.
ReadBegin(c) ==
    /\ cpc[c] = "idle" /\ c \notin disposing
    /\ terminal[c] \in {"none", "cancelled"}
    /\ owner[c] \in Consumer => fpc[owner[c]] = "consume"
    /\ Capture(c)
    /\ UNCHANGED ReadStep

\* The exception handlers: an error of the read, or the flight's own error.
Fail(c, t) ==
    /\ terminal' = [terminal EXCEPT ![c] = IF @ = "none" THEN t ELSE @]
    /\ Release({c})
    /\ Leave(c, Roused({c}))
    /\ UNCHANGED UntouchedByReader

\* file_lock taken; decide what to open.  Without anything to open the read goes on.
Open(c) ==
    LET f == flightOf[c] IN
    /\ cpc[c] = "open"
    /\ \/ fpc[f] = "direct" /\ Move(c, "opening") /\ UNCHANGED <<readVars, woken>>
       \/ /\ fpc[f] # "direct" /\ LockFree(f) /\ terminal[c] = "cancelled"
          /\ Leave(c, {})
       \/ /\ fpc[f] # "direct" /\ LockFree(f) /\ terminal[c] # "cancelled"
          /\ Move(c, IF f \in committed \/ (writer[f] # "none" /\ f \notin finished)
                     THEN "opening" ELSE "empty")
          /\ UNCHANGED <<readVars, woken>>
    /\ UNCHANGED ReadStep

\* What store.lookup, writer.open_reader or the source factory can return now.
Openable(c) ==
    LET f == flightOf[c] IN
    CASE fpc[f] = "direct" -> {"source"}
      [] f \in committed -> IF key[f] \in cached THEN {"store"} ELSE {}
      [] OTHER -> IF writer[f] = "open" THEN {"temp"} ELSE {}

Opened(c) ==
    /\ cpc[c] = "opening"
    /\ \E r \in Openable(c) : reader' = [reader EXCEPT ![c] = r]
    /\ Move(c, "read")
    /\ UNCHANGED <<pos, sawFinished, ReadStep, woken>>

\* A committed artifact evicted meanwhile, a writer that has aborted, or an I/O error.
OpenFails(c) ==
    /\ cpc[c] = "opening"
    /\ Openable(c) = {} \/ "open" \in Events
    /\ Fail(c, "error")

Readable(c) == (IF reader[c] = "temp" THEN avail[flightOf[c]] ELSE Chunks) - pos[c]

\* read_available in a thread; bytes are handed over unless cancelled meanwhile.  When
\* there are none the loop goes on later: the producer may append in between.
Read(c) ==
    /\ cpc[c] = "read"
    /\ \/ /\ Readable(c) = 0
          /\ Move(c, "empty")
          /\ UNCHANGED <<readVars, woken>>
       \/ /\ Readable(c) > 0 /\ terminal[c] = "cancelled"
          /\ Leave(c, {})
       \/ /\ Readable(c) > 0 /\ terminal[c] # "cancelled"
          /\ \E n \in 1..Readable(c) : pos' = [pos EXCEPT ![c] = @ + n]
          /\ Move(c, "idle")
          /\ sawFinished' = sawFinished \ {c} /\ woken' = woken \ {c}
          /\ UNCHANGED reader
    /\ UNCHANGED ReadStep

\* The handle or read_guard reports that the bytes cannot be trusted.
ReadFails(c) ==
    /\ "read" \in Events /\ cpc[c] = "read"
    /\ Fail(c, "error")

\* Back on the loop with nothing: cancelled, at the end, failed, or not there yet.
CancelledEmpty(c) ==
    /\ cpc[c] = "empty" /\ terminal[c] = "cancelled"
    /\ Leave(c, {})
    /\ UNCHANGED ReadStep

\* Mutant: look at finished again after the bytes.
AtEnd_Recheck(c) == flightOf[c] \in finished
\* The finished flag captured before the bytes were asked for.
AtEnd(c) == c \in sawFinished

Complete(c) ==
    /\ cpc[c] = "empty" /\ terminal[c] # "cancelled"
    /\ AtEnd(c) /\ error[flightOf[c]] = "none"
    /\ terminal' = [terminal EXCEPT ![c] = "complete"]
    /\ Release({c})
    /\ Leave(c, Roused({c}))
    /\ UNCHANGED UntouchedByReader

FlightFailed(c) ==
    /\ cpc[c] = "empty" /\ terminal[c] # "cancelled"
    /\ AtEnd(c) /\ error[flightOf[c]] # "none"
    /\ Fail(c, IF error[flightOf[c]] = "cancelled" THEN "cancelled" ELSE "error")

Wait(c) ==
    /\ cpc[c] = "empty" /\ terminal[c] # "cancelled" /\ ~AtEnd(c)
    /\ Move(c, "wait")
    /\ UNCHANGED <<readVars, ReadStep, woken>>

\* Mutant: a cancelled read waits for the next change all the same.
Awake_Uncancelled(c) == c \in woken /\ terminal[c] = "none"
Awake(c) == c \in woken \/ terminal[c] = "cancelled"

\* cancellation.wait(changed) returns.
Wake(c) ==
    /\ cpc[c] = "wait" /\ Awake(c)
    /\ Capture(c)
    /\ UNCHANGED ReadStep

ReadProgress(c) ==
    \/ Open(c) \/ Opened(c) \/ OpenFails(c) \/ Read(c) \/ ReadFails(c)
    \/ CancelledEmpty(c) \/ Complete(c) \/ FlightFailed(c) \/ Wait(c) \/ Wake(c)

-----------------------------------------------------------------------------
(* Cancellation and disposal.                                              *)

CancelFrame == <<flightVars, cpc, identityVars, registered, readVars, cached>>

\* Consumer._watch_parent: the parent's cancellation reaches the dependency.
WatchParent(c) ==
    /\ c \in registered /\ ParentCancelled(c) /\ terminal[c] = "none"
    /\ Cancel({c})
    /\ UNCHANGED <<CancelFrame, disposing, runtimeVars>>

\* Consumer.aclose by the response, or OperationRuntime.cancel(operation_id).
Aclose(c) ==
    /\ c \in registered \ disposing /\ owner[c] \in Session
    /\ Cancel({c})
    /\ disposing' = disposing \cup {c}
    /\ UNCHANGED <<CancelFrame, runtimeVars>>

OfSession(s) == {c \in registered : owner[c] = s}

CancelSession(s) ==
    /\ "session" \in Events /\ ~(OfSession(s) \subseteq disposing)
    /\ Cancel(OfSession(s))
    /\ disposing' = disposing \cup OfSession(s)
    /\ UNCHANGED <<CancelFrame, runtimeVars>>

\* _dispose takes _read_lock, so it waits for the read in progress; then _forget.
\* Nobody looks at the links of a disposed consumer again: they go back to None.
Dispose(c) ==
    /\ c \in disposing /\ cpc[c] = "idle"
    /\ Move(c, "gone")
    /\ Release({c})
    /\ woken' = woken \cup Roused({c})
    /\ registered' = registered \ {c}
    /\ disposing' = disposing \ {c}
    /\ reader' = [reader EXCEPT ![c] = "none"]
    /\ pos' = [pos EXCEPT ![c] = 0]
    /\ owner' = [owner EXCEPT ![c] = None]
    /\ flightOf' = [flightOf EXCEPT ![c] = None]
    /\ UNCHANGED <<flightVars, key, terminal, sawFinished, runtimeVars, cached>>

\* OperationRuntime.aclose: refuse, cancel everyone, await the disposals ...
CloseRuntime ==
    /\ "close" \in Events /\ phase = "open"
    /\ phase' = "closing" /\ draining' = registered
    /\ Cancel(registered)
    /\ disposing' = disposing \cup registered
    /\ UNCHANGED CancelFrame

\* ... and then the producer tasks that have not ended.
RuntimeClosed ==
    /\ phase = "closing" /\ Drained
    /\ \A f \in Consumer : fpc[f] \in {"unused", "direct", "done", "dead"}
    /\ phase' = "closed"
    /\ UNCHANGED <<flightVars, sharedVars, cpc, identityVars, ownVars, readVars, woken,
                   draining, cached>>

\* The cache is disposable: anything outside this process may remove an entry.
Evict(k) ==
    /\ "evict" \in Events /\ k \in cached
    /\ cached' = cached \ {k}
    /\ UNCHANGED <<flightVars, sharedVars, cpc, identityVars, ownVars, readVars, woken,
                   runtimeVars>>

\* What the event loop and the threads do by themselves.
Internal ==
    \/ \E f \in Consumer : Produce(f)
    \/ \E p, c \in Consumer : DepSubscribe(p, c)
    \/ \E c \in Consumer : Resume(c) \/ Refuse(c)
    \/ \E c \in Consumer : owner[c] \in Consumer /\ ReadBegin(c)
    \/ \E c \in Consumer : ReadProgress(c) \/ WatchParent(c) \/ Dispose(c)
    \/ RuntimeClosed

\* What clients, sessions, the application and other processes may do at any time.
External ==
    \/ \E c \in Consumer : \E a \in Asks[c] : Subscribe(c, a[2], a[1])
    \/ \E c \in Consumer : owner[c] \in Session /\ ReadBegin(c)
    \/ \E c \in Consumer : Aclose(c)
    \/ \E s \in Session : CancelSession(s)
    \/ CloseRuntime
    \/ \E k \in Key : Evict(k)

Next == Internal \/ External

Spec == Init /\ [][Next]_vars

\* The event loop does not stop while a callback is ready or a thread has work.  That is
\* less than asyncio gives (each ready task is resumed in turn), and nothing at all is
\* assumed of clients, sessions and the environment.
LiveSpec == Spec /\ WF_vars(Internal)

-----------------------------------------------------------------------------
(* Safety.                                                                 *)

Settled == {"unused", "direct", "done"}

\* At most one producer runs per artifact key, and it is the one in the table, so
\* that later subscribers find it (the singleflight promise of operations.py).
SingleProducer ==
    \A f \in Consumer : fpc[f] \notin Settled => table[key[f]] = f

\* Shared work is cancelled only when no active consumer still needs it.
CancelledOnlyUnneeded == \A f \in abandoned : interests[f] = {}

\* An interest is held exactly by the registered consumers without a terminal state:
\* a leaked one keeps a producer running, a lost one cancels it under a reader.
InterestsExact ==
    \A f, c \in Consumer :
        c \in interests[f] <=> c \in registered /\ flightOf[c] = f /\ terminal[c] = "none"

\* A flight stays in the table only while it runs or somebody still reads it.
NoStaleEntry ==
    \A k \in Key : table[k] # None =>
        key[table[k]] = k /\ (table[k] \in finished => interests[table[k]] # {})

\* Shared work: one production per key, found by all, kept exactly while needed.
SharedWork == SingleProducer /\ CancelledOnlyUnneeded /\ InterestsExact /\ NoStaleEntry

\* A consumer told "complete" has been handed every byte, whether it read the live
\* file, the committed artifact or the source, and however late it joined.
CompleteDelivery ==
    /\ TypeOK
    /\ \A c \in registered : terminal[c] = "complete" => pos[c] = Chunks

\* A flight that failed by cancellation has no reader left to mistake it for its own:
\* cancelling one consumer, session or parent never ends another's read.
IndependentCancellation == \A f \in Consumer : error[f] = "cancelled" => interests[f] = {}

\* No private file outlives its flight and no open handle its consumer; when the
\* runtime's aclose() has returned nothing is left behind at all, but for the entry
\* of a producer whose abort() raised.
FilesReleased ==
    /\ \A f \in finished : writer[f] # "open"
    /\ \A c \in Consumer : reader[c] # "none" => c \in registered
    /\ phase = "closed" =>
        /\ registered = {} /\ \A k \in Key : table[k] # None => fpc[table[k]] = "dead"
        /\ \A c \in Consumer : cpc[c] \notin Reading /\ writer[c] # "open"

(* Action properties.                                                      *)

\* Cancellation prevents scheduling: a cancelled flight starts no further blocking
\* work and no dependency, whatever was pending when the cancellation came.
NoWorkAfterCancel ==
    [][\A f \in abandoned : fpc'[f] # fpc[f] =>
          fpc'[f] \notin {"lookup", "begin", "consume", "append", "commit"}]_vars

\* The outcome of a consumer is decided once: neither a late cancellation nor the end
\* of its flight replaces what its owner has been told.
TerminalStable ==
    [][\A c \in registered \cap registered' :
          terminal[c] # "none" => terminal'[c] = terminal[c]]_vars

(* Liveness.                                                               *)

\* A subscription that waits for a cancelled flight is eventually answered.
SubscriptionAnswered == \A c \in Consumer : cpc[c] = "waiting" ~> cpc[c] # "waiting"

\* Every call of read() returns, with bytes, the end or an exception.
ReadReturns == \A c \in Consumer : cpc[c] \in Reading ~> cpc[c] \notin Reading

\* Closing the runtime returns, without the help of any client.
CloseReturns == phase = "closing" ~> phase = "closed"

=============================================================================
