------------------------ MODULE ModelCatalogue_proofs ------------------------
(***************************************************************************)
(* What TLAPS proves of the catalogue of the model files and of its two    *)
(* users, the sessions and the observer of the event streams, for any      *)
(* callers, versions of the files and numbers of requests, sessions and    *)
(* streams.                                                                *)
(*                                                                         *)
(* A session is bound to one state of the files (OneSnapshot), nothing     *)
(* runs under a deleted session (NoOrphan), and only the content that a    *)
(* session is bound to is delivered (OnlySnapshotDelivered).  One observer *)
(* serves all streams (OneObserver), a stream keeps its newest frame       *)
(* (NewestFrameKept), and what it is told two ticks in a row have seen     *)
(* (Debounced).                                                            *)
(*                                                                         *)
(* Files are looked at one after another while they change, so each look   *)
(* rests on the order of the versions: a scan between two equal captures   *)
(* has read what they found (Looks), a hash between a discovery and an     *)
(* equal stat is the hash of what was discovered, bytes read before an     *)
(* equal stat are bytes of what the session pinned (Bound), and an         *)
(* observation that expected a generation found it (Expects).              *)
(***************************************************************************)
EXTENDS Sessions, ModelObserver, FiniteSetTheorems, TLAPS

USE DEF catalogueVars, runtimeVars, sessionVars, vars, Others, Catalogue

-----------------------------------------------------------------------------
(* The catalogue.                                                          *)

DiskState == [model : 0..Versions, shard : 0..Shards]
Files == [model : 0..Versions \cup {None}, shard : 0..Shards \cup {None}]

Op == {"generation", "observe", "resolve"}
CallRecord == [stage : Stage, op : Op, expected : Files, first : BOOLEAN,
               shards : BOOLEAN, generation : Files, read : 0..Versions \cup {None},
               tries : 0..Attempts - 1, found : Files]

CatalogueTypes ==
    /\ disk \in DiskState /\ disk \in seen /\ seen \subseteq DiskState
    /\ cached \in [generation : Files, found : Files, shards : BOOLEAN] \cup {None}
    /\ holder \in Caller \cup {None}
    /\ call \in [Caller -> CallRecord]

\* What the files have been lies behind them.
Ordered == \A d \in seen : d.model <= disk.model /\ d.shard <= disk.shard

\* What the look of w has found so far: a file read lies behind, a generation lies behind
\* the scan that follows it, and a scan lies behind the check.  Either it found one state of
\* the files, or the model has left the generation for good.
Look(w) ==
    LET c == call[w]
    IN  /\ c.stage \in {"before", "after"} => c.op = "observe"
        /\ c.stage = "generation" => c.op = "generation"
        /\ c.read # None => c.read <= disk.model
        /\ c.stage \in {"scan", "check"} =>
            /\ c.generation.model # None /\ c.generation.model <= disk.model
            /\ c.generation.shard # None => c.generation.shard <= disk.shard
        /\ c.stage = "scan" /\ c.read # None =>
            c.generation.model <= c.read /\ c.read \in Indexed
        /\ c.stage = "check" =>
            /\ c.found.model # None
            /\ c.generation.model <= c.found.model /\ c.found.model <= disk.model
            /\ c.read # None => c.found.model <= c.read
            /\ c.shards = (c.found.model \in Indexed)
            /\ IF c.found.model \in Indexed
               THEN /\ c.found.shard # None /\ c.found.shard <= disk.shard
                    /\ c.generation.shard # None => c.generation.shard <= c.found.shard
               ELSE c.found.shard = None
            /\ \/ Consistent(c.found)
               \/ /\ c.generation.model < disk.model
                  /\ c.read # None => c.generation.model < c.read
        /\ c.stage = "after" \/ (c.stage = "ok" /\ c.op # "generation") => Consistent(c.found)

Looks == \A w \in Caller : Look(w)

\* The cache knows its shards.
CacheInv ==
    /\ CacheConsistent
    /\ cached # None => cached.shards = (cached.found.model \in Indexed)

CatalogueInv == CatalogueTypes /\ Ordered /\ Looks /\ CacheInv

-----------------------------------------------------------------------------
(* The sessions.                                                           *)

Source == [found : Files, content : DiskState]
\* The stages of a request that has taken the source of a session.
Using == {"check", "resolve", "act", "recheck", "subscribe", "streaming"}
\* The stages of a creation.
Creating == {"pin", "hashed", "insert"}
RequestStage == {"idle", "deleting"} \cup Using \cup Creating

Request == [stage : RequestStage, kind : RequestKind, session : SessionId \cup {None},
            source : Source \cup {None}, waits : SUBSET Caller]
Consumer == [state : {"none", "live", "cancelled"}, session : SessionId \cup {None},
             key : Files, chunk : DiskState \cup {None}]

SessionTypes ==
    /\ table \in [SessionId -> Source \cup {None}]
    /\ created \in 0..MaxSession
    /\ req \in [Caller -> Request]
    /\ made \in [Caller -> 0..Requests]
    /\ consumer \in [Caller -> Consumer]
    /\ running \subseteq Key /\ retiring \subseteq Key
    /\ closed \in BOOLEAN

\* A source that was pinned: one state of the files, and the content of that state.
Snapshot(source) ==
    /\ source \in Source
    /\ Consistent(source.found)
    /\ source.content.model = source.found.model
    /\ source.found.shard # None => source.content.shard = source.found.shard

\* What was read between a discovery and now.
Between(found, d) ==
    /\ found.model <= d.model /\ d.model <= disk.model
    /\ found.shard # None => found.shard <= d.shard
    /\ d.shard <= disk.shard

\* The source of a request, and the bytes read for it.
Taking(c) ==
    /\ req[c].stage \in Using => Snapshot(req[c].source) /\ req[c].session # None
    /\ req[c].stage = "hashed" =>
          /\ req[c].source \in Source /\ Consistent(req[c].source.found)
          /\ Between(req[c].source.found, req[c].source.content)
    /\ req[c].stage = "insert" => Snapshot(req[c].source)
    /\ consumer[c].chunk # None => Between(req[c].source.found, consumer[c].chunk)

Bound ==
    /\ \A s \in SessionId : table[s] # None => Snapshot(table[s]) /\ s <= created
    /\ \A c \in Caller : Taking(c)

\* A consumer belongs to a request that streams.
Consuming(c) ==
    /\ consumer[c].state # "none" <=> req[c].stage = "streaming"
    /\ IF consumer[c].state = "none" THEN consumer[c] = NoConsumer
       ELSE consumer[c].session = req[c].session

Creators == {c \in Caller : req[c].kind = "create"}

\* A deleted id stays free, and only a creation needs another.
Numbered(c) ==
    /\ req[c].kind = "create" <=> req[c].stage \in Creating
    /\ req[c].stage = "deleting" =>
          /\ req[c].session # None /\ req[c].session <= created
          /\ table[req[c].session] = None

\* NoOrphan, consumer by consumer: its session lives, a deletion waits for it, and its
\* flight is not retired.
Attended(c) ==
    consumer[c].state = "live" =>
        /\ table[consumer[c].session] # None /\ ~closed
        /\ consumer[c].key \notin retiring
Awaited(c) ==
    req[c].stage = "deleting" =>
        \A d \in Caller : consumer[d].session = req[c].session => d \in req[c].waits
Needed == \A k \in running : \E c \in Caller : consumer[c].state = "live" /\ consumer[c].key = k

SessionInv ==
    /\ SessionTypes /\ Bound /\ Needed
    /\ created + Cardinality(Creators) <= MaxSession
    /\ \A c \in Caller : Consuming(c) /\ Numbered(c) /\ Attended(c) /\ Awaited(c)

\* The sessions only ask for what is there.
Resolving == \A w \in Caller : call[w].op = "resolve"

IInv == CatalogueInv /\ Resolving /\ SessionInv

-----------------------------------------------------------------------------
(* The catalogue keeps its invariant.                                      *)

\* The numbers of versions, and that no version is None.
LEMMA Numbers ==
  /\ Versions \in Nat /\ Shards \in Nat /\ Attempts \in Nat \ {0}
  /\ None \notin 0..Versions /\ None \notin 0..Shards /\ Indexed \subseteq 0..Versions
  BY CatalogueAssumption

\* A step of one call on files that stay what they are.
LEMMA CallKeeps ==
  ASSUME CatalogueInv, NEW w \in Caller, UNCHANGED <<disk, seen>>, CatalogueTypes',
         \A v \in Caller \ {w} : call'[v] = call[v], Look(w)', CacheInv'
  PROVE  CatalogueInv'
  <1>1. Ordered'
    BY DEF CatalogueInv, Ordered
  <1>2. ASSUME NEW v \in Caller \ {w} PROVE Look(v)'
    <2>1. Look(v) /\ call'[v] = call[v]
      BY DEF CatalogueInv, Looks
    <2> QED BY <2>1 DEF Look, Consistent
  <1> QED BY <1>1, <1>2 DEF CatalogueInv, Looks

\* What a look that is complete has found of the files.
LEMMA Found ==
  ASSUME CatalogueInv, NEW w \in Caller, NEW t \in Stage, Complete(w, t)
  PROVE  /\ Got(w) \in Files
         /\ Got(w).model \in 0..Versions /\ Got(w).model <= disk.model
         /\ Got(w).shard # None => Got(w).shard = disk.shard
         /\ Got(w).model = IF call[w].read = None THEN disk.model ELSE call[w].read
         /\ call[w].read # None => Got(w).shard = disk.shard
         /\ call[w].read = None => ~NeedsShard(w, disk.model) /\ Got(w).shard = None
  <1>1. /\ disk.model \in 0..Versions /\ disk.shard \in 0..Shards
        /\ call[w].read \in 0..Versions \cup {None}
        /\ call[w].read # None => call[w].read <= disk.model
    BY DEF CatalogueInv, CatalogueTypes, CallRecord, DiskState, Looks, Look
  <1> QED BY <1>1, Numbers DEF Got, Complete, Files

\* The steps to a stage that promises nothing.
LEMMA GotoKeeps ==
  ASSUME CatalogueInv, NEW w \in Caller, NEW stage \in {"entry", "failed", "retry", "error"},
         Goto(w, stage), holder' \in {holder, None}, UNCHANGED <<disk, seen, cached>>
  PROVE  CatalogueInv'
  <1>1. CatalogueTypes'
    <2>1. call' \in [Caller -> CallRecord]
      <3>1. call \in [Caller -> CallRecord]
        BY DEF CatalogueInv, CatalogueTypes
      <3>2. call'[w] \in CallRecord
        BY <3>1 DEF CallRecord, Goto, Stage
      <3>3. \A v \in Caller \ {w} : call'[v] = call[v]
        BY <3>1 DEF Goto, Stage
      <3>4. call' = [v \in Caller |-> call'[v]]
        BY <3>1 DEF Goto, Stage
      <3> QED BY <3>1, <3>2, <3>3, <3>4
    <2> QED BY <2>1 DEF CatalogueInv, CatalogueTypes
  <1>2. /\ \A v \in Caller \ {w} : call'[v] = call[v]
        /\ call'[w].stage = stage /\ call'[w].read = None
    BY DEF CatalogueInv, CatalogueTypes, CallRecord, Goto
  <1>3. Look(w)'
    BY <1>2 DEF Look
  <1>4. CacheInv'
    BY DEF CatalogueInv, CacheInv, CacheConsistent, Consistent
  <1> QED BY <1>1, <1>2, <1>3, <1>4, CallKeeps

LEMMA AcquireKeeps ==
  ASSUME CatalogueInv, NEW w \in Caller, Acquire(w)
  PROVE  CatalogueInv'
  <1>0. call \in [Caller -> CallRecord] /\ call[w] \in CallRecord /\ CachedShards \in BOOLEAN
    BY DEF CatalogueInv, CatalogueTypes, CachedShards
  <1>1. PICK stage \in {"generation", "before", "entry"} :
          /\ stage = "generation" => call[w].op = "generation"
          /\ stage = "before" => call[w].op = "observe"
          /\ call' = [call EXCEPT ![w].stage = stage, ![w].first = CachedShards,
                                  ![w].shards = CachedShards, ![w].read = None]
    <2>1. call[w].op \in {"generation", "observe", "resolve"}
      BY <1>0 DEF CallRecord, Op
    <2>2. CASE call[w].op = "generation"
      BY <2>2 DEF Acquire
    <2>3. CASE call[w].op = "observe"
      BY <2>3 DEF Acquire
    <2>4. CASE call[w].op = "resolve"
      BY <2>4 DEF Acquire
    <2> QED BY <2>1, <2>2, <2>3, <2>4
  <1>2. /\ call'[w] = [call[w] EXCEPT !.stage = stage, !.first = CachedShards,
                                      !.shards = CachedShards, !.read = None]
        /\ \A v \in Caller \ {w} : call'[v] = call[v]
        /\ call' = [v \in Caller |-> call'[v]]
    BY <1>0, <1>1
  <1>3. call'[w] \in CallRecord
    BY <1>0, <1>2 DEF CallRecord, Stage
  <1>4. CatalogueTypes'
    <2>1. call' \in [Caller -> CallRecord]
      BY <1>0, <1>2, <1>3
    <2> QED BY <2>1 DEF CatalogueInv, CatalogueTypes, Acquire
  <1>5. call'[w].stage = stage /\ call'[w].read = None /\ call'[w].op = call[w].op
    BY <1>0, <1>2 DEF CallRecord
  <1>6. Look(w)'
    BY <1>1, <1>5 DEF Look
  <1>7. CacheInv'
    BY DEF CatalogueInv, CacheInv, CacheConsistent, Consistent, Acquire
  <1> QED BY <1>2, <1>4, <1>6, <1>7, CallKeeps DEF Acquire

\* A scan that begins: its generation lies behind it.
LEMMA ScanBegins ==
  ASSUME CatalogueInv, NEW w \in Caller, NEW t \in {"entry", "retry"}, Captured(w, t),
         NEW tries \in 0..Attempts - 1,
         call' = [call EXCEPT ![w].stage = "scan", ![w].generation = Got(w),
                              ![w].read = None, ![w].tries = tries],
         UNCHANGED <<disk, seen, cached, holder>>
  PROVE  CatalogueInv'
  <1>1. /\ Got(w) \in Files /\ Got(w).model \in 0..Versions /\ Got(w).model <= disk.model
        /\ Got(w).shard # None => Got(w).shard = disk.shard
    BY Found DEF Captured, Stage
  <1>2. CatalogueTypes'
    <2>1. call' \in [Caller -> CallRecord]
      <3>1. call \in [Caller -> CallRecord]
        BY DEF CatalogueInv, CatalogueTypes
      <3>2. call'[w] \in CallRecord
        BY <1>1, <3>1 DEF CallRecord, Stage
      <3>3. \A v \in Caller \ {w} : call'[v] = call[v]
        BY <1>1, <3>1 DEF Stage
      <3>4. call' = [v \in Caller |-> call'[v]]
        BY <1>1, <3>1 DEF Stage
      <3> QED BY <3>1, <3>2, <3>3, <3>4
    <2> QED BY <2>1 DEF CatalogueInv, CatalogueTypes
  <1>3. /\ \A v \in Caller \ {w} : call'[v] = call[v]
        /\ call'[w].stage = "scan" /\ call'[w].read = None /\ call'[w].generation = Got(w)
    BY <1>1 DEF CatalogueInv, CatalogueTypes, CallRecord
  <1>4. Look(w)'
    <2>1. disk.shard \in 0..Shards
      BY DEF CatalogueInv, CatalogueTypes, DiskState
    <2> QED BY <1>1, <1>3, <2>1, Numbers DEF Look
  <1>5. CacheInv'
    BY DEF CatalogueInv, CacheInv, CacheConsistent, Consistent
  <1> QED BY <1>2, <1>3, <1>4, <1>5, CallKeeps

LEMMA ReadKeeps ==
  ASSUME CatalogueInv, NEW w \in Caller, ReadModel(w)
  PROVE  CatalogueInv'
  <1>0. disk.model \in 0..Versions
    BY DEF CatalogueInv, CatalogueTypes, DiskState
  <1>1. CatalogueTypes'
    <2>1. call' \in [Caller -> CallRecord]
      BY <1>0 DEF CatalogueInv, CatalogueTypes, CallRecord, ReadModel
    <2> QED BY <2>1 DEF CatalogueInv, CatalogueTypes, ReadModel
  <1>2. /\ \A v \in Caller \ {w} : call'[v] = call[v]
        /\ call'[w] = [call[w] EXCEPT !.read = disk.model]
        /\ call[w].stage \in Reads /\ call[w].read = None
        /\ NeedsShard(w, disk.model)
    BY DEF CatalogueInv, CatalogueTypes, CallRecord, ReadModel
  <1>3. /\ call'[w].stage = call[w].stage /\ call'[w].read = disk.model
        /\ call'[w].generation = call[w].generation /\ call'[w].found = call[w].found
        /\ call'[w].shards = call[w].shards
    BY <1>2 DEF CatalogueInv, CatalogueTypes, CallRecord
  <1>4. Look(w)'
    <2>1. call[w].stage = "scan" => disk.model \in Indexed
      BY <1>2 DEF NeedsShard
    <2>2. Look(w) /\ disk.model <= disk.model
      BY <1>0, Numbers DEF CatalogueInv, Looks
    <2> QED BY <1>0, <1>2, <1>3, <2>1, <2>2, Numbers DEF Look, Consistent, Reads, ReadModel
  <1>5. CacheInv'
    BY DEF CatalogueInv, CacheInv, CacheConsistent, Consistent, ReadModel
  <1> QED BY <1>1, <1>2, <1>4, <1>5, CallKeeps DEF ReadModel

\* A scan ends with one state of the files, or with a model that is gone from the generation.
LEMMA ScanEndsKeeps ==
  ASSUME CatalogueInv, NEW w \in Caller, ScanEnds(w)
  PROVE  CatalogueInv'
  <1> DEFINE c == call[w]
             got == Got(w)
  <1>1. /\ got \in Files /\ got.model \in 0..Versions /\ got.model <= disk.model
        /\ got.model = IF c.read = None THEN disk.model ELSE c.read
        /\ c.read # None => got.shard = disk.shard
        /\ c.read = None => ~NeedsShard(w, disk.model) /\ got.shard = None
    BY Found DEF ScanEnds, Stage
  <1>2. /\ disk.model \in 0..Versions /\ disk.shard \in 0..Shards /\ disk \in seen
        /\ c \in CallRecord /\ Look(w) /\ c.stage = "scan"
        /\ NeedsShard(w, disk.model) = (disk.model \in Indexed)
    BY DEF CatalogueInv, CatalogueTypes, DiskState, Looks, ScanEnds, Complete, NeedsShard
  <1>3. /\ c.generation.model \in 0..Versions /\ c.generation.model <= got.model
        /\ c.generation.shard \in 0..Shards \cup {None}
        /\ c.generation.shard # None => c.generation.shard <= disk.shard
        /\ got.model \in Indexed => got.shard = disk.shard
        /\ got.model \notin Indexed => got.shard = None
    BY <1>1, <1>2 DEF Look, CallRecord, Files
  <1>4. Consistent(got) \/ c.generation.model < disk.model
    <2>1. CASE got.model = disk.model
      BY <1>2, <1>3, <2>1 DEF Consistent
    <2>2. CASE got.model # disk.model
      BY <1>1, <1>2, <1>3, <2>2, Numbers
    <2> QED BY <2>1, <2>2
  <1>5. /\ call' = [call EXCEPT ![w].stage = "check", ![w].read = None, ![w].found = got,
                                ![w].shards = got.model \in Indexed]
        /\ UNCHANGED <<disk, seen, cached, holder>>
    BY DEF ScanEnds
  <1> HIDE DEF got
  <1>6. CatalogueTypes'
    <2>1. call' \in [Caller -> CallRecord]
      <3>1. call \in [Caller -> CallRecord]
        BY DEF CatalogueInv, CatalogueTypes
      <3>2. call'[w] \in CallRecord
        <4>1. call'[w] = [call[w] EXCEPT !.stage = "check", !.read = None, !.found = got,
                                         !.shards = got.model \in Indexed]
          BY <1>5, <3>1
        <4>2. (got.model \in Indexed) \in BOOLEAN /\ call[w] \in CallRecord
          BY <1>2
        <4> QED BY <1>1, <4>1, <4>2 DEF CallRecord, Stage
      <3>3. \A v \in Caller \ {w} : call'[v] = call[v]
        BY <1>5, <3>1
      <3>4. call' = [v \in Caller |-> call'[v]]
        BY <1>5, <3>1
      <3> QED BY <3>1, <3>2, <3>3, <3>4
    <2> QED BY <1>5, <2>1 DEF CatalogueInv, CatalogueTypes
  <1>7. /\ \A v \in Caller \ {w} : call'[v] = call[v]
        /\ call'[w].stage = "check" /\ call'[w].read = None /\ call'[w].found = got
        /\ call'[w].generation = c.generation
        /\ call'[w].shards = (got.model \in Indexed)
    BY <1>2, <1>5 DEF CatalogueInv, CatalogueTypes, CallRecord
  <1>8. Look(w)'
    <2>2. Consistent(call[w].found)' <=> Consistent(got)
      BY <1>5, <1>7 DEF Consistent
    <2>3. disk.shard <= disk.shard /\ got.model # None /\ disk.shard # None
      BY <1>1, <1>2, Numbers
    <2>4. /\ c.generation.model # None /\ c.generation.model <= disk.model
          /\ got.model <= disk.model
      BY <1>1, <1>2, <1>3, Numbers
    <2> QED BY <1>3, <1>4, <1>5, <1>7, <2>2, <2>3, <2>4 DEF Look
  <1>9. CacheInv'
    BY <1>5 DEF CatalogueInv, CacheInv, CacheConsistent, Consistent
  <1> QED BY <1>5, <1>6, <1>7, <1>8, <1>9, CallKeeps

\* A call has found a value: a generation, or a discovery that the files were in.
LEMMA ValueKeeps ==
  ASSUME CatalogueInv, NEW w \in Caller, NEW value \in Files, NEW stage \in {"ok", "after"},
         call' = [call EXCEPT ![w].stage = stage, ![w].found = value, ![w].read = None],
         stage = "after" => call[w].op = "observe",
         call[w].op = "generation" \/ Consistent(value),
         holder' \in {holder, None}, UNCHANGED <<disk, seen>>,
         cached' \in [generation : Files, found : Files, shards : BOOLEAN] \cup {None},
         CacheInv'
  PROVE  CatalogueInv'
  <1>0. call \in [Caller -> CallRecord] /\ call[w] \in CallRecord
    BY DEF CatalogueInv, CatalogueTypes
  <1>2. /\ call'[w] = [call[w] EXCEPT !.stage = stage, !.found = value, !.read = None]
        /\ \A v \in Caller \ {w} : call'[v] = call[v]
        /\ call' = [v \in Caller |-> call'[v]]
    BY <1>0
  <1>3. call'[w] \in CallRecord
    BY <1>0, <1>2 DEF CallRecord, Stage
  <1>4. CatalogueTypes'
    <2>1. call' \in [Caller -> CallRecord]
      BY <1>0, <1>2, <1>3
    <2> QED BY <2>1 DEF CatalogueInv, CatalogueTypes
  <1>5. Look(w)'
    <2>1. /\ call'[w].stage = stage /\ call'[w].found = value /\ call'[w].read = None
          /\ call'[w].op = call[w].op
      BY <1>0, <1>2 DEF CallRecord
    <2> QED BY <2>1 DEF Look, Consistent
  <1> QED BY <1>2, <1>4, <1>5, CallKeeps

LEMMA ResolvedKeeps ==
  ASSUME CatalogueInv, NEW w \in Caller, NEW value \in Files, Consistent(value),
         Resolved(w, value), UNCHANGED <<disk, seen>>,
         cached' \in [generation : Files, found : Files, shards : BOOLEAN] \cup {None},
         CacheInv'
  PROVE  CatalogueInv'
  <1>1. CASE call[w].op = "observe"
    BY <1>1, ValueKeeps DEF Resolved
  <1>2. CASE call[w].op # "observe"
    BY <1>2, ValueKeeps DEF Resolved
  <1> QED BY <1>1, <1>2

LEMMA ReturnKeeps ==
  ASSUME CatalogueInv, NEW w \in Caller, NEW value \in Files, Return(w, value),
         call[w].op = "generation" \/ Consistent(value)
  PROVE  CatalogueInv'
  <1>1. /\ cached' \in [generation : Files, found : Files, shards : BOOLEAN] \cup {None}
        /\ CacheInv'
    BY DEF Return, CatalogueInv, CatalogueTypes, CacheInv, CacheConsistent, Consistent
  <1> QED BY <1>1, ValueKeeps DEF Return

\* The check finds the generation again: the scan before it has found one state of the
\* files, whose shards the generation has.
LEMMA KeepKeeps ==
  ASSUME CatalogueInv, NEW w \in Caller, Keep(w)
  PROVE  CatalogueInv'
  <1> DEFINE c == call[w]
             got == Got(w)
  <1>1. /\ got \in Files /\ got.model \in 0..Versions /\ got.model <= disk.model
        /\ got.model = IF c.read = None THEN disk.model ELSE c.read
        /\ c.read # None => got.shard = disk.shard
        /\ c.read = None => ~NeedsShard(w, disk.model) /\ got.shard = None
    BY Found DEF Keep, Captured, Stage
  <1>2. /\ disk.model \in 0..Versions /\ disk.shard \in 0..Shards
        /\ c \in CallRecord /\ Look(w) /\ c.stage = "check" /\ got = c.generation
        /\ NeedsShard(w, disk.model) = c.shards
    BY DEF CatalogueInv, CatalogueTypes, DiskState, Looks, Keep, Captured, Complete, NeedsShard, Stable
  <1> HIDE DEF got
  <1>3. /\ c.found \in Files /\ c.shards \in BOOLEAN
        /\ c.generation.model \in 0..Versions /\ c.generation.shard \in 0..Shards \cup {None}
        /\ c.found.model \in 0..Versions /\ c.found.shard \in 0..Shards \cup {None}
    BY <1>2 DEF CallRecord, Files, Look
  <1>4. Consistent(c.found) /\ c.found.model = got.model
    <2>1. got.model = c.generation.model /\ ~(got.model < got.model)
      BY <1>1, <1>2, Numbers
    <2>2. c.generation.model <= c.found.model /\ c.found.model <= got.model
      BY <1>1, <1>2 DEF Look
    <2>3. Consistent(c.found)
      BY <1>1, <1>2, <2>1 DEF Look
    <2> QED BY <1>1, <1>3, <2>1, <2>2, <2>3, Numbers
  <1>5. c.shards => got.shard = c.found.shard
    <2> SUFFICES ASSUME c.shards PROVE got.shard = c.found.shard
      OBVIOUS
    <2>1. got.shard = disk.shard /\ got.shard \in 0..Shards
      BY <1>1, <1>2
    <2>2. /\ c.found.shard # None /\ c.found.shard <= disk.shard
          /\ c.generation.shard <= c.found.shard
      BY <1>2, <2>1, Numbers DEF Look
    <2> QED BY <1>2, <1>3, <2>1, <2>2, Numbers
  <1>6. /\ cached' = [generation |-> got, found |-> c.found, shards |-> c.shards]
        /\ Resolved(w, c.found) /\ UNCHANGED <<disk, seen>>
    BY DEF Keep, got
  <1>7. CacheInv'
    <2>1. c.shards = (c.found.model \in Indexed)
      BY <1>2 DEF Look
    <2> QED BY <1>4, <1>5, <1>6, <2>1 DEF CacheInv, CacheConsistent, Consistent
  <1> QED BY <1>1, <1>3, <1>4, <1>6, <1>7, ResolvedKeeps

LEMMA CatalogueStepKeeps ==
  ASSUME CatalogueInv, NEW w \in Caller, CatalogueStep(w)
  PROVE  CatalogueInv'
  <1>1. call[w] \in CallRecord /\ Look(w)
    BY DEF CatalogueInv, CatalogueTypes, Looks
  <1>2. CASE Unusable(w)
    BY <1>2, GotoKeeps DEF Unusable, Fail
  <1>3. CASE Generation(w) \/ Before(w) \/ After(w)
    <2>1. CASE Generation(w)
      <3>1. Got(w) \in Files /\ call[w].op = "generation"
        BY <1>1, <2>1, Found DEF Generation, Captured, Complete, Look, Stage
      <3> QED BY <2>1, <3>1, ReturnKeeps DEF Generation
    <2>2. CASE Before(w)
      BY <2>2, GotoKeeps DEF Before, Fail
    <2>3. CASE After(w)
      <3>1. Consistent(call[w].found) /\ call[w].found \in Files
        BY <1>1, <2>3 DEF After, Captured, Complete, Look, CallRecord
      <3> QED BY <2>3, <3>1, GotoKeeps, ReturnKeeps DEF After, Fail
    <2> QED BY <1>3, <2>1, <2>2, <2>3
  <1>4. CASE Hit(w)
    <2>1. cached # None /\ Consistent(cached.found) /\ cached.found \in Files
      BY <1>4 DEF Hit, Known, CatalogueInv, CatalogueTypes, CacheInv, CacheConsistent
    <2>2. CacheInv'
      BY <1>4 DEF Hit, CatalogueInv, CacheInv, CacheConsistent, Consistent
    <2> QED BY <1>4, <2>1, <2>2, ResolvedKeeps DEF Hit, CatalogueInv, CatalogueTypes
  <1>5. CASE Miss(w)
    <2>1. 0 \in 0..Attempts - 1
      BY Numbers
    <2> QED BY <1>5, <2>1, ScanBegins DEF Miss
  <1>6. CASE ScanFails(w) \/ Failed(w) \/ Discard(w)
    BY <1>6, GotoKeeps DEF ScanFails, Failed, Discard, Fail
  <1>7. CASE Retry(w)
    <2>1. CASE call[w].tries + 1 < Attempts
      <3>1. call[w].tries + 1 \in 0..Attempts - 1
        BY <1>1, <2>1, Numbers DEF CallRecord
      <3>2. call' = [call EXCEPT ![w].stage = "scan", ![w].generation = Got(w),
                                 ![w].read = None, ![w].tries = call[w].tries + 1]
        BY <1>7, <2>1 DEF Retry, CatalogueInv, CatalogueTypes
      <3> QED BY <1>7, <2>1, <3>1, <3>2, ScanBegins DEF Retry
    <2>2. CASE ~(call[w].tries + 1 < Attempts)
      BY <1>7, <2>2, GotoKeeps DEF Retry, Fail
    <2> QED BY <2>1, <2>2
  <1> QED BY <1>2, <1>3, <1>4, <1>5, <1>6, <1>7, AcquireKeeps, ReadKeeps, ScanEndsKeeps, KeepKeeps
          DEF CatalogueStep

\* What the files were stays so, and what lies behind them lies behind them later.
LEMMA Later ==
  ASSUME CatalogueInv, Change
  PROVE  /\ disk' \in DiskState /\ disk' \in seen' /\ seen' \subseteq DiskState /\ seen \subseteq seen'
         /\ disk.model <= disk'.model /\ disk.shard <= disk'.shard
         /\ \A d \in seen' : d \in seen \/ d = disk'
         /\ UNCHANGED <<cached, holder, call>>
         /\ \A x \in 0..Versions : x <= disk.model => x <= disk'.model
         /\ \A x \in 0..Shards : x <= disk.shard => x <= disk'.shard
  <1>1. disk \in DiskState /\ seen \subseteq DiskState /\ Versions \in Nat /\ Shards \in Nat
    BY Numbers DEF CatalogueInv, CatalogueTypes
  <1>2. /\ disk' \in DiskState /\ disk.model <= disk'.model /\ disk.shard <= disk'.shard
        /\ disk.model \in 0..Versions /\ disk.shard \in 0..Shards
        /\ disk'.model \in 0..Versions /\ disk'.shard \in 0..Shards
    <2>1. CASE disk.model < Versions /\ disk' = [disk EXCEPT !.model = @ + 1]
      BY <1>1, <2>1 DEF DiskState
    <2>2. CASE disk.shard < Shards /\ disk' = [disk EXCEPT !.shard = @ + 1]
      BY <1>1, <2>2 DEF DiskState
    <2> QED BY <2>1, <2>2 DEF Change
  <1> QED BY <1>1, <1>2 DEF Change

LEMMA ConsistentStays ==
  ASSUME NEW found, Consistent(found), seen \subseteq seen'
  PROVE  \E d \in seen' : /\ found.model = d.model
                          /\ found.shard = IF found.model \in Indexed THEN d.shard ELSE None
  BY DEF Consistent

LEMMA ChangeKeeps ==
  ASSUME CatalogueInv, Change
  PROVE  CatalogueInv'
  <1> USE Later
  <1>1. CatalogueTypes'
    BY DEF CatalogueInv, CatalogueTypes
  <1>2. Ordered'
    <2> SUFFICES ASSUME NEW d \in seen'
                 PROVE  d.model <= disk'.model /\ d.shard <= disk'.shard
      BY DEF Ordered
    <2>1. CASE d \in seen
      <3>1. d.model \in 0..Versions /\ d.shard \in 0..Shards
        BY <2>1 DEF DiskState
      <3> QED BY <2>1, <3>1 DEF CatalogueInv, Ordered
    <2>2. CASE d = disk'
      BY <2>2, Numbers DEF DiskState
    <2> QED BY <2>1, <2>2
  <1>3. ASSUME NEW w \in Caller PROVE Look(w)'
    <2> DEFINE c == call[w]
    <2>1. Look(w) /\ c \in CallRecord /\ c' = c
      BY DEF CatalogueInv, Looks, CatalogueTypes
    <2>2. /\ c.read \in 0..Versions \cup {None}
          /\ c.generation.model \in 0..Versions \cup {None}
          /\ c.generation.shard \in 0..Shards \cup {None}
          /\ c.found.model \in 0..Versions \cup {None}
          /\ c.found.shard \in 0..Shards \cup {None}
      BY <2>1 DEF CallRecord, Files
    <2>3. Consistent(c.found) => Consistent(c.found)'
      BY <2>1, ConsistentStays DEF Consistent
    <2>4. /\ disk.model \in 0..Versions /\ disk.shard \in 0..Shards
          /\ disk'.model \in 0..Versions /\ disk'.shard \in 0..Shards
      BY DEF DiskState, CatalogueInv, CatalogueTypes
    <2>5. c.generation.model < disk.model /\ c.generation.model # None =>
              c.generation.model < disk'.model
      BY <2>2, <2>4, Numbers
    <2> HIDE DEF c
    <2> QED BY <2>1, <2>2, <2>3, <2>5 DEF Look, c
  <1>4. CacheInv'
    BY ConsistentStays DEF CatalogueInv, CacheInv, CacheConsistent, Consistent
  <1> QED BY <1>1, <1>2, <1>3, <1>4 DEF CatalogueInv, Looks

\* A call begins, or its result is taken.
LEMMA CallerKeeps ==
  ASSUME CatalogueInv, NEW w \in Caller, NEW op \in Op, NEW expected \in Files,
         \/ call' = [call EXCEPT ![w].stage = "lock", ![w].op = op, ![w].expected = expected]
         \/ Taken(w),
         UNCHANGED <<disk, seen, cached, holder>>
  PROVE  CatalogueInv'
  <1>0. call \in [Caller -> CallRecord] /\ call[w] \in CallRecord /\ Nothing \in Files
        /\ 0 \in 0..Attempts - 1
    BY Numbers DEF CatalogueInv, CatalogueTypes, Nothing, Files
  <1>1. /\ \/ call'[w] = [call[w] EXCEPT !.stage = "lock", !.op = op, !.expected = expected]
           \/ call'[w] = [call[w] EXCEPT !.stage = "idle", !.found = Nothing, !.expected = Nothing,
                                         !.generation = Nothing, !.shards = FALSE,
                                         !.first = FALSE, !.tries = 0]
        /\ \A v \in Caller \ {w} : call'[v] = call[v]
        /\ call' = [v \in Caller |-> call'[v]]
    BY <1>0 DEF Taken
  <1>2. call'[w] \in CallRecord
    BY <1>0, <1>1 DEF CallRecord, Stage
  <1>3. CatalogueTypes'
    <2>1. call' \in [Caller -> CallRecord]
      BY <1>0, <1>1, <1>2
    <2> QED BY <2>1 DEF CatalogueInv, CatalogueTypes
  <1>4. Look(w)'
    <2>1. call'[w].stage \in {"idle", "lock"} /\ call'[w].read = call[w].read
      BY <1>0, <1>1 DEF CallRecord
    <2>2. call[w].read # None => call[w].read <= disk.model
      BY DEF CatalogueInv, Looks, Look
    <2> QED BY <2>1, <2>2 DEF Look
  <1>5. CacheInv'
    BY DEF CatalogueInv, CacheInv, CacheConsistent, Consistent
  <1> QED BY <1>1, <1>3, <1>4, <1>5, CallKeeps

\* A call that goes on keeps what was asked, and other calls are left alone.
LEMMA CallGoesOn ==
  ASSUME CatalogueInv, NEW w \in Caller, CatalogueStep(w)
  PROVE  /\ UNCHANGED <<disk, seen>>
         /\ call[w].stage # "idle" /\ call'[w].stage # "idle"
         /\ call'[w].op = call[w].op /\ call'[w].expected = call[w].expected
         /\ \A v \in Caller \ {w} : call'[v] = call[v]
  <1>1. call \in [Caller -> CallRecord] /\ call[w] \in CallRecord
    BY DEF CatalogueInv, CatalogueTypes
  <1>2. CASE Acquire(w)
    <2>1. call[w].op \in Op
      BY <1>1 DEF CallRecord
    <2> QED BY <1>1, <1>2, <2>1 DEF Acquire, CallRecord, Op
  <1>3. CASE ReadModel(w)
    BY <1>1, <1>3 DEF ReadModel, CallRecord, Reads
  <1>4. ASSUME NEW t \in Stage \ {"idle"}, Goto(w, t)
        PROVE  /\ call'[w].stage = t
               /\ call'[w].op = call[w].op /\ call'[w].expected = call[w].expected
               /\ \A v \in Caller \ {w} : call'[v] = call[v]
    BY <1>1, <1>4 DEF Goto, CallRecord
  <1>5. ASSUME NEW t \in {"ok", "after"}, NEW value,
               call' = [call EXCEPT ![w].stage = t, ![w].found = value, ![w].read = None]
        PROVE  /\ call'[w].stage = t
               /\ call'[w].op = call[w].op /\ call'[w].expected = call[w].expected
               /\ \A v \in Caller \ {w} : call'[v] = call[v]
    BY <1>1, <1>5 DEF CallRecord
  <1>6. CASE Unusable(w) \/ Failed(w) \/ ScanFails(w) \/ Discard(w) \/ Before(w)
    BY <1>4, <1>6 DEF Unusable, Failed, ScanFails, Discard, Before, Fail, Complete, Captured,
                      Reads, Stage
  <1>7. CASE Generation(w) \/ After(w)
    <2>1. CASE Generation(w)
      BY <1>5, <2>1 DEF Generation, Return, Complete, Captured
    <2>2. CASE After(w)
      <3>1. CASE Expected(w)
        BY <1>5, <2>2, <3>1 DEF After, Return, Complete, Captured
      <3>2. CASE ~Expected(w)
        BY <1>4, <2>2, <3>2 DEF After, Fail, Complete, Captured, Stage
      <3> QED BY <3>1, <3>2
    <2> QED BY <1>7, <2>1, <2>2
  <1>8. CASE Hit(w) \/ Keep(w)
    BY <1>5, <1>8 DEF Hit, Keep, Resolved, Complete, Captured
  <1>9. CASE Miss(w) \/ Retry(w) \/ ScanEnds(w)
    BY <1>1, <1>4, <1>9 DEF Miss, Retry, ScanEnds, Fail, Complete, Captured, CallRecord, Stage
  <1> QED BY <1>2, <1>3, <1>6, <1>7, <1>8, <1>9 DEF CatalogueStep

\* Steps that leave the catalogue alone.
LEMMA CatalogueStays == CatalogueInv /\ UNCHANGED catalogueVars => CatalogueInv'
  BY DEF CatalogueInv, CatalogueTypes, Ordered, Looks, Look, CacheInv, CacheConsistent, Consistent

-----------------------------------------------------------------------------
(* The sessions keep theirs.                                               *)

\* A snapshot stays one.
LEMMA SnapshotStays ==
  ASSUME NEW source, Snapshot(source), seen \subseteq seen'
  PROVE  /\ source \in Source /\ source.content.model = source.found.model
         /\ source.found.shard # None => source.content.shard = source.found.shard
         /\ \E d \in seen' : /\ source.found.model = d.model
                             /\ source.found.shard = IF source.found.model \in Indexed
                                                     THEN d.shard ELSE None
  BY DEF Snapshot, Consistent

\* The files go on, and the catalogue with them.
LEMMA FilesKeep ==
  ASSUME CatalogueInv, SessionInv, UNCHANGED sessionVars,
         Change \/ UNCHANGED <<disk, seen>>
  PROVE  SessionInv'
  <1>1. CASE UNCHANGED <<disk, seen>>
    BY <1>1 DEF SessionInv, SessionTypes, Bound, Snapshot, Consistent, Taking, Between, Needed,
                Creators, Consuming, Numbered, Attended, Awaited
  <1>2. CASE Change
    <2> USE Later
    <2>1. /\ disk.model \in 0..Versions /\ disk.shard \in 0..Shards
          /\ disk'.model \in 0..Versions /\ disk'.shard \in 0..Shards
          /\ disk.model <= disk'.model /\ disk.shard <= disk'.shard
          /\ seen \subseteq seen'
      BY <1>2 DEF CatalogueInv, CatalogueTypes, DiskState
    <2>2. ASSUME NEW d \in DiskState, d.model <= disk.model, d.shard <= disk.shard
          PROVE  d.model <= disk'.model /\ d.shard <= disk'.shard
      BY <1>2, <2>2 DEF DiskState
    <2>3. ASSUME NEW c \in Caller PROVE Taking(c)'
      <3>1. /\ Taking(c) /\ req'[c] = req[c] /\ consumer'[c] = consumer[c]
            /\ consumer[c].chunk \in DiskState \cup {None}
            /\ Consistent(req[c].source.found) => Consistent(req[c].source.found)'
            /\ Snapshot(req[c].source) => Snapshot(req[c].source)'
        BY <2>1, ConsistentStays, SnapshotStays
           DEF SessionInv, SessionTypes, Bound, Consumer, Consistent, Snapshot
      <3>2. req[c].source \in Source => req[c].source.content \in DiskState
        BY DEF Source
      <3>3. /\ req[c].source \in Source /\ Between(req[c].source.found, req[c].source.content) =>
                 Between(req[c].source.found, req[c].source.content)'
            /\ consumer[c].chunk # None /\ Between(req[c].source.found, consumer[c].chunk) =>
                 Between(req[c].source.found, consumer[c].chunk)'
        BY <2>2, <3>1, <3>2 DEF Between
      <3> QED BY <3>1, <3>3 DEF Taking
    <2>4. Bound'
      BY <2>1, <2>3, SnapshotStays DEF SessionInv, Bound, Snapshot, Consistent
    <2> QED BY <2>4 DEF SessionInv, SessionTypes, Needed, Creators, Consuming, Numbered, Attended,
                        Awaited
  <1> QED BY <1>1, <1>2

LEMMA Counts ==
  ASSUME SessionInv
  PROVE  /\ Requests \in Nat /\ MaxSession \in Nat /\ created \in 0..MaxSession
         /\ IsFiniteSet(Creators) /\ Cardinality(Creators) \in Nat
  <1>1. Creators \subseteq Caller
    BY DEF Creators
  <1> QED BY <1>1, SessionsAssumption, FS_Subset, FS_CardinalityType DEF SessionInv, SessionTypes

\* A request goes on, without a consumer and without a new session.
LEMMA RequestMoves ==
  ASSUME SessionInv, NEW c \in Caller,
         UNCHANGED <<disk, seen, table, created, consumer, running, closed>>,
         retiring' \subseteq Key,
         \A d \in Caller : consumer[d].state = "live" => consumer[d].key \notin retiring',
         made' \in [Caller -> 0..Requests], req' \in [Caller -> Request],
         \A d \in Caller \ {c} : req'[d] = req[d],
         req[c].stage # "streaming", req'[c].stage \notin {"streaming", "deleting"},
         Taking(c)',
         req'[c].kind = "create" <=> req'[c].stage \in Creating,
         req'[c].kind = "create" => req[c].kind = "create"
  PROVE  SessionInv'
  <1> USE DEF SessionInv
  <1>1. SessionTypes'
    BY DEF SessionTypes
  <1>2. ASSUME NEW d \in Caller PROVE Taking(d)'
    <2>1. CASE d # c
      BY <2>1 DEF Bound, Taking, Snapshot, Between, Consistent
    <2> QED BY <2>1
  <1>3. Bound' /\ Needed'
    BY <1>2 DEF Bound, Snapshot, Consistent, Needed
  <1>4. created' + Cardinality(Creators)' <= MaxSession
    <2>1. Creators' \subseteq Creators
      BY DEF Creators
    <2>2. Cardinality(Creators)' <= Cardinality(Creators) /\ Cardinality(Creators)' \in Nat
      BY <2>1, Counts, FS_Subset, FS_CardinalityType
    <2> QED BY <2>2, Counts
  <1>5. ASSUME NEW d \in Caller PROVE (Consuming(d) /\ Numbered(d) /\ Attended(d) /\ Awaited(d))'
    <2>1. CASE d # c
      BY <2>1 DEF Consuming, Numbered, Attended, Awaited
    <2>2. CASE d = c
      BY <2>2 DEF Consuming, Numbered, Attended, Awaited
    <2> QED BY <2>1, <2>2
  <1> QED BY <1>1, <1>3, <1>4, <1>5

LEMMA RequestKeeps ==
  ASSUME SessionInv, NEW c \in Caller, UNCHANGED <<disk, seen, table, created, runtimeVars>>,
         made' \in [Caller -> 0..Requests], req' \in [Caller -> Request],
         \A d \in Caller \ {c} : req'[d] = req[d],
         req[c].stage # "streaming", req'[c].stage \notin {"streaming", "deleting"},
         Taking(c)',
         req'[c].kind = "create" <=> req'[c].stage \in Creating,
         req'[c].kind = "create" => req[c].kind = "create"
  PROVE  SessionInv'
  <1>1. /\ retiring' \subseteq Key
        /\ \A d \in Caller : consumer[d].state = "live" => consumer[d].key \notin retiring'
    BY DEF SessionInv, SessionTypes, Attended
  <1> QED BY <1>1, RequestMoves

\* What is known of one request, and of its consumer.
LEMMA Mine ==
  ASSUME SessionInv, NEW c \in Caller
  PROVE  /\ req \in [Caller -> Request] /\ req[c] \in Request /\ Taking(c) /\ Numbered(c)
         /\ consumer \in [Caller -> Consumer] /\ consumer[c] \in Consumer /\ Consuming(c)
         /\ req[c].stage # "streaming" => consumer[c] = NoConsumer /\ consumer[c].chunk = None
  BY DEF SessionInv, SessionTypes, Bound, Consuming, NoConsumer

\* An answer, perhaps while a flight is given up that nobody needs.
LEMMA RespondMoves ==
  ASSUME SessionInv, NEW c \in Caller, Respond(c), req[c].stage # "streaming",
         retiring' \subseteq Key,
         \A d \in Caller : consumer[d].state = "live" => consumer[d].key \notin retiring',
         UNCHANGED <<disk, seen, table, created, made, consumer, running, closed>>
  PROVE  SessionInv'
  <1>1. Idle \in Request
    BY DEF Idle, Request, RequestStage, RequestKind
  <1>2. /\ req' \in [Caller -> Request] /\ req'[c] = Idle
        /\ \A d \in Caller \ {c} : req'[d] = req[d]
    BY <1>1, Mine DEF Respond
  <1>3. Taking(c)'
    BY <1>2, Mine DEF Taking, Idle, Using
  <1>4. made' \in [Caller -> 0..Requests]
    BY DEF SessionInv, SessionTypes
  <1> QED BY <1>2, <1>3, <1>4, RequestMoves DEF Idle, Creating

LEMMA RespondKeeps ==
  ASSUME SessionInv, NEW c \in Caller, Respond(c), req[c].stage # "streaming",
         UNCHANGED <<disk, seen, table, created, made, runtimeVars>>
  PROVE  SessionInv'
  <1>1. /\ retiring' \subseteq Key
        /\ \A d \in Caller : consumer[d].state = "live" => consumer[d].key \notin retiring'
    BY DEF SessionInv, SessionTypes, Attended
  <1> QED BY <1>1, RespondMoves

\* A request at another stage is as it was otherwise.
LEMMA StageChanges ==
  ASSUME NEW c \in Caller, NEW stage \in RequestStage, req \in [Caller -> Request],
         req' = [req EXCEPT ![c].stage = stage]
  PROVE  /\ req' \in [Caller -> Request]
         /\ req'[c].stage = stage /\ req'[c].kind = req[c].kind
         /\ req'[c].source = req[c].source /\ req'[c].session = req[c].session
         /\ \A d \in Caller \ {c} : req'[d] = req[d]
  BY DEF Request

\* A request with its source goes to another stage.
LEMMA AdvanceKeeps ==
  ASSUME SessionInv, NEW c \in Caller, NEW stage \in Using \ {"streaming"}, Advance(c, stage),
         req[c].stage \in Using \ {"streaming"},
         UNCHANGED <<disk, seen, table, created, made, runtimeVars>>
  PROVE  SessionInv'
  <1>1. /\ req' \in [Caller -> Request]
        /\ req'[c].stage = stage /\ req'[c].kind = req[c].kind
        /\ req'[c].source = req[c].source /\ req'[c].session = req[c].session
        /\ \A d \in Caller \ {c} : req'[d] = req[d]
    BY Mine DEF Advance, Request, RequestStage, Using
  <1>2. Taking(c)'
    BY <1>1, Mine DEF Taking, Snapshot, Consistent, Using
  <1>3. req[c].kind # "create"
    BY Mine DEF Numbered, Creating, Using
  <1>4. made' \in [Caller -> 0..Requests]
    BY DEF SessionInv, SessionTypes
  <1> QED BY <1>1, <1>2, <1>3, <1>4, RequestKeeps DEF Using, Creating

LEMMA GuardedKeeps ==
  ASSUME SessionInv, NEW c \in Caller, Checked(c) \/ Resolve(c) \/ Rechecked(c)
  PROVE  SessionInv'
  <1>1. PICK from \in Using \ {"streaming"}, to \in Using \ {"streaming"} : Guarded(c, from, to)
    BY DEF Checked, Resolve, Rechecked, Using
  <1>2. /\ req[c].stage = from /\ (Advance(c, to) \/ Respond(c))
        /\ UNCHANGED <<disk, seen, table, created, made, runtimeVars>>
    BY <1>1 DEF Guarded
  <1> QED BY <1>1, <1>2, RespondKeeps, AdvanceKeeps

\* The hash follows the discovery, and the stat follows the hash.
LEMMA HashKeeps ==
  ASSUME CatalogueInv, Resolving, SessionInv, NEW c \in Caller, Hash(c)
  PROVE  SessionInv'
  <1> DEFINE source == [found |-> call[c].found, content |-> disk]
  <1>1. /\ call[c].found \in Files /\ Consistent(call[c].found)
        /\ disk \in DiskState /\ seen \subseteq DiskState
    BY DEF CatalogueInv, CatalogueTypes, CallRecord, Looks, Look, Resolving, Hash
  <1>2. source \in Source
    BY <1>1 DEF Source
  <1>3. /\ req' = [req EXCEPT ![c].stage = "hashed", ![c].source = source]
        /\ req[c].stage = "pin"
    BY DEF Hash
  <1>4. Between(source.found, source.content)
    <2>1. PICK d \in seen : /\ source.found.model = d.model
                            /\ source.found.shard = IF source.found.model \in Indexed
                                                    THEN d.shard ELSE None
      BY <1>1 DEF Consistent
    <2>2. d.model <= disk.model /\ d.shard <= disk.shard
      BY DEF CatalogueInv, Ordered
    <2>3. disk.model <= disk.model /\ disk.shard <= disk.shard
      BY <1>1, Numbers DEF DiskState
    <2> QED BY <2>1, <2>2, <2>3 DEF Between
  <1> HIDE DEF source
  <1>5. /\ req' \in [Caller -> Request]
        /\ req'[c].stage = "hashed" /\ req'[c].source = source /\ req'[c].kind = req[c].kind
        /\ \A d \in Caller \ {c} : req'[d] = req[d]
    BY <1>2, <1>3, Mine DEF Request, RequestStage, Creating
  <1>6. UNCHANGED <<disk, seen, table, created, made, runtimeVars>>
    BY DEF Hash
  <1>7. Taking(c)'
    <2>1. Consistent(source.found) /\ consumer[c].chunk = None
      BY <1>1, <1>3, Mine DEF source
    <2> QED BY <1>2, <1>4, <1>5, <1>6, <2>1 DEF Taking, Consistent, Between, Using
  <1>8. req[c].kind = "create" /\ made' \in [Caller -> 0..Requests]
    BY <1>3, <1>6, Mine DEF Numbered, Creating, SessionInv, SessionTypes
  <1> QED BY <1>3, <1>5, <1>6, <1>7, <1>8, RequestKeeps DEF Creating

LEMMA PinKeeps ==
  ASSUME CatalogueInv, SessionInv, NEW c \in Caller, Pin(c)
  PROVE  SessionInv'
  <1>1. /\ req[c].stage = "hashed" /\ Repinned(c) /\ Advance(c, "insert")
        /\ UNCHANGED <<disk, seen, table, created, made, runtimeVars>>
    BY DEF Pin
  <1>2. /\ req' \in [Caller -> Request]
        /\ req'[c].stage = "insert" /\ req'[c].source = req[c].source /\ req'[c].kind = req[c].kind
        /\ \A d \in Caller \ {c} : req'[d] = req[d]
    BY <1>1, Mine DEF Advance, Request, RequestStage, Creating
  <1>3. Snapshot(req[c].source)
    <2> DEFINE found == req[c].source.found
               content == req[c].source.content
    <2>1. /\ req[c].source \in Source /\ Consistent(found) /\ Between(found, content)
          /\ content \in DiskState /\ found \in Files /\ disk \in DiskState
      BY <1>1, Mine DEF Taking, Source, CatalogueInv, CatalogueTypes
    <2>2. disk.model = found.model /\ (found.shard # None => disk.shard = found.shard)
      BY <1>1 DEF Repinned, Unchanged
    <2>3. content.model = found.model
      BY <2>1, <2>2, Numbers DEF Between, DiskState
    <2>4. found.shard # None => content.shard = found.shard
      BY <2>1, <2>2, Numbers DEF Between, DiskState
    <2> QED BY <2>1, <2>3, <2>4 DEF Snapshot
  <1>4. Taking(c)'
    BY <1>1, <1>2, <1>3, Mine DEF Taking, Snapshot, Consistent, Using
  <1>5. req[c].kind = "create" /\ made' \in [Caller -> 0..Requests]
    BY <1>1, Mine DEF Numbered, Creating, SessionInv, SessionTypes
  <1> QED BY <1>1, <1>2, <1>4, <1>5, RequestKeeps DEF Creating

LEMMA BeginKeeps ==
  ASSUME SessionInv, NEW c \in Caller, Begin(c)
  PROVE  SessionInv'
  <1>1. PICK s \in SessionId, kind \in Kinds \ {"create", "delete"} :
          /\ table[s] # None
          /\ req' = [req EXCEPT ![c] = [stage |-> "check", kind |-> kind, session |-> s,
                                        source |-> table[s], waits |-> {}]]
    BY DEF Begin
  <1>2. /\ Snapshot(table[s]) /\ table[s] \in Source /\ kind \in RequestKind /\ s # None
        /\ req[c].stage = "idle"
        /\ UNCHANGED <<disk, seen, table, created, runtimeVars>>
    BY <1>1, SessionsAssumption, CatalogueAssumption
       DEF SessionInv, Bound, Snapshot, Begin, SessionId
  <1>3. [stage |-> "check", kind |-> kind, session |-> s, source |-> table[s], waits |-> {}]
          \in Request
    BY <1>2 DEF Request, RequestStage, Using
  <1>4. /\ req' \in [Caller -> Request]
        /\ req'[c].stage = "check" /\ req'[c].source = table[s] /\ req'[c].session = s
        /\ req'[c].kind = kind
        /\ \A d \in Caller \ {c} : req'[d] = req[d]
    BY <1>1, <1>3, Mine
  <1>5. Taking(c)'
    BY <1>2, <1>4, Mine DEF Taking, Snapshot, Consistent, Using
  <1>6. made' \in [Caller -> 0..Requests]
    <2>1. made \in [Caller -> 0..Requests] /\ made[c] + 1 \in 0..Requests
      BY Counts DEF SessionInv, SessionTypes, Begin
    <2> QED BY <2>1 DEF Begin
  <1> QED BY <1>1, <1>2, <1>4, <1>5, <1>6, RequestKeeps DEF Creating

-----------------------------------------------------------------------------
(* Creations.                                                              *)

LEMMA CreateKeeps ==
  ASSUME SessionInv, NEW c \in Caller, Create(c)
  PROVE  SessionInv'
  <1> USE DEF SessionInv
  <1>1. /\ req' = [req EXCEPT ![c].stage = "pin", ![c].kind = "create"]
        /\ req[c].stage = "idle"
        /\ UNCHANGED <<disk, seen, table, created, runtimeVars>>
        /\ created + Cardinality(Creators) < MaxSession
    BY DEF Create, Creators
  <1>2. /\ req' \in [Caller -> Request]
        /\ req'[c].stage = "pin" /\ req'[c].kind = "create"
        /\ \A d \in Caller \ {c} : req'[d] = req[d]
    BY <1>1, Mine DEF Request, RequestStage, Creating, RequestKind
  <1>3. made' \in [Caller -> 0..Requests]
    <2>1. made \in [Caller -> 0..Requests] /\ made[c] + 1 \in 0..Requests
      BY Counts DEF SessionTypes, Create
    <2> QED BY <2>1 DEF Create
  <1>4. SessionTypes'
    BY <1>1, <1>2, <1>3 DEF SessionTypes
  <1>5. Taking(c)'
    BY <1>1, <1>2, Mine DEF Taking, Using
  <1>6. Bound' /\ Needed'
    BY <1>1, <1>2, <1>5 DEF Bound, Taking, Snapshot, Between, Consistent, Needed
  <1>7. created' + Cardinality(Creators)' <= MaxSession
    <2>1. Creators' = Creators \cup {c} /\ c \notin Creators
      BY <1>1, <1>2, Mine DEF Creators, Numbered, Creating
    <2>2. Cardinality(Creators)' = Cardinality(Creators) + 1
      BY <2>1, Counts, FS_AddElement
    <2> QED BY <1>1, <2>2, Counts
  <1>8. ASSUME NEW d \in Caller PROVE (Consuming(d) /\ Numbered(d) /\ Attended(d) /\ Awaited(d))'
    <2>1. CASE d # c
      BY <1>1, <1>2, <2>1 DEF Consuming, Numbered, Attended, Awaited
    <2>2. CASE d = c
      BY <1>1, <1>2, <2>2 DEF Consuming, Numbered, Attended, Awaited, Creating
    <2> QED BY <2>1, <2>2
  <1> QED BY <1>4, <1>6, <1>7, <1>8

\* A new id is free, and has not been deleted.
LEMMA InsertKeeps ==
  ASSUME SessionInv, NEW c \in Caller, Insert(c)
  PROVE  SessionInv'
  <1> USE DEF SessionInv
  <1>1. /\ req[c].stage = "insert" /\ Snapshot(req[c].source) /\ req[c].kind = "create"
        /\ created' = created + 1
        /\ table' = [table EXCEPT ![created + 1] = req[c].source]
        /\ UNCHANGED <<disk, seen, made, runtimeVars>>
    BY Mine DEF Insert, Taking, Numbered, Creating
  <1>2. Idle \in Request
    BY DEF Idle, Request, RequestStage, RequestKind
  <1>3. /\ req' \in [Caller -> Request] /\ req'[c] = Idle
        /\ \A d \in Caller \ {c} : req'[d] = req[d]
    BY <1>2, Mine DEF Insert, Respond
  <1>4. c \in Creators /\ Creators' = Creators \ {c}
    BY <1>1, <1>3 DEF Creators, Idle
  <1>5. Cardinality(Creators)' = Cardinality(Creators) - 1
    BY <1>4, Counts, FS_RemoveElement
  <1>6. /\ created' + Cardinality(Creators)' <= MaxSession
        /\ Cardinality(Creators)' \in Nat
    BY <1>1, <1>4, <1>5, Counts, FS_RemoveElement, FS_CardinalityType
  <1>7. created + 1 \in SessionId /\ created' \in 0..MaxSession
    BY <1>1, <1>6, Counts DEF SessionId
  <1>8. SessionTypes'
    BY <1>1, <1>3, <1>7 DEF SessionTypes, Snapshot
  <1>9. \A s \in SessionId : table'[s] = IF s = created + 1 THEN req[c].source ELSE table[s]
    BY <1>1, <1>7 DEF SessionTypes
  <1>10. \A s \in SessionId : s <= created => s # created + 1 /\ s <= created'
    BY <1>1, Counts DEF SessionId
  <1>11. Bound'
    <2>1. ASSUME NEW d \in Caller PROVE Taking(d)'
      <3>1. CASE d # c
        BY <1>1, <1>3, <3>1 DEF Bound, Taking, Snapshot, Between, Consistent
      <3>2. CASE d = c
        BY <1>1, <1>3, <3>2, Mine DEF Taking, Idle, Using
      <3> QED BY <3>1, <3>2
    <2>2. ASSUME NEW s \in SessionId, table'[s] # None PROVE Snapshot(table[s])' /\ s <= created'
      <3>1. CASE s = created + 1
        BY <1>1, <1>9, <3>1, Counts DEF Snapshot, Consistent, SessionId
      <3>2. CASE s # created + 1
        BY <1>1, <1>9, <1>10, <2>2, <3>2 DEF Bound, Snapshot, Consistent
      <3> QED BY <3>1, <3>2
    <2> QED BY <2>1, <2>2 DEF Bound
  <1>12. ASSUME NEW d \in Caller PROVE (Consuming(d) /\ Numbered(d) /\ Attended(d) /\ Awaited(d))'
    <2>0. consumer[d].session \in SessionId \cup {None} /\ req[d].session \in SessionId \cup {None}
      BY DEF SessionTypes, Consumer, Request
    <2>1. Consuming(d)'
      BY <1>1, <1>3 DEF Consuming, Idle
    <2>2. Numbered(d)'
      <3>1. CASE d # c
        BY <1>1, <1>3, <1>9, <1>10, <2>0, <3>1 DEF Numbered
      <3>2. CASE d = c
        BY <1>3, <3>2 DEF Numbered, Idle, Creating
      <3> QED BY <3>1, <3>2
    <2>3. Attended(d)'
      <3> SUFFICES ASSUME consumer[d].state = "live" PROVE Attended(d)'
        BY <1>1 DEF Attended
      <3>1. consumer[d].session \in SessionId /\ table[consumer[d].session] # None
        BY <2>0, Mine DEF Attended, Consuming, Taking, Using
      <3>2. table'[consumer[d].session] # None
        BY <1>9, <1>10, <3>1 DEF Bound
      <3> QED BY <1>1, <3>2 DEF Attended
    <2>4. Awaited(d)'
      BY <1>1, <1>3 DEF Awaited, Idle
    <2> QED BY <2>1, <2>2, <2>3, <2>4
  <1> QED BY <1>1, <1>6, <1>8, <1>11, <1>12 DEF Needed

-----------------------------------------------------------------------------
(* Consumers.                                                              *)

\* Cancelling consumers retires the flights that only they needed.
LEMMA Cancelling ==
  ASSUME SessionInv, NEW cs \in SUBSET Caller, \A c \in cs : consumer[c].state = "live",
         Cancelled(cs)
  PROVE  /\ consumer' \in [Caller -> Consumer] /\ running' \subseteq Key /\ retiring' \subseteq Key
         /\ \A c \in Caller \ cs : consumer'[c] = consumer[c]
         /\ \A c \in cs : /\ consumer'[c].state = "cancelled" /\ consumer'[c].key = consumer[c].key
                          /\ consumer'[c].session = consumer[c].session
                          /\ consumer'[c].chunk = consumer[c].chunk
         /\ \A c \in Caller \ cs : consumer[c].state = "live" => consumer[c].key \notin retiring'
         /\ Needed'
  <1>1. consumer \in [Caller -> Consumer] /\ running \subseteq Key /\ retiring \subseteq Key
    BY DEF SessionInv, SessionTypes
  <1>2. /\ consumer' \in [Caller -> Consumer]
        /\ \A c \in Caller \ cs : consumer'[c] = consumer[c]
        /\ \A c \in cs : /\ consumer'[c].state = "cancelled" /\ consumer'[c].key = consumer[c].key
                         /\ consumer'[c].session = consumer[c].session
                         /\ consumer'[c].chunk = consumer[c].chunk
    BY <1>1 DEF Cancelled, Consumer
  <1>3. \A c \in Caller \ cs : consumer[c].state = "live" =>
          consumer[c].key \notin {consumer[d].key : d \in cs}
                                   \ {consumer[d].key : d \in {d \in Caller \ cs : consumer[d].state = "live"}}
    OBVIOUS
  <1>4. \A c \in Caller \ cs : consumer[c].state = "live" => consumer[c].key \notin retiring'
    BY <1>3 DEF Cancelled, SessionInv, Attended
  <1>5. Needed'
    <2> SUFFICES ASSUME NEW k \in running'
                 PROVE  \E c \in Caller : consumer'[c].state = "live" /\ consumer'[c].key = k
      BY DEF Needed
    <2>1. PICK c \in Caller : consumer[c].state = "live" /\ consumer[c].key = k
      BY DEF Cancelled, SessionInv, Needed
    <2>2. CASE c \in cs
      <3>1. k \in {consumer[d].key : d \in {d \in Caller \ cs : consumer[d].state = "live"}}
        BY <2>1, <2>2 DEF Cancelled
      <3> QED BY <1>2, <3>1
    <2>3. CASE c \notin cs
      BY <1>2, <2>1, <2>3
    <2> QED BY <2>2, <2>3
  <1> QED BY <1>1, <1>2, <1>4, <1>5 DEF Cancelled

\* A step of consumers under requests that stay.
LEMMA ConsumersKeep ==
  ASSUME SessionInv, UNCHANGED <<disk, seen, table, created, made, req, closed>>,
         consumer' \in [Caller -> Consumer], running' \subseteq Key, retiring' \subseteq Key,
         Needed',
         \A c \in Caller :
            \/ consumer'[c] = consumer[c]
            \/ /\ consumer[c].state # "none" /\ consumer'[c].state # "none"
               /\ consumer'[c].state = "live" => consumer[c].state = "live"
               /\ consumer'[c].session = consumer[c].session
               /\ consumer'[c].key = consumer[c].key
               /\ consumer'[c].chunk # None => Between(req[c].source.found, consumer'[c].chunk),
         \A c \in Caller : consumer'[c].state = "live" => consumer[c].key \notin retiring'
  PROVE  SessionInv'
  <1> USE DEF SessionInv
  <1>1. SessionTypes'
    BY DEF SessionTypes
  <1>2. Bound'
    BY DEF Bound, Taking, Snapshot, Between, Consistent
  <1>3. ASSUME NEW c \in Caller PROVE (Consuming(c) /\ Numbered(c) /\ Attended(c) /\ Awaited(c))'
    <2>1. Consuming(c)' /\ Numbered(c)'
      BY DEF Consuming, Numbered
    <2>2. Attended(c)'
      BY DEF Attended
    <2>3. Awaited(c)'
      BY DEF Awaited
    <2> QED BY <2>1, <2>2, <2>3
  <1> QED BY <1>1, <1>2, <1>3 DEF Creators

LEMMA CloseKeeps ==
  ASSUME SessionInv, NEW c \in Caller, Close(c)
  PROVE  SessionInv'
  <1>1. /\ consumer[c].state = "live" /\ Cancelled({c})
        /\ UNCHANGED <<disk, seen, table, created, made, req, closed>>
    BY DEF Close
  <1>2. /\ consumer' \in [Caller -> Consumer] /\ running' \subseteq Key /\ retiring' \subseteq Key
        /\ \A d \in Caller \ {c} : consumer'[d] = consumer[d]
        /\ consumer'[c].state = "cancelled" /\ consumer'[c].key = consumer[c].key
        /\ consumer'[c].session = consumer[c].session /\ consumer'[c].chunk = consumer[c].chunk
        /\ \A d \in Caller \ {c} : consumer[d].state = "live" => consumer[d].key \notin retiring'
        /\ Needed'
    BY <1>1, Cancelling
  <1> QED BY <1>1, <1>2, Mine, ConsumersKeep DEF Taking

LEMMA ReadingKeeps ==
  ASSUME CatalogueInv, SessionInv, NEW c \in Caller, Read(c)
  PROVE  SessionInv'
  <1>1. /\ disk \in DiskState /\ consumer[c] \in Consumer /\ consumer[c].state = "live"
        /\ req[c].stage = "streaming"
        /\ consumer' = [consumer EXCEPT ![c].chunk = disk]
        /\ UNCHANGED <<disk, seen, table, created, made, req, closed, running, retiring>>
    BY Mine DEF Read, CatalogueInv, CatalogueTypes
  <1>2. /\ consumer' \in [Caller -> Consumer]
        /\ \A d \in Caller \ {c} : consumer'[d] = consumer[d]
        /\ consumer'[c].state = "live" /\ consumer'[c].key = consumer[c].key
        /\ consumer'[c].session = consumer[c].session /\ consumer'[c].chunk = disk
    BY <1>1, Mine DEF Consumer
  <1>3. Between(req[c].source.found, disk)
    <2>1. Consistent(req[c].source.found)
      BY <1>1, Mine DEF Taking, Snapshot, Using
    <2>2. PICK d \in seen :
            /\ req[c].source.found.model = d.model
            /\ req[c].source.found.shard = IF req[c].source.found.model \in Indexed
                                           THEN d.shard ELSE None
      BY <2>1 DEF Consistent
    <2>3. d.model <= disk.model /\ d.shard <= disk.shard
      BY DEF CatalogueInv, Ordered
    <2>4. disk.model <= disk.model /\ disk.shard <= disk.shard
      BY <1>1, Numbers DEF DiskState
    <2> QED BY <2>2, <2>3, <2>4 DEF Between
  <1>4. Needed' /\ \A d \in Caller : consumer'[d].state = "live" => consumer[d].key \notin retiring'
    BY <1>1, <1>2 DEF SessionInv, Needed, Attended
  <1> QED BY <1>1, <1>2, <1>3, <1>4, ConsumersKeep DEF SessionInv, SessionTypes

LEMMA DeliverKeeps ==
  ASSUME SessionInv, NEW c \in Caller, Deliver(c)
  PROVE  SessionInv'
  <1> DEFINE fate == IF Admitted(c) THEN consumer[c].state ELSE "cancelled"
             ends == consumer[c].state = "live" /\ ~Admitted(c)
                     /\ ~\E d \in Live(SessionId) \ {c} : consumer[d].key = consumer[c].key
  <1>1. /\ consumer[c].chunk # None
        /\ consumer' = [consumer EXCEPT ![c].chunk = None, ![c].state = fate]
        /\ running' = IF ends THEN running \ {consumer[c].key} ELSE running
        /\ retiring' = IF ends THEN retiring \cup (running \cap {consumer[c].key}) ELSE retiring
        /\ UNCHANGED <<disk, seen, table, created, made, req, closed>>
    BY Mine DEF Deliver, Consumer
  <1>2. consumer[c].state # "none" /\ fate \in {"none", "live", "cancelled"} /\ fate # "none"
    BY <1>1, Mine DEF Consuming, NoConsumer, Consumer
  <1>3. /\ consumer' \in [Caller -> Consumer]
        /\ \A d \in Caller \ {c} : consumer'[d] = consumer[d]
        /\ consumer'[c].state = fate /\ consumer'[c].key = consumer[c].key
        /\ consumer'[c].session = consumer[c].session /\ consumer'[c].chunk = None
    BY <1>1, <1>2, Mine DEF Consumer
  <1>4. \A d \in Caller : consumer[d].state = "live" => d \in Live(SessionId)
    BY Mine DEF Live, Consuming, Taking, Using, Request
  <1>5. fate = "live" => consumer[c].state = "live" /\ ~ends
    OBVIOUS
  <1> HIDE DEF fate
  <1>6. Needed'
    <2> SUFFICES ASSUME NEW k \in running'
                 PROVE  \E d \in Caller : consumer'[d].state = "live" /\ consumer'[d].key = k
      BY DEF Needed
    <2>1. PICK d \in Caller : consumer[d].state = "live" /\ consumer[d].key = k
      BY <1>1 DEF SessionInv, Needed
    <2>2. CASE d # c
      BY <1>3, <2>1, <2>2
    <2>3. CASE d = c /\ Admitted(c)
      BY <1>3, <2>1, <2>3 DEF fate
    <2>4. CASE d = c /\ ~Admitted(c)
      <3>1. PICK e \in Live(SessionId) \ {c} : consumer[e].key = consumer[c].key
        BY <1>1, <2>1, <2>4
      <3> QED BY <1>3, <2>1, <2>4, <3>1 DEF Live
    <2> QED BY <2>2, <2>3, <2>4
  <1>7. \A d \in Caller : consumer'[d].state = "live" => consumer[d].key \notin retiring'
    BY <1>1, <1>3, <1>4, <1>5 DEF SessionInv, Attended
  <1>8. running' \subseteq Key /\ retiring' \subseteq Key
    BY <1>1 DEF SessionInv, SessionTypes
  <1> HIDE DEF ends
  <1> QED BY <1>1, <1>2, <1>3, <1>5, <1>6, <1>7, <1>8, ConsumersKeep

\* A flight that ends is not needed: it has finished, or nobody is left.
LEMMA FinishedKeeps ==
  ASSUME SessionInv, NEW k \in Key, Finished(k)
  PROVE  SessionInv'
  <1>1. /\ running' \subseteq running /\ retiring' \subseteq retiring
        /\ UNCHANGED <<disk, seen, table, created, made, req, closed, consumer>>
    BY DEF Finished
  <1>2. Needed' /\ \A c \in Caller : consumer'[c].state = "live" => consumer[c].key \notin retiring'
    BY <1>1 DEF SessionInv, Needed, Attended
  <1> QED BY <1>1, <1>2, ConsumersKeep DEF SessionInv, SessionTypes

\* A consumer that is disposed of: whoever waits for it goes on.
LEMMA DisposeKeeps ==
  ASSUME SessionInv, NEW c \in Caller, Dispose(c)
  PROVE  SessionInv'
  <1> USE DEF SessionInv
  <1>1. /\ consumer[c].state = "cancelled" /\ consumer[c].chunk = None
        /\ req[c].stage = "streaming"
        /\ UNCHANGED <<disk, seen, table, created, made, closed, running, retiring>>
    BY Mine DEF Dispose, Consuming
  <1>2. Idle \in Request /\ NoConsumer \in Consumer
    BY CatalogueAssumption
       DEF Idle, Request, RequestStage, RequestKind, NoConsumer, Consumer, Nothing, Files
  <1>3. /\ consumer' \in [Caller -> Consumer] /\ consumer'[c] = NoConsumer
        /\ \A d \in Caller \ {c} : consumer'[d] = consumer[d]
    BY <1>2, Mine DEF Dispose
  <1>4. /\ req'[c] = Idle
        /\ \A d \in Caller \ {c} : req'[d] = [req[d] EXCEPT !.waits = @ \ {c}]
        /\ req' = [d \in Caller |-> req'[d]]
    BY <1>1 DEF Dispose
  <1>5. ASSUME NEW d \in Caller \ {c}
        PROVE  /\ req'[d] \in Request
               /\ req'[d].stage = req[d].stage /\ req'[d].kind = req[d].kind
               /\ req'[d].session = req[d].session /\ req'[d].source = req[d].source
               /\ req'[d].waits = req[d].waits \ {c}
    <2>1. req[d] \in Request
      BY Mine
    <2> QED BY <1>4, <2>1 DEF Request
  <1>6. SessionTypes'
    <2>1. req' \in [Caller -> Request]
      BY <1>2, <1>4, <1>5
    <2> QED BY <1>1, <1>3, <2>1 DEF SessionTypes
  <1>7. Bound' /\ Needed'
    <2>1. ASSUME NEW d \in Caller PROVE Taking(d)'
      <3>1. CASE d # c
        BY <1>1, <1>3, <1>5, <3>1 DEF Bound, Taking, Snapshot, Between, Consistent
      <3>2. CASE d = c
        BY <1>3, <1>4, <3>2 DEF Taking, Idle, Using, NoConsumer
      <3> QED BY <3>1, <3>2
    <2> QED BY <1>1, <1>3, <2>1 DEF Bound, Snapshot, Consistent, Needed
  <1>8. created' + Cardinality(Creators)' <= MaxSession
    <2>1. req[c].kind # "create" /\ Idle.kind # "create"
      BY <1>1, Mine DEF Numbered, Creating, Idle
    <2>2. Creators' = Creators
      BY <1>4, <1>5, <2>1 DEF Creators
    <2> QED BY <1>1, <2>2
  <1>9. ASSUME NEW d \in Caller PROVE (Consuming(d) /\ Numbered(d) /\ Attended(d) /\ Awaited(d))'
    <2>1. CASE d # c
      <3>1. (Consuming(d) /\ Numbered(d) /\ Attended(d))'
        BY <1>1, <1>3, <1>5, <2>1 DEF Consuming, Numbered, Attended
      <3>2. Awaited(d)'
        BY <1>3, <1>5, <2>1 DEF Awaited, Numbered, NoConsumer
      <3> QED BY <3>1, <3>2
    <2>2. CASE d = c
      BY <1>3, <1>4, <2>2
         DEF Consuming, Numbered, Attended, Awaited, Idle, NoConsumer, Creating
    <2> QED BY <2>1, <2>2
  <1> QED BY <1>1, <1>6, <1>7, <1>8, <1>9

\* A consumer is registered under a session that is there.
LEMMA Registers ==
  ASSUME SessionInv, NEW c \in Caller, NEW key \in Files, key \notin retiring,
         req[c].stage \in Using \ {"streaming"}, Present(c), ~closed,
         Advance(c, "streaming"),
         consumer' = [consumer EXCEPT ![c] = [state |-> "live", session |-> req[c].session,
                                              key |-> key, chunk |-> None]],
         running' \subseteq Key, running' \subseteq running \cup {key},
         UNCHANGED <<disk, seen, table, created, made, retiring, closed>>
  PROVE  SessionInv'
  <1> USE DEF SessionInv
  <1>1. [state |-> "live", session |-> req[c].session, key |-> key, chunk |-> None] \in Consumer
    BY Mine DEF Consumer, Request
  <1>2. /\ consumer' \in [Caller -> Consumer]
        /\ consumer'[c] = [state |-> "live", session |-> req[c].session, key |-> key,
                           chunk |-> None]
        /\ \A d \in Caller \ {c} : consumer'[d] = consumer[d]
    BY <1>1, Mine
  <1>3. /\ req' \in [Caller -> Request]
        /\ req'[c].stage = "streaming" /\ req'[c].kind = req[c].kind
        /\ req'[c].source = req[c].source /\ req'[c].session = req[c].session
        /\ \A d \in Caller \ {c} : req'[d] = req[d]
    <2>1. req \in [Caller -> Request] /\ req' = [req EXCEPT ![c].stage = "streaming"]
      BY Mine DEF Advance
    <2>2. "streaming" \in RequestStage
      BY DEF RequestStage, Using
    <2> QED BY <2>1, <2>2, StageChanges
  <1>4. SessionTypes'
    BY <1>2, <1>3 DEF SessionTypes
  <1>5. Taking(c)'
    BY <1>2, <1>3, Mine DEF Taking, Snapshot, Consistent, Using
  <1>6. Bound'
    BY <1>2, <1>3, <1>5 DEF Bound, Taking, Snapshot, Between, Consistent
  <1>7. Needed'
    <2> SUFFICES ASSUME NEW k \in running'
                 PROVE  \E d \in Caller : consumer'[d].state = "live" /\ consumer'[d].key = k
      BY DEF Needed
    <2>1. CASE k = key
      BY <1>2, <2>1
    <2>2. CASE k \in running
      <3>1. PICK d \in Caller : consumer[d].state = "live" /\ consumer[d].key = k
        BY <2>2 DEF Needed
      <3>2. d # c
        BY <3>1, Mine DEF NoConsumer
      <3> QED BY <1>2, <3>1, <3>2
    <2> QED BY <2>1, <2>2
  <1>8. req[c].kind # "create"
    BY Mine DEF Numbered, Creating, Using
  <1>9. created' + Cardinality(Creators)' <= MaxSession
    <2>1. Creators' = Creators
      BY <1>3, <1>8 DEF Creators
    <2> QED BY <2>1
  <1>10. ASSUME NEW d \in Caller PROVE (Consuming(d) /\ Numbered(d) /\ Attended(d) /\ Awaited(d))'
    <2>1. CASE d # c
      <3>1. (Consuming(d) /\ Numbered(d) /\ Attended(d))'
        BY <1>2, <1>3, <2>1 DEF Consuming, Numbered, Attended
      <3>2. Awaited(d)'
        BY <1>2, <1>3, <2>1 DEF Awaited, Numbered, Present
      <3> QED BY <3>1, <3>2
    <2>2. CASE d = c
      BY <1>2, <1>3, <1>8, <2>2 DEF Consuming, Numbered, Attended, Awaited, Present, Creating
    <2> QED BY <2>1, <2>2
  <1> QED BY <1>4, <1>6, <1>7, <1>9, <1>10

LEMMA SubscribeSourceKeeps ==
  ASSUME SessionInv, NEW c \in Caller, SubscribeSource(c)
  PROVE  SessionInv'
  <1>1. /\ req[c].stage = "act"
        /\ UNCHANGED <<disk, seen, table, created, made, running, retiring, closed>>
    BY DEF SubscribeSource
  <1>2. CASE Present(c) /\ ~closed
    <2>1. Nothing \in Files /\ Nothing \notin Key
      BY Numbers DEF Nothing, Files, Key
    <2>2. /\ Nothing \notin retiring /\ running' \subseteq Key
          /\ running' \subseteq running \cup {Nothing}
      BY <1>1, <2>1 DEF SessionInv, SessionTypes
    <2>3. /\ Advance(c, "streaming")
          /\ consumer' = [consumer EXCEPT ![c] = [state |-> "live", session |-> req[c].session,
                                                  key |-> Nothing, chunk |-> None]]
      BY <1>2 DEF SubscribeSource
    <2> QED BY <1>1, <1>2, <2>1, <2>2, <2>3, Registers DEF Using
  <1>3. CASE ~(Present(c) /\ ~closed)
    <2>1. Respond(c) /\ UNCHANGED consumer
      BY <1>3 DEF SubscribeSource
    <2> QED BY <1>1, <2>1, RespondKeeps
  <1> QED BY <1>2, <1>3

\* A subscription that finds its session gone leaves a flight to retire that no one needs.
LEMMA SubscribeKeeps ==
  ASSUME CatalogueInv, SessionInv, NEW c \in Caller, Subscribe(c)
  PROVE  SessionInv'
  <1> DEFINE key == req[c].source.found
             needed == {consumer[d].key : d \in Live(SessionId)}
  <1>1. /\ req[c].stage = "subscribe"
        /\ UNCHANGED <<disk, seen, cached, holder, call, table, created, made, closed>>
    BY DEF Subscribe
  <1>2. key \in Files /\ key \in Key
    <2>1. req[c].source \in Source /\ Consistent(key)
      BY <1>1, Mine DEF Taking, Snapshot, Using
    <2>2. key \in Files
      BY <2>1 DEF Source
    <2>3. key.model \in 0..Versions
      BY <2>1 DEF Consistent, CatalogueInv, CatalogueTypes, DiskState
    <2> QED BY <2>2, <2>3 DEF Files, Key
  <1>3. CASE closed
    BY <1>1, <1>3, RespondKeeps DEF Subscribe
  <1>4. CASE ~closed /\ Kept(c)
    <2>1. /\ key \notin retiring /\ Present(c)
          /\ Registered(c, key) /\ Advance(c, "streaming")
      BY <1>4 DEF Subscribe, Kept
    <2> HIDE DEF key
    <2>2. /\ consumer' = [consumer EXCEPT ![c] = [state |-> "live", session |-> req[c].session,
                                                  key |-> key, chunk |-> None]]
          /\ running' = running \/ running' = running \cup {key}
          /\ UNCHANGED retiring
      BY <2>1 DEF Registered
    <2>3. running' \subseteq Key /\ running' \subseteq running \cup {key}
      BY <1>2, <2>2 DEF SessionInv, SessionTypes
    <2> QED BY <1>1, <1>2, <1>4, <2>1, <2>2, <2>3, Registers DEF Using
  <1>5. CASE ~closed /\ ~Kept(c)
    <2>1. /\ \/ retiring' = retiring
             \/ key \notin needed /\ retiring' = retiring \cup {key}
          /\ Respond(c) /\ UNCHANGED <<consumer, running>>
      <3>1. /\ IF key \in running \cup needed THEN UNCHANGED retiring
               ELSE retiring' = retiring \cup {key}
            /\ Respond(c) /\ UNCHANGED <<consumer, running>>
        BY <1>5 DEF Subscribe
      <3> QED BY <3>1
    <2>2. \A d \in Caller : consumer[d].state = "live" => d \in Live(SessionId)
      BY Mine DEF Live, Consuming, Taking, Using, Request
    <2> HIDE DEF key
    <2>3. \A d \in Caller : consumer[d].state = "live" => consumer[d].key \notin retiring'
      BY <2>1, <2>2 DEF SessionInv, Attended
    <2>4. retiring' \subseteq Key
      BY <1>2, <2>1 DEF SessionInv, SessionTypes
    <2> QED BY <1>1, <2>1, <2>3, <2>4, RespondMoves
  <1> QED BY <1>3, <1>4, <1>5

\* A deletion takes the session out of the table with all its consumers, and waits for them.
LEMMA DeleteKeeps ==
  ASSUME SessionInv, NEW c \in Caller, Delete(c)
  PROVE  SessionInv'
  <1> USE DEF SessionInv
  <1>1. PICK s \in SessionId :
          /\ table[s] # None
          /\ table' = [table EXCEPT ![s] = None]
          /\ Cancelled(Live({s}))
          /\ req' = [req EXCEPT ![c] =
               [Idle EXCEPT !.stage = "deleting", !.kind = "delete", !.session = s,
                            !.waits = {d \in Caller : consumer[d].session = s}]]
    BY DEF Delete
  <1> DEFINE cs == Live({s})
             asks == [stage |-> "deleting", kind |-> "delete", session |-> s, source |-> None,
                      waits |-> {d \in Caller : consumer[d].session = s}]
  <1>2. /\ req[c].stage = "idle" /\ consumer[c] = NoConsumer /\ s <= created /\ s # None
        /\ UNCHANGED <<disk, seen, created, closed>>
    BY <1>1, Mine, CatalogueAssumption DEF Delete, Bound, SessionId
  <1>3. /\ consumer' \in [Caller -> Consumer] /\ running' \subseteq Key /\ retiring' \subseteq Key
        /\ \A d \in Caller \ cs : consumer'[d] = consumer[d]
        /\ \A d \in cs : /\ consumer'[d].state = "cancelled" /\ consumer'[d].key = consumer[d].key
                         /\ consumer'[d].session = consumer[d].session
                         /\ consumer'[d].chunk = consumer[d].chunk
        /\ \A d \in Caller \ cs : consumer[d].state = "live" => consumer[d].key \notin retiring'
        /\ Needed'
    <2>1. cs \in SUBSET Caller /\ \A d \in cs : consumer[d].state = "live"
      BY DEF Live
    <2> QED BY <1>1, <2>1, Cancelling
  <1>4. \A d \in Caller : d \in cs <=> consumer[d].state = "live" /\ consumer[d].session = s
    BY DEF Live
  <1> HIDE DEF cs
  <1>5. asks \in Request
    BY DEF Request, RequestStage, RequestKind
  <1>6. /\ req' \in [Caller -> Request] /\ req'[c] = asks
        /\ \A d \in Caller \ {c} : req'[d] = req[d]
    <2>1. req'[c] = [Idle EXCEPT !.stage = "deleting", !.kind = "delete", !.session = s,
                                 !.waits = {d \in Caller : consumer[d].session = s}]
      BY <1>1, Mine
    <2>2. req'[c] = asks
      BY <2>1 DEF Idle
    <2>3. /\ \A d \in Caller \ {c} : req'[d] = req[d]
          /\ req' = [d \in Caller |-> req'[d]]
      BY <1>1, Mine
    <2> HIDE DEF asks
    <2> QED BY <1>5, <2>2, <2>3, Mine
  <1>7. /\ table' \in [SessionId -> Source \cup {None}] /\ table'[s] = None
        /\ \A t \in SessionId \ {s} : table'[t] = table[t]
    BY <1>1 DEF SessionTypes
  <1>8. made' \in [Caller -> 0..Requests]
    <2>1. made \in [Caller -> 0..Requests] /\ made[c] + 1 \in 0..Requests
      BY Counts DEF SessionTypes, Delete
    <2> QED BY <2>1 DEF Delete
  <1>9. SessionTypes'
    BY <1>2, <1>3, <1>6, <1>7, <1>8 DEF SessionTypes
  <1>10. Bound'
    <2>1. ASSUME NEW d \in Caller PROVE Taking(d)'
      <3>1. consumer'[d].chunk = consumer[d].chunk
        BY <1>3
      <3>2. CASE d # c
        BY <1>2, <1>6, <3>1, <3>2 DEF Bound, Taking, Snapshot, Between, Consistent
      <3>3. CASE d = c
        BY <1>2, <1>6, <3>1, <3>3 DEF Taking, Using, NoConsumer
      <3> QED BY <3>2, <3>3
    <2>2. ASSUME NEW t \in SessionId, table'[t] # None PROVE Snapshot(table[t])' /\ t <= created'
      BY <1>2, <1>7, <2>2 DEF Bound, Snapshot, Consistent
    <2> QED BY <2>1, <2>2 DEF Bound
  <1>11. created' + Cardinality(Creators)' <= MaxSession
    <2>1. req[c].kind # "create"
      BY <1>2, Mine DEF Numbered, Creating
    <2>2. Creators' = Creators
      BY <1>6, <2>1 DEF Creators
    <2> QED BY <1>2, <2>2
  <1>12. ASSUME NEW d \in Caller PROVE (Consuming(d) /\ Numbered(d) /\ Attended(d) /\ Awaited(d))'
    <2>0. consumer[d].session \in SessionId \cup {None} /\ req[d].session \in SessionId \cup {None}
      BY DEF SessionTypes, Consumer, Request
    <2>1. Consuming(d)'
      <3>1. CASE d = c
        BY <1>2, <1>3, <1>4, <1>6, <3>1 DEF Consuming, NoConsumer
      <3>2. CASE d \in cs
        <4>1. d # c
          BY <1>2, <1>4, <3>2 DEF NoConsumer
        <4> QED BY <1>3, <1>4, <1>6, <3>2, <4>1 DEF Consuming
      <3>3. CASE d # c /\ d \notin cs
        BY <1>3, <1>6, <3>3 DEF Consuming
      <3> QED BY <3>1, <3>2, <3>3
    <2>2. Numbered(d)'
      <3>1. CASE d = c
        BY <1>2, <1>6, <1>7, <3>1 DEF Numbered, Creating
      <3>2. CASE d # c
        BY <1>2, <1>6, <1>7, <2>0, <3>2 DEF Numbered
      <3> QED BY <3>1, <3>2
    <2>3. Attended(d)'
      <3> SUFFICES ASSUME consumer'[d].state = "live" PROVE Attended(d)'
        BY DEF Attended
      <3>1. d \notin cs /\ consumer'[d] = consumer[d] /\ consumer[d].state = "live"
        BY <1>3
      <3>2. consumer[d].session # s /\ consumer[d].session \in SessionId
        BY <1>4, <2>0, <3>1, Mine DEF Consuming, Taking, Using
      <3>3. table'[consumer[d].session] # None
        BY <1>7, <3>1, <3>2 DEF Attended
      <3> QED BY <1>2, <1>3, <3>1, <3>3 DEF Attended
    <2>4. Awaited(d)'
      <3>0. \A e \in Caller : consumer'[e].session = consumer[e].session
        BY <1>3
      <3>1. CASE d = c
        BY <1>6, <3>0, <3>1 DEF Awaited
      <3>2. CASE d # c
        BY <1>6, <3>0, <3>2 DEF Awaited
      <3> QED BY <3>1, <3>2
    <2> QED BY <2>1, <2>2, <2>3, <2>4
  <1> QED BY <1>3, <1>9, <1>10, <1>11, <1>12

\* A shutdown clears the table, and cancels every consumer.
LEMMA ShutdownKeeps ==
  ASSUME SessionInv, Shutdown
  PROVE  SessionInv'
  <1> USE DEF SessionInv
  <1> DEFINE cs == Live(SessionId)
  <1>1. /\ closed' = TRUE /\ table' = [s \in SessionId |-> None] /\ Cancelled(cs)
        /\ UNCHANGED <<disk, seen, created, req, made>>
    BY DEF Shutdown
  <1>2. /\ consumer' \in [Caller -> Consumer] /\ running' \subseteq Key /\ retiring' \subseteq Key
        /\ \A d \in Caller \ cs : consumer'[d] = consumer[d]
        /\ \A d \in cs : /\ consumer'[d].state = "cancelled" /\ consumer'[d].key = consumer[d].key
                         /\ consumer'[d].session = consumer[d].session
                         /\ consumer'[d].chunk = consumer[d].chunk
        /\ Needed'
    <2>1. cs \in SUBSET Caller /\ \A d \in cs : consumer[d].state = "live"
      BY DEF Live
    <2> QED BY <1>1, <2>1, Cancelling
  <1>3. \A d \in Caller : d \in cs <=> consumer[d].state = "live"
    BY Mine DEF Live, Consuming, Taking, Using, Request
  <1> HIDE DEF cs
  <1>4. SessionTypes'
    BY <1>1, <1>2 DEF SessionTypes
  <1>5. Bound'
    <2>1. ASSUME NEW d \in Caller PROVE Taking(d)'
      <3>1. consumer'[d].chunk = consumer[d].chunk
        BY <1>2
      <3> QED BY <1>1, <3>1 DEF Bound, Taking, Snapshot, Between, Consistent
    <2> QED BY <1>1, <2>1 DEF Bound
  <1>6. ASSUME NEW d \in Caller PROVE (Consuming(d) /\ Numbered(d) /\ Attended(d) /\ Awaited(d))'
    <2>0. req[d].session \in SessionId \cup {None} /\ consumer'[d].state # "live"
      BY <1>2, <1>3, Mine DEF Request
    <2>1. Consuming(d)'
      BY <1>1, <1>2, <1>3 DEF Consuming
    <2>2. Numbered(d)' /\ Attended(d)'
      BY <1>1, <2>0 DEF Numbered, Attended
    <2>3. Awaited(d)'
      <3>1. \A e \in Caller : consumer'[e].session = consumer[e].session
        BY <1>2
      <3> QED BY <1>1, <3>1 DEF Awaited
    <2> QED BY <2>1, <2>2, <2>3
  <1> QED BY <1>1, <1>2, <1>4, <1>5, <1>6 DEF Creators

-----------------------------------------------------------------------------
(* Every step keeps the invariant.                                         *)

\* The catalogue under a step of a request.
LEMMA ServeCatalogue ==
  ASSUME CatalogueInv, Resolving, NEW c \in Caller,
         \/ Serve(c) \/ Create(c) \/ Begin(c) \/ Delete(c) \/ Read(c) \/ Close(c)
  PROVE  CatalogueInv' /\ Resolving'
  <1>0. "resolve" \in Op /\ Nothing \in Files /\ call \in [Caller -> CallRecord]
    BY DEF Op, Nothing, Files, CatalogueInv, CatalogueTypes
  <1>1. CASE Create(c)
    <2>1. CatalogueInv'
      BY <1>0, <1>1, CallerKeeps DEF Create, Call
    <2>2. Resolving'
      BY <1>0, <1>1 DEF Create, Call, Resolving, CallRecord
    <2> QED BY <2>1, <2>2
  <1>2. CASE CreateFails(c) \/ Hash(c)
    <2>1. Taken(c) /\ UNCHANGED <<disk, seen, cached, holder>>
      BY <1>2 DEF CreateFails, Hash
    <2>2. CatalogueInv'
      BY <1>0, <2>1, CallerKeeps
    <2>3. Resolving'
      BY <1>0, <2>1 DEF Taken, Resolving, CallRecord
    <2> QED BY <2>2, <2>3
  <1>3. ASSUME ~Create(c), ~CreateFails(c), ~Hash(c) PROVE UNCHANGED catalogueVars
    BY <1>3 DEF Serve, Pin, PinFails, Insert, Checked, Resolve, Rechecked, Guarded, Answer,
                SubscribeSource, Reget, Subscribe, Deliver, Dispose, Deleted, Begin, Delete, Read,
                Close
  <1> QED BY <1>1, <1>2, <1>3, CatalogueStays DEF Resolving

\* The sessions under a step of a request.
LEMMA ServeSessions ==
  ASSUME CatalogueInv, Resolving, SessionInv, NEW c \in Caller,
         \/ Serve(c) \/ Create(c) \/ Begin(c) \/ Delete(c) \/ Read(c) \/ Close(c)
  PROVE  SessionInv'
  <1>1. CASE CreateFails(c) \/ PinFails(c) \/ Answer(c) \/ Deleted(c)
    BY <1>1, RespondKeeps DEF CreateFails, PinFails, Answer, Deleted
  <1>2. CASE Reget(c)
    <2>1. /\ req[c].stage = "act" /\ (Advance(c, "recheck") \/ Respond(c))
          /\ UNCHANGED <<disk, seen, table, created, made, runtimeVars>>
      BY <1>2 DEF Reget
    <2> QED BY <2>1, RespondKeeps, AdvanceKeeps DEF Using
  <1>3. CASE Checked(c) \/ Resolve(c) \/ Rechecked(c)
    BY <1>3, GuardedKeeps
  <1> QED BY <1>1, <1>2, <1>3, HashKeeps, PinKeeps, InsertKeeps, SubscribeSourceKeeps,
             SubscribeKeeps, DeliverKeeps, DisposeKeeps, CreateKeeps, BeginKeeps, DeleteKeeps,
             ReadingKeeps, CloseKeeps DEF Serve

LEMMA InitIInv == Init => IInv
  <1> SUFFICES ASSUME Init PROVE IInv
    OBVIOUS
  <1> USE DEF Init, CatalogueInit
  <1>1. /\ disk \in DiskState /\ disk.model = 0 /\ disk.shard = 0 /\ 0 \in 0..Attempts - 1
        /\ Nothing \in Files
    BY Numbers DEF DiskState, Nothing, Files
  <1>2. CatalogueTypes
    <2>1. call \in [Caller -> CallRecord]
      BY <1>1 DEF CallRecord, Stage, Op
    <2> QED BY <1>1, <2>1 DEF CatalogueTypes
  <1>3. Ordered /\ Looks /\ CacheInv
    <2>1. Ordered
      BY <1>1 DEF Ordered
    <2>2. Looks
      BY DEF Looks, Look
    <2> QED BY <2>1, <2>2 DEF CacheInv, CacheConsistent
  <1>4. SessionTypes
    <2>1. NoConsumer \in Consumer /\ Idle \in Request
      BY <1>1 DEF NoConsumer, Consumer, Idle, Request, RequestStage, RequestKind
    <2>2. 0 \in 0..MaxSession /\ 0 \in 0..Requests
      BY SessionsAssumption
    <2>3. consumer \in [Caller -> Consumer] /\ req \in [Caller -> Request]
      BY <2>1
    <2> QED BY <2>2, <2>3 DEF SessionTypes
  <1>5. Bound /\ Needed
    <2>1. ASSUME NEW c \in Caller PROVE Taking(c)
      BY DEF Taking, Idle, Using, NoConsumer
    <2> QED BY <2>1 DEF Bound, Needed
  <1>6. created + Cardinality(Creators) <= MaxSession
    <2>1. Creators = {}
      BY DEF Creators, Idle
    <2> QED BY <2>1, SessionsAssumption, FS_EmptySet
  <1>7. ASSUME NEW c \in Caller PROVE Consuming(c) /\ Numbered(c) /\ Attended(c) /\ Awaited(c)
    BY DEF Consuming, Numbered, Attended, Awaited, Idle, NoConsumer, Creating
  <1>8. Resolving
    BY DEF Resolving
  <1> QED BY <1>2, <1>3, <1>4, <1>5, <1>6, <1>7, <1>8 DEF IInv, CatalogueInv, SessionInv

LEMMA NextIInv == IInv /\ [Next]_vars => IInv'
  <1> SUFFICES ASSUME IInv, [Next]_vars PROVE IInv'
    OBVIOUS
  <1> USE DEF IInv
  <1>1. CASE \E c \in Caller : Thread(c)
    <2>1. PICK c \in Caller : CatalogueStep(c) /\ UNCHANGED sessionVars
      BY <1>1 DEF Thread
    <2>2. UNCHANGED <<disk, seen>> /\ Resolving'
      BY <2>1, CallGoesOn DEF Resolving
    <2> QED BY <2>1, <2>2, CatalogueStepKeeps, FilesKeep
  <1>2. CASE \E c \in Caller : \/ Serve(c) \/ Create(c) \/ Begin(c) \/ Delete(c) \/ Read(c)
                               \/ Close(c)
    BY <1>2, ServeCatalogue, ServeSessions
  <1>3. CASE \E k \in Key : Finished(k)
    <2>1. UNCHANGED catalogueVars
      BY <1>3 DEF Finished
    <2> QED BY <1>3, <2>1, CatalogueStays, FinishedKeeps DEF Resolving
  <1>4. CASE Shutdown
    <2>1. UNCHANGED catalogueVars
      BY <1>4 DEF Shutdown
    <2> QED BY <1>4, <2>1, CatalogueStays, ShutdownKeeps DEF Resolving
  <1>5. CASE Change /\ UNCHANGED sessionVars
    BY <1>5, ChangeKeeps, FilesKeep DEF Resolving, Change
  <1>6. CASE UNCHANGED vars
    BY <1>6, CatalogueStays, FilesKeep DEF Resolving
  <1> QED BY <1>1, <1>2, <1>3, <1>4, <1>5, <1>6 DEF Next

\* The catalogue and the sessions are in the states that the invariant describes, whatever
\* the files and the clients do.
THEOREM Invariance == Spec => []IInv
  BY InitIInv, NextIInv, PTL DEF Spec

LEMMA IInvTypes == IInv => TypeOK
  <1> SUFFICES ASSUME IInv PROVE TypeOK
    OBVIOUS
  <1>1. CatalogueTypeOK
    BY DEF IInv, CatalogueInv, CatalogueTypes, DiskState, CallRecord, CatalogueTypeOK
  <1>2. \A s \in SessionId : table[s] # None => s <= created
    BY DEF IInv, SessionInv, Bound
  <1>3. ASSUME NEW c \in Caller
        PROVE  /\ made[c] \in 0..Requests
               /\ consumer[c].state \in {"none", "live", "cancelled"}
               /\ req[c].waits \subseteq Caller
    BY DEF IInv, SessionInv, SessionTypes, Consumer, Request
  <1> QED BY <1>1, <1>2, <1>3 DEF IInv, SessionInv, SessionTypes, TypeOK

\* What a session is bound to is one state of the files, and so is what is cached: the scan
\* and the hash that take long lie between looks that found the same (sessions.py,
\* models.py).
THEOREM BoundToOneState == Spec => []OneSnapshot
  <1>1. IInv => OneSnapshot
    BY IInvTypes DEF IInv, CatalogueInv, CacheInv, SessionInv, Bound, Snapshot, OneSnapshot
  <1> QED BY <1>1, Invariance, PTL

\* Nothing runs under a deleted session, its deletion waits for all that ran, and no flight
\* is retired while a consumer needs it (sessions.py, operations.py).
THEOREM NobodyIsLeft == Spec => []NoOrphan
  <1>1. IInv => NoOrphan
    <2> SUFFICES ASSUME IInv PROVE NoOrphan
      OBVIOUS
    <2>1. \A c \in Caller : consumer[c].state = "live" => c \in Live(SessionId)
      BY Mine DEF IInv, Live, Consuming, Taking, Using, Request
    <2>2. running \subseteq {consumer[c].key : c \in Live(SessionId)}
      BY <2>1 DEF IInv, SessionInv, Needed
    <2> QED BY <2>2 DEF IInv, SessionInv, Attended, Awaited, NoOrphan
  <1> QED BY <1>1, Invariance, PTL

\* Only a delivery takes the bytes of a consumer that lives on.
LEMMA OthersKeepChunks ==
  ASSUME SessionInv, [Next]_vars, NEW c \in Caller, consumer[c].chunk # None,
         req[c].stage = "streaming", consumer'[c].chunk = None, consumer'[c].state = "live"
  PROVE  Deliver(c)
  <1> USE DEF SessionInv
  <1>1. consumer \in [Caller -> Consumer]
    BY DEF SessionTypes
  <1>2. ASSUME UNCHANGED consumer PROVE FALSE
    BY <1>2
  <1>3. ASSUME NEW cs, Cancelled(cs) PROVE FALSE
    BY <1>1, <1>3 DEF Cancelled, Consumer
  <1>4. ASSUME NEW d \in Caller, Read(d) PROVE FALSE
    <2>1. consumer'[c].chunk = IF d = c THEN disk ELSE consumer[c].chunk
      BY <1>1, <1>4 DEF Read, Consumer
    <2> QED BY <1>4, <2>1 DEF Read
  <1>5. ASSUME NEW d \in Caller, Deliver(d) PROVE d = c
    BY <1>1, <1>5 DEF Deliver
  <1>6. ASSUME NEW d \in Caller, Dispose(d) PROVE FALSE
    BY <1>1, <1>6 DEF Dispose, NoConsumer
  <1>7. ASSUME NEW d \in Caller, SubscribeSource(d) \/ Subscribe(d) PROVE FALSE
    <2>1. d # c
      BY <1>7 DEF SubscribeSource, Subscribe
    <2>2. consumer'[c] = consumer[c]
      BY <1>1, <1>7, <2>1 DEF SubscribeSource, Subscribe, Registered
    <2> QED BY <2>2
  <1>8. ASSUME NEW d \in Caller, Serve(d), ~Deliver(d) PROVE FALSE
    BY <1>2, <1>6, <1>7, <1>8
       DEF Serve, CreateFails, Hash, Pin, PinFails, Insert, Checked, Resolve, Rechecked, Guarded,
           Answer, Reget, Deleted
  <1>9. ASSUME NEW d \in Caller,
               Thread(d) \/ Create(d) \/ Begin(d) \/ Delete(d) \/ Read(d) \/ Close(d)
        PROVE  FALSE
    BY <1>2, <1>3, <1>4, <1>9 DEF Thread, Create, Begin, Delete, Close
  <1>10. ~\E k \in Key : Finished(k)
    BY <1>2 DEF Finished
  <1>11. ~Shutdown
    BY <1>3 DEF Shutdown
  <1>12. ~(Change /\ UNCHANGED sessionVars) /\ ~UNCHANGED vars
    BY <1>2
  <1>13. PICK d \in Caller : \/ Thread(d) \/ Serve(d)
                             \/ Create(d) \/ Begin(d) \/ Delete(d) \/ Read(d) \/ Close(d)
    <2>1. Next
      BY <1>12
    <2> QED BY <1>10, <1>11, <1>12, <2>1, Zenon DEF Next
  <1>14. Deliver(d)
    BY <1>8, <1>9, <1>13, Zenon
  <1> QED BY <1>5, <1>14

\* The bytes that a client gets are those of the state its session is bound to: they were
\* read before a look at the files that still found that state (tensor_source.py).
THEOREM OnlyTheSnapshot == Spec => OnlySnapshotDelivered
  <1> DEFINE Right(c) ==
        consumer[c].chunk # None /\ consumer'[c].chunk = None /\ consumer'[c].state = "live"
            => /\ consumer[c].chunk.model = req[c].source.content.model
               /\ req[c].source.found.shard # None =>
                    consumer[c].chunk.shard = req[c].source.content.shard
  <1>1. IInv /\ [Next]_vars => [\A c \in Caller : Right(c)]_vars
    <2> SUFFICES ASSUME IInv, [Next]_vars, NEW c \in Caller, consumer[c].chunk # None,
                        consumer'[c].chunk = None, consumer'[c].state = "live"
                 PROVE  /\ consumer[c].chunk.model = req[c].source.content.model
                        /\ req[c].source.found.shard # None =>
                             consumer[c].chunk.shard = req[c].source.content.shard
      OBVIOUS
    <2>1. SessionInv /\ req[c].stage = "streaming" /\ consumer[c].chunk \in DiskState
      BY Mine DEF IInv, Consumer
    <2>2. Deliver(c)
      BY <2>1, OthersKeepChunks
    <2>3. Admitted(c)
      BY <2>1, <2>2, Mine DEF Deliver, Consumer
    <2>4. /\ Snapshot(req[c].source) /\ Between(req[c].source.found, consumer[c].chunk)
          /\ disk \in DiskState
      BY <2>1, Mine DEF IInv, CatalogueInv, CatalogueTypes, Taking, Using
    <2>5. /\ disk.model = req[c].source.found.model
          /\ req[c].source.found.shard # None => disk.shard = req[c].source.found.shard
      BY <2>3 DEF Admitted, Unchanged
    <2>6. consumer[c].chunk.model = req[c].source.found.model
      BY <2>1, <2>4, <2>5, Numbers DEF Between, DiskState
    <2>7. req[c].source.found.shard # None =>
            consumer[c].chunk.shard = req[c].source.found.shard
      BY <2>1, <2>4, <2>5, Numbers DEF Between, DiskState
    <2> QED BY <2>4, <2>6, <2>7 DEF Snapshot
  <1> QED BY <1>1, Invariance, PTL DEF Spec, OnlySnapshotDelivered

-----------------------------------------------------------------------------
(* The observer, over the same catalogue.                                  *)

\* What an observation expects lies behind it; what it has found is not older, and in the
\* end it is what was expected.
Expects(w) ==
    LET c == call[w]
        e == c.expected
    IN  c.op = "observe" =>
          /\ c.stage \in {"entry", "scan", "failed", "check", "retry", "after"} =>
                /\ e.model # None /\ e.model <= disk.model
                /\ c.read # None => e.model <= c.read
                /\ e.shard # None => e.shard <= disk.shard
          /\ c.stage \in {"check", "after"} =>
                /\ e.model <= c.found.model
                /\ e.shard # None /\ c.found.shard # None => e.shard <= c.found.shard
          /\ c.stage = "after" =>
                /\ c.found.model <= disk.model
                /\ c.read # None => c.found.model <= c.read
                /\ c.found.shard # None => c.found.shard <= disk.shard
          /\ c.stage = "ok" =>
                /\ c.found.model = e.model
                /\ e.shard # None /\ c.found.shard # None => c.found.shard = e.shard

\* The call of the observer is the one that its task awaits.
Asking ==
    /\ task \in {"none", "loop", "done"} => call[Observer].stage = "idle"
    /\ task = "generation" => call[Observer].stage # "idle" /\ call[Observer].op = "generation"
    /\ task = "observe" => /\ call[Observer].stage # "idle" /\ call[Observer].op = "observe"
                           /\ call[Observer].expected = previous

\* A task that has been told to stop stays alone until it has settled.
Stopping ==
    /\ stop /\ task # "none" => halted \/ (members = {} /\ lifetime # None)
    /\ task = "done" => stop
    /\ task # "none" /\ members = {} => stop
    /\ task \in {"none", "done"} => members = {} \/ halted

\* What a stream has been told last is in its queue, or was delivered.
Newest(s) ==
    spc[s] = "in" =>
        IF halted THEN queue[s] = <<End>>
        ELSE /\ state[s] \in State \cup {None}
             /\ \/ state[s] # None /\ queue[s] = <<[state |-> state[s]]>>
                \/ /\ queue[s] = <<>>
                   /\ state[s] # None => delivered[s] = [state |-> state[s]]

ObserverTypes ==
    /\ spc \in [Subscriber -> {"out", "joining", "in", "leaving", "settling"}]
    /\ members \subseteq Subscriber /\ lifetime \in Subscriber \cup {None, Aclose}
    /\ task \in {"none", "loop", "generation", "observe", "done"}
    /\ stop \in BOOLEAN /\ halted \in BOOLEAN /\ closing \in {"no", "settling", "done"}
    /\ retry \in 0..MaxDelay /\ delay \in 1..MaxDelay
    /\ previous \in Files \cup {None}

Frames ==
    /\ queue = [s \in Subscriber |-> queue[s]] /\ state = [s \in Subscriber |-> state[s]]
    /\ delivered = [s \in Subscriber |-> delivered[s]]
    /\ \A s \in members : Newest(s)

LookInv == CatalogueInv /\ \A w \in Caller : Expects(w)
ObserverInv == LookInv /\ ObserverTypes /\ Asking /\ Stopping /\ Frames

\* A call under a step of the catalogue.
LEMMA ExpectsKeeps ==
  ASSUME CatalogueInv, NEW w \in Caller, Expects(w), CatalogueStep(w)
  PROVE  Expects(w)'
  <1> DEFINE c == call[w]
             e == c.expected
             d == call'[w]
             got == Got(w)
  <1>1. call \in [Caller -> CallRecord] /\ c \in CallRecord /\ e \in Files /\ Look(w)
    BY DEF CatalogueInv, CatalogueTypes, CallRecord, Looks
  <1>2. /\ disk.model \in 0..Versions /\ disk.shard \in 0..Shards
        /\ e.model \in 0..Versions \cup {None} /\ e.shard \in 0..Shards \cup {None}
        /\ c.found.model \in 0..Versions \cup {None} /\ c.found.shard \in 0..Shards \cup {None}
        /\ c.read \in 0..Versions \cup {None}
        /\ None \notin 0..Versions /\ None \notin 0..Shards
        /\ Versions \in Nat /\ Shards \in Nat
    BY <1>1, Numbers DEF CatalogueInv, CatalogueTypes, DiskState, CallRecord, Files
  <1>3. UNCHANGED <<disk, seen>> /\ d.op = c.op /\ d.expected = e
    BY CallGoesOn
  <1>4. CASE c.op # "observe"
    BY <1>3, <1>4 DEF Expects
  <1>5. CASE c.op = "observe"
    <2>1. CASE Acquire(w)
      <3>1. d.stage = "before"
        BY <1>1, <1>5, <2>1 DEF Acquire, CallRecord
      <3> QED BY <3>1 DEF Expects
    <2>2. CASE ReadModel(w)
      <3>1. /\ d.stage = c.stage /\ d.read = disk.model /\ d.found = c.found
            /\ c.stage \in Reads
        BY <1>1, <2>2 DEF ReadModel, CallRecord
      <3>2. c.stage # "ok"
        BY <3>1 DEF Reads
      <3>3. disk.model <= disk.model
        BY <1>2
      <3> QED BY <1>2, <1>3, <1>5, <3>1, <3>2, <3>3 DEF Expects
    <2>3. ASSUME NEW t \in {"error", "retry", "failed"}, Goto(w, t),
                 c.stage \in {"entry", "scan", "failed", "check", "retry", "after"} \/ t = "error"
          PROVE  Expects(w)'
      <3>1. d.stage = t /\ d.read = None /\ d.found = c.found
        BY <1>1, <2>3 DEF Goto, CallRecord
      <3> QED BY <1>3, <1>5, <2>3, <3>1 DEF Expects
    <2>4. CASE Unusable(w)
      BY <2>3, <2>4 DEF Unusable, Fail
    <2>5. CASE Generation(w)
      BY <1>1, <1>5, <2>5 DEF Look, Generation, Captured, Complete
    <2>6. ASSUME NEW t \in Stage, Complete(w, t)
          PROVE  /\ got.model \in 0..Versions /\ got.model <= disk.model
                 /\ got.shard # None => got.shard = disk.shard
                 /\ got.model = IF c.read = None THEN disk.model ELSE c.read
                 /\ c.read # None => got.shard = disk.shard
                 /\ c.read = None => got.shard = None
      BY <2>6, Found
    <2>7. CASE Before(w)
      <3>1. CASE Expected(w)
        <4>1. d.stage = "entry" /\ d.read = None /\ e = got
          BY <1>1, <2>7, <3>1 DEF Before, Goto, CallRecord, Expected
        <4>2. /\ got.model \in 0..Versions /\ got.model <= disk.model
              /\ got.shard # None => got.shard = disk.shard
          BY <2>6, <2>7 DEF Before, Captured, Stage
        <4>3. disk.shard <= disk.shard
          BY <1>2
        <4> HIDE DEF got
        <4> QED BY <1>2, <1>3, <4>1, <4>2, <4>3 DEF Expects
      <3>2. CASE ~Expected(w)
        BY <2>3, <2>7, <3>2 DEF Before, Fail
      <3> QED BY <3>1, <3>2
    <2>8. CASE Hit(w)
      <3>1. /\ d.stage = "after" /\ d.read = None /\ d.found = cached.found
            /\ c.stage = "entry" /\ cached # None /\ got = cached.generation
        BY <1>1, <1>5, <2>8 DEF Hit, Captured, Complete, Known, Resolved, CallRecord
      <3>2. /\ got.model \in 0..Versions /\ got.model <= disk.model
            /\ got.shard # None => got.shard = disk.shard
            /\ got.model = IF c.read = None THEN disk.model ELSE c.read
        BY <2>6, <2>8 DEF Hit, Captured, Stage
      <3>3. /\ cached.found.model = got.model
            /\ cached.found.shard # None => cached.found.shard = got.shard
        <4>1. /\ cached.found.model = got.model
              /\ cached.shards => got.shard = cached.found.shard
              /\ cached.shards = (cached.found.model \in Indexed)
              /\ Consistent(cached.found)
          BY <3>1 DEF CatalogueInv, CacheInv, CacheConsistent
        <4> QED BY <4>1 DEF Consistent
      <3>4. disk.shard <= disk.shard /\ disk.shard # None
        BY <1>2
      <3> HIDE DEF got
      <3> QED BY <1>2, <1>3, <1>5, <3>1, <3>2, <3>3, <3>4 DEF Expects
    <2>9. CASE Miss(w) \/ Retry(w)
      <3>1. \/ d.stage = "scan" /\ d.read = None /\ c.stage \in {"entry", "retry"}
            \/ Goto(w, "error")
        BY <1>1, <2>9 DEF Miss, Retry, Captured, Complete, CallRecord, Fail
      <3>2. CASE d.stage = "scan" /\ d.read = None /\ c.stage \in {"entry", "retry"}
        BY <1>3, <1>5, <3>2 DEF Expects
      <3> QED BY <2>3, <3>1, <3>2
    <2>10. CASE ScanFails(w) \/ Failed(w) \/ Discard(w)
      <3>1. /\ c.stage \in {"scan", "failed", "check"}
            /\ Goto(w, "failed") \/ Goto(w, "retry") \/ Goto(w, "error")
        BY <2>10 DEF ScanFails, Failed, Discard, Fail, Captured, Complete
      <3> QED BY <2>3, <3>1
    <2>11. CASE ScanEnds(w)
      <3>1. d.stage = "check" /\ d.read = None /\ d.found = got /\ c.stage = "scan"
        BY <1>1, <2>11 DEF ScanEnds, Complete, CallRecord
      <3>2. /\ got.model \in 0..Versions /\ got.model <= disk.model
            /\ got.shard # None => got.shard = disk.shard
            /\ got.model = IF c.read = None THEN disk.model ELSE c.read
        BY <2>6, <2>11 DEF ScanEnds, Stage
      <3> HIDE DEF got
      <3> QED BY <1>2, <1>3, <1>5, <3>1, <3>2 DEF Expects
    <2>12. CASE Keep(w)
      <3>1. d.stage = "after" /\ d.read = None /\ d.found = c.found /\ c.stage = "check"
        BY <1>1, <1>5, <2>12 DEF Keep, Captured, Complete, Resolved, CallRecord
      <3>2. c.found.model <= disk.model /\ (c.found.shard # None => c.found.shard <= disk.shard)
        BY <1>1, <3>1 DEF Look
      <3> QED BY <1>3, <1>5, <3>1, <3>2 DEF Expects
    <2>13. CASE After(w)
      <3>1. CASE ~Expected(w)
        BY <2>3, <2>13, <3>1 DEF After, Fail
      <3>2. CASE Expected(w)
        <4>1. d.stage = "ok" /\ d.found = c.found /\ c.stage = "after" /\ e = got
          BY <1>1, <2>13, <3>2 DEF After, Captured, Complete, Return, CallRecord, Expected
        <4>2. /\ got.model \in 0..Versions /\ got.model <= disk.model
              /\ got.shard # None => got.shard = disk.shard
              /\ got.model = IF c.read = None THEN disk.model ELSE c.read
              /\ c.read # None => got.shard = disk.shard
          BY <2>6, <2>13 DEF After, Captured, Stage
        <4>3. c.found.model # None
          BY <1>1, <4>1, Numbers DEF Look, Consistent, CatalogueInv, CatalogueTypes, DiskState
        <4>4. /\ e.model <= c.found.model /\ c.found.model <= disk.model
              /\ c.read # None => c.found.model <= c.read
              /\ e.shard # None /\ c.found.shard # None => e.shard <= c.found.shard
              /\ c.found.shard # None => c.found.shard <= disk.shard
          BY <1>5, <4>1 DEF Expects
        <4> HIDE DEF got
        <4>5. c.found.model = e.model
          BY <1>2, <4>1, <4>2, <4>3, <4>4
        <4>6. e.shard # None /\ c.found.shard # None => c.found.shard = e.shard
          BY <1>2, <4>1, <4>2, <4>4
        <4> QED BY <1>3, <4>1, <4>5, <4>6 DEF Expects
      <3> QED BY <3>1, <3>2
    <2> QED BY <2>1, <2>2, <2>4, <2>5, <2>7, <2>8, <2>9, <2>10, <2>11, <2>12, <2>13
            DEF CatalogueStep
  <1> QED BY <1>4, <1>5

\* A call as the files change.
LEMMA ExpectsLater ==
  ASSUME CatalogueInv, NEW w \in Caller, Expects(w), Change
  PROVE  Expects(w)'
  <1> DEFINE c == call[w]
             e == c.expected
  <1>1. c \in CallRecord /\ c' = c /\ Look(w)
    BY Later DEF CatalogueInv, CatalogueTypes, Looks
  <1>2. /\ e.model \in 0..Versions \cup {None} /\ e.shard \in 0..Shards \cup {None}
        /\ c.found.model \in 0..Versions \cup {None} /\ c.found.shard \in 0..Shards \cup {None}
        /\ e \in Files /\ c.found \in Files
    BY <1>1 DEF CallRecord, Files
  <1>3. /\ \A x \in 0..Versions : x <= disk.model => x <= disk'.model
        /\ \A x \in 0..Shards : x <= disk.shard => x <= disk'.shard
    BY Later
  <1>4. c.stage = "after" => c.found.model # None
    BY <1>1, Numbers DEF Look, Consistent, CatalogueInv, CatalogueTypes, DiskState
  <1> HIDE DEF c
  <1> QED BY <1>1, <1>2, <1>3, <1>4 DEF Expects, c

\* A thread, for the observer or not.
LEMMA ThreadKeeps ==
  ASSUME LookInv, Asking, NEW w \in Caller, CatalogueStep(w), UNCHANGED <<task, previous>>,
         Observer \in Caller
  PROVE  LookInv' /\ Asking'
  <1>1. /\ UNCHANGED <<disk, seen>>
        /\ call[w].stage # "idle" /\ call'[w].stage # "idle"
        /\ call'[w].op = call[w].op /\ call'[w].expected = call[w].expected
        /\ \A v \in Caller \ {w} : call'[v] = call[v]
    BY CallGoesOn DEF LookInv
  <1>2. CatalogueInv'
    BY CatalogueStepKeeps DEF LookInv
  <1>3. ASSUME NEW v \in Caller PROVE Expects(v)'
    <2>1. CASE v = w
      BY <2>1, ExpectsKeeps DEF LookInv
    <2>2. CASE v # w
      <3>1. Expects(v) /\ call'[v] = call[v] /\ UNCHANGED disk
        BY <1>1, <2>2 DEF LookInv
      <3> QED BY ONLY <3>1 DEF Expects
    <2> QED BY <2>1, <2>2
  <1>4. Asking'
    BY ONLY <1>1, Asking, UNCHANGED <<task, previous>>, Observer \in Caller DEF Asking
  <1> QED BY <1>2, <1>3, <1>4 DEF LookInv

\* The observer's call begins, or its result is taken.
LEMMA AskKeeps ==
  ASSUME LookInv, NEW w \in Caller, NEW op \in Op, NEW expected \in Files,
         \/ call' = [call EXCEPT ![w].stage = "lock", ![w].op = op, ![w].expected = expected]
         \/ Taken(w),
         UNCHANGED <<disk, seen, cached, holder>>
  PROVE  LookInv'
  <1>1. CatalogueInv'
    BY CallerKeeps DEF LookInv
  <1>2. call \in [Caller -> CallRecord]
    BY DEF LookInv, CatalogueInv, CatalogueTypes
  <1>3. /\ call'[w].stage \in {"idle", "lock"}
        /\ \A v \in Caller \ {w} : call'[v] = call[v]
    BY <1>2 DEF Taken, CallRecord
  <1>4. ASSUME NEW v \in Caller PROVE Expects(v)'
    <2>1. CASE v = w
      BY ONLY <1>3, <2>1 DEF Expects
    <2>2. CASE v # w
      <3>1. Expects(v) /\ call'[v] = call[v] /\ UNCHANGED disk
        BY <1>3, <2>2 DEF LookInv
      <3> QED BY ONLY <3>1 DEF Expects
    <2> QED BY <2>1, <2>2
  <1> QED BY <1>1, <1>4 DEF LookInv

LEMMA LookStays == LookInv /\ UNCHANGED <<disk, seen, cached, holder, call>> => LookInv'
  <1> SUFFICES ASSUME LookInv, UNCHANGED <<disk, seen, cached, holder, call>> PROVE LookInv'
    OBVIOUS
  <1>1. CatalogueInv'
    BY CatalogueStays DEF LookInv
  <1>2. ASSUME NEW v \in Caller PROVE Expects(v)'
    <2>1. Expects(v) /\ call'[v] = call[v] /\ UNCHANGED disk
      BY DEF LookInv
    <2> QED BY ONLY <2>1 DEF Expects
  <1> QED BY <1>1, <1>2 DEF LookInv

LEMMA FilesMove ==
  ASSUME LookInv, Change
  PROVE  LookInv' /\ UNCHANGED call
  <1>1. CatalogueInv' /\ UNCHANGED call
    BY ChangeKeeps, Later DEF LookInv
  <1>2. ASSUME NEW v \in Caller PROVE Expects(v)'
    BY ExpectsLater DEF LookInv
  <1> QED BY <1>1, <1>2 DEF LookInv

\* What is published, and who is told.
LEMMA StatesAre ==
  ASSUME NEW found \in Files
  PROVE  /\ Error \in State /\ Error.status = "error"
         /\ StateOf(found) \in State
         /\ StateOf(found).status = "unavailable" => found.model \in Absent
         /\ StateOf(found).status = "present" => StateOf(found).revision = found
         /\ StateOf(found).status \in {"present", "unavailable"}
  <1>1. found \in [model : Version, shard : Version]
        /\ Nothing \in [model : Version, shard : Version]
    BY Numbers DEF Files, Version, Nothing
  <1>2. Error = [status |-> "error", revision |-> Nothing]
    BY DEF Error
  <1>3. CASE found.model \in Absent
    <2>1. StateOf(found) = [status |-> "unavailable", revision |-> Nothing]
      BY <1>3 DEF StateOf
    <2> QED BY ONLY <1>1, <1>2, <1>3, <2>1 DEF State
  <1>4. CASE found.model \notin Absent
    <2>1. StateOf(found) = [status |-> "present", revision |-> found]
      BY <1>4 DEF StateOf
    <2> QED BY ONLY <1>1, <1>2, <2>1 DEF State
  <1> QED BY <1>3, <1>4

LEMMA PublishKeeps ==
  ASSUME NEW value \in State, Publish(value), Frames, members \subseteq Subscriber,
         UNCHANGED <<spc, members, halted>>
  PROVE  /\ Frames'
         /\ \A s \in Subscriber : state'[s] # state[s] => state'[s] = value
  <1>1. Due(value) = IF halted THEN {} ELSE {s \in members : state[s] # value}
    BY DEF Due
  <1>2. /\ queue' = [s \in Subscriber |-> IF s \in Due(value) THEN <<[state |-> value]>> ELSE queue[s]]
        /\ state' = [s \in Subscriber |-> IF s \in Due(value) THEN value ELSE state[s]]
        /\ delivered' = delivered
    BY DEF Publish, Replaced
  <1>3. value # None
    BY ObserverAssumption
  <1>4. \A s \in Subscriber : state'[s] # state[s] => state'[s] = value
    BY ONLY <1>2
  <1>5. ASSUME NEW s \in members PROVE Newest(s)'
    <2>1. Newest(s) /\ s \in Subscriber
      BY DEF Frames
    <2>2. CASE s \in Due(value)
      <3>1. queue'[s] = <<[state |-> value]>> /\ state'[s] = value /\ ~halted
        BY ONLY <1>1, <1>2, <2>1, <2>2
      <3> QED BY ONLY <1>3, <3>1, value \in State, UNCHANGED halted DEF Newest
    <2>3. CASE s \notin Due(value)
      <3>1. queue'[s] = queue[s] /\ state'[s] = state[s]
        BY ONLY <1>2, <2>1, <2>3
      <3> QED BY ONLY <1>2, <2>1, <3>1, UNCHANGED <<spc, halted>> DEF Newest
    <2> QED BY <2>2, <2>3
  <1>6. /\ queue' = [s \in Subscriber |-> queue'[s]] /\ state' = [s \in Subscriber |-> state'[s]]
        /\ delivered' = [s \in Subscriber |-> delivered'[s]]
    BY ONLY <1>2, Frames DEF Frames
  <1> QED BY <1>4, <1>5, <1>6 DEF Frames

LEMMA FramesStay ==
  ASSUME Frames, UNCHANGED <<spc, members, halted, queue, state, delivered>>
  PROVE  Frames'
  <1>1. ASSUME NEW s \in members PROVE Newest(s)'
    <2>1. Newest(s)
      BY DEF Frames
    <2> QED BY ONLY <2>1, UNCHANGED <<spc, halted, queue, state, delivered>> DEF Newest
  <1> QED BY <1>1 DEF Frames

USE DEF streamVars, frameVars, localVars, stopVars, observerVars, Streams, Run, Shared, Loop

\* Steps of the streams that leave the task alone.
LEMMA TaskStays ==
  ASSUME LookInv, Asking, UNCHANGED <<disk, seen, cached, holder, call, task, previous>>
  PROVE  LookInv' /\ Asking'
  <1>1. LookInv'
    BY LookStays
  <1>2. Asking'
    BY ONLY Asking, UNCHANGED <<call, task, previous>> DEF Asking
  <1> QED BY <1>1, <1>2

LEMMA SubscribeKeepsTask ==
  ASSUME ObserverInv, NEW s \in Subscriber, Join(s)
  PROVE  LookInv' /\ Asking' /\ Stopping'
  <1>1. CASE halted \/ Cardinality(members) >= Capacity
    <2>1. UNCHANGED <<disk, seen, cached, holder, call, task, previous, stop, members, halted,
                      lifetime>>
      BY ONLY <1>1, Join(s) DEF Join
    <2> QED BY <2>1, TaskStays DEF ObserverInv, Stopping
  <1>2. CASE ~(halted \/ Cardinality(members) >= Capacity)
    <2>1. /\ UNCHANGED <<disk, seen, cached, holder, call, halted, lifetime>>
          /\ lifetime = None /\ members' = members \cup {s} /\ ~halted
      BY ONLY <1>2, Join(s) DEF Join
    <2>2. CASE task = "none"
      <3>1. task' = "loop" /\ stop' = FALSE
        BY ONLY <1>2, <2>2, Join(s) DEF Join
      <3>2. LookInv'
        BY <2>1, LookStays DEF ObserverInv
      <3>3. Asking'
        BY ONLY <2>1, <2>2, <3>1, ObserverInv DEF ObserverInv, Asking
      <3>4. Stopping'
        BY ONLY <2>1, <3>1 DEF Stopping
      <3> QED BY <3>2, <3>3, <3>4
    <2>3. CASE task # "none"
      <3>1. UNCHANGED <<task, stop, previous>>
        BY ONLY <1>2, <2>3, Join(s) DEF Join
      <3>2. LookInv' /\ Asking'
        BY <2>1, <3>1, TaskStays DEF ObserverInv
      <3>3. Stopping'
        BY ONLY <2>1, <2>3, <3>1, ObserverInv DEF ObserverInv, Stopping
      <3> QED BY <3>2, <3>3
    <2> QED BY <2>2, <2>3
  <1> QED BY <1>1, <1>2

LEMMA SubscribeKeepsFrames ==
  ASSUME ObserverInv, NEW s \in Subscriber, Join(s)
  PROVE  ObserverTypes' /\ Frames' /\ (state'[s] # state[s] => state'[s] = None)
         /\ \A r \in Subscriber \ {s} : state'[r] = state[r]
  <1>1. CASE halted \/ Cardinality(members) >= Capacity
    <2>1. /\ spc' = [spc EXCEPT ![s] = "out"]
          /\ UNCHANGED <<members, queue, state, delivered, task, stop, halted, closing, lifetime,
                         previous, retry, delay>>
      BY ONLY <1>1, Join(s) DEF Join
    <2>2. ObserverTypes'
      BY <2>1 DEF ObserverInv, ObserverTypes
    <2>3. ASSUME NEW r \in members PROVE Newest(r)'
      <3>1. Newest(r) /\ r \in Subscriber /\ (spc'[r] = "in" => spc[r] = "in")
        BY <2>1 DEF ObserverInv, ObserverTypes, Frames
      <3> QED BY ONLY <2>1, <3>1 DEF Newest
    <2>4. Frames'
      BY <2>1, <2>3 DEF ObserverInv, Frames
    <2> QED BY <2>1, <2>2, <2>4
  <1>2. CASE ~(halted \/ Cardinality(members) >= Capacity)
    <2>1. /\ spc' = [spc EXCEPT ![s] = "in"] /\ members' = members \cup {s}
          /\ queue' = [queue EXCEPT ![s] = <<>>]
          /\ state' = [state EXCEPT ![s] = None]
          /\ delivered' = [delivered EXCEPT ![s] = None]
          /\ UNCHANGED <<halted, closing, lifetime>> /\ ~halted
      BY ONLY <1>2, Join(s) DEF Join
    <2>2. /\ task' \in {"loop", task} /\ stop' \in {FALSE, stop}
          /\ previous' \in {None, previous} /\ retry' \in {0, retry} /\ delay' \in {1, delay}
      BY ONLY <1>2, Join(s) DEF Join
    <2>3. 0 \in 0..MaxDelay /\ 1 \in 1..MaxDelay
      BY ObserverAssumption
    <2>4. ObserverTypes'
      BY <2>1, <2>2, <2>3 DEF ObserverInv, ObserverTypes
    <2>5. ASSUME NEW r \in members' PROVE Newest(r)'
      <3>1. CASE r = s
        <4>1. queue'[s] = <<>> /\ state'[s] = None /\ ~halted'
          BY <2>1 DEF ObserverInv, Frames
        <4> QED BY ONLY <3>1, <4>1 DEF Newest
      <3>2. CASE r # s
        <4>1. /\ Newest(r) /\ spc'[r] = spc[r] /\ queue'[r] = queue[r] /\ state'[r] = state[r]
              /\ delivered'[r] = delivered[r] /\ halted' = halted
          BY <2>1, <3>2 DEF ObserverInv, ObserverTypes, Frames
        <4> QED BY ONLY <4>1 DEF Newest
      <3> QED BY <3>1, <3>2
    <2>6. /\ queue' = [r \in Subscriber |-> queue'[r]]
          /\ state' = [r \in Subscriber |-> state'[r]]
          /\ delivered' = [r \in Subscriber |-> delivered'[r]]
      BY ONLY <2>1, ObserverInv DEF ObserverInv, Frames
    <2>7. Frames'
      BY ONLY <2>5, <2>6 DEF Frames
    <2> QED BY ONLY <2>1, <2>4, <2>7, ObserverInv DEF ObserverInv, Frames
  <1> QED BY <1>1, <1>2

\* No stream is told anything new.
Untold == \A s \in Subscriber : state'[s] # state[s] => state'[s] = None

LEMMA SubscribeKeepsObserver ==
  ASSUME ObserverInv, NEW s \in Subscriber, Join(s)
  PROVE  ObserverInv' /\ Untold
  <1>1. /\ LookInv' /\ Asking' /\ Stopping'
        /\ ObserverTypes' /\ Frames' /\ (state'[s] # state[s] => state'[s] = None)
        /\ \A r \in Subscriber \ {s} : state'[r] = state[r]
    BY SubscribeKeepsTask, SubscribeKeepsFrames
  <1> QED BY ONLY <1>1 DEF ObserverInv, Untold

\* A stream goes from one stage to another, and loses what it had to say.
LEMMA StreamMoves ==
  ASSUME ObserverInv, NEW s \in Subscriber,
         NEW stage \in {"out", "joining", "leaving", "settling"},
         spc' = [spc EXCEPT ![s] = stage],
         members' \subseteq members, halted' = halted,
         UNCHANGED <<queue, state, delivered>>
  PROVE  /\ spc' \in [Subscriber -> {"out", "joining", "in", "leaving", "settling"}]
         /\ Frames' /\ Untold
  <1>1. spc \in [Subscriber -> {"out", "joining", "in", "leaving", "settling"}]
        /\ members \subseteq Subscriber
    BY DEF ObserverInv, ObserverTypes
  <1>2. spc' \in [Subscriber -> {"out", "joining", "in", "leaving", "settling"}]
    BY <1>1
  <1>3. ASSUME NEW r \in members' PROVE Newest(r)'
    <2>1. r \in members /\ Newest(r) /\ (spc'[r] = "in" => spc[r] = "in")
      BY <1>1 DEF ObserverInv, Frames
    <2> QED BY ONLY <2>1, UNCHANGED <<queue, state, delivered, halted>> DEF Newest
  <1>4. Frames'
    BY <1>3 DEF ObserverInv, Frames
  <1> QED BY <1>2, <1>4 DEF Untold

LEMMA OpenKeeps ==
  ASSUME ObserverInv, NEW s \in Subscriber, Open(s) \/ Joined(s) \/ Leave(s)
  PROVE  ObserverInv' /\ Untold
  <1>1. CASE Join(s)
    BY <1>1, SubscribeKeepsObserver
  <1>2. CASE ~Join(s)
    <2>1. /\ spc' = [spc EXCEPT ![s] = "joining"] \/ spc' = [spc EXCEPT ![s] = "leaving"]
          /\ UNCHANGED <<disk, seen, cached, holder, call, task, stop, halted, closing, previous,
                         failure, retry, delay, queue, state, delivered, members, lifetime>>
      BY ONLY <1>2, Open(s) \/ Joined(s) \/ Leave(s)
         DEF Open, Joined, Leave
    <2>2. LookInv' /\ Asking'
      BY <2>1, TaskStays DEF ObserverInv
    <2>3. /\ spc' \in [Subscriber -> {"out", "joining", "in", "leaving", "settling"}]
          /\ Frames' /\ Untold
      BY <2>1, StreamMoves
    <2>4. ObserverTypes' /\ Stopping'
      BY ONLY <2>1, <2>3, ObserverInv DEF ObserverInv, ObserverTypes, Stopping
    <2> QED BY ONLY <2>2, <2>3, <2>4 DEF ObserverInv
  <1> QED BY <1>1, <1>2

LEMMA TakeKeeps ==
  ASSUME ObserverInv, NEW s \in Subscriber, Take(s)
  PROVE  ObserverInv' /\ Untold
  <1>1. /\ spc[s] = "in" /\ queue[s] # <<>>
        /\ queue' = [queue EXCEPT ![s] = <<>>]
        /\ UNCHANGED <<disk, seen, cached, holder, call, task, stop, halted, closing, previous,
                       failure, retry, delay, state, members, lifetime>>
        /\ IF queue[s][1] = End
           THEN spc' = [spc EXCEPT ![s] = "leaving"] /\ UNCHANGED delivered
           ELSE delivered' = [delivered EXCEPT ![s] = queue[s][1]] /\ UNCHANGED spc
    BY ONLY Take(s) DEF Take
  <1>2. LookInv' /\ Asking'
    BY <1>1, TaskStays DEF ObserverInv
  <1>3. ObserverTypes' /\ Stopping'
    <2>1. spc' \in [Subscriber -> {"out", "joining", "in", "leaving", "settling"}]
      BY ONLY <1>1, ObserverInv DEF ObserverInv, ObserverTypes
    <2> QED BY ONLY <1>1, <2>1, ObserverInv DEF ObserverInv, ObserverTypes, Stopping
  <1>4. ASSUME NEW r \in members' PROVE Newest(r)'
    <2>1. Newest(r) /\ r \in Subscriber /\ members' = members
      BY <1>1 DEF ObserverInv, ObserverTypes, Frames
    <2>2. CASE r # s
      <3>1. spc'[r] = spc[r] /\ queue'[r] = queue[r] /\ delivered'[r] = delivered[r]
        BY <1>1, <2>1, <2>2 DEF ObserverInv, ObserverTypes, Frames
      <3> QED BY ONLY <1>1, <2>1, <3>1 DEF Newest
    <2>3. CASE r = s
      <3>1. queue'[s] = <<>>
        BY <1>1 DEF ObserverInv, Frames
      <3>2. CASE queue[s][1] = End
        <4>1. spc'[s] = "leaving"
          BY <1>1, <3>2 DEF ObserverInv, ObserverTypes
        <4> QED BY ONLY <2>3, <4>1 DEF Newest
      <3>3. CASE queue[s][1] # End
        <4>1. /\ delivered'[s] = queue[s][1] /\ ~halted /\ queue[s] = <<[state |-> state[s]]>>
              /\ state[s] \in State \cup {None}
          BY <1>1, <2>1, <2>3, <3>3 DEF ObserverInv, Frames, Newest
        <4>2. delivered'[s] = [state |-> state[s]]
          BY ONLY <4>1
        <4> QED BY ONLY <1>1, <2>3, <3>1, <4>1, <4>2 DEF Newest
      <3> QED BY <3>2, <3>3
    <2> QED BY <2>2, <2>3
  <1>5. Frames'
    <2>1. /\ queue' = [r \in Subscriber |-> queue'[r]]
          /\ delivered' = [r \in Subscriber |-> delivered'[r]]
          /\ state' = [r \in Subscriber |-> state'[r]]
      BY ONLY <1>1, ObserverInv DEF ObserverInv, Frames
    <2> QED BY ONLY <1>4, <2>1 DEF Frames
  <1> QED BY ONLY <1>1, <1>2, <1>3, <1>5 DEF ObserverInv, Untold

LEMMA UnsubscribeKeeps ==
  ASSUME ObserverInv, NEW s \in Subscriber, Unsubscribe(s)
  PROVE  ObserverInv' /\ Untold
  <1>1. /\ lifetime = None /\ members' = members \ {s} /\ stop' = (stop \/ members' = {})
        /\ UNCHANGED <<disk, seen, cached, holder, call, task, halted, closing, previous,
                       failure, retry, delay, queue, state, delivered>>
    BY ONLY Unsubscribe(s) DEF Unsubscribe
  <1>2. IF members' = {} /\ task # "none"
        THEN lifetime' = s /\ spc' = [spc EXCEPT ![s] = "settling"]
        ELSE lifetime' = None /\ spc' = [spc EXCEPT ![s] = "out"]
    BY ONLY Unsubscribe(s) DEF Unsubscribe, Departed
  <1>3. LookInv' /\ Asking'
    BY <1>1, TaskStays DEF ObserverInv
  <1>4. /\ spc' \in [Subscriber -> {"out", "joining", "in", "leaving", "settling"}]
        /\ Frames' /\ Untold
    BY <1>1, <1>2, StreamMoves
  <1>5. ObserverTypes'
    <2>1. stop' \in BOOLEAN
      BY ONLY <1>1, ObserverInv DEF ObserverInv, ObserverTypes
    <2> QED BY ONLY <1>1, <1>2, <1>4, <2>1, ObserverInv, s \in Subscriber DEF ObserverInv, ObserverTypes
  <1>6. s # None
    BY ObserverAssumption
  <1>7. Stopping'
    BY ONLY <1>1, <1>2, <1>6, ObserverInv DEF ObserverInv, Stopping
  <1> QED BY ONLY <1>3, <1>4, <1>5, <1>7 DEF ObserverInv

LEMMA SettleKeeps ==
  ASSUME ObserverInv, NEW s \in Subscriber, Settle(s)
  PROVE  ObserverInv' /\ Untold
  <1>1. /\ task = "done" /\ task' = "none" /\ lifetime' = None
        /\ spc' = [spc EXCEPT ![s] = "out"]
        /\ UNCHANGED <<disk, seen, cached, holder, call, stop, halted, closing, previous,
                       failure, retry, delay, queue, state, delivered, members>>
    BY ONLY Settle(s) DEF Settle
  <1>2. LookInv'
    BY <1>1, LookStays DEF ObserverInv
  <1>3. Asking' /\ Stopping'
    BY ONLY <1>1, ObserverInv DEF ObserverInv, Asking, Stopping
  <1>4. /\ spc' \in [Subscriber -> {"out", "joining", "in", "leaving", "settling"}]
        /\ Frames' /\ Untold
    BY <1>1, StreamMoves
  <1>5. ObserverTypes'
    BY ONLY <1>1, <1>4, ObserverInv DEF ObserverInv, ObserverTypes
  <1> QED BY ONLY <1>2, <1>3, <1>4, <1>5 DEF ObserverInv

LEMMA ShutdownKeepsObserver ==
  ASSUME ObserverInv, RequestStop \/ AcloseBegin \/ AcloseEnd
  PROVE  ObserverInv' /\ Untold
  <1>1. CASE RequestStop
    <2>1. /\ halted' = TRUE /\ stop' = TRUE
          /\ queue' = [s \in Subscriber |-> IF s \in members THEN <<End>> ELSE queue[s]]
          /\ UNCHANGED <<disk, seen, cached, holder, call, spc, members, lifetime, state,
                         delivered, task, closing, previous, failure, retry, delay>>
      BY ONLY <1>1 DEF RequestStop, Told
    <2>2. LookInv' /\ Asking'
      BY <2>1, TaskStays DEF ObserverInv
    <2>3. ObserverTypes' /\ Stopping'
      BY ONLY <2>1, ObserverInv DEF ObserverInv, ObserverTypes, Stopping
    <2>4. ASSUME NEW r \in members' PROVE Newest(r)'
      <3>1. queue'[r] = <<End>> /\ halted'
        BY <2>1 DEF ObserverInv, ObserverTypes
      <3> QED BY ONLY <3>1 DEF Newest
    <2>5. Frames'
      BY ONLY <2>1, <2>4, ObserverInv DEF ObserverInv, Frames
    <2> QED BY ONLY <2>1, <2>2, <2>3, <2>5 DEF ObserverInv, Untold
  <1>2. CASE AcloseBegin
    <2>1. /\ halted /\ halted' = halted /\ stop' = TRUE
          /\ IF task = "none"
             THEN closing' = "done" /\ members' = {} /\ UNCHANGED lifetime
             ELSE closing' = "settling" /\ lifetime' = Aclose /\ UNCHANGED members
          /\ UNCHANGED <<disk, seen, cached, holder, call, spc, queue, state,
                         delivered, task, previous, failure, retry, delay>>
      BY ONLY <1>2 DEF AcloseBegin
    <2>2. LookInv' /\ Asking'
      BY <2>1, TaskStays DEF ObserverInv
    <2>3. ObserverTypes' /\ Stopping'
      BY ONLY <2>1, ObserverInv DEF ObserverInv, ObserverTypes, Stopping
    <2>4. members' \subseteq members
      BY ONLY <2>1
    <2>5. Frames'
      BY ONLY <2>1, <2>4, ObserverInv DEF ObserverInv, Frames, Newest
    <2> QED BY ONLY <2>1, <2>2, <2>3, <2>5 DEF ObserverInv, Untold
  <1>3. CASE AcloseEnd
    <2>1. /\ task = "done" /\ closing' = "done" /\ task' = "none" /\ lifetime' = None
          /\ members' = {}
          /\ UNCHANGED <<disk, seen, cached, holder, call, spc, queue, state, delivered, stop,
                         halted, previous, failure, retry, delay>>
      BY ONLY <1>3 DEF AcloseEnd
    <2>2. LookInv'
      BY <2>1, LookStays DEF ObserverInv
    <2>3. Asking' /\ ObserverTypes' /\ Stopping'
      BY ONLY <2>1, ObserverInv DEF ObserverInv, Asking, ObserverTypes, Stopping
    <2>4. Frames'
      BY ONLY <2>1, ObserverInv DEF ObserverInv, Frames
    <2> QED BY ONLY <2>1, <2>2, <2>3, <2>4 DEF ObserverInv, Untold
  <1> QED BY <1>1, <1>2, <1>3

\* The task has the result of its call, and waits for the next tick.
LEMMA ResultKeeps ==
  ASSUME ObserverInv, task \in {"generation", "observe"}, task' = "loop",
         Taken(Observer), Frames',
         UNCHANGED <<disk, seen, cached, holder, spc, members, lifetime, stop, halted, closing>>,
         previous' \in Files \cup {None}, retry' \in 0..MaxDelay, delay' \in 1..MaxDelay
  PROVE  ObserverInv'
  <1>1. Observer \in Caller /\ "resolve" \in Op /\ Nothing \in Files
    BY ObserverAssumption DEF Op, Nothing, Files
  <1>2. LookInv'
    BY <1>1, AskKeeps DEF ObserverInv
  <1>3. call'[Observer].stage = "idle"
    BY <1>1 DEF Taken, ObserverInv, LookInv, CatalogueInv, CatalogueTypes, CallRecord
  <1>4. Asking'
    BY ONLY <1>3, task' = "loop" DEF Asking
  <1>5. Stopping'
    BY ONLY ObserverInv, task \in {"generation", "observe"}, task' = "loop",
            UNCHANGED <<members, lifetime, stop, halted>> DEF ObserverInv, Stopping
  <1>6. ObserverTypes'
    BY ONLY ObserverInv, task' = "loop",
            UNCHANGED <<spc, members, lifetime, stop, halted, closing>>,
            previous' \in Files \cup {None}, retry' \in 0..MaxDelay, delay' \in 1..MaxDelay
       DEF ObserverInv, ObserverTypes
  <1> QED BY <1>2, <1>4, <1>5, <1>6 DEF ObserverInv

\* What a step of the task may tell.
News ==
    \A s \in Subscriber : state'[s] # state[s] =>
        /\ state'[s].status = "unavailable" => previous.model \in Absent
        /\ state'[s].status = "present" =>
             /\ state'[s].revision.model = previous.model
             /\ previous.shard # None /\ state'[s].revision.shard # None =>
                  state'[s].revision.shard = previous.shard

LEMMA FailureIsTold ==
  ASSUME ObserverInv, Publish(Error), UNCHANGED <<spc, members, halted>>
  PROVE  Frames' /\ News
  <1>1. Error \in State /\ Error.status = "error"
    <2>1. Nothing \in Files
      BY DEF Nothing, Files
    <2> QED BY <2>1, StatesAre
  <1>2. /\ Frames'
        /\ \A s \in Subscriber : state'[s] # state[s] => state'[s] = Error
    BY <1>1, PublishKeeps DEF ObserverInv, ObserverTypes
  <1> QED BY ONLY <1>1, <1>2 DEF News

LEMMA TickKeeps ==
  ASSUME ObserverInv, Tick
  PROVE  ObserverInv' /\ News
  <1>1. /\ task = "loop"
        /\ UNCHANGED <<disk, seen, cached, holder, spc, members, lifetime, stop, halted, closing,
                       queue, state, delivered, previous, failure, retry, delay>>
    BY ONLY Tick DEF Tick
  <1>2. Observer \in Caller /\ "generation" \in Op /\ Nothing \in Files
    BY ObserverAssumption DEF Op, Nothing, Files
  <1>3. Frames'
    BY <1>1, FramesStay DEF ObserverInv
  <1>4. CASE stop
    <2>1. task' = "done" /\ call' = call
      BY ONLY <1>4, Tick DEF Tick
    <2>2. LookInv'
      BY <1>1, <2>1, LookStays DEF ObserverInv
    <2>3. Asking' /\ Stopping' /\ ObserverTypes'
      BY ONLY <1>1, <1>4, <2>1, ObserverInv DEF ObserverInv, Asking, Stopping, ObserverTypes
    <2> QED BY ONLY <1>1, <1>3, <2>2, <2>3 DEF ObserverInv, News
  <1>5. CASE ~stop
    <2>1. /\ task' = "generation"
          /\ call' = [call EXCEPT ![Observer].stage = "lock", ![Observer].op = "generation",
                                  ![Observer].expected = Nothing]
      BY ONLY <1>5, Tick DEF Tick, Call, Nothing, Nothing
    <2>2. LookInv'
      BY <1>1, <1>2, <2>1, AskKeeps DEF ObserverInv
    <2>3. call'[Observer].stage = "lock" /\ call'[Observer].op = "generation"
      BY <1>2, <2>1 DEF ObserverInv, LookInv, CatalogueInv, CatalogueTypes, CallRecord
    <2>4. Asking'
      BY ONLY <2>1, <2>3 DEF Asking
    <2>5. Stopping' /\ ObserverTypes'
      BY ONLY <1>1, <2>1, ObserverInv DEF ObserverInv, Stopping, ObserverTypes
    <2> QED BY ONLY <1>1, <1>3, <2>2, <2>4, <2>5 DEF ObserverInv, News
  <1> QED BY <1>4, <1>5

LEMMA GenerationKeeps ==
  ASSUME ObserverInv, Unsettled \/ BackOff \/ GenerationFails
  PROVE  ObserverInv' /\ News
  <1>1. /\ task = "generation" /\ task' = "loop" /\ Taken(Observer)
        /\ UNCHANGED <<disk, seen, cached, holder, spc, members, lifetime, stop, halted, closing>>
    BY ONLY Unsettled \/ BackOff \/ GenerationFails
       DEF Unsettled, BackOff, GenerationFails
  <1>2. Publish(Error) \/ UNCHANGED <<queue, state, delivered>>
    BY ONLY Unsettled \/ BackOff \/ GenerationFails
       DEF Unsettled, BackOff, GenerationFails, Remind
  <1>3. Taken(Observer)
    BY <1>1
  <1>4. call[Observer].found \in Files
    BY ObserverAssumption DEF ObserverInv, LookInv, CatalogueInv, CatalogueTypes, CallRecord
  <1>5. previous' \in Files \cup {None} /\ retry' \in 0..MaxDelay /\ delay' \in 1..MaxDelay
    <2>1. /\ previous \in Files \cup {None} /\ retry \in 0..MaxDelay /\ delay \in 1..MaxDelay
          /\ MaxDelay \in Nat \ {0}
      BY ObserverAssumption DEF ObserverInv, ObserverTypes
    <2>2. CASE Unsettled
      <3>1. previous' = call[Observer].found /\ retry' = 0 /\ delay' = 1
        BY ONLY <2>2 DEF Unsettled
      <3> QED BY ONLY <1>4, <2>1, <3>1
    <2>3. CASE BackOff
      <3>1. retry > 0 /\ retry' = retry - 1 /\ UNCHANGED <<previous, delay>>
        BY ONLY <2>3 DEF BackOff
      <3> QED BY ONLY <2>1, <3>1
    <2>4. CASE GenerationFails
      <3>1. previous' = None /\ UNCHANGED <<retry, delay>>
        BY ONLY <2>4 DEF GenerationFails
      <3> QED BY ONLY <2>1, <3>1
    <2> QED BY ONLY <2>2, <2>3, <2>4, Unsettled \/ BackOff \/ GenerationFails
  <1>6. Frames' /\ News
    <2>1. CASE Publish(Error)
      BY <1>1, <2>1, FailureIsTold
    <2>2. CASE UNCHANGED <<queue, state, delivered>>
      <3>1. Frames'
        BY <1>1, <2>2, FramesStay DEF ObserverInv
      <3> QED BY ONLY <2>2, <3>1 DEF News
    <2> QED BY <1>2, <2>1, <2>2
  <1>7. ObserverInv'
    BY <1>1, <1>3, <1>5, <1>6, ResultKeeps
  <1> QED BY <1>6, <1>7

LEMMA ObserveKeeps ==
  ASSUME ObserverInv, Observe
  PROVE  ObserverInv' /\ News
  <1>1. /\ task = "generation" /\ task' = "observe" /\ call[Observer].found = previous
        /\ call' = [call EXCEPT ![Observer].stage = "lock", ![Observer].op = "observe",
                                ![Observer].expected = previous]
        /\ UNCHANGED <<disk, seen, cached, holder, spc, members, lifetime, stop, halted, closing,
                       queue, state, delivered, previous, failure, retry, delay>>
    BY ONLY Observe DEF Observe
  <1>2. Observer \in Caller /\ "observe" \in Op /\ call \in [Caller -> CallRecord]
    BY ObserverAssumption DEF Op, ObserverInv, LookInv, CatalogueInv, CatalogueTypes
  <1>3. previous \in Files
    BY <1>1, <1>2 DEF CallRecord
  <1>4. LookInv'
    BY <1>1, <1>2, <1>3, AskKeeps DEF ObserverInv
  <1>5. /\ call'[Observer].stage = "lock" /\ call'[Observer].op = "observe"
        /\ call'[Observer].expected = previous
    BY <1>1, <1>2 DEF CallRecord
  <1>6. Asking'
    BY ONLY <1>1, <1>5 DEF Asking
  <1>7. Stopping' /\ ObserverTypes'
    BY ONLY <1>1, ObserverInv DEF ObserverInv, Stopping, ObserverTypes
  <1>8. Frames'
    BY <1>1, FramesStay DEF ObserverInv
  <1> QED BY ONLY <1>1, <1>4, <1>6, <1>7, <1>8 DEF ObserverInv, News

\* What an observation found is what two generations in a row have said.
LEMMA ObservedKeeps ==
  ASSUME ObserverInv, Observed
  PROVE  ObserverInv' /\ News
  <1> DEFINE found == call[Observer].found
  <1>1. /\ task = "observe" /\ task' = "loop" /\ Taken(Observer)
        /\ call[Observer].stage = "ok" /\ delay' = 1
        /\ UNCHANGED <<disk, seen, cached, holder, spc, members, lifetime, stop, halted, closing,
                       previous, retry>>
    BY ONLY Observed DEF Observed
  <1>2. UNCHANGED <<queue, state, delivered>> \/ Publish(StateOf(found))
    BY ONLY Observed DEF Observed
  <1>3. Taken(Observer)
    BY <1>1
  <1>4. Observer \in Caller /\ found \in Files
    BY ObserverAssumption DEF ObserverInv, LookInv, CatalogueInv, CatalogueTypes, CallRecord
  <1>5. call[Observer].op = "observe" /\ call[Observer].expected = previous
    BY ONLY <1>1, ObserverInv DEF ObserverInv, Asking
  <1>6. /\ found.model = previous.model
        /\ previous.shard # None /\ found.shard # None => found.shard = previous.shard
    <2>1. Expects(Observer)
      BY <1>4 DEF ObserverInv, LookInv
    <2> QED BY ONLY <1>1, <1>5, <2>1 DEF Expects
  <1> HIDE DEF found
  <1>7. Frames' /\ News
    <2>1. CASE UNCHANGED <<queue, state, delivered>>
      <3>1. Frames'
        BY <1>1, <2>1, FramesStay DEF ObserverInv
      <3> QED BY ONLY <2>1, <3>1 DEF News
    <2>2. CASE Publish(StateOf(found))
      <3>1. /\ StateOf(found) \in State
            /\ StateOf(found).status = "unavailable" => found.model \in Absent
            /\ StateOf(found).status = "present" => StateOf(found).revision = found
        BY <1>4, StatesAre
      <3>2. /\ Frames'
            /\ \A s \in Subscriber : state'[s] # state[s] => state'[s] = StateOf(found)
        BY <1>1, <2>2, <3>1, PublishKeeps DEF ObserverInv, ObserverTypes
      <3> QED BY ONLY <1>6, <3>1, <3>2 DEF News
    <2> QED BY <1>2, <2>1, <2>2
  <1>8. /\ previous' \in Files \cup {None} /\ retry' \in 0..MaxDelay /\ delay' \in 1..MaxDelay
    BY <1>1, ObserverAssumption DEF ObserverInv, ObserverTypes
  <1>9. ObserverInv'
    BY <1>1, <1>3, <1>7, <1>8, ResultKeeps
  <1> QED BY <1>7, <1>9

LEMMA ObserveFailsKeeps ==
  ASSUME ObserverInv, ObserveFails
  PROVE  ObserverInv' /\ News
  <1>1. /\ task = "observe" /\ task' = "loop" /\ Taken(Observer)
        /\ retry' = delay /\ delay' = Shorter(delay * 2, MaxDelay) /\ Publish(Error)
        /\ UNCHANGED <<disk, seen, cached, holder, spc, members, lifetime, stop, halted, closing,
                       previous>>
    BY ONLY ObserveFails DEF ObserveFails
  <1>2. Taken(Observer)
    BY <1>1
  <1>3. /\ previous \in Files \cup {None} /\ delay \in 1..MaxDelay /\ MaxDelay \in Nat \ {0}
    BY ObserverAssumption DEF ObserverInv, ObserverTypes
  <1>4. delay' = IF delay * 2 < MaxDelay THEN delay * 2 ELSE MaxDelay
    BY ONLY <1>1 DEF Shorter
  <1>5. previous' \in Files \cup {None} /\ retry' \in 0..MaxDelay /\ delay' \in 1..MaxDelay
    BY ONLY <1>1, <1>3, <1>4
  <1>6. Frames' /\ News
    BY <1>1, FailureIsTold
  <1>7. ObserverInv'
    BY <1>1, <1>2, <1>5, <1>6, ResultKeeps
  <1> QED BY <1>6, <1>7

LEMMA ObserverInitInv == ObserverInit => ObserverInv
  <1> SUFFICES ASSUME ObserverInit PROVE ObserverInv
    OBVIOUS
  <1>1. /\ disk = [model |-> 0, shard |-> 0] /\ seen = {disk} /\ cached = None /\ holder = None
        /\ call = [w \in Caller |->
                     [stage |-> "idle", op |-> "resolve", expected |-> Nothing, first |-> FALSE,
                      shards |-> FALSE, generation |-> Nothing, read |-> None, tries |-> 0,
                      found |-> Nothing]]
    BY DEF ObserverInit, CatalogueInit, Nothing, Nothing
  <1>2. /\ disk \in DiskState /\ disk.model = 0 /\ disk.shard = 0 /\ 0 \in 0..Attempts - 1
        /\ Nothing \in Files
    BY <1>1, Numbers DEF DiskState, Nothing, Files
  <1>3. CatalogueTypes
    <2>1. call \in [Caller -> CallRecord]
      BY <1>1, <1>2 DEF CallRecord, Stage, Op
    <2> QED BY <1>1, <1>2, <2>1 DEF CatalogueTypes
  <1>4. CatalogueInv
    <2>1. Ordered
      BY <1>1, <1>2 DEF Ordered
    <2>2. Looks
      BY <1>1 DEF Looks, Look
    <2>3. CacheInv
      BY <1>1 DEF CacheInv, CacheConsistent
    <2> QED BY <1>3, <2>1, <2>2, <2>3 DEF CatalogueInv
  <1>5. ASSUME NEW w \in Caller PROVE Expects(w)
    BY <1>1 DEF Expects
  <1>6. Asking /\ Stopping /\ ObserverTypes
    <2>1. Observer \in Caller /\ MaxDelay \in Nat \ {0}
      BY ObserverAssumption
    <2>2. call[Observer].stage = "idle"
      BY <1>1, <2>1
    <2>3. /\ spc = [s \in Subscriber |-> "out"] /\ members = {} /\ lifetime = None
          /\ task = "none" /\ stop = FALSE /\ halted = FALSE /\ closing = "no"
          /\ previous = None /\ retry = 0 /\ delay = 1
      BY ONLY ObserverInit DEF ObserverInit
    <2>4. ObserverTypes
      <3>1. retry \in 0..MaxDelay /\ delay \in 1..MaxDelay
        BY ONLY <2>1, <2>3
      <3> QED BY ONLY <2>3, <3>1 DEF ObserverTypes
    <2>5. Asking /\ Stopping
      BY ONLY <2>2, <2>3 DEF Asking, Stopping
    <2> QED BY <2>4, <2>5
  <1>7. Frames
    BY ONLY ObserverInit DEF ObserverInit, Frames
  <1> QED BY <1>4, <1>5, <1>6, <1>7 DEF ObserverInv, LookInv

\* A step keeps the invariant and tells a stream nothing, or what Debounced allows.
LEMMA ObserverNextInv ==
  ASSUME ObserverInv, [ObserverNext]_observerVars
  PROVE  ObserverInv' /\ (Untold \/ News)
  <1>1. CASE Observing
    BY <1>1, TickKeeps, GenerationKeeps, ObserveKeeps, ObservedKeeps, ObserveFailsKeeps
       DEF Observing
  <1>2. CASE \E s \in Subscriber : Open(s) \/ Streaming(s) \/ Leave(s)
    <2>1. PICK s \in Subscriber : Open(s) \/ Streaming(s) \/ Leave(s)
      BY <1>2
    <2> QED BY <2>1, OpenKeeps, TakeKeeps, UnsubscribeKeeps, SettleKeeps DEF Streaming
  <1>3. CASE RequestStop \/ AcloseBegin \/ AcloseEnd
    BY <1>3, ShutdownKeepsObserver
  <1>4. ASSUME UNCHANGED Loop
        PROVE  /\ UNCHANGED <<task, previous, spc, members, halted, queue, state, delivered>>
               /\ Stopping' /\ ObserverTypes' /\ Frames' /\ Untold
    <2>1. UNCHANGED <<spc, joins, members, lifetime, queue, state, delivered, task, stop, halted,
                      closing, previous, failure, retry, delay>>
      BY ONLY <1>4 DEF Loop, streamVars, frameVars, stopVars, localVars
    <2>2. Stopping' /\ ObserverTypes' /\ Untold
      BY ONLY <2>1, ObserverInv DEF ObserverInv, Stopping, ObserverTypes, Untold
    <2>3. Frames'
      BY <2>1, FramesStay DEF ObserverInv
    <2> QED BY ONLY <2>1, <2>2, <2>3
  <1>5. CASE \E w \in Caller : Work(w)
    <2>1. PICK w \in Caller : CatalogueStep(w) /\ UNCHANGED Loop
      BY ONLY <1>5 DEF Work
    <2>2. CatalogueStep(w) /\ Observer \in Caller
      BY <2>1, ObserverAssumption
    <2>3. LookInv' /\ Asking'
      BY <1>4, <2>1, <2>2, ThreadKeeps DEF ObserverInv
    <2> QED BY <1>4, <2>1, <2>3 DEF ObserverInv
  <1>6. CASE Change /\ UNCHANGED Loop
    <2>1. LookInv' /\ UNCHANGED call
      BY <1>6, FilesMove DEF ObserverInv
    <2>2. Asking'
      BY ONLY <1>4, <1>6, <2>1, ObserverInv DEF ObserverInv, Asking
    <2> QED BY <1>4, <1>6, <2>1, <2>2 DEF ObserverInv
  <1>7. CASE UNCHANGED observerVars
    <2>1. UNCHANGED <<disk, seen, cached, holder, call>> /\ UNCHANGED Loop
      BY ONLY <1>7 DEF observerVars, catalogueVars, streamVars, frameVars, stopVars,
                       localVars, Loop
    <2>2. LookInv' /\ Asking'
      BY <1>4, <2>1, TaskStays DEF ObserverInv
    <2> QED BY <1>4, <2>1, <2>2 DEF ObserverInv
  <1> QED BY <1>1, <1>2, <1>3, <1>5, <1>6, <1>7 DEF ObserverNext

\* The observer and the catalogue are in the states that the invariant describes, whatever
\* the files and the streams do (model_events.py, models.py).
THEOREM ObserverInvariance == ObserverSpec => []ObserverInv
  <1>1. ObserverInit => ObserverInv
    BY ObserverInitInv
  <1>2. ObserverInv /\ [ObserverNext]_observerVars => ObserverInv'
    BY ObserverNextInv
  <1> QED BY <1>1, <1>2, PTL DEF ObserverSpec

\* One observer serves all: while somebody subscribes it is at work, and without anybody it
\* is told to stop (ModelObserver.subscribe, unsubscribe and _settle of model_events.py).
THEOREM OneServesAll == ObserverSpec => []OneObserver
  <1>1. ObserverInv => OneObserver
    <2> SUFFICES ASSUME ObserverInv PROVE OneObserver
      OBVIOUS
    <2>1. CatalogueTypeOK
      BY DEF ObserverInv, LookInv, CatalogueInv, CatalogueTypes, DiskState, CallRecord,
             CatalogueTypeOK
    <2>2. ObserverTypeOK
      BY ONLY <2>1, ObserverInv DEF ObserverInv, ObserverTypes, ObserverTypeOK
    <2> QED BY ONLY <2>2, ObserverInv
            DEF ObserverInv, ObserverTypes, Asking, Stopping, OneObserver
  <1> QED BY <1>1, ObserverInvariance, PTL

\* A slow stream loses old frames but never the newest, and after request_stop() never the
\* end (ModelSubscription.replace and ModelEventResponse.frames).
THEOREM NewestIsKept == ObserverSpec => []NewestFrameKept
  <1>1. ObserverInv => NewestFrameKept
    <2> SUFFICES ASSUME ObserverInv, NEW s \in members, spc[s] = "in"
                 PROVE  /\ halted => queue[s] = <<End>>
                        /\ ~halted /\ queue[s] # <<>> => queue[s][1].state = state[s]
                        /\ ~halted /\ queue[s] = <<>> /\ state[s] # None =>
                             delivered[s] # None /\ delivered[s].state = state[s]
      BY DEF NewestFrameKept
    <2>1. Newest(s)
      BY DEF ObserverInv, Frames
    <2>2. None \notin [state : State] /\ None \notin State
      BY ObserverAssumption
    <2>3. CASE ~halted /\ queue[s] # <<>>
      <3>1. queue[s] = <<[state |-> state[s]]>>
        BY ONLY <2>1, <2>3, spc[s] = "in" DEF Newest
      <3> QED BY ONLY <2>3, <3>1
    <2>4. CASE ~halted /\ queue[s] = <<>> /\ state[s] # None
      <3>1. delivered[s] = [state |-> state[s]] /\ state[s] \in State
        BY ONLY <2>1, <2>4, spc[s] = "in" DEF Newest
      <3> QED BY ONLY <2>2, <2>4, <3>1
    <2>5. CASE halted
      BY ONLY <2>1, <2>5, spc[s] = "in" DEF Newest
    <2> QED BY <2>3, <2>4, <2>5
  <1> QED BY <1>1, ObserverInvariance, PTL

\* A stream is told of a model, or of its absence, only if the generation of two ticks in a
\* row says so: the observation that found it lay between two looks that found what the
\* last tick had found (_run of model_events.py, observe of models.py).
THEOREM ChangesAreDebounced == ObserverSpec => Debounced
  <1>1. ObserverInv /\ [ObserverNext]_observerVars =>
          [\A s \in Subscriber :
             state'[s] # state[s] /\ state'[s] # None =>
               /\ state'[s].status = "unavailable" => previous.model \in Absent
               /\ state'[s].status = "present" =>
                    /\ state'[s].revision.model = previous.model
                    /\ previous.shard # None /\ state'[s].revision.shard # None =>
                         state'[s].revision.shard = previous.shard]_observerVars
    <2>1. Untold \/ News =>
          \A s \in Subscriber :
             state'[s] # state[s] /\ state'[s] # None =>
               /\ state'[s].status = "unavailable" => previous.model \in Absent
               /\ state'[s].status = "present" =>
                    /\ state'[s].revision.model = previous.model
                    /\ previous.shard # None /\ state'[s].revision.shard # None =>
                         state'[s].revision.shard = previous.shard
      BY ONLY DEF Untold, News
    <2> QED BY <2>1, ObserverNextInv
  <1> QED BY <1>1, ObserverInvariance, PTL DEF ObserverSpec, Debounced

=============================================================================
