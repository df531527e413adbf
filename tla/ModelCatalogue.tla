--------------------------- MODULE ModelCatalogue ---------------------------
(***************************************************************************)
(* The local model catalogue (backend/src/llm_model_explorer/models.py,    *)
(* catalogue_generation.py): a validated scan of the model root, cached    *)
(* under the metadata generation it was found in.                          *)
(*                                                                         *)
(* Files change at any moment, so a capture of their metadata and a scan   *)
(* of their contents are read file by file.  Two files are enough: the     *)
(* model's own files, always looked at, and a shard in a nested directory, *)
(* which is looked at only once an index has been found to name it.        *)
(***************************************************************************)
EXTENDS Naturals

CONSTANTS
    Caller,      \* the threads that call the catalogue
    Versions,    \* the model's files have the versions 0..Versions in turn
    Shards,      \* the nested shard has the versions 0..Shards in turn
    Indexed,     \* the versions of the model that name the nested shard
    Absent,      \* the versions without a valid candidate
    Broken,      \* the versions in which discovery as a whole fails
    Unreadable,  \* the versions in which the root cannot be enumerated
    Attempts,    \* scans before _resolve_locked gives up (3)
    None

ASSUME CatalogueAssumption ==
    /\ Versions \in Nat /\ Shards \in Nat /\ Attempts \in Nat \ {0}
    /\ Indexed \cup Absent \cup Broken \cup Unreadable \subseteq 0..Versions
    /\ None \notin Nat \cup Caller

VARIABLES
    disk,    \* the files: [model |-> version, shard |-> version]
    seen,    \* history: every state the files have been in
    cached,  \* catalogue._cached: generation, discovery and its shards
    holder,  \* the thread in catalogue._lock
    call     \* the call in progress of each thread

catalogueVars == <<disk, seen, cached, holder, call>>

Version == Nat \cup {None}
Stage == {"idle", "lock", "generation", "before", "entry", "scan", "failed", "check",
          "retry", "after", "ok", "error"}
Nothing == [model |-> None, shard |-> None]

CatalogueInit ==
    /\ disk = [model |-> 0, shard |-> 0]
    /\ seen = {disk}
    /\ cached = None
    /\ holder = None
    /\ call = [w \in Caller |->
                [stage |-> "idle", op |-> "resolve", expected |-> Nothing, first |-> FALSE,
                 shards |-> FALSE, generation |-> Nothing, read |-> None, tries |-> 0,
                 found |-> Nothing]]

\* What another program does to the files.  A stamp never comes back.
Change ==
    /\ \/ disk.model < Versions /\ disk' = [disk EXCEPT !.model = @ + 1]
       \/ disk.shard < Shards /\ disk' = [disk EXCEPT !.shard = @ + 1]
    /\ seen' = seen \cup {disk'}
    /\ UNCHANGED <<cached, holder, call>>

-----------------------------------------------------------------------------
(* A call: lock, captures and scans, return.                               *)

\* The shards that a capture outside a discovery stats: those of the cached discovery.
CachedShards == cached # None /\ cached.shards

\* metadata_generation(), observe(expected) or discover() is handed to a thread.
Call(w, op, expected) ==
    /\ call[w].stage = "idle"
    /\ call' = [call EXCEPT ![w].stage = "lock", ![w].op = op, ![w].expected = expected]

Acquire(w) ==
    /\ call[w].stage = "lock" /\ holder = None
    /\ holder' = w
    /\ call' = [call EXCEPT
         ![w].stage = CASE call[w].op = "generation" -> "generation"
                        [] call[w].op = "observe" -> "before"
                        [] call[w].op = "resolve" -> "entry",
         ![w].first = CachedShards, ![w].shards = CachedShards, ![w].read = None]
    /\ UNCHANGED <<disk, seen, cached>>

Reads == {"generation", "before", "entry", "scan", "failed", "check", "retry", "after"}

\* A capture stats the shards it was given, a scan follows the index it reads.
NeedsShard(w, model) ==
    CASE call[w].stage = "scan" -> model \in Indexed
      [] call[w].stage \in {"before", "after"} -> call[w].first
      [] OTHER -> call[w].shards

\* The first of two files has been read; anything may change before the second is.
ReadModel(w) ==
    /\ call[w].stage \in Reads /\ call[w].read = None
    /\ NeedsShard(w, disk.model)
    /\ call' = [call EXCEPT ![w].read = disk.model]
    /\ UNCHANGED <<disk, seen, cached, holder>>

\* What the capture or scan has found once its last file is read.
Got(w) ==
    IF call[w].read = None THEN [model |-> disk.model, shard |-> None]
    ELSE [model |-> call[w].read, shard |-> disk.shard]

\* Stage t reads its last file, and the root could be enumerated.
Complete(w, t) ==
    /\ call[w].stage = t
    /\ call[w].read # None \/ ~NeedsShard(w, disk.model)

Captured(w, t) == Complete(w, t) /\ Got(w).model \notin Unreadable

Goto(w, t) == call' = [call EXCEPT ![w].stage = t, ![w].read = None]
Fail(w) == Goto(w, "error") /\ holder' = None /\ UNCHANGED <<disk, seen, cached>>
Return(w, value) ==
    /\ call' = [call EXCEPT ![w].stage = "ok", ![w].found = value, ![w].read = None]
    /\ holder' = None
    /\ UNCHANGED <<disk, seen, cached>>

\* A capture of an unreadable root raises, and so does a scan of it.
Unusable(w) ==
    /\ \E t \in Reads \ {"scan"} : Complete(w, t)
    /\ Got(w).model \in Unreadable
    /\ Fail(w)

Generation(w) ==
    /\ Captured(w, "generation")
    /\ Return(w, Got(w))

\* Mutant: observe() trusts the generation it was given.
Expected_Trusted(w) == TRUE
Expected(w) == Got(w) = call[w].expected

\* observe: the files are still as expected ...
Before(w) ==
    /\ Captured(w, "before")
    /\ IF Expected(w) THEN Goto(w, "entry") /\ UNCHANGED <<disk, seen, cached, holder>>
       ELSE Fail(w)

\* The discovery is known: return it, from observe after a last look.
Resolved(w, value) ==
    IF call[w].op = "observe"
    THEN /\ call' = [call EXCEPT ![w].stage = "after", ![w].found = value, ![w].read = None]
         /\ UNCHANGED holder
    ELSE /\ call' = [call EXCEPT ![w].stage = "ok", ![w].found = value, ![w].read = None]
         /\ holder' = None

\* The files are those of the cached discovery.
Known(w) == cached # None /\ Got(w) = cached.generation

\* _resolve_locked: a hit, or the first scan.
Hit(w) ==
    /\ Captured(w, "entry")
    /\ Known(w)
    /\ Resolved(w, cached.found)
    /\ UNCHANGED <<disk, seen, cached>>

Miss(w) ==
    /\ Captured(w, "entry")
    /\ ~Known(w)
    /\ call' = [call EXCEPT ![w].stage = "scan", ![w].generation = Got(w),
                            ![w].read = None, ![w].tries = 0]
    /\ UNCHANGED <<disk, seen, cached, holder>>

\* _discover raises: final only if nothing has changed since the capture.
ScanFails(w) ==
    /\ Complete(w, "scan") /\ Got(w).model \in Broken \cup Unreadable
    /\ Goto(w, "failed")
    /\ UNCHANGED <<disk, seen, cached, holder>>

Failed(w) ==
    /\ Captured(w, "failed")
    /\ IF Got(w) = call[w].generation THEN Fail(w)
       ELSE Goto(w, "retry") /\ UNCHANGED <<disk, seen, cached, holder>>

\* _discover returns what it has read, and the nested shards it has learned of.
ScanEnds(w) ==
    /\ Complete(w, "scan") /\ Got(w).model \notin Broken \cup Unreadable
    /\ call' = [call EXCEPT ![w].stage = "check", ![w].read = None,
                            ![w].found = Got(w),
                            ![w].shards = Got(w).model \in Indexed]
    /\ UNCHANGED <<disk, seen, cached, holder>>

\* Mutant: the shards just learned are left to the next request.
Stable_OldShards(w) == Got(w).model = call[w].generation.model
\* The generation is the one the scan began in, with all its shards captured by then.
Stable(w) == Got(w) = call[w].generation

Keep(w) ==
    /\ Captured(w, "check") /\ Stable(w)
    /\ cached' = [generation |-> Got(w), found |-> call[w].found,
                  shards |-> call[w].shards]
    /\ Resolved(w, call[w].found)
    /\ UNCHANGED <<disk, seen>>

Discard(w) ==
    /\ Captured(w, "check") /\ ~Stable(w)
    /\ Goto(w, "retry")
    /\ UNCHANGED <<disk, seen, cached, holder>>

\* A new generation, and another scan unless it was the last.
Retry(w) ==
    /\ Captured(w, "retry")
    /\ IF call[w].tries + 1 < Attempts
       THEN /\ call' = [call EXCEPT ![w].stage = "scan", ![w].generation = Got(w),
                                    ![w].read = None, ![w].tries = @ + 1]
            /\ UNCHANGED <<disk, seen, cached, holder>>
       ELSE Fail(w)

\* observe: ... and are so afterwards.
After(w) ==
    /\ Captured(w, "after")
    /\ IF Expected(w) THEN Return(w, call[w].found) ELSE Fail(w)

CatalogueStep(w) ==
    \/ Acquire(w) \/ ReadModel(w) \/ Unusable(w) \/ Generation(w)
    \/ Before(w) \/ Hit(w) \/ Miss(w) \/ ScanFails(w) \/ Failed(w) \/ ScanEnds(w)
    \/ Keep(w) \/ Discard(w) \/ Retry(w) \/ After(w)

\* The result has been taken by the caller.
Taken(w) == call' = [call EXCEPT ![w].stage = "idle", ![w].found = Nothing,
                                 ![w].expected = Nothing, ![w].generation = Nothing,
                                 ![w].shards = FALSE, ![w].first = FALSE, ![w].tries = 0]

-----------------------------------------------------------------------------
CatalogueTypeOK ==
    /\ disk \in [model : 0..Versions, shard : 0..Shards]
    /\ disk \in seen
    /\ holder \in Caller \cup {None}
    /\ \A w \in Caller : call[w].stage \in Stage /\ call[w].tries \in 0..Attempts - 1

\* A discovery that the files were in, all at one moment.
Consistent(found) ==
    \E d \in seen :
        /\ found.model = d.model
        /\ found.shard = IF found.model \in Indexed THEN d.shard ELSE None

\* The cached catalogue is one that the files were in, and it is found under the
\* generation of that moment, nested shards included.
CacheConsistent ==
    cached # None =>
        /\ Consistent(cached.found)
        /\ cached.generation.model = cached.found.model
        /\ cached.shards => cached.generation.shard = cached.found.shard
=============================================================================
