--------------------------- MODULE ArtifactStore ---------------------------
(***************************************************************************)
(* Publication and lookup of one artifact key in the shared cache          *)
(* (backend/src/llm_model_explorer/artifacts.py).                          *)
(*                                                                         *)
(* Writers, of this process or of others, build a private directory and    *)
(* publish it by renaming it to the key under an advisory lock on the      *)
(* cache root.  Lookups take no lock: they walk an open directory handle.  *)
(* Processes may die between any two system calls and the machine may lose *)
(* power, which undoes what was not synced.                                *)
(*                                                                         *)
(* A directory is its two files and what of it is on stable storage.  A    *)
(* payload is the bytes it holds, "short" while its length is wrong, or    *)
(* "junk" of the right length; a manifest is the digest it declares or     *)
(* "bad" when it does not validate.                                        *)
(***************************************************************************)
EXTENDS Naturals, FiniteSets

CONSTANTS
    Writer,     \* ArtifactWriter instances for the key
    Lookup,     \* calls of ArtifactStore.lookup
    Content,    \* the payloads that producers may compute, named by their digests
    Events,     \* what else may happen in the instance
    None

EventKinds == {"error", "crash", "power", "evict", "truncate"}

ASSUME StoreAssumption ==
    /\ Events \subseteq EventKinds
    /\ {"short", "junk", "bad"} \cap Content = {}
    /\ None \notin Content \cup Writer

File == {"payload", "manifest", "names"}
Directory == [payload : Content \cup {"short", "junk"}, manifest : Content \cup {"bad"},
              synced : SUBSET File]

VARIABLES
    entry,      \* the directory at root/key, or None
    stable,     \* what root/key is after a power loss
    temp,       \* the private directory of each writer, or None
    content,    \* the bytes the producer of each writer computes
    wpc,        \* the next system call of each writer
    lock,       \* the holder of the publication lock, or None
    handle,     \* the directory a lookup has opened, or None
    declared,   \* the digest a lookup has read from the manifest
    lpc,        \* the next system call of each lookup
    hit         \* the <<digest, bytes>> a lookup has returned, or None

writerVars == <<temp, content, wpc, lock>>
lookupVars == <<handle, declared, lpc, hit>>
vars == <<entry, stable, writerVars, lookupVars>>

WriterPC == {"unused", "writing", "payload", "seal", "lock", "check", "discard", "remove",
             "rename", "sync", "complete", "aborted", "crashed"}
Committing == {"payload", "seal", "lock", "check", "discard", "remove", "rename", "sync"}
Locked == {"check", "discard", "remove", "rename", "sync"}

TypeOK ==
    /\ entry \in Directory \cup {None} /\ stable \in Directory \cup {None}
    /\ temp \in [Writer -> Directory \cup {None}]
    /\ content \in [Writer -> Content]
    /\ wpc \in [Writer -> WriterPC]
    /\ lock \in Writer \cup {None}
    /\ handle \in [Lookup -> Directory \cup {None}]
    /\ declared \in [Lookup -> Content \cup {"bad"}]
    /\ lpc \in [Lookup -> {"open", "manifest", "payload", "done"}]
    /\ hit \in [Lookup -> (Content \X (Content \cup {"junk"})) \cup {None}]

Published(c) == [payload |-> c, manifest |-> c, synced |-> File]

\* The cache as an earlier run left it: nothing, a valid entry or a truncated one.
Init ==
    /\ entry \in {None} \cup UNION {{Published(c), [Published(c) EXCEPT !.payload = "short"]} :
                                       c \in Content}
    /\ stable = entry
    /\ temp = [w \in Writer |-> None]
    /\ content \in [Writer -> Content]
    /\ wpc = [w \in Writer |-> "unused"]
    /\ lock = None
    /\ handle = [r \in Lookup |-> None]
    /\ declared = [r \in Lookup |-> "bad"]
    /\ lpc = [r \in Lookup |-> "open"]
    /\ hit = [r \in Lookup |-> None]

-----------------------------------------------------------------------------
(* Writers.                                                                *)

Step(w, from, to) == wpc[w] = from /\ wpc' = [wpc EXCEPT ![w] = to]

Readable(d) == d # None /\ d.manifest # "bad"
\* _open_valid accepts a directory by its manifest and the length of its payload.
Valid(d) == Readable(d) /\ d.payload # "short"

\* ArtifactWriter.__init__: mkdtemp and an empty payload.
Begin(w) ==
    /\ Step(w, "unused", "writing")
    /\ temp' = [temp EXCEPT ![w] = [payload |-> "short", manifest |-> "bad", synced |-> {}]]
    /\ UNCHANGED <<entry, stable, content, lock, lookupVars>>

\* The append that completes the declared length; then commit() validates it.
Append(w) ==
    /\ Step(w, "writing", "payload")
    /\ temp' = [temp EXCEPT ![w].payload = content[w]]
    /\ UNCHANGED <<entry, stable, content, lock, lookupVars>>

\* Mutant: the payload is left to the page cache.
SyncPayload_Lazy(w) ==
    /\ Step(w, "payload", "seal")
    /\ UNCHANGED <<entry, stable, temp, content, lock, lookupVars>>

SyncPayload(w) ==
    /\ Step(w, "payload", "seal")
    /\ temp' = [temp EXCEPT ![w].synced = @ \cup {"payload"}]
    /\ UNCHANGED <<entry, stable, content, lock, lookupVars>>

\* The manifest is written and synced, then the private directory.
Seal(w) ==
    /\ Step(w, "seal", "lock")
    /\ temp' = [temp EXCEPT ![w].manifest = content[w],
                            ![w].synced = @ \cup {"manifest", "names"}]
    /\ UNCHANGED <<entry, stable, content, lock, lookupVars>>

\* Mutant: no mutual exclusion between publications.
LockFree_Always == TRUE
LockFree == lock = None

\* _publication_lock: flock of the root, across processes.
TakeLock(w) ==
    /\ Step(w, "lock", "check")
    /\ LockFree
    /\ lock' = w
    /\ UNCHANGED <<entry, stable, temp, content, lookupVars>>

\* What becomes of a commit that meets this entry: reuse, conflict or publication.
Verdict(w) ==
    IF ~Valid(entry) THEN (IF entry = None THEN "rename" ELSE "remove")
    ELSE IF entry.manifest = content[w] THEN "discard" ELSE "aborted"

\* Mutant: a writer that is through leaves its directory to a later clean-up.
Removed_Later(w) == temp
\* The private directories without the writer's own.
Removed(w) == [temp EXCEPT ![w] = None]

\* An existing valid entry with another digest raises ArtifactConflict, and commit aborts.
CheckExisting(w) ==
    /\ Step(w, "check", Verdict(w))
    /\ IF Verdict(w) = "aborted"
       THEN temp' = Removed(w) /\ lock' = None
       ELSE UNCHANGED <<temp, lock>>
    /\ UNCHANGED <<entry, stable, content, lookupVars>>

\* The same bytes are there already: the private copy is dropped.
Discard(w) ==
    /\ Step(w, "discard", "complete")
    /\ temp' = Removed(w) /\ lock' = None
    /\ UNCHANGED <<entry, stable, content, lookupVars>>

\* Only an invalid entry is removed.
Remove(w) ==
    /\ Step(w, "remove", "rename")
    /\ entry' = None
    /\ UNCHANGED <<stable, temp, content, lock, lookupVars>>

\* A rename over a directory that is not empty fails, and the commit aborts.
Rename(w) ==
    /\ Step(w, "rename", "sync")
    /\ entry = None
    /\ entry' = temp[w]
    /\ temp' = Removed(w)
    /\ UNCHANGED <<stable, content, lock, lookupVars>>

SyncRoot(w) ==
    /\ Step(w, "sync", "complete")
    /\ stable' = entry
    /\ lock' = None
    /\ UNCHANGED <<entry, temp, content, lookupVars>>

\* Mutant: a lock file, which outlives the writer that created it.
Released_LockFile(w) == lock
\* The lock of a descriptor that is closed, by its process or with it.
Released(w) == IF lock = w THEN None ELSE lock

\* abort() by the producer, or an error of any call: the lock goes with its descriptor.
\* A failed sync of the root leaves the entry published.
Abort(w) ==
    /\ wpc[w] = "writing" \/ ("error" \in Events /\ wpc[w] \in Committing)
    /\ wpc' = [wpc EXCEPT ![w] = "aborted"]
    /\ temp' = Removed(w)
    /\ lock' = Released(w)
    /\ UNCHANGED <<entry, stable, content, lookupVars>>

\* The process dies: its private directory stays and its lock goes.
Crash(w) ==
    /\ "crash" \in Events /\ wpc[w] \in {"writing"} \cup Committing
    /\ wpc' = [wpc EXCEPT ![w] = "crashed"]
    /\ lock' = Released(w)
    /\ UNCHANGED <<entry, stable, temp, content, lookupVars>>

Write(w) ==
    \/ Append(w) \/ SyncPayload(w) \/ Seal(w) \/ TakeLock(w) \/ CheckExisting(w)
    \/ Discard(w) \/ Remove(w) \/ Rename(w) \/ SyncRoot(w)

-----------------------------------------------------------------------------
(* Lookups (_open_valid and lookup).                                       *)

Move(r, from, to) == lpc[r] = from /\ lpc' = [lpc EXCEPT ![r] = to]

OpenDirectory(r) ==
    /\ Move(r, "open", IF entry = None THEN "done" ELSE "manifest")
    /\ handle' = [handle EXCEPT ![r] = entry]
    /\ UNCHANGED <<entry, stable, writerVars, declared, hit>>

\* The directory whose files the lookup reads next.
Walked(r) == handle[r]

\* A malformed manifest, or one removed meanwhile, is a miss.
ReadManifest(r) ==
    /\ \/ /\ Readable(Walked(r))
          /\ Move(r, "manifest", "payload")
          /\ declared' = [declared EXCEPT ![r] = Walked(r).manifest]
       \/ /\ ~Readable(Walked(r)) \/ handle[r] # entry
          /\ Move(r, "manifest", "done")
          /\ UNCHANGED declared
    /\ UNCHANGED <<entry, stable, writerVars, handle, hit>>

\* The payload is opened and its length compared with the manifest's.
OpenPayload(r) ==
    /\ Move(r, "payload", "done")
    /\ \/ /\ Valid(Walked(r))
          /\ hit' = [hit EXCEPT ![r] = <<declared[r], Walked(r).payload>>]
       \/ /\ ~Valid(Walked(r)) \/ handle[r] # entry
          /\ UNCHANGED hit
    /\ UNCHANGED <<entry, stable, writerVars, handle, declared>>

Look(r) == OpenDirectory(r) \/ ReadManifest(r) \/ OpenPayload(r)

-----------------------------------------------------------------------------
(* The world outside.                                                      *)

Evict ==
    /\ "evict" \in Events /\ entry # None
    /\ entry' = None
    /\ UNCHANGED <<stable, writerVars, lookupVars>>

Truncate ==
    /\ "truncate" \in Events /\ entry # None /\ entry.payload # "short"
    /\ entry' = [entry EXCEPT !.payload = "short"]
    /\ stable' = IF stable = entry THEN entry' ELSE stable
    /\ handle' = [r \in Lookup |-> IF handle[r] = entry THEN entry' ELSE handle[r]]
    /\ UNCHANGED <<writerVars, declared, lpc, hit>>

\* What a power loss may make of a directory: unsynced files lose their bytes.
Survivors(d) ==
    IF d = None THEN {None}
    ELSE [payload : IF "payload" \in d.synced THEN {d.payload} ELSE {d.payload, "short", "junk"},
          manifest : IF {"manifest", "names"} \subseteq d.synced THEN {d.manifest}
                     ELSE {d.manifest, "bad"},
          synced : {File}]

\* Every process dies; root/key is what was synced last or what was there.
PowerLoss ==
    /\ "power" \in Events
    /\ entry' \in Survivors(entry) \cup Survivors(stable)
    /\ stable' = entry'
    /\ wpc' = [w \in Writer |-> IF wpc[w] \in {"writing"} \cup Committing
                                THEN "crashed" ELSE wpc[w]]
    /\ lock' = None
    /\ handle' = [r \in Lookup |-> None]
    /\ lpc' = [r \in Lookup |-> IF lpc[r] = "open" THEN "open" ELSE "done"]
    /\ UNCHANGED <<temp, content, declared, hit>>

Environment == Evict \/ Truncate \/ PowerLoss

Next ==
    \/ \E w \in Writer : Begin(w) \/ Write(w) \/ Abort(w) \/ Crash(w)
    \/ \E r \in Lookup : Look(r)
    \/ Environment

\* A commit that has begun is carried through by its thread, and flock is granted to
\* some waiter when it is free.
Spec == Init /\ [][Next]_vars /\ \A w \in Writer : WF_vars(Write(w) /\ wpc[w] # "writing")

-----------------------------------------------------------------------------

\* Whatever crashed, lost power or raced before, a lookup that hits returns the very
\* bytes whose digest the manifest declares.
HitIntegrity ==
    /\ TypeOK
    /\ \A r \in Lookup : hit[r] # None => hit[r][1] = hit[r][2]

\* The first valid publication wins: only the world outside takes a valid entry away.
FirstWins == [][Valid(entry) => entry' = entry \/ Environment]_vars

\* A writer that ends, however it ends short of a crash, leaves no private directory and
\* no lock, and one that still has to publish has both what it publishes and the lock.
NothingLeftBehind ==
    \A w \in Writer :
        /\ wpc[w] \in {"unused", "sync", "complete", "aborted"} => temp[w] = None
        /\ wpc[w] = "rename" => temp[w] = Published(content[w])
        /\ lock = w <=> wpc[w] \in Locked

\* The lock is never lost: a commit that has begun ends.
CommitEnds == \A w \in Writer : wpc[w] = "payload" ~> wpc[w] \in {"complete", "aborted", "crashed"}

=============================================================================
