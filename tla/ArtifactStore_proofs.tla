------------------------- MODULE ArtifactStore_proofs -------------------------
(***************************************************************************)
(* HitIntegrity, NothingLeftBehind and FirstWins of ArtifactStore, for any *)
(* writers, lookups and contents, and whichever events may happen.         *)
(*                                                                         *)
(* That what a lookup returns is sound follows from what every directory   *)
(* that was ever at the key is like (Entries): sealed, on stable storage,  *)
(* and with the bytes that its manifest declares unless it was truncated.  *)
(* That holds because a writer renames nothing that it has not sealed,     *)
(* which is a fact of where each writer is (Prepared).                     *)
(***************************************************************************)
EXTENDS ArtifactStore, TLAPS

USE DEF writerVars, lookupVars, vars

Entries ==
    {d \in Directory : /\ d.manifest \in Content
                       /\ d.payload \in {d.manifest, "short"}
                       /\ d.synced = File}

\* What is at the key, would be after a power loss, or was when a lookup opened it.
Sealed ==
    /\ entry \in Entries \cup {None} /\ stable \in Entries \cup {None}
    /\ handle \in [Lookup -> Entries \cup {None}]

\* The private directory of a writer, call by call.
Prepared ==
    \A w \in Writer :
        /\ wpc[w] = "writing" => temp[w] = [payload |-> "short", manifest |-> "bad", synced |-> {}]
        /\ wpc[w] = "payload" => temp[w] = [payload |-> content[w], manifest |-> "bad", synced |-> {}]
        /\ wpc[w] = "seal" =>
               temp[w] = [payload |-> content[w], manifest |-> "bad", synced |-> {"payload"}]
        /\ wpc[w] \in {"lock", "check", "discard", "remove", "rename"} =>
               temp[w] = Published(content[w])

\* A writer removes only what is not valid: nobody else publishes meanwhile.
RemovesInvalid == \A w \in Writer : wpc[w] = "remove" => ~Valid(entry)

\* What a lookup has read is what it walks.
Read ==
    \A r \in Lookup :
        /\ lpc[r] \in {"manifest", "payload"} => handle[r] \in Entries
        /\ lpc[r] = "payload" => declared[r] = handle[r].manifest

\* The inductive invariant.
IInv == HitIntegrity /\ NothingLeftBehind /\ Sealed /\ Prepared /\ RemovesInvalid /\ Read

-----------------------------------------------------------------------------

\* What a writer publishes is an entry.
LEMMA PublishedEntry == \A c \in Content : Published(c) \in Entries
  BY DEF Published, Entries, Directory, File

\* A power loss spares an entry.
LEMMA EntriesSurvive ==
    ASSUME NEW d \in Entries \cup {None}
    PROVE  Survivors(d) \subseteq Entries \cup {None}
  <1>1. CASE d = None
    BY <1>1 DEF Survivors
  <1>2. CASE d # None
    <2>1. d \in Entries
      BY <1>2
    <2>2. Survivors(d) = [payload : {d.payload}, manifest : {d.manifest}, synced : {File}]
      BY <1>2, <2>1 DEF Survivors, Entries, File
    <2>3. ASSUME NEW e \in [payload : {d.payload}, manifest : {d.manifest}, synced : {File}]
          PROVE  e \in Entries
      BY <2>1 DEF Entries, Directory, File
    <2> QED
      BY <2>2, <2>3
  <1> QED
    BY <1>1, <1>2

\* The initial states satisfy the invariant.
LEMMA InitIInv == Init => IInv
  <1> SUFFICES ASSUME Init PROVE IInv
    OBVIOUS
  <1>1. entry \in Entries \cup {None}
    <2>1. \A c \in Content : [Published(c) EXCEPT !.payload = "short"] \in Entries
      BY DEF Published, Entries, Directory, File
    <2> QED
      BY <2>1, PublishedEntry DEF Init
  <1>2. HitIntegrity
    BY <1>1, StoreAssumption DEF Init, HitIntegrity, TypeOK, Entries, WriterPC
  <1>3. NothingLeftBehind /\ Prepared /\ RemovesInvalid
    BY StoreAssumption DEF Init, NothingLeftBehind, Prepared, RemovesInvalid, Locked
  <1>4. Sealed /\ Read
    BY <1>1 DEF Init, Sealed, Read
  <1> QED
    BY <1>2, <1>3, <1>4 DEF IInv

\* What the private directory of a writer is at each of its calls.
At(w, pc, d) ==
    /\ pc = "writing" => d = [payload |-> "short", manifest |-> "bad", synced |-> {}]
    /\ pc = "payload" => d = [payload |-> content[w], manifest |-> "bad", synced |-> {}]
    /\ pc = "seal" => d = [payload |-> content[w], manifest |-> "bad", synced |-> {"payload"}]
    /\ pc = "lock" => d = Published(content[w])

\* A writer fills its private directory: nobody else sees it.
LEMMA PrivateStep ==
    ASSUME IInv, NEW w \in Writer, NEW d \in Directory,
           NEW pc \in {"writing", "payload", "seal", "lock"}, At(w, pc, d),
           wpc[w] \in {"unused", "writing", "payload", "seal"},
           wpc' = [wpc EXCEPT ![w] = pc], temp' = [temp EXCEPT ![w] = d],
           UNCHANGED <<entry, stable, content, lock, lookupVars>>
    PROVE  IInv'
  <1> USE StoreAssumption DEF IInv
  <1>1. HitIntegrity'
    BY DEF HitIntegrity, TypeOK, WriterPC
  <1>2. NothingLeftBehind'
    BY DEF HitIntegrity, TypeOK, NothingLeftBehind, Locked
  <1>3. Prepared'
    BY DEF HitIntegrity, TypeOK, Prepared, At, Published
  <1>4. RemovesInvalid'
    BY DEF HitIntegrity, TypeOK, RemovesInvalid, Valid, Readable
  <1>5. Sealed' /\ Read'
    BY DEF Sealed, Read
  <1> QED
    BY <1>1, <1>2, <1>3, <1>4, <1>5

\* A writer that holds the lock goes on holding it.
LEMMA LockedStep ==
    ASSUME IInv, NEW w \in Writer, NEW pc \in {"check", "discard", "remove", "rename"},
           wpc[w] \in {"lock", "check", "remove"}, wpc[w] = "lock" => lock = None,
           wpc' = [wpc EXCEPT ![w] = pc], lock' = w,
           entry' \in {entry, None}, pc = "remove" => ~Valid(entry'),
           UNCHANGED <<stable, temp, content, lookupVars>>
    PROVE  IInv'
  <1> USE StoreAssumption DEF IInv
  <1>1. HitIntegrity'
    BY DEF HitIntegrity, TypeOK, WriterPC
  <1>2. NothingLeftBehind'
    <2>1. \A v \in Writer : v # w => wpc'[v] = wpc[v] /\ wpc[v] \notin Locked /\ lock # v
      BY DEF HitIntegrity, TypeOK, NothingLeftBehind, Locked
    <2> QED
      BY <2>1 DEF HitIntegrity, TypeOK, NothingLeftBehind, Prepared, Locked
  <1>3. Prepared'
    BY DEF HitIntegrity, TypeOK, Prepared
  <1>4. RemovesInvalid'
    <2>1. \A v \in Writer : v # w => wpc'[v] # "remove"
      BY DEF HitIntegrity, TypeOK, NothingLeftBehind, Locked
    <2> QED
      BY <2>1 DEF HitIntegrity, TypeOK, RemovesInvalid, Valid, Readable
  <1>5. Sealed' /\ Read'
    BY DEF Sealed, Read
  <1> QED
    BY <1>1, <1>2, <1>3, <1>4, <1>5

\* A writer ends, releasing the lock if it has it.
LEMMA LastStep ==
    ASSUME IInv, NEW w \in Writer, NEW pc \in {"complete", "aborted", "crashed"},
           wpc' = [wpc EXCEPT ![w] = pc], lock' = Released(w),
           temp' \in {Removed(w), temp}, pc # "crashed" => temp'[w] = None,
           stable' \in {stable, entry},
           UNCHANGED <<entry, content, lookupVars>>
    PROVE  IInv'
  <1> USE StoreAssumption DEF IInv, Removed, Released
  <1>1. HitIntegrity'
    BY DEF HitIntegrity, TypeOK, WriterPC
  <1>2. NothingLeftBehind'
    BY DEF HitIntegrity, TypeOK, NothingLeftBehind, Locked
  <1>3. Prepared'
    BY DEF HitIntegrity, TypeOK, Prepared
  <1>4. RemovesInvalid'
    BY DEF HitIntegrity, TypeOK, RemovesInvalid, Valid, Readable
  <1>5. Sealed' /\ Read'
    BY DEF Sealed, Read
  <1> QED
    BY <1>1, <1>2, <1>3, <1>4, <1>5

\* What an assignment to a field of a directory makes of it.
LEMMA FieldOfDirectory ==
    ASSUME NEW d \in Directory, NEW x
    PROVE  /\ [d EXCEPT !.payload = x]
                  = [payload |-> x, manifest |-> d.manifest, synced |-> d.synced]
           /\ [d EXCEPT !.manifest = x]
                  = [payload |-> d.payload, manifest |-> x, synced |-> d.synced]
           /\ [d EXCEPT !.synced = x]
                  = [payload |-> d.payload, manifest |-> d.manifest, synced |-> x]
  BY DEF Directory

\* Every step of a writer preserves the invariant.
LEMMA WriterStep ==
    ASSUME IInv, NEW w \in Writer, Begin(w) \/ Write(w) \/ Abort(w) \/ Crash(w)
    PROVE  IInv'
  <1> USE StoreAssumption
  <1>1. CASE Begin(w)
    <2>1. [payload |-> "short", manifest |-> "bad", synced |-> {}] \in Directory
      BY DEF Directory
    <2> QED
      BY <1>1, <2>1, PrivateStep DEF Begin, Step, At
  <1>2. CASE Append(w)
    <2> DEFINE d == [payload |-> content[w], manifest |-> "bad", synced |-> {}]
    <2>1. d \in Directory /\ At(w, "payload", d)
      BY DEF Directory, At, IInv, HitIntegrity, TypeOK
    <2>2. temp[w] \in Directory /\ temp[w].manifest = "bad" /\ temp[w].synced = {}
      <3>1. wpc[w] = "writing"
        BY <1>2 DEF Append, Step
      <3>2. temp[w] = [payload |-> "short", manifest |-> "bad", synced |-> {}]
        BY <3>1, Zenon DEF IInv, Prepared
      <3> QED
        BY <3>2, SMT DEF Directory
    <2>3. [temp[w] EXCEPT !.payload = content[w]] = d
      BY <2>2, FieldOfDirectory, Zenon
    <2>4. temp' = [temp EXCEPT ![w] = d]
      BY <1>2, <2>3, Zenon DEF Append
    <2> QED
      BY <1>2, <2>1, <2>4, PrivateStep DEF Append, Step
  <1>3. CASE SyncPayload(w)
    <2> DEFINE d == [payload |-> content[w], manifest |-> "bad", synced |-> {"payload"}]
    <2>1. d \in Directory /\ At(w, "seal", d)
      BY DEF Directory, File, At, IInv, HitIntegrity, TypeOK
    <2>2. /\ temp[w] \in Directory /\ temp[w].payload = content[w] /\ temp[w].manifest = "bad"
          /\ temp[w].synced \cup {"payload"} = {"payload"}
      BY <1>3 DEF SyncPayload, Step, IInv, Prepared, Directory, HitIntegrity, TypeOK
    <2>3. [temp[w] EXCEPT !.synced = temp[w].synced \cup {"payload"}] = d
      <3>1. [temp[w] EXCEPT !.synced = temp[w].synced \cup {"payload"}]
                = [payload |-> temp[w].payload, manifest |-> temp[w].manifest,
                   synced |-> temp[w].synced \cup {"payload"}]
        BY <2>2, FieldOfDirectory, Zenon
      <3> QED
        BY <2>2, <3>1, Zenon
    <2>4. temp' = [temp EXCEPT ![w] = d]
      BY <1>3, <2>3, Zenon DEF SyncPayload
    <2> QED
      BY <1>3, <2>1, <2>4, PrivateStep DEF SyncPayload, Step
  <1>4. CASE Seal(w)
    <2> DEFINE d == Published(content[w])
               e == [temp[w] EXCEPT !.manifest = content[w]]
    <2>1. d \in Directory /\ At(w, "lock", d)
      BY DEF Directory, File, At, Published, IInv, HitIntegrity, TypeOK
    <2>2. /\ temp[w] \in Directory /\ temp[w].payload = content[w]
          /\ temp[w].synced \cup {"manifest", "names"} = File
      BY <1>4 DEF Seal, Step, IInv, Prepared, Directory, HitIntegrity, TypeOK, File
    <2>3. e = [payload |-> content[w], manifest |-> content[w], synced |-> temp[w].synced]
      BY <2>2, FieldOfDirectory, Zenon
    <2>4. /\ e \in Directory /\ e.payload = content[w] /\ e.manifest = content[w]
          /\ e.synced \cup {"manifest", "names"} = File
      BY <2>2, <2>3 DEF Directory, IInv, HitIntegrity, TypeOK
    <2>5. [e EXCEPT !.synced = e.synced \cup {"manifest", "names"}] = d
      <3> HIDE DEF e
      <3>1. [e EXCEPT !.synced = e.synced \cup {"manifest", "names"}]
                = [payload |-> e.payload, manifest |-> e.manifest,
                   synced |-> e.synced \cup {"manifest", "names"}]
        BY <2>4, FieldOfDirectory, Zenon
      <3> QED
        BY <2>4, <3>1, Zenon DEF Published
    <2>6. temp' = [temp EXCEPT ![w] = d]
      <3>1. temp' = [[temp EXCEPT ![w] = e] EXCEPT ![w].synced = @ \cup {"manifest", "names"}]
        BY <1>4, Zenon DEF Seal
      <3>2. temp \in [Writer -> Directory \cup {None}]
        BY DEF IInv, HitIntegrity, TypeOK
      <3> QED
        BY <2>5, <3>1, <3>2, Zenon
    <2> QED
      BY <1>4, <2>1, <2>6, PrivateStep DEF Seal, Step
  <1>5. CASE TakeLock(w)
    BY <1>5, LockedStep DEF TakeLock, Step, LockFree
  <1>6. CASE CheckExisting(w)
    <2>1. lock = w
      BY <1>6 DEF CheckExisting, Step, IInv, NothingLeftBehind, Locked
    <2>2. CASE Verdict(w) = "aborted"
      <3>1. temp'[w] = None
        BY <1>6, <2>2 DEF CheckExisting, Removed, IInv, HitIntegrity, TypeOK
      <3> QED
        BY <1>6, <2>1, <2>2, <3>1, LastStep DEF CheckExisting, Step, Released
    <2>3. CASE Verdict(w) # "aborted"
      BY <1>6, <2>1, <2>3, LockedStep DEF CheckExisting, Step, Verdict
    <2> QED
      BY <2>2, <2>3
  <1>7. CASE Discard(w)
    <2>1. lock = w /\ temp'[w] = None
      BY <1>7 DEF Discard, Step, Removed, IInv, HitIntegrity, TypeOK, NothingLeftBehind, Locked
    <2> QED
      BY <1>7, <2>1, LastStep DEF Discard, Step, Released
  <1>8. CASE Remove(w)
    <2>1. lock = w
      BY <1>8 DEF Remove, Step, IInv, NothingLeftBehind, Locked
    <2> QED
      BY <1>8, <2>1, LockedStep DEF Remove, Step
  <1>9. CASE Rename(w)
    <2> USE DEF IInv
    <2>1. lock = w /\ temp[w] = Published(content[w])
      BY <1>9 DEF Rename, Step, NothingLeftBehind, Locked
    <2>2. entry' \in Entries
      BY <1>9, <2>1, PublishedEntry DEF Rename, HitIntegrity, TypeOK
    <2>3. HitIntegrity'
      BY <1>9, <2>2 DEF Rename, Step, Removed, HitIntegrity, TypeOK, WriterPC, Entries
    <2>4. NothingLeftBehind'
      BY <1>9, <2>1 DEF Rename, Step, Removed, HitIntegrity, TypeOK, NothingLeftBehind, Locked
    <2>5. Prepared'
      BY <1>9 DEF Rename, Step, Removed, HitIntegrity, TypeOK, Prepared
    <2>6. RemovesInvalid'
      BY <1>9, <2>1 DEF Rename, Step, HitIntegrity, TypeOK, NothingLeftBehind, Locked,
                        RemovesInvalid
    <2>7. Sealed' /\ Read'
      BY <1>9, <2>2 DEF Rename, Sealed, Read
    <2> QED
      BY <2>3, <2>4, <2>5, <2>6, <2>7
  <1>10. CASE SyncRoot(w)
    <2>1. lock = w /\ temp[w] = None
      BY <1>10 DEF SyncRoot, Step, IInv, NothingLeftBehind, Locked
    <2> QED
      BY <1>10, <2>1, LastStep DEF SyncRoot, Step, Released
  <1>11. CASE Abort(w)
    <2>1. temp'[w] = None
      BY <1>11 DEF Abort, Removed, IInv, HitIntegrity, TypeOK
    <2> QED
      BY <1>11, <2>1, LastStep DEF Abort
  <1>12. CASE Crash(w)
    BY <1>12, LastStep DEF Crash
  <1> QED
    BY <1>1, <1>2, <1>3, <1>4, <1>5, <1>6, <1>7, <1>8, <1>9, <1>10, <1>11, <1>12 DEF Write

-----------------------------------------------------------------------------

\* A lookup changes nothing but what it has seen.
LEMMA LookupStep == ASSUME IInv, NEW r \in Lookup, Look(r) PROVE IInv'
  <1> USE StoreAssumption DEF IInv
  <1>0. UNCHANGED <<entry, stable, writerVars>>
    BY DEF Look, OpenDirectory, ReadManifest, OpenPayload
  <1>1. NothingLeftBehind' /\ Prepared' /\ RemovesInvalid'
    BY <1>0 DEF NothingLeftBehind, Prepared, RemovesInvalid, Valid, Readable
  <1>2. CASE OpenDirectory(r)
    <2>1. HitIntegrity'
      BY <1>0, <1>2 DEF OpenDirectory, Move, HitIntegrity, TypeOK
    <2>2. Sealed' /\ Read'
      BY <1>0, <1>2 DEF OpenDirectory, Move, HitIntegrity, TypeOK, Sealed, Read
    <2> QED
      BY <1>1, <2>1, <2>2
  <1>3. CASE ReadManifest(r)
    <2>1. handle[r] \in Entries
      BY <1>3 DEF ReadManifest, Move, Read
    <2>2. HitIntegrity'
      BY <1>0, <1>3, <2>1 DEF ReadManifest, Move, Walked, HitIntegrity, TypeOK, Entries
    <2>3. Sealed' /\ Read'
      BY <1>0, <1>3, <2>1 DEF ReadManifest, Move, Walked, HitIntegrity, TypeOK, Sealed, Read
    <2> QED
      BY <1>1, <2>2, <2>3
  <1>4. CASE OpenPayload(r)
    <2>1. handle[r] \in Entries /\ declared[r] = handle[r].manifest
      BY <1>4 DEF OpenPayload, Move, Read
    <2>2. Valid(handle[r]) => handle[r].payload = declared[r] /\ declared[r] \in Content
      BY <2>1 DEF Valid, Entries
    <2>3. HitIntegrity'
      BY <1>0, <1>4, <2>2 DEF OpenPayload, Move, Walked, HitIntegrity, TypeOK
    <2>4. Sealed' /\ Read'
      BY <1>0, <1>4 DEF OpenPayload, Move, HitIntegrity, TypeOK, Sealed, Read
    <2> QED
      BY <1>1, <2>3, <2>4
  <1> QED
    BY <1>2, <1>3, <1>4 DEF Look

\* Eviction, truncation and a power loss leave entries at the key, if anything.
LEMMA EnvironmentStep == ASSUME IInv, Environment PROVE IInv'
  <1> USE StoreAssumption DEF IInv
  <1>1. CASE Evict
    <2>1. HitIntegrity' /\ Sealed' /\ Read'
      BY <1>1 DEF Evict, HitIntegrity, TypeOK, Sealed, Read
    <2>2. NothingLeftBehind' /\ Prepared' /\ RemovesInvalid'
      BY <1>1 DEF Evict, NothingLeftBehind, Prepared, RemovesInvalid, Valid, Readable
    <2> QED
      BY <2>1, <2>2
  <1>2. CASE Truncate
    <2>1. entry \in Entries /\ entry \in Directory
      BY <1>2 DEF Truncate, Sealed, Entries
    <2>2. [entry EXCEPT !.payload = "short"]
              = [payload |-> "short", manifest |-> entry.manifest, synced |-> entry.synced]
      BY <2>1, FieldOfDirectory, Zenon
    <2>3. entry' = [payload |-> "short", manifest |-> entry.manifest, synced |-> entry.synced]
      BY <1>2, <2>2, Zenon DEF Truncate
    <2>4. entry' \in Entries /\ entry'.manifest = entry.manifest /\ ~Valid(entry')
      BY <2>1, <2>3 DEF Entries, Directory, Valid
    <2>5. /\ stable' \in {stable, entry'}
          /\ handle' = [r \in Lookup |-> IF handle[r] = entry THEN entry' ELSE handle[r]]
          /\ UNCHANGED <<writerVars, declared, lpc, hit>>
      <3>1. /\ stable' = IF stable = entry THEN entry' ELSE stable
            /\ handle' = [r \in Lookup |-> IF handle[r] = entry THEN entry' ELSE handle[r]]
            /\ UNCHANGED <<writerVars, declared, lpc, hit>>
        BY <1>2, Zenon DEF Truncate
      <3> QED
        BY <3>1
    <2>6. Entries \subseteq Directory
      BY DEF Entries
    <2>7. HitIntegrity' /\ Sealed' /\ Read'
      BY <2>1, <2>4, <2>5, <2>6 DEF HitIntegrity, TypeOK, Sealed, Read
    <2>8. NothingLeftBehind' /\ Prepared' /\ RemovesInvalid'
      BY <2>4, <2>5 DEF NothingLeftBehind, Prepared, RemovesInvalid
    <2> QED
      BY <2>7, <2>8
  <1>3. CASE PowerLoss
    <2>1. entry' \in Entries \cup {None}
      BY <1>3, EntriesSurvive DEF PowerLoss, Sealed
    <2>2. Entries \subseteq Directory
      BY DEF Entries
    <2>3. HitIntegrity'
      BY <1>3, <2>1, <2>2 DEF PowerLoss, HitIntegrity, TypeOK, WriterPC
    <2>4. Sealed' /\ Read'
      BY <1>3, <2>1 DEF PowerLoss, HitIntegrity, TypeOK, Sealed, Read
    <2>5. \A w \in Writer : wpc'[w] \in {"unused", "complete", "aborted", "crashed"}
                               /\ (wpc'[w] # "crashed" => wpc'[w] = wpc[w])
      BY <1>3 DEF PowerLoss, Committing, HitIntegrity, TypeOK, WriterPC
    <2>6. NothingLeftBehind'
      BY <1>3, <2>5 DEF PowerLoss, NothingLeftBehind, Locked
    <2>7. Prepared' /\ RemovesInvalid'
      BY <2>5 DEF Prepared, RemovesInvalid
    <2> QED
      BY <2>3, <2>4, <2>6, <2>7
  <1> QED
    BY <1>1, <1>2, <1>3 DEF Environment

\* The invariant is inductive.
LEMMA NextIInv == IInv /\ [Next]_vars => IInv'
  <1> SUFFICES ASSUME IInv, [Next]_vars PROVE IInv'
    OBVIOUS
  <1>1. CASE Next
    BY <1>1, WriterStep, LookupStep, EnvironmentStep DEF Next
  <1>2. CASE UNCHANGED vars
    BY <1>2 DEF IInv, HitIntegrity, TypeOK, NothingLeftBehind, Sealed, Prepared, RemovesInvalid,
                Read, Valid, Readable
  <1> QED
    BY <1>1, <1>2

LEMMA IInvHolds == Spec => []IInv
  BY InitIInv, NextIInv, PTL DEF Spec

-----------------------------------------------------------------------------

\* Whatever crashes, power losses, evictions and truncations come between: a lookup that
\* hits returns the bytes whose digest the manifest declares (ArtifactStore.lookup).
THEOREM HitIntegrityHolds == Spec => []HitIntegrity
  <1>1. IInv => HitIntegrity
    BY DEF IInv
  <1> QED
    BY <1>1, IInvHolds, PTL

\* A writer that ends short of a crash leaves no private directory and no lock, and one
\* that is about to publish has the lock and its whole artifact (ArtifactWriter.commit).
THEOREM NothingLeftBehindHolds == Spec => []NothingLeftBehind
  <1>1. IInv => NothingLeftBehind
    BY DEF IInv
  <1> QED
    BY <1>1, IInvHolds, PTL

\* A valid entry is never replaced or removed by a writer, its own or another process's.
THEOREM FirstWinsHolds == Spec => FirstWins
  <1>1. IInv /\ [Next]_vars => [Valid(entry) => entry' = entry \/ Environment]_vars
    <2> SUFFICES ASSUME IInv, Next, Valid(entry), ~Environment PROVE entry' = entry
      OBVIOUS
    <2>1. ASSUME NEW w \in Writer, Begin(w) \/ Write(w) \/ Abort(w) \/ Crash(w)
          PROVE  entry' = entry
      <3>1. ~Remove(w)
        BY DEF Remove, Step, IInv, RemovesInvalid
      <3>2. ~Rename(w)
        BY DEF Rename, Valid, Readable
      <3> QED
        BY <2>1, <3>1, <3>2 DEF Begin, Write, Append, SyncPayload, Seal, TakeLock, CheckExisting,
                                Discard, SyncRoot, Abort, Crash
    <2>2. ASSUME NEW r \in Lookup, Look(r) PROVE entry' = entry
      BY <2>2 DEF Look, OpenDirectory, ReadManifest, OpenPayload
    <2> QED
      BY <2>1, <2>2 DEF Next
  <1> QED
    BY <1>1, IInvHolds, PTL DEF Spec, FirstWins
=============================================================================
