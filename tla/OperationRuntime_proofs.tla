----------------------- MODULE OperationRuntime_proofs -----------------------
(***************************************************************************)
(* What TLAPS proves of OperationRuntime, for any keys, dependencies,      *)
(* consumers, sessions, events and number of chunks that satisfy           *)
(* RuntimeAssumption: the invariants (part 1), the action properties       *)
(* (part 2), independent cancellation (part 3), delivery and release       *)
(* (part 4), and that it implements SharedProduction (part 5).             *)
(***************************************************************************)
EXTENDS SharedRuntime, TLAPS

USE DEF flightVars, sharedVars, readVars, identityVars, ownVars, runtimeVars, vars,
        UntouchedByProducer, ProducerOnly, UntouchedByReader, ReadStep, CancelFrame

(***************************************************************************)
(* Part 1.  The type invariant and the invariant SharedWork.               *)
(*                                                                         *)
(* SharedWork is not inductive: that a release finds the flight of its     *)
(* consumer, that nothing joins a flight before it exists, and that a      *)
(* producer which leaves its dependency cancels a consumer of its own are  *)
(* facts of the program counters.  They make up IInv.                      *)
(***************************************************************************)

\* Where the consumers are that an owner holds.
Attached == Reading \cup {"idle"}

\* A registered consumer is one that was admitted and not disposed of: it has its links,
\* and its flight exists.
Linked ==
    \A c \in Consumer :
        /\ cpc[c] \in {"unused", "waiting"} => fpc[c] = "unused" /\ terminal[c] = "none"
        /\ c \in registered <=> cpc[c] \in Attached
        /\ cpc[c] \in Attached \cup {"waiting"} =>
               flightOf[c] \in Consumer /\ key[c] \in Key /\ fpc[flightOf[c]] # "unused"
        /\ c \in disposing => c \in registered /\ terminal[c] # "none"

\* A flight has a key from its creation, and is finished when its task has ended.
Producing ==
    \A f \in Consumer :
        /\ fpc[f] # "unused" => key[f] \in Key
        /\ fpc[f] = "run" => Dep[key[f]] \in Key
        /\ fpc[f] = "append" => avail[f] < Chunks
        /\ f \in finished <=> fpc[f] \in {"done", "direct"}
        /\ f \in abandoned => fpc[f] # "unused"

\* A producer that consumes and the subscription it waits for know each other.
Depending ==
    /\ \A f \in Consumer : fpc[f] \in {"consume", "release"} =>
           /\ dep[f] \in Consumer
           /\ cpc[dep[f]] # "unused"
           /\ cpc[dep[f]] = "gone" => terminal[dep[f]] # "none"
           /\ cpc[dep[f]] = "waiting" => owner[dep[f]] = f
    /\ \A c \in Consumer : cpc[c] = "waiting" /\ owner[c] \in Consumer =>
           fpc[owner[c]] = "consume" /\ dep[owner[c]] = c

\* The table holds flights with a producer task.
Tabled == \A k \in Key : table[k] # None => fpc[table[k]] \notin {"unused", "direct"}

\* The inductive invariant.
IInv == TypeOK /\ Linked /\ Producing /\ Depending /\ Tabled /\ SharedWork

-----------------------------------------------------------------------------

\* The initial states satisfy the invariant.
LEMMA InitIInv == Init => IInv
  <1> SUFFICES ASSUME Init PROVE IInv
    OBVIOUS
  <1>1. TypeOK
    BY RuntimeAssumption DEF Init, TypeOK, FlightPC, ConsumerPC
  <1>2. Linked /\ Producing /\ Depending /\ Tabled
    BY RuntimeAssumption DEF Init, Linked, Producing, Depending, Tabled, Attached, Reading
  <1>3. SharedWork
    BY RuntimeAssumption DEF Init, SharedWork, SingleProducer, CancelledOnlyUnneeded, InterestsExact,
          NoStaleEntry, Settled
  <1> QED BY <1>1, <1>2, <1>3 DEF IInv

\* Where a producer task runs by itself.
Busy == {"start", "lookup", "begin", "run", "emit", "append", "appended", "commit",
         "settle", "abort"}

\* A step of a producer that touches neither the table nor a consumer.
LEMMA ProducerMoves ==
  ASSUME IInv, TypeOK', NEW f \in Consumer, NEW pc \in Busy \cup {"dead"},
         fpc[f] \in Busy, Goto(f, pc),
         UNCHANGED <<sharedVars, identityVars, ownVars, readVars, cpc, dep>>,
         pc = "run" => Dep[key[f]] \in Key,
         pc = "append" => avail[f] < Chunks,
         pc # "appended" => avail' = avail,
         \A g \in Consumer : g # f => avail'[g] = avail[g]
  PROVE  IInv'
  <1> USE DEF IInv, Goto, Busy
  <1>1. fpc' = [fpc EXCEPT ![f] = pc] /\ fpc \in [Consumer -> FlightPC]
    BY DEF TypeOK
  <1>2. Linked'
    BY <1>1 DEF Linked, Attached, Reading
  <1>3. Producing'
    BY <1>1 DEF Producing
  <1>4. Depending'
    BY <1>1 DEF Depending
  <1>5. Tabled'
    BY <1>1, RuntimeAssumption DEF Tabled, TypeOK
  <1>6. SingleProducer'
    BY <1>1 DEF SharedWork, SingleProducer, Settled
  <1>7. SharedWork'
    BY <1>6 DEF SharedWork, CancelledOnlyUnneeded, InterestsExact, NoStaleEntry
  <1> QED BY <1>2, <1>3, <1>4, <1>5, <1>7

\* A step of a read that decides nothing about its consumer.
LEMMA ReadMoves ==
  ASSUME IInv, TypeOK', NEW c \in Consumer, cpc[c] \in Attached, NEW pc \in Attached,
         Move(c, pc), UNCHANGED ReadStep
  PROVE  IInv'
  <1> USE DEF IInv, Move
  <1>1. cpc' = [cpc EXCEPT ![c] = pc] /\ cpc \in [Consumer -> ConsumerPC]
    BY DEF TypeOK
  <1>2. Linked'
    BY <1>1 DEF Linked, Attached, Reading
  <1>3. Producing' /\ Tabled'
    BY DEF Producing, Tabled
  <1>4. Depending'
    BY <1>1 DEF Depending, Attached, Reading
  <1>5. SharedWork'
    BY DEF SharedWork, CancelledOnlyUnneeded, InterestsExact, NoStaleEntry, SingleProducer, Settled
  <1> QED BY <1>2, <1>3, <1>4, <1>5

\* _release keeps the shared work exact when the consumers it is for lose their interest
\* in the same step.
LEMMA Releases ==
  ASSUME IInv, NEW C \in SUBSET registered, Release(C),
         \A c, f \in Consumer : (c \in registered' /\ flightOf'[c] = f /\ terminal'[c] = "none")
             <=> (c \in registered /\ flightOf[c] = f /\ terminal[c] = "none" /\ c \notin C),
         \A f \in Consumer : fpc'[f] \in Settled <=> fpc[f] \in Settled,
         key' = key
  PROVE  /\ SharedWork'
         /\ \A f \in abandoned' : f \in abandoned \/ fpc[f] # "unused"
         /\ \A k \in Key : table'[k] \in {table[k], None}
         /\ table' \in [Key -> Consumer \cup {None}]
         /\ interests' \in [Consumer -> SUBSET Consumer]
         /\ abandoned' \subseteq Consumer
  <1> DEFINE idle == Unneeded(C)
  <1>1. registered \subseteq Consumer /\ C \subseteq Consumer
    BY DEF IInv, TypeOK
  <1>2. \A c \in C : flightOf[c] \in Consumer /\ fpc[flightOf[c]] # "unused"
    BY <1>1 DEF IInv, Linked
  <1>3. idle \subseteq Consumer /\ \A f \in idle : fpc[f] # "unused" /\ interests[f] \ C = {}
    BY <1>2 DEF Unneeded
  <1>4. interests' = [f \in Consumer |-> interests[f] \ C] /\ finished' = finished
    BY DEF Release
  <1>5. table' = [k \in Key |-> IF table[k] \in idle \cap finished THEN None ELSE table[k]]
    BY DEF Release
  <1>6. abandoned' = abandoned \cup (idle \ finished)
    BY DEF Release
  <1> HIDE DEF idle
  <1>7. /\ \A f \in abandoned' : f \in abandoned \/ fpc[f] # "unused"
        /\ \A k \in Key : table'[k] \in {table[k], None}
        /\ table' \in [Key -> Consumer \cup {None}]
        /\ interests' \in [Consumer -> SUBSET Consumer]
        /\ abandoned' \subseteq Consumer
    BY <1>3, <1>4, <1>5, <1>6 DEF IInv, TypeOK
  <1>8. InterestsExact'
    BY <1>4 DEF IInv, TypeOK, SharedWork, InterestsExact
  <1>9. CancelledOnlyUnneeded'
    BY <1>3, <1>4, <1>6 DEF IInv, TypeOK, SharedWork, CancelledOnlyUnneeded
  <1>10. SingleProducer'
    <2> SUFFICES ASSUME NEW f \in Consumer, fpc'[f] \notin Settled
                 PROVE  table'[key[f]] = f
      BY DEF SingleProducer
    <2>1. fpc[f] \notin Settled /\ table[key[f]] = f
      BY DEF IInv, SharedWork, SingleProducer
    <2>2. f \notin finished /\ key[f] \in Key
      BY <2>1 DEF IInv, Producing, Settled
    <2> QED BY <2>1, <2>2, <1>5
  <1>11. NoStaleEntry'
    <2> SUFFICES ASSUME NEW k \in Key, table'[k] # None
                 PROVE  key[table'[k]] = k /\ (table'[k] \in finished => interests'[table'[k]] # {})
      BY <1>4 DEF NoStaleEntry
    <2>1. table'[k] = table[k] /\ table[k] \notin idle \cap finished
      BY <1>5
    <2>2. table[k] \in Consumer /\ key[table[k]] = k
      BY <2>1, RuntimeAssumption DEF IInv, TypeOK, SharedWork, NoStaleEntry
    <2>3. ASSUME table[k] \in finished, interests[table[k]] \ C = {} PROVE FALSE
      <3>1. PICK c \in interests[table[k]] : c \in C
        BY <2>1, <2>3 DEF IInv, SharedWork, NoStaleEntry
      <3>2. flightOf[c] = table[k]
        BY <1>1, <2>2, <3>1 DEF IInv, SharedWork, InterestsExact
      <3> QED BY <2>1, <2>3, <3>1, <3>2 DEF idle, Unneeded
    <2> QED BY <1>4, <2>1, <2>2, <2>3
  <1> QED BY <1>7, <1>8, <1>9, <1>10, <1>11 DEF SharedWork

-----------------------------------------------------------------------------

\* flight.notify wakes consumers.
LEMMA NotifyWakes ==
  ASSUME TypeOK, NEW f \in Consumer, Notify(f)
  PROVE  woken' \subseteq Consumer
  BY DEF TypeOK, Notify, Listeners

\* A check lets the producer go on or sends it to its finally block.
LEMMA Checked ==
  ASSUME TypeOK, NEW f \in Consumer, NEW pc \in FlightPC, CheckThen(f, pc)
  PROVE  /\ \E x \in {pc, "settle"} : Goto(f, x)
         /\ fpc' \in [Consumer -> FlightPC]
         /\ error' \in [Consumer -> {"none", "cancelled", "failed"}]
  BY DEF TypeOK, CheckThen, Raise, Goto, FlightPC

\* The steps of _produce before its last.
LEMMA ProducerOnlyKeepsIInv ==
  ASSUME IInv, NEW f \in Consumer,
         \/ Start(f) \/ LookupHit(f) \/ LookupMiss(f) \/ LookupFails(f)
         \/ Begin(f) \/ BeginFails(f)
         \/ Emit(f) \/ ProducerFails(f) \/ Append(f) \/ AppendFails(f) \/ Appended(f)
         \/ CommitBegin(f) \/ Commit(f) \/ CommitFails(f)
         \/ SettleBegin(f) \/ AbortFails(f)
  PROVE  IInv'
  <1>0. TypeOK /\ Producing
    BY DEF IInv
  <1> USE DEF Busy
  <1>1. CASE Start(f)
    <2>1. PICK x \in {"lookup", "settle"} : Goto(f, x)
      BY <1>0, <1>1, Checked DEF Start, FlightPC
    <2>2. TypeOK'
      BY <1>0, <1>1, Checked DEF Start, FlightPC, TypeOK
    <2> QED BY <1>1, <2>1, <2>2, ProducerMoves DEF Start
  <1>2. CASE LookupHit(f)
    <2>1. TypeOK'
      BY <1>0, <1>2, NotifyWakes DEF LookupHit, Goto, FlightPC, TypeOK
    <2> QED BY <1>2, <2>1, ProducerMoves DEF LookupHit
  <1>3. CASE LookupMiss(f)
    <2>1. PICK x \in {"begin", "settle"} : Goto(f, x)
      BY <1>0, <1>3, Checked DEF LookupMiss, FlightPC
    <2>2. TypeOK'
      BY <1>0, <1>3, Checked DEF LookupMiss, FlightPC, TypeOK
    <2> QED BY <1>3, <2>1, <2>2, ProducerMoves DEF LookupMiss
  <1>4. CASE LookupFails(f)
    <2>1. TypeOK'
      BY <1>0, <1>4 DEF LookupFails, Raise, Goto, FlightPC, TypeOK
    <2> QED BY <1>4, <2>1, ProducerMoves DEF LookupFails, Raise
  <1>5. CASE Begin(f)
    <2>1. key[f] \in Key
      BY <1>5, <1>0 DEF Begin, Producing
    <2>2. PICK x \in {"emit", "run", "settle"} :
              Goto(f, x) /\ (x = "run" => Dep[key[f]] \in Key)
      BY <1>0, <1>5, <2>1, Checked, RuntimeAssumption DEF Begin, FlightPC, CheckThen, Raise
    <2>3. TypeOK'
      BY <1>0, <1>5, Checked, NotifyWakes DEF Begin, FlightPC, TypeOK
    <2> QED BY <1>5, <2>2, <2>3, ProducerMoves DEF Begin
  <1>6. CASE BeginFails(f)
    <2>1. TypeOK'
      BY <1>0, <1>6 DEF BeginFails, Raise, Goto, FlightPC, TypeOK
    <2> QED BY <1>6, <2>1, ProducerMoves DEF BeginFails, Raise
  <1>7. CASE Emit(f)
    <2>1. PICK x \in {"append", "settle"} : Goto(f, x)
      BY <1>0, <1>7, Checked DEF Emit, FlightPC
    <2>2. TypeOK'
      BY <1>0, <1>7, Checked DEF Emit, FlightPC, TypeOK
    <2> QED BY <1>7, <2>1, <2>2, ProducerMoves DEF Emit
  <1>8. CASE ProducerFails(f)
    <2>1. TypeOK'
      BY <1>0, <1>8 DEF ProducerFails, Raise, Goto, FlightPC, TypeOK
    <2> QED BY <1>8, <2>1, ProducerMoves DEF ProducerFails, Raise
  <1>9. CASE Append(f)
    <2>1. avail[f] + 1 \in 0..Chunks
      BY <1>0, <1>9, RuntimeAssumption DEF Append, Producing, TypeOK
    <2>2. TypeOK'
      BY <1>0, <1>9, <2>1 DEF Append, Goto, FlightPC, TypeOK
    <2>3. \A g \in Consumer : g # f => avail'[g] = avail[g]
      BY <1>0, <1>9 DEF Append, TypeOK
    <2> QED BY <1>9, <2>2, <2>3, ProducerMoves DEF Append
  <1>10. CASE AppendFails(f)
    <2>1. TypeOK'
      BY <1>0, <1>10 DEF AppendFails, Raise, Goto, FlightPC, TypeOK
    <2> QED BY <1>10, <2>1, ProducerMoves DEF AppendFails, Raise
  <1>11. CASE Appended(f)
    <2>1. PICK x \in {"emit", "settle"} : Goto(f, x)
      BY <1>0, <1>11, Checked DEF Appended, FlightPC
    <2>2. TypeOK'
      BY <1>0, <1>11, Checked, NotifyWakes DEF Appended, FlightPC, TypeOK
    <2> QED BY <1>11, <2>1, <2>2, ProducerMoves DEF Appended
  <1>12. CASE CommitBegin(f)
    <2>1. PICK x \in {"commit", "settle"} : Goto(f, x)
      BY <1>0, <1>12, Checked DEF CommitBegin, FlightPC
    <2>2. TypeOK'
      BY <1>0, <1>12, Checked DEF CommitBegin, FlightPC, TypeOK
    <2> QED BY <1>12, <2>1, <2>2, ProducerMoves DEF CommitBegin
  <1>13. CASE Commit(f)
    <2>1. key[f] \in Key
      BY <1>13, <1>0 DEF Commit, Producing
    <2>2. TypeOK'
      BY <1>0, <1>13, <2>1 DEF Commit, Goto, FlightPC, TypeOK
    <2> QED BY <1>13, <2>2, ProducerMoves DEF Commit
  <1>14. CASE CommitFails(f)
    <2>1. key[f] \in Key
      BY <1>14, <1>0 DEF CommitFails, Producing
    <2>2. TypeOK'
      BY <1>0, <1>14, <2>1 DEF CommitFails, Raise, Goto, FlightPC, TypeOK
    <2> QED BY <1>14, <2>2, ProducerMoves DEF CommitFails, Raise
  <1>15. CASE SettleBegin(f)
    <2>1. TypeOK'
      BY <1>0, <1>15 DEF SettleBegin, Goto, FlightPC, TypeOK
    <2> QED BY <1>15, <2>1, ProducerMoves DEF SettleBegin
  <1>16. CASE AbortFails(f)
    <2>1. TypeOK'
      BY <1>0, <1>16 DEF AbortFails, Goto, FlightPC, TypeOK
    <2> QED BY <1>16, <2>1, ProducerMoves DEF AbortFails
  <1> QED BY <1>1, <1>2, <1>3, <1>4, <1>5, <1>6, <1>7, <1>8, <1>9, <1>10, <1>11, <1>12,
             <1>13, <1>14, <1>15, <1>16

\* The last step of _produce retires the flight from the table.
LEMMA FinishKeepsIInv ==
  ASSUME IInv, NEW f \in Consumer, Finish(f)
  PROVE  IInv'
  <1>0. TypeOK /\ Producing /\ key[f] \in Key
    BY DEF IInv, Finish, Producing
  <1>1. /\ fpc' = [fpc EXCEPT ![f] = "done"] /\ fpc \in [Consumer -> FlightPC]
        /\ finished' = finished \cup {f}
        /\ fpc[f] \in Busy
    BY <1>0 DEF Finish, Goto, Signalled, TypeOK, Busy
  <1>2. table' = [k \in Key |-> IF k = key[f] /\ table[k] = f /\ interests[f] = {} THEN None
                               ELSE table[k]]
    BY DEF Finish, Retired
  <1>3. TypeOK'
    BY <1>0, <1>1, <1>2, NotifyWakes DEF Finish, TypeOK, Discarded, FlightPC
  <1>4. Linked'
    BY <1>1 DEF IInv, Finish, Linked, Busy
  <1>5. Producing'
    BY <1>1 DEF IInv, Finish, Producing, Busy
  <1>6. Depending'
    BY <1>1 DEF IInv, Finish, Depending, Busy
  <1>7. Tabled'
    BY <1>1, <1>2, RuntimeAssumption DEF IInv, TypeOK, Tabled, Busy
  <1>8. SharedWork'
    <2>1. SingleProducer'
      BY <1>1, <1>2 DEF IInv, Finish, SharedWork, SingleProducer, Settled, Producing
    <2>2. CancelledOnlyUnneeded' /\ InterestsExact'
      BY DEF IInv, Finish, SharedWork, CancelledOnlyUnneeded, InterestsExact
    <2>3. NoStaleEntry'
      BY <1>1, <1>2 DEF IInv, Finish, SharedWork, NoStaleEntry
    <2> QED BY <2>1, <2>2, <2>3 DEF SharedWork
  <1> QED BY <1>3, <1>4, <1>5, <1>6, <1>7, <1>8 DEF IInv

-----------------------------------------------------------------------------

\* The top of the loop of _read.
LEMMA Captured ==
  ASSUME TypeOK, NEW c \in Consumer, Capture(c)
  PROVE  /\ \E pc \in {"idle", "open", "read"} : Move(c, pc)
         /\ reader' \in [Consumer -> {"none", "temp", "store", "source"}]
         /\ pos' \in [Consumer -> 0..Chunks]
         /\ sawFinished' \subseteq Consumer
         /\ woken' \subseteq Consumer
  BY DEF TypeOK, Capture, Leave

\* A read that decides the outcome of its consumer gives up its interest.
LEMMA ReadEnds ==
  ASSUME IInv, NEW c \in Consumer, cpc[c] \in Reading,
         NEW t \in {"complete", "cancelled", "error"},
         \/ terminal' = [terminal EXCEPT ![c] = t]
         \/ terminal' = [terminal EXCEPT ![c] = IF @ = "none" THEN t ELSE @],
         Release({c}), Leave(c, Roused({c})), UNCHANGED UntouchedByReader
  PROVE  IInv'
  <1>1. /\ cpc' = [cpc EXCEPT ![c] = "idle"] /\ cpc \in [Consumer -> ConsumerPC]
        /\ terminal \in [Consumer -> {"none", "complete", "cancelled", "error"}]
    BY DEF Leave, Move, IInv, TypeOK
  <1>2. /\ terminal' \in [Consumer -> {"none", "complete", "cancelled", "error"}]
        /\ terminal'[c] # "none"
        /\ \A d \in Consumer : d # c => terminal'[d] = terminal[d]
    BY <1>1
  <1>3. c \in registered
    BY DEF IInv, Linked, Attached
  <1>4. /\ SharedWork'
        /\ \A f \in abandoned' : f \in abandoned \/ fpc[f] # "unused"
        /\ \A k \in Key : table'[k] \in {table[k], None}
        /\ table' \in [Key -> Consumer \cup {None}]
        /\ interests' \in [Consumer -> SUBSET Consumer]
        /\ abandoned' \subseteq Consumer
    <2>1. \A d, f \in Consumer : (d \in registered' /\ flightOf'[d] = f /\ terminal'[d] = "none")
             <=> (d \in registered /\ flightOf[d] = f /\ terminal[d] = "none" /\ d \notin {c})
      BY <1>2
    <2> QED BY <1>3, <2>1, Releases
  <1>5. TypeOK'
    <2>1. finished' = finished
      BY DEF Release
    <2>2. Roused({c}) \subseteq Consumer
      BY DEF Roused, Listeners
    <2>3. /\ reader' \in [Consumer -> {"none", "temp", "store", "source"}]
          /\ pos' = pos /\ sawFinished' \subseteq Consumer /\ woken' \subseteq Consumer
      BY <2>2 DEF IInv, TypeOK, Leave
    <2>4. cpc' \in [Consumer -> ConsumerPC]
      BY <1>1 DEF ConsumerPC
    <2> QED BY <1>2, <1>4, <2>1, <2>3, <2>4 DEF IInv, TypeOK
  <1>6. Linked'
    BY <1>1, <1>2 DEF IInv, Linked, Attached, Reading
  <1>7. Producing'
    BY <1>4 DEF IInv, Producing, Release
  <1>8. Depending'
    BY <1>1, <1>2 DEF IInv, Depending, Reading
  <1>9. Tabled'
    BY <1>4 DEF IInv, Tabled
  <1> QED BY <1>4, <1>5, <1>6, <1>7, <1>8, <1>9 DEF IInv

\* The calls of read() and the wake-ups inside.
LEMMA ReadBeginKeepsIInv ==
  ASSUME IInv, NEW c \in Consumer, ReadBegin(c) \/ Wake(c)
  PROVE  IInv'
  <1>1. cpc[c] \in Attached /\ Capture(c) /\ UNCHANGED ReadStep
    BY DEF ReadBegin, Wake, Attached, Reading
  <1>2. PICK pc \in {"idle", "open", "read"} : Move(c, pc)
    BY <1>1, Captured DEF IInv
  <1>3. TypeOK'
    BY <1>1, <1>2, Captured DEF IInv, TypeOK, Move, ConsumerPC
  <1> QED BY <1>1, <1>2, <1>3, ReadMoves DEF Attached, Reading

\* The rest of _read.
LEMMA ReadProgressKeepsIInv ==
  ASSUME IInv, NEW c \in Consumer, ReadProgress(c)
  PROVE  IInv'
  <1>0. TypeOK
    BY DEF IInv
  <1>1. CASE Open(c)
    <2>1. PICK pc \in {"idle", "opening", "empty"} : Move(c, pc)
      BY <1>1 DEF Open, Leave
    <2>2. TypeOK'
      BY <1>0, <1>1, <2>1 DEF Open, Leave, TypeOK, Move, ConsumerPC
    <2>3. cpc[c] = "open" /\ UNCHANGED ReadStep
      BY <1>1 DEF Open
    <2> QED BY <2>1, <2>2, <2>3, ReadMoves DEF Attached, Reading
  <1>2. CASE Opened(c)
    <2>1. Openable(c) \subseteq {"temp", "store", "source"}
      BY DEF Openable
    <2>2. TypeOK'
      BY <1>0, <1>2, <2>1 DEF Opened, TypeOK, Move, ConsumerPC
    <2> QED BY <1>2, <2>2, ReadMoves DEF Opened, Attached, Reading
  <1>3. CASE OpenFails(c)
    BY <1>3, ReadEnds DEF OpenFails, Fail, Reading
  <1>4. CASE Read(c)
    <2>1. PICK pc \in {"idle", "empty"} : Move(c, pc)
      BY <1>4 DEF Read, Leave
    <2>2. flightOf[c] \in Consumer
      BY <1>4 DEF IInv, Linked, Read, Attached, Reading
    <2>3. \A n \in 1..Readable(c) : pos[c] + n \in 0..Chunks
      BY <1>0, <2>2, RuntimeAssumption DEF Readable, TypeOK
    <2>4. pos' \in [Consumer -> 0..Chunks]
      BY <1>0, <1>4, <2>3 DEF Read, Leave, TypeOK
    <2>5. /\ reader' \in [Consumer -> {"none", "temp", "store", "source"}]
          /\ sawFinished' \subseteq Consumer
          /\ woken' \subseteq Consumer
      BY <1>0, <1>4 DEF Read, Leave, TypeOK
    <2>6. UNCHANGED ReadStep /\ cpc[c] = "read"
      BY <1>4 DEF Read
    <2>7. TypeOK'
      BY <1>0, <2>1, <2>4, <2>5, <2>6 DEF TypeOK, Move, ConsumerPC
    <2> QED BY <2>1, <2>6, <2>7, ReadMoves DEF Attached, Reading
  <1>5. CASE ReadFails(c)
    BY <1>5, ReadEnds DEF ReadFails, Fail, Reading
  <1>6. CASE CancelledEmpty(c)
    <2>1. TypeOK'
      BY <1>0, <1>6 DEF CancelledEmpty, Leave, TypeOK, Move, ConsumerPC
    <2> QED BY <1>6, <2>1, ReadMoves DEF CancelledEmpty, Leave, Attached, Reading
  <1>7. CASE Complete(c)
    BY <1>7, ReadEnds DEF Complete, Reading
  <1>8. CASE FlightFailed(c)
    BY <1>8, ReadEnds DEF FlightFailed, Fail, Reading
  <1>9. CASE Wait(c)
    <2>1. TypeOK'
      BY <1>0, <1>9 DEF Wait, TypeOK, Move, ConsumerPC
    <2> QED BY <1>9, <2>1, ReadMoves DEF Wait, Attached, Reading
  <1>10. CASE Wake(c)
    BY <1>10, ReadBeginKeepsIInv
  <1> QED BY <1>1, <1>2, <1>3, <1>4, <1>5, <1>6, <1>7, <1>8, <1>9, <1>10 DEF ReadProgress

-----------------------------------------------------------------------------

\* Consumer.cancel() for the consumers of C, of which those without an outcome are
\* registered, beside at most a step of a producer that goes on.
LEMMA Cancels ==
  ASSUME IInv, NEW C \in SUBSET Consumer, Live(C) \subseteq registered, Cancel(C),
         disposing' \in SUBSET (disposing \cup (C \cap registered)),
         \A f \in Consumer : fpc'[f] \in Settled <=> fpc[f] \in Settled,
         UNCHANGED <<key, flightOf, registered, cpc, finished>>
  PROVE  /\ SharedWork'
         /\ \A f \in abandoned' : f \in abandoned \/ fpc[f] # "unused"
         /\ \A k \in Key : table'[k] \in {table[k], None}
         /\ table' \in [Key -> Consumer \cup {None}]
         /\ interests' \in [Consumer -> SUBSET Consumer]
         /\ abandoned' \subseteq Consumer
         /\ terminal' \in [Consumer -> {"none", "complete", "cancelled", "error"}]
         /\ \A c \in Consumer : terminal[c] # "none" => terminal'[c] = terminal[c]
         /\ \A c \in C : terminal'[c] # "none"
         /\ \A c \in Consumer : cpc[c] \in {"unused", "waiting"} => terminal'[c] = terminal[c]
         /\ woken' \subseteq Consumer
         /\ disposing' \subseteq Consumer
  <1>1. terminal' = [c \in Consumer |-> IF c \in Live(C) THEN "cancelled" ELSE terminal[c]]
    BY DEF Cancel
  <1>2. terminal \in [Consumer -> {"none", "complete", "cancelled", "error"}]
        /\ registered \subseteq Consumer /\ disposing \subseteq Consumer
    BY DEF IInv, TypeOK
  <1>3. /\ terminal' \in [Consumer -> {"none", "complete", "cancelled", "error"}]
        /\ \A c \in Consumer : terminal[c] # "none" => terminal'[c] = terminal[c]
        /\ \A c \in C : terminal'[c] # "none"
    BY <1>1, <1>2 DEF Live
  <1>4. \A c \in Consumer : cpc[c] \in {"unused", "waiting"} => terminal'[c] = terminal[c]
    BY <1>1, <1>2 DEF IInv, Linked, Attached, Reading
  <1>5. woken' \subseteq Consumer
    BY DEF Cancel, Roused, Listeners, IInv, TypeOK
  <1>6. disposing' \subseteq Consumer
    BY <1>2
  <1>7. \A d, f \in Consumer : (d \in registered' /\ flightOf'[d] = f /\ terminal'[d] = "none")
           <=> (d \in registered /\ flightOf[d] = f /\ terminal[d] = "none" /\ d \notin Live(C))
    BY <1>1 DEF Live
  <1>8. Release(Live(C))
    BY DEF Cancel
  <1> QED BY <1>3, <1>4, <1>5, <1>6, <1>7, <1>8, Releases

\* The cancellations by owners: a parent, a response, a session, the application.
LEMMA CancelKeepsIInv ==
  ASSUME IInv, NEW C \in SUBSET registered, Cancel(C),
         disposing' \in SUBSET (disposing \cup C),
         UNCHANGED CancelFrame,
         phase' \in {"open", "closing", "closed", "failed"}, draining' \subseteq Consumer
  PROVE  IInv'
  <1>0. C \subseteq Consumer /\ Live(C) \subseteq registered /\ finished' = finished
    BY DEF IInv, TypeOK, Live, Cancel, Release
  <1>1. /\ SharedWork'
        /\ \A f \in abandoned' : f \in abandoned \/ fpc[f] # "unused"
        /\ \A k \in Key : table'[k] \in {table[k], None}
        /\ table' \in [Key -> Consumer \cup {None}]
        /\ interests' \in [Consumer -> SUBSET Consumer]
        /\ abandoned' \subseteq Consumer
        /\ terminal' \in [Consumer -> {"none", "complete", "cancelled", "error"}]
        /\ \A c \in Consumer : terminal[c] # "none" => terminal'[c] = terminal[c]
        /\ \A c \in C : terminal'[c] # "none"
        /\ \A c \in Consumer : cpc[c] \in {"unused", "waiting"} => terminal'[c] = terminal[c]
        /\ woken' \subseteq Consumer
        /\ disposing' \subseteq Consumer
    BY <1>0, Cancels
  <1>2. TypeOK'
    BY <1>0, <1>1 DEF IInv, TypeOK
  <1>3. Linked'
    BY <1>0, <1>1 DEF IInv, Linked
  <1>4. Producing'
    BY <1>0, <1>1 DEF IInv, Producing
  <1>5. Depending'
    BY <1>1 DEF IInv, Depending
  <1>6. Tabled'
    BY <1>1 DEF IInv, Tabled
  <1> QED BY <1>1, <1>2, <1>3, <1>4, <1>5, <1>6 DEF IInv

\* A producer leaves its dependency and cancels its consumer there.
LEMMA DepExitKeepsIInv ==
  ASSUME IInv, NEW f \in Consumer, DepExit(f)
  PROVE  IInv'
  <1> DEFINE c == dep[f]
  <1>0. /\ fpc[f] = "consume" /\ cpc[c] \in {"idle", "gone"} /\ Cancel({c})
        /\ Goto(f, "release")
        /\ disposing' = disposing \cup ({c} \cap registered)
    BY DEF DepExit
  <1>1. c \in Consumer /\ (cpc[c] = "gone" => terminal[c] # "none")
    BY <1>0 DEF IInv, Depending
  <1>2. Live({c}) \subseteq registered /\ finished' = finished
    BY <1>0, <1>1 DEF IInv, Linked, Attached, Live, Cancel, Release
  <1>3. fpc' = [fpc EXCEPT ![f] = "release"] /\ fpc \in [Consumer -> FlightPC]
    BY <1>0 DEF Goto, IInv, TypeOK
  <1>4. /\ SharedWork'
        /\ \A g \in abandoned' : g \in abandoned \/ fpc[g] # "unused"
        /\ \A k \in Key : table'[k] \in {table[k], None}
        /\ table' \in [Key -> Consumer \cup {None}]
        /\ interests' \in [Consumer -> SUBSET Consumer]
        /\ abandoned' \subseteq Consumer
        /\ terminal' \in [Consumer -> {"none", "complete", "cancelled", "error"}]
        /\ \A d \in Consumer : terminal[d] # "none" => terminal'[d] = terminal[d]
        /\ terminal'[c] # "none"
        /\ \A d \in Consumer : cpc[d] \in {"unused", "waiting"} => terminal'[d] = terminal[d]
        /\ woken' \subseteq Consumer
        /\ disposing' \subseteq Consumer
    <2>1. \A g \in Consumer : fpc'[g] \in Settled <=> fpc[g] \in Settled
      BY <1>0, <1>3 DEF Settled
    <2>2. {c} \in SUBSET Consumer /\ disposing' \in SUBSET (disposing \cup ({c} \cap registered))
      BY <1>0, <1>1
    <2>3. UNCHANGED <<key, flightOf, registered, cpc, finished>>
      BY <1>2 DEF DepExit
    <2>4. c \in {c}
      OBVIOUS
    <2> HIDE DEF c
    <2> QED BY <1>0, <1>2, <2>1, <2>2, <2>3, <2>4, Cancels
  <1>5. error' \in [Consumer -> {"none", "cancelled", "failed"}]
    BY DEF DepExit, IInv, TypeOK
  <1>6. TypeOK'
    BY <1>2, <1>3, <1>4, <1>5 DEF IInv, TypeOK, DepExit, FlightPC
  <1>7. Linked'
    BY <1>0, <1>1, <1>3, <1>4 DEF IInv, Linked, DepExit
  <1>8. Producing'
    BY <1>0, <1>2, <1>3, <1>4 DEF IInv, Producing, DepExit
  <1>9. Depending'
    BY <1>0, <1>3, <1>4 DEF IInv, Depending, DepExit
  <1>10. Tabled'
    BY <1>3, <1>4, RuntimeAssumption DEF IInv, TypeOK, Tabled
  <1> QED BY <1>4, <1>6, <1>7, <1>8, <1>9, <1>10 DEF IInv

\* A dependency that is refused before it is subscribed.
LEMMA DepRefusedKeepsIInv ==
  ASSUME IInv, NEW p \in Consumer, DepRefused(p)
  PROVE  IInv'
  <1>1. fpc[p] = "run" /\ Goto(p, "settle") /\ UNCHANGED ProducerOnly /\ avail' = avail
    BY DEF DepRefused, Goto
  <1>2. error' \in [Consumer -> {"none", "cancelled", "failed"}]
    BY DEF DepRefused, IInv, TypeOK
  <1>3. TypeOK'
    BY <1>1, <1>2 DEF IInv, TypeOK, DepRefused, Goto, FlightPC
  <1> QED BY <1>1, <1>3, ProducerMoves DEF Busy

\* The dependency's consumer is disposed of and the producer goes on.
LEMMA DepReleasedKeepsIInv ==
  ASSUME IInv, NEW f \in Consumer, DepReleased(f)
  PROVE  IInv'
  <1>1. PICK pc \in {"emit", "settle"} : fpc' = [fpc EXCEPT ![f] = pc]
    BY DEF DepReleased, Goto
  <1>2. /\ fpc \in [Consumer -> FlightPC] /\ fpc[f] = "release"
        /\ dep' = [dep EXCEPT ![f] = None] /\ dep \in [Consumer -> Consumer \cup {None}]
    BY DEF IInv, TypeOK, DepReleased
  <1>3. TypeOK'
    BY <1>1, <1>2 DEF IInv, TypeOK, DepReleased, FlightPC
  <1>4. Linked'
    BY <1>1, <1>2 DEF IInv, Linked, DepReleased
  <1>5. Producing'
    BY <1>1, <1>2 DEF IInv, Producing, DepReleased
  <1>6. Depending'
    BY <1>1, <1>2 DEF IInv, Depending, DepReleased
  <1>7. Tabled'
    BY <1>1, <1>2, RuntimeAssumption DEF IInv, TypeOK, Tabled, DepReleased
  <1>8. SharedWork'
    <2>1. SingleProducer'
      BY <1>1, <1>2 DEF IInv, DepReleased, SharedWork, SingleProducer, Settled
    <2> QED BY <2>1 DEF IInv, DepReleased, SharedWork, CancelledOnlyUnneeded, InterestsExact,
                        NoStaleEntry
  <1> QED BY <1>3, <1>4, <1>5, <1>6, <1>7, <1>8 DEF IInv

\* A subscription that waited is refused; a parent's producer learns of it.
LEMMA RefuseKeepsIInv ==
  ASSUME IInv, NEW c \in Consumer, Refuse(c)
  PROVE  IInv'
  <1> DEFINE p == owner[c]
  <1>1. /\ cpc[c] = "waiting" /\ cpc' = [cpc EXCEPT ![c] = "gone"]
        /\ cpc \in [Consumer -> ConsumerPC]
    BY DEF Refuse, IInv, TypeOK
  <1>2. CASE p \in Consumer
    <2>1. /\ fpc[p] = "consume" /\ dep[p] = c
          /\ fpc' = [fpc EXCEPT ![p] = "settle"] /\ fpc \in [Consumer -> FlightPC]
          /\ dep' = [dep EXCEPT ![p] = None] /\ dep \in [Consumer -> Consumer \cup {None}]
      BY <1>1, <1>2 DEF Refuse, IInv, TypeOK, Depending
    <2>2. error' \in [Consumer -> {"none", "cancelled", "failed"}]
      BY <1>2 DEF Refuse, IInv, TypeOK
    <2>3. TypeOK'
      BY <1>1, <2>1, <2>2 DEF IInv, TypeOK, Refuse, FlightPC, ConsumerPC
    <2>4. Linked'
      BY <1>1, <2>1 DEF IInv, Linked, Refuse, Attached, Reading
    <2>5. Producing'
      BY <2>1 DEF IInv, Producing, Refuse
    <2>6. Depending'
      BY <1>1, <2>1 DEF IInv, Depending, Refuse
    <2>7. Tabled'
      BY <2>1, RuntimeAssumption DEF IInv, TypeOK, Tabled, Refuse
    <2>8. SharedWork'
      <3>1. SingleProducer'
        BY <2>1 DEF IInv, Refuse, SharedWork, SingleProducer, Settled
      <3> QED BY <3>1 DEF IInv, Refuse, SharedWork, CancelledOnlyUnneeded, InterestsExact,
                          NoStaleEntry
    <2> QED BY <2>3, <2>4, <2>5, <2>6, <2>7, <2>8 DEF IInv
  <1>3. CASE p \notin Consumer
    <2>1. UNCHANGED <<fpc, error, dep>>
      BY <1>3 DEF Refuse
    <2>2. TypeOK'
      BY <1>1, <2>1 DEF IInv, TypeOK, Refuse, ConsumerPC
    <2>3. Linked'
      BY <1>1, <2>1 DEF IInv, Linked, Refuse, Attached, Reading
    <2>4. Producing' /\ Tabled'
      BY <2>1 DEF IInv, Producing, Tabled, Refuse
    <2>5. Depending'
      BY <1>1, <1>3, <2>1 DEF IInv, Depending, Refuse
    <2>6. SharedWork'
      BY <2>1 DEF IInv, Refuse, SharedWork, SingleProducer, CancelledOnlyUnneeded,
                  InterestsExact, NoStaleEntry, Settled
    <2> QED BY <2>2, <2>3, <2>4, <2>5, <2>6 DEF IInv
  <1> QED BY <1>2, <1>3

\* _dispose and _forget.
LEMMA DisposeKeepsIInv ==
  ASSUME IInv, NEW c \in Consumer, Dispose(c)
  PROVE  IInv'
  <1>1. /\ cpc[c] = "idle" /\ cpc' = [cpc EXCEPT ![c] = "gone"]
        /\ cpc \in [Consumer -> ConsumerPC]
        /\ c \in registered /\ terminal[c] # "none"
        /\ finished' = finished
    BY DEF Dispose, Move, IInv, TypeOK, Linked, Release
  <1>2. /\ flightOf' = [flightOf EXCEPT ![c] = None]
        /\ owner' = [owner EXCEPT ![c] = None]
        /\ flightOf \in [Consumer -> Consumer \cup {None}]
        /\ owner \in [Consumer -> Session \cup Consumer \cup {None}]
    BY DEF Dispose, IInv, TypeOK
  <1>3. /\ SharedWork'
        /\ \A f \in abandoned' : f \in abandoned \/ fpc[f] # "unused"
        /\ \A k \in Key : table'[k] \in {table[k], None}
        /\ table' \in [Key -> Consumer \cup {None}]
        /\ interests' \in [Consumer -> SUBSET Consumer]
        /\ abandoned' \subseteq Consumer
    <2>1. \A d, f \in Consumer : (d \in registered' /\ flightOf'[d] = f /\ terminal'[d] = "none")
             <=> (d \in registered /\ flightOf[d] = f /\ terminal[d] = "none" /\ d \notin {c})
      BY <1>1, <1>2 DEF Dispose
    <2>2. Release({c}) /\ key' = key /\ fpc' = fpc
      BY DEF Dispose
    <2> QED BY <1>1, <2>1, <2>2, Releases
  <1>4. TypeOK'
    <2>1. Roused({c}) \subseteq Consumer
      BY DEF Roused, Listeners
    <2>2. /\ woken' \subseteq Consumer
          /\ registered' \subseteq Consumer /\ disposing' \subseteq Consumer
      BY <2>1 DEF IInv, TypeOK, Dispose
    <2>5. reader' \in [Consumer -> {"none", "temp", "store", "source"}]
      BY DEF IInv, TypeOK, Dispose
    <2>6. pos' \in [Consumer -> 0..Chunks]
      BY RuntimeAssumption DEF IInv, TypeOK, Dispose
    <2>3. cpc' \in [Consumer -> ConsumerPC]
      BY <1>1 DEF ConsumerPC
    <2>4. /\ flightOf' \in [Consumer -> Consumer \cup {None}]
          /\ owner' \in [Consumer -> Session \cup Consumer \cup {None}]
      BY <1>2
    <2> QED BY <1>1, <1>3, <2>2, <2>3, <2>4, <2>5, <2>6 DEF IInv, TypeOK, Dispose
  <1>5. Linked'
    BY <1>1, <1>2 DEF IInv, Linked, Dispose, Attached, Reading
  <1>6. Producing'
    BY <1>1, <1>3 DEF IInv, Producing, Dispose
  <1>7. Depending'
    <2>1. owner'[c] \notin Consumer /\ \A d \in Consumer : d # c => owner'[d] = owner[d]
      BY <1>2, RuntimeAssumption
    <2>2. fpc' = fpc /\ dep' = dep /\ terminal' = terminal
      BY DEF Dispose
    <2> QED BY <1>1, <2>1, <2>2 DEF IInv, Depending
  <1>8. Tabled'
    BY <1>3 DEF IInv, Tabled, Dispose
  <1> QED BY <1>3, <1>4, <1>5, <1>6, <1>7, <1>8 DEF IInv

\* The end of the runtime's aclose, an eviction, and no step at all.
LEMMA RuntimeClosedKeepsIInv ==
  ASSUME IInv, RuntimeClosed \/ (\E k \in Key : Evict(k)) \/ UNCHANGED vars
  PROVE  IInv'
  <1>1. /\ UNCHANGED <<flightVars, sharedVars, cpc, identityVars, ownVars, readVars, woken>>
        /\ phase' \in {phase, "closed"} /\ draining' = draining
        /\ cached' \subseteq cached
    BY DEF RuntimeClosed, Evict
  <1>2. TypeOK'
    BY <1>1 DEF IInv, TypeOK
  <1>3. Linked' /\ Producing' /\ Depending' /\ Tabled'
    BY <1>1 DEF IInv, Linked, Producing, Depending, Tabled
  <1>4. SharedWork'
    BY <1>1 DEF IInv, SharedWork, SingleProducer, CancelledOnlyUnneeded, InterestsExact,
                NoStaleEntry
  <1> QED BY <1>2, <1>3, <1>4 DEF IInv

-----------------------------------------------------------------------------

\* One turn of _subscribe for c, whoever drives it: a session, a producer p = o that
\* begins to consume, or the end of a wait.
LEMMA Attempts ==
  ASSUME IInv, TypeOK', NEW c \in Consumer, NEW k \in Key, NEW o,
         cpc[c] \in {"unused", "waiting"}, cpc[c] = "waiting" => o = owner[c],
         Attempt(c, k, o),
         fpc'[c] = Spawned(c, k)[c],
         \A f \in Consumer : f # c =>
             fpc'[f] = fpc[f] \/ (f = o /\ fpc[f] = "run" /\ fpc'[f] = "consume"),
         o \in Consumer => /\ fpc[o] = "run" \/ (fpc[o] = "consume" /\ dep[o] = c)
                           /\ fpc'[o] = "consume" /\ dep'[o] = c,
         \A f \in Consumer : f # o => dep'[f] = dep[f]
  PROVE  IInv'
  <1>1. /\ fpc[c] = "unused" /\ terminal[c] = "none" /\ c \notin registered
        /\ c \notin abandoned /\ c \notin finished
    BY DEF IInv, Linked, Producing, Attached, Reading
  <1>2. PICK x \in {"idle", "waiting"}, g \in Consumer :
            /\ cpc' = [cpc EXCEPT ![c] = x]
            /\ key' = [key EXCEPT ![c] = k]
            /\ owner' = [owner EXCEPT ![c] = o]
            /\ flightOf' = [flightOf EXCEPT ![c] = g]
            /\ g \notin abandoned \/ x = "waiting"
            /\ IF x = "idle"
               THEN /\ interests' = [interests EXCEPT ![g] = @ \cup {c}]
                    /\ registered' = registered \cup {c}
               ELSE UNCHANGED <<interests, registered>>
            /\ \/ g = c /\ x = "idle" /\ k \notin Direct /\ table[k] = None
                  /\ table' = [table EXCEPT ![k] = c] /\ finished' = finished
               \/ g = c /\ x = "idle" /\ k \in Direct
                  /\ table' = table /\ finished' = finished \cup {c}
               \/ g = table[k] /\ k \notin Direct /\ table' = table /\ finished' = finished
    <2>1. table[k] \in Consumer \cup {None}
      BY DEF IInv, TypeOK
    <2>2. CASE k \notin Direct /\ Create(c, k, o)
      BY <1>1, <2>2 DEF Create, Admit
    <2>3. CASE k \notin Direct /\ Join(c, k, o)
      BY <2>1, <2>3 DEF Join, Admit, Joinable
    <2>4. CASE k \notin Direct /\ AwaitFinished(c, k, o)
      BY <2>1, <2>4 DEF AwaitFinished
    <2>5. CASE k \in Direct /\ SubscribeSource(c, k, o)
      BY <1>1, <2>5 DEF SubscribeSource, Admit
    <2> QED BY <2>2, <2>3, <2>4, <2>5 DEF Attempt
  <1>3. UNCHANGED <<abandoned, terminal, disposing, avail>>
    BY DEF Attempt, Create, Join, AwaitFinished, SubscribeSource, Admit
  <1>4. IF k \in Direct THEN fpc'[c] = "direct"
        ELSE IF table[k] = None THEN fpc'[c] = "start" ELSE fpc'[c] = "unused"
    BY <1>1 DEF Spawned, IInv, TypeOK
  <1>5. /\ cpc \in [Consumer -> ConsumerPC] /\ key \in [Consumer -> Key \cup {None}]
        /\ owner \in [Consumer -> Session \cup Consumer \cup {None}]
        /\ flightOf \in [Consumer -> Consumer \cup {None}]
        /\ interests \in [Consumer -> SUBSET Consumer]
        /\ table \in [Key -> Consumer \cup {None}]
        /\ registered \subseteq Consumer /\ finished \subseteq Consumer
        /\ None \notin Consumer
    BY RuntimeAssumption DEF IInv, TypeOK
  <1>6. /\ \A d \in Consumer \ {c} : /\ cpc'[d] = cpc[d] /\ key'[d] = key[d]
                                     /\ owner'[d] = owner[d] /\ flightOf'[d] = flightOf[d]
        /\ cpc'[c] = x /\ key'[c] = k /\ owner'[c] = o /\ flightOf'[c] = g
    BY <1>2, <1>5
  <1>7. \A f \in Consumer : fpc[f] # "unused" => fpc'[f] # "unused" /\ f # c
    BY <1>1
  <1>8. fpc'[g] # "unused"
    BY <1>2, <1>4, <1>5, <1>7 DEF IInv, Tabled
  <1>9. Linked'
    BY <1>1, <1>2, <1>3, <1>4, <1>5, <1>6, <1>7, <1>8 DEF IInv, Linked, Attached, Reading
  <1>10. Producing'
    BY <1>1, <1>2, <1>3, <1>4, <1>6, <1>7 DEF IInv, Producing
  <1>11. Depending'
    <2>1. ASSUME NEW f \in Consumer, fpc'[f] \in {"consume", "release"}
          PROVE  /\ dep'[f] \in Consumer
                 /\ cpc'[dep'[f]] # "unused"
                 /\ cpc'[dep'[f]] = "gone" => terminal'[dep'[f]] # "none"
                 /\ cpc'[dep'[f]] = "waiting" => owner'[dep'[f]] = f
      <3>1. CASE f = o
        <4>1. f = o /\ dep'[f] = c
          BY <2>1, <3>1
        <4>2. cpc'[c] \in {"idle", "waiting"} /\ owner'[c] = f
          BY <1>6, <3>1
        <4> QED BY <4>1, <4>2
      <3>2. CASE f # o
        <4>1. f # c /\ fpc[f] = fpc'[f] /\ dep'[f] = dep[f]
          BY <1>4, <2>1, <3>2
        <4>2. dep[f] # c
          BY <2>1, <3>2, <4>1 DEF IInv, Depending
        <4> QED BY <1>3, <1>6, <2>1, <4>1, <4>2 DEF IInv, Depending
      <3> QED BY <3>1, <3>2
    <2>2. ASSUME NEW d \in Consumer, cpc'[d] = "waiting", owner'[d] \in Consumer
          PROVE  fpc'[owner'[d]] = "consume" /\ dep'[owner'[d]] = d
      <3>1. CASE d = c
        BY <1>6, <2>2, <3>1
      <3>2. CASE d # c
        <4>1. owner[d] \in Consumer /\ fpc[owner[d]] = "consume" /\ dep[owner[d]] = d
          BY <1>6, <2>2, <3>2 DEF IInv, Depending
        <4> QED BY <1>1, <1>6, <2>2, <3>2, <4>1
      <3> QED BY <3>1, <3>2
    <2> QED BY <2>1, <2>2 DEF Depending
  <1>12. Tabled'
    BY <1>2, <1>4, <1>5, <1>7 DEF IInv, Tabled
  <1>13. SharedWork'
    <2>1. SingleProducer'
      BY <1>1, <1>2, <1>4, <1>5, <1>6 DEF IInv, SharedWork, SingleProducer, Settled, Producing
    <2>2. CancelledOnlyUnneeded'
      BY <1>2, <1>3, <1>5 DEF IInv, TypeOK, SharedWork, CancelledOnlyUnneeded
    <2>3. InterestsExact'
      BY <1>1, <1>2, <1>3, <1>5, <1>6 DEF IInv, SharedWork, InterestsExact
    <2>4. NoStaleEntry'
      BY <1>1, <1>2, <1>5, <1>6 DEF IInv, SharedWork, NoStaleEntry, Tabled
    <2> QED BY <2>1, <2>2, <2>3, <2>4 DEF SharedWork
  <1> QED BY <1>9, <1>10, <1>11, <1>12, <1>13 DEF IInv

\* The types after one turn of _subscribe.
LEMMA AttemptTypes ==
  ASSUME TypeOK, NEW c \in Consumer, NEW k \in Key,
         NEW o \in Session \cup Consumer \cup {None}, Attempt(c, k, o),
         fpc' \in [Consumer -> FlightPC], dep' \in [Consumer -> Consumer \cup {None}],
         error' = error
  PROVE  TypeOK'
  <1>1. table[k] \in Consumer \cup {None}
    BY DEF TypeOK
  <1>2. CASE Create(c, k, o)
    BY <1>2 DEF Create, Admit, TypeOK, ConsumerPC
  <1>3. CASE Join(c, k, o)
    BY <1>1, <1>3 DEF Join, Admit, TypeOK, ConsumerPC
  <1>4. CASE AwaitFinished(c, k, o)
    BY <1>1, <1>4 DEF AwaitFinished, TypeOK, ConsumerPC
  <1>5. CASE SubscribeSource(c, k, o)
    BY <1>5 DEF SubscribeSource, Admit, TypeOK, ConsumerPC
  <1> QED BY <1>2, <1>3, <1>4, <1>5 DEF Attempt

\* At most the flight named after the new consumer begins.
LEMMA SpawnedType ==
  ASSUME TypeOK, NEW c \in Consumer, NEW k \in Key
  PROVE  /\ Spawned(c, k) \in [Consumer -> FlightPC]
         /\ \A f \in Consumer : f # c => Spawned(c, k)[f] = fpc[f]
  BY DEF TypeOK, Spawned, FlightPC

\* subscribe and subscribe_source for a session.
LEMMA SubscribeKeepsIInv ==
  ASSUME IInv, NEW c \in Consumer, NEW k \in Key, NEW s \in Session, Subscribe(c, k, s)
  PROVE  IInv'
  <1>1. /\ cpc[c] = "unused" /\ Attempt(c, k, s) /\ fpc' = Spawned(c, k)
        /\ error' = error /\ dep' = dep
    BY DEF Subscribe, Fresh
  <1>2. TypeOK'
    BY <1>1, AttemptTypes, SpawnedType DEF IInv, TypeOK
  <1>3. s \notin Consumer
    BY RuntimeAssumption
  <1> QED BY <1>1, <1>2, <1>3, SpawnedType, Attempts DEF IInv

\* A subscription whose wait is over.
LEMMA ResumeKeepsIInv ==
  ASSUME IInv, NEW c \in Consumer, Resume(c)
  PROVE  IInv'
  <1>1. /\ cpc[c] = "waiting" /\ Attempt(c, key[c], owner[c]) /\ fpc' = Spawned(c, key[c])
        /\ error' = error /\ dep' = dep
    BY DEF Resume
  <1>2. key[c] \in Key /\ owner[c] \in Session \cup Consumer \cup {None}
    BY <1>1 DEF IInv, Linked, TypeOK
  <1>3. TypeOK'
    BY <1>1, <1>2, AttemptTypes, SpawnedType DEF IInv, TypeOK
  <1>4. owner[c] \in Consumer => /\ fpc[owner[c]] = "consume" /\ dep[owner[c]] = c
                                 /\ owner[c] # c
    BY <1>1 DEF IInv, Depending, Linked
  <1>5. \A f \in Consumer : f # c => fpc'[f] = fpc[f]
    BY <1>1, <1>2, SpawnedType DEF IInv
  <1> QED BY <1>1, <1>2, <1>3, <1>4, <1>5, Attempts

\* A producer's own subscription.
LEMMA DepSubscribeKeepsIInv ==
  ASSUME IInv, NEW p \in Consumer, NEW c \in Consumer, DepSubscribe(p, c)
  PROVE  IInv'
  <1> DEFINE k == Dep[key[p]]
  <1>1. /\ fpc[p] = "run" /\ cpc[c] = "unused" /\ Attempt(c, k, p)
        /\ fpc' = [Spawned(c, k) EXCEPT ![p] = "consume"]
        /\ dep' = [dep EXCEPT ![p] = c] /\ error' = error
    BY DEF DepSubscribe, Fresh
  <1>2. k \in Key /\ fpc[c] = "unused" /\ c # p
    BY <1>1 DEF IInv, Linked, Producing
  <1> HIDE DEF k
  <1>3. /\ Spawned(c, k) \in [Consumer -> FlightPC]
        /\ \A f \in Consumer : f # c => Spawned(c, k)[f] = fpc[f]
    BY <1>2, SpawnedType DEF IInv
  <1>4. /\ fpc' \in [Consumer -> FlightPC] /\ fpc'[c] = Spawned(c, k)[c]
        /\ fpc'[p] = "consume" /\ \A f \in Consumer \ {c, p} : fpc'[f] = fpc[f]
    BY <1>1, <1>2, <1>3 DEF FlightPC
  <1>5. /\ dep' \in [Consumer -> Consumer \cup {None}]
        /\ dep'[p] = c /\ \A f \in Consumer \ {p} : dep'[f] = dep[f]
    BY <1>1 DEF IInv, TypeOK
  <1>6. TypeOK'
    BY <1>1, <1>2, <1>4, <1>5, AttemptTypes DEF IInv
  <1> QED BY <1>1, <1>2, <1>4, <1>5, <1>6, Attempts

-----------------------------------------------------------------------------

\* Every step keeps the invariant.
LEMMA NextKeepsIInv == IInv /\ [Next]_vars => IInv'
  <1> SUFFICES ASSUME IInv, [Next]_vars PROVE IInv'
    OBVIOUS
  <1>1. ASSUME NEW f \in Consumer, Produce(f) PROVE IInv'
    BY <1>1, ProducerOnlyKeepsIInv, FinishKeepsIInv, DepRefusedKeepsIInv, DepExitKeepsIInv,
       DepReleasedKeepsIInv DEF Produce
  <1>2. ASSUME NEW p \in Consumer, NEW c \in Consumer, DepSubscribe(p, c) PROVE IInv'
    BY <1>2, DepSubscribeKeepsIInv
  <1>3. ASSUME NEW c \in Consumer, Resume(c) \/ Refuse(c) \/ ReadBegin(c) \/ ReadProgress(c)
                                   \/ Dispose(c)
        PROVE  IInv'
    BY <1>3, ResumeKeepsIInv, RefuseKeepsIInv, ReadBeginKeepsIInv, ReadProgressKeepsIInv,
       DisposeKeepsIInv
  <1>4. ASSUME NEW c \in Consumer, WatchParent(c) PROVE IInv'
    <2>1. {c} \in SUBSET registered /\ Cancel({c}) /\ UNCHANGED CancelFrame
      BY <1>4 DEF WatchParent
    <2>2. /\ disposing' \in SUBSET (disposing \cup {c})
          /\ phase' \in {"open", "closing", "closed", "failed"} /\ draining' \subseteq Consumer
      BY <1>4 DEF WatchParent, IInv, TypeOK
    <2> QED BY <2>1, <2>2, CancelKeepsIInv
  <1>5. ASSUME NEW c \in Consumer, Aclose(c) PROVE IInv'
    <2>1. {c} \in SUBSET registered /\ Cancel({c}) /\ UNCHANGED CancelFrame
      BY <1>5 DEF Aclose
    <2>2. /\ disposing' \in SUBSET (disposing \cup {c})
          /\ phase' \in {"open", "closing", "closed", "failed"} /\ draining' \subseteq Consumer
      BY <1>5 DEF Aclose, IInv, TypeOK
    <2> QED BY <2>1, <2>2, CancelKeepsIInv
  <1>6. ASSUME NEW s \in Session, CancelSession(s) PROVE IInv'
    <2>1. OfSession(s) \in SUBSET registered /\ Cancel(OfSession(s)) /\ UNCHANGED CancelFrame
      BY <1>6 DEF CancelSession, OfSession
    <2>2. /\ disposing' \in SUBSET (disposing \cup OfSession(s))
          /\ phase' \in {"open", "closing", "closed", "failed"} /\ draining' \subseteq Consumer
      BY <1>6 DEF CancelSession, IInv, TypeOK
    <2> QED BY <2>1, <2>2, CancelKeepsIInv
  <1>7. CASE CloseRuntime
    <2>1. /\ disposing' \in SUBSET (disposing \cup registered)
          /\ phase' \in {"open", "closing", "closed", "failed"} /\ draining' \subseteq Consumer
      BY <1>7 DEF CloseRuntime, IInv, TypeOK
    <2>2. Cancel(registered) /\ UNCHANGED CancelFrame
      BY <1>7 DEF CloseRuntime
    <2> QED BY <2>1, <2>2, CancelKeepsIInv
  <1>8. ASSUME NEW c \in Consumer, NEW a \in Asks[c], Subscribe(c, a[2], a[1]) PROVE IInv'
    <2>1. a[2] \in Key /\ a[1] \in Session
      BY <1>8, RuntimeAssumption
    <2> QED BY <1>8, <2>1, SubscribeKeepsIInv
  <1>9. CASE RuntimeClosed \/ (\E k \in Key : Evict(k)) \/ UNCHANGED vars
    BY <1>9, RuntimeClosedKeepsIInv
  <1> QED BY <1>1, <1>2, <1>3, <1>4, <1>5, <1>6, <1>7, <1>8, <1>9 DEF Next, Internal, External

\* IInv holds in every reachable state of the runtime.
THEOREM Invariance == Spec => []IInv
  BY InitIInv, NextKeepsIInv, PTL DEF Spec

\* Every variable of the runtime keeps its type; in particular no payload grows beyond its
\* declared length and no cursor runs past it.
THEOREM TypeCorrect == Spec => []TypeOK
  <1>1. IInv => TypeOK
    BY DEF IInv
  <1> QED BY <1>1, Invariance, PTL

\* _flights, interests and producers agree whatever subscribes, reads, fails and is
\* cancelled: one production per key, found by all, kept exactly while it is needed.
THEOREM WorkIsShared == Spec => []SharedWork
  <1>1. IInv => SharedWork
    BY DEF IInv
  <1> QED BY <1>1, Invariance, PTL

-----------------------------------------------------------------------------
(***************************************************************************)
(* Part 2.  The action properties: cancelled flights start no work, and    *)
(* the outcome of a consumer is decided once.                              *)
(***************************************************************************)

\* Only a consumer whose outcome is open, or that was cancelled meanwhile, is reading.
Undecided == \A c \in Consumer : cpc[c] \in Reading => terminal[c] \in {"none", "cancelled"}

-----------------------------------------------------------------------------
(* Cancelled flights.                                                      *)

\* The places of a producer where it has blocking work or a dependency under way.
Work == {"lookup", "begin", "consume", "append", "commit"}

\* The producer of a cancelled flight starts nothing.
Idles == \A f \in abandoned : fpc'[f] # fpc[f] => fpc'[f] \notin Work

\* Through a check a producer gets to work only if it is not cancelled.
LEMMA CheckStops ==
  ASSUME NEW f \in Consumer, NEW pc, CheckThen(f, pc), fpc \in [Consumer -> FlightPC]
  PROVE  \A g \in Consumer : /\ g # f => fpc'[g] = fpc[g]
                             /\ f \in abandoned => fpc'[f] = "settle"
  BY DEF CheckThen, Raise, Goto

\* A producer step obeys the cancellation of its flight.
LEMMA ProduceIdles ==
  ASSUME IInv, NEW f \in Consumer, Produce(f)
  PROVE  Idles
  <1>1. fpc \in [Consumer -> FlightPC] /\ abandoned \subseteq Consumer
    BY DEF IInv, TypeOK
  <1>2. CASE \/ Start(f) \/ LookupMiss(f) \/ Begin(f) \/ Emit(f) \/ Appended(f) \/ CommitBegin(f)
    <2>1. \E pc \in FlightPC : CheckThen(f, pc)
      BY <1>2 DEF Start, LookupMiss, Begin, Emit, Appended, CommitBegin, FlightPC
    <2> QED BY <1>1, <2>1, CheckStops DEF Idles, Work
  <1>3. CASE \/ LookupHit(f) \/ LookupFails(f) \/ BeginFails(f) \/ DepRefused(f) \/ DepExit(f)
             \/ DepReleased(f) \/ ProducerFails(f) \/ Append(f) \/ AppendFails(f) \/ Commit(f)
             \/ CommitFails(f) \/ SettleBegin(f) \/ Finish(f) \/ AbortFails(f)
    <2>1. \E pc \in {"settle", "release", "emit", "appended", "abort", "done", "dead"} :
              fpc' = [fpc EXCEPT ![f] = pc]
      BY <1>3 DEF LookupHit, LookupFails, BeginFails, DepRefused, DepExit, DepReleased,
            ProducerFails, Append, AppendFails, Commit, CommitFails, SettleBegin, Finish,
            AbortFails, Raise, Goto
    <2> QED BY <1>1, <2>1 DEF Idles, Work
  <1> QED BY <1>2, <1>3 DEF Produce

\* A new flight is where no work is under way.
LEMMA SpawnIdles ==
  ASSUME fpc \in [Consumer -> FlightPC], NEW c \in Consumer, NEW k
  PROVE  \A f \in Consumer :
             Spawned(c, k)[f] # fpc[f] => Spawned(c, k)[f] \in {"start", "direct"}
  BY DEF Spawned

\* So does every step.
LEMMA NextIdles == IInv /\ [Next]_vars => [Idles]_vars
  <1> SUFFICES ASSUME IInv, Next PROVE Idles \/ UNCHANGED vars
    OBVIOUS
  <1>1. /\ fpc \in [Consumer -> FlightPC] /\ abandoned \subseteq Consumer
        /\ \A c \in Consumer : cpc[c] \in {"unused", "waiting"} => fpc[c] = "unused"
    BY DEF IInv, TypeOK, Linked
  <1>2. ASSUME NEW f \in Consumer, Produce(f) PROVE Idles
    BY <1>2, ProduceIdles
  <1>3. ASSUME NEW p \in Consumer, NEW c \in Consumer, DepSubscribe(p, c) PROVE Idles
    <2> DEFINE k == Dep[key[p]]
    <2>1. p \notin abandoned /\ fpc' = [Spawned(c, k) EXCEPT ![p] = "consume"]
      BY <1>3 DEF DepSubscribe
    <2> HIDE DEF k
    <2>2. \A f \in Consumer \ {p} : fpc'[f] # fpc[f] => fpc'[f] \in {"start", "direct"}
      BY <1>1, <2>1, SpawnIdles DEF Spawned
    <2> QED BY <1>1, <2>1, <2>2 DEF Idles, Work
  <1>4. ASSUME NEW c \in Consumer, Resume(c) PROVE Idles
    <2>1. fpc' = Spawned(c, key[c])
      BY <1>4 DEF Resume
    <2> QED BY <1>1, <2>1, SpawnIdles DEF Idles, Work
  <1>5. ASSUME NEW c \in Consumer, Refuse(c) PROVE Idles
    <2>1. fpc' = fpc \/ fpc' = [fpc EXCEPT ![owner[c]] = "settle"]
      BY <1>5 DEF Refuse
    <2> QED BY <1>1, <2>1 DEF Idles, Work
  <1>6. ASSUME NEW c \in Consumer, ReadProgress(c) PROVE fpc' = fpc
    BY <1>6 DEF ReadProgress, Open, Opened, OpenFails, Read, ReadFails, CancelledEmpty, Complete,
          FlightFailed, Wait, Wake, Fail
  <1>7. ASSUME NEW c \in Consumer, \/ ReadBegin(c) \/ WatchParent(c) \/ Dispose(c) \/ Aclose(c)
        PROVE  fpc' = fpc
    BY <1>7 DEF ReadBegin, WatchParent, Dispose, Aclose
  <1>8. CASE \/ RuntimeClosed \/ CloseRuntime \/ (\E s \in Session : CancelSession(s))
             \/ (\E k \in Key : Evict(k))
    BY <1>8 DEF RuntimeClosed, CloseRuntime, CancelSession, Evict, Idles
  <1>9. ASSUME NEW c \in Consumer, NEW a \in Asks[c], Subscribe(c, a[2], a[1]) PROVE Idles
    <2>1. fpc' = Spawned(c, a[2])
      BY <1>9 DEF Subscribe
    <2> QED BY <1>1, <2>1, SpawnIdles DEF Idles, Work
  <1> QED BY <1>2, <1>3, <1>4, <1>5, <1>6, <1>7, <1>8, <1>9 DEF Next, Internal, External, Idles

\* A cancelled flight starts no further blocking work and no dependency: io(), append(),
\* dependency() and _produce check between the request and the work, on every path.
THEOREM CancellationIsObeyed == Spec => NoWorkAfterCancel
  <1>1. [Idles]_vars =>
            [\A f \in abandoned : fpc'[f] # fpc[f] =>
                 fpc'[f] \notin {"lookup", "begin", "consume", "append", "commit"}]_vars
    BY DEF Idles, Work
  <1> QED BY <1>1, NextIdles, Invariance, PTL DEF Spec, NoWorkAfterCancel

-----------------------------------------------------------------------------
(* Outcomes.                                                               *)

\* The step decides no outcome anew and lets nobody read with one.
Keeps == (\A c \in Consumer : terminal[c] # "none" => terminal'[c] = terminal[c]) /\ Undecided'

\* Consumer.cancel for any consumers, while they stay where they are.
LEMMA CancelKeeps ==
  ASSUME IInv, Undecided, NEW C \in SUBSET Consumer, Cancel(C),
         \A c \in Consumer : cpc'[c] \in Reading => cpc[c] \in Reading
  PROVE  Keeps
  BY DEF Cancel, Live, Keeps, Undecided, IInv, TypeOK

\* A step that leaves the outcomes alone and begins no read of a decided consumer.
LEMMA OthersKeep ==
  ASSUME IInv, Undecided, terminal' = terminal,
         \A c \in Consumer : cpc'[c] \in Reading =>
             cpc[c] \in Reading \/ terminal[c] \in {"none", "cancelled"}
  PROVE  Keeps
  BY DEF Keeps, Undecided

\* ... in particular one that moves a single consumer.
LEMMA MoveKeeps ==
  ASSUME IInv, Undecided, terminal' = terminal, NEW c \in Consumer, NEW pc \in ConsumerPC,
         cpc' = [cpc EXCEPT ![c] = pc],
         pc \in Reading => cpc[c] \in Reading \/ terminal[c] \in {"none", "cancelled"}
  PROVE  Keeps
  <1>1. cpc \in [Consumer -> ConsumerPC]
    BY DEF IInv, TypeOK
  <1> QED BY <1>1 DEF Keeps, Undecided

\* The steps of a read.
LEMMA ReadKeeps ==
  ASSUME IInv, Undecided, NEW c \in Consumer, ReadBegin(c) \/ ReadProgress(c)
  PROVE  Keeps
  <1>1. cpc \in [Consumer -> ConsumerPC] /\ terminal \in [Consumer -> {"none", "complete", "cancelled", "error"}]
    BY DEF IInv, TypeOK
  <1>2. CASE OpenFails(c) \/ ReadFails(c) \/ FlightFailed(c) \/ Complete(c)
    <2>1. \E t \in {"complete", "cancelled", "error"} :
              /\ cpc' = [cpc EXCEPT ![c] = "idle"]
              /\ terminal' = [terminal EXCEPT ![c] = t]
              /\ cpc[c] \in Reading
              /\ terminal[c] # "none" => t = terminal[c]
      <3>1. CASE Complete(c)
        BY <1>1, <3>1 DEF Complete, Leave, Move, Undecided, Reading
      <3>2. ASSUME NEW t \in {"cancelled", "error"}, Fail(c, t) 
            PROVE  /\ cpc' = [cpc EXCEPT ![c] = "idle"]
                   /\ terminal' = [terminal EXCEPT ![c] = IF terminal[c] = "none" THEN t ELSE terminal[c]]
        BY <3>2 DEF Fail, Leave, Move
      <3>3. CASE OpenFails(c) \/ ReadFails(c) \/ FlightFailed(c)
        <4>1. cpc[c] \in Reading /\ \E t \in {"cancelled", "error"} : Fail(c, t)
          BY <3>3 DEF OpenFails, ReadFails, FlightFailed, Reading
        <4> QED BY <1>1, <3>2, <4>1
      <3> QED BY <1>2, <3>1, <3>3
    <2> QED BY <1>1, <2>1 DEF Keeps, Undecided, Reading
  <1>3. CASE ReadBegin(c)
    <2>1. terminal' = terminal /\ terminal[c] \in {"none", "cancelled"}
      BY <1>3 DEF ReadBegin
    <2>2. \E pc \in ConsumerPC : cpc' = [cpc EXCEPT ![c] = pc]
      BY <1>3 DEF ReadBegin, Capture, Leave, Move, ConsumerPC
    <2> QED BY <2>1, <2>2, MoveKeeps
  <1>4. CASE Open(c) \/ Opened(c) \/ Read(c) \/ CancelledEmpty(c) \/ Wait(c) \/ Wake(c)
    <2>1. terminal' = terminal /\ cpc[c] \in Reading
      BY <1>4 DEF Open, Opened, Read, CancelledEmpty, Wait, Wake, Reading
    <2>2. \E pc \in ConsumerPC : cpc' = [cpc EXCEPT ![c] = pc]
      BY <1>4 DEF Open, Opened, Read, CancelledEmpty, Wait, Wake, Capture, Leave, Move, ConsumerPC
    <2> QED BY <2>1, <2>2, MoveKeeps
  <1> QED BY <1>2, <1>3, <1>4 DEF ReadProgress

\* The ways in and out of the runtime.
LEMMA SubscriptionKeeps ==
  ASSUME IInv, Undecided, NEW c \in Consumer, NEW k, NEW o, Attempt(c, k, o) 
  PROVE  Keeps
  <1>1. /\ terminal' = terminal
        /\ \E pc \in ConsumerPC \ Reading : cpc' = [cpc EXCEPT ![c] = pc]
    BY DEF Attempt, Create, Join, AwaitFinished, SubscribeSource, Admit, ConsumerPC, Reading
  <1> QED BY <1>1, MoveKeeps

\* Every step keeps outcomes.
LEMMA NextKeeps == IInv /\ Undecided /\ Next => Keeps
  <1> SUFFICES ASSUME IInv, Undecided, Next PROVE Keeps
    OBVIOUS
  <1>1. ASSUME NEW f \in Consumer, Produce(f) PROVE Keeps
    <2>1. CASE DepExit(f)
      <3>1. dep[f] \in Consumer
        BY <2>1 DEF DepExit, IInv, Depending
      <3>2. Cancel({dep[f]}) /\ cpc' = cpc
        BY <2>1 DEF DepExit
      <3> QED BY <3>1, <3>2, CancelKeeps
    <2>2. CASE ~DepExit(f)
      <3>1. terminal' = terminal /\ cpc' = cpc
        BY <1>1, <2>2 DEF Produce, Start, LookupHit, LookupMiss, LookupFails, Begin, BeginFails,
              DepRefused, DepReleased, Emit, ProducerFails, Append, AppendFails, Appended,
              CommitBegin, Commit, CommitFails, SettleBegin, Finish, AbortFails
      <3> QED BY <3>1, OthersKeep
    <2> QED BY <2>1, <2>2
  <1>2. ASSUME NEW p \in Consumer, NEW c \in Consumer, DepSubscribe(p, c) PROVE Keeps
    BY <1>2, SubscriptionKeeps DEF DepSubscribe
  <1>3. ASSUME NEW c \in Consumer, Resume(c) PROVE Keeps
    BY <1>3, SubscriptionKeeps DEF Resume
  <1>4. ASSUME NEW c \in Consumer, NEW a \in Asks[c], Subscribe(c, a[2], a[1]) PROVE Keeps
    BY <1>4, SubscriptionKeeps DEF Subscribe
  <1>5. ASSUME NEW c \in Consumer, Refuse(c) PROVE Keeps
    <2>1. terminal' = terminal /\ cpc' = [cpc EXCEPT ![c] = "gone"]
      BY <1>5 DEF Refuse
    <2> QED BY <2>1, MoveKeeps DEF ConsumerPC, Reading
  <1>6. ASSUME NEW c \in Consumer, ReadBegin(c) \/ ReadProgress(c) PROVE Keeps
    BY <1>6, ReadKeeps
  <1>7. ASSUME NEW c \in Consumer, WatchParent(c) \/ Aclose(c) PROVE Keeps
    <2>1. Cancel({c}) /\ cpc' = cpc
      BY <1>7 DEF WatchParent, Aclose
    <2> QED BY <2>1, CancelKeeps
  <1>8. ASSUME NEW c \in Consumer, Dispose(c) PROVE Keeps
    <2>1. terminal' = terminal /\ cpc' = [cpc EXCEPT ![c] = "gone"]
      BY <1>8 DEF Dispose, Move
    <2> QED BY <2>1, MoveKeeps DEF ConsumerPC, Reading
  <1>9. ASSUME NEW s \in Session, CancelSession(s) PROVE Keeps
    <2>1. Cancel(OfSession(s)) /\ cpc' = cpc /\ OfSession(s) \subseteq Consumer
      BY <1>9 DEF CancelSession, OfSession, IInv, TypeOK
    <2> QED BY <2>1, CancelKeeps
  <1>10. CASE CloseRuntime
    <2>1. Cancel(registered) /\ cpc' = cpc /\ registered \subseteq Consumer
      BY <1>10 DEF CloseRuntime, IInv, TypeOK
    <2> QED BY <2>1, CancelKeeps
  <1>11. CASE RuntimeClosed \/ \E k \in Key : Evict(k)
    <2>1. terminal' = terminal /\ cpc' = cpc
      BY <1>11 DEF RuntimeClosed, Evict
    <2> QED BY <2>1, OthersKeep
  <1> QED BY <1>1, <1>2, <1>3, <1>4, <1>5, <1>6, <1>7, <1>8, <1>9, <1>10, <1>11
          DEF Next, Internal, External

\* A consumer that has been told how it ended neither reads on nor is told otherwise:
\* cancel(), the handlers of _read and _dispose set terminal at most once.
THEOREM OutcomesAreStable == Spec => TerminalStable
  <1>1. Init => Undecided
    BY DEF Init, Undecided, Reading
  <1>2. IInv /\ Undecided /\ [Next]_vars => Undecided'
    <2>1. CASE UNCHANGED vars
      BY <2>1 DEF Undecided
    <2> QED BY <2>1, NextKeeps DEF Keeps
  <1>3. IInv /\ Undecided /\ [Next]_vars =>
            [\A c \in registered \cap registered' :
                 terminal[c] # "none" => terminal'[c] = terminal[c]]_vars
    BY NextKeeps DEF Keeps, IInv, TypeOK
  <1> QED BY <1>1, <1>2, <1>3, Invariance, PTL DEF Spec, TerminalStable

-----------------------------------------------------------------------------
(***************************************************************************)
(* Part 3.  Cancelling one consumer, session or parent never ends          *)
(* another's read: IndependentCancellation.                                *)
(*                                                                         *)
(* A read ends as "cancelled" by the error of its flight.  That the flight *)
(* has then no other reader follows from where the error comes from: a     *)
(* check of an abandoned flight, or a dependency of the producer that was  *)
(* cancelled, which happens only after the producer's own flight was       *)
(* abandoned.  Isolated says so of every reachable state.                  *)
(***************************************************************************)

\* A producer goes on only while somebody wants its artifact or its end is requested.
Wanted == \A f \in Consumer : fpc[f] \notin Settled => interests[f] # {} \/ f \in abandoned

\* A flight ends as cancelled only if its cancellation was requested.
Doomed == \A f \in Consumer : error[f] = "cancelled" => f \in abandoned

\* The consumer of a producer is cancelled only with the producer's flight.
Dependents ==
    \A f \in Consumer : fpc[f] = "consume" =>
        /\ cpc[dep[f]] \in Attached => owner[dep[f]] = f
        /\ terminal[dep[f]] = "cancelled" => f \in abandoned

Isolated == Wanted /\ Doomed /\ Dependents

-----------------------------------------------------------------------------

\* _release leaves every unsettled flight wanted or abandoned.
LEMMA ReleaseWants ==
  ASSUME IInv, Wanted, NEW C \in SUBSET registered, Release(C),
         \A f \in Consumer : fpc'[f] \notin Settled => fpc[f] \notin Settled
  PROVE  Wanted' /\ abandoned \subseteq abandoned'
  <1>1. abandoned' = abandoned \cup (Unneeded(C) \ finished)
    BY DEF Release
  <1>2. interests' = [f \in Consumer |-> interests[f] \ C]
    BY DEF Release
  <1>3. ASSUME NEW f \in Consumer, fpc'[f] \notin Settled, interests'[f] = {}
        PROVE  f \in abandoned'
    <2>1. fpc[f] \notin Settled /\ f \notin finished /\ interests[f] \ C = {}
      BY <1>2, <1>3 DEF IInv, Producing, Settled
    <2>2. CASE f \in abandoned
      BY <1>1, <2>2
    <2>3. CASE f \notin abandoned
      <3>1. PICK c \in interests[f] : c \in C
        BY <2>1, <2>3 DEF Wanted
      <3>2. c \in Consumer /\ flightOf[c] = f
        BY <3>1 DEF IInv, TypeOK, SharedWork, InterestsExact
      <3>3. f \in Unneeded(C)
        BY <2>1, <3>1, <3>2 DEF Unneeded
      <3> QED BY <1>1, <2>1, <3>3
    <2> QED BY <2>2, <2>3
  <1> QED BY <1>1, <1>3 DEF Wanted

\* Consumer.cancel for consumers whose parents are abandoned by then.
LEMMA CancelIsolates ==
  ASSUME IInv, Isolated, NEW C \in SUBSET Consumer, Cancel(C), Live(C) \subseteq registered,
         UNCHANGED <<cpc, owner, dep>>,
         \A f \in Consumer : fpc'[f] \notin Settled => fpc[f] \notin Settled,
         \A f \in Consumer : fpc'[f] = "consume" =>
             fpc[f] = "consume" /\ (dep[f] \in Live(C) => f \in abandoned'),
         \A f \in Consumer : error'[f] = "cancelled" => error[f] = "cancelled" \/ f \in abandoned
  PROVE  Isolated'
  <1>1. Wanted' /\ abandoned \subseteq abandoned'
    <2>1. Release(Live(C))
      BY DEF Cancel
    <2> QED BY <2>1, ReleaseWants DEF Isolated
  <1>2. Doomed'
    BY <1>1 DEF Isolated, Doomed
  <1>3. Dependents'
    <2>1. terminal' = [c \in Consumer |-> IF c \in Live(C) THEN "cancelled" ELSE terminal[c]]
      BY DEF Cancel
    <2>2. \A f \in Consumer : fpc[f] = "consume" => dep[f] \in Consumer
      BY DEF IInv, Depending
    <2> QED BY <1>1, <2>1, <2>2 DEF Isolated, Dependents
  <1> QED BY <1>1, <1>2, <1>3 DEF Isolated

\* A step that cancels nobody: no outcome but of a consumer that reads on is new.
LEMMA OthersIsolate ==
  ASSUME IInv, Isolated, Wanted', abandoned \subseteq abandoned',
         \A f \in Consumer : error'[f] = "cancelled" => error[f] = "cancelled" \/ f \in abandoned,
         \A f \in Consumer : fpc'[f] = "consume" =>
             /\ fpc[f] = "consume" /\ dep'[f] = dep[f]
             /\ cpc'[dep[f]] \in Attached => owner'[dep[f]] = f
             /\ terminal'[dep[f]] = "cancelled" => terminal[dep[f]] = "cancelled"
  PROVE  Isolated'
  BY DEF Isolated, Doomed, Dependents

-----------------------------------------------------------------------------

\* A check raises for an abandoned flight alone.
LEMMA CheckRaises ==
  ASSUME IInv, NEW f \in Consumer, NEW pc, CheckThen(f, pc)
  PROVE  /\ \E x \in {pc, "settle"} : Goto(f, x)
         /\ \A g \in Consumer : error'[g] = "cancelled" => error[g] = "cancelled" \/ g \in abandoned
  BY DEF IInv, TypeOK, CheckThen, Raise, Goto

\* The steps of a producer task.
LEMMA ProduceIsolates ==
  ASSUME IInv, Isolated, NEW f \in Consumer, Produce(f)
  PROVE  Isolated'
  <1>1. /\ fpc \in [Consumer -> FlightPC] /\ error \in [Consumer -> {"none", "cancelled", "failed"}]
        /\ dep \in [Consumer -> Consumer \cup {None}]
    BY DEF IInv, TypeOK
  <1>2. CASE DepExit(f)
    <2> DEFINE c == dep[f]
    <2>1. /\ fpc[f] = "consume" /\ fpc' = [fpc EXCEPT ![f] = "release"]
          /\ cpc[c] \in {"idle", "gone"} /\ Cancel({c}) /\ UNCHANGED <<cpc, owner, dep>>
      BY <1>2 DEF DepExit, Goto
    <2>2. c \in Consumer /\ (cpc[c] = "gone" => terminal[c] # "none")
      BY <2>1 DEF IInv, Depending
    <2>3. Live({c}) \subseteq registered
      BY <2>1, <2>2 DEF IInv, Linked, Live, Attached
    <2>4. \A g \in Consumer : error'[g] = "cancelled" => error[g] = "cancelled" \/ g \in abandoned
      BY <1>1, <1>2, <2>1 DEF DepExit, Isolated, Dependents
    <2>5. \A g \in Consumer : fpc'[g] = "consume" => fpc[g] = "consume" /\ dep[g] \notin Live({c})
      <3> SUFFICES ASSUME NEW g \in Consumer, fpc'[g] = "consume"
                   PROVE  fpc[g] = "consume" /\ dep[g] \notin Live({c})
        OBVIOUS
      <3>1. g # f /\ fpc[g] = "consume"
        BY <1>1, <2>1
      <3>2. ASSUME dep[g] = c, terminal[c] = "none" PROVE FALSE
        <4>1. cpc[c] = "idle"
          BY <2>1, <2>2, <3>2
        <4>2. owner[c] = f /\ owner[c] = g
          BY <2>1, <3>1, <3>2, <4>1 DEF Isolated, Dependents, Attached
        <4> QED BY <3>1, <4>2
      <3> QED BY <3>1, <3>2 DEF Live
    <2>6. \A g \in Consumer : fpc'[g] \notin Settled => fpc[g] \notin Settled
      BY <1>1, <2>1 DEF Settled
    <2> HIDE DEF c
    <2> QED BY <2>1, <2>2, <2>3, <2>4, <2>5, <2>6, CancelIsolates
  <1>3. CASE ~DepExit(f)
    <2>1. /\ UNCHANGED <<interests, abandoned, cpc, owner, terminal>>
          /\ \A g \in Consumer \ {f} : dep'[g] = dep[g]
      BY <1>1, <1>3 DEF Produce, Start, LookupHit, LookupMiss, LookupFails, Begin, BeginFails,
            DepRefused, DepReleased, Emit, ProducerFails, Append, AppendFails, Appended,
            CommitBegin, Commit, CommitFails, SettleBegin, Finish, AbortFails
    <2>2. CASE \/ Start(f) \/ LookupMiss(f) \/ Begin(f) \/ Emit(f) \/ Appended(f) \/ CommitBegin(f)
      <3>1. PICK pc \in Busy : CheckThen(f, pc) /\ fpc[f] \in Busy
        BY <2>2 DEF Start, LookupMiss, Begin, Emit, Appended, CommitBegin, Busy
      <3>2. PICK x \in Busy : Goto(f, x)
        BY <3>1, CheckRaises DEF Busy
      <3>3. \A g \in Consumer : error'[g] = "cancelled" => error[g] = "cancelled" \/ g \in abandoned
        BY <3>1, CheckRaises
      <3>4. Wanted'
        BY <1>1, <2>1, <3>1, <3>2 DEF Isolated, Wanted, Goto, Busy, Settled
      <3>5. \A g \in Consumer : fpc'[g] = "consume" => g # f /\ fpc[g] = "consume"
        BY <1>1, <3>2 DEF Goto, Busy
      <3> QED BY <2>1, <3>3, <3>4, <3>5, OthersIsolate DEF Isolated, Dependents
    <2>3. CASE \/ LookupHit(f) \/ LookupFails(f) \/ BeginFails(f) \/ DepRefused(f)
               \/ DepReleased(f) \/ ProducerFails(f) \/ Append(f) \/ AppendFails(f) \/ Commit(f)
               \/ CommitFails(f) \/ SettleBegin(f) \/ Finish(f) \/ AbortFails(f)
      <3>1. PICK pc \in Busy \cup {"done", "dead"} : Goto(f, pc)
        BY <2>3 DEF LookupHit, LookupFails, BeginFails, DepRefused, DepReleased,
            ProducerFails, Append, AppendFails, Commit, CommitFails, SettleBegin, Finish,
            AbortFails, Raise, Goto, Busy
      <3>2. fpc[f] \in Busy \cup {"release"}
        BY <2>3 DEF LookupHit, LookupFails, BeginFails, DepRefused, DepReleased,
            ProducerFails, Append, AppendFails, Commit, CommitFails, SettleBegin, Finish,
            AbortFails, Busy
      <3>3. \/ error' = error
            \/ error' = [error EXCEPT ![f] = "failed"]
            \/ f \in abandoned /\ error' = [error EXCEPT ![f] = "cancelled"]
        <4>1. CASE DepRefused(f)
          <5>1. \/ error' = [error EXCEPT ![f] = "failed"]
                \/ /\ phase = "open" /\ Dep[key[f]] # key[f]
                   /\ error' = [error EXCEPT ![f] = "cancelled"]
            BY <4>1 DEF DepRefused
          <5>2. phase # "open" \/ f \in abandoned \/ Dep[key[f]] = key[f]
            BY <4>1 DEF DepRefused
          <5> QED BY <5>1, <5>2
        <4>2. CASE ~DepRefused(f)
          BY <2>3, <4>2 DEF LookupHit, LookupFails, BeginFails, DepReleased, ProducerFails,
                Append, AppendFails, Commit, CommitFails, SettleBegin, Finish, AbortFails, Raise
        <4> QED BY <4>1, <4>2
      <3>4. \A g \in Consumer : error'[g] = "cancelled" => error[g] = "cancelled" \/ g \in abandoned
        BY <1>1, <3>3
      <3>5. Wanted'
        BY <1>1, <2>1, <3>1, <3>2 DEF Isolated, Wanted, Goto, Busy, Settled
      <3>6. \A g \in Consumer : fpc'[g] = "consume" => g # f /\ fpc[g] = "consume"
        BY <1>1, <3>1 DEF Goto, Busy
      <3> QED BY <2>1, <3>4, <3>5, <3>6, OthersIsolate DEF Isolated, Dependents
    <2> QED BY <1>3, <2>2, <2>3 DEF Produce
  <1> QED BY <1>2, <1>3

\* A reader's own flight is never the cancelled one: it holds an interest.
LEMMA ReaderNotDoomed ==
  ASSUME IInv, Isolated, NEW c \in Consumer, FlightFailed(c), terminal[c] = "none"
  PROVE  error[flightOf[c]] # "cancelled"
  <1>1. c \in registered /\ flightOf[c] \in Consumer
    BY DEF FlightFailed, IInv, Linked, Attached, Reading
  <1>2. c \in interests[flightOf[c]]
    BY <1>1 DEF IInv, SharedWork, InterestsExact
  <1>3. flightOf[c] \notin abandoned
    BY <1>2 DEF IInv, SharedWork, CancelledOnlyUnneeded
  <1> QED BY <1>1, <1>3 DEF Isolated, Doomed

\* The steps of a read.
LEMMA ReadIsolates ==
  ASSUME IInv, Isolated, NEW c \in Consumer, ReadBegin(c) \/ ReadProgress(c)
  PROVE  Isolated'
  <1>1. /\ cpc \in [Consumer -> ConsumerPC]
        /\ terminal \in [Consumer -> {"none", "complete", "cancelled", "error"}]
    BY DEF IInv, TypeOK
  <1>2. cpc[c] \in Attached /\ c \in registered
    BY DEF ReadBegin, ReadProgress, Open, Opened, OpenFails, Read, ReadFails, CancelledEmpty,
           Complete, FlightFailed, Wait, Wake, IInv, Linked, Attached, Reading
  <1>3. UNCHANGED UntouchedByReader
    BY DEF ReadBegin, ReadProgress, Open, Opened, OpenFails, Read, ReadFails, CancelledEmpty,
           Complete, FlightFailed, Wait, Wake, Fail
  <1>4. \A d \in Consumer : cpc'[d] \in Attached => cpc[d] \in Attached
    <2>1. \E pc \in ConsumerPC : cpc' = [cpc EXCEPT ![c] = pc]
      BY DEF ReadBegin, ReadProgress, Open, Opened, OpenFails, Read, ReadFails, CancelledEmpty,
           Complete, FlightFailed, Wait, Wake, Fail, Capture, Leave, Move, ConsumerPC
    <2> QED BY <1>1, <1>2, <2>1
  <1>5. Wanted' /\ abandoned \subseteq abandoned'
    <2>1. CASE OpenFails(c) \/ ReadFails(c) \/ FlightFailed(c) \/ Complete(c)
      <3>1. Release({c}) /\ fpc' = fpc
        BY <2>1 DEF OpenFails, ReadFails, FlightFailed, Complete, Fail
      <3> QED BY <1>2, <3>1, ReleaseWants DEF Isolated
    <2>2. CASE ~(OpenFails(c) \/ ReadFails(c) \/ FlightFailed(c) \/ Complete(c))
      <3>1. UNCHANGED ReadStep
        BY <2>2 DEF ReadBegin, ReadProgress, Open, Opened, Read, CancelledEmpty, Wait, Wake
      <3> QED BY <3>1 DEF Isolated, Wanted
    <2> QED BY <2>1, <2>2
  <1>6. \A d \in Consumer : terminal'[d] = "cancelled" => terminal[d] = "cancelled"
    <2>1. ASSUME NEW t \in {"error", "cancelled"}, Fail(c, t), terminal[c] = "none" => t = "error"
          PROVE  \A d \in Consumer : terminal'[d] = "cancelled" => terminal[d] = "cancelled"
      BY <1>1, <2>1 DEF Fail
    <2>2. CASE OpenFails(c) \/ ReadFails(c)
      BY <2>1, <2>2 DEF OpenFails, ReadFails
    <2>3. CASE FlightFailed(c)
      BY <2>1, <2>3, ReaderNotDoomed DEF FlightFailed
    <2>4. CASE Complete(c)
      BY <1>1, <2>4 DEF Complete
    <2>5. CASE ~(OpenFails(c) \/ ReadFails(c) \/ FlightFailed(c) \/ Complete(c))
      BY <2>5 DEF ReadBegin, ReadProgress, Open, Opened, Read, CancelledEmpty, Wait, Wake
    <2> QED BY <2>2, <2>3, <2>4, <2>5
  <1>7. \A f \in Consumer : fpc[f] = "consume" => dep[f] \in Consumer
    BY DEF IInv, Depending
  <1> QED BY <1>3, <1>4, <1>5, <1>6, <1>7, OthersIsolate DEF Isolated, Dependents

\* The ways in: the loop of _subscribe.
LEMMA SubscriptionIsolates ==
  ASSUME IInv, Isolated, NEW c \in Consumer, NEW k \in Key, NEW o, cpc[c] \in {"unused", "waiting"},
         Attempt(c, k, o), UNCHANGED error,
         \A f \in Consumer : fpc'[f] = Spawned(c, k)[f] \/ (fpc[f] = "run" /\ fpc'[f] = "consume"),
         \A f \in Consumer : fpc'[f] = "consume" =>
             \/ dep'[f] = c /\ o = f
             \/ fpc[f] = "consume" /\ dep'[f] = dep[f] /\ (dep[f] = c => o = f)
  PROVE  Isolated'
  <1>1. /\ fpc \in [Consumer -> FlightPC] /\ cpc \in [Consumer -> ConsumerPC]
        /\ owner \in [Consumer -> Session \cup Consumer \cup {None}]
        /\ interests \in [Consumer -> SUBSET Consumer] /\ table \in [Key -> Consumer \cup {None}]
    BY DEF IInv, TypeOK
  <1>2. abandoned' = abandoned /\ terminal' = terminal
    BY DEF Attempt, Create, Join, AwaitFinished, SubscribeSource, Admit
  <1>3. /\ \E pc \in ConsumerPC : cpc' = [cpc EXCEPT ![c] = pc]
        /\ owner' = [owner EXCEPT ![c] = o]
    BY DEF Attempt, Create, Join, AwaitFinished, SubscribeSource, Admit, ConsumerPC
  <1>4. terminal[c] = "none"
    BY DEF IInv, Linked
  <1>5. interests' = interests \/ \E f \in Consumer \cup {None} : interests' = [interests EXCEPT ![f] = @ \cup {c}]
    BY <1>1 DEF Attempt, Create, Join, AwaitFinished, SubscribeSource, Admit
  <1>6. \A f \in Consumer : interests[f] \subseteq interests'[f]
    BY <1>1, <1>5
  <1>7. k \notin Direct /\ table[k] = None => c \in interests'[c]
    BY <1>1 DEF Attempt, Create, Join, AwaitFinished, SubscribeSource, Admit
  <1>8. Wanted'
    <2> SUFFICES ASSUME NEW f \in Consumer, fpc'[f] \notin Settled
                 PROVE  interests'[f] # {} \/ f \in abandoned
      BY <1>2 DEF Wanted
    <2>1. fpc[f] \notin Settled \/ (f = c /\ k \notin Direct /\ table[k] = None)
      BY <1>1 DEF Spawned, Settled
    <2> QED BY <1>6, <1>7, <2>1 DEF Isolated, Wanted
  <1>9. Doomed'
    BY <1>2 DEF Isolated, Doomed
  <1>10. Dependents'
    BY <1>1, <1>2, <1>3, <1>4 DEF IInv, Depending, Isolated, Dependents
  <1> QED BY <1>8, <1>9, <1>10 DEF Isolated

\* Every step keeps the reads apart.
LEMMA NextIsolates == IInv /\ Isolated /\ [Next]_vars => Isolated'
  <1> SUFFICES ASSUME IInv, Isolated, [Next]_vars PROVE Isolated'
    OBVIOUS
  <1>0. /\ fpc \in [Consumer -> FlightPC] /\ dep \in [Consumer -> Consumer \cup {None}]
        /\ registered \subseteq Consumer
        /\ \A f \in Consumer : fpc[f] = "consume" =>
               /\ dep[f] \in Consumer /\ cpc[dep[f]] # "unused"
               /\ cpc[dep[f]] \in Attached => owner[dep[f]] = f
    BY DEF IInv, TypeOK, Depending, Isolated, Dependents
  <1>1. ASSUME NEW f \in Consumer, Produce(f) PROVE Isolated'
    BY <1>1, ProduceIsolates
  <1>2. ASSUME NEW p \in Consumer, NEW c \in Consumer, DepSubscribe(p, c) PROVE Isolated'
    <2> DEFINE k == Dep[key[p]]
    <2>1. /\ fpc[p] = "run" /\ cpc[c] = "unused" /\ Attempt(c, k, p) /\ UNCHANGED error
          /\ fpc' = [Spawned(c, k) EXCEPT ![p] = "consume"] /\ dep' = [dep EXCEPT ![p] = c]
      BY <1>2 DEF DepSubscribe, Fresh
    <2>2. k \in Key
      BY <2>1 DEF IInv, Producing
    <2>3. \A f \in Consumer : Spawned(c, k)[f] = "consume" => fpc[f] = "consume"
      BY <1>0 DEF Spawned
    <2>4. DOMAIN Spawned(c, k) = Consumer
      BY <1>0 DEF Spawned
    <2> HIDE DEF k
    <2>5. \A f \in Consumer : fpc'[f] = Spawned(c, k)[f] \/ (fpc[f] = "run" /\ fpc'[f] = "consume")
      BY <2>1, <2>4
    <2>6. \A f \in Consumer : fpc'[f] = "consume" =>
             \/ dep'[f] = c /\ p = f
             \/ fpc[f] = "consume" /\ dep'[f] = dep[f] /\ (dep[f] = c => p = f)
      BY <1>0, <2>1, <2>3, <2>4
    <2> QED BY <2>1, <2>2, <2>5, <2>6, SubscriptionIsolates
  <1>3. ASSUME NEW c \in Consumer, Resume(c) PROVE Isolated'
    <2>1. /\ cpc[c] = "waiting" /\ key[c] \in Key /\ Attempt(c, key[c], owner[c])
          /\ fpc' = Spawned(c, key[c]) /\ UNCHANGED <<error, dep>>
      BY <1>3 DEF Resume, IInv, Linked, Attached
    <2>2. \A f \in Consumer : fpc'[f] = "consume" =>
              fpc[f] = "consume" /\ (dep[f] = c => owner[c] = f)
      BY <1>0, <2>1 DEF Spawned, IInv, Depending
    <2> QED BY <2>1, <2>2, SubscriptionIsolates
  <1>4. ASSUME NEW c \in Consumer, NEW a \in Asks[c], Subscribe(c, a[2], a[1]) PROVE Isolated'
    <2>1. /\ cpc[c] = "unused" /\ a[2] \in Key /\ Attempt(c, a[2], a[1])
          /\ fpc' = Spawned(c, a[2]) /\ UNCHANGED <<error, dep>>
      BY <1>4, RuntimeAssumption DEF Subscribe, Fresh
    <2>2. \A f \in Consumer : fpc'[f] = "consume" =>
              fpc[f] = "consume" /\ dep[f] # c
      BY <1>0, <2>1 DEF Spawned
    <2> QED BY <2>1, <2>2, SubscriptionIsolates
  <1>5. ASSUME NEW c \in Consumer, Refuse(c) PROVE Isolated'
    <2>1. /\ UNCHANGED <<interests, abandoned, owner, terminal>>
          /\ cpc[c] = "waiting" /\ cpc' = [cpc EXCEPT ![c] = "gone"]
      BY <1>5 DEF Refuse
    <2>2. CASE owner[c] \in Consumer
      <3> DEFINE p == owner[c]
      <3>1. fpc[p] = "consume" /\ dep[p] = c
        BY <2>1, <2>2 DEF IInv, Depending
      <3>2. /\ fpc' = [fpc EXCEPT ![p] = "settle"] /\ dep' = [dep EXCEPT ![p] = None]
            /\ error' = [error EXCEPT ![p] = IF p \in abandoned THEN "cancelled" ELSE "failed"]
        BY <1>5, <2>2 DEF Refuse
      <3>3. Wanted'
        BY <1>0, <2>1, <2>2, <3>1, <3>2 DEF Isolated, Wanted, Settled
      <3>4. \A f \in Consumer : error'[f] = "cancelled" => error[f] = "cancelled" \/ f \in abandoned
        BY <2>2, <3>2 DEF IInv, TypeOK
      <3>5. \A f \in Consumer : fpc'[f] = "consume" =>
                fpc[f] = "consume" /\ dep'[f] = dep[f]
        BY <1>0, <2>2, <3>2
      <3>6. \A d \in Consumer : cpc'[d] \in Attached => cpc[d] \in Attached
        BY <2>1 DEF IInv, TypeOK, Attached, Reading
      <3> QED BY <1>0, <2>1, <3>3, <3>4, <3>5, <3>6, OthersIsolate
    <2>3. CASE owner[c] \notin Consumer
      <3>1. UNCHANGED <<fpc, error, dep>>
        BY <1>5, <2>3 DEF Refuse
      <3>2. \A d \in Consumer : cpc'[d] \in Attached => cpc[d] \in Attached
        BY <2>1 DEF IInv, TypeOK, Attached, Reading
      <3>3. Wanted'
        BY <2>1, <3>1 DEF Isolated, Wanted
      <3> QED BY <1>0, <2>1, <3>1, <3>2, <3>3, OthersIsolate
    <2> QED BY <2>2, <2>3
  <1>6. ASSUME NEW c \in Consumer, ReadBegin(c) \/ ReadProgress(c) PROVE Isolated'
    BY <1>6, ReadIsolates
  <1>7. ASSUME NEW c \in Consumer, WatchParent(c) PROVE Isolated'
    <2>1. /\ Cancel({c}) /\ UNCHANGED <<fpc, cpc, owner, dep, error>> /\ c \in registered
          /\ owner[c] \in abandoned
      BY <1>7 DEF WatchParent, ParentCancelled
    <2>2. \A f \in Consumer : fpc[f] = "consume" /\ dep[f] = c => f \in abandoned
      BY <1>0, <2>1 DEF IInv, Linked
    <2>3. abandoned \subseteq abandoned' /\ Live({c}) \subseteq {c}
      BY <2>1 DEF Cancel, Release, Live
    <2> QED BY <2>1, <2>2, <2>3, CancelIsolates
  <1>8. ASSUME NEW C \in SUBSET registered, \A c \in C : owner[c] \in Session, Cancel(C),
               UNCHANGED <<fpc, cpc, owner, dep, error>>
        PROVE  Isolated'
    <2>1. \A f \in Consumer : fpc[f] = "consume" => dep[f] \notin C
      BY <1>0, <1>8, RuntimeAssumption DEF IInv, Linked
    <2>2. Live(C) \subseteq C
      BY DEF Live
    <2> QED BY <1>0, <1>8, <2>1, <2>2, CancelIsolates
  <1>9. ASSUME NEW c \in Consumer, Aclose(c) PROVE Isolated'
    BY <1>8, <1>9 DEF Aclose
  <1>10. ASSUME NEW s \in Session, CancelSession(s) PROVE Isolated'
    BY <1>8, <1>10 DEF CancelSession, OfSession
  <1>11. CASE CloseRuntime
    <2>1. Cancel(registered) /\ UNCHANGED <<fpc, cpc, owner, dep, error>>
      BY <1>11 DEF CloseRuntime
    <2>2. Live(registered) \subseteq registered
      BY DEF Live
    <2>3. Release(Live(registered))
      BY <2>1 DEF Cancel
    <2>4. Wanted'
      BY <2>1, <2>2, <2>3, ReleaseWants DEF Isolated
    <2>5. \A f \in Consumer : interests'[f] = {}
      BY <1>0, <2>3 DEF Release, Live, IInv, TypeOK, SharedWork, InterestsExact
    <2>6. \A f \in Consumer : fpc[f] = "consume" => f \in abandoned'
      BY <2>1, <2>4, <2>5 DEF Wanted, Settled
    <2> QED BY <1>0, <2>1, <2>2, <2>6, CancelIsolates
  <1>12. ASSUME NEW c \in Consumer, Dispose(c) PROVE Isolated'
    <2>1. /\ UNCHANGED <<fpc, error, dep, terminal>> /\ Release({c})
          /\ cpc' = [cpc EXCEPT ![c] = "gone"] /\ owner' = [owner EXCEPT ![c] = None]
          /\ c \in registered
      BY <1>12 DEF Dispose, Move, IInv, Linked
    <2>2. Wanted' /\ abandoned \subseteq abandoned'
      BY <2>1, ReleaseWants DEF Isolated
    <2>3. \A d \in Consumer : cpc'[d] \in Attached => cpc[d] \in Attached /\ owner'[d] = owner[d]
      BY <2>1 DEF IInv, TypeOK, Attached, Reading
    <2> QED BY <1>0, <2>1, <2>2, <2>3, OthersIsolate
  <1>13. CASE RuntimeClosed \/ (\E k \in Key : Evict(k)) \/ UNCHANGED vars
    <2>1. UNCHANGED <<flightVars, sharedVars, cpc, identityVars, ownVars>>
      BY <1>13 DEF RuntimeClosed, Evict
    <2> QED BY <2>1 DEF Isolated, Wanted, Doomed, Dependents
  <1> QED BY <1>1, <1>2, <1>3, <1>4, <1>5, <1>6, <1>7, <1>9, <1>10, <1>11, <1>12, <1>13
          DEF Next, Internal, External

\* A flight that ended by cancellation has nobody left who could mistake it for the end
\* of a read: _release cancels at the last interest, and every way to raise
\* OperationCancelled in a producer goes through the cancellation of its own flight.
THEOREM CancellationIsIndependent == Spec => []IndependentCancellation
  <1>1. Init => Isolated
    BY DEF Init, Isolated, Wanted, Doomed, Dependents, Settled
  <1>2. IInv /\ Isolated => IndependentCancellation
    BY DEF Isolated, Doomed, IInv, SharedWork, CancelledOnlyUnneeded, IndependentCancellation
  <1> QED BY <1>1, <1>2, NextIsolates, Invariance, PTL DEF Spec

-----------------------------------------------------------------------------
(***************************************************************************)
(* Part 4.  What consumers are handed and what is left behind:             *)
(* CompleteDelivery and FilesReleased.                                     *)
(*                                                                         *)
(* A consumer is told "complete" from the finished flag that its read took *)
(* before it asked for bytes.  That it has every byte then rests on two    *)
(* facts: a flight that finishes without an error has a complete artifact  *)
(* (Produced), and a read with that flag finds nothing only at its end     *)
(* (Handed).                                                               *)
(***************************************************************************)

\* What the place of the producer of f says of its writer and of the artifact.
Made(f) ==
    /\ fpc[f] \in {"unused", "start", "lookup", "begin", "direct"} => writer[f] = "none"
    /\ f \in committed => /\ fpc[f] \in {"settle", "abort", "done", "dead"}
                          /\ writer[f] # "none" => avail[f] = Chunks
    /\ fpc[f] = "commit" => avail[f] = Chunks
    /\ fpc[f] \in {"settle", "abort", "done"} /\ error[f] = "none" => f \in committed
    /\ fpc[f] = "abort" => writer[f] # "none"
    /\ fpc[f] \in {"done", "dead"} => writer[f] # "open"

Produced == \A f \in Consumer : Made(f)

\* What the place of a read says of its handle, its flag and its bytes.
Handed ==
    \A c \in Consumer :
        /\ reader[c] # "none" => c \in registered
        /\ c \in sawFinished => cpc[c] \in Reading /\ flightOf[c] \in finished
        /\ cpc[c] = "read" => reader[c] # "none"
        /\ reader[c] = "temp" => writer[flightOf[c]] # "none"
        /\ cpc[c] = "empty" /\ c \in sawFinished /\ error[flightOf[c]] = "none" => pos[c] = Chunks
        /\ c \in registered /\ terminal[c] = "complete" => pos[c] = Chunks

\* Once the runtime refuses subscriptions, the consumers left are those it awaits.
Leaving ==
    /\ phase = "closing" => registered \subseteq draining
    /\ phase = "closed" => /\ registered = {}
                           /\ \A f \in Consumer : fpc[f] \in {"unused", "direct", "done", "dead"}

DInv == Produced /\ Handed /\ Leaving

-----------------------------------------------------------------------------

\* A step of the producers as readers see it: what is there stays there.
Onward ==
    /\ finished \subseteq finished'
    /\ \A f \in Consumer : writer[f] # "none" => writer'[f] # "none"
    /\ \A f \in finished : error'[f] = error[f]

\* A step that leaves the reads where they are.
LEMMA OthersHanded ==
  ASSUME IInv, Handed, Onward, UNCHANGED <<readVars, cpc, flightOf, registered>>,
         \A c \in Consumer : terminal'[c] = "complete" => terminal[c] = "complete"
  PROVE  Handed'
  <1>1. \A c \in registered : flightOf[c] \in Consumer
    BY DEF IInv, TypeOK, Linked
  <1> QED BY <1>1 DEF Handed, Onward, IInv, TypeOK

\* Consumer.cancel completes nobody.
LEMMA CancelCompletesNone ==
  ASSUME IInv, NEW C, Cancel(C)
  PROVE  /\ \A c \in Consumer : terminal'[c] = "complete" => terminal[c] = "complete"
         /\ finished' = finished
  BY DEF Cancel, Release, IInv, TypeOK

-----------------------------------------------------------------------------
(* The producer.                                                           *)

\* A step of one producer keeps Produced if it does so for its own flight.
SameFlight(g) ==
    /\ fpc'[g] = fpc[g] /\ writer'[g] = writer[g] /\ avail'[g] = avail[g]
    /\ error'[g] = error[g] /\ (g \in committed' <=> g \in committed)

LEMMA OneProduces ==
  ASSUME Produced, NEW f \in Consumer, Made(f)', \A g \in Consumer \ {f} : SameFlight(g)
  PROVE  Produced'
  <1>1. ASSUME NEW g \in Consumer \ {f} PROVE Made(g)'
    BY <1>1 DEF Produced, Made, SameFlight
  <1> QED BY <1>1 DEF Produced

\* The steps of a producer task.
LEMMA ProduceProduces ==
  ASSUME IInv, Produced, NEW f \in Consumer, Produce(f)
  PROVE  Produced' /\ Onward
  <1>1. /\ fpc \in [Consumer -> FlightPC] /\ error \in [Consumer -> {"none", "cancelled", "failed"}]
        /\ writer \in [Consumer -> {"none", "open", "complete", "aborted"}]
        /\ avail \in [Consumer -> 0..Chunks]
        /\ finished \subseteq Consumer /\ (f \in finished <=> fpc[f] \in {"done", "direct"})
    BY DEF IInv, TypeOK, Producing
  <1>2. Made(f)
    BY DEF Produced
  <1>3. CASE Start(f) \/ LookupMiss(f) \/ Begin(f)
    <2>1. Made(f)'
      BY <1>1, <1>2, <1>3 DEF Made, Start, LookupMiss, Begin, CheckThen, Raise, Goto
    <2>2. \A g \in Consumer \ {f} : SameFlight(g)
      BY <1>1, <1>3 DEF SameFlight, Start, LookupMiss, Begin, CheckThen, Raise, Goto
    <2>3. Onward
      BY <1>1, <1>3 DEF Start, LookupMiss, Begin, CheckThen, Raise, Goto, Onward
    <2> QED BY <2>1, <2>2, <2>3, OneProduces
  <1>4. CASE Emit(f) \/ Appended(f) \/ CommitBegin(f)
    <2>1. Made(f)'
      BY <1>1, <1>2, <1>4 DEF Made, Emit, Appended, CommitBegin, CheckThen, Raise, Goto
    <2>2. \A g \in Consumer \ {f} : SameFlight(g)
      BY <1>1, <1>4 DEF SameFlight, Emit, Appended, CommitBegin, CheckThen, Raise, Goto
    <2>3. Onward
      BY <1>1, <1>4 DEF Emit, Appended, CommitBegin, CheckThen, Raise, Goto, Onward
    <2> QED BY <2>1, <2>2, <2>3, OneProduces
  <1>5. CASE LookupHit(f) \/ LookupFails(f) \/ BeginFails(f) \/ ProducerFails(f)
    <2>1. Made(f)'
      BY <1>1, <1>2, <1>5 DEF Made, LookupHit, LookupFails, BeginFails, ProducerFails, Raise, Goto
    <2>2. \A g \in Consumer \ {f} : SameFlight(g)
      BY <1>1, <1>5 DEF SameFlight, LookupHit, LookupFails, BeginFails, ProducerFails, Raise, Goto
    <2>3. Onward
      BY <1>1, <1>5 DEF LookupHit, LookupFails, BeginFails, ProducerFails, Raise, Goto, Onward
    <2> QED BY <2>1, <2>2, <2>3, OneProduces
  <1>6. CASE Append(f) \/ AppendFails(f) \/ Commit(f) \/ CommitFails(f)
    <2>1. Made(f)'
      BY <1>1, <1>2, <1>6 DEF Made, Append, AppendFails, Commit, CommitFails, Raise, Goto
    <2>2. \A g \in Consumer \ {f} : SameFlight(g)
      BY <1>1, <1>6 DEF SameFlight, Append, AppendFails, Commit, CommitFails, Raise, Goto
    <2>3. Onward
      BY <1>1, <1>6 DEF Append, AppendFails, Commit, CommitFails, Raise, Goto, Onward
    <2> QED BY <2>1, <2>2, <2>3, OneProduces
  <1>7. CASE DepRefused(f) \/ DepReleased(f)
    <2>1. Made(f)'
      BY <1>1, <1>2, <1>7 DEF Made, DepRefused, DepReleased, Goto
    <2>2. \A g \in Consumer \ {f} : SameFlight(g)
      BY <1>1, <1>7 DEF SameFlight, DepRefused, DepReleased, Goto
    <2>3. Onward
      BY <1>1, <1>7 DEF DepRefused, DepReleased, Goto, Onward
    <2> QED BY <2>1, <2>2, <2>3, OneProduces
  <1>8. CASE DepExit(f)
    <2>1. Made(f)'
      BY <1>1, <1>2, <1>8 DEF Made, DepExit, Goto
    <2>2. \A g \in Consumer \ {f} : SameFlight(g)
      BY <1>1, <1>8 DEF SameFlight, DepExit, Goto
    <2>3. Onward
      BY <1>1, <1>8, CancelCompletesNone DEF DepExit, Goto, Onward
    <2> QED BY <2>1, <2>2, <2>3, OneProduces
  <1>9. CASE SettleBegin(f) \/ Finish(f) \/ AbortFails(f)
    <2>1. Made(f)'
      BY <1>1, <1>2, <1>9 DEF Made, SettleBegin, Finish, AbortFails, Discarded, Signalled, Goto
    <2>2. \A g \in Consumer \ {f} : SameFlight(g)
      BY <1>1, <1>9 DEF SameFlight, SettleBegin, Finish, AbortFails, Discarded, Signalled, Goto
    <2>3. Onward
      <3>1. CASE SettleBegin(f) \/ AbortFails(f)
        BY <1>1, <3>1 DEF SettleBegin, AbortFails, Onward
      <3>2. CASE Finish(f)
        <4>1. /\ writer' = [writer EXCEPT ![f] = IF @ = "open" THEN "aborted" ELSE @]
              /\ finished' = finished \cup {f} /\ error' = error
          BY <3>2 DEF Finish, Discarded, Signalled
        <4> QED BY <1>1, <4>1 DEF Onward
      <3> QED BY <1>9, <3>1, <3>2
    <2> QED BY <2>1, <2>2, <2>3, OneProduces
  <1> QED BY <1>3, <1>4, <1>5, <1>6, <1>7, <1>8, <1>9 DEF Produce

\* A producer leaves the reads where they are.
LEMMA ProduceHands ==
  ASSUME IInv, Produced, Handed, NEW f \in Consumer, Produce(f)
  PROVE  Handed'
  <1>1. Onward
    BY ProduceProduces
  <1>2. CASE DepExit(f)
    <2>1. UNCHANGED <<readVars, cpc, flightOf, registered>> /\ Cancel({dep[f]})
      BY <1>2 DEF DepExit
    <2> QED BY <1>1, <2>1, CancelCompletesNone, OthersHanded
  <1>3. CASE ~DepExit(f)
    <2>1. UNCHANGED <<readVars, cpc, flightOf, registered, terminal>>
      BY <1>3 DEF Produce, Start, LookupHit, LookupMiss, LookupFails, Begin, BeginFails,
            DepRefused, DepReleased, Emit, ProducerFails, Append, AppendFails, Appended,
            CommitBegin, Commit, CommitFails, SettleBegin, Finish, AbortFails
    <2> QED BY <1>1, <2>1, OthersHanded
  <1> QED BY <1>2, <1>3

-----------------------------------------------------------------------------
(* The consumers.                                                          *)

\* The ways in: a consumer that had no read gets a flight.
LEMMA SubscriptionDelivers ==
  ASSUME IInv, Produced, Handed, NEW c \in Consumer, NEW k \in Key, NEW o,
         cpc[c] \in {"unused", "waiting"}, Attempt(c, k, o), UNCHANGED error,
         \A f \in Consumer : fpc'[f] = Spawned(c, k)[f] \/ (fpc[f] = "run" /\ fpc'[f] = "consume")
  PROVE  Produced' /\ Handed'
  <1>1. /\ fpc \in [Consumer -> FlightPC] /\ cpc \in [Consumer -> ConsumerPC]
        /\ flightOf \in [Consumer -> Consumer \cup {None}]
        /\ registered \subseteq Consumer
    BY DEF IInv, TypeOK
  <1>2. fpc[c] = "unused" /\ terminal[c] = "none" /\ c \notin registered
    BY DEF IInv, Linked, Attached, Reading
  <1>3. reader[c] = "none" /\ c \notin sawFinished
    BY <1>2 DEF Handed, Reading
  <1>4. UNCHANGED <<committed, writer, avail, terminal, readVars>> /\ finished \subseteq finished'
    BY DEF Attempt, Create, Join, AwaitFinished, SubscribeSource, Admit
  <1>5. /\ \E pc \in {"idle", "waiting"} : cpc' = [cpc EXCEPT ![c] = pc]
        /\ \E f \in Consumer \cup {None} : flightOf' = [flightOf EXCEPT ![c] = f]
        /\ registered' = registered \/ registered' = registered \cup {c}
    BY DEF Attempt, Create, Join, AwaitFinished, SubscribeSource, Admit, IInv, TypeOK
  <1>6. Produced'
    <2> SUFFICES ASSUME NEW f \in Consumer PROVE Made(f)'
      BY DEF Produced
    <2>1. \/ fpc'[f] = fpc[f]
          \/ fpc[f] = "unused" /\ fpc'[f] \in {"start", "direct"}
          \/ fpc[f] = "run" /\ fpc'[f] = "consume"
      BY <1>1, <1>2 DEF Spawned
    <2>2. Made(f)
      BY DEF Produced
    <2> QED BY <1>4, <2>1, <2>2 DEF Made
  <1>7. \A d \in registered : flightOf[d] \in Consumer
    BY <1>1 DEF IInv, Linked
  <1>8. Handed'
    BY <1>1, <1>2, <1>3, <1>4, <1>5, <1>7 DEF Handed, Reading
  <1> QED BY <1>6, <1>8

\* A flight that has finished without an error has an artifact.
LEMMA FinishedIsCommitted ==
  ASSUME IInv, Produced, NEW f \in finished, error[f] = "none"
  PROVE  fpc[f] = "direct" \/ f \in committed
  BY DEF IInv, TypeOK, Producing, Produced, Made

\* The steps of a read.
LEMMA ReadHands ==
  ASSUME IInv, Undecided, Produced, Handed, NEW c \in Consumer, ReadBegin(c) \/ ReadProgress(c)
  PROVE  Handed'
  <1>1. /\ cpc \in [Consumer -> ConsumerPC] /\ pos \in [Consumer -> 0..Chunks]
        /\ terminal \in [Consumer -> {"none", "complete", "cancelled", "error"}]
        /\ reader \in [Consumer -> {"none", "temp", "store", "source"}]
        /\ avail \in [Consumer -> 0..Chunks] /\ Chunks \in Nat \ {0}
    BY RuntimeAssumption DEF IInv, TypeOK
  <1>2. c \in registered /\ flightOf[c] \in Consumer
    BY DEF ReadBegin, ReadProgress, Open, Opened, OpenFails, Read, ReadFails, CancelledEmpty,
           Complete, FlightFailed, Wait, Wake, IInv, Linked, Attached, Reading
  <1>3. UNCHANGED UntouchedByReader /\ finished' = finished
    BY DEF ReadBegin, ReadProgress, Open, Opened, OpenFails, Read, ReadFails, CancelledEmpty,
           Complete, FlightFailed, Wait, Wake, Fail, Release
  \* What has to be said of c, the only one that moves.
  <1> DEFINE Held(d) ==
               /\ reader[d] # "none" => d \in registered
               /\ d \in sawFinished => cpc[d] \in Reading /\ flightOf[d] \in finished
               /\ cpc[d] = "read" => reader[d] # "none"
               /\ reader[d] = "temp" => writer[flightOf[d]] # "none"
               /\ cpc[d] = "empty" /\ d \in sawFinished /\ error[flightOf[d]] = "none" => pos[d] = Chunks
               /\ d \in registered /\ terminal[d] = "complete" => pos[d] = Chunks
  <1>4. Held(c)
    BY DEF Handed
  <1>5. SUFFICES /\ Held(c)'
                 /\ \A d \in Consumer \ {c} :
                        /\ cpc'[d] = cpc[d] /\ reader'[d] = reader[d] /\ pos'[d] = pos[d]
                        /\ terminal'[d] = terminal[d] /\ (d \in sawFinished' <=> d \in sawFinished)
    <2>1. ASSUME NEW d \in Consumer \ {c} PROVE Held(d)'
      BY <1>3, <1>5, <2>1 DEF Handed
    <2>2. \A d \in Consumer : Held(d)'
      BY <1>5, <2>1
    <2> QED BY <2>2 DEF Handed
  <1> USE DEF Reading
  <1>6. CASE ReadBegin(c) \/ Wake(c)
    <2>1. Capture(c) /\ UNCHANGED ReadStep /\ cpc[c] \in {"idle", "wait"}
      BY <1>6 DEF ReadBegin, Wake
    <2>2. CASE terminal[c] = "cancelled"
      BY <1>1, <1>2, <1>3, <1>4, <2>1, <2>2 DEF Capture, Leave, Move
    <2>3. CASE terminal[c] # "cancelled"
      BY <1>1, <1>2, <1>3, <1>4, <2>1, <2>3 DEF Capture, Move
    <2> QED BY <2>2, <2>3
  <1>7. CASE Open(c)
    <2>1. UNCHANGED ReadStep /\ cpc[c] = "open"
      BY <1>7 DEF Open
    <2>2. CASE Leave(c, {})
      BY <1>1, <1>2, <1>3, <1>4, <2>1, <2>2 DEF Leave, Move
    <2>3. CASE Move(c, "opening") /\ UNCHANGED readVars
      BY <1>1, <1>2, <1>3, <1>4, <2>1, <2>3 DEF Move
    <2>4. CASE ~Leave(c, {}) /\ ~Move(c, "opening")
      <3>1. /\ Move(c, "empty") /\ UNCHANGED readVars
            /\ fpc[flightOf[c]] # "direct" /\ flightOf[c] \notin committed
        BY <1>7, <2>4 DEF Open
      <3>2. ~(c \in sawFinished /\ error[flightOf[c]] = "none")
        BY <1>4, <3>1, FinishedIsCommitted
      <3> QED BY <1>1, <1>2, <1>3, <1>4, <2>1, <3>1, <3>2 DEF Move
    <2> QED BY <1>7, <2>2, <2>3, <2>4 DEF Open
  <1>8. CASE Opened(c)
    <2> DEFINE f == flightOf[c]
    <2>1. PICK r \in Openable(c) : reader' = [reader EXCEPT ![c] = r]
      BY <1>8 DEF Opened
    <2>2. r \in {"source", "store", "temp"} /\ (r = "temp" => writer[f] = "open")
      BY <2>1 DEF Openable
    <2>3. /\ cpc[c] = "opening" /\ cpc' = [cpc EXCEPT ![c] = "read"]
          /\ UNCHANGED <<pos, sawFinished, ReadStep>>
      BY <1>8 DEF Opened, Move
    <2> QED BY <1>1, <1>2, <1>3, <1>4, <2>1, <2>2, <2>3
  <1>9. CASE Read(c)
    <2>1. UNCHANGED ReadStep /\ cpc[c] = "read" /\ reader[c] # "none"
      BY <1>4, <1>9 DEF Read
    <2>2. CASE Leave(c, {})
      BY <1>1, <1>2, <1>3, <1>4, <2>1, <2>2 DEF Leave, Move
    <2>3. CASE Readable(c) = 0 /\ Move(c, "empty") /\ UNCHANGED readVars
      <3>1. ASSUME c \in sawFinished, error[flightOf[c]] = "none" PROVE pos[c] = Chunks
        <4>1. CASE reader[c] = "temp"
          <5>1. writer[flightOf[c]] # "none" /\ flightOf[c] \in finished
            BY <1>4, <3>1, <4>1
          <5>2. flightOf[c] \in committed
            BY <1>2, <3>1, <5>1, FinishedIsCommitted DEF Produced, Made
          <5>3. avail[flightOf[c]] = Chunks
            BY <1>2, <5>1, <5>2 DEF Produced, Made
          <5> QED BY <1>1, <1>2, <2>3, <4>1, <5>3 DEF Readable
        <4>2. CASE reader[c] # "temp"
          BY <1>1, <2>3, <4>2 DEF Readable
        <4> QED BY <4>1, <4>2
      <3> QED BY <1>1, <1>2, <1>3, <1>4, <2>1, <2>3, <3>1 DEF Move
    <2>4. CASE ~Leave(c, {}) /\ ~(Readable(c) = 0 /\ Move(c, "empty") /\ UNCHANGED readVars)
      <3>1. /\ terminal[c] # "cancelled" /\ cpc' = [cpc EXCEPT ![c] = "idle"]
            /\ \E p : pos' = [pos EXCEPT ![c] = p]
            /\ sawFinished' = sawFinished \ {c} /\ UNCHANGED reader
        BY <1>9, <2>4 DEF Read, Move
      <3>2. terminal[c] = "none"
        BY <2>1, <3>1 DEF Undecided
      <3> QED BY <1>1, <1>2, <1>3, <1>4, <2>1, <3>1, <3>2
    <2> QED BY <2>2, <2>3, <2>4
  <1>10. CASE OpenFails(c) \/ ReadFails(c) \/ FlightFailed(c)
    <2>1. PICK t \in {"cancelled", "error"} : Fail(c, t)
      BY <1>10 DEF OpenFails, ReadFails, FlightFailed
    <2> QED BY <1>1, <1>2, <1>3, <1>4, <2>1 DEF Fail, Leave, Move
  <1>11. CASE CancelledEmpty(c)
    BY <1>1, <1>2, <1>3, <1>4, <1>11 DEF CancelledEmpty, Leave, Move
  <1>12. CASE Complete(c)
    <2>1. pos[c] = Chunks
      BY <1>4, <1>12 DEF Complete, AtEnd
    <2> QED BY <1>1, <1>2, <1>3, <1>4, <1>12, <2>1 DEF Complete, Leave, Move
  <1>13. CASE Wait(c)
    BY <1>1, <1>2, <1>3, <1>4, <1>13 DEF Wait, Move
  <1> QED BY <1>6, <1>7, <1>8, <1>9, <1>10, <1>11, <1>12, <1>13 DEF ReadProgress

\* A step that neither registers a consumer nor starts a producer while the runtime closes.
LEMMA OthersLeave ==
  ASSUME Leaving, UNCHANGED draining, registered' \subseteq registered,
         phase' \in {phase, "failed"},
         phase = "closed" => fpc' = fpc
  PROVE  Leaving'
  BY DEF Leaving

\* Every step.
LEMMA NextDelivers == IInv /\ Undecided /\ DInv /\ [Next]_vars => DInv'
  <1> SUFFICES ASSUME IInv, Undecided, DInv, [Next]_vars PROVE DInv'
    OBVIOUS
  <1>0. /\ Produced /\ Handed /\ Leaving
        /\ fpc \in [Consumer -> FlightPC] /\ registered \subseteq Consumer
        /\ phase \in {"open", "closing", "closed", "failed"}
    BY DEF DInv, IInv, TypeOK
  <1>1. ASSUME NEW f \in Consumer, Produce(f) PROVE DInv'
    <2>1. Produced' /\ Handed'
      BY <1>0, <1>1, ProduceProduces, ProduceHands
    <2>2. /\ UNCHANGED <<draining, registered>> /\ phase' \in {phase, "failed"}
          /\ fpc[f] \notin {"unused", "direct", "done", "dead"}
      BY <1>1 DEF Produce, Start, LookupHit, LookupMiss, LookupFails, Begin, BeginFails,
            DepRefused, DepExit, DepReleased, Emit, ProducerFails, Append, AppendFails, Appended,
            CommitBegin, Commit, CommitFails, SettleBegin, Finish, AbortFails
    <2>3. Leaving'
      BY <1>0, <2>2, OthersLeave DEF Leaving
    <2> QED BY <2>1, <2>3 DEF DInv
  <1>2. ASSUME NEW c \in Consumer, NEW k \in Key, NEW o, cpc[c] \in {"unused", "waiting"},
               Attempt(c, k, o), UNCHANGED error, phase = "open",
               \A f \in Consumer :
                   fpc'[f] = Spawned(c, k)[f] \/ (fpc[f] = "run" /\ fpc'[f] = "consume")
        PROVE  DInv'
    <2>1. Produced' /\ Handed'
      BY <1>0, <1>2, SubscriptionDelivers
    <2>2. phase' = phase
      BY <1>2 DEF Attempt, Create, Join, AwaitFinished, SubscribeSource, Admit
    <2> QED BY <1>2, <2>1, <2>2 DEF DInv, Leaving
  <1>3. ASSUME NEW p \in Consumer, NEW c \in Consumer, DepSubscribe(p, c) PROVE DInv'
    <2> DEFINE k == Dep[key[p]]
    <2>1. /\ fpc[p] = "run" /\ cpc[c] = "unused" /\ Attempt(c, k, p) /\ UNCHANGED error
          /\ fpc' = [Spawned(c, k) EXCEPT ![p] = "consume"] /\ phase = "open"
      BY <1>3 DEF DepSubscribe, Fresh
    <2>2. k \in Key
      BY <2>1 DEF IInv, Producing
    <2>3. DOMAIN Spawned(c, k) = Consumer
      BY <1>0 DEF Spawned
    <2> HIDE DEF k
    <2>4. \A f \in Consumer : fpc'[f] = Spawned(c, k)[f] \/ (fpc[f] = "run" /\ fpc'[f] = "consume")
      BY <2>1, <2>3
    <2> QED BY <1>2, <2>1, <2>2, <2>4
  <1>4. ASSUME NEW c \in Consumer, Resume(c) PROVE DInv'
    <2>1. /\ cpc[c] = "waiting" /\ key[c] \in Key /\ Attempt(c, key[c], owner[c])
          /\ fpc' = Spawned(c, key[c]) /\ UNCHANGED error /\ phase = "open"
      BY <1>4 DEF Resume, IInv, Linked, Attached
    <2> QED BY <1>2, <2>1
  <1>5. ASSUME NEW c \in Consumer, NEW a \in Asks[c], Subscribe(c, a[2], a[1]) PROVE DInv'
    <2>1. /\ cpc[c] = "unused" /\ a[2] \in Key /\ Attempt(c, a[2], a[1])
          /\ fpc' = Spawned(c, a[2]) /\ UNCHANGED error /\ phase = "open"
      BY <1>5, RuntimeAssumption DEF Subscribe, Fresh
    <2> QED BY <1>2, <2>1
  <1>6. ASSUME NEW c \in Consumer, Refuse(c) PROVE DInv'
    <2>1. /\ UNCHANGED <<committed, writer, avail, sharedVars, readVars, identityVars, ownVars, runtimeVars>>
          /\ cpc[c] = "waiting" /\ cpc' = [cpc EXCEPT ![c] = "gone"]
      BY <1>6 DEF Refuse
    <2>2. ASSUME NEW p \in Consumer, owner[c] = p PROVE DInv'
      <3>1. fpc[p] = "consume" /\ p \notin finished
        BY <2>1, <2>2 DEF IInv, Depending, Producing
      <3>2. fpc' = [fpc EXCEPT ![p] = "settle"] /\ \E e \in {"cancelled", "failed"} : error' = [error EXCEPT ![p] = e]
        BY <1>6, <2>2 DEF Refuse
      <3>3. Made(p)'
        <4>1. Made(p) /\ error \in [Consumer -> {"none", "cancelled", "failed"}]
          BY <1>0 DEF Produced, IInv, TypeOK
        <4> QED BY <1>0, <2>1, <3>1, <3>2, <4>1 DEF Made
      <3>4. \A g \in Consumer \ {p} : SameFlight(g)
        BY <2>1, <3>2 DEF SameFlight, IInv, TypeOK
      <3>5. Produced'
        BY <1>0, <3>3, <3>4, OneProduces
      <3>6. Handed'
        BY <1>0, <2>1, <3>1, <3>2 DEF Handed, Reading, IInv, TypeOK, Linked, Attached
      <3>7. Leaving'
        BY <1>0, <2>1, <3>1, <3>3, OthersLeave DEF Leaving
      <3> QED BY <3>5, <3>6, <3>7 DEF DInv
    <2>3. CASE owner[c] \notin Consumer
      <3>1. UNCHANGED <<fpc, error>>
        BY <1>6, <2>3 DEF Refuse
      <3>2. Produced' /\ Leaving'
        BY <1>0, <2>1, <3>1 DEF Produced, Made, Leaving
      <3>3. Handed'
        BY <1>0, <2>1, <3>1 DEF Handed, Reading, IInv, TypeOK
      <3> QED BY <3>2, <3>3 DEF DInv
    <2> QED BY <2>2, <2>3
  <1>7. ASSUME NEW c \in Consumer, ReadBegin(c) \/ ReadProgress(c) PROVE DInv'
    <2>1. UNCHANGED UntouchedByReader
      BY <1>7 DEF ReadBegin, ReadProgress, Open, Opened, OpenFails, Read, ReadFails, CancelledEmpty,
           Complete, FlightFailed, Wait, Wake, Fail
    <2>2. Produced' /\ Leaving'
      BY <1>0, <2>1 DEF Produced, Made, Leaving
    <2> QED BY <1>0, <1>7, <2>2, ReadHands DEF DInv
  <1>8. ASSUME NEW C, Cancel(C), UNCHANGED CancelFrame, UNCHANGED runtimeVars PROVE DInv'
    <2>1. Onward
      BY <1>8, CancelCompletesNone DEF Onward
    <2>2. Handed'
      BY <1>0, <1>8, <2>1, CancelCompletesNone, OthersHanded
    <2>3. Produced' /\ Leaving'
      BY <1>0, <1>8 DEF Produced, Made, Leaving
    <2> QED BY <2>2, <2>3 DEF DInv
  <1>9. ASSUME NEW c \in Consumer, WatchParent(c) \/ Aclose(c) PROVE DInv'
    BY <1>8, <1>9 DEF WatchParent, Aclose
  <1>10. ASSUME NEW s \in Session, CancelSession(s) PROVE DInv'
    BY <1>8, <1>10 DEF CancelSession
  <1>11. CASE CloseRuntime
    <2>1. Cancel(registered) /\ UNCHANGED CancelFrame /\ draining' = registered /\ phase' = "closing"
      BY <1>11 DEF CloseRuntime
    <2>2. Onward
      BY <2>1, CancelCompletesNone DEF Onward
    <2>3. Handed'
      BY <1>0, <2>1, <2>2, CancelCompletesNone, OthersHanded
    <2>4. Produced' /\ Leaving'
      BY <1>0, <2>1 DEF Produced, Made, Leaving
    <2> QED BY <2>3, <2>4 DEF DInv
  <1>12. ASSUME NEW c \in Consumer, Dispose(c) PROVE DInv'
    <2>1. /\ UNCHANGED <<flightVars, terminal, sawFinished, runtimeVars, finished>>
          /\ cpc[c] = "idle" /\ cpc' = [cpc EXCEPT ![c] = "gone"]
          /\ registered' = registered \ {c} /\ reader' = [reader EXCEPT ![c] = "none"]
          /\ pos' = [pos EXCEPT ![c] = 0] /\ flightOf' = [flightOf EXCEPT ![c] = None]
      BY <1>12 DEF Dispose, Move, Release
    <2>2. Handed'
      BY <1>0, <2>1 DEF Handed, Reading, IInv, TypeOK
    <2>3. Produced' /\ Leaving'
      BY <1>0, <2>1 DEF Produced, Made, Leaving
    <2> QED BY <2>2, <2>3 DEF DInv
  <1>13. CASE RuntimeClosed
    <2>1. /\ UNCHANGED <<flightVars, sharedVars, cpc, identityVars, ownVars, readVars>>
          /\ phase = "closing" /\ phase' = "closed" /\ Drained
          /\ \A f \in Consumer : fpc[f] \in {"unused", "direct", "done", "dead"}
      BY <1>13 DEF RuntimeClosed
    <2>2. registered = {}
      BY <1>0, <2>1 DEF Leaving, Drained, IInv, Linked, Attached, Reading
    <2>3. Produced' /\ Handed' /\ Leaving'
      BY <1>0, <2>1, <2>2 DEF Produced, Made, Handed, Leaving
    <2> QED BY <2>3 DEF DInv
  <1>14. CASE (\E k \in Key : Evict(k)) \/ UNCHANGED vars
    <2>1. UNCHANGED <<flightVars, sharedVars, cpc, identityVars, ownVars, readVars, runtimeVars>>
      BY <1>14 DEF Evict
    <2>2. Produced' /\ Handed' /\ Leaving'
      BY <1>0, <2>1 DEF Produced, Made, Handed, Leaving
    <2> QED BY <2>2 DEF DInv
  <1> QED BY <1>1, <1>3, <1>4, <1>5, <1>6, <1>7, <1>9, <1>10, <1>11, <1>12, <1>13, <1>14
          DEF Next, Internal, External

\* The initial states.
LEMMA InitDelivers == Init => DInv /\ Undecided
  BY DEF Init, DInv, Produced, Made, Handed, Leaving, Undecided, Reading

\* DInv holds in every reachable state.
LEMMA Deliveries == Spec => []DInv
  <1>1. IInv /\ Undecided /\ [Next]_vars => Undecided'
    <2>1. CASE UNCHANGED vars
      BY <2>1 DEF Undecided
    <2> QED BY <2>1, NextKeeps DEF Keeps
  <1> QED BY <1>1, InitDelivers, NextDelivers, Invariance, PTL DEF Spec

\* A consumer told "complete" was handed every byte: _read takes the finished flag before
\* it asks for bytes, and _produce sets it after the commit.
THEOREM DeliveryIsComplete == Spec => []CompleteDelivery
  <1>1. IInv /\ DInv => CompleteDelivery
    <2> SUFFICES ASSUME IInv, DInv PROVE CompleteDelivery
      OBVIOUS
    <2>1. TypeOK
      BY DEF IInv
    <2>2. ASSUME NEW c \in registered, terminal[c] = "complete" PROVE pos[c] = Chunks
      BY <2>1, <2>2 DEF DInv, Handed, TypeOK
    <2> QED BY <2>1, <2>2 DEF CompleteDelivery
  <1> QED BY <1>1, Deliveries, Invariance, PTL

\* Nothing is left behind: the finally blocks of _produce, _read and _dispose release
\* what they hold, and aclose() of the runtime waits for all of them.
THEOREM FilesAreReleased == Spec => []FilesReleased
  <1> SUFFICES IInv /\ DInv => FilesReleased
    BY Deliveries, Invariance, PTL
  <1> SUFFICES ASSUME IInv, DInv PROVE FilesReleased
    OBVIOUS
  <1>1. \A f \in finished : writer[f] # "open"
    BY DEF DInv, Produced, Made, IInv, TypeOK, Producing
  <1>2. \A c \in Consumer : reader[c] # "none" => c \in registered
    BY DEF DInv, Handed
  <1>3. ASSUME phase = "closed", NEW k \in Key, table[k] # None PROVE fpc[table[k]] = "dead"
    <2>1. table[k] \in Consumer /\ fpc[table[k]] \in {"done", "dead"}
      BY <1>3 DEF DInv, Leaving, IInv, TypeOK, Tabled
    <2>2. interests[table[k]] = {}
      BY <1>3, <2>1 DEF DInv, Leaving, IInv, TypeOK, SharedWork, InterestsExact
    <2> QED BY <1>3, <2>1, <2>2 DEF IInv, SharedWork, NoStaleEntry, Producing
  <1>4. ASSUME phase = "closed", NEW c \in Consumer PROVE cpc[c] \notin Reading /\ writer[c] # "open"
    <2>1. registered = {} /\ fpc[c] \in {"unused", "direct", "done", "dead"}
      BY <1>4 DEF DInv, Leaving
    <2> QED BY <2>1 DEF DInv, Produced, Made, IInv, Linked, Attached
  <1>5. phase = "closed" => registered = {}
    BY DEF DInv, Leaving
  <1> QED BY <1>1, <1>2, <1>3, <1>4, <1>5 DEF FilesReleased

-----------------------------------------------------------------------------
(***************************************************************************)
(* Part 5.  The operation runtime implements SharedProduction.             *)
(*                                                                         *)
(* Which production a consumer waits for is not a field of the runtime:    *)
(* Found says that the consumers whose outcome is open are exactly the     *)
(* interests of the flight that the table holds for their key.             *)
(***************************************************************************)

\* A consumer's flight is for its key, and the table finds every flight that is wanted.
Found ==
    /\ \A c \in registered : key[flightOf[c]] = key[c]
    /\ \A k \in Key : table[k] # None => k \notin Direct
    /\ \A f \in Consumer : interests[f] # {} /\ key[f] \notin Direct => table[key[f]] = f

\* The consumers that wait for k.
Waiters(k) == {c \in Consumer : WantOf(c) = k}

-----------------------------------------------------------------------------
(* Found is inductive.                                                     *)

\* Steps that touch neither keys nor flights, but may forget flights nobody wants.
LEMMA KeptFound ==
  ASSUME IInv, Found, key' = key, registered' \subseteq registered,
         \A c \in registered' : flightOf'[c] = flightOf[c],
         \A f \in Consumer : interests'[f] \subseteq interests[f],
         \A k \in Key : table'[k] # table[k] => table'[k] = None /\ interests'[table[k]] = {}
  PROVE  Found'
  <1>1. \A f \in Consumer : interests[f] # {} => key[f] \in Key
    BY DEF IInv, TypeOK, SharedWork, InterestsExact, Linked, Producing
  <1>2. table \in [Key -> Consumer \cup {None}]
    BY DEF IInv, TypeOK
  <1> QED BY <1>1, <1>2 DEF Found

\* A release forgets a flight only without interests.
LEMMA ReleaseForgets ==
  ASSUME IInv, NEW C, Release(C)
  PROVE  /\ \A f \in Consumer : interests'[f] = interests[f] \ C
         /\ \A k \in Key : table'[k] # table[k] => table'[k] = None /\ interests'[table[k]] = {}
  <1>1. finished \subseteq Consumer
    BY DEF IInv, TypeOK
  <1> QED BY <1>1 DEF Release, Unneeded

\* A subscription joins a flight of its key, or makes one.
LEMMA AttemptFinds ==
  ASSUME IInv, Found, NEW c \in Consumer, NEW k \in Key, NEW o,
         cpc[c] \in {"unused", "waiting"}, Attempt(c, k, o)
  PROVE  Found'
  <1>1. /\ fpc[c] = "unused" /\ c \notin registered
        /\ interests[c] = {} /\ \A d \in registered : flightOf[d] # c
        /\ \A j \in Key : table[j] # c
    <2>1. fpc[c] = "unused" /\ c \notin registered
      BY DEF IInv, Linked, Attached, Reading
    <2>2. \A d \in registered : flightOf[d] # c
      BY <2>1 DEF IInv, Linked, TypeOK
    <2>3. interests[c] = {}
      BY <2>2 DEF IInv, TypeOK, SharedWork, InterestsExact
    <2>4. \A j \in Key : table[j] # c
      BY <2>1, RuntimeAssumption DEF IInv, Tabled
    <2> QED BY <2>1, <2>2, <2>3, <2>4
  <1>2. /\ key \in [Consumer -> Key \cup {None}] /\ flightOf \in [Consumer -> Consumer \cup {None}]
        /\ table \in [Key -> Consumer \cup {None}] /\ registered \subseteq Consumer
        /\ interests \in [Consumer -> SUBSET Consumer] /\ None \notin Consumer
        /\ \A d \in registered : flightOf[d] \in Consumer
        /\ \A j \in Key : table[j] # None => key[table[j]] = j
    BY RuntimeAssumption DEF IInv, TypeOK, Linked, SharedWork, NoStaleEntry
  <1>3. CASE k \notin Direct /\ Create(c, k, o)
    <2>1. /\ table[k] = None /\ table' = [table EXCEPT ![k] = c]
          /\ interests' = [interests EXCEPT ![c] = @ \cup {c}]
          /\ registered' = registered \cup {c} /\ key' = [key EXCEPT ![c] = k]
          /\ flightOf' = [flightOf EXCEPT ![c] = c]
      BY <1>3 DEF Create, Admit
    <2>2. \A d \in registered' : key'[flightOf'[d]] = key'[d]
      BY <1>1, <1>2, <2>1 DEF Found
    <2>3. \A j \in Key : table'[j] # None => j \notin Direct
      BY <1>2, <1>3, <2>1 DEF Found
    <2>4. ASSUME NEW f \in Consumer, interests'[f] # {}, key'[f] \notin Direct
          PROVE  table'[key'[f]] = f
      <3>1. CASE f = c
        BY <1>2, <2>1, <3>1
      <3>2. CASE f # c
        <4>1. table[key[f]] = f /\ key'[f] = key[f]
          BY <1>2, <2>1, <2>4, <3>2 DEF Found
        <4> QED BY <1>2, <2>1, <4>1
      <3> QED BY <3>1, <3>2
    <2> QED BY <2>2, <2>3, <2>4 DEF Found
  <1>4. CASE k \notin Direct /\ Join(c, k, o)
    <2> DEFINE g == table[k]
    <2>1. /\ g \in Consumer /\ g # c /\ key[g] = k /\ table' = table
          /\ interests' = [interests EXCEPT ![g] = @ \cup {c}]
          /\ registered' = registered \cup {c} /\ key' = [key EXCEPT ![c] = k]
          /\ flightOf' = [flightOf EXCEPT ![c] = g]
      BY <1>1, <1>2, <1>4 DEF Join, Admit
    <2> QED BY <1>1, <1>2, <2>1 DEF Found
  <1>5. CASE k \notin Direct /\ AwaitFinished(c, k, o)
    <2>1. /\ UNCHANGED <<table, interests, registered>> /\ key' = [key EXCEPT ![c] = k]
          /\ \A d \in registered : flightOf'[d] = flightOf[d]
      BY <1>1, <1>2, <1>5 DEF AwaitFinished
    <2> QED BY <1>1, <1>2, <2>1 DEF Found
  <1>6. CASE k \in Direct /\ SubscribeSource(c, k, o)
    <2>1. /\ table' = table /\ interests' = [interests EXCEPT ![c] = @ \cup {c}]
          /\ registered' = registered \cup {c} /\ key' = [key EXCEPT ![c] = k]
          /\ flightOf' = [flightOf EXCEPT ![c] = c]
      BY <1>6 DEF SubscribeSource, Admit
    <2>2. \A d \in registered' : key'[flightOf'[d]] = key'[d]
      BY <1>1, <1>2, <2>1 DEF Found
    <2>3. ASSUME NEW f \in Consumer, interests'[f] # {}, key'[f] \notin Direct
          PROVE  table'[key'[f]] = f
      <3>1. f # c
        BY <1>2, <1>6, <2>1, <2>3
      <3> QED BY <1>2, <2>1, <2>3, <3>1 DEF Found
    <2> QED BY <2>1, <2>2, <2>3 DEF Found
  <1> QED BY <1>3, <1>4, <1>5, <1>6 DEF Attempt

\* A producer that ends is forgotten only without interests.
LEMMA FinishFinds ==
  ASSUME IInv, Found, NEW f \in Consumer, Finish(f)
  PROVE  Found'
  <1>1. UNCHANGED <<interests, identityVars, registered>> /\ table' = Retired(f)
    BY DEF Finish
  <1>2. \A k \in Key : table'[k] # table[k] => table'[k] = None /\ interests'[table[k]] = {}
    BY <1>1 DEF Retired
  <1> QED BY <1>1, <1>2, KeptFound

\* Every step keeps Found.
LEMMA NextFinds == IInv /\ Found /\ [Next]_vars => Found'
  <1> SUFFICES ASSUME IInv, Found, [Next]_vars PROVE Found'
    OBVIOUS
  <1>1. ASSUME NEW C, Release(C), UNCHANGED <<key, flightOf, registered>> PROVE Found'
    BY <1>1, ReleaseForgets, KeptFound
  <1>2. ASSUME UNCHANGED <<sharedVars, key, flightOf, registered>> PROVE Found'
    BY <1>2 DEF Found
  <1>3. ASSUME NEW f \in Consumer, Produce(f) PROVE Found'
    <2>1. CASE DepExit(f)
      BY <1>1, <2>1 DEF DepExit, Cancel
    <2>2. CASE Finish(f)
      BY <2>2, FinishFinds
    <2>3. CASE ~DepExit(f) /\ ~Finish(f)
      <3>1. UNCHANGED <<sharedVars, key, flightOf, registered>>
        BY <1>3, <2>3 DEF Produce, Start, LookupHit, LookupMiss, LookupFails, Begin, BeginFails,
              DepRefused, DepReleased, Emit, ProducerFails, Append, AppendFails, Appended,
              CommitBegin, Commit, CommitFails, SettleBegin, AbortFails
      <3> QED BY <1>2, <3>1
    <2> QED BY <2>1, <2>2, <2>3
  <1>4. ASSUME NEW p \in Consumer, NEW c \in Consumer, DepSubscribe(p, c) PROVE Found'
    <2> DEFINE k == Dep[key[p]]
    <2>1. fpc[p] = "run" /\ cpc[c] = "unused" /\ Attempt(c, k, p)
      BY <1>4 DEF DepSubscribe, Fresh
    <2>2. k \in Key
      BY <2>1 DEF IInv, Producing
    <2> HIDE DEF k
    <2> QED BY <2>1, <2>2, AttemptFinds
  <1>5. ASSUME NEW c \in Consumer, Resume(c) PROVE Found'
    <2>1. cpc[c] = "waiting" /\ key[c] \in Key /\ Attempt(c, key[c], owner[c])
      BY <1>5 DEF Resume, IInv, Linked, Attached
    <2> QED BY <2>1, AttemptFinds
  <1>6. ASSUME NEW c \in Consumer, NEW a \in Asks[c], Subscribe(c, a[2], a[1]) PROVE Found'
    <2>1. cpc[c] = "unused" /\ a[2] \in Key /\ Attempt(c, a[2], a[1])
      BY <1>6, RuntimeAssumption DEF Subscribe, Fresh
    <2> QED BY <2>1, AttemptFinds
  <1>7. ASSUME NEW c \in Consumer, Refuse(c) PROVE Found'
    BY <1>2, <1>7 DEF Refuse
  <1>8. ASSUME NEW c \in Consumer, ReadBegin(c) \/ ReadProgress(c) PROVE Found'
    <2>1. CASE OpenFails(c) \/ ReadFails(c) \/ FlightFailed(c) \/ Complete(c)
      <3>1. Release({c}) /\ UNCHANGED <<key, flightOf, registered>>
        BY <2>1 DEF OpenFails, ReadFails, FlightFailed, Complete, Fail
      <3> QED BY <1>1, <3>1
    <2>2. CASE ReadBegin(c) \/ Open(c) \/ Opened(c) \/ Read(c) \/ CancelledEmpty(c) \/ Wait(c) \/ Wake(c)
      BY <1>2, <2>2 DEF ReadBegin, Open, Opened, Read, CancelledEmpty, Wait, Wake
    <2> QED BY <1>8, <2>1, <2>2 DEF ReadProgress
  <1>9. ASSUME NEW c \in Consumer, WatchParent(c) \/ Aclose(c) PROVE Found'
    BY <1>1, <1>9 DEF WatchParent, Aclose, Cancel
  <1>10. ASSUME NEW s \in Session, CancelSession(s) PROVE Found'
    BY <1>1, <1>10 DEF CancelSession, Cancel
  <1>11. CASE CloseRuntime
    BY <1>1, <1>11 DEF CloseRuntime, Cancel
  <1>12. ASSUME NEW c \in Consumer, Dispose(c) PROVE Found'
    <2>1. /\ Release({c}) /\ key' = key /\ registered' = registered \ {c}
          /\ flightOf' = [flightOf EXCEPT ![c] = None]
      BY <1>12 DEF Dispose
    <2>2. \A d \in registered' : flightOf'[d] = flightOf[d]
      BY <2>1 DEF IInv, TypeOK
    <2> QED BY <2>1, <2>2, ReleaseForgets, KeptFound
  <1>13. CASE RuntimeClosed \/ (\E k \in Key : Evict(k)) \/ UNCHANGED vars
    BY <1>2, <1>13 DEF RuntimeClosed, Evict
  <1> QED BY <1>3, <1>4, <1>5, <1>6, <1>7, <1>8, <1>9, <1>10, <1>11, <1>12, <1>13
          DEF Next, Internal, External

\* Who has not been admitted has been handed nothing.
Idle == \A c \in Consumer : cpc[c] \in {"unused", "waiting"} => pos[c] = 0

\* Only reads and disposals move cursors.
LEMMA NextIdle == IInv /\ Idle /\ [Next]_vars => Idle'
  <1> SUFFICES ASSUME IInv, Idle, [Next]_vars PROVE Idle'
    OBVIOUS
  <1>1. cpc \in [Consumer -> ConsumerPC]
    BY DEF IInv, TypeOK
  <1>2. ASSUME NEW c \in Consumer, NEW pc \in ConsumerPC, cpc' = [cpc EXCEPT ![c] = pc],
               cpc[c] = "unused" \/ pc \notin {"unused", "waiting"}, pos' = pos
        PROVE  Idle'
    BY <1>1, <1>2 DEF Idle
  <1>3. ASSUME UNCHANGED <<cpc, pos>> PROVE Idle'
    BY <1>3 DEF Idle
  <1>4. ASSUME NEW c \in Consumer, NEW k, NEW o, Attempt(c, k, o), cpc[c] \in {"unused", "waiting"} PROVE Idle'
    <2>1. pos' = pos /\ \E pc \in {"idle", "waiting"} : cpc' = [cpc EXCEPT ![c] = pc]
      BY <1>4 DEF Attempt, Create, Join, AwaitFinished, SubscribeSource, Admit
    <2> QED BY <1>1, <1>4, <2>1 DEF Idle
  <1>5. ASSUME NEW c \in Consumer, Resume(c) \/ (\E p \in Consumer : DepSubscribe(p, c))
                                   \/ (\E a \in Asks[c] : Subscribe(c, a[2], a[1]))
        PROVE  Idle'
    BY <1>4, <1>5 DEF Resume, DepSubscribe, Subscribe, Fresh
  <1>6. ASSUME NEW c \in Consumer, ReadBegin(c) \/ ReadProgress(c) PROVE Idle'
    <2>1. cpc[c] \notin {"unused", "waiting"}
      BY <1>6 DEF ReadBegin, ReadProgress, Open, Opened, OpenFails, Read, ReadFails, CancelledEmpty,
           Complete, FlightFailed, Wait, Wake
    <2>2. \E pc \in ConsumerPC \ {"unused", "waiting"} : cpc' = [cpc EXCEPT ![c] = pc]
      BY <1>6 DEF ReadBegin, ReadProgress, Open, Opened, OpenFails, Read, ReadFails, CancelledEmpty,
           Complete, FlightFailed, Wait, Wake, Fail, Capture, Leave, Move, ConsumerPC
    <2>3. pos' = pos \/ \E n \in 1..Readable(c) : pos' = [pos EXCEPT ![c] = @ + n]
      <3>1. CASE Read(c)
        BY <3>1 DEF Read, Leave
      <3>2. CASE ~Read(c)
        BY <1>6, <3>2 DEF ReadBegin, ReadProgress, Open, Opened, OpenFails, ReadFails,
             CancelledEmpty, Complete, FlightFailed, Wait, Wake, Fail, Capture, Leave
      <3> QED BY <3>1, <3>2
    <2>4. \A d \in Consumer : d # c => cpc'[d] = cpc[d] /\ pos'[d] = pos[d]
      BY <2>2, <2>3 DEF IInv, TypeOK
    <2>5. cpc'[c] \notin {"unused", "waiting"}
      BY <1>1, <2>2
    <2> QED BY <2>4, <2>5 DEF Idle
  <1>7. ASSUME NEW c \in Consumer, Dispose(c) PROVE Idle'
    BY <1>1, <1>7 DEF Idle, Dispose, Move
  <1>8. ASSUME NEW c \in Consumer, Refuse(c) PROVE Idle'
    BY <1>1, <1>8 DEF Idle, Refuse
  <1>9. ASSUME NEW f \in Consumer, Produce(f) PROVE Idle'
    BY <1>3, <1>9 DEF Produce, Start, LookupHit, LookupMiss, LookupFails, Begin, BeginFails,
          DepRefused, DepExit, DepReleased, Emit, ProducerFails, Append, AppendFails, Appended,
          CommitBegin, Commit, CommitFails, SettleBegin, Finish, AbortFails
  <1>10. CASE \/ RuntimeClosed \/ CloseRuntime \/ (\E s \in Session : CancelSession(s))
              \/ (\E k \in Key : Evict(k)) \/ (\E c \in Consumer : WatchParent(c) \/ Aclose(c))
              \/ UNCHANGED vars
    BY <1>3, <1>10 DEF RuntimeClosed, CloseRuntime, CancelSession, Evict, WatchParent, Aclose
  <1> QED BY <1>5, <1>6, <1>7, <1>8, <1>9, <1>10 DEF Next, Internal, External

-----------------------------------------------------------------------------
(* The steps of the runtime as steps of SharedProduction.                  *)

\* Who waits for k is interested in the flight that the table holds for k.
LEMMA WaitersAreInterested ==
  ASSUME IInv, Found, NEW k \in Key
  PROVE  /\ table[k] = None => k \in Direct \/ Waiters(k) = {}
         /\ table[k] # None => Waiters(k) = interests[table[k]]
  <1>1. /\ registered \subseteq Consumer /\ None \notin Key /\ None \notin Consumer
        /\ table[k] \in Consumer \cup {None}
    BY RuntimeAssumption DEF IInv, TypeOK
  <1>2. ASSUME NEW c \in Waiters(k), k \notin Direct
        PROVE  table[k] # None /\ c \in interests[table[k]]
    <2>1. c \in registered /\ terminal[c] = "none" /\ key[c] = k
      BY <1>1, <1>2 DEF Waiters, WantOf
    <2>2. flightOf[c] \in Consumer /\ key[flightOf[c]] = k
      BY <1>1, <2>1 DEF IInv, Linked, Found
    <2>3. c \in interests[flightOf[c]]
      BY <1>1, <2>1, <2>2 DEF IInv, SharedWork, InterestsExact
    <2>4. table[k] = flightOf[c]
      BY <1>2, <2>2, <2>3 DEF Found
    <2> QED BY <1>1, <2>2, <2>3, <2>4
  <1>3. ASSUME table[k] # None, NEW c \in interests[table[k]]
        PROVE  c \in Waiters(k)
    <2>1. table[k] \in Consumer /\ key[table[k]] = k
      BY <1>1, <1>3 DEF IInv, SharedWork, NoStaleEntry
    <2>2. c \in registered /\ flightOf[c] = table[k] /\ terminal[c] = "none"
      BY <1>1, <1>3, <2>1 DEF IInv, TypeOK, SharedWork, InterestsExact
    <2>3. key[c] = k
      BY <2>1, <2>2 DEF Found
    <2> QED BY <1>1, <2>2, <2>3 DEF Waiters, WantOf
  <1> QED BY <1>2, <1>3 DEF Found

\* What the table holds without interests is being wound up.
LEMMA UnwantedIsAbandoned ==
  ASSUME IInv, Wanted, NEW k \in Key, table[k] # None, interests[table[k]] = {}
  PROVE  table[k] \in abandoned /\ table[k] \notin finished
  <1>1. table[k] \in Consumer /\ table[k] \notin finished /\ fpc[table[k]] \notin {"unused", "direct"}
    BY DEF IInv, TypeOK, SharedWork, NoStaleEntry, Tabled
  <1> QED BY <1>1 DEF Wanted, Settled, IInv, Producing

\* What becomes of a production is what _release makes of its flight.
LEMMA ReleaseWinds ==
  ASSUME IInv, Found, Wanted, NEW C \in SUBSET registered, Release(C), NEW k \in Key
  PROVE  WorkOf(k)' = IF Waiters(k) = {} \/ ~(Waiters(k) \subseteq Live(C)) THEN WorkOf(k)
                      ELSE CASE WorkOf(k) = "running" -> "stopping"
                             [] WorkOf(k) = "over" -> "idle"
                             [] OTHER -> WorkOf(k)
  <1> DEFINE f == table[k]
  <1>1. /\ registered \subseteq Consumer /\ None \notin Consumer
        /\ finished' = finished /\ abandoned' = abandoned \cup (Unneeded(C) \ finished)
        /\ table'[k] = IF f \in Unneeded(C) \cap finished THEN None ELSE f
    BY RuntimeAssumption DEF IInv, TypeOK, Release
  <1>2. CASE f = None
    <2>1. WorkOf(k) = "idle" /\ WorkOf(k)' = "idle"
      BY <1>1, <1>2 DEF WorkOf
    <2> QED BY <2>1
  <1>3. CASE f # None
    <2>1. f \in Consumer /\ Waiters(k) = interests[f]
      BY <1>3, WaitersAreInterested DEF IInv, TypeOK
    <2>2. \A c \in C : flightOf[c] = f /\ c \in Live(C) <=> c \in interests[f] /\ c \in C
      BY <1>1, <2>1 DEF Live, IInv, SharedWork, InterestsExact
    <2>3. interests[f] # {} => (f \in Unneeded(C) <=> interests[f] \subseteq Live(C))
      <3>1. ASSUME interests[f] # {}, interests[f] \subseteq Live(C) PROVE f \in Unneeded(C)
        BY <1>1, <2>1, <2>2, <3>1 DEF Unneeded, Live
      <3>2. ASSUME f \in Unneeded(C), NEW c \in interests[f] PROVE c \in Live(C)
        BY <1>1, <2>1, <2>2, <3>2 DEF Unneeded
      <3> QED BY <3>1, <3>2
    <2>4. interests[f] = {} => f \in abandoned /\ f \notin finished
      BY <1>3, UnwantedIsAbandoned
    <2>5. interests[f] # {} => f \notin abandoned
      BY <2>1 DEF IInv, SharedWork, CancelledOnlyUnneeded
    <2> HIDE DEF f
    <2>6. /\ WorkOf(k) = IF f \in finished THEN "over" ELSE IF f \in abandoned THEN "stopping" ELSE "running"
          /\ WorkOf(k)' = IF f \in Unneeded(C) \cap finished THEN "idle"
                          ELSE IF f \in finished THEN "over"
                          ELSE IF f \in abandoned \cup Unneeded(C) THEN "stopping" ELSE "running"
      BY <1>1, <1>3 DEF WorkOf, f
    <2>7. CASE interests[f] = {}
      BY <2>1, <2>4, <2>6, <2>7
    <2>8. CASE interests[f] # {}
      BY <2>1, <2>3, <2>5, <2>6, <2>8
    <2> QED BY <2>7, <2>8
  <1> QED BY <1>2, <1>3

\* Nothing that a client can tell changes.
Unseen == UNCHANGED <<sharedVars, key, registered, terminal, pos>>
LEMMA UnseenStutters == Unseen => UNCHANGED Shared!vars
  BY DEF Unseen, Shared!vars, WorkOf, WantOf

\* Consumers whose outcome is decided by their owners or at the end of their reads.
LEMMA ReleaseLeaves ==
  ASSUME IInv, Found, Wanted, NEW C \in SUBSET registered, Release(C),
         NEW t \in {"complete", "cancelled", "error"},
         terminal' = [c \in Consumer |-> IF c \in Live(C) THEN t ELSE terminal[c]],
         UNCHANGED <<key, registered, pos>>,
         t = "complete" => \A c \in Live(C) :
             pos[c] = Chunks /\ (key[c] \in Direct \/ WorkOf(key[c]) = "over")
  PROVE  Shared!Leave(Live(C), t)
  <1>1. registered \subseteq Consumer /\ None \notin Key
    BY RuntimeAssumption DEF IInv, TypeOK
  <1>2. \A c \in Live(C) : c \in Consumer /\ WantOf(c) = key[c] /\ key[c] \in Key
    BY <1>1 DEF Live, WantOf, IInv, Linked
  <1>3. \A c \in Consumer : WantOf(c)' = IF c \in Live(C) THEN None ELSE WantOf(c)
    BY <1>1 DEF Live, WantOf
  <1>4. \A k \in Key : /\ Shared!Wanting(k) = Waiters(k)
                       /\ Shared!After(Live(C), k) = WorkOf(k)'
    <2>1. ASSUME NEW k \in Key PROVE Shared!Wanting(k) = Waiters(k)
      BY DEF Shared!Wanting, Waiters
    <2> QED BY <2>1, ReleaseWinds DEF Shared!After
  <1> QED BY <1>1, <1>2, <1>3, <1>4 DEF Shared!Leave

\* ... by their owners alone.
LEMMA CancelLeaves ==
  ASSUME IInv, Found, Wanted, NEW C \in SUBSET Consumer, Cancel(C), Live(C) \subseteq registered,
         UNCHANGED <<key, registered, pos>>
  PROVE  Shared!Next
  <1>1. /\ Live(C) \in SUBSET Consumer /\ Live(Live(C)) = Live(C) /\ Release(Live(C))
        /\ terminal' = [c \in Consumer |-> IF c \in Live(C) THEN "cancelled" ELSE terminal[c]]
    BY DEF Cancel, Live
  <1>2. Shared!Leave(Live(C), "cancelled")
    BY <1>1, ReleaseLeaves
  <1> QED BY <1>1, <1>2 DEF Shared!Next, Shared!Outcome

\* A subscription asks, or waits out of sight for a flight to settle.
LEMMA AttemptAsks ==
  ASSUME IInv, Found, NEW c \in Consumer, NEW k \in Key, NEW o,
         cpc[c] \in {"unused", "waiting"}, Attempt(c, k, o), pos[c] = 0
  PROVE  Shared!Ask(c, k) \/ UNCHANGED Shared!vars
  <1>1. /\ fpc[c] = "unused" /\ c \notin registered /\ terminal[c] = "none"
        /\ c \notin finished /\ c \notin abandoned
        /\ \A j \in Key : table[j] # c
    <2>1. fpc[c] = "unused" /\ c \notin registered /\ terminal[c] = "none"
      BY DEF IInv, Linked, Attached, Reading
    <2> QED BY <2>1, RuntimeAssumption DEF IInv, Tabled, Producing
  <1>2. /\ key \in [Consumer -> Key \cup {None}] /\ table \in [Key -> Consumer \cup {None}]
        /\ registered \subseteq Consumer /\ None \notin Consumer /\ None \notin Key
    BY RuntimeAssumption DEF IInv, TypeOK
  <1>3. CASE k \notin Direct /\ AwaitFinished(c, k, o)
    <2>1. UNCHANGED <<sharedVars, registered, terminal, pos>> /\ key' = [key EXCEPT ![c] = k]
      BY <1>3 DEF AwaitFinished
    <2>2. \A d \in Consumer : WantOf(d)' = WantOf(d)
      BY <1>1, <1>2, <2>1 DEF WantOf
    <2>3. \A j \in Key : WorkOf(j)' = WorkOf(j)
      BY <2>1 DEF WorkOf
    <2> QED BY <2>1, <2>2, <2>3 DEF Shared!vars
  <1>4. ASSUME ~(k \notin Direct /\ AwaitFinished(c, k, o)) PROVE Shared!Ask(c, k)
    <2>1. /\ UNCHANGED <<abandoned, terminal, pos>> /\ registered' = registered \cup {c}
          /\ key' = [key EXCEPT ![c] = k]
      BY <1>4 DEF Attempt, Create, Join, SubscribeSource, Admit
    <2>2. \A d \in Consumer : WantOf(d)' = IF d = c THEN k ELSE WantOf(d)
      BY <1>1, <1>2, <2>1 DEF WantOf
    <2>3. WantOf(c) = None
      BY <1>1 DEF WantOf
    <2>4. CASE k \notin Direct /\ Create(c, k, o)
      <3>1. table[k] = None /\ table' = [table EXCEPT ![k] = c] /\ finished' = finished
        BY <2>4 DEF Create
      <3>2. WorkOf(k) = "idle"
        BY <3>1 DEF WorkOf
      <3>3. \A j \in Key : WorkOf(j)' = IF j = k THEN "running" ELSE WorkOf(j)
        BY <1>1, <1>2, <2>1, <3>1 DEF WorkOf
      <3> QED BY <1>1, <2>1, <2>2, <2>3, <2>4, <3>2, <3>3 DEF Shared!Ask
    <2>5. CASE k \notin Direct /\ Join(c, k, o)
      <3>1. table[k] # None /\ table[k] \notin abandoned /\ UNCHANGED <<table, finished>>
        BY <2>5 DEF Join, Joinable
      <3>2. WorkOf(k) \in {"running", "over"}
        BY <3>1 DEF WorkOf
      <3>3. \A j \in Key : WorkOf(j)' = WorkOf(j)
        BY <2>1, <3>1 DEF WorkOf
      <3> QED BY <1>1, <2>1, <2>2, <2>3, <2>5, <3>2, <3>3 DEF Shared!Ask
    <2>6. CASE k \in Direct /\ SubscribeSource(c, k, o)
      <3>1. table' = table /\ finished' = finished \cup {c}
        BY <2>6 DEF SubscribeSource
      <3>2. \A j \in Key : WorkOf(j)' = WorkOf(j)
        BY <1>1, <1>2, <2>1, <3>1 DEF WorkOf
      <3> QED BY <1>1, <2>1, <2>2, <2>3, <2>6, <3>2 DEF Shared!Ask
    <2> QED BY <1>4, <2>4, <2>5, <2>6 DEF Attempt
  <1> QED BY <1>3, <1>4

\* The end of a producer settles the production of its key.
LEMMA FinishSettles ==
  ASSUME IInv, Wanted, NEW f \in Consumer, Finish(f)
  PROVE  Shared!Settle(key[f])
  <1>1. /\ UNCHANGED <<interests, abandoned, registered, terminal, key, pos>>
        /\ finished' = finished \cup {f} /\ table' = Retired(f) /\ fpc[f] \in {"settle", "abort"}
    BY DEF Finish, Signalled
  <1>2. /\ table[key[f]] = f /\ key[f] \in Key /\ f \notin finished /\ None \notin Consumer
    BY <1>1, RuntimeAssumption DEF IInv, SharedWork, SingleProducer, Settled, Producing
  <1>3. interests[f] = {} <=> f \in abandoned
    BY <1>1 DEF Wanted, Settled, IInv, SharedWork, CancelledOnlyUnneeded
  <1>4. \A k \in Key \ {key[f]} : table[k] # f
    BY <1>2 DEF IInv, SharedWork, NoStaleEntry
  <1>5. \A k \in Key \ {key[f]} : WorkOf(k)' = WorkOf(k)
    BY <1>1, <1>4 DEF WorkOf, Retired
  <1>6. /\ WorkOf(key[f]) = IF f \in abandoned THEN "stopping" ELSE "running"
        /\ WorkOf(key[f])' = IF f \in abandoned THEN "idle" ELSE "over"
    BY <1>1, <1>2, <1>3 DEF WorkOf, Retired
  <1>7. \A c \in Consumer : WantOf(c)' = WantOf(c)
    BY <1>1 DEF WantOf
  <1> QED BY <1>1, <1>2, <1>5, <1>6, <1>7 DEF Shared!Settle

\* A read takes bytes, ends, or is not seen.
LEMMA ReadTakes ==
  ASSUME IInv, Found, Wanted, Undecided, Handed, NEW c \in Consumer, ReadBegin(c) \/ ReadProgress(c)
  PROVE  Shared!Next \/ UNCHANGED Shared!vars
  <1>0. /\ pos \in [Consumer -> 0..Chunks] /\ avail \in [Consumer -> 0..Chunks] /\ Chunks \in Nat
        /\ terminal \in [Consumer -> {"none", "complete", "cancelled", "error"}]
    BY RuntimeAssumption DEF IInv, TypeOK
  <1>1. cpc[c] \in Attached => c \in registered /\ flightOf[c] \in Consumer /\ key[c] \in Key
    BY DEF IInv, Linked
  <1>2. CASE OpenFails(c) \/ ReadFails(c) \/ FlightFailed(c)
    <2>1. PICK t \in {"cancelled", "error"} : Fail(c, t)
      BY <1>2 DEF OpenFails, ReadFails, FlightFailed
    <2>2. c \in registered
      BY <1>1, <1>2 DEF OpenFails, ReadFails, FlightFailed, Attached, Reading
    <2>3. /\ Release({c}) /\ UNCHANGED <<key, registered, pos>>
          /\ terminal' = [d \in Consumer |-> IF d \in Live({c}) THEN t ELSE terminal[d]]
      BY <1>0, <2>1 DEF Fail, Leave, Live
    <2>4. Shared!Leave(Live({c}), t)
      BY <2>2, <2>3, ReleaseLeaves
    <2>5. Live({c}) \in SUBSET Consumer
      BY DEF Live
    <2> QED BY <2>4, <2>5 DEF Shared!Next, Shared!Outcome
  <1>3. CASE Complete(c)
    <2>1. /\ cpc[c] = "empty" /\ c \in sawFinished /\ error[flightOf[c]] = "none"
          /\ Release({c}) /\ UNCHANGED <<key, registered, pos>>
          /\ terminal' = [terminal EXCEPT ![c] = "complete"]
          /\ terminal[c] # "cancelled"
      BY <1>3 DEF Complete, Leave, AtEnd
    <2>2. c \in registered /\ flightOf[c] \in finished /\ pos[c] = Chunks
      BY <1>1, <2>1 DEF Handed, Attached, Reading
    <2>3. terminal[c] = "none" /\ Live({c}) = {c}
      BY <1>0, <2>1 DEF Undecided, Reading, Live
    <2>4. terminal' = [d \in Consumer |-> IF d \in Live({c}) THEN "complete" ELSE terminal[d]]
      BY <1>0, <2>1, <2>3
    <2>5. key[c] \in Direct \/ WorkOf(key[c]) = "over"
      <3>1. c \in interests[flightOf[c]] /\ flightOf[c] \in Consumer /\ key[flightOf[c]] = key[c]
        BY <1>1, <2>1, <2>2, <2>3 DEF IInv, SharedWork, InterestsExact, Found, Attached, Reading
      <3>2. key[c] \notin Direct => table[key[c]] = flightOf[c]
        BY <3>1 DEF Found
      <3> QED BY <2>2, <3>1, <3>2, RuntimeAssumption DEF WorkOf
    <2>6. \A d \in Live({c}) : pos[d] = Chunks /\ (key[d] \in Direct \/ WorkOf(key[d]) = "over")
      BY <2>2, <2>3, <2>5
    <2>7. Shared!Leave(Live({c}), "complete")
      BY <2>1, <2>2, <2>4, <2>6, ReleaseLeaves
    <2>8. Live({c}) \in SUBSET Consumer
      BY DEF Live
    <2> QED BY <2>7, <2>8 DEF Shared!Next, Shared!Outcome
  <1>4. CASE Read(c) /\ pos' # pos
    <2>1. /\ cpc[c] = "read" /\ UNCHANGED <<sharedVars, key, registered, terminal>>
          /\ \E n \in 1..Readable(c) : pos' = [pos EXCEPT ![c] = @ + n]
          /\ terminal[c] # "cancelled"
      BY <1>4 DEF Read, Leave
    <2>2. /\ c \in registered /\ terminal[c] = "none" /\ key[c] \in Key /\ flightOf[c] \in Consumer
      BY <1>0, <1>1, <2>1 DEF Undecided, Attached, Reading
    <2>3. \E n \in pos[c] + 1 .. Chunks : pos' = [pos EXCEPT ![c] = n]
      <3>1. avail[flightOf[c]] \in 0..Chunks
        BY <1>0, <2>2
      <3>2. \A n \in 1..Readable(c) : pos[c] + n \in pos[c] + 1 .. Chunks
        BY <1>0, <3>1 DEF Readable
      <3> QED BY <2>1, <3>2
    <2>4. WantOf(c) = key[c] /\ key[c] # None
      BY <2>2, RuntimeAssumption DEF WantOf
    <2>5. /\ \A k \in Key : WorkOf(k)' = WorkOf(k)
          /\ \A d \in Consumer : WantOf(d)' = WantOf(d)
      BY <2>1 DEF WorkOf, WantOf
    <2>6. Shared!Take(c)
      BY <2>1, <2>3, <2>4, <2>5 DEF Shared!Take
    <2> QED BY <2>6 DEF Shared!Next
  <1>5. CASE \/ ReadBegin(c) \/ Open(c) \/ Opened(c) \/ CancelledEmpty(c) \/ Wait(c) \/ Wake(c)
             \/ Read(c) /\ pos' = pos
    <2>1. Unseen
      BY <1>5 DEF Unseen, ReadBegin, Open, Opened, Read, CancelledEmpty, Wait, Wake, Capture, Leave
    <2> QED BY <2>1, UnseenStutters
  <1> QED BY <1>2, <1>3, <1>4, <1>5 DEF ReadProgress

\* The disposal of a consumer forgets what it was handed.
LEMMA DisposeForgets ==
  ASSUME IInv, Found, Wanted, NEW c \in Consumer, Dispose(c)
  PROVE  Shared!Forget(c)
  <1>1. /\ Release({c}) /\ UNCHANGED <<key, terminal>> /\ pos' = [pos EXCEPT ![c] = 0]
        /\ registered' = registered \ {c} /\ c \in registered /\ terminal[c] # "none"
    BY DEF Dispose, IInv, Linked
  <1>2. Live({c}) = {}
    BY <1>1 DEF Live
  <1>3. \A k \in Key : WorkOf(k)' = WorkOf(k)
    BY <1>1, <1>2, ReleaseWinds
  <1>4. \A d \in Consumer : WantOf(d)' = WantOf(d)
    BY <1>1 DEF WantOf
  <1>5. WantOf(c) = None
    BY <1>1 DEF WantOf
  <1> QED BY <1>1, <1>3, <1>4, <1>5 DEF Shared!Forget

-----------------------------------------------------------------------------
(* The theorem.                                                            *)

\* Every step of the runtime is a step of SharedProduction or is not seen.
LEMMA StepRefines ==
  ASSUME IInv, Found, Wanted, Undecided, Handed, Idle, [Next]_vars
  PROVE  Shared!Next \/ UNCHANGED Shared!vars
  <1>0. registered \subseteq Consumer
    BY DEF IInv, TypeOK
  <1>1. ASSUME NEW f \in Consumer, Produce(f) PROVE Shared!Next \/ UNCHANGED Shared!vars
    <2>1. CASE DepExit(f)
      <3>1. /\ dep[f] \in Consumer /\ Cancel({dep[f]}) /\ UNCHANGED <<key, registered, pos>>
            /\ Live({dep[f]}) \subseteq registered
        BY <2>1 DEF DepExit, IInv, Depending, Linked, Attached, Live
      <3> QED BY <3>1, CancelLeaves
    <2>2. CASE Finish(f)
      <3>1. Shared!Settle(key[f]) /\ key[f] \in Key
        BY <2>2, FinishSettles DEF Finish, IInv, Producing
      <3> QED BY <3>1 DEF Shared!Next
    <2>3. CASE ~DepExit(f) /\ ~Finish(f)
      <3>1. Unseen
        BY <1>1, <2>3 DEF Unseen, Produce, Start, LookupHit, LookupMiss, LookupFails, Begin, BeginFails,
              DepRefused, DepReleased, Emit, ProducerFails, Append, AppendFails, Appended,
              CommitBegin, Commit, CommitFails, SettleBegin, AbortFails
      <3> QED BY <3>1, UnseenStutters
    <2> QED BY <2>1, <2>2, <2>3
  <1>2. ASSUME NEW c \in Consumer, NEW k \in Key, NEW o, cpc[c] \in {"unused", "waiting"}, Attempt(c, k, o)
        PROVE  Shared!Next \/ UNCHANGED Shared!vars
    <2>1. pos[c] = 0
      BY <1>2 DEF Idle
    <2> QED BY <1>2, <2>1, AttemptAsks DEF Shared!Next
  <1>3. ASSUME NEW p \in Consumer, NEW c \in Consumer, DepSubscribe(p, c)
        PROVE  Shared!Next \/ UNCHANGED Shared!vars
    <2> DEFINE k == Dep[key[p]]
    <2>1. fpc[p] = "run" /\ cpc[c] = "unused" /\ Attempt(c, k, p)
      BY <1>3 DEF DepSubscribe, Fresh
    <2>2. k \in Key
      BY <2>1 DEF IInv, Producing
    <2> HIDE DEF k
    <2> QED BY <1>2, <2>1, <2>2
  <1>4. ASSUME NEW c \in Consumer, Resume(c) PROVE Shared!Next \/ UNCHANGED Shared!vars
    <2>1. cpc[c] = "waiting" /\ key[c] \in Key /\ Attempt(c, key[c], owner[c])
      BY <1>4 DEF Resume, IInv, Linked, Attached
    <2> QED BY <1>2, <2>1
  <1>5. ASSUME NEW c \in Consumer, NEW a \in Asks[c], Subscribe(c, a[2], a[1])
        PROVE  Shared!Next \/ UNCHANGED Shared!vars
    <2>1. cpc[c] = "unused" /\ a[2] \in Key /\ Attempt(c, a[2], a[1])
      BY <1>5, RuntimeAssumption DEF Subscribe, Fresh
    <2> QED BY <1>2, <2>1
  <1>6. CASE \/ RuntimeClosed \/ (\E c \in Consumer : Refuse(c)) \/ (\E k \in Key : Evict(k))
             \/ UNCHANGED vars
    <2>1. Unseen
      BY <1>6 DEF Unseen, RuntimeClosed, Refuse, Evict
    <2> QED BY <2>1, UnseenStutters
  <1>7. ASSUME NEW c \in Consumer, ReadBegin(c) \/ ReadProgress(c)
        PROVE  Shared!Next \/ UNCHANGED Shared!vars
    BY <1>7, ReadTakes
  <1>8. ASSUME NEW C \in SUBSET registered, Cancel(C), UNCHANGED CancelFrame PROVE Shared!Next
    <2>1. C \in SUBSET Consumer /\ Live(C) \subseteq registered
      BY <1>0, <1>8 DEF Live
    <2> QED BY <1>8, <2>1, CancelLeaves
  <1>9. ASSUME NEW c \in Consumer, WatchParent(c) \/ Aclose(c) PROVE Shared!Next
    BY <1>8, <1>9 DEF WatchParent, Aclose
  <1>10. ASSUME NEW s \in Session, CancelSession(s) PROVE Shared!Next
    BY <1>8, <1>10 DEF CancelSession, OfSession
  <1>11. CASE CloseRuntime
    BY <1>8, <1>11 DEF CloseRuntime
  <1>12. ASSUME NEW c \in Consumer, Dispose(c) PROVE Shared!Next
    BY <1>12, DisposeForgets DEF Shared!Next
  <1> QED BY <1>1, <1>3, <1>4, <1>5, <1>6, <1>7, <1>9, <1>10, <1>11, <1>12
          DEF Next, Internal, External

\* What the runtime shows its clients is what SharedProduction allows: one production per
\* key while somebody waits for it, wound up before the next, and over before any
\* "complete", with everything handed over.
THEOREM RuntimeImplementsShared == Spec => ImplementsShared
  <1>1. Init => Shared!Init /\ Found /\ Isolated /\ Undecided /\ Idle
    <2> SUFFICES ASSUME Init PROVE Shared!Init /\ Found /\ Isolated /\ Undecided /\ Idle
      OBVIOUS
    <2>1. Shared!Init
      BY DEF Init, Shared!Init, WorkOf, WantOf
    <2>2. Found /\ Isolated /\ Undecided /\ Idle
      BY DEF Init, Found, Isolated, Wanted, Doomed, Dependents, Settled, Undecided, Reading, Idle
    <2> QED BY <2>1, <2>2
  <1>2. IInv /\ Undecided /\ [Next]_vars => Undecided'
    <2>1. CASE UNCHANGED vars
      BY <2>1 DEF Undecided
    <2> QED BY <2>1, NextKeeps DEF Keeps
  <1>3. IInv /\ Idle /\ [Next]_vars => Idle'
    BY NextIdle
  <1>4. IInv /\ Found /\ Isolated /\ Undecided /\ DInv /\ Idle /\ [Next]_vars => [Shared!Next]_(Shared!vars)
    BY StepRefines DEF Isolated, DInv
  <1> QED BY <1>1, <1>2, <1>3, <1>4, NextFinds, NextIsolates, Invariance, Deliveries, PTL
          DEF Spec, ImplementsShared, Shared!Spec

=============================================================================
