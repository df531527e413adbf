------------------------ MODULE DeviceScheduler_proofs ------------------------
(***************************************************************************)
(* DeviceExclusive of DeviceScheduler, for any jobs, devices and number of *)
(* threads.                                                                *)
(*                                                                         *)
(* A slot is exclusive because a job in it holds the lock (Holding) and    *)
(* the lock has one holder (OneHolder); that the next holder is alone too  *)
(* is a fact of the waiters: only the first one is ever promised the lock, *)
(* and only while it is free (Promises).  No slot is lost because the lock *)
(* is taken only while a job holds it (Taking).                            *)
(***************************************************************************)
EXTENDS DeviceScheduler, FiniteSetTheorems, SequenceTheorems, TLAPS

USE DEF vars

\* TypeOK without the number of running jobs.
Types ==
    /\ pc \in [Job -> PC]
    /\ acquire \in [Job -> AcquireState]
    /\ cancelled \subseteq Job
    /\ locked \subseteq DeviceName
    /\ waiters \in [DeviceName -> Seq(Job)]
    /\ pool \in Seq(Job)
    /\ outcome \in [Job -> {"none", "result", "error", "cancelled"}]

\* The waiters of a lock are the jobs whose acquire() has yet to resume, each once.
Queued == {"waiting", "promised", "revoked", "forfeited"}
Queues ==
    /\ \A d \in DeviceName : \A m, n \in 1 .. Len(waiters[d]) :
           waiters[d][m] = waiters[d][n] => m = n
    /\ \A d \in DeviceName : \A m \in 1 .. Len(waiters[d]) :
           Slot(waiters[d][m]) = d /\ acquire[waiters[d][m]] \in Queued
    /\ \A j \in Job : acquire[j] \in Queued =>
           \E m \in 1 .. Len(waiters[Slot(j)]) : waiters[Slot(j)][m] = j

\* The lock is promised to its first waiter only, and only while it is free.
Promises ==
    \A j \in Job : acquire[j] \in {"promised", "forfeited"} =>
        /\ Slot(j) \notin locked
        /\ waiters[Slot(j)] # <<>> /\ waiters[Slot(j)][1] = j

\* A lock that is held is taken, and held by one job.
OneHolder ==
    /\ \A j \in Job : acquire[j] = "held" => Slot(j) \in locked
    /\ \A i, j \in Job : (acquire[i] = "held" /\ acquire[j] = "held" /\ Slot(i) = Slot(j)) => i = j

\* A lock that is taken is held.
Taking == \A d \in locked : \E j \in Job : Slot(j) = d /\ acquire[j] = "held"

\* Where a job is, and what its acquire() has come to.
Holding ==
    \A j \in Job :
        /\ pc[j] = "unused" => acquire[j] = "none"
        /\ pc[j] = "waiting" => Slot(j) # "cpu" /\ acquire[j] \in {"waiting", "promised", "held"}
        /\ pc[j] \in InSlot => Slot(j) = "cpu" \/ acquire[j] = "held"
        /\ pc[j] = "ended" => acquire[j] \in {"none", "cancelled"}
        /\ acquire[j] \in {"waiting", "promised"} => pc[j] = "waiting"

\* A queue moves on: its lock is taken, or its first waiter is due to resume.
Moving ==
    \A d \in DeviceName : waiters[d] # <<>> =>
        d \in locked \/ acquire[waiters[d][1]] # "waiting"

\* The inductive invariant.
IInv ==
    /\ Types /\ Cardinality(Running) <= Workers
    /\ Queues /\ Promises /\ OneHolder /\ Taking /\ Holding /\ Moving

-----------------------------------------------------------------------------

LEMMA SlotName == \A j \in Job : Slot(j) \in DeviceName
  BY SchedulerAssumption DEF Slot, Canonical, DeviceName

\* What a removal leaves.
LEMMA WithoutProperties ==
    ASSUME NEW S, NEW s \in Seq(S), NEW p \in 1 .. Len(s),
           \A m, n \in 1 .. Len(s) : s[m] = s[n] => m = n
    PROVE  /\ Without(s, s[p]) \in Seq(S)
           /\ Len(Without(s, s[p])) = Len(s) - 1
           /\ \A m \in 1 .. Len(s) - 1 :
                  Without(s, s[p])[m] = IF m < p THEN s[m] ELSE s[m + 1]
  <1>1. (CHOOSE k \in DOMAIN s : s[k] = s[p]) = p
    BY DOMAIN s = 1 .. Len(s)
  <1> DEFINE a == SubSeq(s, 1, p - 1)
             b == SubSeq(s, p + 1, Len(s))
  <1>2. Without(s, s[p]) = a \o b
    BY <1>1 DEF Without, RemoveAt
  <1>3. a \in Seq(S) /\ Len(a) = p - 1 /\ \A m \in 1 .. p - 1 : a[m] = s[m]
    BY SubSeqProperties
  <1>4. b \in Seq(S) /\ Len(b) = Len(s) - p /\ \A m \in 1 .. Len(s) - p : b[m] = s[m + p]
    BY SubSeqProperties
  <1> HIDE DEF a, b
  <1>5. /\ a \o b \in Seq(S) /\ Len(a \o b) = Len(s) - 1
        /\ \A m \in 1 .. Len(s) - 1 : (a \o b)[m] = IF m <= Len(a) THEN a[m] ELSE b[m - Len(a)]
    <2>1. Len(a) + Len(b) = Len(s) - 1
      BY <1>3, <1>4
    <2>2. /\ a \o b \in Seq(S) /\ Len(a \o b) = Len(a) + Len(b)
          /\ \A m \in 1 .. Len(a) + Len(b) :
                 (a \o b)[m] = IF m <= Len(a) THEN a[m] ELSE b[m - Len(a)]
      BY <1>3, <1>4, ConcatProperties
    <2> QED
      BY <2>1, <2>2
  <1>6. ASSUME NEW m \in 1 .. Len(s) - 1
        PROVE  (a \o b)[m] = IF m < p THEN s[m] ELSE s[m + 1]
    <2>1. CASE m < p
      BY <1>3, <1>5, <2>1
    <2>2. CASE ~(m < p)
      <3>1. m - (p - 1) \in 1 .. Len(s) - p /\ (m - (p - 1)) + p = m + 1
        BY <2>2
      <3>2. b[m - (p - 1)] = s[m + 1]
        BY <1>4, <3>1
      <3> QED
        BY <1>3, <1>5, <2>2, <3>2
    <2> QED
      BY <2>1, <2>2
  <1> QED
    BY <1>2, <1>5, <1>6

\* The queue of a lock once a job has left it.
LEMMA Removal ==
    ASSUME IInv, NEW j \in Job, acquire[j] \in Queued,
           NEW q, q = Without(waiters[Slot(j)], j)
    PROVE  /\ q \in Seq(Job)
           /\ \A m, n \in 1 .. Len(q) : q[m] = q[n] => m = n
           /\ \A m \in 1 .. Len(q) :
                  q[m] # j /\ Slot(q[m]) = Slot(j) /\ acquire[q[m]] \in Queued
           /\ \A i \in Job : (i # j /\ Slot(i) = Slot(j) /\ acquire[i] \in Queued) =>
                  \E m \in 1 .. Len(q) : q[m] = i
           /\ waiters[Slot(j)] # <<>>
           /\ waiters[Slot(j)][1] # j => q # <<>> /\ q[1] = waiters[Slot(j)][1]
  <1> DEFINE s == waiters[Slot(j)]
  <1>1. s \in Seq(Job) /\ \A m, n \in 1 .. Len(s) : s[m] = s[n] => m = n
    BY SlotName DEF IInv, Types, Queues
  <1>2. PICK p \in 1 .. Len(s) : s[p] = j
    BY DEF IInv, Queues
  <1>3. \A m \in 1 .. Len(s) : Slot(s[m]) = Slot(j) /\ acquire[s[m]] \in Queued
    BY SlotName DEF IInv, Queues
  <1>4. \A i \in Job : (Slot(i) = Slot(j) /\ acquire[i] \in Queued) =>
            \E m \in 1 .. Len(s) : s[m] = i
    BY DEF IInv, Queues
  <1> HIDE DEF s
  <1>5. /\ q \in Seq(Job) /\ Len(q) = Len(s) - 1
        /\ \A m \in 1 .. Len(s) - 1 : q[m] = IF m < p THEN s[m] ELSE s[m + 1]
    <2>1. q = Without(s, s[p])
      BY <1>2 DEF s
    <2>2. /\ Without(s, s[p]) \in Seq(Job)
          /\ Len(Without(s, s[p])) = Len(s) - 1
          /\ \A m \in 1 .. Len(s) - 1 :
                 Without(s, s[p])[m] = IF m < p THEN s[m] ELSE s[m + 1]
      BY <1>1, <1>2, WithoutProperties
    <2> QED
      BY <2>1, <2>2
  <1>6. \A m, n \in 1 .. Len(q) : q[m] = q[n] => m = n
    <2> SUFFICES ASSUME NEW m \in 1 .. Len(q), NEW n \in 1 .. Len(q), q[m] = q[n] PROVE m = n
      OBVIOUS
    <2>1. q[m] = IF m < p THEN s[m] ELSE s[m + 1]
      BY <1>5
    <2>2. q[n] = IF n < p THEN s[n] ELSE s[n + 1]
      BY <1>5
    <2>3. (IF m < p THEN m ELSE m + 1) = (IF n < p THEN n ELSE n + 1)
      <3>1. /\ (IF m < p THEN m ELSE m + 1) \in 1 .. Len(s)
            /\ (IF n < p THEN n ELSE n + 1) \in 1 .. Len(s)
        BY <1>5
      <3>2. s[IF m < p THEN m ELSE m + 1] = s[IF n < p THEN n ELSE n + 1]
        BY <2>1, <2>2
      <3> QED
        BY <1>1, <3>1, <3>2
    <2> QED
      BY <2>3
  <1>7. \A m \in 1 .. Len(q) : q[m] # j /\ Slot(q[m]) = Slot(j) /\ acquire[q[m]] \in Queued
    BY <1>1, <1>2, <1>3, <1>5
  <1>8. ASSUME NEW i \in Job, i # j, Slot(i) = Slot(j), acquire[i] \in Queued
        PROVE  \E m \in 1 .. Len(q) : q[m] = i
    <2>1. PICK m \in 1 .. Len(s) : s[m] = i
      BY <1>4, <1>8
    <2>2. m # p
      BY <1>2, <1>8, <2>1
    <2>3. CASE m < p
      <3>1. m \in 1 .. Len(q) /\ q[m] = s[m]
        BY <1>5, <2>3
      <3> QED
        BY <2>1, <3>1
    <2>4. CASE m > p
      <3>1. m - 1 \in 1 .. Len(q) /\ q[m - 1] = s[m]
        BY <1>5, <2>4
      <3> QED
        BY <2>1, <3>1
    <2> QED
      BY <2>2, <2>3, <2>4
  <1>9. s # <<>> /\ (s[1] # j => q # <<>> /\ q[1] = s[1])
    BY <1>1, <1>2, <1>5
  <1> QED
    BY <1>5, <1>6, <1>7, <1>8, <1>9 DEF s

\* Whom a release wakes.
LEMMA Woken ==
    ASSUME NEW q \in Seq(Job), NEW states \in [Job -> AcquireState],
           NEW woken, woken = WakeFirst(q, states)
    PROVE  /\ woken \in [Job -> AcquireState]
           /\ \A i \in Job : woken[i] = states[i] \/
                  (q # <<>> /\ i = q[1] /\ states[i] = "waiting" /\ woken[i] = "promised")
           /\ q # <<>> => woken[q[1]] # "waiting"
  <1>1. q # <<>> => Head(q) = q[1] /\ q[1] \in Job
    OBVIOUS
  <1> QED
    BY <1>1 DEF WakeFirst, AcquireState

-----------------------------------------------------------------------------

\* No more jobs run than there are threads, unless one more starts.
LEMMA FewerRun ==
    ASSUME IInv, Running' \subseteq Running
    PROVE  Cardinality(Running') <= Workers
  <1>1. IsFiniteSet(Running)
    BY SchedulerAssumption, FS_Subset DEF Running
  <1>2. Cardinality(Running') <= Cardinality(Running) /\ IsFiniteSet(Running')
    BY <1>1, FS_Subset
  <1> QED
    BY <1>1, <1>2, FS_CardinalityType, SchedulerAssumption DEF IInv

\* A step that leaves the locks and their waiters alone.
LEMMA QuietStep ==
    ASSUME IInv, UNCHANGED <<acquire, locked, waiters>>, Types', Holding',
           Cardinality(Running') <= Workers
    PROVE  IInv'
  <1>1. Queues' /\ Promises' /\ OneHolder' /\ Taking' /\ Moving'
    BY DEF IInv, Queues, Promises, OneHolder, Taking, Moving, Slot, Canonical, Queued
  <1> QED
    BY <1>1 DEF IInv

\* The calls, and the steps of a job that has its slot or needs none.
LEMMA JobStep ==
    ASSUME IInv, NEW j \in Job,
           \/ Refused(j) \/ CallCpu(j) \/ Submit(j) \/ Deliver(j) \/ Skip(j) \/ Kernel(j)
           \/ Cancel(j)
    PROVE  IInv'
  <1>1. UNCHANGED <<acquire, locked, waiters>>
    BY DEF Refused, CallCpu, Submit, Deliver, Skip, Kernel, Cancel
  <1>2. Types'
    <2>1. Append(pool, j) \in Seq(Job)
      BY DEF IInv, Types
    <2>2. pool # <<>> => Tail(pool) \in Seq(Job)
      BY DEF IInv, Types
    <2> QED
      BY <1>1, <2>1, <2>2 DEF IInv, Types, PC, Goes, Taken, Refused, CallCpu, Submit, Deliver, Skip,
                              Kernel, Cancel
  <1>3. Holding'
    BY <1>1 DEF IInv, Types, PC, Holding, InSlot, Slot, Canonical, Goes, Taken, Refused, CallCpu,
                Submit, Deliver, Skip, Kernel, Cancel
  <1>4. Running' \subseteq Running
    BY DEF IInv, Types, Running, Goes, Refused, CallCpu, Submit, Deliver, Skip, Kernel, Cancel
  <1> QED
    BY <1>1, <1>2, <1>3, <1>4, QuietStep, FewerRun

\* A thread is taken only while one is idle.
LEMMA LaunchStep == ASSUME IInv, NEW j \in Job, Launch(j) PROVE IInv'
  <1>1. Types'
    BY DEF IInv, Types, PC, Goes, Taken, Launch
  <1>2. Holding'
    BY DEF IInv, Types, PC, Holding, InSlot, Slot, Canonical, Goes, Launch
  <1>3. Cardinality(Running') <= Workers
    <2>1. Running' = Running \cup {j}
      BY DEF IInv, Types, Running, Goes, Launch
    <2>2. IsFiniteSet(Running)
      BY SchedulerAssumption, FS_Subset DEF Running
    <2>3. Cardinality(Running \cup {j}) <= Cardinality(Running) + 1
      <3>1. Cardinality(Running) \in Nat
        BY <2>2, FS_CardinalityType
      <3>2. Cardinality(Running \cup {j})
                = IF j \in Running THEN Cardinality(Running) ELSE Cardinality(Running) + 1
        BY <2>2, FS_AddElement
      <3> QED
        BY <3>1, <3>2
    <2>4. Cardinality(Running) < Workers
      BY DEF Launch, Taken, Idle
    <2>5. Cardinality(Running) \in Nat /\ Cardinality(Running \cup {j}) \in Nat
      BY <2>2, FS_AddElement, FS_CardinalityType
    <2> QED
      BY <2>1, <2>3, <2>4, <2>5, SchedulerAssumption
  <1> QED
    BY <1>1, <1>2, <1>3, QuietStep DEF Launch

\* A waiter is promised the lock it takes: nobody else has it or is promised it.
LEMMA AcquiredStep == ASSUME IInv, NEW j \in Job, Acquired(j) PROVE IInv'
  <1> DEFINE d == Slot(j)
             q == Without(waiters[d], j)
  <1>0. d \in DeviceName /\ acquire[j] \in Queued
    BY SlotName DEF Acquired, Queued
  <1>1. /\ q \in Seq(Job) /\ \A m, n \in 1 .. Len(q) : q[m] = q[n] => m = n
        /\ \A m \in 1 .. Len(q) : q[m] # j /\ Slot(q[m]) = d /\ acquire[q[m]] \in Queued
        /\ \A i \in Job : (i # j /\ Slot(i) = d /\ acquire[i] \in Queued) =>
               \E m \in 1 .. Len(q) : q[m] = i
    BY <1>0, Removal
  <1>2. /\ acquire' = [acquire EXCEPT ![j] = "held"] /\ locked' = locked \cup {d}
        /\ waiters' = [waiters EXCEPT ![d] = q]
        /\ UNCHANGED <<pc, cancelled, pool, outcome>> /\ acquire[j] = "promised"
    BY DEF Acquired
  <1>3. /\ d \notin locked /\ waiters[d][1] = j
    BY <1>2 DEF IInv, Promises
  <1> HIDE DEF q, d
  <1>4. Types'
    BY <1>0, <1>1, <1>2 DEF IInv, Types, AcquireState
  <1>5. Queues'
    BY <1>0, <1>1, <1>2, SlotName DEF IInv, Types, Queues, Queued, d
  <1>6. Promises'
    <2>1. \A i \in Job : i # j /\ acquire[i] \in {"promised", "forfeited"} => Slot(i) # d
      BY <1>3 DEF IInv, Promises
    <2> QED
      BY <1>0, <1>2, <2>1, SlotName DEF IInv, Types, Promises
  <1>7. OneHolder' /\ Taking'
    BY <1>0, <1>2, <1>3 DEF IInv, Types, OneHolder, Taking, d
  <1>8. Holding'
    BY <1>2 DEF IInv, Types, Holding
  <1>9. Moving'
    <2>1. \A e \in DeviceName : e # d /\ waiters[e] # <<>> => Slot(waiters[e][1]) = e
      BY DEF IInv, Types, Queues
    <2> QED
      BY <1>0, <1>2, <2>1 DEF IInv, Types, Moving, d
  <1>10. Cardinality(Running') <= Workers
    BY <1>2, FewerRun DEF Running
  <1> QED
    BY <1>4, <1>5, <1>6, <1>7, <1>8, <1>9, <1>10 DEF IInv

\* A waiter that was cancelled passes on what it was promised.
LEMMA AcquireCancelledStep == ASSUME IInv, NEW j \in Job, AcquireCancelled(j) PROVE IInv'
  <1> DEFINE d == Slot(j)
             q == Without(waiters[d], j)
             states == [acquire EXCEPT ![j] = "cancelled"]
  <1>0. d \in DeviceName /\ acquire[j] \in Queued
    BY SlotName DEF AcquireCancelled, Queued
  <1>1. /\ q \in Seq(Job) /\ \A m, n \in 1 .. Len(q) : q[m] = q[n] => m = n
        /\ \A m \in 1 .. Len(q) : q[m] # j /\ Slot(q[m]) = d /\ acquire[q[m]] \in Queued
        /\ \A i \in Job : (i # j /\ Slot(i) = d /\ acquire[i] \in Queued) =>
               \E m \in 1 .. Len(q) : q[m] = i
        /\ waiters[d][1] # j => q # <<>> /\ q[1] = waiters[d][1]
    BY <1>0, Removal
  <1>2. /\ waiters' = [waiters EXCEPT ![d] = q]
        /\ acquire' = IF d \in locked THEN states ELSE WakeFirst(waiters'[d], states)
        /\ UNCHANGED <<pc, cancelled, locked, pool, outcome>>
        /\ acquire[j] \in {"revoked", "forfeited"}
    BY DEF AcquireCancelled
  <1>3. waiters'[d] = q /\ \A e \in DeviceName : e # d => waiters'[e] = waiters[e]
    BY <1>0, <1>2 DEF IInv, Types
  <1>4. states \in [Job -> AcquireState]
    BY DEF IInv, Types, AcquireState
  <1>5. /\ acquire' \in [Job -> AcquireState]
        /\ \A i \in Job : acquire'[i] = states[i] \/
               (d \notin locked /\ q # <<>> /\ i = q[1] /\ states[i] = "waiting"
                    /\ acquire'[i] = "promised")
        /\ d \notin locked /\ q # <<>> => acquire'[q[1]] # "waiting"
    <2>1. /\ WakeFirst(q, states) \in [Job -> AcquireState]
          /\ \A i \in Job : WakeFirst(q, states)[i] = states[i] \/
                 (q # <<>> /\ i = q[1] /\ states[i] = "waiting"
                      /\ WakeFirst(q, states)[i] = "promised")
          /\ q # <<>> => WakeFirst(q, states)[q[1]] # "waiting"
      <3> HIDE DEF states, q
      <3> QED
        BY <1>1, <1>4, Woken
    <2>2. CASE d \in locked
      BY <1>2, <1>4, <2>2
    <2>3. CASE d \notin locked
      <3> HIDE DEF states, q, d
      <3>1. acquire' = WakeFirst(q, states)
        BY <1>2, <1>3, <2>3
      <3> QED
        BY <2>1, <2>3, <3>1
    <2> QED
      BY <2>2, <2>3
  <1>6. /\ acquire'[j] = "cancelled"
        /\ \A i \in Job : i # j => states[i] = acquire[i]
    BY <1>1, <1>5 DEF IInv, Types
  <1> HIDE DEF q, d, states
  <1>7. Types'
    BY <1>0, <1>1, <1>2, <1>5 DEF IInv, Types
  <1>8. Queues'
    <2>1. \A i \in Job : i # j => (acquire'[i] \in Queued <=> acquire[i] \in Queued)
      BY <1>5, <1>6 DEF Queued
    <2>2. acquire'[j] \notin Queued
      BY <1>6 DEF Queued
    <2>3. \A e \in DeviceName : \A m \in 1 .. Len(waiters'[e]) :
              /\ waiters'[e][m] \in Job /\ waiters'[e][m] # j
              /\ Slot(waiters'[e][m]) = e /\ acquire[waiters'[e][m]] \in Queued
      BY <1>0, <1>1, <1>3 DEF IInv, Types, Queues, d
    <2>4. \A e \in DeviceName : \A m, n \in 1 .. Len(waiters'[e]) :
              waiters'[e][m] = waiters'[e][n] => m = n
      BY <1>1, <1>3 DEF IInv, Queues
    <2>5. ASSUME NEW i \in Job, i # j, acquire[i] \in Queued
          PROVE  \E m \in 1 .. Len(waiters'[Slot(i)]) : waiters'[Slot(i)][m] = i
      BY <1>1, <1>3, <2>5, SlotName DEF IInv, Queues
    <2> QED
      BY <2>1, <2>2, <2>3, <2>4, <2>5 DEF Queues, Slot, Canonical
  <1>9. Promises'
    <2> SUFFICES ASSUME NEW i \in Job, acquire'[i] \in {"promised", "forfeited"}
                 PROVE  /\ Slot(i) \notin locked
                        /\ waiters'[Slot(i)] # <<>> /\ waiters'[Slot(i)][1] = i
      BY <1>2 DEF Promises, Slot, Canonical
    <2>1. i # j
      BY <1>6
    <2>2. CASE acquire'[i] = acquire[i]
      <3>1. Slot(i) \notin locked /\ waiters[Slot(i)] # <<>> /\ waiters[Slot(i)][1] = i
        BY <2>2 DEF IInv, Promises
      <3> QED
        BY <1>0, <1>1, <1>3, <2>1, <3>1, SlotName
    <2>3. CASE acquire'[i] # acquire[i]
      <3>1. d \notin locked /\ q # <<>> /\ i = q[1]
        BY <1>5, <1>6, <2>1, <2>3
      <3>2. Slot(i) = d
        BY <1>1, <3>1
      <3> QED
        BY <1>3, <3>1, <3>2
    <2> QED
      BY <2>2, <2>3
  <1>10. \A i \in Job : (acquire'[i] = "held" <=> acquire[i] = "held")
    BY <1>2, <1>5, <1>6
  <1>11. OneHolder' /\ Taking'
    BY <1>2, <1>10 DEF IInv, OneHolder, Taking, Slot, Canonical
  <1>12. Holding'
    <2>1. pc[j] \notin {"unused", "waiting"} /\ (pc[j] \in InSlot => Slot(j) = "cpu")
      BY <1>2 DEF IInv, Holding, InSlot
    <2>2. \A i \in Job : i # j =>
              \/ acquire'[i] = acquire[i]
              \/ acquire[i] = "waiting" /\ acquire'[i] = "promised"
      BY <1>5, <1>6
    <2> QED
      BY <1>2, <1>6, <2>1, <2>2 DEF IInv, Holding, InSlot, Slot, Canonical
  <1>13. Moving'
    <2> SUFFICES ASSUME NEW e \in DeviceName, waiters'[e] # <<>>, e \notin locked
                 PROVE  acquire'[waiters'[e][1]] # "waiting"
      BY <1>2 DEF Moving
    <2>1. CASE e = d
      BY <1>3, <1>5, <2>1
    <2>2. CASE e # d
      <3>1. /\ waiters[e] # <<>> /\ waiters[e][1] \in Job
            /\ Slot(waiters[e][1]) = e /\ acquire[waiters[e][1]] # "waiting"
        BY <1>3, <2>2 DEF IInv, Types, Queues, Moving
      <3> QED
        BY <1>3, <1>5, <1>6, <2>2, <3>1
    <2> QED
      BY <2>1, <2>2
  <1>14. Cardinality(Running') <= Workers
    BY <1>2, FewerRun DEF Running
  <1> QED
    BY <1>7, <1>8, <1>9, <1>11, <1>12, <1>13, <1>14 DEF IInv

\* A newcomer takes a free lock or waits behind those who are there.
LEMMA CallDeviceStep == ASSUME IInv, NEW j \in Job, CallDevice(j) PROVE IInv'
  <1> DEFINE d == Slot(j)
  <1>0. d \in DeviceName
    BY SlotName
  <1>1. /\ acquire[j] = "none" /\ d # "cpu"
        /\ pc' = [pc EXCEPT ![j] = "waiting"]
        /\ UNCHANGED <<cancelled, pool, outcome>>
    BY DEF CallDevice, Goes, IInv, Holding
  <1>2. Cardinality(Running') <= Workers
    <2>1. Running' \subseteq Running
      BY <1>1 DEF Running, IInv, Types
    <2> QED
      BY <2>1, FewerRun
  <1>3. CASE Free(d)
    <2>1. /\ acquire' = [acquire EXCEPT ![j] = "held"] /\ locked' = locked \cup {d}
          /\ UNCHANGED waiters
      BY <1>3 DEF CallDevice
    <2>2. d \notin locked /\ \A m \in 1 .. Len(waiters[d]) : acquire[waiters[d][m]] = "revoked"
      <3>1. \A m \in 1 .. Len(waiters[d]) : waiters[d][m] \in ToSet(waiters[d])
        BY <1>0 DEF IInv, Types, ToSet
      <3> QED
        BY <1>3, <3>1 DEF Free
    <2> HIDE DEF d
    <2>3. Types' /\ Holding'
      BY <1>0, <1>1, <2>1 DEF IInv, Types, PC, AcquireState, Holding, InSlot, Slot, Canonical, d
    <2>4. Queues' /\ Moving'
      <3>1. acquire'[j] = "held" /\ \A i \in Job : i # j => acquire'[i] = acquire[i]
        BY <2>1 DEF IInv, Types
      <3>2. \A e \in DeviceName : \A m \in 1 .. Len(waiters[e]) :
                /\ waiters[e][m] \in Job /\ waiters[e][m] # j
                /\ acquire'[waiters[e][m]] = acquire[waiters[e][m]]
        BY <1>1, <3>1 DEF IInv, Types, Queues, Queued
      <3>3. Queues'
        BY <2>1, <3>1, <3>2 DEF IInv, Queues, Queued, Slot, Canonical
      <3>4. \A e \in DeviceName : waiters[e] # <<>> => 1 \in 1 .. Len(waiters[e])
        BY DEF IInv, Types
      <3>5. Moving'
        BY <2>1, <3>2, <3>4 DEF IInv, Moving
      <3> QED
        BY <3>3, <3>5
    <2>5. \A i \in Job : acquire[i] \in {"promised", "forfeited"} => Slot(i) # d
      BY <2>2 DEF IInv, Queues, Queued
    <2>6. Promises'
      BY <1>1, <2>1, <2>5 DEF IInv, Types, Promises, Slot, Canonical
    <2>7. OneHolder' /\ Taking'
      BY <1>0, <2>1, <2>2 DEF IInv, Types, OneHolder, Taking, Slot, Canonical, d
    <2> QED
      BY <1>2, <2>3, <2>4, <2>6, <2>7 DEF IInv
  <1>4. CASE ~Free(d)
    <2> DEFINE q == Append(waiters[d], j)
    <2>1. /\ acquire' = [acquire EXCEPT ![j] = "waiting"] /\ waiters' = [waiters EXCEPT ![d] = q]
          /\ UNCHANGED locked
      BY <1>4 DEF CallDevice
    <2>2. waiters[d] \in Seq(Job)
      BY <1>0 DEF IInv, Types
    <2>3. /\ q \in Seq(Job) /\ q # <<>> /\ Len(q) = Len(waiters[d]) + 1
          /\ \A m \in 1 .. Len(waiters[d]) : q[m] = waiters[d][m]
          /\ q[Len(waiters[d]) + 1] = j
      BY <2>2
    <2>4. waiters[d] = <<>> => d \in locked /\ q[1] = j
      <3>1. waiters[d] = <<>> => ToSet(waiters[d]) = {}
        BY DEF ToSet
      <3> QED
        BY <1>4, <2>2, <2>3, <3>1 DEF Free
    <2>5. waiters[d] # <<>> => q[1] = waiters[d][1] /\ q[1] \in Job /\ acquire[q[1]] \in Queued
      BY <1>0, <2>2, <2>3 DEF IInv, Queues
    <2>6. \A m \in 1 .. Len(waiters[d]) : waiters[d][m] # j
      BY <1>0, <1>1 DEF IInv, Queues, Queued
    <2>7. waiters'[d] = q /\ \A e \in DeviceName : e # d => waiters'[e] = waiters[e]
      BY <1>0, <2>1 DEF IInv, Types
    <2> HIDE DEF q, d
    <2>8. Types' /\ Holding'
      BY <1>0, <1>1, <2>1, <2>3
         DEF IInv, Types, PC, AcquireState, Holding, InSlot, Slot, Canonical, d
    <2>9. Queues'
      <3>1. ASSUME NEW e \in DeviceName, NEW m \in 1 .. Len(waiters'[e])
            PROVE  Slot(waiters'[e][m]) = e /\ acquire'[waiters'[e][m]] \in Queued
        <4>1. CASE e # d
          BY <2>1, <2>7, <3>1, <4>1 DEF IInv, Types, Queues, Queued
        <4>2. CASE e = d /\ m \in 1 .. Len(waiters[d])
          BY <2>1, <2>2, <2>3, <2>7, <4>2, <1>0 DEF IInv, Types, Queues, Queued
        <4>3. CASE e = d /\ m = Len(waiters[d]) + 1
          BY <2>1, <2>3, <2>7, <4>3 DEF IInv, Types, Queued, d
        <4> QED
          BY <2>2, <2>3, <2>7, <3>1, <4>1, <4>2, <4>3
      <3>2. ASSUME NEW e \in DeviceName, NEW m \in 1 .. Len(waiters'[e]),
                   NEW n \in 1 .. Len(waiters'[e]), waiters'[e][m] = waiters'[e][n]
            PROVE  m = n
        <4>1. CASE e # d
          BY <2>7, <3>2, <4>1 DEF IInv, Queues
        <4>2. CASE e = d
          <5>1. \A k, l \in 1 .. Len(waiters[d]) : waiters[d][k] = waiters[d][l] => k = l
            BY <1>0 DEF IInv, Queues
          <5> QED
            BY <2>2, <2>3, <2>6, <2>7, <3>2, <4>2, <5>1
        <4> QED
          BY <4>1, <4>2
      <3>3. ASSUME NEW i \in Job, acquire'[i] \in Queued
            PROVE  \E m \in 1 .. Len(waiters'[Slot(i)]) : waiters'[Slot(i)][m] = i
        <4>1. CASE i = j
          BY <2>2, <2>3, <2>7, <4>1 DEF d
        <4>2. CASE i # j
          <5>1. PICK m \in 1 .. Len(waiters[Slot(i)]) : waiters[Slot(i)][m] = i
            BY <2>1, <3>3, <4>2 DEF IInv, Types, Queues
          <5> QED
            BY <2>2, <2>3, <2>7, <5>1, SlotName
        <4> QED
          BY <4>1, <4>2
      <3> QED
        BY <3>1, <3>2, <3>3 DEF Queues, Slot, Canonical
    <2>10. Promises'
      BY <1>1, <2>1, <2>4, <2>5, <2>7, <2>3, SlotName DEF IInv, Types, Promises, Slot, Canonical
    <2>11. OneHolder' /\ Taking'
      BY <1>1, <2>1 DEF IInv, Types, OneHolder, Taking, Slot, Canonical
    <2>12. Moving'
      <3> SUFFICES ASSUME NEW e \in DeviceName, waiters'[e] # <<>>, e \notin locked
                   PROVE  acquire'[waiters'[e][1]] # "waiting"
        BY <2>1 DEF Moving
      <3>1. waiters[e] # <<>> /\ waiters'[e][1] = waiters[e][1]
        BY <2>4, <2>5, <2>7
      <3>2. acquire[waiters[e][1]] # "waiting" /\ waiters[e][1] \in Job /\ waiters[e][1] # j
        <4>1. 1 \in 1 .. Len(waiters[e])
          BY <3>1 DEF IInv, Types
        <4>2. waiters[e][1] \in Job /\ acquire[waiters[e][1]] \in Queued
          BY <4>1 DEF IInv, Types, Queues
        <4> QED
          BY <1>1, <3>1, <4>2, <2>1 DEF IInv, Moving, Queued
      <3> QED
        BY <2>1, <3>1, <3>2 DEF IInv, Types
    <2> QED
      BY <1>2, <2>8, <2>9, <2>10, <2>11, <2>12 DEF IInv
  <1> QED
    BY <1>3, <1>4

\* A job that gives up leaves what it was promised to its acquire().
LEMMA AbandonStep == ASSUME IInv, NEW j \in Job, Abandon(j) PROVE IInv'
  <1> DEFINE now == CASE acquire[j] = "waiting" -> "revoked"
                      [] acquire[j] = "promised" -> "forfeited"
                      [] OTHER -> acquire[j]
  <1>1. /\ pc[j] = "waiting" /\ pc' = [pc EXCEPT ![j] = "cleanup"]
        /\ acquire' = [acquire EXCEPT ![j] = now]
        /\ outcome' = [outcome EXCEPT ![j] = "cancelled"]
        /\ UNCHANGED <<cancelled, locked, waiters, pool>>
    BY DEF Abandon, Goes
  <1>2. \/ acquire[j] = "waiting" /\ now = "revoked"
        \/ acquire[j] = "promised" /\ now = "forfeited"
        \/ acquire[j] = "held" /\ now = "held"
    BY <1>1 DEF IInv, Holding
  <1> HIDE DEF now
  <1>3. Types' /\ Holding'
    BY <1>1, <1>2 DEF IInv, Types, PC, AcquireState, Holding, InSlot, Slot, Canonical
  <1>4. Queues' /\ Moving'
    BY <1>1, <1>2 DEF IInv, Types, Queues, Queued, Moving, Slot, Canonical
  <1>5. Promises' /\ OneHolder' /\ Taking'
    BY <1>1, <1>2 DEF IInv, Types, Promises, OneHolder, Taking, Slot, Canonical
  <1>6. Running' \subseteq Running
    BY <1>1 DEF Running, IInv, Types
  <1> QED
    BY <1>3, <1>4, <1>5, <1>6, FewerRun DEF IInv

\* A job that ends releases what it holds, and the first waiter is promised it.
LEMMA FinishStep == ASSUME IInv, NEW j \in Job, Finish(j) PROVE IInv'
  <1> DEFINE d == Slot(j)
             states == [acquire EXCEPT ![j] = "none"]
  <1>0. d \in DeviceName
    BY SlotName
  <1>1. /\ acquire[j] \in {"none", "held", "cancelled"}
        /\ pc[j] = "cleanup" /\ pc' = [pc EXCEPT ![j] = "ended"]
        /\ UNCHANGED <<cancelled, waiters, pool>>
        /\ outcome' \in [Job -> {"none", "result", "error", "cancelled"}]
    BY DEF Finish, Goes, IInv, Types
  <1>2. Cardinality(Running') <= Workers
    <2>1. Running' \subseteq Running
      BY <1>1 DEF Running, IInv, Types
    <2> QED
      BY <2>1, FewerRun
  <1>3. CASE acquire[j] # "held"
    <2>1. UNCHANGED <<acquire, locked>>
      BY <1>3 DEF Finish, Acquires
    <2>2. Types' /\ Holding'
      BY <1>1, <1>3, <2>1 DEF IInv, Types, PC, Holding, InSlot, Slot, Canonical
    <2> QED
      BY <1>1, <1>2, <2>1, <2>2, QuietStep
  <1>4. CASE acquire[j] = "held"
    <2>1. locked' = locked \ {d} /\ acquire' = WakeFirst(waiters[d], states)
      BY <1>4 DEF Finish, Acquires
    <2>2. waiters[d] \in Seq(Job) /\ states \in [Job -> AcquireState]
      BY <1>0 DEF IInv, Types, AcquireState
    <2>3. /\ acquire' \in [Job -> AcquireState]
          /\ \A i \in Job : acquire'[i] = states[i] \/
                 (waiters[d] # <<>> /\ i = waiters[d][1] /\ states[i] = "waiting"
                      /\ acquire'[i] = "promised")
          /\ waiters[d] # <<>> => acquire'[waiters[d][1]] # "waiting"
      <3> HIDE DEF states, d
      <3> QED
        BY <2>1, <2>2, Woken
    <2>4. d \in locked /\ \A i \in Job : i # j /\ Slot(i) = d => acquire[i] # "held"
      BY <1>4 DEF IInv, OneHolder
    <2>5. /\ acquire'[j] = "none"
          /\ \A i \in Job : i # j => states[i] = acquire[i]
      BY <2>3 DEF IInv, Types
    <2> HIDE DEF states, d
    <2>6. \A i \in Job : i # j =>
              \/ acquire'[i] = acquire[i]
              \/ /\ waiters[d] # <<>> /\ i = waiters[d][1] /\ Slot(i) = d
                 /\ acquire[i] = "waiting" /\ acquire'[i] = "promised"
      BY <1>0, <2>2, <2>3, <2>5 DEF IInv, Queues
    <2>7. Types' /\ Holding'
      BY <1>1, <2>1, <2>3, <2>5, <2>6
         DEF IInv, Types, PC, Holding, InSlot, Slot, Canonical
    <2>8. Queues'
      <3>1. \A i \in Job : acquire'[i] \in Queued <=> acquire[i] \in Queued
        BY <1>4, <2>5, <2>6 DEF Queued
      <3>2. \A e \in DeviceName : \A m \in 1 .. Len(waiters[e]) : waiters[e][m] \in Job
        BY DEF IInv, Types
      <3> QED
        BY <1>1, <3>1, <3>2 DEF IInv, Queues, Slot, Canonical
    <2>9. Promises'
      <3> SUFFICES ASSUME NEW i \in Job, acquire'[i] \in {"promised", "forfeited"}
                   PROVE  /\ Slot(i) \notin locked'
                          /\ waiters[Slot(i)] # <<>> /\ waiters[Slot(i)][1] = i
        BY <1>1 DEF Promises, Slot, Canonical
      <3>1. CASE acquire[i] \in {"promised", "forfeited"}
        BY <2>1, <3>1 DEF IInv, Promises
      <3>2. CASE acquire[i] \notin {"promised", "forfeited"}
        BY <2>1, <2>5, <2>6, <3>2
      <3> QED
        BY <3>1, <3>2
    <2>10. OneHolder' /\ Taking'
      <3>1. \A i \in Job : acquire'[i] = "held" <=> (i # j /\ acquire[i] = "held")
        BY <2>5, <2>6
      <3> QED
        BY <1>4, <2>1, <2>4, <3>1 DEF IInv, OneHolder, Taking, Slot, Canonical, d
    <2>11. Moving'
      <3> SUFFICES ASSUME NEW e \in DeviceName, waiters[e] # <<>>, e \notin locked'
                   PROVE  acquire'[waiters[e][1]] # "waiting"
        BY <1>1 DEF Moving
      <3>1. CASE e = d
        BY <2>3, <3>1
      <3>2. CASE e # d
        <4>1. waiters[e][1] \in Job /\ acquire[waiters[e][1]] # "waiting"
          BY <2>1, <3>2 DEF IInv, Types, Moving
        <4> QED
          BY <2>5, <2>6, <4>1
      <3> QED
        BY <3>1, <3>2
    <2> QED
      BY <1>2, <2>7, <2>8, <2>9, <2>10, <2>11 DEF IInv
  <1> QED
    BY <1>3, <1>4

-----------------------------------------------------------------------------

LEMMA InitIInv == Init => IInv
  <1> SUFFICES ASSUME Init PROVE IInv
    OBVIOUS
  <1>1. Types /\ Queues /\ Promises /\ OneHolder /\ Taking /\ Holding /\ Moving
    BY SlotName DEF Init, Types, PC, AcquireState, Queues, Queued, Promises, OneHolder, Taking,
                    Holding, InSlot, Moving
  <1>2. Running = {}
    BY DEF Init, Running
  <1> QED
    BY <1>1, <1>2, FS_EmptySet, SchedulerAssumption DEF IInv

\* The invariant is inductive.
LEMMA NextIInv == IInv /\ [Next]_vars => IInv'
  <1> SUFFICES ASSUME IInv, [Next]_vars PROVE IInv'
    OBVIOUS
  <1>1. CASE Next
    BY <1>1, JobStep, LaunchStep, AcquiredStep, AcquireCancelledStep, CallDeviceStep, AbandonStep,
       FinishStep DEF Next, Call, Progress
  <1>2. CASE UNCHANGED vars
    <2>1. Types' /\ Holding'
      BY <1>2 DEF IInv, Types, Holding, Slot, Canonical
    <2>2. Running' \subseteq Running
      BY <1>2 DEF Running
    <2> QED
      BY <1>2, <2>1, <2>2, QuietStep, FewerRun
  <1> QED
    BY <1>1, <1>2

LEMMA IInvHolds == Spec => []IInv
  BY InitIInv, NextIInv, PTL DEF Spec

\* Two names of one GPU share a slot.
LEMMA OneSlotPerGpu ==
    \A i, j \in Job : Gpu(i) \cap Gpu(j) # {} => Slot(i) = Slot(j) /\ Slot(i) # "cpu"
  BY SchedulerAssumption DEF Gpu, Slot, Canonical, DeviceName

\* DeviceScheduler.run: the jobs of one GPU, whatever name each gave it, are in its slot one
\* at a time, no more calls run than there are threads, and a slot that is waited for is held
\* by a job that has yet to end or is about to be taken or passed on by its first waiter.
THEOREM DeviceExclusiveHolds == Spec => []DeviceExclusive
  <1>1. IInv => DeviceExclusive
    <2> SUFFICES ASSUME IInv PROVE DeviceExclusive
      OBVIOUS
    <2>1. TypeOK
      BY DEF IInv, Types, TypeOK
    <2>2. GpuExclusive
      BY OneSlotPerGpu DEF IInv, OneHolder, Holding, GpuExclusive
    <2>3. SlotKept
      <3> SUFFICES ASSUME NEW d \in DeviceName, waiters[d] # <<>>
                   PROVE  \/ \E j \in Job : Slot(j) = d /\ acquire[j] = "held" /\ pc[j] # "ended"
                          \/ acquire[Head(waiters[d])] \in {"promised", "revoked", "forfeited"}
        BY DEF SlotKept
      <3>1. CASE d \in locked
        BY <3>1 DEF IInv, Taking, Holding
      <3>2. CASE d \notin locked
        <4>1. Head(waiters[d]) = waiters[d][1] /\ 1 \in 1 .. Len(waiters[d])
          BY DEF IInv, Types
        <4>2. acquire[waiters[d][1]] \in Queued /\ acquire[waiters[d][1]] # "waiting"
          BY <3>2, <4>1 DEF IInv, Queues, Moving
        <4> QED
          BY <4>1, <4>2 DEF Queued
      <3> QED
        BY <3>1, <3>2
    <2> QED
      BY <2>1, <2>2, <2>3 DEF DeviceExclusive
  <1> QED
    BY <1>1, IInvHolds, PTL

\* No kernel starts for a job that was cancelled, and no job that was cancelled before it
\* ended returns a result (DeviceScheduler._run and its invoke).
THEOREM CancelRespectedHolds == Spec => CancelRespected
  <1>1. IInv /\ [Next]_vars =>
            [\A j \in cancelled :
                /\ pc'[j] = "running" => pc[j] = "running"
                /\ outcome'[j] = "result" => pc'[j] # "ended" \/ pc[j] = "ended"]_vars
    <2> SUFFICES ASSUME IInv, Next, NEW j \in cancelled
                 PROVE  /\ pc'[j] = "running" => pc[j] = "running"
                        /\ outcome'[j] = "result" => pc'[j] # "ended" \/ pc[j] = "ended"
      OBVIOUS
    <2>1. PICK i \in Job : Call(i) \/ Progress(i) \/ Kernel(i) \/ Cancel(i)
      BY DEF Next
    <2>2. /\ pc \in [Job -> PC] /\ j \in Job
          /\ outcome \in [Job -> {"none", "result", "error", "cancelled"}]
      BY DEF IInv, Types
    <2> QED
      BY <2>1, <2>2 DEF Call, Progress, Goes, Unwanted, Refused, CallCpu, CallDevice, Acquired,
                        AcquireCancelled, Submit, Abandon, Deliver, Finish, Launch, Skip, Kernel,
                        Cancel
  <1> QED
    BY <1>1, IInvHolds, PTL DEF Spec, CancelRespected
=============================================================================
