-------------------------- MODULE DeviceScheduler --------------------------
(***************************************************************************)
(* Execution slots of the compute devices                                  *)
(* (DeviceScheduler in backend/src/llm_model_explorer/operations.py) over  *)
(* the shared thread pool (BlockingWork in execution.py).                  *)
(*                                                                         *)
(* Coroutines interleave at their awaits, threads at any time.  A job      *)
(* waits for the asyncio.Lock of its device in a task of its own, so that  *)
(* its cancellation can overtake the lock, and then for a thread.          *)
(* asyncio.Lock is external code, modelled as its tasks step: a release    *)
(* only promises the lock to the first waiter, and a waiter that is        *)
(* cancelled passes the promise on when its task next runs.                *)
(***************************************************************************)
EXTENDS Naturals, FiniteSets, Sequences, SequencesExt

CONSTANTS
    Job,        \* calls of DeviceScheduler.run
    Device,     \* the device name each job is given
    Workers     \* threads of the pool

DeviceName == {"cpu", "cuda", "cuda:0", "cuda:1"}

ASSUME SchedulerAssumption ==
    /\ IsFiniteSet(Job)
    /\ Device \in [Job -> DeviceName]
    /\ Workers \in Nat \ {0}

\* Mutant: the names are used as they come.
Canonical_Literal(d) == d
Canonical(d) == IF d = "cuda" THEN "cuda:0" ELSE d
Slot(j) == Canonical(Device[j])

VARIABLES
    pc,         \* where _run of each job is
    acquire,    \* the task lock.acquire() of each job
    cancelled,  \* the jobs whose Cancellation is set
    locked,     \* the devices whose lock is taken
    waiters,    \* the waiters of each lock, in order
    pool,       \* the calls waiting for a thread, in order
    outcome     \* what each job returned or raised

vars == <<pc, acquire, cancelled, locked, waiters, pool, outcome>>

\* "promised" is a waiter whose future is resolved.  Its task may be cancelled before
\* ("revoked": the future is cancelled too) or after that ("forfeited").
AcquireState == {"none", "waiting", "promised", "revoked", "forfeited", "held", "cancelled"}
PC == {"unused", "waiting", "queued", "running", "returned", "cleanup", "ended"}
Running == {j \in Job : pc[j] = "running"}

\* The pool never runs more calls than it has threads.
TypeOK ==
    /\ pc \in [Job -> PC]
    /\ acquire \in [Job -> AcquireState]
    /\ cancelled \subseteq Job
    /\ locked \subseteq DeviceName
    /\ waiters \in [DeviceName -> Seq(Job)]
    /\ pool \in Seq(Job)
    /\ outcome \in [Job -> {"none", "result", "error", "cancelled"}]
    /\ Cardinality(Running) <= Workers

Init ==
    /\ pc = [j \in Job |-> "unused"]
    /\ acquire = [j \in Job |-> "none"]
    /\ cancelled = {}
    /\ locked = {}
    /\ waiters = [d \in DeviceName |-> <<>>]
    /\ pool = <<>>
    /\ outcome = [j \in Job |-> "none"]

Goes(j, from, to) == pc[j] = from /\ pc' = [pc EXCEPT ![j] = to]

-----------------------------------------------------------------------------
(* asyncio.Lock                                                            *)

\* A newcomer takes a free lock only when every waiter was cancelled.
Free(d) == d \notin locked /\ \A j \in ToSet(waiters[d]) : acquire[j] = "revoked"

\* _wake_up_first: the first waiter is promised the lock unless its future is done.
WakeFirst(queue, states) ==
    IF queue # <<>> /\ states[Head(queue)] = "waiting"
    THEN [states EXCEPT ![Head(queue)] = "promised"]
    ELSE states

\* waiters.remove(future): a job waits once.
Without(queue, j) == RemoveAt(queue, CHOOSE k \in DOMAIN queue : queue[k] = j)

\* lock.acquire() resumes with the promise kept.
Acquired(j) ==
    /\ acquire[j] = "promised"
    /\ acquire' = [acquire EXCEPT ![j] = "held"]
    /\ locked' = locked \cup {Slot(j)}
    /\ waiters' = [waiters EXCEPT ![Slot(j)] = Without(@, j)]
    /\ UNCHANGED <<pc, cancelled, pool, outcome>>

\* lock.acquire() resumes with CancelledError and passes on what it was promised.
AcquireCancelled(j) ==
    /\ acquire[j] \in {"revoked", "forfeited"}
    /\ waiters' = [waiters EXCEPT ![Slot(j)] = Without(@, j)]
    /\ LET states == [acquire EXCEPT ![j] = "cancelled"]
       IN acquire' = IF Slot(j) \in locked THEN states ELSE WakeFirst(waiters'[Slot(j)], states)
    /\ UNCHANGED <<pc, cancelled, locked, pool, outcome>>

-----------------------------------------------------------------------------
(* DeviceScheduler._run                                                    *)

\* A job whose cancellation is set already raises before it waits for anything.
Refused(j) ==
    /\ j \in cancelled
    /\ Goes(j, "unused", "ended")
    /\ outcome' = [outcome EXCEPT ![j] = "cancelled"]
    /\ UNCHANGED <<acquire, cancelled, locked, waiters, pool>>

\* A CPU job goes to the pool without a slot.
CallCpu(j) ==
    /\ j \notin cancelled /\ Slot(j) = "cpu"
    /\ Goes(j, "unused", "queued")
    /\ pool' = Append(pool, j)
    /\ UNCHANGED <<acquire, cancelled, locked, waiters, outcome>>

CallDevice(j) ==
    /\ j \notin cancelled /\ Slot(j) # "cpu"
    /\ Goes(j, "unused", "waiting")
    /\ IF Free(Slot(j))
       THEN /\ acquire' = [acquire EXCEPT ![j] = "held"]
            /\ locked' = locked \cup {Slot(j)}
            /\ UNCHANGED waiters
       ELSE /\ acquire' = [acquire EXCEPT ![j] = "waiting"]
            /\ waiters' = [waiters EXCEPT ![Slot(j)] = Append(@, j)]
            /\ UNCHANGED locked
    /\ UNCHANGED <<cancelled, pool, outcome>>

\* asyncio.wait returned with the lock, and the cancellation is not set.
Submit(j) ==
    /\ acquire[j] = "held" /\ j \notin cancelled
    /\ Goes(j, "waiting", "queued")
    /\ pool' = Append(pool, j)
    /\ UNCHANGED <<acquire, cancelled, locked, waiters, outcome>>

\* asyncio.wait returned and the cancellation is set, whether or not the lock came too.
GivesUp(j) == j \in cancelled

\* finally: an acquire that is not done is cancelled.
Abandon(j) ==
    /\ GivesUp(j)
    /\ Goes(j, "waiting", "cleanup")
    /\ acquire' = [acquire EXCEPT ![j] = CASE @ = "waiting" -> "revoked"
                                          [] @ = "promised" -> "forfeited"
                                          [] OTHER -> @]
    /\ outcome' = [outcome EXCEPT ![j] = "cancelled"]
    /\ UNCHANGED <<cancelled, locked, waiters, pool>>

\* The event loop takes delivery of what the thread left.
Deliver(j) ==
    /\ Goes(j, "returned", "cleanup")
    /\ UNCHANGED <<acquire, cancelled, locked, waiters, pool, outcome>>

\* Mutant: a job that was cancelled with the lock in its hands forgets to release it.
Acquires_Served(j) == acquire[j] = "held" /\ outcome[j] # "cancelled"
\* The local variable acquired.
Acquires(j) == acquire[j] = "held"

\* finally: gather, release, and a last look at the cancellation before the result.
Finish(j) ==
    /\ acquire[j] \in {"none", "held", "cancelled"}
    /\ Goes(j, "cleanup", "ended")
    /\ IF Acquires(j)
       THEN /\ locked' = locked \ {Slot(j)}
            /\ acquire' = WakeFirst(waiters[Slot(j)], [acquire EXCEPT ![j] = "none"])
       ELSE UNCHANGED <<locked, acquire>>
    /\ outcome' = [outcome EXCEPT ![j] =
                       IF @ = "result" /\ j \in cancelled THEN "cancelled" ELSE @]
    /\ UNCHANGED <<cancelled, waiters, pool>>

-----------------------------------------------------------------------------
(* The thread pool                                                         *)

Idle == Cardinality(Running) < Workers

\* Mutant: the job was checked when it was submitted.
Unwanted_Never(j) == FALSE
\* invoke checks the cancellation again on its thread.
Unwanted(j) == j \in cancelled

Taken(j) == Idle /\ pool # <<>> /\ Head(pool) = j /\ pool' = Tail(pool)

Launch(j) ==
    /\ Taken(j) /\ ~Unwanted(j)
    /\ Goes(j, "queued", "running")
    /\ UNCHANGED <<acquire, cancelled, locked, waiters, outcome>>

Skip(j) ==
    /\ Taken(j) /\ Unwanted(j)
    /\ Goes(j, "queued", "returned")
    /\ outcome' = [outcome EXCEPT ![j] = "cancelled"]
    /\ UNCHANGED <<acquire, cancelled, locked, waiters>>

\* The kernel returns or raises: it cannot be interrupted.
Kernel(j) ==
    /\ Goes(j, "running", "returned")
    /\ \E result \in {"result", "error"} : outcome' = [outcome EXCEPT ![j] = result]
    /\ UNCHANGED <<acquire, cancelled, locked, waiters, pool>>

-----------------------------------------------------------------------------

\* The consumer's token, or the cancellation of the task that called run().
Cancel(j) ==
    /\ j \notin cancelled /\ pc[j] # "ended"
    /\ cancelled' = cancelled \cup {j}
    /\ UNCHANGED <<pc, acquire, locked, waiters, pool, outcome>>

Call(j) == Refused(j) \/ CallCpu(j) \/ CallDevice(j)
Progress(j) ==
    \/ Acquired(j) \/ AcquireCancelled(j) \/ Submit(j) \/ Abandon(j) \/ Deliver(j) \/ Finish(j)
    \/ Launch(j) \/ Skip(j)

Next == \E j \in Job : Call(j) \/ Progress(j) \/ Kernel(j) \/ Cancel(j)

\* The event loop runs what is ready and an idle thread takes the next call; a kernel may
\* run for ever.
Spec == Init /\ [][Next]_vars /\ \A j \in Job : WF_vars(Progress(j))

-----------------------------------------------------------------------------

InSlot == {"queued", "running", "returned"}

\* The GPU a job runs on, as the driver sees it: "cuda" is the first one.
Gpu(j) == CASE Device[j] \in {"cuda", "cuda:0"} -> {0} [] Device[j] = "cuda:1" -> {1}
            [] OTHER -> {}

\* The jobs of one GPU, whatever name they gave it, pass one at a time: none is even
\* submitted to the pool while another waits there, runs or has yet to give the slot back.
\* Nor is a slot lost between a release, a cancellation and a promise.
GpuExclusive ==
    \A i, j \in Job :
        (i # j /\ Gpu(i) \cap Gpu(j) # {}) => ~(pc[i] \in InSlot /\ pc[j] \in InSlot)

\* While a job waits for a device, its lock is held by a job that has yet to end, or a
\* waiter's task is due to run and will take it or pass it on.
SlotKept ==
    \A d \in DeviceName :
        waiters[d] # <<>> =>
            \/ \E j \in Job : Slot(j) = d /\ acquire[j] = "held" /\ pc[j] # "ended"
            \/ acquire[Head(waiters[d])] \in {"promised", "revoked", "forfeited"}

\* The slot of a GPU is held by one job at a time, and by one that will give it back.
DeviceExclusive == TypeOK /\ GpuExclusive /\ SlotKept

\* No kernel starts for a job that was cancelled, however late it gets its thread, and no
\* job that was cancelled before it ended returns a result.
CancelRespected ==
    [][\A j \in cancelled :
          /\ pc'[j] = "running" => pc[j] = "running"
          /\ outcome'[j] = "result" => pc'[j] # "ended" \/ pc[j] = "ended"]_vars

\* "Cancellation wakes queued jobs immediately": a job that is cancelled while it waits for
\* its device ends, even if the kernel that occupies the device never does.
\* And if kernels return, every job that was called ends.
JobsEnd ==
    /\ \A j \in Job : (pc[j] = "waiting" /\ j \in cancelled) ~> pc[j] = "ended"
    /\ (\A j \in Job : []<>(pc[j] # "running")) =>
          \A j \in Job : [](pc[j] \in {"waiting", "queued"} => <>(pc[j] = "ended"))

=============================================================================
