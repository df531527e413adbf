------------------------------ MODULE Services ------------------------------
(***************************************************************************)
(* The life of the application (backend/src/llm_model_explorer/services.py *)
(* and ApplicationServer of app.py): preparation before readiness,         *)
(* requests for architectures and neuron experiments, and the teardown of  *)
(* what serves them.                                                       *)
(*                                                                         *)
(* Of the observer and the sessions, which have modules of their own, only *)
(* their place in the teardown is kept.                                    *)
(***************************************************************************)
EXTENDS ArchitectureService, NeuronRuntime

CONSTANT Uses   \* what each client asks for: "architecture" or "neurons"

ASSUME ServicesAssumption ==
    /\ Run = Client
    /\ Uses \in [Client -> SUBSET {"architecture", "neurons"}]

VARIABLES phase, exiting

Phase == {"starting", "ready", "draining", "sessions", "neurons", "architectures", "pool", "closed"}

vars == <<disk, serviceVars, neuronVars, phase, exiting>>

Init ==
    /\ ServiceInit /\ NeuronInit
    /\ phase = "starting" /\ exiting = FALSE

-----------------------------------------------------------------------------
(* Startup.                                                                *)

StartupEnded == job[Startup].stage \in Ended

\* prepare() has returned: ready, or back through the teardown.
Prepared ==
    /\ phase = "starting" /\ StartupEnded
    /\ phase' = IF job[Startup].stage = "ok" /\ ~exiting THEN "ready" ELSE "sessions"
    /\ job' = [job EXCEPT ![Startup] = NoJob]
    /\ UNCHANGED <<disk, prepared, stored, lock, stop, pool, req, neuronVars, exiting>>

\* handle_exit: a startup is stopped and cancelled, and drains its thread; a server that
\* is ready ends its event streams and drains its requests.
Exit ==
    /\ ~exiting /\ phase \in {"starting", "ready"}
    /\ exiting' = TRUE
    /\ IF phase = "starting" THEN Stop /\ UNCHANGED phase
       ELSE phase' = "draining" /\ UNCHANGED serviceVars
    /\ UNCHANGED <<disk, neuronVars>>

Idle(c) == req[c].stage \in {"none", "done"} /\ run[c].stage \in {"none", "ended"}

\* The requests have been answered, or a second signal does not wait for them.
Drained(forced) ==
    /\ phase = "draining"
    /\ forced \/ \A c \in Client : Idle(c)
    /\ phase' = "sessions"
    /\ UNCHANGED <<disk, serviceVars, neuronVars, exiting>>

-----------------------------------------------------------------------------
(* Teardown: each step is taken whether or not the one before it raised.   *)

\* sessions.aclose: every consumer is cancelled, and with it its run; the runs may be
\* left behind if it raises.
CloseSessions(raised) ==
    /\ phase = "sessions"
    /\ raised \/ Active = {}
    /\ phase' = "neurons"
    /\ Refuse
    /\ UNCHANGED <<serviceVars, exiting>>

\* neurons.aclose: the runs have settled.
NeuronsSettled == Unload

\* ... and architectures.aclose begins.
CloseNeurons ==
    /\ phase = "neurons" /\ NeuronsSettled
    /\ phase' = "architectures"
    /\ Stop
    /\ UNCHANGED exiting

\* Mutant: setting the stop flag is taken for the end of the work.
ArchitecturesSettled_AtOnce == stop
\* architectures.aclose: the tasks that were pending have settled.
ArchitecturesSettled == Pending = {}

CloseArchitectures ==
    /\ phase = "architectures" /\ ArchitecturesSettled
    /\ phase' = "pool"
    /\ UNCHANGED <<disk, serviceVars, neuronVars, exiting>>

InThread == {"check", "lookup", "serve", "guard"}

\* work.aclose: calls in the pool end, or are cancelled, and new ones are refused.
ClosePool ==
    /\ phase = "pool" /\ pool' = FALSE
    /\ phase' = "closed"
    /\ req' = [c \in Client |->
         IF req[c].stage \in InThread THEN [req[c] EXCEPT !.stage = "done", !.answer = "failed"]
         ELSE req[c]]
    /\ UNCHANGED <<disk, prepared, stored, job, lock, stop, neuronVars, exiting>>

Teardown ==
    \/ CloseSessions(FALSE) \/ CloseNeurons \/ CloseArchitectures \/ ClosePool

\* sessions.aclose cancels what runs.
CancelAll ==
    /\ phase = "sessions"
    /\ \E t \in Run : CancelRun(t)
    /\ UNCHANGED <<serviceVars, phase, exiting>>

-----------------------------------------------------------------------------
Rest == <<neuronVars, phase, exiting>>
Architecture == <<serviceVars, phase, exiting>>

Serves(c) == Serving(c) /\ UNCHANGED Rest
Works(j) == Worker(j) /\ UNCHANGED Rest
Tasks(k) == (Ensure(k) \/ Finished(k)) /\ UNCHANGED Rest
Runs(t) == Progress(t) /\ UNCHANGED Architecture

Request(c) ==
    /\ phase = "ready" /\ Idle(c)
    /\ \/ "architecture" \in Uses[c] /\ Get(c) /\ UNCHANGED Rest
       \/ "neurons" \in Uses[c] /\ Start(c) /\ UNCHANGED Architecture

Environment ==
    \/ Change /\ UNCHANGED <<serviceVars, neuronVars, phase, exiting>>
    \/ (Evict \/ \E c \in Client : Leave(c)) /\ UNCHANGED Rest
    \/ (\E t \in Run : CancelRun(t)) /\ UNCHANGED Architecture

Step ==
    \/ \E c \in Client : Serves(c)
    \/ \E j \in Job : Works(j)
    \/ \E k \in Content : Tasks(k)
    \/ \E t \in Run : Runs(t)
    \/ Prepared \/ CancelAll \/ Teardown \/ Drained(FALSE)

Next ==
    \/ Step \/ Environment \/ Exit \/ Drained(TRUE) \/ CloseSessions(TRUE)
    \/ \E c \in Client : Request(c)

Spec == Init /\ [][Next]_vars

\* Threads, kernels and the event loop go on; as each client asks once, nothing can be
\* starved by others for ever.
LiveSpec == Spec /\ WF_vars(Step)

-----------------------------------------------------------------------------
\* No service outlives what it works with: once the pool is closed nothing is pending
\* or runs that would need it, or hold the device, and the model is gone.
PoolClosedLast ==
    /\ ServiceTypeOK /\ phase \in Phase
    /\ ~pool => Pending = {} /\ job[Startup] = NoJob /\ Active = {} /\ model = Nobody
    /\ phase \in {"ready", "draining"} => job[Startup] = NoJob

\* A startup that was told to exit never becomes ready, and what it was about to publish
\* when its thread looked at the stop flag stays unpublished: nothing is published or
\* prepared any more once the teardown of the architectures is over.
NothingAfterClose ==
    [][/\ PoolClosedLast'
       /\ phase \in {"pool", "closed"} =>
             /\ prepared' = prepared /\ model' = model
             /\ stored' \subseteq stored]_vars

\* The server that is told to exit, whenever that is, answers the requests that it drains
\* and closes: no task waits for a lock, a result or a thread that never comes.
ExitCompletes == exiting ~> phase = "closed" /\ \A c \in Client : Idle(c)
=============================================================================
