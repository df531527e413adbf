---------------------------- MODULE NeuronRuntime ----------------------------
(***************************************************************************)
(* The one resident model of neuron experiments                            *)
(* (backend/src/llm_model_explorer/neuron_execution/runtime.py).           *)
(*                                                                         *)
(* A run waits for the runtime's lock, racing its cancellation, and for    *)
(* the execution slot of the device, which is DeviceScheduler's affair.    *)
(* Then a thread checks the source, loads the weights if another model is  *)
(* resident, computes and checks again.                                    *)
(***************************************************************************)
EXTENDS PinnedFiles

CONSTANTS
    Run,        \* calls of run()
    Nobody

\* How a run ends that has no result.
Unsuccessful == {"failure", "cancelled", "refused"}

ASSUME NeuronAssumption ==
    /\ Nobody \notin Run \cup Content \cup Unsuccessful
    /\ Content \cap Unsuccessful = {}

VARIABLES
    run,        \* each run: its stage, source, cancellation and outcome
    owner,      \* the run with NeuronRuntime._lock
    model,      \* _model: the content its weights were read from
    key,        \* _key
    dirty,      \* history: a run that failed has used the resident model
    refusing    \* NeuronRuntime._closed

neuronVars == <<run, owner, model, key, dirty, refusing>>

NoRun == [stage |-> "none", source |-> Nobody, cancelled |-> FALSE, outcome |-> Nobody]

NeuronInit ==
    /\ run = [t \in Run |-> NoRun]
    /\ owner = Nobody /\ model = Nobody /\ key = Nobody
    /\ dirty = FALSE /\ refusing = FALSE

-----------------------------------------------------------------------------
(* The event loop.                                                         *)

Wanted(t) == Fingerprint(run[t].source)
Stage(t, stage) == run' = [run EXCEPT ![t].stage = stage]
Ends(t, outcome) == run' = [run EXCEPT ![t].stage = "ended", ![t].outcome = outcome]
Resident == <<model, key, dirty>>

\* run(), from a session that pinned the files at some time.
Start(t) ==
    /\ run[t].stage = "none"
    /\ \E v \in 0..disk :
        run' = [run EXCEPT ![t].source = v,
                           ![t].stage = IF refusing THEN "ended" ELSE "waiting",
                           ![t].outcome = IF refusing THEN "refused" ELSE Nobody]
    /\ UNCHANGED <<disk, owner, Resident, refusing>>

\* A consumer is cancelled, or the task that awaits run() is.
CancelRun(t) ==
    /\ run[t].stage \notin {"none", "ended"} /\ ~run[t].cancelled
    /\ run' = [run EXCEPT ![t].cancelled = TRUE]
    /\ UNCHANGED <<disk, owner, Resident, refusing>>

\* _run: the lock came first, or the cancellation did.
Own(t) ==
    /\ run[t].stage = "waiting"
    /\ IF run[t].cancelled THEN Ends(t, "cancelled") /\ UNCHANGED owner
       ELSE owner = Nobody /\ owner' = t /\ Stage(t, "queued")
    /\ UNCHANGED <<disk, Resident, refusing>>

\* scheduler.run: the slot of the device and a thread, sooner or later, unless it is
\* cancelled before.
Occupy(t) ==
    /\ run[t].stage = "queued"
    /\ IF run[t].cancelled THEN Ends(t, "cancelled") /\ owner' = Nobody
       ELSE Stage(t, "check") /\ UNCHANGED owner
    /\ UNCHANGED <<disk, Resident, refusing>>

\* The thread has returned: the lock is given back.
Return(t) ==
    /\ run[t].stage = "returned"
    /\ Ends(t, IF run[t].cancelled THEN "cancelled" ELSE run[t].outcome)
    /\ owner' = Nobody
    /\ UNCHANGED <<disk, Resident, refusing>>

-----------------------------------------------------------------------------
(* _execute, in its thread.                                                *)

Loop == <<disk, owner, refusing>>
Good(t) == Unchanged(run[t].source) /\ ~run[t].cancelled

Drop == model' = Nobody /\ key' = Nobody /\ dirty' = FALSE

\* Mutant: only a load that fails drops the model.
Failure_KeepsLoaded == UNCHANGED <<model, key>> /\ dirty' = (model # Nobody)
\* Any failure drops the model.
Failure == Drop

Fails(t) ==
    /\ run' = [run EXCEPT ![t].stage = "finally", ![t].outcome = "failure"]
    /\ Failure

\* The weights of the resident model are those of the key, or it is dropped.
Inspect(t) ==
    /\ run[t].stage = "check"
    /\ \/ ~Good(t) /\ Fails(t)
       \/ Good(t) /\ key = Wanted(t) /\ Stage(t, "lease") /\ UNCHANGED Resident
       \/ Good(t) /\ key # Wanted(t) /\ Stage(t, "load") /\ Drop
    /\ UNCHANGED Loop

\* load_model: all the blocks, each guarded by the source and the cancellation, or an
\* error.
Load(t) ==
    /\ run[t].stage = "load"
    /\ \/ /\ Good(t)
          /\ model' = ContentOf[disk] /\ key' = Wanted(t) /\ dirty' = FALSE
          /\ Stage(t, "lease")
       \/ Fails(t)
    /\ UNCHANGED Loop

Lease(t) ==
    /\ run[t].stage = "lease"
    /\ IF Good(t) THEN Stage(t, "compute") /\ UNCHANGED Resident ELSE Fails(t)
    /\ UNCHANGED Loop

\* The operation: hooks and forwards, a result of these weights, or any error.
Compute(t) ==
    /\ run[t].stage = "compute"
    /\ \/ /\ run' = [run EXCEPT ![t].stage = "verify", ![t].outcome = model]
          /\ UNCHANGED Resident
       \/ Fails(t)
    /\ UNCHANGED Loop

Verify(t) ==
    /\ run[t].stage = "verify"
    /\ IF Good(t) THEN Stage(t, "finally") /\ UNCHANGED Resident ELSE Fails(t)
    /\ UNCHANGED Loop

\* finally: the device is synchronized, which may report a late error, and the source
\* checked once more; the lease closes whatever that says.
Finalize(t) ==
    /\ run[t].stage = "finally"
    /\ \/ /\ Unchanged(run[t].source)
          /\ Stage(t, "returned") /\ UNCHANGED Resident
       \/ /\ run' = [run EXCEPT ![t].stage = "returned", ![t].outcome = "failure"]
          /\ Failure
    /\ UNCHANGED Loop

Execute(t) ==
    Inspect(t) \/ Load(t) \/ Lease(t) \/ Compute(t) \/ Verify(t) \/ Finalize(t)

Progress(t) == Own(t) \/ Occupy(t) \/ Return(t) \/ Execute(t)

Active == {t \in Run : run[t].stage \notin {"none", "ended"}}

\* aclose() begins: no new runs, and the others are cancelled.
Refuse ==
    /\ refusing' = TRUE
    /\ run' = [t \in Run |-> IF t \in Active THEN [run[t] EXCEPT !.cancelled = TRUE] ELSE run[t]]
    /\ UNCHANGED <<disk, owner, Resident>>

\* aclose(): when they have settled the model goes.
Unload == Active = {} /\ Drop /\ UNCHANGED <<run, Loop>>

-----------------------------------------------------------------------------
NeuronStage == {"none", "waiting", "queued", "check", "load", "lease", "compute", "verify",
                "finally", "returned", "ended"}

NeuronTypeOK ==
    /\ \A t \in Run : run[t].stage \in NeuronStage
    /\ owner \in Run \cup {Nobody}
    /\ key \in Content \cup {Nobody}
    /\ refusing \in BOOLEAN

Leased == {"lease", "compute", "verify"}

\* Whatever is loaded, dropped, cancelled or fails in between, a run computes with the
\* weights of the content its session pinned, alone with them, and with an instance that
\* no failed run has left its hooks or activations in.
OwnCleanWeights ==
    /\ NeuronTypeOK
    /\ key = model /\ ~dirty
    /\ \A t \in Run :
        /\ run[t].stage \in Leased => owner = t /\ model = Wanted(t)
        /\ run[t].outcome \in Content => run[t].outcome = Wanted(t)
    /\ Active = {} => owner = Nobody
=============================================================================
