---------------------------- MODULE ModelObserver ----------------------------
(***************************************************************************)
(* Shared observation of the model catalogue for any number of event       *)
(* streams (backend/src/llm_model_explorer/model_events.py and the         *)
(* response of model_routes.py).                                           *)
(*                                                                         *)
(* The first subscriber starts the observer task and the last one waits    *)
(* until it has settled.  Each tick captures the generation of the         *)
(* catalogue and, if it is the one of the tick before, observes it and     *)
(* puts the state into the one-frame queue of each subscriber; failures    *)
(* are retried after a number of ticks that doubles.                       *)
(*                                                                         *)
(* What Sessions has a name for has another here (ObserverSpec, halted for *)
(* closed), so that one module can reason about both users of a catalogue. *)
(***************************************************************************)
EXTENDS ModelCatalogue, FiniteSets

CONSTANTS
    Subscriber,   \* event streams, for one model id
    Joins,        \* how often each of them may be opened
    Capacity,     \* MAX_SUBSCRIBERS
    MaxDelay,     \* the longest back-off in ticks (32)
    Observer,     \* the thread of the observer's calls; the others serve requests
    Aclose        \* the holder of _lifetime while aclose() settles

\* What a stream may be told.
State == [status : {"error", "present", "unavailable"},
          revision : [model : Version, shard : Version]]

ASSUME ObserverAssumption ==
    /\ Joins \in Nat /\ Capacity \in Nat \ {0}
    /\ MaxDelay \in Nat \ {0}
    /\ Observer \in Caller
    /\ Aclose \notin Subscriber /\ None \notin Subscriber \cup {Aclose}
    /\ None \notin State \cup [state : State]

VARIABLES
    spc,        \* each stream: its request, its response and its unsubscription
    joins,      \* how often each has been opened
    members,    \* observer._subscribers
    queue,      \* the queue of each subscription, one frame at most
    state,      \* subscription.state
    delivered,  \* history: the last frame each stream has taken
    lifetime,   \* the holder of _lifetime
    task,       \* the observer task
    stop,       \* observer._stop is set
    halted,     \* observer._closed
    closing,    \* aclose(): "no", "waiting", "settling" or "done"
    previous,   \* the locals of _run
    failure,
    retry,
    delay

streamVars == <<spc, joins, members, lifetime>>
frameVars == <<queue, state, delivered>>
localVars == <<previous, failure, retry, delay>>
stopVars == <<stop, halted, closing>>
observerVars == <<catalogueVars, streamVars, frameVars, task, stopVars, localVars>>

\* Python's None in a queue.
End == [state |-> None]

ObserverInit ==
    /\ CatalogueInit
    /\ spc = [s \in Subscriber |-> "out"] /\ joins = [s \in Subscriber |-> 0]
    /\ members = {} /\ lifetime = None
    /\ queue = [s \in Subscriber |-> <<>>]
    /\ state = [s \in Subscriber |-> None] /\ delivered = [s \in Subscriber |-> None]
    /\ task = "none" /\ stop = FALSE /\ halted = FALSE /\ closing = "no"
    /\ previous = None /\ failure = None /\ retry = 0 /\ delay = 1

-----------------------------------------------------------------------------
(* Event streams.                                                          *)

Streams == <<catalogueVars, task, stopVars, localVars>>

\* subscribe() with _lifetime: a place, registration before observation, and a task.
Join(s) ==
    /\ lifetime = None
    /\ IF halted \/ Cardinality(members) >= Capacity
       THEN /\ spc' = [spc EXCEPT ![s] = "out"]
            /\ UNCHANGED <<members, frameVars, task, stop, localVars>>
       ELSE /\ members' = members \cup {s}
            /\ spc' = [spc EXCEPT ![s] = "in"]
            /\ queue' = [queue EXCEPT ![s] = <<>>]
            /\ state' = [state EXCEPT ![s] = None]
            /\ delivered' = [delivered EXCEPT ![s] = None]
            /\ IF task = "none"
               THEN /\ task' = "loop" /\ stop' = FALSE
                    /\ previous' = None /\ failure' = None /\ retry' = 0 /\ delay' = 1
               ELSE UNCHANGED <<task, stop, localVars>>
    /\ UNCHANGED <<catalogueVars, lifetime, halted, closing>>

\* GET /models/events: at once if nobody settles the task, else when it has settled.
Open(s) ==
    /\ spc[s] = "out" /\ joins[s] < Joins
    /\ joins' = [joins EXCEPT ![s] = @ + 1]
    /\ \/ Join(s)
       \/ /\ lifetime # None
          /\ spc' = [spc EXCEPT ![s] = "joining"]
          /\ UNCHANGED <<Streams, frameVars, members, lifetime>>

Joined(s) == spc[s] = "joining" /\ Join(s) /\ UNCHANGED joins

\* ModelEventResponse.frames: the next frame; None ends the stream.
Take(s) ==
    /\ spc[s] = "in" /\ queue[s] # <<>>
    /\ queue' = [queue EXCEPT ![s] = <<>>]
    /\ IF queue[s][1] = End
       THEN spc' = [spc EXCEPT ![s] = "leaving"] /\ UNCHANGED delivered
       ELSE delivered' = [delivered EXCEPT ![s] = queue[s][1]] /\ UNCHANGED spc
    /\ UNCHANGED <<Streams, joins, members, lifetime, state>>

\* The client goes away, or the response fails.
Leave(s) ==
    /\ spc[s] = "in"
    /\ spc' = [spc EXCEPT ![s] = "leaving"]
    /\ UNCHANGED <<Streams, frameVars, joins, members, lifetime>>

\* Mutant: unsubscribe does not wait for the task of the last subscriber.
Departed_AtOnce(s) == lifetime' = None /\ spc' = [spc EXCEPT ![s] = "out"]
\* The last subscriber keeps _lifetime until the task has settled.
Departed(s) ==
    IF members' = {} /\ task # "none"
    THEN lifetime' = s /\ spc' = [spc EXCEPT ![s] = "settling"]
    ELSE lifetime' = None /\ spc' = [spc EXCEPT ![s] = "out"]

\* unsubscribe() with _lifetime.
Unsubscribe(s) ==
    /\ spc[s] = "leaving" /\ lifetime = None
    /\ members' = members \ {s}
    /\ stop' = (stop \/ members' = {})
    /\ Departed(s)
    /\ UNCHANGED <<catalogueVars, joins, frameVars, task, halted, closing, localVars>>

\* _settle: the task has ended by itself.
Settle(s) ==
    /\ spc[s] = "settling" /\ task = "done"
    /\ task' = "none" /\ lifetime' = None
    /\ spc' = [spc EXCEPT ![s] = "out"]
    /\ UNCHANGED <<catalogueVars, joins, members, frameVars, stopVars, localVars>>

-----------------------------------------------------------------------------
(* Shutdown.                                                               *)

\* Mutant: a stream that has an unread frame is told only by it.
Told_IfEmpty(s) == IF queue[s] = <<>> THEN <<End>> ELSE queue[s]
\* None takes the place of an unread frame.
Told(s) == <<End>>

\* request_stop(): by the server before it waits for its requests, and by aclose().
RequestStop ==
    /\ ~halted
    /\ halted' = TRUE /\ stop' = TRUE
    /\ queue' = [s \in Subscriber |-> IF s \in members THEN Told(s) ELSE queue[s]]
    /\ UNCHANGED <<catalogueVars, streamVars, state, delivered, task, closing,
                   localVars>>

\* aclose() after its request_stop().
AcloseBegin ==
    /\ closing = "no" /\ halted /\ lifetime = None
    /\ stop' = TRUE
    /\ IF task = "none"
       THEN closing' = "done" /\ members' = {} /\ UNCHANGED lifetime
       ELSE closing' = "settling" /\ lifetime' = Aclose /\ UNCHANGED members
    /\ UNCHANGED <<catalogueVars, spc, joins, frameVars, task, halted, localVars>>

AcloseEnd ==
    /\ closing = "settling" /\ task = "done"
    /\ closing' = "done" /\ task' = "none" /\ lifetime' = None /\ members' = {}
    /\ UNCHANGED <<catalogueVars, spc, joins, frameVars, stop, halted, localVars>>

-----------------------------------------------------------------------------
(* The observer task (_run and _publish).                                  *)

\* Mutant: one memory of the last state for all the subscribers.
Due_Shared(value) ==
    IF halted \/ \E s \in members : state[s] = value THEN {} ELSE members
\* The subscribers that have not been told this state.
Due(value) == IF halted THEN {} ELSE {s \in members : state[s] # value}

\* Mutant: put a frame only into an empty queue.
Replaced_IfEmpty(s, value) == IF queue[s] = <<>> THEN <<[state |-> value]>> ELSE queue[s]
\* subscription.replace().
Replaced(s, value) == <<[state |-> value]>>

\* _publish: a frame takes the place of an unread one.
Publish(value) ==
    /\ queue' = [s \in Subscriber |-> IF s \in Due(value) THEN Replaced(s, value) ELSE queue[s]]
    /\ state' = [s \in Subscriber |-> IF s \in Due(value) THEN value ELSE state[s]]
    /\ UNCHANGED delivered

Error == [status |-> "error", revision |-> Nothing]
StateOf(found) ==
    IF found.model \in Absent THEN [status |-> "unavailable", revision |-> Nothing]
    ELSE [status |-> "present", revision |-> found]

Run == <<streamVars, stopVars>>
Shared == <<disk, seen, cached, holder>>

\* _wait_tick returns after a tick or because of _stop; so does the task's first step.
Tick ==
    /\ task = "loop"
    /\ IF stop THEN task' = "done" /\ UNCHANGED call
       ELSE task' = "generation" /\ Call(Observer, "generation", Nothing)
    /\ UNCHANGED <<Shared, Run, frameVars, localVars>>

\* A subscriber that joins during the back-off is told of the failure as well.
Remind(generation) ==
    IF generation = failure THEN Publish(Error) ELSE UNCHANGED frameVars

\* The generation is not the one of the tick before.
Unsettled ==
    /\ task = "generation" /\ call[Observer].stage = "ok"
    /\ call[Observer].found # previous
    /\ previous' = call[Observer].found /\ retry' = 0 /\ delay' = 1
    /\ Remind(call[Observer].found)
    /\ Taken(Observer) /\ task' = "loop"
    /\ UNCHANGED <<Shared, Run, failure>>

BackOff ==
    /\ task = "generation" /\ call[Observer].stage = "ok"
    /\ call[Observer].found = previous /\ retry > 0
    /\ retry' = retry - 1
    /\ Remind(previous)
    /\ Taken(Observer) /\ task' = "loop"
    /\ UNCHANGED <<Shared, Run, previous, failure, delay>>

Observe ==
    /\ task = "generation" /\ call[Observer].stage = "ok"
    /\ call[Observer].found = previous /\ retry = 0
    /\ call' = [call EXCEPT ![Observer].stage = "lock", ![Observer].op = "observe",
                            ![Observer].expected = previous]
    /\ task' = "observe"
    /\ UNCHANGED <<Shared, Run, frameVars, localVars>>

\* metadata_generation() raises.
GenerationFails ==
    /\ task = "generation" /\ call[Observer].stage = "error"
    /\ previous' = None
    /\ Publish(Error)
    /\ Taken(Observer) /\ task' = "loop"
    /\ UNCHANGED <<Shared, Run, failure, retry, delay>>

\* observe() returns: publish unless the last subscriber has left meanwhile.
Observed ==
    /\ task = "observe" /\ call[Observer].stage = "ok"
    /\ IF stop THEN UNCHANGED frameVars ELSE Publish(StateOf(call[Observer].found))
    /\ failure' = None /\ delay' = 1
    /\ Taken(Observer) /\ task' = "loop"
    /\ UNCHANGED <<Shared, Run, previous, retry>>

Shorter(m, n) == IF m < n THEN m ELSE n

ObserveFails ==
    /\ task = "observe" /\ call[Observer].stage = "error"
    /\ failure' = previous /\ retry' = delay /\ delay' = Shorter(delay * 2, MaxDelay)
    /\ Publish(Error)
    /\ Taken(Observer) /\ task' = "loop"
    /\ UNCHANGED <<Shared, Run, previous>>

-----------------------------------------------------------------------------
Observing ==
    \/ Tick \/ Unsettled \/ BackOff \/ Observe \/ GenerationFails \/ Observed
    \/ ObserveFails

Loop == <<streamVars, frameVars, task, stopVars, localVars>>
Work(w) == CatalogueStep(w) /\ UNCHANGED Loop

Streaming(s) == Joined(s) \/ Take(s) \/ Unsubscribe(s) \/ Settle(s)

ObserverNext ==
    \/ Observing \/ \E w \in Caller : Work(w)
    \/ \E s \in Subscriber : Open(s) \/ Streaming(s) \/ Leave(s)
    \/ RequestStop \/ AcloseBegin \/ AcloseEnd
    \/ Change /\ UNCHANGED Loop

ObserverSpec == ObserverInit /\ [][ObserverNext]_observerVars

\* The event loop and the threads run, ticks elapse, a stream that has a frame sends it,
\* and aclose(), once called, goes on.  Clients and other programs need not do anything.
LiveSpec ==
    /\ ObserverSpec
    /\ WF_observerVars(Observing)
    /\ \A w \in Caller : WF_observerVars(Work(w))
    /\ \A s \in Subscriber : WF_observerVars(Streaming(s))
    /\ WF_observerVars(AcloseEnd)

-----------------------------------------------------------------------------
(* Safety.                                                                 *)

ObserverTypeOK ==
    /\ CatalogueTypeOK
    /\ spc \in [Subscriber -> {"out", "joining", "in", "leaving", "settling"}]
    /\ members \subseteq Subscriber /\ lifetime \in Subscriber \cup {None, Aclose}
    /\ task \in {"none", "loop", "generation", "observe", "done"}
    /\ stop \in BOOLEAN /\ halted \in BOOLEAN /\ closing \in {"no", "settling", "done"}
    /\ retry \in 0..MaxDelay /\ delay \in 1..MaxDelay

\* A slow stream loses old frames but never the newest: whatever the interleaving, the
\* state it was told last is waiting in its queue or was delivered, and after
\* request_stop() the end of the stream is.
NewestFrameKept ==
    \A s \in members :
        spc[s] = "in" =>
            /\ halted => queue[s] = <<End>>
            /\ ~halted /\ queue[s] # <<>> =>
                 queue[s][1].state = state[s]
            /\ ~halted /\ queue[s] = <<>> /\ state[s] # None =>
                 delivered[s] # None /\ delivered[s].state = state[s]

\* One observer serves all: while somebody subscribes it is at work, whoever left or came
\* while an earlier one was settling, and without anybody it is told to stop.
OneObserver ==
    /\ ObserverTypeOK
    /\ task \in {"none", "done"} => members = {} \/ halted
    /\ task # "none" /\ members = {} => stop
    /\ call[Observer].stage # "idle" => task \in {"generation", "observe"}

\* Debounce: a stream is told of a model, or of its absence, only if the generation of
\* two ticks in a row says so; what appeared since the last tick waits for the next.
Debounced ==
    [][\A s \in Subscriber :
          state'[s] # state[s] /\ state'[s] # None =>
              /\ state'[s].status = "unavailable" => previous.model \in Absent
              /\ state'[s].status = "present" =>
                   /\ state'[s].revision.model = previous.model
                   /\ previous.shard # None /\ state'[s].revision.shard # None =>
                        state'[s].revision.shard = previous.shard]_observerVars

(* Liveness.                                                               *)

\* What a stream must be told of the files as they are.
Current ==
    IF disk.model \in Broken \cup Unreadable THEN Error
    ELSE StateOf([model |-> disk.model,
                  shard |-> IF disk.model \in Indexed THEN disk.shard ELSE None])

\* Once the files stay as they are every stream that stays open has been told, the one
\* that joins during a back-off or while the last subscriber leaves included.
Informed ==
    <>[](\A s \in Subscriber : spc[s] = "in" => delivered[s] # None /\ delivered[s].state = Current)

\* After request_stop() every stream ends, the one that is about to subscribe included,
\* and aclose() returns.
StreamsEnd ==
    /\ halted ~> \A s \in Subscriber : spc[s] = "out"
    /\ closing = "settling" ~> closing = "done"
=============================================================================
