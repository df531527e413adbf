-------------------------- MODULE SessionController --------------------------
(***************************************************************************)
(* The browser's session of one backend (SessionController in              *)
(* ui/src/app/session-controller.ts, with Lifetime and watchModel): the    *)
(* model the user has chosen, its session, and the replacement of the      *)
(* session when the model's files, or the backend, are not what they were. *)
(*                                                                         *)
(* The handlers are run to completion, one after another, so each is an    *)
(* operator from the controller's state to its next state.  What they wait *)
(* for arrives in any order: responses, events of the current              *)
(* subscription, a timer, the user.                                        *)
(***************************************************************************)
EXTENDS Naturals, Sequences

CONSTANTS
    Model,
    Revisions,   \* changes of the models' files: revision 0 of a model is followed by 1
    Gone,        \* the revisions in which the model is not available: not the first,
                 \* of which the remembered session has been made
    Asks,        \* what the user asks for: models, and anything else
    Retries,     \* attempts after a transient failure (3)
    Faults,      \* restarts of the backend, requests and streams that fail
    None

ASSUME ControllerAssumption ==
    /\ {Revisions, Asks, Retries, Faults} \subseteq Nat
    /\ Gone \subseteq 1..Revisions
    /\ None \notin Nat \cup Model

VARIABLES
    revision,   \* of each model
    changes,    \* of the models' files so far
    epoch,      \* restarts of the backend
    known,      \* sessions ever created: the model, its revision, the backend that has it
    faults,     \* restarts and failures so far
    asked,      \* what the user has asked for so far
    excused,    \* an attempt failed for good, or the user gave up the next one
    ui          \* the controller

backendVars == <<revision, changes, epoch, known>>
vars == <<backendVars, faults, asked, excused, ui>>

\* A request about a model or a session: not made, sent, with its response on the way,
\* over; current says that the Lifetime it was made under has not been disposed of.
NoCall == [stage |-> "none", of |-> None, current |-> FALSE, result |-> None, error |-> ""]
Sent(about) == [NoCall EXCEPT !.stage = "sent", !.of = about, !.current = TRUE]
Replied(call, session, error) ==
    [call EXCEPT !.stage = "reply", !.result = session, !.error = error]
Off == [on |-> FALSE, frame |-> None, told |-> None]
Blank == [epoch |-> None, revision |-> None]

\* Session 1 is the one that the tab remembers from before it was reloaded: start()
\* recovers it.
Init ==
    /\ revision = [m \in Model |-> 0] /\ changes = 0 /\ epoch = 0
    /\ \E m \in Model, e \in {0, None} :
          known = <<[model |-> m, revision |-> 0, epoch |-> e]>>
    /\ faults = 0 /\ asked = 0 /\ excused = FALSE
    /\ ui = [active |-> TRUE, selected |-> None, session |-> None, status |-> "loading",
             refresh |-> "idle", candidate |-> None, queued |-> FALSE,
             latest |-> None, epoch |-> None, invalid |-> None, retries |-> 0,
             timer |-> FALSE, inventory |-> FALSE, sub |-> Off,
             post |-> NoCall, close |-> NoCall,
             choice |-> [i \in 0..Asks |-> IF i = 0 THEN Sent(1) ELSE NoCall],
             retired |-> {}, adopted |-> {1}]

-----------------------------------------------------------------------------
(* The parts the handlers are made of.                                     *)

RevisionOf(s) == known[s].revision

\* sessionRequest.dispose(), whoever had it.
Disposed(u) ==
    [u EXCEPT !.post.current = FALSE, !.close.current = FALSE,
              !.choice = [i \in DOMAIN @ |-> [@[i] EXCEPT !.current = FALSE]]]

\* retire(): the backend is asked to delete the session.
Retired(u, s) == [u EXCEPT !.retired = @ \cup {s}]

\* Mutant: a candidate that is given up is left to the backend.
Dropped_Kept(u) == [u EXCEPT !.candidate = None]
Dropped(u) ==
    IF u.candidate = None THEN u ELSE [Retired(u, u.candidate) EXCEPT !.candidate = None]

StopRefresh(u) ==
    [Dropped(u) EXCEPT !.sub = Off, !.timer = FALSE, !.queued = FALSE, !.latest = None,
                       !.epoch = None, !.retries = 0, !.invalid = None]

\* observeModel: a fresh subscription, whose first event is the current state.
Observed(u) ==
    [u EXCEPT !.sub = IF u.selected = None \/ ~u.active THEN Off ELSE [Off EXCEPT !.on = TRUE]]

Invalidated(u, status) ==
    [(IF u.session = None THEN u
      ELSE [Retired(u, u.session) EXCEPT !.session = None, !.inventory = FALSE])
     EXCEPT !.refresh = status, !.status = IF status = "updating" THEN "loading" ELSE "failed"]

\* refreshModel: one replacement at a time, of what the user has selected now.
Refreshed(u) ==
    IF ~u.active \/ u.selected = None THEN u
    ELSE IF u.post # NoCall THEN [u EXCEPT !.queued = TRUE]
    ELSE [Disposed(Invalidated(Dropped([u EXCEPT !.timer = FALSE]), "updating"))
          EXCEPT !.queued = FALSE, !.post = Sent(u.selected)]

Accepted(u, s, refreshed) ==
    LET v == [u EXCEPT !.session = s, !.selected = known[s].model, !.status = "ready",
                       !.refresh = "idle", !.adopted = @ \cup {s}, !.inventory = TRUE]
    IN  IF refreshed THEN v ELSE Observed(v)

\* sessionFailure, of a session that is not expired.
Failed(u) ==
    LET v == [u EXCEPT !.status = "failed"]
    IN  IF u.selected = None THEN v ELSE Observed(v)

Expired(u) ==
    [Disposed(u) EXCEPT !.session = None, !.status = "expired", !.inventory = FALSE]

\* contentFailure: a response says that the session is gone or its content has changed.
ContentFailed(u) ==
    IF u.selected = None THEN u
    ELSE IF RevisionOf(u.session) = u.invalid THEN Invalidated(u, "waiting")
    ELSE Refreshed([u EXCEPT !.invalid = RevisionOf(u.session)])

-----------------------------------------------------------------------------
(* Events of the subscription (observeState).                              *)

\* Mutant: the first event of a subscription is taken for a restart.
Restarted_First(u, event) == event.epoch # u.epoch
Restarted(u, event) == u.epoch # None /\ event.epoch # u.epoch
Changed(u, event) == Restarted(u, event) \/ event.revision # u.latest

Noted(u, event) ==
    LET v == [u EXCEPT !.epoch = event.epoch, !.latest = event.revision]
    IN  IF ~Changed(u, event) THEN v
        ELSE [v EXCEPT !.timer = FALSE, !.retries = 0,
                       !.invalid = IF Restarted(u, event) \/ event.revision # u.invalid
                                   THEN None ELSE @]

\* Mutant: a change is forgotten if a replacement is on its way.
Busy_Forgets(u, changed) == u
\* A replacement is on its way: it may have pinned what was there before.
Busy(u, changed) == IF changed THEN [u EXCEPT !.queued = TRUE] ELSE u

\* The candidate is a session of what the files are now.
Confirms(u, event) == RevisionOf(u.candidate) = event.revision

ObserveState(u, event) ==
    LET v == Noted(u, event)
    IN  IF event.revision \in Gone
        THEN Invalidated([Dropped(Disposed(v)) EXCEPT !.queued = FALSE], "waiting")
        ELSE IF v.candidate # None
        THEN IF Confirms(v, event)
             THEN Accepted([v EXCEPT !.candidate = None], v.candidate, TRUE)
             ELSE Refreshed(Dropped(v))
        ELSE IF /\ ~Restarted(u, event) /\ v.session # None
                /\ RevisionOf(v.session) = event.revision
        THEN v
        ELSE IF v.post # NoCall THEN Busy(v, Changed(u, event))
        ELSE IF v.refresh = "waiting" /\ ~Changed(u, event) THEN v
        ELSE Refreshed(v)

Others == UNCHANGED <<backendVars, faults, asked, excused>>

\* The server sends what a subscription has not been told; the newest state replaces one
\* that could not be sent (see ModelObserver).
SendEvent ==
    LET now == [epoch |-> epoch, revision |-> revision[ui.selected]]
    IN  /\ ui.sub.on /\ ui.sub.frame = None /\ ui.sub.told # now
        /\ ui' = [ui EXCEPT !.sub.frame = now, !.sub.told = now]
        /\ Others

ReceiveEvent ==
    /\ ui.sub.on /\ ui.sub.frame # None
    /\ ui' = ObserveState([ui EXCEPT !.sub.frame = None], ui.sub.frame)
    /\ Others

-----------------------------------------------------------------------------
(* What the controller does with the answers.                              *)

Counted(u, error) ==
    LET again == (error = "transient") /\ u.retries < Retries
    IN  IF again THEN [u EXCEPT !.timer = TRUE, !.retries = @ + 1] ELSE u

\* Mutant: a late response is taken for the one that is waited for.
Wanted_Any(u, call) == u.active
\* The request has not been superseded (Lifetime.isCurrent).
Wanted(u, call) == call.current /\ u.active

\* The replacement POST of refreshModel, and its finally.
PostSettled(u) ==
    LET call == u.post
        m == call.of
        free == [u EXCEPT !.post = NoCall]
        v == IF call.result # None
             THEN IF ~Wanted(u, call) \/ u.selected # m
                  THEN Retired(free, call.result)
                  ELSE Observed([free EXCEPT !.candidate = call.result, !.queued = FALSE])
             ELSE IF call.current THEN Counted(Invalidated(free, "waiting"), call.error)
             ELSE free
    IN  IF v.queued /\ v.active THEN Refreshed([v EXCEPT !.queued = FALSE]) ELSE v

\* The POST of chooseModel, or (0) the GET of recover.
ChoiceSettled(u, i) ==
    LET call == u.choice[i]
        v == [u EXCEPT !.choice[i] = [NoCall EXCEPT !.stage = "over", !.of = call.of]]
    IN  IF call.result # None
        THEN IF Wanted(u, call) THEN Accepted(v, call.result, FALSE)
             ELSE IF i = 0 THEN v ELSE Retired(v, call.result)
        ELSE IF ~call.current THEN v
        ELSE IF call.error = "expired" THEN Expired(v) ELSE Failed(v)

\* The DELETE of closeSession: a session that cannot be closed is shown again.
CloseSettled(u) ==
    LET call == u.close
        v == [u EXCEPT !.close = NoCall]
    IN  IF ~call.current THEN v
        ELSE IF call.error = "" THEN [v EXCEPT !.session = None, !.status = "idle"]
        ELSE Observed([v EXCEPT !.selected = known[call.of].model, !.status = "ready"])

AnswerPost == ui.post.stage = "reply" /\ ui' = PostSettled(ui) /\ Others
AnswerChoice ==
    \E i \in 0..Asks :
        ui.choice[i].stage = "reply" /\ ui' = ChoiceSettled(ui, i) /\ Others
AnswerClose == ui.close.stage = "reply" /\ ui' = CloseSettled(ui) /\ Others

Alive(s) == known[s].epoch = epoch
Unchanged(s) == Alive(s) /\ RevisionOf(s) = revision[known[s].model]

\* The tensor inventory, or a view of the current session, is answered.
Loaded ==
    /\ ui.inventory
    /\ ui' = IF Unchanged(ui.session) THEN [ui EXCEPT !.inventory = FALSE]
             ELSE ContentFailed([ui EXCEPT !.inventory = FALSE])
    /\ Others

RetryTimer == ui.timer /\ ui' = Refreshed([ui EXCEPT !.timer = FALSE]) /\ Others
-----------------------------------------------------------------------------
(* The backend and the transport.                                          *)

Errors == {"transient", "stable"}

\* A request fails for a reason of its own: transport, server, or a refusal.
Fault(failed) ==
    /\ faults < Faults /\ faults' = faults + 1
    /\ \E error \in Errors :
          /\ ui' = failed[error]
          /\ excused' = (excused \/ error = "stable")
    /\ UNCHANGED backendVars

\* POST /sessions pins what the files are at that moment.
Created == Len(known) + 1
Create(m, refused, granted) ==
    IF revision[m] \in Gone
    THEN /\ ui' = refused
         /\ UNCHANGED <<backendVars, faults, asked, excused>>
    ELSE /\ known' = Append(known, [model |-> m, revision |-> revision[m], epoch |-> epoch])
         /\ ui' = granted
         /\ UNCHANGED <<revision, changes, epoch, faults, asked, excused>>

ServePost ==
    /\ ui.post.stage = "sent"
    /\ Create(ui.post.of, [ui EXCEPT !.post = Replied(@, None, "stable")],
              [ui EXCEPT !.post = Replied(@, Created, "")])

ServeChoice ==
    \E i \in 1..Asks :
        /\ ui.choice[i].stage = "sent"
        /\ Create(ui.choice[i].of, [ui EXCEPT !.choice[i] = Replied(@, None, "stable")],
                  [ui EXCEPT !.choice[i] = Replied(@, Created, "")])

ServeRecover ==
    /\ ui.choice[0].stage = "sent"
    /\ ui' = [ui EXCEPT !.choice[0] = IF Alive(1) THEN Replied(@, 1, "")
                                      ELSE Replied(@, None, "expired")]
    /\ Others

Delete(s) == known' = [known EXCEPT ![s].epoch = None]

ServeClose ==
    /\ ui.close.stage = "sent"
    /\ Delete(ui.close.of)
    /\ ui' = [ui EXCEPT !.close = Replied(@, None, "")]
    /\ UNCHANGED <<revision, changes, epoch, faults, asked, excused>>

Fail ==
    /\ UNCHANGED asked
    /\ \/ /\ ui.post.stage = "sent"
          /\ Fault([e \in Errors |-> [ui EXCEPT !.post = Replied(@, None, e)]])
       \/ \E i \in 0..Asks :
             /\ ui.choice[i].stage = "sent"
             /\ Fault([e \in Errors |-> [ui EXCEPT !.choice[i] = Replied(@, None, e)]])
       \/ /\ ui.close.stage = "sent"
          /\ Fault([e \in Errors |-> [ui EXCEPT !.close = Replied(@, None, e)]])

\* The event source reconnects: it is told the current state again.
Reconnect ==
    /\ ui.sub.on /\ faults < Faults /\ faults' = faults + 1
    /\ ui' = [ui EXCEPT !.sub = [Off EXCEPT !.on = TRUE]]
    /\ UNCHANGED <<backendVars, asked, excused>>

Modify(m) ==
    /\ changes < Revisions /\ changes' = changes + 1
    /\ revision' = [revision EXCEPT ![m] = @ + 1]
    /\ UNCHANGED <<epoch, known, faults, asked, excused, ui>>

Restart ==
    /\ faults < Faults /\ faults' = faults + 1
    /\ epoch' = epoch + 1
    /\ ui' = [ui EXCEPT !.sub = [Off EXCEPT !.on = ui.sub.on]]
    /\ UNCHANGED <<revision, changes, known, asked, excused>>

-----------------------------------------------------------------------------
(* The user.                                                               *)

\* The session that was shown is not deleted: the tab lets go of it.
Choose(m) ==
    /\ ui' = [Disposed(StopRefresh([ui EXCEPT !.selected = m]))
               EXCEPT !.session = None, !.status = "loading", !.refresh = "idle",
                      !.inventory = FALSE, !.choice[asked + 1] = Sent(m)]
    /\ UNCHANGED excused

Closed ==
    LET v == [Disposed(StopRefresh(ui)) EXCEPT !.selected = None, !.refresh = "idle",
                                               !.inventory = FALSE]
    IN  IF ui.session = None THEN [v EXCEPT !.status = "idle"]
        ELSE [v EXCEPT !.status = "closing", !.close = Sent(ui.session)]

\* At most one deletion is on its way (a bound).
CloseSession == ui.status # "closing" /\ ui.close = NoCall /\ ui' = Closed /\ UNCHANGED excused

RetryRefresh ==
    /\ ui.refresh = "waiting"
    /\ ui' = Refreshed([ui EXCEPT !.retries = 0, !.invalid = None, !.timer = FALSE])
    /\ UNCHANGED excused

\* retrySession, after the recovery has failed.
Recover ==
    /\ ui.status = "failed" /\ ui.selected = None
    /\ ui' = [Disposed(ui) EXCEPT !.status = "loading", !.choice[0] = Sent(1)]
    /\ UNCHANGED excused

\* A view asks for something of the session.
Explore ==
    /\ ui.session # None /\ ui.status = "ready" /\ ~ui.inventory
    /\ ui' = [ui EXCEPT !.inventory = TRUE]
    /\ UNCHANGED excused

\* Another explorer also cancels the pending attempt.
SwitchExplorer ==
    /\ ui.timer
    /\ ui' = [ui EXCEPT !.timer = FALSE]
    /\ excused' = TRUE

DisposePage ==
    /\ ui' = [Disposed(StopRefresh([ui EXCEPT !.active = FALSE])) EXCEPT !.inventory = FALSE]
    /\ UNCHANGED excused

Ask ==
    /\ ui.active /\ asked < Asks /\ asked' = asked + 1
    /\ (\E m \in Model : Choose(m)) \/ CloseSession \/ RetryRefresh \/ Recover
       \/ Explore \/ SwitchExplorer \/ DisposePage
    /\ UNCHANGED <<backendVars, faults>>

-----------------------------------------------------------------------------

\* What happens without the user, faults and changes.
Progress ==
    \/ SendEvent \/ ReceiveEvent \/ RetryTimer \/ Loaded
    \/ ServePost \/ ServeChoice \/ ServeRecover \/ ServeClose
    \/ AnswerPost \/ AnswerChoice \/ AnswerClose

Next ==
    \/ Progress
    \/ Fail \/ Reconnect \/ Restart
    \/ \E m \in Model : Modify(m)
    \/ Ask

Spec == Init /\ [][Next]_vars

\* Requests are answered, events and timers arrive.
LiveSpec == Spec /\ WF_vars(Progress)

-----------------------------------------------------------------------------

TypeOK ==
    /\ revision \in [Model -> 0..Revisions] /\ changes \in 0..Revisions /\ epoch \in 0..Faults
    /\ \A s \in DOMAIN known : known[s] \in
          [model : Model, revision : 0..Revisions, epoch : 0..Faults \cup {None}]
    /\ faults \in 0..Faults /\ asked \in 0..Asks /\ excused \in BOOLEAN
    /\ ui.selected \in Model \cup {None}
    /\ {ui.session, ui.candidate} \subseteq DOMAIN known \cup {None}
    /\ ui.status \in {"idle", "loading", "ready", "failed", "expired", "closing"}
    /\ ui.refresh \in {"idle", "updating", "waiting"}
    /\ ui.retries \in 0..Retries

Replies == {ui.post.result} \cup {ui.choice[i].result : i \in 0..Asks}

\* Every session that the controller has caused the backend to create is shown once,
\* is the candidate, is still in a response, or has been deleted: whatever supersedes
\* the request that created it (another choice, a close, a revision, the end of the page).
AbandonedReleased ==
    /\ TypeOK
    /\ \A s \in DOMAIN known :
          s \in ui.adopted \cup ui.retired \cup {ui.candidate} \cup Replies
    /\ ~ui.active => ui.candidate = None

\* The model that the user has chosen last, or the one of the remembered session.
Intended ==
    LET last == CHOOSE i \in 0..Asks : /\ ui.choice[i].stage # "none"
                                      /\ \A j \in (i + 1)..Asks : ui.choice[j].stage = "none"
    IN  IF last = 0 THEN known[1].model ELSE ui.choice[last].of

\* The session that is shown is of the model chosen last and has not been given up, in
\* whatever order the responses arrive; data are asked for only of a session that is
\* shown.
ShownIsIntended ==
    /\ ui.session # None =>
          /\ ui.session \notin ui.retired
          /\ known[ui.session].model = Intended
          /\ ui.selected \in {Intended, None}
    /\ ui.inventory => ui.session # None

\* A session that the backend still has, of files that have not changed, is never
\* replaced unless the user asks: not by a reconnection, not by the first event of a
\* subscription.
KeptWhileGood ==
    [][\/ ui.session = None \/ ui.session' = ui.session \/ ~Unchanged(ui.session)
       \/ ui.selected' = None \/ ui.choice' # ui.choice]_<<ui, revision, epoch, known>>

UpToDate ==
    /\ ui.session # None /\ ui.status = "ready"
    /\ RevisionOf(ui.session) = revision[ui.selected]
Waiting == ui.session = None /\ ui.refresh = "waiting"

\* Once nothing changes any more, the selected model is shown as it is now, or is waited
\* for because it is not there; unless an attempt has been refused, the user has cancelled
\* the next one, or there have been too many.
CatchesUp ==
    <>[](\/ ~ui.active \/ ui.selected = None \/ UpToDate
         \/ (Waiting /\ (revision[ui.selected] \in Gone \/ excused \/ ui.retries = Retries)))
=============================================================================
