----------------------- MODULE SessionController_proofs -----------------------
(***************************************************************************)
(* What TLAPS proves of the browser's session, for any models, revisions,  *)
(* failures and requests of the user: no session is left behind in the     *)
(* backend (AbandonedReleased), what is shown is what the user has chosen  *)
(* last (ShownIsIntended), and a good session is kept (KeptWhileGood).     *)
(*                                                                         *)
(* A handler is a composition of parts, each of which takes a controller   *)
(* that is Good to one that is Good again: so the invariant is proved part *)
(* by part, and each handler by the parts that it is made of.              *)
(***************************************************************************)
EXTENDS SessionController, TLAPS

-----------------------------------------------------------------------------
(* Types.                                                                  *)

NoneOr(S) == S \cup {None}
Event == [epoch : Nat, revision : Nat]
Request ==
    [stage : {"none", "sent", "reply", "over"}, of : NoneOr(Model \cup Nat),
     current : BOOLEAN, result : NoneOr(Nat),
     error : {"", "transient", "stable", "expired"}]
Subscription == [on : BOOLEAN, frame : NoneOr(Event), told : NoneOr(Event)]
Controller ==
    [active : BOOLEAN, selected : NoneOr(Model), session : NoneOr(Nat),
     status : {"idle", "loading", "ready", "failed", "expired", "closing"},
     refresh : {"idle", "updating", "waiting"}, candidate : NoneOr(Nat),
     queued : BOOLEAN, latest : NoneOr(Nat), epoch : NoneOr(Nat), invalid : NoneOr(Nat),
     retries : 0..Retries, timer : BOOLEAN, inventory : BOOLEAN, sub : Subscription,
     post : Request, close : Request, choice : [0..Asks -> Request],
     retired : SUBSET Nat, adopted : SUBSET Nat]
Known == [model : Model, revision : 0..Revisions, epoch : NoneOr(0..Faults)]

-----------------------------------------------------------------------------
(* The invariant.                                                          *)

\* A session is of files that were there, not newer than the files and the backend.
Backend ==
    /\ revision \in [Model -> 0..Revisions] /\ changes \in 0..Revisions
    /\ \A m \in Model : revision[m] <= changes
    /\ faults \in 0..Faults /\ asked \in 0..Asks /\ excused \in BOOLEAN
    /\ epoch \in Nat /\ epoch <= faults
    /\ known \in Seq(Known) /\ Len(known) >= 1
    /\ \A s \in 1..Len(known) :
          /\ known[s].revision <= revision[known[s].model] /\ known[s].revision \notin Gone
          /\ known[s].epoch # None => known[s].epoch <= epoch

\* Only a request that is on its way is current, and only a response has a session: of
\* the model that was asked for, and made since the page was loaded.
Well(call) ==
    /\ call.current => call.stage \in {"sent", "reply"}
    /\ call.result # None => call.stage = "reply"
Granted(call) ==
    call.result # None => call.result \in 2..Len(known) /\ known[call.result].model = call.of

PostWell(u) ==
    /\ Well(u.post) /\ Granted(u.post) /\ u.post.stage # "over"
    /\ u.post.stage = "none" => u.post = NoCall
    /\ u.post.stage # "none" => u.post.of \in Model
CloseWell(u) ==
    /\ Well(u.close) /\ u.close.result = None /\ u.close.stage # "over"
    /\ u.close.stage = "none" => u.close = NoCall
    /\ u.close.stage # "none" => u.close.of \in 1..Len(known)
    /\ u.close.stage = "reply" /\ u.close.error = "" => known[u.close.of].epoch = None
ChoiceWell(u) ==
    /\ \A i \in 0..Asks : Well(u.choice[i])
    /\ u.choice[0].result \in {1, None}
    /\ \A i \in 1..Asks :
          /\ Granted(u.choice[i])
          /\ u.choice[i].stage # "none" => i <= asked /\ u.choice[i].of \in Model
          /\ u.choice[i].stage = "none" => u.choice[i] = NoCall

\* Nobody holds a session that somebody else holds, or that has been given up.
Apart(u) ==
    /\ u.retired \subseteq 1..Len(known)
    /\ u.session # None => u.session \in 1..Len(known) /\ u.session \notin u.retired
    /\ u.candidate # None =>
          u.candidate \in 2..Len(known) /\ u.candidate \notin u.retired \cup {u.session}
    /\ u.post.result # None => u.post.result \notin u.retired \cup {u.session, u.candidate}
    /\ \A i \in 1..Asks : u.choice[i].result # None =>
          /\ u.choice[i].result \notin u.retired
          /\ u.choice[i].result \notin {u.session, u.candidate, u.post.result}
          /\ \A j \in 1..Asks : j # i => u.choice[i].result # u.choice[j].result

\* Nobody is forgotten.
Found(u, s) ==
    \/ s \in u.adopted \cup u.retired \cup {u.candidate, u.post.result}
    \/ \E i \in 0..Asks : s = u.choice[i].result
Kept(u) ==
    /\ 1 \in u.adopted
    /\ u.session # None => u.session \in u.adopted
    /\ \A s \in 1..Len(known) : Found(u, s)

\* l is the last choice, of the model m.
Last(u, l, m) ==
    /\ l \in 0..Asks /\ m \in Model
    /\ u.choice[l].stage # "none"
    /\ \A i \in 1..Asks : i > l => u.choice[i].stage = "none"
    /\ IF l = 0 THEN m = known[1].model ELSE m = u.choice[l].of

Choosing(u) == \E i \in 0..Asks : u.choice[i].current
Quiet(u) ==
    /\ ~u.sub.on /\ ~u.timer /\ ~u.queued /\ ~u.post.current
    /\ u.candidate = None /\ u.epoch = None /\ u.refresh = "idle"

\* What is shown, awaited and waited for is of the model m; while a choice is on its way
\* nothing is shown, and nothing else goes on.
Selected(u, l, m) ==
    /\ u.selected \in {m, None}
    /\ u.session # None => known[u.session].model = m
    /\ u.selected = None =>
          /\ Quiet(u)
          /\ u.status \in {"loading", "failed"} =>
               l = 0 /\ u.session = None /\ 1 \notin u.retired
Chosen(u, l, m) ==
    /\ Choosing(u) =>
          Quiet(u) /\ ~u.close.current /\ u.session = None /\ u.status = "loading"
    /\ \A i \in 0..Asks : u.choice[i].current =>
          i = l /\ u.selected = IF i = 0 THEN None ELSE m
Closing(u) ==
    u.close.current =>
        /\ u.selected = None /\ u.status = "closing"
        /\ u.session = u.close.of /\ ~u.inventory
Replacing(u, m) ==
    /\ u.post.current => u.post.of = u.selected /\ u.session = None
    /\ u.candidate # None =>
          /\ u.session = None /\ u.post.stage = "none" /\ known[u.candidate].model = m
          /\ ~u.queued /\ ~u.timer
    /\ u.timer => u.post.stage = "none"
    /\ u.timer \/ u.refresh # "idle" => u.session = None
Ended(u) ==
    ~u.active => /\ ~u.sub.on /\ ~u.timer /\ ~u.queued /\ u.candidate = None
                 /\ ~u.post.current /\ ~u.close.current /\ ~Choosing(u)
Focus(u, l, m) ==
    /\ Last(u, l, m) /\ Selected(u, l, m) /\ Chosen(u, l, m) /\ Closing(u)
    /\ Replacing(u, m) /\ Ended(u)
    /\ u.inventory => u.session # None
    /\ ~u.sub.on => u.sub.frame = None

\* What the controller has been told is not older than what it shows.
Seen(u) ==
    /\ u.epoch # None => u.epoch <= epoch
    /\ u.sub.frame # None =>
          u.sub.frame.epoch = epoch /\ u.sub.frame.revision <= revision[u.selected]
    /\ u.session # None =>
          /\ u.sub.frame # None => known[u.session].revision <= u.sub.frame.revision
          /\ u.epoch # None /\ known[u.session].epoch # None => known[u.session].epoch <= u.epoch
          /\ u.queued => ~Unchanged(u.session)

Calls(u) == PostWell(u) /\ CloseWell(u) /\ ChoiceWell(u)
Good(u, l, m) ==
    u \in Controller /\ Calls(u) /\ Apart(u) /\ Kept(u) /\ Focus(u, l, m) /\ Seen(u)

IInv == Backend /\ \E l \in 0..Asks, m \in Model : Good(ui, l, m)

-----------------------------------------------------------------------------
(* Requests.                                                               *)

LEMMA NoneApart == None \notin Nat /\ None \notin Model /\ Gone \subseteq 1..Revisions
                   /\ Revisions \in Nat /\ Asks \in Nat /\ Retries \in Nat /\ Faults \in Nat
  BY ControllerAssumption

LEMMA NoCallFields ==
  /\ NoCall \in Request
  /\ NoCall.stage = "none" /\ ~NoCall.current /\ NoCall.result = None /\ NoCall.of = None
  BY DEF NoCall, Request, NoneOr

LEMMA SentFields ==
  ASSUME NEW about \in Model \cup Nat
  PROVE  /\ Sent(about) \in Request
         /\ Sent(about).stage = "sent" /\ Sent(about).of = about
         /\ Sent(about).current /\ Sent(about).result = None
  BY DEF Sent, NoCall, Request, NoneOr

Reason == {"", "transient", "stable", "expired"}

LEMMA RepliedFields ==
  \A call \in Request, s \in NoneOr(Nat), e \in Reason :
      /\ Replied(call, s, e) \in Request
      /\ Replied(call, s, e).stage = "reply" /\ Replied(call, s, e).result = s
      /\ Replied(call, s, e).error = e /\ Replied(call, s, e).of = call.of
      /\ Replied(call, s, e).current = call.current
  BY DEF Replied, Request, NoneOr, Reason

LEMMA SameRequest ==
  ASSUME NEW c \in Request, NEW d \in Request, c.stage = d.stage, c.of = d.of,
         c.current <=> d.current, c.result = d.result, c.error = d.error
  PROVE  c = d
  <1>1. c.current = d.current
    BY DEF Request
  <1>2. ASSUME NEW A, NEW B, NEW C, NEW R, NEW E,
               c \in [stage : A, of : B, current : C, result : R, error : E],
               d \in [stage : A, of : B, current : C, result : R, error : E]
        PROVE  c = d
    BY <1>1, <1>2
  <1> QED BY <1>2 DEF Request

\* A request that is no longer current.
Stale(call, new) ==
    /\ new \in Request /\ ~new.current
    /\ new.stage = call.stage /\ new.of = call.of
    /\ new.result = call.result /\ new.error = call.error
    /\ call = NoCall => new = NoCall

LEMMA StaleCall ==
  ASSUME NEW call \in Request
  PROVE  Stale(call, [call EXCEPT !.current = FALSE])
  <1> DEFINE new == [call EXCEPT !.current = FALSE]
  <1>1. new \in Request
    BY DEF Request
  <1>2. /\ ~new.current /\ new.stage = call.stage /\ new.of = call.of
        /\ new.result = call.result /\ new.error = call.error
    BY DEF Request
  <1>3. call = NoCall => new = NoCall
    <2>1. SUFFICES ASSUME call = NoCall PROVE new = NoCall
      OBVIOUS
    <2>2. ~call.current
      BY <2>1, NoCallFields
    <2> HIDE DEF new
    <2> QED BY <1>1, <1>2, <2>1, <2>2, SameRequest
  <1> QED BY <1>1, <1>2, <1>3 DEF Stale

-----------------------------------------------------------------------------
(* The parts of the handlers: what they change.                            *)

LEMMA ControllerFields ==
  ASSUME NEW u \in Controller
  PROVE  /\ u.active \in BOOLEAN /\ u.selected \in NoneOr(Model) /\ u.session \in NoneOr(Nat)
         /\ u.status \in {"idle", "loading", "ready", "failed", "expired", "closing"}
         /\ u.refresh \in {"idle", "updating", "waiting"} /\ u.candidate \in NoneOr(Nat)
         /\ u.queued \in BOOLEAN /\ u.latest \in NoneOr(Nat) /\ u.epoch \in NoneOr(Nat)
         /\ u.invalid \in NoneOr(Nat) /\ u.retries \in 0..Retries /\ u.timer \in BOOLEAN
         /\ u.inventory \in BOOLEAN /\ u.sub \in Subscription /\ u.post \in Request
         /\ u.close \in Request /\ u.choice \in [0..Asks -> Request]
         /\ u.retired \in SUBSET Nat /\ u.adopted \in SUBSET Nat
  BY DEF Controller

\* sessionRequest.dispose().
LEMMA DisposedFields ==
  ASSUME NEW u \in Controller, NEW v, v = Disposed(u)
  PROVE  /\ v \in Controller
         /\ Stale(u.post, v.post) /\ Stale(u.close, v.close)
         /\ \A i \in 0..Asks : Stale(u.choice[i], v.choice[i])
         /\ v.active = u.active /\ v.selected = u.selected /\ v.session = u.session
         /\ v.status = u.status /\ v.refresh = u.refresh /\ v.candidate = u.candidate
         /\ v.queued = u.queued /\ v.latest = u.latest /\ v.epoch = u.epoch
         /\ v.invalid = u.invalid /\ v.retries = u.retries /\ v.timer = u.timer
         /\ v.inventory = u.inventory /\ v.sub = u.sub /\ v.retired = u.retired
         /\ v.adopted = u.adopted
  <1> DEFINE p == [u.post EXCEPT !.current = FALSE]
             c == [u.close EXCEPT !.current = FALSE]
             h == [i \in DOMAIN u.choice |-> [u.choice[i] EXCEPT !.current = FALSE]]
  <1>1. v = [u EXCEPT !.post = p, !.close = c, !.choice = h]
    BY DEF Disposed, Controller
  <1>2. u.post \in Request /\ u.close \in Request /\ u.choice \in [0..Asks -> Request]
    BY ControllerFields
  <1>3. Stale(u.post, p) /\ Stale(u.close, c)
    BY <1>2, StaleCall
  <1>4. \A i \in 0..Asks : h[i] = [u.choice[i] EXCEPT !.current = FALSE]
    BY <1>2
  <1>5. \A i \in 0..Asks : Stale(u.choice[i], h[i])
    BY <1>2, <1>4, StaleCall
  <1>6. h \in [0..Asks -> Request]
    <2>1. DOMAIN u.choice = 0..Asks
      BY <1>2
    <2>2. \A i \in 0..Asks : [u.choice[i] EXCEPT !.current = FALSE] \in Request
      BY <1>4, <1>5 DEF Stale
    <2> QED BY <2>1, <2>2
  <1>7. p \in Request /\ c \in Request
    BY <1>3 DEF Stale
  <1> HIDE DEF p, c, h
  <1> QED BY <1>1, <1>3, <1>5, <1>6, <1>7 DEF Controller

\* The candidate is given up.
LEMMA DroppedFields ==
  ASSUME NEW u \in Controller, NEW v, v = Dropped(u)
  PROVE  /\ v \in Controller /\ v.candidate = None
         /\ v.retired = u.retired \cup ({u.candidate} \ {None})
         /\ v.active = u.active /\ v.selected = u.selected /\ v.session = u.session
         /\ v.status = u.status /\ v.refresh = u.refresh /\ v.queued = u.queued
         /\ v.latest = u.latest /\ v.epoch = u.epoch /\ v.invalid = u.invalid
         /\ v.retries = u.retries /\ v.timer = u.timer /\ v.inventory = u.inventory
         /\ v.sub = u.sub /\ v.post = u.post /\ v.close = u.close /\ v.choice = u.choice
         /\ v.adopted = u.adopted
  <1>1. CASE u.candidate = None
    <2>1. v = u
      BY <1>1 DEF Dropped
    <2> QED BY <1>1, <2>1
  <1>2. CASE u.candidate # None
    <2> DEFINE r == u.retired \cup {u.candidate}
    <2>1. v = [u EXCEPT !.retired = r, !.candidate = None]
      BY <1>2 DEF Dropped, Retired, Controller
    <2>2. r = u.retired \cup {u.candidate} /\ r \in SUBSET Nat /\ None \in NoneOr(Nat)
      BY <1>2, ControllerFields DEF NoneOr
    <2> HIDE DEF r
    <2>3. v \in Controller
      BY <2>1, <2>2 DEF Controller
    <2> QED BY <1>2, <2>1, <2>2, <2>3 DEF Controller
  <1> QED BY <1>1, <1>2

-----------------------------------------------------------------------------
(* The parts of the handlers: each keeps the invariant.                    *)

\* What a part that leaves the requests alone keeps.
SameCalls(u, v) == v.post = u.post /\ v.close = u.close /\ v.choice = u.choice

LEMMA SameCallsWell ==
  ASSUME NEW u, NEW v, SameCalls(u, v), Calls(u)
  PROVE  Calls(v)
  BY DEF SameCalls, Calls, PostWell, CloseWell, ChoiceWell

LEMMA DisposedGood ==
  ASSUME NEW u, NEW l, NEW m, Good(u, l, m), NEW v, v = Disposed(u)
  PROVE  Good(v, l, m) /\ ~v.post.current /\ ~v.close.current /\ ~Choosing(v)
  <1>0. u \in Controller /\ Calls(u) /\ Apart(u) /\ Kept(u) /\ Focus(u, l, m) /\ Seen(u)
    BY DEF Good
  <1>1. /\ v \in Controller
        /\ Stale(u.post, v.post) /\ Stale(u.close, v.close)
        /\ \A i \in 0..Asks : Stale(u.choice[i], v.choice[i])
    BY <1>0, DisposedFields
  <1>2. /\ v.active = u.active /\ v.selected = u.selected /\ v.session = u.session
        /\ v.status = u.status /\ v.refresh = u.refresh /\ v.candidate = u.candidate
        /\ v.queued = u.queued /\ v.epoch = u.epoch /\ v.timer = u.timer
        /\ v.inventory = u.inventory /\ v.sub = u.sub /\ v.retired = u.retired
        /\ v.adopted = u.adopted
    BY <1>0, DisposedFields
  <1>3. Calls(v)
    <2>1. PostWell(v)
      BY <1>0, <1>1 DEF Calls, PostWell, Well, Granted, Stale
    <2>2. CloseWell(v)
      BY <1>0, <1>1 DEF Calls, CloseWell, Well, Stale
    <2>3. ChoiceWell(v)
      <3>1. ASSUME NEW i \in 0..Asks PROVE Well(v.choice[i])
        BY <1>0, <1>1 DEF Calls, ChoiceWell, Well, Stale
      <3>2. v.choice[0].result \in {1, None}
        BY <1>0, <1>1, NoneApart DEF Calls, ChoiceWell, Stale
      <3>3. ASSUME NEW i \in 1..Asks
            PROVE  /\ Granted(v.choice[i])
                   /\ v.choice[i].stage # "none" => i <= asked /\ v.choice[i].of \in Model
                   /\ v.choice[i].stage = "none" => v.choice[i] = NoCall
        <4>1. i \in 0..Asks
          BY NoneApart
        <4> QED BY <1>0, <1>1, <4>1 DEF Calls, ChoiceWell, Granted, Stale
      <3> QED BY <3>1, <3>2, <3>3 DEF ChoiceWell
    <2> QED BY <2>1, <2>2, <2>3 DEF Calls
  <1>4. v.post.result = u.post.result /\ \A i \in 0..Asks : v.choice[i].result = u.choice[i].result
    BY <1>1 DEF Stale
  <1>5. Apart(v)
    <2>1. \A i \in 1..Asks : i \in 0..Asks
      BY NoneApart
    <2> QED BY <1>0, <1>2, <1>4, <2>1 DEF Apart
  <1>6. Kept(v)
    BY <1>0, <1>2, <1>4 DEF Kept, Found
  <1>7. ~v.post.current /\ ~v.close.current /\ ~Choosing(v)
    BY <1>1 DEF Stale, Choosing
  <1>8. Focus(v, l, m)
    <2>1. Last(v, l, m)
      <3>1. \A i \in 1..Asks : i \in 0..Asks
        BY NoneApart
      <3> QED BY <1>0, <1>1, <3>1 DEF Focus, Last, Stale
    <2>2. Selected(v, l, m)
      BY <1>0, <1>2, <1>7 DEF Focus, Selected, Quiet
    <2>3. Chosen(v, l, m) /\ Closing(v)
      BY <1>7 DEF Chosen, Closing, Choosing
    <2>4. Replacing(v, m)
      BY <1>0, <1>1, <1>2, <1>7 DEF Focus, Replacing, Stale
    <2>5. Ended(v)
      BY <1>0, <1>2, <1>7 DEF Focus, Ended
    <2> QED BY <1>0, <1>2, <2>1, <2>2, <2>3, <2>4, <2>5 DEF Focus
  <1>9. Seen(v)
    BY <1>0, <1>2 DEF Seen
  <1> QED BY <1>1, <1>3, <1>5, <1>6, <1>7, <1>8, <1>9 DEF Good

LEMMA DroppedGood ==
  ASSUME NEW u, NEW l, NEW m, Good(u, l, m), NEW v, v = Dropped(u)
  PROVE  Good(v, l, m) /\ v.candidate = None
  <1>0. u \in Controller /\ Calls(u) /\ Apart(u) /\ Kept(u) /\ Focus(u, l, m) /\ Seen(u)
    BY DEF Good
  <1>1. /\ v \in Controller /\ v.candidate = None
        /\ v.retired = u.retired \cup ({u.candidate} \ {None})
        /\ v.active = u.active /\ v.selected = u.selected /\ v.session = u.session
        /\ v.status = u.status /\ v.refresh = u.refresh /\ v.queued = u.queued
        /\ v.epoch = u.epoch /\ v.timer = u.timer /\ v.inventory = u.inventory
        /\ v.sub = u.sub /\ v.post = u.post /\ v.close = u.close /\ v.choice = u.choice
        /\ v.adopted = u.adopted
    BY <1>0, DroppedFields
  <1>2. Calls(v)
    BY <1>0, <1>1, SameCallsWell DEF SameCalls
  <1>3. Apart(v)
    <2>1. \A n : n \in 2..Len(known) => n \in 1..Len(known)
      OBVIOUS
    <2> QED BY <1>0, <1>1, <2>1 DEF Apart
  <1>4. Kept(v)
    BY <1>0, <1>1 DEF Kept, Found
  <1>5. Choosing(v) <=> Choosing(u)
    BY <1>1 DEF Choosing
  <1>6. Focus(v, l, m)
    <2>1. Last(v, l, m)
      BY <1>0, <1>1 DEF Focus, Last
    <2>2. Selected(v, l, m)
      BY <1>0, <1>1 DEF Focus, Selected, Quiet
    <2>3. Chosen(v, l, m) /\ Closing(v)
      BY <1>0, <1>1, <1>5 DEF Focus, Chosen, Closing, Quiet
    <2>4. Replacing(v, m)
      BY <1>0, <1>1 DEF Focus, Replacing
    <2>5. Ended(v)
      BY <1>0, <1>1, <1>5 DEF Focus, Ended
    <2> QED BY <1>0, <1>1, <2>1, <2>2, <2>3, <2>4, <2>5 DEF Focus
  <1>7. Seen(v)
    BY <1>0, <1>1 DEF Seen
  <1> QED BY <1>1, <1>2, <1>3, <1>4, <1>6, <1>7 DEF Good

LEMMA OffFields == Off \in Subscription /\ ~Off.on /\ Off.frame = None
  BY DEF Off, Subscription, NoneOr

LEMMA FreshFields ==
  ASSUME NEW b \in BOOLEAN, NEW s, s = [Off EXCEPT !.on = b]
  PROVE  s \in Subscription /\ s.on = b /\ s.frame = None
  BY DEF Off, Subscription, NoneOr

LEMMA StopRefreshFields ==
  ASSUME NEW u \in Controller, NEW v, v = StopRefresh(u)
  PROVE  /\ v \in Controller /\ v.sub = Off /\ ~v.timer /\ ~v.queued /\ v.epoch = None
         /\ v.candidate = None
         /\ v.retired = u.retired \cup ({u.candidate} \ {None})
         /\ v.active = u.active /\ v.selected = u.selected /\ v.session = u.session
         /\ v.status = u.status /\ v.refresh = u.refresh /\ v.inventory = u.inventory
         /\ v.post = u.post /\ v.close = u.close /\ v.choice = u.choice
         /\ v.adopted = u.adopted
  <1> DEFINE d == Dropped(u)
  <1>1. /\ d \in Controller /\ d.candidate = None
        /\ d.retired = u.retired \cup ({u.candidate} \ {None})
        /\ d.active = u.active /\ d.selected = u.selected /\ d.session = u.session
        /\ d.status = u.status /\ d.refresh = u.refresh /\ d.inventory = u.inventory
        /\ d.post = u.post /\ d.close = u.close /\ d.choice = u.choice
        /\ d.adopted = u.adopted
    BY DroppedFields
  <1>2. v = [d EXCEPT !.sub = Off, !.timer = FALSE, !.queued = FALSE, !.latest = None,
                      !.epoch = None, !.retries = 0, !.invalid = None]
    BY DEF StopRefresh
  <1>3. Off \in Subscription /\ None \in NoneOr(Nat) /\ 0 \in 0..Retries
    BY OffFields, NoneApart DEF NoneOr
  <1> HIDE DEF d
  <1>4. v \in Controller
    BY <1>1, <1>2, <1>3 DEF Controller
  <1> QED BY <1>1, <1>2, <1>4 DEF Controller

LEMMA StopRefreshGood ==
  ASSUME NEW u, NEW l, NEW m, Good(u, l, m), NEW v, v = StopRefresh(u)
  PROVE  Good(v, l, m)
  <1>0. u \in Controller /\ Calls(u) /\ Apart(u) /\ Kept(u) /\ Focus(u, l, m) /\ Seen(u)
    BY DEF Good
  <1>1. /\ v \in Controller /\ v.sub = Off /\ ~v.timer /\ ~v.queued /\ v.epoch = None
        /\ v.candidate = None
        /\ v.retired = u.retired \cup ({u.candidate} \ {None})
        /\ v.active = u.active /\ v.selected = u.selected /\ v.session = u.session
        /\ v.status = u.status /\ v.refresh = u.refresh /\ v.inventory = u.inventory
        /\ v.post = u.post /\ v.close = u.close /\ v.choice = u.choice
        /\ v.adopted = u.adopted
    BY <1>0, StopRefreshFields
  <1>2. Calls(v)
    BY <1>0, <1>1, SameCallsWell DEF SameCalls
  <1>3. Apart(v)
    <2>1. \A n : n \in 2..Len(known) => n \in 1..Len(known)
      OBVIOUS
    <2> QED BY <1>0, <1>1, <2>1 DEF Apart
  <1>4. Kept(v)
    BY <1>0, <1>1 DEF Kept, Found
  <1>5. (Choosing(v) <=> Choosing(u)) /\ ~v.sub.on /\ v.sub.frame = None
    BY <1>1, OffFields DEF Choosing
  <1>6. Focus(v, l, m)
    <2>1. Last(v, l, m)
      BY <1>0, <1>1 DEF Focus, Last
    <2>2. Selected(v, l, m)
      BY <1>0, <1>1, <1>5 DEF Focus, Selected, Quiet
    <2>3. Chosen(v, l, m) /\ Closing(v)
      BY <1>0, <1>1, <1>5 DEF Focus, Chosen, Closing, Quiet
    <2>4. Replacing(v, m)
      BY <1>0, <1>1 DEF Focus, Replacing
    <2>5. Ended(v)
      BY <1>0, <1>1, <1>5 DEF Focus, Ended
    <2> QED BY <1>0, <1>1, <1>5, <2>1, <2>2, <2>3, <2>4, <2>5 DEF Focus
  <1>7. Seen(v)
    BY <1>0, <1>1, <1>5 DEF Seen
  <1> QED BY <1>1, <1>2, <1>3, <1>4, <1>6, <1>7 DEF Good

\* A subscription: nobody waits for a choice, or for the deletion of what is shown.
LEMMA ObservedGood ==
  ASSUME NEW u, NEW l, NEW m, Good(u, l, m), NEW v, v = Observed(u), ~Choosing(u)
  PROVE  Good(v, l, m) /\ v.session = u.session /\ v.queued = u.queued /\ v.choice = u.choice
         /\ v.active = u.active /\ v.selected = u.selected
  <1>0. u \in Controller /\ Calls(u) /\ Apart(u) /\ Kept(u) /\ Focus(u, l, m) /\ Seen(u)
    BY DEF Good
  <1> DEFINE on == u.selected # None /\ u.active
             s == [Off EXCEPT !.on = on]
  <1>1. v = [u EXCEPT !.sub = s]
    <2>1. CASE on
      BY <2>1 DEF Observed
    <2>2. CASE ~on
      <3>1. v = [u EXCEPT !.sub = Off]
        BY <1>0, <2>2, ControllerFields DEF Observed
      <3>2. Off = s
        <4>1. Off \in [on : BOOLEAN, frame : {None}, told : {None}]
              /\ s \in [on : BOOLEAN, frame : {None}, told : {None}]
          BY DEF Off
        <4>2. Off.on = FALSE /\ s.on = FALSE /\ Off.frame = None /\ s.frame = None
              /\ Off.told = None /\ s.told = None
          BY <2>2 DEF Off
        <4> HIDE DEF s
        <4> QED BY <4>1, <4>2
      <3> QED BY <3>1, <3>2
    <2> QED BY <2>1, <2>2
  <1>2. s \in Subscription /\ s.on = on /\ s.frame = None /\ on \in BOOLEAN
    BY <1>0, ControllerFields, FreshFields
  <1> HIDE DEF s
  <1>3. /\ v \in Controller /\ v.sub = s
        /\ v.active = u.active /\ v.selected = u.selected /\ v.session = u.session
        /\ v.status = u.status /\ v.refresh = u.refresh /\ v.candidate = u.candidate
        /\ v.queued = u.queued /\ v.epoch = u.epoch /\ v.timer = u.timer
        /\ v.inventory = u.inventory /\ v.post = u.post /\ v.close = u.close
        /\ v.choice = u.choice /\ v.retired = u.retired /\ v.adopted = u.adopted
    BY <1>0, <1>1, <1>2 DEF Controller
  <1>4. Calls(v) /\ Apart(v) /\ Kept(v)
    <2>1. Calls(v)
      BY <1>0, <1>3, SameCallsWell DEF SameCalls
    <2> QED BY <1>0, <1>3, <2>1 DEF Apart, Kept, Found
  <1>5. ~Choosing(v)
    BY <1>3 DEF Choosing
  <1>6. Focus(v, l, m)
    <2>1. Last(v, l, m)
      BY <1>0, <1>3 DEF Focus, Last
    <2>2. Selected(v, l, m)
      BY <1>0, <1>2, <1>3 DEF Focus, Selected, Quiet
    <2>3. Chosen(v, l, m) /\ Closing(v)
      BY <1>0, <1>3, <1>5 DEF Focus, Chosen, Closing, Choosing
    <2>4. Replacing(v, m)
      BY <1>0, <1>3 DEF Focus, Replacing
    <2>5. Ended(v)
      BY <1>0, <1>2, <1>3, <1>5 DEF Focus, Ended
    <2> QED BY <1>0, <1>2, <1>3, <2>1, <2>2, <2>3, <2>4, <2>5 DEF Focus
  <1>7. Seen(v)
    BY <1>0, <1>2, <1>3 DEF Seen
  <1> QED BY <1>3, <1>4, <1>6, <1>7 DEF Good

LEMMA InvalidatedGood ==
  ASSUME NEW u, NEW l, NEW m, Good(u, l, m), u.selected # None,
         NEW r \in {"updating", "waiting"}, NEW v, v = Invalidated(u, r), ~Choosing(u)
  PROVE  /\ Good(v, l, m) /\ v.session = None /\ v.refresh = r
         /\ v.active = u.active /\ v.selected = u.selected /\ v.queued = u.queued
         /\ v.timer = u.timer /\ v.candidate = u.candidate /\ v.choice = u.choice
         /\ v.post = u.post /\ v.close = u.close /\ v.sub = u.sub /\ v.retries = u.retries
  <1>0. u \in Controller /\ Calls(u) /\ Apart(u) /\ Kept(u) /\ Focus(u, l, m) /\ Seen(u)
    BY DEF Good
  <1> DEFINE gone == u.retired \cup ({u.session} \ {None})
             st == IF r = "updating" THEN "loading" ELSE "failed"
  <1>1. /\ v \in Controller /\ v.session = None /\ v.refresh = r /\ v.status = st
        /\ v.retired = gone /\ ~v.inventory
        /\ v.active = u.active /\ v.selected = u.selected /\ v.candidate = u.candidate
        /\ v.queued = u.queued /\ v.epoch = u.epoch /\ v.timer = u.timer
        /\ v.sub = u.sub /\ v.post = u.post /\ v.close = u.close
        /\ v.choice = u.choice /\ v.adopted = u.adopted /\ v.retries = u.retries
    <2>1. st \in {"loading", "failed"} /\ None \in NoneOr(Nat)
      BY DEF NoneOr
    <2>2. CASE u.session = None
      <3>1. v = [u EXCEPT !.refresh = r, !.status = st]
        BY <2>2 DEF Invalidated
      <3>2. ~u.inventory
        BY <1>0, <2>2 DEF Focus
      <3> HIDE DEF st
      <3>3. v \in Controller
        BY <1>0, <2>1, <3>1 DEF Controller
      <3> QED BY <1>0, <2>2, <3>1, <3>2, <3>3 DEF Controller
    <2>3. CASE u.session # None
      <3>1. v = [u EXCEPT !.retired = gone, !.session = None, !.inventory = FALSE,
                          !.refresh = r, !.status = st]
        <4>1. gone = u.retired \cup {u.session}
          BY <2>3
        <4> QED BY <1>0, <2>3, <4>1 DEF Invalidated, Retired, Controller
      <3>2. gone \in SUBSET Nat
        BY <1>0, <2>3, ControllerFields DEF NoneOr
      <3> HIDE DEF st, gone
      <3>3. v \in Controller
        BY <1>0, <2>1, <3>1, <3>2 DEF Controller
      <3> QED BY <1>0, <3>1, <3>3 DEF Controller
    <2> QED BY <2>2, <2>3
  <1>2. Calls(v)
    BY <1>0, <1>1, SameCallsWell DEF SameCalls
  <1>3. Apart(v)
    BY <1>0, <1>1 DEF Apart
  <1>4. Kept(v)
    BY <1>0, <1>1 DEF Kept, Found
  <1>5. ~Choosing(v)
    BY <1>1 DEF Choosing
  <1>6. Focus(v, l, m)
    <2>1. Last(v, l, m)
      BY <1>0, <1>1 DEF Focus, Last
    <2>2. Selected(v, l, m)
      BY <1>0, <1>1 DEF Focus, Selected
    <2>3. Chosen(v, l, m) /\ Closing(v)
      BY <1>0, <1>1, <1>5 DEF Focus, Chosen, Closing, Choosing
    <2>4. Replacing(v, m)
      BY <1>0, <1>1 DEF Focus, Replacing
    <2>5. Ended(v)
      BY <1>0, <1>1, <1>5 DEF Focus, Ended
    <2> QED BY <1>0, <1>1, <2>1, <2>2, <2>3, <2>4, <2>5 DEF Focus
  <1>7. Seen(v)
    BY <1>0, <1>1 DEF Seen
  <1> QED BY <1>1, <1>2, <1>3, <1>4, <1>6, <1>7 DEF Good

\* What only the timer, the view and the retries notice.
LEMMA MinorGood ==
  ASSUME NEW u, NEW l, NEW m, Good(u, l, m), NEW v \in Controller,
         v.active = u.active, v.selected = u.selected, v.session = u.session,
         v.status = u.status, v.refresh = u.refresh, v.candidate = u.candidate,
         v.epoch = u.epoch, v.sub = u.sub, v.post = u.post, v.close = u.close,
         v.choice = u.choice, v.retired = u.retired, v.adopted = u.adopted,
         v.queued => u.queued, v.timer => u.timer, v.inventory => u.inventory
  PROVE  Good(v, l, m) /\ (Choosing(v) <=> Choosing(u))
  <1>0. u \in Controller /\ Calls(u) /\ Apart(u) /\ Kept(u) /\ Focus(u, l, m) /\ Seen(u)
    BY DEF Good
  <1>1. Calls(v)
    BY <1>0, SameCallsWell DEF SameCalls
  <1>2. Apart(v) /\ Kept(v)
    BY <1>0 DEF Apart, Kept, Found
  <1>3. Choosing(v) <=> Choosing(u)
    BY DEF Choosing
  <1>4. Focus(v, l, m)
    <2>1. Last(v, l, m)
      BY <1>0 DEF Focus, Last
    <2>2. Selected(v, l, m)
      BY <1>0 DEF Focus, Selected, Quiet
    <2>3. Chosen(v, l, m) /\ Closing(v)
      BY <1>0, <1>3 DEF Focus, Chosen, Closing, Quiet
    <2>4. Replacing(v, m) /\ Ended(v)
      BY <1>0, <1>3 DEF Focus, Replacing, Ended
    <2> QED BY <1>0, <2>1, <2>2, <2>3, <2>4 DEF Focus
  <1>5. Seen(v)
    BY <1>0 DEF Seen
  <1> QED BY <1>1, <1>2, <1>3, <1>4, <1>5 DEF Good

\* A session that is shown is replaced only if it is not what the backend and the files are.
Replaceable(u) == u.session # None => ~Unchanged(u.session)

LEMMA QueuedGood ==
  ASSUME NEW u, NEW l, NEW m, Good(u, l, m), Replaceable(u), ~Choosing(u),
         u.active, u.selected # None, u.post # NoCall, NEW v, v = [u EXCEPT !.queued = TRUE]
  PROVE  Good(v, l, m) /\ v.session = u.session
  <1>0. u \in Controller /\ Calls(u) /\ Apart(u) /\ Kept(u) /\ Focus(u, l, m) /\ Seen(u)
    BY DEF Good
  <1>2. /\ v \in Controller /\ v.queued
        /\ v.active = u.active /\ v.selected = u.selected /\ v.session = u.session
        /\ v.status = u.status /\ v.refresh = u.refresh /\ v.candidate = u.candidate
        /\ v.epoch = u.epoch /\ v.timer = u.timer /\ v.inventory = u.inventory
        /\ v.sub = u.sub /\ v.post = u.post /\ v.close = u.close
        /\ v.choice = u.choice /\ v.retired = u.retired /\ v.adopted = u.adopted
    BY <1>0 DEF Controller
  <1>3. Calls(v) /\ Apart(v) /\ Kept(v)
    <2>1. Calls(v)
      BY <1>0, <1>2, SameCallsWell DEF SameCalls
    <2> QED BY <1>0, <1>2, <2>1 DEF Apart, Kept, Found
  <1>4. u.post.stage # "none" /\ ~Choosing(v) /\ ~u.close.current
    BY <1>0, <1>2 DEF Calls, PostWell, Choosing, Focus, Closing
  <1>5. Focus(v, l, m)
    <2>1. Last(v, l, m)
      BY <1>0, <1>2 DEF Focus, Last
    <2>2. Selected(v, l, m)
      BY <1>0, <1>2 DEF Focus, Selected
    <2>3. Chosen(v, l, m) /\ Closing(v)
      BY <1>0, <1>2, <1>4 DEF Focus, Chosen, Closing, Choosing
    <2>4. Replacing(v, m) /\ Ended(v)
      BY <1>0, <1>2, <1>4 DEF Focus, Replacing, Ended
    <2> QED BY <1>0, <1>2, <2>1, <2>2, <2>3, <2>4 DEF Focus
  <1>6. Seen(v)
    BY <1>0, <1>2 DEF Seen, Replaceable
  <1> QED BY <1>2, <1>3, <1>5, <1>6 DEF Good

LEMMA RefreshedGood ==
  ASSUME NEW u, NEW l, NEW m, Good(u, l, m), Replaceable(u), ~Choosing(u),
         NEW v, v = Refreshed(u)
  PROVE  Good(v, l, m)
  <1>0. u \in Controller /\ Calls(u) /\ Apart(u) /\ Kept(u) /\ Focus(u, l, m) /\ Seen(u)
    BY DEF Good
  <1>1. CASE ~u.active \/ u.selected = None
    BY <1>1 DEF Refreshed
  <1>2. CASE ~(~u.active \/ u.selected = None) /\ u.post # NoCall
    <2>1. v = [u EXCEPT !.queued = TRUE]
      BY <1>2 DEF Refreshed
    <2> QED BY <1>2, <2>1, QueuedGood
  <1>3. CASE ~(~u.active \/ u.selected = None) /\ ~(u.post # NoCall)
    <2> DEFINE a == [u EXCEPT !.timer = FALSE]
               d == Dropped(a)
               i == Invalidated(d, "updating")
               p == Disposed(i)
               s == Sent(u.selected)
    <2>1. v = [p EXCEPT !.queued = FALSE, !.post = s]
      BY <1>3 DEF Refreshed
    <2>2. Good(a, l, m) /\ ~Choosing(a) /\ ~a.timer /\ a.selected = u.selected
          /\ a.active = u.active /\ a.post = u.post
      <3>1. /\ a \in Controller /\ ~a.timer
            /\ a.active = u.active /\ a.selected = u.selected /\ a.session = u.session
            /\ a.status = u.status /\ a.refresh = u.refresh /\ a.candidate = u.candidate
            /\ a.epoch = u.epoch /\ a.queued = u.queued /\ a.inventory = u.inventory
            /\ a.sub = u.sub /\ a.post = u.post /\ a.close = u.close
            /\ a.choice = u.choice /\ a.retired = u.retired /\ a.adopted = u.adopted
        BY <1>0 DEF Controller
      <3> HIDE DEF a
      <3> QED BY <3>1, MinorGood
    <2> HIDE DEF a
    <2>3. Good(d, l, m) /\ ~Choosing(d) /\ ~d.timer /\ d.selected = u.selected
          /\ d.active = u.active /\ d.post = u.post /\ d.candidate = None
      <3>1. a \in Controller
        BY <2>2 DEF Good
      <3>2. d.timer = a.timer /\ d.selected = a.selected /\ d.active = a.active
            /\ d.post = a.post /\ d.choice = a.choice
        BY <3>1, DroppedFields
      <3>3. ~Choosing(d)
        BY <2>2, <3>2 DEF Choosing
      <3> QED BY <2>2, <3>2, <3>3, DroppedGood
    <2> HIDE DEF d
    <2>4. Good(i, l, m) /\ i.session = None /\ i.active = d.active /\ i.selected = d.selected
          /\ i.timer = d.timer /\ i.candidate = d.candidate /\ i.post = d.post
      <3>1. "updating" \in {"updating", "waiting"} /\ d.selected # None
        BY <1>3, <2>3
      <3> QED BY <2>3, <3>1, InvalidatedGood
    <2> HIDE DEF i
    <2>5. Good(p, l, m) /\ ~p.close.current /\ ~Choosing(p)
      BY <2>4, DisposedGood
    <2>6. p \in Controller /\ Calls(p) /\ Apart(p) /\ Kept(p) /\ Focus(p, l, m) /\ Seen(p)
      BY <2>5 DEF Good
    <2>7. p.session = None /\ p.active /\ p.selected = u.selected /\ p.selected # None
          /\ ~p.timer /\ p.candidate = None /\ p.post = NoCall
      <3>1. i \in Controller
        BY <2>4 DEF Good
      <3>2. p.session = i.session /\ p.active = i.active /\ p.selected = i.selected
            /\ p.timer = i.timer /\ p.candidate = i.candidate /\ Stale(i.post, p.post)
        BY <3>1, DisposedFields
      <3>3. u.post = NoCall
        BY <1>3
      <3> QED BY <1>3, <2>3, <2>4, <3>2, <3>3 DEF Stale
    <2>8. u.selected \in Model
      BY <1>0, <1>3, ControllerFields DEF NoneOr
    <2>9. s \in Request /\ s.stage = "sent" /\ s.of = u.selected /\ s.current
          /\ s.result = None
      BY <2>8, SentFields
    <2> HIDE DEF p, s
    <2>10. /\ v \in Controller /\ v.post = s /\ ~v.queued
           /\ v.active = p.active /\ v.selected = p.selected /\ v.session = p.session
           /\ v.status = p.status /\ v.refresh = p.refresh /\ v.candidate = p.candidate
           /\ v.epoch = p.epoch /\ v.timer = p.timer /\ v.inventory = p.inventory
           /\ v.sub = p.sub /\ v.close = p.close
           /\ v.choice = p.choice /\ v.retired = p.retired /\ v.adopted = p.adopted
      BY <2>1, <2>6, <2>9 DEF Controller
    <2>11. Calls(v)
      <3>1. PostWell(v)
        BY <2>8, <2>9, <2>10 DEF PostWell, Well, Granted
      <3> QED BY <2>6, <2>10, <3>1 DEF Calls, CloseWell, ChoiceWell
    <2>12. p.post.result = None /\ p.post.stage = "none" /\ ~Choosing(v)
      BY <2>5, <2>7, <2>10, NoCallFields DEF Choosing
    <2>13. Apart(v) /\ Kept(v)
      <3>1. Apart(v)
        BY <2>6, <2>9, <2>10, <2>12 DEF Apart
      <3>2. Kept(v)
        BY <2>6, <2>9, <2>10, <2>12 DEF Kept, Found
      <3> QED BY <3>1, <3>2
    <2>14. Focus(v, l, m)
      <3>1. Last(v, l, m)
        BY <2>6, <2>10 DEF Focus, Last
      <3>2. Selected(v, l, m)
        BY <2>6, <2>7, <2>10 DEF Focus, Selected
      <3>3. Chosen(v, l, m) /\ Closing(v)
        BY <2>5, <2>10, <2>12 DEF Chosen, Closing, Choosing
      <3>4. Replacing(v, m) /\ Ended(v)
        BY <2>7, <2>9, <2>10 DEF Replacing, Ended
      <3> QED BY <2>6, <2>10, <3>1, <3>2, <3>3, <3>4 DEF Focus
    <2>15. Seen(v)
      BY <2>6, <2>7, <2>10 DEF Seen
    <2> QED BY <2>7, <2>10, <2>11, <2>13, <2>14, <2>15 DEF Good
  <1> QED BY <1>1, <1>2, <1>3

\* A session that nobody else holds is shown.
LEMMA AcceptedGood ==
  ASSUME Backend, NEW u \in Controller, NEW l, NEW m, NEW s \in 1..Len(known),
         Calls(u), Apart(u), Focus(u, l, m), Seen(u),
         1 \in u.adopted, \A t \in 1..Len(known) : t = s \/ Found(u, t),
         s \notin u.retired, s # u.post.result, \A i \in 1..Asks : s # u.choice[i].result,
         known[s].model = m, u.candidate = None, u.sub.frame = None, u.active,
         ~u.timer, ~u.queued, ~u.post.current, ~u.close.current, ~Choosing(u),
         u.epoch # None /\ known[s].epoch # None => known[s].epoch <= u.epoch,
         NEW b \in BOOLEAN, NEW v, v = Accepted(u, s, b)
  PROVE  Good(v, l, m)
  <1> DEFINE w == [u EXCEPT !.session = s, !.selected = known[s].model, !.status = "ready",
                            !.refresh = "idle", !.adopted = @ \cup {s}, !.inventory = TRUE]
  <1>1. v = w \/ v = Observed(w)
    BY DEF Accepted
  <1>2. m \in Model /\ s \in Nat /\ s # None /\ u.adopted \in SUBSET Nat
    BY ControllerFields, NoneApart DEF Focus, Last
  <1>3. /\ w \in Controller /\ w.session = s /\ w.selected = m /\ w.status = "ready"
        /\ w.refresh = "idle" /\ w.adopted = u.adopted \cup {s} /\ w.inventory
        /\ w.active = u.active /\ w.candidate = u.candidate /\ w.queued = u.queued
        /\ w.epoch = u.epoch /\ w.timer = u.timer /\ w.sub = u.sub /\ w.post = u.post
        /\ w.close = u.close /\ w.choice = u.choice /\ w.retired = u.retired
    <2> DEFINE a == u.adopted \cup {s}
    <2>1. a \in SUBSET Nat /\ s \in NoneOr(Nat) /\ m \in NoneOr(Model)
      BY <1>2 DEF NoneOr
    <2>2. w = [u EXCEPT !.session = s, !.selected = m, !.status = "ready",
                        !.refresh = "idle", !.adopted = a, !.inventory = TRUE]
      BY DEF Controller
    <2> HIDE DEF w, a
    <2>3. w \in Controller
      BY <2>1, <2>2 DEF Controller
    <2> QED BY <2>2, <2>3 DEF Controller, a
  <1> HIDE DEF w
  <1>4. Calls(w)
    BY <1>3, SameCallsWell DEF SameCalls
  <1>5. Apart(w)
    BY <1>2, <1>3 DEF Apart
  <1>6. Kept(w)
    <2>1. ASSUME NEW t \in 1..Len(known) PROVE Found(w, t)
      BY <1>3 DEF Found
    <2> QED BY <1>3, <2>1 DEF Kept
  <1>7. ~Choosing(w)
    BY <1>3 DEF Choosing
  <1>8. Focus(w, l, m)
    <2>1. Last(w, l, m)
      BY <1>3 DEF Focus, Last
    <2>2. Selected(w, l, m)
      BY <1>2, <1>3, NoneApart DEF Selected
    <2>3. Chosen(w, l, m) /\ Closing(w)
      BY <1>3, <1>7 DEF Chosen, Closing, Choosing
    <2>4. Replacing(w, m) /\ Ended(w)
      BY <1>3 DEF Replacing, Ended
    <2> QED BY <1>2, <1>3, <2>1, <2>2, <2>3, <2>4 DEF Focus
  <1>9. Seen(w)
    BY <1>3 DEF Seen
  <1>10. Good(w, l, m)
    BY <1>3, <1>4, <1>5, <1>6, <1>8, <1>9 DEF Good
  <1> QED BY <1>1, <1>7, <1>10, ObservedGood

\* The controller knows a session's epoch and revision to be stale.
LEMMA StaleSession ==
  ASSUME Backend, NEW s \in 1..Len(known),
         \/ revision[known[s].model] # known[s].revision
         \/ known[s].epoch # epoch
  PROVE  ~Unchanged(s)
  BY DEF Unchanged, Alive, RevisionOf

LEMMA NotedGood ==
  ASSUME Backend, NEW u, NEW l, NEW m, Good(u, l, m), u.sub.on, NEW event \in Event,
         event.epoch = epoch, NEW v, v = Noted(u, event)
  PROVE  /\ Good(v, l, m) /\ ~Choosing(v) /\ v.epoch = epoch
         /\ v.session = u.session /\ v.selected = u.selected /\ v.selected # None
         /\ v.selected = m /\ v.active /\ v.candidate = u.candidate /\ v.post = u.post
         /\ v.refresh = u.refresh /\ v.sub = u.sub /\ v.queued = u.queued
         /\ v.retired = u.retired /\ v.choice = u.choice /\ v.close = u.close
         /\ v.adopted = u.adopted
  <1>0. u \in Controller /\ Calls(u) /\ Apart(u) /\ Kept(u) /\ Focus(u, l, m) /\ Seen(u)
    BY DEF Good
  <1>1. u.selected # None /\ u.selected = m /\ u.active /\ ~Choosing(u) /\ ~u.close.current
    BY <1>0 DEF Focus, Selected, Chosen, Ended, Quiet, Closing
  <1> DEFINE w == [u EXCEPT !.epoch = event.epoch, !.latest = event.revision]
  <1>2. /\ w \in Controller /\ w.epoch = epoch
        /\ w.active = u.active /\ w.selected = u.selected /\ w.session = u.session
        /\ w.status = u.status /\ w.refresh = u.refresh /\ w.candidate = u.candidate
        /\ w.queued = u.queued /\ w.timer = u.timer /\ w.inventory = u.inventory
        /\ w.sub = u.sub /\ w.post = u.post /\ w.close = u.close /\ w.choice = u.choice
        /\ w.retired = u.retired /\ w.adopted = u.adopted
    <2>1. event.epoch \in NoneOr(Nat) /\ event.revision \in NoneOr(Nat)
      BY DEF Event, NoneOr
    <2>2. w \in Controller
      BY <1>0, <2>1 DEF Controller
    <2> QED BY <1>0, <2>2 DEF Controller
  <1> HIDE DEF w
  <1>3. /\ v \in Controller /\ v.epoch = epoch
        /\ v.active = u.active /\ v.selected = u.selected /\ v.session = u.session
        /\ v.status = u.status /\ v.refresh = u.refresh /\ v.candidate = u.candidate
        /\ v.queued = u.queued /\ v.inventory = u.inventory
        /\ v.sub = u.sub /\ v.post = u.post /\ v.close = u.close /\ v.choice = u.choice
        /\ v.retired = u.retired /\ v.adopted = u.adopted
        /\ v.timer => u.timer
    <2>1. CASE v = w
      BY <1>2, <2>1
    <2>2. CASE v # w
      <3> DEFINE n == IF Restarted(u, event) \/ event.revision # u.invalid
                      THEN None ELSE u.invalid
      <3>1. v = [w EXCEPT !.timer = FALSE, !.retries = 0, !.invalid = n]
        <4>1. w.invalid = u.invalid
          BY <1>0 DEF w, Controller
        <4>2. w = [u EXCEPT !.epoch = event.epoch, !.latest = event.revision]
          BY DEF w
        <4>3. v = [w EXCEPT !.timer = FALSE, !.retries = 0,
                            !.invalid = IF Restarted(u, event) \/ event.revision # u.invalid
                                        THEN None ELSE @]
          BY <2>2, <4>2 DEF Noted
        <4> QED BY <1>2, <4>1, <4>3 DEF Controller
      <3>2. n \in NoneOr(Nat) /\ 0 \in 0..Retries
        BY <1>0, ControllerFields, NoneApart DEF NoneOr
      <3> HIDE DEF n
      <3>3. v \in Controller
        BY <1>2, <3>1, <3>2 DEF Controller
      <3> QED BY <1>2, <3>1, <3>3 DEF Controller
    <2> QED BY <2>1, <2>2
  <1>4. Calls(v) /\ Apart(v) /\ Kept(v)
    <2>1. Calls(v)
      BY <1>0, <1>3, SameCallsWell DEF SameCalls
    <2> QED BY <1>0, <1>3, <2>1 DEF Apart, Kept, Found
  <1>5. ~Choosing(v)
    BY <1>1, <1>3 DEF Choosing
  <1>6. Focus(v, l, m)
    <2>1. Last(v, l, m)
      BY <1>0, <1>3 DEF Focus, Last
    <2>2. Selected(v, l, m)
      BY <1>0, <1>1, <1>3 DEF Focus, Selected
    <2>3. Chosen(v, l, m) /\ Closing(v)
      BY <1>1, <1>3, <1>5 DEF Chosen, Closing, Choosing
    <2>4. Replacing(v, m) /\ Ended(v)
      BY <1>0, <1>1, <1>3 DEF Focus, Replacing, Ended
    <2> QED BY <1>0, <1>3, <2>1, <2>2, <2>3, <2>4 DEF Focus
  <1>7. Seen(v)
    <2>1. u.session # None /\ known[u.session].epoch # None => known[u.session].epoch <= epoch
      BY <1>0 DEF Apart, Backend
    <2>2. epoch <= epoch
      BY DEF Backend
    <2> QED BY <1>0, <1>3, <2>1, <2>2 DEF Seen
  <1> QED BY <1>1, <1>3, <1>4, <1>5, <1>6, <1>7 DEF Good

\* A session that is not replaceable stays.
Stays(u, v) == u.session = None \/ v.session = u.session \/ ~Unchanged(u.session)

\* observeState: of an event that is not older than what is shown.
LEMMA ObserveGood ==
  ASSUME Backend, NEW u, NEW l, NEW m, Good(u, l, m), u.sub.on, u.sub.frame = None,
         NEW event \in Event, event.epoch = epoch, event.revision <= revision[m],
         u.session # None => known[u.session].revision <= event.revision,
         NEW v, v = ObserveState(u, event)
  PROVE  Good(v, l, m) /\ Stays(u, v)
  <1>0. u \in Controller /\ Calls(u) /\ Apart(u) /\ Kept(u) /\ Focus(u, l, m) /\ Seen(u)
    BY DEF Good
  <1> DEFINE n == Noted(u, event)
  <1>1. /\ Good(n, l, m) /\ ~Choosing(n) /\ n.epoch = epoch
        /\ n.session = u.session /\ n.selected # None
        /\ n.selected = m /\ n.active /\ n.candidate = u.candidate /\ n.post = u.post
        /\ n.refresh = u.refresh /\ n.sub = u.sub /\ n.queued = u.queued
    BY NotedGood
  <1> HIDE DEF n
  <1>2. n \in Controller /\ Calls(n) /\ Apart(n) /\ Kept(n) /\ Focus(n, l, m) /\ Seen(n)
    BY <1>1 DEF Good
  <1>3. ASSUME u.session # None, event.revision # known[u.session].revision
        PROVE  ~Unchanged(u.session)
    <2>1. u.session \in 1..Len(known) /\ known[u.session].model = m
      BY <1>0, <1>3 DEF Apart, Focus, Selected
    <2>2. known[u.session].revision < event.revision
      <3>1. known[u.session] \in Known
        BY <2>1 DEF Backend
      <3>2. known[u.session].revision \in Nat /\ event.revision \in Nat
        BY <3>1, NoneApart DEF Known, Event
      <3> QED BY <1>3, <3>2
    <2>3. revision[m] # known[u.session].revision
      <3>1. known[u.session] \in Known /\ m \in Model
        BY <1>0, <2>1 DEF Backend, Focus, Last
      <3>2. known[u.session].revision \in Nat /\ event.revision \in Nat /\ revision[m] \in Nat
        BY <3>1, NoneApart DEF Known, Event, Backend
      <3> QED BY <2>2, <3>2
    <2> QED BY <2>1, <2>3, StaleSession
  <1>4. ASSUME u.session # None, Restarted(u, event) PROVE ~Unchanged(u.session)
    <2>1. u.session \in 1..Len(known) /\ u.epoch # None /\ u.epoch # epoch /\ u.epoch <= epoch
      BY <1>0, <1>4 DEF Apart, Restarted, Seen
    <2>2. known[u.session].epoch # None => known[u.session].epoch <= u.epoch
      BY <1>0, <1>4, <2>1 DEF Seen
    <2>3. known[u.session].epoch # epoch
      <3>1. known[u.session] \in Known /\ epoch \in Nat /\ u.epoch \in Nat
        BY <1>0, <2>1, ControllerFields DEF Backend, NoneOr
      <3>2. u.epoch < epoch
        BY <2>1, <3>1
      <3>3. known[u.session].epoch \in NoneOr(Nat)
        BY <3>1, NoneApart DEF Known, NoneOr
      <3>4. CASE known[u.session].epoch = None
        BY <3>1, <3>4, NoneApart
      <3>5. CASE known[u.session].epoch # None
        <4>1. known[u.session].epoch \in Nat
          BY <3>3, <3>5 DEF NoneOr
        <4> QED BY <2>2, <3>1, <3>2, <3>5, <4>1
      <3> QED BY <3>4, <3>5
    <2> QED BY <2>1, <2>3, StaleSession
  <1>5. CASE event.revision \in Gone
    <2> DEFINE p == Disposed(n)
               d == Dropped(p)
               q == [d EXCEPT !.queued = FALSE]
    <2>1. v = Invalidated(q, "waiting")
      BY <1>5 DEF ObserveState, n
    <2>2. Good(p, l, m) /\ ~Choosing(p) /\ p.selected = m
      <3>1. p.selected = n.selected
        BY <1>2, DisposedFields
      <3> QED BY <1>1, <3>1, DisposedGood
    <2> HIDE DEF p
    <2>3. Good(d, l, m) /\ ~Choosing(d) /\ d.selected = m
      <3>1. p \in Controller
        BY <2>2 DEF Good
      <3>2. d.selected = p.selected /\ d.choice = p.choice
        BY <3>1, DroppedFields
      <3>3. ~Choosing(d)
        BY <2>2, <3>2 DEF Choosing
      <3> QED BY <2>2, <3>2, <3>3, DroppedGood
    <2> HIDE DEF d
    <2>4. Good(q, l, m) /\ ~Choosing(q) /\ q.selected # None
      <3>1. d \in Controller
        BY <2>3 DEF Good
      <3>2. /\ q \in Controller /\ ~q.queued
            /\ q.active = d.active /\ q.selected = d.selected /\ q.session = d.session
            /\ q.status = d.status /\ q.refresh = d.refresh /\ q.candidate = d.candidate
            /\ q.epoch = d.epoch /\ q.timer = d.timer /\ q.inventory = d.inventory
            /\ q.sub = d.sub /\ q.post = d.post /\ q.close = d.close
            /\ q.choice = d.choice /\ q.retired = d.retired /\ q.adopted = d.adopted
        BY <3>1 DEF Controller
      <3> HIDE DEF q
      <3>3. q.selected # None
        BY <1>1, <2>3, <3>2
      <3> QED BY <2>3, <3>2, <3>3, MinorGood
    <2> HIDE DEF q
    <2>5. Good(v, l, m)
      <3>1. "waiting" \in {"updating", "waiting"}
        OBVIOUS
      <3> QED BY <2>1, <2>4, <3>1, InvalidatedGood
    <2>6. u.session # None => ~Unchanged(u.session)
      <3>1. u.session # None => known[u.session].revision \notin Gone
        BY <1>0 DEF Apart, Backend
      <3> QED BY <1>3, <1>5, <3>1
    <2> QED BY <2>5, <2>6 DEF Stays
  <1>6. CASE event.revision \notin Gone /\ n.candidate # None
    <2>1. n.session = None
      BY <1>2, <1>6 DEF Focus, Replacing
    <2>2. CASE Confirms(n, event)
      <3> DEFINE s == n.candidate
                 w == [n EXCEPT !.candidate = None]
      <3>1. v = Accepted(w, s, TRUE)
        BY <1>6, <2>2 DEF ObserveState, n
      <3>2. /\ w \in Controller /\ w.candidate = None
            /\ w.active = n.active /\ w.selected = n.selected /\ w.session = n.session
            /\ w.status = n.status /\ w.refresh = n.refresh /\ w.queued = n.queued
            /\ w.epoch = n.epoch /\ w.timer = n.timer /\ w.inventory = n.inventory
            /\ w.sub = n.sub /\ w.post = n.post /\ w.close = n.close
            /\ w.choice = n.choice /\ w.retired = n.retired /\ w.adopted = n.adopted
        <4>1. None \in NoneOr(Nat)
          BY DEF NoneOr
        <4>2. w \in Controller
          BY <1>2, <4>1 DEF Controller
        <4> QED BY <1>2, <4>2 DEF Controller
      <3>3. /\ s \in 1..Len(known) /\ s \notin n.retired /\ s # n.post.result
            /\ \A i \in 1..Asks : s # n.choice[i].result
            /\ known[s].model = m /\ ~n.queued /\ ~n.timer /\ n.post.stage = "none"
        <4>1. \A t : t \in 2..Len(known) => t \in 1..Len(known)
          OBVIOUS
        <4> QED BY <1>2, <1>6, <4>1 DEF Apart, Focus, Replacing
      <3>4. ~n.post.current /\ ~n.close.current
        BY <1>1, <1>2, <3>3 DEF Calls, PostWell, Well, Focus, Closing
      <3> HIDE DEF w
      <3>5. Calls(w)
        BY <1>2, <3>2, SameCallsWell DEF SameCalls
      <3>6. Apart(w)
        BY <1>2, <3>2 DEF Apart
      <3>7. ~Choosing(w)
        BY <1>1, <3>2 DEF Choosing
      <3>8. Focus(w, l, m)
        <4>1. Last(w, l, m)
          BY <1>2, <3>2 DEF Focus, Last
        <4>2. Selected(w, l, m)
          BY <1>1, <1>2, <3>2 DEF Focus, Selected
        <4>3. Chosen(w, l, m) /\ Closing(w)
          BY <3>2, <3>4, <3>7 DEF Chosen, Closing, Choosing
        <4>4. Replacing(w, m) /\ Ended(w)
          BY <1>1, <1>2, <3>2 DEF Focus, Replacing, Ended
        <4> QED BY <1>2, <3>2, <4>1, <4>2, <4>3, <4>4 DEF Focus
      <3>9. Seen(w)
        BY <1>2, <3>2 DEF Seen
      <3>10. 1 \in w.adopted /\ \A t \in 1..Len(known) : t = s \/ Found(w, t)
        BY <1>2, <3>2 DEF Kept, Found
      <3>11. w.epoch # None /\ known[s].epoch # None => known[s].epoch <= w.epoch
        BY <1>1, <3>2, <3>3 DEF Backend
      <3>12. s \notin w.retired /\ s # w.post.result /\ (\A i \in 1..Asks : s # w.choice[i].result)
             /\ w.sub.frame = None /\ w.active /\ ~w.timer /\ ~w.queued /\ ~w.post.current
             /\ ~w.close.current
        BY <1>1, <3>2, <3>3, <3>4
      <3> HIDE DEF s
      <3>13. Good(v, l, m)
        <4>1. TRUE \in BOOLEAN
          OBVIOUS
        <4> QED BY <3>1, <3>2, <3>3, <3>5, <3>6, <3>7, <3>8, <3>9, <3>10, <3>11, <3>12, <4>1,
                   AcceptedGood
      <3> QED BY <1>1, <2>1, <3>13 DEF Stays
    <2>3. CASE ~Confirms(n, event)
      <3> DEFINE d == Dropped(n)
      <3>1. v = Refreshed(d)
        BY <1>6, <2>3 DEF ObserveState, n
      <3>2. Good(d, l, m) /\ d.session = None /\ ~Choosing(d)
        <4>1. d.session = n.session /\ d.choice = n.choice
          BY <1>2, DroppedFields
        <4>2. ~Choosing(d)
          BY <1>1, <4>1 DEF Choosing
        <4> QED BY <1>1, <2>1, <4>1, <4>2, DroppedGood
      <3> HIDE DEF d
      <3>3. Good(v, l, m)
        BY <3>1, <3>2, RefreshedGood DEF Replaceable
      <3> QED BY <1>1, <2>1, <3>3 DEF Stays
    <2> QED BY <2>2, <2>3
  <1>7. CASE event.revision \notin Gone /\ ~(n.candidate # None)
    <2>1. CASE /\ ~Restarted(u, event) /\ n.session # None
               /\ RevisionOf(n.session) = event.revision
      <3>1. v = n
        BY <1>7, <2>1 DEF ObserveState, n
      <3> QED BY <1>1, <3>1 DEF Stays
    <2>2. CASE ~(/\ ~Restarted(u, event) /\ n.session # None
                 /\ RevisionOf(n.session) = event.revision)
      <3>1. Replaceable(n)
        BY <1>1, <1>3, <1>4, <2>2 DEF RevisionOf, Replaceable
      <3>2. (v = Busy(n, Changed(u, event)) /\ n.post # NoCall) \/ v = n \/ v = Refreshed(n)
        BY <1>7, <2>2 DEF ObserveState, n
      <3>3. Good(v, l, m)
        <4>1. CASE v = n
          BY <1>1, <4>1
        <4>2. CASE v = Refreshed(n)
          BY <1>1, <3>1, <4>2, RefreshedGood
        <4>3. CASE n.post # NoCall /\ v = [n EXCEPT !.queued = TRUE]
          BY <1>1, <3>1, <4>3, QueuedGood
        <4> QED BY <3>2, <4>1, <4>2, <4>3 DEF Busy
      <3>4. Stays(u, v)
        BY <1>1, <3>1 DEF Replaceable, Stays
      <3> QED BY <3>3, <3>4
    <2> QED BY <2>1, <2>2
  <1> QED BY <1>5, <1>6, <1>7

-----------------------------------------------------------------------------
(* The answers.                                                            *)

\* A request that has been answered is free again.
LEMMA PostFree ==
  ASSUME NEW u, NEW l, NEW m, Good(u, l, m), NEW v, v = [u EXCEPT !.post = NoCall]
  PROVE  /\ v \in Controller /\ Calls(v) /\ Apart(v) /\ Focus(v, l, m) /\ Seen(v)
         /\ v.post = NoCall
         /\ v.active = u.active /\ v.selected = u.selected /\ v.session = u.session
         /\ v.status = u.status /\ v.refresh = u.refresh /\ v.candidate = u.candidate
         /\ v.queued = u.queued /\ v.epoch = u.epoch /\ v.timer = u.timer
         /\ v.inventory = u.inventory /\ v.sub = u.sub /\ v.close = u.close
         /\ v.choice = u.choice /\ v.retired = u.retired /\ v.adopted = u.adopted
         /\ v.retries = u.retries
         /\ (Choosing(v) <=> Choosing(u))
         /\ \A t : Found(u, t) => Found(v, t) \/ t = u.post.result
  <1>0. u \in Controller /\ Calls(u) /\ Apart(u) /\ Kept(u) /\ Focus(u, l, m) /\ Seen(u)
    BY DEF Good
  <1>1. /\ v \in Controller /\ v.post = NoCall
        /\ v.active = u.active /\ v.selected = u.selected /\ v.session = u.session
        /\ v.status = u.status /\ v.refresh = u.refresh /\ v.candidate = u.candidate
        /\ v.queued = u.queued /\ v.epoch = u.epoch /\ v.timer = u.timer
        /\ v.inventory = u.inventory /\ v.sub = u.sub /\ v.close = u.close
        /\ v.choice = u.choice /\ v.retired = u.retired /\ v.adopted = u.adopted
        /\ v.retries = u.retries
    <2>1. v \in Controller
      BY <1>0, NoCallFields DEF Controller
    <2> QED BY <1>0, <2>1 DEF Controller
  <1>2. Calls(v)
    <2>1. PostWell(v)
      BY <1>1, NoCallFields DEF PostWell, Well, Granted
    <2> QED BY <1>0, <1>1, <2>1 DEF Calls, CloseWell, ChoiceWell
  <1>3. Choosing(v) <=> Choosing(u)
    BY <1>1 DEF Choosing
  <1>4. Apart(v)
    BY <1>0, <1>1, NoCallFields DEF Apart
  <1>5. Focus(v, l, m)
    <2>1. Last(v, l, m)
      BY <1>0, <1>1 DEF Focus, Last
    <2>2. Selected(v, l, m)
      BY <1>0, <1>1, NoCallFields DEF Focus, Selected, Quiet
    <2>3. Chosen(v, l, m) /\ Closing(v)
      BY <1>0, <1>1, <1>3, NoCallFields DEF Focus, Chosen, Closing, Quiet
    <2>4. Replacing(v, m) /\ Ended(v)
      BY <1>0, <1>1, <1>3, NoCallFields DEF Focus, Replacing, Ended
    <2> QED BY <1>0, <1>1, <2>1, <2>2, <2>3, <2>4 DEF Focus
  <1>6. Seen(v)
    BY <1>0, <1>1 DEF Seen
  <1>7. \A t : Found(u, t) => Found(v, t) \/ t = u.post.result
    BY <1>1 DEF Found
  <1> QED BY <1>1, <1>2, <1>3, <1>4, <1>5, <1>6, <1>7

\* A session that nobody else holds is given up.
LEMMA RetiredGood ==
  ASSUME NEW u \in Controller, NEW l, NEW m, NEW s \in 2..Len(known),
         Calls(u), Apart(u), Focus(u, l, m), Seen(u),
         1 \in u.adopted, u.session # None => u.session \in u.adopted,
         \A t \in 1..Len(known) : t = s \/ Found(u, t),
         s # u.session, s # u.candidate, s # u.post.result,
         \A i \in 1..Asks : s # u.choice[i].result,
         NEW v, v = Retired(u, s)
  PROVE  /\ Good(v, l, m) /\ v.session = u.session /\ v.queued = u.queued
         /\ v.active = u.active /\ v.choice = u.choice
  <1>1. s \in Nat /\ s # None /\ s # 1 /\ s \in 1..Len(known)
    BY NoneApart
  <1>2. /\ v \in Controller /\ v.retired = u.retired \cup {s}
        /\ v.active = u.active /\ v.selected = u.selected /\ v.session = u.session
        /\ v.status = u.status /\ v.refresh = u.refresh /\ v.candidate = u.candidate
        /\ v.queued = u.queued /\ v.epoch = u.epoch /\ v.timer = u.timer
        /\ v.inventory = u.inventory /\ v.sub = u.sub /\ v.post = u.post
        /\ v.close = u.close /\ v.choice = u.choice /\ v.adopted = u.adopted
    <2> DEFINE r == u.retired \cup {s}
    <2>1. v = [u EXCEPT !.retired = r]
      BY DEF Retired, Controller
    <2>2. r \in SUBSET Nat
      BY <1>1, ControllerFields
    <2> HIDE DEF r
    <2>3. v \in Controller
      BY <2>1, <2>2 DEF Controller
    <2> QED BY <2>1, <2>3 DEF Controller, r
  <1>3. Calls(v)
    BY <1>2, SameCallsWell DEF SameCalls
  <1>4. Apart(v)
    BY <1>1, <1>2 DEF Apart
  <1>5. Kept(v)
    <2>1. ASSUME NEW t \in 1..Len(known) PROVE Found(v, t)
      BY <1>2 DEF Found
    <2> QED BY <1>2, <2>1 DEF Kept
  <1>6. Choosing(v) <=> Choosing(u)
    BY <1>2 DEF Choosing
  <1>7. Focus(v, l, m)
    <2>1. Last(v, l, m)
      BY <1>2 DEF Focus, Last
    <2>2. Selected(v, l, m)
      BY <1>1, <1>2 DEF Focus, Selected, Quiet
    <2>3. Chosen(v, l, m) /\ Closing(v)
      BY <1>2, <1>6 DEF Focus, Chosen, Closing, Quiet
    <2>4. Replacing(v, m) /\ Ended(v)
      BY <1>2, <1>6 DEF Focus, Replacing, Ended
    <2> QED BY <1>2, <2>1, <2>2, <2>3, <2>4 DEF Focus
  <1>8. Seen(v)
    BY <1>2 DEF Seen
  <1> QED BY <1>2, <1>3, <1>4, <1>5, <1>7, <1>8 DEF Good

\* Another attempt, later.
LEMMA CountedGood ==
  ASSUME NEW u, NEW l, NEW m, Good(u, l, m), NEW e, NEW v, v = Counted(u, e),
         u.session = None, u.selected # None, u.active, u.candidate = None,
         u.post.stage = "none", ~Choosing(u)
  PROVE  Good(v, l, m) /\ v.queued = u.queued /\ v.active = u.active /\ v.session = None
         /\ ~Choosing(v) /\ v.selected = u.selected
  <1>0. u \in Controller /\ Calls(u) /\ Apart(u) /\ Kept(u) /\ Focus(u, l, m) /\ Seen(u)
    BY DEF Good
  <1>1. CASE v = u
    BY <1>1
  <1>2. CASE v # u
    <2> DEFINE r == u.retries + 1
    <2>1. v = [u EXCEPT !.timer = TRUE, !.retries = r] /\ r \in 0..Retries
      <3>1. u.retries < Retries /\ u.retries \in 0..Retries
        BY <1>0, <1>2, ControllerFields DEF Counted
      <3>2. v = [u EXCEPT !.timer = TRUE, !.retries = @ + 1]
        BY <1>2 DEF Counted
      <3> QED BY <1>0, <3>1, <3>2, NoneApart DEF Controller
    <2> HIDE DEF r
    <2>2. /\ v \in Controller /\ v.timer
          /\ v.active = u.active /\ v.selected = u.selected /\ v.session = u.session
          /\ v.status = u.status /\ v.refresh = u.refresh /\ v.candidate = u.candidate
          /\ v.queued = u.queued /\ v.epoch = u.epoch /\ v.inventory = u.inventory
          /\ v.sub = u.sub /\ v.post = u.post /\ v.close = u.close
          /\ v.choice = u.choice /\ v.retired = u.retired /\ v.adopted = u.adopted
      <3>1. v \in Controller
        BY <1>0, <2>1 DEF Controller
      <3> QED BY <1>0, <2>1, <3>1 DEF Controller
    <2>3. Calls(v) /\ Apart(v) /\ Kept(v)
      <3>1. Calls(v)
        BY <1>0, <2>2, SameCallsWell DEF SameCalls
      <3> QED BY <1>0, <2>2, <3>1 DEF Apart, Kept, Found
    <2>4. ~Choosing(v)
      BY <2>2 DEF Choosing
    <2>5. Focus(v, l, m)
      <3>1. Last(v, l, m)
        BY <1>0, <2>2 DEF Focus, Last
      <3>2. Selected(v, l, m)
        BY <1>0, <2>2 DEF Focus, Selected
      <3>3. Chosen(v, l, m) /\ Closing(v)
        BY <1>0, <2>2, <2>4 DEF Focus, Chosen, Closing, Choosing
      <3>4. Replacing(v, m) /\ Ended(v)
        BY <1>0, <2>2 DEF Focus, Replacing, Ended
      <3> QED BY <1>0, <2>2, <3>1, <3>2, <3>3, <3>4 DEF Focus
    <2>6. Seen(v)
      BY <1>0, <2>2 DEF Seen
    <2> QED BY <2>2, <2>3, <2>4, <2>5, <2>6 DEF Good
  <1> QED BY <1>1, <1>2

\* What waits behind a replacement is due.
LEMMA QueuedDue ==
  ASSUME NEW u, NEW l, NEW m, Good(u, l, m), u.queued
  PROVE  Replaceable(u) /\ ~Choosing(u)
  BY DEF Good, Focus, Seen, Chosen, Quiet, Replaceable

\* The candidate of the files as they are now.
LEMMA CandidateGood ==
  ASSUME NEW u, NEW l, NEW m, Good(u, l, m), u.post.result # None, Wanted(u, u.post),
         u.selected = u.post.of,
         NEW v, v = [[u EXCEPT !.post = NoCall] EXCEPT !.candidate = u.post.result, !.queued = FALSE]
  PROVE  Good(v, l, m) /\ ~Choosing(v) /\ u.session = None
  <1>0. u \in Controller /\ Calls(u) /\ Apart(u) /\ Kept(u) /\ Focus(u, l, m) /\ Seen(u)
    BY DEF Good
  <1> DEFINE free == [u EXCEPT !.post = NoCall]
             s == u.post.result
  <1>1. /\ free \in Controller /\ Calls(free) /\ Apart(free) /\ Focus(free, l, m) /\ Seen(free)
        /\ free.post = NoCall
        /\ free.active = u.active /\ free.selected = u.selected /\ free.session = u.session
        /\ free.status = u.status /\ free.refresh = u.refresh /\ free.candidate = u.candidate
        /\ free.queued = u.queued /\ free.epoch = u.epoch /\ free.timer = u.timer
        /\ free.inventory = u.inventory /\ free.sub = u.sub /\ free.close = u.close
        /\ free.choice = u.choice /\ free.retired = u.retired /\ free.adopted = u.adopted
        /\ (Choosing(free) <=> Choosing(u))
        /\ \A t : Found(u, t) => Found(free, t) \/ t = u.post.result
    BY PostFree
  <1>2. /\ s \in 2..Len(known) /\ s \in NoneOr(Nat) /\ s # 1
        /\ known[s].model = u.post.of /\ u.post.of \in Model /\ u.post.current /\ u.active
        /\ u.post.stage # "none"
    BY <1>0, NoneApart DEF Calls, PostWell, Granted, Well, Wanted, NoneOr
  <1>3. u.selected = m /\ u.session = None /\ ~Choosing(u) /\ ~u.close.current /\ ~u.timer
        /\ u.selected # None
    BY <1>0, <1>2, NoneApart DEF Focus, Selected, Replacing, Chosen, Quiet, Closing
  <1> HIDE DEF free
  <1>4. /\ v \in Controller /\ v.candidate = s /\ ~v.queued
        /\ v.active = free.active /\ v.selected = free.selected /\ v.session = free.session
        /\ v.status = free.status /\ v.refresh = free.refresh
        /\ v.epoch = free.epoch /\ v.timer = free.timer /\ v.inventory = free.inventory
        /\ v.sub = free.sub /\ v.post = free.post /\ v.close = free.close
        /\ v.choice = free.choice /\ v.retired = free.retired /\ v.adopted = free.adopted
    <2>1. v = [free EXCEPT !.candidate = s, !.queued = FALSE]
      BY DEF free
    <2> HIDE DEF s
    <2>2. v \in Controller
      BY <1>1, <1>2, <2>1 DEF Controller
    <2> QED BY <1>1, <2>1, <2>2 DEF Controller
  <1>5. Calls(v)
    BY <1>1, <1>4, SameCallsWell DEF SameCalls
  <1>6. Apart(v)
    <2>1. s \notin u.retired \cup {u.session, u.candidate}
      BY <1>0 DEF Apart
    <2>2. \A i \in 1..Asks : u.choice[i].result # None => u.choice[i].result # s
      BY <1>0 DEF Apart
    <2>3. v.post.result = None
      BY <1>1, <1>4, NoCallFields
    <2> QED BY <1>1, <1>2, <1>3, <1>4, <2>1, <2>2, <2>3 DEF Apart
  <1>7. Kept(v)
    <2>1. u.candidate = None
      BY <1>0, <1>2 DEF Focus, Replacing
    <2>2. ASSUME NEW t \in 1..Len(known) PROVE Found(v, t)
      <3>1. t # None
        BY NoneApart
      <3>2. Found(free, t) \/ t = s
        BY <1>0, <1>1 DEF Kept
      <3> QED BY <1>1, <1>4, <2>1, <3>1, <3>2 DEF Found
    <2> QED BY <1>0, <1>1, <1>4, <2>2 DEF Kept
  <1>8. ~Choosing(v)
    BY <1>1, <1>3, <1>4 DEF Choosing
  <1>9. Focus(v, l, m)
    <2>1. Last(v, l, m)
      BY <1>1, <1>4 DEF Focus, Last
    <2>2. Selected(v, l, m)
      BY <1>1, <1>3, <1>4 DEF Focus, Selected
    <2>3. Chosen(v, l, m) /\ Closing(v)
      BY <1>1, <1>3, <1>4, <1>8 DEF Chosen, Closing, Choosing
    <2>4. Replacing(v, m) /\ Ended(v)
      BY <1>1, <1>2, <1>3, <1>4, NoCallFields DEF Focus, Replacing, Ended
    <2> QED BY <1>1, <1>3, <1>4, <2>1, <2>2, <2>3, <2>4 DEF Focus
  <1>10. Seen(v)
    BY <1>1, <1>4 DEF Seen
  <1> QED BY <1>3, <1>4, <1>5, <1>6, <1>7, <1>8, <1>9, <1>10 DEF Good

\* The replacement is answered.
LEMMA PostSettledGood ==
  ASSUME Backend, NEW u, NEW l, NEW m, Good(u, l, m), u.post.stage = "reply",
         NEW v, v = PostSettled(u)
  PROVE  Good(v, l, m) /\ Stays(u, v)
  <1>0. u \in Controller /\ Calls(u) /\ Apart(u) /\ Kept(u) /\ Focus(u, l, m) /\ Seen(u)
    BY DEF Good
  <1> DEFINE call == u.post
             free == [u EXCEPT !.post = NoCall]
             w == IF call.result # None
                  THEN IF ~Wanted(u, call) \/ u.selected # call.of
                       THEN Retired(free, call.result)
                       ELSE Observed([free EXCEPT !.candidate = call.result, !.queued = FALSE])
                  ELSE IF call.current THEN Counted(Invalidated(free, "waiting"), call.error)
                  ELSE free
  <1>1. v = IF w.queued /\ w.active THEN Refreshed([w EXCEPT !.queued = FALSE]) ELSE w
    BY DEF PostSettled
  <1>2. /\ free \in Controller /\ Calls(free) /\ Apart(free) /\ Focus(free, l, m) /\ Seen(free)
        /\ free.post = NoCall
        /\ free.active = u.active /\ free.selected = u.selected /\ free.session = u.session
        /\ free.candidate = u.candidate /\ free.queued = u.queued
        /\ free.choice = u.choice /\ free.retired = u.retired /\ free.adopted = u.adopted
        /\ (Choosing(free) <=> Choosing(u))
        /\ \A t : Found(u, t) => Found(free, t) \/ t = u.post.result
    BY PostFree
  <1>3. call.result = None => Good(free, l, m)
    <2>1. SUFFICES ASSUME call.result = None PROVE Kept(free)
      BY <1>2 DEF Good
    <2>2. ASSUME NEW t \in 1..Len(known) PROVE Found(free, t)
      <3>1. t # None
        BY NoneApart
      <3> QED BY <1>0, <1>2, <2>1, <3>1 DEF Kept
    <2> QED BY <1>0, <1>2, <2>2 DEF Kept
  <1>4. Good(w, l, m) /\ (u.session = None \/ w.session = u.session)
    <2>1. CASE call.result # None /\ (~Wanted(u, call) \/ u.selected # call.of)
      <3> DEFINE s == call.result
      <3>1. w = Retired(free, s)
        BY <2>1
      <3>2. s \in 2..Len(known)
        BY <1>0, <2>1 DEF Calls, PostWell, Granted
      <3>3. s # u.session /\ s # u.candidate /\ \A i \in 1..Asks : s # u.choice[i].result
        BY <1>0, <2>1 DEF Apart
      <3>4. s # free.post.result
        BY <1>2, <2>1, NoCallFields
      <3>5. 1 \in free.adopted /\ (free.session # None => free.session \in free.adopted)
            /\ \A t \in 1..Len(known) : t = s \/ Found(free, t)
        BY <1>0, <1>2 DEF Kept
      <3> HIDE DEF free, s, w
      <3> QED BY <1>2, <3>1, <3>2, <3>3, <3>4, <3>5, RetiredGood
    <2>2. CASE call.result # None /\ ~(~Wanted(u, call) \/ u.selected # call.of)
      <3> DEFINE c == [free EXCEPT !.candidate = call.result, !.queued = FALSE]
      <3>1. w = Observed(c)
        BY <2>2
      <3>2. Good(c, l, m) /\ ~Choosing(c) /\ u.session = None
        BY <2>2, CandidateGood
      <3> HIDE DEF c, w
      <3> QED BY <3>1, <3>2, ObservedGood
    <2>3. CASE call.result = None /\ call.current
      <3> DEFINE i == Invalidated(free, "waiting")
      <3>1. w = Counted(i, call.error)
        BY <2>3
      <3>2. free.selected # None /\ free.active /\ ~Choosing(free) /\ u.session = None
            /\ u.candidate = None
        BY <1>0, <1>2, <2>3, NoneApart
           DEF Calls, PostWell, Well, Focus, Selected, Replacing, Chosen, Ended, Quiet
      <3> HIDE DEF free
      <3>3. /\ Good(i, l, m) /\ i.session = None /\ i.active = free.active
            /\ i.selected = free.selected /\ i.candidate = free.candidate
            /\ i.choice = free.choice /\ i.post = free.post
        <4>1. "waiting" \in {"updating", "waiting"}
          OBVIOUS
        <4>2. Good(free, l, m)
          BY <1>3, <2>3
        <4>3. free.selected # None /\ ~Choosing(free) /\ i = Invalidated(free, "waiting")
          BY <3>2
        <4> HIDE DEF i
        <4>4. Good(i, l, m) /\ i.session = None
          BY <4>1, <4>2, <4>3, InvalidatedGood
        <4>5. i.active = free.active /\ i.selected = free.selected /\ i.post = free.post
              /\ i.candidate = free.candidate /\ i.choice = free.choice
          BY <4>1, <4>2, <4>3, InvalidatedGood
        <4> QED BY <4>4, <4>5
      <3>4. ~Choosing(i) /\ i.post.stage = "none"
        BY <1>2, <3>2, <3>3, NoCallFields DEF Choosing
      <3> HIDE DEF i, w
      <3>5. i.selected # None /\ i.active /\ i.candidate = None
        BY <1>2, <3>2, <3>3
      <3>6. Good(w, l, m)
        BY <3>1, <3>3, <3>4, <3>5, CountedGood
      <3> QED BY <3>2, <3>6
    <2>4. CASE call.result = None /\ ~call.current
      <3>1. w = free
        BY <2>4
      <3> QED BY <1>2, <1>3, <2>4, <3>1
    <2> QED BY <2>1, <2>2, <2>3, <2>4
  <1> HIDE DEF w
  <1>5. CASE w.queued /\ w.active
    <2> DEFINE x == [w EXCEPT !.queued = FALSE]
    <2>1. v = Refreshed(x)
      BY <1>1, <1>5
    <2>2. Replaceable(w) /\ ~Choosing(w) /\ w \in Controller
      BY <1>4, <1>5, QueuedDue DEF Good
    <2>3. Good(x, l, m) /\ Replaceable(x) /\ ~Choosing(x)
      <3>1. /\ x \in Controller /\ ~x.queued
            /\ x.active = w.active /\ x.selected = w.selected /\ x.session = w.session
            /\ x.status = w.status /\ x.refresh = w.refresh /\ x.candidate = w.candidate
            /\ x.epoch = w.epoch /\ x.timer = w.timer /\ x.inventory = w.inventory
            /\ x.sub = w.sub /\ x.post = w.post /\ x.close = w.close
            /\ x.choice = w.choice /\ x.retired = w.retired /\ x.adopted = w.adopted
        BY <2>2 DEF Controller
      <3> HIDE DEF x
      <3> QED BY <1>4, <2>2, <3>1, MinorGood DEF Replaceable
    <2> HIDE DEF x
    <2>4. Good(v, l, m)
      BY <2>1, <2>3, RefreshedGood
    <2> QED BY <1>4, <2>2, <2>4 DEF Replaceable, Stays
  <1>6. CASE ~(w.queued /\ w.active)
    BY <1>1, <1>4, <1>6 DEF Stays
  <1> QED BY <1>5, <1>6

Over(call) == [NoCall EXCEPT !.stage = "over", !.of = call.of]

LEMMA ChoiceOver ==
  ASSUME NEW u, NEW l, NEW m, Good(u, l, m), NEW i \in 0..Asks, u.choice[i].stage = "reply",
         NEW v, v = [u EXCEPT !.choice[i] = Over(u.choice[i])]
  PROVE  /\ v \in Controller /\ Calls(v) /\ Apart(v) /\ Focus(v, l, m) /\ Seen(v)
         /\ v.choice[i].result = None /\ ~v.choice[i].current
         /\ \A j \in 0..Asks : j # i => v.choice[j] = u.choice[j]
         /\ v.active = u.active /\ v.selected = u.selected /\ v.session = u.session
         /\ v.status = u.status /\ v.refresh = u.refresh /\ v.candidate = u.candidate
         /\ v.queued = u.queued /\ v.epoch = u.epoch /\ v.timer = u.timer
         /\ v.inventory = u.inventory /\ v.sub = u.sub /\ v.close = u.close
         /\ v.post = u.post /\ v.retired = u.retired /\ v.adopted = u.adopted
         /\ \A t : Found(u, t) => Found(v, t) \/ t = u.choice[i].result
         /\ Choosing(v) => Choosing(u)
  <1>0. u \in Controller /\ Calls(u) /\ Apart(u) /\ Kept(u) /\ Focus(u, l, m) /\ Seen(u)
    BY DEF Good
  <1> DEFINE o == Over(u.choice[i])
  <1>1. /\ o \in Request /\ o.stage = "over" /\ o.of = u.choice[i].of
        /\ ~o.current /\ o.result = None
    <2>1. u.choice[i] \in Request
      BY <1>0, ControllerFields
    <2>2. u.choice[i].of \in NoneOr(Model \cup Nat)
      BY <2>1 DEF Request
    <2>3. o \in Request
      BY <2>2 DEF Over, NoCall, Request, NoneOr
    <2> QED BY <2>3 DEF Over, NoCall
  <1> HIDE DEF o
  <1> DEFINE h == [u.choice EXCEPT ![i] = o]
  <1>2. /\ h \in [0..Asks -> Request] /\ h[i] = o
        /\ \A j \in 0..Asks : j # i => h[j] = u.choice[j]
    BY <1>0, <1>1, ControllerFields
  <1>3. /\ v \in Controller /\ v.choice = h
        /\ v.active = u.active /\ v.selected = u.selected /\ v.session = u.session
        /\ v.status = u.status /\ v.refresh = u.refresh /\ v.candidate = u.candidate
        /\ v.queued = u.queued /\ v.epoch = u.epoch /\ v.timer = u.timer
        /\ v.inventory = u.inventory /\ v.sub = u.sub /\ v.close = u.close
        /\ v.post = u.post /\ v.retired = u.retired /\ v.adopted = u.adopted
    <2>1. v = [u EXCEPT !.choice = h]
      BY <1>0 DEF o, Controller
    <2> HIDE DEF h
    <2>2. v \in Controller
      BY <1>0, <1>2, <2>1 DEF Controller
    <2> QED BY <1>0, <2>1, <2>2 DEF Controller
  <1> HIDE DEF h
  <1>4. \A j \in 1..Asks : j \in 0..Asks
    BY NoneApart
  <1>5. Calls(v)
    <2>1. ASSUME NEW j \in 0..Asks PROVE Well(v.choice[j])
      BY <1>0, <1>1, <1>2, <1>3 DEF Calls, ChoiceWell, Well
    <2>2. v.choice[0].result \in {1, None}
      <3>1. 0 \in 0..Asks
        BY NoneApart
      <3> QED BY <1>0, <1>1, <1>2, <1>3, <3>1 DEF Calls, ChoiceWell
    <2>3. ASSUME NEW j \in 1..Asks
          PROVE  /\ Granted(v.choice[j])
                 /\ v.choice[j].stage # "none" => j <= asked /\ v.choice[j].of \in Model
                 /\ v.choice[j].stage = "none" => v.choice[j] = NoCall
      <3>1. CASE j = i
        BY <1>0, <1>1, <1>2, <1>3, <3>1 DEF Calls, ChoiceWell, Granted
      <3>2. CASE j # i
        BY <1>0, <1>2, <1>3, <1>4, <3>2 DEF Calls, ChoiceWell
      <3> QED BY <3>1, <3>2
    <2>4. ChoiceWell(v)
      BY <2>1, <2>2, <2>3 DEF ChoiceWell
    <2> QED BY <1>0, <1>3, <2>4 DEF Calls, PostWell, CloseWell
  <1>6. Apart(v)
    <2>1. ASSUME NEW j \in 1..Asks, v.choice[j].result # None
          PROVE  /\ v.choice[j].result \notin v.retired
                 /\ v.choice[j].result \notin {v.session, v.candidate, v.post.result}
                 /\ \A k \in 1..Asks : k # j => v.choice[j].result # v.choice[k].result
      <3>1. j # i /\ v.choice[j] = u.choice[j]
        BY <1>1, <1>2, <1>3, <1>4, <2>1
      <3>2. ASSUME NEW k \in 1..Asks, k # j PROVE v.choice[j].result # v.choice[k].result
        <4>1. CASE k = i
          BY <1>1, <1>2, <1>3, <2>1, <4>1
        <4>2. CASE k # i
          BY <1>0, <1>2, <1>3, <1>4, <2>1, <3>1, <3>2, <4>2 DEF Apart
        <4> QED BY <4>1, <4>2
      <3> QED BY <1>0, <1>3, <2>1, <3>1, <3>2 DEF Apart
    <2> QED BY <1>0, <1>3, <2>1 DEF Apart
  <1>7. Choosing(v) => Choosing(u)
    BY <1>1, <1>2, <1>3 DEF Choosing
  <1>8. Focus(v, l, m)
    <2>1. Last(v, l, m)
      <3>1. l \in 0..Asks
        BY <1>0 DEF Focus, Last
      <3>2. v.choice[l].stage # "none" /\ v.choice[l].of = u.choice[l].of
        BY <1>0, <1>1, <1>2, <1>3, <3>1 DEF Focus, Last
      <3>3. ASSUME NEW j \in 1..Asks, j > l PROVE v.choice[j].stage = "none"
        <4>1. u.choice[j].stage = "none"
          BY <1>0, <3>3 DEF Focus, Last
        <4> QED BY <1>2, <1>3, <1>4, <4>1
      <3> QED BY <1>0, <3>1, <3>2, <3>3 DEF Focus, Last
    <2>2. Selected(v, l, m)
      BY <1>0, <1>3 DEF Focus, Selected, Quiet
    <2>3. Chosen(v, l, m) /\ Closing(v)
      <3>1. ASSUME NEW j \in 0..Asks, v.choice[j].current
            PROVE  j = l /\ v.selected = IF j = 0 THEN None ELSE m
        <4>1. v.choice[j] = u.choice[j]
          BY <1>1, <1>2, <1>3, <3>1
        <4> QED BY <1>0, <1>3, <3>1, <4>1 DEF Focus, Chosen
      <3> QED BY <1>0, <1>3, <1>7, <3>1 DEF Focus, Chosen, Closing, Quiet
    <2>4. Replacing(v, m) /\ Ended(v)
      BY <1>0, <1>3, <1>7 DEF Focus, Replacing, Ended
    <2> QED BY <1>0, <1>3, <2>1, <2>2, <2>3, <2>4 DEF Focus
  <1>9. Seen(v)
    BY <1>0, <1>3 DEF Seen
  <1>10. ASSUME NEW t, Found(u, t) PROVE Found(v, t) \/ t = u.choice[i].result
    BY <1>2, <1>3, <1>10 DEF Found
  <1> QED BY <1>1, <1>2, <1>3, <1>5, <1>6, <1>7, <1>8, <1>9, <1>10

LEMMA FailedGood ==
  ASSUME NEW u, NEW l, NEW m, Good(u, l, m), u.status = "loading", ~Choosing(u), ~u.close.current,
         NEW v, v = Failed(u)
  PROVE  Good(v, l, m)
  <1>0. u \in Controller /\ Calls(u) /\ Apart(u) /\ Kept(u) /\ Focus(u, l, m) /\ Seen(u)
    BY DEF Good
  <1> DEFINE w == [u EXCEPT !.status = "failed"]
  <1>1. v = w \/ v = Observed(w)
    BY DEF Failed
  <1>2. /\ w \in Controller /\ w.status = "failed"
        /\ w.active = u.active /\ w.selected = u.selected /\ w.session = u.session
        /\ w.refresh = u.refresh /\ w.candidate = u.candidate
        /\ w.queued = u.queued /\ w.epoch = u.epoch /\ w.timer = u.timer
        /\ w.inventory = u.inventory /\ w.sub = u.sub /\ w.post = u.post
        /\ w.close = u.close /\ w.choice = u.choice /\ w.retired = u.retired
        /\ w.adopted = u.adopted
    BY <1>0 DEF Controller
  <1> HIDE DEF w
  <1>3. Calls(w) /\ Apart(w) /\ Kept(w)
    <2>1. Calls(w)
      BY <1>0, <1>2, SameCallsWell DEF SameCalls
    <2> QED BY <1>0, <1>2, <2>1 DEF Apart, Kept, Found
  <1>4. ~Choosing(w)
    BY <1>2 DEF Choosing
  <1>5. Focus(w, l, m)
    <2>1. Last(w, l, m)
      BY <1>0, <1>2 DEF Focus, Last
    <2>2. Selected(w, l, m)
      BY <1>0, <1>2 DEF Focus, Selected, Quiet
    <2>3. Chosen(w, l, m) /\ Closing(w)
      BY <1>2, <1>4 DEF Chosen, Closing, Choosing
    <2>4. Replacing(w, m) /\ Ended(w)
      BY <1>0, <1>2, <1>4 DEF Focus, Replacing, Ended
    <2> QED BY <1>0, <1>2, <2>1, <2>2, <2>3, <2>4 DEF Focus
  <1>6. Seen(w)
    BY <1>0, <1>2 DEF Seen
  <1>7. Good(w, l, m)
    BY <1>2, <1>3, <1>5, <1>6 DEF Good
  <1> QED BY <1>1, <1>4, <1>7, ObservedGood

\* Nothing is shown any more: the session has been deleted, or was not there.
LEMMA LetGo ==
  ASSUME NEW u, NEW l, NEW m, Good(u, l, m), ~Choosing(u), ~u.close.current,
         NEW st \in {"idle", "expired"},
         NEW v \in Controller, v.session = None, v.status = st, ~v.inventory,
         v.active = u.active, v.selected = u.selected, v.refresh = u.refresh,
         v.candidate = u.candidate, v.queued = u.queued, v.epoch = u.epoch,
         v.timer = u.timer, v.sub = u.sub, v.post = u.post, v.close = u.close,
         v.choice = u.choice, v.retired = u.retired, v.adopted = u.adopted
  PROVE  Good(v, l, m)
  <1>0. u \in Controller /\ Calls(u) /\ Apart(u) /\ Kept(u) /\ Focus(u, l, m) /\ Seen(u)
    BY DEF Good
  <1>1. Calls(v)
    BY <1>0, SameCallsWell DEF SameCalls
  <1>2. Apart(v)
    <2>1. v.post.result # None => v.post.result \notin v.retired \cup {v.session, v.candidate}
      BY <1>0 DEF Apart
    <2>2. v.candidate # None =>
            v.candidate \in 2..Len(known) /\ v.candidate \notin v.retired \cup {v.session}
      BY <1>0 DEF Apart
    <2> QED BY <1>0, <2>1, <2>2 DEF Apart
  <1>3. Kept(v)
    BY <1>0 DEF Kept, Found
  <1>4. ~Choosing(v)
    BY DEF Choosing
  <1>5. Focus(v, l, m)
    <2>1. Last(v, l, m)
      BY <1>0 DEF Focus, Last
    <2>2. Selected(v, l, m)
      BY <1>0 DEF Focus, Selected, Quiet
    <2>3. Chosen(v, l, m) /\ Closing(v)
      BY <1>4 DEF Chosen, Closing, Choosing
    <2>4. Replacing(v, m) /\ Ended(v)
      BY <1>0, <1>4 DEF Focus, Replacing, Ended
    <2> QED BY <1>0, <2>1, <2>2, <2>3, <2>4 DEF Focus
  <1>6. Seen(v)
    BY <1>0 DEF Seen
  <1> QED BY <1>1, <1>2, <1>3, <1>5, <1>6 DEF Good

\* A choice, or the recovery, is answered.
LEMMA ChoiceSettledGood ==
  ASSUME Backend, NEW u, NEW l, NEW m, Good(u, l, m), NEW i \in 0..Asks,
         u.choice[i].stage = "reply", NEW v, v = ChoiceSettled(u, i)
  PROVE  Good(v, l, m)
  <1>0. u \in Controller /\ Calls(u) /\ Apart(u) /\ Kept(u) /\ Focus(u, l, m) /\ Seen(u)
    BY DEF Good
  <1> DEFINE call == u.choice[i]
             w == [u EXCEPT !.choice[i] = Over(call)]
             s == call.result
  <1>1. /\ w \in Controller /\ Calls(w) /\ Apart(w) /\ Focus(w, l, m) /\ Seen(w)
        /\ w.choice[i].result = None /\ ~w.choice[i].current
        /\ \A j \in 0..Asks : j # i => w.choice[j] = u.choice[j]
        /\ w.active = u.active /\ w.selected = u.selected /\ w.session = u.session
        /\ w.status = u.status /\ w.refresh = u.refresh /\ w.candidate = u.candidate
        /\ w.queued = u.queued /\ w.epoch = u.epoch /\ w.timer = u.timer
        /\ w.inventory = u.inventory /\ w.sub = u.sub /\ w.close = u.close
        /\ w.post = u.post /\ w.retired = u.retired /\ w.adopted = u.adopted
        /\ \A t : Found(u, t) => Found(w, t) \/ t = u.choice[i].result
        /\ Choosing(w) => Choosing(u)
    <2>1. w = [u EXCEPT !.choice[i] = Over(u.choice[i])]
      OBVIOUS
    <2> HIDE DEF w
    <2>2. Calls(w) /\ Apart(w) /\ Focus(w, l, m) /\ Seen(w)
      BY <2>1, ChoiceOver
    <2>6. w \in Controller
      BY <2>1, ChoiceOver
    <2>7. w.choice = [u.choice EXCEPT ![i] = Over(u.choice[i])]
      BY <1>0, <2>1 DEF Controller
    <2>8. ASSUME NEW j \in 0..Asks, j # i PROVE w.choice[j] = u.choice[j]
      BY <1>0, <2>7, <2>8, ControllerFields
    <2>9. w.choice[i].result = None /\ ~w.choice[i].current
      BY <1>0, <2>7, ControllerFields DEF Over, NoCall
    <2>3. /\ w.active = u.active /\ w.selected = u.selected /\ w.session = u.session
          /\ w.status = u.status /\ w.refresh = u.refresh /\ w.candidate = u.candidate
          /\ w.queued = u.queued /\ w.epoch = u.epoch /\ w.timer = u.timer
          /\ w.inventory = u.inventory /\ w.sub = u.sub /\ w.close = u.close
          /\ w.post = u.post /\ w.retired = u.retired /\ w.adopted = u.adopted
      BY <2>1, ChoiceOver
    <2>4. Choosing(w) => Choosing(u)
      BY <2>1, ChoiceOver
    <2>5. \A t : Found(u, t) => Found(w, t) \/ t = u.choice[i].result
      BY <2>1, ChoiceOver
    <2> QED BY <2>2, <2>3, <2>4, <2>5, <2>6, <2>8, <2>9
  <1>2. v = IF s # None
            THEN IF Wanted(u, call) THEN Accepted(w, s, FALSE)
                 ELSE IF i = 0 THEN w ELSE Retired(w, s)
            ELSE IF ~call.current THEN w
            ELSE IF call.error = "expired" THEN Expired(w) ELSE Failed(w)
    BY DEF ChoiceSettled, Over
  <1> HIDE DEF w
  <1>3. \A j \in 1..Asks : j \in 0..Asks
    BY NoneApart
  <1>4. 1 \in w.adopted /\ (w.session # None => w.session \in w.adopted)
        /\ \A t \in 1..Len(known) : t = s \/ Found(w, t)
    BY <1>0, <1>1 DEF Kept
  <1>5. s = None \/ i = 0 => Good(w, l, m)
    <2>1. SUFFICES ASSUME s = None \/ i = 0 PROVE Kept(w)
      BY <1>1 DEF Good
    <2>2. s \in {1, None}
      BY <1>0, <2>1 DEF Calls, ChoiceWell
    <2>3. ASSUME NEW t \in 1..Len(known) PROVE Found(w, t)
      <3>1. t # None
        BY NoneApart
      <3>2. CASE t = s
        <4>1. t = 1
          BY <2>2, <3>1, <3>2
        <4> QED BY <1>4, <4>1 DEF Found
      <3> QED BY <1>4, <3>2
    <2> QED BY <1>4, <2>3 DEF Kept
  <1>6. call.current =>
          /\ i = l /\ u.session = None /\ u.status = "loading" /\ Quiet(u) /\ ~u.close.current
          /\ u.selected = IF i = 0 THEN None ELSE m
          /\ ~Choosing(w)
    <2>1. SUFFICES ASSUME call.current
                   PROVE  /\ i = l /\ u.session = None /\ u.status = "loading" /\ Quiet(u)
                          /\ ~u.close.current /\ u.selected = IF i = 0 THEN None ELSE m
                          /\ ~Choosing(w)
      OBVIOUS
    <2>2. Choosing(u)
      BY <2>1 DEF Choosing
    <2>3. i = l
      BY <1>0, <2>1 DEF Focus, Chosen
    <2>4. ASSUME NEW j \in 0..Asks PROVE ~w.choice[j].current
      BY <1>0, <1>1, <2>3 DEF Focus, Chosen
    <2> QED BY <1>0, <2>1, <2>2, <2>3, <2>4 DEF Focus, Chosen, Choosing
  <1>7. CASE s # None /\ Wanted(u, call)
    <2>1. call.current /\ u.active
      BY <1>7 DEF Wanted
    <2>2. v = Accepted(w, s, FALSE)
      BY <1>2, <1>7
    <2>3. s \in 1..Len(known) /\ known[s].model = m
      <3>1. CASE i = 0
        <4>1. s = 1
          BY <1>0, <1>7, <3>1 DEF Calls, ChoiceWell
        <4>2. m = known[1].model
          BY <1>0, <1>6, <2>1, <3>1 DEF Focus, Last
        <4> QED BY <4>1, <4>2 DEF Backend
      <3>2. CASE i # 0
        <4>1. i \in 1..Asks
          BY <3>2, NoneApart
        <4>2. s \in 2..Len(known) /\ known[s].model = call.of
          BY <1>0, <1>7, <4>1 DEF Calls, ChoiceWell, Granted
        <4>3. m = call.of
          BY <1>0, <1>6, <2>1, <3>2 DEF Focus, Last
        <4>4. s \in 1..Len(known)
          BY <4>2
        <4> QED BY <4>2, <4>3, <4>4
      <3> QED BY <3>1, <3>2
    <2>4. s \notin w.retired /\ s # w.post.result /\ \A j \in 1..Asks : s # w.choice[j].result
      <3>1. CASE i = 0
        <4>1. s = 1
          BY <1>0, <1>7, <3>1 DEF Calls, ChoiceWell
        <4>2. 1 \notin w.retired
          BY <1>0, <1>1, <1>6, <2>1, <3>1 DEF Focus, Selected
        <4>3. 1 # None /\ 1 \notin 2..Len(known)
          BY NoneApart
        <4>4. w.post.result # 1
          BY <1>0, <1>1, <4>3 DEF Calls, PostWell, Granted
        <4>5. \A j \in 1..Asks : w.choice[j].result # 1
          BY <1>1, <4>3 DEF Calls, ChoiceWell, Granted
        <4> QED BY <4>1, <4>2, <4>4, <4>5
      <3>2. CASE i # 0
        <4>1. i \in 1..Asks
          BY <3>2, NoneApart
        <4>2. ASSUME NEW j \in 1..Asks PROVE s # w.choice[j].result
          <5>1. CASE j = i
            BY <1>1, <1>7, <5>1
          <5>2. CASE j # i
            BY <1>0, <1>1, <1>3, <1>7, <4>1, <5>2 DEF Apart
          <5> QED BY <5>1, <5>2
        <4> QED BY <1>0, <1>1, <1>7, <4>1, <4>2 DEF Apart
      <3> QED BY <3>1, <3>2
    <2>5. /\ w.candidate = None /\ w.sub.frame = None /\ w.active /\ ~w.timer /\ ~w.queued
          /\ ~w.post.current /\ ~w.close.current /\ ~Choosing(w) /\ w.epoch = None
      BY <1>0, <1>1, <1>6, <2>1 DEF Quiet, Focus
    <2> HIDE DEF s, call
    <2>6. w.epoch # None /\ known[s].epoch # None => known[s].epoch <= w.epoch
      BY <2>5
    <2>7. FALSE \in BOOLEAN
      OBVIOUS
    <2> QED BY <1>1, <1>4, <2>2, <2>3, <2>4, <2>5, <2>6, <2>7, AcceptedGood
  <1>8. CASE s # None /\ ~Wanted(u, call)
    <2>1. CASE i = 0
      BY <1>2, <1>5, <1>8, <2>1
    <2>2. CASE i # 0
      <3>1. i \in 1..Asks /\ v = Retired(w, s)
        BY <1>2, <1>8, <2>2, NoneApart
      <3>2. s \in 2..Len(known)
        BY <1>0, <1>8, <3>1 DEF Calls, ChoiceWell, Granted
      <3>3. s # w.session /\ s # w.candidate /\ s # w.post.result
        BY <1>0, <1>1, <1>8, <3>1 DEF Apart
      <3>4. ASSUME NEW j \in 1..Asks PROVE s # w.choice[j].result
        <4>1. CASE j = i
          BY <1>1, <1>8, <4>1
        <4>2. CASE j # i
          BY <1>0, <1>1, <1>3, <1>8, <3>1, <4>2 DEF Apart
        <4> QED BY <4>1, <4>2
      <3> HIDE DEF s
      <3> QED BY <1>1, <1>4, <3>1, <3>2, <3>3, <3>4, RetiredGood
    <2> QED BY <2>1, <2>2
  <1>9. CASE s = None /\ ~call.current
    BY <1>2, <1>5, <1>9
  <1>10. CASE s = None /\ call.current
    <2>1. Good(w, l, m) /\ w.status = "loading" /\ ~Choosing(w) /\ ~w.close.current
          /\ w.session = None
      BY <1>1, <1>5, <1>6, <1>10
    <2>2. CASE v = Failed(w)
      BY <2>1, <2>2, FailedGood
    <2>3. CASE v = Expired(w)
      <3> DEFINE d == Disposed(w)
      <3>1. v = [d EXCEPT !.session = None, !.status = "expired", !.inventory = FALSE]
        BY <2>3 DEF Expired
      <3>2. Good(d, l, m) /\ ~Choosing(d) /\ ~d.close.current
        BY <2>1, DisposedGood
      <3>3. d \in Controller
        BY <3>2 DEF Good
      <3> HIDE DEF d
      <3>4. /\ v \in Controller /\ v.session = None /\ v.status = "expired" /\ ~v.inventory
            /\ v.active = d.active /\ v.selected = d.selected /\ v.refresh = d.refresh
            /\ v.candidate = d.candidate /\ v.queued = d.queued /\ v.epoch = d.epoch
            /\ v.timer = d.timer /\ v.sub = d.sub /\ v.post = d.post /\ v.close = d.close
            /\ v.choice = d.choice /\ v.retired = d.retired /\ v.adopted = d.adopted
        <4>1. None \in NoneOr(Nat)
          BY DEF NoneOr
        <4>2. v \in Controller
          BY <3>1, <3>3, <4>1 DEF Controller
        <4> QED BY <3>1, <3>3, <4>2 DEF Controller
      <3>5. "expired" \in {"idle", "expired"}
        OBVIOUS
      <3> QED BY <3>2, <3>4, <3>5, LetGo
    <2> QED BY <1>2, <1>10, <2>2, <2>3
  <1> QED BY <1>7, <1>8, <1>9, <1>10

\* The deletion is answered.
LEMMA CloseSettledGood ==
  ASSUME Backend, NEW u, NEW l, NEW m, Good(u, l, m), u.close.stage = "reply",
         NEW v, v = CloseSettled(u)
  PROVE  Good(v, l, m) /\ (u.session = v.session \/ v.selected = None)
  <1>0. u \in Controller /\ Calls(u) /\ Apart(u) /\ Kept(u) /\ Focus(u, l, m) /\ Seen(u)
    BY DEF Good
  <1> DEFINE call == u.close
             w == [u EXCEPT !.close = NoCall]
  <1>1. v = IF ~call.current THEN w
            ELSE IF call.error = "" THEN [w EXCEPT !.session = None, !.status = "idle"]
            ELSE Observed([w EXCEPT !.selected = known[call.of].model, !.status = "ready"])
    BY DEF CloseSettled
  <1>2. /\ w \in Controller /\ w.close = NoCall
        /\ w.active = u.active /\ w.selected = u.selected /\ w.session = u.session
        /\ w.status = u.status /\ w.refresh = u.refresh /\ w.candidate = u.candidate
        /\ w.queued = u.queued /\ w.epoch = u.epoch /\ w.timer = u.timer
        /\ w.inventory = u.inventory /\ w.sub = u.sub /\ w.post = u.post
        /\ w.choice = u.choice /\ w.retired = u.retired /\ w.adopted = u.adopted
    <2>1. w \in Controller
      BY <1>0, NoCallFields DEF Controller
    <2> QED BY <1>0, <2>1 DEF Controller
  <1> HIDE DEF w
  <1>3. (Choosing(w) <=> Choosing(u)) /\ ~w.close.current
    BY <1>2, NoCallFields DEF Choosing
  <1>4. Good(w, l, m)
    <2>1. Calls(w)
      <3>1. CloseWell(w)
        BY <1>2, NoCallFields DEF CloseWell, Well
      <3> QED BY <1>0, <1>2, <3>1 DEF Calls, PostWell, ChoiceWell
    <2>2. Apart(w) /\ Kept(w)
      BY <1>0, <1>2 DEF Apart, Kept, Found
    <2>3. Last(w, l, m) /\ Selected(w, l, m)
      BY <1>0, <1>2 DEF Focus, Last, Selected, Quiet
    <2>4. Chosen(w, l, m) /\ Closing(w)
      BY <1>0, <1>2, <1>3 DEF Focus, Chosen, Closing, Quiet
    <2>5. Replacing(w, m) /\ Ended(w)
      BY <1>0, <1>2, <1>3 DEF Focus, Replacing, Ended
    <2>6. Focus(w, l, m)
      BY <1>0, <1>2, <2>3, <2>4, <2>5 DEF Focus
    <2>7. Seen(w)
      BY <1>0, <1>2 DEF Seen
    <2> QED BY <1>2, <2>1, <2>2, <2>6, <2>7 DEF Good
  <1>5. CASE ~call.current
    BY <1>1, <1>2, <1>4, <1>5
  <1>6. ASSUME call.current
        PROVE  /\ u.selected = None /\ u.session = call.of /\ ~u.inventory /\ Quiet(u)
               /\ ~Choosing(w) /\ u.active
    BY <1>0, <1>3, <1>6 DEF Focus, Closing, Selected, Chosen, Ended
  <1>7. CASE call.current /\ call.error = ""
    <2>1. v = [w EXCEPT !.session = None, !.status = "idle"]
      BY <1>1, <1>7
    <2>2. /\ v \in Controller /\ v.session = None /\ v.status = "idle"
          /\ v.active = w.active /\ v.selected = w.selected /\ v.refresh = w.refresh
          /\ v.candidate = w.candidate /\ v.queued = w.queued /\ v.epoch = w.epoch
          /\ v.timer = w.timer /\ v.sub = w.sub /\ v.post = w.post /\ v.close = w.close
          /\ v.choice = w.choice /\ v.retired = w.retired /\ v.adopted = w.adopted
          /\ v.inventory = w.inventory
      <3>1. None \in NoneOr(Nat)
        BY DEF NoneOr
      <3>2. v \in Controller
        BY <1>2, <2>1, <3>1 DEF Controller
      <3> QED BY <1>2, <2>1, <3>2 DEF Controller
    <2>3. ~v.inventory /\ ~Choosing(w) /\ ~w.close.current /\ "idle" \in {"idle", "expired"}
      BY <1>2, <1>3, <1>6, <1>7, <2>2
    <2>4. Good(v, l, m)
      BY <1>4, <2>2, <2>3, LetGo
    <2> QED BY <1>2, <1>6, <1>7, <2>2, <2>4
  <1>8. CASE call.current /\ call.error # ""
    <2> DEFINE x == [w EXCEPT !.selected = known[call.of].model, !.status = "ready"]
    <2>1. v = Observed(x)
      BY <1>1, <1>8
    <2>2. known[call.of].model = m /\ u.session # None /\ m \in Model
      <3>1. call.of \in 1..Len(known)
        BY <1>0, <1>8 DEF Calls, CloseWell
      <3>2. u.session # None
        <4>1. u.session = call.of
          BY <1>6, <1>8
        <4>2. call.of \in Nat
          BY <3>1
        <4> HIDE DEF call
        <4> QED BY <4>1, <4>2, NoneApart
      <3> QED BY <1>0, <1>6, <1>8, <3>2 DEF Focus, Selected, Last
    <2>3. /\ x \in Controller /\ x.selected = m /\ x.status = "ready"
          /\ x.active = w.active /\ x.session = w.session /\ x.refresh = w.refresh
          /\ x.candidate = w.candidate /\ x.queued = w.queued /\ x.epoch = w.epoch
          /\ x.timer = w.timer /\ x.sub = w.sub /\ x.post = w.post /\ x.close = w.close
          /\ x.choice = w.choice /\ x.retired = w.retired /\ x.adopted = w.adopted
          /\ x.inventory = w.inventory
      <3>1. m \in NoneOr(Model) /\ x = [w EXCEPT !.selected = m, !.status = "ready"]
        BY <2>2 DEF NoneOr
      <3> HIDE DEF x
      <3>2. x \in Controller
        BY <1>2, <3>1 DEF Controller
      <3> QED BY <1>2, <3>1, <3>2 DEF Controller
    <2> HIDE DEF x
    <2>4. w \in Controller /\ Calls(w) /\ Apart(w) /\ Kept(w) /\ Focus(w, l, m) /\ Seen(w)
      BY <1>4 DEF Good
    <2>5. Quiet(x) /\ ~Choosing(x) /\ ~x.close.current /\ x.selected # None /\ x.active
      BY <1>2, <1>3, <1>6, <1>8, <2>2, <2>3, NoneApart DEF Quiet, Choosing
    <2>6. Calls(x) /\ Apart(x) /\ Kept(x)
      <3>1. Calls(x)
        BY <2>3, <2>4, SameCallsWell DEF SameCalls
      <3> QED BY <2>3, <2>4, <3>1 DEF Apart, Kept, Found
    <2>7. Focus(x, l, m)
      <3>1. Last(x, l, m)
        BY <2>3, <2>4 DEF Focus, Last
      <3>2. Selected(x, l, m)
        BY <2>3, <2>4, <2>5 DEF Focus, Selected
      <3>3. Chosen(x, l, m) /\ Closing(x)
        BY <2>5 DEF Chosen, Closing, Choosing
      <3>4. Replacing(x, m) /\ Ended(x)
        BY <2>5 DEF Replacing, Ended, Quiet
      <3> QED BY <2>3, <2>4, <3>1, <3>2, <3>3, <3>4 DEF Focus
    <2>8. Seen(x)
      <3>1. x.sub.frame = None /\ x.epoch = None /\ ~x.queued
        BY <2>5, <2>7 DEF Quiet, Focus
      <3> QED BY <3>1 DEF Seen
    <2>9. Good(x, l, m)
      BY <2>3, <2>6, <2>7, <2>8 DEF Good
    <2>10. Good(v, l, m) /\ v.session = x.session
      BY <2>1, <2>5, <2>9, ObservedGood
    <2> QED BY <1>2, <2>3, <2>10
  <1> QED BY <1>5, <1>7, <1>8

\* A view of the session is answered.
LEMMA LoadedGood ==
  ASSUME Backend, NEW u, NEW l, NEW m, Good(u, l, m), u.inventory,
         NEW v, v = IF Unchanged(u.session) THEN [u EXCEPT !.inventory = FALSE]
                    ELSE ContentFailed([u EXCEPT !.inventory = FALSE])
  PROVE  Good(v, l, m) /\ Stays(u, v)
  <1>0. u \in Controller /\ Calls(u) /\ Apart(u) /\ Kept(u) /\ Focus(u, l, m) /\ Seen(u)
    BY DEF Good
  <1> DEFINE x == [u EXCEPT !.inventory = FALSE]
  <1>1. /\ x \in Controller /\ ~x.inventory
        /\ x.active = u.active /\ x.selected = u.selected /\ x.session = u.session
        /\ x.status = u.status /\ x.refresh = u.refresh /\ x.candidate = u.candidate
        /\ x.epoch = u.epoch /\ x.timer = u.timer /\ x.queued = u.queued
        /\ x.sub = u.sub /\ x.post = u.post /\ x.close = u.close
        /\ x.choice = u.choice /\ x.retired = u.retired /\ x.adopted = u.adopted
    BY <1>0 DEF Controller
  <1>2. v = IF Unchanged(u.session) THEN x ELSE ContentFailed(x)
    OBVIOUS
  <1> HIDE DEF x
  <1>3. u.session # None /\ ~Choosing(u)
    BY <1>0 DEF Focus, Chosen
  <1>4. Good(x, l, m) /\ ~Choosing(x)
    BY <1>1, <1>3, MinorGood
  <1>5. CASE Unchanged(u.session)
    BY <1>1, <1>2, <1>4, <1>5 DEF Stays
  <1>6. CASE ~Unchanged(u.session)
    <2>1. CASE x.selected = None
      BY <1>2, <1>4, <1>6, <2>1 DEF ContentFailed, Stays
    <2>2. CASE x.selected # None /\ v = Invalidated(x, "waiting")
      <3>1. "waiting" \in {"updating", "waiting"}
        OBVIOUS
      <3>2. Good(v, l, m)
        BY <1>4, <2>2, <3>1, InvalidatedGood
      <3> QED BY <1>6, <3>2 DEF Stays
    <2>3. CASE x.selected # None /\ v = Refreshed([x EXCEPT !.invalid = RevisionOf(x.session)])
      <3> DEFINE y == [x EXCEPT !.invalid = RevisionOf(x.session)]
      <3>1. RevisionOf(x.session) \in NoneOr(Nat)
        <4>1. x.session \in 1..Len(known)
          BY <1>0, <1>1, <1>3 DEF Apart
        <4>2. known[x.session] \in Known
          BY <4>1 DEF Backend
        <4> QED BY <4>2, NoneApart DEF RevisionOf, Known, NoneOr
      <3>2. /\ y \in Controller
            /\ y.active = x.active /\ y.selected = x.selected /\ y.session = x.session
            /\ y.status = x.status /\ y.refresh = x.refresh /\ y.candidate = x.candidate
            /\ y.epoch = x.epoch /\ y.timer = x.timer /\ y.queued = x.queued
            /\ y.inventory = x.inventory /\ y.sub = x.sub /\ y.post = x.post
            /\ y.close = x.close /\ y.choice = x.choice /\ y.retired = x.retired
            /\ y.adopted = x.adopted
        BY <1>1, <3>1 DEF Controller
      <3>3. v = Refreshed(y)
        BY <2>3
      <3> HIDE DEF y
      <3>4. Good(y, l, m) /\ ~Choosing(y) /\ Replaceable(y)
        BY <1>1, <1>4, <1>6, <3>2, MinorGood DEF Replaceable
      <3>5. Good(v, l, m)
        BY <3>3, <3>4, RefreshedGood
      <3> QED BY <1>6, <3>5 DEF Stays
    <2> QED BY <1>2, <1>6, <2>1, <2>2, <2>3 DEF ContentFailed
  <1> QED BY <1>5, <1>6

-----------------------------------------------------------------------------
(* Events and answers on their way.                                        *)

\* What only the subscription notices.
LEMMA SubGood ==
  ASSUME NEW u, NEW l, NEW m, Good(u, l, m), NEW s \in Subscription,
         s.on => u.sub.on, ~s.on => s.frame = None,
         s.frame # None =>
             /\ s.frame.epoch = epoch /\ s.frame.revision <= revision[u.selected]
             /\ u.session # None => known[u.session].revision <= s.frame.revision,
         NEW v, v = [u EXCEPT !.sub = s]
  PROVE  /\ Good(v, l, m) /\ v.sub = s /\ v.session = u.session /\ v.choice = u.choice
         /\ v.selected = u.selected
  <1>0. u \in Controller /\ Calls(u) /\ Apart(u) /\ Kept(u) /\ Focus(u, l, m) /\ Seen(u)
    BY DEF Good
  <1>1. /\ v \in Controller /\ v.sub = s
        /\ v.active = u.active /\ v.selected = u.selected /\ v.session = u.session
        /\ v.status = u.status /\ v.refresh = u.refresh /\ v.candidate = u.candidate
        /\ v.queued = u.queued /\ v.epoch = u.epoch /\ v.timer = u.timer
        /\ v.inventory = u.inventory /\ v.post = u.post /\ v.close = u.close
        /\ v.choice = u.choice /\ v.retired = u.retired /\ v.adopted = u.adopted
    BY <1>0 DEF Controller
  <1>2. Calls(v) /\ Apart(v) /\ Kept(v)
    <2>1. Calls(v)
      BY <1>0, <1>1, SameCallsWell DEF SameCalls
    <2> QED BY <1>0, <1>1, <2>1 DEF Apart, Kept, Found
  <1>3. Choosing(v) <=> Choosing(u)
    BY <1>1 DEF Choosing
  <1>4. Focus(v, l, m)
    <2>1. Last(v, l, m)
      BY <1>0, <1>1 DEF Focus, Last
    <2>2. Selected(v, l, m)
      BY <1>0, <1>1 DEF Focus, Selected, Quiet
    <2>3. Chosen(v, l, m) /\ Closing(v)
      BY <1>0, <1>1, <1>3 DEF Focus, Chosen, Closing, Quiet
    <2>4. Replacing(v, m) /\ Ended(v)
      BY <1>0, <1>1, <1>3 DEF Focus, Replacing, Ended
    <2> QED BY <1>0, <1>1, <2>1, <2>2, <2>3, <2>4 DEF Focus
  <1>5. Seen(v)
    BY <1>0, <1>1 DEF Seen
  <1> QED BY <1>1, <1>2, <1>4, <1>5 DEF Good

LEMMA SendGood ==
  ASSUME Backend, NEW u, NEW l, NEW m, Good(u, l, m), u.sub.on,
         NEW now, now = [epoch |-> epoch, revision |-> revision[u.selected]],
         NEW v, v = [u EXCEPT !.sub.frame = now, !.sub.told = now]
  PROVE  Good(v, l, m) /\ v.session = u.session
  <1>0. u \in Controller /\ Calls(u) /\ Apart(u) /\ Kept(u) /\ Focus(u, l, m) /\ Seen(u)
    BY DEF Good
  <1>1. u.selected = m /\ m \in Model
    BY <1>0 DEF Focus, Last, Selected, Quiet
  <1>2. revision[m] \in Nat
    BY <1>1, NoneApart DEF Backend
  <1>3. now \in NoneOr(Event) /\ now.epoch = epoch /\ now.revision = revision[m]
    BY <1>1, <1>2 DEF Event, NoneOr, Backend
  <1> DEFINE s == [u.sub EXCEPT !.frame = now, !.told = now]
  <1>4. s \in Subscription /\ s.on = u.sub.on /\ s.frame = now
    <2>1. u.sub \in Subscription
      BY <1>0, ControllerFields
    <2> QED BY <1>3, <2>1 DEF Subscription
  <1>5. v = [u EXCEPT !.sub = s]
    BY <1>0 DEF Controller
  <1>6. u.session # None => known[u.session].revision <= revision[m]
    BY <1>0 DEF Apart, Focus, Selected, Backend
  <1>7. revision[u.selected] = revision[m] /\ revision[m] <= revision[m]
    BY <1>1, <1>2
  <1> HIDE DEF s
  <1>8. s.frame # None =>
          /\ s.frame.epoch = epoch /\ s.frame.revision <= revision[u.selected]
          /\ u.session # None => known[u.session].revision <= s.frame.revision
    BY <1>3, <1>4, <1>6, <1>7
  <1>9. (s.on => u.sub.on) /\ (~s.on => s.frame = None)
    BY <1>4
  <1>10. s \in Subscription
    BY <1>4
  <1>11. Good(v, l, m)
    BY ONLY <1>5, <1>8, <1>9, <1>10, SubGood, Good(u, l, m)
  <1>12. v.session = u.session
    BY <1>0, <1>5 DEF Controller
  <1> QED BY <1>11, <1>12

LEMMA ReceiveGood ==
  ASSUME Backend, NEW u, NEW l, NEW m, Good(u, l, m), u.sub.on, u.sub.frame # None,
         NEW v, v = ObserveState([u EXCEPT !.sub.frame = None], u.sub.frame)
  PROVE  Good(v, l, m) /\ Stays(u, v)
  <1>0. u \in Controller /\ Calls(u) /\ Apart(u) /\ Kept(u) /\ Focus(u, l, m) /\ Seen(u)
    BY DEF Good
  <1> DEFINE s == [u.sub EXCEPT !.frame = None]
             x == [u EXCEPT !.sub = s]
             event == u.sub.frame
  <1>1. u.sub \in Subscription
    BY <1>0, ControllerFields
  <1>2. s \in Subscription /\ s.on = u.sub.on /\ s.frame = None /\ event \in Event
    BY <1>1 DEF Subscription, NoneOr
  <1>3. v = ObserveState(x, event)
    BY <1>0 DEF Controller
  <1> HIDE DEF s
  <1>4. PICK y : y = x
    OBVIOUS
  <1>5. Good(y, l, m) /\ y.sub = s /\ y.session = u.session
    BY <1>2, <1>4, SubGood
  <1>6. u.selected = m
    BY <1>0 DEF Focus, Selected, Quiet
  <1>7. event.epoch = epoch /\ event.revision <= revision[m]
        /\ (u.session # None => known[u.session].revision <= event.revision)
    BY <1>0, <1>6 DEF Seen
  <1>8. v = ObserveState(y, event)
    BY <1>3, <1>4
  <1> HIDE DEF x, event
  <1>9. Good(v, l, m) /\ Stays(y, v)
    BY <1>2, <1>5, <1>7, <1>8, ObserveGood
  <1> QED BY <1>5, <1>9 DEF Stays

-----------------------------------------------------------------------------
(* The backend and the user's asking: the controller stays as it is.       *)

LEMMA TurnGood ==
  ASSUME NEW u, NEW l, NEW m, Good(u, l, m), UNCHANGED <<revision, epoch, known>>,
         asked \in Nat, asked' \in Nat, asked <= asked'
  PROVE  Good(u, l, m)'
  <1>0. u \in Controller /\ Calls(u) /\ Apart(u) /\ Kept(u) /\ Focus(u, l, m) /\ Seen(u)
    BY DEF Good
  <1>1. Calls(u)'
    <2>1. PostWell(u)' /\ CloseWell(u)'
      BY <1>0 DEF Calls, PostWell, CloseWell, Granted, Well
    <2>2. ASSUME NEW i \in 1..Asks
          PROVE  /\ Granted(u.choice[i])'
                 /\ u.choice[i].stage # "none" => i <= asked' /\ u.choice[i].of \in Model
                 /\ u.choice[i].stage = "none" => u.choice[i] = NoCall
      BY <1>0 DEF Calls, ChoiceWell, Granted
    <2>3. (\A i \in 0..Asks : Well(u.choice[i])) /\ u.choice[0].result \in {1, None}
      BY <1>0 DEF Calls, ChoiceWell
    <2> QED BY <2>1, <2>2, <2>3 DEF Calls, ChoiceWell, Well
  <1>2. Apart(u)' /\ Kept(u)'
    BY <1>0 DEF Apart, Kept, Found
  <1>3. Focus(u, l, m)'
    <2>1. Last(u, l, m)' /\ Selected(u, l, m)'
      BY <1>0 DEF Focus, Last, Selected, Quiet
    <2>2. Chosen(u, l, m)' /\ Closing(u)' /\ Ended(u)'
      BY <1>0 DEF Focus, Chosen, Closing, Ended, Quiet, Choosing
    <2>3. Replacing(u, m)'
      BY <1>0 DEF Focus, Replacing
    <2> QED BY <1>0, <2>1, <2>2, <2>3 DEF Focus
  <1>4. Seen(u)'
    BY <1>0 DEF Seen, Unchanged, Alive, RevisionOf
  <1>5. u \in Controller'
    BY <1>0 DEF Controller, Request, Subscription, Event
  <1> QED BY <1>1, <1>2, <1>3, <1>4, <1>5 DEF Good

\* Files change: what the controller has been told is older than they are.
LEMMA ModifyGood ==
  ASSUME Backend, NEW u, NEW l, NEW m, Good(u, l, m), NEW n \in Model, Modify(n)
  PROVE  Good(u, l, m)' /\ Backend'
  <1>0. u \in Controller /\ Calls(u) /\ Apart(u) /\ Kept(u) /\ Focus(u, l, m) /\ Seen(u)
    BY DEF Good
  <1>1. UNCHANGED <<epoch, known, faults, asked, excused>>
        /\ changes < Revisions /\ changes' = changes + 1
        /\ revision' = [revision EXCEPT ![n] = @ + 1]
    BY DEF Modify
  <1>2. revision \in [Model -> 0..Revisions] /\ changes \in 0..Revisions /\ Revisions \in Nat
        /\ \A k \in Model : revision[k] <= changes
    BY NoneApart DEF Backend
  <1>3. ASSUME NEW k \in Model
        PROVE  /\ revision[k] \in Nat /\ revision'[k] \in 0..Revisions
               /\ revision[k] <= revision'[k] /\ revision'[k] <= changes'
    BY <1>1, <1>2
  <1>4. revision' \in [Model -> 0..Revisions]
    BY <1>1, <1>2, <1>3
  <1>5. ASSUME NEW s \in 1..Len(known)
        PROVE  /\ known[s].model \in Model /\ known[s].revision \in Nat
               /\ known[s].revision <= revision[known[s].model]
               /\ known[s].revision <= revision'[known[s].model]
    <2>1. known[s] \in Known /\ known[s].revision <= revision[known[s].model]
      BY DEF Backend
    <2>2. known[s].model \in Model /\ known[s].revision \in Nat
      BY <2>1, NoneApart DEF Known
    <2> QED BY <1>3, <2>1, <2>2
  <1>6. Backend'
    <2>1. changes' \in 0..Revisions
      BY <1>1, <1>2
    <2>2. \A s \in 1..Len(known) :
            /\ known[s].revision <= revision'[known[s].model] /\ known[s].revision \notin Gone
            /\ known[s].epoch # None => known[s].epoch <= epoch
      BY <1>5 DEF Backend
    <2>3. /\ faults \in 0..Faults /\ asked \in 0..Asks /\ excused \in BOOLEAN
          /\ epoch \in Nat /\ epoch <= faults /\ known \in Seq(Known) /\ Len(known) >= 1
      BY DEF Backend
    <2> QED BY <1>1, <1>3, <1>4, <2>1, <2>2, <2>3 DEF Backend, Known
  <1>7. Calls(u)' /\ Apart(u)' /\ Kept(u)'
    <2>1. Calls(u)'
      BY <1>0, <1>1 DEF Calls, PostWell, CloseWell, ChoiceWell, Granted, Well
    <2> QED BY <1>0, <1>1, <2>1 DEF Apart, Kept, Found
  <1>8. Focus(u, l, m)'
    <2>1. Last(u, l, m)' /\ Selected(u, l, m)'
      BY <1>0, <1>1 DEF Focus, Last, Selected, Quiet
    <2>2. Chosen(u, l, m)' /\ Closing(u)' /\ Ended(u)'
      BY <1>0 DEF Focus, Chosen, Closing, Ended, Quiet, Choosing
    <2>3. Replacing(u, m)'
      BY <1>0, <1>1 DEF Focus, Replacing
    <2> QED BY <1>0, <2>1, <2>2, <2>3 DEF Focus
  <1>9. Seen(u)'
    <2>1. u.sub.frame # None =>
            u.sub.frame.epoch = epoch' /\ u.sub.frame.revision <= revision'[u.selected]
      <3>1. SUFFICES ASSUME u.sub.frame # None
                     PROVE  u.sub.frame.epoch = epoch /\ u.sub.frame.revision <= revision'[u.selected]
        BY <1>1
      <3>2. u.sub.frame \in Event /\ u.selected \in Model
        <4>1. u.sub \in Subscription
          BY <1>0, ControllerFields
        <4>2. u.selected = m /\ m \in Model
          BY <1>0, <3>1 DEF Focus, Selected, Quiet, Last
        <4> QED BY <3>1, <4>1, <4>2 DEF Subscription, NoneOr
      <3>3. u.sub.frame.revision \in Nat
        BY <3>2 DEF Event
      <3>4. u.sub.frame.epoch = epoch /\ u.sub.frame.revision <= revision[u.selected]
        BY <1>0, <3>1 DEF Seen
      <3> QED BY <1>3, <3>2, <3>3, <3>4
    <2>2. ASSUME u.session # None, ~Unchanged(u.session) PROVE ~Unchanged(u.session)'
      <3>1. u.session \in 1..Len(known)
        BY <1>0, <2>2 DEF Apart
      <3>2. /\ known[u.session].model \in Model /\ known[u.session].revision \in Nat
            /\ known[u.session].revision <= revision[known[u.session].model]
        BY <1>5, <3>1
      <3>3. known[u.session].epoch = epoch =>
              known[u.session].revision # revision'[known[u.session].model]
        <4>1. revision' = [revision EXCEPT ![n] = @ + 1] /\ revision[known[u.session].model] \in Nat
          BY <1>1, <1>3, <3>2
        <4>2. known[u.session].epoch = epoch =>
                known[u.session].revision # revision[known[u.session].model]
          BY <2>2 DEF Unchanged, Alive, RevisionOf
        <4>3. revision[known[u.session].model] <= revision'[known[u.session].model]
              /\ revision'[known[u.session].model] \in Nat
          BY <1>3, <3>2
        <4> QED BY <3>2, <4>1, <4>2, <4>3
      <3> QED BY <1>1, <3>3 DEF Unchanged, Alive, RevisionOf
    <2>3. /\ u.epoch # None => u.epoch <= epoch
          /\ u.session # None =>
               /\ u.sub.frame # None => known[u.session].revision <= u.sub.frame.revision
               /\ u.epoch # None /\ known[u.session].epoch # None =>
                     known[u.session].epoch <= u.epoch
               /\ u.queued => ~Unchanged(u.session)
      BY <1>0 DEF Seen
    <2> QED BY <1>1, <2>1, <2>2, <2>3 DEF Seen
  <1> QED BY <1>0, <1>6, <1>7, <1>8, <1>9 DEF Good

\* A restart: no event of the backend that is gone is on its way.
LEMMA RestartGood ==
  ASSUME Backend, NEW u, NEW l, NEW m, Good(u, l, m), u.sub.frame = None,
         faults < Faults, faults' = faults + 1, epoch' = epoch + 1,
         UNCHANGED <<revision, changes, known, asked, excused>>
  PROVE  Good(u, l, m)' /\ Backend'
  <1>0. u \in Controller /\ Calls(u) /\ Apart(u) /\ Kept(u) /\ Focus(u, l, m) /\ Seen(u)
    BY DEF Good
  <1>1. epoch \in Nat /\ faults \in Nat /\ epoch <= faults /\ faults' \in 0..Faults
    BY NoneApart DEF Backend
  <1>2. ASSUME NEW s \in 1..Len(known)
        PROVE  known[s].epoch # None => known[s].epoch \in Nat /\ known[s].epoch <= epoch
    <2>1. known[s] \in Known
      BY DEF Backend
    <2> QED BY <2>1, NoneApart DEF Backend, Known, NoneOr
  <1>3. Backend'
    <2>1. \A s \in 1..Len(known) :
            /\ known[s].revision <= revision[known[s].model] /\ known[s].revision \notin Gone
            /\ known[s].epoch # None => known[s].epoch <= epoch'
      BY <1>1, <1>2 DEF Backend
    <2>2. epoch' \in Nat /\ epoch' <= faults'
      BY <1>1
    <2>3. /\ revision \in [Model -> 0..Revisions] /\ changes \in 0..Revisions
          /\ \A k \in Model : revision[k] <= changes
          /\ asked \in 0..Asks /\ excused \in BOOLEAN
          /\ known \in Seq(Known) /\ Len(known) >= 1
      BY DEF Backend
    <2> QED BY <1>1, <2>1, <2>2, <2>3 DEF Backend, Known
  <1>4. Calls(u)' /\ Apart(u)' /\ Kept(u)'
    <2>1. Calls(u)'
      BY <1>0 DEF Calls, PostWell, CloseWell, ChoiceWell, Granted, Well
    <2> QED BY <1>0, <2>1 DEF Apart, Kept, Found
  <1>5. Focus(u, l, m)'
    <2>1. Last(u, l, m)' /\ Selected(u, l, m)'
      BY <1>0 DEF Focus, Last, Selected, Quiet
    <2>2. Chosen(u, l, m)' /\ Closing(u)' /\ Ended(u)'
      BY <1>0 DEF Focus, Chosen, Closing, Ended, Quiet, Choosing
    <2>3. Replacing(u, m)'
      BY <1>0 DEF Focus, Replacing
    <2> QED BY <1>0, <2>1, <2>2, <2>3 DEF Focus
  <1>6. Seen(u)'
    <2>1. u.epoch # None => u.epoch <= epoch'
      <3>1. u.epoch \in NoneOr(Nat)
        BY <1>0, ControllerFields
      <3> QED BY <1>0, <1>1, <3>1 DEF Seen, NoneOr
    <2>2. ASSUME u.session # None PROVE ~Unchanged(u.session)'
      <3>1. u.session \in 1..Len(known)
        BY <1>0, <2>2 DEF Apart
      <3>2. known[u.session].epoch # epoch'
        BY <1>1, <1>2, <3>1, NoneApart
      <3> QED BY <3>2 DEF Unchanged, Alive
    <2>3. u.session # None =>
            (u.epoch # None /\ known[u.session].epoch # None => known[u.session].epoch <= u.epoch)
      BY <1>0 DEF Seen
    <2> QED BY <2>1, <2>2, <2>3 DEF Seen
  <1> QED BY <1>0, <1>3, <1>4, <1>5, <1>6 DEF Good

\* A session is deleted.
LEMMA DeleteGood ==
  ASSUME Backend, NEW u, NEW l, NEW m, Good(u, l, m), NEW d \in 1..Len(known),
         known' = [known EXCEPT ![d].epoch = None],
         UNCHANGED <<revision, changes, epoch, faults, asked, excused>>
  PROVE  Good(u, l, m)' /\ Backend' /\ known'[d].epoch = None
  <1>0. u \in Controller /\ Calls(u) /\ Apart(u) /\ Kept(u) /\ Focus(u, l, m) /\ Seen(u)
    BY DEF Good
  <1> DEFINE gone == [known[d] EXCEPT !.epoch = None]
  <1>1. known \in Seq(Known) /\ \A s \in 1..Len(known) : known[s] \in Known
    BY DEF Backend
  <1>2. gone \in Known /\ gone.epoch = None /\ gone.model = known[d].model
        /\ gone.revision = known[d].revision
    <2>1. known[d] \in Known
      BY <1>1
    <2> QED BY <2>1 DEF Known, NoneOr
  <1>3. known' = [known EXCEPT ![d] = gone]
    BY <1>1
  <1> HIDE DEF gone
  <1>4. known' \in Seq(Known) /\ Len(known') = Len(known)
    BY <1>1, <1>2, <1>3
  <1>5. ASSUME NEW s \in 1..Len(known)
        PROVE  /\ known'[s].model = known[s].model /\ known'[s].revision = known[s].revision
               /\ known'[s].epoch = IF s = d THEN None ELSE known[s].epoch
    BY <1>1, <1>2, <1>3
  <1>6. Backend'
    <2>1. \A s \in 1..Len(known) :
            /\ known'[s].revision <= revision[known'[s].model] /\ known'[s].revision \notin Gone
            /\ known'[s].epoch # None => known'[s].epoch <= epoch
      BY <1>5 DEF Backend
    <2>3. /\ revision \in [Model -> 0..Revisions] /\ changes \in 0..Revisions
          /\ \A k \in Model : revision[k] <= changes
          /\ faults \in 0..Faults /\ epoch \in Nat /\ epoch <= faults
          /\ asked \in 0..Asks /\ excused \in BOOLEAN /\ Len(known) >= 1
      BY DEF Backend
    <2> QED BY <1>4, <2>1, <2>3 DEF Backend, Known
  <1>7. \A n : n \in 2..Len(known) => n \in 1..Len(known)
    OBVIOUS
  <1>8. 1 \in 1..Len(known)
    BY <1>1 DEF Backend
  <1>9. Calls(u)'
    <2>1. PostWell(u)'
      BY <1>0, <1>4, <1>5, <1>7 DEF Calls, PostWell, Granted, Well
    <2>2. CloseWell(u)'
      BY <1>0, <1>4, <1>5 DEF Calls, CloseWell, Well
    <2>3. ASSUME NEW i \in 1..Asks PROVE Granted(u.choice[i])'
      <3>1. Granted(u.choice[i])
        BY <1>0 DEF Calls, ChoiceWell
      <3> QED BY <1>4, <1>5, <1>7, <3>1 DEF Granted
    <2>4. ChoiceWell(u)'
      BY <1>0, <2>3 DEF Calls, ChoiceWell, Well
    <2> QED BY <2>1, <2>2, <2>4 DEF Calls
  <1>10. Apart(u)' /\ Kept(u)'
    BY <1>0, <1>4 DEF Apart, Kept, Found
  <1>11. u.session # None => u.session \in 1..Len(known)
    BY <1>0 DEF Apart
  <1>12. Focus(u, l, m)'
    <2>1. Last(u, l, m)'
      BY <1>0, <1>5, <1>8 DEF Focus, Last
    <2>2. Selected(u, l, m)'
      BY <1>0, <1>5, <1>11 DEF Focus, Selected, Quiet
    <2>3. Chosen(u, l, m)' /\ Closing(u)' /\ Ended(u)'
      BY <1>0 DEF Focus, Chosen, Closing, Ended, Quiet, Choosing
    <2>4. u.candidate # None => u.candidate \in 1..Len(known)
      BY <1>0, <1>7 DEF Apart
    <2>5. Replacing(u, m)'
      BY <1>0, <1>5, <2>4 DEF Focus, Replacing
    <2> QED BY <1>0, <2>1, <2>2, <2>3, <2>5 DEF Focus
  <1>13. Seen(u)'
    <2>1. ASSUME u.session # None, ~Unchanged(u.session) PROVE ~Unchanged(u.session)'
      <3>1. /\ known'[u.session].model = known[u.session].model
            /\ known'[u.session].revision = known[u.session].revision
            /\ known'[u.session].epoch \in {known[u.session].epoch, None}
        BY <1>5, <1>11, <2>1
      <3>2. epoch # None
        BY NoneApart DEF Backend
      <3> QED BY <2>1, <3>1, <3>2 DEF Unchanged, Alive, RevisionOf
    <2>2. ASSUME u.session # None
          PROVE  /\ u.sub.frame # None => known'[u.session].revision <= u.sub.frame.revision
                 /\ u.epoch # None /\ known'[u.session].epoch # None =>
                       known'[u.session].epoch <= u.epoch
      BY <1>0, <1>5, <1>11, <2>2 DEF Seen
    <2>3. /\ u.epoch # None => u.epoch <= epoch
          /\ u.sub.frame # None =>
               u.sub.frame.epoch = epoch /\ u.sub.frame.revision <= revision[u.selected]
          /\ u.session # None /\ u.queued => ~Unchanged(u.session)
      BY <1>0 DEF Seen
    <2> QED BY <2>1, <2>2, <2>3 DEF Seen
  <1>14. Good(u, l, m)'
    BY <1>0, <1>9, <1>10, <1>12, <1>13 DEF Good
  <1> QED BY <1>5, <1>6, <1>14

\* A controller that is good, but for the session s, which it will be told of.
Fresh(u, s) ==
    /\ s \in 2..Len(known)
    /\ s \notin u.retired /\ s # u.session /\ s # u.candidate /\ s # u.post.result
    /\ \A i \in 1..Asks : s # u.choice[i].result
Almost(u, l, m, s) ==
    /\ u \in Controller /\ Calls(u) /\ Apart(u) /\ Focus(u, l, m) /\ Seen(u)
    /\ 1 \in u.adopted
    /\ u.session # None => u.session \in u.adopted
    /\ \A t \in 1..Len(known) : t = s \/ Found(u, t)
    /\ s # None => Fresh(u, s)

LEMMA GoodAlmost ==
  ASSUME NEW u, NEW l, NEW m, Good(u, l, m)
  PROVE  Almost(u, l, m, None)
  BY DEF Good, Almost, Kept

LEMMA CreatedAlmost ==
  ASSUME Backend, NEW u, NEW l, NEW m, Good(u, l, m), NEW k \in Model, revision[k] \notin Gone,
         known' = Append(known, [model |-> k, revision |-> revision[k], epoch |-> epoch]),
         UNCHANGED <<revision, changes, epoch, faults, asked, excused>>, NEW n, n = Created
  PROVE  Backend' /\ Almost(u, l, m, n)' /\ known'[n].model = k
  <1>0. u \in Controller /\ Calls(u) /\ Apart(u) /\ Kept(u) /\ Focus(u, l, m) /\ Seen(u)
    BY DEF Good
  <1> DEFINE new == [model |-> k, revision |-> revision[k], epoch |-> epoch]
  <1>1. known \in Seq(Known) /\ Len(known) \in Nat /\ Len(known) >= 1 /\ n = Len(known) + 1
    BY DEF Backend, Created
  <1>2. new \in Known /\ new.model = k /\ new.revision = revision[k] /\ new.epoch = epoch
    <2>1. revision[k] \in 0..Revisions /\ epoch \in 0..Faults
      BY NoneApart DEF Backend
    <2> QED BY <2>1 DEF Known, NoneOr
  <1> HIDE DEF new
  <1>3. known' = Append(known, new)
    BY DEF new
  <1>4. known' \in Seq(Known) /\ Len(known') = n /\ known'[n] = new
    BY <1>1, <1>2, <1>3
  <1>5. ASSUME NEW s \in 1..Len(known) PROVE s \in 1..n /\ known'[s] = known[s]
    BY <1>1, <1>3
  <1>6. \A s \in 1..n : s = n \/ s \in 1..Len(known)
    BY <1>1
  <1>7. 1 \in 1..Len(known) /\ n \in 2..n /\ n # None /\ n \notin 1..Len(known)
    BY <1>1, NoneApart
  <1>8. \A s : s \in 2..Len(known) => s \in 1..Len(known) /\ s \in 2..n
    BY <1>1
  <1>9. Backend'
    <2>1. ASSUME NEW s \in 1..n
          PROVE  /\ known'[s].revision <= revision[known'[s].model]
                 /\ known'[s].revision \notin Gone
                 /\ known'[s].epoch # None => known'[s].epoch <= epoch
      <3>1. CASE s = n
        <4>1. revision[k] \in Nat /\ epoch \in Nat
          BY NoneApart DEF Backend
        <4> QED BY <1>2, <1>4, <3>1, <4>1
      <3>2. CASE s \in 1..Len(known)
        BY <1>5, <3>2 DEF Backend
      <3> QED BY <1>6, <3>1, <3>2
    <2>2. /\ revision \in [Model -> 0..Revisions] /\ changes \in 0..Revisions
          /\ \A j \in Model : revision[j] <= changes
          /\ faults \in 0..Faults /\ epoch \in Nat /\ epoch <= faults
          /\ asked \in 0..Asks /\ excused \in BOOLEAN
      BY DEF Backend
    <2> QED BY <1>1, <1>4, <2>1, <2>2 DEF Backend, Known
  <1>10. Calls(u)'
    <2>0. ASSUME NEW call, Granted(call) PROVE Granted(call)'
      BY <1>4, <1>5, <1>8, <2>0 DEF Granted
    <2>1. PostWell(u)'
      BY <1>0, <2>0 DEF Calls, PostWell, Well
    <2>2. CloseWell(u)'
      BY <1>0, <1>4, <1>5 DEF Calls, CloseWell, Well
    <2>3. ChoiceWell(u)'
      BY <1>0, <2>0 DEF Calls, ChoiceWell, Well
    <2> QED BY <2>1, <2>2, <2>3 DEF Calls
  <1>11. u.session # None => u.session \in 1..Len(known)
    BY <1>0 DEF Apart
  <1>12. u.candidate # None => u.candidate \in 1..Len(known)
    BY <1>0, <1>8 DEF Apart
  <1>13. Apart(u)'
    <2>1. u.retired \subseteq 1..n
      BY <1>0, <1>5 DEF Apart
    <2>2. /\ u.session # None => u.session \in 1..n /\ u.session \notin u.retired
          /\ u.candidate # None =>
               u.candidate \in 2..n /\ u.candidate \notin u.retired \cup {u.session}
      BY <1>0, <1>5, <1>8 DEF Apart
    <2> QED BY <1>0, <1>4, <2>1, <2>2 DEF Apart
  <1>14. Focus(u, l, m)'
    <2>1. Last(u, l, m)'
      BY <1>0, <1>5, <1>7 DEF Focus, Last
    <2>2. Selected(u, l, m)'
      BY <1>0, <1>5, <1>11 DEF Focus, Selected, Quiet
    <2>3. Chosen(u, l, m)' /\ Closing(u)' /\ Ended(u)'
      BY <1>0 DEF Focus, Chosen, Closing, Ended, Quiet, Choosing
    <2>5. Replacing(u, m)'
      BY <1>0, <1>5, <1>12 DEF Focus, Replacing
    <2> QED BY <1>0, <2>1, <2>2, <2>3, <2>5 DEF Focus
  <1>15. Seen(u)'
    BY <1>0, <1>5, <1>11 DEF Seen, Unchanged, Alive, RevisionOf
  <1>16. Fresh(u, n)'
    <2>1. n \notin u.retired /\ n # u.session /\ n # u.candidate
      BY <1>0, <1>7, <1>11, <1>12 DEF Apart
    <2>2. n # u.post.result
      BY <1>0, <1>7, <1>8 DEF Calls, PostWell, Granted
    <2>3. ASSUME NEW i \in 1..Asks PROVE n # u.choice[i].result
      BY <1>0, <1>7, <1>8 DEF Calls, ChoiceWell, Granted
    <2> QED BY <1>4, <1>7, <2>1, <2>2, <2>3 DEF Fresh
  <1>17. 1 \in u.adopted /\ (u.session # None => u.session \in u.adopted)
         /\ \A t \in 1..n : t = n \/ Found(u, t)
    BY <1>0, <1>6 DEF Kept
  <1>18. Almost(u, l, m, n)'
    BY <1>0, <1>4, <1>10, <1>13, <1>14, <1>15, <1>16, <1>17 DEF Almost, Found
  <1> QED BY <1>2, <1>4, <1>9, <1>18

\* A request is answered.
PostReplied(u, s, e) == [u EXCEPT !.post = Replied(u.post, s, e)]
CloseReplied(u, e) == [u EXCEPT !.close = Replied(u.close, None, e)]
ChoiceReplied(u, i, s, e) == [u EXCEPT !.choice[i] = Replied(u.choice[i], s, e)]

RepliedPostKeeps ==
  \A u, l, m, s, e, v :
     /\ Almost(u, l, m, s) /\ u.post.stage = "sent"
     /\ s # None => known[s].model = u.post.of
     /\ e \in Reason /\ v = PostReplied(u, s, e)
     => Good(v, l, m) /\ v.session = u.session /\ v.choice = u.choice

LEMMA RepliedPostGood == RepliedPostKeeps
  <1> SUFFICES ASSUME NEW u, NEW l, NEW m, NEW s, NEW e, NEW v,
                      /\ Almost(u, l, m, s) /\ u.post.stage = "sent"
                      /\ s # None => known[s].model = u.post.of
                      /\ e \in Reason /\ v = PostReplied(u, s, e)
               PROVE  Good(v, l, m) /\ v.session = u.session /\ v.choice = u.choice
    BY Zenon DEF RepliedPostKeeps
  <1>0. /\ u \in Controller /\ Calls(u) /\ Apart(u) /\ Focus(u, l, m) /\ Seen(u)
        /\ 1 \in u.adopted /\ (u.session # None => u.session \in u.adopted)
        /\ \A t \in 1..Len(known) : t = s \/ Found(u, t)
        /\ (s # None => Fresh(u, s))
    BY DEF Almost
  <1> DEFINE p == Replied(u.post, s, e)
  <1>1. /\ p \in Request /\ p.stage = "reply" /\ p.result = s
        /\ p.of = u.post.of /\ p.current = u.post.current
    <2>1. u.post \in Request /\ s \in NoneOr(Nat)
      BY <1>0, ControllerFields DEF Fresh, NoneOr
    <2> QED BY ONLY <2>1, e \in Reason, RepliedFields DEF p
  <1>2. v = [u EXCEPT !.post = p]
    BY DEF PostReplied
  <1> HIDE DEF p
  <1>3. /\ v \in Controller /\ v.post = p
        /\ v.active = u.active /\ v.selected = u.selected /\ v.session = u.session
        /\ v.status = u.status /\ v.refresh = u.refresh /\ v.candidate = u.candidate
        /\ v.queued = u.queued /\ v.epoch = u.epoch /\ v.timer = u.timer
        /\ v.inventory = u.inventory /\ v.sub = u.sub /\ v.close = u.close
        /\ v.choice = u.choice /\ v.retired = u.retired /\ v.adopted = u.adopted
    <2>1. v \in Controller
      BY <1>0, <1>1, <1>2 DEF Controller
    <2> QED BY <1>0, <1>2, <2>1 DEF Controller
  <1>4. u.post.result = None /\ (u.post.current => u.post.of = u.selected /\ u.session = None)
        /\ u.candidate = None /\ ~u.timer /\ u.post.of \in Model
    BY <1>0 DEF Calls, PostWell, Well, Focus, Replacing
  <1>5. Calls(v)
    <2>1. PostWell(v)
      BY <1>0, <1>1, <1>3, <1>4 DEF PostWell, Well, Granted, Fresh
    <2> QED BY ONLY <1>0, <1>3, <2>1 DEF Calls, CloseWell, ChoiceWell
  <1>6. Apart(v)
    BY <1>0, <1>1, <1>3, <1>4 DEF Apart, Fresh
  <1>7. Kept(v)
    <2>1. ASSUME NEW t \in 1..Len(known) PROVE Found(v, t)
      <3>1. t # None
        BY NoneApart
      <3> QED BY <1>0, <1>1, <1>3, <1>4, <3>1 DEF Found
    <2> QED BY <1>0, <1>3, <2>1 DEF Kept
  <1>8. Choosing(v) <=> Choosing(u)
    BY <1>3 DEF Choosing
  <1>9. Focus(v, l, m)
    <2>1. Last(v, l, m) /\ Selected(v, l, m)
      BY <1>0, <1>1, <1>3 DEF Focus, Last, Selected, Quiet
    <2>2. Chosen(v, l, m) /\ Closing(v)
      BY <1>0, <1>1, <1>3, <1>8 DEF Focus, Chosen, Closing, Quiet
    <2>3. Replacing(v, m) /\ Ended(v)
      BY <1>0, <1>1, <1>3, <1>4, <1>8 DEF Focus, Replacing, Ended
    <2> QED BY <1>0, <1>3, <2>1, <2>2, <2>3 DEF Focus
  <1>10. Seen(v)
    BY <1>0, <1>3 DEF Seen
  <1> QED BY <1>3, <1>5, <1>6, <1>7, <1>9, <1>10 DEF Good

LEMMA RepliedPostNext == RepliedPostKeeps'
  BY RepliedPostGood, PTL

RepliedCloseKeeps ==
  \A u, l, m, e, v :
     /\ Good(u, l, m) /\ u.close.stage = "sent"
     /\ e # "" \/ known[u.close.of].epoch = None
     /\ e \in Reason /\ v = CloseReplied(u, e)
     => Good(v, l, m) /\ v.session = u.session /\ v.choice = u.choice

LEMMA RepliedCloseGood == RepliedCloseKeeps
  <1> SUFFICES ASSUME NEW u, NEW l, NEW m, NEW e, NEW v,
                      /\ Good(u, l, m) /\ u.close.stage = "sent"
                      /\ e # "" \/ known[u.close.of].epoch = None
                      /\ e \in Reason /\ v = CloseReplied(u, e)
               PROVE  Good(v, l, m) /\ v.session = u.session /\ v.choice = u.choice
    BY Zenon DEF RepliedCloseKeeps
  <1>0. u \in Controller /\ Calls(u) /\ Apart(u) /\ Kept(u) /\ Focus(u, l, m) /\ Seen(u)
    BY DEF Good
  <1> DEFINE p == Replied(u.close, None, e)
  <1>1. /\ p \in Request /\ p.stage = "reply" /\ p.result = None /\ p.error = e
        /\ p.of = u.close.of /\ p.current = u.close.current
    <2>1. u.close \in Request /\ None \in NoneOr(Nat)
      BY <1>0, ControllerFields DEF NoneOr
    <2> QED BY ONLY <2>1, e \in Reason, RepliedFields DEF p
  <1>2. v = [u EXCEPT !.close = p]
    BY DEF CloseReplied
  <1> HIDE DEF p
  <1>3. /\ v \in Controller /\ v.close = p
        /\ v.active = u.active /\ v.selected = u.selected /\ v.session = u.session
        /\ v.status = u.status /\ v.refresh = u.refresh /\ v.candidate = u.candidate
        /\ v.queued = u.queued /\ v.epoch = u.epoch /\ v.timer = u.timer
        /\ v.inventory = u.inventory /\ v.sub = u.sub /\ v.post = u.post
        /\ v.choice = u.choice /\ v.retired = u.retired /\ v.adopted = u.adopted
    <2>1. v \in Controller
      BY <1>0, <1>1, <1>2 DEF Controller
    <2> QED BY <1>0, <1>2, <2>1 DEF Controller
  <1>4. Calls(v)
    <2>1. CloseWell(v)
      BY <1>0, <1>1, <1>3 DEF Calls, CloseWell, Well
    <2> QED BY ONLY <1>0, <1>3, <2>1 DEF Calls, PostWell, ChoiceWell
  <1>5. Apart(v) /\ Kept(v)
    BY ONLY <1>0, <1>3 DEF Apart, Kept, Found
  <1>6. Choosing(v) <=> Choosing(u)
    BY <1>3 DEF Choosing
  <1>7. Focus(v, l, m)
    <2>1. Last(v, l, m) /\ Selected(v, l, m)
      BY <1>0, <1>3 DEF Focus, Last, Selected, Quiet
    <2>2. Chosen(v, l, m) /\ Closing(v)
      BY <1>0, <1>1, <1>3, <1>6 DEF Focus, Chosen, Closing, Quiet
    <2>3. Replacing(v, m) /\ Ended(v)
      BY <1>0, <1>1, <1>3, <1>6 DEF Focus, Replacing, Ended
    <2> QED BY <1>0, <1>3, <2>1, <2>2, <2>3 DEF Focus
  <1>8. Seen(v)
    BY <1>0, <1>3 DEF Seen
  <1> QED BY <1>3, <1>4, <1>5, <1>7, <1>8 DEF Good

LEMMA RepliedCloseNext == RepliedCloseKeeps'
  BY RepliedCloseGood, PTL

RepliedChoiceKeeps ==
  \A u, l, m, i, f, s, e, v :
     /\ Almost(u, l, m, f) /\ i \in 0..Asks /\ u.choice[i].stage = "sent"
     /\ IF i = 0 THEN f = None /\ s \in {1, None}
                 ELSE f = s /\ (s # None => known[s].model = u.choice[i].of)
     /\ e \in Reason /\ v = ChoiceReplied(u, i, s, e)
     => Good(v, l, m) /\ v.session = u.session

LEMMA RepliedChoiceGood == RepliedChoiceKeeps
  <1> SUFFICES ASSUME NEW u, NEW l, NEW m, NEW i, NEW f, NEW s, NEW e, NEW v,
                      /\ Almost(u, l, m, f) /\ i \in 0..Asks /\ u.choice[i].stage = "sent"
                      /\ IF i = 0 THEN f = None /\ s \in {1, None}
                         ELSE f = s /\ (s # None => known[s].model = u.choice[i].of)
                      /\ e \in Reason
                      /\ v = ChoiceReplied(u, i, s, e)
               PROVE  Good(v, l, m) /\ v.session = u.session
    BY Zenon DEF RepliedChoiceKeeps
  <1>0. /\ u \in Controller /\ Calls(u) /\ Apart(u) /\ Focus(u, l, m) /\ Seen(u)
        /\ 1 \in u.adopted /\ (u.session # None => u.session \in u.adopted)
        /\ \A t \in 1..Len(known) : t = f \/ Found(u, t)
        /\ (f # None => Fresh(u, f))
    BY DEF Almost
  <1>a. i \in 0..Asks /\ u.choice[i].stage = "sent" /\ e \in Reason
    OBVIOUS
  <1>b. i = 0 => f = None /\ s \in {1, None}
    OBVIOUS
  <1>c. i # 0 => f = s /\ (s # None => known[s].model = u.choice[i].of)
    OBVIOUS
  <1> DEFINE p == Replied(u.choice[i], s, e)
             h == [u.choice EXCEPT ![i] = p]
  <1>1. /\ p \in Request /\ p.stage = "reply" /\ p.result = s
        /\ p.of = u.choice[i].of /\ p.current = u.choice[i].current
    <2>1. u.choice[i] \in Request
      BY ONLY <1>0, <1>a, ControllerFields
    <2>2. s \in NoneOr(Nat)
      BY ONLY <1>0, <1>b, <1>c DEF Fresh, NoneOr
    <2> QED BY ONLY <1>a, <2>1, <2>2, RepliedFields DEF p
  <1> HIDE DEF p
  <1>2. /\ h \in [0..Asks -> Request] /\ h[i] = p
        /\ \A j \in 0..Asks : j # i => h[j] = u.choice[j]
    BY ONLY <1>0, <1>a, <1>1, ControllerFields DEF h
  <1>3. v = [u EXCEPT !.choice = h]
    BY <1>0 DEF p, Controller, ChoiceReplied
  <1> HIDE DEF h
  <1>4. /\ v \in Controller /\ v.choice = h
        /\ v.active = u.active /\ v.selected = u.selected /\ v.session = u.session
        /\ v.status = u.status /\ v.refresh = u.refresh /\ v.candidate = u.candidate
        /\ v.queued = u.queued /\ v.epoch = u.epoch /\ v.timer = u.timer
        /\ v.inventory = u.inventory /\ v.sub = u.sub /\ v.close = u.close
        /\ v.post = u.post /\ v.retired = u.retired /\ v.adopted = u.adopted
    <2>1. v \in Controller
      BY ONLY <1>0, <1>2, <1>3 DEF Controller
    <2> QED BY ONLY <1>0, <1>3, <2>1 DEF Controller
  <1>5. \A j \in 1..Asks : j \in 0..Asks
    BY NoneApart
  <1>6. /\ v.choice[i] = p /\ u.choice[i].result = None
        /\ \A j \in 0..Asks : j # i => v.choice[j] = u.choice[j]
    BY ONLY <1>0, <1>a, <1>2, <1>4 DEF Calls, ChoiceWell, Well
  <1>7. \A j \in 0..Asks : /\ v.choice[j].current <=> u.choice[j].current
                           /\ v.choice[j].of = u.choice[j].of
                           /\ v.choice[j].stage = "none" <=> u.choice[j].stage = "none"
    BY ONLY <1>a, <1>1, <1>6
  <1>8. Calls(v)
    <2>1. ASSUME NEW j \in 0..Asks PROVE Well(v.choice[j])
      BY ONLY <1>0, <1>1, <1>6, j \in 0..Asks DEF Calls, ChoiceWell, Well
    <2>2. v.choice[0].result \in {1, None}
      <3>1. 0 \in 0..Asks
        BY NoneApart
      <3> QED BY ONLY <1>0, <1>b, <1>1, <1>6, <3>1 DEF Calls, ChoiceWell
    <2>3. ASSUME NEW j \in 1..Asks
          PROVE  /\ Granted(v.choice[j])
                 /\ v.choice[j].stage # "none" => j <= asked /\ v.choice[j].of \in Model
                 /\ v.choice[j].stage = "none" => v.choice[j] = NoCall
      <3>1. CASE j = i
        <4>1. i # 0
          BY <3>1
        <4>2. Granted(v.choice[j])
          BY ONLY <1>0, <1>c, <1>1, <1>6, <3>1, <4>1 DEF Granted, Fresh
        <4> QED BY ONLY <1>0, <1>a, <1>1, <1>6, <3>1, <4>2, j \in 1..Asks DEF Calls, ChoiceWell
      <3>2. CASE j # i
        <4>1. v.choice[j] = u.choice[j]
          BY ONLY <1>5, <1>6, <3>2, j \in 1..Asks
        <4> QED BY ONLY <1>0, <4>1, j \in 1..Asks DEF Calls, ChoiceWell
      <3> QED BY <3>1, <3>2
    <2>4. ChoiceWell(v)
      BY ONLY <2>1, <2>2, <2>3 DEF ChoiceWell
    <2> QED BY ONLY <1>0, <1>4, <2>4 DEF Calls, PostWell, CloseWell
  <1>9. Apart(v)
    <2>1. ASSUME NEW j \in 1..Asks, v.choice[j].result # None
          PROVE  /\ v.choice[j].result \notin v.retired
                 /\ v.choice[j].result \notin {v.session, v.candidate, v.post.result}
                 /\ \A k \in 1..Asks : k # j => v.choice[j].result # v.choice[k].result
      <3>1. CASE j = i
        <4>1. v.choice[j].result = s /\ s # None /\ Fresh(u, s)
          BY ONLY <1>0, <1>c, <1>1, <1>6, <2>1, <3>1, j \in 1..Asks
        <4>2. ASSUME NEW k \in 1..Asks, k # j PROVE v.choice[k].result # s
          BY ONLY <1>5, <1>6, <3>1, <4>1, <4>2, k \in 1..Asks DEF Fresh
        <4> QED BY ONLY <1>4, <4>1, <4>2 DEF Fresh
      <3>2. CASE j # i
        <4>1. v.choice[j] = u.choice[j] /\ u.choice[j].result # None
          BY ONLY <1>5, <1>6, <2>1, <3>2, j \in 1..Asks
        <4>2. ASSUME NEW k \in 1..Asks, k # j PROVE v.choice[j].result # v.choice[k].result
          <5>1. CASE k = i
            <6>1. i # 0
              BY <5>1
            <6> QED BY ONLY <1>0, <1>c, <1>1, <1>6, <4>1, <5>1, <6>1, j \in 1..Asks DEF Fresh
          <5>2. CASE k # i
            BY ONLY <1>0, <1>5, <1>6, <4>1, <4>2, <5>2, j \in 1..Asks, k \in 1..Asks DEF Apart
          <5> QED BY <5>1, <5>2
        <4> QED BY ONLY <1>0, <1>4, <4>1, <4>2, j \in 1..Asks DEF Apart
      <3> QED BY <3>1, <3>2
    <2> QED BY ONLY <1>0, <1>4, <2>1 DEF Apart
  <1>10. Kept(v)
    <2>1. ASSUME NEW t \in 1..Len(known) PROVE Found(v, t)
      <3>1. t # None
        BY NoneApart
      <3>2. CASE t = f
        <4>1. v.choice[i].result = t
          BY ONLY <1>b, <1>c, <1>1, <1>6, <3>1, <3>2
        <4> QED BY ONLY <1>a, <4>1 DEF Found
      <3>3. CASE t # f
        <4>1. Found(u, t)
          BY <1>0, <3>3
        <4> QED BY ONLY <1>4, <1>6, <3>1, <4>1 DEF Found
      <3> QED BY <3>2, <3>3
    <2> QED BY ONLY <1>0, <1>4, <2>1 DEF Kept
  <1>11. Choosing(v) <=> Choosing(u)
    BY ONLY <1>7 DEF Choosing
  <1>12. Focus(v, l, m)
    <2>1. Last(v, l, m)
      BY ONLY <1>0, <1>5, <1>7 DEF Focus, Last
    <2>2. Selected(v, l, m)
      BY ONLY <1>0, <1>4 DEF Focus, Selected, Quiet
    <2>3. Chosen(v, l, m) /\ Closing(v)
      BY ONLY <1>0, <1>4, <1>7, <1>11 DEF Focus, Chosen, Closing, Quiet
    <2>4. Replacing(v, m) /\ Ended(v)
      BY ONLY <1>0, <1>4, <1>11 DEF Focus, Replacing, Ended
    <2> QED BY ONLY <1>0, <1>4, <2>1, <2>2, <2>3, <2>4 DEF Focus
  <1>13. Seen(v)
    BY ONLY <1>0, <1>4 DEF Seen
  <1> QED BY ONLY <1>4, <1>8, <1>9, <1>10, <1>12, <1>13 DEF Good

LEMMA RepliedChoiceNext == RepliedChoiceKeeps'
  BY RepliedChoiceGood, PTL

-----------------------------------------------------------------------------
(* The actions.                                                            *)

LEMMA MovedGood ==
  ASSUME NEW v, NEW l, NEW m, Good(v, l, m)', ui' = v
  PROVE  Good(ui, l, m)'
  OBVIOUS

LEMMA SameBackend ==
  ASSUME Backend, UNCHANGED <<revision, changes, epoch, known>>,
         faults' \in 0..Faults, faults <= faults', asked' \in 0..Asks, excused' \in BOOLEAN
  PROVE  Backend'
  <1>1. epoch <= faults'
    BY NoneApart DEF Backend
  <1> QED BY <1>1 DEF Backend, Known

LEMMA OthersGood ==
  ASSUME Backend, NEW v, NEW l, NEW m, Good(v, l, m), ui' = v, Others
  PROVE  Good(ui, l, m)' /\ Backend'
  <1>1. asked \in Nat /\ asked' = asked /\ UNCHANGED <<revision, epoch, known>>
    BY DEF Others, backendVars, Backend
  <1>2. Good(v, l, m)'
    BY <1>1, TurnGood
  <1>3. Backend'
    <2>1. faults \in 0..Faults /\ asked \in 0..Asks /\ excused \in BOOLEAN
      BY DEF Backend
    <2>2. faults <= faults
      BY <2>1
    <2>3. UNCHANGED <<revision, changes, epoch, known, faults, asked, excused>>
      BY DEF Others, backendVars
    <2> QED BY <2>1, <2>2, <2>3, SameBackend
  <1> QED BY <1>2, <1>3, MovedGood

\* An attempt is no longer waited for.
LEMMA TimerOffGood ==
  ASSUME NEW u, NEW l, NEW m, Good(u, l, m), u.timer, NEW v, v = [u EXCEPT !.timer = FALSE]
  PROVE  Good(v, l, m) /\ ~Choosing(v) /\ Replaceable(v) /\ u.session = None
         /\ v.choice = u.choice
  <1>0. u \in Controller /\ Focus(u, l, m)
    BY DEF Good
  <1>1. /\ v \in Controller /\ ~v.timer
        /\ v.active = u.active /\ v.selected = u.selected /\ v.session = u.session
        /\ v.status = u.status /\ v.refresh = u.refresh /\ v.candidate = u.candidate
        /\ v.queued = u.queued /\ v.epoch = u.epoch /\ v.inventory = u.inventory
        /\ v.sub = u.sub /\ v.post = u.post /\ v.close = u.close
        /\ v.choice = u.choice /\ v.retired = u.retired /\ v.adopted = u.adopted
    BY <1>0 DEF Controller
  <1>2. u.session = None /\ ~Choosing(u)
    BY <1>0 DEF Focus, Replacing, Chosen, Quiet
  <1>3. Good(v, l, m) /\ (Choosing(v) <=> Choosing(u))
    BY ONLY Good(u, l, m), <1>1, MinorGood
  <1> QED BY <1>1, <1>2, <1>3 DEF Replaceable

LEMMA ChoiceSettledStays ==
  ASSUME NEW u, NEW l, NEW m, Good(u, l, m), NEW i \in 0..Asks, NEW v, v = ChoiceSettled(u, i)
  PROVE  u.session = None \/ v.session = u.session
  <1>0. u \in Controller /\ Focus(u, l, m)
    BY DEF Good
  <1>1. CASE u.choice[i].current
    BY <1>0, <1>1 DEF Focus, Chosen, Choosing
  <1>2. CASE ~u.choice[i].current
    <2>1. PICK h : h = [u.choice EXCEPT ![i] = Over(u.choice[i])]
      OBVIOUS
    <2>2. PICK w : w = [u EXCEPT !.choice = h]
      OBVIOUS
    <2>3. w = [u EXCEPT !.choice[i] = Over(u.choice[i])]
      BY ONLY <1>0, <2>1, <2>2 DEF Controller
    <2>4. \/ v = w
          \/ v = Retired(w, u.choice[i].result)
      BY <1>2, <2>3 DEF ChoiceSettled, Wanted, Over
    <2>5. w.session = u.session
      BY ONLY <1>0, <2>2 DEF Controller
    <2>6. Retired(w, u.choice[i].result).session = w.session
      <3>1. w = [u EXCEPT !.choice = h] /\ DOMAIN u = DOMAIN w
        BY ONLY <2>2
      <3> QED BY ONLY <1>0, <2>2 DEF Retired, Controller
    <2> QED BY <2>4, <2>5, <2>6
  <1> QED BY <1>1, <1>2

\* The events and the answers.
LEMMA ArrivalGood ==
  ASSUME Backend, NEW l, NEW m, Good(ui, l, m),
         SendEvent \/ ReceiveEvent \/ AnswerPost \/ AnswerChoice \/ AnswerClose \/ Loaded
         \/ RetryTimer
  PROVE  /\ Good(ui, l, m)' /\ Backend'
         /\ Stays(ui, ui') \/ ui'.selected = None
  <1>1. CASE SendEvent
    <2>1. PICK now : now = [epoch |-> epoch, revision |-> revision[ui.selected]]
      OBVIOUS
    <2>2. PICK v1 : v1 = [ui EXCEPT !.sub.frame = now, !.sub.told = now]
      OBVIOUS
    <2>3. ui.sub.on /\ ui' = v1 /\ Others
      BY <1>1, <2>1, <2>2 DEF SendEvent
    <2>4. Good(v1, l, m) /\ v1.session = ui.session
      BY <2>1, <2>2, <2>3, SendGood
    <2>5. Good(ui, l, m)' /\ Backend'
      BY ONLY Backend, <2>3, <2>4, OthersGood
    <2> QED BY ONLY <2>3, <2>4, <2>5 DEF Stays
  <1>2. CASE ReceiveEvent
    <2>1. PICK v1 : v1 = ObserveState([ui EXCEPT !.sub.frame = None], ui.sub.frame)
      OBVIOUS
    <2>2. ui.sub.on /\ ui.sub.frame # None /\ ui' = v1 /\ Others
      BY <1>2, <2>1 DEF ReceiveEvent
    <2>3. Good(v1, l, m) /\ Stays(ui, v1)
      BY <2>1, <2>2, ReceiveGood
    <2>4. Good(ui, l, m)' /\ Backend'
      BY ONLY Backend, <2>2, <2>3, OthersGood
    <2> QED BY ONLY <2>2, <2>3, <2>4
  <1>3. CASE AnswerPost
    <2>1. PICK v1 : v1 = PostSettled(ui)
      OBVIOUS
    <2>2. ui.post.stage = "reply" /\ ui' = v1 /\ Others
      BY <1>3, <2>1 DEF AnswerPost
    <2>3. Good(v1, l, m) /\ Stays(ui, v1)
      BY <2>1, <2>2, PostSettledGood
    <2>4. Good(ui, l, m)' /\ Backend'
      BY ONLY Backend, <2>2, <2>3, OthersGood
    <2> QED BY ONLY <2>2, <2>3, <2>4
  <1>4. CASE AnswerChoice
    <2>1. PICK i \in 0..Asks : ui.choice[i].stage = "reply" /\ ui' = ChoiceSettled(ui, i) /\ Others
      BY <1>4 DEF AnswerChoice
    <2>2. PICK v1 : v1 = ChoiceSettled(ui, i)
      OBVIOUS
    <2>3. Good(v1, l, m)
      BY <2>1, <2>2, ChoiceSettledGood
    <2>4. ui' = v1 /\ Others
      BY <2>1, <2>2
    <2>5. Good(ui, l, m)' /\ Backend'
      BY ONLY Backend, <2>3, <2>4, OthersGood
    <2>6. ui.session = None \/ v1.session = ui.session
      BY ONLY Good(ui, l, m), <2>2, i \in 0..Asks, ChoiceSettledStays
    <2> QED BY ONLY <2>4, <2>5, <2>6 DEF Stays
  <1>5. CASE AnswerClose
    <2>1. PICK v1 : v1 = CloseSettled(ui)
      OBVIOUS
    <2>2. ui.close.stage = "reply" /\ ui' = v1 /\ Others
      BY <1>5, <2>1 DEF AnswerClose
    <2>3. Good(v1, l, m) /\ (ui.session = v1.session \/ v1.selected = None)
      BY <2>1, <2>2, CloseSettledGood
    <2>4. Good(ui, l, m)' /\ Backend'
      BY ONLY Backend, <2>2, <2>3, OthersGood
    <2> QED BY ONLY <2>2, <2>3, <2>4 DEF Stays
  <1>6. CASE Loaded
    <2>1. PICK v1 : v1 = IF Unchanged(ui.session) THEN [ui EXCEPT !.inventory = FALSE]
                         ELSE ContentFailed([ui EXCEPT !.inventory = FALSE])
      OBVIOUS
    <2>2. ui.inventory /\ ui' = v1 /\ Others
      BY <1>6, <2>1 DEF Loaded
    <2>3. Good(v1, l, m) /\ Stays(ui, v1)
      BY <2>1, <2>2, LoadedGood
    <2>4. Good(ui, l, m)' /\ Backend'
      BY ONLY Backend, <2>2, <2>3, OthersGood
    <2> QED BY ONLY <2>2, <2>3, <2>4
  <1>7. CASE RetryTimer
    <2>1. PICK x : x = [ui EXCEPT !.timer = FALSE]
      OBVIOUS
    <2>2. PICK v1 : v1 = Refreshed(x)
      OBVIOUS
    <2>3. ui.timer /\ ui' = v1 /\ Others
      BY <1>7, <2>1, <2>2 DEF RetryTimer
    <2>4. Good(x, l, m) /\ ~Choosing(x) /\ Replaceable(x) /\ ui.session = None
      BY <2>1, <2>3, TimerOffGood
    <2>5. Good(v1, l, m)
      BY <2>2, <2>4, RefreshedGood
    <2>6. Good(ui, l, m)' /\ Backend'
      BY ONLY Backend, <2>3, <2>5, OthersGood
    <2> QED BY ONLY <2>4, <2>6 DEF Stays
  <1> QED BY <1>1, <1>2, <1>3, <1>4, <1>5, <1>6, <1>7

\* A session is created, or refused.
LEMMA ServePostGood ==
  ASSUME Backend, NEW l, NEW m, Good(ui, l, m), ServePost
  PROVE  Good(ui, l, m)' /\ Backend' /\ ui'.session = ui.session
  <1> PICK u : u = ui
    OBVIOUS
  <1>1. Good(u, l, m) /\ u.post.stage = "sent" /\ u.post.of \in Model
    BY DEF ServePost, Good, Calls, PostWell
  <1>2. CASE revision[u.post.of] \in Gone
    <2>0. "stable" \in Reason
      BY DEF Reason
    <2>1. PICK v : v = PostReplied(u, None, "stable")
      OBVIOUS
    <2>2. ui' = v /\ Others
      BY <1>2, <2>1 DEF ServePost, Create, Others, PostReplied
    <2>3. Almost(u, l, m, None)
      BY <1>1, GoodAlmost
    <2>4. Good(v, l, m) /\ v.session = u.session
      BY ONLY <1>1, <2>1, <2>3, <2>0, RepliedPostGood DEF RepliedPostKeeps
    <2>5. Good(ui, l, m)' /\ Backend'
      BY ONLY Backend, <2>2, <2>4, OthersGood
    <2> QED BY <2>2, <2>4, <2>5
  <1>3. CASE revision[u.post.of] \notin Gone
    <2>1. PICK n : n = Created
      OBVIOUS
    <2>0. PICK e : e = "" /\ e \in Reason
      BY DEF Reason
    <2>2. PICK v : v = PostReplied(u, n, e)
      OBVIOUS
    <2>3. PICK k : k = u.post.of
      OBVIOUS
    <2>4. known' = Append(known, [model |-> k, revision |-> revision[k], epoch |-> epoch])
      BY <1>3, <2>3 DEF ServePost, Create
    <2>5. ui' = v /\ UNCHANGED <<revision, changes, epoch, faults, asked, excused>>
      BY <1>3, <2>0, <2>1, <2>2 DEF ServePost, Create, PostReplied
    <2>6. k \in Model /\ revision[k] \notin Gone
      BY <1>1, <1>3, <2>3
    <2>7. Backend' /\ Almost(u, l, m, n)' /\ known'[n].model = k
      BY ONLY Backend, <1>1, <2>1, <2>4, <2>5, <2>6, CreatedAlmost
    <2>8. e \in Reason
      BY <2>0
    <2>9. Good(v, l, m)' /\ v.session = u.session
      BY ONLY <1>1, <2>8, <2>2, <2>3, <2>7, RepliedPostNext DEF RepliedPostKeeps
    <2> QED BY <2>5, <2>7, <2>9, MovedGood
  <1> QED BY <1>2, <1>3

LEMMA ServeChoiceGood ==
  ASSUME Backend, NEW l, NEW m, Good(ui, l, m), ServeChoice
  PROVE  Good(ui, l, m)' /\ Backend' /\ ui'.session = ui.session
  <1> PICK u : u = ui
    OBVIOUS
  <1>1. PICK i \in 1..Asks :
          /\ u.choice[i].stage = "sent"
          /\ Create(u.choice[i].of, ChoiceReplied(u, i, None, "stable"),
                    ChoiceReplied(u, i, Created, ""))
    BY DEF ServeChoice, ChoiceReplied
  <1>2. Good(u, l, m) /\ u.choice[i].of \in Model /\ i \in 0..Asks /\ i # 0
    <2>1. u.choice[i].stage # "none" => u.choice[i].of \in Model
      BY DEF Good, Calls, ChoiceWell
    <2>2. u.choice[i].of \in Model
      BY <1>1, <2>1
    <2>3. i \in 0..Asks /\ i # 0
      BY NoneApart
    <2> QED BY <2>2, <2>3
  <1>3. CASE revision[u.choice[i].of] \in Gone
    <2>0. "stable" \in Reason
      BY DEF Reason
    <2>1. PICK v : v = ChoiceReplied(u, i, None, "stable")
      OBVIOUS
    <2>2. ui' = v /\ Others
      BY <1>1, <1>3, <2>1 DEF Create, Others
    <2>3. Almost(u, l, m, None)
      BY <1>2, GoodAlmost
    <2>4. u.choice[i].stage = "sent"
      BY <1>1
    <2>5. Good(v, l, m) /\ v.session = u.session
      BY ONLY <1>2, <2>0, <2>1, <2>3, <2>4, RepliedChoiceGood DEF RepliedChoiceKeeps
    <2>6. Good(ui, l, m)' /\ Backend'
      BY ONLY Backend, <2>2, <2>5, OthersGood
    <2> QED BY <2>2, <2>5, <2>6
  <1>4. CASE revision[u.choice[i].of] \notin Gone
    <2>0. PICK e : e = "" /\ e \in Reason
      BY DEF Reason
    <2>1. PICK n : n = Created
      OBVIOUS
    <2>2. PICK v : v = ChoiceReplied(u, i, n, e)
      OBVIOUS
    <2>3. PICK k : k = u.choice[i].of
      OBVIOUS
    <2>4. known' = Append(known, [model |-> k, revision |-> revision[k], epoch |-> epoch])
      BY <1>1, <1>4, <2>3 DEF Create
    <2>5. ui' = v /\ UNCHANGED <<revision, changes, epoch, faults, asked, excused>>
      BY <1>1, <1>4, <2>0, <2>1, <2>2 DEF Create
    <2>6. k \in Model /\ revision[k] \notin Gone
      BY <1>2, <1>4, <2>3
    <2>7. Backend' /\ Almost(u, l, m, n)' /\ known'[n].model = k
      BY ONLY Backend, <1>2, <2>1, <2>4, <2>5, <2>6, CreatedAlmost
    <2>8. e \in Reason /\ u.choice[i].stage = "sent"
      BY <1>1, <2>0
    <2>9. (/\ Almost(u, l, m, n) /\ i \in 0..Asks /\ u.choice[i].stage = "sent"
           /\ i # 0 /\ known[n].model = u.choice[i].of
           /\ e \in Reason /\ v = ChoiceReplied(u, i, n, e)
           => Good(v, l, m) /\ v.session = u.session)'
      BY ONLY RepliedChoiceNext DEF RepliedChoiceKeeps
    <2>10. Good(v, l, m)' /\ v.session = u.session
      BY ONLY <1>2, <2>8, <2>2, <2>3, <2>7, <2>9
    <2> QED BY <2>5, <2>7, <2>10, MovedGood
  <1> QED BY <1>3, <1>4

LEMMA ServeRecoverGood ==
  ASSUME Backend, NEW l, NEW m, Good(ui, l, m), ServeRecover
  PROVE  Good(ui, l, m)' /\ Backend' /\ ui'.session = ui.session
  <1> PICK u : u = ui
    OBVIOUS
  <1>1. u.choice[0].stage = "sent" /\ Good(u, l, m) /\ Others
    BY DEF ServeRecover
  <1>2. PICK s, e, v : v = ChoiceReplied(u, 0, s, e) /\ s \in {1, None} /\ ui' = v /\ e \in Reason
    <2>1. CASE Alive(1)
      <3>1. ui' = ChoiceReplied(u, 0, 1, "")
        BY <2>1 DEF ServeRecover, ChoiceReplied
      <3> QED BY <3>1 DEF Reason
    <2>2. CASE ~Alive(1)
      <3>1. ui' = ChoiceReplied(u, 0, None, "expired")
        BY <2>2 DEF ServeRecover, ChoiceReplied
      <3> QED BY <3>1 DEF Reason
    <2> QED BY <2>1, <2>2
  <1>3. Almost(u, l, m, None) /\ 0 \in 0..Asks
    BY <1>1, GoodAlmost, NoneApart
  <1>4. Good(v, l, m) /\ v.session = u.session
    BY ONLY <1>1, <1>2, <1>3, RepliedChoiceGood DEF RepliedChoiceKeeps
  <1>5. Good(ui, l, m)' /\ Backend'
    BY ONLY Backend, <1>1, <1>2, <1>4, OthersGood
  <1> QED BY <1>2, <1>4, <1>5

LEMMA ServeCloseGood ==
  ASSUME Backend, NEW l, NEW m, Good(ui, l, m), ServeClose
  PROVE  Good(ui, l, m)' /\ Backend' /\ ui'.session = ui.session
  <1> PICK u : u = ui
    OBVIOUS
  <1>1. Good(u, l, m) /\ u.close.stage = "sent"
    BY DEF ServeClose
  <1>2. PICK d : d = u.close.of
    OBVIOUS
  <1>3. d \in 1..Len(known)
    BY <1>1, <1>2 DEF Good, Calls, CloseWell
  <1>4. PICK e : e = "" /\ e \in Reason
    BY DEF Reason
  <1>5. PICK v : v = CloseReplied(u, e)
    OBVIOUS
  <1>6. /\ known' = [known EXCEPT ![d].epoch = None]
        /\ UNCHANGED <<revision, changes, epoch, faults, asked, excused>>
    BY <1>2 DEF ServeClose, Delete
  <1>7. ui' = v
    BY <1>4, <1>5 DEF ServeClose, CloseReplied
  <1>8. Good(u, l, m)' /\ Backend' /\ known'[d].epoch = None
    BY ONLY Backend, <1>1, <1>3, <1>6, DeleteGood
  <1>9. e \in Reason
    BY <1>4
  <1>10. Good(v, l, m)' /\ v.session = u.session
    BY ONLY <1>1, <1>2, <1>5, <1>8, <1>9, RepliedCloseNext DEF RepliedCloseKeeps
  <1> QED BY <1>7, <1>8, <1>10, MovedGood

\* What a failure leaves of the backend.
LEMMA FaultGood ==
  ASSUME Backend, NEW v, NEW l, NEW m, Good(v, l, m), ui' = v,
         faults < Faults, faults' = faults + 1, excused' \in BOOLEAN,
         UNCHANGED <<backendVars, asked>>
  PROVE  Good(ui, l, m)' /\ Backend'
  <1>1. asked \in 0..Asks /\ asked' = asked /\ UNCHANGED <<revision, changes, epoch, known>>
    BY DEF backendVars, Backend
  <1>2. asked \in Nat /\ asked' \in Nat /\ asked <= asked'
    BY <1>1
  <1>3. Good(v, l, m)'
    BY <1>1, <1>2, TurnGood
  <1>4. faults' \in 0..Faults /\ faults <= faults'
    BY NoneApart DEF Backend
  <1>5. Backend'
    BY <1>1, <1>4, SameBackend
  <1> QED BY <1>3, <1>5, MovedGood

LEMMA FailGood ==
  ASSUME Backend, NEW l, NEW m, Good(ui, l, m), Fail
  PROVE  Good(ui, l, m)' /\ Backend' /\ ui'.session = ui.session
  <1> PICK u : u = ui
    OBVIOUS
  <1>1. Good(u, l, m) /\ Almost(u, l, m, None)
    BY GoodAlmost
  <1>2. faults < Faults /\ faults' = faults + 1 /\ UNCHANGED <<backendVars, asked>>
    BY DEF Fail, Fault
  <1>3. excused' \in BOOLEAN
    <2>1. excused \in BOOLEAN
      BY DEF Backend
    <2>2. \E e \in Errors : excused' = (excused \/ e = "stable")
      BY DEF Fail, Fault
    <2> QED BY <2>1, <2>2
  <1>4. \E v : ui' = v /\ Good(v, l, m) /\ v.session = u.session
    <2>0. Errors \subseteq Reason /\ \A e \in Errors : e # ""
      BY DEF Errors, Reason
    <2>1. CASE u.post.stage = "sent" /\ \E e \in Errors : ui' = PostReplied(u, None, e)
      <3>1. PICK e \in Errors : ui' = PostReplied(u, None, e)
        BY <2>1
      <3>2. PICK v : v = PostReplied(u, None, e)
        OBVIOUS
      <3>3. u.post.stage = "sent" /\ e \in Reason
        BY <2>0, <2>1
      <3>4. Good(v, l, m) /\ v.session = u.session
        BY ONLY <1>1, <3>2, <3>3, RepliedPostGood DEF RepliedPostKeeps
      <3> QED BY <3>1, <3>2, <3>4
    <2>2. CASE \E i \in 0..Asks :
                 u.choice[i].stage = "sent" /\ \E e \in Errors : ui' = ChoiceReplied(u, i, None, e)
      <3>1. PICK i \in 0..Asks, e \in Errors :
              u.choice[i].stage = "sent" /\ ui' = ChoiceReplied(u, i, None, e)
        BY <2>2
      <3>2. PICK v : v = ChoiceReplied(u, i, None, e)
        OBVIOUS
      <3>3. u.choice[i].stage = "sent" /\ e \in Reason /\ i \in 0..Asks
        BY <2>0, <3>1
      <3>4. Good(v, l, m) /\ v.session = u.session
        BY ONLY <1>1, <3>2, <3>3, RepliedChoiceGood DEF RepliedChoiceKeeps
      <3> QED BY <3>1, <3>2, <3>4
    <2>3. CASE u.close.stage = "sent" /\ \E e \in Errors : ui' = CloseReplied(u, e)
      <3>1. PICK e \in Errors : ui' = CloseReplied(u, e)
        BY <2>3
      <3>2. PICK v : v = CloseReplied(u, e)
        OBVIOUS
      <3>3. u.close.stage = "sent" /\ e \in Reason /\ e # ""
        BY <2>0, <2>3
      <3>4. Good(v, l, m) /\ v.session = u.session
        BY <1>1, <3>2, <3>3, RepliedCloseGood DEF RepliedCloseKeeps
      <3> QED BY <3>1, <3>2, <3>4
    <2>4. \/ u.post.stage = "sent" /\ \E e \in Errors : ui' = PostReplied(u, None, e)
          \/ \E i \in 0..Asks :
               u.choice[i].stage = "sent" /\ \E e \in Errors : ui' = ChoiceReplied(u, i, None, e)
          \/ u.close.stage = "sent" /\ \E e \in Errors : ui' = CloseReplied(u, e)
      BY DEF Fail, Fault, PostReplied, ChoiceReplied, CloseReplied
    <2> QED BY <2>1, <2>2, <2>3, <2>4
  <1>5. PICK v : ui' = v /\ Good(v, l, m) /\ v.session = u.session
    BY <1>4
  <1>6. Good(ui, l, m)' /\ Backend'
    BY ONLY Backend, <1>2, <1>3, <1>5, FaultGood
  <1> QED BY <1>5, <1>6

\* The subscription starts afresh.
LEMMA AfreshGood ==
  ASSUME NEW u, NEW l, NEW m, Good(u, l, m), NEW b \in BOOLEAN, b => u.sub.on,
         NEW v, v = [u EXCEPT !.sub = [Off EXCEPT !.on = b]]
  PROVE  Good(v, l, m) /\ v.session = u.session /\ v.sub.frame = None
  <1>1. PICK s : s = [Off EXCEPT !.on = b]
    OBVIOUS
  <1>2. s \in Subscription /\ s.on = b /\ s.frame = None
    BY <1>1, FreshFields
  <1>3. v = [u EXCEPT !.sub = s]
    BY <1>1
  <1>4. (s.on => u.sub.on) /\ (~s.on => s.frame = None)
    BY <1>2
  <1>5. s.frame # None =>
          /\ s.frame.epoch = epoch /\ s.frame.revision <= revision[u.selected]
          /\ u.session # None => known[u.session].revision <= s.frame.revision
    BY <1>2
  <1>6. Good(v, l, m) /\ v.sub = s /\ v.session = u.session
    BY ONLY Good(u, l, m), <1>2, <1>3, <1>4, <1>5, SubGood
  <1> QED BY <1>2, <1>6

LEMMA ReconnectGood ==
  ASSUME Backend, NEW l, NEW m, Good(ui, l, m), Reconnect
  PROVE  Good(ui, l, m)' /\ Backend' /\ ui'.session = ui.session
  <1>1. PICK v : v = [ui EXCEPT !.sub = [Off EXCEPT !.on = TRUE]]
    OBVIOUS
  <1>2. ui' = v /\ ui.sub.on /\ faults < Faults /\ faults' = faults + 1
        /\ UNCHANGED <<backendVars, asked>>
    BY <1>1 DEF Reconnect
  <1>3. Good(v, l, m) /\ v.session = ui.session
    <2>1. PICK b : b = TRUE
      OBVIOUS
    <2>2. b \in BOOLEAN /\ (b => ui.sub.on) /\ v = [ui EXCEPT !.sub = [Off EXCEPT !.on = b]]
      BY <1>1, <1>2, <2>1
    <2> QED BY ONLY Good(ui, l, m), <2>2, AfreshGood
  <1>4. excused' \in BOOLEAN
    BY DEF Reconnect, Backend
  <1>5. Good(ui, l, m)' /\ Backend'
    BY ONLY Backend, <1>2, <1>3, <1>4, FaultGood
  <1> QED BY <1>2, <1>3, <1>5

LEMMA RestartedGood ==
  ASSUME Backend, NEW l, NEW m, Good(ui, l, m), Restart
  PROVE  Good(ui, l, m)' /\ Backend' /\ ui'.session = ui.session
  <1>1. PICK v : v = [ui EXCEPT !.sub = [Off EXCEPT !.on = ui.sub.on]]
    OBVIOUS
  <1>2. ui.sub.on \in BOOLEAN
    <2>1. ui.sub \in Subscription
      BY ControllerFields DEF Good
    <2> QED BY <2>1 DEF Subscription
  <1>3. Good(v, l, m) /\ v.session = ui.session /\ v.sub.frame = None
    <2>1. PICK b : b = ui.sub.on
      OBVIOUS
    <2>2. b \in BOOLEAN /\ (b => ui.sub.on) /\ v = [ui EXCEPT !.sub = [Off EXCEPT !.on = b]]
      BY <1>1, <1>2, <2>1
    <2>3. Good(v, l, m) /\ v.session = ui.session
      BY ONLY Good(ui, l, m), <2>2, AfreshGood
    <2>4. v.sub.frame = None
      BY ONLY Good(ui, l, m), <2>2, AfreshGood
    <2> QED BY <2>3, <2>4
  <1>4. ui' = v /\ faults < Faults /\ faults' = faults + 1 /\ epoch' = epoch + 1
        /\ UNCHANGED <<revision, changes, known, asked, excused>>
    BY <1>1 DEF Restart
  <1>5. Good(v, l, m)' /\ Backend'
    BY ONLY Backend, <1>3, <1>4, RestartGood
  <1> QED BY <1>3, <1>4, <1>5, MovedGood

LEMMA ModifiedGood ==
  ASSUME Backend, NEW l, NEW m, Good(ui, l, m), NEW n \in Model, Modify(n)
  PROVE  Good(ui, l, m)' /\ Backend' /\ ui' = ui
  <1>1. PICK u : u = ui
    OBVIOUS
  <1>2. Good(u, l, m) /\ ui' = u
    BY <1>1 DEF Modify
  <1>3. Good(u, l, m)' /\ Backend'
    BY <1>2, ModifyGood
  <1> QED BY <1>1, <1>2, <1>3, MovedGood

-----------------------------------------------------------------------------
(* The user.                                                               *)

\* What is left when the requests are superseded and the subscription has ended.
Silenced(u, v) ==
    /\ v \in Controller
    /\ Stale(u.post, v.post) /\ Stale(u.close, v.close)
    /\ \A i \in 0..Asks : Stale(u.choice[i], v.choice[i])
    /\ v.sub = Off /\ ~v.timer /\ ~v.queued /\ v.epoch = None /\ v.candidate = None
    /\ v.retired = u.retired \cup ({u.candidate} \ {None})
    /\ v.adopted = u.adopted /\ v.session = u.session

LEMMA SilencedFields ==
  ASSUME NEW u \in Controller, NEW v, v = Disposed(StopRefresh(u))
  PROVE  /\ Silenced(u, v)
         /\ v.active = u.active /\ v.selected = u.selected /\ v.status = u.status
         /\ v.refresh = u.refresh /\ v.inventory = u.inventory
  <1>1. PICK s : s = StopRefresh(u)
    OBVIOUS
  <1>2. /\ s \in Controller /\ s.sub = Off /\ ~s.timer /\ ~s.queued /\ s.epoch = None
        /\ s.candidate = None /\ s.retired = u.retired \cup ({u.candidate} \ {None})
        /\ s.active = u.active /\ s.selected = u.selected /\ s.session = u.session
        /\ s.status = u.status /\ s.refresh = u.refresh /\ s.inventory = u.inventory
        /\ s.post = u.post /\ s.close = u.close /\ s.choice = u.choice
        /\ s.adopted = u.adopted
    BY ONLY <1>1, u \in Controller, StopRefreshFields
  <1>3. v = Disposed(s)
    BY <1>1
  <1>4. /\ v \in Controller
        /\ Stale(s.post, v.post) /\ Stale(s.close, v.close)
        /\ \A i \in 0..Asks : Stale(s.choice[i], v.choice[i])
    BY ONLY <1>2, <1>3, DisposedFields
  <1>5. /\ v.active = s.active /\ v.selected = s.selected /\ v.session = s.session
        /\ v.status = s.status /\ v.refresh = s.refresh /\ v.candidate = s.candidate
        /\ v.queued = s.queued /\ v.epoch = s.epoch /\ v.timer = s.timer
        /\ v.inventory = s.inventory /\ v.sub = s.sub /\ v.retired = s.retired
        /\ v.adopted = s.adopted
    BY ONLY <1>2, <1>3, DisposedFields
  <1> QED BY ONLY <1>2, <1>4, <1>5 DEF Silenced

LEMMA SilencedGood ==
  ASSUME NEW u, NEW v, NEW l, NEW m, Silenced(u, v),
         Calls(u), Apart(u), Kept(u), Last(u, l, m)
  PROVE  /\ Calls(v) /\ Apart(v) /\ Kept(v) /\ Last(v, l, m) /\ Seen(v)
         /\ ~Choosing(v) /\ ~v.post.current /\ ~v.close.current
         /\ ~v.sub.on /\ v.sub.frame = None
  <1>1. Calls(v)
    <2>1. PostWell(v)
      BY DEF Silenced, Calls, PostWell, Well, Granted, Stale
    <2>2. CloseWell(v)
      BY DEF Silenced, Calls, CloseWell, Well, Stale
    <2>3. ASSUME NEW i \in 0..Asks PROVE Well(v.choice[i])
      BY DEF Silenced, Calls, ChoiceWell, Well, Stale
    <2>4. v.choice[0].result \in {1, None}
      BY NoneApart DEF Silenced, Calls, ChoiceWell, Stale
    <2>5. ASSUME NEW i \in 1..Asks
          PROVE  /\ Granted(v.choice[i])
                 /\ v.choice[i].stage # "none" => i <= asked /\ v.choice[i].of \in Model
                 /\ v.choice[i].stage = "none" => v.choice[i] = NoCall
      <3>1. i \in 0..Asks
        BY NoneApart
      <3> QED BY <3>1 DEF Silenced, Calls, ChoiceWell, Granted, Stale
    <2> QED BY <2>1, <2>2, <2>3, <2>4, <2>5 DEF Calls, ChoiceWell
  <1>2. v.post.result = u.post.result /\ \A i \in 0..Asks : v.choice[i].result = u.choice[i].result
    BY DEF Silenced, Stale
  <1>3. /\ v.candidate = None /\ v.retired = u.retired \cup ({u.candidate} \ {None})
        /\ v.adopted = u.adopted /\ v.session = u.session
        /\ ~v.queued /\ v.epoch = None /\ v.sub = Off
    BY DEF Silenced
  <1>4. \A i \in 1..Asks : i \in 0..Asks
    BY NoneApart
  <1>5. Apart(v)
    <2>1. \A n : n \in 2..Len(known) => n \in 1..Len(known)
      OBVIOUS
    <2> QED BY <1>2, <1>3, <1>4, <2>1 DEF Apart
  <1>6. Kept(v)
    BY <1>2, <1>3 DEF Kept, Found
  <1>7. Last(v, l, m)
    BY <1>4 DEF Last, Silenced, Stale
  <1>8. ~Choosing(v) /\ ~v.post.current /\ ~v.close.current
    BY DEF Silenced, Stale, Choosing
  <1>9. ~v.sub.on /\ v.sub.frame = None
    BY <1>3, OffFields
  <1>10. Seen(v)
    BY <1>3, <1>9 DEF Seen
  <1> QED BY <1>1, <1>5, <1>6, <1>7, <1>8, <1>9, <1>10

\* The page is left.
LEMMA DisposedPageGood ==
  ASSUME NEW u, NEW l, NEW m, Good(u, l, m),
         NEW v, v = [Disposed(StopRefresh([u EXCEPT !.active = FALSE])) EXCEPT !.inventory = FALSE]
  PROVE  Good(v, l, m) /\ v.session = u.session
  <1>0. u \in Controller /\ Calls(u) /\ Apart(u) /\ Kept(u) /\ Focus(u, l, m) /\ Seen(u)
    BY DEF Good
  <1>1. PICK a : a = [u EXCEPT !.active = FALSE]
    OBVIOUS
  <1>2. /\ a \in Controller /\ a.selected = u.selected /\ a.session = u.session
        /\ a.status = u.status /\ a.refresh = u.refresh /\ a.candidate = u.candidate
        /\ a.post = u.post /\ a.close = u.close /\ a.choice = u.choice
        /\ a.retired = u.retired /\ a.adopted = u.adopted
    BY ONLY <1>0, <1>1 DEF Controller
  <1>3. PICK d : d = Disposed(StopRefresh(a))
    OBVIOUS
  <1>4. Silenced(a, d) /\ d.selected = a.selected /\ d.status = a.status /\ d.refresh = a.refresh
    BY ONLY <1>2, <1>3, SilencedFields
  <1>5. Calls(a) /\ Apart(a) /\ Kept(a) /\ Last(a, l, m)
    <2>1. Calls(a)
      BY ONLY <1>0, <1>2, SameCallsWell DEF SameCalls
    <2> QED BY ONLY <1>0, <1>2, <2>1 DEF Apart, Kept, Found, Last, Focus
  <1>6. Calls(d) /\ Apart(d) /\ Kept(d) /\ Last(d, l, m) /\ Seen(d)
    BY ONLY <1>4, <1>5, SilencedGood
  <1>7. /\ ~Choosing(d) /\ ~d.post.current /\ ~d.close.current
        /\ ~d.sub.on /\ d.sub.frame = None
    BY ONLY <1>4, <1>5, SilencedGood
  <1>8. d \in Controller /\ ~d.timer /\ ~d.queued /\ d.epoch = None /\ d.candidate = None
        /\ d.session = u.session
    BY ONLY <1>2, <1>4 DEF Silenced
  <1>9. v = [d EXCEPT !.inventory = FALSE]
    BY <1>1, <1>3
  <1>10. /\ v \in Controller /\ ~v.inventory
         /\ v.selected = d.selected /\ v.session = d.session
         /\ v.status = d.status /\ v.refresh = d.refresh /\ v.candidate = d.candidate
         /\ v.queued = d.queued /\ v.epoch = d.epoch /\ v.timer = d.timer
         /\ v.sub = d.sub /\ v.post = d.post /\ v.close = d.close
         /\ v.choice = d.choice /\ v.retired = d.retired /\ v.adopted = d.adopted
    BY ONLY <1>8, <1>9 DEF Controller
  <1>11. Calls(v) /\ Apart(v) /\ Kept(v)
    <2>1. Calls(v)
      BY ONLY <1>6, <1>10, SameCallsWell DEF SameCalls
    <2> QED BY ONLY <1>6, <1>10, <2>1 DEF Apart, Kept, Found
  <1>12. ~Choosing(v)
    BY ONLY <1>7, <1>10 DEF Choosing
  <1>13. Focus(v, l, m)
    <2>1. Last(v, l, m)
      BY ONLY <1>6, <1>10 DEF Last
    <2>2. Selected(v, l, m)
      <3>1. \A s : s \notin u.retired /\ s # u.candidate => s \notin v.retired
        BY ONLY <1>2, <1>4, <1>10 DEF Silenced
      <3>2. 1 # u.candidate
        BY ONLY <1>0, NoneApart DEF Apart
      <3> QED BY ONLY <1>0, <1>2, <1>4, <1>7, <1>8, <1>10, <3>1, <3>2 DEF Focus, Selected, Quiet
    <2>3. Chosen(v, l, m) /\ Closing(v)
      BY ONLY <1>7, <1>10, <1>12 DEF Chosen, Closing, Choosing
    <2>4. Replacing(v, m) /\ Ended(v)
      BY ONLY <1>0, <1>2, <1>4, <1>7, <1>8, <1>10, <1>12 DEF Focus, Replacing, Ended
    <2> QED BY ONLY <1>7, <1>10, <2>1, <2>2, <2>3, <2>4 DEF Focus
  <1>14. Seen(v)
    BY ONLY <1>6, <1>10 DEF Seen
  <1> QED BY ONLY <1>8, <1>10, <1>11, <1>13, <1>14 DEF Good

\* The session is closed: Closed.
LEMMA ClosedGood ==
  ASSUME Backend, NEW l, NEW m, Good(ui, l, m), ui.active, ui.close = NoCall, NEW v, v = Closed
  PROVE  Good(v, l, m) /\ v.selected = None
  <1>1. PICK u : u = ui
    OBVIOUS
  <1>0. u \in Controller /\ Calls(u) /\ Apart(u) /\ Kept(u) /\ Focus(u, l, m) /\ Seen(u)
    BY <1>1 DEF Good
  <1>2. PICK d : d = Disposed(StopRefresh(u))
    OBVIOUS
  <1>3. Silenced(u, d) /\ d.active = u.active /\ d.status = u.status
    BY ONLY <1>0, <1>2, SilencedFields
  <1>4. Calls(d) /\ Apart(d) /\ Kept(d) /\ Last(d, l, m) /\ Seen(d)
    BY ONLY <1>0, <1>3, SilencedGood DEF Focus
  <1>5. /\ ~Choosing(d) /\ ~d.post.current /\ ~d.close.current
        /\ ~d.sub.on /\ d.sub.frame = None
    BY ONLY <1>0, <1>3, SilencedGood DEF Focus
  <1>6. /\ d \in Controller /\ ~d.timer /\ ~d.queued /\ d.epoch = None /\ d.candidate = None
        /\ d.session = u.session /\ d.active /\ d.close = NoCall
    BY <1>1, <1>3 DEF Silenced, Stale
  <1>7. PICK c : c = IF u.session = None THEN NoCall ELSE Sent(u.session)
    OBVIOUS
  <1>8. PICK st : st = IF u.session = None THEN "idle" ELSE "closing"
    OBVIOUS
  <1>9. v = [d EXCEPT !.selected = None, !.refresh = "idle", !.inventory = FALSE,
                      !.status = st, !.close = c]
    <2>1. CASE u.session = None
      <3>1. v = [d EXCEPT !.selected = None, !.refresh = "idle", !.inventory = FALSE,
                          !.status = "idle"]
        BY <1>1, <1>2, <2>1 DEF Closed
      <3>2. c = NoCall /\ st = "idle"
        BY <1>7, <1>8, <2>1
      <3> QED BY ONLY <1>6, <3>1, <3>2 DEF Controller
    <2>2. CASE u.session # None
      <3>1. v = [d EXCEPT !.selected = None, !.refresh = "idle", !.inventory = FALSE,
                          !.status = "closing", !.close = Sent(u.session)]
        BY <1>1, <1>2, <2>2 DEF Closed
      <3>2. c = Sent(u.session) /\ st = "closing"
        BY <1>7, <1>8, <2>2
      <3> QED BY ONLY <3>1, <3>2
    <2> QED BY <2>1, <2>2
  <1>10. /\ c \in Request /\ c.result = None
         /\ u.session = None => c = NoCall /\ ~c.current /\ c.stage = "none"
         /\ u.session # None => /\ c.stage = "sent" /\ c.of = u.session
                                /\ u.session \in 1..Len(known)
    <2>1. u.session # None => u.session \in 1..Len(known)
      BY ONLY <1>0 DEF Apart
    <2>2. u.session # None => u.session \in Model \cup Nat
      BY ONLY <2>1
    <2>3. CASE u.session = None
      BY ONLY <1>7, <2>3, NoCallFields
    <2>4. CASE u.session # None
      <3>1. c = Sent(u.session) /\ u.session \in Model \cup Nat
        BY <1>7, <2>2, <2>4
      <3>2. c \in Request /\ c.result = None /\ c.stage = "sent" /\ c.of = u.session
        BY ONLY <3>1, SentFields
      <3> QED BY ONLY <2>1, <2>4, <3>2
    <2> QED BY <2>3, <2>4
  <1>11. /\ v \in Controller /\ ~v.inventory /\ v.selected = None /\ v.refresh = "idle"
         /\ v.status = st /\ v.close = c
         /\ v.active = d.active /\ v.session = d.session /\ v.candidate = d.candidate
         /\ v.queued = d.queued /\ v.epoch = d.epoch /\ v.timer = d.timer
         /\ v.sub = d.sub /\ v.post = d.post
         /\ v.choice = d.choice /\ v.retired = d.retired /\ v.adopted = d.adopted
    <2>1. v \in Controller
      <3>1. st \in {"idle", "closing"} /\ None \in NoneOr(Model)
        BY <1>8 DEF NoneOr
      <3> QED BY ONLY <1>6, <1>9, <1>10, <3>1 DEF Controller
    <2> QED BY ONLY <1>6, <1>9, <2>1 DEF Controller
  <1>12. Calls(v)
    <2>1. CloseWell(v)
      BY ONLY <1>10, <1>11 DEF CloseWell, Well
    <2> QED BY ONLY <1>4, <1>11, <2>1 DEF Calls, PostWell, ChoiceWell
  <1>13. Apart(v) /\ Kept(v)
    BY ONLY <1>4, <1>11 DEF Apart, Kept, Found
  <1>14. ~Choosing(v)
    BY ONLY <1>5, <1>11 DEF Choosing
  <1>15. Focus(v, l, m)
    <2>1. Last(v, l, m)
      BY ONLY <1>4, <1>11 DEF Last
    <2>2. Selected(v, l, m)
      <3>1. v.session # None => known[v.session].model = m
        BY ONLY <1>0, <1>6, <1>11 DEF Focus, Selected
      <3>2. st \notin {"loading", "failed"}
        BY <1>8
      <3> QED BY ONLY <1>5, <1>6, <1>11, <3>1, <3>2 DEF Selected, Quiet
    <2>3. Chosen(v, l, m)
      BY ONLY <1>14 DEF Chosen, Choosing
    <2>4. Closing(v)
      <3>1. v.close.current => u.session # None
        BY ONLY <1>10, <1>11
      <3> QED BY ONLY <1>6, <1>8, <1>10, <1>11, <3>1 DEF Closing
    <2>5. Replacing(v, m) /\ Ended(v)
      BY ONLY <1>5, <1>6, <1>11 DEF Replacing, Ended
    <2> QED BY ONLY <1>5, <1>11, <2>1, <2>2, <2>3, <2>4, <2>5 DEF Focus
  <1>16. Seen(v)
    BY ONLY <1>4, <1>5, <1>6, <1>11 DEF Seen
  <1> QED BY ONLY <1>11, <1>12, <1>13, <1>15, <1>16 DEF Good

\* The recovery is tried again.
LEMMA RecoverGood ==
  ASSUME NEW u, NEW l, NEW m, Good(u, l, m), u.status = "failed", u.selected = None, u.active,
         NEW v, v = [Disposed(u) EXCEPT !.status = "loading", !.choice[0] = Sent(1)]
  PROVE  Good(v, l, m) /\ u.session = None
  <1>1. PICK d : d = Disposed(u)
    OBVIOUS
  <1>2. Good(d, l, m) /\ ~d.post.current /\ ~d.close.current /\ ~Choosing(d)
    BY ONLY <1>1, Good(u, l, m), DisposedGood
  <1>3. d.status = "failed" /\ d.selected = None /\ d.active /\ d.session = u.session
    <2>1. u \in Controller
      BY DEF Good
    <2>2. d.status = u.status /\ d.selected = u.selected /\ d.active = u.active
          /\ d.session = u.session
      BY ONLY <1>1, <2>1, DisposedFields
    <2> QED BY <2>2
  <1>0. d \in Controller /\ Calls(d) /\ Apart(d) /\ Kept(d) /\ Focus(d, l, m) /\ Seen(d)
    BY ONLY <1>2 DEF Good
  <1>4. l = 0 /\ d.session = None /\ 1 \notin d.retired /\ Quiet(d)
    BY ONLY <1>0, <1>3 DEF Focus, Selected
  <1>5. PICK c : c = Sent(1)
    OBVIOUS
  <1>6. c \in Request /\ c.stage = "sent" /\ c.result = None
    <2>1. 1 \in Model \cup Nat
      OBVIOUS
    <2> QED BY ONLY <1>5, <2>1, SentFields
  <1>7. PICK h : h = [d.choice EXCEPT ![0] = c]
    OBVIOUS
  <1>8. /\ h \in [0..Asks -> Request] /\ h[0] = c
        /\ \A j \in 0..Asks : j # 0 => h[j] = d.choice[j]
        /\ 0 \in 0..Asks
    <2>1. 0 \in 0..Asks
      BY NoneApart
    <2> QED BY ONLY <1>0, <1>6, <1>7, <2>1, ControllerFields
  <1>9. v = [d EXCEPT !.status = "loading", !.choice = h]
    BY <1>0, <1>1, <1>5, <1>7 DEF Controller
  <1>10. /\ v \in Controller /\ v.status = "loading" /\ v.choice = h
         /\ v.active = d.active /\ v.selected = d.selected /\ v.session = d.session
         /\ v.refresh = d.refresh /\ v.candidate = d.candidate
         /\ v.queued = d.queued /\ v.epoch = d.epoch /\ v.timer = d.timer
         /\ v.inventory = d.inventory /\ v.sub = d.sub /\ v.post = d.post /\ v.close = d.close
         /\ v.retired = d.retired /\ v.adopted = d.adopted
    <2>1. v \in Controller
      BY ONLY <1>0, <1>8, <1>9 DEF Controller
    <2> QED BY ONLY <1>0, <1>9, <2>1 DEF Controller
  <1>11. \A j \in 1..Asks : j \in 0..Asks /\ j # 0
    BY NoneApart
  <1>12. \A j \in 1..Asks : v.choice[j] = d.choice[j]
    BY ONLY <1>8, <1>10, <1>11
  <1>13. Calls(v)
    <2>1. ASSUME NEW j \in 0..Asks PROVE Well(v.choice[j])
      BY ONLY <1>0, <1>6, <1>8, <1>10, j \in 0..Asks DEF Calls, ChoiceWell, Well
    <2>2. v.choice[0].result \in {1, None}
      BY ONLY <1>6, <1>8, <1>10
    <2>3. ChoiceWell(v)
      BY ONLY <1>0, <1>12, <2>1, <2>2 DEF Calls, ChoiceWell
    <2> QED BY ONLY <1>0, <1>10, <2>3 DEF Calls, PostWell, CloseWell
  <1>14. Apart(v)
    BY ONLY <1>0, <1>10, <1>12 DEF Apart
  <1>15. Kept(v)
    <2>1. ASSUME NEW t \in 1..Len(known) PROVE Found(v, t)
      <3>1. t # None /\ Found(d, t)
        BY <1>0, NoneApart DEF Kept
      <3>2. d.choice[0].result \in {1, None} /\ 1 \in d.adopted
        BY ONLY <1>0 DEF Calls, ChoiceWell, Kept
      <3>3. CASE t = 1
        BY ONLY <1>10, <3>2, <3>3 DEF Found
      <3>4. CASE t # 1
        BY ONLY <1>8, <1>10, <3>1, <3>2, <3>4 DEF Found
      <3> QED BY <3>3, <3>4
    <2> QED BY ONLY <1>0, <1>10, <2>1 DEF Kept
  <1>16. Focus(v, l, m)
    <2>1. Last(v, l, m)
      BY ONLY <1>0, <1>4, <1>6, <1>8, <1>10, <1>12 DEF Focus, Last
    <2>2. Selected(v, l, m)
      BY ONLY <1>0, <1>4, <1>10 DEF Focus, Selected, Quiet
    <2>3. ASSUME NEW i \in 0..Asks, v.choice[i].current PROVE i = 0
      BY ONLY <1>2, <1>8, <1>10, <2>3, i \in 0..Asks DEF Choosing
    <2>4. Chosen(v, l, m)
      <3>1. ASSUME NEW i \in 0..Asks, v.choice[i].current
            PROVE  i = l /\ v.selected = IF i = 0 THEN None ELSE m
        <4>1. i = 0
          BY <2>3, <3>1
        <4> QED BY ONLY <1>3, <1>4, <1>10, <4>1
      <3> QED BY ONLY <1>2, <1>4, <1>10, <3>1 DEF Chosen, Quiet
    <2>5. Closing(v)
      BY ONLY <1>2, <1>10 DEF Closing
    <2>6. Replacing(v, m) /\ Ended(v)
      BY ONLY <1>0, <1>3, <1>10 DEF Focus, Replacing, Ended
    <2> QED BY ONLY <1>0, <1>10, <2>1, <2>2, <2>4, <2>5, <2>6 DEF Focus
  <1>17. Seen(v)
    BY ONLY <1>4, <1>0, <1>10 DEF Seen
  <1> QED BY ONLY <1>3, <1>4, <1>10, <1>13, <1>14, <1>15, <1>16, <1>17 DEF Good

LEMMA RetryRefreshGood ==
  ASSUME NEW u, NEW l, NEW m, Good(u, l, m), u.refresh = "waiting",
         NEW v, v = Refreshed([u EXCEPT !.retries = 0, !.invalid = None, !.timer = FALSE])
  PROVE  Good(v, l, m) /\ u.session = None
  <1>0. u \in Controller /\ Focus(u, l, m)
    BY DEF Good
  <1>1. PICK x : x = [u EXCEPT !.retries = 0, !.invalid = None, !.timer = FALSE]
    OBVIOUS
  <1>2. /\ x \in Controller /\ ~x.timer
        /\ x.active = u.active /\ x.selected = u.selected /\ x.session = u.session
        /\ x.status = u.status /\ x.refresh = u.refresh /\ x.candidate = u.candidate
        /\ x.queued = u.queued /\ x.epoch = u.epoch /\ x.inventory = u.inventory
        /\ x.sub = u.sub /\ x.post = u.post /\ x.close = u.close
        /\ x.choice = u.choice /\ x.retired = u.retired /\ x.adopted = u.adopted
    <2>1. 0 \in 0..Retries /\ None \in NoneOr(Nat)
      BY NoneApart DEF NoneOr
    <2>2. x \in Controller
      BY ONLY <1>0, <1>1, <2>1 DEF Controller
    <2> QED BY ONLY <1>0, <1>1, <2>2 DEF Controller
  <1>3. u.session = None /\ ~Choosing(u)
    BY <1>0 DEF Focus, Replacing, Chosen, Quiet
  <1>4. Good(x, l, m) /\ (Choosing(x) <=> Choosing(u))
    BY ONLY Good(u, l, m), <1>2, MinorGood
  <1>5. Replaceable(x) /\ ~Choosing(x) /\ v = Refreshed(x)
    BY <1>1, <1>2, <1>3, <1>4 DEF Replaceable
  <1>6. Good(v, l, m)
    BY ONLY <1>4, <1>5, RefreshedGood
  <1> QED BY <1>3, <1>6

LEMMA ExploreGood ==
  ASSUME NEW u, NEW l, NEW m, Good(u, l, m), u.session # None, u.status = "ready",
         NEW v, v = [u EXCEPT !.inventory = TRUE]
  PROVE  Good(v, l, m) /\ v.session = u.session
  <1>0. u \in Controller /\ Calls(u) /\ Apart(u) /\ Kept(u) /\ Focus(u, l, m) /\ Seen(u)
    BY DEF Good
  <1>1. /\ v \in Controller
        /\ v.active = u.active /\ v.selected = u.selected /\ v.session = u.session
        /\ v.status = u.status /\ v.refresh = u.refresh /\ v.candidate = u.candidate
        /\ v.queued = u.queued /\ v.epoch = u.epoch /\ v.timer = u.timer
        /\ v.sub = u.sub /\ v.post = u.post /\ v.close = u.close
        /\ v.choice = u.choice /\ v.retired = u.retired /\ v.adopted = u.adopted
    BY ONLY <1>0, v = [u EXCEPT !.inventory = TRUE] DEF Controller
  <1>2. Calls(v) /\ Apart(v) /\ Kept(v)
    <2>1. Calls(v)
      BY ONLY <1>0, <1>1, SameCallsWell DEF SameCalls
    <2> QED BY ONLY <1>0, <1>1, <2>1 DEF Apart, Kept, Found
  <1>3. Choosing(v) <=> Choosing(u)
    BY ONLY <1>1 DEF Choosing
  <1>4. Focus(v, l, m)
    <2>1. Last(v, l, m)
      BY ONLY <1>0, <1>1 DEF Focus, Last
    <2>2. Selected(v, l, m)
      BY ONLY <1>0, <1>1 DEF Focus, Selected, Quiet
    <2>3. Chosen(v, l, m)
      BY ONLY <1>0, <1>1, <1>3 DEF Focus, Chosen, Quiet
    <2>4. Closing(v)
      BY <1>0, <1>1 DEF Focus, Closing
    <2>5. Replacing(v, m) /\ Ended(v)
      BY ONLY <1>0, <1>1, <1>3 DEF Focus, Replacing, Ended
    <2> QED BY <1>0, <1>1, <2>1, <2>2, <2>3, <2>4, <2>5 DEF Focus
  <1>5. Seen(v)
    BY ONLY <1>0, <1>1 DEF Seen
  <1> QED BY ONLY <1>1, <1>2, <1>4, <1>5 DEF Good

\* Another model is chosen, by the user's request i.
Choice(u, i, n) ==
    [Disposed(StopRefresh([u EXCEPT !.selected = n]))
      EXCEPT !.session = None, !.status = "loading", !.refresh = "idle",
             !.inventory = FALSE, !.choice[i] = Sent(n)]
ChoiceKeeps ==
  \A u, l, m, i, n, v :
     /\ Good(u, l, m) /\ u.active /\ i \in 1..Asks /\ i <= asked /\ n \in Model
     /\ \A j \in 1..Asks : j >= i => u.choice[j].stage = "none"
     /\ v = Choice(u, i, n)
     => Good(v, i, n)

LEMMA ChoiceGood == ChoiceKeeps
  <1> SUFFICES ASSUME NEW u, NEW l, NEW m, NEW i, NEW n, NEW v,
                      /\ Good(u, l, m) /\ u.active /\ i \in 1..Asks /\ i <= asked /\ n \in Model
                      /\ \A j \in 1..Asks : j >= i => u.choice[j].stage = "none"
                      /\ v = Choice(u, i, n)
               PROVE  Good(v, i, n)
    BY Zenon DEF ChoiceKeeps
  <1>0. u \in Controller /\ Calls(u) /\ Apart(u) /\ Kept(u) /\ Focus(u, l, m) /\ Seen(u)
    BY DEF Good
  <1>1. u.active /\ i \in 1..Asks /\ i <= asked /\ n \in Model
        /\ \A j \in 1..Asks : j >= i => u.choice[j].stage = "none"
    OBVIOUS
  <1>2. PICK a : a = [u EXCEPT !.selected = n]
    OBVIOUS
  <1>3. /\ a \in Controller /\ a.active = u.active /\ a.session = u.session
        /\ a.candidate = u.candidate
        /\ a.post = u.post /\ a.close = u.close /\ a.choice = u.choice
        /\ a.retired = u.retired /\ a.adopted = u.adopted /\ a.selected = n
    <2>1. n \in NoneOr(Model)
      BY <1>1 DEF NoneOr
    <2>2. a \in Controller
      BY ONLY <1>0, <1>2, <2>1 DEF Controller
    <2> QED BY ONLY <1>0, <1>2, <2>2 DEF Controller
  <1>4. Calls(a) /\ Apart(a) /\ Kept(a) /\ Last(a, l, m)
    <2>1. Calls(a)
      BY ONLY <1>0, <1>3, SameCallsWell DEF SameCalls
    <2> QED BY ONLY <1>0, <1>3, <2>1 DEF Apart, Kept, Found, Last, Focus
  <1>5. PICK d : d = Disposed(StopRefresh(a))
    OBVIOUS
  <1>6. Silenced(a, d) /\ d.selected = a.selected /\ d.active = a.active
    BY ONLY <1>3, <1>5, SilencedFields
  <1>7. Calls(d) /\ Apart(d) /\ Kept(d) /\ Last(d, l, m)
    BY ONLY <1>4, <1>6, SilencedGood
  <1>8. /\ ~Choosing(d) /\ ~d.post.current /\ ~d.close.current
        /\ ~d.sub.on /\ d.sub.frame = None
    BY ONLY <1>4, <1>6, SilencedGood
  <1>9. /\ d \in Controller /\ ~d.timer /\ ~d.queued /\ d.epoch = None /\ d.candidate = None
        /\ d.active /\ d.selected = n
        /\ \A j \in 0..Asks : d.choice[j].stage = u.choice[j].stage
    BY ONLY <1>1, <1>3, <1>6 DEF Silenced, Stale
  <1>10. PICK c : c = Sent(n)
    OBVIOUS
  <1>11. c \in Request /\ c.stage = "sent" /\ c.of = n /\ c.result = None
    <2>1. n \in Model \cup Nat
      BY <1>1
    <2> QED BY ONLY <1>10, <2>1, SentFields
  <1>12. PICK h : h = [d.choice EXCEPT ![i] = c]
    OBVIOUS
  <1>13. i \in 0..Asks /\ i # 0 /\ \A j \in 1..Asks : j \in 0..Asks
    BY <1>1, NoneApart
  <1>14. /\ h \in [0..Asks -> Request] /\ h[i] = c
         /\ \A j \in 0..Asks : j # i => h[j] = d.choice[j]
    BY ONLY <1>9, <1>11, <1>12, <1>13, ControllerFields
  <1>15. v = [d EXCEPT !.session = None, !.status = "loading", !.refresh = "idle",
                       !.inventory = FALSE, !.choice = h]
    BY ONLY v = Choice(u, i, n), <1>2, <1>5, <1>9, <1>10, <1>12 DEF Choice, Controller
  <1>16. /\ v \in Controller /\ v.session = None /\ v.status = "loading" /\ v.refresh = "idle"
         /\ ~v.inventory /\ v.choice = h
         /\ v.active = d.active /\ v.selected = d.selected /\ v.candidate = d.candidate
         /\ v.queued = d.queued /\ v.epoch = d.epoch /\ v.timer = d.timer
         /\ v.sub = d.sub /\ v.post = d.post /\ v.close = d.close
         /\ v.retired = d.retired /\ v.adopted = d.adopted
    <2>1. None \in NoneOr(Nat)
      BY DEF NoneOr
    <2>2. v \in Controller
      BY ONLY <1>9, <1>14, <1>15, <2>1 DEF Controller
    <2> QED BY ONLY <1>9, <1>15, <2>2 DEF Controller
  <1>17. d.choice[i].result = None
    <2>1. d.choice[i].stage = "none"
      BY <1>1, <1>9, <1>13
    <2> QED BY ONLY <1>7, <1>13, <2>1 DEF Calls, ChoiceWell, Well
  <1>18. Calls(v)
    <2>1. ASSUME NEW j \in 0..Asks PROVE Well(v.choice[j])
      BY ONLY <1>7, <1>11, <1>14, <1>16, j \in 0..Asks DEF Calls, ChoiceWell, Well
    <2>2. v.choice[0].result \in {1, None}
      <3>1. 0 \in 0..Asks
        BY NoneApart
      <3> QED BY ONLY <1>7, <1>13, <1>14, <1>16, <3>1 DEF Calls, ChoiceWell
    <2>3. ASSUME NEW j \in 1..Asks
          PROVE  /\ Granted(v.choice[j])
                 /\ v.choice[j].stage # "none" => j <= asked /\ v.choice[j].of \in Model
                 /\ v.choice[j].stage = "none" => v.choice[j] = NoCall
      <3>1. CASE j = i
        BY ONLY <1>1, <1>11, <1>14, <1>16, <3>1 DEF Granted
      <3>2. CASE j # i
        BY ONLY <1>7, <1>13, <1>14, <1>16, <3>2, j \in 1..Asks DEF Calls, ChoiceWell
      <3> QED BY <3>1, <3>2
    <2>4. ChoiceWell(v)
      BY ONLY <2>1, <2>2, <2>3 DEF ChoiceWell
    <2> QED BY ONLY <1>7, <1>16, <2>4 DEF Calls, PostWell, CloseWell
  <1>19. \A j \in 0..Asks : v.choice[j].result = d.choice[j].result
    BY ONLY <1>11, <1>14, <1>16, <1>17
  <1>20. Apart(v)
    BY ONLY <1>7, <1>9, <1>13, <1>16, <1>19, NoneApart DEF Apart
  <1>21. Kept(v)
    BY ONLY <1>7, <1>16, <1>19 DEF Kept, Found
  <1>22. Focus(v, i, n)
    <2>1. Last(v, i, n)
      <3>1. ASSUME NEW j \in 1..Asks, j > i PROVE v.choice[j].stage = "none"
        <4>1. u.choice[j].stage = "none" /\ j # i
          BY <1>1, <3>1
        <4> QED BY ONLY <1>9, <1>13, <1>14, <1>16, <4>1, j \in 1..Asks
      <3> QED BY ONLY <1>1, <1>11, <1>13, <1>14, <1>16, <3>1 DEF Last
    <2>2. Selected(v, i, n)
      BY ONLY <1>1, <1>9, <1>16, NoneApart DEF Selected
    <2>3. \A j \in 0..Asks : v.choice[j].current => j = i
      BY ONLY <1>8, <1>14, <1>16 DEF Choosing
    <2>4. Chosen(v, i, n)
      BY ONLY <1>8, <1>9, <1>13, <1>16, <2>3 DEF Chosen, Quiet
    <2>5. Closing(v)
      BY ONLY <1>8, <1>16 DEF Closing
    <2>6. Replacing(v, n) /\ Ended(v)
      BY ONLY <1>8, <1>9, <1>16 DEF Replacing, Ended
    <2> QED BY ONLY <1>8, <1>16, <2>1, <2>2, <2>4, <2>5, <2>6 DEF Focus
  <1>23. Seen(v)
    BY ONLY <1>8, <1>9, <1>16 DEF Seen
  <1> QED BY ONLY <1>16, <1>18, <1>20, <1>21, <1>22, <1>23 DEF Good

LEMMA ChoiceNext == ChoiceKeeps'
  BY ChoiceGood, PTL

LEMMA AskedGood ==
  ASSUME Backend, NEW v, NEW l, NEW m, Good(v, l, m), ui' = v,
         asked < Asks, asked' = asked + 1, excused' \in BOOLEAN,
         UNCHANGED <<backendVars, faults>>
  PROVE  Good(ui, l, m)' /\ Backend'
  <1>1. faults \in 0..Faults /\ faults' = faults /\ UNCHANGED <<revision, changes, epoch, known>>
    BY DEF backendVars, Backend
  <1>2. asked \in Nat /\ asked' \in Nat /\ asked <= asked' /\ asked' \in 0..Asks
    BY NoneApart DEF Backend
  <1>3. Good(v, l, m)'
    BY <1>1, <1>2, TurnGood
  <1>4. faults <= faults
    BY <1>1
  <1>5. Backend'
    BY <1>1, <1>2, <1>4, SameBackend
  <1> QED BY <1>3, <1>5, MovedGood

\* What the user does keeps what is shown, but for a choice and for leaving it.
LEMMA AskGood ==
  ASSUME Backend, NEW l, NEW m, Good(ui, l, m), Ask
  PROVE  /\ \E k \in 0..Asks, n \in Model : Good(ui, k, n)'
         /\ Backend'
         /\ \/ ui.session = None \/ ui'.session = ui.session
            \/ ui'.selected = None \/ ui'.choice # ui.choice
  <1>0. ui \in Controller /\ Calls(ui) /\ Focus(ui, l, m) /\ l \in 0..Asks /\ m \in Model
    BY DEF Good, Focus, Last
  <1>1. ui.active /\ asked < Asks /\ asked' = asked + 1 /\ UNCHANGED <<backendVars, faults>>
    BY DEF Ask
  <1>2. excused' \in BOOLEAN
    BY DEF Ask, Choose, CloseSession, RetryRefresh, Recover, Explore, SwitchExplorer,
           DisposePage, Backend
  <1>3. ASSUME NEW v, ui' = v, Good(v, l, m)
        PROVE  (\E k \in 0..Asks, n \in Model : Good(ui, k, n)') /\ Backend'
    <2>1. Good(ui, l, m)' /\ Backend'
      BY ONLY Backend, <1>1, <1>2, <1>3, AskedGood
    <2> QED BY ONLY <1>0, <2>1
  <1>4. CASE \E n \in Model : Choose(n)
    <2>1. PICK n \in Model : Choose(n)
      BY <1>4
    <2>2. PICK i : i = asked + 1
      OBVIOUS
    <2>3. PICK u : u = ui
      OBVIOUS
    <2>4. PICK v : v = Choice(u, i, n)
      OBVIOUS
    <2>5. ui' = v
      BY <2>1, <2>2, <2>3, <2>4 DEF Choose, Choice
    <2>6. i \in 1..Asks /\ i <= asked' /\ asked \in Nat /\ asked' \in Nat /\ asked <= asked'
          /\ asked' \in 0..Asks
      BY <1>1, <2>2, NoneApart DEF Backend
    <2>7. \A j \in 1..Asks : j >= i => u.choice[j].stage = "none"
      <3>1. ASSUME NEW j \in 1..Asks, j >= i PROVE u.choice[j].stage = "none"
        <4>1. ~(j <= asked)
          BY <2>2, <2>6, <3>1
        <4> QED BY ONLY <1>0, <2>3, <4>1, j \in 1..Asks DEF Calls, ChoiceWell
      <3> QED BY <3>1
    <2>8. UNCHANGED <<revision, changes, epoch, known>>
      BY <1>1 DEF backendVars
    <2>9. Good(u, l, m)'
      <3>1. Good(u, l, m)
        BY <2>3
      <3> QED BY ONLY <2>6, <2>8, <3>1, TurnGood
    <2>10. u.active /\ n \in Model
      BY <1>1, <2>3
    <2>11. (/\ Good(u, l, m) /\ u.active /\ i \in 1..Asks /\ i <= asked /\ n \in Model
            /\ \A j \in 1..Asks : j >= i => u.choice[j].stage = "none"
            /\ v = Choice(u, i, n)
            => Good(v, i, n))'
      BY ONLY ChoiceNext DEF ChoiceKeeps
    <2>12. Good(v, i, n)'
      BY ONLY <2>4, <2>6, <2>7, <2>9, <2>10, <2>11
    <2>13. Good(ui, i, n)'
      BY ONLY <2>5, <2>12, MovedGood
    <2>14. Backend'
      <3>1. faults \in 0..Faults /\ faults' = faults /\ faults <= faults
        BY <1>1, NoneApart DEF Backend
      <3> QED BY ONLY Backend, <1>2, <2>6, <2>8, <3>1, SameBackend
    <2>15. ui'.choice # ui.choice
      <3>1. ui'.choice[i].stage # "none"
        BY ONLY <2>13 DEF Good, Focus, Last
      <3>2. ui.choice[i].stage = "none"
        BY <2>3, <2>6, <2>7
      <3> QED BY ONLY <3>1, <3>2
    <2>16. i \in 0..Asks /\ n \in Model
      BY <2>6, NoneApart
    <2> QED BY ONLY <2>13, <2>14, <2>15, <2>16
  <1>5. CASE CloseSession
    <2>1. PICK v : v = Closed
      OBVIOUS
    <2>2. ui.close = NoCall /\ ui' = v
      BY <1>5, <2>1 DEF CloseSession
    <2>3. Good(v, l, m) /\ v.selected = None
      BY <1>1, <2>1, <2>2, ClosedGood
    <2> QED BY ONLY <1>3, <2>2, <2>3
  <1>6. CASE RetryRefresh
    <2>1. PICK v : v = Refreshed([ui EXCEPT !.retries = 0, !.invalid = None, !.timer = FALSE])
      OBVIOUS
    <2>2. ui' = v /\ ui.refresh = "waiting"
      BY <1>6, <2>1 DEF RetryRefresh
    <2>3. Good(v, l, m) /\ ui.session = None
      BY <2>1, <2>2, RetryRefreshGood
    <2> QED BY ONLY <1>3, <2>2, <2>3
  <1>7. CASE Recover
    <2>1. PICK v : v = [Disposed(ui) EXCEPT !.status = "loading", !.choice[0] = Sent(1)]
      OBVIOUS
    <2>2. ui' = v /\ ui.status = "failed" /\ ui.selected = None
      BY <1>7, <2>1 DEF Recover
    <2>3. Good(v, l, m) /\ ui.session = None
      BY <1>1, <2>1, <2>2, RecoverGood
    <2> QED BY ONLY <1>3, <2>2, <2>3
  <1>8. CASE Explore
    <2>1. PICK v : v = [ui EXCEPT !.inventory = TRUE]
      OBVIOUS
    <2>2. ui' = v /\ ui.session # None /\ ui.status = "ready"
      BY <1>8, <2>1 DEF Explore
    <2>3. Good(v, l, m) /\ v.session = ui.session
      BY <2>1, <2>2, ExploreGood
    <2> QED BY ONLY <1>3, <2>2, <2>3
  <1>9. CASE SwitchExplorer
    <2>1. PICK v : v = [ui EXCEPT !.timer = FALSE]
      OBVIOUS
    <2>2. ui' = v /\ ui.timer
      BY <1>9, <2>1 DEF SwitchExplorer
    <2>3. Good(v, l, m) /\ ui.session = None
      BY <2>1, <2>2, TimerOffGood
    <2> QED BY ONLY <1>3, <2>2, <2>3
  <1>10. CASE DisposePage
    <2>1. PICK v : v = [Disposed(StopRefresh([ui EXCEPT !.active = FALSE]))
                          EXCEPT !.inventory = FALSE]
      OBVIOUS
    <2>2. ui' = v
      BY <1>10, <2>1 DEF DisposePage
    <2>3. Good(v, l, m) /\ v.session = ui.session
      BY <2>1, DisposedPageGood
    <2> QED BY ONLY <1>3, <2>2, <2>3
  <1> QED BY <1>4, <1>5, <1>6, <1>7, <1>8, <1>9, <1>10 DEF Ask

-----------------------------------------------------------------------------
(* The invariant, and what it is for.                                      *)

LEMMA InitGood == Init => IInv
  <1> SUFFICES ASSUME Init PROVE IInv
    OBVIOUS
  <1>1. PICK m \in Model, e \in {0, None} :
          known = <<[model |-> m, revision |-> 0, epoch |-> e]>>
    BY DEF Init
  <1>2. known[1] = [model |-> m, revision |-> 0, epoch |-> e] /\ Len(known) = 1
    BY <1>1
  <1>3. known[1].model = m /\ known[1].revision = 0 /\ known[1].epoch \in {0, None}
    BY <1>2
  <1>4. Backend
    <2>1. [model |-> m, revision |-> 0, epoch |-> e] \in Known
      BY NoneApart DEF Known, NoneOr
    <2>2. known \in Seq(Known)
      BY <1>1, <2>1
    <2>3. 0 \notin Gone
      BY NoneApart
    <2>4. \A s \in 1..Len(known) :
            /\ known[s].revision <= revision[known[s].model] /\ known[s].revision \notin Gone
            /\ known[s].epoch # None => known[s].epoch <= epoch
      <3>1. ASSUME NEW s \in 1..Len(known) PROVE s = 1
        BY <1>2
      <3>2. revision[m] = 0 /\ epoch = 0
        BY DEF Init
      <3>3. known[1].epoch # None => known[1].epoch <= epoch
        BY <1>3, <3>2
      <3> QED BY <1>3, <2>3, <3>1, <3>2, <3>3
    <2>5. /\ revision \in [Model -> 0..Revisions] /\ changes \in 0..Revisions
          /\ \A k \in Model : revision[k] <= changes
          /\ faults \in 0..Faults /\ asked \in 0..Asks /\ excused \in BOOLEAN
          /\ epoch \in Nat /\ epoch <= faults
      <3>1. revision = [k \in Model |-> 0] /\ changes = 0 /\ epoch = 0 /\ faults = 0
            /\ asked = 0 /\ excused = FALSE
        BY DEF Init
      <3>2. 0 \in 0..Revisions /\ 0 \in 0..Faults /\ 0 \in 0..Asks
        BY NoneApart
      <3>3. revision \in [Model -> 0..Revisions] /\ \A k \in Model : revision[k] = 0
        BY ONLY <3>1, <3>2
      <3>4. \A k \in Model : revision[k] <= changes
        <4>1. changes = 0
          BY ONLY <3>1
        <4>2. ASSUME NEW k \in Model PROVE revision[k] = changes /\ changes \in Nat
          BY ONLY <3>3, <4>1, k \in Model
        <4>3. ASSUME NEW a, NEW b, a = b, b \in Nat PROVE a <= b
          BY ONLY <4>3
        <4> QED BY ONLY <4>2, <4>3
      <3>5. /\ changes \in 0..Revisions /\ faults \in 0..Faults /\ asked \in 0..Asks
            /\ epoch \in Nat /\ epoch <= faults
        BY ONLY <3>1, <3>2
      <3>6. excused \in BOOLEAN
        BY ONLY <3>1
      <3> QED BY ONLY <3>3, <3>4, <3>5, <3>6
    <2> QED BY <1>2, <2>2, <2>4, <2>5 DEF Backend
  <1>5. PICK h : h = [i \in 0..Asks |-> IF i = 0 THEN Sent(1) ELSE NoCall]
    OBVIOUS
  <1>6. 0 \in 0..Asks /\ \A i \in 1..Asks : i \in 0..Asks /\ i # 0
    BY NoneApart
  <1>7. /\ Sent(1) \in Request /\ Sent(1).stage = "sent" /\ Sent(1).of = 1
        /\ Sent(1).current /\ Sent(1).result = None
    <2>1. 1 \in Model \cup Nat
      OBVIOUS
    <2> QED BY ONLY <2>1, SentFields
  <1>8. /\ h \in [0..Asks -> Request] /\ h[0] = Sent(1)
        /\ \A i \in 0..Asks : i # 0 => h[i] = NoCall
    BY ONLY <1>5, <1>6, <1>7, NoCallFields
  <1>9. ui = [active |-> TRUE, selected |-> None, session |-> None, status |-> "loading",
              refresh |-> "idle", candidate |-> None, queued |-> FALSE,
              latest |-> None, epoch |-> None, invalid |-> None, retries |-> 0,
              timer |-> FALSE, inventory |-> FALSE, sub |-> Off,
              post |-> NoCall, close |-> NoCall, choice |-> h,
              retired |-> {}, adopted |-> {1}]
    BY <1>5 DEF Init
  <1>10. /\ ui.active /\ ui.selected = None /\ ui.session = None /\ ui.status = "loading"
         /\ ui.refresh = "idle" /\ ui.candidate = None /\ ~ui.queued /\ ui.epoch = None
         /\ ~ui.timer /\ ~ui.inventory /\ ui.sub = Off /\ ui.post = NoCall
         /\ ui.close = NoCall /\ ui.choice = h /\ ui.retired = {} /\ ui.adopted = {1}
    BY ONLY <1>9
  <1>11. ui \in Controller
    <2>1. None \in NoneOr(Model) /\ None \in NoneOr(Nat) /\ 0 \in 0..Retries
      BY NoneApart DEF NoneOr
    <2> QED BY ONLY <1>8, <1>9, <2>1, OffFields, NoCallFields DEF Controller
  <1>12. \A i \in 1..Asks : ui.choice[i] = NoCall
    BY ONLY <1>6, <1>8, <1>10
  <1>13. Calls(ui)
    <2>1. PostWell(ui) /\ CloseWell(ui)
      BY ONLY <1>10, NoCallFields DEF PostWell, CloseWell, Well, Granted
    <2>2. ASSUME NEW i \in 0..Asks PROVE Well(ui.choice[i])
      BY ONLY <1>7, <1>8, <1>10, i \in 0..Asks, NoCallFields DEF Well
    <2>3. ui.choice[0].result \in {1, None}
      BY ONLY <1>7, <1>8, <1>10
    <2>4. ASSUME NEW i \in 1..Asks
          PROVE  /\ Granted(ui.choice[i])
                 /\ ui.choice[i].stage # "none" => i <= asked /\ ui.choice[i].of \in Model
                 /\ ui.choice[i].stage = "none" => ui.choice[i] = NoCall
      BY ONLY <1>12, i \in 1..Asks, NoCallFields DEF Granted
    <2> QED BY ONLY <2>1, <2>2, <2>3, <2>4 DEF Calls, ChoiceWell
  <1>14. Apart(ui)
    BY ONLY <1>10, <1>12, NoCallFields DEF Apart
  <1>15. Kept(ui)
    <2>1. ASSUME NEW s \in 1..Len(known) PROVE s \in ui.adopted
      BY <1>2, <1>10
    <2> QED BY ONLY <1>10, <2>1 DEF Kept, Found
  <1>16. Focus(ui, 0, m)
    <2>1. Last(ui, 0, m)
      BY ONLY <1>3, <1>6, <1>7, <1>8, <1>10, <1>12, NoCallFields, m \in Model DEF Last
    <2>2. Quiet(ui) /\ ~ui.close.current
      BY ONLY <1>10, OffFields, NoCallFields DEF Quiet
    <2>3. Selected(ui, 0, m)
      BY ONLY <1>10, <2>2 DEF Selected
    <2>4. Chosen(ui, 0, m)
      <3>1. ASSUME NEW i \in 0..Asks, ui.choice[i].current PROVE i = 0
        BY ONLY <1>8, <1>10, <3>1, i \in 0..Asks, NoCallFields
      <3> QED BY ONLY <1>10, <2>2, <3>1 DEF Chosen
    <2>5. Closing(ui) /\ Replacing(ui, m) /\ Ended(ui)
      BY ONLY <1>10, <2>2, NoCallFields DEF Closing, Replacing, Ended
    <2> QED BY ONLY <1>10, <2>1, <2>3, <2>4, <2>5, OffFields DEF Focus
  <1>17. Seen(ui)
    BY ONLY <1>10, OffFields DEF Seen
  <1>18. Good(ui, 0, m)
    BY ONLY <1>11, <1>13, <1>14, <1>15, <1>16, <1>17 DEF Good
  <1> QED BY ONLY <1>4, <1>6, <1>18, m \in Model DEF IInv

\* What a step may do to what is shown.
Keeping ==
    \/ ui.session = None \/ ui'.session = ui.session \/ ~Unchanged(ui.session)
    \/ ui'.selected = None \/ ui'.choice # ui.choice

LEMMA StepGood ==
  ASSUME IInv, Next
  PROVE  IInv' /\ Keeping
  <1>1. PICK l \in 0..Asks, m \in Model : Good(ui, l, m)
    BY DEF IInv
  <1>2. Backend
    BY DEF IInv
  <1>3. ASSUME Good(ui, l, m)', Backend' PROVE IInv'
    BY ONLY <1>3, l \in 0..Asks, m \in Model DEF IInv
  <1>4. CASE SendEvent \/ ReceiveEvent \/ AnswerPost \/ AnswerChoice \/ AnswerClose \/ Loaded
             \/ RetryTimer
    <2>1. Good(ui, l, m)' /\ Backend' /\ (Stays(ui, ui') \/ ui'.selected = None)
      BY ONLY <1>1, <1>2, <1>4, ArrivalGood
    <2> QED BY <1>3, <2>1 DEF Keeping, Stays
  <1>5. CASE ServePost
    <2>1. Good(ui, l, m)' /\ Backend' /\ ui'.session = ui.session
      BY ONLY <1>1, <1>2, <1>5, ServePostGood
    <2> QED BY <1>3, <2>1 DEF Keeping
  <1>6. CASE ServeChoice
    <2>1. Good(ui, l, m)' /\ Backend' /\ ui'.session = ui.session
      BY ONLY <1>1, <1>2, <1>6, ServeChoiceGood
    <2> QED BY <1>3, <2>1 DEF Keeping
  <1>7. CASE ServeRecover
    <2>1. Good(ui, l, m)' /\ Backend' /\ ui'.session = ui.session
      BY ONLY <1>1, <1>2, <1>7, ServeRecoverGood
    <2> QED BY <1>3, <2>1 DEF Keeping
  <1>8. CASE ServeClose
    <2>1. Good(ui, l, m)' /\ Backend' /\ ui'.session = ui.session
      BY ONLY <1>1, <1>2, <1>8, ServeCloseGood
    <2> QED BY <1>3, <2>1 DEF Keeping
  <1>9. CASE Fail
    <2>1. Good(ui, l, m)' /\ Backend' /\ ui'.session = ui.session
      BY ONLY <1>1, <1>2, <1>9, FailGood
    <2> QED BY <1>3, <2>1 DEF Keeping
  <1>10. CASE Reconnect
    <2>1. Good(ui, l, m)' /\ Backend' /\ ui'.session = ui.session
      BY ONLY <1>1, <1>2, <1>10, ReconnectGood
    <2> QED BY <1>3, <2>1 DEF Keeping
  <1>11. CASE Restart
    <2>1. Good(ui, l, m)' /\ Backend' /\ ui'.session = ui.session
      BY ONLY <1>1, <1>2, <1>11, RestartedGood
    <2> QED BY <1>3, <2>1 DEF Keeping
  <1>12. CASE \E n \in Model : Modify(n)
    <2>0. PICK n \in Model : Modify(n)
      BY <1>12
    <2>1. Good(ui, l, m)' /\ Backend' /\ ui' = ui
      BY ONLY <1>1, <1>2, <2>0, ModifiedGood
    <2> QED BY <1>3, <2>1 DEF Keeping
  <1>13. CASE Ask
    <2>1. /\ \E k \in 0..Asks, n \in Model : Good(ui, k, n)'
          /\ Backend'
          /\ \/ ui.session = None \/ ui'.session = ui.session
             \/ ui'.selected = None \/ ui'.choice # ui.choice
      BY ONLY <1>1, <1>2, <1>13, AskGood
    <2> QED BY ONLY <2>1 DEF Keeping, IInv
  <1> QED BY ONLY Next, <1>4, <1>5, <1>6, <1>7, <1>8, <1>9, <1>10, <1>11, <1>12, <1>13
      DEF Next, Progress

LEMMA Stutter ==
  ASSUME IInv, UNCHANGED vars
  PROVE  IInv'
  <1>1. PICK l \in 0..Asks, m \in Model : Good(ui, l, m)
    BY DEF IInv
  <1>2. PICK u : u = ui
    OBVIOUS
  <1>3. UNCHANGED <<revision, changes, epoch, known, faults, asked, excused, ui>>
    BY DEF vars, backendVars
  <1>4. Good(ui, l, m)' /\ Backend'
    <2>1. Good(u, l, m) /\ ui' = u /\ Others /\ Backend
      BY <1>1, <1>2, <1>3 DEF Others, backendVars, IInv
    <2> QED BY ONLY <2>1, OthersGood
  <1> QED BY ONLY <1>4, l \in 0..Asks, m \in Model DEF IInv

\* The invariant holds in every state: what the controller holds, awaits and has been told
\* fits together, and fits the sessions that the backend has.
THEOREM Invariance == Spec => []IInv
  <1>1. Init => IInv
    BY InitGood
  <1>2. IInv /\ [Next]_vars => IInv'
    BY StepGood, Stutter
  <1> QED BY <1>1, <1>2, PTL DEF Spec

\* No session is left behind: each one that the controller has caused to be created is
\* shown once, is the candidate, is in a response or has been deleted (retire, and the
\* lifetimes of session-controller.ts).
THEOREM Released == Spec => []AbandonedReleased
  <1>1. ASSUME IInv PROVE AbandonedReleased
    <2>1. PICK l \in 0..Asks, m \in Model : Good(ui, l, m)
      BY <1>1 DEF IInv
    <2>2. ui \in Controller /\ Apart(ui) /\ Kept(ui) /\ Focus(ui, l, m)
      BY <2>1 DEF Good
    <2>3. Backend
      BY <1>1 DEF IInv
    <2>4. known \in Seq(Known) /\ DOMAIN known = 1..Len(known)
      BY <2>3 DEF Backend
    <2>5. \A s \in DOMAIN known : known[s] \in
            [model : Model, revision : 0..Revisions, epoch : 0..Faults \cup {None}]
      <3>1. ASSUME NEW s \in DOMAIN known PROVE known[s] \in Known
        BY ONLY <2>4, s \in DOMAIN known
      <3>2. Known = [model : Model, revision : 0..Revisions, epoch : 0..Faults \cup {None}]
        BY ONLY DEF Known, NoneOr
      <3> QED BY ONLY <3>1, <3>2
    <2>6. {ui.session, ui.candidate} \subseteq DOMAIN known \cup {None}
      BY <2>2, <2>4 DEF Apart
    <2>7. epoch \in 0..Faults
      BY <2>3, NoneApart DEF Backend
    <2>8. /\ ui.selected \in Model \cup {None} /\ ui.retries \in 0..Retries
          /\ ui.status \in {"idle", "loading", "ready", "failed", "expired", "closing"}
          /\ ui.refresh \in {"idle", "updating", "waiting"}
      BY ONLY <2>2, ControllerFields DEF NoneOr
    <2>9. TypeOK
      BY <2>3, <2>5, <2>6, <2>7, <2>8 DEF Backend, TypeOK
    <2>10. ASSUME NEW s \in DOMAIN known
           PROVE  s \in ui.adopted \cup ui.retired \cup {ui.candidate} \cup Replies
      <3>1. Found(ui, s)
        BY <2>2, <2>4 DEF Kept
      <3> QED BY ONLY <3>1 DEF Found, Replies
    <2>11. ~ui.active => ui.candidate = None
      BY ONLY <2>2 DEF Focus, Ended
    <2> QED BY ONLY <2>9, <2>10, <2>11 DEF AbandonedReleased
  <1> QED BY <1>1, Invariance, PTL

LEMMA IntendedIsLast ==
  ASSUME NEW l, NEW m, Last(ui, l, m)
  PROVE  Intended = m
  <1> DEFINE P(i) == /\ ui.choice[i].stage # "none"
                     /\ \A j \in (i + 1)..Asks : ui.choice[j].stage = "none"
  <1>1. l \in 0..Asks /\ Asks \in Nat
    BY NoneApart DEF Last
  <1>2. P(l)
    <2>1. ASSUME NEW j \in (l + 1)..Asks PROVE j \in 1..Asks /\ j > l
      BY <1>1
    <2> QED BY <2>1 DEF Last
  <1>3. ASSUME NEW i \in 0..Asks, P(i) PROVE i = l
    <2>1. CASE i < l
      <3>1. l \in (i + 1)..Asks
        BY <1>1, <2>1
      <3> QED BY <1>2, <1>3, <3>1
    <2>2. CASE i > l
      <3>1. i \in 1..Asks
        BY <1>1, <2>2
      <3> QED BY <1>3, <2>2, <3>1 DEF Last
    <2> QED BY <1>1, <2>1, <2>2
  <1>4. (CHOOSE i \in 0..Asks : P(i)) = l
    <2> HIDE DEF P
    <2> QED BY <1>1, <1>2, <1>3
  <1> DEFINE last == CHOOSE i \in 0..Asks : P(i)
  <1>5. Intended = IF last = 0 THEN known[1].model ELSE ui.choice[last].of
    BY ONLY DEF Intended
  <1>6. Intended = IF l = 0 THEN known[1].model ELSE ui.choice[l].of
    <2> HIDE DEF last
    <2>1. last = l
      BY ONLY <1>4 DEF last
    <2> QED BY ONLY <1>5, <2>1
  <1> QED BY <1>6 DEF Last

\* What is shown is of the model chosen last, and has not been given up; data are asked for
\* only of a session that is shown (Lifetime.isCurrent, selectionOwner).
THEOREM Intent == Spec => []ShownIsIntended
  <1>1. ASSUME IInv PROVE ShownIsIntended
    <2>1. PICK l \in 0..Asks, m \in Model : Good(ui, l, m)
      BY <1>1 DEF IInv
    <2>2. Apart(ui) /\ Focus(ui, l, m)
      BY <2>1 DEF Good
    <2>3. Intended = m
      BY ONLY <2>2, IntendedIsLast DEF Focus
    <2>4. ui.session # None => ui.session \notin ui.retired /\ known[ui.session].model = m
      BY ONLY <2>2 DEF Apart, Focus, Selected
    <2>5. ui.selected \in {m, None} /\ (ui.inventory => ui.session # None)
      BY ONLY <2>2 DEF Focus, Selected
    <2> QED BY ONLY <2>3, <2>4, <2>5 DEF ShownIsIntended
  <1> QED BY <1>1, Invariance, PTL

\* A session that the backend still has, of files that have not changed, is replaced only
\* if the user asks (observeState, contentFailure, refreshModel).
THEOREM GoodIsKept == Spec => KeptWhileGood
  <1>1. IInv /\ Next => Keeping
    BY StepGood
  <1>2. IInv /\ [Next]_vars => [Keeping]_<<ui, revision, epoch, known>>
    BY <1>1 DEF vars, backendVars
  <1>3. [Keeping]_<<ui, revision, epoch, known>> =>
          [\/ ui.session = None \/ ui.session' = ui.session \/ ~Unchanged(ui.session)
           \/ ui.selected' = None \/ ui.choice' # ui.choice]_<<ui, revision, epoch, known>>
    BY DEF Keeping
  <1> QED BY <1>2, <1>3, Invariance, PTL DEF Spec, KeptWhileGood

=============================================================================
