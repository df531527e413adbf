--------------------------- MODULE Services_proofs ---------------------------
(***************************************************************************)
(* What TLAPS proves of the services, for any clients, files and contents, *)
(* and any outcomes of the analysis: what a session is told of its         *)
(* architecture is true of the content it has pinned (ToldOfItsContent),   *)
(* a content is prepared once (OnePreparation), a run computes with clean  *)
(* weights of its own content (OwnCleanWeights), and the teardown leaves   *)
(* nothing behind (NothingAfterClose).                                     *)
(*                                                                         *)
(* A result is recorded by a thread that has read the files long before,   *)
(* so its truth rests on what every stage of the thread has established    *)
(* about the content of its source (Truthful), and on the source of a task *)
(* being the key it was made for (Sourced).  That nothing is prepared      *)
(* twice needs that the startup works alone (Alone).                       *)
(***************************************************************************)
EXTENDS Services, TLAPS

USE DEF serviceVars, jobVars, neuronVars, vars, Others, Jobs, Loop, Resident, Rest, Architecture

-----------------------------------------------------------------------------
(* The architecture service.                                               *)

ServiceStage == {"none", "queued"} \cup Working
RequestStage == {"none", "check", "enter", "waiting", "lookup", "serve", "guard", "done"}
Answered == {"graph", "cache_unavailable", "changed", "left"} \cup Reason \cup Ended

Requests == [stage : RequestStage, source : 0..Versions \cup {None}, answer : Answered \cup {None}]

\* The stages of a thread that works for a source.
Sourcing == {"check", "select", "find", "hit", "analyze", "write", "rehashed", "rename"}

ServiceTypes ==
    /\ disk \in 0..Versions
    /\ prepared \in [Content -> {None, "graph"} \cup Reason]
    /\ stored \subseteq Content
    /\ job \in [Job -> [stage : ServiceStage, source : 0..Versions \cup {None}]]
    /\ lock \in Content \cup {None}
    /\ stop \in BOOLEAN /\ pool \in BOOLEAN
    /\ req \in [Client -> Requests]

\* A task works for a source that has its key as content, and a thread for some source.
Sourced ==
    /\ \A j \in Job :
        /\ job[j].stage = "none" => job[j] = NoJob
        /\ job[j].stage \in Sourcing => Source(j) \in 0..Versions
    /\ \A k \in Content :
        /\ job[k].stage \notin {"probe", "pin"}
        /\ job[k].stage # "none" => Source(k) \in 0..Versions /\ Key(k) = k
    /\ job[Startup].stage # "queued"

\* What the stage of a thread, a recorded result and a stored graph say of the content.
Truthful ==
    /\ \A j \in Job :
        /\ job[j].stage \in {"hit", "write", "rehashed", "rename"} => Outcome[Key(j)] = "graph"
        /\ job[j].stage \in {"find", "analyze"} => Outcome[Key(j)] # "unsupported_architecture"
    /\ \A k \in Content :
        /\ prepared[k] \in {"graph", "unsupported_architecture"} => Outcome[k] = prepared[k]
        /\ job[k].stage = "ok" => prepared[k] # None

\* Until the startup has ended there are neither tasks nor requests.
Alone ==
    job[Startup] # NoJob =>
        (\A k \in Content : job[k] = NoJob) /\ (\A c \in Client : req[c] = NoRequest)

\* A request has a source from its beginning.
Asking ==
    \A c \in Client :
        IF req[c].stage = "none" THEN req[c] = NoRequest ELSE req[c].source \in 0..Versions

ServiceInv ==
    ServiceTypes /\ Sourced /\ Truthful /\ Alone /\ Asking /\ ToldOfItsContent /\ OnePreparation

-----------------------------------------------------------------------------
(* The neuron runtime.                                                     *)

\* The stages of a run that holds the runtime's lock.
Held == {"queued", "check", "load", "lease", "compute", "verify", "finally", "returned"}

NeuronTypes ==
    /\ run \in [Run -> [stage : NeuronStage, source : 0..Versions \cup {Nobody},
                        cancelled : BOOLEAN, outcome : Content \cup Unsuccessful \cup {Nobody}]]
    /\ owner \in Run \cup {Nobody}
    /\ key \in Content \cup {Nobody} /\ model \in Content \cup {Nobody}
    /\ dirty \in BOOLEAN /\ refusing \in BOOLEAN

\* The owner of the lock is the one run past it.
Exclusive ==
    \A t \in Run :
        /\ run[t].stage \in Held <=> owner = t
        /\ run[t].stage # "none" => run[t].source \in 0..Versions

NeuronInv == NeuronTypes /\ Exclusive /\ OwnCleanWeights

-----------------------------------------------------------------------------
(* The application.                                                        *)

\* What each phase of the teardown leaves behind.
Closing ==
    /\ phase \in Phase /\ exiting \in BOOLEAN
    /\ phase # "starting" => job[Startup] = NoJob
    /\ phase = "starting" => job[Startup] # NoJob
    /\ phase \in {"architectures", "pool", "closed"} => stop /\ Active = {} /\ model = Nobody
    /\ phase \in {"pool", "closed"} => Pending = {}
    /\ ~pool => phase = "closed"

IInv == ServiceInv /\ NeuronInv /\ Closing

-----------------------------------------------------------------------------
(* The threads of the architecture service.                                *)

\* The key of a source is a content.
LEMMA Keys ==
  /\ \A v \in 0..Versions : Fingerprint(v) \in Content
  /\ Startup \in Job /\ Startup \notin Content /\ Content \subseteq Job
  BY FilesAssumption, ServiceAssumption DEF Fingerprint, Job

\* A thread goes on, or ends without a result, if its next stage is justified.
LEMMA ReturnsKeeps ==
  ASSUME ServiceInv, NEW j \in Job, NEW stage \in Sourcing \cup {"pin"} \cup Ended, Returns(j, stage),
         job[j].stage \in Sourcing \cup {"probe", "pin"},
         stage = "pin" => job[j].stage = "probe",
         stage = "ok" => j = Startup,
         stage \in Sourcing => job[j].stage \in Sourcing,
         stage \in {"hit", "write", "rehashed", "rename"} => Outcome[Key(j)] = "graph",
         stage \in {"find", "analyze"} => Outcome[Key(j)] # "unsupported_architecture"
  PROVE  ServiceInv'
  <1> USE DEF ServiceInv, Returns, Goto
  <1>1. ServiceTypes'
    BY DEF ServiceTypes, ServiceStage, Working, Sourcing, Ended
  <1>2. /\ \A i \in Job : /\ job'[i].source = job[i].source
                          /\ job'[i].stage = IF i = j THEN stage ELSE job[i].stage
                          /\ i # j => job'[i] = job[i]
        /\ \A i \in Job : Key(i)' = Key(i) /\ Source(i)' = Source(i)
    BY DEF ServiceTypes, Key, Source, Fingerprint
  <1>3. Sourced'
    BY <1>2, Keys DEF Sourced, Sourcing, Ended
  <1>4. Truthful'
    BY <1>2, Keys DEF Truthful
  <1>5. Alone'
    BY <1>2, Keys DEF Alone, NoJob, Sourcing
  <1>6. Asking' /\ ToldOfItsContent'
    BY DEF Asking, ToldOfItsContent, Fingerprint
  <1>7. OnePreparation'
    <2>1. \A c \in Client : req[c].stage = "waiting" => Fingerprint(req[c].source) \in Content
      BY Keys DEF Asking, NoRequest
    <2> QED BY <1>2, <2>1, Keys DEF OnePreparation, Sourcing, Ended, Fingerprint
  <1> QED BY <1>1, <1>3, <1>4, <1>5, <1>6, <1>7

\* What a thread records for the content of its source is true of it.
LEMMA RecordKeeps ==
  ASSUME ServiceInv, NEW j \in Job, NEW value \in {"graph"} \cup Reason, Record(j, value),
         job[j].stage \in Sourcing,
         value \in {"graph", "unsupported_architecture"} => Outcome[Key(j)] = value,
         stored' = stored \/ (stored' = stored \cup {Key(j)} /\ Outcome[Key(j)] = "graph")
  PROVE  ServiceInv'
  <1> USE DEF ServiceInv, Record, Goto
  <1>0. Key(j) \in Content /\ Source(j) \in 0..Versions
    BY Keys DEF Sourced, Key
  <1>1. ServiceTypes'
    BY <1>0 DEF ServiceTypes, ServiceStage, Working, Ended
  <1>2. /\ \A i \in Job : /\ job'[i].source = job[i].source
                          /\ job'[i].stage = IF i = j THEN "ok" ELSE job[i].stage
                          /\ i # j => job'[i] = job[i]
        /\ \A i \in Job : Key(i)' = Key(i) /\ Source(i)' = Source(i)
        /\ \A k \in Content : prepared'[k] = IF k = Key(j) THEN value ELSE prepared[k]
        /\ \A k \in Content : prepared[k] # None => prepared'[k] # None
    BY <1>0, ServiceAssumption DEF ServiceTypes, Key, Source, Fingerprint
  <1>3. value # None
    BY ServiceAssumption
  <1>4. Sourced'
    BY <1>2, Keys DEF Sourced, Sourcing
  <1>5. Truthful'
    <2>1. j \in Content => Key(j) = j
      BY DEF Sourced, Sourcing
    <2> QED BY <1>0, <1>2, <1>3, <2>1, Keys DEF Truthful
  <1>6. Alone'
    BY <1>2, Keys DEF Alone, NoJob, Sourcing
  <1>7. Asking'
    BY DEF Asking
  <1>8. \A c \in Client : req[c].stage # "none" => Fingerprint(req[c].source) \in Content
    BY Keys DEF Asking
  <1>9. ToldOfItsContent'
    BY <1>0, <1>2, <1>8 DEF ToldOfItsContent, Fingerprint, Asking, NoRequest
  <1>10. OnePreparation'
    <2>1. j # Startup => lock = j /\ Key(j) = j
      BY DEF OnePreparation, Sourced, Sourcing, Job
    <2>2. j = Startup => \A k \in Content : job[k].stage = "none"
      BY DEF Alone, NoJob, Sourcing
    <2>3. \A c \in Client : req[c].stage = "waiting" => Fingerprint(req[c].source) \in Content
      BY <1>8
    <2> QED BY <1>0, <1>2, <2>1, <2>2, <2>3, Keys DEF OnePreparation, Sourcing, Fingerprint
  <1> QED BY <1>1, <1>4, <1>5, <1>6, <1>7, <1>9, <1>10

\* The hash of the files gives the thread of the startup its source.
LEMMA PinKeeps ==
  ASSUME ServiceInv, job[Startup].stage = "pin",
         job' = [job EXCEPT ![Startup] = [stage |-> "check", source |-> disk]],
         UNCHANGED <<disk, prepared, stored, lock, stop, pool, req>>
  PROVE  ServiceInv'
  <1> USE Keys DEF ServiceInv
  <1>1. ServiceTypes'
    BY DEF ServiceTypes, ServiceStage, Working
  <1>2. /\ \A i \in Job : IF i = Startup THEN job'[i] = [stage |-> "check", source |-> disk]
                                         ELSE job'[i] = job[i]
        /\ job[Startup] # NoJob
    BY DEF ServiceTypes, NoJob
  <1>3. Sourced'
    BY <1>2 DEF Sourced, Sourcing, ServiceTypes, Source, Key, Fingerprint
  <1>4. Truthful'
    BY <1>2 DEF Truthful, Key, Source, Fingerprint
  <1>5. Alone'
    BY <1>2 DEF Alone
  <1>6. Asking' /\ ToldOfItsContent'
    BY DEF Asking, ToldOfItsContent, Fingerprint
  <1>7. OnePreparation'
    BY <1>2 DEF OnePreparation, Alone, NoRequest, NoJob, Fingerprint
  <1> QED BY <1>1, <1>3, <1>4, <1>5, <1>6, <1>7

LEMMA WorkerKeeps ==
  ASSUME ServiceInv, NEW j \in Job, Worker(j)
  PROVE  ServiceInv'
  <1> USE DEF Sourcing
  <1>1. job[j].stage \in {"probe", "pin"} => j = Startup
    BY DEF ServiceInv, Sourced, Job
  <1>2. CASE Probe(j)
    BY <1>1, <1>2, ReturnsKeeps DEF Probe, Ended
  <1>3. CASE Pin(j)
    <2>1. CASE \E stage \in {"stopped", "ok"} : Returns(j, stage)
      BY <1>1, <1>3, <2>1, ReturnsKeeps DEF Pin, Ended
    <2>2. CASE ~\E stage \in {"stopped", "ok"} : Returns(j, stage)
      <3>1. /\ job' = [job EXCEPT ![j] = [stage |-> "check", source |-> disk]]
            /\ UNCHANGED <<prepared, stored, Others>>
        BY <1>3, <2>2 DEF Pin
      <3> QED BY <1>1, <1>3, <3>1, PinKeeps DEF Pin
    <2> QED BY <2>1, <2>2
  <1>4. ASSUME job[j].stage \in Sourcing, SourceChanged(j) PROVE ServiceInv'
    BY <1>4, RecordKeeps DEF SourceChanged, Reason
  <1>5. CASE Check(j)
    BY <1>4, <1>5, ReturnsKeeps DEF Check, Ended
  <1>6. CASE Select(j)
    BY <1>4, <1>6, ReturnsKeeps, RecordKeeps DEF Select, Ended, Reason
  <1>7. CASE Find(j)
    BY <1>7, ReturnsKeeps DEF Find, ServiceInv, Truthful, ToldOfItsContent
  <1>8. CASE Hit(j)
    BY <1>4, <1>8, ReturnsKeeps, RecordKeeps DEF Hit, Ended, ServiceInv, Truthful
  <1>9. CASE Analyze(j)
    <2>1. Key(j) \in Content
      BY <1>9, Keys DEF Analyze, ServiceInv, Sourced, Key
    <2>2. Outcome[Key(j)] # "analysis_failed" => Outcome[Key(j)] = "graph"
      BY <1>9, <2>1, ServiceAssumption DEF Analyze, Reason, ServiceInv, Truthful
    <2> QED BY <1>9, <2>2, ReturnsKeeps, RecordKeeps DEF Analyze, Ended, Reason
  <1>10. CASE Write(j)
    BY <1>4, <1>10, ReturnsKeeps DEF Write, Ended, ServiceInv, Truthful
  <1>11. CASE Rehashed(j)
    BY <1>11, ReturnsKeeps DEF Rehashed, Ended, ServiceInv, Truthful
  <1>12. CASE Rename(j)
    BY <1>12, RecordKeeps DEF Rename, ServiceInv, Truthful
  <1>13. CASE IoError(j)
    BY <1>13, ReturnsKeeps, RecordKeeps DEF IoError, Ended, Reason
  <1> QED BY <1>2, <1>3, <1>5, <1>6, <1>7, <1>8, <1>9, <1>10, <1>11, <1>12, <1>13 DEF Worker

-----------------------------------------------------------------------------
(* Its tasks and its requests.                                             *)

LEMMA EnsureKeeps ==
  ASSUME ServiceInv, NEW k \in Content, Ensure(k)
  PROVE  ServiceInv'
  <1> USE Keys DEF ServiceInv, Ensure, Goto
  <1>1. ServiceTypes'
    BY DEF ServiceTypes, ServiceStage, Working, Ended
  <1>2. /\ \A i \in Job : /\ job'[i].source = job[i].source
                          /\ job'[i].stage = IF i # k THEN job[i].stage
                                             ELSE IF stop THEN "stopped" ELSE "check"
                          /\ i # k => job'[i] = job[i]
        /\ \A i \in Job : Key(i)' = Key(i) /\ Source(i)' = Source(i)
        /\ k # Startup
    BY DEF ServiceTypes, Key, Source, Fingerprint
  <1>3. Sourced'
    BY <1>2 DEF Sourced, Sourcing
  <1>4. Truthful'
    BY <1>2 DEF Truthful
  <1>5. Alone'
    BY <1>2 DEF Alone, NoJob
  <1>6. Asking' /\ ToldOfItsContent'
    BY DEF Asking, ToldOfItsContent, Fingerprint
  <1>7. OnePreparation'
    <2>1. \A c \in Client : req[c].stage = "waiting" => Fingerprint(req[c].source) \in Content
      BY DEF Asking, NoRequest
    <2>2. \A i \in Content : lock' # i => job'[i].stage \in {"none", "queued", "stopped"}
      BY <1>2, ServiceAssumption DEF OnePreparation
    <2>3. \A i \in Content : prepared[i] # None => job'[i].stage \in {"none", "ok"}
      BY <1>2 DEF OnePreparation
    <2>4. \A c \in Client :
            req[c].stage = "waiting" => job'[Fingerprint(req[c].source)].stage # "none"
      BY <1>2, <2>1 DEF OnePreparation
    <2> QED BY <2>2, <2>3, <2>4 DEF OnePreparation, Fingerprint
  <1> QED BY <1>1, <1>3, <1>4, <1>5, <1>6, <1>7

\* Who waits for a task that ends finds its result, or is told why there is none.
LEMMA FinishedKeeps ==
  ASSUME ServiceInv, NEW k \in Content, Finished(k)
  PROVE  ServiceInv'
  <1> USE Keys DEF ServiceInv, Finished
  <1>1. \A c \in Client :
          IF req[c].stage = "waiting" /\ Fingerprint(req[c].source) = k
          THEN /\ req'[c].source = req[c].source
               /\ \/ /\ job[k].stage = "ok"
                     /\ req'[c].stage = "lookup" /\ req'[c].answer = req[c].answer
                  \/ /\ job[k].stage \in {"stopped", "failed"}
                     /\ req'[c].stage = "done" /\ req'[c].answer = job[k].stage
          ELSE req'[c] = req[c]
    BY DEF Woken, ServiceTypes, Requests, Ended
  <1>2. ServiceTypes'
    <2>1. req' \in [Client -> Requests]
      BY DEF Woken, ServiceTypes, Requests, RequestStage, Answered, Ended
    <2> QED BY <2>1 DEF ServiceTypes, NoJob, ServiceStage
  <1>3. \A i \in Job : IF i = k THEN job'[i] = NoJob ELSE job'[i] = job[i]
    BY DEF ServiceTypes
  <1>4. Sourced'
    BY <1>3 DEF Sourced, Sourcing, NoJob, Source, Key, Fingerprint
  <1>5. Truthful'
    BY <1>3 DEF Truthful, NoJob, Source, Key, Fingerprint
  <1>6. Alone'
    BY <1>3 DEF Alone, NoJob, Ended
  <1>7. Asking'
    BY <1>1 DEF Asking
  <1>8. ToldOfItsContent'
    BY <1>1 DEF ToldOfItsContent, Truthful, Fingerprint
  <1>9. OnePreparation'
    <2>1. \A i \in Content : lock' # i => job'[i].stage \in {"none", "queued", "stopped"}
      BY <1>3 DEF OnePreparation, NoJob
    <2>2. \A i \in Content : prepared[i] # None => job'[i].stage \in {"none", "ok"}
      BY <1>3 DEF OnePreparation, NoJob
    <2>3. \A c \in Client : req'[c].stage = "waiting" =>
            /\ req'[c] = req[c] /\ Fingerprint(req[c].source) \in Content
            /\ Fingerprint(req[c].source) # k
      BY <1>1 DEF Asking, NoRequest
    <2>4. \A c \in Client :
            req'[c].stage = "waiting" => job'[Fingerprint(req'[c].source)].stage # "none"
      BY <1>3, <2>3 DEF OnePreparation
    <2> QED BY <2>1, <2>2, <2>4 DEF OnePreparation, Fingerprint
  <1> QED BY <1>2, <1>4, <1>5, <1>6, <1>7, <1>8, <1>9

\* The request of c is at a stage, with a source and an answer, and the others stay.
Now(c, stage, source, answer) ==
    /\ req' \in [Client -> Requests]
    /\ req'[c].stage = stage /\ req'[c].source = source /\ req'[c].answer = answer
    /\ \A d \in Client \ {c} : req'[d] = req[d]

\* A request goes on without a task.
LEMMA RequestKeeps ==
  ASSUME ServiceInv, NEW c \in Client, UNCHANGED Jobs,
         NEW stage \in RequestStage \ {"none", "waiting"}, NEW answer \in Answered \cup {None},
         NEW source \in 0..Versions, source = req[c].source \/ req[c] = NoRequest,
         job[Startup] = NoJob,
         Now(c, stage, source, answer),
         stage \in {"lookup", "serve", "guard"} => prepared[Fingerprint(source)] # None,
         answer \in {"graph", "cache_unavailable"} => Outcome[Fingerprint(source)] = "graph",
         answer = "unsupported_architecture" =>
             Outcome[Fingerprint(source)] = "unsupported_architecture"
  PROVE  ServiceInv'
  <1> USE DEF ServiceInv, Now
  <1>1. ServiceTypes'
    BY DEF ServiceTypes
  <1>2. \A d \in Client : IF d = c THEN /\ req'[d].stage = stage /\ req'[d].source = source
                                        /\ req'[d].answer = answer
                                   ELSE req'[d] = req[d]
    BY DEF ServiceTypes
  <1>3. Sourced' /\ Truthful'
    BY DEF Sourced, Truthful, Key, Source, Fingerprint
  <1>4. Alone' /\ Asking'
    BY <1>2 DEF Alone, Asking
  <1>5. ToldOfItsContent' /\ OnePreparation'
    BY <1>2 DEF ToldOfItsContent, OnePreparation, Fingerprint
  <1> QED BY <1>1, <1>3, <1>4, <1>5

\* A request that has begun has a source, and the startup is over.
LEMMA Begun ==
  ASSUME ServiceInv, NEW c \in Client, req[c].stage # "none"
  PROVE  /\ job[Startup] = NoJob /\ req[c].source \in 0..Versions
         /\ Fingerprint(req[c].source) \in Content
         /\ req \in [Client -> Requests]
         /\ req[c].stage \in RequestStage /\ req[c].answer \in Answered \cup {None}
  <1>1. req \in [Client -> Requests] /\ req[c] \in Requests
    BY DEF ServiceInv, ServiceTypes
  <1> QED BY <1>1, Keys DEF Requests, ServiceInv, Alone, NoRequest, Asking

\* The steps of a request that change its stage and its answer only.
LEMMA MovesKeeps ==
  ASSUME ServiceInv, NEW c \in Client, req[c].stage # "none",
         NEW stage \in {"enter", "serve"}, Moves(c, stage),
         stage = "serve" => req[c].stage = "lookup"
  PROVE  ServiceInv'
  <1>1. Now(c, stage, req[c].source, req[c].answer)
    BY Begun DEF Moves, Now, Requests, RequestStage
  <1>2. /\ stage \in {"lookup", "serve", "guard"} => prepared[Fingerprint(req[c].source)] # None
        /\ req[c].answer \in {"graph", "cache_unavailable"} =>
              Outcome[Fingerprint(req[c].source)] = "graph"
        /\ req[c].answer = "unsupported_architecture" =>
              Outcome[Fingerprint(req[c].source)] = "unsupported_architecture"
    BY DEF ServiceInv, ToldOfItsContent
  <1> QED BY <1>1, <1>2, Begun, RequestKeeps DEF Moves, RequestStage

LEMMA AnswersKeeps ==
  ASSUME ServiceInv, NEW c \in Client, req[c].stage # "none",
         NEW value \in {"changed", "stopped", "left"} \cup {req[c].answer}, Answers(c, value)
  PROVE  ServiceInv'
  <1>0. value \in Answered \cup {None}
    BY Begun DEF Answered, Ended
  <1>1. Now(c, "done", req[c].source, value)
    BY <1>0, Begun DEF Answers, Answer, Now, Requests, RequestStage
  <1>2. /\ value \in {"graph", "cache_unavailable"} => Outcome[Fingerprint(req[c].source)] = "graph"
        /\ value = "unsupported_architecture" =>
              Outcome[Fingerprint(req[c].source)] = "unsupported_architecture"
    BY DEF ServiceInv, ToldOfItsContent
  <1> QED BY <1>0, <1>1, <1>2, Begun, RequestKeeps DEF Answers, RequestStage

LEMMA EnterKeeps ==
  ASSUME ServiceInv, NEW c \in Client, Enter(c)
  PROVE  ServiceInv'
  <1> DEFINE k == Fingerprint(req[c].source)
  <1>0. req[c].stage = "enter" /\ k \in Content /\ req[c].source \in 0..Versions
    BY Begun DEF Enter
  <1>1. CASE stop
    BY <1>0, <1>1, AnswersKeeps DEF Enter
  <1>2. CASE ~stop /\ prepared[k] # None
    <2>1. Now(c, "lookup", req[c].source, req[c].answer)
      BY <1>0, <1>2, Begun DEF Enter, Moves, Now, Requests, RequestStage
    <2>2. /\ req[c].answer \in {"graph", "cache_unavailable"} => Outcome[k] = "graph"
          /\ req[c].answer = "unsupported_architecture" => Outcome[k] = "unsupported_architecture"
      BY DEF ServiceInv, ToldOfItsContent
    <2> QED BY <1>0, <1>2, <2>1, <2>2, Begun, RequestKeeps DEF Enter, Moves, RequestStage
  <1>3. CASE ~stop /\ prepared[k] = None
    <2> USE Keys DEF ServiceInv
    <2>1. /\ req' = [req EXCEPT ![c].stage = "waiting"]
          /\ UNCHANGED <<disk, prepared, stored, lock, stop, pool>>
          /\ job' = IF job[k] = NoJob
                    THEN [job EXCEPT ![k] = [stage |-> "queued", source |-> req[c].source]]
                    ELSE job
      BY <1>3 DEF Enter
    <2>2. ServiceTypes'
      BY <1>0, <2>1, Begun DEF ServiceTypes, Requests, RequestStage, ServiceStage
    <2>3. /\ \A d \in Client : IF d = c THEN /\ req'[d].stage = "waiting"
                                             /\ req'[d].source = req[d].source
                                             /\ req'[d].answer = req[d].answer
                                        ELSE req'[d] = req[d]
          /\ \A i \in Job : IF i = k /\ job[k] = NoJob
                            THEN job'[i] = [stage |-> "queued", source |-> req[c].source]
                            ELSE job'[i] = job[i]
          /\ job'[k].stage # "none" /\ k # Startup
      BY <1>0, <2>1, Begun DEF ServiceTypes, Requests, Sourced, NoJob
    <2>4. Sourced'
      BY <1>0, <2>3 DEF Sourced, Sourcing, Source, Key, Fingerprint
    <2>5. Truthful'
      BY <2>1, <2>3 DEF Truthful, Source, Key, Fingerprint
    <2>6. Alone' /\ Asking'
      <3>1. job'[Startup] = NoJob
        BY <1>0, <2>3, Begun
      <3> QED BY <1>0, <2>3, <3>1 DEF Alone, Asking
    <2>7. ToldOfItsContent'
      BY <2>1, <2>3 DEF ToldOfItsContent, Fingerprint
    <2>8. OnePreparation'
      <3>1. \A i \in Content : lock' # i => job'[i].stage \in {"none", "queued", "stopped"}
        BY <2>1, <2>3 DEF OnePreparation
      <3>2. \A i \in Content : prepared[i] # None => job'[i].stage \in {"none", "ok"}
        BY <1>3, <2>3 DEF OnePreparation
      <3>3. \A d \in Client : req'[d].stage = "waiting" =>
              job'[Fingerprint(req'[d].source)].stage # "none"
        <4> SUFFICES ASSUME NEW d \in Client, req'[d].stage = "waiting"
                     PROVE  job'[Fingerprint(req'[d].source)].stage # "none"
          OBVIOUS
        <4>1. CASE d = c
          BY <2>3, <4>1
        <4>2. CASE d # c
          <5>1. req[d].stage = "waiting" /\ Fingerprint(req[d].source) \in Content
            BY <2>3, <4>2, Begun
          <5> QED BY <2>3, <4>2, <5>1 DEF OnePreparation
        <4> QED BY <4>1, <4>2
      <3> QED BY <2>1, <3>1, <3>2, <3>3 DEF OnePreparation, Fingerprint
    <2> QED BY <2>2, <2>4, <2>5, <2>6, <2>7, <2>8
  <1> QED BY <1>1, <1>2, <1>3

\* What is recorded for a content is what its session is told.
LEMMA ServeKeeps ==
  ASSUME ServiceInv, NEW c \in Client, Serve(c)
  PROVE  ServiceInv'
  <1> DEFINE k == Fingerprint(req[c].source)
             answer == IF prepared[k] # "graph" THEN prepared[k]
                       ELSE IF k \in stored THEN "graph" ELSE "cache_unavailable"
  <1>1. req[c].stage = "serve" /\ k \in Content /\ prepared[k] # None
    BY Begun DEF Serve
  <1>3. answer \in Answered
    BY <1>1 DEF ServiceInv, ServiceTypes, Answered
  <1>2. Now(c, "guard", req[c].source, answer)
    BY <1>1, <1>3, Begun DEF Serve, Now, Requests, RequestStage
  <1>4. /\ answer \in {"graph", "cache_unavailable"} => Outcome[k] = "graph"
        /\ answer = "unsupported_architecture" => Outcome[k] = "unsupported_architecture"
    BY <1>1, ServiceAssumption DEF ServiceInv, ServiceTypes, Truthful, Reason
  <1> HIDE DEF answer
  <1>5. UNCHANGED Jobs
    BY DEF Serve
  <1> QED BY <1>1, <1>2, <1>3, <1>4, <1>5, Begun, RequestKeeps DEF RequestStage

LEMMA ServingKeeps ==
  ASSUME ServiceInv, NEW c \in Client, Serving(c)
  PROVE  ServiceInv'
  <1>1. CASE Checked(c)
    BY <1>1, MovesKeeps, AnswersKeeps DEF Checked
  <1>2. CASE Lookup(c)
    BY <1>2, MovesKeeps, AnswersKeeps DEF Lookup
  <1>3. CASE Guard(c)
    BY <1>3, AnswersKeeps DEF Guard
  <1> QED BY <1>1, <1>2, <1>3, EnterKeeps, ServeKeeps DEF Serving

LEMMA GetKeeps ==
  ASSUME ServiceInv, NEW c \in Client, Get(c), job[Startup] = NoJob
  PROVE  ServiceInv'
  <1>1. PICK v \in 0..disk : req' = [req EXCEPT ![c].stage = "check", ![c].source = v]
    BY DEF Get
  <1>2. req[c] = NoRequest /\ v \in 0..Versions
    BY FilesAssumption DEF Get, ServiceInv, Asking, ServiceTypes
  <1>3. Now(c, "check", v, None)
    <2>1. req \in [Client -> Requests] /\ req[c].answer = None
      BY <1>2 DEF NoRequest, ServiceInv, ServiceTypes
    <2>2. req' \in [Client -> Requests]
      BY <1>1, <1>2, <2>1 DEF Requests, RequestStage
    <2> QED BY <1>1, <2>1, <2>2 DEF Now, Requests
  <1> QED BY <1>2, <1>3, ServiceAssumption, RequestKeeps DEF Get, RequestStage, Reason

LEMMA LeaveKeeps ==
  ASSUME ServiceInv, NEW c \in Client, Leave(c)
  PROVE  ServiceInv'
  BY AnswersKeeps DEF Leave, Left, Answers

\* An entry is lost, the files change, the service is told to stop, or nothing happens.
LEMMA SurroundingsKeep ==
  ASSUME ServiceInv, UNCHANGED <<prepared, job, lock, req, pool>>, stored' \subseteq stored,
         disk' = disk \/ Change, stop' \in BOOLEAN
  PROVE  ServiceInv'
  <1> USE DEF ServiceInv
  <1>1. disk' \in 0..Versions
    BY FilesAssumption DEF Change, ServiceTypes
  <1>2. ServiceTypes'
    BY <1>1 DEF ServiceTypes
  <1>3. Sourced' /\ Truthful' /\ Alone' /\ Asking'
    BY DEF Sourced, Truthful, Alone, Asking, Source, Key, Fingerprint
  <1>4. ToldOfItsContent' /\ OnePreparation'
    BY DEF ToldOfItsContent, OnePreparation, Fingerprint
  <1> QED BY <1>2, <1>3, <1>4

\* The task of the startup is over.
LEMMA StartupKeeps ==
  ASSUME ServiceInv, job' = [job EXCEPT ![Startup] = NoJob],
         UNCHANGED <<disk, prepared, stored, lock, stop, pool, req>>
  PROVE  ServiceInv'
  <1> USE Keys DEF ServiceInv
  <1>1. ServiceTypes'
    BY DEF ServiceTypes, ServiceStage, NoJob
  <1>2. /\ \A i \in Job \ {Startup} : job'[i] = job[i]
        /\ job'[Startup] = NoJob
    BY DEF ServiceTypes
  <1>3. Sourced' /\ Truthful' /\ Alone' /\ Asking'
    BY <1>2 DEF Sourced, Sourcing, Truthful, Alone, Asking, Source, Key, Fingerprint, NoJob
  <1>4. \A c \in Client : req[c].stage = "waiting" => Fingerprint(req[c].source) \in Content
    BY Begun
  <1>5. ToldOfItsContent' /\ OnePreparation'
    BY <1>2, <1>4 DEF ToldOfItsContent, OnePreparation, Fingerprint
  <1> QED BY <1>1, <1>3, <1>5

\* The pool refuses the calls of the requests in a thread.
LEMMA PoolKeeps ==
  ASSUME ServiceInv, pool' = FALSE, UNCHANGED <<disk, prepared, stored, job, lock, stop>>,
         req' \in [Client -> Requests],
         \A c \in Client :
            \/ req'[c] = req[c]
            \/ /\ req[c].stage # "none" /\ req'[c].stage = "done"
               /\ req'[c].source = req[c].source /\ req'[c].answer = "failed"
  PROVE  ServiceInv'
  <1> USE DEF ServiceInv
  <1>1. ServiceTypes'
    BY DEF ServiceTypes
  <1>2. Sourced' /\ Truthful'
    BY DEF Sourced, Truthful, Source, Key, Fingerprint
  <1>3. Alone' /\ Asking'
    BY DEF Alone, Asking, NoRequest
  <1>4. ToldOfItsContent' /\ OnePreparation'
    BY DEF ToldOfItsContent, OnePreparation, Fingerprint
  <1> QED BY <1>1, <1>2, <1>3, <1>4

-----------------------------------------------------------------------------
(* The neuron runtime.                                                     *)

\* The runs that a step leaves alone, and the one whose stage, cancellation and outcome it sets.
Ran(t, stage, cancelled, outcome) ==
    /\ run' \in [Run -> [stage : NeuronStage, source : 0..Versions \cup {Nobody},
                         cancelled : BOOLEAN, outcome : Content \cup Unsuccessful \cup {Nobody}]]
    /\ run'[t].stage = stage /\ run'[t].source = run[t].source
    /\ run'[t].cancelled = cancelled /\ run'[t].outcome = outcome
    /\ \A u \in Run \ {t} : run'[u] = run[u]

\* Setting the stage, or the stage and the outcome, is such a step.
LEMMA Sets ==
  ASSUME NeuronInv, NEW t \in Run, NEW stage \in NeuronStage,
         NEW outcome \in Content \cup Unsuccessful \cup {Nobody},
         \/ Stage(t, stage) /\ outcome = run[t].outcome
         \/ run' = [run EXCEPT ![t].stage = stage, ![t].outcome = outcome]
  PROVE  Ran(t, stage, run[t].cancelled, outcome)
  BY DEF NeuronInv, NeuronTypes, Ran, Stage

\* A run moves without touching the model, taking or giving back the lock or not.
LEMMA MovesOn ==
  ASSUME NeuronInv, NEW t \in Run, NEW stage \in NeuronStage \ {"none"}, NEW cancelled,
         NEW outcome, Ran(t, stage, cancelled, outcome), UNCHANGED <<disk, Resident, refusing>>,
         run[t].stage \notin {"none", "ended"},
         \/ owner' = owner /\ (stage \in Held <=> run[t].stage \in Held)
         \/ owner = Nobody /\ owner' = t /\ stage \in Held
         \/ run[t].stage \in Held /\ owner' = Nobody /\ stage \notin Held,
         stage \in Leased => model = Wanted(t) /\ owner' = t,
         outcome \in Content => outcome = Wanted(t)
  PROVE  NeuronInv'
  <1> USE DEF NeuronInv, Ran
  <1>1. NeuronTypes' /\ NeuronTypeOK'
    BY DEF NeuronTypes, NeuronTypeOK
  <1>2. Wanted(t)' = Wanted(t) /\ \A u \in Run : u # t => Wanted(u)' = Wanted(u)
    BY DEF Wanted, Fingerprint
  <1>3. Nobody \notin Run
    BY NeuronAssumption
  <1>4. Exclusive'
    BY <1>3 DEF Exclusive
  <1>5. OwnCleanWeights'
    <2>1. key' = model' /\ ~dirty'
      BY DEF OwnCleanWeights
    <2>2. \A u \in Run : /\ run'[u].stage \in Leased => owner' = u /\ model' = Wanted(u)'
                         /\ run'[u].outcome \in Content => run'[u].outcome = Wanted(u)'
      <3> SUFFICES ASSUME NEW u \in Run
                   PROVE  /\ run'[u].stage \in Leased => owner' = u /\ model' = Wanted(u)'
                          /\ run'[u].outcome \in Content => run'[u].outcome = Wanted(u)'
        OBVIOUS
      <3>1. CASE u = t
        BY <1>2, <3>1
      <3>2. CASE u # t
        BY <1>2, <1>3, <3>2 DEF OwnCleanWeights, Exclusive, Leased, Held
      <3> QED BY <3>1, <3>2
    <2>3. Active' = {} => owner' = Nobody
      BY <1>1, <1>4 DEF Active, Exclusive, Held, NeuronTypes
    <2> QED BY <1>1, <2>1, <2>2, <2>3 DEF OwnCleanWeights
  <1> QED BY <1>1, <1>4, <1>5

\* The run with the lock replaces the model, with weights of its own content or nothing.
LEMMA Replaces ==
  ASSUME NeuronInv, NEW t \in Run, run[t].stage \in Held,
         NEW stage \in Held, NEW outcome, Ran(t, stage, run[t].cancelled, outcome),
         UNCHANGED Loop, key' = model', dirty' = FALSE, model' \in Content \cup {Nobody},
         stage \in Leased => model' = Wanted(t),
         outcome \in Content => outcome = Wanted(t)
  PROVE  NeuronInv'
  <1> USE DEF NeuronInv, Ran
  <1>0. owner = t /\ \A u \in Run \ {t} : run[u].stage \notin Held
    BY DEF Exclusive
  <1>1. NeuronTypes' /\ NeuronTypeOK'
    BY DEF NeuronTypes, NeuronTypeOK
  <1>2. \A u \in Run : Wanted(u)' = Wanted(u)
    BY DEF Wanted, Fingerprint
  <1>3. Exclusive'
    BY <1>0 DEF Exclusive, Held
  <1>4. OwnCleanWeights'
    <2>1. \A u \in Run : run'[u].stage \in Leased => u = t
      BY <1>0 DEF Leased, Held
    <2>2. \A u \in Run : run'[u].outcome \in Content => run'[u].outcome = Wanted(u)'
      BY <1>2 DEF OwnCleanWeights
    <2>3. t \in Active'
      BY DEF Active, Held
    <2> QED BY <1>0, <1>1, <1>2, <2>1, <2>2, <2>3 DEF OwnCleanWeights
  <1> QED BY <1>1, <1>3, <1>4

\* A run that fails drops the model.
LEMMA FailsKeeps ==
  ASSUME NeuronInv, NEW t \in Run, run[t].stage \in Held, Fails(t), UNCHANGED Loop
  PROVE  NeuronInv'
  <1>1. Ran(t, "finally", run[t].cancelled, "failure")
    BY Sets DEF Fails, NeuronStage, Unsuccessful
  <1> QED BY <1>1, NeuronAssumption, Replaces DEF Fails, Failure, Drop, Held, Leased, Unsuccessful

LEMMA ExecuteKeeps ==
  ASSUME NeuronInv, NEW t \in Run, Execute(t)
  PROVE  NeuronInv'
  <1> USE DEF Held, Leased, NeuronStage
  <1>0. /\ run[t].stage \in Held /\ owner = t /\ run[t].stage \notin {"none", "ended"}
        /\ run[t].source \in 0..Versions /\ Wanted(t) \in Content
        /\ run[t].outcome \in Content \cup Unsuccessful \cup {Nobody}
        /\ run[t].outcome \in Content => run[t].outcome = Wanted(t)
        /\ run[t].stage \in Leased => model = Wanted(t)
        /\ UNCHANGED Loop
    <2>1. run[t].stage \in {"check", "load", "lease", "compute", "verify", "finally"}
      BY DEF Execute, Inspect, Load, Lease, Compute, Verify, Finalize
    <2>2. run[t].source \in 0..Versions /\ owner = t
      BY <2>1 DEF NeuronInv, Exclusive
    <2> QED BY <2>1, <2>2, FilesAssumption
            DEF NeuronInv, NeuronTypes, OwnCleanWeights, Wanted, Fingerprint, Execute, Inspect,
                Load, Lease, Compute, Verify, Finalize
  <1>1. CASE Fails(t)
    BY <1>0, <1>1, FailsKeeps
  <1>2. ASSUME NEW stage \in {"lease", "compute", "finally", "returned"}, Stage(t, stage),
               UNCHANGED Resident, stage \in Leased => model = Wanted(t)
        PROVE  NeuronInv'
    <2>1. Ran(t, stage, run[t].cancelled, run[t].outcome)
      BY <1>0, <1>2, Sets
    <2> QED BY <1>0, <1>2, <2>1, MovesOn
  <1>3. CASE Inspect(t)
    <2>1. CASE Good(t) /\ key = Wanted(t) /\ Stage(t, "lease") /\ UNCHANGED Resident
      BY <1>2, <2>1 DEF NeuronInv, OwnCleanWeights
    <2>2. CASE Stage(t, "load") /\ Drop
      <3>1. Ran(t, "load", run[t].cancelled, run[t].outcome)
        BY <1>0, <2>2, Sets
      <3> QED BY <1>0, <2>2, <3>1, Replaces DEF Drop
    <2> QED BY <1>1, <1>3, <2>1, <2>2 DEF Inspect
  <1>4. CASE Load(t) /\ ~Fails(t)
    <2>1. /\ Stage(t, "lease") /\ key' = Wanted(t) /\ dirty' = FALSE
          /\ model' = Wanted(t)
      BY <1>4 DEF Load, Good, Unchanged, Wanted, Fingerprint
    <2>2. Ran(t, "lease", run[t].cancelled, run[t].outcome)
      BY <1>0, <2>1, Sets
    <2> QED BY <1>0, <2>1, <2>2, Replaces
  <1>5. CASE Lease(t)
    BY <1>0, <1>1, <1>2, <1>5 DEF Lease
  <1>6. CASE Compute(t) /\ ~Fails(t)
    <2>1. /\ run' = [run EXCEPT ![t].stage = "verify", ![t].outcome = model]
          /\ UNCHANGED Resident /\ model = Wanted(t)
      BY <1>0, <1>6 DEF Compute
    <2>2. Ran(t, "verify", run[t].cancelled, model)
      BY <1>0, <2>1, Sets
    <2> QED BY <1>0, <2>1, <2>2, MovesOn
  <1>7. CASE Verify(t)
    BY <1>1, <1>2, <1>7 DEF Verify
  <1>8. CASE Finalize(t)
    <2>1. CASE Stage(t, "returned") /\ UNCHANGED Resident
      BY <1>2, <2>1
    <2>2. CASE /\ run' = [run EXCEPT ![t].stage = "returned", ![t].outcome = "failure"]
               /\ Failure
      <3>1. Ran(t, "returned", run[t].cancelled, "failure")
        BY <2>2, Sets DEF Unsuccessful
      <3> QED BY <1>0, <2>2, <3>1, NeuronAssumption, Replaces DEF Failure, Drop, Unsuccessful
    <2> QED BY <1>8, <2>1, <2>2 DEF Finalize
  <1> QED BY <1>1, <1>3, <1>4, <1>5, <1>6, <1>7, <1>8 DEF Execute

LEMMA ProgressKeeps ==
  ASSUME NeuronInv, NEW t \in Run, Progress(t)
  PROVE  NeuronInv'
  <1> USE DEF Held, Leased, NeuronStage, Ends, Unsuccessful
  <1>0. /\ run[t].outcome \in Content \cup Unsuccessful \cup {Nobody}
        /\ run[t].outcome \in Content => run[t].outcome = Wanted(t)
        /\ "cancelled" \notin Content
    BY NeuronAssumption DEF NeuronInv, NeuronTypes, OwnCleanWeights
  <1>1. CASE Own(t)
    <2>1. CASE run[t].cancelled
      <3>1. Ran(t, "ended", run[t].cancelled, "cancelled")
        BY <1>1, <2>1, Sets DEF Own
      <3> QED BY <1>0, <1>1, <2>1, <3>1, MovesOn DEF Own
    <2>2. CASE ~run[t].cancelled
      <3>1. Ran(t, "queued", run[t].cancelled, run[t].outcome)
        BY <1>0, <1>1, <2>2, Sets DEF Own
      <3> QED BY <1>0, <1>1, <2>2, <3>1, MovesOn DEF Own
    <2> QED BY <2>1, <2>2
  <1>2. CASE Occupy(t)
    <2>1. CASE run[t].cancelled
      <3>1. Ran(t, "ended", run[t].cancelled, "cancelled")
        BY <1>2, <2>1, Sets DEF Occupy
      <3> QED BY <1>0, <1>2, <2>1, <3>1, MovesOn DEF Occupy
    <2>2. CASE ~run[t].cancelled
      <3>1. Ran(t, "check", run[t].cancelled, run[t].outcome)
        BY <1>0, <1>2, <2>2, Sets DEF Occupy
      <3> QED BY <1>0, <1>2, <2>2, <3>1, MovesOn DEF Occupy
    <2> QED BY <2>1, <2>2
  <1>3. CASE Return(t)
    <2> DEFINE outcome == IF run[t].cancelled THEN "cancelled" ELSE run[t].outcome
    <2>1. outcome \in Content \cup Unsuccessful \cup {Nobody}
      BY <1>0
    <2>2. Ran(t, "ended", run[t].cancelled, outcome)
      BY <1>3, <2>1, Sets DEF Return
    <2>3. outcome \in Content => outcome = Wanted(t)
      BY <1>0
    <2> HIDE DEF outcome
    <2> QED BY <1>3, <2>1, <2>2, <2>3, MovesOn DEF Return
  <1> QED BY <1>1, <1>2, <1>3, ExecuteKeeps DEF Progress

LEMMA CancelKeeps ==
  ASSUME NeuronInv, NEW t \in Run, CancelRun(t)
  PROVE  NeuronInv'
  <1>1. Ran(t, run[t].stage, TRUE, run[t].outcome)
    BY DEF CancelRun, Ran, NeuronInv, NeuronTypes
  <1>2. /\ run[t].stage \in NeuronStage \ {"none"}
        /\ run[t].stage \in Leased => model = Wanted(t) /\ owner = t
        /\ run[t].outcome \in Content => run[t].outcome = Wanted(t)
    BY DEF CancelRun, NeuronInv, NeuronTypes, OwnCleanWeights
  <1> QED BY <1>1, <1>2, MovesOn DEF CancelRun

\* Steps that leave the runtime alone: whatever the files are now, runs keep their sources.
LEMMA ApartKeeps ==
  ASSUME NeuronInv, UNCHANGED neuronVars
  PROVE  NeuronInv'
  <1>1. NeuronTypes' /\ Exclusive'
    BY DEF NeuronInv, NeuronTypes, Exclusive
  <1>2. OwnCleanWeights'
    BY DEF NeuronInv, OwnCleanWeights, NeuronTypeOK, Active, Wanted, Fingerprint
  <1> QED BY <1>1, <1>2 DEF NeuronInv

LEMMA StartKeeps ==
  ASSUME NeuronInv, disk \in 0..Versions, NEW t \in Run, Start(t)
  PROVE  NeuronInv'
  <1> USE DEF NeuronInv
  <1>1. PICK v \in 0..disk :
          run' = [run EXCEPT ![t].source = v,
                             ![t].stage = IF refusing THEN "ended" ELSE "waiting",
                             ![t].outcome = IF refusing THEN "refused" ELSE Nobody]
    BY DEF Start
  <1>2. v \in 0..Versions
    BY FilesAssumption
  <1>3. /\ run' \in [Run -> [stage : NeuronStage, source : 0..Versions \cup {Nobody},
                             cancelled : BOOLEAN,
                             outcome : Content \cup Unsuccessful \cup {Nobody}]]
        /\ run'[t].stage \in {"ended", "waiting"} /\ run'[t].source = v
        /\ run'[t].outcome \in {"refused", Nobody}
        /\ \A u \in Run \ {t} : run'[u] = run[u]
    BY <1>1, <1>2 DEF NeuronTypes, NeuronStage, Unsuccessful
  <1>4. NeuronTypes' /\ NeuronTypeOK'
    BY <1>3 DEF Start, NeuronTypes, NeuronTypeOK
  <1>5. Exclusive'
    BY <1>2, <1>3 DEF Start, Exclusive, Held
  <1>6. OwnCleanWeights'
    <2>1. \A u \in Run : /\ run'[u].stage \in Leased => owner' = u /\ model' = Wanted(u)'
                         /\ run'[u].outcome \in Content => run'[u].outcome = Wanted(u)'
      BY <1>3, NeuronAssumption DEF Start, OwnCleanWeights, Wanted, Fingerprint, Leased, Unsuccessful
    <2>2. Active' = {} => owner' = Nobody
      BY <1>4, <1>5 DEF Active, Exclusive, Held, NeuronTypes
    <2> QED BY <1>4, <2>1, <2>2 DEF Start, OwnCleanWeights
  <1> QED BY <1>4, <1>5, <1>6

LEMMA RefuseKeeps ==
  ASSUME NeuronInv, Refuse
  PROVE  NeuronInv'
  <1> USE DEF NeuronInv
  <1>1. \A u \in Run : /\ run'[u].stage = run[u].stage /\ run'[u].source = run[u].source
                       /\ run'[u].outcome = run[u].outcome
    BY DEF Refuse, NeuronTypes
  <1>2. NeuronTypes' /\ NeuronTypeOK'
    BY DEF Refuse, NeuronTypes, NeuronTypeOK
  <1>3. Exclusive'
    BY <1>1 DEF Refuse, Exclusive
  <1>4. OwnCleanWeights'
    <2>1. Active' = Active /\ \A u \in Run : Wanted(u)' = Wanted(u)
      BY <1>1 DEF Active, Wanted, Fingerprint
    <2> QED BY <1>1, <1>2, <2>1 DEF Refuse, OwnCleanWeights
  <1> QED BY <1>2, <1>3, <1>4

LEMMA UnloadKeeps ==
  ASSUME NeuronInv, Unload
  PROVE  NeuronInv'
  <1>1. NeuronTypes' /\ NeuronTypeOK' /\ Exclusive'
    BY DEF NeuronInv, NeuronTypes, NeuronTypeOK, Exclusive, Unload, Drop
  <1>2. \A t \in Run : run[t].stage \notin Leased
    BY DEF Unload, Active, Leased
  <1>3. OwnCleanWeights'
    BY <1>1, <1>2 DEF NeuronInv, OwnCleanWeights, Unload, Drop, Active, Wanted, Fingerprint
  <1> QED BY <1>1, <1>3 DEF NeuronInv

-----------------------------------------------------------------------------
(* The application: every step keeps the three invariants.                 *)

LEMMA InitIInv == Init => IInv
  <1> SUFFICES ASSUME Init PROVE IInv
    OBVIOUS
  <1> USE Keys, FilesAssumption, ServiceAssumption, NeuronAssumption
      DEF Init, ServiceInit, NeuronInit, NoJob, NoRequest, NoRun
  <1>1. ServiceTypes
    <2>1. job \in [Job -> [stage : ServiceStage, source : 0..Versions \cup {None}]]
      BY DEF ServiceStage, Working
    <2>2. req \in [Client -> Requests]
      BY DEF Requests, RequestStage
    <2>3. prepared \in [Content -> {None, "graph"} \cup Reason] /\ disk \in 0..Versions
      OBVIOUS
    <2> QED BY <2>1, <2>2, <2>3 DEF ServiceTypes
  <1>2. \A k \in Content : job[k] = NoJob
    OBVIOUS
  <1>3. Sourced
    BY DEF Sourced, Sourcing
  <1>4. Truthful
    BY DEF Truthful, Reason
  <1>5. Alone /\ Asking
    BY <1>2 DEF Alone, Asking
  <1>6. ToldOfItsContent /\ OnePreparation
    BY <1>2 DEF ToldOfItsContent, OnePreparation, Reason
  <1>7. NeuronTypes /\ Exclusive
    BY DEF NeuronTypes, NeuronStage, Exclusive, Held
  <1>8. OwnCleanWeights
    BY DEF OwnCleanWeights, NeuronTypeOK, NeuronStage, Leased
  <1>9. Closing
    BY DEF Closing, Phase
  <1> QED BY <1>1, <1>3, <1>4, <1>5, <1>6, <1>7, <1>8, <1>9 DEF IInv, ServiceInv, NeuronInv

\* The steps of the service and of the runtime do not disturb the teardown.
LEMMA StaysClosed ==
  ASSUME ServiceInv, Closing, UNCHANGED <<phase, exiting>>, stop => stop', pool' = pool,
         phase # "starting" => job'[Startup] = NoJob,
         phase = "starting" => job'[Startup] # NoJob,
         phase \in {"architectures", "pool", "closed"} => Active' = {} /\ model' = Nobody,
         phase \in {"pool", "closed"} => Pending' = {}
  PROVE  Closing'
  BY DEF Closing

LEMMA WorksKeeps ==
  ASSUME IInv, NEW j \in Job, Works(j)
  PROVE  IInv'
  <1> USE DEF IInv, Works
  <1>1. ServiceInv' /\ NeuronInv'
    BY WorkerKeeps, ApartKeeps
  <1>2. /\ job[j].stage \notin {"none", "queued"} /\ job'[j].stage # "none"
        /\ \A i \in Job \ {j} : job'[i] = job[i]
        /\ UNCHANGED <<stop, pool>>
    <2> USE DEF Returns, Record, Goto, SourceChanged, ServiceInv, ServiceTypes, Working, Ended
    <2>1. CASE Probe(j) \/ Pin(j) \/ Check(j) \/ Select(j) \/ Find(j) \/ Hit(j)
      BY <2>1 DEF Probe, Pin, Check, Select, Find, Hit
    <2>2. CASE Analyze(j) \/ Write(j) \/ Rehashed(j) \/ Rename(j) \/ IoError(j)
      BY <2>2 DEF Analyze, Write, Rehashed, Rename, IoError
    <2> QED BY <2>1, <2>2 DEF Worker
  <1>3. phase # "starting" => j # Startup /\ j \in Content /\ j \in Pending
    BY <1>2 DEF Closing, NoJob, Pending, Job
  <1>4. Closing'
    <2>1. phase # "starting" => job'[Startup] = NoJob
      BY <1>2, <1>3, Keys DEF Closing
    <2>2. phase = "starting" => job'[Startup] # NoJob
      BY <1>2, Keys DEF Closing, NoJob
    <2>3. Active' = Active /\ model' = model
      BY DEF Active
    <2> QED BY <1>2, <1>3, <2>1, <2>2, <2>3, StaysClosed DEF Closing
  <1> QED BY <1>1, <1>4

LEMMA TasksKeeps ==
  ASSUME IInv, NEW k \in Content, Tasks(k)
  PROVE  IInv'
  <1> USE DEF IInv, Tasks
  <1>1. ServiceInv' /\ NeuronInv'
    BY EnsureKeeps, FinishedKeeps, ApartKeeps
  <1>2. /\ k \in Pending /\ job'[Startup] = job[Startup] /\ UNCHANGED <<stop, pool>>
    BY Keys DEF Ensure, Finished, Goto, Ended, Pending, ServiceInv, ServiceTypes
  <1>3. Active' = Active /\ model' = model
    BY DEF Active
  <1>4. Closing'
    BY <1>2, <1>3, StaysClosed DEF Closing
  <1> QED BY <1>1, <1>4

\* Requests start no task once the service is told to stop.
LEMMA ServesKeeps ==
  ASSUME IInv, NEW c \in Client, Serves(c)
  PROVE  IInv'
  <1> USE DEF IInv, Serves
  <1>1. ServiceInv' /\ NeuronInv'
    BY ServingKeeps, ApartKeeps
  <1>2. CASE ~Enter(c)
    <2>1. UNCHANGED Jobs
      BY <1>2 DEF Serving, Checked, Lookup, Serve, Guard, Moves, Answers
    <2> QED BY <1>1, <2>1, StaysClosed DEF Closing, Pending, Active
  <1>3. CASE Enter(c)
    <2>1. /\ UNCHANGED <<stop, pool>> /\ job'[Startup] = job[Startup]
          /\ stop => job' = job
      BY <1>3, Begun, Keys DEF Enter, Moves, Answers, ServiceInv, ServiceTypes
    <2> QED BY <1>1, <2>1, StaysClosed DEF Closing, Pending, Active
  <1> QED BY <1>2, <1>3

\* Runs go on only while there are some.
LEMMA RunsKeeps ==
  ASSUME IInv, NEW t \in Run, Runs(t) \/ (CancelRun(t) /\ UNCHANGED Architecture)
  PROVE  IInv'
  <1> USE DEF IInv, Runs
  <1>1. disk' = disk /\ UNCHANGED Architecture
    BY DEF Progress, Own, Occupy, Return, Execute, Inspect, Load, Lease, Compute, Verify,
           Finalize, CancelRun
  <1>2. ServiceInv' /\ NeuronInv'
    BY <1>1, SurroundingsKeep, ProgressKeeps, CancelKeeps DEF ServiceInv, ServiceTypes
  <1>3. t \in Active
    BY DEF Active, Progress, Own, Occupy, Return, Execute, Inspect, Load, Lease, Compute, Verify,
           Finalize, CancelRun
  <1>4. Closing'
    BY <1>1, <1>3, StaysClosed DEF Closing, Pending
  <1> QED BY <1>2, <1>4

LEMMA RequestsKeep ==
  ASSUME IInv, NEW c \in Client, Request(c)
  PROVE  IInv'
  <1> USE DEF IInv, Request
  <1>0. phase = "ready" /\ job[Startup] = NoJob /\ disk \in 0..Versions /\ c \in Run
    BY ServicesAssumption DEF Closing, ServiceInv, ServiceTypes
  <1>1. CASE Get(c) /\ UNCHANGED Rest
    <2>1. ServiceInv' /\ NeuronInv'
      BY <1>0, <1>1, GetKeeps, ApartKeeps
    <2> QED BY <1>0, <1>1, <2>1, StaysClosed DEF Get
  <1>2. CASE Start(c) /\ UNCHANGED Architecture
    <2>1. ServiceInv' /\ NeuronInv'
      BY <1>0, <1>2, StartKeeps, SurroundingsKeep DEF Start, ServiceInv, ServiceTypes
    <2> QED BY <1>0, <1>2, <2>1, StaysClosed
  <1> QED BY <1>1, <1>2

LEMMA EnvironmentKeeps ==
  ASSUME IInv, Environment
  PROVE  IInv'
  <1> USE DEF IInv
  <1>1. CASE Change /\ UNCHANGED <<serviceVars, neuronVars, phase, exiting>>
    <2>1. ServiceInv' /\ NeuronInv'
      BY <1>1, SurroundingsKeep, ApartKeeps DEF ServiceInv, ServiceTypes
    <2> QED BY <1>1, <2>1, StaysClosed DEF Closing, Pending, Active
  <1>2. CASE Evict /\ UNCHANGED Rest
    <2>1. ServiceInv' /\ NeuronInv'
      BY <1>2, SurroundingsKeep, ApartKeeps DEF Evict, ServiceInv, ServiceTypes
    <2> QED BY <1>2, <2>1, StaysClosed DEF Evict, Closing, Pending, Active
  <1>3. ASSUME NEW c \in Client, Leave(c), UNCHANGED Rest PROVE IInv'
    <2>1. ServiceInv' /\ NeuronInv'
      BY <1>3, LeaveKeeps, ApartKeeps
    <2> QED BY <1>3, <2>1, StaysClosed DEF Leave, Left, Closing, Pending, Active
  <1> QED BY <1>1, <1>2, <1>3, RunsKeeps DEF Environment

\* The startup ends, or the server is told to exit, or its requests have been drained.
LEMMA PhasesKeep ==
  ASSUME IInv, Prepared \/ Exit \/ Drained(TRUE) \/ Drained(FALSE)
  PROVE  IInv'
  <1> USE DEF IInv
  <1>1. CASE Prepared
    <2>1. ServiceInv' /\ NeuronInv'
      BY <1>1, StartupKeeps, ApartKeeps DEF Prepared
    <2>2. job'[Startup] = NoJob /\ phase' \in {"ready", "sessions"} /\ pool' = pool
      BY <1>1, Keys DEF Prepared, ServiceInv, ServiceTypes
    <2> QED BY <1>1, <2>1, <2>2 DEF Prepared, Closing, Phase
  <1>2. CASE Exit
    <2>1. ServiceInv' /\ NeuronInv'
      BY <1>2, SurroundingsKeep, ApartKeeps DEF Exit, Stop, ServiceInv, ServiceTypes
    <2> QED BY <1>2, <2>1 DEF Exit, Stop, Closing, Phase
  <1>3. CASE Drained(TRUE) \/ Drained(FALSE)
    <2>1. ServiceInv' /\ NeuronInv'
      BY <1>3, SurroundingsKeep, ApartKeeps DEF Drained, ServiceInv, ServiceTypes
    <2> QED BY <1>3, <2>1 DEF Drained, Closing, Phase
  <1> QED BY <1>1, <1>2, <1>3

\* Each step of the teardown leaves nothing of what it has closed.
LEMMA TeardownKeeps ==
  ASSUME IInv, Teardown \/ CloseSessions(TRUE)
  PROVE  IInv'
  <1> USE DEF IInv
  <1>1. CASE CloseSessions(TRUE) \/ CloseSessions(FALSE)
    <2>1. ServiceInv' /\ NeuronInv'
      BY <1>1, SurroundingsKeep, RefuseKeeps DEF CloseSessions, Refuse, ServiceInv, ServiceTypes
    <2> QED BY <1>1, <2>1 DEF CloseSessions, Closing, Phase
  <1>2. CASE CloseNeurons
    <2>1. ServiceInv' /\ NeuronInv'
      BY <1>2, SurroundingsKeep, UnloadKeeps
         DEF CloseNeurons, NeuronsSettled, Stop, ServiceInv, ServiceTypes
    <2>2. stop' /\ Active' = {} /\ model' = Nobody /\ UNCHANGED <<job, pool>>
      BY <1>2 DEF CloseNeurons, NeuronsSettled, Unload, Stop, Drop, Active
    <2> QED BY <1>2, <2>1, <2>2 DEF CloseNeurons, Closing, Phase
  <1>3. CASE CloseArchitectures
    <2>1. ServiceInv' /\ NeuronInv'
      BY <1>3, SurroundingsKeep, ApartKeeps DEF CloseArchitectures, ServiceInv, ServiceTypes
    <2>2. Pending' = {} /\ Active' = Active
      BY <1>3 DEF CloseArchitectures, ArchitecturesSettled, Pending, Active
    <2> QED BY <1>3, <2>1, <2>2 DEF CloseArchitectures, Closing, Phase
  <1>4. CASE ClosePool
    <2>1. /\ req' \in [Client -> Requests]
          /\ \A c \in Client :
               \/ req'[c] = req[c]
               \/ /\ req[c].stage # "none" /\ req'[c].stage = "done"
                  /\ req'[c].source = req[c].source /\ req'[c].answer = "failed"
      BY <1>4 DEF ClosePool, InThread, ServiceInv, ServiceTypes, Requests, RequestStage, Answered,
                  Ended
    <2>2. ServiceInv' /\ NeuronInv'
      BY <1>4, <2>1, PoolKeeps, ApartKeeps DEF ClosePool
    <2>3. Pending' = Pending /\ Active' = Active
      BY <1>4 DEF ClosePool, Pending, Active
    <2> QED BY <1>4, <2>2, <2>3 DEF ClosePool, Closing, Phase
  <1> QED BY <1>1, <1>2, <1>3, <1>4 DEF Teardown

LEMMA CancelAllKeeps ==
  ASSUME IInv, CancelAll
  PROVE  IInv'
  BY RunsKeeps DEF CancelAll

LEMMA NextIInv == IInv /\ [Next]_vars => IInv'
  <1> SUFFICES ASSUME IInv, [Next]_vars PROVE IInv'
    OBVIOUS
  <1>1. CASE Step
    BY <1>1, ServesKeeps, WorksKeeps, TasksKeeps, RunsKeeps, PhasesKeep, CancelAllKeeps,
       TeardownKeeps DEF Step
  <1>2. CASE UNCHANGED vars
    <2>1. ServiceInv' /\ NeuronInv'
      BY <1>2, SurroundingsKeep, ApartKeeps DEF IInv, ServiceInv, ServiceTypes
    <2> QED BY <1>2, <2>1, StaysClosed DEF IInv, Closing, Pending, Active
  <1> QED BY <1>1, <1>2, EnvironmentKeeps, PhasesKeep, TeardownKeeps, RequestsKeep DEF Next

\* The services, their analyses and their runs are in the states that the invariant
\* describes, whatever the clients, the files and the shutdown do.
THEOREM Invariance == Spec => []IInv
  BY InitIInv, NextIInv, PTL DEF Spec

-----------------------------------------------------------------------------
(* The properties.                                                         *)

\* get() and _prepare_one of architecture_service.py: a session is told what is true of the
\* content it has pinned, and whoever looks a result up finds one.
THEOREM AnswersAreTrue == Spec => []ToldOfItsContent
  <1>1. IInv => ToldOfItsContent
    BY DEF IInv, ServiceInv
  <1> QED BY <1>1, Invariance, PTL

\* _ensure of architecture_service.py: one analysis at a time, and one per content.
THEOREM PreparedOnce == Spec => []OnePreparation
  <1>1. IInv => OnePreparation
    BY DEF IInv, ServiceInv
  <1> QED BY <1>1, Invariance, PTL

\* _execute of neuron_execution/runtime.py: a run computes with clean weights of the content
\* that its session has pinned, alone with them.
THEOREM RunsAreClean == Spec => []OwnCleanWeights
  <1>1. IInv => OwnCleanWeights
    BY DEF IInv, NeuronInv
  <1> QED BY <1>1, Invariance, PTL

\* _close of services.py: no step publishes or prepares anything after the teardown of the
\* architectures, and the pool outlives all that works with it.
THEOREM NothingIsLeft == Spec => NothingAfterClose
  <1>1. IInv => PoolClosedLast
    BY DEF IInv, PoolClosedLast, Closing, ServiceInv, ServiceTypes, ServiceTypeOK, ServiceStage,
           RequestStage, Requests
  <1>2. ASSUME IInv, Next, phase \in {"pool", "closed"}
        PROVE  prepared' = prepared /\ model' = model /\ stored' \subseteq stored
    <2>1. Pending = {} /\ Active = {} /\ job[Startup] = NoJob /\ model = Nobody
      BY <1>2 DEF IInv, Closing
    <2>2. ASSUME NEW j \in Job, Worker(j) PROVE FALSE
      <3>1. job[j].stage \notin {"none", "queued"}
        BY <2>2 DEF Worker, Probe, Pin, Check, Select, Find, Hit, Analyze, Write, Rehashed, Rename,
                    IoError
      <3> QED BY <2>1, <3>1 DEF Pending, NoJob, Job
    <2>3. ASSUME NEW t \in Run, Progress(t) \/ CancelRun(t) PROVE FALSE
      BY <2>1, <2>3 DEF Active, Progress, Own, Occupy, Return, Execute, Inspect, Load, Lease,
                        Compute, Verify, Finalize, CancelRun
    <2>4. CASE \E c \in Client : Serves(c)
      BY <2>4 DEF Serves, Serving, Checked, Enter, Lookup, Serve, Guard, Moves, Answers
    <2>5. CASE \E k \in Content : Tasks(k)
      BY <2>5 DEF Tasks, Ensure, Finished
    <2>6. CASE Environment
      BY <2>3, <2>6 DEF Environment, Leave, Evict
    <2>7. CASE ClosePool
      BY <2>7 DEF ClosePool
    <2>8. phase \notin {"starting", "ready", "draining", "sessions", "neurons", "architectures"}
      BY <1>2
    <2>9. Step => (\E c \in Client : Serves(c)) \/ (\E k \in Content : Tasks(k)) \/ ClosePool
      BY <2>2, <2>3, <2>8 DEF Step, Works, Runs, Prepared, CancelAll, Teardown, CloseSessions,
                              CloseNeurons, CloseArchitectures, Drained
    <2> QED BY <1>2, <2>4, <2>5, <2>6, <2>7, <2>8, <2>9 DEF Next, Exit, Drained, CloseSessions, Request
  <1>3. IInv /\ [Next]_vars =>
          [(phase \in {"pool", "closed"}) =>
             /\ prepared' = prepared /\ model' = model
             /\ stored' \subseteq stored]_vars
    BY <1>2
  <1> QED BY <1>1, <1>3, Invariance, PTL DEF Spec, NothingAfterClose

=============================================================================
