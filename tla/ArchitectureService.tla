------------------------- MODULE ArchitectureService -------------------------
(***************************************************************************)
(* Preparation and retrieval of architecture graphs                        *)
(* (backend/src/llm_model_explorer/architecture_service.py).               *)
(*                                                                         *)
(* A result is prepared once per (model, fingerprint), at startup for the  *)
(* catalogue and otherwise on demand, by a task that the event loop owns   *)
(* and whose waiters may leave.  The work is done in one thread at a time, *)
(* file by file, while the files change, the cache directory fails or      *)
(* loses entries, and the stop flag is set.  One model is enough: a key is *)
(* the content of its files.                                               *)
(***************************************************************************)
EXTENDS PinnedFiles

CONSTANTS
    Client,     \* the requests
    Outcome,    \* what selection and analysis make of each content
    Startup,    \* the job of prepare()
    None

Reason == {"unsupported_architecture", "analysis_failed"}

ASSUME ServiceAssumption ==
    /\ Outcome \in [Content -> Reason \cup {"graph"}]
    /\ Startup \notin Content
    /\ None \notin Content \cup 0..Versions
    /\ None \notin Reason \cup {"graph", "cache_unavailable"}

VARIABLES
    prepared,   \* _prepared: a graph, or the reason why there is none
    stored,     \* the contents with a valid artifact in the store
    job,        \* _pending and the startup: the stage and the source of each task
    lock,       \* the job with _analysis_lock
    stop,       \* _stop is set
    pool,       \* the thread pool takes calls
    req         \* each request: its stage, its source and what it is answered

jobVars == <<prepared, job, lock>>
serviceVars == <<prepared, stored, job, lock, stop, pool, req>>

Job == Content \cup {Startup}
NoJob == [stage |-> "none", source |-> None]
NoRequest == [stage |-> "none", source |-> None, answer |-> None]

ServiceInit ==
    /\ disk = 0
    /\ prepared = [k \in Content |-> None] /\ stored = {}
    /\ job = [j \in Job |-> IF j = Startup THEN [stage |-> "probe", source |-> None] ELSE NoJob]
    /\ lock = None /\ stop = FALSE /\ pool = TRUE
    /\ req = [c \in Client |-> NoRequest]

-----------------------------------------------------------------------------
(* _prepare_one, in a thread.                                              *)

Source(j) == job[j].source
Key(j) == Fingerprint(Source(j))
Goto(j, stage) == job' = [job EXCEPT ![j].stage = stage]
Others == <<disk, lock, stop, pool, req>>

\* The thread ends: the task will find what it returned or raised.
Returns(j, result) == Goto(j, result) /\ UNCHANGED <<prepared, stored, Others>>

\* Terminal for this content, whoever asks for it later.
Record(j, value) ==
    /\ prepared' = [prepared EXCEPT ![Key(j)] = value]
    /\ Goto(j, "ok")
    /\ UNCHANGED Others

\* Mutant: the error of a changed source is left to the guard of lookup().
SourceChanged_Unrecorded(j) == Returns(j, "ok")
\* The source has changed: a ModelError, and so a failed analysis.
SourceChanged(j) == Record(j, "analysis_failed") /\ UNCHANGED stored

\* _check_storage, and the snapshot of the entry.
Probe(j) ==
    /\ job[j].stage = "probe"
    /\ \/ Returns(j, "failed")
       \/ Returns(j, "pin")

\* entry.pin() hashes the files: if they change meanwhile, nothing is recorded.
Pin(j) ==
    /\ job[j].stage = "pin"
    /\ IF stop THEN Returns(j, "stopped")
       ELSE \/ /\ job' = [job EXCEPT ![j] = [stage |-> "check", source |-> disk]]
               /\ UNCHANGED <<prepared, stored, Others>>
            \/ Returns(j, "ok")

Check(j) ==
    /\ job[j].stage = "check"
    /\ IF ~Unchanged(Source(j)) THEN SourceChanged(j) ELSE Returns(j, "select")

\* Guarded reads of the configuration, and the registry's choice.
Select(j) ==
    /\ job[j].stage = "select"
    /\ IF stop THEN Returns(j, "stopped")
       ELSE IF ~Unchanged(Source(j)) THEN SourceChanged(j)
       ELSE IF Outcome[Key(j)] = "unsupported_architecture"
            THEN Record(j, "unsupported_architecture") /\ UNCHANGED stored
            ELSE Returns(j, "find")

Find(j) ==
    /\ job[j].stage = "find"
    /\ Returns(j, IF Key(j) \in stored THEN "hit" ELSE "analyze")

Hit(j) ==
    /\ job[j].stage = "hit"
    /\ IF ~Unchanged(Source(j)) THEN SourceChanged(j)
       ELSE IF stop THEN Returns(j, "stopped")
       ELSE Record(j, "graph") /\ UNCHANGED stored

\* The graph is built from what was read before, whatever the files are now.
Analyze(j) ==
    /\ job[j].stage = "analyze"
    /\ IF stop THEN Returns(j, "stopped")
       ELSE IF Outcome[Key(j)] = "analysis_failed"
            THEN Record(j, "analysis_failed") /\ UNCHANGED stored
            ELSE Returns(j, "write")

\* check_publication, with the publication lock: stop, rehash, stop.
Write(j) ==
    /\ job[j].stage = "write"
    /\ IF stop THEN Returns(j, "stopped")
       ELSE IF ~Unchanged(Source(j)) THEN SourceChanged(j)
       ELSE Returns(j, "rehashed")

Rehashed(j) ==
    /\ job[j].stage = "rehashed"
    /\ Returns(j, IF stop THEN "stopped" ELSE "rename")

\* The entry is renamed into place, and the result is recorded.
Rename(j) ==
    /\ job[j].stage = "rename"
    /\ stored' = stored \cup {Key(j)}
    /\ Record(j, "graph")

\* An OSError or MemoryError: the request fails, a startup records it if the cache can
\* still be written, and fails otherwise.
IoError(j) ==
    /\ job[j].stage \in {"find", "analyze", "write", "rename"}
    /\ \/ Returns(j, "failed")
       \/ j = Startup /\ Record(j, "analysis_failed") /\ UNCHANGED stored

Worker(j) ==
    \/ Probe(j) \/ Pin(j) \/ Check(j) \/ Select(j) \/ Find(j) \/ Hit(j) \/ Analyze(j)
    \/ Write(j) \/ Rehashed(j) \/ Rename(j) \/ IoError(j)

-----------------------------------------------------------------------------
(* The task of a key.                                                      *)

Ended == {"ok", "stopped", "failed"}
\* In a thread, or ended there with the task still to notice.
Working == {"probe", "pin", "check", "select", "find", "hit", "analyze", "write", "rehashed",
            "rename"} \cup Ended

\* _ensure: with _analysis_lock, _check_stop and a thread.
Ensure(k) ==
    /\ job[k].stage = "queued" /\ lock = None
    /\ IF stop THEN Goto(k, "stopped") /\ UNCHANGED lock
       ELSE Goto(k, "check") /\ lock' = k
    /\ UNCHANGED <<disk, prepared, stored, stop, pool, req>>

Answer(c, value) == [req EXCEPT ![c].stage = "done", ![c].answer = value]

\* Mutant: an error is kept for the callback, which nobody listens to.
Woken_IfOk(k) ==
    [c \in Client |->
        IF req[c].stage = "waiting" /\ Fingerprint(req[c].source) = k /\ job[k].stage = "ok"
        THEN [req[c] EXCEPT !.stage = "lookup"]
        ELSE req[c]]
\* What the shield gives to those who still wait: the end of the task, or its exception.
Woken(k) ==
    [c \in Client |->
        IF req[c].stage = "waiting" /\ Fingerprint(req[c].source) = k
        THEN IF job[k].stage = "ok" THEN [req[c] EXCEPT !.stage = "lookup"]
             ELSE [req[c] EXCEPT !.stage = "done", !.answer = job[k].stage]
        ELSE req[c]]

\* The task ends: _finished forgets it, and its waiters go on.
Finished(k) ==
    /\ k \in Content /\ job[k].stage \in Ended
    /\ job' = [job EXCEPT ![k] = NoJob]
    /\ lock' = IF lock = k THEN None ELSE lock
    /\ req' = Woken(k)
    /\ UNCHANGED <<disk, prepared, stored, stop, pool>>

-----------------------------------------------------------------------------
(* get()                                                                   *)

Jobs == <<disk, prepared, stored, job, lock, stop, pool>>
Moves(c, stage) == req' = [req EXCEPT ![c].stage = stage] /\ UNCHANGED Jobs
Answers(c, value) == req' = Answer(c, value) /\ UNCHANGED Jobs

\* A session that pinned the files at some time asks for its architecture.
Get(c) ==
    /\ req[c].stage = "none"
    /\ \E v \in 0..disk : req' = [req EXCEPT ![c].stage = "check", ![c].source = v]
    /\ UNCHANGED Jobs

\* check_unchanged, in a thread.
Checked(c) ==
    /\ req[c].stage = "check"
    /\ IF Unchanged(req[c].source) THEN Moves(c, "enter") ELSE Answers(c, "changed")

\* Back on the loop: prepared, in preparation, or to be prepared.
Enter(c) ==
    LET k == Fingerprint(req[c].source)
    IN  /\ req[c].stage = "enter"
        /\ IF stop THEN Answers(c, "stopped")
           ELSE IF prepared[k] # None THEN Moves(c, "lookup")
           ELSE /\ req' = [req EXCEPT ![c].stage = "waiting"]
                /\ job' = IF job[k] = NoJob
                          THEN [job EXCEPT ![k] = [stage |-> "queued", source |-> req[c].source]]
                          ELSE job
                /\ UNCHANGED <<disk, prepared, stored, lock, stop, pool>>

\* lookup(), in a thread: the source is guarded on both sides.
Lookup(c) ==
    /\ req[c].stage = "lookup"
    /\ IF Unchanged(req[c].source) THEN Moves(c, "serve") ELSE Answers(c, "changed")

Serve(c) ==
    LET k == Fingerprint(req[c].source)
    IN  /\ req[c].stage = "serve" /\ prepared[k] # None
        /\ req' = [req EXCEPT ![c].stage = "guard",
             ![c].answer = IF prepared[k] # "graph" THEN prepared[k]
                           ELSE IF k \in stored THEN "graph" ELSE "cache_unavailable"]
        /\ UNCHANGED Jobs

Guard(c) ==
    /\ req[c].stage = "guard"
    /\ Answers(c, IF Unchanged(req[c].source) THEN req[c].answer ELSE "changed")

\* Mutant: the task is awaited without a shield.
Left_Cancels(k) == [job EXCEPT ![k] = NoJob]
\* The shared task goes on.
Left(k) == job

\* The client leaves.
Leave(c) ==
    /\ req[c].stage = "waiting"
    /\ req' = Answer(c, "left")
    /\ job' = Left(Fingerprint(req[c].source))
    /\ UNCHANGED <<disk, prepared, stored, lock, stop, pool>>

Serving(c) == Checked(c) \/ Enter(c) \/ Lookup(c) \/ Serve(c) \/ Guard(c)

-----------------------------------------------------------------------------
\* The cache directory loses an entry.
Evict ==
    /\ \E k \in stored : stored' = stored \ {k}
    /\ UNCHANGED <<disk, prepared, job, lock, stop, pool, req>>

\* aclose() begins, or the server is told to exit while it starts.
Stop == stop' = TRUE /\ UNCHANGED <<disk, prepared, stored, job, lock, pool, req>>

Pending == {k \in Content : job[k].stage # "none"}

-----------------------------------------------------------------------------
ServiceTypeOK ==
    /\ disk \in 0..Versions
    /\ prepared \in [Content -> {None, "graph"} \cup Reason]
    /\ stored \subseteq Content
    /\ \A j \in Job : job[j].stage \in Working \cup {"none", "queued"}
    /\ lock \in Content \cup {None} /\ stop \in BOOLEAN /\ pool \in BOOLEAN
    /\ \A c \in Client :
        req[c].stage \in {"none", "check", "enter", "waiting", "lookup", "serve", "guard", "done"}

\* What a session is told is true of the content it has pinned, though the result was
\* prepared for another session, or for none, while the files were changing; and whoever
\* looks a result up finds one.
ToldOfItsContent ==
    /\ \A k \in stored : Outcome[k] = "graph"
    /\ \A c \in Client :
        LET k == Fingerprint(req[c].source)
        IN  /\ req[c].stage \in {"lookup", "serve", "guard"} => prepared[k] # None
            /\ req[c].answer \in {"graph", "cache_unavailable"} => Outcome[k] = "graph"
            /\ req[c].answer = "unsupported_architecture" =>
                 Outcome[k] = "unsupported_architecture"

\* One analysis at a time, and one per content: who waits has a task to wait for, even if
\* those who came before have left, and a content is not prepared twice.
OnePreparation ==
    /\ \A k \in Content : lock # k => job[k].stage \in {"none", "queued", "stopped"}
    /\ \A c \in Client :
        req[c].stage = "waiting" => job[Fingerprint(req[c].source)].stage # "none"
    /\ \A k \in Content :
        prepared[k] # None => job[k].stage \in {"none", "ok"}
=============================================================================
