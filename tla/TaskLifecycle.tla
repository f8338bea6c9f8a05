--------------------------- MODULE TaskLifecycle ----------------------------
(***************************************************************************)
(* One task of TaskService (agent/runtime/task_execution.py) over its      *)
(* durable state (agent/session/runtime.py, infra/db/session_store.py).    *)
(*                                                                         *)
(* The row of task_runs and the log task_events are the shared state.  The *)
(* coroutines that touch them are the runners (_execute_task) and the      *)
(* handlers of POST /tasks, /reply and /cancel.  A coroutine yields the    *)
(* event loop at every awaited session call, so every awaited call that    *)
(* matters here is an action, and a label names the call a coroutine is    *)
(* waiting on.  Calls that only write other columns (result_text, the      *)
(* route, pending_question, cancel_state, ..) or only read belong to the   *)
(* label of the call that follows them.                                    *)
(*                                                                         *)
(* An event is appended in one transaction.  A write of the status         *)
(* (SessionStore.update_projection) is two steps: it loads the row without *)
(* a lock, then commits, and the commit sends only the columns whose value *)
(* differs from the loaded one (SQLAlchemy's unit of work).  No write has  *)
(* a precondition on the row: what a coroutine decided, and what it        *)
(* loaded, may be stale when it commits.                                   *)
(*                                                                         *)
(* task.cancel() arrives at the call a runner is waiting on: the call may  *)
(* or may not have reached the database, and CancelledError is raised      *)
(* there.  A call may also fail, before or after its transaction commits   *)
(* (the publish that follows the commit can fail too).  The process may    *)
(* crash or be shut down, and recovers its unfinished tasks on start.      *)
(***************************************************************************)
EXTENDS Naturals, FiniteSets

CONSTANTS
  Repliers,     \* calls of POST /tasks/{id}/reply
  Cancellers,   \* calls of POST /tasks/{id}/cancel
  MaxRunners,   \* bound: executions of the task, all processes together
  MaxMishaps    \* bound: process exits and failed calls, taken together

Runners == 1 .. MaxRunners
NoRunner == 0

ASSUME RunnersSuffice ==
  /\ IsFiniteSet(Repliers) /\ IsFiniteSet(Cancellers)
  /\ MaxMishaps \in Nat /\ MaxRunners \in Nat
  /\ MaxRunners >= 1 + Cardinality(Repliers) + MaxMishaps

ASSUME Distinct ==
  /\ Repliers \cap Cancellers = {}
  /\ Runners \cap (Repliers \cup Cancellers) = {}

VARIABLES
  status,     \* task_runs.status; "absent" before the row exists
  logged,     \* kinds of events in task_events
  charged,    \* record_task_usage was committed
  seen,       \* coroutine -> the status its pending write has loaded
  tracked,    \* TaskService._runner_tasks[task_id], 0 when absent
  pc,         \* runner -> the call it waits on
  kill,       \* runner -> task.cancel() was called and not yet delivered
  submit,     \* the POST /tasks handler
  reply,      \* replier -> the call it waits on
  cancel,     \* canceller -> the call it waits on
  target,     \* canceller -> the runner it took from _runner_tasks
  mode,       \* the process: "up", "closing", "down"
  mishaps,    \* process exits and failed calls so far
  lost        \* history: a failed call ended a coroutine since the last start

core == <<status, logged, charged>>
runners == <<tracked, pc, kill>>
handlers == <<submit, reply, cancel, target>>
world == <<mode, mishaps, lost>>
vars == <<core, seen, runners, handlers, world>>

----------------------------------------------------------------------------
(* Types *)

Terminal == {"succeeded", "failed", "cancelled"}
Status == {"absent", "queued", "running", "waiting_for_user"} \cup Terminal
Kinds == {"started", "question", "answer", "completed", "failed", "cancelled"}

\* The value of seen for a coroutine without a loaded row.
Unread == "absent"

Coroutines == Runners \cup Repliers \cup Cancellers

PreTry == {"mark_started", "log_started", "rejoin"}
InTry == {"stream", "ask", "log_question", "drain", "log_completed"}
OnError == {"log_failed", "finish_failed"}
Finalize == {"fin_get", "fin_log", "fin_cancel"}
PostTry == {"charge", "finish_ok"}
Live == PreTry \cup InTry \cup OnError \cup Finalize \cup PostTry
RunnerPc == Live \cup {"unused", "done"}
ReplyPc == {"idle", "resume", "log_answer", "spawn", "done"}
CancelPc == {"idle", "log_request", "request", "stop", "await", "latest", "done"} \cup Finalize

TypeOK ==
  /\ status \in Status
  /\ logged \subseteq Kinds
  /\ charged \in BOOLEAN
  /\ seen \in [Coroutines -> Status]
  /\ tracked \in Runners \cup {NoRunner}
  /\ pc \in [Runners -> RunnerPc]
  /\ kill \in [Runners -> BOOLEAN]
  /\ submit \in {"idle", "spawn", "done"}
  /\ reply \in [Repliers -> ReplyPc]
  /\ cancel \in [Cancellers -> CancelPc]
  /\ target \in [Cancellers -> Runners \cup {NoRunner}]
  /\ mode \in {"up", "closing", "down"}
  /\ mishaps \in 0 .. MaxMishaps
  /\ lost \in BOOLEAN

Init ==
  /\ status = "absent"
  /\ logged = {}
  /\ charged = FALSE
  /\ seen = [x \in Coroutines |-> Unread]
  /\ tracked = NoRunner
  /\ pc = [r \in Runners |-> "unused"]
  /\ kill = [r \in Runners |-> FALSE]
  /\ submit = "idle"
  /\ reply = [h \in Repliers |-> "idle"]
  /\ cancel = [h \in Cancellers |-> "idle"]
  /\ target = [h \in Cancellers |-> NoRunner]
  /\ mode = "up"
  /\ mishaps = 0
  /\ lost = FALSE

----------------------------------------------------------------------------
(* SessionStore and SessionRuntime: what each call writes *)

\* Definitions named Mut... are plausible bugs; no action uses them.  A run with
\* one put in the place of the definition that follows must find a violation.

\* update_projection loads the row (session.get, no lock) ...
Loads(x) ==
  /\ seen[x] = Unread
  /\ seen' = [seen EXCEPT ![x] = status]

\* ... and commits the status if it differs from the loaded one.
Commits(x, s) ==
  /\ seen[x] # Unread
  /\ status' = IF s = seen[x] THEN status ELSE s
  /\ seen' = [seen EXCEPT ![x] = Unread]
  /\ UNCHANGED <<logged, charged>>

\* record_transition(.., "running") of mark_started, and resume_task
Running(x) == Commits(x, "running")

\* set_waiting_for_user
Waiting(x) == Commits(x, "waiting_for_user")

\* Mutant: the row is given the event's name instead of the status.
MutEnded(x, s) == Commits(x, IF s = "succeeded" THEN "completed" ELSE s)

\* finish_task and cancel_task
Ended(x, s) == Commits(x, s)

LogEvent(k) == logged' = logged \cup {k} /\ UNCHANGED <<status, charged, seen>>
ReadOnly == UNCHANGED <<core, seen>>

----------------------------------------------------------------------------
(* How a coroutine leaves the call it waits on *)

\* CancelledError: caught only inside the try of _execute_task.
OnCancel(l) == IF l \in InTry THEN "fin_get" ELSE "done"

\* Any other exception: the same, and an exception raised by a handler of the
\* try, before it or after it ends the runner.
OnFault(l) == IF l \in InTry THEN "log_failed" ELSE "done"

\* One more call fails; when it ends its coroutine, work may be lost.
Fails(ends) ==
  /\ mishaps < MaxMishaps
  /\ mishaps' = mishaps + 1
  /\ lost' = (lost \/ ends)

NoFailure == UNCHANGED <<mishaps, lost>>

\* Runner r goes on after its call took effect; a cancel that came meanwhile,
\* or a failure after the commit, is raised at that call.
Advance(r, next) ==
  /\ \/ kill[r] /\ pc' = [pc EXCEPT ![r] = OnCancel(pc[r])] /\ NoFailure
     \/ ~kill[r] /\ pc' = [pc EXCEPT ![r] = next] /\ NoFailure
     \/ /\ ~kill[r]
        /\ pc' = [pc EXCEPT ![r] = OnFault(pc[r])]
        /\ Fails(OnFault(pc[r]) = "done")
  /\ kill' = [kill EXCEPT ![r] = FALSE]
  /\ UNCHANGED <<tracked, handlers, mode>>

\* Runner r leaves its call and the call changed nothing.
Raise(r) ==
  /\ pc[r] \in Live
  /\ \/ kill[r] /\ pc' = [pc EXCEPT ![r] = OnCancel(pc[r])] /\ NoFailure
     \/ /\ ~kill[r]
        /\ pc[r] \notin {"stream", "drain"}
        /\ pc' = [pc EXCEPT ![r] = OnFault(pc[r])]
        /\ Fails(OnFault(pc[r]) = "done")
  /\ kill' = [kill EXCEPT ![r] = FALSE]
  /\ seen' = [seen EXCEPT ![r] = Unread]
  /\ UNCHANGED <<core, tracked, handlers, mode>>

\* asyncio.create_task(_execute_task(..)) and _track_runner: the entry of an
\* older runner is overwritten.
SpawnAt(l) ==
  \E r \in Runners :
    /\ pc[r] = "unused"
    /\ \A q \in 1 .. (r - 1) : pc[q] # "unused"
    /\ pc' = [pc EXCEPT ![r] = l]
    /\ tracked' = r
    /\ UNCHANGED kill

\* The done callback of _track_runner pops only the runner's own entry.
Cleanup ==
  /\ tracked # NoRunner
  /\ pc[tracked] = "done"
  /\ tracked' = NoRunner
  /\ UNCHANGED <<core, seen, pc, kill, handlers, world>>

----------------------------------------------------------------------------
(* _execute_task *)

\* The calls of a runner that write the status.
StatusCalls == {"mark_started", "ask", "finish_ok", "finish_failed", "fin_cancel"}

Load(r) ==
  /\ pc[r] \in StatusCalls /\ ~kill[r]
  /\ Loads(r)
  /\ UNCHANGED <<core, runners, handlers, world>>

\* A fresh run: get_task, set_route_info, mark_started; then the other columns
\* are reset and lifecycle.started is logged.
MarkStarted(r) == pc[r] = "mark_started" /\ Running(r) /\ Advance(r, "log_started")
LogStarted(r) == pc[r] = "log_started" /\ LogEvent("started") /\ Advance(r, "stream")

\* A resumed run reads the task and its log; it does not touch the status.
Rejoin(r) == pc[r] = "rejoin" /\ ReadOnly /\ Advance(r, "stream")

\* The graph asks the user: the row waits before the question is in the log.
\* From then on the run is "interrupted": it drains the stream ("drain").
StreamQuestion(r) ==
  /\ pc[r] \in {"stream", "drain"}
  /\ ReadOnly
  /\ Advance(r, "ask")

Ask(r) == pc[r] = "ask" /\ Waiting(r) /\ Advance(r, "log_question")
LogQuestion(r) == pc[r] = "log_question" /\ LogEvent("question") /\ Advance(r, "drain")

\* The coordinator reports failed DAG tasks as lifecycle.failed while it goes on.
StreamFailureNotice(r) ==
  /\ pc[r] \in {"stream", "drain"}
  /\ LogEvent("failed")
  /\ Advance(r, pc[r])

\* The stream ends: an interrupted run leaves its task waiting.
StreamEnd(r) ==
  /\ pc[r] \in {"stream", "drain"}
  /\ ReadOnly
  /\ Advance(r, IF pc[r] = "drain" THEN "done" ELSE "log_completed")

\* The graph raises.
StreamError(r) ==
  /\ pc[r] \in {"stream", "drain"} /\ ~kill[r]
  /\ pc' = [pc EXCEPT ![r] = "log_failed"]
  /\ NoFailure
  /\ UNCHANGED <<core, seen, tracked, kill, handlers, mode>>

\* Mutant: the status is written before the usage record.
MutLogCompleted(r) == pc[r] = "log_completed" /\ LogEvent("completed") /\ Advance(r, "finish_ok")

\* set_result_text, the projection of the results, then lifecycle.completed
LogCompleted(r) == pc[r] = "log_completed" /\ LogEvent("completed") /\ Advance(r, "charge")

\* After the try: ledger and usage record, then the status.
Charge(r) ==
  /\ pc[r] = "charge"
  /\ charged' = TRUE
  /\ UNCHANGED <<status, logged, seen>>
  /\ Advance(r, "finish_ok")

FinishOk(r) == pc[r] = "finish_ok" /\ Ended(r, "succeeded") /\ Advance(r, "done")

\* Mutant: the status is written without the event.
MutLogFailed(r) == pc[r] = "log_failed" /\ ReadOnly /\ Advance(r, "finish_failed")

\* except Exception: set_error_text, lifecycle.failed, finish_task
LogFailed(r) == pc[r] = "log_failed" /\ LogEvent("failed") /\ Advance(r, "finish_failed")
FinishFailed(r) == pc[r] = "finish_failed" /\ Ended(r, "failed") /\ Advance(r, "done")

\* except CancelledError: _finalize_cancelled
FinGet(r) ==
  /\ pc[r] = "fin_get"
  /\ ReadOnly
  /\ Advance(r, IF status = "cancelled" THEN "done" ELSE "fin_log")

FinLog(r) == pc[r] = "fin_log" /\ LogEvent("cancelled") /\ Advance(r, "fin_cancel")
FinCancel(r) == pc[r] = "fin_cancel" /\ Ended(r, "cancelled") /\ Advance(r, "done")

RunnerStep(r) ==
  \/ Load(r)
  \/ MarkStarted(r) \/ LogStarted(r) \/ Rejoin(r)
  \/ Ask(r) \/ LogQuestion(r)
  \/ LogCompleted(r) \/ Charge(r) \/ FinishOk(r)
  \/ LogFailed(r) \/ FinishFailed(r)
  \/ FinGet(r) \/ FinLog(r) \/ FinCancel(r)

Stream(r) ==
  \/ StreamQuestion(r) \/ StreamFailureNotice(r) \/ StreamEnd(r) \/ StreamError(r)

----------------------------------------------------------------------------
(* submit_task *)

SubmitCreate ==
  /\ mode = "up" /\ submit = "idle"
  /\ status' = "queued"
  /\ submit' = "spawn"
  /\ UNCHANGED <<logged, charged, seen, runners, reply, cancel, target, world>>

SubmitSpawn ==
  /\ submit = "spawn"
  /\ submit' = "done"
  /\ \/ SpawnAt("mark_started") /\ NoFailure
     \/ UNCHANGED runners /\ Fails(TRUE)
  /\ UNCHANGED <<core, seen, reply, cancel, target, mode>>

----------------------------------------------------------------------------
(* reply_to_task *)

\* The handler goes on from call l to next, or its call fails after the effect.
ReplyGoes(h, next) ==
  /\ \/ reply' = [reply EXCEPT ![h] = next] /\ NoFailure
     \/ reply' = [reply EXCEPT ![h] = "done"] /\ Fails(TRUE)
  /\ UNCHANGED <<submit, cancel, target, mode>>

\* get_task and the check of its snapshot
ReplyCheck(h) ==
  /\ mode = "up" /\ status # "absent"
  /\ reply[h] = "idle"
  /\ reply' = [reply EXCEPT ![h] =
                 IF status = "waiting_for_user" THEN "resume" ELSE "done"]
  /\ UNCHANGED <<core, seen, runners, submit, cancel, target, world>>

ReplyLoad(h) ==
  /\ reply[h] = "resume"
  /\ Loads(h)
  /\ UNCHANGED <<core, runners, handlers, world>>

\* resume_task
ReplyResume(h) ==
  /\ reply[h] = "resume"
  /\ Running(h)
  /\ ReplyGoes(h, "log_answer")
  /\ UNCHANGED runners

ReplyLog(h) ==
  /\ reply[h] = "log_answer"
  /\ LogEvent("answer")
  /\ ReplyGoes(h, "spawn")
  /\ UNCHANGED runners

\* A call of the handler fails and changed nothing.
ReplyRaise(h) ==
  /\ reply[h] \in {"resume", "log_answer"}
  /\ reply' = [reply EXCEPT ![h] = "done"]
  /\ seen' = [seen EXCEPT ![h] = Unread]
  /\ Fails(TRUE)
  /\ UNCHANGED <<core, runners, submit, cancel, target, mode>>

ReplySpawn(h) ==
  /\ reply[h] = "spawn"
  /\ reply' = [reply EXCEPT ![h] = "done"]
  /\ SpawnAt("rejoin")
  /\ UNCHANGED <<core, seen, submit, cancel, target, world>>

----------------------------------------------------------------------------
(* cancel_running_task *)

CancelGoes(h, next) ==
  /\ \/ cancel' = [cancel EXCEPT ![h] = next] /\ NoFailure
     \/ cancel' = [cancel EXCEPT ![h] = "done"] /\ Fails(TRUE)
  /\ UNCHANGED <<submit, reply, mode>>

\* The same for a call that only reads.
CancelReads(h, next) ==
  /\ cancel' = [cancel EXCEPT ![h] = next]
  /\ UNCHANGED <<core, seen, runners, submit, reply, world>>

\* A call of the handler fails and changed nothing.
CancelRaise(h) ==
  /\ cancel[h] \notin {"idle", "await", "done"}
  /\ cancel' = [cancel EXCEPT ![h] = "done"]
  /\ seen' = [seen EXCEPT ![h] = Unread]
  /\ Fails(TRUE)
  /\ UNCHANGED <<core, runners, submit, reply, target, mode>>

\* Mutant: no check for a terminal status.
MutCancelCheck(h) ==
  /\ mode = "up" /\ status # "absent"
  /\ cancel[h] = "idle"
  /\ CancelReads(h, "log_request")
  /\ UNCHANGED target

\* get_task and the check of its snapshot
CancelCheck(h) ==
  /\ mode = "up" /\ status # "absent"
  /\ cancel[h] = "idle"
  /\ CancelReads(h, IF status \in Terminal THEN "done" ELSE "log_request")
  /\ UNCHANGED target

CancelLogRequest(h) ==
  /\ cancel[h] = "log_request"
  /\ LogEvent("cancelled")
  /\ CancelGoes(h, "request")
  /\ UNCHANGED <<runners, target>>

\* update_projection(cancel_state="requested") and request_cancel write a column
\* and a key that nothing reads; then _runner_tasks.get(task_id).  Without a
\* runner the handler marks the row "cancelling" and returns.
CancelRequest(h) ==
  /\ cancel[h] = "request"
  /\ target' = [target EXCEPT ![h] = tracked]
  /\ CancelReads(h, IF tracked = NoRunner THEN "done" ELSE "stop")

\* update_projection(cancel_state="cancelling"), then runner.cancel()
CancelStop(h) ==
  /\ cancel[h] = "stop"
  /\ cancel' = [cancel EXCEPT ![h] = "await"]
  /\ kill' = [kill EXCEPT ![target[h]] = pc[target[h]] # "done"]
  /\ UNCHANGED <<core, seen, tracked, pc, submit, reply, target, world>>

\* Mutant: the handler polls for the status instead of awaiting the runner.
MutCancelAwait(h) ==
  /\ cancel[h] = "await"
  /\ status = "cancelled"
  /\ CancelReads(h, "latest")
  /\ target' = [target EXCEPT ![h] = NoRunner]

\* await runner; the handler does not use it afterwards
CancelAwait(h) ==
  /\ cancel[h] = "await"
  /\ pc[target[h]] = "done"
  /\ CancelReads(h, "latest")
  /\ target' = [target EXCEPT ![h] = NoRunner]

\* Mutant: the handler trusts the runner to have recorded its cancellation.
MutCancelLatest(h) ==
  /\ cancel[h] = "latest"
  /\ CancelReads(h, "done")
  /\ UNCHANGED target

CancelLatest(h) ==
  /\ cancel[h] = "latest"
  /\ CancelReads(h, IF status = "cancelled" THEN "done" ELSE "fin_get")
  /\ UNCHANGED target

\* _finalize_cancelled
CancelFinGet(h) ==
  /\ cancel[h] = "fin_get"
  /\ CancelReads(h, IF status = "cancelled" THEN "done" ELSE "fin_log")
  /\ UNCHANGED target

CancelLoad(h) ==
  /\ cancel[h] = "fin_cancel"
  /\ Loads(h)
  /\ UNCHANGED <<core, runners, handlers, world>>

CancelFinLog(h) ==
  /\ cancel[h] = "fin_log"
  /\ LogEvent("cancelled")
  /\ CancelGoes(h, "fin_cancel")
  /\ UNCHANGED <<runners, target>>

CancelFinCancel(h) ==
  /\ cancel[h] = "fin_cancel"
  /\ Ended(h, "cancelled")
  /\ CancelGoes(h, "done")
  /\ UNCHANGED <<runners, target>>

----------------------------------------------------------------------------
(* The process *)

\* close(): every runner in _runner_tasks is cancelled, none is awaited.
Close ==
  /\ mode = "up" /\ mishaps < MaxMishaps
  /\ mode' = "closing"
  /\ mishaps' = mishaps + 1
  /\ kill' = [r \in Runners |-> kill[r] \/ (r = tracked /\ pc[r] # "done")]
  /\ tracked' = NoRunner
  /\ UNCHANGED <<core, seen, pc, handlers, lost>>

\* The process ends, after close() or in a crash; every coroutine is gone.
Exit ==
  /\ \/ mode = "closing" /\ UNCHANGED mishaps
     \/ mode = "up" /\ mishaps < MaxMishaps /\ mishaps' = mishaps + 1
  /\ mode' = "down"
  /\ tracked' = NoRunner
  /\ pc' = [r \in Runners |-> IF pc[r] = "unused" THEN "unused" ELSE "done"]
  /\ kill' = [r \in Runners |-> FALSE]
  /\ seen' = [x \in Coroutines |-> Unread]
  /\ submit' = IF submit = "spawn" THEN "done" ELSE submit
  /\ reply' = [h \in Repliers |-> IF reply[h] = "idle" THEN "idle" ELSE "done"]
  /\ cancel' = [h \in Cancellers |-> IF cancel[h] = "idle" THEN "idle" ELSE "done"]
  /\ UNCHANGED <<core, target, lost>>

\* _recover_interrupted_tasks, before any request is served: a queued task
\* starts afresh, a running one is resumed through wake, a waiting one is left.
Recover ==
  CASE status = "queued" -> SpawnAt("mark_started")
    [] status = "running" -> SpawnAt("rejoin")
    [] OTHER -> UNCHANGED runners

Restart ==
  /\ mode = "down"
  /\ mode' = "up"
  /\ \/ Recover /\ lost' = FALSE /\ UNCHANGED mishaps
     \/ status = "running" /\ UNCHANGED runners /\ Fails(TRUE)   \* wake raises
  /\ UNCHANGED <<core, seen, handlers>>

----------------------------------------------------------------------------

ReplyStep(h) == ReplyLoad(h) \/ ReplyResume(h) \/ ReplyLog(h) \/ ReplySpawn(h)

CancelStep(h) ==
  \/ CancelLogRequest(h) \/ CancelRequest(h) \/ CancelStop(h) \/ CancelAwait(h)
  \/ CancelLatest(h) \/ CancelFinGet(h) \/ CancelFinLog(h) \/ CancelLoad(h)
  \/ CancelFinCancel(h)

Next ==
  \/ SubmitCreate \/ SubmitSpawn
  \/ \E r \in Runners : RunnerStep(r) \/ Stream(r) \/ Raise(r)
  \/ Cleanup
  \/ \E h \in Repliers : ReplyCheck(h) \/ ReplyStep(h) \/ ReplyRaise(h)
  \/ \E h \in Cancellers : CancelCheck(h) \/ CancelStep(h) \/ CancelRaise(h)
  \/ Close \/ Exit \/ Restart

Spec == Init /\ [][Next]_vars

(***************************************************************************)
(* The event loop runs every coroutine whose call has returned, a process  *)
(* that is closing ends and a service that is down is started again.  The  *)
(* graph's stream is finite (LangGraph's recursion limit, the timeouts of  *)
(* the model calls): however often it asks, it ends.  Nothing obliges a    *)
(* client to submit, reply or cancel.                                      *)
(***************************************************************************)
Fairness ==
  /\ \A r \in Runners :
       WF_vars(RunnerStep(r)) /\ WF_vars(kill[r] /\ Raise(r)) /\ SF_vars(StreamEnd(r))
  /\ WF_vars(Cleanup)
  /\ WF_vars(SubmitSpawn)
  /\ \A h \in Repliers : WF_vars(ReplyStep(h))
  /\ \A h \in Cancellers : WF_vars(CancelStep(h))
  /\ WF_vars(mode = "closing" /\ Exit)
  /\ WF_vars(Restart)

FairSpec == Spec /\ Fairness

----------------------------------------------------------------------------
(* Properties *)

(***************************************************************************)
(* A terminal status is never visible before the lifecycle event that      *)
(* explains it is in the log, and "succeeded" never before the usage       *)
(* record; event_generator closes the stream once it reads such a status.  *)
(***************************************************************************)
StatusIsExplained ==
  /\ status = "succeeded" => charged
  /\ charged => "completed" \in logged
  /\ status \in {"failed", "cancelled"} => status \in logged

\* The same promise as a client sees it: the task implements TaskContract.
Contract == INSTANCE TaskContract WITH
  status <- status, logged <- logged, charged <- charged
ImplementsContract == Contract!Spec

\* Someone still works on the task: a runner, or a handler that will start one
\* or decide its status.
InHand ==
  \/ submit = "spawn"
  \/ \E r \in Runners : pc[r] \in Live
  \/ \E h \in Repliers : reply[h] \in {"log_answer", "spawn"}
  \/ \E h \in Cancellers : cancel[h] \in {"await", "latest"} \cup Finalize

(***************************************************************************)
(* While the process is up, a queued or running task is in somebody's      *)
(* hands: neither a cancel delivered outside the try of _execute_task nor  *)
(* a restart abandons it.  Only a failed call that ended a runner or a     *)
(* handler can (and then only until the next start).                       *)
(***************************************************************************)
NoOrphan ==
  mode = "up" /\ status \in {"queued", "running"} /\ ~lost => InHand

\* No coroutine is at work, so none holds a stale read of the row.
Quiet ==
  /\ submit # "spawn"
  /\ \A r \in Runners : pc[r] \notin Live
  /\ \A h \in Repliers : reply[h] \in {"idle", "done"}
  /\ \A h \in Cancellers : cancel[h] \in {"idle", "done"}

\* The task is over and nobody is at work on it.
Settled == status \in Terminal /\ Quiet

(***************************************************************************)
(* A settled task is closed for good: no later reply, cancel, shutdown or  *)
(* restart sets a coroutine to work on it, let alone changes what it says. *)
(***************************************************************************)
SettledIsFinal ==
  [][Settled => Settled' /\ UNCHANGED <<status, logged, charged>>]_vars

\* A queued or running task ends, or waits for its user, unless a call failed.
TaskSettles ==
  status \in {"queued", "running"} ~>
    (status \in Terminal \cup {"waiting_for_user"} \/ lost)

\* Every cancel call returns: the runner it awaits ends even if it is killed
\* again, finds the task cancelled, or dies outside the try.
CancelReturns == \A h \in Cancellers : cancel[h] # "idle" ~> cancel[h] = "done"

(***************************************************************************)
(* lifecycle.cancelled says "Task 被取消" (the task was cancelled,         *)
(* agent/session/protocol.py:30).  With no coroutine at work on it, a task *)
(* with that event in its log would be over.                               *)
(***************************************************************************)
CancelledEventIsTrue ==
  mode = "up" /\ Quiet /\ "cancelled" \in logged => status \in Terminal

=============================================================================
