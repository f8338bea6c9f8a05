# Formal models of chat-dada

chat-dada is a multi-tenant agent platform: a user submits a task over HTTP, a
LangGraph graph works on it in a coroutine of the web process, asks the user
questions, calls tools (some of them on the user's desktop), and everything the
user sees travels as events, kept in PostgreSQL and pushed over Redis as
server-sent events.  This directory holds TLA+ specifications of the parts of it
where order, concurrency and failure decide whether it is right, the TLC runs
that check them on small instances, and TLAPS proofs of the main invariants for
all instances.  Paths below are relative to the repository's root.

## 1. Inventory

How the parts fit together:

    client --HTTP--> web/routers --> TaskService (agent/runtime/task_execution.py)
                                        |  spawns one runner per execution
                                        v
                      root graph --> coordinator DAG --> workflows / skills
                                        |                     |
                                   interrupts (ask)      tool gateway --> desktop
                                        v
       SessionRuntime: task_runs (row), task_events (log), Redis channel
                                        |
    client <--SSE-- event_generator (web/runtime.py) <--+

| Component | State | Operations | What is hard | What makes it correct |
|---|---|---|---|---|
| Task lifecycle: `agent/runtime/task_execution.py`, `agent/session/runtime.py`, `infra/db/session_store.py` | row of `task_runs`, `task_events`, usage record, `_runner_tasks`, the runners' coroutines | submit, execute, ask, reply, cancel, finalise, close, recover | every await is a switch; the row write is an unlocked read and a later commit of the changed columns; a cancel lands at any await; a crash at any point | a terminal status is explained by an event already in the log; no task is left without anybody working on it; what is over stays over; a cancel request returns |
| Event log and stream: `task_event_repo.py`, `session/runtime.py`, `web/runtime.py`, `session/protocol.py` | seqs per task, the Redis channel, a generator per connection, Last-Event-ID at the client | append, publish, replay, forward, deduplicate, close, reconnect | commit and publish are two awaited calls; the replay overlaps the channel; the stream closes on the status, not on an event | ids strictly grow on a connection; a client misses no event but one published after a later one, or never; every other event is delivered; a stream of a task that is over ends |
| Clarification history, resume handle: `session/runtime.py`, `runtime/interaction.py`, `workflows/research/orchestrated.py` | the pairs of question and answer in the log, `pending_question`, the preloaded answers, drafts and checkpoints on disk | pair, replay into `ask_user` after a restart, fast-forward an accepted report | a question is logged after the task says it waits, so its answer may be logged first; the pairing is by position; a restarted workflow may ask something else | an answer reaches the question it was given to; a fast-forwarded report is the draft that was accepted |
| Coordinator DAG: `agent/coordinator/` | tasks with statuses, results, round counter | plan, validate, repair, execute a round, check, route | plans with cycles; parallel tasks with interrupts; failure strategies | a task runs after its dependencies; every DAG ends (but for plans on which the validation raises); what is done is not done again |
| Root graph: `agent/runtime/root_graph.py`, `agent/platform/` | graph state, checkpoints | route, run, translate stream parts | resume from a checkpoint | its stream is the one the task lifecycle assumes |
| Desktop hands: `hands/desktop_manager.py`, `desktop_executor.py`, `web/routers/desktop_hands.py` | connections, pending futures, cooldowns | register, invoke, time out, complete, cancel, disconnect | a late result, a result and a timeout in one turn, a connection replaced while calls are pending | no future stays behind; a success is one the desktop had; a stale disconnect removes nobody; a cooldown holds |
| Tool gateway: `hands/gateway.py`, `local_executor.py` | none of its own; events | route, execute, report | the connection it chose may be gone when used; a call that is cancelled | a call is announced, then concluded once, and as completed only if it was carried out |
| Quota and usage: `domain/billing/`, `quota_repo.py` | usage events in sliding windows, limits | admit, record, recover | admission reads what is recorded only at completion; a recovered run is recorded again | usage passes a limit by less than the tasks in flight together and the records made twice |
| Conversation memory: `domain/conversations/` | rounds, summary and its watermark | build context, summarise, retrieve | rounds complete out of order; two builds at once; an empty summary is stored | the rounds the watermark counts are in the summary, but for one per late round |
| Research workflow: `workflows/research/` | plan, module statuses, drafts, search budgets, revision targets, three checkpoints; per worker its evidence, search history and cache | plan, run waves of workers, review, ask, revise, replan, report | loops within loops, all steered by model output; budgets grow in four places; a module given up can be a target again | budgets hold; a module given up waits for the user; nothing is missing from the report unnoticed; all a worker's searches brought is kept and counted once; a review passes exactly when it leaves nothing to revise, and then with sources and an argument; it ends or asks |
| Office workflow: `workflows/office/` | plan, batches, reply, evaluation, files of a shared directory | normalise, plan, build, gate, repair, finalise | the result of an earlier round; replies without operation or files | what counts as good went through the gate after its last build; it ends |
| Patent and zero_report workflows | selected strategy, results, evaluations | select, execute, evaluate | the choice is read from where it is stored | it ends; after a plan or a failed review the next round is iterative (it is not) |
| Legacy domains, legacy root scheduler | per-run state | as above | earlier copies | out of scope |
| Auth and sessions | users, sessions | register, log in, refresh | unique constraints | one account per e-mail |
| Providers, capabilities, skills, officecli, search, storage, routers, monitoring, registries | configuration or none | calls | I/O | out of scope |

`PROJECT.json` lists all components with their files and status, and the
hazards, each at its line, with the properties that watch it.

## 2. Modules

| Module | Contents |
|---|---|
| `TaskContract` | what the API promises about one task; an abstract specification |
| `TaskLifecycle` | one task of TaskService over its row, log and usage record; implements `TaskContract` |
| `MCTaskLifecycle` | symmetry and bound of `task_overlap`, for TLC |
| `TaskLifecycleProofs` | type correctness, the honest-status invariant, the refinement, finality |
| `TaskOwnershipProofs` | no task is orphaned |
| `EventStream` | the events of one task on their way to one client |
| `EventStreamProofs` | its types, order, completeness, and no hole but for late and lost events, for all constants |
| `DagExecutor` | one run of the coordinator in DAG mode: plan, rounds, failures, questions, routing |
| `DagExecutorProofs` | its types, the order of execution, finality of verdicts, causes of cancellation, completeness |
| `ToolCallContract` | what the gateway promises about the tool calls of a task; an abstract specification |
| `DesktopHands` | endpoint, registry, executor and gateway around one user's desktop; implements `ToolCallContract` |
| `MCDesktopHands` | constants and bound of its runs, for TLC |
| `DesktopHandsProofs` | its types, the registry, the pending futures, the cooldown; a completed call was carried out; the safety part of the refinement |
| `ResearchWorkflow` | the graph of the research workflow, its waves, budgets and checkpoints |
| `ResearchWorker` | the search loop of the worker of one module, over several runs |
| `ResearchReview` | the scores of a review, what passes and what is to be revised |
| `ClarificationReplay` | how a restarted workflow gets the user's answers, and the fast-forward of an accepted report |
| `OfficeWorkflow` | the office workflow from its request to its files |
| `StrategyLoop` | the loop of the patent and zero-report workflows |
| `Quota` | admission of submissions against recorded usage |
| `QuotaProofs` | its inductive invariant, which bounds the overshoot |
| `ConversationMemory` | the rolling summary of a conversation and its watermark |
| `Parts` | `Quota`, `ConversationMemory` and the six workflow modules above them as one specification (2.13) |
| `MCParts` | the instance of it that TLC checks |
| `ResearchProofs` | for all constants: budgets, modules given up or missing, what a worker delivers and counts, what a review passes |
| `PartsProofs` | for all constants: the types of every part, the office gate, the overshoot, the watermark, the answers and the report of a restarted run |

The definitions named `Mut...` are plausible bugs kept beside the definition they
falsify; no action uses them.  Putting one in the place of that definition makes
the property named with it in `PROJECT.json` fail, which shows that the property
really depends on that piece of code.

### 2.1 TaskLifecycle

*State.*  `status` is `task_runs.status`; `logged` is the set of kinds of events in
`task_events` (the order among kinds is what the properties express; the order
within the log is the subject of `EventStream`); `charged` says the usage record
exists.  The other columns (`result_text`, `pending_question`, `cancel_state`,
route, ...) are dropped: nothing here decides on them.  `tracked` is the entry of
`_runner_tasks`; `pc`, `submit`, `reply` and `cancel` name the awaited call at
which each coroutine is suspended.  `lost` is a history variable: since the last
start, a failed call ended a coroutine that others may have relied on.

*Grain.*  Between two awaits the event loop runs one coroutine, so each awaited
call that matters is one action, and a label is the call that will take effect
next.  Appending an event is one transaction.  Writing the status is two steps,
`Loads` and `Commits`: `update_projection` reads the row without a lock and
commits later, and SQLAlchemy's unit of work sends only the columns whose value
differs from what it read.  A write that finds its value already there is
therefore no write at all, even if another coroutine has changed the row in
between.  This is the subtlest thing in the model, and what `NoOrphan` and its
proof have to deal with.

*Cancellation.*  `task.cancel()` sets `kill`; it is delivered at the call the runner
waits on, whose effect may or may not have reached the database (`Advance` with
`kill`, or `Raise`).  Inside the try of `_execute_task` it leads to
`_finalize_cancelled`, anywhere else it ends the runner (`OnCancel`).

*Failures.*  Every database call may fail, before or after its effect (`Raise`,
`Fails`); the process may crash, or close (which cancels the runners and awaits
none) and then exit; on restart `Recover` takes over what was interrupted.
Exits and failures together are bounded by `MaxMishaps`.

*Correspondence.*  Runner: `MarkStarted` .. `LogStarted` are the prologue, `Rejoin`
that of a resumed run, `Stream...` the loop over the graph's stream with its
question handling (`Ask`, `LogQuestion`), `LogCompleted` .. `FinishOk` the
completion, `LogFailed`/`FinishFailed` the exception handler, `Fin...` is
`_finalize_cancelled`.  Handlers: `Submit...` is `submit_task`, `Reply...` is
`reply_to_task`, `Cancel...` is `cancel_running_task`.  `Close`, `Exit`, `Restart`
are the process.

*The graph* is an environment here: at any time it may ask, report a failed DAG
task while going on (the coordinator does), end, or raise.

### 2.2 EventStream

*State.*  `append` takes the row of the task `FOR UPDATE` before it reads the
largest seq, so the log is `1 .. log`; a publisher is any coroutine that records
events (the runner, a reply or cancel handler, and the tool gateway in skills
that run in parallel), and `pending` is what it has committed and not yet
published.  `queue` is what the Redis subscription holds for the connection;
`phase` is the call `event_generator` is waiting on.  The client is an
EventSource: `received`, and the id it will reconnect with.  `astray` is a history
variable: the events that were published after a later one, or whose
publication failed.  They are what deduplication by the last id cannot handle.

*Correspondence.*  `AppendEvent`/`Publish` are the two halves of `emit_event`,
`EmitProgress` is `emit_progress`.  `Subscribe`, `ReadReplay`, `SendReplay`,
`StartLive`, `Forward`, `Skip`, `ForwardProgress`, `Timeout`, `CheckSent`,
`CheckIdle` are the steps of `event_generator` in its order.  `StartLive` models a
detail of the Redis client: the first `get_message` takes the confirmation of
the subscription, ignores it and returns `None`, so the generator passes once
through its idle branch before it forwards anything, and closes there when the
task is already over.

*Simplifications.*  One connection of one client at a time (connections share
only the channel, which copies to each); one transient event at a time in the
channel; an event is its seq, since only its identity and order matter.

### 2.3 DagExecutor

*State.*  A task is its position in the plan.  `deps` and `status` are fields of
`Task`, `completed` and `failed` the keys of `completed_tasks` and
`failed_tasks`; `pending_tasks` is what the routing reads, computed where it is
used.  `node` is the node of the graph that runs, with `execute_tasks_node` split
at its one await into `execute` and `gather`.  `round` is what `gather` waits
for, `result` what it has been given, `busy` the skills still executing, which
after an interrupt are more than `round`.

*Correspondence.*  A model may return any plan, with references to itself, in cycles
and too deep; references to unknown ids are dropped first, which leaves any graph at
all (`RawPlans`).  `Within` is `calculate_task_depth` turned round: the tasks at most `k`
deep, so that a task from which a cycle can be reached is within no depth (`Cyclic`).

`validate_dag` searches for cycles depth first, from the tasks in the order of the plan.
A search that finds one returns at once, and leaves its whole way gray.  From a task in
`Cyclic` every search finds one: it passes over dependencies that lead to none, and
follows the first that does, in the arbitrary order of a set.  So what the searches do
is given by one dependency for each of these tasks (`Searches`).  A search that meets
a task on its own way has found its cycle; one that meets a task an earlier search has
left gray (`GrayBefore`) raises (`Stumbles`).  `DecomposeTasks` is the node where the
validation returns and the plan is repaired (`Plans`), `DecomposeRaises` where it
raises (`FatalPlans`), which `deps` records although the node returns no plan.  For many
cyclic plans the order of a set decides which of the two happens.

`StartRound`, `EmptyRound` are `execute_tasks_node` up to the `gather`,
`SkillEnds` the end of one `run_one_task`, `CollectResults` the loop over the
results, `SkillAsks` the branch for `GraphInterrupt` (the question is with the user by then: the
skill's graph writes it to the stream before it raises), `StrayEnds` a skill that
nobody waits for any more.  `CheckDependencies` is `check_dependencies_node` with
`route_after_check_dependencies`, `RecursionLimit` LangGraph's.
`assign_skills_node` and `handle_task_result_node` change nothing that is modelled.

*Simplifications.*  The ids of a plan are distinct (nothing in the code checks
it).  A question of a skill that nobody waits for is like its end.  What a run with a
question ends with is used by nobody: its task waits for the user, and starts over with
the reply (2.1, 2.8).

### 2.4 DesktopHands and ToolCallContract

*State.*  `sock` is where the endpoint's handler of a socket is, `offers` the tools
that connection announced, `registered` the manager's entry for the user,
`bound` the desktop tools an agent was given when it was built.  A call is one
`gateway.execute`: `pc` is the await it is at, `via` the connection it chose,
`future` its entry in `_pending`, `outcome` the result, `events` its part of the
log.  `cooling` is the set of tasks on a cooldown.  `wire`, `back` and `desk` are the
frames under way and what the client did.

*Correspondence.*  Endpoint: `Accept`, `Register`, `HandleResult`, `Break`,
`EndHandler` (its `finally`).  Gateway and executor: `BindTools`, `Route`,
`LogStarted`, `Refuse` or `Dispatch`, `Sent` or `SendFails`, `Answered` or
`TimesOut` with `SendCancel`, `Report`; `EmitFails` is an event that cannot be
written or published, `Interrupt` the cancellation of the task's runner.
`ClientTakes` and `ClientAnswers` are the desktop client, which is not in the
repository's server and is modelled from the messages it is sent and must send.

*Details that matter.*  `Dispatch` looks the connection up again after the await of
`LogStarted`, but not its tools.  A replaced connection's handler goes on
reading, so its results still count.  `TimesOut` may drop a result that is already
set: since Python 3.12 `wait_for` prefers the timeout when timer and result fall
into one turn of the event loop.  `is_allowed` always passes, because
`ToolContext.policy` is `None` in every call of the code modelled here.

### 2.5 ResearchWorkflow

*State.*  `status`, `drafted`, `budget` and `plan` are per module what
`module_status`, `module_outputs`, `module_runtime` with `module_budgets`, and
`depends_on` hold; `wave`, `round`, `targets`, `listed`, `awaiting`, `decision`,
`replan`, `skipA`, `fromB` are the fields of the graph state that routing reads.

*Correspondence.*  One action per node: `Planner`, `CheckpointA`, the node of the
modules as `Wave`s ended by `EndWaves`, `Evaluate` (with the aggregation before
it, which has no choice), `CheckpointB`, `Optimize`, `CheckpointC`, `Synthesize`.
`Extended`, `Raised` and `Granted` are the three ways a budget grows.  A worker is
reduced to `Results`: it makes some of the searches left to it, finds
something or not, and ends completed, blocked or with an exception; that it does is
`WorkerDelivers`, checked and proved of `ResearchWorker`.

*Simplifications.*  A question is answered in place: what happens to it when the
workflow starts over is the subject of 2.8.  `stall_count` and
`query_rewrite_attempts` are left out: the branch that reads them is reached only
with searches left, which makes it false whatever they are.

### 2.6 ResearchWorker

*State.*  `runtime` is the module's entry of `module_runtime`, what one run leaves to the
next; `worker` holds the same fields in the `WorkerState` of the run that goes on:
`pack` is `evidence_pack`, `cache` is `query_fingerprints`, `searched` is `search_round`,
`fresh` says whether `last_search_metrics` has new evidence.

*Correspondence.*  One action per node of `build_worker_graph`, each with its route;
`Start` and `Return` are `run_worker` before and after the graph, `Fail` its exception
handler, from which nothing of the run is left.  `EvidenceOf` is what an answer may
bring: records of URLs, or one record for a text without any, which the message of a
failed tool is too.  `StepLimit` is LangGraph's recursion limit: a model that keeps asking
for more evidence without searching for it ends there.  A partial draft, which has
no tools and starts from the evidence of all modules, leaves `module_runtime` alone and
is not a run of this loop.

### 2.7 ResearchReview

*State.*  What `evaluate_draft_node` hands to the gate: the modules with content
(`present`), the count of traceable evidence (`bank`), the type of deliverable; and the
list of dimensions as it grows: `due` the next, `failed` those that did not pass,
`adrift` a score of `intent_alignment` below 0.45; `judged` is the `ReviewResult`.

*Correspondence.*  One action per dimension of `dimension_checks`, in its order, with
the code's weights and thresholds; `TargetsOf` is `build_revision_targets`, `Judge` is
`evaluate`.  The scores are integers over a common denominator; where the
floating-point sum of the code falls just below a threshold it equals on paper, the
comparison is strict.  How many keywords or headings a text has is chosen, within
what the modules it is read from allow.  `ResearchWorkflow!Evaluate` reckons with a
review that passes exactly when it has no targets: that is `ReviewIsSound`.

### 2.8 ClarificationReplay

*State.*  The nodes of the research graph as far as they ask (`at`), the events of the
task that are questions and answers (`log`), questions whose event is not yet
committed (`unlogged`), the preloaded answers (`queue`), the files (`disk`).  An
entry of `History` names the question it was made from and the one its answer was
given to; the code has neither number, they are what `AnswersFit` compares.  The
code builds the history in a loop over the events, which adds an entry at the end or
completes the last one; here it is a function from the places of the log that open an
entry (`Opens`) to the entries, so that the proofs can reason of one entry alone.
That the two are the same, event by event, is the theorem `HistoryFollowsTheLog`.  The
preloaded answers keep the places of their entries as their order.

*Correspondence.*  `Interrupts` and `Takes` are the two outcomes of `ask_user`;
`LogQuestion` the runner that logs the question after the status; `Reply` is
`reply_to_task`; `Resume` the new runner, with `AcceptedC` and `Loaded` the
fast-forward of `research/orchestrated.py`; `Saved` what a draft and its review
leave in `checkpoints/`.  Models may answer otherwise in every run.

### 2.9 OfficeWorkflow

`Normalized` and `Unclear` are `preflight_node`, `Plan` is `planning_node`, `Build` is
`run_build_stage` with `advance_after_build`, `QaFix` is `run_qa_fix_stage`, `Finalize`
what `run_office_domain_orchestrated` makes of it.  `reply` is what the code reads of
the agent's reply; `HasFiles` is `_resolve_artifact_refs`, reduced to whether there are any
files: of the shared output directory everything that changed may be taken, whoever
changed it, and a path the reply names is not looked at.

### 2.10 StrategyLoop

`Select`, `Execute` and `Evaluate` are the nodes of the graph that the patent and the
zero-report workflow have in common; `Preferred` is the order in which
`select_strategy_node` looks for its choice.

### 2.11 Quota

`Submit` and `Assess` are a submission that reads the usage of one period after the
other; `Charge` is the transaction of the usage record, `EndRun` that of the status;
`Rerun` is a run recovered after the first and before the second.  `Expire` is a
record that leaves a window.  `overlap` and `reruns` are history variables: the
terms in which the overshoot is bounded.

### 2.12 ConversationMemory

`Start` reads the rounds of a new task, `ReadSummary` the stored summary, `Merge` has
the model merge the rounds it does not cover and stores the result, `Complete` ends
a run.  A summary is the set of rounds merged into it; an empty answer of the model
is stored like any other, which `blanked` records.  `GetRounds` is a set too: the code
has the rounds in order of creation, in which tasks are numbered here, so that the
first `n` of them are those with fewer than `n` below them (`First`).

### 2.13 Parts

The modules of 2.5 to 2.12 share no state: `Parts` puts them side by side, a
behaviour being one of one part with the others at rest in an initial state, so
that the states of the whole are the sum and not the product of theirs.  Its
assumption is the conjunction of theirs, its properties are theirs under their
names.

## 3. Runs

| Run | Module, configuration | Checks | Bounds |
|---|---|---|---|
| `task_overlap` | `MCTaskLifecycle`, `TaskLifecycle_overlap.cfg` | `StatusIsExplained`, `NoOrphan` | 1 cancel, and 2 replies without or 1 reply with 2 mishaps; 5 runners |
| `task_progress` | `TaskLifecycle`, `TaskLifecycle_progress.cfg` | `TypeOK`, `SettledIsFinal`, `ImplementsContract`, `TaskSettles`, `CancelReturns` | 1 reply, 1 cancel, 1 mishap, 3 runners |
| `task_cancelled` | `TaskLifecycle`, `TaskLifecycle_cancelled.cfg` | `CancelledEventIsTrue`, violated | 1 reply, 1 cancel |
| `stream_concurrent` | `EventStream`, `EventStream_concurrent.cfg` | `TypeOK`, `OrderedOnce`, `OnlyLateEventsAreMissed`, `NoGap`, `StreamEnds`, `Delivered` | 2 publishers, 3 events, 2 drops, 1 failed publication |
| `stream_reconnect` | `EventStream`, `EventStream_reconnect.cfg` | `ReconnectCatchesUp`, violated | 2 publishers, 2 events, 1 drop |
| `dag_order` | `DagExecutor`, `DagExecutor_order.cfg` | `TypeOK`, `RanInOrder`, `NothingLeft`, `DecidedOnce`, `CancelledForCause`, `DagFinishes` | 4 tasks, all strategies, depth 2, 2 at a time, limit of 3 failures, 2 questions |
| `dag_cycle` | `DagExecutor`, `DagExecutor_cycle.cfg` | `CyclesAreCleared`, violated | 3 tasks |
| `dag_independent` | `DagExecutor`, `DagExecutor_independent.cfg` | `IndependentGoesOn`, violated | 4 tasks, 1 at a time, limit of 2 failures |
| `desktop_calls` | `MCDesktopHands`, `DesktopHands_calls.cfg` | `TypeOK`, `RegistryHolds`, `PendingIsInFlight`, `CompletedWasCarriedOut`, `CooldownHolds`, `ImplementsContract` | 2 tools, 1 task, and 2 sockets with 1 call or 1 socket with 2 calls |
| `desktop_concluded` | `MCDesktopHands`, `DesktopHands_concluded.cfg` | `StartedIsConcluded`, violated | 1 socket, 1 call |
| `parts` | `MCParts`, `Parts_all.cfg` | `TypeOK`, `BudgetHolds`, `GivenUpWaits`, `MissingIsKnown`, `AnswersFit`, `AcceptedIsReported`, `OkIsChecked`, `EvidenceAddsUp`, `WorkerDelivers`, `ReviewIsSound`, `OvershootBounded`, `WatermarkHolds`, `PartsEnd` | below |
| `loop_iterates` | `StrategyLoop`, `StrategyLoop_iterates.cfg` | `IterativeFollows`, violated | 8 rounds |

*Why these bounds.*  Every spawn of a runner is due to the submit, a reply or a
restart, so `1 + replies + mishaps` runners suffice (`RunnersSuffice`); the bound
never blocks a spawn.  Two replies make runners of one task live at once, with a
cancel for one of them; two mishaps put a crash, a close or a failed call at every
point, and a second one in the recovery from the first.  The safety properties
proved in section 5 hold for all values, so these bounds matter only for what is
model-checked alone.  In the stream, two publishers and two events are enough to
publish in the wrong order, a third event to move `last_sent` past a missing one,
and two drops for a reconnect that is itself interrupted.

In the DAG, four tasks hold every shape of plan up to a diamond, a chain
that the depth limit refuses, and cycles with tasks before and after them; two at a time make a round leave ready tasks
behind; the limit of failures is below the number of tasks, so that it and the
cancellation of dependents both happen; two questions interrupt a round and the
one after it.  `MaxRounds` exceeds the number of tasks, so `DagFinishes` is not
given by the bound.

With the desktop, a second connection replaces the first while a call is under way,
or a second call of the same task lifts or meets the cooldown of the first.

In `parts`: two research modules, `x` after `r` or after a module the plan does not
have, one of them able to draft early; one search in each soft budget and one more
in the hard one, so that every comparison with either is met from both sides; three
waves, one revision round, one answer of the user; for the worker two queries, two URLs,
two searches, two runs and nine nodes, so that an answer is found again by another
query, in another round and in the run after one that returned or failed; for the review
every set of modules of three deliverables (all modules, few, a comparison) with no, just
enough and ample traceable evidence; in the replay one text of
question B, up to four questions; in the office 0 to 3 batches, 2 repairs, 2
normalisations; in the loop 8 rounds; three submissions against limits of 1 and 2 in
two periods, one run recorded twice; five rounds of a conversation, one of them
raw, and a summary made from every second one.

*Deadlock* is checked in the stream runs.  It is switched off elsewhere: a task that
is over, with its clients gone, has nothing left to do; a run of a graph ends; and
so does each of the parts.

*What the runs show.*  Every interleaving of two replies, a cancel and the runners
they make, and every point at which a process can fail, leaves the status
explained by the log; and, unless a
call failed, no queued or running task is without somebody to finish it.  That
includes the paths where a runner swallows a cancel, dies of one outside the
try, or ends with a dropped write, because the canceller, once its runner is
gone, looks at the row and finalises the task itself.  The stream loses nothing,
at any seam, but what was published late or never.  A DAG whose
validation returns ends in at most as many rounds as it has tasks, each task settled
unless a question interrupted a round: the indirect dependents of a
failure, which a check leaves pending, are reached by the checks that follow,
because cancelled tasks are entered in `failed_tasks`.  A call of the desktop ends
whatever the connection does, and its success is never invented, though it may be
lost.  The loops of the workflows end or ask for every review and reply.

## 4. Fairness

`TaskLifecycle`: weak fairness for each coroutine's step (the event loop resumes
every coroutine whose call has returned, and calls return or raise), for the
delivery of a cancel, for the exit of a process that is closing, and for the
restart of one that is down (the deployment restarts it).  Strong fairness for
the end of the graph's stream: it is finite (LangGraph's recursion limit, the
timeouts of model calls), but questions take the runner away from it in
between.  No fairness for clients, mishaps, questions or the stream's errors.

`EventStream`: weak fairness for publishing, for the generator (`get_message` has
a timeout) and for the client's reconnection (EventSource reconnects); none for
recording events, for finishing, or for faults.

`DagExecutor`: weak fairness for the graph's next node, and for the end of every
skill `gather` waits for (`wait_for` gives each a timeout).  None for questions.

`DesktopHands`: weak fairness for each call's next step, `Proceed(c)`: the event loop
runs what is ready and the timer of `wait_for` fires.  Nothing is assumed of the
client, which may never answer, or of users.

`Parts`: weak fairness for `Proceeds`, the steps a part takes by itself.  None for
answers or new tasks: a workflow that waits for its user may
wait for ever, and `PartsEnd` counts that as settled.

`TaskSettles` is stated up to `lost`: if a call that writes the final status fails,
the code does leave the task running until the next start, and the model says so.

## 5. Proofs

Assumptions, in `TaskLifecycle`: `RunnersSuffice` (finite sets of clients, enough
runner names) and `Distinct` (repliers, cancellers and runners are different
things).  Every theorem is for all values of the constants satisfying these.

`TaskLifecycleProofs`
- `TypeCorrect`: `Spec => []TypeOK`.
- `HonestAlways`: the inductive invariant `Honest`.  `StatusIsExplained` alone is not
  inductive: it says nothing about the coroutine about to commit a terminal
  status.  `Honest` adds `Created` (nobody works on a task without a row) and
  `AllBacked`: a coroutine at a label that ends the task already has the event,
  and for success the usage record, behind it.
- `Explained`: `Spec => []StatusIsExplained`.
- `Refines`: `Spec => ImplementsContract`.  Every step is one of `TaskContract` or
  leaves its variables alone; the terminal commits need `Honest`.
- `SettledForGood`: `Spec => SettledIsFinal`: being over with nobody at work is closed
  under every step.

`TaskOwnershipProofs`
- `OwnedAlways`: the inductive invariant `Owned`, and `NeverOrphaned`: `Spec => []NoOrphan`.
  `NoOrphan` is not inductive: a runner may be alive, yet its last write would be
  dropped because the row it loaded had that value already, or it may be killed
  outside the try.  `Owned` strengthens "somebody is at work" to "somebody is
  bound to spawn a runner or to make a write that will not be dropped"
  (`SomeoneResponsible`), with `Fresh` (a loaded row belongs to the write being
  waited on), `DownIsEmpty` (nothing outlives its process) and `KillerWaits`
  (while the service is up, whoever cancelled a runner is still awaiting it, so
  the duty passes to the canceller).

`EventStreamProofs` (assumption `Bounds`: the bounds are natural numbers)
- `StreamTypes`: `Spec => []TypeOK`.
- `Ordered`: `Spec => []OrderedOnce`, and `OnlyLateMissed`: `Spec =>
  []OnlyLateEventsAreMissed`, both from the invariant `Sent`: the frames of a
  connection never exceed `last_sent`, nothing is passed over before the
  connection is live, and once it is live `last_sent` has reached the end of its
  replay.
- `NoGapAlways`: `Spec => []NoGap`, for any number of publishers, drops and failed
  publications.  The invariant `Whole` is about the channel: together with what was
  read and sent it makes up everything published that is not astray (`Channel`),
  it rises in seq but for astray events (`Rising`), an event still to be published
  with a greater seq already in the channel counts as astray (`Overtakes`), and all
  of it is committed (`Committed`).  The client has everything up to `last_sent` but the
  astray (`Behind`), which carries the property over a reconnect.

`DagExecutorProofs` (plans whose validation raises included; assumption `DagConstants`: the limits are natural numbers, the
strategies those of `DAGFailureStrategy`)
- `DagTypes`: `Spec => []TypeOK`.
- The other theorems rest on the invariant `Ledger`: before the plan is made every
  task is pending (`Planned`), `gather` waits only for running tasks
  (`RoundRuns`), and `failed_tasks` holds what failed and some of what was
  cancelled (`FailedIsSo`).  From it, `StatusMoves`: a step takes a task from
  pending to running or cancelled, or from running to done or failed.
- `InOrder`: `Spec => []RanInOrder`; `DecidedForGood`: `Spec => DecidedOnce`;
  `ForCause`: `Spec => CancelledForCause`; `NoneLeftOut`: `Spec => []NothingLeft`, with the invariant `Nobody`
  (without a question, whatever runs is waited for).

`DesktopHandsProofs` (assumption `CallsAssumption`: `NoSocket` is no socket, every call
has a task and a tool)
- `DesktopTypes`: `Spec => []TypeOK`.
- `NoneLeftPending`: `Spec => []PendingIsInFlight`, proved together with
  `RegisteredIsServed` and the types as the invariant `Table`.
- `RegistryKept`: `Spec => RegistryHolds`; `CooldownKept`: `Spec => CooldownHolds`.
- `CarriedOut`: `Spec => []CompletedWasCarriedOut`, from `Honest`: a call is sent once
  (`SentOnce`), a good result under way is one the desktop has (`ResultsTrue`), and
  so is a future that has succeeded (`FuturesTrue`).  Without the first, a call that
  is sent again could be taken back to "working" after its result was believed.
- `DesktopRefines`: `Spec => Contract!CSafe`, the safety part of `ToolCallContract`, which
  with its liveness is the property `ImplementsContract` of the run.

`QuotaProofs`, `ResearchProofs`, `PartsProofs` (assumption `PartsAssumption`, the
conjunction of the parts' own: bounds are natural numbers, a plan's ids are modules or
the dropped id, checkpoints asked for by name are among the three, and
`HardExtension` is positive, since with 0 an extension would raise a soft budget
above its hard one).  The theorems are of `Parts`, each of whose steps is one of a part's or
leaves that part's variables alone (`ResearchStep`, `WorkerStep`, `ReplayStep`, ...).

`QuotaProofs`
- `QuotaInvariant`: `Spec => []QInv`, which counts for a period what is recorded in it
  together with the tasks that have passed it and are still to be recorded
  (`Bounded`): a task is added to the sum only while the recorded part is below the
  limit, and the other part is at most the number of tasks in flight
  (`OverlapCounts`).  `OvershootBounded` alone says nothing of those tasks.

`ResearchProofs`
- `BudgetsAlwaysGood`: the invariant `BudgetsAreGood` adds to `BudgetHolds` that no hard
  budget is below the one it started with, because a replan resets it and must not
  look like an extension.  From it `BudgetHoldsAlways`: `Spec => []BudgetHolds`, and
  `GivenUpAlwaysWaits`: `Spec => GivenUpWaits`.
- `MissingAlwaysKnown`: `Spec => []MissingIsKnown`, which speaks of the end only, and of
  one dependency.  The invariant `ResearchInv` says why a module may still be pending
  when waves ended that did not run out: it is in a set of modules each of which waits
  for another of the set, or for one the plan does not have (`Circular`, the largest
  such set); and of a circle a pending module is in, nothing has been drafted
  (`HeldUp`).  A plan is any graph, so what the proof needs is that a union of such sets is
  such a set (`CircularStalls`), and no walk along the graph.
- `AlwaysDelivers`: `Spec => []WorkerDelivers`, from `SearchesFit`: a run searches only with
  rounds left, counts evidence only after a search, and ends only when its verdict asks
  for nothing more.
- `EvidenceAlwaysAddsUp`: `Spec => []EvidenceAddsUp`.  The invariant `WorkerInv` follows it
  through the nodes of a run: the count is what the evidence has grown by since the run
  started, and what an answer brought is in the cache one node before it is in the
  evidence.
- `ReviewAlwaysSound`: `Spec => []ReviewIsSound`, from `PassesMean`: what each dimension
  that has passed says of the draft.  `CoverageMeans` and `ArgumentMeans` are the
  arithmetic of the weights and thresholds, over the sizes of the sets of modules.

`PartsProofs`
- `Overshoot`: `Spec => []OvershootBounded`, from `QInv`.
- `OfficeAlwaysGood`: the invariant `OfficeInv` says what holds at each node on the way
  to the gate (`OnTheWay`: as many builds as batches, no repair pending) and what the
  gate let through (`Gated`).  `OkIsChecked` speaks of the last node only.  From it
  `OkAlwaysChecked`: `Spec => []OkIsChecked`.
- `WatermarkAlwaysHolds`: `Spec => []WatermarkHolds`.  Of the summary that is stored the
  property is not inductive: one built earlier, from fewer rounds, may be stored over
  it.  `MemoryInv` says of the stored summary and of every one being merged that it
  stands for the rounds as they were at some earlier point (`StandsFor`): of the first
  `k` that had completed by the `m`th completion, with no more than `RecentRounds`
  beyond them, no more are missing than had completed late by then.  The lemmas say
  how the first `k` of a set change when an element is added (`FirstSize`,
  `FirstOfFirst` and those after them): each completion displaces at most one round from them,
  and only if it is late.
- `AnswersAlwaysFit`: `Spec => []AnswersFit`.  The pairing is by place, and places say
  nothing without an order: `QuestionInv` has it (`GoodLog`).  Every question and answer
  is in the log once, and the answers to all earlier questions come before
  anything of a later one; a question may still come late (`unlogged`).  So an answer
  that follows a question not its own has overtaken that question, or its own answer is
  there already.
- `HistoryFollowsTheLog`: the history, as a function of the log, changes with one more
  event as in the loop of `get_clarification_history`.  With the empty history of an
  empty log it makes the two definitions the same.
- `AcceptedAlwaysReported`: `Spec => []AcceptedIsReported`.  `DraftInv` relates the draft of
  the run to the files: the file is the draft the question was about, its checkpoint
  is saved under its number with its plan, and what has a higher number is of an
  earlier plan (`Sound`).  It is what has to survive the restarts, each of which begins
  without a draft.
- `AlwaysTyped`: `Spec => []TypeOK`, the types of every part.

Model-checked only: the liveness properties (`TaskSettles`, `CancelReturns`,
`Delivered`, `StreamEnds`, `DagFinishes`, `Concluded` of `ToolCallContract`, `PartsEnd`),
which are beyond this prover.  Every invariant and every action property that a passing
run checks is also a theorem.  The claims of section 6 are violated, and so have nothing to
prove.

## 6. Divergences between documents and code

1. *A cancelled event on a task that is not cancelled* (`task_cancelled`).
   `cancel_running_task` logs `lifecycle.cancelled` first.  If the task is parked
   for its user it has no runner, and the handler then only writes
   `cancel_state = "cancelling"`, which nothing reads, and returns.  The task
   stays `waiting_for_user`, and a reply resumes it.  `agent/session/protocol.py:30`
   says of the event that the task was cancelled.
2. *An event that no reconnect replays* (`stream_reconnect`).  Two publishers can
   publish in the other order than they committed.  The late event is dropped
   as a repetition, while the client's Last-Event-ID is already past it.
   `agent/session/protocol.py:66` says canonical events can be replayed after a
   reconnect.

3. *A cycle that fails the run* (`dag_cycle`).  The comment at
   `agent/coordinator/executor.py:239` says that circular dependencies are cleared.  But
   `validate_dag` raises `ValueError` at line 74 when a task leads into a cycle that the
   search from an earlier task has found: with t1 -> t2, t2 -> t1, t3 -> t1, or with a
   task that depends on itself and a later one that depends on it.  Nothing catches it.
   `CyclesAreCleared` shows a plan that does; `DagFinishes` says that these plans are the
   only ones on which a run fails that is asked nothing and stops at failures.
4. *A failure cancels what does not depend on it* (`dag_independent`).  Cancelled
   dependents count towards `max_total_failures` at the next check.
   `tests/test_failure_handling.py:92` says of the independent task that it
   should continue.

5. *An announced call that is never concluded* (`desktop_concluded`).
   `gateway.execute` awaits the executor outside any try.  A task that is cancelled
   meanwhile leaves `tool.started` alone in the log; step 4 in the docstring
   (`agent/hands/gateway.py:105`) is to emit `tool.completed` or `tool.failed`.
6. *A loop that never changes its strategy* (`loop_iterates`).
   `select_strategy_node` takes `selected_strategy` before anything else, and stores
   its own choice there.  `zero_report/workflow.py:293` says that planning comes first
   and then iterative, `patent/workflow.py:267` that a failed evaluation leads to
   iterative.  A plan passes its evaluation without being a result, so a zero-report
   run makes plans until LangGraph's recursion limit, and never a report.

Seen while modelling, in the modules as the code has it, and claimed by no run:

- A question in DAG mode does not stop the run.  The graph of the skill writes the question
  to the stream (streaming.py:396), so that the task waits for its user, and then raises
  its interrupt, which `run_skill_via_adapter` re-raises for LangGraph (skills.py:360).
  `execute_tasks_node` catches it (executor.py:376), so the graph is not suspended: further
  tasks are started while the question is open, and a synthesis is made that TaskService
  does not use, since the task is parked.  The reply starts the run over.
- The coordinator emits `lifecycle.failed` when too many tasks have failed, or all of them
  (executor.py:465, 520), and returns a result, with which the run completes and its task
  succeeds: the log has both events (`StreamFailureNotice`).
- The executor looks the desktop connection up again after `tool.started` was
  written, but not whether it still offers the tool.  When a newer connection goes
  first, an older one that is still open is not registered again.
- Research: the review locks a module that was given up, if it has content; the
  blocked branch of a worker replaces an existing draft by its findings, even by
  empty ones; "extend" gives a module budget, but it is searched again only if it is
  also a revision target; an answer to deliver the result as it is may be classified as
  "revise"; a replan the review drives keeps exhausted budgets.
- The review of a comparison never passes: `argument_text` is read from `argument_map`,
  `contributions` and `limitations` (reviewers.py:117), which a comparison does not plan, so
  its argument scores 0.5 at most against 0.68 (the last conjunct of `ReviewIsSound`).
  Its revisions run to their limit each time.  `coverage_ratio` (112) is read nowhere: a
  literature review may pass with two of its five modules.  Evidence with an old year fails
  where the same evidence without a year passes.  A paper outline may be told to revise
  `limitations`, which it does not have.
- `_is_checkpoint_c_accept` takes an unanswered question C for an accepted one; the
  checkpoint that is loaded for the report is the one with the highest number, which
  an earlier plan may have left (the exception in `AcceptedIsReported`).
- Office: the preflight never looks at the answer to its second question; a domain
  result with status "error" becomes a skill result with status "ok"; a reply whose list of
  artifacts has no usable entry falls back to every file that changed in the shared
  directory, another task's included, which is then closed as its own.  A path the reply
  does name is taken as it is.  No document promises otherwise.
- Patent and zero_report: `step_history` is annotated with the string "add", which is no
  reducer, so it never grows and the step limit is never reached; the cost limit is
  compared with a cost that nothing updates.
- A summary that the model returns empty is stored with its watermark
  (`blanked` in `WatermarkHolds`).

## 7. Not modelled

In the DAG: the direct and single-skill modes of the coordinator, results and
their merging, and `max_cost_usd` and `dag_timeout_seconds` (no code reads them).
In the task and its stream: several connections at once, the connection
counters (raised before `subscribe`, outside the try), the row's other columns
(`pending_question` is written by the same unlocked read and commit), heartbeat
keep-alives as bytes, and the content of events.  With the desktop: the path
aliases and the conversion of results in `DesktopToolBackend`, the gateway's local
route, which shares no state, and `cancel_invocation`, which nothing calls.  In the
workflows: the fallbacks of a search tool, the scoring of evidence, the rules for
plans and document statistics, and everything a model says beyond the fields that
routing reads.  In the quota: `BudgetPolicy` beyond its verdict, and limits on tokens
and cost, which are the same test in another unit.  In the conversation: the recall
of rounds by embeddings.

Two replies that overlap are in `TaskLifecycle`, and one reply at a time in
`ClarificationReplay`; their product is not modelled.

The remaining components are listed with their reasons in `PROJECT.json`.  In
short, providers, search, storage, skills, officecli, monitoring, routers and document
generation are calls of external services or data conversion without shared state;
the packages under `agent/domains`, `agent/root` and `agent/sub_graphs` are earlier
copies of code that is modelled, which TaskService does not build.  Together with
prompts these make up most of the repository's lines, so the share of lines the
modules translate is small: it is the control that decides order, failure and
ending, and not the text around it.

## 8. Plan

Done: `TaskLifecycle` and `TaskContract`; `EventStream`; `DagExecutor`; `DesktopHands` and
`ToolCallContract`; `ResearchWorkflow`, `ResearchWorker`, `ResearchReview`, `ClarificationReplay`, `OfficeWorkflow`,
`StrategyLoop`, `Quota`, `ConversationMemory` and their composition; the proofs of
section 5.

Left, in the order of what they would add:

1. an abstract `DagRun` (each task is settled once, after its dependencies), and the
   single-skill mode, whose questions do suspend the graph;
2. replies that overlap, with the clarification history;
3. the connection counters of the stream, and several clients of one task;
4. authentication, and the rules by which evidence is scored.
