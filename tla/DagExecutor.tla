----------------------------- MODULE DagExecutor ------------------------------
(***************************************************************************)
(* One run of the coordinator in DAG mode (agent/coordinator/executor.py): *)
(* the plan of a model is validated and repaired, and its tasks are        *)
(* executed in rounds until none is left:                                  *)
(*                                                                         *)
(*   decompose -> execute -> gather -> check -> execute ..                 *)
(*                                           -> synthesize -> end          *)
(*                                                                         *)
(* A round starts the ready tasks (at most max_parallel_tasks), whose      *)
(* skills run concurrently under asyncio.gather; check_dependencies        *)
(* cancels what can no longer run.  A task is its position in the plan.    *)
(* Its skill succeeds, fails (or exceeds its timeout), or asks the user:   *)
(* its question goes out to the user with the events of the skill's graph, *)
(* and then GraphInterrupt is raised, which gather hands to the node at    *)
(* once.  The node returns without the results of the round, while the     *)
(* other skills of the round, and the coordinator, go on.  What such a run *)
(* ends with is not used: its task waits for the user.                     *)
(*                                                                         *)
(* Ids are taken to be distinct, as the planner is told to make them.  A   *)
(* crash of the process ends the run; what a restart makes of it is the    *)
(* subject of TaskLifecycle.                                               *)
(***************************************************************************)
EXTENDS Naturals, FiniteSets

CONSTANTS
  NumTasks,      \* tasks of the plan
  Strategies,    \* failure strategies a run may be configured with
  MaxDepth,      \* MAX_DAG_DEPTH
  MaxParallel,   \* max_parallel_tasks
  MaxFailures,   \* max_total_failures
  MaxRounds,     \* LangGraph's recursion limit, in rounds of the loop
  MaxAsks        \* bound: questions raised by skills

Tasks == 1 .. NumTasks

ASSUME DagConstants ==
  /\ NumTasks \in Nat \ {0} /\ MaxDepth \in Nat /\ MaxParallel \in Nat \ {0}
  /\ MaxFailures \in Nat /\ MaxRounds \in Nat /\ MaxAsks \in Nat
  /\ Strategies \subseteq {"stop", "stop_dependents", "continue"}

VARIABLES
  strategy,    \* config.failure_strategy
  node,        \* the node of the graph that runs; "gather": execute_tasks awaits
  deps,        \* task -> depends_on
  status,      \* task -> Task.status
  completed,   \* the keys of completed_tasks (and of task_vars)
  failed,      \* the keys of failed_tasks
  round,       \* the tasks gather waits for
  result,      \* task -> what its skill returned to gather
  busy,        \* tasks whose skill is still executing
  asked,       \* history: tasks whose skill has asked the user
  rounds       \* rounds begun

plan == <<strategy, deps>>
books == <<status, completed, failed>>
skills == <<round, result, busy, asked>>
vars == <<plan, node, books, skills, rounds>>

Statuses == {"pending", "running", "done", "failed", "cancelled"}
Settled == {"done", "failed", "cancelled"}

TypeOK ==
  /\ strategy \in Strategies
  /\ node \in {"decompose", "execute", "gather", "check", "synthesize", "end", "error"}
  /\ deps \in [Tasks -> SUBSET Tasks]
  /\ status \in [Tasks -> Statuses]
  /\ completed \subseteq Tasks /\ failed \subseteq Tasks
  /\ round \subseteq Tasks
  /\ result \in [Tasks -> {"none", "ok", "error"}]
  /\ busy \subseteq Tasks /\ asked \subseteq Tasks
  /\ rounds \in 0 .. MaxRounds

Init ==
  /\ strategy \in Strategies
  /\ node = "decompose"
  /\ deps = [t \in Tasks |-> {}]
  /\ status = [t \in Tasks |-> "pending"]
  /\ completed = {} /\ failed = {}
  /\ round = {}
  /\ result = [t \in Tasks |-> "none"]
  /\ busy = {} /\ asked = {}
  /\ rounds = 0

\* Definitions named Mut... are plausible bugs; no action uses them.  A run with
\* one put in the place of the definition that follows must find a violation.

----------------------------------------------------------------------------
(* decompose_tasks *)

\* The tasks of graph d that are at most k dependencies deep (none on a cycle).
Within(d, k) ==
  LET upTo[i \in 0 .. k] ==
        IF i = 0 THEN {t \in Tasks : d[t] = {}}
        ELSE LET shallower == upTo[i - 1] IN {t \in Tasks : d[t] \subseteq shallower}
  IN  upTo[k]

\* The tasks from which a cycle can be reached.
Cyclic(d) == Tasks \ Within(d, NumTasks)

\* The dependencies the search for cycles follows from the tasks in Cyclic(d): of
\* each task the first that leads to a cycle, in the arbitrary order of a set; the
\* others before it are left black.
Searches(d) ==
  LET cyclic == Cyclic(d)
  IN  {next \in [cyclic -> cyclic] : \A t \in cyclic : next[t] \in d[t]}

\* The tasks on the way of the search that starts at t.
Way(next, t) ==
  LET upTo[i \in 0 .. NumTasks] ==
        IF i = 0 THEN {t} ELSE {t} \cup {next[u] : u \in upTo[i - 1]}
  IN  upTo[NumTasks]

\* What the searches for the tasks before t, in the order of the plan, leave gray:
\* a search that finds a cycle returns without making a task of its way black.
GrayBefore(next, t) == UNION {Way(next, u) : u \in {v \in DOMAIN next : v < t}}

\* A later search meets a gray task that is not on its own path: path.index raises
\* ValueError.
Stumbles(next) ==
  \E t \in DOMAIN next :
    LET gray == GrayBefore(next, t)
    IN  t \notin gray /\ Way(next, t) \cap gray # {}

\* A search that gets to its end has found neither a cycle nor a task too deep.
Valid(d) == Within(d, MaxDepth) = Tasks

\* A plan that is cyclic or too deep loses all its dependencies.
Repaired(d) == IF Valid(d) THEN d ELSE [t \in Tasks |-> {}]

\* The plans a model may make, without their references to unknown tasks, which
\* are dropped first: any graph at all.
RawPlans == [Tasks -> SUBSET Tasks]

\* What becomes of those whose validation may come to its end.
Plans == {Repaired(d) : d \in {raw \in RawPlans : \E next \in Searches(raw) : ~Stumbles(next)}}

\* Those whose validation may raise.
FatalPlans == {raw \in RawPlans : \E next \in Searches(raw) : Stumbles(next)}

DecomposeTasks ==
  /\ node = "decompose"
  /\ deps' \in Plans
  /\ node' = "execute"
  /\ UNCHANGED <<strategy, books, skills, rounds>>

\* Nothing catches the exception of the validation: the run ends with it.
DecomposeRaises ==
  /\ node = "decompose"
  /\ deps' \in FatalPlans
  /\ node' = "error"
  /\ UNCHANGED <<strategy, books, skills, rounds>>

----------------------------------------------------------------------------
(* execute_tasks *)

\* Mutant: a dependency that failed counts as finished.
MutReady(t) == status[t] = "pending" /\ deps[t] \subseteq completed \cup failed

\* is_task_ready
Ready(t) ==
  /\ status[t] = "pending"
  /\ \A d \in deps[t] : d \in completed /\ status[d] = "done"

\* ready_tasks[:max_parallel_tasks], in the order of the plan
NextRound ==
  {t \in Tasks : Ready(t) /\ Cardinality({u \in Tasks : u < t /\ Ready(u)}) < MaxParallel}

StartRound ==
  /\ node = "execute" /\ rounds < MaxRounds
  /\ NextRound # {}
  /\ rounds' = rounds + 1
  /\ round' = NextRound
  /\ busy' = busy \cup NextRound
  /\ status' = [t \in Tasks |-> IF t \in NextRound THEN "running" ELSE status[t]]
  /\ node' = "gather"
  /\ UNCHANGED <<plan, completed, failed, result, asked>>

\* No task is ready: the node changes nothing.
EmptyRound ==
  /\ node = "execute" /\ rounds < MaxRounds
  /\ NextRound = {}
  /\ rounds' = rounds + 1
  /\ node' = "check"
  /\ UNCHANGED <<plan, books, skills>>

\* GraphRecursionError
RecursionLimit ==
  /\ node = "execute" /\ rounds = MaxRounds
  /\ node' = "error"
  /\ UNCHANGED <<plan, books, skills, rounds>>

\* A skill that gather waits for returns, or exceeds its timeout.
SkillEnds(t) ==
  /\ node = "gather" /\ t \in round \cap busy
  /\ \E r \in {"ok", "error"} : result' = [result EXCEPT ![t] = r]
  /\ busy' = busy \ {t}
  /\ UNCHANGED <<plan, node, books, round, asked, rounds>>

\* A skill that gather no longer waits for ends, however it does.
StrayEnds(t) ==
  /\ t \in busy \ round
  /\ busy' = busy \ {t}
  /\ UNCHANGED <<plan, node, books, round, result, asked, rounds>>

\* A skill asks the user, who has the question by now.  LangGraph does not see the
\* interrupt, because the node returns in its place: the tasks of the round stay
\* "running", with or without a result.
SkillAsks(t) ==
  /\ node = "gather" /\ t \in round \cap busy
  /\ Cardinality(asked) < MaxAsks
  /\ asked' = asked \cup {t}
  /\ busy' = busy \ {t}
  /\ round' = {}
  /\ result' = [u \in Tasks |-> "none"]
  /\ node' = "check"
  /\ UNCHANGED <<plan, books, rounds>>

\* Mutant: the status of the skill's result becomes that of the task.
MutVerdict(t) == IF result[t] = "ok" THEN "done" ELSE result[t]

Verdict(t) == IF result[t] = "ok" THEN "done" ELSE "failed"

CollectResults ==
  /\ node = "gather"
  /\ \A t \in round : result[t] # "none"
  /\ status' = [t \in Tasks |-> IF t \in round THEN Verdict(t) ELSE status[t]]
  /\ completed' = completed \cup {t \in round : result[t] = "ok"}
  /\ failed' = failed \cup {t \in round : result[t] # "ok"}
  /\ round' = {}
  /\ result' = [t \in Tasks |-> "none"]
  /\ node' = "check"
  /\ UNCHANGED <<plan, busy, asked, rounds>>

----------------------------------------------------------------------------
(* check_dependencies *)

\* Mutant: everything unfinished is cancelled, what has failed included.
MutWaiting == {t \in Tasks : status[t] # "done"}

Waiting == {t \in Tasks : status[t] = "pending"}

\* Mutant: off by one.
MutTooMany == Cardinality(failed) + 1 >= MaxFailures

TooMany == Cardinality(failed) >= MaxFailures

\* Of the dependents the direct ones: theirs are cancelled by the checks that follow.
Cancelled ==
  {t \in Waiting :
     \/ TooMany
     \/ strategy = "stop" /\ failed # {}
     \/ strategy = "stop_dependents" /\ deps[t] \cap failed # {}}

\* Mutant: a cancelled task is never entered in failed_tasks.
MutAlsoFailed == {}
\* Stopping everything enters nothing in failed_tasks.
AlsoFailed == IF ~TooMany /\ strategy = "stop" THEN {} ELSE Cancelled

\* Mutant: only running tasks count as active.
MutRoute(left, running) == IF running # {} /\ left # {} THEN "execute" ELSE "synthesize"

\* route_after_check_dependencies: left are the pending tasks
Route(left, running) == IF left # {} THEN "execute" ELSE "synthesize"

CheckDependencies ==
  /\ node = "check"
  /\ status' = [t \in Tasks |-> IF t \in Cancelled THEN "cancelled" ELSE status[t]]
  /\ failed' = failed \cup AlsoFailed
  /\ node' = Route(Waiting \ Cancelled, {t \in Tasks : status[t] = "running"})
  /\ UNCHANGED <<plan, completed, skills, rounds>>

Synthesize ==
  /\ node = "synthesize"
  /\ node' = "end"
  /\ UNCHANGED <<plan, books, skills, rounds>>

----------------------------------------------------------------------------

Coordinator ==
  \/ DecomposeTasks \/ DecomposeRaises \/ StartRound \/ EmptyRound \/ RecursionLimit
  \/ CollectResults \/ CheckDependencies \/ Synthesize

Next ==
  \/ Coordinator
  \/ \E t \in Tasks : SkillEnds(t) \/ StrayEnds(t) \/ SkillAsks(t)

Spec == Init /\ [][Next]_vars

(***************************************************************************)
(* LangGraph runs the node that is due, and every skill ends, by itself or *)
(* by the timeout its task runs under (wait_for).                          *)
(***************************************************************************)
Fairness == WF_vars(Coordinator) /\ \A t \in Tasks : WF_vars(SkillEnds(t))

FairSpec == Spec /\ Fairness

----------------------------------------------------------------------------
(* Properties *)

(***************************************************************************)
(* A task that has been started had the results of all its dependencies in *)
(* task_vars, whatever the plan, the failures and the questions.           *)
(***************************************************************************)
RanInOrder ==
  \A t \in Tasks : status[t] \in {"running", "done", "failed"} => deps[t] \subseteq completed

(***************************************************************************)
(* A task is decided once: neither a later check nor a skill that ends     *)
(* late turns a finished task into a cancelled or a failed one.            *)
(***************************************************************************)
DecidedOnce ==
  [][\A t \in Tasks : status[t] \in Settled => status'[t] = status[t]]_vars

(***************************************************************************)
(* When the results are put together no task is left out: if no skill has  *)
(* asked, each is done, failed or cancelled.                               *)
(***************************************************************************)
NothingLeft ==
  node \in {"synthesize", "end"} /\ asked = {} => \A t \in Tasks : status[t] \in Settled

\* The tasks that will not be done.
Losses == {t \in Tasks : status[t] \in {"failed", "cancelled"}}

(***************************************************************************)
(* A task is cancelled for a reason that was there before: it depends on   *)
(* one that failed or was cancelled, or as many have as the limit allows,  *)
(* or with the strategy stop, any has.                                     *)
(***************************************************************************)
CancelledForCause ==
  [][\A t \in Tasks : status'[t] = "cancelled" /\ status[t] # "cancelled" =>
       \/ deps[t] \cap Losses # {}
       \/ Cardinality(Losses) >= MaxFailures
       \/ strategy = "stop" /\ Losses # {}]_vars

(***************************************************************************)
(* A run none of whose skills asks ends with a synthesis: whatever fails,  *)
(* and for every plan that is acyclic, too deep, or cyclic without making  *)
(* its validation raise, it does not run into the recursion limit, unless  *)
(* its strategy is to stop nothing.  A plan keeps a cycle only if its      *)
(* validation raised.                                                      *)
(***************************************************************************)
DagFinishes ==
  <>(node = "end" \/ asked # {} \/ strategy = "continue" \/ Cyclic(deps) # {})

(***************************************************************************)
(* "Circular dependencies cannot simply be repaired, cleared outright"     *)
(* (agent/coordinator/executor.py:239): no run fails over a cycle in its   *)
(* plan.                                                                   *)
(***************************************************************************)
CyclesAreCleared == node = "error" => Cyclic(deps) = {}

(***************************************************************************)
(* With stop_dependents a task is cancelled because of a task it depends   *)
(* on, or because max_total_failures tasks have failed: one that depends   *)
(* on no failure goes on (tests/test_failure_handling.py:92).              *)
(***************************************************************************)
IndependentGoesOn ==
  \A t \in Tasks : status[t] = "cancelled" =>
    \/ \E d \in deps[t] : status[d] \in {"failed", "cancelled"}
    \/ Cardinality({u \in Tasks : status[u] = "failed"}) >= MaxFailures

=============================================================================
