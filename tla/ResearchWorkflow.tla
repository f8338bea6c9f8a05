--------------------------- MODULE ResearchWorkflow ---------------------------
(***************************************************************************)
(* The research workflow (agent/workflows/research): a plan of modules     *)
(* with dependencies, waves of workers with a search budget each           *)
(* (worker.py), a review of the draft (reviewers.py), and three points     *)
(* where the user may be asked (workflow.py).  One action is one node of   *)
(* the graph; the node that coordinates the workers takes one step per     *)
(* wave, since gather hands their results back together.  What a module    *)
(* says is abstracted to whether it has a draft, the review to the modules *)
(* it targets.  A question is answered in place, which is what a replay    *)
(* with the same model outputs does; ClarificationReplay has the others.   *)
(* Integers for rounds.  stall_count and query_rewrite_attempts are left   *)
(* out: _terminal_budget_blocked is only asked together with consumed <    *)
(* hard, which it implies the contrary of.                                 *)
(***************************************************************************)
EXTENDS Naturals

CONSTANTS
  Modules,        \* module ids of the deliverable's fallback plan
  Dropped,        \* an id the planner or the review may name, of no module
  PartialIds,     \* modules _supports_partial_draft lets draft early
  ExplicitSets,   \* checkpoints at which a task may ask to be asked
  ResearchPlans,  \* plans of the planner: module -> depends_on
  Reviews,        \* sets of modules a review or the user may target
  SoftBudget,     \* soft_budget of a new module
  HardExtension,  \* dynamic_budget_hard_extension
  MaxWaves,       \* max_waves
  MaxRevisions,   \* max_revision_cycles
  MaxAnswers      \* bound: answers the user gives

ResearchAssumption ==
  /\ Dropped \notin Modules
  /\ PartialIds \subseteq Modules
  /\ ExplicitSets \subseteq SUBSET {"checkpoint_a", "checkpoint_b", "checkpoint_c"}
  /\ Reviews \subseteq SUBSET (Modules \cup {Dropped})
  /\ ResearchPlans \subseteq [Modules -> SUBSET (Modules \cup {Dropped})]
  /\ {SoftBudget, MaxWaves, MaxRevisions, MaxAnswers} \subseteq Nat
  /\ HardExtension \in Nat \ {0}  \* with 0 Granted would pass the hard budget

VARIABLES
  node,         \* the node of the graph that runs next
  explicit,     \* checkpoints of interactive_checkpoints
  plan,         \* depends_on of every module
  status,       \* module_status
  drafted,      \* modules of module_outputs with content
  evidence,     \* evidence_bank is not empty
  budget,       \* budget.module_budgets and module_runtime
  wave,         \* waves of coordinate_modules done
  targets,      \* revision_targets
  listed,       \* blocked_modules
  awaiting,     \* budget.awaiting_user_decision
  decision,     \* budget.last_user_decision
  replan,       \* needs_replan
  skipA,        \* skip_checkpoint_a_once
  fromB,        \* active_checkpoint = "checkpoint_b" and evaluations
  round,        \* revision_round
  answers       \* answers the user has given

modulesState == <<status, drafted, evidence, budget, wave, listed, awaiting>>
control == <<explicit, plan, targets, decision, replan, skipA, fromB, round, answers>>
rwVars == <<node, modulesState, control>>

Checkpoints == {"checkpoint_a", "checkpoint_b", "checkpoint_c"}
Statuses == {"pending", "needs_revision", "completed", "locked", "blocked", "skipped"}
Decisions == {"", "extend", "accept"}
\* feedback_action and _budget_feedback_action of one answer: neither bars
\* a value of the other.
Answers == [action : {"accept", "revise", "replan"}, budget : Decisions]
Silence == [action |-> "accept", budget |-> ""]

NewBudget == [soft |-> SoftBudget, hard |-> SoftBudget + HardExtension,
              used |-> 0, terminal |-> FALSE]

Init ==
  /\ node = "planner"
  /\ explicit \in ExplicitSets
  /\ plan \in ResearchPlans
  /\ status = [m \in Modules |-> "pending"]
  /\ drafted = {} /\ evidence = FALSE
  /\ budget = [m \in Modules |-> NewBudget]
  /\ wave = 0
  /\ targets = {} /\ listed = {}
  /\ awaiting = FALSE /\ decision = ""
  /\ replan = FALSE /\ skipA = FALSE /\ fromB = FALSE
  /\ round = 0 /\ answers = 0

-----------------------------------------------------------------------------
\* A node that calls ask_user; one that need not goes on as if told to accept.
Asks(checkpoint) == checkpoint \in explicit
Answered(asked, a) ==
  IF asked THEN a \in Answers /\ answers < MaxAnswers /\ answers' = answers + 1
           ELSE a = Silence /\ UNCHANGED answers

\* planner_node: a replan the review drove keeps the budgets and the round.
Planner ==
  LET reviewDriven == replan /\ fromB IN
  /\ node = "planner"
  /\ node' = "checkpoint_a"
  /\ plan' \in ResearchPlans
  /\ status' = [m \in Modules |-> "pending"]
  /\ drafted' = {} /\ evidence' = FALSE
  /\ targets' = {} /\ listed' = {}
  /\ replan' = FALSE /\ skipA' = reviewDriven
  /\ fromB' = FALSE /\ wave' = 0
  /\ IF reviewDriven THEN UNCHANGED <<budget, awaiting, decision, round>>
     ELSE /\ budget' = [m \in Modules |-> NewBudget]
          /\ awaiting' = FALSE /\ decision' = "" /\ round' = 0
  /\ UNCHANGED <<explicit, answers>>

\* checkpoint_a_node and its route.
CheckpointA(a) ==
  /\ node = "checkpoint_a"
  /\ Answered(~skipA /\ Asks("checkpoint_a"), a)
  /\ replan' = (a.action # "accept")
  /\ node' = IF replan' THEN "planner" ELSE "modules"
  /\ skipA' = FALSE /\ wave' = 0
  /\ UNCHANGED <<explicit, plan, targets, decision, fromB, round, status,
                 drafted, evidence, budget, listed, awaiting>>

-----------------------------------------------------------------------------
(***************************** coordinate_modules *************************)
Open(m, st) == st[m] \in {"pending", "needs_revision"}
StatusOf(d, st) == IF d \in Modules THEN st[d] ELSE "unknown"
Ready(st) ==
  {m \in Modules : Open(m, st) /\ \A d \in plan[m] : StatusOf(d, st) \in {"completed", "locked"}}
Hindered(m, st) == \E d \in plan[m] : StatusOf(d, st) \in {"blocked", "skipped"}
Partials(st, dr, ev) ==
  {m \in PartialIds :
     /\ Open(m, st) /\ Hindered(m, st)
     /\ \A d \in plan[m] : StatusOf(d, st) \in {"completed", "locked", "blocked", "skipped"}
     /\ plan[m] \cap dr # {} \/ ev}

\* _maybe_extend_budget(force=True): up to the hard budget, never beyond.
MutExtended(b) == [b EXCEPT !.soft = IF @ + 1 > b.used + 1 THEN @ + 1 ELSE b.used + 1]
Extended(b) ==
  IF b.soft >= b.hard THEN b
  ELSE LET next == IF b.soft + 1 > b.used + 1 THEN b.soft + 1 ELSE b.used + 1
       IN [b EXCEPT !.soft = IF next > b.hard THEN b.hard ELSE next]

\* What run_worker returns (ResearchWorker): it makes some of the searches that
\* are left of the soft budget, finds two new records or not, and ends completed,
\* blocked or with an exception.  text: its findings are not empty.
Results(b) ==
  {r \in [kind : {"completed", "blocked"}, used : b.used..b.soft, text : BOOLEAN,
          found : BOOLEAN] : r.found => r.used > b.used}
  \cup [kind : {"error"}, used : {b.used}, text : {FALSE}, found : {FALSE}]

\* _run_one: a module at its soft budget is extended, or is blocked without
\* a search.  Its draft is then returned as it was.
AtLimit(b) == b.used >= b.soft /\ b.soft >= b.hard
Started(b) == IF b.used >= b.soft THEN Extended(b) ELSE b
OutcomesOf(m) ==
  IF AtLimit(budget[m])
  THEN [kind : {"limit"}, used : {budget[m].used}, text : {m \in drafted}, found : {FALSE}]
  ELSE Results(Started(budget[m]))

\* One module's result applied: its status, budget, and whether it has a draft.
Applied(m, r) ==
  LET b0 == [Started(budget[m]) EXCEPT !.used = r.used]
      b == IF r.found THEN Extended(b0) ELSE b0
  IN CASE r.kind = "error" ->
            [status |-> "needs_revision", budget |-> b, text |-> m \in drafted]
       [] r.kind \in {"blocked", "limit"} /\ b.used < b.hard ->
            [status |-> "needs_revision", budget |-> Extended(b),
             text |-> r.text \/ m \in drafted]
       [] r.kind \in {"blocked", "limit"} /\ b.used >= b.hard ->
            [status |-> "blocked", budget |-> [b EXCEPT !.terminal = TRUE],
             text |-> r.text]
       [] r.kind = "completed" /\ ~r.text ->
            [status |-> "needs_revision", budget |-> b, text |-> m \in drafted]
       [] r.kind = "completed" /\ r.text ->
            [status |-> "completed", budget |-> [b EXCEPT !.terminal = FALSE],
             text |-> TRUE]

\* One wave: the workers of the ready modules, then the partial drafts of the
\* modules that were hindered before it.
Wave ==
  LET ready == Ready(status)
      partial == Partials(status, drafted, evidence)
  IN /\ node = "modules" /\ wave < MaxWaves
     /\ ready \cup partial # {}
     /\ \E r \in [ready -> UNION {OutcomesOf(m) : m \in ready}] :
          /\ \A m \in ready : r[m] \in OutcomesOf(m)
          /\ LET after == [m \in ready |-> Applied(m, r[m])] IN
             /\ status' = [m \in Modules |->
                             CASE m \in partial -> "completed"
                               [] m \in ready -> after[m].status
                               [] OTHER -> status[m]]
             /\ budget' = [m \in Modules |-> IF m \in ready THEN after[m].budget ELSE budget[m]]
             /\ drafted' = (drafted \ ready) \cup partial \cup {m \in ready : after[m].text}
             /\ awaiting' = (awaiting \/ \E m \in ready : after[m].status = "blocked")
             /\ evidence' = (evidence \/ \E m \in ready : r[m].found)
     /\ wave' = wave + 1
     /\ UNCHANGED <<node, listed, control>>

\* After the waves: the last partial drafts, then every open module that is
\* behind a blocked one is skipped, and the blocked and skipped are listed.
Skips(st) ==
  LET open == {m \in Modules : Open(m, st)}
      bad == {m \in Modules : st[m] \in {"blocked", "skipped"}}
  IN open \ UNION {K \in SUBSET open : \A m \in K : plan[m] \cap (bad \cup (open \ K)) = {}}
ListedOf(st) == {m \in Modules : st[m] \in {"blocked", "skipped"}}
MutEndWaves ==
  /\ node = "modules"
  /\ wave = MaxWaves \/ Ready(status) \cup Partials(status, drafted, evidence) = {}
  /\ LET partial == Partials(status, drafted, evidence)
         st == [m \in Modules |-> IF m \in partial THEN "completed" ELSE status[m]]
     IN /\ status' = [m \in Modules |-> IF m \in Skips(st) THEN "skipped" ELSE st[m]]
        /\ listed' = ListedOf(st)
        /\ drafted' = drafted \cup partial
  /\ node' = "evaluate"
  /\ UNCHANGED <<evidence, budget, wave, awaiting, control>>
EndWaves ==
  /\ node = "modules"
  /\ wave = MaxWaves \/ Ready(status) \cup Partials(status, drafted, evidence) = {}
  /\ LET partial == Partials(status, drafted, evidence)
         st == [m \in Modules |-> IF m \in partial THEN "completed" ELSE status[m]]
     IN /\ status' = [m \in Modules |-> IF m \in Skips(st) THEN "skipped" ELSE st[m]]
        /\ listed' = ListedOf(status')
        /\ drafted' = drafted \cup partial
  /\ node' = "evaluate"
  /\ UNCHANGED <<evidence, budget, wave, awaiting, control>>

-----------------------------------------------------------------------------
\* aggregate_draft_node always has a draft, the modules put together.
\* evaluate_draft_node: the review passes exactly when it targets nothing, locks
\* every drafted module it does not target, and may raise soft budgets.
Reviewed(tg) ==
  [m \in Modules |->
     CASE m \in drafted \ tg -> "locked"
       [] m \in tg /\ status[m] \notin {"blocked", "skipped"} -> "needs_revision"
       [] OTHER -> status[m]]
Raised(b) == IF b.soft >= b.hard THEN b ELSE [b EXCEPT !.soft = @ + 1]
Evaluate ==
  /\ node = "evaluate"
  /\ \E tg \in Reviews, raised \in {{}, Modules}, misses \in BOOLEAN :
       /\ targets' = tg
       /\ replan' = (misses /\ tg # {})
       /\ status' = Reviewed(tg)
       /\ budget' = [m \in Modules |-> IF m \in raised THEN Raised(budget[m]) ELSE budget[m]]
       /\ node' = IF tg = {} THEN "checkpoint_c" ELSE "checkpoint_b"
  /\ UNCHANGED <<drafted, evidence, wave, listed, awaiting,
                 explicit, plan, decision, skipA, fromB, round, answers>>

Actionable(tg) == {t \in tg : StatusOf(t, status) \notin {"completed", "locked"}}

\* _checkpoint_b_requires_user; the review that failed wants the user's feedback.
MutRequiresUser ==
  \/ Asks("checkpoint_b") \/ awaiting
  \/ Actionable(targets) = {}
RequiresUser ==
  \/ Asks("checkpoint_b") \/ awaiting \/ replan
  \/ Actionable(targets) = {}

\* _extend_budget_after_user_feedback.
Granted(b) ==
  IF ~b.terminal THEN b
  ELSE [b EXCEPT !.hard = @ + HardExtension, !.terminal = FALSE,
                 !.soft = IF @ > b.used + 1 THEN @ ELSE b.used + 1]

\* The answer to checkpoint B that extends budgets.
MutExtends(a) == awaiting /\ a.budget # "accept"
Extends(a) == awaiting /\ a.budget = "extend"

\* checkpoint_b_node and its route.
RouteB(tg, aw, de) ==
  IF \/ aw /\ de # "extend"
     \/ Actionable(tg) = {} /\ listed # {}
     \/ round >= MaxRevisions
  THEN "synthesize" ELSE "optimize"
CheckpointB(a) ==
  /\ node = "checkpoint_b"
  /\ Answered(RequiresUser, a)
  /\ budget' = IF Extends(a) THEN [m \in Modules |-> Granted(budget[m])] ELSE budget
  /\ awaiting' = (awaiting /\ ~Extends(a))
  /\ decision' = IF awaiting /\ a.budget # "" THEN a.budget ELSE decision
  /\ replan' = (replan \/ a.action = "replan")
  /\ \E more \in IF a.action = "revise" THEN Reviews \ {{}} ELSE {{}} :
       targets' = targets \cup more
  /\ node' = IF replan' THEN "planner" ELSE RouteB(targets', awaiting', decision')
  /\ fromB' = TRUE
  /\ UNCHANGED <<status, drafted, evidence, wave, listed, explicit, plan, skipA, round>>

\* optimize_modules_node: every target is to be revised, whatever its status.
Optimize ==
  /\ node = "optimize"
  /\ IF targets = {}
     THEN node' = "evaluate" /\ UNCHANGED <<status, wave, round>>
     ELSE /\ node' = "modules"
          /\ status' = [m \in Modules |-> IF m \in targets THEN "needs_revision" ELSE status[m]]
          /\ wave' = 0 /\ round' = round + 1
  /\ UNCHANGED <<drafted, evidence, budget, listed, awaiting,
                 explicit, plan, targets, decision, replan, skipA, fromB, answers>>

\* checkpoint_c_node and its route.
CheckpointC(a) ==
  /\ node = "checkpoint_c"
  /\ Answered(Asks("checkpoint_c"), a)
  /\ replan' = (a.action = "replan")
  /\ targets' \in IF a.action = "revise" THEN Reviews \ {{}} ELSE {{}}
  /\ node' = CASE a.action = "replan" -> "planner"
               [] a.action = "revise" -> "optimize"
               [] a.action = "accept" -> "synthesize"
  /\ fromB' = FALSE
  /\ UNCHANGED <<modulesState, explicit, plan, decision, skipA, round>>

\* synthesize_final_payload: the draft, and a section on the listed modules.
Synthesize ==
  /\ node = "synthesize" /\ node' = "done"
  /\ UNCHANGED <<modulesState, control>>

\* The checkpoints that wait for the user; the others go on by themselves.
AsksNow ==
  \/ node = "checkpoint_a" /\ ~skipA /\ Asks("checkpoint_a")
  \/ node = "checkpoint_b" /\ RequiresUser
  \/ node = "checkpoint_c" /\ Asks("checkpoint_c")
Checkpoint(a) == CheckpointA(a) \/ CheckpointB(a) \/ CheckpointC(a)
Work ==
  \/ Planner \/ Wave \/ EndWaves \/ Evaluate \/ Optimize \/ Synthesize
  \/ Checkpoint(Silence)
Next == Work \/ \E a \in Answers : Checkpoint(a)

\* The event loop runs the graph on; nothing makes the user answer.
Proceeds == Work /\ ~AsksNow
Spec == Init /\ [][Next]_rwVars /\ WF_rwVars(Proceeds)

-----------------------------------------------------------------------------
TypeOK ==
  /\ node \in Checkpoints \cup {"planner", "modules", "evaluate",
                               "optimize", "synthesize", "done"}
  /\ explicit \subseteq Checkpoints
  /\ plan \in [Modules -> SUBSET (Modules \cup {Dropped})]
  /\ status \in [Modules -> Statuses]
  /\ drafted \subseteq Modules /\ listed \subseteq Modules
  /\ targets \subseteq Modules \cup {Dropped}
  /\ budget \in [Modules -> [soft : Nat, hard : Nat, used : Nat, terminal : BOOLEAN]]
  /\ wave \in Nat /\ round \in Nat /\ answers \in Nat
  /\ decision \in Decisions
  /\ evidence \in BOOLEAN /\ awaiting \in BOOLEAN /\ replan \in BOOLEAN
  /\ skipA \in BOOLEAN /\ fromB \in BOOLEAN

\* Searches stay within the soft budget of their module, which stays within its
\* hard budget; a module that is given up has used all of it.
BudgetHolds ==
  \A m \in Modules :
    /\ budget[m].used <= budget[m].soft /\ budget[m].soft <= budget[m].hard
    /\ budget[m].terminal => budget[m].used = budget[m].hard

\* A module given up at its hard budget is not searched again, whatever reviews
\* and revisions follow, until the user extends the budget.
GivenUpWaits ==
  [][\A m \in Modules :
       /\ budget[m].terminal => budget'[m].used <= budget[m].used
       /\ budget[m].terminal /\ budget'[m].hard > budget[m].hard
            => awaiting /\ ~awaiting' /\ decision' = "extend"]_rwVars

\* A module without a draft is never left out of the final output unnoticed: it
\* is listed as blocked, or is to be revised, or waits for such a module, for
\* one that the plan names and does not have, or the waves ran out.
MissingIsKnown ==
  node = "done" =>
    \A m \in Modules \ drafted :
      \/ m \in listed \/ status[m] = "needs_revision" \/ wave = MaxWaves
      \/ \E d \in plan[m] : StatusOf(d, status) \in {"pending", "needs_revision", "unknown"}

\* The workflow ends or asks: no plan, review or outcome keeps it going.
Settled == node = "done" \/ AsksNow
Ends == []<>Settled
=============================================================================
