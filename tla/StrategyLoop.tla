----------------------------- MODULE StrategyLoop -----------------------------
(***************************************************************************)
(* The loop of the patent and zero-report workflows                        *)
(* (agent/workflows/patent, agent/workflows/zero_report): select a         *)
(* strategy, execute it, review what it wrote, until a review passes.  The *)
(* node that selects stores its choice in the state it reads it from.      *)
(***************************************************************************)
EXTENDS Naturals

CONSTANTS
  Loops,     \* the workflows that run: "patent", "zero_report"
  MaxRounds  \* bound: rounds to the step limit, or LangGraph's recursion limit

LoopAssumption ==
  Loops \subseteq {"patent", "zero_report"} /\ MaxRounds \in Nat \ {0}

VARIABLES
  loop,      \* the workflow
  loopNode,  \* the node that runs next
  selected,  \* selected_strategy
  result,    \* the last of intermediate_results
  review,    \* the last of evaluations
  rounds     \* rounds made

slVars == <<loop, loopNode, selected, result, review, rounds>>

Valid(l) == IF l = "patent" THEN {"sequential", "iterative"} ELSE {"planning", "iterative"}
Usual(l) == IF l = "patent" THEN "sequential" ELSE "planning"

Init ==
  /\ loop \in Loops /\ loopNode = "select"
  /\ selected = "" /\ result = "none" /\ review = "none" /\ rounds = 0

\* select_strategy_node
Preferred ==
  IF selected # "" THEN selected
  ELSE IF review = "failed" /\ result # "none" THEN "iterative" ELSE Usual(loop)
Select ==
  /\ loopNode = "select" /\ loopNode' = "execute"
  /\ selected' = IF Preferred \in Valid(loop) THEN Preferred ELSE Usual(loop)
  /\ UNCHANGED <<loop, result, review, rounds>>

\* exec_planning leaves a plan; exec_sequential and exec_iterative a text, which
\* may be empty.  Any of them may raise.
Execute ==
  /\ loopNode = "execute"
  /\ \/ /\ loopNode' = "evaluate"
        /\ result' \in IF selected = "planning" THEN {"plan"} ELSE {"text", "empty"}
     \/ loopNode' = "failed" /\ UNCHANGED result
  /\ UNCHANGED <<loop, selected, review, rounds>>

\* evaluate_node and should_continue: a plan passes without being a result.
Evaluate ==
  /\ loopNode = "evaluate"
  /\ review' \in CASE result = "plan" -> {"passed"}
                   [] result = "empty" -> {"failed"}
                   [] result = "text" -> {"passed", "failed"}
  /\ rounds' = rounds + 1
  /\ loopNode' = IF result = "text" /\ review' = "passed" THEN "reported"
                 ELSE IF rounds' >= MaxRounds THEN "exhausted" ELSE "select"
  /\ UNCHANGED <<loop, selected, result>>

Next == Select \/ Execute \/ Evaluate
Spec == Init /\ [][Next]_slVars /\ WF_slVars(Next)

-----------------------------------------------------------------------------
TypeOK ==
  /\ loop \in Loops
  /\ loopNode \in {"select", "execute", "evaluate", "failed", "reported", "exhausted"}
  /\ selected \in {""} \cup Valid(loop)
  /\ result \in {"none", "plan", "text", "empty"} /\ review \in {"none", "passed", "failed"}
  /\ rounds \in 0..MaxRounds

\* After a plan, and after a review that failed, the next round is iterative.
IterativeFollows ==
  loopNode = "execute" /\ (result = "plan" \/ review = "failed") => selected = "iterative"
\* The loop ends.
Settled == loopNode \in {"failed", "reported", "exhausted"}
Ends == []<>Settled
=============================================================================
