-------------------------- MODULE DagExecutorProofs --------------------------
(***************************************************************************)
(* What holds of a run of the coordinator whatever the number of tasks,    *)
(* the plan, the strategy, the limits and the questions: the order of      *)
(* execution, that a task is decided once, and why tasks are cancelled;    *)
(* and that nothing is left out of a run that no question interrupts.      *)
(***************************************************************************)
EXTENDS DagExecutor, FiniteSetTheorems, TLAPS

\* Before the plan is made there is nothing to run.
Planned == node = "decompose" => \A t \in Tasks : status[t] = "pending"

\* gather waits for tasks that are running, and only the node gather does.
RoundRuns ==
  /\ \A t \in round : status[t] = "running"
  /\ round # {} => node = "gather"

\* failed_tasks holds tasks that failed or were cancelled, and each that failed.
FailedIsSo ==
  /\ \A t \in failed : status[t] \in {"failed", "cancelled"}
  /\ \A t \in Tasks : status[t] = "failed" => t \in failed

\* Without a question, what runs is waited for, and no task waits at the end.
Nobody ==
  /\ asked = {} => \A t \in Tasks : status[t] = "running" => t \in round
  /\ node \in {"synthesize", "end"} => \A t \in Tasks : status[t] # "pending"

\* Each conjunct is preserved by every step, given those before it.
Ledger == Planned /\ RoundRuns /\ FailedIsSo

LEMMA DagInitTypes == ASSUME Init PROVE TypeOK
<1>1. 0 \in 0 .. MaxRounds
  BY DagConstants
<1> QED
  BY <1>1 DEF Init, TypeOK, Statuses

\* A plan, repaired or not, refers to tasks of the plan only.
LEMMA PlansRefer == Plans \subseteq RawPlans /\ FatalPlans \subseteq RawPlans
<1>1. \A d \in RawPlans : Repaired(d) \in RawPlans
  BY DEF Repaired, RawPlans
<1> QED
  BY <1>1 DEF Plans, FatalPlans

LEMMA DagNextTypes == ASSUME TypeOK, [Next]_vars PROVE TypeOK'
<1> USE DEF TypeOK, Statuses, books, skills, plan
<1>1. CASE DecomposeTasks \/ DecomposeRaises
  <2>1. deps' \in [Tasks -> SUBSET Tasks]
    BY <1>1, PlansRefer DEF DecomposeTasks, DecomposeRaises, RawPlans
  <2> QED
    BY <1>1, <2>1 DEF DecomposeTasks, DecomposeRaises
<1>2. CASE StartRound
  <2>1. NextRound \subseteq Tasks
    BY DEF NextRound
  <2>2. rounds' \in 0 .. MaxRounds
    BY <1>2, DagConstants DEF StartRound
  <2> QED
    BY <1>2, <2>1, <2>2 DEF StartRound
<1>3. CASE EmptyRound
  <2>1. rounds' \in 0 .. MaxRounds
    BY <1>3, DagConstants DEF EmptyRound
  <2> QED
    BY <1>3, <2>1 DEF EmptyRound
<1>4. CASE RecursionLimit
  BY <1>4 DEF RecursionLimit
<1>5. CASE CollectResults
  <2>1. \A t \in Tasks : Verdict(t) \in Statuses
    BY DEF Verdict
  <2> QED
    BY <1>5, <2>1 DEF CollectResults
<1>6. CASE CheckDependencies
  <2>1. Cancelled \subseteq Tasks
    BY DEF Cancelled, Waiting
  <2>2. AlsoFailed \subseteq Tasks
    BY <2>1 DEF AlsoFailed
  <2>3. node' \in {"execute", "synthesize"}
    BY <1>6 DEF CheckDependencies, Route
  <2> QED
    BY <1>6, <2>2, <2>3 DEF CheckDependencies
<1>7. CASE Synthesize
  BY <1>7 DEF Synthesize
<1>8. ASSUME NEW t \in Tasks, SkillEnds(t) \/ StrayEnds(t) \/ SkillAsks(t)
      PROVE  TypeOK'
  BY <1>8 DEF SkillEnds, StrayEnds, SkillAsks
<1>9. CASE UNCHANGED vars
  BY <1>9 DEF vars
<1> QED
  BY <1>1, <1>2, <1>3, <1>4, <1>5, <1>6, <1>7, <1>8, <1>9 DEF Next, Coordinator

(***************************************************************************)
(* Every variable keeps its type.                                          *)
(***************************************************************************)
THEOREM DagTypes == Spec => []TypeOK
<1>1. Init => TypeOK
  BY DagInitTypes
<1>2. TypeOK /\ [Next]_vars => TypeOK'
  BY DagNextTypes
<1> QED
  BY <1>1, <1>2, PTL DEF Spec

----------------------------------------------------------------------------

\* What the checks cancel was waiting.
LEMMA CancelsWaiting == Cancelled \subseteq Waiting
BY DEF Cancelled

LEMMA AlsoFailedWasCancelled == AlsoFailed \subseteq Cancelled
BY DEF AlsoFailed

LEMMA LedgerInit == ASSUME Init PROVE Ledger
BY DEF Init, Ledger, Planned, RoundRuns, FailedIsSo

LEMMA LedgerNext == ASSUME TypeOK, Ledger, [Next]_vars PROVE Ledger'
<1> USE DEF Ledger, Planned, RoundRuns, FailedIsSo, books, skills, plan
<1>1. CASE DecomposeTasks \/ DecomposeRaises
  BY <1>1 DEF DecomposeTasks, DecomposeRaises
<1>2. CASE StartRound
  <2>1. \A t \in NextRound : t \in Tasks /\ status[t] = "pending"
    BY DEF NextRound, Ready
  <2> QED
    BY <1>2, <2>1 DEF StartRound, TypeOK
<1>3. CASE EmptyRound
  BY <1>3 DEF EmptyRound
<1>4. CASE RecursionLimit
  BY <1>4 DEF RecursionLimit
<1>5. CASE CollectResults
  <2>1. \A t \in round : status'[t] = IF result[t] = "ok" THEN "done" ELSE "failed"
    BY <1>5 DEF CollectResults, Verdict, TypeOK
  <2>2. \A t \in Tasks \ round : status'[t] = status[t]
    BY <1>5 DEF CollectResults
  <2>3. \A t \in failed : t \notin round
    OBVIOUS
  <2>4. (\A t \in failed : status[t] \in {"failed", "cancelled"})'
    BY <1>5, <2>1, <2>2, <2>3 DEF CollectResults, TypeOK
  <2>5. (\A t \in Tasks : status[t] = "failed" => t \in failed)'
    BY <1>5, <2>1, <2>2 DEF CollectResults
  <2> QED
    BY <1>5, <2>4, <2>5 DEF CollectResults
<1>6. CASE CheckDependencies
  <2>1. \A t \in Cancelled : t \in Tasks /\ status[t] = "pending" /\ status'[t] = "cancelled"
    BY <1>6, CancelsWaiting DEF CheckDependencies, Waiting
  <2>2. \A t \in Tasks \ Cancelled : status'[t] = status[t]
    BY <1>6 DEF CheckDependencies
  <2>3. AlsoFailed \subseteq Cancelled
    BY AlsoFailedWasCancelled
  <2>4. node' \in {"execute", "synthesize"} /\ round = {}
    BY <1>6 DEF CheckDependencies, Route
  <2>5. (\A t \in failed : status[t] \in {"failed", "cancelled"})'
    BY <1>6, <2>1, <2>2, <2>3 DEF CheckDependencies, TypeOK
  <2>6. (\A t \in Tasks : status[t] = "failed" => t \in failed)'
    BY <1>6, <2>1, <2>2 DEF CheckDependencies
  <2> QED
    BY <1>6, <2>4, <2>5, <2>6 DEF CheckDependencies
<1>7. CASE Synthesize
  BY <1>7 DEF Synthesize
<1>8. ASSUME NEW t \in Tasks, SkillEnds(t) \/ StrayEnds(t) \/ SkillAsks(t)
      PROVE  Ledger'
  BY <1>8 DEF SkillEnds, StrayEnds, SkillAsks
<1>9. CASE UNCHANGED vars
  BY <1>9 DEF vars
<1> QED
  BY <1>1, <1>2, <1>3, <1>4, <1>5, <1>6, <1>7, <1>8, <1>9 DEF Next, Coordinator

\* The inductive invariant under the theorems that follow.
LEMMA LedgerAlways == Spec => []Ledger
<1>1. Init => Ledger
  BY LedgerInit
<1>2. TypeOK /\ Ledger /\ [Next]_vars => Ledger'
  BY LedgerNext
<1> QED
  BY <1>1, <1>2, DagTypes, PTL DEF Spec

----------------------------------------------------------------------------

\* The statuses a step can give, for the tasks whose status it changes.
Moves ==
  \A t \in Tasks : status'[t] # status[t] =>
    \/ status[t] = "pending" /\ status'[t] \in {"running", "cancelled"}
    \/ status[t] = "running" /\ status'[t] \in {"done", "failed"}

LEMMA StatusMoves == ASSUME TypeOK, Ledger, [Next]_vars PROVE Moves
<1> USE DEF Moves, books, skills, plan
<1>1. CASE StartRound
  BY <1>1 DEF StartRound, NextRound, Ready, TypeOK
<1>2. CASE CollectResults
  BY <1>2 DEF CollectResults, Verdict, Ledger, RoundRuns, TypeOK
<1>3. CASE CheckDependencies
  BY <1>3, CancelsWaiting DEF CheckDependencies, Waiting, TypeOK
<1>4. CASE DecomposeTasks \/ DecomposeRaises \/ EmptyRound \/ RecursionLimit \/ Synthesize
  BY <1>4 DEF DecomposeTasks, DecomposeRaises, EmptyRound, RecursionLimit, Synthesize
<1>5. ASSUME NEW t \in Tasks, SkillEnds(t) \/ StrayEnds(t) \/ SkillAsks(t)
      PROVE  Moves
  BY <1>5 DEF SkillEnds, StrayEnds, SkillAsks
<1>6. CASE UNCHANGED vars
  BY <1>6 DEF vars
<1> QED
  BY <1>1, <1>2, <1>3, <1>4, <1>5, <1>6 DEF Next, Coordinator

(***************************************************************************)
(* A task is decided once: done, failed and cancelled are final, through   *)
(* interrupted rounds and skills that end after their round.               *)
(***************************************************************************)
THEOREM DecidedForGood == Spec => DecidedOnce
<1>1. ASSUME TypeOK, Ledger, [Next]_vars
      PROVE  [\A t \in Tasks : status[t] \in Settled => status'[t] = status[t]]_vars
  <2>1. Moves
    BY <1>1, StatusMoves
  <2> QED
    BY <2>1 DEF Moves, Settled
<1> QED
  BY <1>1, DagTypes, LedgerAlways, PTL DEF Spec, DecidedOnce

----------------------------------------------------------------------------

LEMMA OrderNext == ASSUME TypeOK, Ledger, RanInOrder, [Next]_vars PROVE RanInOrder'
<1> USE DEF RanInOrder, books, skills, plan
<1>1. CASE DecomposeTasks \/ DecomposeRaises
  <2>1. \A t \in Tasks : status'[t] = "pending"
    BY <1>1 DEF DecomposeTasks, DecomposeRaises, Ledger, Planned
  <2> QED
    BY <2>1
<1>2. CASE StartRound
  <2>1. \A t \in NextRound : deps[t] \subseteq completed
    BY DEF NextRound, Ready
  <2> QED
    BY <1>2, <2>1 DEF StartRound, TypeOK
<1>3. CASE CollectResults
  <2>1. \A t \in round : t \in Tasks /\ status[t] = "running"
    BY DEF Ledger, RoundRuns, TypeOK
  <2>2. completed \subseteq completed' /\ deps' = deps
    BY <1>3 DEF CollectResults
  <2>3. \A t \in Tasks \ round : status'[t] = status[t]
    BY <1>3 DEF CollectResults
  <2> QED
    BY <2>1, <2>2, <2>3
<1>4. CASE CheckDependencies
  <2>1. \A t \in Tasks : status'[t] = "cancelled" \/ status'[t] = status[t]
    BY <1>4 DEF CheckDependencies
  <2> QED
    BY <1>4, <2>1 DEF CheckDependencies
<1>5. CASE EmptyRound \/ RecursionLimit \/ Synthesize
  BY <1>5 DEF EmptyRound, RecursionLimit, Synthesize
<1>6. ASSUME NEW t \in Tasks, SkillEnds(t) \/ StrayEnds(t) \/ SkillAsks(t)
      PROVE  RanInOrder'
  BY <1>6 DEF SkillEnds, StrayEnds, SkillAsks
<1>7. CASE UNCHANGED vars
  BY <1>7 DEF vars
<1> QED
  BY <1>1, <1>2, <1>3, <1>4, <1>5, <1>6, <1>7 DEF Next, Coordinator

(***************************************************************************)
(* A task that was started had the results of all its dependencies.        *)
(***************************************************************************)
THEOREM InOrder == Spec => []RanInOrder
<1>1. Init => RanInOrder
  BY DEF Init, RanInOrder
<1>2. TypeOK /\ Ledger /\ RanInOrder /\ [Next]_vars => RanInOrder'
  BY OrderNext
<1> QED
  BY <1>1, <1>2, DagTypes, LedgerAlways, PTL DEF Spec

----------------------------------------------------------------------------

LEMMA NobodyNext == ASSUME TypeOK, Ledger, Nobody, [Next]_vars PROVE Nobody'
<1> USE DEF Nobody, books, skills, plan
<1>1. CASE DecomposeTasks \/ DecomposeRaises
  BY <1>1 DEF DecomposeTasks, DecomposeRaises
<1>2. CASE StartRound
  <2>1. round = {}
    BY <1>2 DEF StartRound, Ledger, RoundRuns
  <2> QED
    BY <1>2, <2>1 DEF StartRound, TypeOK
<1>3. CASE EmptyRound \/ RecursionLimit \/ Synthesize
  BY <1>3 DEF EmptyRound, RecursionLimit, Synthesize
<1>4. CASE CollectResults
  BY <1>4 DEF CollectResults, Verdict, TypeOK
<1>5. CASE CheckDependencies
  <2>1. \A t \in Tasks : status'[t] = IF t \in Cancelled THEN "cancelled" ELSE status[t]
    BY <1>5 DEF CheckDependencies
  <2>2. (asked = {} => \A t \in Tasks : status[t] = "running" => t \in round)'
    BY <1>5, <2>1 DEF CheckDependencies
  <2>3. node' = "synthesize" => Waiting \subseteq Cancelled
    BY <1>5 DEF CheckDependencies, Route
  <2>4. node' # "end"
    BY <1>5 DEF CheckDependencies, Route
  <2>5. (node \in {"synthesize", "end"} => \A t \in Tasks : status[t] # "pending")'
    BY <2>1, <2>3, <2>4 DEF Waiting
  <2> QED
    BY <2>2, <2>5
<1>6. ASSUME NEW t \in Tasks, SkillEnds(t) \/ StrayEnds(t) \/ SkillAsks(t)
      PROVE  Nobody'
  BY <1>6 DEF SkillEnds, StrayEnds, SkillAsks
<1>7. CASE UNCHANGED vars
  BY <1>7 DEF vars
<1> QED
  BY <1>1, <1>2, <1>3, <1>4, <1>5, <1>6, <1>7 DEF Next, Coordinator

(***************************************************************************)
(* A run that no question interrupts leaves no task out of its synthesis.  *)
(***************************************************************************)
THEOREM NoneLeftOut == Spec => []NothingLeft
<1>1. Init => Nobody
  BY DEF Init, Nobody
<1>2. TypeOK /\ Ledger /\ Nobody /\ [Next]_vars => Nobody'
  BY NobodyNext
<1>3. TypeOK /\ Ledger /\ Nobody => NothingLeft
  BY DEF TypeOK, Ledger, RoundRuns, Nobody, NothingLeft, Statuses, Settled
<1> QED
  BY <1>1, <1>2, <1>3, DagTypes, LedgerAlways, PTL DEF Spec

----------------------------------------------------------------------------

\* The failures the limit counts are tasks that failed or were cancelled.
LEMMA FailuresAreLosses ==
  ASSUME TypeOK, Ledger
  PROVE  failed \subseteq Losses /\ (TooMany => Cardinality(Losses) >= MaxFailures)
<1>1. failed \subseteq Losses
  BY DEF Ledger, FailedIsSo, Losses, TypeOK
<1>2. IsFiniteSet(Tasks)
  BY FS_Interval, DagConstants DEF Tasks
<1>3. IsFiniteSet(Losses)
  BY <1>2, FS_Subset DEF Losses
<1>4. IsFiniteSet(failed) /\ Cardinality(failed) <= Cardinality(Losses)
  BY <1>1, <1>3, FS_Subset
<1>5. Cardinality(failed) \in Nat /\ Cardinality(Losses) \in Nat /\ MaxFailures \in Nat
  BY <1>3, <1>4, FS_CardinalityType, DagConstants
<1> QED
  BY <1>1, <1>4, <1>5 DEF TooMany

\* Only a check cancels.
LEMMA CheckCancels ==
  ASSUME TypeOK, Ledger, [Next]_vars,
         NEW t \in Tasks, status'[t] = "cancelled", status[t] # "cancelled"
  PROVE  t \in Cancelled
<1> USE DEF books, skills, plan
<1>1. CheckDependencies
  BY DEF Next, Coordinator, DecomposeTasks, DecomposeRaises, StartRound, EmptyRound, RecursionLimit,
         CollectResults, Verdict, Synthesize, SkillEnds, StrayEnds, SkillAsks, vars, TypeOK
<1> QED
  BY <1>1 DEF CheckDependencies

(***************************************************************************)
(* A task is cancelled only after one it depends on, or so many tasks, or  *)
(* with the strategy stop any, have failed or been cancelled.              *)
(***************************************************************************)
THEOREM ForCause == Spec => CancelledForCause
<1>1. ASSUME TypeOK, Ledger, [Next]_vars
      PROVE  [\A t \in Tasks : status'[t] = "cancelled" /\ status[t] # "cancelled" =>
                \/ deps[t] \cap Losses # {}
                \/ Cardinality(Losses) >= MaxFailures
                \/ strategy = "stop" /\ Losses # {}]_vars
  <2>1. SUFFICES ASSUME NEW t \in Tasks,
                        status'[t] = "cancelled", status[t] # "cancelled"
                 PROVE  \/ deps[t] \cap Losses # {}
                        \/ Cardinality(Losses) >= MaxFailures
                        \/ strategy = "stop" /\ Losses # {}
    OBVIOUS
  <2>2. t \in Cancelled
    BY <1>1, <2>1, CheckCancels
  <2>3. failed \subseteq Losses /\ (TooMany => Cardinality(Losses) >= MaxFailures)
    BY <1>1, FailuresAreLosses
  <2> QED
    BY <2>2, <2>3 DEF Cancelled
<1> QED
  BY <1>1, DagTypes, LedgerAlways, PTL DEF Spec, CancelledForCause

=============================================================================
