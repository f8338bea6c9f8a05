-------------------------------- MODULE Quota --------------------------------
(***************************************************************************)
(* A user's quota (domain/billing, TaskExecutionService).  A submission    *)
(* reads the recorded usage of each period, one read after the other, and  *)
(* is refused when a limit is reached (assess_before_task).  Usage is      *)
(* recorded when a run completes, and only then; a failed or cancelled     *)
(* run is free, and a run recovered after its usage was committed and      *)
(* before the task was finished is recorded again.  The periods are        *)
(* sliding windows, so recorded usage drops out of them.  A limit on       *)
(* tokens or cost is one on tasks with another unit and the same test.     *)
(***************************************************************************)
EXTENDS Naturals, FiniteSets

CONSTANTS
  Submissions,  \* task submissions of one user
  Periods,      \* number of periods, from the shortest to the longest
  Limits,       \* limit of each period
  MaxReruns     \* bound: runs recovered after they recorded their usage

QuotaAssumption ==
  /\ IsFiniteSet(Submissions)
  /\ Periods \in Nat \ {0} /\ MaxReruns \in Nat
  /\ Limits \in [1..Periods -> Nat]

VARIABLES
  phase,    \* where a submission is
  read,     \* periods it has read
  usage,    \* usage recorded in each period's window
  overlap,  \* most submissions that were open at the same time
  reruns    \* runs recovered after they recorded their usage

quVars == <<phase, read, usage, overlap, reruns>>

Init ==
  /\ phase = [t \in Submissions |-> "new"]
  /\ read = [t \in Submissions |-> 0]
  /\ usage = [p \in 1..Periods |-> 0]
  /\ overlap = 0 /\ reruns = 0

IsOpen(t) == phase[t] \in {"assessing", "running", "charged"}
OpenTasks == {t \in Submissions : IsOpen(t)}

Moves(t, from, to) == phase[t] = from /\ phase' = [phase EXCEPT ![t] = to]

Submit(t) ==
  /\ Moves(t, "new", "assessing")
  /\ overlap' = IF Cardinality(OpenTasks) + 1 > overlap
                THEN Cardinality(OpenTasks) + 1 ELSE overlap
  /\ UNCHANGED <<read, usage, reruns>>

\* One period is assessed; the last one admits the task, whose run starts.
MutExceeded(p) == usage[p] > Limits[p]
Exceeded(p) == usage[p] >= Limits[p]
Assess(t) ==
  /\ phase[t] = "assessing"
  /\ LET p == read[t] + 1 IN
     \/ Exceeded(p) /\ Moves(t, "assessing", "refused") /\ UNCHANGED read
     \/ /\ ~Exceeded(p)
        /\ read' = [read EXCEPT ![t] = p]
        /\ phase' = IF p = Periods THEN [phase EXCEPT ![t] = "running"] ELSE phase
  /\ UNCHANGED <<usage, overlap, reruns>>

\* record_task_usage and its commit; finish_task is a later transaction.
Charge(t) ==
  /\ Moves(t, "running", "charged")
  /\ usage' = [p \in 1..Periods |-> usage[p] + 1]
  /\ UNCHANGED <<read, overlap, reruns>>
EndRun(t) ==
  /\ Moves(t, "running", "done") \/ Moves(t, "charged", "done")
  /\ UNCHANGED <<read, usage, overlap, reruns>>
Rerun(t) ==
  /\ Moves(t, "charged", "running") /\ reruns < MaxReruns
  /\ reruns' = reruns + 1
  /\ UNCHANGED <<read, usage, overlap>>

\* Time passes: a record drops out of a window, of the shorter ones first.
Expire(p) ==
  /\ usage[p] > 0 /\ (p > 1 => usage[p] > usage[p - 1])
  /\ usage' = [usage EXCEPT ![p] = @ - 1]
  /\ UNCHANGED <<phase, read, overlap, reruns>>

Work == \E t \in Submissions : Assess(t) \/ Charge(t) \/ EndRun(t)
Next ==
  \/ Work
  \/ \E t \in Submissions : Submit(t) \/ Rerun(t)
  \/ \E p \in 1..Periods : Expire(p)
Spec == Init /\ [][Next]_quVars /\ WF_quVars(Work)

-----------------------------------------------------------------------------
TypeOK ==
  /\ phase \in [Submissions -> {"new", "assessing", "running", "charged", "done", "refused"}]
  /\ read \in [Submissions -> 0..Periods]
  /\ usage \in [1..Periods -> Nat]
  /\ overlap \in 0..Cardinality(Submissions) /\ reruns \in 0..MaxReruns

\* Recorded usage exceeds a limit by at most the tasks that were in flight
\* together, less one, and the runs that were recorded twice.
OvershootBounded ==
  \A p \in 1..Periods :
    usage[p] > 0 => usage[p] < Limits[p] + overlap + reruns
\* Every submission is refused or ends.
Settled == OpenTasks = {}
Ends == []<>Settled
=============================================================================
