----------------------------- MODULE QuotaProofs -----------------------------
(***************************************************************************)
(* That the overshoot of a quota is bounded, for any number of submissions *)
(* and periods and any limits.  The inductive invariant counts, for a      *)
(* period, the usage recorded in it together with the tasks that have      *)
(* passed it and are still to be recorded: a task is added to the sum only *)
(* while the recorded part is below the limit, and the other part is at    *)
(* most the number of tasks in flight.                                     *)
(***************************************************************************)
EXTENDS Quota, FiniteSetTheorems, TLAPS

\* The tasks that have passed period p and whose usage is not recorded yet.
Admitted(p) ==
  {t \in Submissions : phase[t] \in {"assessing", "running"} /\ read[t] >= p}

\* The periods a submission has read fit where it is.
ReadFits ==
  \A t \in Submissions :
    /\ phase[t] = "new" => read[t] = 0
    /\ phase[t] = "assessing" => read[t] < Periods
    /\ phase[t] \in {"running", "charged"} => read[t] = Periods

\* No more submissions are open than were open at the same time.
OverlapCounts == Cardinality(OpenTasks) <= overlap

\* What is recorded in a period or will be.
Bounded ==
  \A p \in 1..Periods :
    \/ usage[p] + Cardinality(Admitted(p)) = 0
    \/ usage[p] + Cardinality(Admitted(p)) < Limits[p] + overlap + reruns

QInv == TypeOK /\ ReadFits /\ OverlapCounts /\ Bounded

-----------------------------------------------------------------------------
\* The sets of submissions that are counted are finite, and the admitted ones
\* are open.
LEMMA Counted ==
  ASSUME QuotaAssumption
  PROVE  /\ IsFiniteSet(OpenTasks) /\ Cardinality(OpenTasks) \in Nat
         /\ Cardinality(OpenTasks) <= Cardinality(Submissions)
         /\ \A p \in 1..Periods :
              /\ IsFiniteSet(Admitted(p)) /\ Cardinality(Admitted(p)) \in Nat
              /\ Cardinality(Admitted(p)) <= Cardinality(OpenTasks)
<1>1. IsFiniteSet(Submissions) /\ OpenTasks \subseteq Submissions
  BY DEF QuotaAssumption, OpenTasks
<1>2. IsFiniteSet(OpenTasks) /\ Cardinality(OpenTasks) <= Cardinality(Submissions)
  BY <1>1, FS_Subset
<1>3. Cardinality(OpenTasks) \in Nat
  BY <1>2, FS_CardinalityType
<1>4. ASSUME NEW p \in 1..Periods
      PROVE  /\ IsFiniteSet(Admitted(p)) /\ Cardinality(Admitted(p)) \in Nat
             /\ Cardinality(Admitted(p)) <= Cardinality(OpenTasks)
  <2>1. Admitted(p) \subseteq OpenTasks
    BY DEF Admitted, OpenTasks, IsOpen
  <2>2. IsFiniteSet(Admitted(p)) /\ Cardinality(Admitted(p)) <= Cardinality(OpenTasks)
    BY <1>2, <2>1, FS_Subset
  <2>3. QED
    BY <2>2, FS_CardinalityType
<1>5. QED
  BY <1>2, <1>3, <1>4

\* A set that gains or loses at most one element, in numbers.
LEMMA OneMore ==
  ASSUME NEW S, IsFiniteSet(S), NEW T, NEW x, T \subseteq S \cup {x}
  PROVE  Cardinality(T) <= Cardinality(S) + 1
<1>1. IsFiniteSet(S \cup {x}) /\ IsFiniteSet(S) /\ Cardinality(S) \in Nat
  BY FS_AddElement, FS_CardinalityType
<1>2. Cardinality(S \cup {x}) <= Cardinality(S) + 1
  BY <1>1, FS_AddElement
<1>3. IsFiniteSet(T) /\ Cardinality(T) <= Cardinality(S \cup {x})
  BY <1>1, FS_Subset
<1>4. Cardinality(T) \in Nat /\ Cardinality(S \cup {x}) \in Nat
  BY <1>1, <1>3, FS_CardinalityType
<1>5. QED
  BY <1>1, <1>2, <1>3, <1>4

LEMMA OneLess ==
  ASSUME NEW S, IsFiniteSet(S), NEW x \in S, NEW T, T \subseteq S \ {x}
  PROVE  Cardinality(T) <= Cardinality(S) - 1
<1>1. IsFiniteSet(S \ {x}) /\ Cardinality(S \ {x}) = Cardinality(S) - 1
  BY FS_RemoveElement
<1>2. QED
  BY <1>1, FS_Subset

-----------------------------------------------------------------------------
\* The types and the periods a submission has read.
LEMMA TypesKept ==
  ASSUME QuotaAssumption, QInv, [Next]_quVars
  PROVE  TypeOK' /\ ReadFits'
<1> USE DEF QuotaAssumption, QInv, TypeOK, ReadFits
<1>1. ASSUME NEW t \in Submissions, Submit(t) PROVE TypeOK' /\ ReadFits'
  <2>1. phase[t] = "new" /\ t \notin OpenTasks
    BY <1>1 DEF Submit, Moves, OpenTasks, IsOpen
  <2>2. OpenTasks \subseteq Submissions \ {t} /\ IsFiniteSet(Submissions)
    BY <2>1 DEF OpenTasks
  <2>3. Cardinality(OpenTasks) <= Cardinality(Submissions) - 1
    BY <2>2, OneLess
  <2>4. overlap' \in 0..Cardinality(Submissions)
    <3>1. Cardinality(OpenTasks) \in Nat /\ Cardinality(Submissions) \in Nat
      BY Counted, FS_CardinalityType
    <3>2. QED
      BY <1>1, <2>3, <3>1 DEF Submit
  <2>5. QED
    BY <1>1, <2>4 DEF Submit, Moves
<1>2. ASSUME NEW t \in Submissions, Assess(t) PROVE TypeOK' /\ ReadFits'
  <2>1. phase[t] = "assessing" /\ read[t] + 1 \in 1..Periods
    BY <1>2 DEF Assess
  <2>2. CASE phase' = [phase EXCEPT ![t] = "refused"] /\ read' = read
    BY <1>2, <2>1, <2>2 DEF Assess
  <2>3. CASE /\ read' = [read EXCEPT ![t] = read[t] + 1]
             /\ phase' = IF read[t] + 1 = Periods
                         THEN [phase EXCEPT ![t] = "running"] ELSE phase
    BY <1>2, <2>1, <2>3 DEF Assess
  <2>4. QED
    BY <1>2, <2>2, <2>3 DEF Assess, Moves
<1>3. ASSUME NEW t \in Submissions, Charge(t) PROVE TypeOK' /\ ReadFits'
  BY <1>3 DEF Charge, Moves
<1>4. ASSUME NEW t \in Submissions, EndRun(t) PROVE TypeOK' /\ ReadFits'
  BY <1>4 DEF EndRun, Moves
<1>5. ASSUME NEW t \in Submissions, Rerun(t) PROVE TypeOK' /\ ReadFits'
  BY <1>5 DEF Rerun, Moves
<1>6. ASSUME NEW p \in 1..Periods, Expire(p) PROVE TypeOK' /\ ReadFits'
  BY <1>6 DEF Expire
<1>7. CASE UNCHANGED quVars
  BY <1>7 DEF quVars
<1>8. QED
  BY <1>1, <1>2, <1>3, <1>4, <1>5, <1>6, <1>7 DEF Next, Work

\* The number of open submissions.
LEMMA OverlapKept ==
  ASSUME QuotaAssumption, QInv, [Next]_quVars
  PROVE  OverlapCounts' /\ overlap <= overlap'
<1> USE DEF OverlapCounts
<1>1. /\ overlap \in Nat /\ OverlapCounts
      /\ IsFiniteSet(OpenTasks) /\ Cardinality(OpenTasks) \in Nat
      /\ phase \in [Submissions ->
                      {"new", "assessing", "running", "charged", "done", "refused"}]
  <2>1. Cardinality(Submissions) \in Nat
    BY FS_CardinalityType DEF QuotaAssumption
  <2>2. QED
    BY <2>1, Counted DEF QInv, TypeOK
<1>2. ASSUME NEW t \in Submissions, Submit(t)
      PROVE  OverlapCounts' /\ overlap <= overlap'
  <2>1. OpenTasks' \subseteq OpenTasks \cup {t}
    BY <1>1, <1>2 DEF Submit, Moves, OpenTasks, IsOpen
  <2>2. Cardinality(OpenTasks') <= Cardinality(OpenTasks) + 1
    BY <1>1, <2>1, OneMore
  <2>3. IsFiniteSet(OpenTasks') /\ Cardinality(OpenTasks') \in Nat
    <3>1. IsFiniteSet(OpenTasks \cup {t})
      BY <1>1, FS_AddElement
    <3>2. QED
      BY <2>1, <3>1, FS_Subset, FS_CardinalityType
  <2>4. QED
    BY <1>1, <1>2, <2>2, <2>3 DEF Submit
<1>3. ASSUME OpenTasks' \subseteq OpenTasks, overlap' = overlap
      PROVE  OverlapCounts' /\ overlap <= overlap'
  <2>1. Cardinality(OpenTasks') <= Cardinality(OpenTasks) /\ IsFiniteSet(OpenTasks')
    BY <1>1, <1>3, FS_Subset
  <2>2. Cardinality(OpenTasks') \in Nat
    BY <2>1, FS_CardinalityType
  <2>3. QED
    BY <1>1, <1>3, <2>1, <2>2
<1>4. ASSUME NEW t \in Submissions, Assess(t) \/ Charge(t) \/ EndRun(t) \/ Rerun(t)
      PROVE  OpenTasks' \subseteq OpenTasks /\ overlap' = overlap
  BY <1>1, <1>4 DEF Assess, Charge, EndRun, Rerun, Moves, OpenTasks, IsOpen
<1>5. ASSUME NEW p \in 1..Periods, Expire(p)
      PROVE  OpenTasks' \subseteq OpenTasks /\ overlap' = overlap
  BY <1>5 DEF Expire, OpenTasks, IsOpen
<1>6. CASE UNCHANGED quVars
  BY <1>3, <1>6 DEF quVars, OpenTasks, IsOpen
<1>7. QED
  BY <1>2, <1>3, <1>4, <1>5, <1>6 DEF Next, Work

\* What is recorded or will be, in one period.
LEMMA BoundedKept ==
  ASSUME QuotaAssumption, QInv, [Next]_quVars
  PROVE  Bounded'
<1> SUFFICES ASSUME NEW p \in 1..Periods
             PROVE  \/ usage'[p] + Cardinality(Admitted(p)') = 0
                    \/ usage'[p] + Cardinality(Admitted(p)') < Limits[p] + overlap' + reruns'
  BY DEF Bounded
<1>1. /\ Cardinality(Admitted(p)) \in Nat /\ IsFiniteSet(Admitted(p))
      /\ Cardinality(OpenTasks) \in Nat /\ IsFiniteSet(OpenTasks)
      /\ Cardinality(OpenTasks) <= overlap
  BY Counted DEF QInv, OverlapCounts
<1>2. /\ Cardinality(Admitted(p)') \in Nat
      /\ Cardinality(Admitted(p)') <= overlap'
      /\ overlap \in Nat /\ overlap' \in Nat /\ overlap <= overlap'
  <2>1. IsFiniteSet(Submissions) /\ OpenTasks' \subseteq Submissions
    BY DEF QuotaAssumption, OpenTasks
  <2>2. Admitted(p)' \subseteq OpenTasks'
    BY DEF Admitted, OpenTasks, IsOpen
  <2>3. IsFiniteSet(OpenTasks') /\ Cardinality(OpenTasks') \in Nat
    BY <2>1, FS_Subset, FS_CardinalityType
  <2>4. /\ Cardinality(Admitted(p)') <= Cardinality(OpenTasks')
        /\ IsFiniteSet(Admitted(p)')
    BY <2>2, <2>3, FS_Subset
  <2>5. Cardinality(Admitted(p)') \in Nat
    BY <2>4, FS_CardinalityType
  <2>6. Cardinality(OpenTasks') <= overlap' /\ overlap <= overlap'
    BY OverlapKept DEF OverlapCounts
  <2>7. overlap \in Nat /\ overlap' \in Nat
    <3>1. Cardinality(Submissions) \in Nat
      BY <2>1, FS_CardinalityType
    <3>2. QED
      BY <3>1, TypesKept DEF QInv, TypeOK
  <2>8. QED
    BY <2>3, <2>4, <2>5, <2>6, <2>7
<1>3. /\ usage[p] \in Nat /\ usage'[p] \in Nat /\ Limits[p] \in Nat
      /\ reruns \in Nat /\ reruns' \in Nat
  BY TypesKept DEF QInv, TypeOK, QuotaAssumption
<1>4. \/ usage[p] + Cardinality(Admitted(p)) = 0
      \/ usage[p] + Cardinality(Admitted(p)) < Limits[p] + overlap + reruns
  BY DEF QInv, Bounded
<1>5. /\ phase \in [Submissions ->
                      {"new", "assessing", "running", "charged", "done", "refused"}]
      /\ read \in [Submissions -> 0..Periods] /\ usage \in [1..Periods -> Nat]
      /\ ReadFits /\ Periods \in Nat
  BY DEF QInv, TypeOK, QuotaAssumption
\* A step that adds nothing to the sum keeps the bound.
<1>6. ASSUME Admitted(p)' \subseteq Admitted(p), usage'[p] <= usage[p], reruns' = reruns
      PROVE  \/ usage'[p] + Cardinality(Admitted(p)') = 0
             \/ usage'[p] + Cardinality(Admitted(p)') < Limits[p] + overlap' + reruns'
  <2>1. Cardinality(Admitted(p)') <= Cardinality(Admitted(p))
    BY <1>1, <1>6, FS_Subset
  <2>2. QED
    BY <1>1, <1>2, <1>3, <1>4, <1>6, <2>1
<1>7. ASSUME NEW t \in Submissions, Submit(t)
      PROVE  Admitted(p)' \subseteq Admitted(p) /\ usage'[p] <= usage[p] /\ reruns' = reruns
  <2>1. read'[t] = 0 /\ read' = read /\ usage' = usage /\ reruns' = reruns
    BY <1>5, <1>7 DEF Submit, Moves, ReadFits
  <2>2. \A u \in Submissions \ {t} : phase'[u] = phase[u]
    BY <1>5, <1>7 DEF Submit, Moves
  <2>3. Admitted(p)' \subseteq Admitted(p)
    BY <2>1, <2>2 DEF Admitted
  <2>4. QED
    BY <1>3, <2>1, <2>3
<1>8. ASSUME NEW t \in Submissions, Assess(t)
      PROVE  \/ usage'[p] + Cardinality(Admitted(p)') = 0
             \/ usage'[p] + Cardinality(Admitted(p)') < Limits[p] + overlap' + reruns'
  <2>1. usage' = usage /\ reruns' = reruns /\ phase[t] = "assessing"
    BY <1>8 DEF Assess
  <2>2. CASE p = read[t] + 1 /\ ~Exceeded(p)
    BY <1>2, <1>3, <2>1, <2>2 DEF Exceeded
  <2>3. CASE p # read[t] + 1 \/ Exceeded(p)
    <3>1. \A u \in Submissions \ {t} : phase'[u] = phase[u] /\ read'[u] = read[u]
      BY <1>5, <1>8 DEF Assess, Moves
    <3>2. t \in Admitted(p)' => t \in Admitted(p)
      <4>1. CASE Exceeded(read[t] + 1)
        <5>1. phase'[t] = "refused"
          BY <1>5, <1>8, <4>1 DEF Assess, Moves
        <5>2. QED
          BY <5>1 DEF Admitted
      <4>2. CASE ~Exceeded(read[t] + 1)
        <5>1. read'[t] = read[t] + 1 /\ p # read[t] + 1 /\ read[t] \in Nat
          BY <1>5, <1>8, <2>3, <4>2 DEF Assess
        <5>2. read'[t] >= p => read[t] >= p
          BY <5>1
        <5>3. QED
          BY <2>1, <5>2 DEF Admitted
      <4>3. QED
        BY <4>1, <4>2
    <3>3. Admitted(p)' \subseteq Admitted(p)
      BY <3>1, <3>2 DEF Admitted
    <3>4. QED
      BY <1>3, <1>6, <2>1, <3>3
  <2>4. QED
    BY <2>2, <2>3
<1>9. ASSUME NEW t \in Submissions, Charge(t)
      PROVE  \/ usage'[p] + Cardinality(Admitted(p)') = 0
             \/ usage'[p] + Cardinality(Admitted(p)') < Limits[p] + overlap' + reruns'
  <2>1. /\ phase[t] = "running" /\ phase' = [phase EXCEPT ![t] = "charged"]
        /\ usage'[p] = usage[p] + 1 /\ read' = read /\ reruns' = reruns
    BY <1>9 DEF Charge, Moves
  <2>2. t \in Admitted(p)
    BY <1>5, <2>1 DEF Admitted, ReadFits
  <2>3. Admitted(p)' \subseteq Admitted(p) \ {t}
    BY <1>5, <2>1 DEF Admitted
  <2>4. Cardinality(Admitted(p)') <= Cardinality(Admitted(p)) - 1
    BY <1>1, <2>2, <2>3, OneLess
  <2>5. QED
    BY <1>1, <1>2, <1>3, <1>4, <2>1, <2>4
<1>10. ASSUME NEW t \in Submissions, EndRun(t)
       PROVE  Admitted(p)' \subseteq Admitted(p) /\ usage'[p] <= usage[p] /\ reruns' = reruns
  <2>1. phase' = [phase EXCEPT ![t] = "done"] /\ read' = read
    BY <1>10 DEF EndRun, Moves
  <2>2. Admitted(p)' \subseteq Admitted(p)
    BY <1>5, <2>1 DEF Admitted
  <2>3. QED
    BY <1>3, <1>10, <2>2 DEF EndRun
<1>11. ASSUME NEW t \in Submissions, Rerun(t)
       PROVE  usage'[p] + Cardinality(Admitted(p)') < Limits[p] + overlap' + reruns'
  <2>1. /\ phase[t] = "charged" /\ phase' = [phase EXCEPT ![t] = "running"]
        /\ usage' = usage /\ read' = read /\ reruns' = reruns + 1
    BY <1>11 DEF Rerun, Moves
  <2>2. Admitted(p)' \subseteq Admitted(p) \cup {t}
    BY <1>5, <2>1 DEF Admitted
  <2>3. Cardinality(Admitted(p)') <= Cardinality(Admitted(p)) + 1
    BY <1>1, <2>2, OneMore
  <2>4. OpenTasks # {}
    BY <2>1 DEF OpenTasks, IsOpen
  <2>5. Cardinality(OpenTasks) # 0
    BY <1>1, <2>4, FS_EmptySet
  <2>6. QED
    BY <1>1, <1>2, <1>3, <1>4, <2>1, <2>3, <2>5
<1>12. ASSUME NEW q \in 1..Periods, Expire(q)
       PROVE  Admitted(p)' \subseteq Admitted(p) /\ usage'[p] <= usage[p] /\ reruns' = reruns
  <2>1. phase' = phase /\ read' = read /\ reruns' = reruns
    BY <1>12 DEF Expire
  <2>2. usage'[p] <= usage[p]
    BY <1>5, <1>12 DEF Expire
  <2>3. QED
    BY <2>1, <2>2 DEF Admitted
<1>13. CASE UNCHANGED quVars
  <2>1. Admitted(p)' \subseteq Admitted(p) /\ usage'[p] <= usage[p] /\ reruns' = reruns
    BY <1>3, <1>13 DEF quVars, Admitted
  <2>2. QED
    BY <1>6, <2>1
<1>14. QED
  BY <1>6, <1>7, <1>8, <1>9, <1>10, <1>11, <1>12, <1>13 DEF Next, Work

\* Nothing is recorded or admitted at first.
LEMMA QInvFirst ==
  ASSUME QuotaAssumption, Init
  PROVE  QInv
<1>1. TypeOK /\ ReadFits
  <2>1. Cardinality(Submissions) \in Nat
    BY FS_CardinalityType DEF QuotaAssumption
  <2>2. QED
    BY <2>1 DEF QuotaAssumption, Init, TypeOK, ReadFits
<1>2. OpenTasks = {}
  BY DEF Init, OpenTasks, IsOpen
<1>3. OverlapCounts
  BY <1>2, FS_EmptySet DEF OverlapCounts, Init
<1>4. ASSUME NEW p \in 1..Periods
      PROVE  usage[p] + Cardinality(Admitted(p)) = 0
  <2>1. Admitted(p) = {}
    BY <1>4 DEF Init, Admitted
  <2>2. QED
    BY <2>1, FS_EmptySet DEF Init
<1>5. QED
  BY <1>1, <1>3, <1>4 DEF QInv, Bounded

LEMMA QInvKept ==
  ASSUME QuotaAssumption
  PROVE  QInv /\ [Next]_quVars => QInv'
BY TypesKept, OverlapKept, BoundedKept DEF QInv

LEMMA QInvBounds ==
  ASSUME QuotaAssumption
  PROVE  QInv => OvershootBounded
<1> SUFFICES ASSUME QInv, NEW p \in 1..Periods, usage[p] > 0
             PROVE  usage[p] < Limits[p] + overlap + reruns
  BY DEF OvershootBounded
<1>1. /\ Cardinality(Admitted(p)) \in Nat
      /\ usage[p] \in Nat /\ Limits[p] \in Nat /\ reruns \in Nat
      /\ overlap \in Nat
  <2>1. Cardinality(Submissions) \in Nat
    BY FS_CardinalityType DEF QuotaAssumption
  <2>2. QED
    BY <2>1, Counted DEF QInv, TypeOK, QuotaAssumption
<1>2. \/ usage[p] + Cardinality(Admitted(p)) = 0
      \/ usage[p] + Cardinality(Admitted(p)) < Limits[p] + overlap + reruns
  BY DEF QInv, Bounded
<1>3. QED
  BY <1>1, <1>2

\* Every state of the specification has the inductive invariant.
THEOREM QuotaInvariant == ASSUME QuotaAssumption PROVE Spec => []QInv
BY QInvFirst, QInvKept, PTL DEF Spec
=============================================================================
