---------------------------- MODULE PartsProofs ----------------------------
(***************************************************************************)
(* What is proved about the parts beside the research workflow, for every  *)
(* value of the constants, and the types of all of them.  The overshoot of *)
(* a quota is bounded, which is QuotaProofs carried over to a behaviour of *)
(* Parts.  A result of the office workflow that counts as good went        *)
(* through its gate.  The summary of a conversation holds the rounds its   *)
(* watermark counts.  Answers are replayed to the questions they were      *)
(* given to, and a fast-forwarded report is the one that was accepted.     *)
(***************************************************************************)
EXTENDS ResearchProofs

QP == INSTANCE QuotaProofs

-----------------------------------------------------------------------------
(******************************* The quota ********************************)
\* The sizes of sets as Quota and QuotaProofs define them.
LEMMA SameSizes ==
  \A S : /\ Quotas!Cardinality(S) = QP!Cardinality(S)
         /\ Quotas!IsFiniteSet(S) = QP!IsFiniteSet(S)
BY DEF Quotas!Cardinality, QP!Cardinality, Quotas!IsFiniteSet, QP!IsFiniteSet

\* A step of the parts is one of the quota or leaves it alone.
LEMMA QuotaStep == [Next]_partVars => [QP!Next]_(QP!quVars)
<1>1. CASE UNCHANGED quotaVars
  BY <1>1 DEF quotaVars, QP!quVars
<1>2. CASE Quotas!Next
  <2>1. \A t : Quotas!Submit(t) <=> QP!Submit(t)
    BY SameSizes DEF Quotas!Submit, QP!Submit, Quotas!Moves, QP!Moves,
                     Quotas!OpenTasks, QP!OpenTasks, Quotas!IsOpen, QP!IsOpen
  <2>2. QED
    BY <1>2, <2>1
       DEF Quotas!Next, QP!Next, Quotas!Work, QP!Work, Quotas!Assess, QP!Assess,
           Quotas!Charge, QP!Charge, Quotas!EndRun, QP!EndRun, Quotas!Rerun, QP!Rerun,
           Quotas!Expire, QP!Expire, Quotas!Moves, QP!Moves,
           Quotas!Exceeded, QP!Exceeded
<1>3. QED
  BY <1>1, <1>2 DEF Next, partVars, OfResearch, OfReplay, OfOffice, OfLoop, OfQuotas,
              OfMemory, OfWorker, OfGate

\* The inductive invariant of QuotaProofs, which holds the types as well.
LEMMA QuotaAlways == Spec => []QP!QInv
<1>1. QP!QuotaAssumption
  BY SameSizes, PartsAssumption
     DEF Quotas!QuotaAssumption, QP!QuotaAssumption, PartsAssumption
<1>2. Init => QP!QInv
  BY <1>1, QP!QInvFirst DEF Init, Quotas!Init, QP!Init
<1>3. QP!QInv /\ [Next]_partVars => QP!QInv'
  BY <1>1, QuotaStep, QP!QInvKept
<1>4. QED
  BY <1>2, <1>3, PTL DEF Spec

LEMMA QuotaAlwaysTyped == Spec => []Quotas!TypeOK
<1>1. QP!QInv => Quotas!TypeOK
  BY SameSizes DEF QP!QInv, QP!TypeOK, Quotas!TypeOK
<1>2. QED
  BY <1>1, QuotaAlways, PTL

\* Recorded usage passes a limit by less than the tasks that were in flight
\* together and the runs that were recorded twice, however submissions, runs,
\* recoveries and the passing of time interleave.
THEOREM Overshoot == Spec => []OvershootBounded
<1>1. QP!QuotaAssumption
  BY SameSizes, PartsAssumption
     DEF Quotas!QuotaAssumption, QP!QuotaAssumption, PartsAssumption
<1>2. QP!QInv => OvershootBounded
  BY <1>1, QP!QInvBounds DEF OvershootBounded, Quotas!OvershootBounded, QP!OvershootBounded
<1>3. QED
  BY <1>2, QuotaAlways, PTL

-----------------------------------------------------------------------------
(***************************** The office *********************************)
\* What is returned went through the gate unless the workflow was stopped: what
\* holds at each node on the way there.
OnTheWay ==
  /\ stage \in {"preflight", "planning", "build", "qa_fix"} => ~terminal
  /\ stage \in {"preflight", "planning"} => batch = 0 /\ built = 0 /\ ~repair
  /\ stage = "build" =>
       IF repair THEN built >= batches
       ELSE built = batch /\ (batch < batches \/ batch = 0)
  /\ stage = "qa_fix" => ~repair /\ built >= batches

\* What holds when the gate let the reply through.
Through(r) ==
  /\ passed /\ ~repair /\ built >= batches /\ qaRound <= MaxQaRounds
  /\ writes => r.validated

OfficeTypes ==
  /\ batches \in Nat /\ batch \in Nat /\ built \in Nat
  /\ qaRound \in Nat /\ qaRound <= MaxQaRounds
Gated == stage \in {"finalize", "done"} /\ ~terminal => Through(reply)
NoneYet == stage # "done" => outcome = Office!NoOutcome

\* The inductive invariant.  OkIsChecked speaks of the last node only.
OfficeInv ==
  OfficeTypes /\ OnTheWay /\ Gated /\ NoneYet /\ OkIsChecked

\* A step of the parts is one of the office workflow or leaves it alone.
LEMMA OfficeStep == [Next]_partVars => [Office!Next]_(Office!owVars)
BY DEF Next, partVars, officeVars, OfResearch, OfReplay, OfOffice, OfLoop,
       OfQuotas, OfMemory, OfWorker, OfGate, Office!owVars

\* Before the last node there is no outcome, which is then good in itself.
LEMMA NoOutcomeIsGood ==
  ASSUME outcome = Office!NoOutcome
  PROVE  OkIsChecked
BY DEF OkIsChecked, Office!OkIsChecked, Office!NoOutcome

\* The nodes before the last one.
LEMMA OfficeWorks ==
  ASSUME Office!OfficeAssumption, OfficeInv, stage # "done",
         \/ Office!Normalized \/ Office!Unclear \/ Office!Plan
         \/ Office!Build \/ Office!QaFix
  PROVE  OfficeInv'
<1> USE DEF OfficeTypes, Office!OfficeAssumption
<1>1. OfficeTypes /\ OnTheWay /\ Gated /\ outcome = Office!NoOutcome
  BY DEF OfficeInv, NoneYet
<1>2. outcome' = Office!NoOutcome /\ NoneYet'
  BY <1>1 DEF NoneYet, Office!Normalized, Office!Unclear, Office!Plan, Office!Build,
              Office!QaFix
<1>3. OkIsChecked'
  BY <1>2 DEF OkIsChecked, Office!OkIsChecked, Office!NoOutcome
<1>4. CASE Office!Normalized
  <2>1. OfficeTypes'
    BY <1>1, <1>4 DEF Office!Normalized
  <2>2. OnTheWay'
    BY <1>1, <1>4 DEF OnTheWay, Office!Normalized
  <2>3. Gated'
    BY <1>1, <1>4 DEF Gated, Through, Office!Normalized
  <2>4. QED
    BY <1>2, <1>3, <2>1, <2>2, <2>3 DEF OfficeInv
<1>5. CASE Office!Unclear
  <2>1. OfficeTypes'
    BY <1>1, <1>5 DEF Office!Unclear, Office!Stop
  <2>2. OnTheWay'
    BY <1>1, <1>5 DEF OnTheWay, Office!Unclear, Office!Stop
  <2>3. Gated'
    BY <1>1, <1>5 DEF Gated, Through, Office!Unclear, Office!Stop
  <2>4. QED
    BY <1>2, <1>3, <2>1, <2>2, <2>3 DEF OfficeInv
<1>6. CASE Office!Plan
  <2>1. OfficeTypes'
    BY <1>1, <1>6 DEF Office!Plan
  <2>2. OnTheWay'
    BY <1>1, <1>6 DEF OnTheWay, Office!Plan
  <2>3. Gated'
    BY <1>1, <1>6 DEF Gated, Through, Office!Plan
  <2>4. QED
    BY <1>2, <1>3, <2>1, <2>2, <2>3 DEF OfficeInv
<1>7. CASE Office!Build
  <2>1. OfficeTypes'
    BY <1>1, <1>7 DEF Office!Build, Office!Stop, Office!Advanced, Office!NextStage
  <2>2. OnTheWay'
    BY <1>1, <1>7 DEF OnTheWay, Office!Build, Office!Stop, Office!Advanced, Office!NextStage
  <2>3. Gated'
    BY <1>1, <1>7 DEF Gated, Through, Office!Build, Office!Stop, Office!Advanced, Office!NextStage
  <2>4. QED
    BY <1>2, <1>3, <2>1, <2>2, <2>3 DEF OfficeInv
<1>8. CASE Office!QaFix
  <2>1. OfficeTypes'
    BY <1>1, <1>8 DEF Office!QaFix, Office!Stop, Office!Issues
  <2>2. OnTheWay'
    BY <1>1, <1>8 DEF OnTheWay, Office!QaFix, Office!Stop, Office!Issues
  <2>3. Gated'
    <3>1. CASE reply.json /\ ~Office!Issues(reply)
      <4>1. /\ passed' /\ ~repair /\ built >= batches /\ qaRound <= MaxQaRounds
            /\ writes => reply.validated
        BY <1>1, <1>8, <3>1 DEF OnTheWay, Office!QaFix, Office!Issues
      <4>2. UNCHANGED <<repair, built, batches, qaRound, writes, reply>>
        BY <1>8, <3>1 DEF Office!QaFix
      <4>3. QED
        BY <4>1, <4>2 DEF Gated, Through
    <3>2. CASE ~(reply.json /\ ~Office!Issues(reply))
      BY <1>8, <3>2 DEF Gated, Office!QaFix, Office!Stop
    <3>3. QED
      BY <3>1, <3>2
  <2>4. QED
    BY <1>2, <1>3, <2>1, <2>2, <2>3 DEF OfficeInv
<1>9. QED
  BY <1>4, <1>5, <1>6, <1>7, <1>8

\* The last node: the outcome.
LEMMA OfficeFinalizes ==
  ASSUME OfficeInv, Office!Finalize
  PROVE  OfficeInv'
<1>1. PICK changed, server, closes, hinted \in BOOLEAN :
        LET files == Office!HasFiles(changed, server)
            inspects == reply.operation = "inspect"
                          \/ (reply.operation = "none" /\ hinted /\ ~writes)
            good == reply.validated /\ files
        IN outcome' =
             IF terminal THEN Office!Failed
             ELSE IF ~inspects /\ good /\ ~closes THEN [Office!Failed EXCEPT !.files = files]
             ELSE [status |-> "ok", passed |-> inspects \/ good, wrote |-> ~inspects,
                   closed |-> ~inspects /\ good, files |-> files]
  BY DEF Office!Finalize
<1> DEFINE files == Office!HasFiles(changed, server)
<1>2. /\ stage' = "done" /\ stage = "finalize"
      /\ UNCHANGED <<Office!flow, reply, terminal, passed>>
  BY DEF Office!Finalize
<1> HIDE DEF files
<1>3. outcome'.status = "ok" => ~terminal
  BY <1>1 DEF Office!Failed, Office!NoOutcome, files
<1>4. outcome'.status = "ok" /\ outcome'.passed /\ outcome'.wrote
        => outcome'.closed /\ outcome'.files
  BY <1>1 DEF Office!Failed, Office!NoOutcome, files
<1>5. OkIsChecked'
  BY <1>2, <1>3, <1>4 DEF OfficeInv, Gated, OkIsChecked, Office!OkIsChecked,
                          Office!flow, Through
<1>6. OfficeTypes' /\ OnTheWay' /\ Gated' /\ NoneYet'
  BY <1>2 DEF OfficeInv, OfficeTypes, OnTheWay, Gated, NoneYet, Office!flow, Through
<1>7. QED
  BY <1>5, <1>6 DEF OfficeInv

\* The office's inductive invariant, for any plan, replies and limits.
THEOREM OfficeAlwaysGood == Spec => []OfficeInv
<1>1. Init => OfficeInv
  <2> SUFFICES ASSUME Init PROVE OfficeInv
    OBVIOUS
  <2>1. Office!Init
    BY DEF Init
  <2>2. OkIsChecked
    BY <2>1, NoOutcomeIsGood DEF Office!Init
  <2>3. MaxQaRounds \in Nat
    BY PartsAssumption DEF PartsAssumption, Office!OfficeAssumption
  <2>4. OfficeTypes
    BY <2>1, <2>3 DEF OfficeTypes, Office!Init
  <2>5. OnTheWay /\ Gated /\ NoneYet
    BY <2>1 DEF OnTheWay, Gated, NoneYet, Office!Init
  <2>6. QED
    BY <2>2, <2>4, <2>5 DEF OfficeInv
<1>2. OfficeInv /\ [Next]_partVars => OfficeInv'
  <2> SUFFICES ASSUME OfficeInv, [Office!Next]_(Office!owVars) PROVE OfficeInv'
    BY OfficeStep
  <2>1. CASE Office!Finalize
    BY <2>1, OfficeFinalizes
  <2>2. CASE \/ Office!Normalized \/ Office!Unclear \/ Office!Plan
             \/ Office!Build \/ Office!QaFix
    <3>1. stage # "done"
      BY <2>2 DEF Office!Normalized, Office!Unclear, Office!Plan, Office!Build,
                  Office!QaFix
    <3>2. QED
      BY <2>2, <3>1, PartsAssumption, OfficeWorks DEF PartsAssumption
  <2>3. CASE UNCHANGED Office!owVars
    BY <2>3 DEF Office!owVars, OfficeInv, OfficeTypes, OnTheWay, Gated, NoneYet, Through,
                OkIsChecked, Office!OkIsChecked
  <2>4. QED
    BY <2>1, <2>2, <2>3 DEF Office!Next
<1>3. QED
  BY <1>1, <1>2, PTL DEF Spec

\* A good result went through the gate after the last build, with every batch
\* built, and what it says it wrote is closed, whatever the agent replies.
THEOREM OkAlwaysChecked == Spec => []OkIsChecked
BY OfficeAlwaysGood, PTL DEF OfficeInv

\* The types of the office workflow at each of its nodes.
LEMMA OfficeTyped ==
  ASSUME Office!OfficeAssumption, Office!TypeOK, [Office!Next]_(Office!owVars)
  PROVE  Office!TypeOK'
<1> USE DEF Office!OfficeAssumption
<1> DEFINE Numbers == /\ tries \in Nat /\ batches \in Nat /\ batch \in Nat
                      /\ built \in Nat /\ qaRound \in Nat
           Flags == /\ writes \in BOOLEAN /\ repair \in BOOLEAN /\ terminal \in BOOLEAN
                    /\ passed \in BOOLEAN
           Rest == /\ stage \in {"preflight", "planning", "build", "qa_fix", "finalize", "done"}
                   /\ reply \in Office!Structured \cup {Office!NoReply}
                   /\ outcome.status \in {"", "ok", "error"}
                   /\ outcome.files \in BOOLEAN
<1>0. Numbers
  BY DEF Office!TypeOK
<1>1. Rest
  BY DEF Office!TypeOK
<1>2. Flags
  BY DEF Office!TypeOK
<1>3. CASE Office!Normalized
  <2>1. Numbers'
    BY <1>0, <1>3 DEF Office!Normalized
  <2>2. Rest'
    BY <1>1, <1>3 DEF Office!Normalized
  <2>3. Flags'
    BY <1>2, <1>3 DEF Office!Normalized
  <2> QED BY <2>1, <2>2, <2>3 DEF Office!TypeOK
<1>4. CASE Office!Unclear
  <2>1. Numbers'
    <3>1. tries' = tries + 1 /\ UNCHANGED <<batches, batch, built, qaRound>>
      BY <1>4 DEF Office!Unclear
    <3> QED BY <1>0, <3>1
  <2>2. Rest'
    BY <1>1, <1>4 DEF Office!Unclear, Office!Stop
  <2>3. Flags'
    BY <1>2, <1>4 DEF Office!Unclear, Office!Stop
  <2> QED BY <2>1, <2>2, <2>3 DEF Office!TypeOK
<1>5. CASE Office!Plan
  <2>1. Numbers'
    BY <1>0, <1>5 DEF Office!Plan
  <2>2. Rest'
    BY <1>1, <1>5 DEF Office!Plan
  <2>3. Flags'
    BY <1>2, <1>5 DEF Office!Plan
  <2> QED BY <2>1, <2>2, <2>3 DEF Office!TypeOK
<1>6. CASE Office!Build
  <2>1. Numbers'
    <3>1. /\ batch' \in {batch, batch + 1} /\ built' \in {built, built + 1}
          /\ UNCHANGED <<tries, batches, qaRound>>
      BY <1>6 DEF Office!Build, Office!Advanced
    <3> QED BY <1>0, <3>1
  <2>2. Rest'
    BY <1>1, <1>6 DEF Office!Build, Office!Stop, Office!Advanced, Office!NextStage
  <2>3. Flags'
    BY <1>2, <1>6 DEF Office!Build, Office!Stop
  <2> QED BY <2>1, <2>2, <2>3 DEF Office!TypeOK
<1>7. CASE Office!QaFix
  <2>1. Numbers'
    <3>1. /\ qaRound' \in {qaRound, qaRound + 1}
          /\ UNCHANGED <<tries, batches, batch, built>>
      BY <1>7 DEF Office!QaFix
    <3> QED BY <1>0, <3>1
  <2>2. Rest'
    BY <1>1, <1>7 DEF Office!QaFix, Office!Stop
  <2>3. Flags'
    BY <1>2, <1>7 DEF Office!QaFix, Office!Stop
  <2> QED BY <2>1, <2>2, <2>3 DEF Office!TypeOK
<1>8. CASE Office!Finalize
  <2>1. PICK changed, server, closes, hinted \in BOOLEAN :
          LET files == Office!HasFiles(changed, server)
              inspects == reply.operation = "inspect"
                            \/ (reply.operation = "none" /\ hinted /\ ~writes)
              good == reply.validated /\ files
          IN outcome' =
               IF terminal THEN Office!Failed
               ELSE IF ~inspects /\ good /\ ~closes THEN [Office!Failed EXCEPT !.files = files]
               ELSE [status |-> "ok", passed |-> inspects \/ good, wrote |-> ~inspects,
                     closed |-> ~inspects /\ good, files |-> files]
    BY <1>8 DEF Office!Finalize
  <2> DEFINE files == Office!HasFiles(changed, server)
  <2>2. files \in BOOLEAN
    BY DEF Office!HasFiles
  <2> HIDE DEF files
  <2>3. outcome'.status \in {"ok", "error"} /\ outcome'.files \in {FALSE, files}
    BY <2>1 DEF Office!Failed, Office!NoOutcome, files
  <2>4. /\ stage' = "done"
        /\ UNCHANGED <<tries, writes, batches, batch, built, repair, qaRound, reply,
                       terminal, passed>>
    BY <1>8 DEF Office!Finalize, Office!flow
  <2>7. Numbers'
    BY <1>0, <2>4
  <2>5. Rest'
    BY <1>1, <2>2, <2>3, <2>4
  <2>6. Flags'
    BY <1>2, <2>4
  <2> QED BY <2>5, <2>6, <2>7 DEF Office!TypeOK
<1>9. CASE UNCHANGED Office!owVars
  <2>1. Numbers'
    BY <1>0, <1>9 DEF Office!owVars
  <2>2. Rest'
    BY <1>1, <1>9 DEF Office!owVars
  <2>3. Flags'
    BY <1>2, <1>9 DEF Office!owVars
  <2> QED BY <2>1, <2>2, <2>3 DEF Office!TypeOK
<1> QED BY <1>3, <1>4, <1>5, <1>6, <1>7, <1>8, <1>9 DEF Office!Next

LEMMA OfficeAlwaysTyped == Spec => []Office!TypeOK
<1>1. Init => Office!TypeOK
  <2> SUFFICES ASSUME Init PROVE Office!TypeOK
    OBVIOUS
  <2>1. tries = 0 /\ batches = 0 /\ batch = 0 /\ built = 0 /\ qaRound = 0
    BY DEF Init, Office!Init
  <2>2. stage = "preflight" /\ reply = Office!NoReply /\ outcome = Office!NoOutcome
    BY DEF Init, Office!Init
  <2>3. {tries, batches, batch, built, qaRound} \subseteq Nat
    BY <2>1
  <2>4. {writes, repair, terminal, passed} \subseteq BOOLEAN
    BY DEF Init, Office!Init
  <2> QED BY <2>2, <2>3, <2>4 DEF Office!TypeOK, Office!NoOutcome
<1>2. Office!TypeOK /\ [Next]_partVars => Office!TypeOK'
  BY PartsAssumption, OfficeStep, OfficeTyped DEF PartsAssumption
<1> QED BY <1>1, <1>2, PTL DEF Spec

-----------------------------------------------------------------------------
(************************ Patent and zero_report **************************)
\* The loop is evaluated only with a result, and ends at its bound.
LoopInv ==
  /\ Loop!TypeOK
  /\ loopNode \in {"select", "execute", "evaluate"} => rounds < MaxRounds
  /\ loopNode = "evaluate" => result # "none"

LEMMA LoopStep == [Next]_partVars => [Loop!Next]_(Loop!slVars)
BY DEF Next, partVars, loopVars, OfResearch, OfReplay, OfOffice, OfLoop,
       OfQuotas, OfMemory, OfWorker, OfGate, Loop!slVars

LEMMA LoopAlwaysTyped == Spec => []LoopInv
<1> USE DEF Loop!LoopAssumption
<1>1. Init => LoopInv
  <2> SUFFICES ASSUME Init PROVE LoopInv
    OBVIOUS
  <2>1. MaxRounds \in Nat \ {0}
    BY PartsAssumption DEF PartsAssumption
  <2>2. rounds = 0
    BY DEF Init, Loop!Init
  <2>3. rounds \in 0..MaxRounds /\ rounds < MaxRounds
    BY <2>1, <2>2
  <2>4. /\ loop \in Loops /\ loopNode = "select"
        /\ selected = "" /\ result = "none" /\ review = "none"
    BY DEF Init, Loop!Init
  <2> QED BY <2>3, <2>4 DEF LoopInv, Loop!TypeOK
<1>2. LoopInv /\ [Next]_partVars => LoopInv'
  <2> SUFFICES ASSUME LoopInv, [Loop!Next]_(Loop!slVars) PROVE LoopInv'
    BY LoopStep
  <2>1. MaxRounds \in Nat
    BY PartsAssumption DEF PartsAssumption
  <2>2. CASE Loop!Select
    <3>1. selected' \in {""} \cup Loop!Valid(loop)
      BY <2>2 DEF Loop!Select, Loop!Valid, Loop!Usual
    <3> QED BY <2>2, <3>1 DEF Loop!Select, LoopInv, Loop!TypeOK, Loop!Valid
  <2>3. CASE Loop!Execute
    BY <2>3 DEF Loop!Execute, LoopInv, Loop!TypeOK, Loop!Valid
  <2>4. CASE Loop!Evaluate
    <3>1. /\ loopNode = "evaluate" /\ result \in {"plan", "text", "empty"}
          /\ rounds \in 0..MaxRounds /\ rounds < MaxRounds
      BY <2>4 DEF Loop!Evaluate, LoopInv, Loop!TypeOK
    <3>2. /\ rounds' = rounds + 1 /\ UNCHANGED <<loop, selected, result>>
          /\ loopNode' = IF result = "text" /\ review' = "passed" THEN "reported"
                         ELSE IF rounds' >= MaxRounds THEN "exhausted" ELSE "select"
      BY <2>4 DEF Loop!Evaluate
    <3>3. review' \in {"passed", "failed"}
      BY <2>4, <3>1 DEF Loop!Evaluate
    <3>4. rounds' \in 0..MaxRounds /\ (loopNode' = "select" => rounds' < MaxRounds)
      BY <2>1, <3>1, <3>2
    <3>5. loopNode' \in {"reported", "exhausted", "select"}
      BY <3>2
    <3> QED BY <3>1, <3>2, <3>3, <3>4, <3>5 DEF LoopInv, Loop!TypeOK, Loop!Valid
  <2>5. CASE UNCHANGED Loop!slVars
    BY <2>5 DEF Loop!slVars, LoopInv, Loop!TypeOK, Loop!Valid
  <2> QED BY <2>2, <2>3, <2>4, <2>5 DEF Loop!Next
<1> QED BY <1>1, <1>2, PTL DEF Spec

-----------------------------------------------------------------------------
(************************** Conversation memory **************************)
\* ConversationMemory counts as this module does.
LEMMA MemoryCounts == \A S : Memory!Cardinality(S) = Cardinality(S)
BY DEF Memory!Cardinality, Cardinality, Memory!IsFiniteSet, IsFiniteSet

\* How many of a set are below an element, and the first k.
Below(t, S) == {u \in S : u < t}
FirstOf(k, S) == {t \in S : Cardinality(Below(t, S)) < k}

LEMMA FirstIs == \A k, S : Memory!First(k, S) = FirstOf(k, S)
BY MemoryCounts DEF Memory!First, FirstOf, Below

\* The number below an element grows with the element.
LEMMA BelowGrows ==
  ASSUME NEW S \in SUBSET Nat, IsFiniteSet(S)
  PROVE  /\ \A t \in Nat : Cardinality(Below(t, S)) \in Nat
         /\ \A t \in S : Cardinality(Below(t, S)) < Cardinality(S)
         /\ \A t, u \in S : u < t => Cardinality(Below(u, S)) < Cardinality(Below(t, S))
<1>1. ASSUME NEW T \in SUBSET S
      PROVE  /\ IsFiniteSet(T) /\ Cardinality(T) \in Nat /\ Cardinality(S) \in Nat
             /\ Cardinality(T) <= Cardinality(S)
             /\ T # S => Cardinality(T) < Cardinality(S)
  <2>1. IsFiniteSet(T) /\ Cardinality(T) <= Cardinality(S)
        /\ (Cardinality(S) = Cardinality(T) => S = T)
    BY FS_Subset
  <2>2. Cardinality(T) \in Nat /\ Cardinality(S) \in Nat
    BY <2>1, FS_CardinalityType
  <2> QED BY <2>1, <2>2
<1>2. \A t \in Nat : Cardinality(Below(t, S)) \in Nat
  <2> TAKE t \in Nat
  <2>1. Below(t, S) \in SUBSET S
    BY DEF Below
  <2> QED BY <1>1, <2>1
<1>3. \A t \in S : Cardinality(Below(t, S)) < Cardinality(S)
  <2> TAKE t \in S
  <2>1. Below(t, S) \in SUBSET S /\ t \notin Below(t, S)
    BY DEF Below
  <2> QED BY <1>1, <2>1
<1>4. ASSUME NEW t \in S, NEW u \in S, u < t
      PROVE  Cardinality(Below(u, S)) < Cardinality(Below(t, S))
  <2>1. Below(u, S) \in SUBSET Below(t, S) /\ u \in Below(t, S) /\ u \notin Below(u, S)
    <3>1. u \in Nat /\ t \in Nat
      OBVIOUS
    <3>2. \A v \in S : v \in Nat /\ (v < u => v < t)
      BY <1>4, <3>1
    <3>3. ~(u < u)
      BY <3>1
    <3> QED BY <1>4, <3>2, <3>3 DEF Below
  <2>2. Below(t, S) \in SUBSET S
    BY DEF Below
  <2>3. IsFiniteSet(Below(t, S)) /\ Cardinality(Below(t, S)) \in Nat
    BY <1>1, <2>2
  <2>4. /\ IsFiniteSet(Below(u, S))
        /\ Cardinality(Below(u, S)) <= Cardinality(Below(t, S))
        /\ Cardinality(Below(t, S)) = Cardinality(Below(u, S)) => Below(t, S) = Below(u, S)
    BY <2>1, <2>3, FS_Subset
  <2>5. Cardinality(Below(u, S)) \in Nat
    BY <2>4, FS_CardinalityType
  <2> QED BY <2>1, <2>3, <2>4, <2>5
<1> QED BY <1>2, <1>3, <1>4

\* Below one of the first k there are the same elements of the first k as of all.
LEMMA FirstOfFirst ==
  ASSUME NEW S \in SUBSET Nat, IsFiniteSet(S), NEW k \in Nat, NEW m \in Nat, k <= m
  PROVE  /\ FirstOf(k, FirstOf(m, S)) = FirstOf(k, S)
         /\ FirstOf(k, S) \subseteq FirstOf(m, S)
<1> DEFINE F == FirstOf(m, S)
<1>1. \A t \in F : t \in S /\ t \in Nat /\ Cardinality(Below(t, S)) < m
  BY DEF FirstOf
<1>2. \A t \in F : Below(t, F) = Below(t, S)
  <2> SUFFICES ASSUME NEW t \in F, NEW u \in S, u < t PROVE u \in F
    BY <1>1 DEF Below
  <2>1. Cardinality(Below(u, S)) < Cardinality(Below(t, S))
    BY <1>1, BelowGrows
  <2>2. Cardinality(Below(u, S)) \in Nat /\ Cardinality(Below(t, S)) \in Nat
    BY <1>1, BelowGrows
  <2> QED BY <1>1, <2>1, <2>2 DEF FirstOf
<1>3. FirstOf(k, S) \subseteq F
  <2> SUFFICES ASSUME NEW t \in FirstOf(k, S) PROVE t \in F
    OBVIOUS
  <2>1. t \in S /\ t \in Nat /\ Cardinality(Below(t, S)) < k
    BY DEF FirstOf
  <2>2. Cardinality(Below(t, S)) \in Nat
    BY <2>1, BelowGrows
  <2>3. Cardinality(Below(t, S)) < m
    BY <2>1, <2>2
  <2> QED BY <2>1, <2>3 DEF FirstOf
<1> HIDE DEF F
<1>4. FirstOf(k, F) = FirstOf(k, S)
  BY <1>1, <1>2, <1>3 DEF FirstOf
<1> QED BY <1>3, <1>4 DEF F

\* The first k of a set that has so many are k.
LEMMA FirstSize ==
  ASSUME NEW S \in SUBSET Nat, IsFiniteSet(S), NEW k \in 0..Cardinality(S)
  PROVE  Cardinality(FirstOf(k, S)) = k
<1> DEFINE N == Cardinality(S)
           rank == [t \in S |-> Cardinality(Below(t, S)) + 1]
           F == FirstOf(k, S)
           place == [t \in F |-> Cardinality(Below(t, S)) + 1]
<1>1. N \in Nat
  BY FS_CardinalityType
<1>2. \A t \in S : Cardinality(Below(t, S)) \in Nat /\ Cardinality(Below(t, S)) < N
  BY BelowGrows
<1>3. \A t, u \in S : Cardinality(Below(t, S)) = Cardinality(Below(u, S)) => t = u
  <2> SUFFICES ASSUME NEW t \in S, NEW u \in S, t # u
               PROVE  Cardinality(Below(t, S)) # Cardinality(Below(u, S))
    OBVIOUS
  <2>1. t < u \/ u < t
    OBVIOUS
  <2> QED BY <1>2, <2>1, BelowGrows
<1>4. rank \in Injection(S, 1..N)
  <2>1. rank \in [S -> 1..N]
    BY <1>1, <1>2
  <2>2. IsInjective(rank)
    BY <1>2, <1>3 DEF IsInjective
  <2> QED BY <2>1, <2>2 DEF Injection
<1>5. IsFiniteSet(1..N) /\ Cardinality(1..N) = N
  BY <1>1, FS_Interval
<1> HIDE DEF rank
<1>6. rank \in Surjection(S, 1..N)
  BY <1>4, <1>5, FS_Injection
<1> USE DEF rank
<1>7. \A r \in 1..N : \E t \in S : Cardinality(Below(t, S)) + 1 = r
  BY <1>6 DEF Surjection
<1>8. k \in Nat /\ k <= N
  BY <1>1
<1>9. place \in Bijection(F, 1..k)
  <2>0. \A t \in S : t \in F <=> Cardinality(Below(t, S)) + 1 \in 1..k
    BY <1>2, <1>8 DEF FirstOf
  <2>1. place \in [F -> 1..k]
    <3>1. F \subseteq S
      BY DEF FirstOf
    <3> QED BY <2>0, <3>1
  <2>2. IsInjective(place)
    BY <1>2, <1>3 DEF IsInjective, FirstOf
  <2>3. \A r \in 1..k : \E t \in F : place[t] = r
    <3> TAKE r \in 1..k
    <3>1. PICK t \in S : Cardinality(Below(t, S)) + 1 = r
      <4>1. r \in 1..N
        BY <1>1, <1>8
      <4> HIDE DEF N
      <4> QED BY <1>7, <4>1
    <3>2. t \in F
      BY <2>0, <3>1
    <3> QED BY <3>1, <3>2
  <2> QED BY <2>1, <2>2, <2>3 DEF Bijection, Injection, Surjection
<1>10. IsFiniteSet(F)
  BY FS_Subset DEF FirstOf
<1>11. IsFiniteSet(1..k) /\ Cardinality(1..k) = k
  BY <1>8, FS_Interval
<1> HIDE DEF place, F
<1>12. Cardinality(1..k) = Cardinality(F)
  BY <1>9, <1>10, FS_Bijection DEF ExistsBijection
<1> QED BY <1>11, <1>12 DEF F

-----------------------------------------------------------------------------
\* The rounds that have completed by the nth completion, and those of them that
\* completed after one that was created later.
Prefix(c, n) == {c[i] : i \in 1..n}
LateBy(c, n) == {i \in 1..n : \E j \in 1..(i - 1) : c[j] > c[i]}
Once(c) == \A i, j \in 1..Len(c) : c[i] = c[j] => i = j

LEMMA PrefixSize ==
  ASSUME NEW c \in Seq(Nat), Once(c), NEW n \in 0..Len(c)
  PROVE  /\ Prefix(c, n) \in SUBSET Nat /\ IsFiniteSet(Prefix(c, n))
         /\ Cardinality(Prefix(c, n)) = n
         /\ IsFiniteSet(LateBy(c, n)) /\ Cardinality(LateBy(c, n)) \in Nat
<1> DEFINE f == [i \in 1..n |-> c[i]]
<1>1. n \in Nat /\ 1..n \subseteq 1..Len(c)
  OBVIOUS
<1>2. \A i \in 1..n : c[i] \in Nat
  BY <1>1
<1>3. Prefix(c, n) \in SUBSET Nat
  BY <1>2 DEF Prefix
<1>4. f \in Bijection(1..n, Prefix(c, n))
  <2>1. f \in [1..n -> Prefix(c, n)]
    BY DEF Prefix
  <2>2. IsInjective(f)
    BY <1>1 DEF IsInjective, Once
  <2>3. \A x \in Prefix(c, n) : \E i \in 1..n : f[i] = x
    BY DEF Prefix
  <2> HIDE DEF f
  <2> QED BY <2>1, <2>2, <2>3 DEF Bijection, Injection, Surjection
<1>5. IsFiniteSet(1..n) /\ Cardinality(1..n) = n
  BY <1>1, FS_Interval
<1> HIDE DEF f
<1>6. IsFiniteSet(Prefix(c, n)) /\ Cardinality(Prefix(c, n)) = n
  BY <1>4, <1>5, FS_Bijection DEF ExistsBijection
<1>7. LateBy(c, n) \in SUBSET (1..n)
  BY DEF LateBy
<1>8. IsFiniteSet(LateBy(c, n))
  BY <1>5, <1>7, FS_Subset
<1> QED BY <1>3, <1>6, <1>8, FS_CardinalityType

\* What comes to be among the first k rounds later completed out of order: there
\* were k of them before, and one of those was created after it.
LEMMA LateComers ==
  ASSUME NEW c \in Seq(Nat), Once(c), NEW n \in 0..Len(c), NEW m \in 0..n,
         NEW k \in 0..m, NEW x \in FirstOf(k, Prefix(c, n)), x \notin FirstOf(k, Prefix(c, m))
  PROVE  \E i \in LateBy(c, n) : i > m /\ x = c[i]
<1>1. n \in Nat /\ m \in Nat /\ k \in Nat /\ m <= n /\ m \in 0..Len(c) /\ k <= m
  OBVIOUS
<1>2. /\ Prefix(c, n) \in SUBSET Nat /\ IsFiniteSet(Prefix(c, n))
      /\ Prefix(c, m) \in SUBSET Nat /\ IsFiniteSet(Prefix(c, m))
      /\ Cardinality(Prefix(c, m)) = m
  BY <1>1, PrefixSize
<1>3. x \in Prefix(c, n) /\ x \in Nat /\ Cardinality(Below(x, Prefix(c, n))) < k
  BY <1>2 DEF FirstOf
<1>4. PICK i \in 1..n : x = c[i]
  BY <1>3 DEF Prefix
<1>5. Prefix(c, m) \subseteq Prefix(c, n)
  BY <1>1 DEF Prefix
<1>6. /\ Below(x, Prefix(c, m)) \in SUBSET Below(x, Prefix(c, n))
      /\ Below(x, Prefix(c, n)) \in SUBSET Prefix(c, n)
  BY <1>5 DEF Below
<1>7. /\ IsFiniteSet(Below(x, Prefix(c, n))) /\ Cardinality(Below(x, Prefix(c, n))) \in Nat
      /\ \A S \in SUBSET Below(x, Prefix(c, n)) :
           Cardinality(S) \in Nat /\ Cardinality(S) < k
  <2>1. IsFiniteSet(Below(x, Prefix(c, n)))
    BY <1>2, <1>6, FS_Subset
  <2>2. Cardinality(Below(x, Prefix(c, n))) \in Nat
    BY <2>1, FS_CardinalityType
  <2>3. ASSUME NEW S \in SUBSET Below(x, Prefix(c, n))
        PROVE  Cardinality(S) \in Nat /\ Cardinality(S) < k
    <3>1. IsFiniteSet(S) /\ Cardinality(S) <= Cardinality(Below(x, Prefix(c, n)))
      BY <2>1, FS_Subset
    <3>2. Cardinality(S) \in Nat
      BY <3>1, FS_CardinalityType
    <3> QED BY <1>1, <1>3, <2>2, <3>1, <3>2
  <2> QED BY <2>1, <2>2, <2>3
<1>8. x \notin Prefix(c, m)
  BY <1>6, <1>7 DEF FirstOf
<1>9. i > m
  BY <1>1, <1>4, <1>8 DEF Prefix
<1>10. \E y \in Prefix(c, m) : y > x
  <2> SUFFICES ASSUME \A y \in Prefix(c, m) : ~(y > x) PROVE FALSE
    OBVIOUS
  <2>1. \A y \in Prefix(c, m) : y < x
    BY <1>2, <1>3, <1>8
  <2>2. Prefix(c, m) \in SUBSET Below(x, Prefix(c, n))
    BY <1>5, <2>1 DEF Below
  <2> QED BY <1>1, <1>2, <1>7, <2>2
<1>11. PICK j \in 1..m : c[j] > x
  BY <1>10 DEF Prefix
<1>12. j \in 1..(i - 1)
  BY <1>1, <1>9
<1> QED BY <1>4, <1>9, <1>11, <1>12 DEF LateBy

\* A text that lacks no more of the first k than completed late by then goes on so.
LEMMA LackGrows ==
  ASSUME NEW c \in Seq(Nat), Once(c), NEW n \in 0..Len(c), NEW m \in 0..n,
         NEW k \in 0..m, NEW text,
         Cardinality(FirstOf(k, Prefix(c, m)) \ text) <= Cardinality(LateBy(c, m))
  PROVE  Cardinality(FirstOf(k, Prefix(c, n)) \ text) <= Cardinality(LateBy(c, n))
<1> DEFINE A == FirstOf(k, Prefix(c, m)) \ text
           B == FirstOf(k, Prefix(c, n)) \ text
           D == {i \in LateBy(c, n) : i > m}
           E == {c[i] : i \in D}
<1>1. n \in Nat /\ m \in Nat /\ m <= n /\ m \in 0..Len(c)
  OBVIOUS
<1>2. /\ IsFiniteSet(Prefix(c, n)) /\ IsFiniteSet(Prefix(c, m))
      /\ IsFiniteSet(LateBy(c, m)) /\ Cardinality(LateBy(c, m)) \in Nat
      /\ IsFiniteSet(LateBy(c, n)) /\ Cardinality(LateBy(c, n)) \in Nat
  BY <1>1, PrefixSize
<1>3. IsFiniteSet(A) /\ IsFiniteSet(D)
  <2>1. A \in SUBSET Prefix(c, m) /\ D \in SUBSET LateBy(c, n)
    BY DEF FirstOf
  <2> QED BY <1>2, <2>1, FS_Subset
<1>4. LateBy(c, n) = LateBy(c, m) \cup D /\ LateBy(c, m) \cap D = {}
  BY <1>1 DEF LateBy
<1>5. Cardinality(LateBy(c, n)) = Cardinality(LateBy(c, m)) + Cardinality(D)
  <2>1. Cardinality(LateBy(c, m) \cup D)
          = Cardinality(LateBy(c, m)) + Cardinality(D) - Cardinality(LateBy(c, m) \cap D)
    BY <1>2, <1>3, FS_Union
  <2>2. Cardinality(D) \in Nat
    BY <1>3, FS_CardinalityType
  <2>3. Cardinality(LateBy(c, m) \cap D) = 0
    BY <1>4, FS_EmptySet
  <2> HIDE DEF D
  <2> QED BY <1>2, <1>4, <2>1, <2>2, <2>3
<1>6. IsFiniteSet(E) /\ Cardinality(E) <= Cardinality(D)
  <2> DEFINE f == [i \in D |-> c[i]]
  <2>1. f \in Surjection(D, E)
    BY DEF Surjection
  <2> HIDE DEF f, D, E
  <2> QED BY <1>3, <2>1, FS_Surjection
<1>7. B \subseteq A \cup E
  BY LateComers
<1> HIDE DEF A, B, D, E
<1>8. /\ IsFiniteSet(A \cup E)
      /\ Cardinality(A \cup E) = Cardinality(A) + Cardinality(E) - Cardinality(A \cap E)
  BY <1>3, <1>6, FS_Union
<1>9. IsFiniteSet(A \cap E)
  BY <1>3, FS_Subset
<1>10. IsFiniteSet(B) /\ Cardinality(B) <= Cardinality(A \cup E)
  BY <1>7, <1>8, FS_Subset
<1>11. /\ Cardinality(A) \in Nat /\ Cardinality(B) \in Nat /\ Cardinality(D) \in Nat
       /\ Cardinality(E) \in Nat /\ Cardinality(A \cap E) \in Nat
       /\ Cardinality(A \cup E) \in Nat
  BY <1>3, <1>6, <1>8, <1>9, <1>10, FS_CardinalityType
<1>12. Cardinality(A) <= Cardinality(LateBy(c, m))
  BY DEF A
<1>13. Cardinality(B) <= Cardinality(LateBy(c, n))
  BY <1>2, <1>5, <1>6, <1>8, <1>10, <1>11, <1>12
<1> QED BY <1>13 DEF B

-----------------------------------------------------------------------------
\* A summary that stands for k rounds: when these were read no more of them were
\* missing from its text than had completed out of order, and the recent rounds
\* were all that there were beside them.
StandsFor(text, k) ==
  \E m \in 0..Len(completions) :
    /\ k <= m /\ m <= k + RecentRounds
    /\ Cardinality(FirstOf(k, Prefix(completions, m)) \ text)
         <= Cardinality(LateBy(completions, m))
\* The older rounds that a task has read.
AreOlder(older) ==
  \E m \in 0..Len(completions) :
    /\ Cardinality(older) \in Nat /\ m = Cardinality(older) + RecentRounds
    /\ older = FirstOf(Cardinality(older), Prefix(completions, m))

Steps == {"none", "older", "merging", "running", "ended"}
Builds == [step : Steps, older : SUBSET Nat, merged : SUBSET Nat]

\* The inductive invariant.  WatermarkHolds speaks of the summary that is stored:
\* one may be stored later that was built from an older one, and of fewer rounds.
MemoryInv ==
  /\ Memory!TypeOK
  /\ completions \in Seq(Nat) /\ Once(completions)
  /\ build \in [Memory!Task -> Builds]
  /\ \A t \in Memory!Task : t > created => build[t].step = "none"
  /\ \A i \in 1..Len(completions) : build[completions[i]].step = "ended"
  /\ blanked \/ StandsFor(summary.text, summary.through)
  /\ \A t \in Memory!Task :
       /\ build[t].step \in {"older", "merging"} => AreOlder(build[t].older)
       /\ build[t].step = "merging" =>
            blanked \/ StandsFor(build[t].merged, Cardinality(build[t].older))

LEMMA CompletedIs ==
  ASSUME completions \in Seq(Nat)
  PROVE  Memory!Completed = Prefix(completions, Len(completions))
BY DEF Memory!Completed, Prefix

\* A completion changes nothing of what had completed by an earlier one.
LEMMA CompletionsGrow ==
  ASSUME completions \in Seq(Nat), NEW t \in Nat,
         completions' \in {completions, Append(completions, t)}
  PROVE  /\ completions' \in Seq(Nat)
         /\ Memory!Completed \subseteq Memory!Completed'
         /\ \A text : \A k \in Nat : StandsFor(text, k) => StandsFor(text, k)'
         /\ \A older : AreOlder(older) => AreOlder(older)'
<1>1. CASE completions' = completions
  <2>1. \A n : Prefix(completions, n)' = Prefix(completions, n)
                /\ LateBy(completions, n)' = LateBy(completions, n)
    BY <1>1 DEF Prefix, LateBy
  <2> QED BY <1>1, <2>1 DEF StandsFor, AreOlder, Memory!Completed
<1>2. CASE completions' = Append(completions, t)
  <2>1. /\ completions' \in Seq(Nat) /\ Len(completions') = Len(completions) + 1
        /\ \A i \in 1..Len(completions) : completions'[i] = completions[i]
        /\ Len(completions) \in Nat
    BY <1>2
  <2>2. ASSUME NEW n \in 0..Len(completions)
        PROVE  /\ Prefix(completions', n) = Prefix(completions, n)
               /\ LateBy(completions', n) = LateBy(completions, n)
               /\ n \in 0..Len(completions')
    <3>1. \A i \in 1..n : completions'[i] = completions[i]
      BY <2>1
    <3>2. \A i \in 1..n : \A j \in 1..(i - 1) : completions'[j] = completions[j]
      BY <2>1
    <3>3. Prefix(completions', n) = Prefix(completions, n)
      BY <3>1 DEF Prefix
    <3>4. \A i \in 1..n : (\E j \in 1..(i - 1) : completions'[j] > completions'[i])
                         <=> (\E j \in 1..(i - 1) : completions[j] > completions[i])
      BY <3>1, <3>2
    <3>5. LateBy(completions', n) = LateBy(completions, n)
      BY <3>4 DEF LateBy
    <3>6. n \in 0..Len(completions')
      BY <2>1
    <3> QED BY <3>3, <3>5, <3>6
  <2>3. Memory!Completed \subseteq Memory!Completed'
    <3>1. \A i \in DOMAIN completions : i \in DOMAIN completions' /\ completions'[i] = completions[i]
      BY <2>1
    <3> QED BY <3>1 DEF Memory!Completed
  <2>4. ASSUME NEW text, NEW k \in Nat, StandsFor(text, k) PROVE StandsFor(text, k)'
    <3>1. PICK m \in 0..Len(completions) :
            /\ k <= m /\ m <= k + RecentRounds
            /\ Cardinality(FirstOf(k, Prefix(completions, m)) \ text)
                 <= Cardinality(LateBy(completions, m))
      BY <2>4 DEF StandsFor
    <3>2. m \in 0..Len(completions')
      BY <2>2
    <3>3. Cardinality(FirstOf(k, Prefix(completions', m)) \ text)
            <= Cardinality(LateBy(completions', m))
      BY <2>2, <3>1
    <3> QED BY <3>1, <3>2, <3>3 DEF StandsFor
  <2>5. ASSUME NEW older, AreOlder(older) PROVE AreOlder(older)'
    <3>1. PICK m \in 0..Len(completions) :
            /\ Cardinality(older) \in Nat /\ m = Cardinality(older) + RecentRounds
            /\ older = FirstOf(Cardinality(older), Prefix(completions, m))
      BY <2>5 DEF AreOlder
    <3> QED BY <2>2, <3>1 DEF AreOlder
  <2> QED BY <2>1, <2>3, <2>4, <2>5
<1> QED BY <1>1, <1>2

\* All but the recent ones of the rounds that have completed are older ones.
LEMMA OlderAreRead ==
  ASSUME Memory!MemoryAssumption, MemoryInv,
         Memory!Cardinality(Memory!GetRounds) > RawRounds,
         NEW older,
         older = Memory!First(Memory!Cardinality(Memory!GetRounds) - RecentRounds, Memory!GetRounds)
  PROVE  /\ AreOlder(older) /\ older \subseteq Memory!Completed /\ older \in SUBSET Nat
<1>1. completions \in Seq(Nat) /\ Once(completions) /\ Len(completions) \in Nat
  BY DEF MemoryInv
<1> DEFINE n == Len(completions)
           C == Prefix(completions, n)
<1>2. Memory!GetRounds = C
  BY <1>1, CompletedIs DEF Memory!GetRounds
<1>3. C \in SUBSET Nat /\ IsFiniteSet(C) /\ Cardinality(C) = n
  BY <1>1, PrefixSize
<1>4. RecentRounds \in Nat /\ n - RecentRounds \in 0..n
  BY <1>1, <1>2, <1>3, MemoryCounts DEF Memory!MemoryAssumption
<1>5. older = FirstOf(n - RecentRounds, C)
  BY <1>2, <1>3, MemoryCounts, FirstIs
<1>6. Cardinality(older) = n - RecentRounds
  BY <1>3, <1>4, <1>5, FirstSize
<1>7. older \subseteq C
  BY <1>5 DEF FirstOf
<1>8. n \in 0..n /\ n = (n - RecentRounds) + RecentRounds /\ n - RecentRounds \in Nat
  BY <1>1, <1>4
<1>9. AreOlder(older)
  BY <1>5, <1>6, <1>8 DEF AreOlder
<1> QED BY <1>2, <1>3, <1>7, <1>9 DEF Memory!GetRounds

\* What is merged with them holds all that the summary will stand for, or lacks
\* what the summary it was read from lacked.
LEMMA MergedStandsFor ==
  ASSUME Memory!MemoryAssumption, MemoryInv, NEW older, AreOlder(older),
         blanked \/ StandsFor(summary.text, summary.through)
  PROVE  blanked \/ StandsFor(summary.text \cup Memory!NewRounds(older), Cardinality(older))
<1> SUFFICES ASSUME ~blanked
             PROVE  StandsFor(summary.text \cup Memory!NewRounds(older), Cardinality(older))
  OBVIOUS
<1> DEFINE k == Cardinality(older)
           text == summary.text
           through == summary.through
           merged == text \cup Memory!NewRounds(older)
           c == completions
<1>1. c \in Seq(Nat) /\ Once(c) /\ Len(c) \in Nat /\ through \in Nat /\ RecentRounds \in Nat
  BY DEF MemoryInv, Memory!TypeOK, Memory!MemoryAssumption
<1>2. PICK m \in 0..Len(c) : /\ k \in Nat /\ m = k + RecentRounds
                             /\ older = FirstOf(k, Prefix(c, m))
  BY DEF AreOlder
<1>3. /\ Prefix(c, m) \in SUBSET Nat /\ IsFiniteSet(Prefix(c, m))
      /\ IsFiniteSet(LateBy(c, m)) /\ Cardinality(LateBy(c, m)) \in Nat
  BY <1>1, PrefixSize
<1>4. m \in Nat /\ k <= m
  BY <1>1, <1>2
<1>5. SUFFICES Cardinality(older \ merged) <= Cardinality(LateBy(c, m))
  <2>1. /\ m \in 0..Len(c) /\ k <= m /\ m <= k + RecentRounds
        /\ older = FirstOf(k, Prefix(c, m))
    BY <1>1, <1>2, <1>4
  <2> HIDE DEF merged, k
  <2>2. SUFFICES Cardinality(older \ merged) <= Cardinality(LateBy(c, m)) => StandsFor(merged, k)
    BY DEF merged, k
  <2> QED BY <2>1 DEF StandsFor
<1>6. CASE ~(k > through)
  <2>1. Memory!NewRounds(older) = older
    <3>1. ~(Memory!Cardinality(older) > summary.through)
      BY <1>6, MemoryCounts
    <3> QED BY <3>1 DEF Memory!NewRounds
  <2>2. older \ merged = {}
    BY <2>1
  <2> HIDE DEF merged
  <2>3. Cardinality(older \ merged) = 0
    BY <2>2, FS_EmptySet
  <2> QED BY <1>3, <2>3
<1>7. CASE k > through
  <2>1. Memory!NewRounds(older) = older \ Memory!First(through, older)
    BY <1>7, MemoryCounts DEF Memory!NewRounds
  <2>2. Memory!First(through, older) = FirstOf(through, Prefix(c, m))
    BY <1>1, <1>2, <1>3, <1>7, FirstIs, FirstOfFirst
  <2>3. older \ merged \subseteq FirstOf(through, Prefix(c, m)) \ text
    BY <2>1, <2>2
  <2>4. PICK b \in 0..Len(c) :
          /\ through <= b /\ b <= through + RecentRounds
          /\ Cardinality(FirstOf(through, Prefix(c, b)) \ text) <= Cardinality(LateBy(c, b))
    BY DEF StandsFor
  <2>5. b \in 0..m /\ through \in 0..b
    BY <1>1, <1>2, <1>7, <2>4
  <2>6. Cardinality(FirstOf(through, Prefix(c, m)) \ text) <= Cardinality(LateBy(c, m))
    BY <1>1, <2>4, <2>5, LackGrows
  <2>7. IsFiniteSet(FirstOf(through, Prefix(c, m)) \ text)
    <3>1. FirstOf(through, Prefix(c, m)) \ text \in SUBSET Prefix(c, m)
      BY DEF FirstOf
    <3> QED BY <1>3, <3>1, FS_Subset
  <2> HIDE DEF merged
  <2>8. /\ IsFiniteSet(older \ merged)
        /\ Cardinality(older \ merged) <= Cardinality(FirstOf(through, Prefix(c, m)) \ text)
    BY <2>3, <2>7, FS_Subset
  <2>9. /\ Cardinality(older \ merged) \in Nat
        /\ Cardinality(FirstOf(through, Prefix(c, m)) \ text) \in Nat
    BY <2>7, <2>8, FS_CardinalityType
  <2> QED BY <1>3, <2>6, <2>8, <2>9
<1> QED BY <1>6, <1>7

\* A task that goes on, beside the tasks and summaries as they are.
LEMMA MemoryMoves ==
  ASSUME Memory!MemoryAssumption, MemoryInv, NEW t \in Memory!Task, NEW b \in Builds,
         build' = [build EXCEPT ![t] = b], build[t].step # "ended",
         completions' = completions, created' \in created..Rounds, t <= created',
         b.older \subseteq Memory!Completed, b.merged \subseteq Memory!Completed,
         b.step \in {"older", "merging"} => AreOlder(b.older),
         b.step = "merging" => blanked \/ StandsFor(b.merged, Cardinality(b.older)),
         summary'.text \subseteq Memory!Completed, summary'.through \in 0..Rounds,
         blanked' \in BOOLEAN, blanked => blanked',
         blanked' \/ StandsFor(summary'.text, summary'.through)
  PROVE  MemoryInv'
<1>1. /\ build \in [Memory!Task -> Builds] /\ build' \in [Memory!Task -> Builds]
      /\ build'[t] = b /\ \A u \in Memory!Task \ {t} : build'[u] = build[u]
  BY DEF MemoryInv
<1>2. /\ created \in Nat /\ created' \in Nat /\ created <= created' /\ created' \in 0..Rounds
      /\ Rounds \in Nat
  BY DEF MemoryInv, Memory!TypeOK, Memory!MemoryAssumption
<1>3. Memory!Completed' = Memory!Completed /\ Memory!Completed \subseteq 1..created
      /\ completions \in Seq(Nat)
  BY DEF Memory!Completed, MemoryInv, Memory!TypeOK
<1>4. Memory!Completed' \subseteq 1..created'
  BY <1>2, <1>3
<1>5. \A u \in Memory!Task : build'[u].step \in Steps /\ build'[u].older \subseteq Memory!Completed
                             /\ build'[u].merged \subseteq Memory!Completed
  <2> TAKE u \in Memory!Task
  <2>1. CASE u = t
    BY <1>1, <2>1 DEF Builds
  <2>2. CASE u # t
    BY <1>1, <2>2 DEF MemoryInv, Memory!TypeOK, Builds
  <2> QED BY <2>1, <2>2
<1>6. Memory!TypeOK'
  BY <1>2, <1>3, <1>4, <1>5 DEF Memory!TypeOK, Steps
<1>7. \A u \in Memory!Task : u > created' => build'[u].step = "none"
  <2> SUFFICES ASSUME NEW u \in Memory!Task, u > created' PROVE build'[u].step = "none"
    OBVIOUS
  <2>1. u # t /\ u > created
    BY <1>2 DEF Memory!Task
  <2> QED BY <1>1, <2>1 DEF MemoryInv
<1>8. \A i \in 1..Len(completions) : build'[completions[i]].step = "ended"
  <2> TAKE i \in 1..Len(completions)
  <2>1. completions[i] \in 1..created
    BY <1>3 DEF Memory!Completed
  <2>2. completions[i] \in Memory!Task
    BY <1>2, <2>1 DEF Memory!Task
  <2>3. build[completions[i]].step = "ended"
    BY DEF MemoryInv
  <2> QED BY <1>1, <2>2, <2>3
<1>9. \A u \in Memory!Task :
        /\ build'[u].step \in {"older", "merging"} => AreOlder(build'[u].older)
        /\ build'[u].step = "merging" =>
             blanked \/ StandsFor(build'[u].merged, Cardinality(build'[u].older))
  <2> TAKE u \in Memory!Task
  <2>1. CASE u = t
    BY <1>1, <2>1
  <2>2. CASE u # t
    BY <1>1, <2>2 DEF MemoryInv
  <2> QED BY <2>1, <2>2
<1>10. /\ \A older : AreOlder(older)' = AreOlder(older)
       /\ \A text, k : StandsFor(text, k)' = StandsFor(text, k)
  BY DEF AreOlder, StandsFor
<1>11. blanked' \/ StandsFor(summary.text, summary.through)'
  BY <1>10
<1>12. \A u \in Memory!Task :
        /\ build'[u].step \in {"older", "merging"} => AreOlder(build[u].older)'
        /\ build'[u].step = "merging" =>
             blanked' \/ StandsFor(build[u].merged, Cardinality(build[u].older))'
  BY <1>9, <1>10
<1> QED BY <1>1, <1>3, <1>6, <1>7, <1>8, <1>11, <1>12 DEF MemoryInv

LEMMA MemoryStarts ==
  ASSUME Memory!MemoryAssumption, MemoryInv, Memory!Start
  PROVE  MemoryInv'
<1> DEFINE size == Memory!Cardinality(Memory!GetRounds)
           older == Memory!First(size - RecentRounds, Memory!GetRounds)
           b == IF size <= RawRounds THEN [Memory!NoBuild EXCEPT !.step = "running"]
                ELSE [Memory!NoBuild EXCEPT !.step = "older", !.older = older]
           t == created + 1
<1>1. /\ created < Rounds /\ created' = t /\ build' = [build EXCEPT ![t] = b]
      /\ UNCHANGED <<completions, summary, blanked>>
  BY DEF Memory!Start
<1>2. created \in Nat /\ Rounds \in Nat /\ t \in Memory!Task /\ t > created
      /\ t \in created..Rounds
  BY <1>1 DEF MemoryInv, Memory!TypeOK, Memory!MemoryAssumption, Memory!Task
<1>3. build[t].step = "none"
  BY <1>2 DEF MemoryInv
<1>4. /\ summary.text \subseteq Memory!Completed /\ summary.through \in 0..Rounds
      /\ blanked \in BOOLEAN /\ (blanked \/ StandsFor(summary.text, summary.through))
  BY DEF MemoryInv, Memory!TypeOK
<1>5. size \in Nat /\ RawRounds \in Nat
  <2>1. completions \in Seq(Nat) /\ Once(completions) /\ Len(completions) \in Nat
    BY DEF MemoryInv
  <2>2. size = Len(completions)
    BY <2>1, CompletedIs, PrefixSize, MemoryCounts DEF Memory!GetRounds
  <2> QED BY <2>1, <2>2 DEF Memory!MemoryAssumption
<1>6. ~(size <= RawRounds) =>
         AreOlder(older) /\ older \subseteq Memory!Completed /\ older \in SUBSET Nat
  BY <1>5, OlderAreRead
<1> HIDE DEF size, older
<1>7. /\ b \in Builds /\ b.older \subseteq Memory!Completed /\ b.merged \subseteq Memory!Completed
      /\ b.step \in {"older", "merging"} => AreOlder(b.older)
      /\ b.step # "merging"
  BY <1>6 DEF Memory!NoBuild, Builds, Steps
<1>8. /\ t <= created' /\ created' \in created..Rounds /\ build[t].step # "ended"
  BY <1>1, <1>2, <1>3
<1> HIDE DEF b, t
<1>9. /\ summary'.text \subseteq Memory!Completed /\ summary'.through \in 0..Rounds
      /\ blanked' \in BOOLEAN /\ (blanked => blanked')
      /\ (blanked' \/ StandsFor(summary'.text, summary'.through))
      /\ build' = [build EXCEPT ![t] = b] /\ completions' = completions
  BY <1>1, <1>4
<1> QED BY <1>2, <1>7, <1>8, <1>9, MemoryMoves

LEMMA MemoryReads ==
  ASSUME Memory!MemoryAssumption, MemoryInv, NEW t \in Memory!Task, Memory!ReadSummary(t)
  PROVE  MemoryInv'
<1> DEFINE older == build[t].older
           merged == summary.text \cup Memory!NewRounds(older)
           b == IF Memory!NewCount(older) < Batch /\ summary.text # {}
                THEN [Memory!NoBuild EXCEPT !.step = "running"]
                ELSE [step |-> "merging", older |-> older, merged |-> merged]
<1>1. /\ build[t].step = "older" /\ build' = [build EXCEPT ![t] = b]
      /\ UNCHANGED <<created, completions, summary, blanked>>
  BY DEF Memory!ReadSummary
<1>2. created \in Nat /\ created \in 0..Rounds /\ t <= created /\ created \in created..Rounds
  <2>1. created \in 0..Rounds /\ Rounds \in Nat
    BY DEF MemoryInv, Memory!TypeOK, Memory!MemoryAssumption
  <2>2. ~(t > created)
    BY <1>1 DEF MemoryInv
  <2> QED BY <2>1, <2>2 DEF Memory!Task
<1>3. /\ summary.text \subseteq Memory!Completed /\ summary.through \in 0..Rounds
      /\ blanked \in BOOLEAN /\ (blanked \/ StandsFor(summary.text, summary.through))
      /\ older \subseteq Memory!Completed
  BY DEF MemoryInv, Memory!TypeOK
<1>4. older \subseteq Nat /\ Memory!Completed \subseteq Nat
  BY DEF MemoryInv, Builds, Memory!Completed
<1>5. AreOlder(older)
  BY <1>1 DEF MemoryInv
<1>6. blanked \/ StandsFor(merged, Cardinality(older))
  BY <1>3, <1>5, MergedStandsFor
<1>7. merged \subseteq Memory!Completed /\ merged \in SUBSET Nat
  BY <1>3, <1>4 DEF Memory!NewRounds
<1> HIDE DEF older, merged
<1>8. /\ b \in Builds /\ b.older \subseteq Memory!Completed /\ b.merged \subseteq Memory!Completed
      /\ b.step \in {"older", "merging"} => AreOlder(b.older)
      /\ b.step = "merging" => blanked \/ StandsFor(b.merged, Cardinality(b.older))
  <2>1. CASE Memory!NewCount(older) < Batch /\ summary.text # {}
    <3>1. b = [Memory!NoBuild EXCEPT !.step = "running"]
      BY <2>1
    <3> HIDE DEF b
    <3> QED BY <3>1 DEF Memory!NoBuild, Builds, Steps
  <2>2. CASE ~(Memory!NewCount(older) < Batch /\ summary.text # {})
    <3>1. b = [step |-> "merging", older |-> older, merged |-> merged]
      BY <2>2
    <3> HIDE DEF b
    <3> QED BY <1>3, <1>4, <1>5, <1>6, <1>7, <3>1 DEF Builds, Steps
  <2> QED BY <2>1, <2>2
<1> HIDE DEF b
<1> QED BY <1>1, <1>2, <1>3, <1>8, MemoryMoves

LEMMA MemoryMerges ==
  ASSUME Memory!MemoryAssumption, MemoryInv, NEW t \in Memory!Task, Memory!Merge(t)
  PROVE  MemoryInv'
<1> DEFINE b == [Memory!NoBuild EXCEPT !.step = "running"]
           older == build[t].older
<1>1. /\ build[t].step = "merging" /\ build' = [build EXCEPT ![t] = b]
      /\ UNCHANGED <<created, completions>>
  BY DEF Memory!Merge
<1>2. created \in Nat /\ created \in 0..Rounds /\ t <= created /\ created \in created..Rounds
  <2>1. created \in 0..Rounds /\ Rounds \in Nat
    BY DEF MemoryInv, Memory!TypeOK, Memory!MemoryAssumption
  <2>2. ~(t > created)
    BY <1>1 DEF MemoryInv
  <2> QED BY <2>1, <2>2 DEF Memory!Task
<1>3. /\ b \in Builds /\ b.older \subseteq Memory!Completed /\ b.merged \subseteq Memory!Completed
      /\ b.step = "running"
  BY DEF Memory!NoBuild, Builds, Steps
<1>4. /\ summary.text \subseteq Memory!Completed /\ summary.through \in 0..Rounds
      /\ blanked \in BOOLEAN /\ (blanked \/ StandsFor(summary.text, summary.through))
      /\ older \subseteq Memory!Completed /\ build[t].merged \subseteq Memory!Completed
      /\ Memory!Completed \subseteq 1..created
  BY DEF MemoryInv, Memory!TypeOK
<1>5. AreOlder(older) /\ (blanked \/ StandsFor(build[t].merged, Cardinality(older)))
  BY <1>1 DEF MemoryInv
<1>6. Cardinality(older) \in 0..Rounds
  <2>1. IsFiniteSet(1..created) /\ Cardinality(1..created) = created
    BY <1>2, FS_Interval
  <2>2. Cardinality(older) <= created
    BY <1>4, <2>1, FS_Subset
  <2>3. Cardinality(older) \in Nat
    BY <1>5 DEF AreOlder
  <2>4. Rounds \in Nat
    BY DEF Memory!MemoryAssumption
  <2> HIDE DEF older
  <2> QED BY <1>2, <2>2, <2>3, <2>4
<1>7. /\ summary'.text \subseteq Memory!Completed /\ summary'.through \in 0..Rounds
      /\ blanked' \in BOOLEAN /\ (blanked => blanked')
      /\ (blanked' \/ StandsFor(summary'.text, summary'.through))
  <2>1. CASE UNCHANGED <<summary, blanked>>
    BY <1>4, <2>1
  <2>2. ASSUME NEW empty \in BOOLEAN,
               /\ summary' = [text |-> IF empty THEN {} ELSE build[t].merged,
                              through |-> Memory!Through(older)]
               /\ blanked' = (blanked \/ empty)
        PROVE  <1>7
    <3>1. Memory!Through(older) = Cardinality(older)
      BY MemoryCounts DEF Memory!Through
    <3>2. summary'.through = Cardinality(older)
          /\ summary'.text = IF empty THEN {} ELSE build[t].merged
      BY <2>2, <3>1
    <3>3. blanked' \in BOOLEAN /\ (blanked => blanked')
      BY <1>4, <2>2
    <3>4. CASE empty
      <4>1. blanked' /\ summary'.text = {}
        BY <2>2, <3>2, <3>4
      <4> QED BY <1>6, <3>2, <3>3, <4>1
    <3>5. CASE ~empty
      <4>1. blanked' = blanked /\ summary'.text = build[t].merged
        BY <1>4, <2>2, <3>2, <3>5
      <4> QED BY <1>4, <1>5, <1>6, <3>2, <3>3, <4>1
    <3> QED BY <3>4, <3>5
  <2> QED BY <2>1, <2>2 DEF Memory!Merge
<1> HIDE DEF b
<1> QED BY <1>1, <1>2, <1>3, <1>7, MemoryMoves

LEMMA MemoryCompletes ==
  ASSUME Memory!MemoryAssumption, MemoryInv, NEW t \in Memory!Task, Memory!Complete(t)
  PROVE  MemoryInv'
<1>1. /\ build[t].step = "running" /\ build' = [build EXCEPT ![t].step = "ended"]
      /\ completions' \in {completions, Append(completions, t)}
      /\ created' = created /\ summary' = summary /\ blanked' = blanked
  BY DEF Memory!Complete
<1>2. /\ created \in 0..Rounds /\ Rounds \in Nat /\ Memory!Completed \subseteq 1..created
      /\ summary.text \subseteq Memory!Completed /\ summary.through \in 0..Rounds
      /\ blanked \in BOOLEAN
  BY DEF MemoryInv, Memory!TypeOK, Memory!MemoryAssumption
<1>3. /\ completions \in Seq(Nat) /\ Once(completions)
      /\ \A i \in 1..Len(completions) : build[completions[i]].step = "ended"
      /\ build \in [Memory!Task -> Builds]
  BY DEF MemoryInv
<1>4. t \in 1..created /\ t \in Nat /\ \A i \in 1..Len(completions) : completions[i] # t
  <2>1. ~(t > created)
    BY <1>1 DEF MemoryInv
  <2>2. t \in 1..created /\ t \in Nat
    BY <1>2, <2>1 DEF Memory!Task
  <2> QED BY <1>1, <1>3, <2>2
<1>5. /\ completions' \in Seq(Nat) /\ Memory!Completed \subseteq Memory!Completed'
      /\ \A text : \A k \in Nat : StandsFor(text, k) => StandsFor(text, k)'
      /\ \A older : AreOlder(older) => AreOlder(older)'
  BY <1>1, <1>3, <1>4, CompletionsGrow
<1>6. /\ \A u \in Memory!Task : /\ build'[u].older = build[u].older
                                /\ build'[u].merged = build[u].merged
                                /\ build'[u].step = IF u = t THEN "ended" ELSE build[u].step
      /\ build' \in [Memory!Task -> Builds]
  BY <1>1, <1>3 DEF Builds, Steps
<1>7. /\ Once(completions')
      /\ \A i \in 1..Len(completions') : completions'[i] \in 1..created
                                         /\ build'[completions'[i]].step = "ended"
  <2>1. \A i \in 1..Len(completions) : completions[i] \in 1..created
    BY <1>2, <1>3 DEF Memory!Completed
  <2>2. \A u \in 1..created : u \in Memory!Task
    BY <1>2 DEF Memory!Task
  <2>3. CASE completions' = completions
    BY <1>3, <1>6, <2>1, <2>2, <2>3
  <2>4. CASE completions' = Append(completions, t)
    <3>1. /\ Len(completions') = Len(completions) + 1 /\ Len(completions) \in Nat
          /\ \A i \in 1..Len(completions) : completions'[i] = completions[i]
          /\ completions'[Len(completions) + 1] = t
      BY <1>3, <1>4, <2>4
    <3>2. \A i \in 1..Len(completions') : i \in 1..Len(completions) \/ i = Len(completions) + 1
      BY <3>1
    <3>3. Once(completions')
      <4> SUFFICES ASSUME NEW i \in 1..Len(completions'), NEW j \in 1..Len(completions'),
                          completions'[i] = completions'[j]
                   PROVE  i = j
        BY DEF Once
      <4> QED BY <1>3, <1>4, <3>1, <3>2 DEF Once
    <3>4. \A i \in 1..Len(completions') : completions'[i] \in 1..created
                                          /\ build'[completions'[i]].step = "ended"
      <4> TAKE i \in 1..Len(completions')
      <4>1. CASE i \in 1..Len(completions)
        BY <1>3, <1>6, <2>1, <2>2, <3>1, <4>1
      <4>2. CASE i = Len(completions) + 1
        BY <1>4, <1>6, <2>2, <3>1, <4>2
      <4> QED BY <3>2, <4>1, <4>2
    <3> QED BY <3>3, <3>4
  <2> QED BY <1>1, <2>3, <2>4
<1>8. Memory!Completed' \subseteq 1..created'
  <2>1. DOMAIN completions' = 1..Len(completions')
    BY <1>5
  <2> QED BY <1>1, <1>7, <2>1 DEF Memory!Completed
<1>9. Memory!TypeOK'
  <2>1. \A u \in Memory!Task : /\ build'[u].step \in Steps
                               /\ build'[u].older \subseteq Memory!Completed'
                               /\ build'[u].merged \subseteq Memory!Completed'
    <3>1. \A u \in Memory!Task : /\ build[u].older \subseteq Memory!Completed
                                 /\ build[u].merged \subseteq Memory!Completed
      BY DEF MemoryInv, Memory!TypeOK
    <3>2. \A u \in Memory!Task : build'[u].step \in Steps
      BY <1>6 DEF Builds
    <3> QED BY <1>5, <1>6, <3>1, <3>2
  <2> QED BY <1>1, <1>2, <1>5, <1>8, <2>1 DEF Memory!TypeOK, Steps
<1>10. \A u \in Memory!Task : u > created' => build'[u].step = "none"
  <2>1. \A u \in Memory!Task : u > created => u # t
    BY <1>2, <1>4
  <2> QED BY <1>1, <1>6, <2>1 DEF MemoryInv
<1>11. blanked' \/ StandsFor(summary.text, summary.through)'
  <2>1. summary.through \in Nat
    BY <1>2
  <2>2. blanked \/ StandsFor(summary.text, summary.through)
    BY DEF MemoryInv
  <2>3. StandsFor(summary.text, summary.through)
          => StandsFor(summary.text, summary.through)'
    BY <1>1, <1>5, <2>1
  <2> QED BY <1>1, <2>2, <2>3
<1>12. \A u \in Memory!Task :
         /\ build'[u].step \in {"older", "merging"} => AreOlder(build[u].older)'
         /\ build'[u].step = "merging" =>
              blanked' \/ StandsFor(build[u].merged, Cardinality(build[u].older))'
  <2> TAKE u \in Memory!Task
  <2>1. CASE u = t
    BY <1>6, <2>1
  <2>2. CASE u # t
    <3>1. build'[u].step = build[u].step /\ build'[u].older = build[u].older
          /\ build'[u].merged = build[u].merged
      BY <1>6, <2>2
    <3>2. /\ build[u].step \in {"older", "merging"} => AreOlder(build[u].older)
          /\ build[u].step = "merging" =>
               blanked \/ StandsFor(build[u].merged, Cardinality(build[u].older))
      BY DEF MemoryInv
    <3>3. AreOlder(build[u].older) => AreOlder(build[u].older)'
      BY <1>5, <3>1
    <3>4. AreOlder(build[u].older) => Cardinality(build[u].older) \in Nat
      BY DEF AreOlder
    <3>5. AreOlder(build[u].older) /\ StandsFor(build[u].merged, Cardinality(build[u].older))
            => StandsFor(build[u].merged, Cardinality(build[u].older))'
      BY <1>5, <3>1, <3>4
    <3> QED BY <1>1, <3>1, <3>2, <3>3, <3>5
  <2> QED BY <2>1, <2>2
<1> QED BY <1>5, <1>6, <1>7, <1>9, <1>10, <1>11, <1>12 DEF MemoryInv

LEMMA MemoryRests ==
  ASSUME MemoryInv, UNCHANGED memoryVars
  PROVE  MemoryInv'
<1>1. \A text, k : StandsFor(text, k)' = StandsFor(text, k)
  BY DEF memoryVars, StandsFor
<1>2. \A older : AreOlder(older)' = AreOlder(older)
  BY DEF memoryVars, AreOlder
<1> QED BY <1>1, <1>2 DEF MemoryInv, memoryVars, Memory!TypeOK, Memory!Completed

LEMMA MemoryStep == [Next]_partVars => (Memory!Next \/ UNCHANGED memoryVars)
BY DEF Next, partVars, OfResearch, OfReplay, OfOffice, OfLoop, OfQuotas, OfMemory,
       OfWorker, OfGate

LEMMA MemoryAlways == Spec => []MemoryInv
<1>0. Memory!MemoryAssumption
  BY PartsAssumption DEF PartsAssumption
<1>1. Init => MemoryInv
  <2> SUFFICES ASSUME Init PROVE MemoryInv
    OBVIOUS
  <2>1. /\ created = 0 /\ completions = <<>> /\ blanked = FALSE
        /\ build = [t \in Memory!Task |-> Memory!NoBuild]
        /\ summary = [text |-> {}, through |-> 0]
    BY DEF Init, Memory!Init
  <2>2. Rounds \in Nat /\ RecentRounds \in Nat
    BY <1>0 DEF Memory!MemoryAssumption
  <2>3. completions \in Seq(Nat) /\ Len(completions) = 0 /\ Memory!Completed = {}
    BY <2>1 DEF Memory!Completed
  <2>4. \A t \in Memory!Task : build[t].step = "none" /\ build[t].older = {}
                               /\ build[t].merged = {}
    BY <2>1 DEF Memory!NoBuild
  <2>5. build \in [Memory!Task -> Builds]
    BY <2>1 DEF Memory!NoBuild, Builds, Steps
  <2>6. Memory!TypeOK
    <3>1. created \in 0..Rounds /\ summary.through \in 0..Rounds
      BY <2>1, <2>2
    <3>2. blanked \in BOOLEAN /\ summary.text = {}
      BY <2>1
    <3> QED BY <2>3, <2>4, <3>1, <3>2 DEF Memory!TypeOK
  <2>7. StandsFor(summary.text, summary.through)
    <3>1. FirstOf(0, Prefix(completions, 0)) = {} /\ Prefix(completions, 0) = {}
          /\ LateBy(completions, 0) = {}
      BY DEF Prefix, FirstOf, LateBy
    <3>2. Cardinality({}) = 0
      BY FS_EmptySet
    <3>3. 0 \in 0..Len(completions) /\ 0 <= 0 + RecentRounds /\ 0 <= 0
      BY <2>2, <2>3
    <3>4. FirstOf(0, Prefix(completions, 0)) \ summary.text = {}
      BY <3>1
    <3>5. summary.through = 0
      BY <2>1
    <3> QED BY <3>1, <3>2, <3>3, <3>4, <3>5 DEF StandsFor
  <2>8. Once(completions)
    BY <2>3 DEF Once
  <2>9. \A i \in 1..Len(completions) : build[completions[i]].step = "ended"
    BY <2>3
  <2> QED BY <2>3, <2>4, <2>5, <2>6, <2>7, <2>8, <2>9 DEF MemoryInv
<1>2. MemoryInv /\ [Next]_partVars => MemoryInv'
  <2> SUFFICES ASSUME MemoryInv, Memory!Next \/ UNCHANGED memoryVars PROVE MemoryInv'
    BY MemoryStep
  <2>1. CASE Memory!Start
    BY <1>0, <2>1, MemoryStarts
  <2>2. ASSUME NEW t \in Memory!Task, Memory!ReadSummary(t) PROVE MemoryInv'
    BY <1>0, <2>2, MemoryReads
  <2>3. ASSUME NEW t \in Memory!Task, Memory!Merge(t) PROVE MemoryInv'
    BY <1>0, <2>3, MemoryMerges
  <2>4. ASSUME NEW t \in Memory!Task, Memory!Complete(t) PROVE MemoryInv'
    BY <1>0, <2>4, MemoryCompletes
  <2>5. CASE UNCHANGED memoryVars
    BY <2>5, MemoryRests
  <2> QED BY <2>1, <2>2, <2>3, <2>4, <2>5 DEF Memory!Next, Memory!Work
<1> QED BY <1>1, <1>2, PTL DEF Spec

\* Memory: whatever completes while a summary is read, merged and stored, and in
\* whatever order, what the watermark counts is in the summary, but for one round
\* for each that completed after one created later.
THEOREM WatermarkAlwaysHolds == Spec => []WatermarkHolds
<1>1. MemoryInv => WatermarkHolds
  <2> SUFFICES ASSUME MemoryInv, ~blanked
               PROVE  Memory!Cardinality(Memory!First(summary.through, Memory!Completed)
                                           \ summary.text)
                        <= Memory!Cardinality(Memory!Late)
    BY DEF WatermarkHolds, Memory!WatermarkHolds
  <2> DEFINE n == Len(completions)
             k == summary.through
             text == summary.text
  <2>1. completions \in Seq(Nat) /\ Once(completions) /\ n \in Nat /\ k \in Nat
    BY DEF MemoryInv, Memory!TypeOK
  <2>2. Memory!Completed = Prefix(completions, n)
    BY <2>1, CompletedIs
  <2>3. Memory!Late = LateBy(completions, n)
    BY <2>1 DEF Memory!Late, LateBy
  <2>4. Memory!First(k, Memory!Completed) = FirstOf(k, Prefix(completions, n))
    BY <2>2, FirstIs
  <2>5. PICK m \in 0..n :
          /\ k <= m /\ m <= k + RecentRounds
          /\ Cardinality(FirstOf(k, Prefix(completions, m)) \ text)
               <= Cardinality(LateBy(completions, m))
    BY DEF MemoryInv, StandsFor
  <2>6. n \in 0..n /\ k \in 0..m
    BY <2>1, <2>5
  <2>7. Cardinality(FirstOf(k, Prefix(completions, n)) \ text) <= Cardinality(LateBy(completions, n))
    BY <2>1, <2>5, <2>6, LackGrows
  <2> QED BY <2>3, <2>4, <2>7, MemoryCounts
<1> QED BY <1>1, MemoryAlways, PTL

-----------------------------------------------------------------------------
(************************ Clarification replay *************************)
\* The log.  A reply may overtake the question it answers, but the answers come in
\* the order of their questions' numbers, and every earlier one before anything
\* that belongs to a later question.
LogItems == [kind : {"question", "answer"}, text : Replay!Questions \cup {""},
             id : Nat, answer : Replay!Replies \cup {""}]
Asks(l, i) == l[i].kind = "question"
Before(l, n, j) == \E i \in 1..Len(l) : i < j /\ ~Asks(l, i) /\ l[i].id = n
HasAnswer(l, n) == \E i \in 1..Len(l) : ~Asks(l, i) /\ l[i].id = n
HasQuestion(l, n) == \E i \in 1..Len(l) : Asks(l, i) /\ l[i].id = n
GoodItem(e, last) ==
  /\ e.id \in 1..last.id
  /\ e.kind = "question" =>
       /\ e.text \in Replay!Questions /\ e.answer = ""
       /\ e.id = last.id => e.text = last.text
  /\ e.kind # "question" => e.text = "" /\ e.answer \in Replay!Replies
InOrder(l) ==
  \A i \in 1..Len(l) : \A n \in 1..(l[i].id - 1) : Before(l, n, i)
OnceEach(l) ==
  \A i, j \in 1..Len(l) : (Asks(l, i) <=> Asks(l, j)) /\ l[i].id = l[j].id => i = j
GoodLog(l, last) ==
  /\ l \in Seq(LogItems)
  /\ \A i \in 1..Len(l) : GoodItem(l[i], last)
  /\ InOrder(l) /\ OnceEach(l)

\* The log goes on with a question or an answer that it does not have yet, after
\* the answers to all earlier questions.
LEMMA LogGrows ==
  ASSUME NEW l, NEW last, GoodLog(l, last), NEW e \in LogItems, GoodItem(e, last),
         \A n \in 1..(e.id - 1) : HasAnswer(l, n),
         e.kind = "question" => ~HasQuestion(l, e.id),
         e.kind # "question" => ~HasAnswer(l, e.id)
  PROVE  /\ GoodLog(Append(l, e), last)
         /\ \A n : HasAnswer(Append(l, e), n) <=> HasAnswer(l, n) \/ (e.kind # "question" /\ n = e.id)
         /\ \A n : HasQuestion(Append(l, e), n) <=> HasQuestion(l, n) \/ (e.kind = "question" /\ n = e.id)
<1> DEFINE m == Append(l, e)
           k == Len(l) + 1
<1>1. l \in Seq(LogItems) /\ Len(l) \in Nat
  BY DEF GoodLog
<1>2. /\ m \in Seq(LogItems) /\ Len(m) = k /\ k \in Nat
      /\ m[k] = e /\ \A i \in 1..Len(l) : m[i] = l[i]
  BY <1>1
<1> HIDE DEF m
<1>3. /\ 1..Len(m) = (1..Len(l)) \cup {k} /\ k \notin 1..Len(l)
      /\ \A i \in 1..Len(l) : i < k
  BY <1>1, <1>2
<1>4. /\ \A i \in 1..Len(l) : m[i] = l[i] /\ (Asks(m, i) <=> Asks(l, i))
      /\ m[k] = e /\ (Asks(m, k) <=> e.kind = "question")
  BY <1>2 DEF Asks
<1> HIDE DEF k
<1>5. \A i \in 1..Len(m) : GoodItem(m[i], last)
  BY <1>3, <1>4 DEF GoodLog
<1>6. ASSUME NEW n
      PROVE  HasAnswer(m, n) <=> HasAnswer(l, n) \/ (e.kind # "question" /\ n = e.id)
  <2>1. HasAnswer(m, n) <=> \/ \E i \in 1..Len(l) : ~Asks(m, i) /\ m[i].id = n
                            \/ ~Asks(m, k) /\ m[k].id = n
    BY <1>3 DEF HasAnswer
  <2>2. HasAnswer(l, n) <=> \E i \in 1..Len(l) : ~Asks(m, i) /\ m[i].id = n
    BY <1>4 DEF HasAnswer
  <2> QED BY <1>4, <2>1, <2>2
<1>7. ASSUME NEW n
      PROVE  HasQuestion(m, n) <=> HasQuestion(l, n) \/ (e.kind = "question" /\ n = e.id)
  <2>1. HasQuestion(m, n) <=> \/ \E i \in 1..Len(l) : Asks(m, i) /\ m[i].id = n
                              \/ Asks(m, k) /\ m[k].id = n
    BY <1>3 DEF HasQuestion
  <2>2. HasQuestion(l, n) <=> \E i \in 1..Len(l) : Asks(m, i) /\ m[i].id = n
    BY <1>4 DEF HasQuestion
  <2> QED BY <1>4, <2>1, <2>2
<1>8. InOrder(m)
  <2>1. \A n, i : i \in 1..Len(l) /\ Before(l, n, i) => Before(m, n, i)
    BY <1>3, <1>4 DEF Before
  <2>2. \A n : HasAnswer(l, n) => Before(m, n, k)
    BY <1>3, <1>4 DEF Before, HasAnswer
  <2>3. \A i \in 1..Len(l) : \A n \in 1..(l[i].id - 1) : Before(m, n, i)
    BY <2>1 DEF GoodLog, InOrder
  <2> QED BY <1>3, <1>4, <2>2, <2>3 DEF InOrder
<1>9. OnceEach(m)
  <2>1. OnceEach(l)
    BY DEF GoodLog
  <2>2. \A i \in 1..Len(l) : ~((Asks(m, i) <=> Asks(m, k)) /\ m[i].id = m[k].id)
    BY <1>4 DEF HasAnswer, HasQuestion
  <2> QED BY <1>3, <1>4, <2>1, <2>2 DEF OnceEach
<1>10. GoodLog(m, last)
  BY <1>2, <1>5, <1>8, <1>9 DEF GoodLog
<1> QED BY <1>6, <1>7, <1>10 DEF m

\* A new question has a number of its own.
LEMMA LogRests ==
  ASSUME NEW l, NEW last, GoodLog(l, last), last.id \in Nat,
         NEW next, next.id = last.id + 1
  PROVE  GoodLog(l, next)
<1>1. ASSUME NEW i \in 1..Len(l) PROVE GoodItem(l[i], next)
  <2>1. GoodItem(l[i], last)
    BY DEF GoodLog
  <2>2. l[i].id \in 1..last.id
    BY <2>1 DEF GoodItem
  <2>3. l[i].id \in 1..next.id /\ l[i].id # next.id
    BY <2>2
  <2> QED BY <2>1, <2>3 DEF GoodItem
<1> QED BY <1>1 DEF GoodLog

-----------------------------------------------------------------------------
ReplayStates == {"plan", "A", "draft", "B", "C", "report", "done", "waiting", "resuming"}
Drafts == [plan : Nat, n : Nat]

\* The questions: one at a time waits for its answer, and it is the latest.
Waiting == at = "waiting"
QuestionInv ==
  /\ question \in [text : Replay!Questions \cup {""}, id : Nat]
  /\ GoodLog(log, question)
  /\ \A n \in 1..(question.id - 1) : HasAnswer(log, n)
  /\ Waiting => question.id >= 1 /\ ~HasAnswer(log, question.id)
  /\ ~Waiting => question.id = 0 \/ HasAnswer(log, question.id)
  /\ \A q \in unlogged :
       /\ q \in [text : Replay!Questions, id : Nat] /\ q.id \in 1..question.id
       /\ ~HasQuestion(log, q.id)
       /\ \A p \in unlogged : p.id = q.id => p = q
       /\ q.id = question.id => q.text = question.text
  /\ \A n \in 1..question.id : HasQuestion(log, n) \/ \E q \in unlogged : q.id = n
WaitsInv ==
  /\ at = "resuming" => question.id >= 1
  /\ Waiting => question.text \in Replay!Questions

LEMMA RunGoesOn ==
  ASSUME QuestionInv, UNCHANGED <<question, unlogged, log>>, Waiting' <=> Waiting
  PROVE  QuestionInv'
BY DEF QuestionInv

LEMMA RunIsInterrupted ==
  ASSUME QuestionInv, NEW q \in Replay!Questions, Replay!Interrupts(q), ~Waiting
  PROVE  QuestionInv' /\ question'.id = question.id + 1 /\ question'.text = q
<1>1. /\ question' = [text |-> q, id |-> question.id + 1] /\ log' = log
      /\ unlogged' = unlogged \cup {question'} /\ Waiting'
  BY DEF Replay!Interrupts, Waiting
<1>2. question.id \in Nat /\ GoodLog(log, question)
  BY DEF QuestionInv
<1>3. /\ question'.id = question.id + 1 /\ question'.text = q
      /\ question' \in [text : Replay!Questions \cup {""}, id : Nat]
      /\ question' \in [text : Replay!Questions, id : Nat]
  <2>1. question'.id = question.id + 1 /\ question'.text = q
    BY <1>1
  <2>2. question.id + 1 \in Nat
    BY <1>2
  <2> QED BY <1>1, <2>1, <2>2
<1>4. GoodLog(log, question')
  BY <1>2, <1>3, LogRests
<1>5. /\ \A n : HasAnswer(log, n) => n \in 1..question.id
      /\ \A n : HasQuestion(log, n) => n \in 1..question.id
  BY <1>2 DEF HasAnswer, HasQuestion, GoodLog, GoodItem
<1>6. \A n \in 1..question.id : HasAnswer(log, n)
  <2>1. \A n \in 1..question.id : n \in 1..(question.id - 1) \/ n = question.id
    BY <1>2
  <2>2. question.id \in 1..question.id => HasAnswer(log, question.id)
    <3>1. question.id = 0 \/ HasAnswer(log, question.id)
      BY DEF QuestionInv
    <3> QED BY <1>2, <3>1
  <2> QED BY <2>1, <2>2 DEF QuestionInv
<1>7. /\ \A n \in 1..(question'.id - 1) : HasAnswer(log, n)
      /\ question'.id >= 1 /\ question'.id \notin 1..question.id
      /\ \A n \in 1..question'.id : n \in 1..question.id \/ n = question'.id
      /\ \A n \in 1..question.id : n \in 1..question'.id /\ n # question'.id
      /\ question'.id \in 1..question'.id
  <2>1. question'.id = question.id + 1
    BY <1>3
  <2>2. \A n \in 1..(question'.id - 1) : n \in 1..question.id
    BY <1>2, <2>1
  <2> QED BY <1>2, <1>6, <2>1, <2>2
<1>8. \A p \in unlogged' : p \in unlogged \/ p = question'
  BY <1>1
<1>9. \A p \in unlogged :
        /\ p \in [text : Replay!Questions, id : Nat] /\ p.id \in 1..question.id
        /\ ~HasQuestion(log, p.id)
        /\ \A r \in unlogged : r.id = p.id => r = p
  BY DEF QuestionInv
<1>10. ~HasAnswer(log, question'.id) /\ ~HasQuestion(log, question'.id)
  BY <1>5, <1>7
<1>11. \A p \in unlogged' :
        /\ p \in [text : Replay!Questions, id : Nat] /\ p.id \in 1..question'.id
        /\ ~HasQuestion(log, p.id)
        /\ \A r \in unlogged' : r.id = p.id => r = p
        /\ p.id = question'.id => p.text = question'.text
  BY <1>3, <1>7, <1>8, <1>9, <1>10
<1>12. \A n \in 1..question'.id : HasQuestion(log, n) \/ \E p \in unlogged' : p.id = n
  BY <1>1, <1>7 DEF QuestionInv
<1> QED BY <1>1, <1>3, <1>4, <1>7, <1>10, <1>11, <1>12 DEF QuestionInv

LEMMA QuestionIsLogged ==
  ASSUME QuestionInv, Replay!LogQuestion
  PROVE  QuestionInv'
<1>1. PICK q \in unlogged :
        /\ log' = Append(log, [kind |-> "question", text |-> q.text, id |-> q.id, answer |-> ""])
        /\ unlogged' = unlogged \ {q}
  BY DEF Replay!LogQuestion
<1> DEFINE e == [kind |-> "question", text |-> q.text, id |-> q.id, answer |-> ""]
<1>2. question' = question /\ (Waiting' <=> Waiting)
  BY DEF Replay!LogQuestion, Waiting
<1>3. /\ q.text \in Replay!Questions /\ q.id \in Nat /\ q.id \in 1..question.id
      /\ ~HasQuestion(log, q.id) /\ (q.id = question.id => q.text = question.text)
      /\ \A p \in unlogged : p.id = q.id => p = q
      /\ GoodLog(log, question) /\ question.id \in Nat
  BY DEF QuestionInv
<1>4. /\ e \in LogItems /\ e.kind = "question" /\ e.id = q.id
      /\ e.text = q.text /\ e.answer = ""
  BY <1>3 DEF LogItems
<1>5. \A n \in 1..(q.id - 1) : HasAnswer(log, n)
  <2>1. \A n \in 1..(q.id - 1) : n \in 1..(question.id - 1)
    BY <1>3
  <2> QED BY <2>1 DEF QuestionInv
<1> HIDE DEF e
<1>6. GoodItem(e, question)
  BY <1>3, <1>4 DEF GoodItem
<1>7. /\ GoodLog(log', question)
      /\ \A n : HasAnswer(log', n) <=> HasAnswer(log, n)
      /\ \A n : HasQuestion(log', n) <=> HasQuestion(log, n) \/ n = q.id
  <2>1. log' = Append(log, e)
    BY <1>1 DEF e
  <2> QED BY <1>3, <1>4, <1>5, <1>6, <2>1, LogGrows
<1>8. \A p \in unlogged' : p \in unlogged /\ p.id # q.id
  BY <1>1, <1>3
<1>9. \A p \in unlogged : p \in unlogged' \/ p = q
  BY <1>1
<1> QED BY <1>2, <1>7, <1>8, <1>9 DEF QuestionInv

LEMMA ReplyIsLogged ==
  ASSUME QuestionInv, WaitsInv, Replay!Reply
  PROVE  QuestionInv' /\ question.id >= 1
<1>1. PICK a \in Replay!AnswersTo(question.text) :
        log' = Append(log, [kind |-> "answer", text |-> "", id |-> question.id, answer |-> a])
  BY DEF Replay!Reply
<1> DEFINE e == [kind |-> "answer", text |-> "", id |-> question.id, answer |-> a]
<1>2. question' = question /\ unlogged' = unlogged /\ Waiting /\ ~Waiting'
  BY DEF Replay!Reply, Waiting
<1>3. /\ question.id \in Nat /\ question.id >= 1 /\ question.id \in 1..question.id
      /\ ~HasAnswer(log, question.id) /\ GoodLog(log, question)
  <2>1. /\ question.id \in Nat /\ question.id >= 1
        /\ ~HasAnswer(log, question.id) /\ GoodLog(log, question)
    BY <1>2 DEF QuestionInv
  <2> QED BY <2>1
<1>4. a \in Replay!Replies
  BY DEF Replay!AnswersTo, Replay!Replies
<1>5. /\ e \in LogItems /\ e.kind = "answer" /\ e.id = question.id
      /\ e.text = "" /\ e.answer = a
  BY <1>3, <1>4 DEF LogItems
<1> HIDE DEF e
<1>6. GoodItem(e, question) /\ e.kind # "question"
  BY <1>3, <1>4, <1>5 DEF GoodItem
<1>7. /\ GoodLog(log', question)
      /\ \A n : HasAnswer(log', n) <=> HasAnswer(log, n) \/ n = question.id
      /\ \A n : HasQuestion(log', n) <=> HasQuestion(log, n)
  <2>1. log' = Append(log, e)
    BY <1>1 DEF e
  <2>2. \A n \in 1..(e.id - 1) : HasAnswer(log, n)
    BY <1>5 DEF QuestionInv
  <2> QED BY <1>3, <1>5, <1>6, <2>1, <2>2, LogGrows
<1> QED BY <1>2, <1>3, <1>7 DEF QuestionInv

-----------------------------------------------------------------------------
LEMMA LogIsSeq ==
  ASSUME QuestionInv
  PROVE  /\ log \in Seq(LogItems) /\ DOMAIN log = 1..Len(log) /\ Len(log) \in Nat
         /\ InOrder(log) /\ OnceEach(log)
         /\ \A i \in 1..Len(log) : GoodItem(log[i], question) /\ log[i] \in LogItems
<1>1. /\ log \in Seq(LogItems) /\ InOrder(log) /\ OnceEach(log)
      /\ \A i \in 1..Len(log) : GoodItem(log[i], question)
  BY DEF QuestionInv, GoodLog
<1>2. DOMAIN log = 1..Len(log) /\ Len(log) \in Nat
  BY <1>1
<1>3. \A i \in 1..Len(log) : log[i] \in LogItems
  BY <1>1
<1> QED BY <1>1, <1>2, <1>3

\* The entries of the history that a question opened.
LEMMA EntryIs ==
  ASSUME QuestionInv, NEW i \in 1..Len(log), Asks(log, i)
  PROVE  /\ i \in DOMAIN Replay!History /\ Replay!History[i] = Replay!Entry(i)
         /\ Replay!Entry(i).text = log[i].text /\ Replay!Entry(i).asked = log[i].id
         /\ Replay!Entry(i).answer # "" =>
              i + 1 \in 1..Len(log) /\ ~Asks(log, i + 1) /\ Replay!Entry(i).for = log[i + 1].id
         /\ i + 1 \in 1..Len(log) /\ ~Asks(log, i + 1) => Replay!Entry(i).answer = log[i + 1].answer
<1>1. log \in Seq(LogItems) /\ DOMAIN log = 1..Len(log)
  BY LogIsSeq
<1>2. log[i].kind = "question" /\ ~Replay!Fills(i)
  BY DEF Asks, Replay!Fills
<1>3. i \in Replay!Opens
  BY <1>1, <1>2 DEF Replay!Opens
<1>4. /\ Replay!Entry(i).text = log[i].text /\ Replay!Entry(i).asked = log[i].id
      /\ Replay!Entry(i).answer = Replay!AnswerAt(i + 1).answer
      /\ Replay!Entry(i).for = Replay!AnswerAt(i + 1).id
  BY <1>2 DEF Replay!Entry, Replay!Given
<1>5. CASE i + 1 \in DOMAIN log /\ log[i + 1].kind = "answer"
  <2>1. Replay!AnswerAt(i + 1) = log[i + 1] /\ ~Asks(log, i + 1)
    BY <1>5 DEF Replay!AnswerAt, Asks
  <2> QED BY <1>1, <1>3, <1>4, <1>5, <2>1 DEF Replay!History
<1>6. CASE ~(i + 1 \in DOMAIN log /\ log[i + 1].kind = "answer")
  <2>1. Replay!AnswerAt(i + 1).answer = ""
    BY <1>6 DEF Replay!AnswerAt, Replay!NoAnswer
  <2>2. i + 1 \in 1..Len(log) => Asks(log, i + 1)
    <3>1. i + 1 \in 1..Len(log) => log[i + 1] \in LogItems
      BY <1>1
    <3> QED BY <1>1, <1>6, <3>1 DEF Asks, LogItems
  <2> QED BY <1>3, <1>4, <2>1, <2>2 DEF Replay!History
<1> QED BY <1>5, <1>6

LEMMA AnswersFitTheLog == QuestionInv => Replay!AnswersFit
<1> SUFFICES ASSUME QuestionInv, NEW i \in DOMAIN Replay!History,
                    Replay!Paired(Replay!History[i]),
                    Replay!History[i].asked # Replay!History[i].for
             PROVE  Replay!Overtaken(Replay!History[i].asked)
  BY DEF Replay!AnswersFit
<1>1. /\ log \in Seq(LogItems) /\ DOMAIN log = 1..Len(log) /\ Len(log) \in Nat
      /\ OnceEach(log) /\ InOrder(log)
      /\ \A j \in 1..Len(log) : GoodItem(log[j], question)
  BY LogIsSeq
<1>2. i \in 1..Len(log) /\ Replay!History[i] = Replay!Entry(i)
  BY <1>1 DEF Replay!History, Replay!Opens
<1>3. Asks(log, i)
  <2>1. Replay!Entry(i).text = log[i].text
    BY DEF Replay!Entry
  <2>2. log[i].text # "" /\ GoodItem(log[i], question)
    BY <1>1, <1>2, <2>1 DEF Replay!Paired
  <2> QED BY <2>2 DEF GoodItem, Asks
<1>4. /\ i + 1 \in 1..Len(log) /\ ~Asks(log, i + 1)
      /\ Replay!History[i].asked = log[i].id /\ Replay!History[i].for = log[i + 1].id
  BY <1>2, <1>3, EntryIs DEF Replay!Paired
<1> DEFINE n == log[i].id
           m == log[i + 1].id
<1>5. n \in Nat /\ m \in Nat /\ n >= 1 /\ m >= 1
  <2>1. n \in 1..question.id /\ m \in 1..question.id /\ question.id \in Nat
    BY <1>1, <1>2, <1>4 DEF GoodItem, QuestionInv
  <2> HIDE DEF n, m
  <2> QED BY <2>1
<1>6. ~(m < n)
  <2> SUFFICES ASSUME m < n PROVE FALSE
    OBVIOUS
  <2>1. m \in 1..(n - 1)
    <3> HIDE DEF n, m
    <3> QED BY <1>5
  <2>2. PICK j \in 1..Len(log) : j < i /\ ~Asks(log, j) /\ log[j].id = m
    BY <1>1, <1>2, <2>1 DEF InOrder, Before
  <2>3. j = i + 1
    BY <1>1, <1>4, <2>2 DEF OnceEach
  <2> QED BY <1>2, <2>2, <2>3
<1>7. n \in 1..(m - 1)
  <2>1. n # m
    BY <1>4
  <2> HIDE DEF n, m
  <2> QED BY <1>5, <1>6, <2>1
<1>8. PICK j \in 1..Len(log) : j < i + 1 /\ ~Asks(log, j) /\ log[j].id = n
  BY <1>1, <1>4, <1>7 DEF InOrder, Before
<1>9. j < i
  <2>1. j # i
    BY <1>3, <1>8
  <2> QED BY <1>2, <1>8, <2>1
<1>10. log[j].kind = "answer" /\ log[i].kind = "question"
  <2>1. log[j] \in LogItems
    BY <1>1
  <2> QED BY <1>3, <1>8, <2>1 DEF Asks, LogItems
<1> QED BY <1>1, <1>2, <1>4, <1>8, <1>9, <1>10 DEF Replay!Overtaken

\* With every question logged before its answer, and none unanswered, the last two
\* items of the log are the last question and its answer.
LEMMA LastIsAnswered ==
  ASSUME QuestionInv, ~Waiting, question.id >= 1, unlogged = {},
         \A id \in 1..question.id : ~Replay!Overtaken(id)
  PROVE  \E i \in 1..Len(log) :
           /\ i + 1 = Len(log) /\ Asks(log, i) /\ ~Asks(log, i + 1)
           /\ log[i].id = question.id /\ log[i + 1].id = question.id
<1> DEFINE n == question.id
<1>1. /\ log \in Seq(LogItems) /\ DOMAIN log = 1..Len(log) /\ Len(log) \in Nat
      /\ OnceEach(log) /\ InOrder(log) /\ n \in Nat
      /\ \A j \in 1..Len(log) : log[j].id \in 1..n
  <2>1. n \in Nat
    BY DEF QuestionInv
  <2> QED BY <2>1, LogIsSeq DEF GoodItem
<1>2. n \in 1..n /\ n # 0
  <2>1. n >= 1 /\ n \in Nat
    BY <1>1
  <2> HIDE DEF n
  <2> QED BY <2>1
<1>3. \A j \in 1..Len(log) : log[j].kind = IF Asks(log, j) THEN "question" ELSE "answer"
  <2> SUFFICES ASSUME NEW j \in 1..Len(log)
               PROVE  log[j].kind = IF Asks(log, j) THEN "question" ELSE "answer"
    OBVIOUS
  <2>1. log[j] \in LogItems
    BY <1>1
  <2> QED BY <2>1 DEF Asks, LogItems
<1>4. \A a \in 1..n : \A j, k \in 1..Len(log) :
        ~Asks(log, j) /\ Asks(log, k) /\ log[j].id = a /\ log[k].id = a => ~(j < k)
  BY <1>1, <1>3 DEF Replay!Overtaken
<1>5. PICK i \in 1..Len(log) : Asks(log, i) /\ log[i].id = n
  BY <1>2 DEF QuestionInv, HasQuestion
<1>6. PICK j \in 1..Len(log) : ~Asks(log, j) /\ log[j].id = n
  BY <1>2 DEF QuestionInv, HasAnswer
<1>7. i < j
  <2>1. i # j /\ ~(j < i)
    BY <1>2, <1>4, <1>5, <1>6
  <2> QED BY <1>1, <1>5, <1>6, <2>1
<1>8. ASSUME NEW k \in 1..Len(log), k > i PROVE k = j
  <2>1. CASE log[k].id = n
    <3>1. k # i
      BY <1>1, <1>8
    <3>2. ~Asks(log, k)
      BY <1>1, <1>5, <2>1, <3>1 DEF OnceEach
    <3> QED BY <1>1, <1>6, <2>1, <3>2 DEF OnceEach
  <2>2. CASE log[k].id # n
    <3>1. log[k].id \in 1..n /\ log[k].id \in 1..(log[i].id - 1)
      <4>1. log[k].id \in 1..n /\ log[i].id = n /\ n \in Nat
        BY <1>1, <1>5
      <4> HIDE DEF n
      <4> QED BY <2>2, <4>1
    <3>2. PICK b \in 1..Len(log) : b < i /\ ~Asks(log, b) /\ log[b].id = log[k].id
      BY <1>1, <3>1 DEF InOrder, Before
    <3>3. b < k
      BY <1>8, <3>2
    <3>4. b # k
      BY <3>3
    <3>5. Asks(log, k)
      BY <1>1, <3>2, <3>4 DEF OnceEach
    <3> QED BY <1>4, <3>1, <3>2, <3>3, <3>5
  <2> QED BY <2>1, <2>2
<1>9. i + 1 = j /\ Len(log) = j
  <2>1. i + 1 \in 1..Len(log) /\ i + 1 > i
    BY <1>1, <1>7
  <2>2. Len(log) \in 1..Len(log) /\ Len(log) > i
    BY <1>1, <1>7
  <2> QED BY <1>8, <2>1, <2>2
<1> QED BY <1>5, <1>6, <1>9

\* Then the history says so.
LEMMA LatestIs ==
  ASSUME QuestionInv, ~Waiting, question.id >= 1, unlogged = {},
         \A id \in 1..question.id : ~Replay!Overtaken(id)
  PROVE  /\ Replay!Latest.text = question.text /\ Replay!Latest.asked = question.id
         /\ Replay!LastAnswer.id = question.id
         /\ Replay!Latest.answer = Replay!LastAnswer.answer
         /\ Replay!LastAnswer.answer \in Replay!Replies
<1>1. PICK i \in 1..Len(log) :
        /\ i + 1 = Len(log) /\ Asks(log, i) /\ ~Asks(log, i + 1)
        /\ log[i].id = question.id /\ log[i + 1].id = question.id
  BY LastIsAnswered
<1>2. /\ log \in Seq(LogItems) /\ DOMAIN log = 1..Len(log) /\ Len(log) \in Nat
      /\ \A j \in 1..Len(log) : GoodItem(log[j], question)
  BY LogIsSeq
<1>3. i + 1 \in 1..Len(log)
  BY <1>1, <1>2
<1>4. /\ log[i].text = question.text /\ log[i].text # "" /\ log[i + 1].answer \in Replay!Replies
      /\ log[i + 1].kind = "answer" /\ log[i].kind = "question"
  <2>1. /\ GoodItem(log[i], question) /\ GoodItem(log[i + 1], question)
        /\ log[i + 1] \in LogItems
    BY <1>2, <1>3
  <2>2. "" \notin Replay!Questions
    BY PartsAssumption DEF PartsAssumption, Replay!ReplayAssumption, Replay!Questions
  <2> QED BY <1>1, <2>1, <2>2 DEF GoodItem, Asks, LogItems
<1>5. /\ i \in DOMAIN Replay!History /\ Replay!History[i] = Replay!Entry(i)
      /\ Replay!Entry(i).text = log[i].text /\ Replay!Entry(i).asked = log[i].id
      /\ Replay!Entry(i).answer = log[i + 1].answer
  BY <1>1, <1>3, EntryIs
<1> DEFINE entries == {j \in DOMAIN Replay!History : Replay!Asked(Replay!History[j])}
<1>6. \A j \in DOMAIN Replay!History : j \in 1..Len(log) /\ j # i + 1
  <2>1. Replay!Fills(i + 1)
    <3>1. i + 1 > 1 /\ (i + 1) - 1 = i
      BY <1>2
    <3> QED BY <1>4, <3>1 DEF Replay!Fills
  <2> QED BY <1>2, <2>1 DEF Replay!History, Replay!Opens
<1>7. i \in entries /\ \A j \in entries : j \in 1..Len(log) /\ j <= i
  <2>1. i \in entries
    BY <1>4, <1>5 DEF Replay!Asked
  <2>2. \A j \in entries : j \in 1..Len(log) /\ j # i + 1
    BY <1>6
  <2> HIDE DEF entries
  <2> QED BY <1>1, <1>2, <2>1, <2>2
<1>8. Replay!Latest = Replay!Entry(i)
  <2>1. Replay!Latest = Replay!History[CHOOSE k \in entries : \A j \in entries : j <= k]
    BY <1>7 DEF Replay!Latest
  <2> HIDE DEF entries
  <2>2. \A k \in entries : (\A j \in entries : j <= k) <=> k = i
    BY <1>2, <1>7
  <2>3. (CHOOSE k \in entries : \A j \in entries : j <= k) = i
    BY <1>7, <2>2
  <2> QED BY <1>5, <2>1, <2>3
<1>9. Replay!LastAnswer = log[i + 1]
  <2> DEFINE P(k) == /\ log[k].kind = "answer"
                     /\ \A j \in DOMAIN log : log[j].kind = "answer" => j <= k
  <2>1. P(i + 1)
    <3>1. \A j \in DOMAIN log : j <= i + 1
      BY <1>1, <1>2
    <3> QED BY <1>4, <3>1
  <2>2. \A k \in DOMAIN log : P(k) => k = i + 1
    <3>1. \A k \in DOMAIN log : P(k) => i + 1 <= k
      BY <1>2, <1>3, <1>4
    <3> HIDE DEF P
    <3> QED BY <1>1, <1>2, <3>1
  <2> HIDE DEF P
  <2>3. (CHOOSE k \in DOMAIN log : P(k)) = i + 1
    BY <1>2, <1>3, <2>1, <2>2
  <2> QED BY <2>3 DEF Replay!LastAnswer, P
<1> QED BY <1>1, <1>4, <1>5, <1>8, <1>9

-----------------------------------------------------------------------------
\* The disk: the checkpoint of the draft in the file, and those with higher numbers,
\* which an earlier plan left.  The plan of a run is the latest, and no checkpoint
\* is of that plan but those of its drafts.
Sound(d, top) ==
  /\ d.file \in Drafts /\ d.saved \in Seq(Nat)
  /\ \A i \in 1..Len(d.saved) : d.saved[i] <= top
  /\ d.file # Replay!NoDraft =>
       /\ 2 * d.file.n \in 1..Len(d.saved)
       /\ d.saved[2 * d.file.n] = d.file.plan
       /\ \A i \in 1..Len(d.saved) : i > 2 * d.file.n => d.saved[i] < d.file.plan
DraftInv ==
  /\ draft \in Drafts /\ plans \in Nat
  /\ Sound(disk, plans)
  /\ at # "plan" =>
       /\ draft.plan = plans
       /\ \A i \in 1..Len(disk.saved) : i > 2 * draft.n => disk.saved[i] < plans
  /\ at \in {"B", "C"} => disk.file = draft
  /\ at \in {"waiting", "resuming"} /\ question.text # "A" => disk.file = draft

\* Saving the checkpoints of a draft keeps what has higher numbers.
LEMMA SavedIs ==
  ASSUME disk.saved \in Seq(Nat), plans \in Nat, NEW step \in Nat \ {0}
  PROVE  LET s == Replay!Saved(step) IN
         /\ s \in Seq(Nat) /\ step \in 1..Len(s) /\ s[step] = plans
         /\ \A i \in 1..Len(s) : \/ s[i] = plans /\ i <= step
                                 \/ s[i] = 0 /\ i <= step
                                 \/ i \in 1..Len(disk.saved) /\ s[i] = disk.saved[i]
<1> DEFINE old == Len(disk.saved)
           k == IF step > old THEN step ELSE old
           s == Replay!Saved(step)
<1>1. old \in Nat /\ k \in Nat /\ step <= k /\ old <= k /\ (k = step \/ k = old)
      /\ \A i \in 1..old : disk.saved[i] \in Nat
  OBVIOUS
<1>2. s = [i \in 1..k |-> IF i > step - 2 /\ i <= step THEN plans
                          ELSE IF i <= old THEN disk.saved[i] ELSE 0]
  BY DEF Replay!Saved
<1> HIDE DEF s
<1>3. \A i \in 1..k : s[i] = IF i > step - 2 /\ i <= step THEN plans
                             ELSE IF i <= old THEN disk.saved[i] ELSE 0
  BY <1>2
<1> HIDE DEF k, old
<1>4. \A i \in 1..k : \/ s[i] = plans /\ i <= step
                      \/ s[i] = 0 /\ i <= step
                      \/ i \in 1..old /\ s[i] = disk.saved[i]
  BY <1>1, <1>3
<1>5. s \in [1..k -> Nat]
  <2>1. \A i \in 1..k : s[i] \in Nat
    BY <1>1, <1>4
  <2> QED BY <1>2, <2>1
<1>6. s \in Seq(Nat) /\ Len(s) = k
  BY <1>1, <1>5
<1>7. step \in 1..k /\ s[step] = plans
  BY <1>1, <1>3
<1> QED BY <1>4, <1>6, <1>7 DEF s, old

\* A run that goes on with its draft and its disk.
LEMMA DraftKept ==
  ASSUME DraftInv, UNCHANGED <<draft, plans, disk>>,
         at' # "plan" => at # "plan",
         at' \in {"B", "C"} => at \in {"B", "C"},
         at' \in {"waiting", "resuming"} /\ question'.text # "A" => disk.file = draft
  PROVE  DraftInv'
BY DEF DraftInv, Sound

LEMMA PlanIsMade ==
  ASSUME DraftInv, Replay!Plan
  PROVE  DraftInv'
<1>1. /\ draft \in Drafts /\ plans \in Nat /\ Sound(disk, plans)
      /\ plans' = plans + 1 /\ disk' = disk
  BY DEF DraftInv, Replay!Plan
<1>2. draft'.plan = plans' /\ draft' \in Drafts /\ plans' \in Nat
  <2>1. draft.n \in Nat
    BY <1>1 DEF Drafts
  <2>2. plans' \in Nat
    BY <1>1
  <2>3. draft' = [plan |-> plans', n |-> IF reviewDriven THEN draft.n ELSE 0]
    BY DEF Replay!Plan
  <2> QED BY <2>1, <2>2, <2>3 DEF Drafts
<1>3. at' \in {"A", "draft"}
  BY DEF Replay!Plan
<1>4. \A i \in 1..Len(disk.saved) : disk.saved[i] <= plans
  BY <1>1 DEF Sound
<1>5. \A i \in 1..Len(disk.saved) : disk.saved[i] \in Nat
  BY <1>1 DEF Sound
<1>6. \A i \in 1..Len(disk.saved) : disk.saved[i] <= plans' /\ disk.saved[i] < plans'
  BY <1>1, <1>4, <1>5
<1>7. Sound(disk, plans)'
  BY <1>1, <1>6 DEF Sound
<1> QED BY <1>1, <1>2, <1>3, <1>6, <1>7 DEF DraftInv

LEMMA DraftIsMade ==
  ASSUME DraftInv, Replay!Draft
  PROVE  DraftInv'
<1> DEFINE d == [draft EXCEPT !.n = @ + 1]
           s == Replay!Saved(2 * draft'.n)
<1>1. /\ at = "draft" /\ draft' = d /\ plans' = plans /\ at' \in {"B", "C"}
      /\ disk' = [file |-> draft', saved |-> s]
  BY DEF Replay!Draft
<1>2. /\ draft \in Drafts /\ plans \in Nat /\ disk.saved \in Seq(Nat) /\ draft.plan = plans
      /\ \A i \in 1..Len(disk.saved) : disk.saved[i] <= plans
      /\ \A i \in 1..Len(disk.saved) : i > 2 * draft.n => disk.saved[i] < plans
  BY <1>1 DEF DraftInv, Sound
<1>3. draft.n \in Nat /\ draft.plan \in Nat
  BY <1>2 DEF Drafts
<1>4. draft'.n = draft.n + 1 /\ draft'.plan = plans /\ draft' \in Drafts
  <2> DEFINE n == draft.n + 1
  <2>1. n \in Nat
    BY <1>3
  <2>2. draft' = [draft EXCEPT !.n = n]
    BY <1>1
  <2> HIDE DEF n, d
  <2>3. draft'.n = n /\ draft'.plan = draft.plan /\ draft' \in Drafts
    BY <1>2, <2>1, <2>2 DEF Drafts
  <2> QED BY <1>2, <2>3 DEF n
<1> HIDE DEF d
<1>5. 2 * draft'.n \in Nat \ {0}
  BY <1>3, <1>4
<1>6. /\ s \in Seq(Nat) /\ 2 * draft'.n \in 1..Len(s) /\ s[2 * draft'.n] = plans
      /\ \A i \in 1..Len(s) : \/ s[i] = plans /\ i <= 2 * draft'.n
                              \/ s[i] = 0 /\ i <= 2 * draft'.n
                              \/ i \in 1..Len(disk.saved) /\ s[i] = disk.saved[i]
  BY <1>2, <1>5, SavedIs
<1> HIDE DEF s
<1>7. disk'.file = draft' /\ disk'.saved = s
  BY <1>1
<1>8. ASSUME NEW i \in 1..Len(s)
      PROVE  s[i] <= plans /\ (i > 2 * draft'.n => s[i] < plans)
  <2>1. i \in Nat /\ 2 * draft'.n = 2 * draft.n + 2 /\ draft.n \in Nat
    BY <1>3, <1>4
  <2>2. CASE i <= 2 * draft'.n /\ (s[i] = plans \/ s[i] = 0)
    BY <1>2, <1>5, <2>2
  <2>3. CASE i \in 1..Len(disk.saved) /\ s[i] = disk.saved[i]
    <3>1. s[i] <= plans /\ (i > 2 * draft.n => s[i] < plans)
      BY <1>2, <2>3
    <3> QED BY <2>1, <3>1
  <2> QED BY <1>6, <2>2, <2>3
<1>9. Sound(disk, plans)'
  BY <1>1, <1>4, <1>6, <1>7, <1>8 DEF Sound
<1>10. /\ draft'.plan = plans'
       /\ \A i \in 1..Len(disk'.saved) : i > 2 * draft'.n => disk'.saved[i] < plans'
  BY <1>1, <1>4, <1>7, <1>8
<1>11. at' \notin {"waiting", "resuming"} /\ plans' \in Nat
  BY <1>1, <1>2
<1> QED BY <1>4, <1>7, <1>9, <1>10, <1>11 DEF DraftInv

-----------------------------------------------------------------------------
\* The run, its preloaded replies, and what it has reported.
RunInv ==
  /\ at \in ReplayStates /\ asksAlways \in BOOLEAN /\ reviewDriven \in BOOLEAN
  /\ cycle \in Nat
  /\ \A i \in DOMAIN queue : queue[i].text \in Replay!Questions
                             /\ queue[i].answer \in Replay!Replies
ReportInv ==
  /\ report \in [draft : Drafts, source : Nat, resumed : BOOLEAN]
  /\ Replay!AcceptedIsReported
ReplayInv == RunInv /\ QuestionInv /\ WaitsInv /\ DraftInv /\ ReportInv

LEMMA ReplyTaken ==
  ASSUME RunInv, NEW q, NEW a, Replay!Takes(q, a)
  PROVE  \A i \in DOMAIN queue' : queue'[i].text \in Replay!Questions
                                  /\ queue'[i].answer \in Replay!Replies
BY DEF RunInv, Replay!Takes

\* The run of a workflow goes on from a question, with an answer or without.
LEMMA RunContinues ==
  ASSUME ReplayInv, at \in {"A", "B", "C"}, at' \in {"plan", "draft", "report"},
         UNCHANGED <<draft, plans, disk, question, unlogged, log, report, asksAlways>>,
         reviewDriven' \in BOOLEAN, cycle' \in Nat,
         \A i \in DOMAIN queue' : queue'[i].text \in Replay!Questions
                                  /\ queue'[i].answer \in Replay!Replies
  PROVE  ReplayInv'
<1>1. RunInv'
  BY DEF ReplayInv, RunInv, ReplayStates
<1>2. QuestionInv'
  BY RunGoesOn DEF ReplayInv, Waiting
<1>3. WaitsInv'
  BY DEF WaitsInv, Waiting
<1>4. DraftInv'
  BY DraftKept DEF ReplayInv
<1>5. ReportInv'
  BY DEF ReplayInv, ReportInv, Replay!AcceptedIsReported
<1> QED BY <1>1, <1>2, <1>3, <1>4, <1>5 DEF ReplayInv

LEMMA RunStops ==
  ASSUME ReplayInv, at \in {"A", "B", "C"}, NEW q \in Replay!Questions, Replay!Interrupts(q),
         at = "A" => q = "A"
  PROVE  ReplayInv'
<1>1. /\ at' = "waiting" /\ UNCHANGED <<draft, plans, disk, report, asksAlways, reviewDriven,
                                        cycle, queue>>
  BY DEF Replay!Interrupts, Replay!run
<1>2. QuestionInv' /\ question'.text = q
  BY RunIsInterrupted DEF ReplayInv, Waiting
<1>3. RunInv'
  BY <1>1 DEF ReplayInv, RunInv, ReplayStates
<1>4. WaitsInv'
  BY <1>1, <1>2 DEF WaitsInv, Waiting
<1>5. DraftInv'
  <2>1. q # "A" => disk.file = draft
    BY DEF ReplayInv, DraftInv
  <2> QED BY <1>1, <1>2, <2>1, DraftKept DEF ReplayInv
<1>6. ReportInv'
  BY <1>1 DEF ReplayInv, ReportInv, Replay!AcceptedIsReported
<1> QED BY <1>2, <1>3, <1>4, <1>5, <1>6 DEF ReplayInv

LEMMA AtCheckpointA ==
  ASSUME ReplayInv, Replay!AskA
  PROVE  ReplayInv'
<1>1. CASE Replay!Interrupts("A")
  BY <1>1, RunStops DEF Replay!AskA, Replay!Questions
<1>2. ASSUME NEW a \in Replay!Replies, Replay!Takes("A", a),
             at' = IF a = "accept" THEN "draft" ELSE "plan",
             UNCHANGED <<Replay!run, Replay!task, disk, report>>
      PROVE  ReplayInv'
  <2>1. /\ at = "A" /\ at' \in {"plan", "draft", "report"}
        /\ UNCHANGED <<draft, plans, disk, question, unlogged, log, report, asksAlways>>
        /\ reviewDriven' = reviewDriven /\ cycle' = cycle
    BY <1>2 DEF Replay!AskA, Replay!Takes, Replay!run, Replay!task
  <2>2. reviewDriven' \in BOOLEAN /\ cycle' \in Nat
    BY <2>1 DEF ReplayInv, RunInv
  <2>3. RunInv
    BY DEF ReplayInv
  <2> QED BY <1>2, <2>1, <2>2, <2>3, ReplyTaken, RunContinues
<1> QED BY <1>1, <1>2 DEF Replay!AskA

LEMMA AfterBContinues ==
  ASSUME ReplayInv, at = "B", NEW a, NEW wants, Replay!AfterB(a, wants), question' = question,
         \A i \in DOMAIN queue' : queue'[i].text \in Replay!Questions
                                  /\ queue'[i].answer \in Replay!Replies
  PROVE  ReplayInv'
<1>1. /\ at' \in {"plan", "draft", "report"}
      /\ UNCHANGED <<draft, plans, disk, unlogged, log, report, asksAlways>>
      /\ reviewDriven' \in BOOLEAN
  BY DEF Replay!AfterB, Replay!task
<1>2. cycle' \in Nat
  <2>1. cycle' = cycle + 1 \/ cycle' = cycle
    BY DEF Replay!AfterB
  <2>2. cycle \in Nat
    BY DEF ReplayInv, RunInv
  <2> QED BY <2>1, <2>2
<1> QED BY <1>1, <1>2, RunContinues

LEMMA AtCheckpointB ==
  ASSUME ReplayInv, Replay!CheckpointB
  PROVE  ReplayInv'
<1>1. at = "B" /\ RunInv
  BY DEF Replay!CheckpointB, ReplayInv
<1>2. ASSUME NEW q \in Texts, Replay!Interrupts(q) PROVE ReplayInv'
  BY <1>1, <1>2, RunStops DEF Replay!Questions
<1>3. ASSUME NEW q \in Texts, NEW a \in Replay!Replies, NEW wants \in BOOLEAN,
             Replay!Takes(q, a), Replay!AfterB(a, wants)
      PROVE  ReplayInv'
  <2>1. question' = question
    BY <1>3 DEF Replay!Takes
  <2> QED BY <1>1, <1>3, <2>1, ReplyTaken, AfterBContinues
<1>4. CASE Replay!AfterB("accept", FALSE) /\ UNCHANGED <<queue, question>>
  <2>1. \A i \in DOMAIN queue' : queue'[i].text \in Replay!Questions
                                 /\ queue'[i].answer \in Replay!Replies
    BY <1>1, <1>4 DEF RunInv
  <2> QED BY <1>1, <1>4, <2>1, AfterBContinues
<1> QED BY <1>2, <1>3, <1>4 DEF Replay!CheckpointB

LEMMA AfterCContinues ==
  ASSUME ReplayInv, at = "C", NEW a \in Replay!Replies, Replay!AfterC(a), question' = question,
         \A i \in DOMAIN queue' : queue'[i].text \in Replay!Questions
                                  /\ queue'[i].answer \in Replay!Replies
  PROVE  ReplayInv'
<1>1. at' \in {"plan", "draft", "report"}
  BY DEF Replay!AfterC, Replay!Replies
<1>2. /\ UNCHANGED <<draft, plans, disk, unlogged, log, report, asksAlways>>
      /\ reviewDriven' = reviewDriven
  BY DEF Replay!AfterC, Replay!task
<1>3. cycle' \in Nat /\ reviewDriven' \in BOOLEAN
  <2>1. cycle' = cycle + 1 \/ cycle' = cycle
    BY DEF Replay!AfterC
  <2>2. cycle \in Nat /\ reviewDriven \in BOOLEAN
    BY DEF ReplayInv, RunInv
  <2>3. cycle' \in Nat
    BY <2>1, <2>2
  <2> QED BY <1>2, <2>2, <2>3
<1> QED BY <1>1, <1>2, <1>3, RunContinues

LEMMA AtCheckpointC ==
  ASSUME ReplayInv, Replay!CheckpointC
  PROVE  ReplayInv'
<1>1. at = "C" /\ RunInv
  BY DEF Replay!CheckpointC, ReplayInv
<1>2. CASE Replay!Interrupts("C")
  BY <1>1, <1>2, RunStops DEF Replay!Questions
<1>3. ASSUME NEW a \in Replay!Replies, Replay!Takes("C", a), Replay!AfterC(a)
      PROVE  ReplayInv'
  <2>1. question' = question
    BY <1>3 DEF Replay!Takes
  <2> QED BY <1>1, <1>3, <2>1, ReplyTaken, AfterCContinues
<1>4. CASE Replay!AfterC("accept") /\ UNCHANGED <<queue, question>>
  <2>1. \A i \in DOMAIN queue' : queue'[i].text \in Replay!Questions
                                 /\ queue'[i].answer \in Replay!Replies
    BY <1>1, <1>4 DEF RunInv
  <2>2. "accept" \in Replay!Replies
    BY DEF Replay!Replies
  <2> QED BY <1>1, <1>4, <2>1, <2>2, AfterCContinues
<1> QED BY <1>2, <1>3, <1>4 DEF Replay!CheckpointC

LEMMA AtPlan ==
  ASSUME ReplayInv, Replay!Plan
  PROVE  ReplayInv'
<1>1. /\ at = "plan" /\ at' \in {"A", "draft"} /\ reviewDriven' = FALSE
      /\ cycle' \in {cycle, 0}
      /\ UNCHANGED <<asksAlways, queue, question, unlogged, log, disk, report>>
  BY DEF Replay!Plan, Replay!task
<1>2. RunInv'
  <2>1. cycle' \in Nat
    <3>1. cycle \in Nat
      BY DEF ReplayInv, RunInv
    <3> QED BY <1>1, <3>1
  <2> QED BY <1>1, <2>1 DEF ReplayInv, RunInv, ReplayStates
<1>3. QuestionInv'
  BY <1>1, RunGoesOn DEF ReplayInv, Waiting
<1>4. WaitsInv'
  BY <1>1 DEF WaitsInv, Waiting
<1>5. DraftInv'
  BY PlanIsMade DEF ReplayInv
<1>6. ReportInv'
  BY <1>1 DEF ReplayInv, ReportInv, Replay!AcceptedIsReported
<1> QED BY <1>2, <1>3, <1>4, <1>5, <1>6 DEF ReplayInv

LEMMA AtDraft ==
  ASSUME ReplayInv, Replay!Draft
  PROVE  ReplayInv'
<1>1. /\ at = "draft" /\ at' \in {"B", "C"}
      /\ UNCHANGED <<asksAlways, reviewDriven, cycle, queue, question, unlogged, log, report>>
  BY DEF Replay!Draft, Replay!task
<1>2. RunInv'
  BY <1>1 DEF ReplayInv, RunInv, ReplayStates
<1>3. QuestionInv'
  BY <1>1, RunGoesOn DEF ReplayInv, Waiting
<1>4. WaitsInv'
  BY <1>1 DEF WaitsInv, Waiting
<1>5. DraftInv'
  BY DraftIsMade DEF ReplayInv
<1>6. ReportInv'
  BY <1>1 DEF ReplayInv, ReportInv, Replay!AcceptedIsReported
<1> QED BY <1>2, <1>3, <1>4, <1>5, <1>6 DEF ReplayInv

LEMMA AtReport ==
  ASSUME ReplayInv, Replay!Report
  PROVE  ReplayInv'
<1>1. /\ at = "report" /\ at' = "done"
      /\ UNCHANGED <<asksAlways, reviewDriven, cycle, draft, plans, queue, question, unlogged,
                     log, disk>>
      /\ report' = [draft |-> draft, source |-> draft.plan, resumed |-> FALSE]
  BY DEF Replay!Report, Replay!task, Replay!run
<1>2. RunInv'
  BY <1>1 DEF ReplayInv, RunInv, ReplayStates
<1>3. QuestionInv'
  BY <1>1, RunGoesOn DEF ReplayInv, Waiting
<1>4. WaitsInv'
  BY <1>1 DEF WaitsInv, Waiting
<1>5. DraftInv'
  BY <1>1, DraftKept DEF ReplayInv
<1>6. ReportInv'
  <2>1. draft \in Drafts /\ draft.plan \in Nat
    BY DEF ReplayInv, DraftInv, Drafts
  <2> QED BY <1>1, <2>1 DEF ReportInv, Replay!AcceptedIsReported
<1> QED BY <1>2, <1>3, <1>4, <1>5, <1>6 DEF ReplayInv

\* A question that is logged after the end is logged after its answer.
LEMMA AtLogQuestion ==
  ASSUME ReplayInv, Replay!LogQuestion
  PROVE  ReplayInv'
<1>1. UNCHANGED <<at, asksAlways, reviewDriven, cycle, draft, plans, queue, question, disk,
                  report>>
  BY DEF Replay!LogQuestion, Replay!run
<1>2. RunInv'
  BY <1>1 DEF ReplayInv, RunInv
<1>3. QuestionInv'
  BY QuestionIsLogged DEF ReplayInv
<1>4. WaitsInv'
  BY <1>1 DEF ReplayInv, WaitsInv, Waiting
<1>5. DraftInv'
  <2>1. at \in {"waiting", "resuming"} /\ question.text # "A" => disk.file = draft
    BY DEF ReplayInv, DraftInv
  <2> QED BY <1>1, <2>1, DraftKept DEF ReplayInv
<1>6. at = "done" => \E id \in 1..question'.id : Replay!Overtaken(id)'
  <2> SUFFICES ASSUME at = "done" PROVE \E id \in 1..question'.id : Replay!Overtaken(id)'
    OBVIOUS
  <2> DEFINE k == Len(log) + 1
  <2>1. PICK q \in unlogged :
          log' = Append(log, [kind |-> "question", text |-> q.text, id |-> q.id, answer |-> ""])
    BY DEF Replay!LogQuestion
  <2>2. q.id \in 1..question.id /\ question.id \in Nat /\ QuestionInv /\ ~Waiting
    BY DEF ReplayInv, QuestionInv, Waiting
  <2>3. HasAnswer(log, q.id)
    <3>1. \/ q.id \in 1..(question.id - 1)
          \/ q.id = question.id /\ question.id # 0
      BY <2>2
    <3> QED BY <2>2, <3>1 DEF QuestionInv
  <2>4. PICK i \in 1..Len(log) : ~Asks(log, i) /\ log[i].id = q.id
    BY <2>3 DEF HasAnswer
  <2>5. log \in Seq(LogItems) /\ Len(log) \in Nat /\ log[i] \in LogItems
    BY <2>2, LogIsSeq
  <2> DEFINE e == [kind |-> "question", text |-> q.text, id |-> q.id, answer |-> ""]
  <2>6. e \in LogItems /\ e.kind = "question" /\ e.id = q.id
    BY <2>2 DEF QuestionInv, LogItems
  <2> HIDE DEF e
  <2>7. /\ log'[i] = log[i] /\ log'[k] = e /\ DOMAIN log' = 1..k
        /\ i \in 1..k /\ k \in 1..k /\ i < k
    <3>1. log' = Append(log, e)
      BY <2>1 DEF e
    <3> QED BY <2>5, <2>6, <3>1
  <2>8. log[i].kind = "answer"
    BY <2>4, <2>5 DEF Asks, LogItems
  <2> HIDE DEF k
  <2>9. Replay!Overtaken(q.id)'
    BY <2>4, <2>6, <2>7, <2>8 DEF Replay!Overtaken
  <2> QED BY <1>1, <2>2, <2>9
<1>7. ReportInv'
  BY <1>1, <1>6 DEF ReplayInv, ReportInv, Replay!AcceptedIsReported
<1> QED BY <1>2, <1>3, <1>4, <1>5, <1>7 DEF ReplayInv

LEMMA AtReply ==
  ASSUME ReplayInv, Replay!Reply
  PROVE  ReplayInv'
<1>1. /\ at = "waiting" /\ at' = "resuming"
      /\ UNCHANGED <<asksAlways, reviewDriven, cycle, draft, plans, queue, question, unlogged,
                     disk, report>>
  BY DEF Replay!Reply, Replay!run
<1>2. RunInv'
  BY <1>1 DEF ReplayInv, RunInv, ReplayStates
<1>3. QuestionInv' /\ question.id >= 1
  BY ReplyIsLogged DEF ReplayInv
<1>4. WaitsInv'
  BY <1>1, <1>3 DEF WaitsInv, Waiting
<1>5. DraftInv'
  <2>1. question.text # "A" => disk.file = draft
    BY <1>1 DEF ReplayInv, DraftInv
  <2> QED BY <1>1, <2>1, DraftKept DEF ReplayInv
<1>6. ReportInv'
  BY <1>1 DEF ReplayInv, ReportInv, Replay!AcceptedIsReported
<1> QED BY <1>2, <1>3, <1>4, <1>5, <1>6 DEF ReplayInv

\* What is preloaded are replies to questions.
LEMMA PairedIs ==
  ASSUME QuestionInv, NEW i \in DOMAIN Replay!History, Replay!Paired(Replay!History[i])
  PROVE  /\ Replay!History[i].text \in Replay!Questions
         /\ Replay!History[i].answer \in Replay!Replies
<1>1. i \in 1..Len(log) /\ Replay!History[i] = Replay!Entry(i)
  BY LogIsSeq DEF Replay!History, Replay!Opens
<1>2. log[i].text # "" /\ Replay!Entry(i).answer # ""
  <2>1. Replay!Entry(i).text = log[i].text
    BY DEF Replay!Entry
  <2> QED BY <1>1, <2>1 DEF Replay!Paired
<1>3. GoodItem(log[i], question)
  BY <1>1, LogIsSeq
<1>4. Asks(log, i) /\ log[i].text \in Replay!Questions
  BY <1>2, <1>3 DEF GoodItem, Asks
<1>5. /\ Replay!Entry(i).text = log[i].text /\ i + 1 \in 1..Len(log) /\ ~Asks(log, i + 1)
      /\ Replay!Entry(i).answer = log[i + 1].answer
  BY <1>1, <1>2, <1>4, EntryIs
<1>6. log[i + 1].answer \in Replay!Replies
  <2>1. GoodItem(log[i + 1], question)
    BY <1>5, LogIsSeq
  <2> QED BY <1>5, <2>1 DEF GoodItem, Asks
<1> QED BY <1>1, <1>4, <1>5, <1>6

\* The checkpoint that is loaded.
LEMMA LoadedIs ==
  ASSUME Sound(disk, plans), disk.file # Replay!NoDraft
  PROVE  /\ Replay!Loaded \in Nat
         /\ \/ Replay!Loaded = disk.file.plan
            \/ Len(disk.saved) > 2 * disk.file.n /\ Replay!Loaded < disk.file.plan
<1> DEFINE k == Len(disk.saved)
           m == 2 * disk.file.n
<1>1. /\ disk.saved \in Seq(Nat) /\ m \in 1..k /\ disk.saved[m] = disk.file.plan
      /\ \A i \in 1..k : i > m => disk.saved[i] < disk.file.plan
  BY DEF Sound
<1>2. k \in Nat
  BY <1>1
<1>3. Replay!Loaded = disk.saved[k]
  BY DEF Replay!Loaded
<1>4. disk.saved[k] \in Nat /\ k \in 1..k
  <2>1. k \in 1..k
    <3> HIDE DEF k, m
    <3> QED BY <1>1, <1>2
  <2> QED BY <1>1, <2>1
<1> HIDE DEF k, m
<1>5. k = m \/ k > m
  BY <1>1, <1>2
<1> QED BY <1>1, <1>3, <1>4, <1>5 DEF k, m

LEMMA AtFastForward ==
  ASSUME ReplayInv, Replay!Resume, Replay!AcceptedC, disk.file # Replay!NoDraft
  PROVE  ReplayInv'
<1>1. /\ at = "resuming" /\ at' = "done"
      /\ UNCHANGED <<asksAlways, reviewDriven, cycle, draft, plans, queue, question, unlogged,
                     log, disk>>
      /\ report' = [draft |-> disk.file, source |-> Replay!Loaded, resumed |-> TRUE]
  BY DEF Replay!Resume, Replay!task, Replay!run
<1>2. RunInv'
  BY <1>1 DEF ReplayInv, RunInv, ReplayStates
<1>3. QuestionInv'
  BY <1>1, RunGoesOn DEF ReplayInv, Waiting
<1>4. WaitsInv'
  BY <1>1 DEF WaitsInv, Waiting
<1>5. DraftInv'
  BY <1>1, DraftKept DEF ReplayInv
<1>6. Sound(disk, plans)
  BY DEF ReplayInv, DraftInv
<1>7. report' \in [draft : Drafts, source : Nat, resumed : BOOLEAN]
  <2>1. disk.file \in Drafts /\ Replay!Loaded \in Nat
    BY <1>6, LoadedIs DEF Sound
  <2> QED BY <1>1, <2>1
<1>8. /\ Replay!Latest' = Replay!Latest /\ Replay!LastAnswer' = Replay!LastAnswer
      /\ \A id : Replay!Overtaken(id)' <=> Replay!Overtaken(id)
  BY <1>1 DEF Replay!Latest, Replay!LastAnswer, Replay!Overtaken, Replay!History,
              Replay!Entry, Replay!Opens, Replay!Given, Replay!AnswerAt, Replay!Fills
<1>9. ASSUME unlogged = {}, \A id \in 1..question.id : ~Replay!Overtaken(id)
      PROVE  /\ Replay!LastAnswer.answer = "accept"
             /\ Replay!LastAnswer.id = Replay!Latest.asked
             /\ disk.file = draft
  <2>1. QuestionInv /\ ~Waiting /\ question.id >= 1
    BY <1>1 DEF ReplayInv, WaitsInv, Waiting
  <2>2. /\ Replay!Latest.text = question.text /\ Replay!Latest.asked = question.id
        /\ Replay!LastAnswer.id = question.id
        /\ Replay!Latest.answer = Replay!LastAnswer.answer
        /\ Replay!LastAnswer.answer \in Replay!Replies
    BY <1>9, <2>1, LatestIs
  <2>3. question.text = "C" /\ Replay!LastAnswer.answer = "accept"
    BY <2>2 DEF Replay!AcceptedC, Replay!Replies
  <2>4. disk.file = draft
    BY <1>1, <2>3 DEF ReplayInv, DraftInv
  <2> QED BY <2>2, <2>3, <2>4
<1>10. \/ Replay!Loaded = disk.file.plan
       \/ Len(disk.saved) > 2 * disk.file.n /\ Replay!Loaded < disk.file.plan
  BY <1>6, LoadedIs
<1>11. /\ report'.draft = disk.file /\ report'.source = Replay!Loaded
       /\ disk' = disk /\ draft' = draft /\ question' = question /\ unlogged' = unlogged
  BY <1>1
<1>12. \/ report'.source = report'.draft.plan
       \/ Len(disk'.saved) > 2 * report'.draft.n /\ report'.source < report'.draft.plan
  BY <1>10, <1>11
<1>13. \/ unlogged' # {} \/ \E id \in 1..question'.id : Replay!Overtaken(id)'
       \/ /\ Replay!LastAnswer'.answer = "accept" /\ Replay!LastAnswer'.id = Replay!Latest'.asked
          /\ report'.draft = draft'
  BY <1>8, <1>9, <1>11
<1>14. ReportInv'
  BY <1>7, <1>12, <1>13 DEF ReportInv, Replay!AcceptedIsReported
<1> QED BY <1>2, <1>3, <1>4, <1>5, <1>14 DEF ReplayInv

LEMMA AtRestart ==
  ASSUME ReplayInv, Replay!Resume, ~(Replay!AcceptedC /\ disk.file # Replay!NoDraft)
  PROVE  ReplayInv'
<1>1. /\ at = "resuming" /\ at' = "plan" /\ reviewDriven' = FALSE /\ cycle' = 0
      /\ UNCHANGED <<asksAlways, plans, report, question, unlogged, log, disk>>
      /\ draft' = Replay!NoDraft
      /\ queue' = [i \in {i \in DOMAIN Replay!History : Replay!Paired(Replay!History[i])} |->
                     Replay!History[i]]
  BY DEF Replay!Resume, Replay!task
<1>2. \A i \in DOMAIN queue' : queue'[i].text \in Replay!Questions
                               /\ queue'[i].answer \in Replay!Replies
  BY <1>1, PairedIs DEF ReplayInv
<1>3. RunInv'
  <2>1. cycle' \in Nat
    BY <1>1
  <2> QED BY <1>1, <1>2, <2>1 DEF ReplayInv, RunInv, ReplayStates
<1>4. QuestionInv'
  BY <1>1, RunGoesOn DEF ReplayInv, Waiting
<1>5. WaitsInv'
  BY <1>1 DEF WaitsInv, Waiting
<1>6. DraftInv'
  <2>1. draft' \in Drafts
    BY <1>1 DEF Replay!NoDraft, Drafts
  <2>2. plans' \in Nat /\ Sound(disk', plans')
    BY <1>1 DEF ReplayInv, DraftInv
  <2> QED BY <1>1, <2>1, <2>2 DEF DraftInv
<1>7. ReportInv'
  BY <1>1 DEF ReplayInv, ReportInv, Replay!AcceptedIsReported
<1> QED BY <1>3, <1>4, <1>5, <1>6, <1>7 DEF ReplayInv

LEMMA ReplayRests ==
  ASSUME ReplayInv, UNCHANGED replayVars
  PROVE  ReplayInv'
<1>1. RunInv' /\ WaitsInv' /\ DraftInv'
  BY DEF replayVars, ReplayInv, RunInv, WaitsInv, DraftInv, Waiting
<1>2. QuestionInv'
  BY RunGoesOn DEF replayVars, ReplayInv, Waiting
<1>3. /\ Replay!Latest' = Replay!Latest /\ Replay!LastAnswer' = Replay!LastAnswer
      /\ \A id : Replay!Overtaken(id)' <=> Replay!Overtaken(id)
  BY DEF replayVars, Replay!Latest, Replay!LastAnswer, Replay!Overtaken, Replay!History,
         Replay!Entry, Replay!Opens, Replay!Given, Replay!AnswerAt, Replay!Fills
<1>4. ReportInv'
  BY <1>3 DEF replayVars, ReplayInv, ReportInv, Replay!AcceptedIsReported
<1> QED BY <1>1, <1>2, <1>4 DEF ReplayInv

LEMMA ReplayStep == [Next]_partVars => (Replay!Next \/ UNCHANGED replayVars)
BY DEF Next, partVars, OfResearch, OfReplay, OfOffice, OfLoop, OfQuotas, OfMemory,
       OfWorker, OfGate

LEMMA ReplayAlways == Spec => []ReplayInv
<1>1. Init => ReplayInv
  <2> SUFFICES ASSUME Init PROVE ReplayInv
    OBVIOUS
  <2>1. /\ at = "plan" /\ asksAlways \in BOOLEAN /\ reviewDriven = FALSE /\ cycle = 0
        /\ draft = Replay!NoDraft /\ plans = 0 /\ queue = <<>>
        /\ question = [text |-> "", id |-> 0] /\ unlogged = {} /\ log = <<>>
        /\ disk = [file |-> Replay!NoDraft, saved |-> <<>>] /\ report = Replay!NoReport
    BY DEF Init, Replay!Init
  <2>2. RunInv
    <3>1. cycle \in Nat
      BY <2>1
    <3>2. DOMAIN queue = {}
      <4>1. DOMAIN <<>> = {}
        OBVIOUS
      <4> QED BY <2>1, <4>1
    <3> QED BY <2>1, <3>1, <3>2 DEF RunInv, ReplayStates
  <2>3. question.id = 0 /\ 1..question.id = {} /\ 1..(question.id - 1) = {}
    <3>1. question.id = 0
      BY <2>1
    <3>2. 1..0 = {} /\ 1..(0 - 1) = {}
      OBVIOUS
    <3> QED BY <3>1, <3>2
  <2>4. log \in Seq(LogItems) /\ 1..Len(log) = {}
    <3>1. log = <<>>
      BY <2>1
    <3>2. <<>> \in Seq(LogItems) /\ 1..Len(<<>>) = {}
      OBVIOUS
    <3> QED BY <3>1, <3>2
  <2>5. GoodLog(log, question)
    BY <2>4 DEF GoodLog, InOrder, OnceEach
  <2>6. question \in [text : Replay!Questions \cup {""}, id : Nat]
    BY <2>1
  <2>7. QuestionInv
    BY <2>1, <2>3, <2>5, <2>6 DEF QuestionInv, Waiting
  <2>8. WaitsInv
    BY <2>1 DEF WaitsInv, Waiting
  <2>9. Replay!NoDraft \in Drafts
    BY DEF Replay!NoDraft, Drafts
  <2>10. Sound(disk, plans)
    <3>1. disk.file = Replay!NoDraft /\ disk.saved = <<>>
      BY <2>1
    <3>2. disk.saved \in Seq(Nat) /\ 1..Len(disk.saved) = {}
      BY <3>1
    <3> QED BY <2>9, <3>1, <3>2 DEF Sound
  <2>11. DraftInv
    <3>1. plans \in Nat
      BY <2>1
    <3> QED BY <2>1, <2>9, <2>10, <3>1 DEF DraftInv
  <2>12. ReportInv
    BY <2>1, <2>9 DEF ReportInv, Replay!NoReport, Replay!AcceptedIsReported
  <2> QED BY <2>2, <2>7, <2>8, <2>11, <2>12 DEF ReplayInv
<1>2. ReplayInv /\ [Next]_partVars => ReplayInv'
  <2> SUFFICES ASSUME ReplayInv, Replay!Next \/ UNCHANGED replayVars PROVE ReplayInv'
    BY ReplayStep
  <2>1. CASE Replay!Resume
    BY <2>1, AtFastForward, AtRestart
  <2>2. CASE UNCHANGED replayVars
    BY <2>2, ReplayRests
  <2>3. CASE Replay!Work /\ ~Replay!Resume
    BY <2>3, AtPlan, AtCheckpointA, AtDraft, AtCheckpointB, AtCheckpointC, AtReport,
       AtLogQuestion DEF Replay!Work
  <2>4. CASE Replay!Reply
    BY <2>4, AtReply
  <2> QED BY <2>1, <2>2, <2>3, <2>4 DEF Replay!Next
<1> QED BY <1>1, <1>2, PTL DEF Spec

LEMMA ReplayTypes == ReplayInv => Replay!TypeOK
<1> SUFFICES ASSUME ReplayInv PROVE Replay!TypeOK
  OBVIOUS
<1>1. /\ draft \in [plan : Nat, n : Nat] /\ plans \in Nat
      /\ report \in [draft : [plan : Nat, n : Nat], source : Nat, resumed : BOOLEAN]
  BY DEF ReplayInv, DraftInv, ReportInv, Drafts
<1>2. /\ question \in [text : Replay!Questions \cup {""}, id : Nat]
      /\ \A q \in unlogged : q.text \in Replay!Questions
  BY DEF ReplayInv, QuestionInv
<1> QED BY <1>1, <1>2 DEF ReplayInv, RunInv, ReplayStates, Replay!TypeOK

\* Replay: whichever questions are logged after their answers, an answer of the
\* history is with the question it was given to, or with one that was overtaken.
THEOREM AnswersAlwaysFit == Spec => []AnswersFit
<1>1. ReplayInv => AnswersFit
  BY AnswersFitTheLog DEF ReplayInv, AnswersFit
<1> QED BY <1>1, ReplayAlways, PTL

\* Replay: however often the run starts over, a report that is fast-forwarded is of
\* the draft accepted last, unless a reply overtook its question, and is made from
\* the checkpoint of that draft, unless an older plan left a later one.
THEOREM AcceptedAlwaysReported == Spec => []AcceptedIsReported
<1>1. ReplayInv => AcceptedIsReported
  BY DEF ReplayInv, ReportInv, AcceptedIsReported
<1> QED BY <1>1, ReplayAlways, PTL

-----------------------------------------------------------------------------
\* The entries of the history as the log goes on: which are there, what they hold.
LEMMA EntriesStay ==
  ASSUME QuestionInv, NEW e \in LogItems, log' = Append(log, e)
  PROVE  LET k == Len(log) + 1 IN
         /\ k \in Nat \ {0} /\ k \notin 1..Len(log) /\ DOMAIN log = 1..Len(log)
         /\ DOMAIN log' = 1..Len(log) \cup {k} /\ log'[k] = e
         /\ \A i \in 1..Len(log) : log'[i] = log[i]
         /\ Replay!Opens' = Replay!Opens \cup
              (IF e.kind = "answer" /\ k > 1 /\ log[k - 1].kind = "question" THEN {} ELSE {k})
         /\ \A i \in 1..Len(log) :
              ~(e.kind = "answer" /\ log[i].kind = "question" /\ i + 1 = k)
                => Replay!Entry(i)' = Replay!Entry(i)
<1> DEFINE n == Len(log)
<1>0. PICK k : k = n + 1
  OBVIOUS
<1>1. log \in Seq(LogItems) /\ DOMAIN log = 1..n /\ n \in Nat
  BY LogIsSeq
<1>2. /\ log' \in Seq(LogItems) /\ log'[k] = e /\ Len(log') = k
      /\ \A i \in 1..n : log'[i] = log[i]
  BY <1>0, <1>1
<1>3. k \in Nat \ {0} /\ k \notin 1..n /\ DOMAIN log' = 1..n \cup {k}
  <2>1. DOMAIN log' = 1..k
    BY <1>2
  <2> QED BY <1>0, <1>1, <2>1
<1>4. /\ \A i \in 1..n : i > 1 => i - 1 \in 1..n
      /\ k > 1 => k - 1 \in 1..n
      /\ \A i \in 1..n : i + 1 \in 1..n \cup {k}
      /\ \A i \in 1..n : i # k
  BY <1>0, <1>1
<1> HIDE DEF n
<1>5. \A i \in 1..n : Replay!Fills(i)' <=> Replay!Fills(i)
  BY <1>2, <1>4 DEF Replay!Fills
<1>6. Replay!Fills(k)' <=> e.kind = "answer" /\ k > 1 /\ log[k - 1].kind = "question"
  BY <1>2, <1>4 DEF Replay!Fills
<1>7. Replay!Opens' = Replay!Opens \cup
        (IF e.kind = "answer" /\ k > 1 /\ log[k - 1].kind = "question" THEN {} ELSE {k})
  BY <1>1, <1>3, <1>5, <1>6 DEF Replay!Opens
<1>8. ASSUME NEW i \in 1..n, ~(e.kind = "answer" /\ log[i].kind = "question" /\ i + 1 = k)
      PROVE  Replay!Entry(i)' = Replay!Entry(i)
  <2>1. ASSUME NEW j \in 1..n \cup {k}, j = k => e.kind # "answer"
        PROVE  Replay!AnswerAt(j)' = Replay!AnswerAt(j)
    <3>1. CASE j \in 1..n
      <4>1. log'[j] = log[j] /\ j \in DOMAIN log /\ j \in DOMAIN log'
        BY <1>1, <1>2, <1>3, <3>1
      <4> QED BY <4>1 DEF Replay!AnswerAt
    <3>2. CASE j = k
      <4>1. log'[j].kind # "answer" /\ j \notin DOMAIN log
        BY <1>1, <1>2, <1>3, <2>1, <3>2
      <4> QED BY <4>1 DEF Replay!AnswerAt
    <3> QED BY <3>1, <3>2
  <2>2. log'[i] = log[i] /\ i + 1 \in 1..n \cup {k} /\ i \in 1..n \cup {k} /\ i # k
    BY <1>2, <1>4
  <2>3. Replay!Given(i)' = Replay!Given(i)
    <3>1. CASE log[i].kind = "question"
      BY <1>8, <2>1, <2>2, <3>1 DEF Replay!Given
    <3>2. CASE log[i].kind # "question"
      BY <2>1, <2>2, <3>2 DEF Replay!Given
    <3> QED BY <3>1, <3>2
  <2> QED BY <2>2, <2>3 DEF Replay!Entry
<1> QED BY <1>0, <1>1, <1>2, <1>3, <1>7, <1>8 DEF n

\* The last entry, and that it has no answer.
LastEntry(i) == i \in DOMAIN Replay!History /\ \A j \in DOMAIN Replay!History : j <= i
Lacks(i) == LastEntry(i) /\ Replay!History[i].answer = ""

LEMMA LacksAnAnswer ==
  ASSUME QuestionInv, NEW i
  PROVE  Lacks(i) <=> i = Len(log) /\ i > 0 /\ log[i].kind = "question"
<1>1. /\ log \in Seq(LogItems) /\ DOMAIN log = 1..Len(log) /\ Len(log) \in Nat
      /\ \A j \in 1..Len(log) : GoodItem(log[j], question) /\ log[j] \in LogItems
  BY LogIsSeq
<1>2. /\ DOMAIN Replay!History = Replay!Opens /\ Replay!Opens \subseteq 1..Len(log)
      /\ \A j \in Replay!Opens : Replay!History[j] = Replay!Entry(j)
      /\ \A j \in 1..Len(log) : log[j].kind = "question" => j \in Replay!Opens
  BY <1>1 DEF Replay!History, Replay!Opens, Replay!Fills
<1>3. \A j \in 1..Len(log) : /\ log[j].kind \in {"question", "answer"}
                             /\ log[j].kind = "answer" => log[j].answer # ""
  <2> SUFFICES ASSUME NEW j \in 1..Len(log)
               PROVE  /\ log[j].kind \in {"question", "answer"}
                      /\ log[j].kind = "answer" => log[j].answer # ""
    OBVIOUS
  <2> QED BY <1>1 DEF GoodItem, LogItems, Replay!Replies
<1>6. Len(log) \in Nat
  BY <1>1
<1>4. ASSUME Lacks(i) PROVE i = Len(log) /\ i > 0 /\ log[i].kind = "question"
  <2>1. /\ i \in 1..Len(log) /\ Replay!Entry(i).answer = ""
        /\ \A j \in 1..Len(log) : log[j].kind = "question" => j <= i
    BY <1>2, <1>4 DEF Lacks, LastEntry
  <2>2. log[i].kind = "question"
    <3> SUFFICES ASSUME log[i].kind # "question" PROVE FALSE
      OBVIOUS
    <3>1. log[i].kind = "answer" /\ log[i].answer # "" /\ i \in DOMAIN log
      BY <1>1, <1>3, <2>1
    <3>2. Replay!AnswerAt(i) = log[i]
      BY <3>1 DEF Replay!AnswerAt
    <3>3. Replay!Given(i) = log[i]
      BY <3>1, <3>2 DEF Replay!Given
    <3>4. Replay!Entry(i).answer = Replay!Given(i).answer
      BY DEF Replay!Entry
    <3> QED BY <2>1, <3>1, <3>3, <3>4
  <2>5. i \in 1..Len(log)
    BY <2>1
  <2>3. i + 1 \notin 1..Len(log)
    <3> SUFFICES ASSUME i + 1 \in 1..Len(log) PROVE FALSE
      OBVIOUS
    <3>1. ~(i + 1 <= i)
      BY <1>6, <2>5
    <3>2. log[i + 1].kind = "answer" /\ log[i + 1].answer # "" /\ i + 1 \in DOMAIN log
      BY <1>1, <1>3, <2>1, <3>1
    <3>3. Replay!AnswerAt(i + 1) = log[i + 1]
      BY <3>2 DEF Replay!AnswerAt
    <3>4. Replay!Given(i) = log[i + 1]
      BY <2>2, <3>3 DEF Replay!Given
    <3>5. Replay!Entry(i).answer = Replay!Given(i).answer
      BY DEF Replay!Entry
    <3> QED BY <2>1, <3>2, <3>4, <3>5
  <2>4. i = Len(log) /\ i > 0
    BY <1>6, <2>3, <2>5
  <2> QED BY <2>2, <2>4
<1>5. ASSUME i = Len(log), i > 0, log[i].kind = "question" PROVE Lacks(i)
  <2>1. i \in 1..Len(log) /\ i + 1 \notin 1..Len(log) /\ \A j \in 1..Len(log) : j <= i
    BY <1>1, <1>5
  <2>2. LastEntry(i) /\ Replay!History[i] = Replay!Entry(i)
    BY <1>2, <1>5, <2>1 DEF LastEntry
  <2>3. Replay!AnswerAt(i + 1) = Replay!NoAnswer
    BY <1>1, <2>1 DEF Replay!AnswerAt
  <2>4. Replay!Given(i) = Replay!NoAnswer
    BY <1>5, <2>3 DEF Replay!Given
  <2>5. Replay!Entry(i).answer = Replay!Given(i).answer
    BY DEF Replay!Entry
  <2>6. Replay!NoAnswer.answer = ""
    BY DEF Replay!NoAnswer
  <2> QED BY <2>2, <2>4, <2>5, <2>6 DEF Lacks
<1> QED BY <1>4, <1>5

LEMMA Successor ==
  ASSUME NEW n \in Nat, NEW k, k = n + 1
  PROVE  /\ k > 1 => k - 1 \in 1..n /\ k - 1 = n /\ n > 0
         /\ \A i \in 1..n : i # k /\ (i + 1 = k => i = n /\ i > 0)
         /\ n > 0 => k > 1 /\ k - 1 = n
         /\ k + 1 \notin 1..n \cup {k}
  OBVIOUS

\* One event of the log more changes the history as the loop over the events does:
\* a question opens an entry, an answer is given to the last entry if that has
\* none, and opens one without a question if it has one or there is none.
THEOREM HistoryFollowsTheLog ==
  ASSUME QuestionInv, NEW e \in LogItems, log' = Append(log, e),
         e.kind = "answer" => e.text = ""
  PROVE  LET k == Len(log) + 1
             Opened(x) == [i \in DOMAIN Replay!History \cup {k} |->
                             IF i = k THEN x ELSE Replay!History[i]]
         IN /\ e.kind = "question" =>
                 Replay!History' =
                   Opened([text |-> e.text, asked |-> e.id, answer |-> "", for |-> 0])
            /\ e.kind = "answer" /\ (\A i \in DOMAIN Replay!History : ~Lacks(i)) =>
                 Replay!History' =
                   Opened([text |-> "", asked |-> 0, answer |-> e.answer, for |-> e.id])
            /\ \A last : e.kind = "answer" /\ Lacks(last) =>
                 Replay!History' =
                   [i \in DOMAIN Replay!History |->
                      IF i = last
                      THEN [text |-> Replay!History[i].text, asked |-> Replay!History[i].asked,
                            answer |-> e.answer, for |-> e.id]
                      ELSE Replay!History[i]]
<1> DEFINE H == Replay!History
<1>10. PICK n : n = Len(log)
  OBVIOUS
<1>0. PICK k : k = n + 1
  OBVIOUS
<1>1. /\ n \in Nat /\ k \in Nat \ {0} /\ k \notin 1..n /\ DOMAIN log = 1..n
      /\ DOMAIN log' = 1..n \cup {k} /\ log'[k] = e
      /\ \A i \in 1..n : log'[i] = log[i]
      /\ Replay!Opens' = Replay!Opens \cup
           (IF e.kind = "answer" /\ k > 1 /\ log[k - 1].kind = "question" THEN {} ELSE {k})
      /\ \A i \in 1..n : ~(e.kind = "answer" /\ log[i].kind = "question" /\ i + 1 = k)
                           => Replay!Entry(i)' = Replay!Entry(i)
  BY <1>10, <1>0, EntriesStay, LogIsSeq
<1>2. /\ DOMAIN H = Replay!Opens /\ Replay!Opens \subseteq 1..n
      /\ \A i \in Replay!Opens : H[i] = Replay!Entry(i)
      /\ H' = [i \in Replay!Opens' |-> Replay!Entry(i)']
  BY <1>1 DEF Replay!History, Replay!Opens
<1>3. ASSUME NEW i PROVE Lacks(i) <=> i = n /\ i > 0 /\ log[i].kind = "question"
  BY <1>10, LacksAnAnswer
<1>11. n \in Nat
  BY <1>1
<1>4. k > 1 => k - 1 \in 1..n /\ k - 1 = n /\ n > 0
  BY <1>0, <1>11, Successor
<1>5. \A i \in 1..n : i # k /\ (i + 1 = k => i = n /\ i > 0)
  BY <1>0, <1>11, Successor
<1>6. k + 1 \notin 1..n \cup {k}
  BY <1>0, <1>11, Successor
<1> HIDE DEF H
<1>7. ASSUME e.kind = "question"
      PROVE  H' = [i \in DOMAIN H \cup {k} |->
                     IF i = k THEN [text |-> e.text, asked |-> e.id, answer |-> "", for |-> 0]
                     ELSE H[i]]
  <2>1. Replay!Opens' = Replay!Opens \cup {k}
    BY <1>1, <1>7
  <2>2. \A i \in Replay!Opens : Replay!Entry(i)' = H[i]
    BY <1>1, <1>2, <1>7
  <2>3. Replay!Given(k)' = Replay!NoAnswer
    <3>1. Replay!Given(k)' = Replay!AnswerAt(k + 1)'
      BY <1>1, <1>7 DEF Replay!Given
    <3>2. k + 1 \notin DOMAIN log'
      BY <1>1, <1>6
    <3> QED BY <3>1, <3>2 DEF Replay!AnswerAt
  <2>4. Replay!Entry(k)' = [text |-> e.text, asked |-> e.id, answer |-> "", for |-> 0]
    <3>1. Replay!Entry(k)' = [text |-> e.text, asked |-> e.id,
                              answer |-> Replay!Given(k)'.answer, for |-> Replay!Given(k)'.id]
      BY <1>1, <1>7 DEF Replay!Entry
    <3>2. Replay!NoAnswer.answer = "" /\ Replay!NoAnswer.id = 0
      BY DEF Replay!NoAnswer
    <3> QED BY <2>3, <3>1, <3>2
  <2> QED BY <1>2, <1>5, <2>1, <2>2, <2>4
<1>8. ASSUME e.kind = "answer", \A i \in DOMAIN H : ~Lacks(i)
      PROVE  H' = [i \in DOMAIN H \cup {k} |->
                     IF i = k THEN [text |-> "", asked |-> 0, answer |-> e.answer, for |-> e.id]
                     ELSE H[i]]
  <2>1. ~(n > 0 /\ log[n].kind = "question")
    <3> SUFFICES ASSUME n > 0, log[n].kind = "question" PROVE FALSE
      OBVIOUS
    <3>1. Lacks(n)
      BY <1>3, <3>1
    <3> QED BY <1>8, <3>1 DEF Lacks, LastEntry, H
  <2>2. Replay!Opens' = Replay!Opens \cup {k}
    BY <1>1, <1>4, <2>1
  <2>3. \A i \in Replay!Opens : Replay!Entry(i)' = H[i]
    BY <1>1, <1>2, <1>5, <2>1
  <2>4. Replay!Given(k)' = e
    BY <1>1, <1>8 DEF Replay!Given, Replay!AnswerAt
  <2>5. Replay!Entry(k)' = [text |-> "", asked |-> 0, answer |-> e.answer, for |-> e.id]
    <3>1. Replay!Entry(k)' = [text |-> "", asked |-> 0,
                              answer |-> Replay!Given(k)'.answer, for |-> Replay!Given(k)'.id]
      BY <1>1, <1>8 DEF Replay!Entry
    <3> QED BY <2>4, <3>1
  <2> QED BY <1>2, <1>5, <2>2, <2>3, <2>5
<1>9. ASSUME NEW last, e.kind = "answer", Lacks(last)
      PROVE  H' = [i \in DOMAIN H |->
                     IF i = last THEN [text |-> H[i].text, asked |-> H[i].asked,
                                       answer |-> e.answer, for |-> e.id]
                     ELSE H[i]]
  <2>1. last = n /\ last > 0 /\ log[last].kind = "question"
    BY <1>3, <1>9
  <2>2. k > 1 /\ k - 1 = last /\ last + 1 = k
    <3>1. last = n /\ last > 0
      BY <2>1
    <3> QED BY <1>0, <1>11, <3>1, Successor
  <2>3. Replay!Opens' = Replay!Opens
    BY <1>1, <1>9, <2>1, <2>2
  <2>4. \A i \in Replay!Opens : i # last => Replay!Entry(i)' = H[i]
    BY <1>1, <1>2, <1>5, <2>1
  <2>5. last \in Replay!Opens /\ last \in 1..n
    BY <1>2, <1>9 DEF Lacks, LastEntry, H
  <2>6. log'[last] = log[last]
    BY <1>1, <2>5
  <2>7. Replay!Given(last)' = e
    <3>1. Replay!Given(last)' = Replay!AnswerAt(last + 1)'
      BY <2>1, <2>6 DEF Replay!Given
    <3>2. Replay!AnswerAt(k)' = e
      BY <1>1, <1>9 DEF Replay!AnswerAt
    <3> QED BY <2>2, <3>1, <3>2
  <2>8. Replay!Entry(last)' = [text |-> H[last].text, asked |-> H[last].asked,
                               answer |-> e.answer, for |-> e.id]
    <3>1. H[last].text = log[last].text /\ H[last].asked = log[last].id
      <4>1. H[last] = Replay!Entry(last)
        BY <1>2, <2>5
      <4>2. Replay!Entry(last).text = log[last].text /\ Replay!Entry(last).asked = log[last].id
        BY <2>1 DEF Replay!Entry
      <4> QED BY <4>1, <4>2
    <3>2. Replay!Entry(last)' = [text |-> log'[last].text, asked |-> log'[last].id,
                                 answer |-> Replay!Given(last)'.answer,
                                 for |-> Replay!Given(last)'.id]
      BY <2>1, <2>6 DEF Replay!Entry
    <3> QED BY <2>6, <2>7, <3>1, <3>2
  <2> QED BY <1>2, <2>3, <2>4, <2>8
<1>12. k = Len(log) + 1
  BY <1>0, <1>10
<1> DEFINE Opened(x) == [i \in DOMAIN H \cup {k} |-> IF i = k THEN x ELSE H[i]]
<1>13. e.kind = "question" =>
         H' = Opened([text |-> e.text, asked |-> e.id, answer |-> "", for |-> 0])
  BY <1>7
<1>14. e.kind = "answer" /\ (\A i \in DOMAIN H : ~Lacks(i)) =>
         H' = Opened([text |-> "", asked |-> 0, answer |-> e.answer, for |-> e.id])
  BY <1>8
<1>15. \A last : e.kind = "answer" /\ Lacks(last) =>
         H' = [i \in DOMAIN H |->
                 IF i = last THEN [text |-> H[i].text, asked |-> H[i].asked,
                                   answer |-> e.answer, for |-> e.id]
                 ELSE H[i]]
  <2> TAKE last
  <2> HAVE e.kind = "answer" /\ Lacks(last)
  <2> QED BY <1>9
<1> QED BY <1>12, <1>13, <1>14, <1>15, Zenon DEF H

-----------------------------------------------------------------------------
PartRuns == part \in PartNames

\* Every part keeps its types, beside whatever the others do.
THEOREM AlwaysTyped == Spec => []TypeOK
<1>1. Init => PartRuns
  BY DEF Init, PartRuns
<1>2. PartRuns /\ [Next]_partVars => PartRuns'
  BY DEF PartRuns, Next, partVars, OfResearch, OfReplay, OfOffice, OfLoop, OfQuotas, OfMemory,
         OfWorker, OfGate
<1>3. /\ ResearchInv => Research!TypeOK
      /\ ReplayInv => Replay!TypeOK
      /\ LoopInv => Loop!TypeOK
      /\ MemoryInv => Memory!TypeOK
      /\ WorkerInv => Worker!TypeOK
  BY ReplayTypes DEF ResearchInv, LoopInv, MemoryInv, WorkerInv
<1>4. Spec => []Research!TypeOK
  BY <1>3, ResearchAlwaysKnown, PTL
<1>5. Spec => []Replay!TypeOK
  BY <1>3, ReplayAlways, PTL
<1>6. Spec => []Loop!TypeOK
  BY <1>3, LoopAlwaysTyped, PTL
<1>7. Spec => []Memory!TypeOK
  BY <1>3, MemoryAlways, PTL
<1>8. Spec => []Worker!TypeOK
  BY <1>3, WorkerAlwaysCounts, PTL
<1>9. Spec => []PartRuns
  BY <1>1, <1>2, PTL DEF Spec
<1>10. (/\ PartRuns /\ Research!TypeOK /\ Replay!TypeOK /\ Office!TypeOK
        /\ Loop!TypeOK /\ Quotas!TypeOK /\ Memory!TypeOK /\ Worker!TypeOK /\ Gate!TypeOK)
         => TypeOK
  BY DEF PartRuns, TypeOK
<1> QED BY <1>4, <1>5, <1>6, <1>7, <1>8, <1>9, <1>10, OfficeAlwaysTyped, QuotaAlwaysTyped,
           GateAlwaysTyped, PTL
=============================================================================
