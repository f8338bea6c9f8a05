-------------------------------- MODULE Parts --------------------------------
(***************************************************************************)
(* The workflows a skill may run and the services a task uses that share   *)
(* no state with one another: every behaviour is one of one of them, with  *)
(* the others at rest.                                                     *)
(***************************************************************************)
EXTENDS Naturals, Sequences

CONSTANTS
  Modules, Dropped, PartialIds, ExplicitSets, ResearchPlans, Reviews,
  SoftBudget, HardExtension, MaxWaves, MaxRevisions, MaxAnswers,  \* Research
  Texts, MaxAsks,                                                 \* Replay
  BatchCounts, MaxQaRounds, NormalizeTries,                       \* Office
  Loops, MaxRounds,                                               \* Loop
  Submissions, Periods, Limits, MaxReruns,                        \* Quotas
  Rounds, RawRounds, RecentRounds, Batch,                         \* Memory
  Queries, Urls, MaxSearches, StepLimit, MaxRuns,                 \* Worker
  Deliverables, Banks                                             \* Gate

VARIABLES
  part,  \* the one that runs
  node, explicit, plan, status, drafted, evidence, budget, wave, targets,
  listed, awaiting, decision, replan, skipA, fromB, round, answers,
  at, asksAlways, reviewDriven, cycle, draft, plans, queue, question,
  unlogged, log, disk, report,
  stage, tries, writes, batches, batch, built, repair, qaRound, reply,
  terminal, passed, outcome,
  loop, loopNode, selected, result, review, rounds,
  phase, read, usage, overlap, reruns,
  created, completions, build, summary, blanked,
  runtime, worker, workerNode, limit, asked, brought, count, findings, verdict, steps, runs,
  deliverable, present, bank, due, cited, failed, adrift, judged

Research == INSTANCE ResearchWorkflow
Replay == INSTANCE ClarificationReplay
Office == INSTANCE OfficeWorkflow
Loop == INSTANCE StrategyLoop
Quotas == INSTANCE Quota
Memory == INSTANCE ConversationMemory
Worker == INSTANCE ResearchWorker
Gate == INSTANCE ResearchReview

ASSUME PartsAssumption ==
  /\ Research!ResearchAssumption /\ Replay!ReplayAssumption
  /\ Office!OfficeAssumption /\ Loop!LoopAssumption
  /\ Quotas!QuotaAssumption /\ Memory!MemoryAssumption
  /\ Worker!WorkerAssumption /\ Gate!ReviewAssumption

researchVars == <<node, explicit, plan, status, drafted, evidence, budget, wave, targets,
                  listed, awaiting, decision, replan, skipA, fromB, round, answers>>
replayVars == <<at, asksAlways, reviewDriven, cycle, draft, plans, queue, question,
                unlogged, log, disk, report>>
officeVars == <<stage, tries, writes, batches, batch, built, repair, qaRound, reply,
                terminal, passed, outcome>>
loopVars == <<loop, loopNode, selected, result, review, rounds>>
quotaVars == <<phase, read, usage, overlap, reruns>>
memoryVars == <<created, completions, build, summary, blanked>>
workerVars == <<runtime, worker, workerNode, limit, asked, brought, count, findings,
                verdict, steps, runs>>
gateVars == <<deliverable, present, bank, due, cited, failed, adrift, judged>>
partVars == <<part, researchVars, replayVars, officeVars, loopVars, quotaVars, memoryVars,
              workerVars, gateVars>>

PartNames == {"research", "replay", "office", "loop", "quota", "memory", "worker", "gate"}

\* A part at rest is in one of its initial states.
Init ==
  /\ part \in PartNames
  /\ Research!Init
  /\ part = "research" \/ plan = CHOOSE p \in ResearchPlans : TRUE
  /\ part = "research" \/ explicit = CHOOSE e \in ExplicitSets : TRUE
  /\ Replay!Init /\ (part = "replay" \/ ~asksAlways)
  /\ Office!Init
  /\ Loop!Init /\ (part = "loop" \/ loop = CHOOSE l \in Loops : TRUE)
  /\ Quotas!Init /\ Memory!Init /\ Worker!Init
  /\ Gate!Init
  /\ part = "gate" \/ deliverable = CHOOSE d \in Deliverables : TRUE
  /\ part = "gate" \/ present = {}
  /\ part = "gate" \/ bank = CHOOSE b \in Banks : TRUE

\* A step of one part leaves the others alone.
OfResearch ==
  /\ part = "research"
  /\ UNCHANGED <<part, replayVars, officeVars, loopVars, quotaVars,
                 memoryVars, workerVars, gateVars>>
OfReplay ==
  /\ part = "replay"
  /\ UNCHANGED <<part, researchVars, officeVars, loopVars, quotaVars,
                 memoryVars, workerVars, gateVars>>
OfOffice ==
  /\ part = "office"
  /\ UNCHANGED <<part, researchVars, replayVars, loopVars, quotaVars,
                 memoryVars, workerVars, gateVars>>
OfLoop ==
  /\ part = "loop"
  /\ UNCHANGED <<part, researchVars, replayVars, officeVars, quotaVars,
                 memoryVars, workerVars, gateVars>>
OfQuotas ==
  /\ part = "quota"
  /\ UNCHANGED <<part, researchVars, replayVars, officeVars, loopVars,
                 memoryVars, workerVars, gateVars>>
OfMemory ==
  /\ part = "memory"
  /\ UNCHANGED <<part, researchVars, replayVars, officeVars, loopVars,
                 quotaVars, workerVars, gateVars>>
OfWorker ==
  /\ part = "worker"
  /\ UNCHANGED <<part, researchVars, replayVars, officeVars, loopVars,
                 quotaVars, memoryVars, gateVars>>
OfGate ==
  /\ part = "gate"
  /\ UNCHANGED <<part, researchVars, replayVars, officeVars, loopVars,
                 quotaVars, memoryVars, workerVars>>

Next ==
  \/ OfResearch /\ Research!Next
  \/ OfReplay /\ Replay!Next
  \/ OfOffice /\ Office!Next
  \/ OfLoop /\ Loop!Next
  \/ OfQuotas /\ Quotas!Next
  \/ OfMemory /\ Memory!Next
  \/ OfWorker /\ Worker!Next
  \/ OfGate /\ Gate!Next

\* What goes on without the user, a new task, or a fault.
Proceeds ==
  \/ OfResearch /\ Research!Proceeds
  \/ OfReplay /\ Replay!Work
  \/ OfOffice /\ Office!Next
  \/ OfLoop /\ Loop!Next
  \/ OfQuotas /\ Quotas!Work
  \/ OfMemory /\ Memory!Work
  \/ OfWorker /\ Worker!Work
  \/ OfGate /\ Gate!Next
Spec == Init /\ [][Next]_partVars /\ WF_partVars(Proceeds)

-----------------------------------------------------------------------------
\* Every part keeps its types.
TypeOK ==
  /\ part \in PartNames
  /\ Research!TypeOK /\ Replay!TypeOK /\ Office!TypeOK
  /\ Loop!TypeOK /\ Quotas!TypeOK /\ Memory!TypeOK /\ Worker!TypeOK
  /\ Gate!TypeOK

\* Every part comes to its end, or to a question that only the user can answer,
\* whatever its models and tools return.
PartsEnd ==
  []<>(CASE part = "research" -> Research!Settled
         [] part = "replay" -> Replay!Settled
         [] part = "office" -> Office!Settled
         [] part = "loop" -> Loop!Settled
         [] part = "quota" -> Quotas!Settled
         [] part = "memory" -> Memory!Settled
         [] part = "worker" -> Worker!Settled
         [] part = "gate" -> Gate!Settled)

\* Research: budgets are kept, and a module given up waits for the user.
BudgetHolds == Research!BudgetHolds
GivenUpWaits == Research!GivenUpWaits
\* Research: nothing is missing from the final output unnoticed.
MissingIsKnown == Research!MissingIsKnown
\* Replay: an answer is replayed to the question it was given to.
AnswersFit == Replay!AnswersFit
\* Replay: a fast-forwarded report is the draft the user accepted last, with the
\* modules and the review of its plan.
AcceptedIsReported == Replay!AcceptedIsReported
\* Office: a good result went through the gate, and its files are closed.
OkIsChecked == Office!OkIsChecked
\* Worker: all that its searches brought is kept and counted once.
EvidenceAddsUp == Worker!EvidenceAddsUp
\* Worker and research: what the loop of a worker ends with is a result that the
\* workflow reckons with, within the budget it gave it.
WorkerDelivers ==
  workerNode = "END" =>
    [kind |-> verdict, used |-> worker.searched, text |-> findings # "none",
     found |-> count >= 2]
      \in Research!Results([used |-> runtime.searched, soft |-> limit])
\* Gate and research: a review gives the workflow what it reckons with, and a
\* draft that passes has its sources and its argument.
ReviewIsSound == Gate!ReviewIsSound
\* Quota: the overshoot is bounded by the tasks in flight together.
OvershootBounded == Quotas!OvershootBounded
\* Memory: the summary holds the rounds its watermark counts.
WatermarkHolds == Memory!WatermarkHolds
=============================================================================
