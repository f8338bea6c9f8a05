SPECIFICATION Spec
CONSTANTS
  r = r
  x = x
  Modules = {r, x}
  Dropped = Dropped
  PartialIds = {x}
  ExplicitSets <- MCExplicit
  ResearchPlans <- MCPlans
  Reviews <- MCReviews
  SoftBudget = 1
  HardExtension = 1
  MaxWaves = 3
  MaxRevisions = 1
  MaxAnswers = 1
  Texts = {"B1"}
  MaxAsks = 4
  BatchCounts = {0, 1, 2, 3}
  MaxQaRounds = 2
  NormalizeTries = 2
  Loops = {"patent", "zero_report"}
  MaxRounds = 8
  Submissions = {1, 2, 3}
  Periods = 2
  Limits <- MCLimits
  MaxReruns = 1
  Rounds = 5
  RawRounds = 1
  RecentRounds = 1
  Batch = 2
  Queries = {q1, q2}
  Urls = {u1, u2}
  MaxSearches = 2
  StepLimit = 9
  MaxRuns = 2
  Deliverables = {"paper_guidance", "comparative_analysis", "paper_outline"}
  Banks = {0, 3, 5}
INVARIANTS TypeOK BudgetHolds MissingIsKnown AnswersFit AcceptedIsReported OkIsChecked EvidenceAddsUp WorkerDelivers ReviewIsSound OvershootBounded WatermarkHolds
PROPERTIES GivenUpWaits PartsEnd
CHECK_DEADLOCK FALSE
