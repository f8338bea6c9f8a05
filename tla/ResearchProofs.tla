--------------------------- MODULE ResearchProofs ---------------------------
(***************************************************************************)
(* What is proved about the three parts of the research workflow, for      *)
(* every value of the constants.  Search budgets stay within their bounds, *)
(* and a module that is given up waits for the user; a module without a    *)
(* draft is known of at the end.  What the loop of a worker ends with is   *)
(* what the workflow expects, and all it found is counted once.  A review  *)
(* passes exactly when it has nothing to revise.  All of it for any plan   *)
(* and whatever workers, reviews and users do.                             *)
(***************************************************************************)
EXTENDS Parts, FiniteSetTheorems, TLAPS

Budget == [soft : Nat, hard : Nat, used : Nat, terminal : BOOLEAN]

\* A budget between its bounds; a hard budget is only ever raised.
Good(b) ==
  /\ b.used <= b.soft /\ b.soft <= b.hard
  /\ b.terminal => b.used = b.hard
  /\ SoftBudget + HardExtension <= b.hard
GoodBudgets == {b \in Budget : Good(b)}

\* The inductive invariant.  BudgetHolds does not bound a hard budget from below,
\* and a replan resets it: that must not look like an extension.
BudgetsAreGood == budget \in [Modules -> GoodBudgets]

\* What a step may do to the budget b of a module that is given up.
Waits(b, after) ==
  /\ b.terminal => after.used <= b.used
  /\ b.terminal /\ after.hard > b.hard => awaiting /\ ~awaiting' /\ decision' = "extend"

-----------------------------------------------------------------------------
\* The operators on budgets.
LEMMA NewIsGood ==
  ASSUME Research!ResearchAssumption
  PROVE  Research!NewBudget \in GoodBudgets /\ Research!NewBudget.used = 0
                                   /\ Research!NewBudget.hard = SoftBudget + HardExtension
BY DEF Research!ResearchAssumption, Research!NewBudget, GoodBudgets, Good, Budget

LEMMA ExtendedIsGood ==
  ASSUME NEW b \in GoodBudgets
  PROVE  /\ Research!Extended(b) \in GoodBudgets
         /\ Research!Extended(b).used = b.used /\ Research!Extended(b).hard = b.hard
         /\ Research!Extended(b).terminal = b.terminal /\ b.soft <= Research!Extended(b).soft
         /\ b.soft < b.hard => b.used < Research!Extended(b).soft
<1>1. b \in Budget /\ b.used <= b.soft /\ b.soft <= b.hard
  BY DEF GoodBudgets, Good
<1>2. CASE b.soft >= b.hard
  BY <1>1, <1>2 DEF Research!Extended, Budget
<1>3. CASE ~(b.soft >= b.hard)
  <2> DEFINE next == IF b.soft + 1 > b.used + 1 THEN b.soft + 1 ELSE b.used + 1
             top == IF next > b.hard THEN b.hard ELSE next
  <2>1. Research!Extended(b) = [b EXCEPT !.soft = top]
    BY <1>3 DEF Research!Extended
  <2>2. top \in Nat /\ b.soft <= top /\ top <= b.hard /\ b.used < top
    BY <1>1, <1>3 DEF Budget
  <2> HIDE DEF top
  <2>3. /\ Research!Extended(b) \in Budget /\ Research!Extended(b).soft = top
        /\ Research!Extended(b).used = b.used /\ Research!Extended(b).hard = b.hard
        /\ Research!Extended(b).terminal = b.terminal
    BY <1>1, <2>1, <2>2 DEF Budget
  <2>4. Research!Extended(b) \in GoodBudgets
    BY <1>1, <2>2, <2>3 DEF GoodBudgets, Good, Budget
  <2>5. QED
    BY <2>2, <2>3, <2>4
<1>4. QED
  BY <1>2, <1>3

LEMMA RaisedIsGood ==
  ASSUME NEW b \in GoodBudgets
  PROVE  /\ Research!Raised(b) \in GoodBudgets
         /\ Research!Raised(b).used = b.used /\ Research!Raised(b).hard = b.hard
BY DEF Research!Raised, GoodBudgets, Good, Budget

LEMMA GrantedIsGood ==
  ASSUME Research!ResearchAssumption, NEW b \in GoodBudgets
  PROVE  Research!Granted(b) \in GoodBudgets /\ Research!Granted(b).used = b.used
<1>1. b \in Budget /\ Good(b) /\ HardExtension \in Nat \ {0} /\ SoftBudget \in Nat
  BY DEF GoodBudgets, Research!ResearchAssumption
<1>2. CASE ~b.terminal
  BY <1>1, <1>2 DEF Research!Granted, GoodBudgets
<1>3. CASE b.terminal
  <2> DEFINE hard == b.hard + HardExtension
             soft == IF b.soft > b.used + 1 THEN b.soft ELSE b.used + 1
  <2>1. Research!Granted(b) = [b EXCEPT !.hard = hard, !.terminal = FALSE, !.soft = soft]
    BY <1>3 DEF Research!Granted
  <2>2. /\ hard \in Nat /\ soft \in Nat /\ b.used <= soft /\ soft <= hard
        /\ SoftBudget + HardExtension <= hard
    <3>1. /\ b.soft <= b.hard /\ b.used = b.hard /\ SoftBudget + HardExtension <= b.hard
          /\ b.soft \in Nat /\ b.hard \in Nat
      BY <1>1, <1>3 DEF Good, Budget
    <3>2. QED
      BY <1>1, <3>1
  <2> HIDE DEF hard, soft
  <2>3. Research!Granted(b) =
          [soft |-> soft, hard |-> hard, used |-> b.used, terminal |-> FALSE]
    BY <1>1, <2>1 DEF Budget
  <2>4. QED
    BY <1>1, <2>2, <2>3 DEF GoodBudgets, Good, Budget
<1>4. QED
  BY <1>1, <1>2, <1>3 DEF Budget

\* A worker's result: the searches it made fit its soft budget.
LEMMA ResultFits ==
  ASSUME NEW b \in GoodBudgets, NEW r \in Research!Results(b)
  PROVE  /\ r.kind \in {"completed", "blocked", "error"} /\ r.used \in Nat
         /\ r.text \in BOOLEAN /\ r.found \in BOOLEAN
         /\ b.used <= r.used /\ r.used <= b.soft
<1>1. b.used \in Nat /\ b.soft \in Nat /\ b.used <= b.soft
  BY DEF GoodBudgets, Good, Budget
<1>2. CASE r \in [kind : {"error"}, used : {b.used}, text : {FALSE}, found : {FALSE}]
  <2>1. r.kind = "error" /\ r.used = b.used /\ r.text = FALSE /\ r.found = FALSE
    BY <1>2, Zenon
  <2>2. r.used \in Nat /\ b.used <= r.used /\ r.used <= b.soft
    BY <1>1, <2>1
  <2>3. QED
    BY <2>1, <2>2, Zenon
<1>3. CASE r \in [kind : {"completed", "blocked"}, used : b.used..b.soft,
                  text : BOOLEAN, found : BOOLEAN]
  <2>1. /\ r.kind \in {"completed", "blocked"} /\ r.used \in b.used..b.soft
        /\ r.text \in BOOLEAN /\ r.found \in BOOLEAN
    BY <1>3, Zenon
  <2>2. r.used \in Nat /\ b.used <= r.used /\ r.used <= b.soft
    BY <1>1, <2>1
  <2>3. QED
    BY <2>1, <2>2, Zenon
<1>4. QED
  BY <1>2, <1>3 DEF Research!Results

LEMMA StartedIsGood ==
  ASSUME NEW b \in GoodBudgets
  PROVE  /\ Research!Started(b) \in GoodBudgets
         /\ Research!Started(b).used = b.used /\ Research!Started(b).hard = b.hard
         /\ Research!Started(b).terminal = b.terminal
BY ExtendedIsGood DEF Research!Started

\* The budget of a module and the rounds it has then used.
LEMMA UsedIsGood ==
  ASSUME NEW b \in GoodBudgets, ~b.terminal, NEW n \in Nat, n <= b.soft
  PROVE  LET c == [b EXCEPT !.used = n]
         IN c \in GoodBudgets /\ c.used = n /\ c.hard = b.hard /\ c.terminal = b.terminal
BY DEF GoodBudgets, Good, Budget

\* A module given up is at its limit: it is not searched.
LEMMA GivenUpIsAtLimit ==
  ASSUME NEW b \in GoodBudgets, b.terminal
  PROVE  Research!AtLimit(b)
BY DEF GoodBudgets, Good, Budget, Research!AtLimit

\* A good budget that is given up with all of it used, or taken up again.
LEMMA TerminalIsGood ==
  ASSUME NEW b \in GoodBudgets, NEW g \in BOOLEAN, g => b.used = b.hard
  PROVE  LET c == [b EXCEPT !.terminal = g]
         IN c \in GoodBudgets /\ c.used = b.used /\ c.hard = b.hard
<1>1. b \in Budget /\ Good(b)
  BY DEF GoodBudgets
<1>2. [b EXCEPT !.terminal = g] =
        [soft |-> b.soft, hard |-> b.hard, used |-> b.used, terminal |-> g]
  BY <1>1 DEF Budget
<1> DEFINE c == [soft |-> b.soft, hard |-> b.hard, used |-> b.used, terminal |-> g]
<1>3. /\ c.soft = b.soft /\ c.hard = b.hard /\ c.used = b.used /\ c.terminal = g
      /\ c \in Budget
  BY <1>1 DEF Budget
<1> HIDE DEF c
<1>4. Good(c)
  BY <1>1, <1>3 DEF Good
<1>5. QED
  BY <1>2, <1>3, <1>4 DEF GoodBudgets, c

\* One module's result applied to its budget.
LEMMA AppliedFits ==
  ASSUME NEW m \in Modules, budget[m] \in GoodBudgets, NEW r \in Research!OutcomesOf(m)
  PROVE  /\ Research!Applied(m, r).budget \in GoodBudgets
         /\ Research!Applied(m, r).status \in Research!Statuses
         /\ Research!Applied(m, r).text \in BOOLEAN
         /\ \/ Research!Applied(m, r).status \in {"needs_revision", "blocked"}
            \/ Research!Applied(m, r).status = "completed" /\ Research!Applied(m, r).text
         /\ Research!Applied(m, r).budget.hard = budget[m].hard
         /\ budget[m].terminal => Research!Applied(m, r).budget.used = budget[m].used
<1> DEFINE s == Research!Started(budget[m])
           b0 == [s EXCEPT !.used = r.used]
           b == IF r.found THEN Research!Extended(b0) ELSE b0
<1>1. /\ s \in GoodBudgets /\ s \in Budget
      /\ s.used = budget[m].used /\ s.hard = budget[m].hard /\ s.terminal = budget[m].terminal
  BY StartedIsGood DEF GoodBudgets
<1>2. /\ r.kind \in {"completed", "blocked", "error", "limit"}
      /\ r.text \in BOOLEAN /\ r.found \in BOOLEAN
      /\ r.kind = "limit" <=> Research!AtLimit(budget[m])
      /\ r.kind = "limit" => r.used = budget[m].used /\ ~r.found
      /\ r.used \in Nat /\ r.used <= s.soft
  <2>1. CASE Research!AtLimit(budget[m])
    <3>1. /\ r.kind = "limit" /\ r.used = budget[m].used
          /\ r.text \in BOOLEAN /\ r.found = FALSE
      BY <2>1 DEF Research!OutcomesOf
    <3>2. QED
      BY <1>1, <2>1, <3>1 DEF GoodBudgets, Good, Budget
  <2>2. CASE ~Research!AtLimit(budget[m])
    <3>1. r \in Research!Results(s)
      BY <2>2 DEF Research!OutcomesOf
    <3>2. QED
      BY <1>1, <2>2, <3>1, ResultFits
  <2>3. QED
    BY <2>1, <2>2
<1>3. b0 \in GoodBudgets /\ b0.used = r.used /\ b0.hard = s.hard /\ b0.terminal = s.terminal
  <2>1. CASE r.kind = "limit"
    <3>1. r.used = s.used
      BY <1>1, <1>2, <2>1
    <3>2. b0 = s
      BY <1>1, <3>1 DEF Budget
    <3>3. QED
      BY <1>1, <3>1, <3>2
  <2>2. CASE r.kind # "limit"
    <3>1. ~budget[m].terminal
      BY <1>2, <2>2, GivenUpIsAtLimit
    <3>2. QED
      BY <1>1, <1>2, <3>1, UsedIsGood
  <2>3. QED
    BY <2>1, <2>2
<1> HIDE DEF s, b0
<1>4. b \in GoodBudgets /\ b.used = r.used /\ b.hard = s.hard /\ b.terminal = s.terminal
  BY <1>2, <1>3, ExtendedIsGood
<1>5. b \in Budget /\ b.used <= b.hard /\ (m \in drafted) \in BOOLEAN
  BY <1>4 DEF GoodBudgets, Good, Budget
<1> HIDE DEF b
<1>6. Research!Applied(m, r) =
        CASE r.kind = "error" ->
               [status |-> "needs_revision", budget |-> b, text |-> m \in drafted]
          [] r.kind \in {"blocked", "limit"} /\ b.used < b.hard ->
               [status |-> "needs_revision", budget |-> Research!Extended(b),
                text |-> r.text \/ m \in drafted]
          [] r.kind \in {"blocked", "limit"} /\ b.used >= b.hard ->
               [status |-> "blocked", budget |-> [b EXCEPT !.terminal = TRUE],
                text |-> r.text]
          [] r.kind = "completed" /\ ~r.text ->
               [status |-> "needs_revision", budget |-> b, text |-> m \in drafted]
          [] r.kind = "completed" /\ r.text ->
               [status |-> "completed", budget |-> [b EXCEPT !.terminal = FALSE],
                text |-> TRUE]
  BY DEF Research!Applied, b, b0, s
<1>7. budget[m].terminal => r.kind = "limit" /\ b.used = budget[m].used
  BY <1>2, <1>4, GivenUpIsAtLimit
<1>8. CASE r.kind = "error" \/ (r.kind = "completed" /\ ~r.text)
  <2>1. Research!Applied(m, r) =
          [status |-> "needs_revision", budget |-> b, text |-> m \in drafted]
    BY <1>6, <1>8
  <2>2. QED
    BY <1>1, <1>4, <1>5, <1>7, <2>1 DEF Research!Statuses
<1>9. CASE r.kind \in {"blocked", "limit"} /\ b.used < b.hard
  <2>1. Research!Applied(m, r) = [status |-> "needs_revision", budget |-> Research!Extended(b),
                         text |-> r.text \/ m \in drafted]
    BY <1>5, <1>6, <1>9 DEF Budget
  <2>2. /\ Research!Extended(b) \in GoodBudgets
        /\ Research!Extended(b).used = b.used /\ Research!Extended(b).hard = b.hard
    BY <1>4, ExtendedIsGood
  <2>3. QED
    BY <1>1, <1>2, <1>4, <1>5, <1>7, <2>1, <2>2 DEF Research!Statuses
<1>10. CASE r.kind \in {"blocked", "limit"} /\ b.used >= b.hard
  <2>1. Research!Applied(m, r) = [status |-> "blocked", budget |-> [b EXCEPT !.terminal = TRUE],
                         text |-> r.text]
    BY <1>5, <1>6, <1>10 DEF Budget
  <2>2. /\ [b EXCEPT !.terminal = TRUE] \in GoodBudgets
        /\ [b EXCEPT !.terminal = TRUE].used = b.used
        /\ [b EXCEPT !.terminal = TRUE].hard = b.hard
    <3>1. b.used = b.hard
      BY <1>5, <1>10 DEF Budget
    <3>2. QED
      BY <1>4, <3>1, TerminalIsGood
  <2>3. /\ Research!Applied(m, r).status = "blocked" /\ Research!Applied(m, r).text = r.text
        /\ Research!Applied(m, r).budget = [b EXCEPT !.terminal = TRUE]
    BY <2>1
  <2>4. QED
    BY <1>1, <1>2, <1>4, <1>7, <2>2, <2>3, Zenon DEF Research!Statuses
<1>11. CASE r.kind = "completed" /\ r.text
  <2>1. Research!Applied(m, r) = [status |-> "completed", budget |-> [b EXCEPT !.terminal = FALSE],
                         text |-> TRUE]
    BY <1>6, <1>11
  <2>2. /\ [b EXCEPT !.terminal = FALSE] \in GoodBudgets
        /\ [b EXCEPT !.terminal = FALSE].used = b.used
        /\ [b EXCEPT !.terminal = FALSE].hard = b.hard
    BY <1>4, TerminalIsGood
  <2>3. /\ Research!Applied(m, r).status = "completed" /\ Research!Applied(m, r).text = TRUE
        /\ Research!Applied(m, r).budget = [b EXCEPT !.terminal = FALSE]
    BY <2>1
  <2>4. QED
    BY <1>1, <1>4, <1>7, <2>2, <2>3, Zenon DEF Research!Statuses
<1>12. QED
  BY <1>2, <1>5, <1>8, <1>9, <1>10, <1>11 DEF Budget

-----------------------------------------------------------------------------
\* What a step has to show.
Kept == BudgetsAreGood' /\ \A m \in Modules : Waits(budget[m], budget'[m])

\* A step that changes no budget.
LEMMA SameKept ==
  ASSUME BudgetsAreGood, budget' = budget
  PROVE  Kept
<1>1. \A m \in Modules : budget[m].used \in Nat /\ budget[m].hard \in Nat
  BY DEF BudgetsAreGood, GoodBudgets, Budget
<1>2. \A m \in Modules : Waits(budget[m], budget'[m])
  BY <1>1 DEF Waits
<1>3. QED
  BY <1>2 DEF Kept, BudgetsAreGood

\* A step that raises no hard budget and uses no round of a module given up.
LEMMA NoneRaised ==
  ASSUME BudgetsAreGood, budget' \in [Modules -> GoodBudgets],
         \A m \in Modules : /\ budget'[m].hard <= budget[m].hard
                            /\ budget[m].terminal => budget'[m].used <= budget[m].used
  PROVE  Kept
<1>1. \A m \in Modules : budget[m].hard \in Nat /\ budget'[m].hard \in Nat
  BY DEF BudgetsAreGood, GoodBudgets, Budget
<1>2. \A m \in Modules : Waits(budget[m], budget'[m])
  BY <1>1 DEF Waits
<1>3. QED
  BY <1>2 DEF Kept, BudgetsAreGood

LEMMA PlannerKeeps ==
  ASSUME Research!ResearchAssumption, BudgetsAreGood, Research!Planner
  PROVE  Kept
<1>1. budget' = budget \/ budget' = [m \in Modules |-> Research!NewBudget]
  BY DEF Research!Planner
<1>2. CASE budget' = [m \in Modules |-> Research!NewBudget]
  <2>1. \A m \in Modules : /\ budget[m].used \in Nat
                           /\ SoftBudget + HardExtension <= budget[m].hard
    BY DEF BudgetsAreGood, GoodBudgets, Good, Budget
  <2>2. \A m \in Modules : /\ budget'[m] = Research!NewBudget /\ budget'[m].used = 0
                           /\ budget'[m].hard = SoftBudget + HardExtension
    BY <1>2, NewIsGood
  <2>3. budget' \in [Modules -> GoodBudgets]
    BY <1>2, NewIsGood
  <2>4. \A m \in Modules : /\ budget'[m].hard <= budget[m].hard
                           /\ budget'[m].used <= budget[m].used
    BY <2>1, <2>2
  <2>5. QED
    BY <2>3, <2>4, NoneRaised
<1>3. QED
  BY <1>1, <1>2, SameKept

LEMMA WaveKeeps ==
  ASSUME BudgetsAreGood, Research!Wave
  PROVE  Kept
<1> DEFINE ready == Research!Ready(status)
           partial == Research!Partials(status, drafted, evidence)
<1>1. PICK r \in [ready -> UNION {Research!OutcomesOf(m) : m \in ready}] :
        /\ \A m \in ready : r[m] \in Research!OutcomesOf(m)
        /\ budget' = [m \in Modules |->
                        IF m \in ready THEN [n \in ready |-> Research!Applied(n, r[n])][m].budget
                        ELSE budget[m]]
  BY DEF Research!Wave
<1>2. ready \subseteq Modules
  BY DEF Research!Ready
<1> HIDE DEF ready
<1>3. budget' =
        [m \in Modules |-> IF m \in ready THEN Research!Applied(m, r[m]).budget ELSE budget[m]]
  BY <1>1
<1>4. \A m \in Modules :
        budget[m] \in GoodBudgets /\ budget[m].used \in Nat /\ budget[m].hard \in Nat
  BY DEF BudgetsAreGood, GoodBudgets, Budget
<1>5. \A m \in Modules :
        /\ budget'[m] \in GoodBudgets /\ budget'[m].hard <= budget[m].hard
        /\ budget[m].terminal => budget'[m].used <= budget[m].used
  <2> SUFFICES ASSUME NEW m \in Modules
               PROVE  /\ budget'[m] \in GoodBudgets /\ budget'[m].hard <= budget[m].hard
                      /\ budget[m].terminal => budget'[m].used <= budget[m].used
    OBVIOUS
  <2>1. CASE m \in ready
    <3>1. budget'[m] = Research!Applied(m, r[m]).budget /\ r[m] \in Research!OutcomesOf(m)
      BY <1>1, <1>3, <2>1
    <3>2. /\ budget'[m] \in GoodBudgets /\ budget'[m].hard = budget[m].hard
          /\ budget[m].terminal => budget'[m].used = budget[m].used
      BY <1>4, <3>1, AppliedFits
    <3>3. QED
      BY <1>4, <3>2
  <2>2. CASE m \notin ready
    BY <1>3, <1>4, <2>2
  <2>3. QED
    BY <2>1, <2>2
<1>6. budget' \in [Modules -> GoodBudgets]
  BY <1>3, <1>5
<1>7. QED
  BY <1>5, <1>6, NoneRaised

LEMMA EvaluateKeeps ==
  ASSUME BudgetsAreGood, Research!Evaluate
  PROVE  Kept
<1>1. PICK raised \in {{}, Modules} :
        budget' =
          [m \in Modules |-> IF m \in raised THEN Research!Raised(budget[m]) ELSE budget[m]]
  BY DEF Research!Evaluate
<1>2. \A m \in Modules :
        /\ budget'[m] \in GoodBudgets
        /\ budget'[m].hard = budget[m].hard /\ budget'[m].used = budget[m].used
        /\ budget[m].used \in Nat /\ budget[m].hard \in Nat
  <2>1. \A m \in Modules :
          budget[m] \in GoodBudgets /\ budget[m].used \in Nat /\ budget[m].hard \in Nat
    BY DEF BudgetsAreGood, GoodBudgets, Budget
  <2>2. QED
    BY <1>1, <2>1, RaisedIsGood
<1>3. budget' \in [Modules -> GoodBudgets]
  BY <1>1, <1>2
<1>4. \A m \in Modules : /\ budget'[m].hard <= budget[m].hard
                         /\ budget'[m].used <= budget[m].used
  BY <1>2
<1>5. QED
  BY <1>3, <1>4, NoneRaised

\* The only step that raises a hard budget: an answer that extends it.
LEMMA CheckpointBKeeps ==
  ASSUME Research!ResearchAssumption, BudgetsAreGood, NEW a, Research!CheckpointB(a)
  PROVE  Kept
<1>1. /\ budget' = IF Research!Extends(a)
                   THEN [m \in Modules |-> Research!Granted(budget[m])] ELSE budget
      /\ awaiting' = (awaiting /\ ~Research!Extends(a))
      /\ decision' = IF awaiting /\ a.budget # "" THEN a.budget ELSE decision
  BY DEF Research!CheckpointB
<1>2. CASE ~Research!Extends(a)
  BY <1>1, <1>2, SameKept
<1>3. CASE Research!Extends(a)
  <2>1. awaiting /\ ~awaiting' /\ decision' = "extend"
    BY <1>1, <1>3 DEF Research!Extends
  <2>2. \A m \in Modules : /\ budget'[m] \in GoodBudgets
                           /\ budget'[m].used = budget[m].used /\ budget[m].used \in Nat
    <3>1. \A m \in Modules : budget[m] \in GoodBudgets /\ budget[m].used \in Nat
      BY DEF BudgetsAreGood, GoodBudgets, Budget
    <3>2. QED
      BY <1>1, <1>3, <3>1, GrantedIsGood
  <2>3. \A m \in Modules : Waits(budget[m], budget'[m])
    BY <2>1, <2>2 DEF Waits
  <2>4. budget' \in [Modules -> GoodBudgets]
    BY <1>1, <1>3, <2>2
  <2>5. QED
    BY <2>3, <2>4 DEF Kept, BudgetsAreGood
<1>4. QED
  BY <1>2, <1>3

\* Every step keeps the budgets good and has a module given up wait.
LEMMA StepKeeps ==
  ASSUME Research!ResearchAssumption, BudgetsAreGood, [Research!Next]_(Research!rwVars)
  PROVE  Kept
<1>1. CASE Research!Planner
  BY <1>1, PlannerKeeps
<1>2. CASE Research!Wave
  BY <1>2, WaveKeeps
<1>3. CASE Research!EndWaves \/ Research!Optimize \/ Research!Synthesize
  BY <1>3, SameKept DEF Research!EndWaves, Research!Optimize, Research!Synthesize,
                        Research!modulesState
<1>4. CASE Research!Evaluate
  BY <1>4, EvaluateKeeps
<1>5. ASSUME NEW a, Research!Checkpoint(a) PROVE Kept
  <2>1. CASE Research!CheckpointA(a)
    BY <2>1, SameKept DEF Research!CheckpointA
  <2>2. CASE Research!CheckpointB(a)
    BY <2>2, CheckpointBKeeps
  <2>3. CASE Research!CheckpointC(a)
    BY <2>3, SameKept DEF Research!CheckpointC, Research!modulesState
  <2>4. QED
    BY <1>5, <2>1, <2>2, <2>3 DEF Research!Checkpoint
<1>6. CASE UNCHANGED Research!rwVars
  BY <1>6, SameKept DEF Research!rwVars, Research!modulesState
<1>7. QED
  BY <1>1, <1>2, <1>3, <1>4, <1>5, <1>6 DEF Research!Next, Research!Work

\* A step of the parts is one of the research workflow or leaves it alone.
LEMMA ResearchStep == [Next]_partVars => [Research!Next]_(Research!rwVars)
BY DEF Next, partVars, researchVars, OfResearch, OfReplay, OfOffice, OfLoop,
       OfQuotas, OfMemory, OfWorker, OfGate, Research!rwVars, Research!modulesState, Research!control

-----------------------------------------------------------------------------
\* Every budget is good in every state.
THEOREM BudgetsAlwaysGood == Spec => []BudgetsAreGood
<1>1. Init => BudgetsAreGood
  BY PartsAssumption, NewIsGood DEF PartsAssumption, Init, Research!Init, BudgetsAreGood
<1>2. BudgetsAreGood /\ [Next]_partVars => BudgetsAreGood'
  BY PartsAssumption, ResearchStep, StepKeeps DEF PartsAssumption, Kept
<1>3. QED
  BY <1>1, <1>2, PTL DEF Spec

\* Searches stay within the soft and hard budgets, and a module that is given up
\* has used all of it, for any plan and whatever workers, reviews and users do.
THEOREM BudgetHoldsAlways == Spec => []BudgetHolds
<1>1. BudgetsAreGood => BudgetHolds
  BY DEF BudgetsAreGood, BudgetHolds, Research!BudgetHolds, GoodBudgets, Good
<1>2. QED
  BY <1>1, BudgetsAlwaysGood, PTL

\* A module that is given up is not searched again, and no hard budget of such a
\* module is raised but by the answer of a user who extends it.
THEOREM GivenUpAlwaysWaits == Spec => GivenUpWaits
<1>1. BudgetsAreGood /\ [Next]_partVars =>
        [\A m \in Modules :
           /\ budget[m].terminal => budget'[m].used <= budget[m].used
           /\ budget[m].terminal /\ budget'[m].hard > budget[m].hard
                => awaiting /\ ~awaiting' /\ decision' = "extend"]_(Research!rwVars)
  BY PartsAssumption, ResearchStep, StepKeeps DEF PartsAssumption, Kept, Waits
<1>2. QED
  BY <1>1, BudgetsAlwaysGood, PTL DEF Spec, GivenUpWaits, Research!GivenUpWaits

-----------------------------------------------------------------------------
(******* a module without a draft: what is known of it at the end ********)
\* Modules none of which can ever be ready: each waits for another of them, or for
\* one that the plan does not have.
Stalled(K) == \A k \in K : plan[k] \cap K # {} \/ ~(plan[k] \subseteq Modules)
Circular == UNION {K \in SUBSET Modules : Stalled(K)}

\* The same of modules that are open and have no draft: what holds them up is open
\* and has no draft either.
Untouched == {m \in Modules \ drafted : Research!Open(m, status)}
HeldUp == UNION {K \in SUBSET Untouched : Stalled(K)}

Pending == {m \in Modules : status[m] = "pending"}
AfterWaves == {"evaluate", "checkpoint_b", "checkpoint_c", "optimize", "synthesize", "done"}

\* The inductive invariant.  MissingIsKnown speaks of the end only, and of a
\* module's dependencies one step deep: a review may lock any of them that has a
\* draft.  A module that is still pending after waves that did not run out is in a
\* circle, and a circle that a pending module is in has not been touched.
AllKnown ==
  /\ \A m \in Modules : status[m] \in {"completed", "locked"} => m \in drafted
  /\ Pending \cap Circular \subseteq HeldUp
  /\ node \in AfterWaves =>
       /\ \A m \in Modules \ drafted : status[m] \in {"blocked", "skipped"} => m \in listed
       /\ wave = MaxWaves \/ Pending \subseteq Circular
ResearchInv == Research!TypeOK /\ AllKnown

-----------------------------------------------------------------------------
\* A union of stalled sets is stalled, so that these two are the largest ones.
LEMMA CircularStalls ==
  /\ Circular \subseteq Modules /\ Stalled(Circular)
  /\ HeldUp \subseteq Untouched /\ Stalled(HeldUp)
BY DEF Circular, HeldUp, Stalled

LEMMA StalledIsCircular ==
  ASSUME NEW K \in SUBSET Modules, Stalled(K)
  PROVE  K \subseteq Circular
BY DEF Circular

\* A module that is held up is neither ready nor drafted early.
LEMMA HeldUpWaits ==
  ASSUME ResearchInv, NEW m \in HeldUp
  PROVE  /\ m \in Modules /\ m \notin drafted /\ Research!Open(m, status)
         /\ \E d \in plan[m] : d \in HeldUp \/ d \notin Modules
         /\ m \notin Research!Ready(status)
         /\ m \notin Research!Partials(status, drafted, evidence)
<1>1. m \in Modules /\ m \notin drafted /\ Research!Open(m, status)
  BY CircularStalls DEF Untouched
<1>2. PICK d \in plan[m] : d \in HeldUp \/ d \notin Modules
  BY CircularStalls DEF Stalled
<1>3. Research!StatusOf(d, status) \in {"pending", "needs_revision", "unknown"}
  BY <1>2, CircularStalls DEF Untouched, Research!StatusOf, Research!Open
<1> QED BY <1>1, <1>2, <1>3 DEF Research!Ready, Research!Partials

\* A step that leaves the plan alone keeps what is held up so, if it leaves it open
\* and without a draft, or takes a whole end of the chain away.
LEMMA StillHeldUp ==
  ASSUME ResearchInv, plan' = plan, NEW K \in SUBSET HeldUp, Stalled(K),
         \A m \in K : m \notin drafted' /\ Research!Open(m, status'),
         Pending' \cap Circular \subseteq K
  PROVE  (Pending \cap Circular \subseteq HeldUp)'
<1>1. Circular' = Circular
  BY DEF Circular, Stalled
<1>2. K \subseteq Untouched'
  BY CircularStalls DEF Untouched
<1>3. Stalled(K)'
  BY DEF Stalled
<1>4. K \subseteq HeldUp'
  BY <1>2, <1>3 DEF HeldUp
<1> QED BY <1>1, <1>4

LEMMA WaveKnows ==
  ASSUME Research!ResearchAssumption, ResearchInv, BudgetsAreGood, Research!Wave
  PROVE  /\ status' \in [Modules -> Research!Statuses] /\ drafted' \subseteq Modules
         /\ awaiting' \in BOOLEAN /\ evidence' \in BOOLEAN
         /\ AllKnown'
<1> DEFINE ready == Research!Ready(status)
           partial == Research!Partials(status, drafted, evidence)
<1>1. PICK r \in [ready -> UNION {Research!OutcomesOf(m) : m \in ready}] :
        /\ \A m \in ready : r[m] \in Research!OutcomesOf(m)
        /\ LET after == [m \in ready |-> Research!Applied(m, r[m])] IN
           /\ status' = [m \in Modules |->
                           CASE m \in partial -> "completed"
                             [] m \in ready -> after[m].status
                             [] OTHER -> status[m]]
           /\ drafted' = (drafted \ ready) \cup partial \cup {m \in ready : after[m].text}
           /\ awaiting' = (awaiting \/ \E m \in ready : after[m].status = "blocked")
           /\ evidence' = (evidence \/ \E m \in ready : r[m].found)
  BY DEF Research!Wave
<1>2. ready \subseteq Modules /\ partial \subseteq Modules
  BY DEF Research!ResearchAssumption, Research!Ready, Research!Partials
<1>3. node' = node /\ node = "modules" /\ plan' = plan
  BY DEF Research!Wave, Research!control
<1>4. ASSUME NEW m \in ready
      PROVE  /\ Research!Applied(m, r[m]).status \in Research!Statuses
             /\ \/ Research!Applied(m, r[m]).status \in {"needs_revision", "blocked"}
                \/ Research!Applied(m, r[m]).status = "completed" /\ Research!Applied(m, r[m]).text
  <2>1. r[m] \in Research!OutcomesOf(m) /\ m \in Modules /\ budget[m] \in GoodBudgets
    BY <1>1, <1>2, <1>4 DEF BudgetsAreGood
  <2> QED BY <2>1, AppliedFits
<1>5. /\ \A m \in ready : Research!Open(m, status)
      /\ ready \cap partial = {}
  BY DEF Research!Ready, Research!Partials, Research!Hindered
<1>6. \A m \in HeldUp : m \in Modules /\ m \notin drafted /\ Research!Open(m, status)
                        /\ m \notin ready /\ m \notin partial
  BY HeldUpWaits
<1> HIDE DEF ready, partial
<1>7. \A m \in Modules :
        /\ m \in partial => status'[m] = "completed"
        /\ m \in ready \ partial => status'[m] = Research!Applied(m, r[m]).status
        /\ m \notin ready \cup partial => status'[m] = status[m]
  <2> SUFFICES ASSUME NEW m \in Modules
               PROVE  /\ m \in partial => status'[m] = "completed"
                      /\ m \in ready \ partial =>
                           status'[m] = Research!Applied(m, r[m]).status
                      /\ m \notin ready \cup partial => status'[m] = status[m]
    OBVIOUS
  <2> DEFINE after == [n \in ready |-> Research!Applied(n, r[n])]
  <2>1. m \in ready => after[m].status = Research!Applied(m, r[m]).status
    OBVIOUS
  <2>2. status' = [n \in Modules |-> CASE n \in partial -> "completed"
                                      [] n \in ready -> after[n].status
                                      [] OTHER -> status[n]]
    BY <1>1
  <2> HIDE DEF after
  <2>3. status'[m] = CASE m \in partial -> "completed"
                       [] m \in ready -> after[m].status
                       [] OTHER -> status[m]
    BY <2>2
  <2>4. CASE m \in partial
    BY <1>5, <2>3, <2>4
  <2>5. CASE m \in ready \ partial
    BY <2>1, <2>3, <2>5
  <2>6. CASE m \notin ready \cup partial
    BY <2>3, <2>6
  <2> QED BY <2>4, <2>5, <2>6
<1>8. status' \in [Modules -> Research!Statuses] /\ drafted' \subseteq Modules
      /\ awaiting' \in BOOLEAN /\ evidence' \in BOOLEAN
  <2>1. DOMAIN status' = Modules /\ status' = [m \in Modules |-> status'[m]]
    BY <1>1
  <2>2. \A m \in Modules : status'[m] \in Research!Statuses
    BY <1>4, <1>7 DEF ResearchInv, Research!TypeOK, Research!Statuses
  <2>3. status' \in [Modules -> Research!Statuses]
    BY <2>1, <2>2
  <2> QED BY <1>1, <1>2, <2>3 DEF ResearchInv, Research!TypeOK
<1>9. \A m \in Modules : status'[m] \in {"completed", "locked"} => m \in drafted'
  <2> SUFFICES ASSUME NEW m \in Modules, status'[m] \in {"completed", "locked"}
               PROVE  m \in drafted'
    OBVIOUS
  <2>1. CASE m \in partial
    BY <1>1, <2>1
  <2>2. CASE m \in ready \ partial
    BY <1>1, <1>4, <1>7, <2>2
  <2>3. CASE m \notin ready \cup partial
    BY <1>1, <1>7, <2>3 DEF ResearchInv, AllKnown
  <2> QED BY <2>1, <2>2, <2>3
<1>10. Pending' \subseteq Pending
  BY <1>4, <1>7 DEF Pending
<1>11. \A m \in HeldUp : m \notin drafted' /\ Research!Open(m, status')
  BY <1>1, <1>6, <1>7 DEF Research!Open
<1>12. (Pending \cap Circular \subseteq HeldUp)'
  <2>1. Pending' \cap Circular \subseteq HeldUp
    BY <1>10 DEF ResearchInv, AllKnown
  <2> QED BY <1>3, <1>11, <2>1, CircularStalls, StillHeldUp
<1> QED BY <1>3, <1>8, <1>9, <1>12 DEF AllKnown, AfterWaves

LEMMA EndWavesKnows ==
  ASSUME Research!ResearchAssumption, ResearchInv, Research!EndWaves
  PROVE  /\ status' \in [Modules -> Research!Statuses] /\ drafted' \subseteq Modules
         /\ listed' \subseteq Modules
         /\ AllKnown'
<1> DEFINE partial == Research!Partials(status, drafted, evidence)
           st == [m \in Modules |-> IF m \in partial THEN "completed" ELSE status[m]]
           open == {m \in Modules : Research!Open(m, st)}
           bad == {m \in Modules : st[m] \in {"blocked", "skipped"}}
           skips == Research!Skips(st)
           spared == UNION {K \in SUBSET open : \A m \in K :
                              plan[m] \cap (bad \cup (open \ K)) = {}}
<1>1. /\ node' = "evaluate" /\ plan' = plan /\ wave' = wave
      /\ wave = MaxWaves \/ Research!Ready(status) \cup partial = {}
      /\ status' = [m \in Modules |-> IF m \in skips THEN "skipped" ELSE st[m]]
      /\ listed' = Research!ListedOf(status')
      /\ drafted' = drafted \cup partial
  BY DEF Research!EndWaves, Research!control
<1>2. partial \subseteq Modules /\ skips = open \ spared /\ open \subseteq Modules
  BY DEF Research!ResearchAssumption, Research!Partials, Research!Skips
\* What is spared does not wait for what is blocked or skipped.
<1>3. \A m \in spared : m \in open /\ plan[m] \cap (bad \cup skips) = {}
  BY <1>2
<1>4. \A m \in HeldUp : m \in Modules /\ m \notin drafted /\ Research!Open(m, status)
                        /\ m \notin partial
  BY HeldUpWaits
<1>5. \A m \in partial : Research!Open(m, status)
  BY DEF Research!Partials
<1>6. st \in [Modules -> Research!Statuses]
  BY DEF ResearchInv, Research!TypeOK, Research!Statuses
<1>7. \A m \in Modules : /\ m \in partial => st[m] = "completed"
                         /\ m \notin partial => st[m] = status[m]
  OBVIOUS
<1> HIDE DEF partial, st, spared, skips
<1>8. \A m \in Modules : /\ m \in skips => status'[m] = "skipped"
                         /\ m \notin skips => status'[m] = st[m]
  BY <1>1
<1>9. /\ status' \in [Modules -> Research!Statuses] /\ drafted' \subseteq Modules
      /\ listed' \subseteq Modules
  BY <1>1, <1>2, <1>6 DEF ResearchInv, Research!TypeOK, Research!Statuses, Research!ListedOf
<1>10. \A m \in Modules : status'[m] \in {"completed", "locked"} => m \in drafted'
  BY <1>1, <1>7, <1>8 DEF ResearchInv, AllKnown
<1>11. \A m \in Modules \ drafted' : status'[m] \in {"blocked", "skipped"} => m \in listed'
  BY <1>1 DEF Research!ListedOf
<1>12. Pending' \subseteq Pending /\ Pending' \cap skips = {}
  BY <1>7, <1>8 DEF Pending
\* A circle loses all that waits for what is skipped.
<1>13. (Pending \cap Circular \subseteq HeldUp)'
  <2> DEFINE K == HeldUp \ skips
  <2>1. K \in SUBSET HeldUp
    OBVIOUS
  <2>2. \A m \in HeldUp : m \in open
    BY <1>4, <1>7 DEF Research!Open
  <2>3. \A m \in K : m \in spared
    BY <1>2, <2>2
  <2>4. Stalled(K)
    <3> SUFFICES ASSUME NEW k \in K PROVE plan[k] \cap K # {} \/ ~(plan[k] \subseteq Modules)
      BY DEF Stalled
    <3>1. PICK d \in plan[k] : d \in HeldUp \/ d \notin Modules
      BY HeldUpWaits
    <3>2. d \notin skips
      BY <1>3, <2>3, <3>1
    <3> QED BY <3>1, <3>2
  <2>5. \A m \in K : m \notin drafted' /\ Research!Open(m, status')
    BY <1>1, <1>4, <1>7, <1>8 DEF Research!Open
  <2>6. Pending' \cap Circular \subseteq K
    BY <1>12 DEF ResearchInv, AllKnown
  <2> QED BY <1>1, <2>1, <2>4, <2>5, <2>6, StillHeldUp
\* Unless the waves ran out, what is still open is in a circle.
<1>14. wave # MaxWaves => Pending' \subseteq Circular
  <2> SUFFICES ASSUME wave # MaxWaves PROVE Pending' \subseteq Circular
    OBVIOUS
  <2> DEFINE K == open \ skips
  <2>1. partial = {} /\ Research!Ready(status) = {} /\ st = status
    <3>1. partial = {} /\ Research!Ready(status) = {}
      BY <1>1
    <3>2. \A m \in Modules : st[m] = status[m]
      BY <1>7, <3>1
    <3> QED BY <1>6, <3>1, <3>2 DEF ResearchInv, Research!TypeOK
  <2>2. K \in SUBSET Modules
    BY <1>2
  <2>3. Stalled(K)
    <3> SUFFICES ASSUME NEW k \in K, plan[k] \subseteq Modules PROVE plan[k] \cap K # {}
      BY DEF Stalled
    <3>1. k \in Modules /\ Research!Open(k, status) /\ k \in spared
      BY <1>2, <2>1
    <3>2. PICK d \in plan[k] : Research!StatusOf(d, status) \notin {"completed", "locked"}
      BY <2>1, <3>1 DEF Research!Ready
    <3>3. d \in Modules /\ status[d] \in Research!Statuses \ {"completed", "locked"}
      BY <3>2 DEF Research!StatusOf, ResearchInv, Research!TypeOK
    <3>4. d \notin bad /\ d \notin skips
      BY <1>3, <3>1, <3>2
    <3>5. d \in open
      BY <2>1, <3>3, <3>4 DEF Research!Open, Research!Statuses
    <3> QED BY <3>2, <3>4, <3>5
  <2>4. K \subseteq Circular
    BY <2>2, <2>3, StalledIsCircular
  <2>5. Pending' \subseteq K
    BY <1>7, <1>8, <1>12, <2>1 DEF Pending, Research!Open
  <2> QED BY <2>4, <2>5
<1>15. Circular' = Circular
  BY <1>1 DEF Circular, Stalled
<1> QED BY <1>1, <1>9, <1>10, <1>11, <1>13, <1>14, <1>15 DEF AllKnown

\* What follows the waves leaves drafts and lists alone, and locks only what has a
\* draft.
LEMMA ReviewKnows ==
  ASSUME ResearchInv, plan' = plan, drafted' = drafted, listed' = listed,
         status' \in [Modules -> Research!Statuses],
         \A m \in Modules :
           \/ status'[m] = status[m] \/ status'[m] = "needs_revision"
           \/ status'[m] = "locked" /\ m \in drafted,
         node' \in AfterWaves => node \in AfterWaves /\ wave' = wave
  PROVE  AllKnown'
<1>1. \A m \in Modules : status'[m] \in {"completed", "locked"} => m \in drafted'
  BY DEF ResearchInv, AllKnown
<1>2. Pending' \subseteq Pending
  BY DEF Pending
<1>3. \A m \in HeldUp : m \notin drafted' /\ Research!Open(m, status')
  BY HeldUpWaits DEF Research!Open
<1>4. Pending' \cap Circular \subseteq HeldUp
  BY <1>2 DEF ResearchInv, AllKnown
<1>5. (Pending \cap Circular \subseteq HeldUp)'
  BY <1>3, <1>4, CircularStalls, StillHeldUp
<1>6. Circular' = Circular
  BY DEF Circular, Stalled
<1>7. \A m \in Modules \ drafted' : status'[m] \in {"blocked", "skipped"} => status'[m] = status[m]
  OBVIOUS
<1>8. node' \in AfterWaves =>
        /\ \A m \in Modules \ drafted' : status'[m] \in {"blocked", "skipped"} => m \in listed'
        /\ wave' = MaxWaves \/ Pending' \subseteq Circular'
  BY <1>2, <1>6, <1>7 DEF ResearchInv, AllKnown
<1> QED BY <1>1, <1>5, <1>8 DEF AllKnown

\* A new plan starts all over: every circle of it is untouched.
LEMMA PlannerKnows ==
  ASSUME Research!Planner
  PROVE  AllKnown'
<1>1. /\ status' = [m \in Modules |-> "pending"] /\ drafted' = {}
      /\ node' = "checkpoint_a"
  BY DEF Research!Planner
<1>2. (HeldUp = Circular)'
  BY <1>1 DEF HeldUp, Circular, Untouched, Research!Open
<1> QED BY <1>1, <1>2 DEF AllKnown, AfterWaves

\* The types, and AllKnown, under every step of the workflow.
LEMMA ResearchKeeps ==
  ASSUME Research!ResearchAssumption, ResearchInv, BudgetsAreGood, BudgetsAreGood',
         [Research!Next]_(Research!rwVars)
  PROVE  ResearchInv'
<1> USE DEF Research!modulesState, Research!control
<1> DEFINE Budgets == [Modules -> [soft : Nat, hard : Nat, used : Nat, terminal : BOOLEAN]]
<1>0. budget' \in Budgets
  BY DEF BudgetsAreGood, GoodBudgets, Budget
<1>1. CASE Research!Planner
  <2>1. /\ plan' \in [Modules -> SUBSET (Modules \cup {Dropped})]
        /\ status' \in [Modules -> Research!Statuses]
    BY <1>1 DEF Research!Planner, Research!ResearchAssumption, Research!Statuses
  <2>2. /\ node' = "checkpoint_a" /\ drafted' = {} /\ listed' = {} /\ targets' = {}
        /\ wave' = 0 /\ explicit' = explicit /\ answers' = answers
    BY <1>1 DEF Research!Planner
  <2>3. /\ evidence' = FALSE /\ replan' = FALSE /\ fromB' = FALSE
        /\ skipA' \in BOOLEAN /\ awaiting' \in BOOLEAN
    BY <1>1 DEF Research!Planner, ResearchInv, Research!TypeOK
  <2>4. round' \in {round, 0}
    BY <1>1 DEF Research!Planner
  <2>5. decision' \in Research!Decisions
    BY <1>1 DEF Research!Planner, ResearchInv, Research!TypeOK, Research!Decisions
  <2>6. round' \in Nat /\ answers' \in Nat /\ wave' \in Nat
    <3>1. round \in Nat /\ answers \in Nat
      BY DEF ResearchInv, Research!TypeOK
    <3>2. answers' = answers /\ wave' = 0
      BY <2>2
    <3> QED BY <2>4, <3>1, <3>2
  <2>7. /\ explicit' \subseteq Research!Checkpoints /\ node' \in Research!Checkpoints
        /\ targets' \subseteq Modules \cup {Dropped}
        /\ drafted' \subseteq Modules /\ listed' \subseteq Modules
    BY <2>2 DEF ResearchInv, Research!TypeOK, Research!Checkpoints
  <2>8. Research!TypeOK'
    BY <1>0, <2>1, <2>2, <2>3, <2>5, <2>6, <2>7 DEF Research!TypeOK
  <2> QED BY <1>1, <2>8, PlannerKnows DEF ResearchInv
<1>2. CASE Research!Wave
  <2>0. /\ wave' = wave + 1 /\ UNCHANGED <<node, listed>> /\ UNCHANGED Research!control
        /\ awaiting' \in BOOLEAN /\ evidence' \in BOOLEAN
    BY <1>2 DEF Research!Wave, ResearchInv, Research!TypeOK
  <2>1. Research!TypeOK'
    BY <1>0, <1>2, <2>0, WaveKnows DEF ResearchInv, Research!TypeOK
  <2> QED BY <1>2, <2>1, WaveKnows DEF ResearchInv
<1>3. CASE Research!EndWaves
  <2>1. Research!TypeOK'
    BY <1>0, <1>3, EndWavesKnows DEF Research!EndWaves, ResearchInv, Research!TypeOK
  <2> QED BY <1>3, <2>1, EndWavesKnows DEF ResearchInv
<1>4. CASE Research!Evaluate
  <2>1. PICK tg \in Reviews : /\ targets' = tg
                             /\ replan' \in BOOLEAN
                             /\ status' = Research!Reviewed(tg)
                             /\ node' \in {"checkpoint_c", "checkpoint_b"}
    BY <1>4 DEF Research!Evaluate
  <2>2. /\ node = "evaluate" /\ wave' = wave
        /\ UNCHANGED <<drafted, evidence, listed, awaiting,
                       explicit, plan, decision, skipA, fromB, round, answers>>
    BY <1>4 DEF Research!Evaluate
  <2>3. \A m \in Modules :
          \/ status'[m] = status[m] \/ status'[m] = "needs_revision"
          \/ status'[m] = "locked" /\ m \in drafted
    BY <2>1 DEF Research!Reviewed
  <2>4. status' \in [Modules -> Research!Statuses]
    <3>1. DOMAIN status' = Modules /\ status' = [m \in Modules |-> status'[m]]
      BY <2>1 DEF Research!Reviewed
    <3>2. \A m \in Modules : status'[m] \in Research!Statuses
      BY <2>3 DEF ResearchInv, Research!TypeOK, Research!Statuses
    <3> QED BY <3>1, <3>2
  <2>5. targets' \subseteq Modules \cup {Dropped}
    BY <2>1 DEF Research!ResearchAssumption
  <2>6. Research!TypeOK'
    BY <1>0, <2>1, <2>2, <2>4, <2>5 DEF ResearchInv, Research!TypeOK, Research!Checkpoints
  <2> QED BY <2>1, <2>2, <2>3, <2>4, <2>6, ReviewKnows DEF ResearchInv, AfterWaves
<1>5. CASE Research!Optimize
  <2>1. \/ node' = "evaluate" /\ UNCHANGED <<status, wave, round>>
        \/ /\ node' = "modules" /\ wave' = 0 /\ round' = round + 1
           /\ status' = [m \in Modules |-> IF m \in targets THEN "needs_revision" ELSE status[m]]
    BY <1>5 DEF Research!Optimize
  <2>2. /\ node = "optimize"
        /\ UNCHANGED <<drafted, evidence, listed, awaiting,
                       explicit, plan, targets, decision, replan, skipA, fromB, answers>>
    BY <1>5 DEF Research!Optimize
  <2>3. status' \in [Modules -> Research!Statuses]
    BY <2>1 DEF ResearchInv, Research!TypeOK, Research!Statuses
  <2>4. Research!TypeOK'
    BY <1>0, <2>1, <2>2, <2>3 DEF ResearchInv, Research!TypeOK
  <2>5. \A m \in Modules : status'[m] = status[m] \/ status'[m] = "needs_revision"
    BY <2>1
  <2> QED BY <2>1, <2>2, <2>3, <2>4, <2>5, ReviewKnows DEF ResearchInv, AfterWaves
<1>6. CASE Research!Synthesize
  <2>1. Research!TypeOK'
    BY <1>0, <1>6 DEF Research!Synthesize, ResearchInv, Research!TypeOK
  <2>2. AllKnown'
    BY <1>6, ReviewKnows DEF Research!Synthesize, ResearchInv, Research!TypeOK, AfterWaves
  <2> QED BY <2>1, <2>2 DEF ResearchInv
<1>7. ASSUME NEW a \in Research!Answers \cup {Research!Silence}, Research!Checkpoint(a)
      PROVE  ResearchInv'
  <2>1. /\ a.action \in {"accept", "revise", "replan"}
        /\ a.budget \in Research!Decisions
    <3>1. CASE a \in Research!Answers
      BY <3>1 DEF Research!Answers
    <3>2. CASE a = Research!Silence
      BY <3>2 DEF Research!Silence, Research!Decisions
    <3> QED BY <1>7, <3>1, <3>2
  <2>2. ASSUME NEW ask, Research!Answered(ask, a)
        PROVE  answers' \in Nat
    BY <2>2 DEF Research!Answered, ResearchInv, Research!TypeOK
  <2>3. CASE Research!CheckpointA(a)
    <3>1. Research!TypeOK'
      BY <1>0, <2>2, <2>3 DEF Research!CheckpointA, ResearchInv, Research!TypeOK
    <3>2. AllKnown'
      BY <2>3, ReviewKnows DEF Research!CheckpointA, ResearchInv, Research!TypeOK, AfterWaves
    <3> QED BY <3>1, <3>2 DEF ResearchInv
  <2>4. CASE Research!CheckpointB(a)
    <3>1. /\ decision' \in Research!Decisions /\ awaiting' \in BOOLEAN
          /\ replan' \in BOOLEAN /\ answers' \in Nat
      BY <2>1, <2>2, <2>4 DEF Research!CheckpointB, ResearchInv, Research!TypeOK
    <3>2. targets' \subseteq Modules \cup {Dropped}
      BY <2>4 DEF Research!CheckpointB, Research!ResearchAssumption, ResearchInv, Research!TypeOK
    <3>3. /\ node = "checkpoint_b" /\ node' \in {"planner", "synthesize", "optimize"}
          /\ fromB' = TRUE
          /\ UNCHANGED <<status, drafted, evidence, wave, listed, explicit, plan, skipA, round>>
      BY <2>4 DEF Research!CheckpointB, Research!RouteB
    <3>4. Research!TypeOK'
      BY <1>0, <3>1, <3>2, <3>3 DEF ResearchInv, Research!TypeOK
    <3>5. AllKnown'
      BY <3>3, ReviewKnows DEF ResearchInv, Research!TypeOK, AfterWaves
    <3> QED BY <3>4, <3>5 DEF ResearchInv
  <2>5. CASE Research!CheckpointC(a)
    <3>1. targets' \subseteq Modules \cup {Dropped}
      BY <2>5 DEF Research!CheckpointC, Research!ResearchAssumption
    <3>2. /\ node = "checkpoint_c" /\ node' \in {"planner", "synthesize", "optimize"}
          /\ fromB' = FALSE /\ replan' \in BOOLEAN
          /\ UNCHANGED <<status, drafted, evidence, wave, listed, awaiting, explicit, plan,
                         decision, skipA, round>>
      BY <2>1, <2>5 DEF Research!CheckpointC
    <3>3. answers' \in Nat
      BY <2>2, <2>5 DEF Research!CheckpointC
    <3>4. Research!TypeOK'
      BY <1>0, <3>1, <3>2, <3>3 DEF ResearchInv, Research!TypeOK
    <3>5. AllKnown'
      BY <3>2, ReviewKnows DEF ResearchInv, Research!TypeOK, AfterWaves
    <3> QED BY <3>4, <3>5 DEF ResearchInv
  <2> QED BY <1>7, <2>3, <2>4, <2>5 DEF Research!Checkpoint
<1>8. CASE UNCHANGED Research!rwVars
  <2>1. Research!TypeOK'
    BY <1>8 DEF Research!rwVars, ResearchInv, Research!TypeOK
  <2>2. AllKnown'
    BY <1>8, ReviewKnows DEF Research!rwVars, ResearchInv, Research!TypeOK
  <2> QED BY <2>1, <2>2 DEF ResearchInv
<1> QED BY <1>1, <1>2, <1>3, <1>4, <1>5, <1>6, <1>7, <1>8
        DEF Research!Next, Research!Work

\* The types of the research workflow, and its inductive invariant.
LEMMA ResearchAlwaysKnown == Spec => []ResearchInv
<1>1. Init => ResearchInv
  <2> SUFFICES ASSUME Init PROVE ResearchInv
    OBVIOUS
  <2>1. Research!ResearchAssumption
    BY PartsAssumption DEF PartsAssumption
  <2>2. BudgetsAreGood
    BY <2>1, NewIsGood DEF Init, Research!Init, BudgetsAreGood
  <2>3. budget \in [Modules -> [soft : Nat, hard : Nat, used : Nat, terminal : BOOLEAN]]
    BY <2>2 DEF BudgetsAreGood, GoodBudgets, Budget
  <2>4. /\ status = [m \in Modules |-> "pending"] /\ drafted = {} /\ node = "planner"
        /\ explicit \in ExplicitSets /\ plan \in ResearchPlans
    BY DEF Init, Research!Init
  <2>5. /\ explicit \subseteq Research!Checkpoints /\ status \in [Modules -> Research!Statuses]
        /\ plan \in [Modules -> SUBSET (Modules \cup {Dropped})]
    BY <2>1, <2>4 DEF Research!ResearchAssumption, Research!Checkpoints, Research!Statuses
  <2>6. Research!TypeOK
    BY <2>3, <2>4, <2>5 DEF Init, Research!Init, Research!TypeOK, Research!Decisions
  <2>7. HeldUp = Circular
    BY <2>4 DEF HeldUp, Circular, Untouched, Research!Open
  <2> QED BY <2>4, <2>6, <2>7 DEF ResearchInv, AllKnown, AfterWaves
<1>2. ResearchInv /\ BudgetsAreGood /\ BudgetsAreGood' /\ [Next]_partVars => ResearchInv'
  BY PartsAssumption, ResearchStep, ResearchKeeps DEF PartsAssumption
<1> QED BY <1>1, <1>2, BudgetsAlwaysGood, PTL DEF Spec

\* A module without a draft is never left out of the final output unnoticed, for
\* any plan, circular or not, and whatever workers, reviews and users do.
THEOREM MissingAlwaysKnown == Spec => []MissingIsKnown
<1>1. ResearchInv => MissingIsKnown
  <2> SUFFICES ASSUME ResearchInv, node = "done", NEW m \in Modules \ drafted,
                      m \notin listed, status[m] # "needs_revision", wave # MaxWaves
               PROVE  \E d \in plan[m] : Research!StatusOf(d, status)
                                          \in {"pending", "needs_revision", "unknown"}
    BY DEF MissingIsKnown, Research!MissingIsKnown
  <2>1. status[m] = "pending"
    BY DEF ResearchInv, Research!TypeOK, AllKnown, AfterWaves, Research!Statuses
  <2>2. m \in HeldUp
    BY <2>1 DEF ResearchInv, AllKnown, AfterWaves, Pending
  <2>3. PICK d \in plan[m] : d \in HeldUp \/ d \notin Modules
    BY <2>2, HeldUpWaits
  <2>4. d \in HeldUp => d \in Modules /\ Research!Open(d, status)
    BY HeldUpWaits
  <2> QED BY <2>3, <2>4 DEF Research!StatusOf, Research!Open
<1> QED BY <1>1, ResearchAlwaysKnown, PTL

-----------------------------------------------------------------------------
(******************************* The worker *******************************)
HasRounds(s) == "searched" \in DOMAIN s /\ s.searched \in Nat

\* The inductive invariant.  WorkerDelivers speaks of the end only: a run keeps
\* within its budget because it searches only with rounds left, finds nothing
\* without a search, and ends only when nothing more is wanted of it.
SearchesFit ==
  /\ limit \in Nat /\ HasRounds(runtime) /\ HasRounds(worker)
  /\ workerNode \notin Worker!Idle =>
       /\ runtime.searched <= worker.searched /\ worker.searched <= limit
       /\ count # 0 \/ workerNode = "integrate_evidence"
            => runtime.searched < worker.searched
  /\ workerNode = "run_tools" => worker.searched < limit
  /\ workerNode = "END" => verdict \in {"completed", "blocked"}

\* A step of the parts is one of the worker or leaves it alone.
LEMMA WorkerStep == [Next]_partVars => [Worker!Next]_(Worker!wkVars)
BY DEF Next, partVars, workerVars, OfResearch, OfReplay, OfOffice, OfLoop,
       OfQuotas, OfMemory, OfWorker, OfGate, Worker!wkVars

\* Every node of a run, its start and its end.
LEMMA WorkerKeeps ==
  ASSUME Worker!WorkerAssumption, SearchesFit, [Worker!Next]_(Worker!wkVars)
  PROVE  SearchesFit'
<1> USE DEF SearchesFit, HasRounds, Worker!Idle, Worker!Left
<1>1. CASE Worker!Start
  <2>1. limit' \in Nat /\ limit' > runtime.searched
    BY <1>1 DEF Worker!Start, Worker!WorkerAssumption
  <2>2. QED
    BY <1>1, <2>1 DEF Worker!Start
<1>2. CASE Worker!PlanSearch
  BY <1>2 DEF Worker!PlanSearch, Worker!Step
<1>3. CASE Worker!RunTools
  <2>1. /\ worker'.searched = worker.searched + 1 /\ "searched" \in DOMAIN worker'
        /\ workerNode = "run_tools" /\ workerNode' = "integrate_evidence"
        /\ UNCHANGED <<runtime, limit, count, verdict>>
    BY <1>3 DEF Worker!RunTools, Worker!Step
  <2>2. QED
    BY <2>1
<1>4. CASE Worker!IntegrateEvidence
  <2>1. /\ worker'.searched = worker.searched /\ "searched" \in DOMAIN worker'
        /\ workerNode = "integrate_evidence" /\ workerNode' \in {"draft_module", "plan_search"}
        /\ UNCHANGED <<runtime, limit, verdict>>
    BY <1>4 DEF Worker!IntegrateEvidence, Worker!Step
  <2>2. QED
    BY <2>1
<1>5. CASE Worker!DraftModule
  BY <1>5 DEF Worker!DraftModule, Worker!Step
<1>6. CASE Worker!ValidateModule
  <2>1. verdict' \in {"completed", "needs_more_evidence", "blocked"}
    BY <1>6 DEF Worker!ValidateModule, Worker!VerdictOf, Worker!Fallback
  <2>2. verdict' = "needs_more_evidence" => Worker!Left > 0
    BY <1>6 DEF Worker!ValidateModule, Worker!VerdictOf
  <2>3. workerNode' = IF verdict' = "needs_more_evidence" THEN "plan_search" ELSE "END"
    BY <1>6, <2>2 DEF Worker!ValidateModule, Worker!Step
  <2>4. QED
    BY <1>6, <2>1, <2>3 DEF Worker!ValidateModule, Worker!Step
<1>7. CASE Worker!Return \/ Worker!Fail
  BY <1>7 DEF Worker!Return, Worker!Fail
<1>8. CASE UNCHANGED Worker!wkVars
  BY <1>8 DEF Worker!wkVars
<1>9. QED
  BY <1>1, <1>2, <1>3, <1>4, <1>5, <1>6, <1>7, <1>8 DEF Worker!Next, Worker!Work

\* What the loop of a worker ends with is a result the workflow reckons with, for
\* any budget and whatever the model says and the tools return.
THEOREM AlwaysDelivers == Spec => []WorkerDelivers
<1>1. Init => SearchesFit
  BY DEF Init, Worker!Init, Worker!Nothing, SearchesFit, HasRounds, Worker!Idle
<1>2. SearchesFit /\ [Next]_partVars => SearchesFit'
  BY PartsAssumption, WorkerStep, WorkerKeeps DEF PartsAssumption
<1>3. SearchesFit => WorkerDelivers
  <2> SUFFICES ASSUME SearchesFit, workerNode = "END"
               PROVE  [kind |-> verdict, used |-> worker.searched, text |-> findings # "none",
                       found |-> count >= 2]
                        \in Research!Results([used |-> runtime.searched, soft |-> limit])
    BY DEF WorkerDelivers
  <2>1. /\ verdict \in {"completed", "blocked"}
        /\ worker.searched \in runtime.searched..limit
        /\ count # 0 => worker.searched > runtime.searched
    BY DEF SearchesFit, HasRounds, Worker!Idle
  <2>2. count >= 2 => worker.searched > runtime.searched
    BY <2>1
  <2> DEFINE text == findings # "none"
             found == count >= 2
  <2>3. text \in BOOLEAN /\ found \in BOOLEAN
    OBVIOUS
  <2> HIDE DEF text, found
  <2>4. QED
    <3>1. found => worker.searched > runtime.searched
      BY <2>2 DEF found
    <3>2. [kind |-> verdict, used |-> worker.searched, text |-> text, found |-> found]
            \in Research!Results([used |-> runtime.searched, soft |-> limit])
      BY <2>1, <2>3, <3>1 DEF Research!Results
    <3>3. QED
      BY <3>2 DEF text, found
<1>4. QED
  BY <1>1, <1>2, <1>3, PTL DEF Spec

\* All that the answers of a cache bring.
Brings(c) == UNION {c[q] : q \in DOMAIN c}
Caches == UNION {[Q -> SUBSET Worker!Records] : Q \in SUBSET Queries}

\* The inductive invariant.  EvidenceAddsUp speaks of two runs and the end of one:
\* through the nodes of a run, the count is what the evidence has grown by since it
\* started, and an answer is in the cache one node before it is in the evidence.
WorkerInv ==
  /\ Worker!TypeOK
  /\ Brings(runtime.cache) \subseteq runtime.pack
  /\ workerNode \notin Worker!Idle =>
       /\ runtime.pack \subseteq worker.pack
       /\ Worker!Cardinality(worker.pack) = Worker!Cardinality(runtime.pack) + count
       /\ Brings(worker.cache) \subseteq
            worker.pack \cup IF workerNode = "integrate_evidence" THEN UNION brought ELSE {}

\* Evidence grows by as many records as it has more.
LEMMA PacksGrow ==
  ASSUME Worker!WorkerAssumption, NEW S \in SUBSET Worker!Records, NEW T \in SUBSET S
  PROVE  /\ Worker!Cardinality(S) \in Nat /\ Worker!Cardinality(T) \in Nat
         /\ Worker!Cardinality(T) <= Worker!Cardinality(S)
<1>1. \A Q : /\ Worker!Cardinality(Q) = Cardinality(Q)
             /\ Worker!IsFiniteSet(Q) = IsFiniteSet(Q)
  BY DEF Worker!Cardinality, Cardinality, Worker!IsFiniteSet, IsFiniteSet
<1>2. IsFiniteSet(Worker!Records)
  BY <1>1 DEF Worker!WorkerAssumption, Worker!Records
<1>3. IsFiniteSet(S)
  BY <1>2, FS_Subset
<1>4. IsFiniteSet(T) /\ Cardinality(T) <= Cardinality(S)
  BY <1>3, FS_Subset
<1> QED BY <1>1, <1>3, <1>4, FS_CardinalityType

\* What a state of a module is made of.
LEMMA StateIs ==
  /\ \A s \in Worker!State :
       /\ s.pack \subseteq Worker!Records /\ s.cache \in Caches
       /\ s.searched \in Nat /\ s.fresh \in BOOLEAN
       /\ \A c \in Caches, n \in Nat : [s EXCEPT !.cache = c, !.searched = n] \in Worker!State
       /\ \A p \in SUBSET Worker!Records, f \in BOOLEAN :
            [s EXCEPT !.pack = p, !.fresh = f] \in Worker!State
  /\ Worker!Nothing \in Worker!State /\ Brings(Worker!Nothing.cache) = {}
<1>1. Worker!State = [pack : SUBSET Worker!Records, cache : Caches,
                      searched : Nat, fresh : BOOLEAN]
  BY DEF Worker!State, Caches
<1>2. [q \in {} |-> {}] \in Caches
  BY DEF Caches
<1> HIDE DEF Caches
<1>3. Worker!Nothing \in Worker!State
  BY <1>1, <1>2 DEF Worker!Nothing
<1>4. Brings(Worker!Nothing.cache) = {}
  <2>1. Worker!Nothing.cache = [q \in {} |-> {}]
    BY DEF Worker!Nothing
  <2>2. DOMAIN Worker!Nothing.cache = {}
    BY <2>1
  <2>3. ASSUME NEW c, DOMAIN c = {} PROVE Brings(c) = {}
    BY <2>3 DEF Brings
  <2> QED BY <2>2, <2>3
<1>5. ASSUME NEW s \in Worker!State
      PROVE  /\ s.pack \subseteq Worker!Records /\ s.cache \in Caches
             /\ s.searched \in Nat /\ s.fresh \in BOOLEAN
  BY <1>1
<1>6. ASSUME NEW s \in Worker!State, NEW c \in Caches, NEW n \in Nat
      PROVE  [s EXCEPT !.cache = c, !.searched = n] \in Worker!State
  BY <1>1
<1>7. ASSUME NEW s \in Worker!State, NEW p \in SUBSET Worker!Records, NEW f \in BOOLEAN
      PROVE  [s EXCEPT !.pack = p, !.fresh = f] \in Worker!State
  BY <1>1
<1> QED BY <1>3, <1>4, <1>5, <1>6, <1>7

\* Queries answered: the cache has all their answers, and brings no more than they
\* did and it brought before.
LEMMA RunToolsCounts ==
  ASSUME Worker!WorkerAssumption, WorkerInv, Worker!RunTools
  PROVE  WorkerInv'
<1>1. PICK answer \in [asked -> UNION {Worker!EvidenceOf(q) : q \in asked}] :
        /\ \A q \in asked : answer[q] \in IF Worker!Cached(q) THEN {worker.cache[q]}
                                          ELSE Worker!EvidenceOf(q)
        /\ brought' = {answer[q] : q \in asked}
        /\ worker' = [worker EXCEPT
             !.cache = [q \in asked \cup DOMAIN @ |-> IF Worker!Cached(q) THEN @[q] ELSE answer[q]],
             !.searched = @ + 1]
  BY DEF Worker!RunTools
<1>2. /\ workerNode = "run_tools" /\ workerNode' = "integrate_evidence"
      /\ steps \in Nat /\ steps < StepLimit /\ steps' = steps + 1
      /\ UNCHANGED <<runtime, limit, runs, asked, count, findings, verdict>>
  BY DEF Worker!RunTools, Worker!Step, WorkerInv, Worker!TypeOK
<1>3. PICK Q \in SUBSET Queries : worker.cache \in [Q -> SUBSET Worker!Records]
  <2>1. worker.cache \in Caches
    BY StateIs DEF WorkerInv, Worker!TypeOK
  <2> QED BY <2>1 DEF Caches
<1> DEFINE cache == [q \in asked \cup Q |-> IF q \in Q THEN worker.cache[q] ELSE answer[q]]
<1>4. worker \in Worker!State /\ asked \subseteq Queries
  BY DEF WorkerInv, Worker!TypeOK
<1>5. \A q \in asked : answer[q] \in SUBSET Worker!Records
  BY <1>1, <1>3, <1>4 DEF Worker!Cached, Worker!EvidenceOf, Worker!Records
<1>6. cache \in Caches
  <2>1. cache \in [asked \cup Q -> SUBSET Worker!Records]
    BY <1>3, <1>5
  <2> QED BY <2>1, <1>4 DEF Caches
<1>7. worker' = [worker EXCEPT !.cache = cache, !.searched = worker.searched + 1]
  BY <1>1, <1>3, <1>4 DEF Worker!Cached, Worker!State
<1>8. worker' \in Worker!State
  <2>1. worker.searched \in Nat
    BY <1>4, StateIs
  <2>2. PICK n \in Nat : n = worker.searched + 1
    BY <2>1
  <2>3. worker' = [worker EXCEPT !.cache = cache, !.searched = n]
    BY <1>7, <2>2, Zenon
  <2> HIDE DEF cache
  <2> QED BY <1>4, <1>6, <2>3, StateIs, Zenon
<1>9. worker'.pack = worker.pack /\ worker'.cache = cache
  BY <1>4, <1>7 DEF Worker!State
<1>10. brought' \subseteq SUBSET Worker!Records
  BY <1>1, <1>5
<1>11. Brings(cache) \subseteq Brings(worker.cache) \cup UNION brought'
  BY <1>1, <1>3 DEF Brings
<1>12. /\ workerNode \notin Worker!Idle /\ workerNode' \notin Worker!Idle
       /\ steps' \in 0..StepLimit
  BY <1>2 DEF Worker!Idle, Worker!WorkerAssumption
<1> QED BY <1>2, <1>8, <1>9, <1>10, <1>11, <1>12 DEF WorkerInv, Worker!TypeOK

\* The answers come into the evidence, and what it grows by is counted.
LEMMA IntegrateCounts ==
  ASSUME Worker!WorkerAssumption, WorkerInv, Worker!IntegrateEvidence
  PROVE  WorkerInv'
<1> DEFINE pack == worker.pack \cup UNION brought
           growth == Worker!Cardinality(pack) - Worker!Cardinality(worker.pack)
           fresh == growth > 0
<1>1. /\ worker' = [worker EXCEPT !.pack = pack, !.fresh = fresh]
      /\ count' = count + growth
  BY DEF Worker!IntegrateEvidence, Worker!Growth
<1>2. /\ workerNode = "integrate_evidence" /\ workerNode' \in {"draft_module", "plan_search"}
      /\ steps \in Nat /\ steps < StepLimit /\ steps' = steps + 1
      /\ UNCHANGED <<runtime, limit, runs, asked, brought, findings, verdict>>
  BY DEF Worker!IntegrateEvidence, Worker!Step, WorkerInv, Worker!TypeOK
<1>3. worker \in Worker!State /\ runtime \in Worker!State /\ count \in Nat
      /\ brought \subseteq SUBSET Worker!Records
  BY DEF WorkerInv, Worker!TypeOK
<1>4. worker.pack \subseteq Worker!Records /\ pack \subseteq Worker!Records
  BY <1>3, StateIs
<1>5. growth \in Nat
  BY <1>4, PacksGrow
<1>6. worker' \in Worker!State /\ worker'.pack = pack /\ worker'.cache = worker.cache
  <2>1. fresh \in BOOLEAN
    OBVIOUS
  <2> HIDE DEF fresh, pack
  <2>2. worker' \in Worker!State
    BY <1>1, <1>3, <1>4, <2>1, StateIs
  <2> QED BY <1>1, <1>3, <2>2 DEF Worker!State
<1>7. /\ workerNode \notin Worker!Idle /\ workerNode' \notin Worker!Idle
      /\ steps' \in 0..StepLimit
      /\ workerNode' # "integrate_evidence"
  BY <1>2 DEF Worker!Idle, Worker!WorkerAssumption
<1>8. /\ runtime.pack \subseteq worker.pack
      /\ Worker!Cardinality(worker.pack) = Worker!Cardinality(runtime.pack) + count
      /\ Brings(worker.cache) \subseteq pack
  BY <1>2, <1>7 DEF WorkerInv
<1>9. Worker!Cardinality(runtime.pack) \in Nat /\ Worker!Cardinality(worker.pack) \in Nat
      /\ Worker!Cardinality(pack) \in Nat
  BY <1>3, <1>4, StateIs, PacksGrow
<1>10. /\ runtime'.pack \subseteq worker'.pack
       /\ Worker!Cardinality(worker'.pack) = Worker!Cardinality(runtime'.pack) + count'
       /\ Brings(worker'.cache) \subseteq worker'.pack
  BY <1>1, <1>2, <1>3, <1>6, <1>8, <1>9
<1>11. count' \in Nat
  BY <1>1, <1>3, <1>5
<1> HIDE DEF pack, growth, fresh
<1>12. Worker!TypeOK'
  BY <1>2, <1>3, <1>6, <1>7, <1>11 DEF WorkerInv, Worker!TypeOK
<1> QED BY <1>2, <1>7, <1>10, <1>12 DEF WorkerInv

\* Every node of a run, its start and its end.
LEMMA WorkerCounts ==
  ASSUME Worker!WorkerAssumption, WorkerInv, [Worker!Next]_(Worker!wkVars)
  PROVE  WorkerInv'
<1>0. /\ runtime \in Worker!State /\ worker \in Worker!State
      /\ steps \in Nat /\ steps <= StepLimit /\ runs \in Nat /\ runs <= MaxRuns
      /\ limit \in Nat /\ StepLimit \in Nat /\ MaxRuns \in Nat /\ MaxSearches \in Nat
  BY DEF WorkerInv, Worker!TypeOK, Worker!WorkerAssumption
<1>1. CASE Worker!Start
  <2>1. /\ limit' \in Nat /\ steps' = 0 /\ runs' \in 0..MaxRuns /\ count' = 0
        /\ worker' = runtime /\ runtime' = runtime /\ workerNode' = "plan_search"
        /\ asked' = {} /\ brought' = {} /\ findings' = "none" /\ verdict' = "pending"
    BY <1>0, <1>1 DEF Worker!Start
  <2>2. Worker!Cardinality(runtime.pack) \in Nat
    BY <1>0, StateIs, PacksGrow
  <2>3. Worker!TypeOK'
    BY <1>0, <2>1 DEF Worker!TypeOK
  <2> QED BY <2>1, <2>2, <2>3 DEF WorkerInv
<1>2. CASE Worker!PlanSearch
  <2>1. /\ workerNode = "plan_search" /\ workerNode' \in {"run_tools", "draft_module"}
        /\ steps' \in 0..StepLimit /\ asked' \subseteq Queries
        /\ UNCHANGED <<runtime, worker, limit, runs, brought, count, findings, verdict>>
    BY <1>0, <1>2 DEF Worker!PlanSearch, Worker!Step
  <2> QED BY <2>1 DEF WorkerInv, Worker!TypeOK, Worker!Idle
<1>3. CASE Worker!RunTools
  BY <1>3, RunToolsCounts
<1>4. CASE Worker!IntegrateEvidence
  BY <1>4, IntegrateCounts
<1>5. CASE Worker!DraftModule
  <2>1. /\ workerNode = "draft_module" /\ workerNode' = "validate_module"
        /\ steps' \in 0..StepLimit /\ findings' \in {"none", "thin", "full"}
        /\ UNCHANGED <<runtime, worker, limit, runs, asked, brought, count, verdict>>
    BY <1>0, <1>5 DEF Worker!DraftModule, Worker!Step
  <2> QED BY <2>1 DEF WorkerInv, Worker!TypeOK, Worker!Idle
<1>6. CASE Worker!ValidateModule
  <2>1. verdict' \in {"completed", "needs_more_evidence", "blocked"}
    BY <1>6 DEF Worker!ValidateModule, Worker!VerdictOf, Worker!Fallback
  <2>2. /\ workerNode = "validate_module" /\ workerNode' \in {"plan_search", "END"}
        /\ steps' \in 0..StepLimit
        /\ UNCHANGED <<runtime, worker, limit, runs, asked, brought, count, findings>>
    BY <1>0, <1>6 DEF Worker!ValidateModule, Worker!Step
  <2> QED BY <2>1, <2>2 DEF WorkerInv, Worker!TypeOK, Worker!Idle
<1>7. CASE Worker!Return
  <2>1. /\ workerNode = "END" /\ workerNode' = "returned" /\ runtime' = worker
        /\ UNCHANGED <<worker, limit, asked, brought, count, findings, verdict, steps, runs>>
    BY <1>7 DEF Worker!Return
  <2>2. Brings(worker.cache) \subseteq worker.pack
    BY <2>1 DEF WorkerInv, Worker!Idle
  <2>3. Worker!TypeOK'
    BY <2>1 DEF WorkerInv, Worker!TypeOK, Worker!Idle
  <2> QED BY <2>1, <2>2, <2>3 DEF WorkerInv, Worker!Idle
<1>8. CASE Worker!Fail
  <2>1. /\ workerNode' = "failed"
        /\ UNCHANGED <<runtime, worker, limit, asked, brought, count, findings,
                       verdict, steps, runs>>
    BY <1>8 DEF Worker!Fail
  <2> QED BY <2>1 DEF WorkerInv, Worker!TypeOK, Worker!Idle
<1>9. CASE UNCHANGED Worker!wkVars
  BY <1>9 DEF Worker!wkVars, WorkerInv, Worker!TypeOK
<1> QED BY <1>1, <1>2, <1>3, <1>4, <1>5, <1>6, <1>7, <1>8, <1>9
        DEF Worker!Next, Worker!Work

LEMMA WorkerAlwaysCounts == Spec => []WorkerInv
<1>1. Init => WorkerInv
  <2> SUFFICES ASSUME Init PROVE WorkerInv
    OBVIOUS
  <2>1. /\ runtime = Worker!Nothing /\ worker = Worker!Nothing
        /\ workerNode = "idle" /\ limit = 0 /\ asked = {} /\ brought = {} /\ count = 0
        /\ findings = "none" /\ verdict = "pending" /\ steps = 0 /\ runs = 0
    BY DEF Init, Worker!Init
  <2>2. StepLimit \in Nat /\ MaxRuns \in Nat
    BY PartsAssumption DEF PartsAssumption, Worker!WorkerAssumption
  <2>3. Brings(runtime.cache) = {} /\ runtime \in Worker!State /\ worker \in Worker!State
    BY <2>1, StateIs
  <2>4. Worker!TypeOK
    BY <2>1, <2>2, <2>3 DEF Worker!TypeOK, Worker!Idle
  <2> QED BY <2>1, <2>3, <2>4 DEF WorkerInv, Worker!Idle
<1>2. WorkerInv /\ [Next]_partVars => WorkerInv'
  BY PartsAssumption, WorkerStep, WorkerCounts DEF PartsAssumption
<1> QED BY <1>1, <1>2, PTL DEF Spec

\* Between two runs nothing is left over, and a run that returns has counted every
\* record that is new to the module once, for any tools, answers, failures and
\* number of runs.
THEOREM EvidenceAlwaysAddsUp == Spec => []EvidenceAddsUp
<1>1. WorkerInv => EvidenceAddsUp
  BY DEF WorkerInv, Brings, EvidenceAddsUp, Worker!EvidenceAddsUp, Worker!Idle
<1> QED BY <1>1, WorkerAlwaysCounts, PTL

-----------------------------------------------------------------------------
(******************************** The gate ********************************)
\* The inductive invariant.  ReviewIsSound speaks of the end only: what a dimension
\* that passed says of the draft, for those that have been scored.
Scored(i) == due > i /\ Gate!Dimensions[i] \notin failed
PassesMean ==
  /\ due \in 1..9 /\ bank \in Nat
  /\ present \subseteq Gate!Planned(deliverable)
  /\ failed \subseteq {Gate!Dimensions[i] : i \in 1..7}
  /\ Scored(1) => bank >= 3
  /\ Scored(2) => /\ Gate!CitationModules(deliverable) \cap present # {}
                  /\ Gate!CitationModules(deliverable) \subseteq present \/ cited
  /\ Scored(6) => /\ Gate!ArgumentText \cap present # {}
                  /\ ~Gate!Compares(deliverable)
  /\ adrift => due > 7 /\ Gate!Dimensions[7] \in failed
  /\ ReviewIsSound

\* A step of the parts is one of the gate or leaves it alone.
LEMMA GateStep == [Next]_partVars => [Gate!Next]_(Gate!reviewVars)
BY DEF Next, partVars, gateVars, OfResearch, OfReplay, OfOffice, OfLoop,
       OfQuotas, OfMemory, OfWorker, OfGate, Gate!reviewVars

\* How many modules of a few are present.
LEMMA FewPresent ==
  /\ \A S : S \cap present = {} => Gate!Count(S) = 0
  /\ \A a, b : Gate!Count({a, b}) \in 0..2
               /\ (~({a, b} \subseteq present) => Gate!Count({a, b}) <= 1)
  /\ \A a, b, c : Gate!Count({a, b, c}) \in 0..3
<1>1. \A S : Gate!Cardinality(S) = Cardinality(S)
  BY DEF Gate!Cardinality, Cardinality, Gate!IsFiniteSet, IsFiniteSet
<1>2. ASSUME NEW a, NEW b
      PROVE  Gate!Count({a, b}) \in 0..2
             /\ (~({a, b} \subseteq present) => Gate!Count({a, b}) <= 1)
  <2>1. IsFiniteSet({a, b}) /\ Cardinality({a, b}) \in 0..2
    <3>1. {a, b} = {a} \cup {b}
      OBVIOUS
    <3>2. IsFiniteSet({a}) /\ Cardinality({a}) = 1
      BY FS_Singleton
    <3>3. /\ IsFiniteSet({a} \cup {b})
          /\ Cardinality({a} \cup {b}) =
               IF b \in {a} THEN Cardinality({a}) ELSE Cardinality({a}) + 1
      BY <3>2, FS_AddElement
    <3> QED BY <3>1, <3>2, <3>3
  <2> DEFINE T == {a, b} \cap present
  <2>2. T \in SUBSET {a, b}
    OBVIOUS
  <2>3. IsFiniteSet(T) /\ Cardinality(T) <= Cardinality({a, b})
        /\ (Cardinality({a, b}) = Cardinality(T) => {a, b} = T)
    BY <2>1, <2>2, FS_Subset
  <2>4. Cardinality(T) \in Nat
    BY <2>3, FS_CardinalityType
  <2>5. ~({a, b} \subseteq present) => T # {a, b}
    OBVIOUS
  <2> HIDE DEF T
  <2>6. Cardinality(T) \in 0..2 /\ (T # {a, b} => Cardinality(T) <= 1)
    BY <2>1, <2>3, <2>4
  <2>7. Gate!Count({a, b}) = Cardinality(T)
    BY <1>1 DEF Gate!Count, T
  <2> QED BY <2>5, <2>6, <2>7
<1>3. ASSUME NEW a, NEW b, NEW c
      PROVE  Gate!Count({a, b, c}) \in 0..3
  <2>1. IsFiniteSet({a, b, c}) /\ Cardinality({a, b, c}) \in 0..3
    <3> DEFINE P == {a} \cup {b}
    <3>1. {a, b, c} = P \cup {c}
      OBVIOUS
    <3>2. IsFiniteSet({a}) /\ Cardinality({a}) = 1
      BY FS_Singleton
    <3>3. /\ IsFiniteSet(P)
          /\ Cardinality(P) = IF b \in {a} THEN Cardinality({a}) ELSE Cardinality({a}) + 1
      BY <3>2, FS_AddElement
    <3> HIDE DEF P
    <3>4. /\ IsFiniteSet(P \cup {c})
          /\ Cardinality(P \cup {c}) = IF c \in P THEN Cardinality(P) ELSE Cardinality(P) + 1
      BY <3>3, FS_AddElement
    <3> QED BY <3>1, <3>2, <3>3, <3>4
  <2> DEFINE T == {a, b, c} \cap present
  <2>2. T \in SUBSET {a, b, c}
    OBVIOUS
  <2>3. IsFiniteSet(T) /\ Cardinality(T) <= Cardinality({a, b, c})
    BY <2>1, <2>2, FS_Subset
  <2>4. Cardinality(T) \in Nat
    BY <2>3, FS_CardinalityType
  <2> HIDE DEF T
  <2>5. Cardinality(T) \in 0..3
    BY <2>1, <2>3, <2>4
  <2> QED BY <1>1, <2>5 DEF Gate!Count, T
<1>4. \A S : S \cap present = {} => Gate!Count(S) = 0
  BY <1>1, FS_EmptySet DEF Gate!Count
<1> QED BY <1>2, <1>3, <1>4

\* Without both citation modules the coverage takes a URL, and without either it
\* fails, whatever the evidence.
LEMMA CoverageMeans ==
  ASSUME bank \in Nat,
         NEW mentions \in Gate!Hits(Gate!CitationModules(deliverable), 3),
         Gate!Covers(mentions)
  PROVE  /\ Gate!CitationModules(deliverable) \cap present # {}
         /\ Gate!CitationModules(deliverable) \subseteq present \/ mentions > 0
<1> DEFINE C == Gate!CitationModules(deliverable)
           n == Gate!Count(C)
           t == Gate!Capped(bank, 5)
<1>1. PICK a, b : C = {a, b}
  BY DEF Gate!CitationModules, Gate!Subjects
<1>2. n \in 0..2 /\ (~(C \subseteq present) => n <= 1) /\ (C \cap present = {} => n = 0)
  BY <1>1, FewPresent
<1>3. t \in 0..5
  BY DEF Gate!Capped
<1>4. mentions \in 0..3 /\ (C \cap present = {} => mentions = 0)
  BY DEF Gate!Hits
<1>5. 200 + 175 * n + 60 * t + 50 * mentions >= 680
  BY DEF Gate!Covers
<1> HIDE DEF n, t, C
<1>6. n >= 1 /\ (n = 2 \/ mentions > 0)
  BY <1>2, <1>3, <1>4, <1>5
<1>7. C \cap present # {} /\ (C \subseteq present \/ mentions > 0)
  BY <1>2, <1>4, <1>6
<1> QED BY <1>7 DEF C

\* An argument takes text in the modules of an academic deliverable, which a
\* comparison does not have.
LEMMA ArgumentMeans ==
  ASSUME present \subseteq Gate!Planned(deliverable),
         NEW hits \in Gate!Hits(Gate!ArgumentText, 5), Gate!Argues(hits)
  PROVE  Gate!ArgumentText \cap present # {} /\ ~Gate!Compares(deliverable)
<1> DEFINE n == Gate!Count(Gate!ArgumentModules(deliverable))
<1>1. n \in 0..3
  BY FewPresent DEF Gate!ArgumentModules, Gate!Verdicts
<1>2. 200 + 90 * hits + 100 * n > 680
  BY DEF Gate!Argues
<1>3. hits \in 0..5 /\ (Gate!ArgumentText \cap present = {} => hits = 0)
  BY DEF Gate!Hits
<1> HIDE DEF n
<1>4. hits # 0
  BY <1>1, <1>2, <1>3
<1>5. Gate!Compares(deliverable) => Gate!ArgumentText \cap present = {}
  <2>1. Gate!Compares(deliverable) => Gate!Planned(deliverable) = Gate!Comparison
    BY DEF Gate!Planned, Gate!Compares
  <2>2. Gate!ArgumentText \cap Gate!Comparison = {}
    BY DEF Gate!Comparison, Gate!ArgumentText, Gate!Subjects, Gate!Verdicts
  <2> QED BY <2>1, <2>2
<1> QED BY <1>3, <1>4, <1>5

\* A draft that is adrift fails its dimension: the lower mark is below the other.
LEMMA AdriftFails ==
  ASSUME NEW sections \in 0..Gate!Sections(deliverable), Gate!Aligns(sections, 13)
  PROVE  Gate!Aligns(sections, 9)
<1> DEFINE s == Gate!Sections(deliverable)
           A == Gate!AlignmentModules(deliverable)
           m == Gate!Cardinality(A)
           n == Gate!Count(A)
           x == 5 * s * m + 7 * sections * m + 8 * n * s
<1>1. s \in Nat
  BY DEF Gate!Sections
<1>2. IsFiniteSet(A)
  <2>1. \A y, z : IsFiniteSet({y, z})
    <3> TAKE y, z
    <3>1. {y, z} = {y} \cup {z}
      OBVIOUS
    <3>2. IsFiniteSet({y}) /\ IsFiniteSet({z})
      BY FS_Singleton
    <3>3. IsFiniteSet({y} \cup {z})
      BY <3>2, FS_Union
    <3> QED BY <3>1, <3>3
  <2>2. \A S, T : IsFiniteSet(S) /\ IsFiniteSet(T) => IsFiniteSet(S \cup T)
    BY FS_Union
  <2>3. IsFiniteSet(Gate!Framing)
    <3>1. Gate!Framing = {"problem_definition", "related_work"}
                           \cup {"argument_map", "contributions"}
      BY DEF Gate!Framing
    <3> QED BY <2>1, <2>2, <3>1
  <2>4. IsFiniteSet(Gate!Comparison)
    <3>1. Gate!Comparison = {"comparison_scope", "comparative_matrix"} \cup
            (Gate!Subjects \cup {"decision_recommendations", "caveats_and_risks"})
      BY DEF Gate!Comparison, Gate!Verdicts
    <3> QED BY <2>1, <2>2, <3>1 DEF Gate!Subjects
  <2>5. IsFiniteSet((Gate!Framing \ {"problem_definition"}) \cup Gate!Methods)
    <3>1. IsFiniteSet(Gate!Framing \ {"problem_definition"})
      BY <2>3, FS_RemoveElement
    <3> QED BY <2>1, <2>2, <3>1 DEF Gate!Methods
  <2>6. \/ A = Gate!Comparison \/ A = Gate!Framing
        \/ A = (Gate!Framing \ {"problem_definition"}) \cup Gate!Methods
    BY DEF Gate!AlignmentModules, Gate!Compares
  <2> QED BY <2>3, <2>4, <2>5, <2>6
<1>3. m \in Nat /\ n \in Nat
  <2>1. \A S : Gate!Cardinality(S) = Cardinality(S)
    BY DEF Gate!Cardinality, Cardinality, Gate!IsFiniteSet, IsFiniteSet
  <2>2. A \cap present \in SUBSET A
    OBVIOUS
  <2>3. IsFiniteSet(A \cap present)
    BY <1>2, <2>2, FS_Subset
  <2> QED BY <1>2, <2>1, <2>3, FS_CardinalityType DEF Gate!Count
<1>4. x >= 13 * s * m
  BY DEF Gate!Aligns
<1> HIDE DEF s, m, n
<1>5. s * m \in Nat /\ x \in Nat
  BY <1>1, <1>3
<1>6. 13 * s * m = 13 * (s * m) /\ 9 * s * m = 9 * (s * m)
  BY <1>1, <1>3
<1> HIDE DEF x
<1>7. x >= 9 * s * m
  BY <1>4, <1>5, <1>6
<1> QED BY <1>7 DEF x, s, m, n, A, Gate!Aligns

\* One dimension scored: what it means that it passed, and nothing is forgotten.
LEMMA ScoreKeeps ==
  ASSUME NEW passes \in BOOLEAN, NEW i \in 1..7, PassesMean,
         Gate!Score(Gate!Dimensions[i], passes),
         passes /\ i = 1 => bank >= 3,
         passes /\ i = 2 => /\ Gate!CitationModules(deliverable) \cap present # {}
                            /\ Gate!CitationModules(deliverable) \subseteq present \/ cited',
         passes /\ i = 6 => Gate!ArgumentText \cap present # {} /\ ~Gate!Compares(deliverable),
         i # 2 => cited' = cited,
         i # 7 => adrift' = adrift,
         i = 7 /\ adrift' => ~passes
  PROVE  PassesMean'
<1>1. \A j, k \in 1..7 : Gate!Dimensions[j] = Gate!Dimensions[k] => j = k
  BY DEF Gate!Dimensions
<1>2. due = i /\ due' = i + 1
  <2>1. due \in 1..7 /\ Gate!Dimensions[i] = Gate!Dimensions[due] /\ due' = due + 1
    BY DEF Gate!Score, Gate!Dimensions
  <2> QED BY <1>1, <2>1
<1>3. failed' = IF passes THEN failed ELSE failed \cup {Gate!Dimensions[i]}
  BY DEF Gate!Score
<1>4. deliverable' = deliverable /\ present' = present /\ bank' = bank /\ judged' = judged
  BY DEF Gate!Score
<1>5. \A j \in 1..7 : Scored(j)' => (j = i /\ passes) \/ (j # i /\ Scored(j))
  <2> SUFFICES ASSUME NEW j \in 1..7, due' > j, Gate!Dimensions[j] \notin failed'
               PROVE  (j = i /\ passes) \/ (j # i /\ due > j /\ Gate!Dimensions[j] \notin failed)
    BY DEF Scored
  <2> QED BY <1>2, <1>3
<1>6. Scored(1)' => bank' >= 3
  BY <1>4, <1>5 DEF PassesMean
<1>7. Scored(2)' => /\ Gate!CitationModules(deliverable') \cap present' # {}
                    /\ Gate!CitationModules(deliverable') \subseteq present' \/ cited'
  BY <1>4, <1>5 DEF PassesMean
<1>8. Scored(6)' => Gate!ArgumentText \cap present' # {} /\ ~Gate!Compares(deliverable')
  BY <1>4, <1>5 DEF PassesMean
<1>9. adrift' => due' > 7 /\ Gate!Dimensions[7] \in failed'
  <2>1. ~adrift
    BY <1>2 DEF PassesMean
  <2>2. adrift' => i = 7
    BY <2>1
  <2>3. adrift' => ~passes
    BY <2>2
  <2>4. ~passes => Gate!Dimensions[i] \in failed'
    BY <1>3
  <2> QED BY <1>2, <2>2, <2>3, <2>4
<1>10. ReviewIsSound'
  BY <1>2 DEF ReviewIsSound, Gate!ReviewIsSound, Gate!Settled, Gate!Dimensions
<1>11. failed' \subseteq {Gate!Dimensions[j] : j \in 1..7}
  BY <1>3 DEF PassesMean
<1>12. due' \in 1..9 /\ bank' \in Nat /\ present' \subseteq Gate!Planned(deliverable')
  BY <1>2, <1>4 DEF PassesMean
<1> QED BY <1>6, <1>7, <1>8, <1>9, <1>10, <1>11, <1>12
        DEF PassesMean, Gate!CitationModules, Gate!Planned, Gate!Compares

\* A dimension that failed has something to revise.
LEMMA FailedHasTargets ==
  ASSUME NEW i \in 1..7
  PROVE  Gate!TargetsOf(Gate!Dimensions[i]) # {}
<1>1. i \in {1, 2, 3, 4, 5, 6, 7}
  OBVIOUS
<1> QED BY <1>1 DEF Gate!TargetsOf, Gate!Dimensions, Gate!Subjects

\* The verdict: all seven have been scored.
LEMMA JudgeKeeps ==
  ASSUME PassesMean, Gate!Judge
  PROVE  PassesMean'
<1> DEFINE targeted == UNION {Gate!TargetsOf(dimension) : dimension \in failed}
<1>1. due = 8 /\ due' = 9
  BY DEF Gate!Judge, Gate!Dimensions
<1>2. UNCHANGED <<deliverable, present, bank, cited, failed, adrift>>
  BY DEF Gate!Judge
<1>3. PICK errors \in IF present = {} THEN BOOLEAN ELSE {FALSE} :
        judged' = [passed |-> ~errors /\ ~adrift /\ failed = {}, targets |-> targeted,
                   replan |-> adrift, locks |-> present \ targeted]
  BY DEF Gate!Judge
<1>4. failed = {} <=> targeted = {}
  <2>1. ASSUME NEW dimension \in failed
        PROVE  Gate!TargetsOf(dimension) # {}
    BY FailedHasTargets DEF PassesMean
  <2> QED BY <2>1
<1>5. failed = {} => /\ bank >= 3
                     /\ Gate!CitationModules(deliverable) \cap present # {}
                     /\ Gate!CitationModules(deliverable) \subseteq present \/ cited
                     /\ Gate!ArgumentText \cap present # {}
                     /\ ~Gate!Compares(deliverable)
                     /\ ~adrift
  BY <1>1 DEF PassesMean, Scored
<1>6. adrift => failed # {}
  BY DEF PassesMean
<1>7. failed = {} => ~errors
  <2>1. failed = {} => present # {}
    BY <1>5
  <2> QED BY <2>1
<1> HIDE DEF targeted
<1>8. /\ judged'.passed <=> failed = {}
      /\ judged'.targets = targeted
      /\ judged'.replan <=> adrift
  BY <1>3, <1>5, <1>7
<1>9. ReviewIsSound'
  BY <1>2, <1>4, <1>5, <1>6, <1>8
     DEF ReviewIsSound, Gate!ReviewIsSound, Gate!CitationModules, Gate!Compares
<1> QED BY <1>1, <1>2, <1>9
        DEF PassesMean, Scored, Gate!CitationModules, Gate!Planned, Gate!Compares

LEMMA GateKeeps ==
  ASSUME PassesMean, [Gate!Next]_(Gate!reviewVars)
  PROVE  PassesMean'
<1> USE DEF Gate!Dimensions
<1>1. CASE Gate!Traceability
  <2> DEFINE passes == bank >= 3
  <2>1. /\ Gate!Score(Gate!Dimensions[1], passes)
        /\ cited' = cited /\ adrift' = adrift
    BY <1>1 DEF Gate!Traceability
  <2>2. passes \in BOOLEAN /\ (passes => bank >= 3)
    OBVIOUS
  <2> HIDE DEF passes, Gate!Dimensions
  <2> QED BY <2>1, <2>2, ScoreKeeps
<1>2. CASE Gate!Coverage
  <2>1. PICK mentions \in Gate!Hits(Gate!CitationModules(deliverable), 3) :
          /\ Gate!Score(Gate!Dimensions[2], Gate!Covers(mentions))
          /\ cited' = (mentions > 0)
          /\ adrift' = adrift
    BY <1>2 DEF Gate!Coverage
  <2>2. Gate!Covers(mentions) =>
          /\ Gate!CitationModules(deliverable) \cap present # {}
          /\ Gate!CitationModules(deliverable) \subseteq present \/ cited'
    BY <2>1, CoverageMeans DEF PassesMean
  <2>3. Gate!Covers(mentions) \in BOOLEAN
    BY DEF Gate!Covers
  <2> HIDE DEF Gate!Dimensions
  <2> QED BY <2>1, <2>2, <2>3, ScoreKeeps
<1>3. CASE Gate!Recency
  <2>1. PICK passes \in BOOLEAN :
          /\ Gate!Score(Gate!Dimensions[3], passes)
          /\ cited' = cited /\ adrift' = adrift
    BY <1>3 DEF Gate!Recency
  <2> HIDE DEF Gate!Dimensions
  <2> QED BY <2>1, ScoreKeeps
<1>4. CASE Gate!Rigor
  <2>1. PICK passes \in BOOLEAN :
          /\ Gate!Score(Gate!Dimensions[4], passes)
          /\ cited' = cited /\ adrift' = adrift
    BY <1>4 DEF Gate!Rigor
  <2> HIDE DEF Gate!Dimensions
  <2> QED BY <2>1, ScoreKeeps
<1>5. CASE Gate!Feasibility
  <2>1. PICK passes \in BOOLEAN :
          /\ Gate!Score(Gate!Dimensions[5], passes)
          /\ cited' = cited /\ adrift' = adrift
    BY <1>5 DEF Gate!Feasibility
  <2> HIDE DEF Gate!Dimensions
  <2> QED BY <2>1, ScoreKeeps
<1>6. CASE Gate!Argument
  <2>1. PICK hits \in Gate!Hits(Gate!ArgumentText, 5) :
          Gate!Score(Gate!Dimensions[6], Gate!Argues(hits)) /\ UNCHANGED <<cited, adrift>>
    BY <1>6 DEF Gate!Argument
  <2>2. Gate!Argues(hits) => Gate!ArgumentText \cap present # {} /\ ~Gate!Compares(deliverable)
    BY ArgumentMeans DEF PassesMean
  <2>3. Gate!Argues(hits) \in BOOLEAN
    BY DEF Gate!Argues
  <2> HIDE DEF Gate!Dimensions
  <2> QED BY <2>1, <2>2, <2>3, ScoreKeeps
<1>7. CASE Gate!Intent
  <2>1. PICK sections \in 0..Gate!Sections(deliverable) :
          /\ Gate!Score(Gate!Dimensions[7], Gate!Aligns(sections, 13))
          /\ adrift' = ~Gate!Aligns(sections, 9)
          /\ cited' = cited
    BY <1>7 DEF Gate!Intent
  <2>2. Gate!Aligns(sections, 13) => ~adrift'
    BY <2>1, AdriftFails
  <2>3. Gate!Aligns(sections, 13) \in BOOLEAN
    BY DEF Gate!Aligns
  <2> HIDE DEF Gate!Dimensions
  <2> QED BY <2>1, <2>2, <2>3, ScoreKeeps
<1>8. CASE Gate!Judge
  BY <1>8, JudgeKeeps
<1>9. CASE UNCHANGED Gate!reviewVars
  BY <1>9 DEF Gate!reviewVars, PassesMean, Scored, ReviewIsSound, Gate!ReviewIsSound,
              Gate!Settled, Gate!CitationModules, Gate!Planned, Gate!Compares
<1> QED BY <1>1, <1>2, <1>3, <1>4, <1>5, <1>6, <1>7, <1>8, <1>9 DEF Gate!Next

\* A review passes exactly when it leaves nothing to revise, and what passes has
\* its sources and its argument, for any evidence, drafts and wording.
THEOREM ReviewAlwaysSound == Spec => []ReviewIsSound
<1>1. Init => PassesMean
  BY PartsAssumption
     DEF PartsAssumption, Gate!ReviewAssumption, Init, Gate!Init, PassesMean, Scored,
         ReviewIsSound, Gate!ReviewIsSound, Gate!Settled, Gate!Dimensions
<1>2. PassesMean /\ [Next]_partVars => PassesMean'
  BY GateStep, GateKeeps
<1>3. PassesMean => ReviewIsSound
  BY DEF PassesMean
<1> QED BY <1>1, <1>2, <1>3, PTL DEF Spec

\* The modules that a dimension which failed asks to be revised.
LEMMA TargetsAreModules ==
  ASSUME NEW dimension \in {Gate!Dimensions[i] : i \in 1..7}
  PROVE  Gate!TargetsOf(dimension) \subseteq Gate!AllModules
<1>1. /\ Gate!Framing \cup {"limitations"} \cup Gate!Methods \subseteq Gate!AllModules
      /\ Gate!Comparison \subseteq Gate!AllModules
  <2>1. /\ Gate!Planned("paper_guidance") = Gate!Framing \cup {"limitations"} \cup Gate!Methods
        /\ Gate!Planned("comparative_analysis") = Gate!Comparison
    BY DEF Gate!Planned, Gate!Compares
  <2> QED BY <2>1 DEF Gate!AllModules
<1>2. dimension \in {"citation_authenticity_traceability", "citation_relevance_coverage",
                     "citation_recency", "methodological_rigor", "experimental_feasibility",
                     "argument_chain_completeness", "intent_alignment"}
  BY DEF Gate!Dimensions
<1>3. Gate!TargetsOf(dimension)
        \subseteq Gate!Framing \cup {"limitations"} \cup Gate!Methods \cup Gate!Comparison
  BY <1>2 DEF Gate!TargetsOf, Gate!Framing, Gate!Methods, Gate!Comparison, Gate!Subjects,
              Gate!Verdicts
<1> QED BY <1>1, <1>3

\* Every deliverable plans modules that one of three kinds has.
LEMMA PlannedAreModules == \A kind : Gate!Planned(kind) \subseteq Gate!AllModules
<1>1. /\ Gate!Planned("paper_guidance") = Gate!Framing \cup {"limitations"} \cup Gate!Methods
      /\ Gate!Planned("comparative_analysis") = Gate!Comparison
  BY DEF Gate!Planned, Gate!Compares
<1>2. /\ Gate!Framing \cup {"limitations"} \cup Gate!Methods \subseteq Gate!AllModules
      /\ Gate!Comparison \subseteq Gate!AllModules
  BY <1>1 DEF Gate!AllModules
<1> QED BY <1>2 DEF Gate!Planned

\* A dimension scored keeps the types.
LEMMA ScoreTypes ==
  ASSUME Gate!TypeOK, NEW d, NEW p \in BOOLEAN, Gate!Score(d, p),
         cited' \in BOOLEAN, adrift' \in BOOLEAN
  PROVE  Gate!TypeOK'
<1>1. Len(Gate!Dimensions) = 7 /\ DOMAIN Gate!Dimensions = 1..7
  BY DEF Gate!Dimensions
<1>2. /\ due' = due + 1 /\ due \in 1..7 /\ d = Gate!Dimensions[due]
      /\ failed' = IF p THEN failed ELSE failed \cup {d}
      /\ UNCHANGED <<deliverable, present, bank, judged>>
  BY <1>1 DEF Gate!Score
<1>3. due' \in 1..9
  BY <1>2
<1>4. failed' \subseteq {Gate!Dimensions[i] : i \in 1..7}
  BY <1>1, <1>2 DEF Gate!TypeOK
<1>5. Gate!Planned(deliverable)' = Gate!Planned(deliverable)
  BY <1>2 DEF Gate!Planned, Gate!Compares
<1> QED BY <1>1, <1>2, <1>3, <1>4, <1>5 DEF Gate!TypeOK

LEMMA GateTypes ==
  ASSUME Gate!TypeOK, [Gate!Next]_(Gate!reviewVars)
  PROVE  Gate!TypeOK'
<1>0. cited \in BOOLEAN /\ adrift \in BOOLEAN
  BY DEF Gate!TypeOK
<1>1. CASE Gate!Traceability
  <2> DEFINE passes == bank >= 3
  <2>1. Gate!Score("citation_authenticity_traceability", passes)
        /\ cited' = cited /\ adrift' = adrift
    BY <1>1 DEF Gate!Traceability
  <2>2. passes \in BOOLEAN
    OBVIOUS
  <2> HIDE DEF passes
  <2> QED BY <1>0, <2>1, <2>2, ScoreTypes
<1>2. CASE Gate!Coverage
  <2>1. PICK mentions \in Gate!Hits(Gate!CitationModules(deliverable), 3) :
          /\ Gate!Score("citation_relevance_coverage", Gate!Covers(mentions))
          /\ cited' = (mentions > 0)
          /\ adrift' = adrift
    BY <1>2 DEF Gate!Coverage
  <2>2. Gate!Covers(mentions) \in BOOLEAN /\ cited' \in BOOLEAN
    BY <2>1 DEF Gate!Covers
  <2> QED BY <1>0, <2>1, <2>2, ScoreTypes
<1>3. CASE Gate!Recency
  <2>1. PICK passes \in BOOLEAN :
          /\ Gate!Score("citation_recency", passes)
          /\ cited' = cited /\ adrift' = adrift
    BY <1>3 DEF Gate!Recency
  <2> QED BY <1>0, <2>1, ScoreTypes
<1>4. CASE Gate!Rigor
  <2>1. PICK passes \in BOOLEAN :
          /\ Gate!Score("methodological_rigor", passes)
          /\ cited' = cited /\ adrift' = adrift
    BY <1>4 DEF Gate!Rigor
  <2> QED BY <1>0, <2>1, ScoreTypes
<1>5. CASE Gate!Feasibility
  <2>1. PICK passes \in BOOLEAN :
          /\ Gate!Score("experimental_feasibility", passes)
          /\ cited' = cited /\ adrift' = adrift
    BY <1>5 DEF Gate!Feasibility
  <2> QED BY <1>0, <2>1, ScoreTypes
<1>6. CASE Gate!Argument
  <2>1. PICK hits \in Gate!Hits(Gate!ArgumentText, 5) :
          Gate!Score("argument_chain_completeness", Gate!Argues(hits))
          /\ UNCHANGED <<cited, adrift>>
    BY <1>6 DEF Gate!Argument
  <2>2. Gate!Argues(hits) \in BOOLEAN
    BY DEF Gate!Argues
  <2> QED BY <1>0, <2>1, <2>2, ScoreTypes
<1>7. CASE Gate!Intent
  <2>1. PICK sections \in 0..Gate!Sections(deliverable) :
          /\ Gate!Score("intent_alignment", Gate!Aligns(sections, 13))
          /\ adrift' = ~Gate!Aligns(sections, 9)
          /\ cited' = cited
    BY <1>7 DEF Gate!Intent
  <2>2. Gate!Aligns(sections, 13) \in BOOLEAN /\ adrift' \in BOOLEAN
    BY <2>1 DEF Gate!Aligns
  <2> QED BY <1>0, <2>1, <2>2, ScoreTypes
<1>8. CASE Gate!Judge
  <2> DEFINE targeted == UNION {Gate!TargetsOf(dimension) : dimension \in failed}
  <2>1. Len(Gate!Dimensions) = 7 /\ DOMAIN Gate!Dimensions = 1..7
    BY DEF Gate!Dimensions
  <2>2. targeted \subseteq Gate!AllModules
    BY <2>1, TargetsAreModules DEF Gate!TypeOK
  <2>3. PICK errors \in BOOLEAN :
          judged' = [passed |-> ~errors /\ ~adrift /\ failed = {}, targets |-> targeted,
                     replan |-> adrift, locks |-> present \ targeted]
    BY <1>8 DEF Gate!Judge
  <2>4. present \ targeted \subseteq Gate!AllModules
    BY PlannedAreModules DEF Gate!TypeOK
  <2>5. due' = 9 /\ UNCHANGED <<deliverable, present, bank, cited, failed, adrift>>
    BY <1>8, <2>1 DEF Gate!Judge
  <2>6. (~errors /\ ~adrift /\ failed = {}) \in BOOLEAN
    OBVIOUS
  <2> HIDE DEF targeted
  <2>7. judged' \in [passed : BOOLEAN, targets : SUBSET Gate!AllModules,
                     replan : BOOLEAN, locks : SUBSET Gate!AllModules]
    BY <1>0, <2>2, <2>3, <2>4, <2>6
  <2>8. Gate!Planned(deliverable)' = Gate!Planned(deliverable)
    BY <2>5 DEF Gate!Planned, Gate!Compares
  <2> QED BY <2>1, <2>5, <2>7, <2>8 DEF Gate!TypeOK
<1>9. CASE UNCHANGED Gate!reviewVars
  <2>1. UNCHANGED <<deliverable, present, bank, due, cited, failed, adrift, judged>>
    BY <1>9 DEF Gate!reviewVars
  <2>2. Gate!Planned(deliverable)' = Gate!Planned(deliverable)
    BY <2>1 DEF Gate!Planned, Gate!Compares
  <2> QED BY <2>1, <2>2 DEF Gate!TypeOK
<1> QED BY <1>1, <1>2, <1>3, <1>4, <1>5, <1>6, <1>7, <1>8, <1>9 DEF Gate!Next

LEMMA GateAlwaysTyped == Spec => []Gate!TypeOK
<1>1. Init => Gate!TypeOK
  <2> SUFFICES ASSUME Init PROVE Gate!TypeOK
    OBVIOUS
  <2>1. Gate!Unjudged \in [passed : BOOLEAN, targets : SUBSET Gate!AllModules,
                           replan : BOOLEAN, locks : SUBSET Gate!AllModules]
    BY DEF Gate!Unjudged
  <2>2. Len(Gate!Dimensions) = 7
    BY DEF Gate!Dimensions
  <2>3. /\ deliverable \in Deliverables /\ present \subseteq Gate!Planned(deliverable)
        /\ bank \in Banks /\ due = 1 /\ cited = FALSE
        /\ failed = {} /\ adrift = FALSE /\ judged = Gate!Unjudged
    BY DEF Init, Gate!Init
  <2>4. due \in 1..(Len(Gate!Dimensions) + 2)
    BY <2>2, <2>3
  <2>5. failed \subseteq {Gate!Dimensions[i] : i \in DOMAIN Gate!Dimensions}
    BY <2>3
  <2> QED BY <2>1, <2>3, <2>4, <2>5 DEF Gate!TypeOK
<1>2. Gate!TypeOK /\ [Next]_partVars => Gate!TypeOK'
  BY GateStep, GateTypes
<1> QED BY <1>1, <1>2, PTL DEF Spec
=============================================================================
