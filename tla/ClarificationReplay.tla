------------------------- MODULE ClarificationReplay -------------------------
(***************************************************************************)
(* How a nested workflow gets the user's answers.  ask_user raises an      *)
(* interrupt, which ends the run; the reply starts the workflow over from  *)
(* its first node, with the answers of the task's clarification history    *)
(* preloaded, and a question takes the first answer stored under the same  *)
(* text (agent/runtime/interaction.py, session/runtime.py).  The workflow  *)
(* is the research graph as far as its questions go: a plan may be put to  *)
(* the user (A), a draft that failed its review (B), and the final draft   *)
(* (C); an accepted C is fast-forwarded to the report from the files on    *)
(* disk (research/orchestrated.py).  Its models may answer otherwise each  *)
(* time, so every run chooses its reviews anew; the text of B quotes the   *)
(* draft and differs with it.  One reply at a time is in flight here;      *)
(* TaskLifecycle has those that overlap.                                   *)
(***************************************************************************)
EXTENDS Naturals, Sequences

CONSTANTS
  Texts,         \* texts question B may have
  MaxRevisions,  \* max_revision_cycles
  MaxAsks        \* bound: the user answers no question from the MaxAsks-th on

ReplayAssumption ==
  /\ Texts \cap {"A", "C", ""} = {}
  /\ MaxRevisions \in Nat /\ MaxAsks \in Nat

VARIABLES
  at,        \* the node the run is at
  asksAlways,  \* the task asks at every checkpoint
  reviewDriven,  \* the run is at a replan the review asked for
  cycle,     \* revision_round
  draft,     \* the plan and number of the latest draft of the run
  plans,     \* plans made for the task, in all runs
  queue,     \* _preloaded_user_replies
  question,  \* pending_question, with its number
  unlogged,  \* questions whose interaction.question is not yet committed
  log,       \* interaction events of the task
  disk,      \* data/research/<task>: aggregated_draft.md and checkpoints/
  report     \* what the final report is made of

rpVars == <<at, asksAlways, reviewDriven, cycle, draft, plans, queue, question,
            unlogged, log, disk, report>>
run == <<asksAlways, reviewDriven, cycle, draft, plans>>
task == <<unlogged, log>>

Questions == {"A", "C"} \cup Texts
Replies == {"accept", "revise", "replan"}
NoDraft == [plan |-> 0, n |-> 0]
NoReport == [draft |-> NoDraft, source |-> 0, resumed |-> FALSE]

Init ==
  /\ at = "plan" /\ asksAlways \in BOOLEAN
  /\ reviewDriven = FALSE /\ cycle = 0
  /\ draft = NoDraft /\ plans = 0
  /\ queue = <<>>
  /\ question = [text |-> "", id |-> 0]
  /\ unlogged = {} /\ log = <<>>
  /\ disk = [file |-> NoDraft, saved |-> <<>>]
  /\ report = NoReport

-----------------------------------------------------------------------------
\* get_clarification_history: an answer goes to the last entry if that has none,
\* which is so just after the question that opened it, else to an entry of its own
\* without a question.  An entry is named by the place in the log of what opened
\* it; asked and for name its question and the one its answer was given to.
Fills(i) == log[i].kind = "answer" /\ i > 1 /\ log[i - 1].kind = "question"
NoAnswer == [kind |-> "answer", text |-> "", id |-> 0, answer |-> ""]
AnswerAt(j) == IF j \in DOMAIN log /\ log[j].kind = "answer" THEN log[j] ELSE NoAnswer
MutGiven(i) ==
  AnswerAt(CHOOSE j \in i..Len(log) : /\ \A k \in (i + 1)..j : log[k].kind = "answer"
                                     /\ j < Len(log) => log[j + 1].kind = "question")
Given(i) == AnswerAt(IF log[i].kind = "question" THEN i + 1 ELSE i)
Entry(i) ==
  [text |-> log[i].text, asked |-> IF log[i].kind = "question" THEN log[i].id ELSE 0,
   answer |-> Given(i).answer, for |-> Given(i).id]
Opens == {i \in DOMAIN log : ~Fills(i)}
History == [i \in Opens |-> Entry(i)]
NoEntry == [text |-> "", asked |-> 0, answer |-> "", for |-> 0]
Asked(e) == e.text # ""
Paired(e) == e.text # "" /\ e.answer # ""

\* ask_user at a question q: the first stored answer to the same text is taken
\* out of the queue; with none the run is interrupted and the task waits.  The
\* queue names its replies by the places of their entries in the log.
Stored(q) == {i \in DOMAIN queue : queue[i].text = q}
First(q) == CHOOSE i \in Stored(q) : \A j \in Stored(q) : i <= j
Takes(q, a) ==
  /\ Stored(q) # {}
  /\ a = queue[First(q)].answer
  /\ queue' = [i \in DOMAIN queue \ {First(q)} |-> queue[i]]
  /\ UNCHANGED question
Interrupts(q) ==
  /\ Stored(q) = {}
  /\ question' = [text |-> q, id |-> question.id + 1]
  /\ unlogged' = unlogged \cup {question'}
  /\ at' = "waiting"
  /\ UNCHANGED <<run, queue, log, disk, report>>

\* planner_node and the edge to checkpoint A.
Plan ==
  /\ at = "plan"
  /\ at' = IF asksAlways /\ ~reviewDriven THEN "A" ELSE "draft"
  /\ plans' = plans + 1
  /\ draft' = [plan |-> plans', n |-> IF reviewDriven THEN draft.n ELSE 0]
  /\ cycle' = IF reviewDriven THEN cycle ELSE 0
  /\ reviewDriven' = FALSE
  /\ UNCHANGED <<asksAlways, queue, question, task, disk, report>>

AskA ==
  /\ at = "A"
  /\ \/ Interrupts("A")
     \/ \E a \in Replies : /\ Takes("A", a)
                           /\ at' = IF a = "accept" THEN "draft" ELSE "plan"
                           /\ UNCHANGED <<run, task, disk, report>>

\* The modules are executed, the draft aggregated and reviewed; each of the
\* latter two saves a checkpoint under the number of the draft.
Saved(step) ==
  [i \in 1..(IF step > Len(disk.saved) THEN step ELSE Len(disk.saved)) |->
     IF i > step - 2 /\ i <= step THEN plans
     ELSE IF i <= Len(disk.saved) THEN disk.saved[i] ELSE 0]
Draft ==
  /\ at = "draft"
  /\ draft' = [draft EXCEPT !.n = @ + 1]
  /\ disk' = [file |-> draft', saved |-> Saved(2 * draft'.n)]
  /\ at' \in {"B", "C"}
  /\ UNCHANGED <<asksAlways, reviewDriven, cycle, plans, queue, question, task, report>>

\* Checkpoint B asks when told to, or when the review or a budget wants it; a
\* replan the review wants happens whatever the answer, a budget that is used
\* up leads to the report.
AfterB(a, wants) ==
  /\ IF a = "replan" \/ wants THEN at' = "plan"
     ELSE at' \in {"report"} \cup (IF cycle < MaxRevisions THEN {"draft"} ELSE {})
  /\ cycle' = IF at' = "draft" THEN cycle + 1 ELSE cycle
  /\ reviewDriven' = (at' = "plan")
  /\ UNCHANGED <<asksAlways, draft, plans, task, disk, report>>
CheckpointB ==
  /\ at = "B"
  /\ \/ \E q \in Texts : Interrupts(q)
     \/ \E q \in Texts, a \in Replies, wants \in BOOLEAN : Takes(q, a) /\ AfterB(a, wants)
     \/ ~asksAlways /\ AfterB("accept", FALSE) /\ UNCHANGED <<queue, question>>

AfterC(a) ==
  /\ at' = CASE a = "replan" -> "plan" [] a = "revise" -> "draft" [] a = "accept" -> "report"
  /\ cycle' = IF a = "revise" THEN cycle + 1 ELSE cycle
  /\ UNCHANGED <<asksAlways, reviewDriven, draft, plans, task, disk, report>>
CheckpointC ==
  /\ at = "C"
  /\ \/ asksAlways /\ Interrupts("C")
     \/ asksAlways /\ \E a \in Replies : Takes("C", a) /\ AfterC(a)
     \/ ~asksAlways /\ AfterC("accept") /\ UNCHANGED <<queue, question>>

Report ==
  /\ at = "report" /\ at' = "done"
  /\ report' = [draft |-> draft, source |-> draft.plan, resumed |-> FALSE]
  /\ UNCHANGED <<run, queue, question, task, disk>>

-----------------------------------------------------------------------------
\* The runner that was interrupted logs its question after the status says so.
LogQuestion ==
  /\ \E q \in unlogged :
       /\ log' = Append(log, [kind |-> "question", text |-> q.text, id |-> q.id, answer |-> ""])
       /\ unlogged' = unlogged \ {q}
  /\ UNCHANGED <<at, run, queue, question, disk, report>>

\* reply_to_task: the answer is logged and a new runner started.  To revise is
\* to replan at A, and to go on at B.
AnswersTo(q) == IF q = "C" THEN Replies ELSE {"accept", "replan"}
Reply ==
  /\ at = "waiting" /\ question.id < MaxAsks
  /\ \E a \in AnswersTo(question.text) :
       log' = Append(log, [kind |-> "answer", text |-> "", id |-> question.id, answer |-> a])
  /\ at' = "resuming"
  /\ UNCHANGED <<run, queue, question, unlogged, disk, report>>

\* _resume_from_checkpoint_c_accept: the last question of the history is C, and
\* feedback_action of its answer, or of an empty one, is "accept".
Latest == LET asked == {i \in DOMAIN History : Asked(History[i])}
          IN IF asked = {} THEN NoEntry
             ELSE History[CHOOSE i \in asked : \A j \in asked : j <= i]
MutAcceptedC == Latest.text = "C"
AcceptedC == Latest.text = "C" /\ Latest.answer \in {"accept", ""}

\* load_checkpoint: the plan of the checkpoint with the highest number.
Loaded == disk.saved[Len(disk.saved)]

\* The new runner: straight to the report, with the modules and the review of
\* that checkpoint, or over again from the start with
\* the answered questions of the history.
Resume ==
  /\ at = "resuming"
  /\ IF AcceptedC /\ disk.file # NoDraft
     THEN /\ at' = "done"
          /\ report' = [draft |-> disk.file, source |-> Loaded, resumed |-> TRUE]
          /\ UNCHANGED <<run, queue>>
     ELSE /\ at' = "plan"
          /\ queue' = [i \in {i \in DOMAIN History : Paired(History[i])} |-> History[i]]
          /\ reviewDriven' = FALSE /\ cycle' = 0 /\ draft' = NoDraft
          /\ UNCHANGED <<asksAlways, plans, report>>
  /\ UNCHANGED <<question, task, disk>>

Work == Plan \/ AskA \/ Draft \/ CheckpointB \/ CheckpointC \/ Report \/ LogQuestion \/ Resume
Next == Work \/ Reply
Spec == Init /\ [][Next]_rpVars /\ WF_rpVars(Work)

-----------------------------------------------------------------------------
TypeOK ==
  /\ at \in {"plan", "A", "draft", "B", "C", "report", "done", "waiting", "resuming"}
  /\ asksAlways \in BOOLEAN /\ reviewDriven \in BOOLEAN
  /\ cycle \in Nat /\ plans \in Nat
  /\ draft \in [plan : Nat, n : Nat]
  /\ \A i \in DOMAIN queue : queue[i].text \in Questions /\ queue[i].answer \in Replies
  /\ question \in [text : Questions \cup {""}, id : Nat]
  /\ \A q \in unlogged : q.text \in Questions
  /\ report \in [draft : [plan : Nat, n : Nat], source : Nat, resumed : BOOLEAN]

\* A question is overtaken if its answer is logged before it.
Overtaken(id) ==
  \E i, j \in DOMAIN log :
    /\ i < j /\ log[i].kind = "answer" /\ log[j].kind = "question"
    /\ log[i].id = id /\ log[j].id = id
\* An answer is replayed to the question it was given to, or to one whose own
\* answer overtook it, and so to none that had another answer in time.
AnswersFit ==
  \A i \in DOMAIN History :
    Paired(History[i]) => \/ History[i].asked = History[i].for
                         \/ Overtaken(History[i].asked)

\* A fast-forwarded report is the draft the user accepted last, never one that
\* was written or reviewed later, unless a reply overtook its question.  Its
\* modules and review are of that draft's plan too, unless an earlier plan of the
\* task went through more drafts and left the checkpoint that is loaded.
LastAnswer == log[CHOOSE i \in DOMAIN log :
                    /\ log[i].kind = "answer"
                    /\ \A j \in DOMAIN log : log[j].kind = "answer" => j <= i]
AcceptedIsReported ==
  at = "done" /\ report.resumed =>
    /\ \/ unlogged # {} \/ \E id \in 1..question.id : Overtaken(id)
       \/ /\ LastAnswer.answer = "accept" /\ LastAnswer.id = Latest.asked
          /\ report.draft = draft
    /\ \/ report.source = report.draft.plan
       \/ Len(disk.saved) > 2 * report.draft.n /\ report.source < report.draft.plan
\* Every run comes to its end or to a question.
Settled == at \in {"done", "waiting"}
Ends == []<>Settled
=============================================================================
