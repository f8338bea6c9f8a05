---------------------------- MODULE OfficeWorkflow ----------------------------
(***************************************************************************)
(* The office workflow (agent/workflows/office): the request is normalised *)
(* with at most two questions, planned into batches, built batch by batch, *)
(* put through the quality gate, repaired a bounded number of times, and   *)
(* its files are closed before the result counts (core/, orchestrated.py). *)
(* The agent's reply is abstracted to what the code reads of it, and the   *)
(* files to whether there are any: nothing in the code tells whose a file  *)
(* of the shared output directory is.  A question is answered in place     *)
(* (ClarificationReplay).                                                  *)
(***************************************************************************)
EXTENDS Naturals

CONSTANTS
  BatchCounts,    \* lengths a plan's list of batches may have
  MaxQaRounds,    \* max_qa_fix_rounds
  NormalizeTries  \* attempts of preflight_node to normalise the goal

OfficeAssumption ==
  /\ BatchCounts \subseteq Nat
  /\ MaxQaRounds \in Nat /\ NormalizeTries \in Nat

VARIABLES
  stage,      \* the node that runs next
  tries,      \* normalisations done
  writes,     \* write_required
  batches,    \* batches of the plan; 0 for a format that is built in one go
  batch,      \* current_batch_index
  built,      \* batches the agent was asked for and returned from
  repair,     \* repair_mode
  qaRound,    \* qa_fix_round
  reply,      \* the last build's reply
  terminal,   \* terminal_status is set
  passed,     \* the last evaluation passed
  outcome     \* the OfficeDomainResult

owVars == <<stage, tries, writes, batches, batch, built, repair, qaRound, reply,
            terminal, passed, outcome>>
flow == <<tries, writes, batches, batch, built, repair, qaRound>>

\* A reply: its structured result if it has one, the operation it states, its
\* list of artifacts, which may hold entries no file can be taken from, and the
\* evaluation of its statistics.
NoReply == [json |-> FALSE, operation |-> "none", validated |-> FALSE,
            artifacts |-> "none", statsOk |-> FALSE]
Structured == [json : {TRUE}, operation : {"none", "inspect", "write"},
               validated : BOOLEAN, artifacts : {"none", "unusable", "files"},
               statsOk : BOOLEAN]
NoOutcome == [status |-> "", passed |-> FALSE, wrote |-> FALSE, closed |-> FALSE,
              files |-> FALSE]

Init ==
  /\ stage = "preflight" /\ tries = 0
  /\ writes = FALSE /\ batches = 0 /\ batch = 0 /\ built = 0
  /\ repair = FALSE /\ qaRound = 0
  /\ reply = NoReply /\ terminal = FALSE /\ passed = FALSE
  /\ outcome = NoOutcome

-----------------------------------------------------------------------------
Stop == terminal' = TRUE /\ stage' = "finalize"

\* preflight_node: the goal is normalised, rejected, or put to the user; no
\* answer, and an answer to the last question, end the workflow.
Normalized ==
  /\ stage = "preflight"
  /\ stage' = "planning" /\ writes' \in BOOLEAN
  /\ UNCHANGED <<tries, batches, batch, built, repair, qaRound, reply, terminal,
                 passed, outcome>>
Unclear ==
  /\ stage = "preflight"
  /\ tries' = tries + 1
  /\ \/ Stop
     \/ tries' < NormalizeTries /\ UNCHANGED <<stage, terminal>>
  /\ UNCHANGED <<writes, batches, batch, built, repair, qaRound, reply, passed,
                 outcome>>

\* planning_node
Plan ==
  /\ stage = "planning" /\ stage' = "build"
  /\ batches' \in BatchCounts /\ batch' = 0
  /\ UNCHANGED <<tries, writes, built, repair, qaRound, reply, terminal, passed,
                 outcome>>

\* advance_after_build: a repair goes back to the gate; otherwise the next
\* batch, while there is one.
Advanced == IF repair \/ batches = 0 THEN batch ELSE batch + 1
NextStage == IF ~repair /\ Advanced < batches THEN "build" ELSE "qa_fix"

\* run_build_stage: the agent replies, or exceeds its recursion limit or raises.
Build ==
  /\ stage = "build"
  /\ \/ /\ reply' \in Structured \cup {NoReply}
        /\ batch' = Advanced /\ stage' = NextStage
        /\ built' = IF repair THEN built ELSE built + 1
        /\ repair' = FALSE
        /\ UNCHANGED <<terminal, passed>>
     \/ Stop /\ passed' = FALSE /\ UNCHANGED <<batch, built, repair, reply>>
  /\ UNCHANGED <<tries, writes, batches, qaRound, outcome>>

\* run_qa_fix_stage: the issues that are errors.
GateOperation(r) ==
  IF r.operation # "none" THEN r.operation ELSE IF writes THEN "write" ELSE "inspect"
MutIssues(r) ==
  GateOperation(r) = "write" /\ (r.artifacts = "none" \/ ~r.validated \/ ~r.statsOk)
Issues(r) ==
  \/ GateOperation(r) = "write" /\ (r.artifacts = "none" \/ ~r.statsOk)
  \/ writes /\ ~r.validated
QaFix ==
  /\ stage = "qa_fix"
  /\ passed' = (reply.json /\ ~Issues(reply))
  /\ \/ ~reply.json /\ Stop /\ UNCHANGED <<qaRound, repair>>
     \/ reply.json /\ ~Issues(reply) /\ stage' = "finalize"
          /\ UNCHANGED <<qaRound, repair, terminal>>
     \/ reply.json /\ Issues(reply) /\ qaRound + 1 > MaxQaRounds /\ Stop
          /\ UNCHANGED <<qaRound, repair>>
     \/ reply.json /\ Issues(reply) /\ qaRound + 1 <= MaxQaRounds
          /\ stage' = "build" /\ qaRound' = qaRound + 1 /\ repair' = TRUE
          /\ UNCHANGED terminal
  /\ UNCHANGED <<tries, writes, batches, batch, built, reply, outcome>>

\* _resolve_artifact_refs finds files: those the reply names, or else, on the
\* server, what changed in the output directory since the workflow started, which
\* all tasks share.
HasFiles(changed, server) == reply.artifacts = "files" \/ (server /\ changed)

\* run_office_domain_orchestrated, after the graph: an error, or the result of
\* the gate with its files closed.  A reply without an operation is taken for
\* what the request hinted at, or for a creation.
Failed == [NoOutcome EXCEPT !.status = "error"]
Finalize ==
  /\ stage = "finalize" /\ stage' = "done"
  /\ \E changed, server, closes, hinted \in BOOLEAN :
       LET files == HasFiles(changed, server)
           inspects == reply.operation = "inspect"
                         \/ (reply.operation = "none" /\ hinted /\ ~writes)
           good == reply.validated /\ files
       IN outcome' =
            IF terminal THEN Failed
            ELSE IF ~inspects /\ good /\ ~closes THEN [Failed EXCEPT !.files = files]
            ELSE [status |-> "ok", passed |-> inspects \/ good, wrote |-> ~inspects,
                  closed |-> ~inspects /\ good, files |-> files]
  /\ UNCHANGED <<flow, reply, terminal, passed>>

Next == Normalized \/ Unclear \/ Plan \/ Build \/ QaFix \/ Finalize
Spec == Init /\ [][Next]_owVars /\ WF_owVars(Next)

-----------------------------------------------------------------------------
TypeOK ==
  /\ stage \in {"preflight", "planning", "build", "qa_fix", "finalize", "done"}
  /\ {tries, batches, batch, built, qaRound} \subseteq Nat
  /\ {writes, repair, terminal, passed} \subseteq BOOLEAN
  /\ reply \in Structured \cup {NoReply}
  /\ outcome.status \in {"", "ok", "error"} /\ outcome.files \in BOOLEAN

\* A result is reported as good only if the reply that is returned went through
\* the gate after the last build, every planned batch was built, a task that was
\* to write was validated, and what the reply says it wrote has been closed.
OkIsChecked ==
  outcome.status = "ok" /\ outcome.passed =>
    /\ passed /\ ~terminal /\ ~repair
    /\ built >= batches /\ qaRound <= MaxQaRounds
    /\ writes => reply.validated
    /\ outcome.wrote => outcome.closed /\ outcome.files

\* The workflow ends, whatever the replies.
Settled == stage = "done"
Ends == []<>Settled
=============================================================================
