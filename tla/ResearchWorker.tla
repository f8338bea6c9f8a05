----------------------------- MODULE ResearchWorker -----------------------------
(***************************************************************************)
(* The worker of one research module (agent/workflows/research/worker.py,  *)
(* agent/capabilities/retrieval_cache.py): a loop of planning searches,    *)
(* running them through a cache, merging what they bring into the          *)
(* evidence, drafting and validating.  A wave may run the worker of a      *)
(* module again with more rounds; it then resumes from what the last run   *)
(* that returned has left.  A search brings URLs, or a text without any,   *)
(* which is kept as one record under the name of its query, or nothing;    *)
(* the message of a tool that failed is such a text.  What is written is   *)
(* abstracted to its length, and one message asks each query once.         *)
(***************************************************************************)
EXTENDS Naturals, FiniteSets

CONSTANTS
  Queries,      \* what the tools may be asked
  Urls,         \* what an answer may cite
  MaxSearches,  \* bound: the largest soft budget
  StepLimit,    \* LangGraph's recursion limit: nodes of one run
  MaxRuns       \* bound: runs of the worker

WorkerAssumption ==
  /\ Queries \cap Urls = {} /\ IsFiniteSet(Queries \cup Urls)
  /\ {MaxSearches, StepLimit, MaxRuns} \subseteq Nat

VARIABLES
  runtime,     \* module_runtime of the module: what runs resume from
  worker,      \* the same fields of the WorkerState of the run
  workerNode,  \* the node that runs next, or how the last run ended
  limit,       \* max_search_rounds
  asked,       \* the tool calls of the last message
  brought,     \* last_tool_results: the records of every call
  count,       \* new_evidence_total of the run
  findings,    \* the text: "none", "thin" (below 80 characters), "full"
  verdict,     \* draft_status
  steps,       \* nodes of the run
  runs         \* runs started

wkVars == <<runtime, worker, workerNode, limit, asked, brought, count, findings,
            verdict, steps, runs>>

Records == Queries \cup Urls
\* pack: evidence_pack; cache: query_fingerprints; searched: search_round, with
\* which search_history grows; fresh: last_search_metrics has new evidence.
Nothing == [pack |-> {}, cache |-> [q \in {} |-> {}], searched |-> 0, fresh |-> FALSE]
Idle == {"idle", "returned", "failed"}
Left == IF limit > worker.searched THEN limit - worker.searched ELSE 0

Init ==
  /\ runtime = Nothing /\ worker = Nothing
  /\ workerNode = "idle" /\ limit = 0
  /\ asked = {} /\ brought = {} /\ count = 0
  /\ findings = "none" /\ verdict = "pending"
  /\ steps = 0 /\ runs = 0

-----------------------------------------------------------------------------
\* run_worker, up to the graph.  coordinate_modules starts one only with rounds
\* left, and a soft budget never shrinks.
Start ==
  /\ workerNode \in Idle /\ runs < MaxRuns
  /\ limit' \in {n \in limit..MaxSearches : n > runtime.searched}
  /\ worker' = runtime
  /\ workerNode' = "plan_search"
  /\ asked' = {} /\ brought' = {} /\ count' = 0
  /\ findings' = "none" /\ verdict' = "pending"
  /\ steps' = 0 /\ runs' = runs + 1
  /\ UNCHANGED runtime

\* One more node, and the one after it; the graph gives up at its limit.
Step(here, next) ==
  /\ workerNode = here /\ steps < StepLimit
  /\ steps' = steps + 1 /\ workerNode' = next
  /\ UNCHANGED <<runtime, limit, runs>>

\* plan_search and its route: the model calls tools or it does not.
PlanSearch ==
  /\ asked' \in SUBSET Queries
  /\ Step("plan_search",
          IF asked' # {} /\ Left > 0 THEN "run_tools" ELSE "draft_module")
  /\ UNCHANGED <<worker, brought, count, findings, verdict>>

\* _make_tool_evidence: of the URLs of a text, of a text without any, of none.
EvidenceOf(q) == (SUBSET Urls) \cup {{q}}

\* run_tools: a query in the cache is answered from there, whatever it brought.
Cached(q) == q \in DOMAIN worker.cache
RunTools ==
  /\ \E answer \in [asked -> UNION {EvidenceOf(q) : q \in asked}] :
       /\ \A q \in asked :
            answer[q] \in IF Cached(q) THEN {worker.cache[q]} ELSE EvidenceOf(q)
       /\ brought' = {answer[q] : q \in asked}
       /\ worker' = [worker EXCEPT
            !.cache = [q \in asked \cup DOMAIN @ |-> IF Cached(q) THEN @[q] ELSE answer[q]],
            !.searched = @ + 1]
  /\ Step("run_tools", "integrate_evidence")
  /\ UNCHANGED <<asked, count, findings, verdict>>

\* integrate_evidence and its route: only what the evidence grows by is new.
MutGrowth(pack) == Cardinality(UNION brought)
Growth(pack) == Cardinality(pack) - Cardinality(worker.pack)
IntegrateEvidence ==
  /\ LET pack == worker.pack \cup UNION brought IN
     /\ worker' = [worker EXCEPT !.pack = pack, !.fresh = Growth(pack) > 0]
     /\ count' = count + Growth(pack)
  /\ Step("integrate_evidence", IF Left = 0 THEN "draft_module" ELSE "plan_search")
  /\ UNCHANGED <<asked, brought, findings, verdict>>

\* draft_module
DraftModule ==
  /\ findings' \in {"none", "thin", "full"}
  /\ Step("draft_module", "validate_module")
  /\ UNCHANGED <<worker, asked, brought, count, verdict>>

\* _fallback_validation, when the model gives no status.
Progress == worker.pack # {} \/ worker.fresh \/ worker.searched = 0
Fallback ==
  CASE findings = "none" /\ worker.pack = {} /\ worker.searched = 0 -> "blocked"
    [] findings = "full" -> "completed"
    [] OTHER -> IF Left > 0 /\ Progress THEN "needs_more_evidence" ELSE "blocked"

\* validate_module and its route: nobody searches on without rounds.
MutVerdictOf(status) == status
VerdictOf(status) ==
  IF status = "needs_more_evidence" /\ Left = 0 THEN "blocked" ELSE status
ValidateModule ==
  /\ \E status \in {"completed", "needs_more_evidence", "blocked", Fallback} :
       verdict' = VerdictOf(status)
  /\ Step("validate_module",
          IF verdict' = "needs_more_evidence" /\ Left > 0 THEN "plan_search" ELSE "END")
  /\ UNCHANGED <<worker, asked, brought, count, findings>>

\* The graph has ended: coordinate_modules takes worker_state over.
Return ==
  /\ workerNode = "END" /\ workerNode' = "returned"
  /\ runtime' = worker
  /\ UNCHANGED <<worker, limit, asked, brought, count, findings, verdict, steps, runs>>

\* A model or an academic search raises, a tool is not known, or the graph is at
\* its recursion limit: the result is an error and has no worker_state.
Fail ==
  /\ workerNode \notin Idle /\ workerNode' = "failed"
  /\ steps = StepLimit \/ workerNode \in {"plan_search", "run_tools", "draft_module"}
  /\ UNCHANGED <<runtime, worker, limit, asked, brought, count, findings, verdict, steps, runs>>

Work ==
  \/ PlanSearch \/ RunTools \/ IntegrateEvidence \/ DraftModule \/ ValidateModule
  \/ Return \/ Fail
Next == Start \/ Work
Spec == Init /\ [][Next]_wkVars /\ WF_wkVars(Work)

-----------------------------------------------------------------------------
State == [pack : SUBSET Records, cache : UNION {[Q -> SUBSET Records] : Q \in SUBSET Queries},
          searched : Nat, fresh : BOOLEAN]
TypeOK ==
  /\ runtime \in State /\ worker \in State
  /\ workerNode \in Idle \cup {"plan_search", "run_tools", "integrate_evidence",
                               "draft_module", "validate_module", "END"}
  /\ limit \in Nat /\ steps \in 0..StepLimit /\ runs \in 0..MaxRuns /\ count \in Nat
  /\ asked \subseteq Queries /\ brought \subseteq SUBSET Records
  /\ findings \in {"none", "thin", "full"}
  /\ verdict \in {"pending", "completed", "needs_more_evidence", "blocked"}

\* Between two runs nothing is left over: all that answers brought is in the
\* evidence, so that an answer from the cache can be taken as nothing new, and
\* the run that returns has counted every record that is new to the module
\* once, through all its rounds.  It is what the budget is extended for.
EvidenceAddsUp ==
  /\ UNION {runtime.cache[q] : q \in DOMAIN runtime.cache} \subseteq runtime.pack
  /\ workerNode = "END" =>
       /\ runtime.pack \subseteq worker.pack
       /\ Cardinality(worker.pack) = Cardinality(runtime.pack) + count

Settled == workerNode \in Idle
=============================================================================
