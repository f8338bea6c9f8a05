----------------------------- MODULE ResearchReview -----------------------------
(***************************************************************************)
(* The review gate of the research workflow (reviewers.py): seven          *)
(* dimensions of a draft are scored from what the modules, the report and  *)
(* the evidence hold, each against a threshold of its own; what is to be   *)
(* revised is then put together from those that failed.  A text is         *)
(* abstracted to how many of the words that count it has.  The weights are *)
(* the code's, in thousandths or over a common denominator: the caps on    *)
(* scores never bind at a threshold.                                       *)
(***************************************************************************)
EXTENDS Naturals, FiniteSets, Sequences

CONSTANTS
  Deliverables,  \* the types of deliverable that are asked for
  Banks          \* how many traceable records the evidence may have

ReviewAssumption == Banks \subseteq Nat

VARIABLES
  deliverable,  \* brief.deliverable_type
  present,      \* modules with content
  bank,         \* traceable_count
  due,          \* the next dimension
  cited,        \* the citation modules mention a URL
  failed,       \* dimensions that did not pass
  adrift,       \* intent_alignment is below 0.45
  judged        \* the ReviewResult, or that there is none yet

reviewVars == <<deliverable, present, bank, due, cited, failed, adrift, judged>>

Framing == {"problem_definition", "related_work", "argument_map", "contributions"}
Methods == {"method_candidates", "experiment_design"}
Subjects == {"subject_a_research", "subject_b_research"}
Verdicts == {"comparative_matrix", "decision_recommendations", "caveats_and_risks"}
Compares(kind) == kind = "comparative_analysis"

Comparison == {"comparison_scope"} \cup Subjects \cup Verdicts

\* fallback_plan: the required modules of the profile and what they build on.
Planned(kind) ==
  CASE Compares(kind) -> Comparison
    [] kind = "paper_outline" -> Framing
    [] kind = "literature_review" -> Framing \cup {"limitations"}
    [] OTHER -> Framing \cup {"limitations"} \cup Methods
ByMethod(kind) == kind \in {"paper_guidance", "research_proposal"}

\* The modules that the dimensions look at.
CitationModules(kind) ==
  IF Compares(kind) THEN Subjects ELSE {"problem_definition", "related_work"}
ArgumentModules(kind) ==
  IF Compares(kind) THEN Verdicts ELSE {"argument_map", "contributions", "limitations"}
AlignmentModules(kind) ==
  CASE Compares(kind) -> Comparison
    [] kind = "paper_guidance" -> (Framing \ {"problem_definition"}) \cup Methods
    [] OTHER -> Framing
\* How many groups of headings a report of the kind may have.
Sections(kind) == IF Compares(kind) THEN 5 ELSE 4

Dimensions == <<"citation_authenticity_traceability", "citation_relevance_coverage",
                "citation_recency", "methodological_rigor", "experimental_feasibility",
                "argument_chain_completeness", "intent_alignment">>
Unjudged == [passed |-> FALSE, targets |-> {}, replan |-> FALSE, locks |-> {}]

\* evaluate_draft_node is reached with any of the modules missing.
Init ==
  /\ deliverable \in Deliverables
  /\ present \in SUBSET Planned(deliverable)
  /\ bank \in Banks
  /\ due = 1 /\ cited = FALSE
  /\ failed = {} /\ adrift = FALSE
  /\ judged = Unjudged

-----------------------------------------------------------------------------
Count(S) == Cardinality(S \cap present)
Capped(n, most) == IF n > most THEN most ELSE n
\* A text without words has none of those that count.  method_text and
\* argument_text read the modules of an academic deliverable, whatever the kind.
Hits(S, most) == IF S \cap present = {} THEN {0} ELSE 0..most
ArgumentText == {"argument_map", "contributions", "limitations"}

MutCovers(mentions) ==
  200 + 175 * Count(CitationModules(deliverable))
      + 60 * Capped(bank, 5) + 50 * mentions >= 650
Covers(mentions) ==
  200 + 175 * Count(CitationModules(deliverable))
      + 60 * Capped(bank, 5) + 50 * mentions >= 680

\* At 680 itself the floating-point sum is just below 0.68.
Argues(hits) == 200 + 90 * hits + 100 * Count(ArgumentModules(deliverable)) > 680

\* 0.25 + 0.35 of the sections + 0.4 of the modules, against n / 20.
Aligns(sections, n) ==
  LET s == Sections(deliverable) m == Cardinality(AlignmentModules(deliverable)) IN
  5 * s * m + 7 * sections * m + 8 * Count(AlignmentModules(deliverable)) * s >= n * s * m

\* One dimension scored: whether it passes.
Score(dimension, passes) ==
  /\ due' = due + 1
  /\ due \in DOMAIN Dimensions /\ dimension = Dimensions[due]
  /\ failed' = IF passes THEN failed ELSE failed \cup {dimension}
  /\ UNCHANGED <<deliverable, present, bank, judged>>

Traceability ==
  /\ Score("citation_authenticity_traceability", bank >= 3)
  /\ UNCHANGED <<cited, adrift>>
Coverage ==
  \E mentions \in Hits(CitationModules(deliverable), 3) :
    /\ Score("citation_relevance_coverage", Covers(mentions))
    /\ cited' = (mentions > 0)
    /\ UNCHANGED adrift
\* It fails without evidence and when all the years known are old; it passes
\* without years, traceable or not.
Recency ==
  \E passes \in BOOLEAN :
    /\ Score("citation_recency", passes)
    /\ UNCHANGED <<cited, adrift>>
Rigor ==
  \E hits \in Hits(Methods, 3) :
    /\ Score("methodological_rigor", ByMethod(deliverable) => hits >= 3)
    /\ UNCHANGED <<cited, adrift>>
Feasibility ==
  \E hits \in Hits(Methods, 3) :
    /\ Score("experimental_feasibility", ByMethod(deliverable) => hits >= 3)
    /\ UNCHANGED <<cited, adrift>>
Argument ==
  \E hits \in Hits(ArgumentText, 5) :
    /\ Score("argument_chain_completeness", Argues(hits))
    /\ UNCHANGED <<cited, adrift>>
Intent ==
  \E sections \in 0..Sections(deliverable) :
    /\ Score("intent_alignment", Aligns(sections, 13))
    /\ adrift' = ~Aligns(sections, 9)
    /\ UNCHANGED cited

\* build_revision_targets, of one dimension.
TargetsOf(dimension) ==
  CASE dimension \in {"citation_authenticity_traceability", "citation_relevance_coverage"} ->
         IF Compares(deliverable) THEN Subjects ELSE {"related_work"}
    [] dimension = "citation_recency" ->
         {IF Compares(deliverable) THEN "subject_a_research" ELSE "related_work"}
    [] dimension = "methodological_rigor" -> {"method_candidates"}
    [] dimension = "experimental_feasibility" -> {"experiment_design"}
    [] dimension = "argument_chain_completeness" ->
         IF Compares(deliverable) THEN {"comparative_matrix", "caveats_and_risks"}
                                  ELSE {"argument_map", "limitations"}
    [] dimension = "intent_alignment" ->
         {IF Compares(deliverable) THEN "comparison_scope" ELSE "problem_definition"}

\* evaluate: without any module there is an error, which has no target of its own
\* (build_revision_targets knows the other error, of an empty report, by its words).
Judge ==
  /\ due = Len(Dimensions) + 1 /\ due' = due + 1
  /\ \E errors \in IF present = {} THEN BOOLEAN ELSE {FALSE} :
       LET targeted == UNION {TargetsOf(dimension) : dimension \in failed} IN
       judged' = [passed |-> ~errors /\ ~adrift /\ failed = {}, targets |-> targeted,
                  replan |-> adrift, locks |-> present \ targeted]
  /\ UNCHANGED <<deliverable, present, bank, cited, failed, adrift>>

Next ==
  \/ Traceability \/ Coverage \/ Recency \/ Rigor \/ Feasibility \/ Argument \/ Intent
  \/ Judge
Spec == Init /\ [][Next]_reviewVars /\ WF_reviewVars(Next)

-----------------------------------------------------------------------------
AllModules == UNION {Planned(kind) : kind \in
                {"literature_review", "paper_guidance", "comparative_analysis"}}
TypeOK ==
  /\ deliverable \in Deliverables
  /\ present \subseteq Planned(deliverable)
  /\ bank \in Banks /\ due \in 1..(Len(Dimensions) + 2)
  /\ cited \in BOOLEAN /\ adrift \in BOOLEAN
  /\ failed \subseteq {Dimensions[i] : i \in DOMAIN Dimensions}
  /\ judged \in [passed : BOOLEAN, targets : SUBSET AllModules,
                 replan : BOOLEAN, locks : SUBSET AllModules]

\* What the workflow takes for granted of a review: it passes exactly when there
\* is nothing to revise, and one that wants a new plan has something to revise.
\* And what a pass means, all scores taken together: sources to trace, a text on
\* them in both citation modules or one that cites a URL, and an argument.
Settled == due = Len(Dimensions) + 2
ReviewIsSound ==
  Settled =>
    /\ judged.passed <=> judged.targets = {}
    /\ judged.replan => judged.targets # {}
    /\ judged.passed =>
         /\ bank >= 3
         /\ CitationModules(deliverable) \cap present # {}
         /\ CitationModules(deliverable) \subseteq present \/ cited
         /\ ArgumentText \cap present # {}
         /\ ~Compares(deliverable)
=============================================================================
