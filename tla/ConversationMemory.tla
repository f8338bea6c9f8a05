-------------------------- MODULE ConversationMemory --------------------------
(***************************************************************************)
(* The history a run is given of its conversation                          *)
(* (domain/conversations/context.py): the last completed rounds as they    *)
(* are, the older ones as a rolling summary that is stored with a          *)
(* watermark, the number of rounds it stands for.  A run reads the rounds, *)
(* reads the summary, has the older rounds it does not cover merged into   *)
(* it, and stores it, in separate transactions, while other runs do the    *)
(* same and complete.  A summary is abstracted to the rounds that were     *)
(* merged into it.                                                         *)
(***************************************************************************)
EXTENDS Naturals, Sequences, FiniteSets

CONSTANTS
  Rounds,        \* number of tasks of the conversation, in order of creation
  RawRounds,     \* completed rounds up to which they are given raw
  RecentRounds,  \* RECENT_ROUNDS
  Batch          \* new older rounds from which the summary is updated

MemoryAssumption ==
  /\ {Rounds, RawRounds, RecentRounds} \subseteq Nat /\ Batch \in Nat \ {0}
  /\ RecentRounds <= RawRounds

VARIABLES
  created,      \* tasks created
  completions,  \* tasks that completed, in the order in which they did
  build,        \* the context of a task being built
  summary,      \* context_summary, and its watermark in rounds
  blanked       \* the model has returned an empty summary

cmVars == <<created, completions, build, summary, blanked>>

Task == 1..Rounds
NoBuild == [step |-> "none", older |-> {}, merged |-> {}]

Init ==
  /\ created = 0 /\ completions = <<>>
  /\ build = [t \in Task |-> NoBuild]
  /\ summary = [text |-> {}, through |-> 0]
  /\ blanked = FALSE

Completed == {completions[i] : i \in DOMAIN completions}
\* get_rounds: the completed rounds.  They come in order of creation, so that the
\* first n of them are those with fewer than n before them.
MutGetRounds == 1..created
GetRounds == Completed
First(n, S) == {t \in S : Cardinality({u \in S : u < t}) < n}

\* A new task reads the rounds; with few of them no summary is needed.
Start ==
  /\ created < Rounds
  /\ created' = created + 1
  /\ LET count == Cardinality(GetRounds) IN
     build' = [build EXCEPT ![created'] =
                 IF count <= RawRounds THEN [NoBuild EXCEPT !.step = "running"]
                 ELSE [NoBuild EXCEPT !.step = "older",
                         !.older = First(count - RecentRounds, GetRounds)]]
  /\ UNCHANGED <<completions, summary, blanked>>

\* The rounds of older that the watermark does not count; all of them when it
\* counts more than there are and the summary is empty.
NewRounds(older) ==
  IF Cardinality(older) > summary.through
  THEN older \ First(summary.through, older) ELSE older
NewCount(older) ==
  IF Cardinality(older) > summary.through THEN Cardinality(older) - summary.through ELSE 0
ReadSummary(t) ==
  /\ build[t].step = "older"
  /\ LET older == build[t].older IN
     build' = [build EXCEPT ![t] =
                 IF NewCount(older) < Batch /\ summary.text # {}
                 THEN [NoBuild EXCEPT !.step = "running"]
                 ELSE [step |-> "merging", older |-> older,
                       merged |-> summary.text \cup NewRounds(older)]]
  /\ UNCHANGED <<created, completions, summary, blanked>>

\* The model merges them, or fails, or returns nothing, which is stored as well.
MutThrough(older) == Cardinality(older) + RecentRounds
Through(older) == Cardinality(older)
Merge(t) ==
  /\ build[t].step = "merging"
  /\ \/ UNCHANGED <<summary, blanked>>
     \/ \E empty \in BOOLEAN :
          /\ summary' = [text |-> IF empty THEN {} ELSE build[t].merged,
                         through |-> Through(build[t].older)]
          /\ blanked' = (blanked \/ empty)
  /\ build' = [build EXCEPT ![t] = [NoBuild EXCEPT !.step = "running"]]
  /\ UNCHANGED <<created, completions>>

\* A run ends, with lifecycle.completed or without.
Complete(t) ==
  /\ build[t].step = "running"
  /\ build' = [build EXCEPT ![t].step = "ended"]
  /\ completions' \in {completions, Append(completions, t)}
  /\ UNCHANGED <<created, summary, blanked>>

Work == \E t \in Task : ReadSummary(t) \/ Merge(t) \/ Complete(t)
Next == Start \/ Work
Spec == Init /\ [][Next]_cmVars /\ WF_cmVars(Work)

-----------------------------------------------------------------------------
TypeOK ==
  /\ created \in 0..Rounds
  /\ Completed \subseteq 1..created
  /\ \A t \in Task : /\ build[t].step \in {"none", "older", "merging", "running", "ended"}
                     /\ build[t].older \subseteq Completed
                     /\ build[t].merged \subseteq Completed
  /\ summary.text \subseteq Completed /\ summary.through \in 0..Rounds
  /\ blanked \in BOOLEAN

\* The rounds that completed after one created later.
Late == {i \in DOMAIN completions : \E j \in 1..(i - 1) : completions[j] > completions[i]}
\* The rounds the watermark counts are all in the summary, but for one for each
\* that completed out of order, as long as the model never returned nothing.
WatermarkHolds ==
  blanked \/ Cardinality(First(summary.through, Completed) \ summary.text)
               <= Cardinality(Late)
\* Every run gets its history and ends.
Settled == \A t \in Task : build[t].step \in {"none", "ended"}
Ends == []<>Settled
=============================================================================
