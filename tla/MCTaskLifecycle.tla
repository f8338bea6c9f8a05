-------------------------- MODULE MCTaskLifecycle ---------------------------
(***************************************************************************)
(* The instance of TaskLifecycle for overlapping requests: the symmetry of *)
(* calls of one endpoint, which are interchangeable, and a bound.          *)
(***************************************************************************)
EXTENDS TaskLifecycle, TLC

Symmetry == Permutations(Repliers) \cup Permutations(Cancellers)

\* Either a second reply or mishaps, not both: neither users nor faults are
\* obliged to occur.
Small ==
  \/ Cardinality({h \in Repliers : reply[h] # "idle"}) <= 1
  \/ mishaps = 0

SmallSpec == Init /\ [][Next /\ Small']_vars
=============================================================================
