--------------------------- MODULE MCDesktopHands ---------------------------
(* Values of the constants for the runs of DesktopHands, and their bound.  *)
EXTENDS DesktopHands, TLC

CONSTANTS t1, c1, c2, shot, file

\* A screenshot and a file operation of one task; and the screenshot alone.
TaskOfTwo == c1 :> t1 @@ c2 :> t1
ToolOfTwo == c1 :> shot @@ c2 :> file
TaskOfOne == c1 :> t1
ToolOfOne == c1 :> shot

\* Either a second connection or a second call, not both: neither the desktop
\* nor an agent is obliged to begin one.
Small ==
  \/ Cardinality({s \in Sockets : sock[s] # "new"}) <= 1
  \/ Cardinality({c \in Calls : pc[c] # "idle"}) <= 1

SmallSpec == Init /\ [][Next /\ Small']_vars /\ Fairness
=============================================================================
