------------------------------ MODULE MCParts ------------------------------
(***************************************************************************)
(* The instance of Parts that is checked: two research modules, x after r  *)
(* or after a module the plan does not have, and two quota periods.        *)
(***************************************************************************)
EXTENDS Parts, TLC
CONSTANTS r, x
MCPlans == {r :> {} @@ x :> d : d \in {{r}, {Dropped}}}
MCExplicit == {{}, {"checkpoint_a", "checkpoint_b", "checkpoint_c"}}
MCReviews == {{}, {r}, {x}, {Dropped}}
MCLimits == <<1, 2>>
=============================================================================
