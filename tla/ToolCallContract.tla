-------------------------- MODULE ToolCallContract --------------------------
(***************************************************************************)
(* What ToolGateway.execute promises about the tool calls of a task: a     *)
(* call is announced, then concluded at most once, it is reported as       *)
(* completed only if the desktop carried it out, and an announced call is  *)
(* concluded or its caller is gone.  DesktopHands implements it.           *)
(***************************************************************************)
CONSTANT Calls

VARIABLES
  begun,     \* calls with tool.started in the log
  done,      \* calls the desktop has carried out
  outcome    \* how the gateway concluded the call

cvars == <<begun, done, outcome>>

CInit ==
  /\ begun = {}
  /\ done = {}
  /\ outcome = [c \in Calls |-> "none"]

Announce(c) ==
  /\ outcome[c] = "none"
  /\ begun' = begun \cup {c}
  /\ UNCHANGED <<done, outcome>>

\* The desktop may carry a call out after the server has given it up.
CarryOut(c) ==
  /\ c \in begun
  /\ done' = done \cup {c}
  /\ UNCHANGED <<begun, outcome>>

Conclude(c, how) ==
  /\ outcome[c] = "none"
  /\ how \in {"completed", "failed"} => c \in begun
  /\ how = "completed" => c \in done
  /\ outcome' = [outcome EXCEPT ![c] = how]
  /\ UNCHANGED <<begun, done>>

CNext ==
  \E c \in Calls :
    \/ Announce(c)
    \/ CarryOut(c)
    \/ \E how \in {"completed", "failed", "abandoned"} : Conclude(c, how)

Concluded == \A c \in Calls : (c \in begun) ~> (outcome[c] # "none")

CSafe == CInit /\ [][CNext]_cvars
CSpec == CSafe /\ Concluded
=============================================================================
