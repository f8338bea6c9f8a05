---------------------------- MODULE TaskContract ----------------------------
(***************************************************************************)
(* What a client of the task API is promised about one task, whatever the  *)
(* server does inside: the status of GET /tasks/{id}, the kinds of         *)
(* canonical events GET /tasks/{id}/events can replay, and whether a usage *)
(* record was charged.  A terminal status is published only after the      *)
(* event that explains it is in the log, and "succeeded" only after the    *)
(* task was charged, which itself comes after "completed" was logged.      *)
(* The event stream relies on it: it closes as soon as it reads a terminal *)
(* status.                                                                 *)
(***************************************************************************)
EXTENDS Naturals

VARIABLES status,    \* task_runs.status; "absent" before the row exists
          logged,    \* the kinds of lifecycle and interaction events in task_events
          charged    \* a usage_events row exists for the task

vars == <<status, logged, charged>>

Terminal == {"succeeded", "failed", "cancelled"}

Kinds == {"started", "question", "answer", "completed", "failed", "cancelled"}

\* The event that must be in the log before a terminal status is visible.
EventOf == [s \in Terminal |-> IF s = "succeeded" THEN "completed" ELSE s]

Init ==
  /\ status = "absent"
  /\ logged = {}
  /\ charged = FALSE

Create ==
  /\ status = "absent"
  /\ status' = "queued"
  /\ UNCHANGED <<logged, charged>>

\* The task is being worked on, or waits for its user.
Work ==
  /\ status # "absent"
  /\ status' \in {"running", "waiting_for_user"}
  /\ UNCHANGED <<logged, charged>>

Log(k) ==
  /\ status # "absent"
  /\ logged' = logged \cup {k}
  /\ UNCHANGED <<status, charged>>

Charge ==
  /\ "completed" \in logged
  /\ charged' = TRUE
  /\ UNCHANGED <<status, logged>>

Settle(s) ==
  /\ EventOf[s] \in logged
  /\ s = "succeeded" => charged
  /\ status' = s
  /\ UNCHANGED <<logged, charged>>

Next ==
  \/ Create
  \/ Work
  \/ \E k \in Kinds : Log(k)
  \/ Charge
  \/ \E s \in Terminal : Settle(s)

Spec == Init /\ [][Next]_vars

=============================================================================
