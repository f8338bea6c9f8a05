---------------------------- MODULE DesktopHands ----------------------------
(***************************************************************************)
(* One user's desktop as the server sees it: the WebSocket endpoint        *)
(* (web/routers/desktop_hands.py), the registry of connections             *)
(* (agent/hands/desktop_manager.py), the executor that sends a tool call   *)
(* over the registered connection and waits for its result                 *)
(* (agent/hands/desktop_executor.py) and the gateway that logs the call's  *)
(* events around it (agent/hands/gateway.py).  A socket stands for one     *)
(* connection of the desktop client, a call for one gateway.execute.  The  *)
(* policy check is_allowed passes whenever the context has no policy, as   *)
(* in every call modelled here.  The client is external.                   *)
(***************************************************************************)
EXTENDS Naturals, Sequences, FiniteSets

CONSTANTS
  Sockets, Tools,
  FileTools,      \* tools reached through DesktopToolBackend
  Tasks, Calls,
  TaskOf, ToolOf, \* the task that makes a call, the tool it calls
  NoSocket

ASSUME CallsAssumption ==
  /\ NoSocket \notin Sockets
  /\ FileTools \subseteq Tools
  /\ TaskOf \in [Calls -> Tasks]
  /\ ToolOf \in [Calls -> Tools]

VARIABLES
  sock,        \* what the endpoint's handler of a socket is at
  offers,      \* DesktopConnection.tool_names
  registered,  \* DesktopHandsManager._connections[user], its socket
  bound,       \* desktop tools given to the agent of a task when it was built
  pc,          \* where gateway.execute is
  avail,       \* executor_available
  via,         \* conn of DesktopToolExecutor.execute
  future,      \* _pending[invocation_id]
  outcome,     \* result.success
  cooling,     \* tasks with _timeout_cooldown_until in the future
  events,      \* the call's events in the log
  wire, back,  \* frames on the way to the client, and from it
  desk         \* what the client did with a call

endpoint == <<sock, offers, registered>>
caller == <<pc, avail, via, outcome, events>>
client == <<wire, back, desk>>
vars == <<sock, offers, registered, bound, pc, avail, via, future, outcome,
          cooling, events, wire, back, desk>>

Frame == [kind : {"call", "cancel"}, call : Calls]
Result == [call : Calls, ok : BOOLEAN]
Suspended == {"starting", "started", "sending", "waiting", "cancelling", "reporting"}
Over == {"done", "raised", "cancelled"}

Init ==
  /\ sock = [s \in Sockets |-> "new"]
  /\ offers = [s \in Sockets |-> {}]
  /\ registered = NoSocket
  /\ bound = [t \in Tasks |-> {}]
  /\ pc = [c \in Calls |-> "idle"]
  /\ avail = [c \in Calls |-> FALSE]
  /\ via = [c \in Calls |-> NoSocket]
  /\ future = [c \in Calls |-> "absent"]
  /\ outcome = [c \in Calls |-> "none"]
  /\ cooling = {}
  /\ events = [c \in Calls |-> <<>>]
  /\ wire = [s \in Sockets |-> <<>>]
  /\ back = [s \in Sockets |-> <<>>]
  /\ desk = [c \in Calls |-> "none"]

-----------------------------------------------------------------------------
(* The endpoint: one handler per socket.                                   *)

\* Authentication passed, ws.accept() returned.
Accept(s) ==
  /\ sock[s] = "new"
  /\ sock' = [sock EXCEPT ![s] = "accepted"]
  /\ UNCHANGED <<offers, registered, bound, caller, future, cooling, client>>

\* The newest connection replaces the previous one, whose handler goes on.
Enrol(s, T) ==
  /\ offers' = [offers EXCEPT ![s] = T]
  /\ registered' = s

\* The capabilities message.
Register(s) ==
  /\ sock[s] = "accepted"
  /\ sock' = [sock EXCEPT ![s] = "open"]
  /\ \E T \in SUBSET Tools : Enrol(s, T)
  /\ UNCHANGED <<bound, caller, future, cooling, client>>

MutResolveUntold(c, ok) ==
  future' = [future EXCEPT ![c] = IF @ = "open" THEN "resolved" ELSE @]

MutResolveAnything(c, ok) ==
  future' = [future EXCEPT ![c] = IF @ = "open" THEN "succeeded" ELSE @]

\* A late result finds no future, or one that is done, and is dropped.
ResolveInvocation(c, ok) ==
  future' = [future EXCEPT ![c] =
    IF @ = "open" THEN IF ok THEN "succeeded" ELSE "failed" ELSE @]

HandleResult(s) ==
  /\ sock[s] \in {"open", "broken"}
  /\ back[s] # <<>>
  /\ ResolveInvocation(Head(back[s]).call, Head(back[s]).ok)
  /\ back' = [back EXCEPT ![s] = Tail(@)]
  /\ UNCHANGED <<endpoint, bound, caller, cooling, wire, desk>>

\* The client goes away, or sends what the handler cannot take: frames on
\* their way are lost, of those to the server any suffix.
Break(s) ==
  /\ sock[s] \in {"accepted", "open"}
  /\ sock' = [sock EXCEPT ![s] = "broken"]
  /\ wire' = [wire EXCEPT ![s] = <<>>]
  /\ \E n \in 0..Len(back[s]) : back' = [back EXCEPT ![s] = SubSeq(@, 1, n)]
  /\ UNCHANGED <<offers, registered, bound, caller, future, cooling, desk>>

MutUnregisterAny(s) == registered' = NoSocket

Unregister(s) == registered' = IF registered = s THEN NoSocket ELSE registered

\* receive_json raises and the handler's finally runs.
EndHandler(s) ==
  /\ sock[s] = "broken"
  /\ back[s] = <<>>
  /\ sock' = [sock EXCEPT ![s] = "ended"]
  /\ Unregister(s)
  /\ UNCHANGED <<offers, bound, caller, future, cooling, client>>

-----------------------------------------------------------------------------
(* The gateway and the executor: one coroutine per call.                   *)

\* An agent is built: it gets the tools of the connection of the moment.
BindTools(t) ==
  /\ registered # NoSocket
  /\ bound[t] = {}
  /\ bound' = [bound EXCEPT ![t] = offers[registered] \ FileTools]
  /\ UNCHANGED <<endpoint, caller, future, cooling, client>>

\* The agent can make the call: it was given the tool, or it is a file
\* operation while a desktop is connected.
Callable(c) ==
  \/ ToolOf[c] \in bound[TaskOf[c]]
  \/ ToolOf[c] \in FileTools /\ registered # NoSocket

\* The user has a desktop connection with this tool.
Available(c) == registered # NoSocket /\ ToolOf[c] \in offers[registered]

\* gateway.execute up to its first await.
Route(c) ==
  /\ pc[c] = "idle"
  /\ Callable(c)
  /\ avail' = [avail EXCEPT ![c] = Available(c)]
  /\ pc' = [pc EXCEPT ![c] = "starting"]
  /\ UNCHANGED <<endpoint, bound, via, future, outcome, cooling, events, client>>

Log(c, event) == events' = [events EXCEPT ![c] = Append(@, event)]

LogStarted(c) ==
  /\ pc[c] = "starting"
  /\ Log(c, "started")
  /\ pc' = [pc EXCEPT ![c] = "started"]
  /\ UNCHANGED <<endpoint, bound, avail, via, future, outcome, cooling, client>>

MutRefusedIgnoresCooling(c) == ~avail[c] \/ registered = NoSocket

\* Neither the gateway nor the executor finds the desktop ready.
Refused(c) ==
  \/ ~avail[c]
  \/ TaskOf[c] \in cooling
  \/ registered = NoSocket

Refuse(c) ==
  /\ pc[c] = "started"
  /\ Refused(c)
  /\ outcome' = [outcome EXCEPT ![c] = "failed"]
  /\ pc' = [pc EXCEPT ![c] = "reporting"]
  /\ UNCHANGED <<endpoint, bound, avail, via, future, cooling, events, client>>

\* The executor looks the connection up again, but not its tools.
Dispatch(c) ==
  /\ pc[c] = "started"
  /\ ~Refused(c)
  /\ future' = [future EXCEPT ![c] = "open"]
  /\ via' = [via EXCEPT ![c] = registered]
  /\ pc' = [pc EXCEPT ![c] = "sending"]
  /\ UNCHANGED <<endpoint, bound, avail, outcome, cooling, events, client>>

\* A frame reaches the client of an open socket, and is lost on a broken one.
Transmit(s, kind, c) ==
  wire' = IF sock[s] = "open"
          THEN [wire EXCEPT ![s] = Append(@, [kind |-> kind, call |-> c])]
          ELSE wire

Sent(c) ==
  /\ pc[c] = "sending"
  /\ sock[via[c]] \in {"open", "broken"}
  /\ Transmit(via[c], "call", c)
  /\ pc' = [pc EXCEPT ![c] = "waiting"]
  /\ UNCHANGED <<endpoint, bound, avail, via, future, outcome, cooling, events,
                 back, desk>>

MutForget(c) == UNCHANGED future

\* The finally of execute: the invocation is forgotten on every way out.
Forget(c) == future' = [future EXCEPT ![c] = "absent"]

Reports(c, result) ==
  /\ outcome' = [outcome EXCEPT ![c] = result]
  /\ pc' = [pc EXCEPT ![c] = "reporting"]

SendFails(c) ==
  /\ pc[c] = "sending"
  /\ sock[via[c]] \in {"broken", "ended"}
  /\ Reports(c, "failed")
  /\ Forget(c)
  /\ UNCHANGED <<endpoint, bound, avail, via, cooling, events, client>>

\* wait_for returns the result; the task's cooldown is lifted.
Answered(c) ==
  /\ pc[c] = "waiting"
  /\ future[c] \in {"succeeded", "failed"}
  /\ cooling' = cooling \ {TaskOf[c]}
  /\ Reports(c, future[c])
  /\ Forget(c)
  /\ UNCHANGED <<endpoint, bound, avail, via, events, client>>

MutTimesOutWhileOpen(c) ==
  /\ pc[c] = "waiting"
  /\ sock[via[c]] = "open"
  /\ cooling' = cooling \cup {TaskOf[c]}
  /\ future' = [future EXCEPT ![c] = "dropped"]
  /\ pc' = [pc EXCEPT ![c] = "cancelling"]
  /\ UNCHANGED <<endpoint, bound, avail, via, outcome, events, client>>

\* wait_for gives up: it may do so with the result already there, when the
\* timer and the result fall into the same turn of the event loop.
TimesOut(c) ==
  /\ pc[c] = "waiting"
  /\ cooling' = cooling \cup {TaskOf[c]}
  /\ future' = [future EXCEPT ![c] = "dropped"]
  /\ pc' = [pc EXCEPT ![c] = "cancelling"]
  /\ UNCHANGED <<endpoint, bound, avail, via, outcome, events, client>>

\* _send_cancel returns whether the frame went out or not.
SendCancel(c) ==
  /\ pc[c] = "cancelling"
  /\ Transmit(via[c], "cancel", c)
  /\ Reports(c, "failed")
  /\ Forget(c)
  /\ UNCHANGED <<endpoint, bound, avail, via, cooling, events, back, desk>>

Report(c) ==
  /\ pc[c] = "reporting"
  /\ Log(c, IF outcome[c] = "succeeded" THEN "completed" ELSE "failed")
  /\ pc' = [pc EXCEPT ![c] = "done"]
  /\ UNCHANGED <<endpoint, bound, avail, via, future, outcome, cooling, client>>

\* Appending an event fails, or publishing it after the append: the exception
\* leaves gateway.execute.
EmitFails(c) ==
  /\ pc[c] \in {"starting", "started", "reporting"}
  /\ pc' = [pc EXCEPT ![c] = "raised"]
  /\ UNCHANGED <<endpoint, bound, avail, via, future, outcome, cooling, events,
                 client>>

\* The task's runner is cancelled: CancelledError at the await of the call.  A
\* send that is interrupted may have sent its frame.
Interrupt(c) ==
  /\ pc[c] \in Suspended
  /\ pc' = [pc EXCEPT ![c] = "cancelled"]
  /\ Forget(c)
  /\ \/ UNCHANGED wire
     \/ pc[c] = "sending" /\ Transmit(via[c], "call", c)
  /\ UNCHANGED <<endpoint, bound, avail, via, outcome, cooling, events, back,
                 desk>>

\* Sixty seconds have passed since the last timeout of the task.
CooldownExpires(t) ==
  /\ t \in cooling
  /\ cooling' = cooling \ {t}
  /\ UNCHANGED <<endpoint, bound, caller, future, client>>

-----------------------------------------------------------------------------
(* The desktop client (external).                                          *)

ClientTakes(s) ==
  /\ sock[s] = "open"
  /\ wire[s] # <<>>
  /\ LET f == Head(wire[s]) IN
       desk' = [desk EXCEPT ![f.call] =
         IF f.kind = "call" THEN "working"
         ELSE IF @ = "working" THEN "stopped" ELSE @]
  /\ wire' = [wire EXCEPT ![s] = Tail(@)]
  /\ UNCHANGED <<endpoint, bound, caller, future, cooling, back>>

\* The result goes over whichever connection the client has by then; a tool
\* the client does not offer fails.
ClientAnswers(c, s) ==
  /\ desk[c] = "working"
  /\ sock[s] = "open"
  /\ \E ok \in BOOLEAN :
       /\ ok => ToolOf[c] \in offers[via[c]]
       /\ desk' = [desk EXCEPT ![c] = IF ok THEN "succeeded" ELSE "failed"]
       /\ back' = [back EXCEPT ![s] = Append(@, [call |-> c, ok |-> ok])]
  /\ UNCHANGED <<endpoint, bound, caller, future, cooling, wire>>

-----------------------------------------------------------------------------
\* What the server does of itself once a call has begun.
Proceed(c) ==
  \/ LogStarted(c) \/ Refuse(c) \/ Dispatch(c) \/ Sent(c) \/ SendFails(c)
  \/ Answered(c) \/ TimesOut(c) \/ SendCancel(c) \/ Report(c)

Next ==
  \/ \E s \in Sockets :
       Accept(s) \/ Register(s) \/ HandleResult(s) \/ Break(s) \/ EndHandler(s)
  \/ \E t \in Tasks : BindTools(t) \/ CooldownExpires(t)
  \/ \E c \in Calls : Route(c) \/ Proceed(c) \/ EmitFails(c) \/ Interrupt(c)
  \/ \E s \in Sockets : ClientTakes(s)
  \/ \E c \in Calls, s \in Sockets : ClientAnswers(c, s)

\* The event loop runs what is ready, and a timer fires; nothing is assumed of
\* the client.
Fairness == \A c \in Calls : WF_vars(Proceed(c))

Spec == Init /\ [][Next]_vars /\ Fairness

-----------------------------------------------------------------------------
TypeOK ==
  /\ sock \in [Sockets -> {"new", "accepted", "open", "broken", "ended"}]
  /\ offers \in [Sockets -> SUBSET Tools]
  /\ registered \in Sockets \cup {NoSocket}
  /\ bound \in [Tasks -> SUBSET Tools]
  /\ pc \in [Calls -> {"idle"} \cup Suspended \cup Over]
  /\ avail \in [Calls -> BOOLEAN]
  /\ via \in [Calls -> Sockets \cup {NoSocket}]
  /\ future \in [Calls -> {"absent", "open", "succeeded", "failed", "dropped"}]
  /\ outcome \in [Calls -> {"none", "succeeded", "failed"}]
  /\ cooling \subseteq Tasks
  /\ events \in [Calls -> Seq({"started", "completed", "failed"})]
  /\ wire \in [Sockets -> Seq(Frame)]
  /\ back \in [Sockets -> Seq(Result)]
  /\ desk \in [Calls -> {"none", "working", "stopped", "succeeded", "failed"}]

(***************************************************************************)
(* _pending holds exactly the calls that are inside the executor's try:    *)
(* whatever way a call ends, by answer, timeout, failed send or the        *)
(* cancellation of its task, its future does not stay behind.              *)
(***************************************************************************)
PendingIsInFlight ==
  \A c \in Calls :
    (future[c] # "absent") <=> (pc[c] \in {"sending", "waiting", "cancelling"})

(***************************************************************************)
(* The registry never points at a socket whose handler has returned, so a  *)
(* lookup never yields a connection that nobody reads results from.        *)
(***************************************************************************)
RegisteredIsServed ==
  registered # NoSocket => sock[registered] \in {"open", "broken"}

(***************************************************************************)
(* The registry survives connections that replace each other: it is never  *)
(* left with one whose handler has returned, and the user is disconnected  *)
(* only by the end of the registered one, not by a late end of an older.   *)
(***************************************************************************)
RegistryHolds ==
  [][/\ RegisteredIsServed'
     /\ registered # NoSocket /\ registered' = NoSocket
          => sock'[registered] = "ended"]_vars

(***************************************************************************)
(* The cooldown after a timeout: no call of the task is sent while it      *)
(* lasts, and before its time it is lifted only by a result that the       *)
(* desktop delivered to another call of the same task.                     *)
(***************************************************************************)
CooldownHolds ==
  [][\A t \in cooling :
       /\ \A c \in Calls :
            TaskOf[c] = t /\ pc'[c] = "sending" => pc[c] = "sending"
       /\ t \notin cooling' =>
            \/ CooldownExpires(t)
            \/ \E c \in Calls : TaskOf[c] = t /\ Answered(c)]_vars

(***************************************************************************)
(* The task's log tells the truth about the desktop: a call with           *)
(* tool.completed was carried out, and the result its caller gets is the   *)
(* one logged.                                                             *)
(***************************************************************************)
CompletedWasCarriedOut ==
  \A c \in Calls : outcome[c] = "succeeded" => desk[c] = "succeeded"

Outcome(c) ==
  IF \E i \in DOMAIN events[c] : events[c][i] = "completed" THEN "completed"
  ELSE IF \E i \in DOMAIN events[c] : events[c][i] = "failed" THEN "failed"
  ELSE IF pc[c] \in {"raised", "cancelled"} THEN "abandoned"
  ELSE "none"

Contract == INSTANCE ToolCallContract WITH
  begun <- {c \in Calls : events[c] # <<>>},
  done <- {c \in Calls : desk[c] = "succeeded"},
  outcome <- [c \in Calls |-> Outcome(c)]

\* The gateway, the executor and the endpoint implement ToolCallContract.
ImplementsContract == Contract!CSpec

(***************************************************************************)
(* What the steps in the docstring of gateway.execute say: after           *)
(* tool.started comes tool.completed or tool.failed, whatever ends the     *)
(* call, as long as the log takes events.                                  *)
(***************************************************************************)
StartedIsConcluded ==
  \A c \in Calls :
    pc[c] = "cancelled" /\ events[c] # <<>> => Len(events[c]) = 2
=============================================================================
