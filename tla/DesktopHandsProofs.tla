------------------------- MODULE DesktopHandsProofs -------------------------
(***************************************************************************)
(* What holds of the desktop's calls for any number of sockets, calls,     *)
(* tasks and tools: the types, the pending table, the registry and the     *)
(* cooldown, that a success is one the desktop had, and that every step is *)
(* a step of ToolCallContract or a stutter on it.                          *)
(***************************************************************************)
EXTENDS DesktopHands, TLAPS

-----------------------------------------------------------------------------
(* Types *)

LEMMA PrefixType ==
  ASSUME NEW S, NEW q \in Seq(S), NEW n \in 0..Len(q)
  PROVE  /\ SubSeq(q, 1, n) \in Seq(S)
         /\ Len(SubSeq(q, 1, n)) = n
         /\ \A i \in 1..n : SubSeq(q, 1, n)[i] = q[i]
OBVIOUS

LEMMA EndpointTypes ==
  ASSUME TypeOK, NEW s \in Sockets,
         Accept(s) \/ Register(s) \/ HandleResult(s) \/ Break(s) \/ EndHandler(s)
  PROVE  TypeOK'
<1> USE DEF endpoint, caller, client
<1>1. CASE Accept(s)
  BY <1>1 DEF TypeOK, Accept
<1>2. CASE Register(s)
  BY <1>2 DEF TypeOK, Register, Enrol
<1>3. CASE HandleResult(s)
  <2>1. Tail(back[s]) \in Seq(Result)
    BY <1>3 DEF TypeOK, HandleResult
  <2>2. back' \in [Sockets -> Seq(Result)]
    BY <1>3, <2>1 DEF TypeOK, HandleResult
  <2>3. future' \in [Calls -> {"absent", "open", "succeeded", "failed", "dropped"}]
    BY <1>3 DEF TypeOK, HandleResult, ResolveInvocation
  <2> QED BY <1>3, <2>2, <2>3 DEF TypeOK, HandleResult
<1>4. CASE Break(s)
  <2>1. back' \in [Sockets -> Seq(Result)]
    BY <1>4, PrefixType DEF TypeOK, Break
  <2>2. wire' \in [Sockets -> Seq(Frame)]
    BY <1>4 DEF TypeOK, Break
  <2> QED BY <1>4, <2>1, <2>2 DEF TypeOK, Break
<1>5. CASE EndHandler(s)
  BY <1>5 DEF TypeOK, EndHandler, Unregister
<1> QED BY <1>1, <1>2, <1>3, <1>4, <1>5

LEMMA TransmitType ==
  ASSUME TypeOK, NEW s, NEW kind \in {"call", "cancel"}, NEW c \in Calls,
         Transmit(s, kind, c)
  PROVE  wire' \in [Sockets -> Seq(Frame)]
<1>1. [kind |-> kind, call |-> c] \in Frame
  BY DEF Frame
<1>2. CASE s \in Sockets
  <2>1. Append(wire[s], [kind |-> kind, call |-> c]) \in Seq(Frame)
    BY <1>1, <1>2 DEF TypeOK
  <2> QED BY <1>2, <2>1 DEF TypeOK, Transmit
<1>3. CASE s \notin Sockets
  BY <1>3 DEF TypeOK, Transmit
<1> QED BY <1>2, <1>3

LEMMA LogType ==
  ASSUME TypeOK, NEW c \in Calls, NEW k \in {"started", "completed", "failed"},
         Log(c, k)
  PROVE  events' \in [Calls -> Seq({"started", "completed", "failed"})]
<1>1. Append(events[c], k) \in Seq({"started", "completed", "failed"})
  BY DEF TypeOK
<1> QED BY <1>1 DEF TypeOK, Log

LEMMA CallTypes ==
  ASSUME TypeOK, NEW c \in Calls,
         Route(c) \/ Proceed(c) \/ EmitFails(c) \/ Interrupt(c)
  PROVE  TypeOK'
<1> USE CallsAssumption DEF endpoint, caller, client, Suspended, Over
<1>1. CASE Route(c)
  BY <1>1 DEF TypeOK, Route, Available
<1>2. CASE LogStarted(c)
  <2>1. events' \in [Calls -> Seq({"started", "completed", "failed"})]
    BY <1>2, LogType DEF LogStarted
  <2> QED BY <1>2, <2>1 DEF TypeOK, LogStarted
<1>3. CASE Refuse(c)
  BY <1>3 DEF TypeOK, Refuse
<1>4. CASE Dispatch(c)
  BY <1>4 DEF TypeOK, Dispatch
<1>5. CASE Sent(c)
  <2>1. wire' \in [Sockets -> Seq(Frame)]
    BY <1>5, TransmitType DEF Sent
  <2> QED BY <1>5, <2>1 DEF TypeOK, Sent
<1>6. CASE SendFails(c)
  BY <1>6 DEF TypeOK, SendFails, Reports, Forget
<1>7. CASE Answered(c)
  BY <1>7 DEF TypeOK, Answered, Reports, Forget
<1>8. CASE TimesOut(c)
  BY <1>8 DEF TypeOK, TimesOut
<1>9. CASE SendCancel(c)
  <2>1. wire' \in [Sockets -> Seq(Frame)]
    BY <1>9, TransmitType DEF SendCancel
  <2> QED BY <1>9, <2>1 DEF TypeOK, SendCancel, Reports, Forget
<1>10. CASE Report(c)
  <2>1. events' \in [Calls -> Seq({"started", "completed", "failed"})]
    BY <1>10, LogType DEF Report
  <2> QED BY <1>10, <2>1 DEF TypeOK, Report
<1>11. CASE EmitFails(c)
  BY <1>11 DEF TypeOK, EmitFails
<1>12. CASE Interrupt(c)
  <2>1. wire' \in [Sockets -> Seq(Frame)]
    BY <1>12, TransmitType DEF Interrupt, TypeOK
  <2> QED BY <1>12, <2>1 DEF TypeOK, Interrupt, Forget
<1> QED BY <1>1, <1>2, <1>3, <1>4, <1>5, <1>6, <1>7, <1>8, <1>9, <1>10, <1>11,
           <1>12 DEF Proceed

LEMMA ClientTypes ==
  ASSUME TypeOK, NEW s \in Sockets,
         ClientTakes(s) \/ \E c \in Calls : ClientAnswers(c, s)
  PROVE  TypeOK'
<1> USE DEF endpoint, caller, client
<1>1. CASE ClientTakes(s)
  <2>1. Tail(wire[s]) \in Seq(Frame) /\ Head(wire[s]) \in Frame
    BY <1>1 DEF TypeOK, ClientTakes
  <2>2. wire' \in [Sockets -> Seq(Frame)]
    BY <1>1, <2>1 DEF TypeOK, ClientTakes
  <2>3. desk' \in [Calls -> {"none", "working", "stopped", "succeeded", "failed"}]
    BY <1>1, <2>1 DEF TypeOK, ClientTakes, Frame
  <2> QED BY <1>1, <2>2, <2>3 DEF TypeOK, ClientTakes
<1>2. ASSUME NEW c \in Calls, ClientAnswers(c, s)
      PROVE  TypeOK'
  <2>1. PICK ok \in BOOLEAN :
          /\ desk' = [desk EXCEPT ![c] = IF ok THEN "succeeded" ELSE "failed"]
          /\ back' = [back EXCEPT ![s] = Append(@, [call |-> c, ok |-> ok])]
    BY <1>2 DEF ClientAnswers
  <2>2. Append(back[s], [call |-> c, ok |-> ok]) \in Seq(Result)
    <3>1. [call |-> c, ok |-> ok] \in Result
      BY Zenon DEF Result
    <3>2. back[s] \in Seq(Result)
      BY DEF TypeOK
    <3> QED BY <3>1, <3>2
  <2>3. back' \in [Sockets -> Seq(Result)]
    BY <2>1, <2>2 DEF TypeOK
  <2>4. desk' \in [Calls -> {"none", "working", "stopped", "succeeded", "failed"}]
    BY <2>1 DEF TypeOK
  <2> QED BY <1>2, <2>3, <2>4 DEF TypeOK, ClientAnswers
<1> QED BY <1>1, <1>2

LEMMA TypesStep == TypeOK /\ [Next]_vars => TypeOK'
<1> SUFFICES ASSUME TypeOK, [Next]_vars PROVE TypeOK'
  OBVIOUS
<1>1. ASSUME NEW t \in Tasks, BindTools(t) \/ CooldownExpires(t)
      PROVE  TypeOK'
  BY <1>1 DEF TypeOK, BindTools, CooldownExpires, endpoint, caller, client
<1>2. CASE UNCHANGED vars
  BY <1>2 DEF TypeOK, vars
<1> QED BY <1>1, <1>2, EndpointTypes, CallTypes, ClientTypes DEF Next

\* Every variable keeps its type.
THEOREM DesktopTypes == Spec => []TypeOK
<1>1. Init => TypeOK
  BY CallsAssumption DEF Init, TypeOK
<1> QED BY <1>1, TypesStep, PTL DEF Spec

-----------------------------------------------------------------------------
(* The pending table, the registry, the cooldown *)

Table == TypeOK /\ PendingIsInFlight /\ RegisteredIsServed

LEMMA TableStep == Table /\ [Next]_vars => Table'
<1> SUFFICES ASSUME Table, [Next]_vars PROVE Table'
  OBVIOUS
<1>1. TypeOK'
  BY TypesStep DEF Table
<1>2. PendingIsInFlight'
  <2> USE DEF Table, TypeOK, PendingIsInFlight, endpoint, caller, client
  <2>1. ASSUME NEW s \in Sockets,
               Accept(s) \/ Register(s) \/ HandleResult(s) \/ Break(s) \/ EndHandler(s)
        PROVE  PendingIsInFlight'
    BY <2>1 DEF Accept, Register, HandleResult, ResolveInvocation, Break, EndHandler
  <2>2. ASSUME NEW t \in Tasks, BindTools(t) \/ CooldownExpires(t)
        PROVE  PendingIsInFlight'
    BY <2>2 DEF BindTools, CooldownExpires
  <2>3. ASSUME NEW c \in Calls, Route(c) \/ Proceed(c) \/ EmitFails(c) \/ Interrupt(c)
        PROVE  PendingIsInFlight'
    <3>1. CASE Route(c) \/ EmitFails(c) \/ LogStarted(c) \/ Refuse(c) \/ Report(c)
      BY <3>1 DEF Route, EmitFails, LogStarted, Refuse, Report
    <3>2. CASE Dispatch(c) \/ Sent(c)
      BY <3>2 DEF Dispatch, Sent
    <3>3. CASE SendFails(c) \/ SendCancel(c)
      BY <3>3 DEF SendFails, SendCancel, Reports, Forget
    <3>4. CASE Answered(c)
      BY <3>4 DEF Answered, Reports, Forget
    <3>5. CASE TimesOut(c)
      BY <3>5 DEF TimesOut
    <3>6. CASE Interrupt(c)
      BY <3>6 DEF Interrupt, Forget, Suspended
    <3> QED BY <2>3, <3>1, <3>2, <3>3, <3>4, <3>5, <3>6 DEF Proceed
  <2>4. ASSUME NEW s \in Sockets,
               ClientTakes(s) \/ \E c \in Calls : ClientAnswers(c, s)
        PROVE  PendingIsInFlight'
    BY <2>4 DEF ClientTakes, ClientAnswers
  <2>5. CASE UNCHANGED vars
    BY <2>5 DEF vars
  <2> QED BY <2>1, <2>2, <2>3, <2>4, <2>5 DEF Next
<1>3. RegisteredIsServed'
  <2> USE DEF Table, TypeOK, RegisteredIsServed, endpoint, caller, client
  <2>1. ASSUME NEW s \in Sockets, Accept(s) \/ Break(s)
        PROVE  RegisteredIsServed'
    BY <2>1 DEF Accept, Break
  <2>2. ASSUME NEW s \in Sockets, Register(s) \/ EndHandler(s)
        PROVE  RegisteredIsServed'
    BY <2>2, CallsAssumption DEF Register, Enrol, EndHandler, Unregister
  <2>3. CASE UNCHANGED endpoint
    BY <2>3
  <2>4. [Next]_vars =>
          \/ UNCHANGED endpoint
          \/ \E s \in Sockets : Accept(s) \/ Break(s) \/ Register(s) \/ EndHandler(s)
    BY DEF Next, vars, HandleResult, BindTools, CooldownExpires, Proceed, Route,
           EmitFails, Interrupt, LogStarted, Refuse, Dispatch, Sent, SendFails,
           Answered, TimesOut, SendCancel, Report, ClientTakes, ClientAnswers
  <2> QED BY <2>1, <2>2, <2>3, <2>4
<1> QED BY <1>1, <1>2, <1>3 DEF Table

LEMMA TableAlways == Spec => []Table
<1>1. Init => Table
  BY CallsAssumption DEF Init, Table, TypeOK, PendingIsInFlight, RegisteredIsServed
<1> QED BY <1>1, TableStep, PTL DEF Spec

\* No future stays in the table after its call, however the call ended.
THEOREM NoneLeftPending == Spec => []PendingIsInFlight
<1>1. Table => PendingIsInFlight
  BY DEF Table
<1> QED BY <1>1, TableAlways, PTL

\* The registry never holds a connection whose handler has returned, and only the
\* end of the registered one disconnects the user.
THEOREM RegistryKept == Spec => RegistryHolds
<1> DEFINE A == /\ RegisteredIsServed'
                /\ registered # NoSocket /\ registered' = NoSocket
                     => sock'[registered] = "ended"
<1>1. Table /\ Table' /\ [Next]_vars => [A]_vars
  <2> SUFFICES ASSUME Table, [Next]_vars, registered # NoSocket,
                      registered' = NoSocket
               PROVE  sock'[registered] = "ended"
    BY DEF A, Table
  <2>1. \E s \in Sockets : Register(s) \/ EndHandler(s)
    BY DEF Next, vars, endpoint, HandleResult, BindTools, CooldownExpires, Proceed,
           Route, EmitFails, Interrupt, LogStarted, Refuse, Dispatch, Sent, SendFails,
           Answered, TimesOut, SendCancel, Report, ClientTakes, ClientAnswers,
           Accept, Break
  <2> QED BY <2>1, CallsAssumption
         DEF Table, TypeOK, Register, Enrol, EndHandler, Unregister
<1> QED BY <1>1, TableAlways, PTL DEF Spec, RegistryHolds

\* A cooldown is respected, and lifted only by time or by an answer.
THEOREM CooldownKept == Spec => CooldownHolds
<1> DEFINE Kept ==
      \A t \in cooling :
        /\ \A c \in Calls :
             TaskOf[c] = t /\ pc'[c] = "sending" => pc[c] = "sending"
        /\ t \notin cooling' =>
             \/ CooldownExpires(t)
             \/ \E c \in Calls : TaskOf[c] = t /\ Answered(c)
<1>1. Table /\ [Next]_vars => Kept
  <2> SUFFICES ASSUME Table, [Next]_vars, NEW t \in cooling
               PROVE  /\ \A c \in Calls :
                           TaskOf[c] = t /\ pc'[c] = "sending" => pc[c] = "sending"
                      /\ t \notin cooling' =>
                           \/ CooldownExpires(t)
                           \/ \E c \in Calls : TaskOf[c] = t /\ Answered(c)
    BY DEF Kept
  <2>1. ASSUME NEW d \in Calls, Proceed(d) \/ Route(d) \/ EmitFails(d) \/ Interrupt(d)
        PROVE  \A c \in Calls :
                 TaskOf[c] = t /\ pc'[c] = "sending" => pc[c] = "sending"
    BY <2>1 DEF Table, TypeOK, Proceed, Route, EmitFails, Interrupt, LogStarted,
                Refuse, Dispatch, Refused, Sent, SendFails, Answered, TimesOut,
                SendCancel, Report, Reports
  <2>2. \/ UNCHANGED pc
        \/ \E d \in Calls : Proceed(d) \/ Route(d) \/ EmitFails(d) \/ Interrupt(d)
    BY DEF Next, vars, caller, endpoint, client, Accept, Register, HandleResult,
           Break, EndHandler, BindTools, CooldownExpires, ClientTakes, ClientAnswers
  <2>3. t \notin cooling' =>
          \/ CooldownExpires(t)
          \/ \E c \in Calls : TaskOf[c] = t /\ Answered(c)
    <3>1. ASSUME NEW u \in Tasks, CooldownExpires(u)
          PROVE  t \in cooling' \/ CooldownExpires(t)
      BY <3>1 DEF CooldownExpires
    <3>2. ASSUME NEW d \in Calls, Answered(d)
          PROVE  t \in cooling' \/ (TaskOf[d] = t /\ Answered(d))
      BY <3>2 DEF Answered
    <3>3. ASSUME NEW d \in Calls, TimesOut(d)
          PROVE  t \in cooling'
      BY <3>3 DEF TimesOut
    <3>4. \/ UNCHANGED cooling
          \/ \E u \in Tasks : CooldownExpires(u)
          \/ \E d \in Calls : Answered(d) \/ TimesOut(d)
      BY DEF Next, vars, caller, endpoint, client, Accept, Register, HandleResult,
             Break, EndHandler, BindTools, ClientTakes, ClientAnswers, Proceed,
             Route, EmitFails, Interrupt, LogStarted, Refuse, Dispatch, Sent,
             SendFails, SendCancel, Report
    <3> QED BY <3>1, <3>2, <3>3, <3>4
  <2> QED BY <2>1, <2>2, <2>3
<1> QED BY <1>1, TableAlways, PTL DEF Spec, CooldownHolds
-----------------------------------------------------------------------------
(* A success reported to a task is one the desktop had, and every step is  *)
(* a step of ToolCallContract or a stutter.  The argument: a call is sent  *)
(* at most once, so what the client made of it is settled once and for     *)
(* all; every result on the way, in a future or in a coroutine was true    *)
(* when it was sent and stays true.                                        *)

PreSend == {"idle", "starting", "started", "sending"}

\* The i-th frame on its way to s asks for call c.
CallAt(s, i, c) ==
  /\ i \in 1..Len(wire[s])
  /\ wire[s][i].kind = "call"
  /\ wire[s][i].call = c

Begun == {"started", "sending", "waiting", "cancelling", "reporting"}

\* The events of a call, by what its coroutine is at.
Shape ==
  \A c \in Calls :
    /\ pc[c] \in {"idle", "starting"} => events[c] = <<>>
    /\ pc[c] \in Begun => events[c] = <<"started">>
    /\ pc[c] = "done" =>
         events[c] = Append(<<"started">>,
                       IF outcome[c] = "succeeded" THEN "completed" ELSE "failed")
    /\ pc[c] \in {"raised", "cancelled"} => events[c] \in {<<>>, <<"started">>}

\* Sent before: the call's coroutine is past its send and its start is logged.
Past(c) == pc[c] \notin PreSend /\ events[c] # <<>>

SentOnce ==
  /\ \A s \in Sockets, c \in Calls, i \in Nat :
       CallAt(s, i, c) => desk[c] = "none" /\ Past(c)
  /\ \A s1, s2 \in Sockets, c \in Calls, i1, i2 \in Nat :
       CallAt(s1, i1, c) /\ CallAt(s2, i2, c) => s1 = s2 /\ i1 = i2
  /\ \A c \in Calls : desk[c] # "none" => Past(c)

-----------------------------------------------------------------------------
(* The events of a call *)

LEMMA TwoEvents ==
  ASSUME NEW k \in {"started", "completed", "failed"}
  PROVE  LET q == Append(<<"started">>, k) IN
           /\ Len(q) = 2
           /\ q[1] = "started"
           /\ q[2] = k
           /\ DOMAIN q = 1..2
           /\ q # <<>>
<1>1. <<"started">> \in Seq({"started", "completed", "failed"})
  OBVIOUS
<1>2. Len(<<"started">>) = 1
  OBVIOUS
<1> QED BY <1>1, <1>2

LEMMA ShapeStep ==
  ASSUME TypeOK, Shape, [Next]_vars
  PROVE  Shape'
<1> USE DEF TypeOK, Shape, Begun, Suspended, endpoint, caller, client
<1>1. CASE UNCHANGED <<pc, events, outcome>>
  BY <1>1
<1>2. ASSUME NEW c \in Calls, Proceed(c) \/ Route(c) \/ EmitFails(c) \/ Interrupt(c)
      PROVE  Shape'
  <2>1. CASE Route(c)
    BY <2>1 DEF Route
  <2>2. CASE LogStarted(c)
    <3>1. events[c] = <<>> /\ Append(<<>>, "started") = <<"started">>
      BY <2>2 DEF LogStarted
    <3>2. events' = [events EXCEPT ![c] = <<"started">>]
      BY <2>2, <3>1 DEF LogStarted, Log
    <3> QED BY <2>2, <3>2 DEF LogStarted
  <2>3. CASE Dispatch(c) \/ Sent(c) \/ TimesOut(c)
    <3>1. /\ pc[c] \in Begun
          /\ \E x \in {"sending", "waiting", "cancelling"} : pc' = [pc EXCEPT ![c] = x]
          /\ UNCHANGED <<events, outcome>>
      BY <2>3 DEF Dispatch, Sent, TimesOut
    <3> QED BY <3>1
  <2>4. CASE Refuse(c) \/ SendFails(c) \/ Answered(c) \/ SendCancel(c)
    <3>1. /\ pc[c] \in Begun
          /\ pc' = [pc EXCEPT ![c] = "reporting"]
          /\ UNCHANGED events
          /\ \A d \in Calls : d # c => outcome'[d] = outcome[d]
      BY <2>4 DEF Refuse, SendFails, Answered, SendCancel, Reports
    <3> QED BY <3>1
  <2>5. CASE Report(c)
    <3>1. events[c] = <<"started">>
      BY <2>5 DEF Report
    <3>3. events' = [events EXCEPT ![c] = Append(<<"started">>,
             IF outcome[c] = "succeeded" THEN "completed" ELSE "failed")]
      BY <2>5, <3>1 DEF Report, Log
    <3> QED BY <2>5, <3>3 DEF Report
  <2>6. CASE EmitFails(c)
    BY <2>6 DEF EmitFails
  <2>7. CASE Interrupt(c)
    BY <2>7 DEF Interrupt
  <2> QED BY <1>2, <2>1, <2>2, <2>3, <2>4, <2>5, <2>6, <2>7 DEF Proceed
<1>3. \/ UNCHANGED <<pc, events, outcome>>
      \/ \E c \in Calls : Proceed(c) \/ Route(c) \/ EmitFails(c) \/ Interrupt(c)
  BY DEF Next, vars, Accept, Register, HandleResult, Break, EndHandler, BindTools,
         CooldownExpires, ClientTakes, ClientAnswers
<1> QED BY <1>1, <1>2, <1>3

-----------------------------------------------------------------------------
(* A call is sent once *)

LEMMA TransmitFrames ==
  ASSUME TypeOK, NEW s, NEW kind \in {"call", "cancel"}, NEW c \in Calls,
         Transmit(s, kind, c)
  PROVE  \A r \in Sockets, d \in Calls, i \in Nat :
           CallAt(r, i, d)' =>
             \/ CallAt(r, i, d)
             \/ r = s /\ i = Len(wire[s]) + 1 /\ kind = "call" /\ d = c
<1> SUFFICES ASSUME NEW r \in Sockets, NEW d \in Calls, NEW i \in Nat, CallAt(r, i, d)',
                    r = s, wire' # wire
             PROVE  \/ CallAt(r, i, d)
                    \/ i = Len(wire[s]) + 1 /\ kind = "call" /\ d = c
  BY DEF Transmit, TypeOK, CallAt
<1>1. /\ wire[r] \in Seq(Frame)
      /\ wire'[r] = Append(wire[r], [kind |-> kind, call |-> c])
  BY DEF Transmit, TypeOK
<1>2. Len(wire'[r]) = Len(wire[r]) + 1
  BY <1>1
<1>3. CASE i = Len(wire[r]) + 1
  <2>1. wire'[r][i] = [kind |-> kind, call |-> c]
    BY <1>1, <1>3
  <2> QED BY <1>3, <2>1 DEF CallAt
<1>4. CASE i # Len(wire[r]) + 1
  <2>1. i \in 1..Len(wire[r])
    BY <1>1, <1>2, <1>4 DEF CallAt
  <2>2. wire'[r][i] = wire[r][i]
    BY <1>1, <2>1
  <2> QED BY <2>1, <2>2 DEF CallAt
<1> QED BY <1>3, <1>4

\* Steps that add no frame and after which every call is as far as before.
LEMMA FramesKept ==
  ASSUME TypeOK, SentOnce, UNCHANGED desk,
         \A s \in Sockets, d \in Calls, i \in Nat : CallAt(s, i, d)' => CallAt(s, i, d),
         \A d \in Calls : Past(d) => Past(d)'
  PROVE  SentOnce'
BY DEF SentOnce

LEMMA SameFrames ==
  ASSUME UNCHANGED wire
  PROVE  \A s \in Sockets, d \in Calls, i \in Nat : CallAt(s, i, d)' => CallAt(s, i, d)
BY DEF CallAt

\* A frame that asks for c leaves, when c was never asked for before.
LEMMA FrameSent ==
  ASSUME TypeOK, SentOnce, UNCHANGED desk, NEW s, NEW c \in Calls,
         Transmit(s, "call", c), ~Past(c), Past(c)',
         \A d \in Calls : Past(d) => Past(d)'
  PROVE  SentOnce'
<1>1. \A r \in Sockets, i \in Nat : ~CallAt(r, i, c)
  BY DEF SentOnce
<1>2. desk[c] = "none"
  BY DEF SentOnce
<1>3. \A r \in Sockets, d \in Calls, i \in Nat :
        CallAt(r, i, d)' =>
          \/ CallAt(r, i, d)
          \/ r = s /\ i = Len(wire[s]) + 1 /\ d = c
  BY TransmitFrames
<1>4. \A r \in Sockets, d \in Calls, i \in Nat :
        CallAt(r, i, d)' => desk'[d] = "none" /\ Past(d)'
  BY <1>2, <1>3 DEF SentOnce
<1>5. \A s1, s2 \in Sockets, d \in Calls, i1, i2 \in Nat :
        CallAt(s1, i1, d)' /\ CallAt(s2, i2, d)' => s1 = s2 /\ i1 = i2
  BY <1>1, <1>3 DEF SentOnce
<1>6. \A d \in Calls : desk'[d] # "none" => Past(d)'
  BY DEF SentOnce
<1> QED BY <1>4, <1>5, <1>6 DEF SentOnce

LEMMA CallsSentOnce ==
  ASSUME TypeOK, Shape, SentOnce, NEW c \in Calls,
         Proceed(c) \/ Route(c) \/ EmitFails(c) \/ Interrupt(c)
  PROVE  SentOnce'
<1> USE DEF TypeOK, endpoint, caller, client
<1>1. UNCHANGED desk
  BY DEF Proceed, Route, EmitFails, Interrupt, LogStarted, Refuse, Dispatch, Sent,
         SendFails, Answered, TimesOut, SendCancel, Report
<1>2. \A d \in Calls : d # c => pc'[d] = pc[d] /\ events'[d] = events[d]
  BY DEF Proceed, Route, EmitFails, Interrupt, LogStarted, Refuse, Dispatch, Sent,
         SendFails, Answered, TimesOut, SendCancel, Report, Reports, Log
<1>3. Past(c) => Past(c)'
  <2>1. CASE Report(c)
    <3>1. events[c] = <<"started">>
      BY <2>1 DEF Report, Shape, Begun
    <3>2. \E k \in {"completed", "failed"} : events'[c] = Append(<<"started">>, k)
      BY <2>1, <3>1 DEF Report, Log
    <3>3. pc'[c] = "done"
      BY <2>1 DEF Report
    <3> QED BY <3>2, <3>3, TwoEvents DEF Past, PreSend
  <2>2. CASE ~Report(c)
    BY <2>2 DEF Past, PreSend, Proceed, Route, EmitFails, Interrupt, LogStarted,
                Refuse, Dispatch, Sent, SendFails, Answered, TimesOut, SendCancel,
                Reports
  <2> QED BY <2>1, <2>2
<1>4. \A d \in Calls : Past(d) => Past(d)'
  BY <1>2, <1>3 DEF Past
<1>5. CASE UNCHANGED wire
  BY <1>1, <1>4, <1>5, SameFrames, FramesKept
<1>6. CASE SendCancel(c)
  <2>1. \A s \in Sockets, d \in Calls, i \in Nat : CallAt(s, i, d)' => CallAt(s, i, d)
    BY <1>6, TransmitFrames DEF SendCancel
  <2> QED BY <1>1, <1>4, <2>1, FramesKept
<1>7. CASE pc[c] = "sending" /\ Transmit(via[c], "call", c)
           /\ pc'[c] \in {"waiting", "cancelled"} /\ UNCHANGED events
  <2>1. events[c] = <<"started">>
    BY <1>7 DEF Shape, Begun
  <2>2. ~Past(c) /\ Past(c)'
    BY <1>7, <2>1 DEF Past, PreSend
  <2> QED BY <1>1, <1>4, <1>7, <2>2, FrameSent
<1>8. UNCHANGED wire \/ SendCancel(c) \/ Sent(c) \/ Interrupt(c)
  BY DEF Proceed, Route, EmitFails, LogStarted, Refuse, Dispatch, SendFails, Answered,
         TimesOut, Report
<1>9. CASE Sent(c)
  BY <1>7, <1>9 DEF Sent
<1>10. CASE Interrupt(c)
  BY <1>5, <1>7, <1>10 DEF Interrupt
<1> QED BY <1>5, <1>6, <1>8, <1>9, <1>10

LEMMA SentOnceStep ==
  ASSUME TypeOK, Shape, SentOnce, [Next]_vars
  PROVE  SentOnce'
<1> USE DEF endpoint, caller, client
<1>1. ASSUME NEW s \in Sockets,
             Accept(s) \/ Register(s) \/ HandleResult(s) \/ EndHandler(s)
      PROVE  SentOnce'
  <2>1. UNCHANGED <<pc, events, wire, desk>>
    BY <1>1 DEF Accept, Register, HandleResult, EndHandler
  <2>2. \A d \in Calls : Past(d) => Past(d)'
    BY <2>1 DEF Past
  <2> QED BY <2>1, <2>2, SameFrames, FramesKept
<1>2. ASSUME NEW s \in Sockets, Break(s)
      PROVE  SentOnce'
  <2>1. UNCHANGED <<pc, events, desk>>
    BY <1>2 DEF Break
  <2>2. \A d \in Calls : Past(d) => Past(d)'
    BY <2>1 DEF Past
  <2>3. \A r \in Sockets, d \in Calls, i \in Nat : CallAt(r, i, d)' => CallAt(r, i, d)
    BY <1>2 DEF Break, CallAt, TypeOK
  <2> QED BY <2>1, <2>2, <2>3, FramesKept
<1>3. ASSUME NEW t \in Tasks, BindTools(t) \/ CooldownExpires(t)
      PROVE  SentOnce'
  <2>1. UNCHANGED <<pc, events, wire, desk>>
    BY <1>3 DEF BindTools, CooldownExpires
  <2>2. \A d \in Calls : Past(d) => Past(d)'
    BY <2>1 DEF Past
  <2> QED BY <2>1, <2>2, SameFrames, FramesKept
<1>4. ASSUME NEW s \in Sockets, ClientTakes(s)
      PROVE  SentOnce'
  <2> DEFINE f == Head(wire[s])
  <2>1. /\ wire[s] \in Seq(Frame)
        /\ wire[s] # <<>>
        /\ UNCHANGED <<pc, events>>
        /\ wire' = [wire EXCEPT ![s] = Tail(@)]
        /\ desk' = [desk EXCEPT ![f.call] =
              IF f.kind = "call" THEN "working"
              ELSE IF @ = "working" THEN "stopped" ELSE @]
    BY <1>4 DEF ClientTakes, TypeOK
  <2>2. f \in Frame /\ f = wire[s][1] /\ Len(wire[s]) >= 1
    BY <2>1
  <2>3. f.call \in Calls
    BY <2>2 DEF Frame
  <2>4. \A d \in Calls : Past(d)' <=> Past(d)
    BY <2>1 DEF Past
  <2>5. \A i \in 1..Len(Tail(wire[s])) :
          i + 1 \in 1..Len(wire[s]) /\ Tail(wire[s])[i] = wire[s][i + 1]
    BY <2>1
  <2>6. \A r \in Sockets, d \in Calls, i \in Nat :
          CallAt(r, i, d)' => CallAt(r, IF r = s THEN i + 1 ELSE i, d)
    BY <2>1, <2>5 DEF CallAt, TypeOK
  <2>7. f.kind = "call" => CallAt(s, 1, f.call)
    BY <2>2 DEF CallAt
  <2>8. \A r \in Sockets, d \in Calls, i \in Nat :
          CallAt(r, i, d)' => desk'[d] = "none" /\ Past(d)'
    <3> SUFFICES ASSUME NEW r \in Sockets, NEW d \in Calls, NEW i \in Nat,
                        CallAt(r, i, d)'
                 PROVE  desk'[d] = "none" /\ Past(d)'
      OBVIOUS
    <3> DEFINE j == IF r = s THEN i + 1 ELSE i
    <3>1. CallAt(r, j, d) /\ j \in Nat /\ i >= 1
      BY <2>6 DEF CallAt
    <3>2. desk[d] = "none" /\ Past(d)
      BY <3>1 DEF SentOnce
    <3>3. f.kind = "call" => d # f.call
      <4>1. r = s => j # 1
        BY <3>1
      <4> QED BY <2>3, <2>7, <3>1, <4>1 DEF SentOnce
    <3> QED BY <2>1, <2>4, <3>2, <3>3 DEF TypeOK
  <2>9. \A s1, s2 \in Sockets, d \in Calls, i1, i2 \in Nat :
          CallAt(s1, i1, d)' /\ CallAt(s2, i2, d)' => s1 = s2 /\ i1 = i2
    <3> SUFFICES ASSUME NEW s1 \in Sockets, NEW s2 \in Sockets, NEW d \in Calls,
                        NEW i1 \in Nat, NEW i2 \in Nat,
                        CallAt(s1, i1, d)', CallAt(s2, i2, d)'
                 PROVE  s1 = s2 /\ i1 = i2
      OBVIOUS
    <3> DEFINE j1 == IF s1 = s THEN i1 + 1 ELSE i1
               j2 == IF s2 = s THEN i2 + 1 ELSE i2
    <3>1. CallAt(s1, j1, d) /\ CallAt(s2, j2, d) /\ j1 \in Nat /\ j2 \in Nat
      BY <2>6
    <3>2. s1 = s2 /\ j1 = j2
      <4> HIDE DEF j1, j2
      <4> QED BY <3>1 DEF SentOnce
    <3> QED BY <3>2
  <2>10. \A d \in Calls : desk'[d] # "none" => Past(d)'
    <3>1. f.kind = "call" => Past(f.call)
      BY <2>3, <2>7 DEF SentOnce
    <3>2. \A d \in Calls : desk[d] # "none" => Past(d)
      BY DEF SentOnce
    <3>3. \A d \in Calls : desk'[d] # "none" =>
            desk[d] # "none" \/ (f.kind = "call" /\ d = f.call)
      BY <2>1, <2>3 DEF TypeOK
    <3> QED BY <2>4, <3>1, <3>2, <3>3
  <2> QED BY <2>8, <2>9, <2>10 DEF SentOnce
<1>5. ASSUME NEW s \in Sockets, NEW c \in Calls, ClientAnswers(c, s)
      PROVE  SentOnce'
  <2>1. /\ UNCHANGED <<pc, events, wire>>
        /\ desk[c] = "working"
        /\ \A d \in Calls : d # c => desk'[d] = desk[d]
    BY <1>5 DEF ClientAnswers, TypeOK
  <2>2. \A d \in Calls : Past(d)' <=> Past(d)
    BY <2>1 DEF Past
  <2>3. \A r \in Sockets, d \in Calls, i \in Nat : CallAt(r, i, d)' => CallAt(r, i, d)
    BY <2>1 DEF CallAt
  <2>4. Past(c) /\ \A r \in Sockets, i \in Nat : ~CallAt(r, i, c)
    BY <2>1 DEF SentOnce
  <2> QED BY <2>1, <2>2, <2>3, <2>4 DEF SentOnce
<1>6. CASE UNCHANGED vars
  <2>1. UNCHANGED <<pc, events, wire, desk>>
    BY <1>6 DEF vars
  <2>2. \A d \in Calls : Past(d) => Past(d)'
    BY <2>1 DEF Past
  <2> QED BY <2>1, <2>2, SameFrames, FramesKept
<1> QED BY <1>1, <1>2, <1>3, <1>4, <1>5, <1>6, CallsSentOnce DEF Next

-----------------------------------------------------------------------------
(* What was true when it was sent stays true *)

LEMMA SuccessStays ==
  ASSUME TypeOK, SentOnce, [Next]_vars, NEW c \in Calls, desk[c] = "succeeded"
  PROVE  desk'[c] = "succeeded"
<1>1. CASE UNCHANGED desk
  BY <1>1
<1>2. ASSUME NEW s \in Sockets, ClientTakes(s)
      PROVE  desk'[c] = "succeeded"
  <2> DEFINE f == Head(wire[s])
  <2>1. /\ wire[s] \in Seq(Frame)
        /\ wire[s] # <<>>
        /\ desk' = [desk EXCEPT ![f.call] =
              IF f.kind = "call" THEN "working"
              ELSE IF @ = "working" THEN "stopped" ELSE @]
    BY <1>2 DEF ClientTakes, TypeOK
  <2>2. f = wire[s][1] /\ 1 \in 1..Len(wire[s]) /\ f \in Frame
    BY <2>1
  <2>3. f.kind = "call" => f.call # c
    <3>1. ASSUME f.kind = "call" PROVE CallAt(s, 1, f.call)
      BY <2>2, <3>1 DEF CallAt
    <3>2. f.call \in Calls
      BY <2>2 DEF Frame
    <3> QED BY <3>1, <3>2 DEF SentOnce
  <2> QED BY <2>1, <2>3 DEF TypeOK
<1>3. ASSUME NEW s \in Sockets, NEW d \in Calls, ClientAnswers(d, s)
      PROVE  desk'[c] = "succeeded"
  BY <1>3 DEF ClientAnswers, TypeOK
<1>4. \/ UNCHANGED desk
      \/ \E s \in Sockets : ClientTakes(s) \/ \E d \in Calls : ClientAnswers(d, s)
  BY DEF Next, vars, endpoint, caller, client, Accept, Register, HandleResult, Break,
         EndHandler, BindTools, CooldownExpires, Proceed, Route, EmitFails, Interrupt,
         LogStarted, Refuse, Dispatch, Sent, SendFails, Answered, TimesOut, SendCancel,
         Report
<1> QED BY <1>1, <1>2, <1>3, <1>4

ResultsTrue ==
  \A s \in Sockets : \A i \in 1..Len(back[s]) :
    back[s][i].ok => desk[back[s][i].call] = "succeeded"

LEMMA ResultsStep ==
  ASSUME TypeOK, SentOnce, ResultsTrue, [Next]_vars
  PROVE  ResultsTrue'
<1>1. \A c \in Calls : desk[c] = "succeeded" => desk'[c] = "succeeded"
  BY SuccessStays
<1>2. \A s \in Sockets : \A i \in 1..Len(back[s]) : back[s][i].call \in Calls
  <2> SUFFICES ASSUME NEW s \in Sockets, NEW i \in 1..Len(back[s])
               PROVE  back[s][i].call \in Calls
    OBVIOUS
  <2>1. back[s][i] \in Result
    BY DEF TypeOK
  <2> QED BY <2>1 DEF Result
<1>3. CASE UNCHANGED back
  BY <1>1, <1>2, <1>3 DEF ResultsTrue
<1>4. ASSUME NEW s \in Sockets, HandleResult(s)
      PROVE  ResultsTrue'
  <2>1. \A i \in 1..Len(Tail(back[s])) :
          i + 1 \in 1..Len(back[s]) /\ Tail(back[s])[i] = back[s][i + 1]
    BY <1>4 DEF HandleResult, TypeOK
  <2>2. back' = [back EXCEPT ![s] = Tail(@)]
    BY <1>4 DEF HandleResult
  <2>3. \A r \in Sockets : \A i \in 1..Len(back'[r]) :
          \E j \in 1..Len(back[r]) : back'[r][i] = back[r][j]
    BY <2>1, <2>2 DEF TypeOK
  <2> QED BY <1>1, <1>2, <2>3 DEF ResultsTrue
<1>5. ASSUME NEW s \in Sockets, Break(s)
      PROVE  ResultsTrue'
  <2>1. PICK n \in 0..Len(back[s]) : back' = [back EXCEPT ![s] = SubSeq(@, 1, n)]
    BY <1>5 DEF Break
  <2>2. /\ Len(SubSeq(back[s], 1, n)) = n
        /\ \A i \in 1..n : SubSeq(back[s], 1, n)[i] = back[s][i] /\ i \in 1..Len(back[s])
    BY PrefixType DEF TypeOK
  <2>3. \A r \in Sockets : \A i \in 1..Len(back'[r]) :
          \E j \in 1..Len(back[r]) : back'[r][i] = back[r][j]
    BY <2>1, <2>2 DEF TypeOK
  <2> QED BY <1>1, <1>2, <2>3 DEF ResultsTrue
<1>6. ASSUME NEW s \in Sockets, NEW c \in Calls, ClientAnswers(c, s)
      PROVE  ResultsTrue'
  <2>1. PICK ok \in BOOLEAN :
          /\ desk' = [desk EXCEPT ![c] = IF ok THEN "succeeded" ELSE "failed"]
          /\ back' = [back EXCEPT ![s] = Append(@, [call |-> c, ok |-> ok])]
    BY <1>6 DEF ClientAnswers
  <2>2. \A i \in 1..Len(Append(back[s], [call |-> c, ok |-> ok])) :
          \/ i \in 1..Len(back[s])
             /\ Append(back[s], [call |-> c, ok |-> ok])[i] = back[s][i]
          \/ Append(back[s], [call |-> c, ok |-> ok])[i] = [call |-> c, ok |-> ok]
    <3>1. back[s] \in Seq(Result)
      BY DEF TypeOK
    <3> QED BY <3>1
  <2>3. ok => desk'[c] = "succeeded"
    BY <2>1 DEF TypeOK
  <2>4. \A r \in Sockets : \A i \in 1..Len(back'[r]) :
          \/ \E j \in 1..Len(back[r]) : back'[r][i] = back[r][j]
          \/ back'[r][i] = [call |-> c, ok |-> ok]
    BY <2>1, <2>2 DEF TypeOK
  <2> QED BY <1>1, <1>2, <2>3, <2>4 DEF ResultsTrue
<1>7. \/ UNCHANGED back
      \/ \E s \in Sockets : \/ HandleResult(s) \/ Break(s)
                            \/ \E c \in Calls : ClientAnswers(c, s)
  BY DEF Next, vars, endpoint, caller, client, Accept, Register,
         EndHandler, BindTools, CooldownExpires, Proceed, Route, EmitFails, Interrupt,
         LogStarted, Refuse, Dispatch, Sent, SendFails, Answered, TimesOut, SendCancel,
         Report, ClientTakes
<1> QED BY <1>3, <1>4, <1>5, <1>6, <1>7

FuturesTrue == \A c \in Calls : future[c] = "succeeded" => desk[c] = "succeeded"

LEMMA FuturesStep ==
  ASSUME TypeOK, SentOnce, ResultsTrue, FuturesTrue, CompletedWasCarriedOut, [Next]_vars
  PROVE  FuturesTrue' /\ CompletedWasCarriedOut'
<1> USE DEF TypeOK, FuturesTrue, CompletedWasCarriedOut, endpoint, caller, client
<1>1. \A c \in Calls : desk[c] = "succeeded" => desk'[c] = "succeeded"
  BY SuccessStays
<1>2. CASE UNCHANGED <<future, outcome>>
  BY <1>1, <1>2
<1>3. ASSUME NEW s \in Sockets, HandleResult(s)
      PROVE  FuturesTrue' /\ CompletedWasCarriedOut'
  <2> DEFINE r == Head(back[s])
  <2>1. /\ back[s] # <<>>
        /\ future' = [future EXCEPT ![r.call] =
             IF @ = "open" THEN IF r.ok THEN "succeeded" ELSE "failed" ELSE @]
        /\ UNCHANGED outcome
    BY <1>3 DEF HandleResult, ResolveInvocation
  <2>2. r = back[s][1] /\ 1 \in 1..Len(back[s])
    BY <2>1
  <2>3. r.ok => desk[r.call] = "succeeded"
    BY <2>2 DEF ResultsTrue
  <2> HIDE DEF r
  <2> QED BY <1>1, <2>1, <2>3
<1>4. ASSUME NEW c \in Calls, Proceed(c) \/ Route(c) \/ EmitFails(c) \/ Interrupt(c)
      PROVE  FuturesTrue' /\ CompletedWasCarriedOut'
  <2>1. \A d \in Calls :
          \/ future'[d] = future[d]
          \/ future'[d] \in {"absent", "open", "dropped"}
    BY <1>4 DEF Proceed, Route, EmitFails, Interrupt, LogStarted, Refuse, Dispatch,
                Sent, SendFails, Answered, TimesOut, SendCancel, Report, Reports, Forget
  <2>2. \A d \in Calls :
          \/ outcome'[d] = outcome[d]
          \/ outcome'[d] = "failed"
          \/ outcome'[d] = future[d]
    BY <1>4 DEF Proceed, Route, EmitFails, Interrupt, LogStarted, Refuse, Dispatch,
                Sent, SendFails, Answered, TimesOut, SendCancel, Report, Reports
  <2> QED BY <1>1, <2>1, <2>2
<1>5. \/ UNCHANGED <<future, outcome>>
      \/ \E s \in Sockets : HandleResult(s)
      \/ \E c \in Calls : Proceed(c) \/ Route(c) \/ EmitFails(c) \/ Interrupt(c)
  BY DEF Next, vars, Accept, Register, Break, EndHandler, BindTools, CooldownExpires,
         ClientTakes, ClientAnswers
<1> QED BY <1>2, <1>3, <1>4, <1>5

-----------------------------------------------------------------------------
(* The invariant and what follows from it *)

Honest ==
  TypeOK /\ Shape /\ SentOnce /\ ResultsTrue /\ FuturesTrue /\ CompletedWasCarriedOut

LEMMA HonestAlways == Spec => []Honest
<1>1. Init => Honest
  BY CallsAssumption
     DEF Init, Honest, TypeOK, Shape, Begun, SentOnce, CallAt, Past, PreSend,
         ResultsTrue, FuturesTrue, CompletedWasCarriedOut
<1>2. Honest /\ [Next]_vars => Honest'
  BY TypesStep, ShapeStep, SentOnceStep, ResultsStep, FuturesStep DEF Honest
<1> QED BY <1>1, <1>2, PTL DEF Spec

\* The desktop had carried out every call whose caller is told of success.
THEOREM CarriedOut == Spec => []CompletedWasCarriedOut
<1>1. Honest => CompletedWasCarriedOut
  BY DEF Honest
<1> QED BY <1>1, HonestAlways, PTL

\* Outcome, read off the coroutine instead of the log.
Told ==
  \A c \in Calls :
    /\ pc[c] = "done" =>
         Outcome(c) = IF outcome[c] = "succeeded" THEN "completed" ELSE "failed"
    /\ pc[c] \in {"raised", "cancelled"} => Outcome(c) = "abandoned"
    /\ pc[c] \notin Over => Outcome(c) = "none"

LEMMA OutcomeIs == TypeOK /\ Shape => Told
<1> SUFFICES ASSUME TypeOK, Shape, NEW c \in Calls
             PROVE  /\ pc[c] = "done" =>
                         Outcome(c) = IF outcome[c] = "succeeded" THEN "completed"
                                      ELSE "failed"
                    /\ pc[c] \in {"raised", "cancelled"} => Outcome(c) = "abandoned"
                    /\ pc[c] \notin Over => Outcome(c) = "none"
  BY DEF Told
<1>1. CASE pc[c] = "done"
  <2>1. PICK k \in {"completed", "failed"} :
          /\ k = IF outcome[c] = "succeeded" THEN "completed" ELSE "failed"
          /\ events[c] = Append(<<"started">>, k)
    BY <1>1 DEF Shape
  <2>2. /\ DOMAIN events[c] = 1..2
        /\ events[c][1] = "started"
        /\ events[c][2] = k
    BY <2>1, TwoEvents
  <2>3. Outcome(c) = k
    BY <2>2 DEF Outcome
  <2> QED BY <1>1, <2>1, <2>3 DEF Over
<1>2. CASE pc[c] # "done"
  <2>1. events[c] = <<>> \/ events[c] = <<"started">>
    BY <1>2 DEF Shape, Begun, TypeOK, Suspended, Over
  <2>2. \A i \in DOMAIN events[c] : events[c][i] = "started"
    BY <2>1
  <2>3. Outcome(c) = IF pc[c] \in {"raised", "cancelled"} THEN "abandoned" ELSE "none"
    BY <2>2 DEF Outcome
  <2> QED BY <1>2, <2>3 DEF Over
<1> QED BY <1>1, <1>2

begunBar == {c \in Calls : events[c] # <<>>}
doneBar == {c \in Calls : desk[c] = "succeeded"}
outcomeBar == [c \in Calls |-> Outcome(c)]

LEMMA CallRefines ==
  ASSUME Honest, Honest', Told, Told', NEW c \in Calls,
         Proceed(c) \/ Route(c) \/ EmitFails(c) \/ Interrupt(c)
  PROVE  [Contract!CNext]_(Contract!cvars)
<1> USE DEF endpoint, caller, client
<1>1. TypeOK /\ Shape /\ TypeOK' /\ Shape'
  BY DEF Honest
<1>2. doneBar' = doneBar
  BY DEF doneBar, Proceed, Route, EmitFails, Interrupt, LogStarted, Refuse, Dispatch,
         Sent, SendFails, Answered, TimesOut, SendCancel, Report
<1>3. \A d \in Calls : d # c => events'[d] = events[d] /\ pc'[d] = pc[d]
  BY <1>1 DEF TypeOK, Proceed, Route, EmitFails, Interrupt, LogStarted, Refuse, Dispatch,
         Sent, SendFails, Answered, TimesOut, SendCancel, Report, Reports, Log
<1>4. \A d \in Calls : d # c => Outcome(d)' = Outcome(d)
  BY <1>3 DEF Outcome
<1>5. CASE LogStarted(c)
  <2>1. Outcome(c) = "none" /\ Outcome(c)' = "none"
    <3>1. pc[c] \notin Over /\ pc'[c] \notin Over
      BY <1>1, <1>5 DEF LogStarted, TypeOK, Over
    <3> QED BY <3>1 DEF Told
  <2>2. outcomeBar' = outcomeBar
    BY <1>4, <2>1 DEF outcomeBar
  <2>3. events[c] = <<>> /\ events'[c] # <<>>
    <3>1. events[c] = <<>> /\ pc'[c] = "started"
      BY <1>1, <1>5 DEF LogStarted, Shape, TypeOK
    <3>2. events'[c] = <<"started">>
      BY <1>1, <3>1 DEF Shape, Begun
    <3> QED BY <3>1, <3>2
  <2>4. begunBar' = begunBar \cup {c}
    BY <1>3, <2>3 DEF begunBar
  <2>5. outcomeBar[c] = "none"
    BY <2>1 DEF outcomeBar
  <2>6. Contract!Announce(c)
    BY <1>2, <2>2, <2>4, <2>5 DEF Contract!Announce, begunBar, doneBar, outcomeBar
  <2> QED BY <2>6 DEF Contract!CNext
<1>6. CASE Report(c)
  <2> DEFINE how == IF outcome[c] = "succeeded" THEN "completed" ELSE "failed"
  <2>1. Outcome(c) = "none" /\ Outcome(c)' = how
    <3>1. pc[c] \notin Over
      BY <1>6 DEF Report, Over
    <3>2. pc'[c] = "done" /\ outcome'[c] = outcome[c]
      BY <1>1, <1>6 DEF Report, TypeOK
    <3>3. Outcome(c)' = (IF outcome'[c] = "succeeded" THEN "completed" ELSE "failed")
      BY <3>2 DEF Told
    <3> QED BY <3>1, <3>2, <3>3 DEF Told
  <2>2. outcomeBar' = [outcomeBar EXCEPT ![c] = how]
    BY <1>4, <2>1 DEF outcomeBar
  <2>3. events[c] # <<>> /\ events'[c] # <<>>
    <3>1. events[c] = <<"started">>
      BY <1>1, <1>6 DEF Report, Shape, Begun
    <3>2. \E k \in {"completed", "failed"} : events'[c] = Append(<<"started">>, k)
      BY <1>1, <1>6, <3>1 DEF Report, Log, TypeOK
    <3> QED BY <3>1, <3>2, TwoEvents
  <2>4. begunBar' = begunBar /\ c \in begunBar
    BY <1>3, <2>3 DEF begunBar
  <2>5. how = "completed" => c \in doneBar
    BY DEF Honest, CompletedWasCarriedOut, doneBar
  <2>6. outcomeBar[c] = "none"
    BY <2>1 DEF outcomeBar
  <2>7. Contract!Conclude(c, how)
    <3> HIDE DEF how
    <3> QED BY <1>2, <2>2, <2>4, <2>5, <2>6
           DEF Contract!Conclude, begunBar, doneBar, outcomeBar
  <2>8. how \in {"completed", "failed"}
    OBVIOUS
  <2> QED BY <2>7, <2>8 DEF Contract!CNext
<1>7. CASE EmitFails(c) \/ Interrupt(c)
  <2>1. Outcome(c) = "none" /\ Outcome(c)' = "abandoned"
    <3>1. pc[c] \notin Over
      BY <1>7 DEF EmitFails, Interrupt, Over, Suspended
    <3>2. pc'[c] \in {"raised", "cancelled"}
      BY <1>1, <1>7 DEF EmitFails, Interrupt, TypeOK
    <3>3. Outcome(c)' = "abandoned"
      BY <3>2 DEF Told
    <3> QED BY <3>1, <3>3 DEF Told
  <2>2. outcomeBar' = [outcomeBar EXCEPT ![c] = "abandoned"]
    BY <1>4, <2>1 DEF outcomeBar
  <2>3. begunBar' = begunBar
    BY <1>7 DEF begunBar, EmitFails, Interrupt
  <2>4. outcomeBar[c] = "none"
    BY <2>1 DEF outcomeBar
  <2>5. Contract!Conclude(c, "abandoned")
    BY <1>2, <2>2, <2>3, <2>4 DEF Contract!Conclude, begunBar, doneBar, outcomeBar
  <2> QED BY <2>5 DEF Contract!CNext
<1>8. CASE pc[c] \notin Over /\ pc'[c] \notin Over /\ UNCHANGED events
  <2>1. Outcome(c) = "none" /\ Outcome(c)' = "none"
    BY <1>8 DEF Told
  <2>2. outcomeBar' = outcomeBar
    BY <1>4, <2>1 DEF outcomeBar
  <2>3. begunBar' = begunBar
    BY <1>8 DEF begunBar
  <2> QED BY <1>2, <2>2, <2>3 DEF Contract!cvars, begunBar, doneBar, outcomeBar
<1>9. \/ LogStarted(c) \/ Report(c) \/ EmitFails(c) \/ Interrupt(c)
      \/ pc[c] \notin Over /\ pc'[c] \notin Over /\ UNCHANGED events
  BY <1>1 DEF TypeOK, Over, Proceed, Route, Refuse, Dispatch, Sent, SendFails, Answered,
              TimesOut, SendCancel, Reports
<1> QED BY <1>5, <1>6, <1>7, <1>8, <1>9

LEMMA QuietRefines ==
  ASSUME UNCHANGED <<pc, events, desk>>
  PROVE  UNCHANGED Contract!cvars
<1>1. \A c \in Calls : Outcome(c)' = Outcome(c)
  BY DEF Outcome
<1> QED BY <1>1 DEF Contract!cvars

LEMMA ClientRefines ==
  ASSUME Honest, Honest', NEW s \in Sockets,
         ClientTakes(s) \/ \E c \in Calls : ClientAnswers(c, s)
  PROVE  [Contract!CNext]_(Contract!cvars)
<1>1. UNCHANGED <<pc, events>>
  BY DEF ClientTakes, ClientAnswers, endpoint, caller, client
<1>2. begunBar' = begunBar /\ outcomeBar' = outcomeBar
  BY <1>1 DEF begunBar, outcomeBar, Outcome
<1>3. CASE doneBar' = doneBar
  BY <1>2, <1>3 DEF Contract!cvars, begunBar, doneBar, outcomeBar
<1>4. ASSUME NEW c \in Calls, doneBar' = doneBar \cup {c}, desk'[c] # "none"
      PROVE  [Contract!CNext]_(Contract!cvars)
  <2>1. c \in begunBar
    BY <1>1, <1>4 DEF Honest, SentOnce, Past, begunBar
  <2>2. Contract!CarryOut(c)
    BY <1>2, <1>4, <2>1 DEF Contract!CarryOut, begunBar, doneBar, outcomeBar
  <2> QED BY <2>2 DEF Contract!CNext
<1>5. ASSUME NEW c \in Calls, ClientAnswers(c, s)
      PROVE  \/ doneBar' = doneBar
             \/ doneBar' = doneBar \cup {c} /\ desk'[c] # "none"
  BY <1>5 DEF ClientAnswers, doneBar, Honest, TypeOK
<1>6. CASE ClientTakes(s)
  <2>1. Head(wire[s]) \in Frame
    <3>1. wire[s] \in Seq(Frame) /\ wire[s] # <<>>
      BY <1>6 DEF ClientTakes, Honest, TypeOK
    <3> QED BY <3>1
  <2>2. \A d \in Calls : desk[d] # "succeeded" => desk'[d] # "succeeded"
    BY <1>6, <2>1 DEF ClientTakes, Honest, TypeOK, Frame
  <2>3. \A d \in Calls : desk[d] = "succeeded" => desk'[d] = "succeeded"
    <3>1. Next
      BY <1>6 DEF Next
    <3> QED BY <3>1, SuccessStays DEF Honest
  <2> QED BY <2>2, <2>3, <1>3 DEF doneBar
<1> QED BY <1>3, <1>4, <1>5, <1>6

\* Every step of the desktop's calls is a step of ToolCallContract or a stutter.
THEOREM DesktopRefines == Spec => Contract!CSafe
<1>1. Init => Contract!CInit
  BY DEF Init, Contract!CInit, Outcome
<1>2. Honest => Told
  BY OutcomeIs DEF Honest
<1>3. Honest /\ Honest' /\ Told /\ Told' /\ [Next]_vars
        => [Contract!CNext]_(Contract!cvars)
  <2> SUFFICES ASSUME Honest, Honest', Told, Told', [Next]_vars
               PROVE  [Contract!CNext]_(Contract!cvars)
    OBVIOUS
  <2>1. \/ UNCHANGED <<pc, events, desk>>
        \/ \E c \in Calls : Proceed(c) \/ Route(c) \/ EmitFails(c) \/ Interrupt(c)
        \/ \E s \in Sockets : ClientTakes(s) \/ \E c \in Calls : ClientAnswers(c, s)
    BY DEF Next, vars, endpoint, caller, client, Accept, Register, HandleResult, Break,
           EndHandler, BindTools, CooldownExpires
  <2> QED BY <2>1, CallRefines, ClientRefines, QuietRefines
<1> QED BY <1>1, <1>2, <1>3, HonestAlways, PTL DEF Spec, Contract!CSafe
=============================================================================
