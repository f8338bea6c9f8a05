------------------------ MODULE TaskLifecycleProofs -------------------------
(***************************************************************************)
(* Theorems about TaskLifecycle for any number of repliers, cancellers,    *)
(* runners and mishaps.  Actions that only move the control of one         *)
(* coroutine are grouped by what they do to the rest of the state.         *)
(***************************************************************************)
EXTENDS TaskLifecycle, TLAPS

----------------------------------------------------------------------------
(* Type correctness *)

\* Everything but the row and the log, as Advance and its like leave it.
ControlOK ==
  /\ tracked \in Runners \cup {NoRunner}
  /\ pc \in [Runners -> RunnerPc]
  /\ kill \in [Runners -> BOOLEAN]
  /\ submit \in {"idle", "spawn", "done"}
  /\ reply \in [Repliers -> ReplyPc]
  /\ cancel \in [Cancellers -> CancelPc]
  /\ target \in [Cancellers -> Runners \cup {NoRunner}]
  /\ mode \in {"up", "closing", "down"}
  /\ mishaps \in 0 .. MaxMishaps
  /\ lost \in BOOLEAN

DataOK ==
  /\ status \in Status
  /\ logged \subseteq Kinds
  /\ charged \in BOOLEAN
  /\ seen \in [Coroutines -> Status]

LEMMA TypeParts == TypeOK <=> DataOK /\ ControlOK
  BY DEF TypeOK, DataOK, ControlOK

\* The bound on mishaps is respected by a failing call.
LEMMA FailsType ==
  ASSUME ControlOK, NEW e \in BOOLEAN, Fails(e)
  PROVE  mishaps' \in 0 .. MaxMishaps /\ lost' \in BOOLEAN
  BY RunnersSuffice DEF ControlOK, Fails

\* What the two steps of a status write and the other calls leave.
LEMMA CallTypes ==
  ASSUME DataOK, NEW x \in Coroutines
  PROVE  /\ ReadOnly => DataOK'
         /\ \A k \in Kinds : LogEvent(k) => DataOK'
         /\ Loads(x) /\ UNCHANGED core => DataOK'
         /\ \A s \in Status : Commits(x, s) => DataOK'
         /\ seen' = [seen EXCEPT ![x] = Unread] /\ UNCHANGED core => DataOK'
<1>1. ReadOnly => DataOK'
  BY DEF ReadOnly, core, DataOK
<1>2. ASSUME NEW k \in Kinds, LogEvent(k) PROVE DataOK'
  BY <1>2 DEF LogEvent, DataOK
<1>3. ASSUME Loads(x), UNCHANGED core PROVE DataOK'
  BY <1>3 DEF Loads, core, DataOK
<1>4. Unread \in Status
  BY DEF Unread, Status
<1>5. ASSUME NEW s \in Status, Commits(x, s) PROVE DataOK'
  BY <1>4, <1>5 DEF Commits, DataOK
<1>6. ASSUME seen' = [seen EXCEPT ![x] = Unread], UNCHANGED core PROVE DataOK'
  BY <1>4, <1>6 DEF core, DataOK
<1> QED BY <1>1, <1>2, <1>3, <1>5, <1>6

LEMMA StatusNames == {"running", "waiting_for_user"} \cup Terminal \subseteq Status
  BY DEF Status

\* A runner that leaves its call is at a label again.
LEMMA AdvanceType ==
  ASSUME ControlOK, NEW r \in Runners, NEW next \in RunnerPc, Advance(r, next)
  PROVE  ControlOK'
<1>1. OnCancel(pc[r]) \in RunnerPc /\ OnFault(pc[r]) \in RunnerPc
  BY DEF OnCancel, OnFault, RunnerPc, Live, Finalize, OnError
<1>2. mishaps' \in 0 .. MaxMishaps /\ lost' \in BOOLEAN
  <2>1. CASE NoFailure
    BY <2>1 DEF NoFailure, ControlOK
  <2>2. CASE Fails(OnFault(pc[r]) = "done")
    BY <2>2, FailsType
  <2> QED BY <2>1, <2>2 DEF Advance
<1> QED BY <1>1, <1>2 DEF ControlOK, Advance, handlers

LEMMA RaiseType ==
  ASSUME ControlOK, NEW r \in Runners, Raise(r)
  PROVE  ControlOK'
<1>1. OnCancel(pc[r]) \in RunnerPc /\ OnFault(pc[r]) \in RunnerPc
  BY DEF OnCancel, OnFault, RunnerPc, Live, Finalize, OnError
<1>2. mishaps' \in 0 .. MaxMishaps /\ lost' \in BOOLEAN
  <2>1. CASE NoFailure
    BY <2>1 DEF NoFailure, ControlOK
  <2>2. CASE Fails(OnFault(pc[r]) = "done")
    BY <2>2, FailsType
  <2> QED BY <2>1, <2>2 DEF Raise
<1> QED BY <1>1, <1>2 DEF ControlOK, Raise, handlers

\* A load moves no control.
LEMMA LoadType ==
  ASSUME DataOK, ControlOK, NEW x \in Coroutines, Loads(x),
         UNCHANGED <<core, runners, handlers, world>>
  PROVE  DataOK' /\ ControlOK'
  BY CallTypes DEF ControlOK, runners, handlers, world

\* One step of a runner.
LEMMA RunnerType ==
  ASSUME DataOK, ControlOK, NEW r \in Runners,
         RunnerStep(r) \/ Stream(r) \/ Raise(r)
  PROVE  DataOK' /\ ControlOK'
<1> USE DEF RunnerPc, Live, PreTry, InTry, OnError, Finalize, PostTry
<1>1. r \in Coroutines
  BY DEF Coroutines
<1>2. Kinds = {"started", "question", "answer", "completed", "failed", "cancelled"}
  BY DEF Kinds
<1>3. CASE Load(r)
  BY <1>1, <1>3, LoadType DEF Load
<1>4. CASE Rejoin(r) \/ FinGet(r)
  BY <1>1, <1>4, CallTypes, AdvanceType DEF Rejoin, FinGet
<1>5. CASE LogStarted(r) \/ LogQuestion(r) \/ LogCompleted(r) \/ LogFailed(r) \/ FinLog(r)
  BY <1>1, <1>2, <1>5, CallTypes, AdvanceType
     DEF LogStarted, LogQuestion, LogCompleted, LogFailed, FinLog
<1>6. CASE MarkStarted(r) \/ Ask(r)
  BY <1>1, <1>6, StatusNames, CallTypes, AdvanceType DEF MarkStarted, Ask, Running, Waiting
<1>7. CASE FinishOk(r) \/ FinishFailed(r) \/ FinCancel(r)
  BY <1>1, <1>7, StatusNames, CallTypes, AdvanceType
     DEF FinishOk, FinishFailed, FinCancel, Ended, Terminal
<1>8. CASE Charge(r)
  BY <1>8, AdvanceType DEF Charge, DataOK
<1>9. CASE Stream(r)
  <2>1. CASE StreamQuestion(r) \/ StreamEnd(r)
    BY <1>1, <2>1, CallTypes, AdvanceType DEF StreamQuestion, StreamEnd
  <2>2. CASE StreamFailureNotice(r)
    <3>1. pc[r] \in RunnerPc BY <2>2 DEF StreamFailureNotice
    <3> QED BY <1>1, <1>2, <2>2, <3>1, CallTypes, AdvanceType DEF StreamFailureNotice
  <2>3. CASE StreamError(r)
    BY <2>3 DEF StreamError, DataOK, ControlOK, core, handlers, NoFailure
  <2> QED BY <1>9, <2>1, <2>2, <2>3 DEF Stream
<1>10. CASE Raise(r)
  <2>1. DataOK'
    BY <1>1, <1>10, CallTypes DEF Raise
  <2> QED BY <1>10, <2>1, RaiseType
<1> QED
  BY <1>3, <1>4, <1>5, <1>6, <1>7, <1>8, <1>9, <1>10 DEF RunnerStep

\* A new runner is a runner, and it is tracked.
LEMMA SpawnType ==
  ASSUME ControlOK, NEW l \in RunnerPc, SpawnAt(l)
  PROVE  /\ tracked' \in Runners \cup {NoRunner}
         /\ pc' \in [Runners -> RunnerPc]
         /\ kill' \in [Runners -> BOOLEAN]
  BY DEF ControlOK, SpawnAt

LEMMA SubmitType ==
  ASSUME DataOK, ControlOK, SubmitCreate \/ SubmitSpawn
  PROVE  DataOK' /\ ControlOK'
<1>1. CASE SubmitCreate
  BY <1>1 DEF SubmitCreate, DataOK, ControlOK, runners, world, Status
<1>2. CASE SubmitSpawn
  <2>1. CASE SpawnAt("mark_started") /\ NoFailure
    BY <1>2, <2>1, SpawnType
       DEF SubmitSpawn, DataOK, ControlOK, core, NoFailure, RunnerPc, Live, PreTry
  <2>2. CASE UNCHANGED runners /\ Fails(TRUE)
    BY <1>2, <2>2, FailsType DEF SubmitSpawn, DataOK, ControlOK, core, runners
  <2> QED BY <1>2, <2>1, <2>2 DEF SubmitSpawn
<1> QED BY <1>1, <1>2

\* A reply handler that goes on, or whose call fails, touches only its own label.
LEMMA ReplyGoesType ==
  ASSUME ControlOK, NEW h \in Repliers, NEW l \in ReplyPc, ReplyGoes(h, l), UNCHANGED runners
  PROVE  ControlOK'
<1>1. CASE NoFailure /\ reply' = [reply EXCEPT ![h] = l]
  BY <1>1 DEF ReplyGoes, NoFailure, ControlOK, runners
<1>2. CASE Fails(TRUE) /\ reply' = [reply EXCEPT ![h] = "done"]
  BY <1>2, FailsType DEF ReplyGoes, ControlOK, runners, ReplyPc
<1> QED BY <1>1, <1>2 DEF ReplyGoes

LEMMA ReplyType ==
  ASSUME DataOK, ControlOK, NEW h \in Repliers,
         ReplyCheck(h) \/ ReplyStep(h) \/ ReplyRaise(h)
  PROVE  DataOK' /\ ControlOK'
<1>1. h \in Coroutines
  BY DEF Coroutines
<1>2. CASE ReplyCheck(h)
  BY <1>2 DEF ReplyCheck, DataOK, ControlOK, core, runners, world, ReplyPc
<1>3. CASE ReplyLoad(h)
  BY <1>1, <1>3, LoadType DEF ReplyLoad
<1>4. CASE ReplyResume(h)
  BY <1>1, <1>4, StatusNames, CallTypes, ReplyGoesType DEF ReplyResume, Running, ReplyPc
<1>5. CASE ReplyLog(h)
  BY <1>1, <1>5, CallTypes, ReplyGoesType DEF ReplyLog, ReplyPc, Kinds
<1>6. CASE ReplySpawn(h)
  BY <1>6, SpawnType
     DEF ReplySpawn, DataOK, ControlOK, core, world, ReplyPc, RunnerPc, Live, PreTry
<1>7. CASE ReplyRaise(h)
  <2>1. DataOK'
    BY <1>1, <1>7, CallTypes DEF ReplyRaise
  <2> QED BY <1>7, <2>1, FailsType DEF ReplyRaise, ControlOK, runners, ReplyPc
<1> QED BY <1>2, <1>3, <1>4, <1>5, <1>6, <1>7 DEF ReplyStep

LEMMA CancelGoesType ==
  ASSUME ControlOK, NEW h \in Cancellers, NEW l \in CancelPc, CancelGoes(h, l),
         UNCHANGED <<runners, target>>
  PROVE  ControlOK'
<1>1. CASE NoFailure /\ cancel' = [cancel EXCEPT ![h] = l]
  BY <1>1 DEF CancelGoes, NoFailure, ControlOK, runners
<1>2. CASE Fails(TRUE) /\ cancel' = [cancel EXCEPT ![h] = "done"]
  BY <1>2, FailsType DEF CancelGoes, ControlOK, runners, CancelPc
<1> QED BY <1>1, <1>2 DEF CancelGoes

LEMMA CancelReadsType ==
  ASSUME DataOK, ControlOK, NEW h \in Cancellers, NEW l \in CancelPc, CancelReads(h, l),
         target' \in [Cancellers -> Runners \cup {NoRunner}]
  PROVE  DataOK' /\ ControlOK'
  BY DEF CancelReads, DataOK, ControlOK, core, runners, world

LEMMA CancelType ==
  ASSUME DataOK, ControlOK, NEW h \in Cancellers,
         CancelCheck(h) \/ CancelStep(h) \/ CancelRaise(h)
  PROVE  DataOK' /\ ControlOK'
<1> USE DEF CancelPc, Finalize
<1>1. target \in [Cancellers -> Runners \cup {NoRunner}] /\ tracked \in Runners \cup {NoRunner}
  BY DEF ControlOK
<1>2. h \in Coroutines
  BY DEF Coroutines
<1>3. CASE CancelCheck(h) \/ CancelLatest(h) \/ CancelFinGet(h)
  BY <1>1, <1>3, CancelReadsType DEF CancelCheck, CancelLatest, CancelFinGet
<1>4. CASE CancelRequest(h) \/ CancelAwait(h)
  <2>1. target' \in [Cancellers -> Runners \cup {NoRunner}]
    BY <1>1, <1>4 DEF CancelRequest, CancelAwait
  <2> QED BY <1>4, <2>1, CancelReadsType DEF CancelRequest, CancelAwait
<1>5. CASE CancelLogRequest(h) \/ CancelFinLog(h)
  BY <1>2, <1>5, CallTypes, CancelGoesType DEF CancelLogRequest, CancelFinLog, Kinds
<1>6. CASE CancelLoad(h)
  BY <1>2, <1>6, LoadType DEF CancelLoad
<1>7. CASE CancelFinCancel(h)
  BY <1>2, <1>7, StatusNames, CallTypes, CancelGoesType DEF CancelFinCancel, Ended, Terminal
<1>8. CASE CancelStop(h)
  <2>1. kill' \in [Runners -> BOOLEAN] /\ cancel' \in [Cancellers -> CancelPc]
    BY <1>8 DEF CancelStop, ControlOK
  <2> QED BY <1>8, <2>1 DEF CancelStop, DataOK, ControlOK, core, world
<1>9. CASE CancelRaise(h)
  <2>1. DataOK'
    BY <1>2, <1>9, CallTypes DEF CancelRaise
  <2> QED BY <1>9, <2>1, FailsType DEF CancelRaise, ControlOK, runners
<1> QED
  BY <1>3, <1>4, <1>5, <1>6, <1>7, <1>8, <1>9 DEF CancelStep

LEMMA ProcessType ==
  ASSUME DataOK, ControlOK, Cleanup \/ Close \/ Exit \/ Restart
  PROVE  DataOK' /\ ControlOK'
<1> USE RunnersSuffice DEF DataOK, ControlOK, core, handlers, world
<1>1. CASE Cleanup
  BY <1>1 DEF Cleanup
<1>2. CASE Close
  BY <1>2 DEF Close
<1>3. CASE Exit
  <2>1. mishaps' \in 0 .. MaxMishaps
    BY <1>3 DEF Exit
  <2>2. pc' \in [Runners -> RunnerPc] /\ seen' \in [Coroutines -> Status]
    BY <1>3 DEF Exit, RunnerPc, Unread, Status
  <2>3. reply' \in [Repliers -> ReplyPc] /\ cancel' \in [Cancellers -> CancelPc]
    BY <1>3 DEF Exit, ReplyPc, CancelPc
  <2> QED BY <1>3, <2>1, <2>2, <2>3 DEF Exit
<1>4. CASE Restart
  <2>1. UNCHANGED runners \/ SpawnAt("mark_started") \/ SpawnAt("rejoin")
    BY <1>4 DEF Restart, Recover
  <2>2. /\ tracked' \in Runners \cup {NoRunner}
        /\ pc' \in [Runners -> RunnerPc]
        /\ kill' \in [Runners -> BOOLEAN]
    BY <2>1, SpawnType DEF runners, RunnerPc, Live, PreTry
  <2>3. mishaps' \in 0 .. MaxMishaps /\ lost' \in BOOLEAN
    BY <1>4, FailsType DEF Restart
  <2> QED BY <1>4, <2>2, <2>3 DEF Restart
<1> QED BY <1>1, <1>2, <1>3, <1>4

(***************************************************************************)
(* Every variable keeps its type.                                          *)
(***************************************************************************)
THEOREM TypeCorrect == Spec => []TypeOK
<1>1. Init => TypeOK
  <2> SUFFICES ASSUME Init PROVE TypeOK
    OBVIOUS
  <2>1. status \in Status /\ seen \in [Coroutines -> Status]
    BY DEF Init, Status, Unread
  <2>2. mishaps \in 0 .. MaxMishaps
    BY RunnersSuffice DEF Init
  <2>3. pc \in [Runners -> RunnerPc] /\ kill \in [Runners -> BOOLEAN]
    BY DEF Init, RunnerPc
  <2>4. /\ reply \in [Repliers -> ReplyPc] /\ cancel \in [Cancellers -> CancelPc]
        /\ target \in [Cancellers -> Runners \cup {NoRunner}]
    BY DEF Init, ReplyPc, CancelPc
  <2> QED BY <2>1, <2>2, <2>3, <2>4 DEF Init, TypeOK
<1>2. TypeOK /\ [Next]_vars => TypeOK'
  <2> SUFFICES ASSUME DataOK, ControlOK, [Next]_vars PROVE DataOK' /\ ControlOK'
    BY TypeParts DEF TypeOK, DataOK, ControlOK
  <2>1. CASE UNCHANGED vars
    BY <2>1 DEF vars, core, runners, handlers, world, DataOK, ControlOK
  <2> QED
    BY <2>1, RunnerType, SubmitType, ReplyType, CancelType, ProcessType DEF Next
<1> QED BY <1>1, <1>2, PTL DEF Spec

----------------------------------------------------------------------------
(* The forms a coroutine's step can have *)

\* Only a live runner takes steps.
LEMMA RunnerIsLive ==
  ASSUME NEW r \in Runners, RunnerStep(r) \/ Stream(r) \/ Raise(r)
  PROVE  pc[r] \in Live
  BY DEF RunnerStep, Stream, Raise, Load, StatusCalls, MarkStarted, LogStarted, Rejoin, Ask,
         LogQuestion, LogCompleted, Charge, FinishOk, LogFailed, FinishFailed, FinGet, FinLog,
         FinCancel, StreamQuestion, StreamFailureNotice, StreamEnd, StreamError,
         Live, PreTry, InTry, OnError, Finalize, PostTry

\* It leaves the call it waits on, or loads the row for it.
LEMMA RunnerForm ==
  ASSUME NEW r \in Runners, RunnerStep(r) \/ Stream(r) \/ Raise(r)
  PROVE  (\E l : Advance(r, l)) \/ Raise(r) \/ StreamError(r) \/ Load(r)
  BY DEF RunnerStep, Stream, MarkStarted, LogStarted, Rejoin, Ask, LogQuestion, LogCompleted,
         Charge, FinishOk, LogFailed, FinishFailed, FinGet, FinLog, FinCancel, StreamQuestion,
         StreamFailureNotice, StreamEnd

LEMMA CancelForm ==
  ASSUME NEW h \in Cancellers, CancelCheck(h) \/ CancelStep(h) \/ CancelRaise(h)
  PROVE  \/ \E l : CancelGoes(h, l) \/ CancelReads(h, l)
         \/ CancelStop(h) \/ CancelRaise(h) \/ CancelLoad(h)
  BY DEF CancelCheck, CancelStep, CancelLogRequest, CancelRequest, CancelAwait, CancelLatest,
         CancelFinGet, CancelFinLog, CancelFinCancel

\* A canceller that is idle or done does nothing but start.
LEMMA CancelIsBusy ==
  ASSUME NEW h \in Cancellers, CancelStep(h) \/ CancelRaise(h)
  PROVE  cancel[h] \notin {"idle", "done"}
  BY DEF CancelRaise, CancelStep, CancelLogRequest, CancelRequest, CancelStop, CancelAwait,
         CancelLatest, CancelFinGet, CancelLoad, CancelFinLog, CancelFinCancel

----------------------------------------------------------------------------
(* The invariants that make the properties of TaskLifecycle inductive *)

\* Before the row exists no coroutine knows the task.
Created ==
  /\ submit = "idle" <=> status = "absent"
  /\ submit = "idle" =>
       /\ \A r \in Runners : pc[r] = "unused"
       /\ \A h \in Repliers : reply[h] = "idle"
       /\ \A h \in Cancellers : cancel[h] = "idle"

\* A coroutine at label l has logged what the row is about to say.
Backed(l) ==
  /\ l = "charge" => "completed" \in logged
  /\ l = "finish_ok" => charged
  /\ l = "finish_failed" => "failed" \in logged
  /\ l = "fin_cancel" => "cancelled" \in logged

AllBacked ==
  /\ \A r \in Runners : Backed(pc[r])
  /\ \A h \in Cancellers : Backed(cancel[h])

Honest == TypeOK /\ Created /\ AllBacked /\ StatusIsExplained

----------------------------------------------------------------------------
(* Refinement: TaskContract *)

\* A coroutine exists only for a task that exists.
LEMMA ExistsIfWorked ==
  ASSUME Created,
         \/ \E r \in Runners : pc[r] \in Live
         \/ \E h \in Repliers : reply[h] # "idle"
         \/ \E h \in Cancellers : cancel[h] # "idle"
  PROVE  status # "absent"
  BY DEF Created, Live, PreTry, InTry, OnError, Finalize, PostTry

\* The ways a coroutine of an existing task shows in the contract.  A commit
\* whose loaded row was stale may leave the status as it is.
LEMMA ContractWork ==
  ASSUME status # "absent", NEW x, NEW s \in {"running", "waiting_for_user"}, Commits(x, s)
  PROVE  Contract!Next \/ UNCHANGED core
  BY DEF Contract!Next, Contract!Work, Commits, core

LEMMA ContractLog ==
  ASSUME status # "absent", NEW k \in Kinds, LogEvent(k)
  PROVE  Contract!Next
  BY DEF LogEvent, Contract!Next, Contract!Log, Contract!Kinds, Kinds

LEMMA ContractSettle ==
  ASSUME NEW x, NEW s \in Terminal, Ended(x, s),
         s = "succeeded" => charged /\ "completed" \in logged,
         s # "succeeded" => s \in logged
  PROVE  Contract!Next \/ UNCHANGED core
<1>1. CASE status' = s /\ UNCHANGED <<logged, charged>>
  BY <1>1 DEF Contract!Next, Contract!Settle, Contract!EventOf, Contract!Terminal, Terminal
<1>2. CASE UNCHANGED core
  BY <1>2
<1> QED BY <1>1, <1>2 DEF Ended, Commits, core

\* A step of a runner is a step of the contract, or none.
LEMMA RunnerContract ==
  ASSUME Honest, NEW r \in Runners, RunnerStep(r) \/ Stream(r) \/ Raise(r)
  PROVE  Contract!Next \/ UNCHANGED core
<1>1. pc[r] \in Live
  BY RunnerIsLive
<1>2. status # "absent"
  BY <1>1, ExistsIfWorked DEF Honest
<1>3. Backed(pc[r])
  BY DEF Honest, AllBacked
<1>4. CASE Load(r) \/ Rejoin(r) \/ FinGet(r) \/ StreamQuestion(r) \/ StreamEnd(r)
           \/ StreamError(r) \/ Raise(r)
  BY <1>4 DEF Load, Rejoin, FinGet, StreamQuestion, StreamEnd, StreamError, Raise, ReadOnly
<1>5. CASE MarkStarted(r) \/ Ask(r)
  BY <1>2, <1>5, ContractWork DEF MarkStarted, Ask, Running, Waiting
<1>6. CASE LogStarted(r) \/ LogQuestion(r) \/ LogCompleted(r) \/ LogFailed(r) \/ FinLog(r)
           \/ StreamFailureNotice(r)
  BY <1>2, <1>6, ContractLog DEF LogStarted, LogQuestion, LogCompleted, LogFailed, FinLog,
     StreamFailureNotice, Kinds
<1>7. CASE Charge(r)
  BY <1>3, <1>7 DEF Charge, Backed, Contract!Next, Contract!Charge
<1>8. CASE FinishOk(r)
  <2>1. charged /\ "completed" \in logged
    BY <1>3, <1>8 DEF FinishOk, Backed, Honest, StatusIsExplained
  <2> QED BY <1>8, <2>1, ContractSettle DEF FinishOk, Terminal
<1>9. CASE FinishFailed(r)
  BY <1>3, <1>9, ContractSettle DEF FinishFailed, Backed, Terminal
<1>10. CASE FinCancel(r)
  BY <1>3, <1>10, ContractSettle DEF FinCancel, Backed, Terminal
<1> QED
  BY <1>4, <1>5, <1>6, <1>7, <1>8, <1>9, <1>10 DEF RunnerStep, Stream

\* A step of a reply or cancel handler is a step of the contract, or none.
LEMMA HandlerContract ==
  ASSUME Honest,
         \/ \E h \in Repliers : ReplyCheck(h) \/ ReplyStep(h) \/ ReplyRaise(h)
         \/ \E h \in Cancellers : CancelCheck(h) \/ CancelStep(h) \/ CancelRaise(h)
  PROVE  Contract!Next \/ UNCHANGED core
<1>1. ASSUME NEW h \in Repliers, ReplyCheck(h) \/ ReplyStep(h) \/ ReplyRaise(h)
      PROVE  Contract!Next \/ UNCHANGED core
  <2>1. CASE ReplyCheck(h) \/ ReplyLoad(h) \/ ReplySpawn(h) \/ ReplyRaise(h)
    BY <2>1 DEF ReplyCheck, ReplyLoad, ReplySpawn, ReplyRaise
  <2>2. CASE ReplyResume(h) \/ ReplyLog(h)
    <3>1. status # "absent"
      BY <2>2, ExistsIfWorked DEF Honest, ReplyResume, ReplyLog
    <3> QED BY <2>2, <3>1, ContractWork, ContractLog DEF ReplyResume, Running, ReplyLog, Kinds
  <2> QED BY <1>1, <2>1, <2>2 DEF ReplyStep
<1>2. ASSUME NEW h \in Cancellers, CancelCheck(h) \/ CancelStep(h) \/ CancelRaise(h)
      PROVE  Contract!Next \/ UNCHANGED core
  <2>1. CASE \/ CancelCheck(h) \/ CancelRequest(h) \/ CancelStop(h) \/ CancelAwait(h)
             \/ CancelLatest(h) \/ CancelFinGet(h) \/ CancelLoad(h) \/ CancelRaise(h)
    BY <2>1 DEF CancelCheck, CancelRequest, CancelStop, CancelAwait, CancelLatest, CancelFinGet,
                CancelLoad, CancelRaise, CancelReads
  <2>2. CASE CancelLogRequest(h) \/ CancelFinLog(h)
    <3>1. status # "absent"
      BY <2>2, ExistsIfWorked DEF Honest, CancelLogRequest, CancelFinLog
    <3> QED BY <2>2, <3>1, ContractLog DEF CancelLogRequest, CancelFinLog, Kinds
  <2>3. CASE CancelFinCancel(h)
    <3>1. "cancelled" \in logged
      BY <2>3 DEF CancelFinCancel, Honest, AllBacked, Backed
    <3> QED BY <2>3, <3>1, ContractSettle DEF CancelFinCancel, Terminal
  <2> QED BY <1>2, <2>1, <2>2, <2>3 DEF CancelStep
<1> QED BY <1>1, <1>2

\* SubmitCreate is the contract's Create; the process's own steps do not show.
LEMMA RestContract ==
  ASSUME Honest, SubmitCreate \/ SubmitSpawn \/ Cleanup \/ Close \/ Exit \/ Restart
  PROVE  Contract!Next \/ UNCHANGED core
<1>1. CASE SubmitCreate
  BY <1>1 DEF SubmitCreate, Honest, Created, Contract!Next, Contract!Create
<1>2. CASE SubmitSpawn \/ Cleanup \/ Close \/ Exit \/ Restart
  BY <1>2 DEF SubmitSpawn, Cleanup, Close, Exit, Restart
<1> QED BY <1>1, <1>2

\* What the contract keeps: the log only grows, a charge and a status stay
\* explained, and a task that exists goes on existing.
LEMMA ContractKeeps ==
  ASSUME TypeOK, TypeOK', StatusIsExplained, Contract!Next \/ UNCHANGED core
  PROVE  /\ StatusIsExplained'
         /\ logged \subseteq logged' /\ (charged => charged')
         /\ status # "absent" => status' # "absent"
<1> USE DEF core, StatusIsExplained
<1>1. CASE UNCHANGED core
  BY <1>1
<1>2. CASE Contract!Create \/ Contract!Work \/ \E k \in Contract!Kinds : Contract!Log(k)
  BY <1>2 DEF Contract!Create, Contract!Work, Contract!Log
<1>3. CASE Contract!Charge
  BY <1>3 DEF Contract!Charge
<1>4. ASSUME NEW s \in Contract!Terminal, Contract!Settle(s)
      PROVE  /\ StatusIsExplained'
             /\ logged \subseteq logged' /\ (charged => charged')
             /\ status' # "absent"
  BY <1>4 DEF Contract!Settle, Contract!EventOf, Contract!Terminal
<1> QED BY <1>1, <1>2, <1>3, <1>4 DEF Contract!Next

----------------------------------------------------------------------------
(* Honest is inductive *)

\* A label that did not move stays backed, since the log only grows.
LEMMA BackedAfter ==
  ASSUME AllBacked, logged \subseteq logged', charged => charged',
         \A r \in Runners : pc'[r] = pc[r] \/ Backed(pc[r])',
         \A h \in Cancellers : cancel'[h] = cancel[h] \/ Backed(cancel[h])'
  PROVE  AllBacked'
  BY DEF AllBacked, Backed

\* Where a runner can be after a step, whatever happened to its call.
LEMMA AdvanceLabel ==
  ASSUME TypeOK, NEW r \in Runners, NEW next, Advance(r, next)
  PROVE  /\ \A q \in Runners : q # r => pc'[q] = pc[q]
         /\ pc'[r] \in {next, "done", "fin_get", "log_failed"}
         /\ UNCHANGED handlers
  BY DEF Advance, OnCancel, OnFault, TypeOK

\* Labels at which a runner has yet to log what it will write.
Early == {"done", "mark_started", "log_started", "stream", "ask", "log_question", "drain",
          "log_completed", "log_failed", "fin_get", "fin_log"}

\* A runner is only where it has logged what it will write.
LEMMA RunnerBacked ==
  ASSUME TypeOK, NEW r \in Runners, RunnerStep(r) \/ Stream(r) \/ Raise(r),
         AllBacked, logged \subseteq logged', charged => charged'
  PROVE  AllBacked'
<1>1. ASSUME NEW l \in Early PROVE Backed(l)'
  BY <1>1 DEF Backed, Early
<1>2. ASSUME Backed(pc[r])', \A q \in Runners : q # r => pc'[q] = pc[q], UNCHANGED handlers
      PROVE  AllBacked'
  BY <1>2, BackedAfter DEF handlers
<1>3. CASE MarkStarted(r) \/ LogStarted(r) \/ Rejoin(r) \/ Ask(r) \/ LogQuestion(r) \/ FinGet(r)
           \/ FinishOk(r) \/ FinishFailed(r) \/ FinCancel(r)
           \/ StreamQuestion(r) \/ StreamFailureNotice(r) \/ StreamEnd(r)
  <2>1. \E next \in Early : Advance(r, next)
    BY <1>3 DEF MarkStarted, LogStarted, Rejoin, Ask, LogQuestion, FinGet, FinishOk, FinishFailed,
                FinCancel, StreamQuestion, StreamFailureNotice, StreamEnd, Early
  <2>2. PICK next \in Early : Advance(r, next) BY <2>1
  <2>3. pc'[r] \in Early BY <2>2, AdvanceLabel DEF Early
  <2> QED BY <1>1, <1>2, <2>2, <2>3, AdvanceLabel
<1>4. CASE LogCompleted(r) \/ LogFailed(r) \/ FinLog(r) \/ Charge(r)
  <2>1. \E next : Advance(r, next) /\ Backed(next)'
    BY <1>4 DEF LogCompleted, LogFailed, FinLog, Charge, LogEvent, Backed
  <2>2. PICK next : Advance(r, next) /\ Backed(next)' BY <2>1
  <2>3. pc'[r] = next \/ pc'[r] \in Early BY <2>2, AdvanceLabel DEF Early
  <2>4. Backed(pc[r])' BY <1>1, <2>2, <2>3 DEF Backed
  <2> QED BY <1>2, <2>2, <2>4, AdvanceLabel
<1>5. CASE Raise(r) \/ StreamError(r)
  <2>1. pc'[r] \in Early
    BY <1>5 DEF Raise, StreamError, OnCancel, OnFault, TypeOK, Early
  <2>2. (\A q \in Runners : q # r => pc'[q] = pc[q]) /\ UNCHANGED handlers
    BY <1>5 DEF Raise, StreamError, TypeOK
  <2> QED BY <1>1, <1>2, <2>1, <2>2
<1>6. CASE Load(r)
  BY <1>6, BackedAfter DEF Load, runners, handlers
<1> QED BY <1>3, <1>4, <1>5, <1>6 DEF RunnerStep, Stream

LEMMA OtherBacked ==
  ASSUME TypeOK, AllBacked, logged \subseteq logged', charged => charged',
         \/ SubmitCreate \/ SubmitSpawn \/ Cleanup \/ Close \/ Exit \/ Restart
         \/ \E h \in Repliers : ReplyCheck(h) \/ ReplyStep(h) \/ ReplyRaise(h)
         \/ \E h \in Cancellers : CancelCheck(h) \/ CancelStep(h) \/ CancelRaise(h)
  PROVE  AllBacked'
<1>1. ASSUME NEW l \in {"mark_started", "rejoin"}, SpawnAt(l)
      PROVE  \A r \in Runners : pc'[r] = pc[r] \/ Backed(pc[r])'
  BY <1>1 DEF SpawnAt, Backed, TypeOK
<1>2. CASE SubmitCreate \/ SubmitSpawn \/ Cleanup \/ Close
  BY <1>1, <1>2, BackedAfter DEF SubmitCreate, SubmitSpawn, Cleanup, Close, runners, handlers
<1>3. CASE Exit
  BY <1>3, BackedAfter DEF Exit, Backed, TypeOK
<1>4. CASE Restart
  BY <1>1, <1>4, BackedAfter DEF Restart, Recover, runners, handlers
<1>5. CASE \E h \in Repliers : ReplyCheck(h) \/ ReplyStep(h) \/ ReplyRaise(h)
  <2>1. UNCHANGED cancel /\ (UNCHANGED pc \/ SpawnAt("rejoin"))
    BY <1>5 DEF ReplyCheck, ReplyStep, ReplyLoad, ReplyResume, ReplyLog, ReplySpawn, ReplyRaise,
                ReplyGoes, runners, handlers
  <2> QED BY <1>1, <2>1, BackedAfter
<1>6. ASSUME NEW h \in Cancellers, CancelCheck(h) \/ CancelStep(h) \/ CancelRaise(h)
      PROVE  AllBacked'
  <2>1. \A r \in Runners : pc'[r] = pc[r]
    BY <1>6 DEF CancelCheck, CancelRaise, CancelStep, CancelLogRequest, CancelRequest, CancelStop,
                CancelAwait, CancelLatest, CancelFinGet, CancelLoad, CancelFinLog, CancelFinCancel,
                CancelReads, runners
  <2>2. \A g \in Cancellers : g # h => cancel'[g] = cancel[g]
    <3>1. \/ \E l : CancelGoes(h, l) \/ CancelReads(h, l)
          \/ CancelStop(h) \/ CancelRaise(h) \/ CancelLoad(h)
      BY <1>6, CancelForm
    <3> QED BY <3>1 DEF CancelGoes, CancelReads, CancelStop, CancelRaise, CancelLoad, handlers,
                        TypeOK
  <2>3. ASSUME CancelFinLog(h) PROVE Backed(cancel[h])'
    <3>1. cancel'[h] \in {"fin_cancel", "done"}
      BY <2>3 DEF CancelFinLog, CancelGoes, TypeOK
    <3>2. "cancelled" \in logged'
      BY <2>3 DEF CancelFinLog, LogEvent
    <3> QED BY <3>1, <3>2 DEF Backed
  <2>4. ASSUME CancelLogRequest(h) \/ CancelStop(h) \/ CancelFinCancel(h) \/ CancelRaise(h)
        PROVE  Backed(cancel[h])'
    BY <2>4 DEF CancelLogRequest, CancelStop, CancelFinCancel, CancelRaise, CancelGoes, TypeOK,
                Backed
  <2>5. ASSUME \/ CancelCheck(h) \/ CancelRequest(h) \/ CancelAwait(h) \/ CancelLatest(h)
               \/ CancelFinGet(h)
        PROVE  Backed(cancel[h])'
    BY <2>5 DEF CancelCheck, CancelRequest, CancelAwait, CancelLatest, CancelFinGet, CancelReads,
                TypeOK, Backed
  <2>6. cancel'[h] = cancel[h] \/ Backed(cancel[h])'
    BY <1>6, <2>3, <2>4, <2>5 DEF CancelStep, CancelLoad, handlers
  <2> QED BY <2>1, <2>2, <2>6, BackedAfter
<1> QED BY <1>2, <1>3, <1>4, <1>5, <1>6

LEMMA CreatedStays ==
  ASSUME TypeOK, Created, Next, status # "absent" => status' # "absent"
  PROVE  Created'
<1>1. CASE submit # "idle"
  <2>1. submit' # "idle"
    <3>1. ASSUME NEW r \in Runners, RunnerStep(r) \/ Stream(r) \/ Raise(r)
          PROVE  UNCHANGED submit
      BY <3>1, RunnerForm DEF Advance, Raise, StreamError, Load, handlers
    <3>2. ASSUME NEW h \in Repliers, ReplyCheck(h) \/ ReplyStep(h) \/ ReplyRaise(h)
          PROVE  UNCHANGED submit
      BY <3>2 DEF ReplyCheck, ReplyStep, ReplyLoad, ReplyResume, ReplyLog, ReplySpawn, ReplyRaise,
                  ReplyGoes, handlers
    <3>3. ASSUME NEW h \in Cancellers, CancelCheck(h) \/ CancelStep(h) \/ CancelRaise(h)
          PROVE  UNCHANGED submit
      BY <3>3, CancelForm DEF CancelGoes, CancelReads, CancelStop, CancelRaise, CancelLoad, handlers
    <3> QED
      BY <1>1, <3>1, <3>2, <3>3
         DEF Next, SubmitCreate, SubmitSpawn, Cleanup, Close, Exit, Restart, handlers
  <2> QED BY <1>1, <2>1 DEF Created
<1>2. CASE submit = "idle"
  <2>1. /\ status = "absent"
        /\ \A r \in Runners : pc[r] = "unused"
        /\ \A h \in Repliers : reply[h] = "idle"
        /\ \A h \in Cancellers : cancel[h] = "idle"
    BY <1>2 DEF Created
  <2>2. SubmitCreate \/ Cleanup \/ Close \/ Exit \/ Restart
    <3>1. ASSUME NEW r \in Runners, RunnerStep(r) \/ Stream(r) \/ Raise(r) PROVE FALSE
      BY <2>1, <3>1, RunnerIsLive DEF Live, PreTry, InTry, OnError, Finalize, PostTry
    <3>2. ASSUME NEW h \in Repliers, ReplyCheck(h) \/ ReplyStep(h) \/ ReplyRaise(h) PROVE FALSE
      BY <2>1, <3>2 DEF ReplyCheck, ReplyStep, ReplyLoad, ReplyResume, ReplyLog, ReplySpawn,
                        ReplyRaise
    <3>3. ASSUME NEW h \in Cancellers, CancelCheck(h) \/ CancelStep(h) \/ CancelRaise(h)
          PROVE  FALSE
      BY <2>1, <3>3, CancelIsBusy DEF CancelCheck
    <3> QED BY <1>2, <3>1, <3>2, <3>3 DEF Next, SubmitSpawn
  <2>3. CASE SubmitCreate
    BY <2>1, <2>3 DEF SubmitCreate, Created, TypeOK
  <2>4. CASE Cleanup \/ Close
    BY <1>2, <2>1, <2>4 DEF Cleanup, Close, Created, core, handlers
  <2>5. CASE Exit
    BY <1>2, <2>1, <2>5 DEF Exit, Created, core
  <2>6. CASE Restart
    BY <1>2, <2>1, <2>6 DEF Restart, Recover, Created, core, runners, handlers
  <2> QED BY <2>2, <2>3, <2>4, <2>5, <2>6
<1> QED BY <1>1, <1>2

LEMMA NextContract ==
  ASSUME Honest, Next
  PROVE  Contract!Next \/ UNCHANGED core
  BY RunnerContract, HandlerContract, RestContract DEF Next

LEMMA HonestStep ==
  ASSUME Honest, TypeOK', [Next]_vars
  PROVE  Honest'
<1>1. CASE UNCHANGED vars
  BY <1>1 DEF vars, core, runners, handlers, world, Honest, TypeOK, Created, AllBacked, Backed,
              StatusIsExplained
<1>2. CASE Next
  <2>1. /\ StatusIsExplained'
        /\ logged \subseteq logged' /\ (charged => charged')
        /\ status # "absent" => status' # "absent"
    BY <1>2, NextContract, ContractKeeps DEF Honest
  <2>2. AllBacked'
    BY <1>2, <2>1, RunnerBacked, OtherBacked DEF Next, Honest
  <2>3. Created'
    BY <1>2, <2>1, CreatedStays DEF Honest
  <2> QED BY <2>1, <2>2, <2>3 DEF Honest
<1> QED BY <1>1, <1>2

(***************************************************************************)
(* The inductive invariant: the task exists before anybody works on it,    *)
(* and whoever is about to write a terminal status has logged its event.   *)
(***************************************************************************)
THEOREM HonestAlways == Spec => []Honest
<1>1. Init /\ TypeOK => Honest
  BY DEF Init, Honest, Created, AllBacked, Backed, StatusIsExplained
<1>2. Honest /\ TypeOK' /\ [Next]_vars => Honest'
  BY HonestStep
<1> QED BY <1>1, <1>2, TypeCorrect, PTL DEF Spec

(***************************************************************************)
(* However runners, replies, cancels, stale writes, failures and restarts  *)
(* interleave, a terminal status is never visible before the event that    *)
(* explains it, nor "succeeded" before the usage record.                   *)
(***************************************************************************)
THEOREM Explained == Spec => []StatusIsExplained
<1>1. Honest => StatusIsExplained
  BY DEF Honest
<1> QED BY <1>1, HonestAlways, PTL

(***************************************************************************)
(* What a client sees of TaskService is what TaskContract promises.        *)
(***************************************************************************)
THEOREM Refines == Spec => ImplementsContract
<1>1. Init => Contract!Init
  BY DEF Init, Contract!Init
<1>2. Honest /\ [Next]_vars => [Contract!Next]_Contract!vars
  <2>1. ASSUME UNCHANGED vars PROVE UNCHANGED Contract!vars
    BY <2>1 DEF vars, core, Contract!vars
  <2> QED BY <2>1, NextContract DEF core, Contract!vars
<1> QED BY <1>1, <1>2, HonestAlways, PTL DEF Spec, ImplementsContract, Contract!Spec

(***************************************************************************)
(* A settled task is closed for good: a late reply and a late cancel only  *)
(* read it, a shutdown and a restart leave it alone.                       *)
(***************************************************************************)
THEOREM SettledForGood == Spec => SettledIsFinal
<1>1. ASSUME Honest, [Next]_vars, Settled
      PROVE  Settled' /\ UNCHANGED <<status, logged, charged>>
  <2> USE DEF core
  <2>1. status \in Terminal /\ Quiet
    BY <1>1 DEF Settled
  <2>2. SUFFICES Quiet' /\ UNCHANGED core
    BY <2>1 DEF Settled
  <2>3. CASE UNCHANGED vars
    BY <2>1, <2>3 DEF vars, Quiet, runners, handlers
  <2>4. CASE SubmitCreate
    BY <1>1, <2>1, <2>4 DEF SubmitCreate, Honest, Created, Terminal
  <2>5. CASE SubmitSpawn
    BY <2>1, <2>5 DEF SubmitSpawn, Quiet
  <2>6. CASE Cleanup \/ Close
    BY <2>1, <2>6 DEF Cleanup, Close, Quiet, handlers
  <2>7. CASE Exit
    <3>1. UNCHANGED core /\ submit' # "spawn"
      BY <2>1, <2>7 DEF Exit, Quiet
    <3>2. \A r \in Runners : pc'[r] \notin Live
      BY <2>7 DEF Exit, Live, PreTry, InTry, OnError, Finalize, PostTry
    <3>3. \A h \in Repliers : reply'[h] \in {"idle", "done"}
      BY <2>7 DEF Exit
    <3>4. \A h \in Cancellers : cancel'[h] \in {"idle", "done"}
      BY <2>7 DEF Exit
    <3> QED BY <3>1, <3>2, <3>3, <3>4 DEF Quiet
  <2>8. CASE Restart
    <3>1. status \notin {"queued", "running"}
      BY <2>1 DEF Terminal
    <3>2. UNCHANGED <<core, runners, handlers>>
      BY <2>8, <3>1 DEF Restart, Recover
    <3> QED BY <2>1, <3>2 DEF Quiet, runners, handlers
  <2>9. ASSUME NEW r \in Runners, RunnerStep(r) \/ Stream(r) \/ Raise(r)
        PROVE  FALSE
    BY <2>1, <2>9, RunnerIsLive DEF Quiet
  <2>10. ASSUME NEW h \in Repliers, ReplyCheck(h) \/ ReplyStep(h) \/ ReplyRaise(h)
         PROVE  Quiet' /\ UNCHANGED core
    <3>1. reply[h] \in {"idle", "done"}
      BY <2>1 DEF Quiet
    <3>2. ReplyCheck(h)
      BY <2>10, <3>1 DEF ReplyStep, ReplyLoad, ReplyResume, ReplyLog, ReplySpawn, ReplyRaise
    <3>3. reply' = [reply EXCEPT ![h] = "done"] /\ UNCHANGED <<core, runners, submit, cancel>>
      BY <2>1, <3>2 DEF ReplyCheck, Terminal
    <3> QED BY <2>1, <3>3 DEF Quiet, runners
  <2>11. ASSUME NEW h \in Cancellers, CancelCheck(h) \/ CancelStep(h) \/ CancelRaise(h)
         PROVE  Quiet' /\ UNCHANGED core
    <3>1. cancel[h] \in {"idle", "done"}
      BY <2>1 DEF Quiet
    <3>2. CancelCheck(h)
      BY <2>11, <3>1, CancelIsBusy
    <3>3. cancel' = [cancel EXCEPT ![h] = "done"] /\ UNCHANGED <<core, runners, submit, reply>>
      BY <2>1, <3>2 DEF CancelCheck, CancelReads
    <3> QED BY <2>1, <3>3 DEF Quiet, runners
  <2> QED BY <1>1, <2>3, <2>4, <2>5, <2>6, <2>7, <2>8, <2>9, <2>10, <2>11 DEF Next
<1>2. ASSUME Honest, [Next]_vars
      PROVE  [Settled => Settled' /\ UNCHANGED <<status, logged, charged>>]_vars
  BY <1>1, <1>2
<1> QED BY <1>2, HonestAlways, PTL DEF Spec, SettledIsFinal

=============================================================================
