------------------------ MODULE TaskOwnershipProofs -------------------------
(***************************************************************************)
(* No task is abandoned: NoOrphan of TaskLifecycle, for any number of      *)
(* repliers, cancellers, runners and mishaps.  It follows from a stronger  *)
(* invariant: while the task still needs a status, some coroutine is bound *)
(* to start a runner or to write one, and that write will not be dropped   *)
(* because the row it loaded already had the value (Working, Deciding).  A *)
(* runner that dies of a cancel leaves this duty to the canceller, which   *)
(* is still awaiting it (KillerWaits).                                     *)
(***************************************************************************)
EXTENDS TaskLifecycleProofs

----------------------------------------------------------------------------
(* The inductive invariant *)

\* A row is loaded only for the write that a coroutine is waiting on.
Fresh ==
  /\ \A r \in Runners : seen[r] # Unread => pc[r] \in StatusCalls
  /\ \A h \in Cancellers : seen[h] # Unread => cancel[h] = "fin_cancel"

\* Nothing outlives its process.
DownIsEmpty ==
  mode = "down" =>
    /\ submit # "spawn"
    /\ \A r \in Runners : pc[r] \in {"unused", "done"} /\ ~kill[r]
    /\ \A h \in Repliers : reply[h] \in {"idle", "done"}
    /\ \A h \in Cancellers : cancel[h] \in {"idle", "done"}

\* While the service is up, whoever cancelled a runner is still awaiting it.
KillerWaits ==
  mode = "up" =>
    \A r \in Runners :
      kill[r] => pc[r] # "done" /\ \E h \in Cancellers : cancel[h] = "await" /\ target[h] = r

\* The status that a runner at label l writes before it leaves the task alone.
LastWord(l) ==
  CASE l = "ask" -> "waiting_for_user"
    [] l = "finish_ok" -> "succeeded"
    [] l = "finish_failed" -> "failed"
    [] l = "fin_cancel" -> "cancelled"
    [] OTHER -> "none"

\* A runner that only drains its stream writes no status any more; one that
\* loaded a row which already had its last word will not write it either.
Working(r) == pc[r] \in Live \ {"log_question", "drain"} /\ seen[r] # LastWord(pc[r])

Deciding(h) == cancel[h] \in {"await", "latest"} \cup Finalize /\ seen[h] # "cancelled"

Responsible ==
  \/ submit = "spawn"
  \/ \E r \in Runners : Working(r)
  \/ \E h \in Repliers : reply[h] \in {"log_answer", "spawn"}
  \/ \E h \in Cancellers : Deciding(h)

Unfinished == mode = "up" /\ ~lost /\ status \in {"queued", "running"}

SomeoneResponsible == Unfinished => Responsible

Owned == Fresh /\ DownIsEmpty /\ KillerWaits /\ SomeoneResponsible

----------------------------------------------------------------------------
(* Which rows are loaded *)

LEMMA RunnerSeen ==
  ASSUME TypeOK, Fresh, NEW r \in Runners, RunnerStep(r) \/ Stream(r) \/ Raise(r)
  PROVE  \/ Load(r)
         \/ seen'[r] = Unread /\ \A x \in Coroutines : x # r => seen'[x] = seen[x]
<1>1. r \in Coroutines
  BY DEF Coroutines
<1>2. CASE UNCHANGED seen /\ pc[r] \notin StatusCalls
  BY <1>2 DEF Fresh
<1>3. CASE seen' = [seen EXCEPT ![r] = Unread]
  BY <1>1, <1>3 DEF TypeOK
<1>4. CASE LogStarted(r) \/ Rejoin(r) \/ LogQuestion(r) \/ LogCompleted(r) \/ Charge(r)
           \/ LogFailed(r) \/ FinGet(r) \/ FinLog(r) \/ Stream(r)
  BY <1>2, <1>4 DEF LogStarted, Rejoin, LogQuestion, LogCompleted, Charge, LogFailed, FinGet,
     FinLog, Stream, StreamQuestion, StreamFailureNotice, StreamEnd, StreamError, LogEvent,
     ReadOnly, StatusCalls
<1>5. CASE MarkStarted(r) \/ Ask(r) \/ FinishOk(r) \/ FinishFailed(r) \/ FinCancel(r) \/ Raise(r)
  BY <1>3, <1>5 DEF MarkStarted, Ask, FinishOk, FinishFailed, FinCancel, Raise, Running, Waiting,
     Ended, Commits
<1> QED BY <1>4, <1>5 DEF RunnerStep

LEMMA ReplySeen ==
  ASSUME TypeOK, NEW h \in Repliers, ReplyCheck(h) \/ ReplyStep(h) \/ ReplyRaise(h)
  PROVE  \A x \in Coroutines : x # h => seen'[x] = seen[x]
  BY DEF TypeOK, ReplyCheck, ReplyStep, ReplyLoad, ReplyResume, ReplyLog, ReplySpawn, ReplyRaise,
         Loads, Running, Commits, LogEvent

LEMMA CancelSeen ==
  ASSUME TypeOK, Fresh, NEW h \in Cancellers, CancelCheck(h) \/ CancelStep(h) \/ CancelRaise(h)
  PROVE  \/ CancelLoad(h)
         \/ seen'[h] = Unread /\ \A x \in Coroutines : x # h => seen'[x] = seen[x]
<1>1. h \in Coroutines
  BY DEF Coroutines
<1>2. CASE UNCHANGED seen /\ cancel[h] # "fin_cancel"
  BY <1>2 DEF Fresh
<1>3. CASE seen' = [seen EXCEPT ![h] = Unread]
  BY <1>1, <1>3 DEF TypeOK
<1>4. CASE \/ CancelCheck(h) \/ CancelLogRequest(h) \/ CancelRequest(h) \/ CancelStop(h)
           \/ CancelAwait(h) \/ CancelLatest(h) \/ CancelFinGet(h) \/ CancelFinLog(h)
  BY <1>2, <1>4 DEF CancelCheck, CancelLogRequest, CancelRequest, CancelStop, CancelAwait,
     CancelLatest, CancelFinGet, CancelFinLog, CancelReads, LogEvent
<1>5. CASE CancelFinCancel(h) \/ CancelRaise(h)
  BY <1>3, <1>5 DEF CancelFinCancel, CancelRaise, Ended, Commits
<1> QED BY <1>4, <1>5 DEF CancelStep

LEMMA FreshStays ==
  ASSUME TypeOK, Fresh, Next
  PROVE  Fresh'
<1> USE DEF Fresh
<1>1. /\ Runners \subseteq Coroutines /\ Repliers \subseteq Coroutines
      /\ Cancellers \subseteq Coroutines
      /\ \A r \in Runners : r \notin Repliers /\ r \notin Cancellers
      /\ \A h \in Repliers : h \notin Cancellers
  BY Distinct DEF Coroutines
<1>2. ASSUME NEW l, SpawnAt(l), UNCHANGED <<seen, cancel>>
      PROVE  Fresh'
  BY <1>2 DEF SpawnAt, TypeOK, StatusCalls
<1>3. ASSUME UNCHANGED <<seen, pc, cancel>>
      PROVE  Fresh'
  BY <1>3
<1>4. CASE SubmitCreate \/ SubmitSpawn \/ Cleanup \/ Close \/ Restart
  BY <1>2, <1>3, <1>4
     DEF SubmitCreate, SubmitSpawn, Cleanup, Close, Restart, Recover, runners, handlers
<1>5. CASE Exit
  BY <1>1, <1>5 DEF Exit
<1>6. ASSUME NEW r \in Runners, RunnerStep(r) \/ Stream(r) \/ Raise(r)
      PROVE  Fresh'
  <2>1. CASE Load(r)
    BY <1>1, <2>1 DEF Load, Loads, runners, handlers, TypeOK
  <2>2. CASE ~Load(r)
    <3>1. seen'[r] = Unread /\ \A x \in Coroutines : x # r => seen'[x] = seen[x]
      BY <1>6, <2>2, RunnerSeen
    <3>2. UNCHANGED cancel /\ \A q \in Runners : q # r => pc'[q] = pc[q]
      BY <1>6, <2>2, RunnerForm DEF Advance, Raise, StreamError, handlers, TypeOK
    <3> QED BY <1>1, <3>1, <3>2
  <2> QED BY <2>1, <2>2
<1>7. ASSUME NEW h \in Repliers, ReplyCheck(h) \/ ReplyStep(h) \/ ReplyRaise(h)
      PROVE  Fresh'
  <2>1. \A x \in Coroutines : x # h => seen'[x] = seen[x]
    BY <1>7, ReplySeen
  <2>2. UNCHANGED cancel
    BY <1>7 DEF ReplyCheck, ReplyStep, ReplyLoad, ReplyResume, ReplyLog, ReplySpawn, ReplyRaise,
                ReplyGoes, handlers
  <2>3. \A r \in Runners : pc'[r] = pc[r] \/ pc[r] = "unused"
    BY <1>7 DEF ReplyCheck, ReplyStep, ReplyLoad, ReplyResume, ReplyLog, ReplySpawn, ReplyRaise,
                runners, SpawnAt, TypeOK
  <2> QED BY <1>1, <2>1, <2>2, <2>3 DEF StatusCalls
<1>8. ASSUME NEW h \in Cancellers, CancelCheck(h) \/ CancelStep(h) \/ CancelRaise(h)
      PROVE  Fresh'
  <2>1. CASE CancelLoad(h)
    BY <1>1, <2>1 DEF CancelLoad, Loads, runners, handlers, TypeOK
  <2>2. CASE ~CancelLoad(h)
    <3>1. seen'[h] = Unread /\ \A x \in Coroutines : x # h => seen'[x] = seen[x]
      BY <1>8, <2>2, CancelSeen
    <3>2. \A g \in Cancellers : g # h => cancel'[g] = cancel[g]
      BY <1>8, <2>2, CancelForm DEF CancelGoes, CancelReads, CancelStop, CancelRaise, TypeOK
    <3>3. UNCHANGED pc
      BY <1>8, <2>2 DEF CancelCheck, CancelRaise, CancelStep, CancelLogRequest, CancelRequest,
         CancelStop, CancelAwait, CancelLatest, CancelFinGet, CancelFinLog, CancelFinCancel,
         CancelReads, runners
    <3> QED BY <1>1, <3>1, <3>2, <3>3
  <2> QED BY <2>1, <2>2
<1> QED BY <1>4, <1>5, <1>6, <1>7, <1>8 DEF Next

----------------------------------------------------------------------------
(* Between two processes *)

LEMMA ModeMoves ==
  ASSUME Next
  PROVE  UNCHANGED mode \/ Close \/ Exit \/ Restart
<1>1. ASSUME NEW r \in Runners, RunnerStep(r) \/ Stream(r) \/ Raise(r)
      PROVE  UNCHANGED mode
  BY <1>1, RunnerForm DEF Advance, Raise, StreamError, Load, world
<1>2. ASSUME NEW h \in Repliers, ReplyCheck(h) \/ ReplyStep(h) \/ ReplyRaise(h)
      PROVE  UNCHANGED mode
  BY <1>2 DEF ReplyCheck, ReplyStep, ReplyLoad, ReplyResume, ReplyLog, ReplySpawn, ReplyRaise,
              ReplyGoes, world
<1>3. ASSUME NEW h \in Cancellers, CancelCheck(h) \/ CancelStep(h) \/ CancelRaise(h)
      PROVE  UNCHANGED mode
  BY <1>3, CancelForm DEF CancelGoes, CancelReads, CancelStop, CancelRaise, CancelLoad, world
<1> QED BY <1>1, <1>2, <1>3 DEF Next, SubmitCreate, SubmitSpawn, Cleanup, world

LEMMA DownStays ==
  ASSUME TypeOK, DownIsEmpty, Next
  PROVE  DownIsEmpty'
<1>1. CASE Exit
  BY <1>1 DEF Exit, DownIsEmpty, TypeOK
<1>2. CASE mode' # "down"
  BY <1>2 DEF DownIsEmpty
<1>3. CASE mode = "down" /\ ~Exit /\ mode' = "down"
  <2>1. /\ submit # "spawn"
        /\ \A r \in Runners : pc[r] \in {"unused", "done"} /\ ~kill[r]
        /\ \A h \in Repliers : reply[h] \in {"idle", "done"}
        /\ \A h \in Cancellers : cancel[h] \in {"idle", "done"}
    BY <1>3 DEF DownIsEmpty
  <2>2. ASSUME NEW r \in Runners, RunnerStep(r) \/ Stream(r) \/ Raise(r)
        PROVE  FALSE
    BY <2>1, <2>2, RunnerIsLive DEF Live, PreTry, InTry, OnError, Finalize, PostTry
  <2>3. ASSUME NEW h \in Repliers, ReplyCheck(h) \/ ReplyStep(h) \/ ReplyRaise(h)
        PROVE  FALSE
    <3>1. reply[h] \in {"idle", "done"}
      BY <2>1
    <3> QED BY <1>3, <2>3, <3>1
       DEF ReplyCheck, ReplyStep, ReplyLoad, ReplyResume, ReplyLog, ReplySpawn, ReplyRaise
  <2>4. ASSUME NEW h \in Cancellers, CancelCheck(h) \/ CancelStep(h) \/ CancelRaise(h)
        PROVE  FALSE
    BY <1>3, <2>1, <2>4, CancelIsBusy DEF CancelCheck
  <2>5. Cleanup
    BY <1>3, <2>1, <2>2, <2>3, <2>4 DEF Next, SubmitCreate, SubmitSpawn, Close, Restart
  <2> QED BY <2>1, <2>5 DEF Cleanup, DownIsEmpty, handlers
<1>4. mode = "down" \/ mode' # "down" \/ Exit
  BY ModeMoves DEF Close, Restart
<1> QED BY <1>1, <1>2, <1>3, <1>4

----------------------------------------------------------------------------
(* Who cancelled a runner awaits it *)

LEMMA KillerStays ==
  ASSUME TypeOK, DownIsEmpty, KillerWaits, Next
  PROVE  KillerWaits'
<1>1. CASE mode' # "up"
  BY <1>1 DEF KillerWaits
<1>2. ASSUME mode = "up", UNCHANGED kill, \A r \in Runners : kill[r] => pc'[r] # "done",
             \A h \in Cancellers :
               cancel[h] = "await" => cancel'[h] = "await" /\ target'[h] = target[h]
      PROVE  KillerWaits'
  BY <1>2 DEF KillerWaits
<1>3. ASSUME NEW l \in {"mark_started", "rejoin"}, SpawnAt(l), mode = "up"
      PROVE  UNCHANGED kill /\ \A r \in Runners : kill[r] => pc'[r] # "done"
  BY <1>3 DEF SpawnAt, KillerWaits, TypeOK
<1>4. ASSUME mode = "up", UNCHANGED <<pc, kill>>
      PROVE  \A r \in Runners : kill[r] => pc'[r] # "done"
  BY <1>4 DEF KillerWaits
<1>5. ASSUME mode = "up", SubmitCreate \/ SubmitSpawn \/ Cleanup PROVE KillerWaits'
  BY <1>2, <1>3, <1>4, <1>5 DEF SubmitCreate, SubmitSpawn, Cleanup, runners, handlers
<1>6. ASSUME mode = "up", Close \/ Exit PROVE KillerWaits'
  BY <1>1, <1>6 DEF Close, Exit
<1>7. CASE Restart
  <2>1. \A r \in Runners : ~kill[r]
    BY <1>7 DEF Restart, DownIsEmpty
  <2>2. UNCHANGED kill
    BY <1>7 DEF Restart, Recover, SpawnAt, runners
  <2> QED BY <2>1, <2>2 DEF KillerWaits
<1>8. ASSUME NEW r \in Runners, RunnerStep(r) \/ Stream(r) \/ Raise(r), mode = "up"
      PROVE  KillerWaits'
  <2>1. CASE StreamError(r)
    <3>1. ~kill[r] /\ UNCHANGED <<kill, cancel, target>>
      BY <2>1 DEF StreamError, handlers
    <3>2. \A q \in Runners : kill[q] => pc'[q] # "done"
      BY <1>8, <2>1 DEF StreamError, KillerWaits, TypeOK
    <3> QED BY <1>2, <1>8, <3>1, <3>2
  <2>2. CASE (\E l : Advance(r, l)) \/ Raise(r)
    <3>1. /\ kill' = [kill EXCEPT ![r] = FALSE]
          /\ \A q \in Runners : q # r => pc'[q] = pc[q]
          /\ UNCHANGED <<cancel, target>>
      BY <2>2 DEF Advance, Raise, handlers, TypeOK
    <3>2. ASSUME NEW q \in Runners, kill'[q]
          PROVE  pc'[q] # "done" /\ \E h \in Cancellers : cancel'[h] = "await" /\ target'[h] = q
      <4>1. q # r /\ kill[q]
        BY <3>1, <3>2 DEF TypeOK
      <4> QED BY <1>8, <3>1, <4>1 DEF KillerWaits
    <3> QED BY <3>2 DEF KillerWaits
  <2>3. CASE Load(r)
    BY <1>2, <1>4, <1>8, <2>3 DEF Load, runners, handlers
  <2> QED BY <1>8, <2>1, <2>2, <2>3, RunnerForm
<1>9. ASSUME NEW h \in Repliers, ReplyCheck(h) \/ ReplyStep(h) \/ ReplyRaise(h), mode = "up"
      PROVE  KillerWaits'
  <2>1. UNCHANGED <<cancel, target>>
    BY <1>9 DEF ReplyCheck, ReplyStep, ReplyLoad, ReplyResume, ReplyLog, ReplySpawn, ReplyRaise,
                ReplyGoes, handlers
  <2>2. UNCHANGED <<pc, kill>> \/ SpawnAt("rejoin")
    BY <1>9 DEF ReplyCheck, ReplyStep, ReplyLoad, ReplyResume, ReplyLog, ReplySpawn, ReplyRaise,
                runners
  <2> QED BY <1>2, <1>3, <1>4, <1>9, <2>1, <2>2
<1>10. ASSUME NEW h \in Cancellers, CancelCheck(h) \/ CancelStep(h) \/ CancelRaise(h), mode = "up"
       PROVE  KillerWaits'
  <2>1. CASE CancelStop(h)
    <3>1. \A g \in Cancellers : g # h => cancel'[g] = cancel[g]
      BY <2>1 DEF CancelStop, TypeOK
    <3>2. cancel'[h] = "await" /\ UNCHANGED <<pc, target>>
      BY <2>1 DEF CancelStop, TypeOK
    <3>3. ASSUME NEW q \in Runners, kill'[q]
          PROVE  pc'[q] # "done" /\ \E g \in Cancellers : cancel'[g] = "await" /\ target'[g] = q
      <4>1. CASE q = target[h]
        BY <2>1, <3>2, <3>3, <4>1 DEF CancelStop, TypeOK
      <4>2. CASE q # target[h]
        <5>1. kill[q]
          BY <2>1, <3>3, <4>2 DEF CancelStop, TypeOK
        <5>2. pc[q] # "done" /\ \E g \in Cancellers : cancel[g] = "await" /\ target[g] = q
          BY <1>10, <5>1 DEF KillerWaits
        <5> QED BY <2>1, <3>1, <3>2, <5>2 DEF CancelStop
      <4> QED BY <4>1, <4>2
    <3> QED BY <3>3 DEF KillerWaits
  <2>2. CASE CancelAwait(h)
    <3>1. /\ UNCHANGED <<pc, kill>> /\ pc[target[h]] = "done"
          /\ \A g \in Cancellers : g # h => cancel'[g] = cancel[g] /\ target'[g] = target[g]
      BY <2>2 DEF CancelAwait, CancelReads, runners, TypeOK
    <3>2. ASSUME NEW q \in Runners, kill'[q]
          PROVE  pc'[q] # "done" /\ \E g \in Cancellers : cancel'[g] = "await" /\ target'[g] = q
      <4>1. pc[q] # "done" /\ \E g \in Cancellers : cancel[g] = "await" /\ target[g] = q
        BY <1>10, <3>1, <3>2 DEF KillerWaits
      <4> QED BY <3>1, <4>1
    <3> QED BY <3>2 DEF KillerWaits
  <2>3. CASE ~CancelStop(h) /\ ~CancelAwait(h)
    <3>1. cancel[h] # "await"
      BY <1>10, <2>3 DEF CancelCheck, CancelRaise, CancelStep, CancelLogRequest, CancelRequest,
         CancelLatest, CancelFinGet, CancelLoad, CancelFinLog, CancelFinCancel
    <3>2. UNCHANGED <<pc, kill>>
      BY <1>10, <2>3 DEF CancelCheck, CancelRaise, CancelStep, CancelLogRequest, CancelRequest,
         CancelLatest, CancelFinGet, CancelLoad, CancelFinLog, CancelFinCancel, CancelReads, runners
    <3>3. \A g \in Cancellers : g # h => target'[g] = target[g]
      BY <1>10, <2>3 DEF CancelCheck, CancelRaise, CancelStep, CancelLogRequest, CancelRequest,
         CancelLatest, CancelFinGet, CancelLoad, CancelFinLog, CancelFinCancel, handlers, TypeOK
    <3>4. \A g \in Cancellers : g # h => cancel'[g] = cancel[g]
      BY <1>10, <2>3, CancelForm
         DEF CancelGoes, CancelReads, CancelRaise, CancelLoad, handlers, TypeOK
    <3> QED BY <1>2, <1>4, <1>10, <3>1, <3>2, <3>3, <3>4
  <2> QED BY <2>1, <2>2, <2>3
<1>11. mode' = "up" => mode = "up" \/ Restart
  BY ModeMoves DEF Close, Exit
<1> QED
  BY <1>1, <1>5, <1>6, <1>7, <1>8, <1>9, <1>10, <1>11 DEF Next

----------------------------------------------------------------------------
(* Somebody is responsible for an unfinished task *)

\* Once a call failed and ended its coroutine, or the service is not up, nothing
\* is owed before the next start.
LEMMA LostOwesNothing ==
  ASSUME Fails(TRUE) \/ mode' # "up"
  PROVE  SomeoneResponsible'
  BY DEF Fails, SomeoneResponsible, Unfinished

\* A coroutine that was not responsible leaves the others so.
LEMMA OthersGoOn ==
  ASSUME SomeoneResponsible, Unfinished' => Unfinished,
         submit = "spawn" => submit' = "spawn",
         \A r \in Runners : Working(r) => pc'[r] = pc[r] /\ seen'[r] = seen[r],
         \A h \in Repliers : reply[h] \in {"log_answer", "spawn"} => reply'[h] = reply[h],
         \A h \in Cancellers : Deciding(h) => cancel'[h] = cancel[h] /\ seen'[h] = seen[h]
  PROVE  SomeoneResponsible'
<1>1. \A r \in Runners : Working(r) => Working(r)'
  BY DEF Working
<1>2. \A h \in Cancellers : Deciding(h) => Deciding(h)'
  BY DEF Deciding
<1> QED BY <1>1, <1>2 DEF SomeoneResponsible, Responsible

\* A runner with nothing loaded works, wherever it is in its code but draining.
LEMMA UnreadWorks ==
  ASSUME NEW r \in Runners, seen'[r] = Unread, pc'[r] \in Live \ {"log_question", "drain"}
  PROVE  SomeoneResponsible'
<1>1. LastWord(pc[r])' # Unread
  BY DEF LastWord, Unread
<1> QED BY <1>1 DEF Working, SomeoneResponsible, Responsible

LEMMA UnreadDecides ==
  ASSUME NEW h \in Cancellers, seen'[h] = Unread,
         cancel'[h] \in {"await", "latest"} \cup Finalize
  PROVE  SomeoneResponsible'
  BY DEF Unread, Deciding, SomeoneResponsible, Responsible

\* A killed runner has its canceller; a failing one goes on to report, or is lost.
LEMMA InterruptedResponsible ==
  ASSUME TypeOK, Fresh, KillerWaits, NEW r \in Runners, UNCHANGED <<handlers, mode>>,
         seen'[r] = Unread, \A h \in Cancellers : seen'[h] = seen[h],
         \/ kill[r]
         \/ pc' = [pc EXCEPT ![r] = OnFault(pc[r])] /\ Fails(OnFault(pc[r]) = "done")
  PROVE  SomeoneResponsible'
<1>1. CASE kill[r]
  <2>1. CASE mode = "up"
    <3>1. PICK h \in Cancellers : cancel[h] = "await"
      BY <1>1, <2>1 DEF KillerWaits
    <3>2. seen'[h] = Unread /\ cancel'[h] = "await"
      BY <3>1 DEF Fresh, handlers
    <3> QED BY <3>2, UnreadDecides
  <2>2. CASE mode # "up"
    BY <2>2, LostOwesNothing
  <2> QED BY <2>1, <2>2
<1>2. CASE pc' = [pc EXCEPT ![r] = OnFault(pc[r])] /\ Fails(OnFault(pc[r]) = "done")
  <2>1. CASE OnFault(pc[r]) = "done"
    BY <1>2, <2>1, LostOwesNothing DEF Fails
  <2>2. CASE OnFault(pc[r]) = "log_failed"
    <3>1. pc'[r] = "log_failed"
      BY <1>2, <2>2 DEF TypeOK
    <3> QED BY <3>1, UnreadWorks DEF Live, OnError
  <2> QED BY <2>1, <2>2 DEF OnFault
<1> QED BY <1>1, <1>2

LEMMA RunnerResponsible ==
  ASSUME TypeOK, Fresh, KillerWaits, SomeoneResponsible, NEW r \in Runners,
         RunnerStep(r) \/ Stream(r) \/ Raise(r)
  PROVE  SomeoneResponsible'
<1>1. CASE Load(r)
  <2>1. seen'[r] = status /\ pc'[r] = pc[r] /\ pc[r] \in StatusCalls /\ UNCHANGED status
    BY <1>1 DEF Load, Loads, core, runners, Coroutines, TypeOK
  <2>2. Unfinished' => Working(r)'
    BY <2>1 DEF Unfinished, Working, LastWord, StatusCalls, Live, PreTry, InTry, OnError, Finalize,
                PostTry
  <2> QED BY <2>2 DEF SomeoneResponsible, Responsible
<1>2. CASE ~Load(r)
  <2>1. /\ seen'[r] = Unread
        /\ \A h \in Cancellers : seen'[h] = seen[h]
        /\ \A q \in Runners : q # r => seen'[q] = seen[q]
    BY <1>2, RunnerSeen, Distinct DEF Coroutines
  <2>2. ASSUME NEW next, Advance(r, next),
               pc' = [pc EXCEPT ![r] = next] /\ NoFailure => SomeoneResponsible'
        PROVE  SomeoneResponsible'
    BY <2>1, <2>2, InterruptedResponsible DEF Advance
  <2>3. ASSUME NEW next \in Live \ {"log_question", "drain"}, Advance(r, next)
        PROVE  SomeoneResponsible'
    <3>1. ASSUME pc' = [pc EXCEPT ![r] = next] PROVE SomeoneResponsible'
      <4>1. pc'[r] = next
        BY <3>1 DEF TypeOK
      <4> QED BY <2>1, <2>3, <4>1, UnreadWorks
    <3> QED BY <2>2, <2>3, <3>1
  <2>4. ASSUME NEW next, Advance(r, next), ~Working(r), UNCHANGED status
        PROVE  SomeoneResponsible'
    <3>1. ASSUME pc' = [pc EXCEPT ![r] = next], NoFailure
          PROVE  SomeoneResponsible'
      <4>1. Unfinished' => Unfinished
        BY <2>4, <3>1 DEF Unfinished, Advance, NoFailure
      <4>2. \A q \in Runners : Working(q) => pc'[q] = pc[q] /\ seen'[q] = seen[q]
        BY <2>1, <2>4, <3>1 DEF TypeOK
      <4>3. UNCHANGED handlers
        BY <2>4 DEF Advance
      <4> QED BY <2>1, <4>1, <4>2, <4>3, OthersGoOn DEF handlers
    <3> QED BY <2>2, <2>4, <3>1
  <2>5. ASSUME ~Unfinished' PROVE SomeoneResponsible'
    BY <2>5 DEF SomeoneResponsible
  <2>6. CASE \/ MarkStarted(r) \/ LogStarted(r) \/ Rejoin(r) \/ LogCompleted(r) \/ Charge(r)
             \/ LogFailed(r) \/ FinLog(r) \/ StreamQuestion(r)
    <3>1. \E next \in Live \ {"log_question", "drain"} : Advance(r, next)
      BY <2>6 DEF MarkStarted, LogStarted, Rejoin, LogCompleted, Charge, LogFailed, FinLog,
         StreamQuestion, Live, PreTry, InTry, OnError, Finalize, PostTry
    <3> QED BY <2>3, <3>1
  <2>7. ASSUME NEW next, NEW s \in {"waiting_for_user"} \cup Terminal, Advance(r, next),
               Commits(r, s), s = LastWord(pc[r])
        PROVE  SomeoneResponsible'
    <3>1. CASE seen[r] = s
      BY <2>4, <2>7, <3>1 DEF Commits, Working
    <3>2. CASE seen[r] # s
      BY <2>5, <2>7, <3>2 DEF Commits, Unfinished, Terminal
    <3> QED BY <3>1, <3>2
  <2>8. CASE Ask(r) \/ FinishOk(r) \/ FinishFailed(r) \/ FinCancel(r)
    BY <2>7, <2>8 DEF Ask, FinishOk, FinishFailed, FinCancel, Waiting, Ended, LastWord, Terminal
  <2>9. CASE FinGet(r)
    <3>1. CASE status = "cancelled"
      BY <2>5, <2>9, <3>1 DEF FinGet, ReadOnly, core, Unfinished
    <3>2. CASE status # "cancelled"
      BY <2>3, <2>9, <3>2 DEF FinGet, Live, Finalize
    <3> QED BY <3>1, <3>2
  <2>10. CASE LogQuestion(r)
    BY <2>4, <2>10 DEF LogQuestion, LogEvent, Working
  <2>11. CASE StreamFailureNotice(r) \/ StreamEnd(r)
    <3>1. CASE pc[r] = "drain"
      <4>1. ~Working(r) /\ UNCHANGED status /\ \E next : Advance(r, next)
        BY <2>11, <3>1 DEF StreamFailureNotice, StreamEnd, LogEvent, ReadOnly, core, Working
      <4> QED BY <2>4, <4>1
    <3>2. CASE pc[r] = "stream"
      <4>1. Advance(r, "stream") \/ Advance(r, "log_completed")
        BY <2>11, <3>2 DEF StreamFailureNotice, StreamEnd
      <4> QED BY <2>3, <4>1 DEF Live, InTry
    <3> QED BY <2>11, <3>1, <3>2 DEF StreamFailureNotice, StreamEnd
  <2>12. CASE StreamError(r)
    <3>1. pc'[r] = "log_failed"
      BY <2>12 DEF StreamError, TypeOK
    <3> QED BY <2>1, <3>1, UnreadWorks DEF Live, OnError
  <2>13. CASE Raise(r)
    BY <2>1, <2>13, InterruptedResponsible DEF Raise
  <2> QED
    BY <1>2, <2>6, <2>8, <2>9, <2>10, <2>11, <2>12, <2>13 DEF RunnerStep, Stream
<1> QED BY <1>1, <1>2

LEMMA ReplyResponsible ==
  ASSUME TypeOK, Fresh, SomeoneResponsible, NEW h \in Repliers,
         ReplyCheck(h) \/ ReplyStep(h) \/ ReplyRaise(h)
  PROVE  SomeoneResponsible'
<1>1. /\ \A r \in Runners : seen'[r] = seen[r]
      /\ \A g \in Cancellers : seen'[g] = seen[g]
  BY ReplySeen, Distinct DEF Coroutines
<1>2. CASE ReplyCheck(h) \/ ReplyLoad(h)
  <2>1. \A g \in Repliers : reply[g] \in {"log_answer", "spawn"} => reply'[g] = reply[g]
    BY <1>2 DEF ReplyCheck, ReplyLoad, handlers, TypeOK
  <2>2. UNCHANGED <<submit, pc, cancel, mode, lost, status>>
    BY <1>2 DEF ReplyCheck, ReplyLoad, core, runners, handlers, world
  <2> QED BY <1>1, <2>1, <2>2, OthersGoOn DEF Unfinished
<1>3. CASE ReplyResume(h) \/ ReplyLog(h)
  <2>1. CASE reply' = [reply EXCEPT ![h] = "log_answer"] \/ reply' = [reply EXCEPT ![h] = "spawn"]
    BY <2>1 DEF SomeoneResponsible, Responsible, TypeOK
  <2> QED BY <1>3, <2>1, LostOwesNothing DEF ReplyResume, ReplyLog, ReplyGoes
<1>4. CASE ReplySpawn(h)
  <2>1. PICK r \in Runners : pc[r] = "unused" /\ pc'[r] = "rejoin"
    BY <1>4 DEF ReplySpawn, SpawnAt, TypeOK
  <2>2. seen'[r] = Unread
    BY <1>1, <2>1 DEF Fresh, StatusCalls
  <2> QED BY <2>1, <2>2, UnreadWorks DEF Live, PreTry
<1>5. CASE ReplyRaise(h)
  BY <1>5, LostOwesNothing DEF ReplyRaise
<1> QED BY <1>2, <1>3, <1>4, <1>5 DEF ReplyStep

LEMMA CancelResponsible ==
  ASSUME TypeOK, Fresh, SomeoneResponsible, NEW h \in Cancellers,
         CancelCheck(h) \/ CancelStep(h) \/ CancelRaise(h)
  PROVE  SomeoneResponsible'
<1>1. CASE CancelLoad(h)
  <2>1. /\ seen'[h] = status /\ cancel'[h] = cancel[h] /\ cancel[h] = "fin_cancel"
        /\ UNCHANGED status
    BY <1>1 DEF CancelLoad, Loads, core, handlers, Coroutines, TypeOK
  <2>2. Unfinished' => Deciding(h)'
    BY <2>1 DEF Unfinished, Deciding, Finalize
  <2> QED BY <2>2 DEF SomeoneResponsible, Responsible
<1>2. CASE ~CancelLoad(h)
  <2>1. /\ seen'[h] = Unread
        /\ \A r \in Runners : seen'[r] = seen[r]
        /\ \A g \in Cancellers : g # h => seen'[g] = seen[g]
    BY <1>2, CancelSeen, Distinct DEF Coroutines
  <2>2. ASSUME ~Deciding(h), UNCHANGED <<submit, pc, reply, mode, lost, status>>,
               \A g \in Cancellers : g # h => cancel'[g] = cancel[g]
        PROVE  SomeoneResponsible'
    BY <2>1, <2>2, OthersGoOn DEF Unfinished
  <2>3. ASSUME NEW l \in {"await", "latest"} \cup Finalize, cancel' = [cancel EXCEPT ![h] = l]
        PROVE  SomeoneResponsible'
    BY <2>1, <2>3, UnreadDecides DEF TypeOK
  <2>4. ASSUME ~Unfinished' PROVE SomeoneResponsible'
    BY <2>4 DEF SomeoneResponsible
  <2>5. CASE CancelCheck(h) \/ CancelRequest(h)
    <3>1. ~Deciding(h)
      BY <2>5 DEF CancelCheck, CancelRequest, Deciding, Finalize
    <3>2. /\ UNCHANGED <<submit, pc, reply, status, mode, lost>>
          /\ \A g \in Cancellers : g # h => cancel'[g] = cancel[g]
      BY <2>5 DEF CancelCheck, CancelRequest, CancelReads, core, runners, world, TypeOK
    <3> QED BY <2>2, <3>1, <3>2
  <2>6. ASSUME NEW l, CancelGoes(h, l), ~Deciding(h), UNCHANGED <<pc, status>>
        PROVE  SomeoneResponsible'
    <3>1. CASE NoFailure /\ cancel' = [cancel EXCEPT ![h] = l]
      BY <2>2, <2>6, <3>1 DEF CancelGoes, NoFailure, TypeOK
    <3> QED BY <2>6, <3>1, LostOwesNothing DEF CancelGoes
  <2>7. CASE CancelLogRequest(h)
    BY <2>6, <2>7 DEF CancelLogRequest, LogEvent, runners, Deciding, Finalize
  <2>8. CASE CancelStop(h)
    BY <2>3, <2>8 DEF CancelStop
  <2>9. CASE CancelAwait(h)
    BY <2>3, <2>9 DEF CancelAwait, CancelReads
  <2>10. CASE CancelLatest(h) \/ CancelFinGet(h)
    <3>1. CASE status = "cancelled"
      BY <2>4, <2>10, <3>1 DEF CancelLatest, CancelFinGet, CancelReads, core, Unfinished
    <3>2. CASE status # "cancelled"
      BY <2>3, <2>10, <3>2 DEF CancelLatest, CancelFinGet, CancelReads, Finalize
    <3> QED BY <2>10, <3>1, <3>2
  <2>11. CASE CancelFinLog(h)
    BY <2>3, <2>11, LostOwesNothing DEF CancelFinLog, CancelGoes, Finalize
  <2>12. CASE CancelFinCancel(h)
    <3>1. CASE seen[h] = "cancelled"
      BY <2>6, <2>12, <3>1 DEF CancelFinCancel, Ended, Commits, runners, Deciding
    <3>2. CASE seen[h] # "cancelled"
      BY <2>4, <2>12, <3>2 DEF CancelFinCancel, Ended, Commits, Unfinished
    <3> QED BY <3>1, <3>2
  <2>13. CASE CancelRaise(h)
    BY <2>13, LostOwesNothing DEF CancelRaise
  <2> QED
    BY <1>2, <2>5, <2>7, <2>8, <2>9, <2>10, <2>11, <2>12, <2>13 DEF CancelStep
<1> QED BY <1>1, <1>2

LEMMA ProcessResponsible ==
  ASSUME TypeOK, Fresh, SomeoneResponsible,
         SubmitCreate \/ SubmitSpawn \/ Cleanup \/ Close \/ Exit \/ Restart
  PROVE  SomeoneResponsible'
<1>1. ASSUME NEW l \in {"mark_started", "rejoin"}, SpawnAt(l), UNCHANGED seen
      PROVE  SomeoneResponsible'
  <2>1. PICK r \in Runners : pc[r] = "unused" /\ pc'[r] = l
    BY <1>1 DEF SpawnAt, TypeOK
  <2>2. seen'[r] = Unread
    BY <1>1, <2>1 DEF Fresh, StatusCalls
  <2> QED BY <2>1, <2>2, UnreadWorks DEF Live, PreTry
<1>2. CASE SubmitCreate
  BY <1>2 DEF SubmitCreate, SomeoneResponsible, Responsible
<1>3. CASE SubmitSpawn
  BY <1>1, <1>3, LostOwesNothing DEF SubmitSpawn
<1>4. CASE Cleanup
  BY <1>4, OthersGoOn DEF Cleanup, core, handlers, world, Unfinished
<1>5. CASE Close \/ Exit
  BY <1>5, LostOwesNothing DEF Close, Exit
<1>6. CASE Restart
  <2>1. CASE Recover /\ status \in {"queued", "running"}
    BY <1>1, <1>6, <2>1 DEF Restart, Recover
  <2>2. CASE status \notin {"queued", "running"}
    BY <1>6, <2>2 DEF Restart, core, SomeoneResponsible, Unfinished
  <2> QED BY <1>6, <2>1, <2>2, LostOwesNothing DEF Restart
<1> QED BY <1>2, <1>3, <1>4, <1>5, <1>6

----------------------------------------------------------------------------
(* The theorems *)

LEMMA OwnedStep ==
  ASSUME TypeOK, Owned, [Next]_vars
  PROVE  Owned'
<1>1. CASE UNCHANGED vars
  BY <1>1 DEF vars, core, runners, handlers, world, Owned, Fresh, DownIsEmpty, KillerWaits,
              SomeoneResponsible, Unfinished, Responsible, Working, Deciding
<1>2. CASE Next
  <2>1. Fresh' /\ DownIsEmpty' /\ KillerWaits'
    BY <1>2, FreshStays, DownStays, KillerStays DEF Owned
  <2>2. SomeoneResponsible'
    BY <1>2, RunnerResponsible, ReplyResponsible, CancelResponsible, ProcessResponsible
       DEF Next, Owned
  <2> QED BY <2>1, <2>2 DEF Owned
<1> QED BY <1>1, <1>2

(***************************************************************************)
(* The inductive invariant: a task that still needs a status has somebody  *)
(* bound to write one, with a write that will take effect.                 *)
(***************************************************************************)
THEOREM OwnedAlways == Spec => []Owned
<1>1. Init => Owned
  BY DEF Init, Owned, Fresh, Coroutines, DownIsEmpty, KillerWaits, SomeoneResponsible, Unfinished
<1>2. TypeOK /\ Owned /\ [Next]_vars => Owned'
  BY OwnedStep
<1> QED BY <1>1, <1>2, TypeCorrect, PTL DEF Spec

(***************************************************************************)
(* While the process is up and no failed call has ended a coroutine, a     *)
(* queued or running task is in the hands of a runner, a reply or a cancel *)
(* that will start a runner or write its status.                           *)
(***************************************************************************)
THEOREM NeverOrphaned == Spec => []NoOrphan
<1>1. Owned => NoOrphan
  BY DEF Owned, SomeoneResponsible, Unfinished, Responsible, Working, Deciding, NoOrphan, InHand
<1> QED BY <1>1, OwnedAlways, PTL

=============================================================================
