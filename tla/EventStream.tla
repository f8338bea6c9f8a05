----------------------------- MODULE EventStream -----------------------------
(***************************************************************************)
(* The events of one task on their way to one client:                      *)
(*   - publishers, the coroutines that call TaskService.record_event (the  *)
(*     runner and the handlers of TaskLifecycle);                          *)
(*   - SessionRuntime.emit_event, which commits a canonical event to       *)
(*     task_events and then, in another awaited call, publishes it on the  *)
(*     task's Redis channel; emit_progress only publishes;                 *)
(*   - event_generator (web/runtime.py), which serves GET .../events: it   *)
(*     subscribes, replays the log after the client's position, and then   *)
(*     forwards what the channel brings;                                   *)
(*   - an EventSource client, which reconnects when its stream ends.       *)
(*                                                                         *)
(* append takes the task's row FOR UPDATE before it reads max(seq), so the *)
(* appends of a task are serialised and the log is 1 .. log.  What is not  *)
(* serialised is the commit of an event and its publication.               *)
(***************************************************************************)
EXTENDS Naturals, Sequences

CONSTANTS
  Publishers,    \* coroutines that record events of the task
  MaxSeq,        \* bound: canonical events
  MaxDrops,      \* bound: connections lost and process crashes
  MaxFailures    \* bound: publications that fail after the commit

ASSUME Bounds == MaxSeq \in Nat /\ MaxDrops \in Nat /\ MaxFailures \in Nat

VARIABLES
  log,        \* the canonical events 1 .. log are committed
  pending,    \* publisher -> the seq it has committed and not yet published
  over,       \* publishers that have nothing more to say
  terminal,   \* task_runs.status is terminal
  queue,      \* what the channel holds for the connection
  phase,      \* the call event_generator waits on; "off": no connection
  after,      \* after_seq of the connection
  last_sent,  \* last_sent of event_generator
  snap,       \* the end of the log when the connection read its replay
  frames,     \* history: the seqs sent on the connection, in order
  received,   \* the seqs the client has, from all its connections
  lastId,     \* the client's Last-Event-ID
  astray,     \* history: events published after a later one, or never
  drops,      \* connections lost and crashes so far
  failures    \* failed publications so far

task == <<log, pending, over, terminal, astray, failures>>
server == <<queue, phase, after, last_sent, snap, frames>>
client == <<received, lastId>>
vars == <<task, server, client, drops>>

Seqs == 1 .. MaxSeq

\* A transient event on the channel; a canonical one is its seq.
Progress == 0

\* Definitions named Mut... are plausible bugs; no action uses them.  A run with
\* one put in the place of the definition that follows must find a violation.

\* Mutant: the log is replayed first and the channel joined afterwards.
MutSubscribed == {"wait", "sent", "idle"}

\* The generator's calls: subscribe, get_events_after, the yields of the replay,
\* get_message, and get_task after a message or after none.
Subscribed == {"read", "replay", "wait", "sent", "idle"}
Live == {"wait", "sent", "idle"}
Phases == {"off", "subscribe"} \cup Subscribed

TypeOK ==
  /\ log \in 0 .. MaxSeq
  /\ pending \in [Publishers -> 0 .. MaxSeq]
  /\ over \subseteq Publishers
  /\ terminal \in BOOLEAN
  /\ astray \subseteq Seqs
  /\ queue \in Seq(0 .. MaxSeq)
  /\ phase \in Phases
  /\ after \in 0 .. MaxSeq /\ last_sent \in 0 .. MaxSeq /\ snap \in 0 .. MaxSeq
  /\ frames \in Seq(Seqs)
  /\ received \subseteq Seqs
  /\ lastId \in 0 .. MaxSeq
  /\ drops \in 0 .. MaxDrops
  /\ failures \in 0 .. MaxFailures

Init ==
  /\ log = 0
  /\ pending = [p \in Publishers |-> 0]
  /\ over = {}
  /\ terminal = FALSE
  /\ astray = {}
  /\ queue = <<>>
  /\ phase = "off"
  /\ after = 0 /\ last_sent = 0 /\ snap = 0
  /\ frames = <<>>
  /\ received = {}
  /\ lastId = 0
  /\ drops = 0
  /\ failures = 0

Contains(s, x) == \E i \in 1 .. Len(s) : s[i] = x

----------------------------------------------------------------------------
(* Publishers *)

\* emit_event, first half: append_event commits.
AppendEvent(p) ==
  /\ p \notin over /\ pending[p] = 0
  /\ log < MaxSeq
  /\ log' = log + 1
  /\ pending' = [pending EXCEPT ![p] = log + 1]
  /\ UNCHANGED <<over, terminal, astray, failures, server, client, drops>>

\* PUBLISH reaches the connections subscribed at that moment.
Send(m) == queue' = IF phase \in Subscribed THEN Append(queue, m) ELSE queue

\* The events that publisher p is about to get ahead of.
Overtaken(p) == {n \in 1 .. (pending[p] - 1) : \E q \in Publishers : pending[q] = n}

\* emit_event, second half
Publish(p) ==
  /\ pending[p] # 0
  /\ Send(pending[p])
  /\ pending' = [pending EXCEPT ![p] = 0]
  /\ astray' = astray \cup Overtaken(p)
  /\ UNCHANGED <<log, over, terminal, failures, phase, after, last_sent, snap, frames, client, drops>>

\* The second half is cancelled or raises: the event stays in the log alone.
PublishFails(p) ==
  /\ pending[p] # 0 /\ failures < MaxFailures
  /\ failures' = failures + 1
  /\ astray' = astray \cup {pending[p]}
  /\ pending' = [pending EXCEPT ![p] = 0]
  /\ UNCHANGED <<log, over, terminal, server, client, drops>>

\* emit_progress; one transient event at a time waits in the channel.
EmitProgress(p) ==
  /\ p \notin over /\ pending[p] = 0
  /\ ~Contains(queue, Progress)
  /\ Send(Progress)
  /\ UNCHANGED <<task, phase, after, last_sent, snap, frames, client, drops>>

\* Its last event out, a runner or a canceller gives the task its last status.
Finish(p) ==
  /\ p \notin over /\ pending[p] = 0 /\ log > 0
  /\ over' = over \cup {p}
  /\ terminal' = TRUE
  /\ UNCHANGED <<log, pending, astray, failures, server, client, drops>>

----------------------------------------------------------------------------
(* event_generator *)

\* yield format_sse(..): a canonical frame carries its seq as id.
Deliver(n) ==
  /\ frames' = Append(frames, n)
  /\ received' = received \cup {n}
  /\ lastId' = n

\* The client opens the stream: with the id of the last frame it got, or with
\* the after_seq of its URL, which wins over that id (parse_after_seq).
Connect ==
  /\ phase = "off"
  /\ \E a \in {0, lastId} : after' = a /\ last_sent' = a
  /\ phase' = "subscribe"
  /\ frames' = <<>>
  /\ snap' = 0
  /\ UNCHANGED <<queue, task, client, drops>>

Subscribe ==
  /\ phase = "subscribe"
  /\ phase' = "read"
  /\ UNCHANGED <<queue, after, last_sent, snap, frames, task, client, drops>>

\* Mutant: a first connection is not replayed.
MutReadReplay ==
  /\ phase = "read"
  /\ snap' = IF after = 0 THEN 0 ELSE log
  /\ phase' = "replay"
  /\ UNCHANGED <<queue, after, last_sent, frames, task, client, drops>>

\* get_events_after: a snapshot of the log.
ReadReplay ==
  /\ phase = "read"
  /\ snap' = log
  /\ phase' = "replay"
  /\ UNCHANGED <<queue, after, last_sent, frames, task, client, drops>>

\* Mutant: the log is read newest first, and the rest taken for repetitions.
MutSendReplay ==
  /\ phase = "replay" /\ last_sent < snap
  /\ last_sent' = snap
  /\ Deliver(snap)
  /\ UNCHANGED <<queue, phase, after, snap, task, drops>>

\* The yields of the replay, in the order of their seqs.
SendReplay ==
  /\ phase = "replay" /\ last_sent < snap
  /\ last_sent' = last_sent + 1
  /\ Deliver(last_sent + 1)
  /\ UNCHANGED <<queue, phase, after, snap, task, drops>>

\* The first get_message takes the confirmation of the subscription, which it
\* was told to ignore: it returns None at once, as if nothing had come.
StartLive ==
  /\ phase = "replay" /\ last_sent >= snap
  /\ phase' = "idle"
  /\ UNCHANGED <<queue, after, last_sent, snap, frames, task, client, drops>>

\* get_message returns None after HEARTBEAT_INTERVAL_SECONDS.
Timeout ==
  /\ phase = "wait" /\ queue = <<>>
  /\ phase' = "idle"
  /\ UNCHANGED <<queue, after, last_sent, snap, frames, task, client, drops>>

\* The generator ends, by itself or with its connection.
Closed == phase' = "off" /\ queue' = <<>> /\ UNCHANGED <<after, last_sent, snap, frames>>
Stays == phase' = "wait" /\ UNCHANGED <<queue, after, last_sent, snap, frames>>

\* Mutant: an idle stream is kept alive without a look at the status.
MutCheckIdle ==
  /\ phase = "idle"
  /\ Stays
  /\ UNCHANGED <<task, client, drops>>

\* Without a message: a terminal status ends the stream, else a keep-alive goes out.
CheckIdle ==
  /\ phase = "idle"
  /\ IF terminal THEN Closed ELSE Stays
  /\ UNCHANGED <<task, client, drops>>

\* After a message the status is read again.
CheckSent ==
  /\ phase = "sent"
  /\ IF terminal THEN Closed ELSE Stays
  /\ UNCHANGED <<task, client, drops>>

\* Mutant: no deduplication by seq.
MutForward ==
  /\ phase = "wait" /\ queue # <<>> /\ Head(queue) # Progress
  /\ last_sent' = Head(queue)
  /\ Deliver(Head(queue))
  /\ queue' = Tail(queue)
  /\ phase' = "sent"
  /\ UNCHANGED <<after, snap, task, drops>>

\* get_message returns a canonical event past last_sent: it is sent on.
Forward ==
  /\ phase = "wait" /\ queue # <<>> /\ Head(queue) > last_sent
  /\ last_sent' = Head(queue)
  /\ Deliver(Head(queue))
  /\ queue' = Tail(queue)
  /\ phase' = "sent"
  /\ UNCHANGED <<after, snap, task, drops>>

\* A canonical event up to last_sent is taken for a repetition.
Skip ==
  /\ phase = "wait" /\ queue # <<>>
  /\ Head(queue) # Progress /\ Head(queue) <= last_sent
  /\ queue' = Tail(queue)
  /\ UNCHANGED <<phase, after, last_sent, snap, frames, task, client, drops>>

\* Mutant: a transient frame is given an id.
MutForwardProgress ==
  /\ phase = "wait" /\ queue # <<>> /\ Head(queue) = Progress
  /\ Deliver(Head(queue))
  /\ queue' = Tail(queue)
  /\ phase' = "sent"
  /\ UNCHANGED <<after, last_sent, snap, task, drops>>

\* A transient event is sent without an id.
ForwardProgress ==
  /\ phase = "wait" /\ queue # <<>> /\ Head(queue) = Progress
  /\ queue' = Tail(queue)
  /\ phase' = "sent"
  /\ UNCHANGED <<after, last_sent, snap, frames, task, client, drops>>

Generator ==
  \/ Subscribe \/ ReadReplay \/ SendReplay \/ StartLive \/ Timeout \/ CheckIdle
  \/ CheckSent \/ Forward \/ Skip \/ ForwardProgress

----------------------------------------------------------------------------
(* Faults *)

\* The client or the network closes the connection, or the generator raises.
Disconnect ==
  /\ phase # "off" /\ drops < MaxDrops
  /\ drops' = drops + 1
  /\ Closed
  /\ UNCHANGED <<task, client>>

\* The process dies with every connection and every unpublished event.
Crash ==
  /\ drops < MaxDrops
  /\ drops' = drops + 1
  /\ pending' = [p \in Publishers |-> 0]
  /\ Closed
  /\ UNCHANGED <<log, over, terminal, astray, failures, client>>

----------------------------------------------------------------------------

Next ==
  \/ \E p \in Publishers :
       AppendEvent(p) \/ Publish(p) \/ PublishFails(p) \/ EmitProgress(p) \/ Finish(p)
  \/ Connect \/ Generator
  \/ Disconnect \/ Crash

Spec == Init /\ [][Next]_vars

(***************************************************************************)
(* The event loop runs the publishers and the generator, get_message has a *)
(* timeout, and an EventSource reconnects when its stream ends.  Nothing   *)
(* obliges a task to record an event or to finish.                         *)
(***************************************************************************)
Fairness ==
  /\ \A p \in Publishers : WF_vars(Publish(p))
  /\ WF_vars(Generator)
  /\ WF_vars(Connect)

FairSpec == Spec /\ Fairness

----------------------------------------------------------------------------
(* Properties *)

(***************************************************************************)
(* On one connection the ids grow strictly, whatever the order in which    *)
(* events are published, and although the replay and the channel overlap.  *)
(***************************************************************************)
OrderedOnce == \A i, j \in 1 .. Len(frames) : i < j => frames[i] < frames[j]

(***************************************************************************)
(* The replay is complete: a connection can pass over only an event that   *)
(* was committed after it read the log (and was published late, or never). *)
(***************************************************************************)
OnlyLateEventsAreMissed ==
  phase \in Live =>
    \A n \in (after + 1) .. last_sent : Contains(frames, n) \/ n > snap

(***************************************************************************)
(* The only holes a client can have are events that were published after a *)
(* later one, or never: none at the seam of replay and channel, none from  *)
(* a reconnect, a crash between commit and publication, or a stream closed *)
(* by a terminal status with messages still queued.                        *)
(***************************************************************************)
NoGap == \A n \in received : 1 .. n \subseteq received \cup astray

(***************************************************************************)
(* With the same exception every committed event reaches the client, even  *)
(* those the stream closes on: the reconnect replays them.                 *)
(***************************************************************************)
Delivered == \A n \in Seqs : (n <= log) ~> (n \in received \cup astray)

(***************************************************************************)
(* The stream of a task that is over ends, with or without traffic, so     *)
(* that no connection outlives its task.                                   *)
(***************************************************************************)
StreamEnds == terminal ~> (phase = "off")

(***************************************************************************)
(* "断线重连后可重放（通过 seq 去重）" (agent/session/protocol.py:66): once a *)
(* connection has replayed the log, and nothing is left to publish or to   *)
(* forward, the client has every event that was in the log, those an       *)
(* earlier connection passed over included.                                *)
(***************************************************************************)
ReconnectCatchesUp ==
  phase \in Live /\ queue = <<>> /\ (\A p \in Publishers : pending[p] = 0)
    => 1 .. snap \subseteq received

=============================================================================
