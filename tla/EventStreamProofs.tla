--------------------------- MODULE EventStreamProofs ---------------------------
(***************************************************************************)
(* What holds of the event stream whatever the number of publishers,       *)
(* events, drops and failed publications: its types, OrderedOnce,          *)
(* OnlyLateEventsAreMissed and NoGap.                                      *)
(***************************************************************************)
EXTENDS EventStream, TLAPS

----------------------------------------------------------------------------
(* Sequences *)

LEMMA ContainsAppend ==
  ASSUME NEW S, NEW s \in Seq(S), NEW e \in S, NEW x
  PROVE  Contains(Append(s, e), x) <=> Contains(s, x) \/ x = e
<1>1. Contains(s, x) => Contains(Append(s, e), x)
  BY DEF Contains
<1>2. x = e => Contains(Append(s, e), x)
  <2>1. Append(s, e)[Len(s) + 1] = e /\ Len(s) + 1 \in 1 .. Len(Append(s, e))
    OBVIOUS
  <2> QED BY <2>1 DEF Contains
<1>3. Contains(Append(s, e), x) => Contains(s, x) \/ x = e
  BY DEF Contains
<1> QED BY <1>1, <1>2, <1>3

LEMMA ContainsTail ==
  ASSUME NEW S, NEW s \in Seq(S), s # <<>>, NEW x, Contains(s, x), x # Head(s)
  PROVE  Contains(Tail(s), x)
<1>1. PICK i \in 1 .. Len(s) : s[i] = x
  BY DEF Contains
<1>2. i # 1 /\ i - 1 \in 1 .. Len(Tail(s)) /\ Tail(s)[i - 1] = s[i]
  BY <1>1
<1> QED BY <1>1, <1>2 DEF Contains

----------------------------------------------------------------------------
(* Types *)

\* What a step may change of the frames and of the client.
LEMMA DeliverType ==
  ASSUME TypeOK, NEW n \in Seqs, Deliver(n)
  PROVE  frames' \in Seq(Seqs) /\ received' \subseteq Seqs /\ lastId' \in 0 .. MaxSeq
  BY DEF TypeOK, Deliver, Seqs

LEMMA QueueType ==
  ASSUME TypeOK
  PROVE  /\ <<>> \in Seq(0 .. MaxSeq)
         /\ queue # <<>> => Tail(queue) \in Seq(0 .. MaxSeq)
         /\ \A m \in 0 .. MaxSeq : Send(m) => queue' \in Seq(0 .. MaxSeq)
<1>1. queue \in Seq(0 .. MaxSeq)
  BY DEF TypeOK
<1>2. <<>> \in Seq(0 .. MaxSeq)
  OBVIOUS
<1>3. queue # <<>> => Tail(queue) \in Seq(0 .. MaxSeq)
  BY <1>1
<1>4. ASSUME NEW m \in 0 .. MaxSeq, Send(m)
      PROVE  queue' \in Seq(0 .. MaxSeq)
  <2>1. Append(queue, m) \in Seq(0 .. MaxSeq)
    BY <1>1
  <2> QED BY <1>1, <1>4, <2>1 DEF Send
<1> QED BY <1>2, <1>3, <1>4

LEMMA PublisherType ==
  ASSUME TypeOK, NEW p \in Publishers,
         AppendEvent(p) \/ Publish(p) \/ PublishFails(p) \/ EmitProgress(p) \/ Finish(p)
  PROVE  TypeOK'
<1> USE Bounds DEF task, server, client
<1>1. CASE AppendEvent(p)
  BY <1>1 DEF TypeOK, AppendEvent
<1>2. CASE Publish(p)
  <2>1. queue' \in Seq(0 .. MaxSeq)
    <3>1. pending[p] \in 0 .. MaxSeq
      BY DEF TypeOK
    <3> QED BY <1>2, <3>1, QueueType DEF Publish
  <2>2. astray' \subseteq Seqs
    <3>1. pending[p] \in 0 .. MaxSeq /\ astray \subseteq Seqs
      BY DEF TypeOK
    <3>2. Overtaken(p) \subseteq Seqs
      BY <3>1 DEF Overtaken, Seqs
    <3> QED BY <1>2, <3>1, <3>2 DEF Publish
  <2> QED BY <1>2, <2>1, <2>2 DEF TypeOK, Publish
<1>3. CASE PublishFails(p)
  <2>1. astray' \subseteq Seqs
    <3>1. pending[p] \in Seqs /\ astray \subseteq Seqs
      BY <1>3 DEF TypeOK, PublishFails, Seqs
    <3> QED BY <1>3, <3>1 DEF PublishFails
  <2> QED BY <1>3, <2>1 DEF TypeOK, PublishFails
<1>4. CASE EmitProgress(p)
  <2>1. queue' \in Seq(0 .. MaxSeq)
    <3>1. 0 \in 0 .. MaxSeq
      OBVIOUS
    <3> QED BY <1>4, <3>1, QueueType DEF EmitProgress, Progress
  <2> QED BY <1>4, <2>1 DEF TypeOK, EmitProgress
<1>5. CASE Finish(p)
  BY <1>5 DEF TypeOK, Finish
<1> QED BY <1>1, <1>2, <1>3, <1>4, <1>5

LEMMA GeneratorType ==
  ASSUME TypeOK, Connect \/ Generator \/ Disconnect \/ Crash
  PROVE  TypeOK'
<1> USE Bounds DEF task, server, client, Phases, Subscribed
<1>1. CASE Connect
  BY <1>1 DEF TypeOK, Connect
<1>2. CASE Subscribe \/ ReadReplay \/ StartLive \/ Timeout
  BY <1>2 DEF TypeOK, Subscribe, ReadReplay, StartLive, Timeout
<1>3. CASE SendReplay
  <2>1. last_sent + 1 \in Seqs
    BY <1>3 DEF TypeOK, SendReplay, Seqs
  <2>2. frames' \in Seq(Seqs) /\ received' \subseteq Seqs /\ lastId' \in 0 .. MaxSeq
    BY <1>3, <2>1, DeliverType DEF SendReplay
  <2> QED BY <1>3, <2>1, <2>2 DEF TypeOK, SendReplay, Seqs
<1>4. CASE CheckIdle \/ CheckSent
  BY <1>4, QueueType DEF TypeOK, CheckIdle, CheckSent, Closed, Stays
<1>5. CASE Forward
  <2>1. Head(queue) \in Seqs /\ Tail(queue) \in Seq(0 .. MaxSeq)
    BY <1>5 DEF TypeOK, Forward, Seqs
  <2>2. frames' \in Seq(Seqs) /\ received' \subseteq Seqs /\ lastId' \in 0 .. MaxSeq
    BY <1>5, <2>1, DeliverType DEF Forward
  <2> QED BY <1>5, <2>1, <2>2 DEF TypeOK, Forward, Seqs
<1>6. CASE Skip \/ ForwardProgress
  BY <1>6, QueueType DEF TypeOK, Skip, ForwardProgress
<1>7. CASE Disconnect
  BY <1>7, QueueType DEF TypeOK, Disconnect, Closed
<1>8. CASE Crash
  <2>1. pending' \in [Publishers -> 0 .. MaxSeq]
    BY <1>8 DEF Crash
  <2> QED BY <1>8, <2>1, QueueType DEF TypeOK, Crash, Closed
<1> QED BY <1>1, <1>2, <1>3, <1>4, <1>5, <1>6, <1>7, <1>8 DEF Generator

\* Every variable keeps its type.
THEOREM StreamTypes == Spec => []TypeOK
<1>1. Init => TypeOK
  <2> HAVE Init
  <2>1. queue \in Seq(0 .. MaxSeq) /\ frames \in Seq(Seqs) /\ received \subseteq Seqs
    BY DEF Init
  <2>2. pending \in [Publishers -> 0 .. MaxSeq]
    BY Bounds DEF Init
  <2>3. \A n \in Nat : 0 \in 0 .. n
    OBVIOUS
  <2> QED BY <2>1, <2>2, <2>3, Bounds DEF Init, TypeOK, Phases
<1>2. ASSUME TypeOK, [Next]_vars
      PROVE  TypeOK'
  <2>1. CASE UNCHANGED vars
    BY <1>2, <2>1 DEF vars, task, server, client, TypeOK
  <2> QED BY <1>2, <2>1, PublisherType, GeneratorType DEF Next
<1> QED BY <1>1, <1>2, PTL DEF Spec

----------------------------------------------------------------------------
(* What one connection has sent *)

\* Until it is live, the connection has passed over nothing; from then on only
\* over what was committed after it read the log.
Passed ==
  phase # "off" =>
    \A n \in (after + 1) .. last_sent :
      Contains(frames, n) \/ (phase \in Live /\ n > snap)

Sent ==
  /\ \A i \in 1 .. Len(frames) : frames[i] <= last_sent
  /\ phase \in {"subscribe", "read"} => last_sent = after
  /\ phase \in Live => last_sent >= snap
  /\ Passed
  /\ OrderedOnce

\* The steps that send no canonical event.
LEMMA QuietSteps ==
  ASSUME TypeOK, Sent, UNCHANGED <<frames, after, last_sent>>,
         \/ phase' = phase /\ UNCHANGED snap
         \/ phase' = "off"
         \/ phase \in Live /\ phase' \in Live /\ UNCHANGED snap
         \/ phase = "subscribe" /\ phase' = "read"
         \/ phase = "read" /\ phase' = "replay"
         \/ phase = "replay" /\ phase' = "idle" /\ last_sent >= snap /\ UNCHANGED snap
  PROVE  Sent'
<1> USE DEF Live
<1>1. (\A i \in 1 .. Len(frames) : frames[i] <= last_sent)' /\ OrderedOnce'
  BY DEF Sent, OrderedOnce
<1>2. (phase \in {"subscribe", "read"} => last_sent = after)'
  BY DEF Sent
<1>3. (phase \in Live => last_sent >= snap)'
  BY DEF Sent
<1>4. Passed'
  BY DEF Sent, Passed, Contains, TypeOK
<1> QED BY <1>1, <1>2, <1>3, <1>4 DEF Sent

\* A step that sends a canonical event past last_sent.
LEMMA DeliverSteps ==
  ASSUME TypeOK, Sent, NEW n \in Seqs, Deliver(n), last_sent' = n, n > last_sent,
         UNCHANGED <<after, snap>>,
         \/ phase = "replay" /\ phase' = "replay" /\ n = last_sent + 1
         \/ phase \in Live /\ phase' \in Live
  PROVE  Sent'
<1> USE DEF Live
<1>1. frames \in Seq(Seqs) /\ frames' = Append(frames, n) /\ frames' \in Seq(Seqs)
  BY DEF TypeOK, Deliver
<1>2. last_sent \in Nat /\ n \in Nat /\ after \in Nat /\ snap \in Nat
  BY Bounds DEF TypeOK, Seqs
<1>3. (\A i \in 1 .. Len(frames) : frames[i] <= last_sent)'
  <2> SUFFICES ASSUME NEW i \in 1 .. Len(frames')
               PROVE  frames'[i] <= n
    OBVIOUS
  <2>1. CASE i = Len(frames) + 1
    BY <1>1, <1>2, <2>1
  <2>2. CASE i # Len(frames) + 1
    <3>1. i \in 1 .. Len(frames) /\ frames'[i] = frames[i] /\ frames[i] \in Nat
      BY <1>1, <2>2, Bounds DEF Seqs
    <3> QED BY <3>1, <1>2 DEF Sent
  <2> QED BY <2>1, <2>2
<1>4. OrderedOnce'
  <2> SUFFICES ASSUME NEW i \in 1 .. Len(frames'), NEW j \in 1 .. Len(frames'), i < j
               PROVE  frames'[i] < frames'[j]
    BY DEF OrderedOnce
  <2>1. i \in 1 .. Len(frames) /\ frames'[i] = frames[i] /\ frames[i] \in Nat
    BY <1>1, Bounds DEF Seqs
  <2>2. CASE j = Len(frames) + 1
    <3>1. frames'[j] = n /\ frames[i] <= last_sent
      BY <1>1, <2>1, <2>2 DEF Sent
    <3> QED BY <2>1, <3>1, <1>2
  <2>3. CASE j # Len(frames) + 1
    <3>1. j \in 1 .. Len(frames) /\ frames'[j] = frames[j]
      BY <1>1, <2>3
    <3> QED BY <2>1, <3>1 DEF Sent, OrderedOnce
  <2> QED BY <2>2, <2>3
<1>5. Passed'
  <2> SUFFICES ASSUME NEW k \in (after + 1) .. n
               PROVE  Contains(frames', k) \/ (phase' \in Live /\ k > snap)
    BY DEF Passed
  <2>1. CASE k = n
    BY <1>1, <2>1, ContainsAppend
  <2>2. CASE k <= last_sent
    <3>1. Contains(frames, k) \/ (phase \in Live /\ k > snap)
      BY <1>2, <2>2 DEF Sent, Passed
    <3>2. Contains(frames, k) => Contains(frames', k)
      BY <1>1, ContainsAppend
    <3> QED BY <3>1, <3>2
  <2>3. CASE k # n /\ k > last_sent
    BY <1>2, <2>3 DEF Sent
  <2> QED BY <1>2, <2>1, <2>2, <2>3
<1>6. (phase \in Live => last_sent >= snap)'
  BY <1>2 DEF Sent
<1> QED BY <1>3, <1>4, <1>5, <1>6 DEF Sent

LEMMA SentStep ==
  ASSUME TypeOK, Sent, [Next]_vars
  PROVE  Sent'
<1> USE DEF server, client, task
<1>1. CASE UNCHANGED vars
  BY <1>1, QuietSteps DEF vars
<1>2. ASSUME NEW p \in Publishers,
             AppendEvent(p) \/ Publish(p) \/ PublishFails(p) \/ EmitProgress(p) \/ Finish(p)
      PROVE  Sent'
  BY <1>2, QuietSteps DEF AppendEvent, Publish, PublishFails, EmitProgress, Finish
<1>3. CASE Connect
  <2>1. frames' = <<>> /\ last_sent' = after' /\ after' \in Nat /\ phase' = "subscribe"
    BY <1>3, Bounds DEF Connect, TypeOK
  <2>2. Passed'
    <3>1. \A n \in (after' + 1) .. last_sent' : FALSE
      <4>1. \A a \in Nat : \A n \in (a + 1) .. a : FALSE
        OBVIOUS
      <4> QED BY <2>1, <4>1
    <3> QED BY <3>1 DEF Passed
  <2>3. OrderedOnce' /\ (\A i \in 1 .. Len(frames) : frames[i] <= last_sent)'
    BY <2>1 DEF OrderedOnce
  <2> QED BY <2>1, <2>2, <2>3 DEF Sent, Live
<1>4. CASE Subscribe \/ ReadReplay \/ StartLive \/ Timeout
  BY <1>4, QuietSteps DEF Subscribe, ReadReplay, StartLive, Timeout, Live
<1>5. CASE SendReplay
  <2>1. last_sent + 1 \in Seqs /\ last_sent + 1 > last_sent
    BY <1>5, Bounds DEF TypeOK, SendReplay, Seqs
  <2> QED BY <1>5, <2>1, DeliverSteps DEF SendReplay
<1>6. CASE CheckIdle \/ CheckSent
  BY <1>6, QuietSteps DEF CheckIdle, CheckSent, Closed, Stays, Live
<1>7. CASE Forward
  <2>1. Head(queue) \in Seqs
    BY <1>7, Bounds DEF TypeOK, Forward, Seqs
  <2> QED BY <1>7, <2>1, DeliverSteps DEF Forward, Live
<1>8. CASE Skip \/ ForwardProgress
  BY <1>8, QuietSteps DEF Skip, ForwardProgress, Live
<1>9. CASE Disconnect \/ Crash
  BY <1>9, QuietSteps DEF Disconnect, Crash, Closed
<1> QED BY <1>1, <1>2, <1>3, <1>4, <1>5, <1>6, <1>7, <1>8, <1>9 DEF Next, Generator

LEMMA SentAlways == Spec => []Sent
<1>1. Init => Sent
  BY DEF Init, Sent, Passed, OrderedOnce, Live
<1> QED BY <1>1, SentStep, StreamTypes, PTL DEF Spec

(***************************************************************************)
(* The ids on a connection grow strictly, in whatever order any number of  *)
(* publishers publish.                                                     *)
(***************************************************************************)
THEOREM Ordered == Spec => []OrderedOnce
<1>1. Sent => OrderedOnce
  BY DEF Sent
<1> QED BY <1>1, SentAlways, PTL

(***************************************************************************)
(* A connection passes over no event that was in the log when it read it.  *)
(***************************************************************************)
THEOREM OnlyLateMissed == Spec => []OnlyLateEventsAreMissed
<1>1. Sent => OnlyLateEventsAreMissed
  BY DEF Sent, Passed, OnlyLateEventsAreMissed, Live
<1> QED BY <1>1, SentAlways, PTL

----------------------------------------------------------------------------
(* No hole but for what went astray *)

\* A canonical event in the queue behind a greater one has gone astray.
Rising ==
  \A i, j \in 1 .. Len(queue) :
    i < j /\ queue[j] # Progress /\ queue[j] < queue[i] => queue[j] \in astray

\* An event that is still to be published behind a greater one has, too.
Overtakes ==
  \A p \in Publishers, i \in 1 .. Len(queue) :
    pending[p] # 0 /\ pending[p] < queue[i] => pending[p] \in astray

Committed ==
  /\ \A p \in Publishers : pending[p] <= log
  /\ \A i \in 1 .. Len(queue) : queue[i] <= log

\* Where event n is, for a connection that has read the log.
Accounted(n) ==
  \/ \E p \in Publishers : pending[p] = n
  \/ n \in astray
  \/ n <= snap \/ n <= last_sent
  \/ Contains(queue, n)

Channel ==
  /\ Committed /\ Rising /\ Overtakes
  /\ phase \in {"off", "subscribe"} => queue = <<>>
  /\ phase \in {"replay"} \cup Live => \A n \in 1 .. log : Accounted(n)

\* What the connection is past, the client has.
Behind == 1 .. last_sent \subseteq received \cup astray /\ lastId \in received \cup {0}

Whole == Channel /\ NoGap /\ Behind

\* The numbers behind the names.
LEMMA Numbers ==
  ASSUME TypeOK
  PROVE  /\ log \in Nat /\ last_sent \in Nat /\ snap \in Nat
         /\ queue \in Seq(0 .. MaxSeq) /\ Len(queue) \in Nat
         /\ \A i \in 1 .. Len(queue) : queue[i] \in Nat
         /\ \A p \in Publishers : pending[p] \in 0 .. MaxSeq /\ pending[p] \in Nat
         /\ received \subseteq Nat
  BY Bounds DEF TypeOK, Seqs

\* The steps that neither put anything in the queue nor take anything from it.
LEMMA ChannelStays ==
  ASSUME TypeOK, Channel, UNCHANGED <<log, pending, astray>>,
         \/ UNCHANGED <<queue, phase, snap, last_sent>>
         \/ phase = "off" /\ phase' = "subscribe" /\ UNCHANGED queue
         \/ phase' = "off" /\ queue' = <<>>
         \/ phase = "subscribe" /\ phase' = "read" /\ UNCHANGED queue
         \/ phase = "read" /\ phase' = "replay" /\ snap' = log /\ UNCHANGED queue
         \/ phase \in {"replay"} \cup Live /\ phase' \in {"replay"} \cup Live
              /\ last_sent' \in Nat /\ last_sent' >= last_sent /\ UNCHANGED <<queue, snap>>
  PROVE  Channel'
<1> USE DEF Live
<1>1. queue' = queue \/ queue' = <<>>
  OBVIOUS
<1>2. Committed' /\ Rising' /\ Overtakes'
  <2>1. CASE queue' = queue
    BY <2>1 DEF Channel, Committed, Rising, Overtakes
  <2>2. CASE queue' = <<>>
    BY <2>2 DEF Channel, Committed, Rising, Overtakes
  <2> QED BY <1>1, <2>1, <2>2
<1>3. (phase \in {"off", "subscribe"} => queue = <<>>)'
  BY DEF Channel
<1>4. ASSUME phase' \in {"replay"} \cup Live, NEW n \in 1 .. log
      PROVE  Accounted(n)'
  <2>1. CASE phase = "read"
    BY <1>4, <2>1, Numbers DEF Accounted
  <2>2. CASE phase # "read"
    <3>1. Accounted(n)
      BY <1>4, <2>2 DEF Channel
    <3>2. UNCHANGED <<queue, snap>>
          /\ (last_sent' = last_sent \/ (last_sent' \in Nat /\ last_sent' >= last_sent))
      BY <1>4, <2>2
    <3> QED BY <3>1, <3>2, Numbers DEF Accounted
  <2> QED BY <2>1, <2>2
<1> QED BY <1>2, <1>3, <1>4 DEF Channel

\* The steps that take the head of the queue: a repetition, a transient event, or
\* an event past last_sent.
LEMMA ChannelTakes ==
  ASSUME TypeOK, Channel, UNCHANGED <<log, pending, astray, snap>>,
         phase = "wait", phase' \in Live, queue # <<>>, queue' = Tail(queue),
         last_sent' \in Nat, last_sent' >= last_sent,
         Head(queue) = Progress \/ Head(queue) <= last_sent'
  PROVE  Channel'
<1> USE DEF Live
<1>1. Len(queue') = Len(queue) - 1 /\ Head(queue) \in Nat
  BY Numbers
<1>2. ASSUME NEW i \in 1 .. Len(queue')
      PROVE  i + 1 \in 1 .. Len(queue) /\ queue'[i] = queue[i + 1]
  BY <1>1, <1>2, Numbers
<1>3. Committed'
  BY <1>2 DEF Channel, Committed
<1>4. Rising'
  <2> SUFFICES ASSUME NEW i \in 1 .. Len(queue'), NEW j \in 1 .. Len(queue'), i < j,
                      queue'[j] # Progress, queue'[j] < queue'[i]
               PROVE  queue'[j] \in astray
    BY DEF Rising
  <2>1. i + 1 < j + 1
    BY <1>1, Numbers
  <2> QED BY <1>2, <2>1 DEF Channel, Rising
<1>5. Overtakes'
  BY <1>2 DEF Channel, Overtakes
<1>6. ASSUME NEW n \in 1 .. log
      PROVE  Accounted(n)'
  <2>1. Accounted(n)
    BY DEF Channel
  <2>2. CASE Contains(queue, n) /\ n # Head(queue)
    BY <2>2, Numbers, ContainsTail DEF Accounted
  <2>3. CASE n = Head(queue)
    BY <1>1, <2>3, Numbers DEF Progress, Accounted
  <2> QED BY <2>1, <2>2, <2>3, Numbers DEF Accounted
<1> QED BY <1>3, <1>4, <1>5, <1>6 DEF Channel

\* What is put in the queue.
LEMMA Appended ==
  ASSUME TypeOK, NEW m \in 0 .. MaxSeq, queue' = Append(queue, m)
  PROVE  /\ Len(queue') = Len(queue) + 1 /\ queue'[Len(queue) + 1] = m
         /\ \A i \in 1 .. Len(queue') :
              i # Len(queue) + 1 => i \in 1 .. Len(queue) /\ queue'[i] = queue[i]
         /\ \A n : Contains(queue', n) <=> Contains(queue, n) \/ n = m
<1>1. \A n : Contains(queue', n) <=> Contains(queue, n) \/ n = m
  BY Numbers, ContainsAppend
<1> QED BY <1>1, Numbers

\* A canonical event is put in the queue by the publisher that has committed it.
LEMMA ChannelPublish ==
  ASSUME TypeOK, Channel, NEW p \in Publishers, Publish(p), phase \in Subscribed
  PROVE  Channel'
<1> DEFINE m == pending[p]
<1>1. m \in 0 .. MaxSeq /\ m \in Nat /\ m # 0 /\ m <= log
  BY Numbers DEF Publish, Channel, Committed
<1>2. queue' = Append(queue, m) /\ UNCHANGED <<phase, snap, last_sent, log>>
      /\ astray' = astray \cup Overtaken(p) /\ pending' = [pending EXCEPT ![p] = 0]
  BY DEF Publish, Send
<1>3. \A q \in Publishers : pending'[q] = IF q = p THEN 0 ELSE pending[q]
  BY <1>2 DEF TypeOK
<1>4. /\ Len(queue') = Len(queue) + 1 /\ queue'[Len(queue) + 1] = m
      /\ \A i \in 1 .. Len(queue') :
           i # Len(queue) + 1 => i \in 1 .. Len(queue) /\ queue'[i] = queue[i]
      /\ \A n : Contains(queue', n) <=> Contains(queue, n) \/ n = m
  BY <1>1, <1>2, Appended
<1> HIDE DEF m
<1>5. Committed'
  BY <1>1, <1>2, <1>3, <1>4, Numbers DEF Channel, Committed
<1>6. Rising'
  <2> SUFFICES ASSUME NEW i \in 1 .. Len(queue'), NEW j \in 1 .. Len(queue'), i < j,
                      queue'[j] # Progress, queue'[j] < queue'[i]
               PROVE  queue'[j] \in astray'
    BY DEF Rising
  <2>1. i # Len(queue) + 1 /\ i \in 1 .. Len(queue) /\ queue'[i] = queue[i]
    BY <1>4, Numbers
  <2>2. CASE j = Len(queue) + 1
    BY <1>1, <1>2, <1>4, <2>1, <2>2 DEF Channel, Overtakes, m
  <2>3. CASE j # Len(queue) + 1
    BY <1>2, <1>4, <2>1, <2>3 DEF Channel, Rising
  <2> QED BY <2>2, <2>3
<1>7. Overtakes'
  <2> SUFFICES ASSUME NEW q \in Publishers, NEW i \in 1 .. Len(queue'),
                      pending'[q] # 0, pending'[q] < queue'[i]
               PROVE  pending'[q] \in astray'
    BY DEF Overtakes
  <2>1. q # p /\ pending'[q] = pending[q] /\ pending[q] \in Nat
    BY <1>3, Numbers
  <2>2. CASE i = Len(queue) + 1
    <3>1. pending[q] \in 1 .. (m - 1)
      BY <1>1, <1>4, <2>1, <2>2
    <3> QED BY <1>2, <2>1, <3>1 DEF Overtaken, m
  <2>3. CASE i # Len(queue) + 1
    BY <1>2, <1>4, <2>1, <2>3 DEF Channel, Overtakes
  <2> QED BY <2>2, <2>3
<1>8. ASSUME phase \in {"replay"} \cup Live, NEW n \in 1 .. log
      PROVE  Accounted(n)'
  <2>1. Accounted(n)
    BY <1>8 DEF Channel
  <2>2. CASE \E q \in Publishers : pending[q] = n
    <3>1. PICK q \in Publishers : pending[q] = n
      BY <2>2
    <3>2. CASE q = p
      BY <1>4, <3>1, <3>2 DEF Accounted, m
    <3>3. CASE q # p
      BY <1>3, <3>1, <3>3 DEF Accounted
    <3> QED BY <3>2, <3>3
  <2>3. CASE ~ \E q \in Publishers : pending[q] = n
    BY <1>2, <1>4, <2>1, <2>3 DEF Accounted
  <2> QED BY <2>2, <2>3
<1>9. phase' \notin {"off", "subscribe"}
  BY <1>2 DEF Subscribed
<1> QED BY <1>2, <1>5, <1>6, <1>7, <1>8, <1>9 DEF Channel

LEMMA WholePublisher ==
  ASSUME TypeOK, Whole, NEW p \in Publishers,
         AppendEvent(p) \/ Publish(p) \/ PublishFails(p) \/ EmitProgress(p) \/ Finish(p)
  PROVE  Whole'
<1> USE DEF task, server, client
<1>1. astray \subseteq astray' /\ UNCHANGED <<received, lastId, last_sent>>
  BY DEF AppendEvent, Publish, PublishFails, EmitProgress, Finish
<1>2. NoGap' /\ Behind'
  BY <1>1 DEF Whole, NoGap, Behind
<1>3. Channel'
  <2>1. CASE AppendEvent(p)
    <3>1. log' = log + 1 /\ UNCHANGED <<queue, phase, snap, last_sent, astray>>
          /\ \A q \in Publishers : pending'[q] = IF q = p THEN log + 1 ELSE pending[q]
      BY <2>1 DEF AppendEvent, TypeOK
    <3>0. Committed /\ Overtakes /\ log \in Nat
      BY Numbers DEF Whole, Channel
    <3>2. Committed'
      <4>1. \A q \in Publishers : pending'[q] <= log + 1
        BY <3>0, <3>1, Numbers DEF Committed
      <4>2. \A i \in 1 .. Len(queue) : queue[i] <= log + 1
        BY <3>0, Numbers DEF Committed
      <4> QED BY <3>1, <4>1, <4>2 DEF Committed
    <3>3. Rising'
      BY <3>1 DEF Whole, Channel, Rising
    <3>4. Overtakes'
      <4> SUFFICES ASSUME NEW q \in Publishers, NEW i \in 1 .. Len(queue),
                          pending'[q] # 0, pending'[q] < queue[i]
                   PROVE  pending'[q] \in astray
        BY <3>1 DEF Overtakes
      <4>1. queue[i] \in Nat /\ queue[i] <= log
        BY <3>0, Numbers DEF Committed
      <4>2. q # p
        BY <3>0, <3>1, <4>1
      <4> QED BY <3>0, <3>1, <4>2 DEF Overtakes
    <3>5. ASSUME phase \in {"replay"} \cup Live, NEW n \in 1 .. (log + 1)
          PROVE  Accounted(n)'
      <4>1. CASE n = log + 1
        BY <3>1, <4>1 DEF Accounted
      <4>2. CASE n # log + 1
        <5>1. n \in 1 .. log
          BY <4>2, Numbers
        <5>2. Accounted(n)
          BY <3>5, <5>1 DEF Whole, Channel
        <5>3. \A q \in Publishers : pending[q] = n => pending'[q] = n
          BY <2>1, <3>1, <5>1, Numbers DEF AppendEvent
        <5> QED BY <3>1, <5>2, <5>3 DEF Accounted
      <4> QED BY <4>1, <4>2
    <3> QED BY <3>1, <3>2, <3>3, <3>4, <3>5 DEF Whole, Channel
  <2>2. CASE Publish(p)
    <3>1. CASE phase \in Subscribed
      BY <2>2, <3>1, ChannelPublish DEF Whole
    <3>2. CASE phase \notin Subscribed
      <4>1. UNCHANGED <<log, queue, phase>> /\ phase \in {"off", "subscribe"} /\ queue = <<>>
            /\ \A q \in Publishers : pending'[q] = IF q = p THEN 0 ELSE pending[q]
        BY <2>2, <3>2 DEF Publish, Send, TypeOK, Phases, Whole, Channel
      <4>2. Committed' /\ Rising' /\ Overtakes'
        BY <4>1, Numbers DEF Whole, Channel, Committed, Rising, Overtakes
      <4> QED BY <4>1, <4>2 DEF Channel, Live
    <3> QED BY <3>1, <3>2
  <2>3. CASE PublishFails(p)
    <3>1. UNCHANGED <<log, queue, phase, snap, last_sent>>
          /\ astray' = astray \cup {pending[p]}
          /\ \A q \in Publishers : pending'[q] = IF q = p THEN 0 ELSE pending[q]
      BY <2>3 DEF PublishFails, TypeOK
    <3>2. Committed' /\ Rising' /\ Overtakes'
      BY <3>1, Numbers DEF Whole, Channel, Committed, Rising, Overtakes
    <3>3. ASSUME phase \in {"replay"} \cup Live, NEW n \in 1 .. log
          PROVE  Accounted(n)'
      <4>1. Accounted(n)
        BY <3>3 DEF Whole, Channel
      <4>2. CASE \E q \in Publishers : pending[q] = n
        BY <3>1, <4>2 DEF Accounted
      <4> QED BY <3>1, <4>1, <4>2 DEF Accounted
    <3> QED BY <3>1, <3>2, <3>3 DEF Whole, Channel
  <2>4. CASE EmitProgress(p)
    <3>1. UNCHANGED <<log, pending, astray, phase, snap, last_sent>> /\ Send(Progress)
      BY <2>4 DEF EmitProgress
    <3>2. CASE phase \in Subscribed
      <4>1. queue' = Append(queue, Progress) /\ Progress \in 0 .. MaxSeq
        BY <3>1, <3>2, Bounds DEF Send, Progress
      <4>2. /\ Len(queue') = Len(queue) + 1 /\ queue'[Len(queue) + 1] = Progress
            /\ \A i \in 1 .. Len(queue') :
                 i # Len(queue) + 1 => i \in 1 .. Len(queue) /\ queue'[i] = queue[i]
            /\ \A n : Contains(queue', n) <=> Contains(queue, n) \/ n = Progress
        BY <4>1, Appended
      <4>3. Committed'
        BY <3>1, <4>2, Numbers DEF Whole, Channel, Committed, Progress
      <4>4. Rising'
        <5> SUFFICES ASSUME NEW i \in 1 .. Len(queue'), NEW j \in 1 .. Len(queue'), i < j,
                            queue'[j] # Progress, queue'[j] < queue'[i]
                     PROVE  queue'[j] \in astray'
          BY DEF Rising
        <5>1. i # Len(queue) + 1 /\ j # Len(queue) + 1
          BY <4>2, Numbers
        <5> QED BY <3>1, <4>2, <5>1 DEF Whole, Channel, Rising
      <4>5. Overtakes'
        <5> SUFFICES ASSUME NEW q \in Publishers, NEW i \in 1 .. Len(queue'),
                            pending'[q] # 0, pending'[q] < queue'[i]
                     PROVE  pending'[q] \in astray'
          BY DEF Overtakes
        <5>1. i # Len(queue) + 1
          BY <3>1, <4>2, Numbers DEF Progress
        <5> QED BY <3>1, <4>2, <5>1 DEF Whole, Channel, Overtakes
      <4>6. ASSUME phase \in {"replay"} \cup Live, NEW n \in 1 .. log
            PROVE  Accounted(n)'
        <5>1. Accounted(n)
          BY <4>6 DEF Whole, Channel
        <5> QED BY <3>1, <4>2, <5>1 DEF Accounted
      <4>7. phase' \notin {"off", "subscribe"}
        BY <3>1, <3>2 DEF Subscribed
      <4> QED BY <3>1, <4>3, <4>4, <4>5, <4>6, <4>7 DEF Channel
    <3>3. CASE phase \notin Subscribed
      <4>1. UNCHANGED queue
        BY <3>1, <3>3 DEF Send
      <4> QED BY <3>1, <4>1, ChannelStays DEF Whole
    <3> QED BY <3>2, <3>3
  <2>5. CASE Finish(p)
    BY <2>5, ChannelStays DEF Finish, Whole
  <2> QED BY <2>1, <2>2, <2>3, <2>4, <2>5
<1> QED BY <1>2, <1>3 DEF Whole

\* An event that leaves none before it behind.
LEMMA DeliverNext ==
  ASSUME TypeOK, NoGap, Behind, UNCHANGED astray, NEW n \in Nat, n > last_sent,
         \A k \in (last_sent + 1) .. (n - 1) : k \in received \cup astray,
         Deliver(n), last_sent' = n
  PROVE  NoGap' /\ Behind'
<1>1. last_sent \in Nat /\ received \subseteq Nat
  BY Numbers
<1>2. received' = received \cup {n} /\ lastId' = n
  BY DEF Deliver
<1>3. ASSUME NEW k \in 1 .. n
      PROVE  k \in received' \cup astray'
  <2>1. CASE k <= last_sent
    BY <1>1, <1>2, <2>1 DEF Behind
  <2>2. CASE k = n
    BY <1>2, <2>2
  <2>3. CASE k > last_sent /\ k # n
    BY <1>1, <1>2, <2>3
  <2> QED BY <1>1, <2>1, <2>2, <2>3
<1>4. \A k \in received : 1 .. k \subseteq received' \cup astray'
  BY <1>2 DEF NoGap
<1> QED BY <1>2, <1>3, <1>4 DEF NoGap, Behind

LEMMA WholeForward ==
  ASSUME TypeOK, Sent, Whole, Forward
  PROVE  Whole'
<1> DEFINE h == Head(queue)
<1>1. queue # <<>> /\ h = queue[1] /\ 1 \in 1 .. Len(queue) /\ h \in Nat /\ h > last_sent
      /\ phase = "wait"
  BY Numbers DEF Forward
<1>2. UNCHANGED <<log, pending, astray, snap>> /\ last_sent' = h /\ Deliver(h)
      /\ queue' = Tail(queue) /\ phase' = "sent"
  BY DEF Forward, task
<1> HIDE DEF h
<1>3. ASSUME NEW k \in (last_sent + 1) .. (h - 1)
      PROVE  k \in received \cup astray
  <2>1. k \in 1 .. log /\ k < h /\ k # Progress
    BY <1>1, <1>3, Numbers DEF Whole, Channel, Committed, Progress
  <2>2. Accounted(k) /\ last_sent >= snap
    BY <1>1, <2>1 DEF Whole, Channel, Live, Sent
  <2>3. CASE \E p \in Publishers : pending[p] = k
    BY <1>1, <2>1, <2>3 DEF Whole, Channel, Overtakes
  <2>4. CASE Contains(queue, k)
    <3>1. PICK j \in 1 .. Len(queue) : queue[j] = k
      BY <2>4 DEF Contains
    <3>2. 1 < j
      BY <1>1, <2>1, <3>1, Numbers
    <3> QED BY <1>1, <2>1, <3>1, <3>2 DEF Whole, Channel, Rising
  <2> QED BY <1>3, <2>2, <2>3, <2>4, Numbers DEF Accounted
<1>4. NoGap' /\ Behind'
  BY <1>1, <1>2, <1>3, DeliverNext DEF Whole
<1>5. Channel'
  BY <1>1, <1>2, ChannelTakes, Numbers DEF Whole, Live, h
<1> QED BY <1>4, <1>5 DEF Whole

LEMMA WholeGenerator ==
  ASSUME TypeOK, Sent, Whole, Generator \/ Disconnect
  PROVE  Whole'
<1> USE DEF task, server, client
<1>1. ASSUME UNCHANGED <<log, pending, astray, received, lastId, last_sent>>, Channel'
      PROVE  Whole'
  BY <1>1 DEF Whole, NoGap, Behind
<1>2. last_sent \in Nat /\ Channel
  BY Numbers DEF Whole
<1>3. CASE Subscribe \/ ReadReplay \/ StartLive \/ Timeout
  BY <1>1, <1>2, <1>3, ChannelStays DEF Subscribe, ReadReplay, StartLive, Timeout, Live
<1>4. CASE SendReplay
  <2>1. NoGap' /\ Behind'
    <3>1. \A k \in (last_sent + 1) .. ((last_sent + 1) - 1) : FALSE
      BY <1>2
    <3>2. last_sent + 1 \in Nat /\ last_sent + 1 > last_sent
      BY <1>2
    <3> QED BY <1>4, <3>1, <3>2, DeliverNext DEF Whole, SendReplay
  <2>2. Channel'
    BY <1>2, <1>4, ChannelStays DEF SendReplay
  <2> QED BY <2>1, <2>2 DEF Whole
<1>5. CASE CheckIdle \/ CheckSent
  BY <1>1, <1>2, <1>5, ChannelStays DEF CheckIdle, CheckSent, Closed, Stays, Live
<1>6. CASE Forward
  BY <1>6, WholeForward
<1>7. CASE Skip \/ ForwardProgress
  BY <1>1, <1>2, <1>7, ChannelTakes DEF Skip, ForwardProgress, Live
<1>8. CASE Disconnect
  BY <1>1, <1>2, <1>8, ChannelStays DEF Disconnect, Closed
<1> QED BY <1>3, <1>4, <1>5, <1>6, <1>7, <1>8 DEF Generator

LEMMA WholeStep ==
  ASSUME TypeOK, Sent, Whole, [Next]_vars
  PROVE  Whole'
<1> USE DEF task, server, client
<1>1. CASE UNCHANGED vars
  BY <1>1, ChannelStays DEF vars, Whole, NoGap, Behind
<1>2. CASE Connect
  <2>1. last_sent' \in {0, lastId} /\ phase = "off" /\ phase' = "subscribe"
        /\ UNCHANGED <<log, pending, astray, received, lastId, queue>>
    BY <1>2 DEF Connect
  <2>2. Behind' /\ NoGap'
    BY <2>1 DEF Whole, Behind, NoGap
  <2>3. Channel'
    BY <2>1, ChannelStays DEF Whole
  <2> QED BY <2>2, <2>3 DEF Whole
<1>3. CASE Crash
  <2>1. queue' = <<>> /\ phase' = "off" /\ (\A p \in Publishers : pending'[p] = 0)
        /\ UNCHANGED <<log, astray, last_sent, received, lastId>>
    BY <1>3 DEF Crash, Closed
  <2>2. Channel'
    BY <2>1, Numbers DEF Channel, Committed, Rising, Overtakes, Live
  <2> QED BY <2>1, <2>2 DEF Whole, NoGap, Behind
<1> QED BY <1>1, <1>2, <1>3, WholePublisher, WholeGenerator DEF Next

(***************************************************************************)
(* For any number of publishers, events, lost connections, crashes and     *)
(* failed publications, a client lacks no event before one it has, but for *)
(* those published after a later one, or never.                            *)
(***************************************************************************)
THEOREM NoGapAlways == Spec => []NoGap
<1>1. Init => Whole
  BY DEF Init, Whole, Channel, Committed, Rising, Overtakes, Live, NoGap, Behind
<1>2. Whole => NoGap
  BY DEF Whole
<1> QED BY <1>1, <1>2, WholeStep, SentAlways, StreamTypes, PTL DEF Spec

=============================================================================
