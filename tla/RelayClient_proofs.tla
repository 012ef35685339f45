--------------------------- MODULE RelayClient_proofs ---------------------------
(****************************************************************************)
(* The transport for any number of sockets, messages and payloads: one      *)
(* usable socket at a time, what the relay forgets was accepted, and a      *)
(* message is applied once as long as no fingerprint has to be dropped.     *)
(****************************************************************************)
EXTENDS RelayClient, FiniteSets, FiniteSetTheorems, SequenceTheorems, TLAPS

\* The connection: what is open, or opening, is what the client sends through,
\* and an attempt that waits for its headers found nothing of the kind.
LinkInv ==
  /\ sock \in [Sockets -> {"unused", "connecting", "open", "closing"}]
  /\ ws \in Sockets \cup {0} /\ dialing \in Sockets \cup {0}
  /\ headers \in BOOLEAN /\ retry \in BOOLEAN /\ intentional \in BOOLEAN
  /\ \A i \in Sockets : /\ sock[i] \in {"connecting", "open"} => ws = i /\ ~headers
                        /\ sock[i] = "connecting" => dialing = i

\* The queues: a timer is armed only while there is a frame to write, and the
\* frames the relay has not read are among those that were sent.
Queues == [controls : Seq(Frames), snapshots : Seq(Frames), inFlight : Frames \cup {None},
           armed : BOOLEAN, closed : BOOLEAN, window : {0, Window}, sent : Nat, received : Nat]

QueueOK(q) ==
  /\ q \in Queues
  /\ q.received <= q.sent
  /\ Len(q.controls) + Len(q.snapshots) <= QueueLimit
  /\ q.armed => q.controls # <<>> \/ q.snapshots # <<>>

\* Frames that acknowledge nothing, or what a consumer accepted.
Settled == {frame \in Frames : \A m \in Messages : frame = AckOf(m) => applied[m] > 0}

\* The frames of a queue.
Held(q) == Elements(q.controls) \cup Elements(q.snapshots)

Orderly(q, unread) ==
  /\ QueueOK(q) /\ unread \in Seq(Frames)
  /\ Len(unread) <= q.sent
  /\ Held(q) \cup Elements(unread) \subseteq Settled

QueueInv ==
  /\ queue \in [Sockets -> Queues] /\ wire \in [Sockets -> Seq(Frames)]
  /\ \A i \in Sockets : Orderly(queue[i], wire[i])

RestInv ==
  /\ job \in [Jobs -> {"new", "pending", "resolved", "rejected"}]
  /\ inbox \in [Sockets -> SUBSET Messages] /\ mailbox \subseteq Messages
  /\ stage \in [Messages -> {"idle", "listening", "accepting"}]
  /\ seen \in Seq(Messages) /\ saved \in Seq(Messages)
  /\ applied \in [Messages -> Nat]
  /\ crashes \in Nat

\* What is recorded, or forgotten by the relay, was accepted.
AckInv ==
  \A m \in Messages :
    /\ m \in Elements(seen) \cup Elements(saved) => applied[m] > 0
    /\ stage[m] = "accepting" => applied[m] > 0
    /\ m \notin mailbox => applied[m] > 0

\* A life of the process applies a message once: until it does, the number of
\* lives before this one bounds how often it was applied.
NoRepeats(s) == IsFiniteSet(Elements(s)) /\ Cardinality(Elements(s)) = Len(s)

OnceInv ==
  /\ NoRepeats(seen) /\ NoRepeats(saved) /\ Elements(saved) \subseteq Elements(seen)
  /\ \A m \in Messages :
       /\ stage[m] # "idle" => m \notin Elements(seen)
       /\ applied[m] <= 1 + crashes
       /\ m \notin Elements(seen) /\ stage[m] # "accepting" => applied[m] <= crashes
-----------------------------------------------------------------------------
LEMMA Limits ==
  /\ MaxSockets \in Nat /\ QueueLimit \in Nat /\ MaxFingerprints \in Nat /\ Window \in Nat /\ Window # 0
  /\ QueueLimit # 0 /\ MaxFingerprints # 0 /\ 0 \notin Sockets /\ Urgent \subseteq Jobs /\ \A i \in Sockets : i # 0 /\ i \in Nat
  BY RelayAssumption DEF Sockets

LEMMA LinkInit == Init => LinkInv
<1> SUFFICES ASSUME Init PROVE LinkInv
  OBVIOUS
<1>1. /\ sock = [i \in Sockets |-> "unused"] /\ ws = 0 /\ dialing = 0
      /\ headers = TRUE /\ retry = FALSE /\ intentional = FALSE
  BY DEF Init
<1>2. sock \in [Sockets -> {"unused", "connecting", "open", "closing"}]
  BY <1>1
<1>3. \A i \in Sockets : sock[i] = "unused"
  BY <1>1
<1>4. QED
  BY <1>1, <1>2, <1>3 DEF LinkInv

\* An attempt begins only where no socket is usable or opening.
LEMMA AttemptAlone ==
  ASSUME LinkInv, ~IsConnected, ~Attempting
  PROVE  \A i \in Sockets : sock[i] \notin {"connecting", "open"}
  BY Limits DEF LinkInv, IsConnected, Attempting

LEMMA LinkNext == LinkInv /\ [Next]_vars => LinkInv'
<1> SUFFICES ASSUME LinkInv, [Next]_vars PROVE LinkInv'
  OBVIOUS
<1>1. CASE UNCHANGED connection
  BY <1>1 DEF connection, attempt, LinkInv
<1>2. CASE Connect
  BY <1>2, AttemptAlone DEF Connect, LinkInv
<1>3. CASE RetryFires
  <2>1. CASE IsConnected \/ Attempting
    BY <1>3, <2>1 DEF RetryFires, LinkInv
  <2>2. CASE ~IsConnected /\ ~Attempting
    BY <1>3, <2>2, AttemptAlone DEF RetryFires, LinkInv
  <2>3. QED
    BY <2>1, <2>2
<1>4. CASE HeadersFail
  BY <1>4 DEF HeadersFail, Reconnect, LinkInv
<1>5. CASE Close
  BY <1>5, Limits DEF Close, attempt, LinkInv
<1>6. CASE Crash
  BY <1>6, Limits DEF Crash, LinkInv
<1>7. ASSUME NEW i \in Sockets, CreateSocket(i)
      PROVE  LinkInv'
  BY <1>7, Limits DEF CreateSocket, LinkInv
<1>8. ASSUME NEW i \in Sockets, Open(i)
      PROVE  LinkInv'
  BY <1>8, Limits DEF Open, LinkInv
<1>9. ASSUME NEW i \in Sockets, Lose(i)
      PROVE  LinkInv'
  <2>1. /\ sock' = [sock EXCEPT ![i] = "closing"] /\ ws' = ws /\ headers' = headers /\ intentional' = intentional
        /\ dialing' = dialing \/ (sock[i] = "connecting" /\ dialing' = 0)
        /\ retry' = retry \/ retry' = (retry \/ ~intentional)
    BY <1>9 DEF Lose, Reconnect
  <2>2. QED
    BY <2>1, Limits DEF LinkInv
<1>10. ASSUME NEW i \in Sockets, Closed(i)
       PROVE  LinkInv'
  <2>1. /\ sock' = [sock EXCEPT ![i] = "unused"] /\ headers' = headers /\ intentional' = intentional
        /\ ws' = IF ws = i THEN 0 ELSE ws
        /\ dialing' = IF dialing = i THEN 0 ELSE dialing
        /\ retry' = (retry \/ ~intentional)
    BY <1>10 DEF Closed, Reconnect
  <2>2. QED
    BY <2>1, Limits DEF LinkInv
<1>11. QED
  BY <1>1, <1>2, <1>3, <1>4, <1>5, <1>6, <1>7, <1>8, <1>9, <1>10
     DEF Next, Transport, Pump, Written, Capabilities, RelayReads, Ingress, Deliver, Receive, Apply, Decline, Accept,
         Send, connection, vars
-----------------------------------------------------------------------------
(* Sequences and queues *)

LEMMA ElementsAppend ==
  ASSUME NEW S, NEW s \in Seq(S), NEW x \in S
  PROVE  /\ Append(s, x) \in Seq(S) /\ Len(Append(s, x)) = Len(s) + 1 /\ Len(s) \in Nat /\ Append(s, x) # <<>>
         /\ Elements(Append(s, x)) = Elements(s) \cup {x}
<1>1. /\ Append(s, x) \in Seq(S) /\ Len(Append(s, x)) = Len(s) + 1 /\ Len(s) \in Nat
      /\ \A k \in 1..Len(s) : Append(s, x)[k] = s[k]
      /\ Append(s, x)[Len(s) + 1] = x
      /\ DOMAIN s = 1..Len(s) /\ DOMAIN Append(s, x) = 1..Len(s) + 1
  BY AppendProperties, LenProperties
<1>2. Append(s, x) # <<>>
  BY <1>1, EmptySeq
<1>3. QED
  BY <1>1, <1>2 DEF Elements

LEMMA ElementsTail ==
  ASSUME NEW S, NEW s \in Seq(S), s # <<>>
  PROVE  /\ Tail(s) \in Seq(S) /\ Len(Tail(s)) = Len(s) - 1 /\ Len(s) \in Nat /\ Len(s) # 0
         /\ Elements(Tail(s)) \subseteq Elements(s)
         /\ Head(s) \in S /\ Head(s) \in Elements(s)
<1>1. /\ Tail(s) \in Seq(S) /\ Len(Tail(s)) = Len(s) - 1 /\ \A k \in 1..Len(Tail(s)) : Tail(s)[k] = s[k + 1]
      /\ Len(s) \in Nat /\ Len(s) # 0 /\ DOMAIN s = 1..Len(s) /\ DOMAIN Tail(s) = 1..Len(Tail(s))
      /\ Head(s) = s[1]
  BY HeadTailProperties, LenProperties, EmptySeq
<1>2. 1 \in DOMAIN s /\ \A k \in 1..Len(Tail(s)) : k + 1 \in DOMAIN s
  BY <1>1
<1>3. QED
  BY <1>1, <1>2, ElementOfSeq DEF Elements

LEMMA ElementsEmpty == Elements(<<>>) = {}
  BY DEF Elements

\* What comes first of two sequences is the head of the first, if it has one.
LEMMA HeadOfBoth ==
  ASSUME NEW S, NEW s \in Seq(S), NEW t \in Seq(S)
  PROVE  /\ s # <<>> => Head(s \o t) = Head(s)
         /\ s = <<>> => s \o t = t
         /\ s \o t # <<>> <=> s # <<>> \/ t # <<>>
<1>1. /\ s \o t \in Seq(S) /\ Len(s \o t) = Len(s) + Len(t) /\ Len(s) \in Nat /\ Len(t) \in Nat
      /\ \A k \in 1..Len(s) : (s \o t)[k] = s[k]
  BY ConcatProperties, LenProperties
<1>2. (s = <<>> <=> Len(s) = 0) /\ (t = <<>> <=> Len(t) = 0) /\ (s \o t = <<>> <=> Len(s \o t) = 0)
  BY <1>1, EmptySeq
<1>3. s # <<>> => Head(s \o t) = Head(s)
  <2> SUFFICES ASSUME s # <<>> PROVE Head(s \o t) = Head(s)
    OBVIOUS
  <2>1. 1 \in 1..Len(s) /\ s \o t # <<>>
    BY <1>1, <1>2
  <2>2. Head(s \o t) = (s \o t)[1] /\ Head(s) = s[1]
    BY <1>1, <2>1, HeadTailProperties
  <2>3. QED
    BY <1>1, <2>1, <2>2
<1>4. s = <<>> => s \o t = t
  BY ConcatEmptySeq
<1>5. QED
  BY <1>1, <1>2, <1>3, <1>4

LEMMA Fields ==
  ASSUME NEW q \in Queues
  PROVE  /\ q.controls \in Seq(Frames) /\ q.snapshots \in Seq(Frames) /\ q.inFlight \in Frames \cup {None}
         /\ q.armed \in BOOLEAN /\ q.closed \in BOOLEAN /\ q.window \in {0, Window} /\ q.sent \in Nat /\ q.received \in Nat
         /\ Len(q.controls) \in Nat /\ Len(q.snapshots) \in Nat
  BY LenProperties DEF Queues

LEMMA Scheduled ==
  ASSUME NEW q, QueueOK(q)
  PROVE  QueueOK(Schedule(q)) /\ Schedule(q).sent = q.sent /\ Held(Schedule(q)) = Held(q)
<1>1. q \in Queues /\ q.controls \in Seq(Frames) /\ q.snapshots \in Seq(Frames)
  BY Fields DEF QueueOK
<1>2. PICK armed \in BOOLEAN : /\ Schedule(q) = [q EXCEPT !.armed = armed]
                               /\ armed => q.armed \/ q.controls \o q.snapshots # <<>>
  BY <1>1 DEF Schedule, Queues
<1>3. /\ Schedule(q) \in Queues /\ Schedule(q).controls = q.controls /\ Schedule(q).snapshots = q.snapshots
      /\ Schedule(q).armed = armed /\ Schedule(q).sent = q.sent /\ Schedule(q).received = q.received
  BY <1>1, <1>2 DEF Queues
<1>4. armed => q.controls # <<>> \/ q.snapshots # <<>>
  BY <1>1, <1>2, HeadOfBoth DEF QueueOK
<1>5. QED
  BY <1>3, <1>4 DEF QueueOK, Held

LEMMA Enqueued ==
  ASSUME NEW q, QueueOK(q), NEW frame \in Frames, NEW urgent
  PROVE  /\ QueueOK(Enqueue(q, frame, urgent)) /\ Enqueue(q, frame, urgent).sent = q.sent
         /\ Held(Enqueue(q, frame, urgent)) \subseteq Held(q) \cup {frame}
<1>1. CASE q.closed \/ Full(q)
  BY <1>1 DEF Enqueue
<1>2. CASE ~(q.closed \/ Full(q))
  <2>1. /\ q \in Queues /\ q.controls \in Seq(Frames) /\ q.snapshots \in Seq(Frames)
        /\ Len(q.controls) + Len(q.snapshots) < QueueLimit /\ QueueLimit \in Nat
        /\ Len(q.controls) \in Nat /\ Len(q.snapshots) \in Nat
    <3>1. q \in Queues
      BY DEF QueueOK
    <3>2. /\ q.controls \in Seq(Frames) /\ q.snapshots \in Seq(Frames)
          /\ Len(q.controls) \in Nat /\ Len(q.snapshots) \in Nat /\ QueueLimit \in Nat
      BY <3>1, Fields, Limits
    <3>3. PICK a \in Nat, b \in Nat : a = Len(q.controls) /\ b = Len(q.snapshots)
      BY <3>2
    <3>4. ~(a + b >= QueueLimit)
      BY <1>2, <3>3 DEF Full
    <3>5. a + b < QueueLimit
      BY <3>2, <3>4
    <3>6. QED
      BY <3>1, <3>2, <3>3, <3>5
  <2>2. PICK longer : longer = IF urgent THEN [q EXCEPT !.controls = Append(@, frame)]
                                         ELSE [q EXCEPT !.snapshots = Append(@, frame)]
    OBVIOUS
  <2>3. Enqueue(q, frame, urgent) = Schedule(longer)
    BY <1>2, <2>2 DEF Enqueue
  <2>4. /\ Append(q.controls, frame) \in Seq(Frames) /\ Append(q.snapshots, frame) \in Seq(Frames)
        /\ Append(q.controls, frame) # <<>> /\ Append(q.snapshots, frame) # <<>>
        /\ Len(Append(q.controls, frame)) = Len(q.controls) + 1 /\ Len(Append(q.snapshots, frame)) = Len(q.snapshots) + 1
        /\ Elements(Append(q.controls, frame)) = Elements(q.controls) \cup {frame}
        /\ Elements(Append(q.snapshots, frame)) = Elements(q.snapshots) \cup {frame}
    BY <2>1, ElementsAppend
  <2>5. /\ longer \in Queues /\ longer.sent = q.sent /\ longer.received = q.received
        /\ \/ longer.controls = Append(q.controls, frame) /\ longer.snapshots = q.snapshots
           \/ longer.controls = q.controls /\ longer.snapshots = Append(q.snapshots, frame)
    BY <2>1, <2>2, <2>4 DEF Queues
  <2>6. longer.controls # <<>> \/ longer.snapshots # <<>>
    BY <2>4, <2>5
  <2>7. Len(longer.controls) + Len(longer.snapshots) <= QueueLimit
    <3>1. \/ Len(longer.controls) = Len(q.controls) + 1 /\ Len(longer.snapshots) = Len(q.snapshots)
          \/ Len(longer.controls) = Len(q.controls) /\ Len(longer.snapshots) = Len(q.snapshots) + 1
      BY <2>4, <2>5
    <3>2. PICK a \in Nat, b \in Nat : a = Len(q.controls) /\ b = Len(q.snapshots)
      BY <2>1
    <3>3. a + b < QueueLimit /\ QueueLimit \in Nat
      BY <2>1, <3>2
    <3>4. a + 1 + b <= QueueLimit /\ a + (b + 1) <= QueueLimit
      BY <3>3
    <3>5. QED
      BY <3>1, <3>2, <3>4
  <2>8. QueueOK(longer) /\ Held(longer) = Held(q) \cup {frame}
    BY <2>4, <2>5, <2>6, <2>7 DEF QueueOK, Held
  <2>9. QED
    BY <2>3, <2>5, <2>8, Scheduled
<1>3. QED
  BY <1>1, <1>2

LEMMA FreshQueue ==
  /\ QueueOK(NewQueue) /\ Held(NewQueue) = {} /\ NewQueue.sent = 0
  /\ QueueOK(Cancelled) /\ Held(Cancelled) = {} /\ Cancelled.sent = 0
<1>1. <<>> \in Seq(Frames) /\ Len(<<>>) = 0
  BY EmptySeq
<1>2. NewQueue \in Queues /\ Cancelled \in Queues
  BY <1>1 DEF NewQueue, Cancelled, Queues
<1>3. QED
  BY <1>1, <1>2, Limits, ElementsEmpty DEF NewQueue, Cancelled, QueueOK, Held

LEMMA AllFrames ==
  /\ Hello \in Frames /\ \A j \in Jobs : JobFrame(j) \in Frames /\ \A m \in Messages : AckOf(m) # JobFrame(j)
  /\ \A m \in Messages : AckOf(m) \in Frames /\ AckOf(m) # Hello
  /\ \A frame \in Frames, m \in Messages : frame.kind = "ack" /\ frame.of = m => frame = AckOf(m)
  BY DEF Hello, JobFrame, AckOf, Frames
-----------------------------------------------------------------------------
(* What a step does to one queue *)

\* The queues and what the relay has not read, after a step that accepts nothing.
Kept ==
  /\ queue' \in [Sockets -> Queues] /\ wire' \in [Sockets -> Seq(Frames)]
  /\ \A i \in Sockets : Orderly(queue'[i], wire'[i])

LEMMA OneQueue ==
  ASSUME QueueInv, NEW i \in Sockets, NEW q, NEW unread, Orderly(q, unread), queue' = [queue EXCEPT ![i] = q],
         wire' = [wire EXCEPT ![i] = unread] \/ (wire' = wire /\ unread = wire[i])
  PROVE  Kept
<1>1. q \in Queues /\ unread \in Seq(Frames)
  BY DEF Orderly, QueueOK
<1>2. queue \in [Sockets -> Queues] /\ wire \in [Sockets -> Seq(Frames)]
  BY DEF QueueInv
<1>3. /\ queue' \in [Sockets -> Queues] /\ wire' \in [Sockets -> Seq(Frames)]
      /\ queue'[i] = q /\ wire'[i] = unread
      /\ \A k \in Sockets : k # i => queue'[k] = queue[k] /\ wire'[k] = wire[k]
  BY <1>1, <1>2
<1>4. ASSUME NEW k \in Sockets
      PROVE  Orderly(queue'[k], wire'[k])
  BY <1>3 DEF QueueInv
<1>5. QED
  BY <1>3, <1>4 DEF Kept

LEMMA QueueFacts ==
  ASSUME QueueInv, NEW i \in Sockets
  PROVE  /\ Orderly(queue[i], wire[i]) /\ QueueOK(queue[i]) /\ queue[i] \in Queues
         /\ wire[i] \in Seq(Frames) /\ Len(wire[i]) \in Nat /\ Len(wire[i]) <= queue[i].sent
  BY LenProperties DEF QueueInv, Orderly, QueueOK

\* Rescheduling leaves a queue in order.
LEMMA OrderlyScheduled ==
  ASSUME NEW q, NEW unread, Orderly(q, unread)
  PROVE  Orderly(Schedule(q), unread)
  BY Scheduled DEF Orderly

LEMMA OrderlyEnqueued ==
  ASSUME NEW q, NEW unread, Orderly(q, unread), NEW frame \in Settled, NEW urgent
  PROVE  Orderly(Enqueue(q, frame, urgent), unread)
<1>1. frame \in Frames /\ QueueOK(q)
  BY DEF Settled, Orderly
<1>2. QED
  BY <1>1, Enqueued DEF Orderly

LEMMA OrderlyFresh ==
  Orderly(NewQueue, <<>>) /\ Orderly(Cancelled, <<>>)
<1>1. <<>> \in Seq(Frames) /\ Len(<<>>) = 0
  BY EmptySeq
<1>2. QED
  BY <1>1, FreshQueue, ElementsEmpty DEF Orderly

\* The next frame goes from the queue to the relay, if the socket takes it.
LEMMA KeptPump ==
  ASSUME QueueInv, NEW i \in Sockets, Pump(i)
  PROVE  Kept
<1>1. PICK q \in Queues : q = queue[i]
  BY QueueFacts
<1>2. /\ q.controls \in Seq(Frames) /\ q.snapshots \in Seq(Frames) /\ q.sent \in Nat /\ q.received \in Nat
      /\ q.received <= q.sent /\ (q.controls # <<>> \/ q.snapshots # <<>>)
      /\ Orderly(q, wire[i]) /\ wire[i] \in Seq(Frames) /\ Len(wire[i]) \in Nat /\ Len(wire[i]) <= q.sent
  BY <1>1, QueueFacts, Fields DEF Pump, QueueOK
<1>3. CASE ~HasCredit(q)
  <2>1. PICK rest : rest = [q EXCEPT !.armed = FALSE]
    OBVIOUS
  <2>2. queue' = [queue EXCEPT ![i] = rest] /\ wire' = wire
    BY <1>1, <1>3, <2>1 DEF Pump, QueueInv
  <2>3. /\ rest \in Queues /\ rest.controls = q.controls /\ rest.snapshots = q.snapshots /\ rest.armed = FALSE
        /\ rest.sent = q.sent /\ rest.received = q.received
    BY <2>1 DEF Queues
  <2>4. Orderly(rest, wire[i])
    BY <1>2, <2>3 DEF Orderly, QueueOK, Held
  <2>5. QED
    BY <2>2, <2>4, OneQueue
<1>4. CASE HasCredit(q)
  <2>1. PICK frame : frame = Head(q.controls \o q.snapshots)
    OBVIOUS
  <2>2. PICK controls, snapshots : /\ controls = IF q.controls = <<>> THEN q.controls ELSE Tail(q.controls)
                                   /\ snapshots = IF q.controls = <<>> THEN Tail(q.snapshots) ELSE q.snapshots
    OBVIOUS
  <2>3. PICK rest : rest = [q EXCEPT !.armed = FALSE, !.inFlight = frame, !.sent = @ + 1,
                                     !.controls = controls, !.snapshots = snapshots]
    OBVIOUS
  <2>4. /\ queue' = [queue EXCEPT ![i] = rest]
        /\ wire' = IF sock[i] = "open" THEN [wire EXCEPT ![i] = Append(@, frame)] ELSE wire
    BY <1>1, <1>4, <2>1, <2>2, <2>3 DEF Pump
  <2>5. /\ controls \in Seq(Frames) /\ snapshots \in Seq(Frames) /\ frame \in Frames /\ frame \in Held(q)
        /\ Elements(controls) \cup Elements(snapshots) \subseteq Held(q)
        /\ Len(controls) + Len(snapshots) <= QueueLimit
    <3>1. PICK a \in Nat, b \in Nat : a = Len(q.controls) /\ b = Len(q.snapshots)
      BY <1>2, LenProperties
    <3>2. a + b <= QueueLimit /\ QueueLimit \in Nat
      BY <1>2, <3>1, Limits DEF Orderly, QueueOK
    <3>3. CASE q.controls = <<>>
      <4>1. controls = q.controls /\ snapshots = Tail(q.snapshots) /\ frame = Head(q.snapshots) /\ q.snapshots # <<>>
        BY <1>2, <2>1, <2>2, <3>3, HeadOfBoth
      <4>2. /\ snapshots \in Seq(Frames) /\ Len(snapshots) = b - 1 /\ b # 0
            /\ Elements(snapshots) \subseteq Elements(q.snapshots) /\ frame \in Frames /\ frame \in Elements(q.snapshots)
        BY <1>2, <3>1, <4>1, ElementsTail
      <4>3. a + (b - 1) <= QueueLimit
        BY <3>2
      <4>4. QED
        BY <1>2, <3>1, <4>1, <4>2, <4>3 DEF Held
    <3>4. CASE q.controls # <<>>
      <4>1. controls = Tail(q.controls) /\ snapshots = q.snapshots /\ frame = Head(q.controls)
        BY <1>2, <2>1, <2>2, <3>4, HeadOfBoth
      <4>2. /\ controls \in Seq(Frames) /\ Len(controls) = a - 1 /\ a # 0
            /\ Elements(controls) \subseteq Elements(q.controls) /\ frame \in Frames /\ frame \in Elements(q.controls)
        BY <1>2, <3>1, <3>4, <4>1, ElementsTail
      <4>3. (a - 1) + b <= QueueLimit
        BY <3>2
      <4>4. QED
        BY <1>2, <3>1, <4>1, <4>2, <4>3 DEF Held
    <3>5. QED
      BY <3>3, <3>4
  <2>6. /\ rest \in Queues /\ rest.controls = controls /\ rest.snapshots = snapshots /\ rest.armed = FALSE
        /\ rest.sent = q.sent + 1 /\ rest.received = q.received
    <3>1. PICK sent \in Nat : sent = q.sent + 1
      BY <1>2
    <3>2. controls \in Seq(Frames) /\ snapshots \in Seq(Frames) /\ frame \in Frames
      BY <2>5
    <3>3. rest = [q EXCEPT !.armed = FALSE, !.inFlight = frame, !.sent = sent,
                           !.controls = controls, !.snapshots = snapshots]
      BY <2>3, <3>1
    <3>4. QED
      BY <3>1, <3>2, <3>3 DEF Queues
  <2>7. QueueOK(rest) /\ Held(rest) \subseteq Held(q)
    <3>1. rest.received <= rest.sent
      BY <1>2, <2>6
    <3>2. Len(rest.controls) + Len(rest.snapshots) <= QueueLimit
      BY <2>5, <2>6
    <3>3. Held(rest) \subseteq Held(q)
      BY <2>5, <2>6 DEF Held
    <3>4. QED
      BY <2>6, <3>1, <3>2, <3>3 DEF QueueOK
  <2>8. Held(q) \cup Elements(wire[i]) \subseteq Settled
    BY <1>2 DEF Orderly
  <2>9. PICK unread : unread = IF sock[i] = "open" THEN Append(wire[i], frame) ELSE wire[i]
    OBVIOUS
  <2>10. unread \in Seq(Frames) /\ Len(unread) <= rest.sent /\ Elements(unread) \subseteq Settled
    <3>1. /\ Append(wire[i], frame) \in Seq(Frames) /\ Len(Append(wire[i], frame)) = Len(wire[i]) + 1
          /\ Elements(Append(wire[i], frame)) = Elements(wire[i]) \cup {frame}
      BY <1>2, <2>5, ElementsAppend
    <3>2. QED
      BY <1>2, <2>5, <2>6, <2>8, <2>9, <3>1
  <2>11. Orderly(rest, unread)
    BY <2>7, <2>8, <2>10 DEF Orderly
  <2>12. wire' = [wire EXCEPT ![i] = unread] \/ (wire' = wire /\ unread = wire[i])
    BY <2>4, <2>9
  <2>13. QED
    BY <2>4, <2>11, <2>12, OneQueue
<1>5. QED
  BY <1>3, <1>4

LEMMA KeptWritten ==
  ASSUME QueueInv, NEW i \in Sockets, Written(i)
  PROVE  Kept
<1>1. PICK q \in Queues : q = queue[i]
  BY QueueFacts
<1>2. PICK rest : rest = [q EXCEPT !.inFlight = None]
  OBVIOUS
<1>3. queue' = [queue EXCEPT ![i] = Schedule(rest)] /\ wire' = wire
  BY <1>1, <1>2 DEF Written, QueueInv
<1>4. /\ rest \in Queues /\ rest.controls = q.controls /\ rest.snapshots = q.snapshots /\ rest.armed = q.armed
      /\ rest.sent = q.sent /\ rest.received = q.received
  BY <1>2 DEF Queues
<1>5. Orderly(rest, wire[i])
  BY <1>1, <1>4, QueueFacts DEF Orderly, QueueOK, Held
<1>6. QED
  BY <1>3, <1>5, OrderlyScheduled, OneQueue

LEMMA KeptCapabilities ==
  ASSUME QueueInv, NEW i \in Sockets, Capabilities(i)
  PROVE  Kept
<1>1. PICK q \in Queues : q = queue[i]
  BY QueueFacts
<1>2. PICK rest : rest = [q EXCEPT !.window = Window]
  OBVIOUS
<1>3. queue' = [queue EXCEPT ![i] = Schedule(rest)] /\ wire' = wire
  BY <1>1, <1>2 DEF Capabilities, QueueInv
<1>4. /\ rest \in Queues /\ rest.controls = q.controls /\ rest.snapshots = q.snapshots /\ rest.armed = q.armed
      /\ rest.sent = q.sent /\ rest.received = q.received
  BY <1>2 DEF Queues
<1>5. Orderly(rest, wire[i])
  BY <1>1, <1>4, QueueFacts DEF Orderly, QueueOK, Held
<1>6. QED
  BY <1>3, <1>5, OrderlyScheduled, OneQueue

\* What the relay has read is what was sent without what is on its way.
LEMMA KeptIngress ==
  ASSUME QueueInv, NEW i \in Sockets, Ingress(i)
  PROVE  Kept
<1>1. PICK q \in Queues : q = queue[i]
  BY QueueFacts
<1>2. PICK read : read = q.sent - Len(wire[i])
  OBVIOUS
<1>3. read \in Nat /\ read <= q.sent /\ q.sent \in Nat
  BY <1>1, <1>2, QueueFacts, Fields
<1>4. PICK rest : rest = [q EXCEPT !.received = read]
  OBVIOUS
<1>5. queue' = [queue EXCEPT ![i] = Schedule(rest)] /\ wire' = wire
  BY <1>1, <1>2, <1>4 DEF Ingress, QueueInv
<1>6. /\ rest \in Queues /\ rest.controls = q.controls /\ rest.snapshots = q.snapshots /\ rest.armed = q.armed
      /\ rest.sent = q.sent /\ rest.received = read
  BY <1>3, <1>4 DEF Queues
<1>7. Orderly(rest, wire[i])
  BY <1>1, <1>3, <1>6, QueueFacts DEF Orderly, QueueOK, Held
<1>8. QED
  BY <1>5, <1>7, OrderlyScheduled, OneQueue

LEMMA SettledFrames ==
  /\ Hello \in Settled /\ \A j \in Jobs : JobFrame(j) \in Settled
  /\ \A m \in Messages : applied[m] > 0 => AckOf(m) \in Settled
<1>1. \A m, n \in Messages : AckOf(m) = AckOf(n) => m = n
  BY DEF AckOf
<1>2. QED
  BY <1>1, AllFrames DEF Settled

LEMMA KeptUnchanged ==
  ASSUME QueueInv, UNCHANGED <<queue, wire>>
  PROVE  Kept
  BY DEF QueueInv, Kept

\* An acknowledgement of what was accepted, if a socket is open.
LEMMA KeptAck ==
  ASSUME LinkInv, QueueInv, NEW m \in Messages, applied[m] > 0, Ack(m), wire' = wire
  PROVE  Kept
<1>1. CASE IsConnected
  <2>1. PICK i \in Sockets : i = ws
    BY <1>1 DEF IsConnected, LinkInv
  <2>2. queue' = [queue EXCEPT ![i] = Enqueue(queue[i], AckOf(m), TRUE)]
    BY <1>1, <2>1 DEF Ack, QueueInv
  <2>3. Orderly(Enqueue(queue[i], AckOf(m), TRUE), wire[i])
    BY SettledFrames, OrderlyEnqueued DEF QueueInv
  <2>4. QED
    BY <2>2, <2>3, OneQueue
<1>2. CASE ~IsConnected
  BY <1>2, KeptUnchanged DEF Ack
<1>3. QED
  BY <1>1, <1>2

LEMMA KeptSend ==
  ASSUME LinkInv, QueueInv, NEW j \in Jobs, Send(j)
  PROVE  Kept
<1>1. PICK i \in Sockets : i = ws
  BY DEF Send, IsConnected, LinkInv
<1>2. queue' = [queue EXCEPT ![i] = Enqueue(queue[i], JobFrame(j), j \in Urgent)] /\ wire' = wire
  BY <1>1 DEF Send
<1>3. Orderly(Enqueue(queue[i], JobFrame(j), j \in Urgent), wire[i])
  BY SettledFrames, OrderlyEnqueued DEF QueueInv
<1>4. QED
  BY <1>2, <1>3, OneQueue

LEMMA KeptOpen ==
  ASSUME QueueInv, NEW i \in Sockets, Open(i)
  PROVE  Kept
<1>1. queue' = [queue EXCEPT ![i] = Enqueue(queue[i], Hello, TRUE)] /\ wire' = wire
  BY DEF Open, QueueInv
<1>2. Orderly(Enqueue(queue[i], Hello, TRUE), wire[i])
  BY SettledFrames, OrderlyEnqueued DEF QueueInv
<1>3. QED
  BY <1>1, <1>2, OneQueue

LEMMA KeptLose ==
  ASSUME QueueInv, NEW i \in Sockets, Lose(i)
  PROVE  Kept
<1>1. Orderly(queue[i], <<>>)
  <2>1. <<>> \in Seq(Frames) /\ Len(<<>>) = 0 /\ queue[i].sent \in Nat
    BY EmptySeq, QueueFacts, Fields
  <2>2. QED
    BY <2>1, QueueFacts, ElementsEmpty DEF Orderly
<1>2. queue' = [queue EXCEPT ![i] = queue[i]] /\ wire' = [wire EXCEPT ![i] = <<>>]
  BY DEF Lose, QueueInv
<1>3. QED
  BY <1>1, <1>2, OneQueue

LEMMA KeptClosed ==
  ASSUME QueueInv, NEW i \in Sockets, Closed(i)
  PROVE  Kept
  BY OrderlyFresh, OneQueue DEF Closed

LEMMA KeptClose ==
  ASSUME LinkInv, QueueInv, Close
  PROVE  Kept
<1>1. CASE ws = 0
  BY <1>1, KeptUnchanged DEF Close
<1>2. CASE ws # 0
  <2>1. PICK i \in Sockets : i = ws
    BY <1>2 DEF LinkInv
  <2>2. queue' = [queue EXCEPT ![i] = Cancelled] /\ wire' = [wire EXCEPT ![i] = <<>>]
    BY <1>2, <2>1 DEF Close
  <2>3. QED
    BY <2>2, OrderlyFresh, OneQueue
<1>3. QED
  BY <1>1, <1>2

LEMMA KeptCrash ==
  ASSUME Crash
  PROVE  Kept
<1>1. NewQueue \in Queues /\ <<>> \in Seq(Frames)
  BY FreshQueue, EmptySeq DEF QueueOK
<1>2. QED
  BY <1>1, OrderlyFresh DEF Crash, Kept

LEMMA KeptRead ==
  ASSUME QueueInv, NEW i \in Sockets, RelayReads(i)
  PROVE  Kept
<1>1. /\ Tail(wire[i]) \in Seq(Frames) /\ Len(Tail(wire[i])) = Len(wire[i]) - 1 /\ Len(wire[i]) \in Nat
      /\ Elements(Tail(wire[i])) \subseteq Elements(wire[i])
  BY QueueFacts, ElementsTail DEF RelayReads
<1>2. queue[i].sent \in Nat /\ Len(wire[i]) <= queue[i].sent
  BY QueueFacts, Fields
<1>3. Len(Tail(wire[i])) <= queue[i].sent
  BY <1>1, <1>2
<1>4. Orderly(queue[i], Tail(wire[i]))
  BY <1>1, <1>3, QueueFacts DEF Orderly
<1>5. queue' = [queue EXCEPT ![i] = queue[i]] /\ wire' = [wire EXCEPT ![i] = Tail(wire[i])]
  BY DEF RelayReads, QueueInv
<1>6. QED
  BY <1>4, <1>5, OneQueue

LEMMA KeptNext ==
  ASSUME LinkInv, QueueInv, AckInv, [Next]_vars
  PROVE  Kept
<1>1. ASSUME NEW i \in Sockets, Transport(i) \/ CreateSocket(i) \/ Lose(i)
      PROVE  Kept
  <2>1. CASE CreateSocket(i)
    BY <2>1, KeptUnchanged DEF CreateSocket
  <2>2. QED
    BY <1>1, <2>1, KeptPump, KeptWritten, KeptClosed, KeptCapabilities, KeptRead, KeptIngress, KeptOpen, KeptLose
       DEF Transport
<1>2. ASSUME NEW i \in Sockets, NEW m \in Messages, Receive(i, m)
      PROVE  Kept
  <2>1. CASE m \in Elements(seen)
    <3>1. Ack(m) /\ wire' = wire
      BY <1>2, <2>1 DEF Receive
    <3>2. QED
      BY <2>1, <3>1, KeptAck DEF AckInv
  <2>2. CASE m \notin Elements(seen)
    BY <1>2, <2>2, KeptUnchanged DEF Receive
  <2>3. QED
    BY <2>1, <2>2
<1>3. ASSUME NEW m \in Messages, Accept(m)
      PROVE  Kept
  BY <1>3, KeptAck DEF Accept, AckInv
<1>4. CASE Close \/ Crash
  BY <1>4, KeptClose, KeptCrash
<1>5. ASSUME NEW j \in Jobs, Send(j)
      PROVE  Kept
  BY <1>5, KeptSend
<1>6. CASE UNCHANGED <<queue, wire>>
  BY <1>6, KeptUnchanged
<1>7. QED
  BY <1>1, <1>2, <1>3, <1>4, <1>5, <1>6
     DEF Next, Connect, RetryFires, HeadersFail, Deliver, Apply, Decline, vars
-----------------------------------------------------------------------------
(* What is remembered, and what the consumer got *)

\* A fingerprint is added at the end; the oldest goes when there are too many.
LEMMA Remembered ==
  ASSUME seen \in Seq(Messages), NEW m \in Messages
  PROVE  Remember(m) \in Seq(Messages) /\ Elements(Remember(m)) \subseteq Elements(seen) \cup {m}
<1>1. /\ Append(seen, m) \in Seq(Messages) /\ Append(seen, m) # <<>>
      /\ Elements(Append(seen, m)) = Elements(seen) \cup {m}
  BY ElementsAppend
<1>2. /\ Tail(Append(seen, m)) \in Seq(Messages)
      /\ Elements(Tail(Append(seen, m))) \subseteq Elements(Append(seen, m))
  BY <1>1, ElementsTail
<1>3. QED
  BY <1>1, <1>2 DEF Remember

LEMMA RestInit == Init => RestInv
<1>1. <<>> \in Seq(Messages)
  BY EmptySeq
<1>2. QED
  BY <1>1 DEF Init, RestInv

\* A socket, its queue and the relay leave to the messages what they are.
LEMMA SocketMoves ==
  ASSUME NEW i \in Sockets, Transport(i) \/ CreateSocket(i) \/ Lose(i)
  PROVE  /\ UNCHANGED <<stage, seen, saved, applied, crashes>>
         /\ mailbox' = mailbox \/ RelayReads(i)
         /\ inbox' = inbox \/ inbox' = [inbox EXCEPT ![i] = {}]
         /\ job' = job \/ Written(i) \/ job' = Reject(queue[i])
<1>1. CASE Pump(i)
  BY <1>1 DEF Pump, inbound, counters
<1>2. CASE Written(i)
  BY <1>2 DEF Written, inbound, counters
<1>3. CASE Closed(i)
  BY <1>3 DEF Closed, counters
<1>4. CASE Capabilities(i)
  BY <1>4 DEF Capabilities, inbound, counters
<1>5. CASE RelayReads(i)
  BY <1>5 DEF RelayReads, inbound, counters
<1>6. CASE Ingress(i)
  BY <1>6 DEF Ingress, inbound, counters
<1>7. CASE Open(i)
  BY <1>7 DEF Open, inbound, counters
<1>8. CASE CreateSocket(i)
  BY <1>8 DEF CreateSocket, inbound, counters
<1>9. CASE Lose(i)
  BY <1>9 DEF Lose
<1>10. QED
  BY <1>1, <1>2, <1>3, <1>4, <1>5, <1>6, <1>7, <1>8, <1>9 DEF Transport

\* So does what the owner and the monitor do with the client.
LEMMA ClientMoves ==
  ASSUME Connect \/ RetryFires \/ HeadersFail \/ Close \/ \E j \in Jobs : Send(j)
  PROVE  /\ UNCHANGED <<stage, seen, saved, applied, crashes, mailbox>>
         /\ inbox' = inbox \/ inbox' = [inbox EXCEPT ![ws] = {}]
         /\ job' = job \/ job' = Reject(queue[ws]) \/ \E j \in Jobs : Send(j)
<1>1. CASE Connect
  BY <1>1 DEF Connect, inbound, counters
<1>2. CASE RetryFires
  BY <1>2 DEF RetryFires, inbound, counters
<1>3. CASE HeadersFail
  BY <1>3 DEF HeadersFail, inbound
<1>4. CASE Close
  BY <1>4 DEF Close, counters
<1>5. ASSUME NEW j \in Jobs, Send(j)
      PROVE  UNCHANGED <<stage, seen, saved, applied, crashes, mailbox, inbox>>
  BY <1>5 DEF Send, inbound, counters
<1>6. QED
  BY <1>1, <1>2, <1>3, <1>4, <1>5

\* How a message moves: only Apply counts it, only Accept records it.
Accepts(m) == Accept(m) /\ UNCHANGED <<inbox, mailbox, job, applied, crashes>>

Applies(m) == Apply(m) /\ UNCHANGED <<inbox, mailbox, job, seen, saved, crashes>>

\* The step leaves every message's place, or takes one that nobody handles or nobody took.
Turns(m) ==
  /\ UNCHANGED <<mailbox, job, seen, saved, applied, crashes>>
  /\ inbox' \in {inbox} \cup {[inbox EXCEPT ![i] = inbox[i] \ {m}] : i \in Sockets}
  /\ \/ stage' = stage
     \/ stage[m] = "listening" /\ stage' = [stage EXCEPT ![m] = "idle"]
     \/ m \notin Elements(seen) /\ stage[m] = "idle" /\ stage' = [stage EXCEPT ![m] = "listening"]

LEMMA MessageMoves ==
  ASSUME RestInv, NEW m \in Messages
  PROVE  /\ Apply(m) => Applies(m)
         /\ Accept(m) => Accepts(m)
         /\ Decline(m) => Turns(m)
         /\ \A i \in Sockets : Receive(i, m) => Turns(m)
<1>1. ASSUME NEW i \in Sockets, Receive(i, m)
      PROVE  Turns(m)
  <2>1. UNCHANGED <<mailbox, job, seen, saved, applied, crashes>> /\ inbox' = [inbox EXCEPT ![i] = inbox[i] \ {m}]
    BY <1>1 DEF Receive, counters, RestInv
  <2>2. CASE m \in Elements(seen)
    BY <1>1, <2>1, <2>2 DEF Receive, Turns
  <2>3. CASE m \notin Elements(seen) /\ stage[m] # "idle"
    BY <1>1, <2>1, <2>3 DEF Receive, Turns
  <2>4. CASE m \notin Elements(seen) /\ stage[m] = "idle"
    BY <1>1, <2>1, <2>4 DEF Receive, Turns
  <2>5. QED
    BY <2>2, <2>3, <2>4
<1>2. QED
  BY <1>1 DEF Apply, Applies, Accept, Accepts, Decline, Turns, counters

\* All the ways a message and a promise may move.
LEMMA Moves ==
  ASSUME LinkInv, RestInv, [Next]_vars
  PROVE  \/ Crash
         \/ /\ UNCHANGED <<stage, seen, saved, applied, crashes>>
            /\ mailbox' = mailbox \/ \E i \in Sockets : RelayReads(i)
            /\ inbox' = inbox \/ (\E i \in Sockets : inbox' = [inbox EXCEPT ![i] = {}]) \/ \E i \in Sockets, m \in Messages : Deliver(i, m)
            /\ job' = job \/ (\E i \in Sockets : Written(i)) \/ (\E q : job' = Reject(q)) \/ \E j \in Jobs : Send(j)
         \/ \E m \in Messages : Applies(m) \/ Accepts(m) \/ Turns(m)
<1>1. ASSUME NEW i \in Sockets, NEW m \in Messages, Deliver(i, m)
      PROVE  UNCHANGED <<stage, seen, saved, applied, crashes, mailbox, job>>
  BY <1>1 DEF Deliver, counters
<1>2. CASE UNCHANGED vars
  BY <1>2 DEF vars, inbound, counters
<1>3. ws \in Sockets \/ [inbox EXCEPT ![ws] = {}] = inbox
  BY Limits DEF LinkInv, RestInv
<1>4. CASE Connect \/ RetryFires \/ HeadersFail \/ Close \/ \E j \in Jobs : Send(j)
  BY <1>3, <1>4, ClientMoves
<1>5. ASSUME NEW i \in Sockets, Transport(i) \/ CreateSocket(i) \/ Lose(i)
      PROVE  /\ UNCHANGED <<stage, seen, saved, applied, crashes>>
             /\ mailbox' = mailbox \/ RelayReads(i)
             /\ inbox' = inbox \/ inbox' = [inbox EXCEPT ![i] = {}]
             /\ job' = job \/ Written(i) \/ job' = Reject(queue[i])
  BY <1>5, SocketMoves
<1>6. QED
  BY <1>1, <1>2, <1>4, <1>5, MessageMoves DEF Next

LEMMA RestNext == LinkInv /\ RestInv /\ [Next]_vars => RestInv'
<1> SUFFICES ASSUME LinkInv, RestInv, [Next]_vars PROVE RestInv'
  OBVIOUS
<1>1. CASE Crash
  BY <1>1 DEF Crash, RestInv
<1>2. CASE /\ UNCHANGED <<stage, seen, saved, applied, crashes>>
           /\ mailbox' = mailbox \/ \E i \in Sockets : RelayReads(i)
           /\ inbox' = inbox \/ (\E i \in Sockets : inbox' = [inbox EXCEPT ![i] = {}]) \/ \E i \in Sockets, m \in Messages : Deliver(i, m)
           /\ job' = job \/ (\E i \in Sockets : Written(i)) \/ (\E q : job' = Reject(q)) \/ \E j \in Jobs : Send(j)
  <2>1. mailbox' \subseteq Messages
    BY <1>2 DEF RestInv, RelayReads
  <2>2. inbox' \in [Sockets -> SUBSET Messages]
    <3>1. ASSUME NEW i \in Sockets, NEW m \in Messages, Deliver(i, m)
          PROVE  inbox' \in [Sockets -> SUBSET Messages]
      <4>1. PICK more \in SUBSET Messages : more = inbox[i] \cup {m}
        BY DEF RestInv
      <4>2. inbox' = [inbox EXCEPT ![i] = more]
        BY <3>1, <4>1 DEF Deliver
      <4>3. QED
        BY <4>2 DEF RestInv
    <3>2. ASSUME NEW i \in Sockets, inbox' = [inbox EXCEPT ![i] = {}]
          PROVE  inbox' \in [Sockets -> SUBSET Messages]
      BY <3>2 DEF RestInv
    <3>3. CASE inbox' = inbox
      BY <3>3 DEF RestInv
    <3>4. QED
      BY <1>2, <3>1, <3>2, <3>3
  <2>3. job' \in [Jobs -> {"new", "pending", "resolved", "rejected"}]
    <3>1. CASE job' = job
      BY <3>1 DEF RestInv
    <3>2. ASSUME NEW i \in Sockets, Written(i)
          PROVE  job' \in [Jobs -> {"new", "pending", "resolved", "rejected"}]
      BY <3>2 DEF RestInv, Written
    <3>3. ASSUME NEW q, job' = Reject(q)
          PROVE  job' \in [Jobs -> {"new", "pending", "resolved", "rejected"}]
      BY <3>3 DEF RestInv, Reject
    <3>4. ASSUME NEW j \in Jobs, Send(j)
          PROVE  job' \in [Jobs -> {"new", "pending", "resolved", "rejected"}]
      <4>1. PICK now \in {"pending", "rejected"} : job' = [job EXCEPT ![j] = now]
        BY <3>4 DEF Send
      <4>2. QED
        BY <4>1 DEF RestInv
    <3>5. QED
      BY <1>2, <3>1, <3>2, <3>3, <3>4
  <2>4. QED
    BY <1>2, <2>1, <2>2, <2>3 DEF RestInv
<1>3. ASSUME NEW m \in Messages, Applies(m)
      PROVE  RestInv'
  <2>1. /\ stage' = [stage EXCEPT ![m] = "accepting"] /\ applied' = [applied EXCEPT ![m] = applied[m] + 1]
        /\ UNCHANGED <<job, inbox, mailbox, seen, saved, crashes>> /\ applied[m] \in Nat
    BY <1>3 DEF Applies, Apply, RestInv
  <2>2. stage' \in [Messages -> {"idle", "listening", "accepting"}]
    BY <2>1 DEF RestInv
  <2>3. applied' \in [Messages -> Nat]
    BY <2>1 DEF RestInv
  <2>4. QED
    BY <2>1, <2>2, <2>3 DEF RestInv
<1>4. ASSUME NEW m \in Messages, Accepts(m)
      PROVE  RestInv'
  BY <1>4, Remembered DEF Accepts, Accept, RestInv
<1>5. ASSUME NEW m \in Messages, Turns(m)
      PROVE  RestInv'
  <2>1. UNCHANGED <<mailbox, job, seen, saved, applied, crashes>>
    BY <1>5 DEF Turns
  <2>2. inbox' \in [Sockets -> SUBSET Messages]
    <3>1. ASSUME NEW i \in Sockets, inbox' = [inbox EXCEPT ![i] = inbox[i] \ {m}]
          PROVE  inbox' \in [Sockets -> SUBSET Messages]
      <4>1. PICK less \in SUBSET Messages : less = inbox[i] \ {m}
        BY DEF RestInv
      <4>2. QED
        BY <3>1, <4>1 DEF RestInv
    <3>2. inbox' = inbox \/ \E i \in Sockets : inbox' = [inbox EXCEPT ![i] = inbox[i] \ {m}]
      BY <1>5 DEF Turns
    <3>3. QED
      BY <3>1, <3>2 DEF RestInv
  <2>3. stage' \in [Messages -> {"idle", "listening", "accepting"}]
    BY <1>5 DEF Turns, RestInv
  <2>4. QED
    BY <2>1, <2>2, <2>3 DEF RestInv
<1>6. QED
  BY <1>1, <1>2, <1>3, <1>4, <1>5, Moves

LEMMA AckInit == Init => AckInv
  BY ElementsEmpty DEF Init, AckInv

\* The relay forgets what is acknowledged, and only that.
LEMMA AckNext ==
  ASSUME LinkInv, QueueInv, RestInv, AckInv, [Next]_vars
  PROVE  AckInv' /\ \A m \in Messages : applied'[m] >= applied[m]
<1>1. CASE Crash
  BY <1>1 DEF Crash, AckInv, RestInv
<1>2. CASE /\ UNCHANGED <<stage, seen, saved, applied, crashes>>
           /\ mailbox' = mailbox \/ \E i \in Sockets : RelayReads(i)
  <2>1. ASSUME NEW i \in Sockets, RelayReads(i), NEW m \in Messages, m \in mailbox, m \notin mailbox'
        PROVE  applied[m] > 0
    <3>1. Head(wire[i]).kind = "ack" /\ Head(wire[i]).of = m
      BY <2>1 DEF RelayReads
    <3>2. Head(wire[i]) \in Settled
      BY <2>1, QueueFacts, ElementsTail DEF RelayReads, Orderly
    <3>3. Head(wire[i]) = AckOf(m)
      BY <3>1, <3>2, AllFrames DEF Settled
    <3>4. QED
      BY <3>2, <3>3 DEF Settled
  <2>2. QED
    BY <1>2, <2>1 DEF AckInv, RestInv
<1>3. ASSUME NEW m \in Messages, Applies(m)
      PROVE  AckInv' /\ \A n \in Messages : applied'[n] >= applied[n]
  BY <1>3 DEF Applies, Apply, AckInv, RestInv
<1>4. ASSUME NEW m \in Messages, Accepts(m)
      PROVE  AckInv' /\ \A n \in Messages : applied'[n] >= applied[n]
  BY <1>4, Remembered DEF Accepts, Accept, AckInv, RestInv
<1>5. ASSUME NEW m \in Messages, Turns(m)
      PROVE  AckInv' /\ \A n \in Messages : applied'[n] >= applied[n]
  BY <1>5 DEF Turns, AckInv, RestInv
<1>6. QED
  BY <1>1, <1>2, <1>3, <1>4, <1>5, Moves

LEMMA QueueInit == Init => QueueInv
<1>1. NewQueue \in Queues /\ <<>> \in Seq(Frames)
  BY FreshQueue, EmptySeq DEF QueueOK
<1>2. QED
  BY <1>1, OrderlyFresh DEF Init, QueueInv

LEMMA QueueNext ==
  ASSUME LinkInv, QueueInv, RestInv, AckInv, [Next]_vars
  PROVE  QueueInv'
<1>1. \A m \in Messages : applied[m] > 0 => applied'[m] > 0
  BY AckNext, RestNext DEF RestInv
<1>2. Settled \subseteq Settled'
  BY <1>1 DEF Settled, AckOf
<1>3. ASSUME NEW i \in Sockets
      PROVE  Orderly(queue[i], wire[i])'
  <2>1. Orderly(queue'[i], wire'[i])
    BY KeptNext DEF Kept
  <2>2. QED
    BY <1>2, <2>1 DEF Orderly, QueueOK, Held, Elements, Queues, Frames
<1>4. QED
  BY <1>3, KeptNext DEF Kept, QueueInv, Queues, Frames

RelayInv == LinkInv /\ QueueInv /\ RestInv /\ AckInv

LEMMA RelayAlways == Spec => []RelayInv
<1>1. Init => RelayInv
  BY LinkInit, QueueInit, RestInit, AckInit DEF RelayInv
<1>2. RelayInv /\ [Next]_vars => RelayInv'
  BY LinkNext, QueueNext, RestNext, AckNext DEF RelayInv
<1>3. QED
  BY <1>1, <1>2, PTL DEF Spec
-----------------------------------------------------------------------------
(* Once per life of the process *)

\* No fingerprint is dropped to make room (MAX_FINGERPRINTS, replay-store.ts:54-58).
Fits == IsFiniteSet(Messages) /\ Cardinality(Messages) <= MaxFingerprints

LEMMA NoRepeat ==
  ASSUME Fits, RestInv, NoRepeats(seen), NEW m \in Messages, m \notin Elements(seen)
  PROVE  NoRepeats(Remember(m)) /\ Elements(Remember(m)) = Elements(seen) \cup {m}
<1>1. PICK longer : longer = Append(seen, m)
  OBVIOUS
<1>2. /\ longer \in Seq(Messages) /\ Len(longer) = Len(seen) + 1 /\ Len(seen) \in Nat
      /\ Elements(longer) = Elements(seen) \cup {m}
  BY <1>1, ElementsAppend DEF RestInv
<1>3. IsFiniteSet(Elements(longer)) /\ Cardinality(Elements(longer)) = Len(longer)
  <2>1. PICK before : before = Elements(seen)
    OBVIOUS
  <2>2. IsFiniteSet(before) /\ Cardinality(before) = Len(seen) /\ m \notin before
    BY <2>1 DEF NoRepeats
  <2>3. IsFiniteSet(before \cup {m}) /\ Cardinality(before \cup {m}) = Cardinality(before) + 1
    BY <2>2, FS_AddElement
  <2>4. QED
    BY <1>2, <2>1, <2>2, <2>3
<1>4. Elements(longer) \subseteq Messages
  BY <1>2, ElementOfSeq, LenProperties DEF Elements
<1>5. Len(longer) <= MaxFingerprints
  <2>1. Cardinality(Elements(longer)) <= Cardinality(Messages)
    BY <1>4, FS_Subset DEF Fits
  <2>2. Cardinality(Messages) \in Nat /\ MaxFingerprints \in Nat
    BY FS_CardinalityType, Limits DEF Fits
  <2>3. QED
    BY <1>2, <1>3, <2>1, <2>2 DEF Fits
<1>6. Remember(m) = longer
  <2>1. ~(Len(longer) > MaxFingerprints)
    BY <1>2, <1>5, Limits
  <2>2. QED
    BY <1>1, <2>1 DEF Remember
<1>7. QED
  BY <1>2, <1>3, <1>6 DEF NoRepeats

LEMMA OnceInit == Init => OnceInv
<1>1. NoRepeats(<<>>)
  BY ElementsEmpty, FS_EmptySet, EmptySeq DEF NoRepeats
<1>2. QED
  BY <1>1, ElementsEmpty DEF Init, OnceInv

LEMMA OnceNext ==
  ASSUME Fits, LinkInv, RestInv, OnceInv, [Next]_vars
  PROVE  OnceInv' /\ \A m \in Messages : m \in Elements(saved) => applied'[m] = applied[m]
<1>1. CASE Crash
  <2>1. seen' = saved /\ saved' = saved /\ applied' = applied /\ crashes' = crashes + 1 /\ crashes \in Nat
        /\ \A m \in Messages : stage'[m] = "idle" /\ applied[m] \in Nat
    BY <1>1 DEF Crash, RestInv
  <2>2. /\ NoRepeats(seen)' /\ NoRepeats(saved)'
        /\ Elements(seen)' = Elements(saved) /\ Elements(saved)' = Elements(saved)
    BY <2>1 DEF OnceInv, NoRepeats, Elements
  <2>3. ASSUME NEW n \in Messages
        PROVE  stage'[n] = "idle" /\ applied'[n] = applied[n] /\ applied'[n] <= crashes'
    <3>1. applied[n] <= 1 + crashes
      BY DEF OnceInv
    <3>2. QED
      BY <2>1, <3>1
  <2>4. crashes' <= 1 + crashes'
    BY <2>1
  <2>5. \A n \in Messages : applied'[n] <= 1 + crashes'
    BY <2>1, <2>3, <2>4
  <2>6. QED
    BY <2>2, <2>3, <2>5 DEF OnceInv
<1>2. CASE UNCHANGED <<stage, seen, saved, applied, crashes>>
  <2>1. /\ NoRepeats(seen)' /\ NoRepeats(saved)'
        /\ Elements(seen)' = Elements(seen) /\ Elements(saved)' = Elements(saved)
    BY <1>2 DEF OnceInv, NoRepeats, Elements
  <2>2. QED
    BY <1>2, <2>1 DEF OnceInv
<1>3. ASSUME NEW m \in Messages, Applies(m)
      PROVE  OnceInv' /\ \A n \in Messages : n \in Elements(saved) => applied'[n] = applied[n]
  <2>1. /\ UNCHANGED <<seen, saved, crashes>> /\ crashes \in Nat /\ stage[m] = "listening"
        /\ m \notin Elements(seen)
        /\ stage'[m] = "accepting" /\ applied'[m] = applied[m] + 1 /\ applied[m] \in Nat
        /\ \A n \in Messages : n # m => stage'[n] = stage[n] /\ applied'[n] = applied[n]
    BY <1>3 DEF Applies, Apply, RestInv, OnceInv
  <2>2. applied[m] <= crashes
    BY <2>1 DEF OnceInv
  <2>3. applied'[m] <= 1 + crashes'
    BY <2>1, <2>2
  <2>4. /\ NoRepeats(seen)' /\ NoRepeats(saved)'
        /\ Elements(seen)' = Elements(seen) /\ Elements(saved)' = Elements(saved)
    BY <2>1 DEF OnceInv, NoRepeats, Elements
  <2>5. ASSUME NEW n \in Messages
        PROVE  /\ stage'[n] # "idle" => n \notin Elements(seen)
               /\ applied'[n] <= 1 + crashes'
               /\ n \notin Elements(seen) /\ stage'[n] # "accepting" => applied'[n] <= crashes'
    <3>1. CASE n = m
      BY <2>1, <2>3, <3>1
    <3>2. CASE n # m
      BY <2>1, <3>2 DEF OnceInv
    <3>3. QED
      BY <3>1, <3>2
  <2>6. \A n \in Messages : n \in Elements(saved) => applied'[n] = applied[n]
    <3>1. m \notin Elements(saved)
      BY <2>1 DEF OnceInv
    <3>2. QED
      BY <2>1, <3>1
  <2>7. OnceInv'
    BY <2>4, <2>5 DEF OnceInv
  <2>8. QED
    BY <2>6, <2>7
<1>4. ASSUME NEW m \in Messages, Accepts(m)
      PROVE  OnceInv' /\ \A n \in Messages : n \in Elements(saved) => applied'[n] = applied[n]
  <2>1. m \notin Elements(seen)
    BY <1>4 DEF Accepts, Accept, OnceInv
  <2>2. NoRepeats(Remember(m)) /\ Elements(Remember(m)) = Elements(seen) \cup {m}
    BY <2>1, NoRepeat DEF OnceInv
  <2>3. seen' = Remember(m) /\ (saved' = Remember(m) \/ saved' = saved)
    BY <1>4 DEF Accepts, Accept
  <2>4. /\ NoRepeats(seen') /\ Elements(seen') = Elements(seen) \cup {m}
        /\ NoRepeats(saved') /\ Elements(saved') \subseteq Elements(seen')
    BY <2>2, <2>3 DEF OnceInv
  <2>5. /\ UNCHANGED <<applied, crashes>> /\ stage'[m] = "idle"
        /\ \A n \in Messages : n # m => stage'[n] = stage[n]
    BY <1>4 DEF Accepts, Accept, RestInv
  <2>6. NoRepeats(seen)' /\ NoRepeats(saved)' /\ Elements(saved)' \subseteq Elements(seen)' /\ Elements(seen)' = Elements(seen) \cup {m}
    BY <2>4 DEF NoRepeats, Elements
  <2>7. QED
    BY <2>5, <2>6 DEF OnceInv
<1>5. ASSUME NEW m \in Messages, Turns(m)
      PROVE  OnceInv' /\ \A n \in Messages : n \in Elements(saved) => applied'[n] = applied[n]
  <2>1. /\ UNCHANGED <<seen, saved, applied, crashes>> /\ stage \in [Messages -> {"idle", "listening", "accepting"}]
        /\ crashes \in Nat /\ \A n \in Messages : applied[n] \in Nat
    BY <1>5 DEF Turns, RestInv
  <2>2. ASSUME NEW n \in Messages
        PROVE  /\ stage'[n] # "idle" => n \notin Elements(seen)
               /\ n \notin Elements(seen) /\ stage'[n] # "accepting" => applied[n] <= crashes
    BY <1>5, <2>1 DEF Turns, OnceInv
  <2>3. NoRepeats(seen)' /\ NoRepeats(saved)' /\ Elements(seen)' = Elements(seen) /\ Elements(saved)' = Elements(saved)
    BY <2>1 DEF OnceInv, NoRepeats, Elements
  <2>4. QED
    BY <2>1, <2>2, <2>3 DEF OnceInv
<1>6. QED
  BY <1>1, <1>2, <1>3, <1>4, <1>5, Moves
-----------------------------------------------------------------------------
\* The parts of the transport keep their shapes; in particular a queue never
\* holds more frames than its limit, and the relay's count of what it read never
\* passes what was sent (outbound-scheduler, 33-49).
THEOREM TypeCorrect == Spec => []TypeOK
<1>1. RelayInv => TypeOK
  <2> SUFFICES ASSUME RelayInv PROVE TypeOK
    OBVIOUS
  <2>1. ASSUME NEW i \in Sockets
        PROVE  /\ queue[i].controls \in Seq(Frames) /\ queue[i].snapshots \in Seq(Frames)
               /\ queue[i].inFlight \in Frames \cup {None}
               /\ {queue[i].armed, queue[i].closed} \subseteq BOOLEAN
               /\ queue[i].window \in {0, Window}
               /\ queue[i].received <= queue[i].sent
               /\ Len(queue[i].controls) + Len(queue[i].snapshots) <= QueueLimit
               /\ wire[i] \in Seq(Frames)
               /\ inbox[i] \subseteq Messages
    <3>1. queue[i] \in Queues /\ QueueOK(queue[i]) /\ wire[i] \in Seq(Frames)
      BY QueueFacts DEF RelayInv
    <3>2. inbox[i] \subseteq Messages
      BY DEF RelayInv, RestInv
    <3>3. /\ queue[i].controls \in Seq(Frames) /\ queue[i].snapshots \in Seq(Frames)
          /\ queue[i].inFlight \in Frames \cup {None} /\ queue[i].armed \in BOOLEAN /\ queue[i].closed \in BOOLEAN
          /\ queue[i].window \in {0, Window}
      BY <3>1, Fields
    <3>4. QED
      BY <3>1, <3>2, <3>3 DEF QueueOK
  <2>2. QED
    BY <2>1 DEF RelayInv, LinkInv, RestInv, TypeOK
<1>2. QED
  BY <1>1, RelayAlways, PTL

\* Two sockets are never usable at once (relay-client.ts:65-143), whatever the
\* order of close events, retries, close() and headers that arrive late.
THEOREM SocketAlone == Spec => []OneSocket
<1>1. RelayInv => OneSocket
  BY DEF RelayInv, LinkInv, OneSocket
<1>2. QED
  BY <1>1, RelayAlways, PTL

\* The relay forgets a message only after a consumer accepted it durably, with
\* any number of messages: every acknowledgement queued or on its way is of one
\* that was applied (relay-client.ts:168-198).
THEOREM ForgottenWasApplied == Spec => [](\A m \in Messages : m \notin mailbox => applied[m] > 0)
<1>1. RelayInv => \A m \in Messages : m \notin mailbox => applied[m] > 0
  BY DEF RelayInv, AckInv
<1>2. QED
  BY <1>1, RelayAlways, PTL

\* Once per life of the process, and not again once it is on disk, as long as the
\* fingerprints of all messages fit (replay-store.ts:42-69).  One that is dropped
\* before the relay saw its acknowledgement is applied again.
THEOREM AppliedOnceEach ==
  ASSUME Fits
  PROVE  Spec => AppliedOnce
<1>1. Init => OnceInv
  BY OnceInit
<1>2. RelayInv /\ OnceInv /\ [Next]_vars => OnceInv'
  BY OnceNext DEF RelayInv
<1>3. RelayInv /\ OnceInv => \A m \in Messages : (m \notin mailbox => applied[m] > 0) /\ applied[m] <= 1 + crashes
  BY DEF RelayInv, AckInv, OnceInv
<1>4. RelayInv /\ OnceInv /\ [Next]_vars =>
        [\A m \in Messages : m \in Elements(saved) => applied'[m] = applied[m]]_vars
  BY OnceNext DEF RelayInv
<1>5. QED
  BY <1>1, <1>2, <1>3, <1>4, RelayAlways, PTL DEF Spec, AppliedOnce
=============================================================================
