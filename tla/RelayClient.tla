----------------------------- MODULE RelayClient -----------------------------
(****************************************************************************)
(* The relay transport of a computer (packages/core/relay-client.ts): one   *)
(* socket at a time with reconnection, the outbound queue of that socket    *)
(* (outbound-scheduler) and the acceptance of stored messages               *)
(* (replay-store), against a relay that keeps a message until it is         *)
(* acknowledged and delivers it again until then.                           *)
(*                                                                          *)
(* One action is what the event loop runs without an await.  A socket has   *)
(* its own queue, which dies with it; the number of a socket that has seen  *)
(* its close event is used again.  The relay, the network and the consumer  *)
(* of payloads are external.                                                *)
(****************************************************************************)
EXTENDS Naturals, Sequences

CONSTANTS
  Messages,             \* stored for this computer, one ciphertext each
  Jobs, Urgent,         \* payloads the monitor sends; those of the control queue
  None,
  Window,               \* the ingress window (16 to 64 in the code)
  QueueLimit,           \* frames one queue holds (2,048 in the code)
  MaxFingerprints,
  MaxSockets,           \* sockets that have not seen their close event
  MaxDrops, MaxCrashes  \* bounds: sockets lost, restarts

ASSUME RelayAssumption ==
  /\ Urgent \subseteq Jobs
  /\ None \notin Messages \cup Jobs
  /\ {Window, QueueLimit, MaxFingerprints, MaxSockets} \subseteq Nat \ {0}
  /\ {MaxDrops, MaxCrashes} \subseteq Nat

VARIABLES
  sock, ws,                \* readyState of each socket; this.ws
  headers, dialing,        \* connectPromise: awaiting the headers, or that socket
  retry, intentional,      \* reconnectTimer is set; intentionalClose
  queue, wire,             \* the queue of each socket; its frames on their way to the relay
  job,                     \* how the promise of each send() stands
  inbox,                   \* stored messages on their way to this computer, per socket
  mailbox,                 \* what the relay still stores
  stage, seen, saved,      \* messages being handled; fingerprints in memory and on disk
  applied,                 \* how often the consumer durably accepted each message
  drops, crashes

attempt == <<headers, dialing>>
connection == <<sock, ws, attempt, retry, intentional>>
inbound == <<inbox, stage, seen, saved, applied>>
counters == <<drops, crashes>>
vars == <<connection, queue, wire, job, mailbox, inbound, counters>>

Sockets == 1..MaxSockets
Frames == [kind : {"hello", "ack", "job"}, of : Messages \cup Jobs \cup {None}]
Hello == [kind |-> "hello", of |-> None]
AckOf(m) == [kind |-> "ack", of |-> m]
JobFrame(j) == [kind |-> "job", of |-> j]

NewQueue == [controls |-> <<>>, snapshots |-> <<>>, inFlight |-> None, armed |-> FALSE,
             closed |-> FALSE, window |-> 0, sent |-> 0, received |-> 0]
Cancelled == [NewQueue EXCEPT !.closed = TRUE]

TypeOK ==
  /\ sock \in [Sockets -> {"unused", "connecting", "open", "closing"}]
  /\ ws \in Sockets \cup {0}
  /\ dialing \in Sockets \cup {0}
  /\ {headers, retry, intentional} \subseteq BOOLEAN
  /\ \A i \in Sockets :
       /\ queue[i].controls \in Seq(Frames) /\ queue[i].snapshots \in Seq(Frames)
       /\ queue[i].inFlight \in Frames \cup {None}
       /\ {queue[i].armed, queue[i].closed} \subseteq BOOLEAN
       /\ queue[i].window \in {0, Window}
       /\ queue[i].received <= queue[i].sent
       /\ Len(queue[i].controls) + Len(queue[i].snapshots) <= QueueLimit
       /\ wire[i] \in Seq(Frames)
       /\ inbox[i] \subseteq Messages
  /\ job \in [Jobs -> {"new", "pending", "resolved", "rejected"}]
  /\ mailbox \subseteq Messages
  /\ stage \in [Messages -> {"idle", "listening", "accepting"}]
  /\ {seen, saved} \subseteq Seq(Messages)
  /\ applied \in [Messages -> Nat]

Init ==
  /\ sock = [i \in Sockets |-> "unused"]
  /\ ws = 0 /\ headers = TRUE /\ dialing = 0 /\ retry = FALSE /\ intentional = FALSE
  /\ queue = [i \in Sockets |-> NewQueue]
  /\ wire = [i \in Sockets |-> <<>>]
  /\ job = [j \in Jobs |-> "new"]
  /\ inbox = [i \in Sockets |-> {}]
  /\ mailbox = Messages
  /\ stage = [m \in Messages |-> "idle"]
  /\ seen = <<>> /\ saved = <<>>
  /\ applied = [m \in Messages |-> 0]
  /\ drops = 0 /\ crashes = 0

Elements(s) == {s[k] : k \in DOMAIN s}
Attempting == headers \/ dialing # 0
IsConnected == ws # 0 /\ sock[ws] = "open"
-----------------------------------------------------------------------------
(* The outbound queue *)

HasCredit(q) == q.window = 0 \/ q.sent - q.received < q.window

\* schedule(): the timer of the next write is armed when there is one to make.
Schedule(q) ==
  [q EXCEPT !.armed = @ \/ /\ ~q.closed /\ q.inFlight = None /\ HasCredit(q)
                           /\ q.controls \o q.snapshots # <<>>]

\* Mutant: one frame more than the limit.
Full_OffByOne(q) == Len(q.controls) + Len(q.snapshots) > QueueLimit

Full(q) == Len(q.controls) + Len(q.snapshots) >= QueueLimit

\* send(): a refused frame leaves the queue as it was.
Enqueue(q, frame, urgent) ==
  IF q.closed \/ Full(q) THEN q
  ELSE Schedule(IF urgent THEN [q EXCEPT !.controls = Append(@, frame)]
                          ELSE [q EXCEPT !.snapshots = Append(@, frame)])

JobsIn(q) ==
  {j \in Jobs : JobFrame(j) \in Elements(q.controls \o q.snapshots) \cup {q.inFlight}}

\* Mutant: the write in flight is left to its callback.
Reject_Waiting(q) ==
  [j \in Jobs |-> IF j \in JobsIn([q EXCEPT !.inFlight = None]) THEN "rejected" ELSE job[j]]

\* cancel(): every promise of the queue is rejected, the one in flight too.
Reject(q) == [j \in Jobs |-> IF j \in JobsIn(q) THEN "rejected" ELSE job[j]]

\* RelayClient.send() while a socket is open.
Send(j) ==
  /\ job[j] = "new" /\ IsConnected
  /\ LET q == Enqueue(queue[ws], JobFrame(j), j \in Urgent) IN
     /\ queue' = [queue EXCEPT ![ws] = q]
     /\ job' = [job EXCEPT ![j] = IF j \in JobsIn(q) THEN "pending" ELSE "rejected"]
  /\ UNCHANGED <<connection, wire, mailbox, inbound, counters>>

\* pump(), up to its await: controls first, then snapshots.
Pump(i) ==
  /\ queue[i].armed
  /\ LET q == queue[i] IN
     IF ~HasCredit(q)
       THEN queue' = [queue EXCEPT ![i].armed = FALSE] /\ UNCHANGED wire
       ELSE LET frame == Head(q.controls \o q.snapshots) IN
            /\ queue' = [queue EXCEPT ![i] =
                 [q EXCEPT !.armed = FALSE, !.inFlight = frame, !.sent = @ + 1,
                    !.controls = IF @ = <<>> THEN @ ELSE Tail(@),
                    !.snapshots = IF q.controls = <<>> THEN Tail(@) ELSE @]]
            /\ wire' = IF sock[i] = "open" THEN [wire EXCEPT ![i] = Append(@, frame)] ELSE wire
  /\ UNCHANGED <<connection, job, mailbox, inbound, counters>>

\* The write's callback; one that fails does not stop the queue.
Written(i) ==
  /\ queue[i].inFlight # None
  /\ \E ok \in {sock[i] = "open", FALSE} :
       job' = [j \in Jobs |-> IF queue[i].inFlight = JobFrame(j)
                                THEN (IF ok THEN "resolved" ELSE "rejected") ELSE job[j]]
  /\ queue' = [queue EXCEPT ![i] = Schedule([@ EXCEPT !.inFlight = None])]
  /\ UNCHANGED <<connection, wire, mailbox, inbound, counters>>
-----------------------------------------------------------------------------
(* The connection *)

\* scheduleReconnect()
Reconnect == retry' = (retry \/ ~intentional)

\* connect() while neither a socket, an attempt nor a retry stands in its way;
\* otherwise it returns without effect.  The monitor's ticks call it again and
\* again, but not after close().
Connect ==
  /\ ~IsConnected /\ ~Attempting /\ ~retry /\ ~intentional
  /\ headers' = TRUE /\ intentional' = FALSE
  /\ UNCHANGED <<sock, ws, dialing, retry, queue, wire, job, mailbox, inbound, counters>>

\* Mutant: a retry that fires does not look for an attempt in progress.
RetryFires_Blind ==
  /\ retry
  /\ retry' = FALSE /\ headers' = TRUE /\ intentional' = FALSE
  /\ UNCHANGED <<sock, ws, dialing, queue, wire, job, mailbox, inbound, counters>>

RetryFires ==
  /\ retry
  /\ retry' = FALSE
  /\ IF IsConnected \/ Attempting
       THEN UNCHANGED <<headers, intentional>>
       ELSE headers' = TRUE /\ intentional' = FALSE
  /\ UNCHANGED <<sock, ws, dialing, queue, wire, job, mailbox, inbound, counters>>

\* The admission headers arrived: close() has not stopped this continuation.
CreateSocket(i) ==
  /\ headers
  /\ sock[i] = "unused" /\ \A k \in Sockets : k < i => sock[k] # "unused"
  /\ sock' = [sock EXCEPT ![i] = "connecting"]
  /\ ws' = i
  /\ headers' = FALSE /\ dialing' = i
  /\ UNCHANGED <<retry, intentional, queue, wire, job, mailbox, inbound, counters>>

HeadersFail ==
  /\ headers /\ drops < MaxDrops
  /\ drops' = drops + 1
  /\ headers' = FALSE /\ Reconnect
  /\ UNCHANGED <<sock, ws, dialing, intentional, queue, wire, job, mailbox, inbound, crashes>>

\* "open": the hello is the first frame; the relay's capabilities follow.
Open(i) ==
  /\ sock[i] = "connecting"
  /\ sock' = [sock EXCEPT ![i] = "open"]
  /\ dialing' = 0
  /\ queue' = [queue EXCEPT ![i] = Enqueue(@, Hello, TRUE)]
  /\ UNCHANGED <<ws, headers, retry, intentional, wire, job, mailbox, inbound, counters>>

\* A missed pong, a connect timeout, a refused upgrade or the other side ends the
\* socket: it leaves the state OPEN (or CONNECTING) before its close event, and
\* what the other side has not read of it by then is lost.
Lose(i) ==
  /\ sock[i] \in {"connecting", "open"} /\ drops < MaxDrops
  /\ drops' = drops + 1
  /\ sock' = [sock EXCEPT ![i] = "closing"]
  /\ wire' = [wire EXCEPT ![i] = <<>>] /\ inbox' = [inbox EXCEPT ![i] = {}]
  /\ IF sock[i] = "connecting" THEN dialing' = 0 /\ Reconnect
                               ELSE UNCHANGED <<dialing, retry>>
  /\ UNCHANGED <<ws, headers, intentional, queue, job, mailbox, stage, seen, saved, applied, crashes>>

\* "close": the queue of that socket is cancelled, and a retry scheduled.
Closed(i) ==
  /\ sock[i] = "closing"
  /\ sock' = [sock EXCEPT ![i] = "unused"]
  /\ ws' = IF ws = i THEN 0 ELSE ws
  /\ queue' = [queue EXCEPT ![i] = NewQueue]
  /\ job' = Reject(queue[i])
  /\ wire' = [wire EXCEPT ![i] = <<>>] /\ inbox' = [inbox EXCEPT ![i] = {}]
  /\ dialing' = IF dialing = i THEN 0 ELSE dialing
  /\ Reconnect
  /\ UNCHANGED <<headers, intentional, mailbox, stage, seen, saved, applied, counters>>

\* close() by the owner of the client.  What the relay still reads of the socket
\* it might as well have read before.
Close ==
  /\ ~intentional
  /\ intentional' = TRUE /\ retry' = FALSE
  /\ ws' = 0
  /\ IF ws = 0 THEN UNCHANGED <<sock, queue, job, wire, inbox>>
     ELSE /\ sock' = [sock EXCEPT ![ws] = "closing"]
          /\ queue' = [queue EXCEPT ![ws] = Cancelled]
          /\ job' = Reject(queue[ws])
          /\ wire' = [wire EXCEPT ![ws] = <<>>] /\ inbox' = [inbox EXCEPT ![ws] = {}]
  /\ UNCHANGED <<attempt, mailbox, stage, seen, saved, applied, counters>>

\* Mutant: the fingerprints on disk are not read again.
Crash_Forgets ==
  /\ crashes < MaxCrashes /\ crashes' = crashes + 1
  /\ sock' = [i \in Sockets |-> "unused"]
  /\ ws' = 0 /\ headers' = TRUE /\ dialing' = 0 /\ retry' = FALSE /\ intentional' = FALSE
  /\ queue' = [i \in Sockets |-> NewQueue]
  /\ job' = [j \in Jobs |-> IF job[j] = "pending" THEN "rejected" ELSE job[j]]
  /\ wire' = [i \in Sockets |-> <<>>] /\ inbox' = [i \in Sockets |-> {}]
  /\ stage' = [m \in Messages |-> "idle"]
  /\ seen' = <<>>
  /\ UNCHANGED <<mailbox, saved, applied, drops>>

\* The process dies; launchd starts it again and it connects.
Crash ==
  /\ crashes < MaxCrashes /\ crashes' = crashes + 1
  /\ sock' = [i \in Sockets |-> "unused"]
  /\ ws' = 0 /\ headers' = TRUE /\ dialing' = 0 /\ retry' = FALSE /\ intentional' = FALSE
  /\ queue' = [i \in Sockets |-> NewQueue]
  /\ job' = [j \in Jobs |-> IF job[j] = "pending" THEN "rejected" ELSE job[j]]
  /\ wire' = [i \in Sockets |-> <<>>] /\ inbox' = [i \in Sockets |-> {}]
  /\ stage' = [m \in Messages |-> "idle"]
  /\ seen' = saved
  /\ UNCHANGED <<mailbox, saved, applied, drops>>
-----------------------------------------------------------------------------
(* The relay *)

\* Its capabilities, the first frame it sends, reach the client at some moment
\* after the socket opened.
Capabilities(i) ==
  /\ sock[i] = "open" /\ queue[i].window = 0 /\ ~queue[i].closed
  /\ queue' = [queue EXCEPT ![i] = Schedule([@ EXCEPT !.window = Window])]
  /\ UNCHANGED <<connection, wire, job, mailbox, inbound, counters>>

RelayReads(i) ==
  /\ wire[i] # <<>>
  /\ wire' = [wire EXCEPT ![i] = Tail(@)]
  /\ mailbox' = IF Head(wire[i]).kind = "ack" THEN mailbox \ {Head(wire[i]).of} ELSE mailbox
  /\ UNCHANGED <<connection, queue, job, inbound, counters>>

\* relay.ingress: what the relay has read, counted from the first frame.
Ingress(i) ==
  /\ sock[i] = "open" /\ queue[i].window # 0
  /\ LET read == queue[i].sent - Len(wire[i]) IN
     /\ read > queue[i].received
     /\ queue' = [queue EXCEPT ![i] = Schedule([@ EXCEPT !.received = read])]
  /\ UNCHANGED <<connection, wire, job, mailbox, inbound, counters>>

\* It delivers a stored message again over the same socket only when the
\* acknowledgement of an earlier copy is not under way on it.
AckUnderWay(i, m) ==
  AckOf(m) \in Elements(queue[i].controls \o wire[i]) \cup {queue[i].inFlight}

Deliver(i, m) ==
  /\ sock[i] = "open" /\ queue[i].window # 0
  /\ m \in mailbox \ inbox[i] /\ ~AckUnderWay(i, m)
  /\ inbox' = [inbox EXCEPT ![i] = @ \cup {m}]
  /\ UNCHANGED <<connection, queue, wire, job, mailbox, stage, seen, saved, applied, counters>>
-----------------------------------------------------------------------------
(* Acceptance *)

\* ackDelivery(): on whatever socket is open by now.
Ack(m) ==
  queue' = IF IsConnected THEN [queue EXCEPT ![ws] = Enqueue(@, AckOf(m), TRUE)] ELSE queue

\* onRaw(), up to the consumers: an accepted copy is acknowledged again, a copy
\* of one being handled is left without an answer.
Receive(i, m) ==
  /\ m \in inbox[i]
  /\ inbox' = [inbox EXCEPT ![i] = @ \ {m}]
  /\ CASE m \in Elements(seen) -> Ack(m) /\ UNCHANGED stage
       [] m \notin Elements(seen) /\ stage[m] # "idle" -> UNCHANGED <<queue, stage>>
       [] OTHER -> stage' = [stage EXCEPT ![m] = "listening"] /\ UNCHANGED queue
  /\ UNCHANGED <<connection, wire, job, mailbox, seen, saved, applied, counters>>

\* The consumers took it durably, before onRaw continues.
Apply(m) ==
  /\ stage[m] = "listening"
  /\ applied' = [applied EXCEPT ![m] = @ + 1]
  /\ stage' = [stage EXCEPT ![m] = "accepting"]
  /\ UNCHANGED <<connection, queue, wire, job, mailbox, inbox, seen, saved, counters>>

\* No consumer took it: no fingerprint and no acknowledgement.
Decline(m) ==
  /\ stage[m] = "listening"
  /\ stage' = [stage EXCEPT ![m] = "idle"]
  /\ UNCHANGED <<connection, queue, wire, job, mailbox, inbox, seen, saved, applied, counters>>

Remember(m) ==
  LET longer == Append(seen, m) IN
  IF Len(longer) > MaxFingerprints THEN Tail(longer) ELSE longer

\* accept(): a refused save is made good by the next one.
Accept(m) ==
  /\ stage[m] = "accepting"
  /\ seen' = Remember(m)
  /\ saved' = Remember(m) \/ UNCHANGED saved
  /\ stage' = [stage EXCEPT ![m] = "idle"]
  /\ Ack(m)
  /\ UNCHANGED <<connection, wire, job, mailbox, inbox, applied, counters>>
-----------------------------------------------------------------------------
Transport(i) ==
  Pump(i) \/ Written(i) \/ Closed(i) \/ Capabilities(i) \/ RelayReads(i) \/ Ingress(i) \/ Open(i)

Next ==
  \/ Connect \/ RetryFires \/ HeadersFail \/ Close \/ Crash
  \/ \E i \in Sockets : Transport(i) \/ CreateSocket(i) \/ Lose(i) \/ \E m \in Messages : Deliver(i, m) \/ Receive(i, m)
  \/ \E m \in Messages : Apply(m) \/ Decline(m) \/ Accept(m)
  \/ \E j \in Jobs : Send(j)

Spec == Init /\ [][Next]_vars

\* Timers fire and promises settle; the relay reads, answers and delivers again
\* what it stores; a consumer does not decline for ever.
FairSpec ==
  /\ Spec /\ WF_vars(RetryFires) /\ WF_vars(\E i \in Sockets : CreateSocket(i))
  /\ \A i \in Sockets : WF_vars(Pump(i)) /\ WF_vars(Written(i)) /\ WF_vars(Closed(i))
       /\ WF_vars(RelayReads(i)) /\ WF_vars(Ingress(i)) /\ WF_vars(Open(i)) /\ WF_vars(Capabilities(i))
  /\ \A m \in Messages : SF_vars(Apply(m)) /\ WF_vars(Accept(m))
       /\ \A i \in Sockets : SF_vars(Deliver(i, m)) /\ WF_vars(Receive(i, m))
-----------------------------------------------------------------------------
\* The client never has two usable sockets: what is open, or opening, is what it
\* sends through, across close(), reconnection and late close events.
OneSocket == \A i \in Sockets : sock[i] \in {"connecting", "open"} => ws = i

\* A stored message is applied, and once.  The relay forgets it only after a
\* consumer durably accepted it (README.md of packages/core, "relay ACK waits
\* until one consumer ... accepts"); the copies delivered again, over one socket
\* or several, reach the consumer once per life of the process; and what is
\* recorded on disk is not applied again, restarts included.
AppliedOnce ==
  /\ [](\A m \in Messages : (m \notin mailbox => applied[m] > 0) /\ applied[m] <= 1 + crashes)
  /\ [][\A m \in Messages : m \in Elements(saved) => applied'[m] = applied[m]]_vars

\* Nothing waits for good.  Every send() settles, written or rejected with its
\* socket: the relay's credit, a dead socket and close() cannot leave it waiting.
\* A stored message is accepted and acknowledged in the end, whatever was lost
\* on the way, unless the owner closes the client.
Drains ==
  /\ \A j \in Jobs : job[j] = "pending" ~> job[j] \in {"resolved", "rejected"}
  /\ \A m \in Messages : m \in mailbox ~> m \notin mailbox \/ intentional
=============================================================================
