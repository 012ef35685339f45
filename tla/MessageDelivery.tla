--------------------------- MODULE MessageDelivery ---------------------------
(****************************************************************************)
(* A message from the phone to an open chat: monitor/message-delivery,      *)
(* monitor/handlers/user-message, reply/in-flight and the ledger of         *)
(* delivery/index.ts, which all monitors of a computer share.               *)
(*                                                                          *)
(* The relay offers a message until a monitor acknowledges it, the phone    *)
(* sends it again while it has no answer, and a monitor may crash, lose the *)
(* lease or lose a receipt at every await.  A handler runs from one await   *)
(* to the next in one action.  The ledger's read and write lie in such a    *)
(* stretch; those of two processes are taken not to fall between each       *)
(* other, which no lock guarantees.                                         *)
(*                                                                          *)
(* Two spans of time are taken from the code: a handler ends well within    *)
(* the eleven minutes of its ledger entry, and a message is not sent again  *)
(* after the seven days a finished entry is kept.                           *)
(****************************************************************************)
EXTENDS Naturals, Sequences, FiniteSets

CONSTANTS
  Monitors,     \* monitors of one computer
  Messages,     \* messages to one chat
  Copies,       \* ciphertexts under way; a later one is sent again under the same name
  Of,           \* the message of each copy
  MaxLeaders,   \* monitors that may believe they lead at one time
  MaxFaults     \* bound: crashes, changes of leader, lost receipts, refused writes

ASSUME DeliveryAssumption ==
  /\ Of \in [Copies -> Messages]
  /\ {MaxLeaders, MaxFaults} \subseteq Nat

VARIABLES
  box,        \* each copy at the relay
  ledger,     \* delivery-ledger.json
  leads,      \* the monitors whose acquire() answers true
  at,         \* at[w][c]: where monitor w stands in its handler of copy c
  queue,      \* the provider runs of the chat each monitor has in flight
  running,    \* its first run has started
  told,       \* the receipt the phone saw last
  taken,      \* runs of each message that did not fail at once
  cut,        \* how often a crash or a refused write cut its handling short
  overtaken,  \* messages whose refusal the phone missed or saw contradicted
  faults

vars == <<box, ledger, leads, at, queue, running, told, taken, cut, overtaken, faults>>

\* A ledger entry; `old` when its eleven minutes are over.
NoEntry == [state |-> "none", acknowledged |-> FALSE, rejected |-> FALSE, old |-> FALSE]
Processing == [NoEntry EXCEPT !.state = "processing"]
Entries == [state : {"none", "processing", "completed"},
            acknowledged : BOOLEAN, rejected : BOOLEAN, old : BOOLEAN]
Runs == [copy : Copies, late : BOOLEAN]
Places == {"idle", "begun", "acknowledged", "window", "succeeded", "failed"}

Init ==
  /\ box = [c \in Copies |-> "phone"]
  /\ ledger = [m \in Messages |-> NoEntry]
  /\ leads = {}
  /\ at = [w \in Monitors |-> [c \in Copies |-> "idle"]]
  /\ queue = [w \in Monitors |-> <<>>]
  /\ running = [w \in Monitors |-> FALSE]
  /\ told = [m \in Messages |-> "nothing"]
  /\ taken = [m \in Messages |-> 0]
  /\ cut = [m \in Messages |-> 0]
  /\ overtaken = {}
  /\ faults = 0

Fault == faults < MaxFaults /\ faults' = faults + 1
-----------------------------------------------------------------------------
(* The ledger *)

Save(m, entry) == ledger' = [ledger EXCEPT ![m] = entry]

\* Mutant: an entry is taken over although its eleven minutes are not over.
BeginAnswer_NoLease(m) ==
  IF ledger[m].state = "completed" THEN "completed" ELSE "started"

\* Mutant: an entry is never taken over, however old it is.
BeginAnswer_Held(m) ==
  IF ledger[m].state = "none" THEN "started" ELSE ledger[m].state

\* beginDelivery(): the claim of a message, or why there is none.
BeginAnswer(m) ==
  CASE ledger[m].state = "completed"                   -> "completed"
    [] ledger[m].state = "processing" /\ ~ledger[m].old -> "processing"
    [] OTHER                                           -> "started"

\* completeDelivery() keeps what the entry says of a refusal.
Completed(m) == [ledger[m] EXCEPT !.state = "completed", !.old = FALSE]
Refused(m) == [ledger[m] EXCEPT !.state = "completed", !.old = FALSE, !.rejected = TRUE]
Forgotten == NoEntry
-----------------------------------------------------------------------------
(* Receipts, and the end of a handler *)

\* sendDeliveryReceipt() swallows a send that fails.
Tell(m, status) ==
  \/ told' = [told EXCEPT ![m] = status] /\ UNCHANGED <<overtaken, faults>>
  \/ /\ Fault
     /\ overtaken' = IF status = "rejected" THEN overtaken \cup {m} ELSE overtaken
     /\ UNCHANGED told
Quiet == UNCHANGED <<told, overtaken, faults>>

\* Mutant: a later copy is answered "accepted" whatever became of the first.
Repeat_Accepted(m) == Tell(m, "accepted")

\* The saved outcome, to a later copy or to a query.  A handler that has just
\* refused still holds an acknowledged entry until its own sends are over.
Repeat(m) ==
  IF ledger[m].rejected
    THEN Tell(m, "rejected")
    ELSE \/ /\ told' = [told EXCEPT ![m] = "accepted"]
            /\ overtaken' = IF \E w \in Monitors, c \in Copies : Of[c] = m /\ at[w][c] = "failed"
                              THEN overtaken \cup {m} ELSE overtaken
            /\ UNCHANGED faults
         \/ Fault /\ UNCHANGED <<told, overtaken>>

Goto(w, c, place) == at' = [at EXCEPT ![w][c] = place]
\* The listener answers true: the client acknowledges the copy to the relay.
Acknowledge(w, c) == box' = [box EXCEPT ![c] = "acknowledged"] /\ Goto(w, c, "idle")
\* It answers false: the relay offers the copy again.
Decline(w, c) == UNCHANGED box /\ Goto(w, c, "idle")
-----------------------------------------------------------------------------
(* The phone and the relay *)

\* The phone's outbox repeats a message it has no acceptance for.
Send(c) ==
  /\ box[c] \in {"phone", "acknowledged"} /\ told[Of[c]] # "accepted"
  /\ box' = [box EXCEPT ![c] = "offered"]
  /\ Quiet
  /\ UNCHANGED <<ledger, leads, at, queue, running, taken, cut>>

\* delivery.receipt.query: the saved outcome, without sending the message again.
Query(w, m) ==
  /\ w \in leads /\ told[m] = "nothing"
  /\ ledger[m].state = "completed" \/ ledger[m].acknowledged
  /\ Repeat(m)
  /\ UNCHANGED <<box, ledger, leads, at, queue, running, taken, cut>>
-----------------------------------------------------------------------------
(* handleInboundUserMessage and handleUserMessage *)

Receive(w, c) ==
  /\ w \in leads /\ box[c] = "offered" /\ at[w][c] = "idle"
  /\ LET m == Of[c] IN
       \/ /\ BeginAnswer(m) = "started"
          /\ Save(m, Processing)
          /\ Goto(w, c, "begun")
          /\ Quiet
          /\ UNCHANGED box
       \/ /\ BeginAnswer(m) # "started"
          /\ IF BeginAnswer(m) = "completed" \/ ledger[m].acknowledged THEN Repeat(m) ELSE Quiet
          /\ Acknowledge(w, c)
          /\ UNCHANGED ledger
  /\ UNCHANGED <<leads, queue, running, taken, cut>>

\* No such chat, a disabled agent, a refused capability: final, and kept.
Refuse(w, c) ==
  /\ at[w][c] = "begun"
  /\ Save(Of[c], Refused(Of[c]))
  /\ Tell(Of[c], "rejected")
  /\ Acknowledge(w, c)
  /\ UNCHANGED <<leads, queue, running, taken, cut>>

\* An attachment that never came: told first, then the claim is released.
AttachmentMissing(w, c) ==
  /\ at[w][c] = "begun"
  /\ Tell(Of[c], "rejected")
  /\ Goto(w, c, "failed")
  /\ UNCHANGED <<box, ledger, leads, queue, running, taken, cut>>

\* An exception before the agent is involved releases the claim.
Fail(w, c) ==
  /\ at[w][c] = "begun" /\ Fault
  /\ Save(Of[c], Forgotten)
  /\ Decline(w, c)
  /\ UNCHANGED <<leads, queue, running, told, taken, cut, overtaken>>

\* onProcessing(): acknowledged in the ledger, then told.
Process(w, c) ==
  /\ at[w][c] = "begun"
  /\ Save(Of[c], IF ledger[Of[c]].state = "processing"
                   THEN [Processing EXCEPT !.acknowledged = TRUE] ELSE ledger[Of[c]])
  /\ Tell(Of[c], "accepted")
  /\ Goto(w, c, "acknowledged")
  /\ UNCHANGED <<box, leads, queue, running, taken, cut>>

\* Mutant: a run replaces the chat's earlier ones.
Deliver_Replaces(w, c) ==
  /\ at[w][c] = "acknowledged"
  /\ queue' = [queue EXCEPT ![w] = <<[copy |-> c, late |-> FALSE]>>]
  /\ taken' = [taken EXCEPT ![Of[c]] = @ + 1]
  /\ Goto(w, c, "window")
  /\ Quiet
  /\ UNCHANGED <<box, ledger, leads, running, cut>>

\* deliverToSession() queues the run behind the chat's earlier ones.
Deliver(w, c) ==
  /\ at[w][c] = "acknowledged"
  /\ queue' = [queue EXCEPT ![w] = Append(@, [copy |-> c, late |-> FALSE])]
  /\ taken' = [taken EXCEPT ![Of[c]] = @ + 1]
  /\ Goto(w, c, "window")
  /\ Quiet
  /\ UNCHANGED <<box, ledger, leads, running, cut>>

\* Mutant: a failure is not told.
Blocked_Silent(w, c) ==
  /\ at[w][c] = "acknowledged"
  /\ Goto(w, c, "failed")
  /\ Quiet
  /\ UNCHANGED <<box, ledger, leads, queue, running, taken, cut>>

\* A paused or transferred chat fails at once, as a run that cannot start does.
Blocked(w, c) ==
  /\ at[w][c] = "acknowledged"
  /\ Tell(Of[c], "rejected")
  /\ Goto(w, c, "failed")
  /\ UNCHANGED <<box, ledger, leads, queue, running, taken, cut>>

\* The sends of a failure are over: the claim is released, so that a later
\* copy may try again, and this copy is acknowledged.
Abandon(w, c) ==
  /\ at[w][c] = "failed"
  /\ Save(Of[c], Forgotten)
  /\ Acknowledge(w, c)
  /\ Quiet
  /\ UNCHANGED <<leads, queue, running, taken, cut>>

Waits(w, c) == \E i \in DOMAIN queue[w] : queue[w][i] = [copy |-> c, late |-> FALSE]
MarkLate(w, c) ==
  queue' = [queue EXCEPT ![w] = [i \in DOMAIN @ |->
              IF @[i].copy = c THEN [@[i] EXCEPT !.late = TRUE] ELSE @[i]]]

\* Still going after three seconds, or successful before: delivered.  What ends
\* after the three seconds ends late.
Accepting(w, c) == (at[w][c] = "window" /\ Waits(w, c)) \/ at[w][c] = "succeeded"

Accept(w, c) ==
  /\ Accepting(w, c)
  /\ MarkLate(w, c)
  /\ Save(Of[c], Completed(Of[c]))
  /\ Tell(Of[c], "accepted")
  /\ Acknowledge(w, c)
  /\ UNCHANGED <<leads, running, taken, cut>>

\* The ledger refuses that entry: the handler releases the claim, if it can,
\* while the run goes on.
AcceptUnsaved(w, c) ==
  /\ Accepting(w, c) /\ Fault
  /\ MarkLate(w, c)
  /\ \/ Save(Of[c], Forgotten)
     \/ UNCHANGED ledger
  /\ cut' = [cut EXCEPT ![Of[c]] = @ + 1]
  /\ Decline(w, c)
  /\ UNCHANGED <<leads, running, told, taken, overtaken>>
-----------------------------------------------------------------------------
(* The runs *)

\* One run per chat at a time.
StartRun(w) ==
  /\ queue[w] # <<>> /\ ~running[w]
  /\ running' = [running EXCEPT ![w] = TRUE]
  /\ Quiet
  /\ UNCHANGED <<box, ledger, leads, at, queue, taken, cut>>

\* Output of the provider confirms the message once more, and brings back an
\* entry that was lost.
Activity(w) ==
  /\ running[w]
  /\ LET m == Of[Head(queue[w]).copy] IN
       /\ ~ledger[m].rejected
       /\ IF ledger[m] = NoEntry THEN Save(m, [NoEntry EXCEPT !.state = "completed", !.acknowledged = TRUE])
                                 ELSE UNCHANGED ledger
       /\ Tell(m, "accepted")
  /\ UNCHANGED <<box, leads, at, queue, running, taken, cut>>

Ends(w) ==
  /\ running[w]
  /\ queue' = [queue EXCEPT ![w] = Tail(@)]
  /\ running' = [running EXCEPT ![w] = FALSE]
  /\ UNCHANGED <<box, leads, cut>>

FinishLate(w) ==
  /\ Ends(w) /\ Head(queue[w]).late
  /\ Quiet
  /\ UNCHANGED <<ledger, at, taken>>

FinishEarly(w) ==
  /\ Ends(w) /\ ~Head(queue[w]).late
  /\ Goto(w, Head(queue[w]).copy, "succeeded")
  /\ Quiet
  /\ UNCHANGED <<ledger, taken>>

\* rejectCompletedDelivery(): saved, then told.
FailLate(w) ==
  /\ Ends(w) /\ Head(queue[w]).late
  /\ LET m == Of[Head(queue[w]).copy] IN Save(m, Refused(m)) /\ Tell(m, "rejected")
  /\ UNCHANGED <<at, taken>>

FailEarly(w) ==
  /\ Ends(w) /\ ~Head(queue[w]).late
  /\ LET c == Head(queue[w]).copy IN
       /\ Tell(Of[c], "rejected")
       /\ Goto(w, c, "failed")
       /\ taken' = [taken EXCEPT ![Of[c]] = @ - 1]
  /\ UNCHANGED ledger
-----------------------------------------------------------------------------
(* The surroundings *)

Elect(w) ==
  /\ w \notin leads /\ Cardinality(leads) < MaxLeaders
  /\ leads' = leads \cup {w}
  /\ Quiet
  /\ UNCHANGED <<box, ledger, at, queue, running, taken, cut>>

\* Another monitor takes the lease: what this one has begun goes on.
Depose(w) ==
  /\ w \in leads /\ Fault
  /\ leads' = leads \ {w}
  /\ UNCHANGED <<box, ledger, at, queue, running, told, taken, cut, overtaken>>

\* Handlers and runs end with their process; the ledger and the relay stay.
InHand(w, m) ==
  \/ \E c \in Copies : Of[c] = m /\ at[w][c] # "idle"
  \/ \E i \in DOMAIN queue[w] : Of[queue[w][i].copy] = m

Crash(w) ==
  /\ Fault
  /\ leads' = leads \ {w}
  /\ at' = [at EXCEPT ![w] = [c \in Copies |-> "idle"]]
  /\ queue' = [queue EXCEPT ![w] = <<>>]
  /\ running' = [running EXCEPT ![w] = FALSE]
  /\ cut' = [m \in Messages |-> IF InHand(w, m) THEN cut[m] + 1 ELSE cut[m]]
  /\ UNCHANGED <<box, ledger, told, taken, overtaken>>

Handled(m) == \E w \in Monitors, c \in Copies : Of[c] = m /\ at[w][c] # "idle"

\* Eleven minutes pass without a handler of the message.
Lapse(m) ==
  /\ ledger[m].state = "processing" /\ ~ledger[m].old /\ ~Handled(m)
  /\ ledger' = [ledger EXCEPT ![m].old = TRUE]
  /\ Quiet
  /\ UNCHANGED <<box, leads, at, queue, running, taken, cut>>
-----------------------------------------------------------------------------
Handle(w, c) ==
  \/ Receive(w, c) \/ Refuse(w, c) \/ AttachmentMissing(w, c) \/ Process(w, c)
  \/ Deliver(w, c) \/ Blocked(w, c) \/ Abandon(w, c) \/ Accept(w, c)
RunStep(w) ==
  \/ StartRun(w) \/ FinishLate(w) \/ FinishEarly(w) \/ FailLate(w) \/ FailEarly(w)

Next ==
  \/ \E c \in Copies : Send(c)
  \/ \E w \in Monitors, c \in Copies : Handle(w, c) \/ Fail(w, c) \/ AcceptUnsaved(w, c)
  \/ \E w \in Monitors : RunStep(w) \/ Activity(w) \/ Elect(w) \/ Depose(w) \/ Crash(w)
  \/ \E m \in Messages : Lapse(m) \/ \E w \in Monitors : Query(w, m)

Spec == Init /\ [][Next]_vars

\* Handlers and runs end (a run is stopped after six hours), time passes, some
\* monitor comes to lead (MonitorLeadership!OnePublisher), the relay offers
\* what is not acknowledged, and the phone sends what is not answered.
FairSpec ==
  /\ Spec
  /\ \A w \in Monitors : WF_vars(RunStep(w)) /\ WF_vars(Elect(w))
  /\ \A w \in Monitors, c \in Copies : WF_vars(Handle(w, c))
  /\ \A c \in Copies : WF_vars(Send(c))
  /\ \A m \in Messages : WF_vars(Lapse(m))
-----------------------------------------------------------------------------
(* Properties *)

TypeOK ==
  /\ box \in [Copies -> {"phone", "offered", "acknowledged"}]
  /\ ledger \in [Messages -> Entries]
  /\ leads \subseteq Monitors
  /\ at \in [Monitors -> [Copies -> Places]]
  /\ queue \in [Monitors -> Seq(Runs)]
  /\ running \in [Monitors -> BOOLEAN]
  /\ told \in [Messages -> {"nothing", "accepted", "rejected"}]
  /\ taken \in [Messages -> Nat]
  /\ cut \in [Messages -> 0..MaxFaults]
  /\ overtaken \subseteq Messages
  /\ faults \in 0..MaxFaults
  /\ \A w \in Monitors : running[w] => queue[w] # <<>>
  \* a handler inside the three seconds is one whose run has not ended
  /\ \A w \in Monitors, c \in Copies : at[w][c] = "window" => Waits(w, c)

\* The agent is given a message once, however many copies arrive and whichever
\* monitor takes them; again only after it failed at once, or once more for
\* each crash or refused write that cut its handling short.  Two handlers never
\* work on one message.
OneRun ==
  \A m \in Messages :
    /\ taken[m] <= 1 + cut[m]
    /\ \A w, v \in Monitors, c, d \in Copies :
         Of[c] = m /\ Of[d] = m /\ at[w][c] # "idle" /\ at[v][d] # "idle" => w = v /\ c = d

\* A refusal in the ledger is final: no later copy turns it into an acceptance,
\* and the agent is not asked again; unless a crash or a refused write had set
\* a second handling going beside the first one's run.
RefusalKept ==
  [][\A m \in Messages : ledger[m].rejected /\ cut[m] = 0 =>
       /\ ledger'[m].rejected
       /\ taken'[m] <= taken[m]
       /\ told'[m] = "accepted" => told[m] = "accepted"]_vars

\* A phone that reads "accepted" knows that the agent has taken the message or
\* that its handler is still at work on it, unless a crash or a refused write
\* cut the handling short, or the refusal was lost or contradicted.
AcceptedTaken ==
  \A m \in Messages :
    told[m] = "accepted" => taken[m] > 0 \/ Handled(m) \/ cut[m] > 0 \/ m \in overtaken

\* A message the relay offers is answered, whatever crashed before.
Answered == \A c \in Copies : box[c] = "offered" ~> told[Of[c]] # "nothing"
=============================================================================
