----------------------------- MODULE TaskTransfer -----------------------------
(****************************************************************************)
(* A Task moves from a chat on one computer to a prepared chat on another   *)
(* (apps/bridge/src/task-network and task-transfer).  The source saves a    *)
(* draft, marks its chat with a notice that holds further turns back,       *)
(* reconfirms what it captured and uploads the job.  The destination keeps  *)
(* the job, claims it, prepares a chat that starts with the person's first  *)
(* message, keeps its answer and finishes the job; the source reads the     *)
(* answer from the relay.  Every side may stop between two writes.          *)
(*                                                                          *)
(* All the transfers are of one source chat.  Contents, encryption and      *)
(* sizes are left out; so are transfers inside one computer, automatic      *)
(* routing and the age at which an unanswered job is given up.              *)
(****************************************************************************)
EXTENDS Naturals, FiniteSets

CONSTANTS
  Transfers, CreatedAt,      \* CreatedAt[t]: transfers are told apart and ordered by it
  Receivers,                 \* the monitor processes of the destination
  Instances,                 \* the runs looked at, each with its bounds
  None

ASSUME TaskTransferAssumption ==
  /\ CreatedAt \in [Transfers -> Nat]
  /\ \A t, u \in Transfers : CreatedAt[t] = CreatedAt[u] => t = u
  /\ None \notin Transfers \cup Receivers
  /\ Instances \subseteq [transfers : SUBSET Transfers, receivers : SUBSET Receivers,
                          revisions : Nat, failures : Nat]

VARIABLES
  outbox, revision,     \* the source's record of t, and the grant it was made under
  notice,               \* what holds the source chat back
  submit,               \* the process that submits t: what it does next
  call,                 \* call[c][t]: where c's exchange with the relay about t is
  ended, applied,       \* the source chat's execution in the Mesh store; results applied there
  job,                  \* the relay's mailbox
  issued, grant,        \* the Project grant's latest revision, and what each computer has
  inbox,                \* the destination's record of t
  prepared, launcher,   \* the prepared chat of t, and the process that launches it
  queue, at,            \* the headers a receiver's tick has still to see, and where it is
  failures,             \* processes stopped or stalled, and messages lost
  instance,             \* the transfers that are tried, the receivers that run, and
                        \* how often the grant is changed and something fails
  consented, launches   \* history: transfers the person continued the source despite;
                        \* how often a provider was started for t

sourceVars == <<outbox, revision, notice, submit, call, ended, applied, consented>>
targetVars == <<inbox, prepared, launcher, queue, at, launches>>
vars == <<sourceVars, job, issued, grant, targetVars, failures, instance>>

Callers == {"submitter", "monitor"}
Sent == {"uploading", "queued", "accepted"}
Final == {"completed", "failed"}

\* Mutant: the relay is given the word of the inbox.
Outcome_Raw(answer) == answer
Outcome(answer) == IF answer = "accepted" THEN "completed" ELSE "failed"

NoNotice == [transfer |-> None, pending |-> FALSE, continued |-> FALSE]
Idle == [step |-> "idle", put |-> FALSE, receipt |-> "none"]
Resting == [step |-> "idle", transfer |-> None, started |-> FALSE, answer |-> "none"]
Unseen == [phase |-> "none", owner |-> None, started |-> FALSE, result |-> "none"]
Header == [transfer : Transfers, phase : {"staged", "preparing", "result"}, started : BOOLEAN]

TypeOK ==
  /\ outbox \in [Transfers -> {"none", "drafting"} \cup Sent \cup Final]
  /\ revision \in [Transfers -> 0..issued]
  /\ notice \in [transfer : Transfers \cup {None}, pending : BOOLEAN, continued : BOOLEAN]
  /\ submit \in [Transfers -> {"idle", "staged", "confirming", "done"}]
  /\ call \in [Callers -> [Transfers -> [step : {"idle", "withdraw", "wait", "read"},
                 put : BOOLEAN, receipt : {"none", "queued", "accepted"} \cup Final]]]
  /\ ended \in BOOLEAN /\ applied \subseteq Transfers
  /\ job \in [Transfers -> {"none", "queued", "accepted"} \cup Final]
  /\ instance \in Instances
  /\ issued \in 0..instance.revisions /\ grant \in [{"source", "target"} -> 0..issued]
  /\ inbox \in [Transfers -> [phase : {"none", "staged", "preparing", "result", "completed"},
                  owner : Receivers \cup {None}, started : BOOLEAN,
                  result : {"none", "accepted", "refused"}]]
  /\ prepared \in [Transfers -> {"none", "prepared", "starting", "active", "uncertain"}]
  /\ launcher \in [Transfers -> Receivers \cup {None}]
  /\ queue \in [Receivers -> SUBSET Header]
  /\ at \in [Receivers -> [step : {"idle", "claim", "refresh", "prepare", "save", "finish"},
               transfer : Transfers \cup {None}, started : BOOLEAN,
               answer : {"none", "accepted", "refused"}]]
  /\ failures \in 0..instance.failures
  /\ consented \subseteq Transfers /\ launches \in [Transfers -> Nat]

Init ==
  /\ outbox = [t \in Transfers |-> "none"] /\ revision = [t \in Transfers |-> 0]
  /\ notice = NoNotice
  /\ submit = [t \in Transfers |-> "idle"]
  /\ call = [c \in Callers |-> [t \in Transfers |-> Idle]]
  /\ ended = FALSE /\ applied = {}
  /\ job = [t \in Transfers |-> "none"]
  /\ issued = 0 /\ grant = [c \in {"source", "target"} |-> 0]
  /\ inbox = [t \in Transfers |-> Unseen]
  /\ prepared = [t \in Transfers |-> "none"] /\ launcher = [t \in Transfers |-> None]
  /\ queue = [r \in Receivers |-> {}] /\ at = [r \in Receivers |-> Resting]
  /\ failures = 0 /\ instance \in Instances
  /\ consented = {} /\ launches = [t \in Transfers |-> 0]
-----------------------------------------------------------------------------
(* The notice on the source chat *)

\* record(): an older transfer changes nothing; an answer promotes its own
\* pending notice and keeps the person's consent.
Recorded(t, pending) ==
  LET same == notice.transfer = t
      promotion == same /\ notice.pending /\ ~pending
  IN IF notice.transfer # None /\ ~promotion /\ CreatedAt[notice.transfer] >= CreatedAt[t]
     THEN notice
     ELSE [transfer |-> t, pending |-> pending, continued |-> same /\ notice.continued]

\* Mutant: whatever notice is pending.
Withdrawn_Any(t) == IF notice.pending THEN NoNotice ELSE notice

\* withdrawPending(): only the pending notice of this very transfer.
Withdrawn(t) == IF notice.transfer = t /\ notice.pending THEN NoNotice ELSE notice

\* continue() and handleTransferContinuation(): the person wants both branches.
Continue ==
  /\ notice.transfer # None /\ ~notice.continued
  /\ notice' = [notice EXCEPT !.continued = TRUE]
  /\ consented' = consented \cup {notice.transfer}
  /\ UNCHANGED <<outbox, revision, submit, call, ended, applied, job, issued, grant, targetVars,
                 failures>>

\* The catalog's reading of the continued chat opens its execution again.
Reopen ==
  /\ ended /\ notice.continued
  /\ ended' = FALSE
  /\ UNCHANGED <<outbox, revision, notice, submit, call, applied, consented, job, issued, grant,
                 targetVars, failures>>
-----------------------------------------------------------------------------
(* The source *)

Outgoing == {t \in Transfers : outbox[t] \in {"drafting"} \cup Sent}
CanUpload(t) == grant["source"] = revision[t]

SourceKeeps == UNCHANGED <<job, issued, grant, targetVars, failures>>

\* submitNetworkTransfer(): the execution of the chat must be open.
Submittable(t) == submit[t] = "idle" /\ ~ended

\* submit() and stage(): no other transfer of the chat is under way.
Stage(t) ==
  /\ Submittable(t) /\ Outgoing = {}
  /\ \A u \in instance.transfers : CreatedAt[u] < CreatedAt[t] => submit[u] # "idle"
  /\ submit' = [submit EXCEPT ![t] = "staged"]
  /\ outbox' = [outbox EXCEPT ![t] = "drafting"]
  /\ revision' = [revision EXCEPT ![t] = grant["source"]]
  /\ UNCHANGED <<notice, call, ended, applied, consented>> /\ SourceKeeps

RecordPending(t) ==
  /\ submit[t] = "staged"
  /\ submit' = [submit EXCEPT ![t] = "confirming"]
  /\ notice' = Recorded(t, TRUE)
  /\ UNCHANGED <<outbox, revision, call, ended, applied, consented>> /\ SourceKeeps

\* discardDraft(), and what c does next about a draft it discarded.
Discard(c, t) ==
  IF outbox[t] = "drafting"
  THEN /\ outbox' = [outbox EXCEPT ![t] = "failed"]
       /\ call' = [call EXCEPT ![c][t].step = "withdraw"]
  ELSE UNCHANGED <<outbox, call>>

\* reconcile() writes to the relay: an upload under the grant of the draft's making,
\* a question otherwise.
Contact(c, t, state) ==
  call' = [call EXCEPT ![c][t] = [Idle EXCEPT !.step = "wait", !.put = state = "uploading" /\ CanUpload(t)]]

\* activate(): a draft that was given up meanwhile stays so.
Activate(t) ==
  IF outbox[t] = "drafting"
  THEN /\ outbox' = [outbox EXCEPT ![t] = "uploading"]
       /\ Contact("submitter", t, "uploading")
  ELSE UNCHANGED <<outbox, call>>

\* The rest of submit(), after the capture was, or was not, confirmed again.
Confirm(t) ==
  /\ submit[t] = "confirming"
  /\ submit' = [submit EXCEPT ![t] = "done"]
  /\ \E confirmed \in BOOLEAN :
       IF confirmed /\ CanUpload(t) THEN Activate(t) ELSE Discard("submitter", t)
  /\ UNCHANGED <<revision, notice, ended, applied, consented>> /\ SourceKeeps

\* failDraft(): the draft is given up first, the notice after it.
Withdraw(c, t) ==
  /\ call[c][t].step = "withdraw"
  /\ notice' = Withdrawn(t)
  /\ call' = [call EXCEPT ![c][t] = Idle]
  /\ UNCHANGED <<outbox, revision, submit, ended, applied, consented>> /\ SourceKeeps

\* tick(): the monitor looks at every unanswered transfer again.  A draft is old
\* after a minute, however far its submission is.
Resume(t) ==
  /\ call["monitor"][t].step = "idle"
  /\ \/ outbox[t] = "drafting" /\ Discard("monitor", t)
     \/ outbox[t] \in Sent /\ Contact("monitor", t, outbox[t]) /\ UNCHANGED outbox
  /\ UNCHANGED <<revision, notice, submit, ended, applied, consented>> /\ SourceKeeps

\* The relay: an upload is kept once, and answered like a question about it.
Kept(c, t) == IF call[c][t].put /\ job[t] = "none" THEN "queued" ELSE job[t]
Answer(c, t) ==
  /\ call[c][t].step = "wait"
  /\ job' = [job EXCEPT ![t] = Kept(c, t)]
  /\ call' = [call EXCEPT ![c][t] = IF Kept(c, t) = "none" THEN Idle
       ELSE [@ EXCEPT !.step = "read", !.receipt = Kept(c, t)]]
  /\ UNCHANGED <<outbox, revision, notice, submit, ended, applied, consented, issued, grant,
                 targetVars, failures>>

\* onResult(): not for a chat whose notice is of a later transfer.
Applied(t, note) == IF note.transfer = t THEN applied \cup {t} ELSE applied

\* acceptReceipt(): an answer is noted, applied to the Mesh store while the notice
\* is still this transfer's, and closes the record; a refusal frees the chat.
ReadReceipt(c, t) ==
  /\ call[c][t].step = "read"
  /\ call' = [call EXCEPT ![c][t] = Idle]
  /\ LET receipt == call[c][t].receipt
         note == IF receipt = "completed" THEN Recorded(t, FALSE) ELSE notice
     IN /\ outbox' = IF outbox[t] \in Final THEN outbox ELSE [outbox EXCEPT ![t] = receipt]
        /\ IF receipt \in Final
           THEN /\ applied' = Applied(t, note)
                /\ ended' = (ended \/ (t \in applied' \ applied /\ receipt = "completed"))
                /\ notice' = IF receipt = "failed" THEN Withdrawn(t) ELSE note
           ELSE UNCHANGED <<notice, applied, ended>>
  /\ UNCHANGED <<revision, submit, consented>> /\ SourceKeeps

SourceStep(t) ==
  \/ Stage(t) \/ RecordPending(t) \/ Confirm(t) \/ Resume(t)
  \/ \E c \in Callers : Withdraw(c, t) \/ Answer(c, t) \/ ReadReceipt(c, t)
-----------------------------------------------------------------------------
(* The grant *)

Issue ==
  /\ issued < instance.revisions
  /\ issued' = issued + 1
  /\ UNCHANGED <<sourceVars, job, grant, targetVars, failures>>

\* configure(): the messages of a controller come in any order, the latest stays.
Configure(computer) ==
  /\ \E r \in grant[computer] + 1 .. issued : grant' = [grant EXCEPT ![computer] = r]
  /\ UNCHANGED <<sourceVars, job, issued, targetVars, failures>>
-----------------------------------------------------------------------------
(* The destination *)

TargetKeeps == UNCHANGED <<sourceVars, issued, failures>>

\* offer(), openPeerTaskOffer() and stage().
Offer(t) ==
  /\ job[t] = "queued" /\ inbox[t].phase = "none"
  /\ grant["target"] = revision[t]
  /\ inbox' = [inbox EXCEPT ![t].phase = "staged"]
  /\ UNCHANGED <<job, grant, prepared, launcher, queue, at, launches>> /\ TargetKeeps

\* tick(): the headers are read once, and worked on one after another.
Tick(r) ==
  /\ at[r].step = "idle" /\ queue[r] = {}
  /\ queue' = [queue EXCEPT ![r] =
       {[transfer |-> t, phase |-> inbox[t].phase, started |-> inbox[t].started] :
          t \in {u \in Transfers : inbox[u].phase \in {"staged", "preparing", "result"}}}]
  /\ queue'[r] # {}
  /\ UNCHANGED <<job, grant, inbox, prepared, launcher, at, launches>> /\ TargetKeeps

\* ownerAlive() says no of a process that is gone, and after 15 minutes of any: the
\* owner of a preparation that takes longer is stalled.
Stalled(r, t) ==
  inbox[t].phase = "preparing" /\ inbox[t].owner \notin {r, None} /\ failures < instance.failures
Free(r, t) ==
  \/ inbox[t].phase = "staged"
  \/ inbox[t].phase = "preparing" /\ inbox[t].owner \in {r, None}
  \/ Stalled(r, t)

\* process(): a saved answer is only to be finished; acquire() the rest.
Take(r, h) ==
  /\ at[r].step = "idle" /\ h \in queue[r]
  /\ queue' = [queue EXCEPT ![r] = @ \ {h}]
  /\ LET t == h.transfer IN
     \/ /\ h.phase = "result"
        /\ at' = [at EXCEPT ![r] = [Resting EXCEPT !.step = "finish", !.transfer = t]]
        /\ UNCHANGED <<inbox, failures>>
     \/ /\ h.phase # "result" /\ Free(r, t)
        /\ inbox' = [inbox EXCEPT ![t].phase = "preparing", ![t].owner = r]
        /\ at' = [at EXCEPT ![r] = [Resting EXCEPT !.step = "claim", !.transfer = t, !.started = h.started]]
        /\ failures' = IF Stalled(r, t) THEN failures + 1 ELSE failures
     \/ h.phase # "result" /\ (Free(r, t) => Stalled(r, t)) /\ UNCHANGED <<inbox, at, failures>>
  /\ UNCHANGED <<sourceVars, job, issued, grant, prepared, launcher, launches>>

Go(r, step, answer) == at' = [at EXCEPT ![r].step = step, ![r].answer = answer]
Rest(r) == at' = [at EXCEPT ![r] = Resting]

\* The relay's claim: the destination's claim id is the same every time.
Claimed(t) == IF job[t] = "queued" THEN "accepted" ELSE job[t]
Claim(r) ==
  /\ at[r].step = "claim"
  /\ LET t == at[r].transfer IN
     /\ job' = [job EXCEPT ![t] = Claimed(t)]
     /\ IF Claimed(t) = "accepted" THEN Go(r, "refresh", "none") ELSE Rest(r)
  /\ UNCHANGED <<grant, inbox, prepared, launcher, queue, launches>> /\ TargetKeeps

Owns(r, t) == inbox[t].phase = "preparing" /\ inbox[t].owner = r

\* recoverNetworkTransfer(): what is prepared is reported, nothing is made.
Recovered(t) == IF prepared[t] # "none" THEN "accepted" ELSE "refused"

\* The destination asks for the grant before each job.
Fetched == [grant EXCEPT !["target"] = issued]

\* process(): the latest grant is fetched; under it the work begins, without it the receiver
\* reports what is there, if the header it read said that work had begun.
Refresh(r) ==
  /\ at[r].step = "refresh"
  /\ grant' = Fetched
  /\ LET t == at[r].transfer IN
     IF revision[t] = issued
     THEN IF Owns(r, t)
          THEN inbox' = [inbox EXCEPT ![t].started = TRUE] /\ Go(r, "prepare", "none")
          ELSE Rest(r) /\ UNCHANGED inbox
     ELSE Go(r, "save", IF at[r].started THEN Recovered(t) ELSE "refused") /\ UNCHANGED inbox
  /\ UNCHANGED <<job, prepared, launcher, queue, launches>> /\ TargetKeeps

\* prepare(): the chat of a transfer is made once.
Made(t) == IF prepared[t] = "none" THEN [prepared EXCEPT ![t] = "prepared"] ELSE prepared

\* prepareNetworkTransfer(): refused whenever the checkout, the agent, another owner
\* of the Task or a claim of its files stands in the way.
Prepare(r) ==
  /\ at[r].step = "prepare"
  /\ LET t == at[r].transfer IN
     \/ Go(r, "save", "refused") /\ UNCHANGED prepared
     \/ /\ Go(r, "save", "accepted")
        /\ prepared' = Made(t)
  /\ UNCHANGED <<job, grant, inbox, launcher, queue, launches>> /\ TargetKeeps

\* Mutant: whoever comes last has its answer kept.
Save_Unfenced(r) ==
  /\ at[r].step = "save"
  /\ inbox' = [inbox EXCEPT ![at[r].transfer].phase = "result", ![at[r].transfer].result = at[r].answer]
  /\ Go(r, "finish", at[r].answer)
  /\ UNCHANGED <<job, grant, prepared, launcher, queue, launches>> /\ TargetKeeps

\* saveResult(): only the owner of the preparation.
Save(r) ==
  /\ at[r].step = "save"
  /\ LET t == at[r].transfer IN
     IF Owns(r, t)
     THEN /\ inbox' = [inbox EXCEPT ![t].phase = "result", ![t].result = at[r].answer]
          /\ Go(r, "finish", at[r].answer)
     ELSE Rest(r) /\ UNCHANGED inbox
  /\ UNCHANGED <<job, grant, prepared, launcher, queue, launches>> /\ TargetKeeps

\* The relay keeps the first answer.
Finished(t) == IF job[t] \in Final THEN job[t] ELSE Outcome(inbox[t].result)

\* complete(): the destination's record closes.
Closed(t) == [inbox EXCEPT ![t].phase = "completed", ![t].owner = None]

\* finish(): the saved answer goes to the relay, and must be the one it keeps.
Finish(r) ==
  /\ at[r].step = "finish"
  /\ Rest(r)
  /\ LET t == at[r].transfer IN
     /\ job' = [job EXCEPT ![t] = Finished(t)]
     /\ inbox' = IF Finished(t) = Outcome(inbox[t].result) THEN Closed(t) ELSE inbox
  /\ UNCHANGED <<grant, prepared, launcher, queue, launches>> /\ TargetKeeps

ReceiverStep(r) ==
  \/ (\E h \in queue[r] : Take(r, h))
  \/ Claim(r) \/ Refresh(r) \/ Prepare(r) \/ Save(r) \/ Finish(r)
-----------------------------------------------------------------------------
(* The prepared chat *)

ChatKeeps == UNCHANGED <<job, grant, inbox, queue, at>> /\ TargetKeeps

\* deliver(): the first message of a chat that is not started.  The launch is on disk
\* before the provider is called, and the phase is read again under the lock.
Launch(r, t) ==
  /\ prepared[t] = "prepared"
  /\ prepared' = [prepared EXCEPT ![t] = "starting"] /\ launcher' = [launcher EXCEPT ![t] = r]
  /\ launches' = [launches EXCEPT ![t] = @ + 1]
  /\ ChatKeeps

\* The provider answers: the chat is its native session's, or its start is unclear.
Launched(r, t) ==
  /\ prepared[t] = "starting" /\ launcher[t] = r
  /\ \E phase \in {"active", "uncertain"} : prepared' = [prepared EXCEPT ![t] = phase]
  /\ launcher' = [launcher EXCEPT ![t] = None]
  /\ UNCHANGED launches /\ ChatKeeps

\* Mutant: a launch that was interrupted is offered again.
Sweep_Again(t) ==
  /\ prepared[t] = "starting" /\ launcher[t] = None
  /\ prepared' = [prepared EXCEPT ![t] = "prepared"]
  /\ UNCHANGED <<launcher, launches>> /\ ChatKeeps

\* catalog(): a launch whose process is gone is unclear too.
Sweep(t) ==
  /\ prepared[t] = "starting" /\ launcher[t] = None
  /\ prepared' = [prepared EXCEPT ![t] = "uncertain"]
  /\ UNCHANGED <<launcher, launches>> /\ ChatKeeps
-----------------------------------------------------------------------------
(* Failures *)

\* The destination's request, or its answer, is lost: the tick goes on with the next.
ReceiverFault(r) ==
  /\ at[r].step \in {"claim", "refresh", "finish"} /\ failures < instance.failures
  /\ failures' = failures + 1
  /\ Rest(r)
  /\ LET t == at[r].transfer IN
     \/ UNCHANGED job
     \/ at[r].step = "claim" /\ job' = [job EXCEPT ![t] = Claimed(t)]
     \/ at[r].step = "finish" /\ job' = [job EXCEPT ![t] = Finished(t)]
  /\ UNCHANGED <<sourceVars, issued, grant, inbox, prepared, launcher, queue, launches>>

SourceFault(c, t) ==
  /\ call[c][t].step = "wait" /\ failures < instance.failures
  /\ failures' = failures + 1
  /\ call' = [call EXCEPT ![c][t] = Idle]
  /\ job' \in {job, [job EXCEPT ![t] = Kept(c, t)]}
  /\ UNCHANGED <<outbox, revision, notice, submit, ended, applied, consented, issued, grant,
                 targetVars>>

\* A process of the source stops between two of its writes; one that stops while
\* it waits for the relay is SourceFault.
SourceCrash(c, t) ==
  /\ failures < instance.failures
  /\ failures' = failures + 1
  /\ \/ call[c][t].step = "withdraw"
     \/ c = "submitter" /\ submit[t] \in {"staged", "confirming"}
  /\ call' = [call EXCEPT ![c][t] = Idle]
  /\ submit' = IF c = "submitter" THEN [submit EXCEPT ![t] = "done"] ELSE submit
  /\ UNCHANGED <<outbox, revision, notice, ended, applied, consented, job, issued, grant, targetVars>>

\* A monitor of the destination stops, and another starts in its place.
ReceiverCrash(r) ==
  /\ failures < instance.failures
  /\ failures' = failures + 1
  /\ at[r].step # "idle" \/ r \in {launcher[t] : t \in Transfers}
  /\ at' = [at EXCEPT ![r] = Resting] /\ queue' = [queue EXCEPT ![r] = {}]
  /\ inbox' = [t \in Transfers |-> IF inbox[t].owner = r THEN [inbox[t] EXCEPT !.owner = None] ELSE inbox[t]]
  /\ launcher' = [t \in Transfers |-> IF launcher[t] = r THEN None ELSE launcher[t]]
  /\ UNCHANGED <<sourceVars, job, issued, grant, prepared, launches>>

World ==
  \/ Continue \/ Reopen \/ Issue
  \/ \E computer \in {"source", "target"} : Configure(computer)

Next ==
  /\ \/ World
     \/ \E t \in instance.transfers :
          \/ SourceStep(t) \/ Offer(t) \/ Sweep(t)
          \/ \E c \in Callers : SourceFault(c, t) \/ SourceCrash(c, t)
     \/ \E r \in instance.receivers :
          \/ Tick(r) \/ ReceiverStep(r) \/ ReceiverFault(r) \/ ReceiverCrash(r)
          \/ \E t \in instance.transfers : Launch(r, t) \/ Launched(r, t)
  /\ UNCHANGED instance

Spec == Init /\ [][Next]_vars

\* The monitors' timers go on and fetch the grants, the relay offers what it keeps
\* and answers.
FairSpec ==
  /\ Spec
  /\ \A computer \in {"source", "target"} : WF_vars(Configure(computer) /\ UNCHANGED instance)
  /\ \A t \in Transfers :
       /\ WF_vars(Resume(t) /\ UNCHANGED instance) /\ WF_vars(Offer(t) /\ UNCHANGED instance)
       /\ WF_vars((Answer("monitor", t) \/ ReadReceipt("monitor", t)) /\ UNCHANGED instance)
  /\ \A r \in Receivers :
       WF_vars(r \in instance.receivers /\ (Tick(r) \/ ReceiverStep(r)) /\ UNCHANGED instance)
-----------------------------------------------------------------------------
(* Properties *)

\* The first message of a prepared chat starts one native execution, whatever
\* process delivers it, however often it is sent and wherever a launch stops.
OneNativeExecution == \A t \in Transfers : launches[t] <= 1

\* The source hears the truth, and waits for it.  It is told "transferred" only of
\* a chat the destination keeps; and while the destination keeps a chat for a
\* transfer it did not refuse, the source chat is held back, or the person chose
\* to continue both.
SourceWaits ==
  \A t \in Transfers :
    /\ outbox[t] = "completed" => prepared[t] # "none"
    /\ prepared[t] # "none" /\ inbox[t].result # "refused" =>
         \/ notice.transfer # None /\ ~notice.continued
         \/ t \in consented

\* An answer that is kept is never replaced, on the destination or on the relay.
AnswerStands ==
  [][\A t \in Transfers : /\ inbox[t].result # "none" => inbox'[t].result = inbox[t].result
                          /\ job[t] \in Final => job'[t] = job[t]]_vars

\* A job the relay keeps is answered, and the source learns of it, as long as the
\* Project grant is not changed under it.
Answered ==
  \A t \in Transfers : job[t] # "none" ~> outbox[t] \in Final \/ issued # revision[t]

\* Every job the relay keeps gets one answer, and the source hears that one.
AnsweredOnce == AnswerStands /\ Answered
=============================================================================
