------------------------------ MODULE TaskQueue ------------------------------
(****************************************************************************)
(* The native sender (apps/bridge/src/task-dispatch/sender) composed with   *)
(* the receiver: an application on the same computer queues a message for   *)
(* one of its own chats, the relay keeps it, and TaskDispatch runs it.      *)
(*                                                                          *)
(* Of each job the sender keeps three files: the intent, which admits it,   *)
(* the encrypted body until the relay needs it no more, and the receipt,    *)
(* which says that the relay has it.  They are written by the application's *)
(* commands (submit, status, cancel), by the leading monitor, which retries *)
(* what is not confirmed, and by the receiver when a job ends.  Every call  *)
(* of the relay separates two actions.                                      *)
(*                                                                          *)
(* The capacity of 100 bodies and the contents are left out.                *)
(****************************************************************************)
EXTENDS TaskDispatch

CONSTANTS
  App,         \* the process that runs the application's commands
  MaxLosses    \* bound: lost answers and stopped processes on the sender's side

ASSUME QueueAssumption == App \notin Workers /\ MaxLosses \in Nat

VARIABLES
  intent, body, confirmed,   \* intent.json, body.json and receipt.json of each job
  call,                      \* call[c][j]: where c stands in its call about job j
  lapsed,                    \* jobs that expired before the relay had them
  losses

files == <<intent, body, confirmed>>
senderVars == <<files, call, lapsed, losses>>
queueVars == <<vars, senderVars>>

Callers == Workers \cup {App}
NoCall == [pc |-> "idle", cancels |-> FALSE, seen |-> "absent"]
Calls == [pc : {"idle", "stage", "put", "confirm", "get", "delete", "retire"},
          cancels : BOOLEAN, seen : RelayStates]

QueueTypeOK ==
  /\ TypeOK
  /\ {intent, body, confirmed} \subseteq [Jobs -> BOOLEAN]
  /\ call \in [Callers -> [Jobs -> Calls]]
  /\ lapsed \subseteq Jobs
  /\ losses \in 0..MaxLosses

QueueInit ==
  /\ Init
  /\ intent = [j \in Jobs |-> FALSE]
  /\ body = [j \in Jobs |-> FALSE]
  /\ confirmed = [j \in Jobs |-> FALSE]
  /\ call = [c \in Callers |-> [j \in Jobs |-> NoCall]]
  /\ lapsed = {}
  /\ losses = 0
-----------------------------------------------------------------------------
(* The store *)

Stands(c, j, place) == call[c][j].pc = place
Move(c, j, place) == call' = [call EXCEPT ![c][j].pc = place]
Hangup(c, j) == call' = [call EXCEPT ![c][j] = NoCall]

\* Mutant: a body that a call uploads is left to that call.
Unconfirmed_LeftToOthers(j) == intent[j] /\ ~confirmed[j] /\ \A c \in Callers : ~Stands(c, j, "put")

Unconfirmed(j) == intent[j] /\ ~confirmed[j]

\* retireIfTerminal(): a failed job keeps its body.
Over == {"completed", "cancelled", "expired"}
-----------------------------------------------------------------------------
(* The commands of the application *)

\* submit(): the body is on disk before the intent that admits the job; a body a
\* stopped process left is used again.
Submit(j) ==
  /\ Stands(App, j, "idle")
  /\ \/ ~intent[j] /\ body' = [body EXCEPT ![j] = TRUE] /\ Move(App, j, "stage")
     \/ intent[j] /\ confirmed[j] /\ Move(App, j, "get") /\ UNCHANGED body
     \/ Unconfirmed(j) /\ body[j] /\ Move(App, j, "put") /\ UNCHANGED body
  /\ UNCHANGED <<vars, intent, confirmed, lapsed, losses>>

Admit(j) ==
  /\ Stands(App, j, "stage")
  /\ intent' = [intent EXCEPT ![j] = TRUE]
  /\ Move(App, j, "put")
  /\ UNCHANGED <<vars, body, confirmed, lapsed, losses>>

AskStatus(j) ==
  /\ Stands(App, j, "idle") /\ intent[j]
  /\ Move(App, j, "get")
  /\ UNCHANGED <<vars, files, lapsed, losses>>

\* cancel(): what is not confirmed is uploaded first, so that the relay has a job to cancel.
AskCancel(j) ==
  /\ Stands(App, j, "idle") /\ intent[j]
  /\ confirmed[j] \/ body[j]
  /\ call' = [call EXCEPT ![App][j] = [@ EXCEPT !.pc = IF confirmed[j] THEN "delete" ELSE "put",
                                                !.cancels = TRUE]]
  /\ UNCHANGED <<vars, files, lapsed, losses>>

\* retryPending(): the leading monitor uploads the first of what is not confirmed,
\* and no other while that one fails.
Retry(w, j) ==
  /\ w \in leads
  /\ \A i \in Jobs : Stands(w, i, "idle") /\ (Unconfirmed(i) /\ i # j => CreatedAt[j] < CreatedAt[i])
  /\ Unconfirmed(j) /\ body[j]
  /\ Move(w, j, "put")
  /\ UNCHANGED <<vars, files, lapsed, losses>>
-----------------------------------------------------------------------------
(* The relay's answers *)

Known(j) == relay[j].state # "absent" /\ j \notin forgotten

\* PUT: the same job again changes nothing; one past its expiry is refused.
Put(c, j) ==
  /\ Stands(c, j, "put")
  /\ IF Known(j)
       THEN /\ call' = [call EXCEPT ![c][j] = [@ EXCEPT !.pc = "confirm", !.seen = relay[j].state]]
            /\ UNCHANGED vars
       ELSE IF j \in lapsed \cup forgotten
         THEN Hangup(c, j) /\ UNCHANGED vars
         ELSE /\ Queue(j)
              /\ call' = [call EXCEPT ![c][j] = [@ EXCEPT !.pc = "confirm", !.seen = "queued"]]
  /\ UNCHANGED <<files, lapsed, losses>>

\* A cancellation goes on with what no receiver has claimed, or has failed.
AfterUpload(c, j) ==
  LET seen == call[c][j].seen IN
  CASE seen \in Over -> "retire"
    [] seen \in {"queued", "failed"} /\ call[c][j].cancels -> "delete"
    [] OTHER -> "idle"

ConfirmUpload(c, j) ==
  /\ Stands(c, j, "confirm")
  /\ confirmed' = [confirmed EXCEPT ![j] = TRUE]
  /\ IF AfterUpload(c, j) = "idle" THEN Hangup(c, j) ELSE Move(c, j, AfterUpload(c, j))
  /\ UNCHANGED <<vars, intent, body, lapsed, losses>>

Status(c, j) ==
  /\ Stands(c, j, "get")
  /\ IF Known(j) /\ relay[j].state \in Over THEN Move(c, j, "retire") ELSE Hangup(c, j)
  /\ UNCHANGED <<vars, files, lapsed, losses>>

Cancellable == {"queued"} \cup IF CanCancelFailed THEN {"failed"} ELSE {}

\* DELETE; a conflict with a receiver's claim is looked up.
Delete(c, j) ==
  /\ Stands(c, j, "delete")
  /\ \/ Cancel(j) /\ Move(c, j, "retire")
     \/ relay[j].state \notin Cancellable /\ Move(c, j, "get") /\ UNCHANGED vars
  /\ UNCHANGED <<files, lapsed, losses>>

RetireBody(c, j) ==
  /\ Stands(c, j, "retire")
  /\ body' = [body EXCEPT ![j] = FALSE]
  /\ Hangup(c, j)
  /\ UNCHANGED <<vars, intent, confirmed, lapsed, losses>>
-----------------------------------------------------------------------------
(* The receiver and the world *)

\* The worker calls onTerminal when it has recorded what the relay confirmed.
Reports(w, j) ==
  \/ At(w, j, "confirm") /\ task[w][j].phase # "delivered"
  \/ At(w, j, "eraseRest") /\ task[w][j].phase = "delivered"

\* Mutant: the end of a job removes its body and leaves it unconfirmed.
ConfirmOutcome_BodyOnly(j) ==
  /\ body' = [body EXCEPT ![j] = @ /\ ~intent[j]]
  /\ UNCHANGED <<intent, confirmed>>

ConfirmOutcome(j) ==
  /\ confirmed' = [confirmed EXCEPT ![j] = @ \/ intent[j]]
  /\ body' = [body EXCEPT ![j] = @ /\ ~intent[j]]
  /\ UNCHANGED intent

Receive(w, j) ==
  /\ Work(w, j)
  /\ IF Reports(w, j) THEN ConfirmOutcome(j) ELSE UNCHANGED files
  /\ UNCHANGED <<call, lapsed, losses>>

Tick(w, j) ==
  /\ Stage(w, j) \/ Launch(w, j) \/ Maintain(w, j) \/ LostAnswer(w, j) \/ StorageFault(w, j)
  /\ UNCHANGED senderVars

\* A job that reached the relay expires or is forgotten there; another one lapses.
Ages(j) == (Expire(j) \/ Forget(j)) /\ UNCHANGED senderVars

Lapse(j) ==
  /\ intent[j] /\ relay[j].state = "absent" /\ j \notin lapsed
  /\ lapsed' = lapsed \cup {j}
  /\ UNCHANGED <<vars, files, call, losses>>

\* A request or its answer is lost, or the application is stopped.
Lose(c, j) ==
  /\ ~Stands(c, j, "idle") /\ losses < MaxLosses
  /\ losses' = losses + 1
  /\ Hangup(c, j)
  /\ UNCHANGED <<vars, files, lapsed>>

MonitorCrash(w) ==
  /\ Crash(w)
  /\ call' = [call EXCEPT ![w] = [j \in Jobs |-> NoCall]]
  /\ UNCHANGED <<files, lapsed, losses>>

Lead(w) == (Elect(w) \/ Depose(w)) /\ UNCHANGED senderVars
-----------------------------------------------------------------------------
Exchange(c, j) == Put(c, j) \/ ConfirmUpload(c, j) \/ Status(c, j) \/ Delete(c, j) \/ RetireBody(c, j)

QueueNext ==
  \/ \E j \in Jobs : Submit(j) \/ Admit(j) \/ AskStatus(j) \/ AskCancel(j) \/ Ages(j) \/ Lapse(j)
  \/ \E c \in Callers, j \in Jobs : Exchange(c, j) \/ Lose(c, j)
  \/ \E w \in Workers, j \in Jobs : Retry(w, j) \/ Receive(w, j) \/ Tick(w, j)
  \/ \E w \in Workers : MonitorCrash(w) \/ Lead(w)

QueueSpec == QueueInit /\ [][QueueNext]_queueVars

\* Promises settle, calls are answered, and the hourly maintenance runs; a free lease
\* is taken within its thirty-second heartbeat and kept for many two-second ticks,
\* which launch a job and retry an upload.  Nothing obliges the application, an
\* offer, a crash or a lost answer.
FairQueueSpec ==
  /\ QueueSpec
  /\ \A w \in Workers, j \in Jobs :
       /\ WF_queueVars(Receive(w, j)) /\ WF_queueVars(Maintain(w, j) /\ UNCHANGED senderVars)
       /\ SF_queueVars(Launch(w, j) /\ UNCHANGED senderVars)
       /\ SF_queueVars(Retry(w, j)) /\ WF_queueVars(Exchange(w, j))
  /\ WF_queueVars(\E w \in Workers : leads = {} /\ Elect(w) /\ UNCHANGED senderVars)
-----------------------------------------------------------------------------
(* Properties *)

\* A body is kept as long as anyone may need it: without it, a job the relay may
\* still ask for could be neither uploaded again nor, unless its upload is
\* confirmed, cancelled.
BodyOutlivesJob ==
  \A j \in Jobs : intent[j] /\ ~body[j] =>
    \/ relay[j].state \in Over
    \/ relay[j].state = "failed" /\ confirmed[j]

\* What was admitted to the queue reaches the relay, and the sender comes to know
\* it or to need nothing more, whatever answers were lost and processes stopped,
\* unless it expires on the way.
Uploaded ==
  \A j \in Jobs : intent[j] ~> \/ relay[j].state # "absent" /\ (confirmed[j] \/ ~body[j])
                               \/ j \in lapsed \cup forgotten

\* From one end to the other: a message is uploaded, and the receiver and the relay
\* come to agree on what became of it (TaskDispatch!Settles).
QueueSettles == Uploaded /\ Settles
=============================================================================
