----------------------------- MODULE TaskDispatch -----------------------------
(****************************************************************************)
(* The durable task receiver (apps/bridge/src/task-dispatch) against the    *)
(* relay's job record: monitors stage offered jobs on disk, claim them on   *)
(* the relay, run them natively and report the outcome.                     *)
(*                                                                          *)
(* Disk state survives a crash: request.json, events.jsonl (its last state) *)
(* and the receipt.  Every withStoreLock section is one action, because the *)
(* lock makes it atomic; between two sections, and at every await, other    *)
(* monitors, the relay, the controller and crashes interleave.              *)
(*                                                                          *)
(* The relay is external: its answers are those the worker relies on.  A    *)
(* job whose request is present and whose journal is absent reads as staged *)
(* (readJournal's initial state), which is the value Fresh.                 *)
(****************************************************************************)
EXTENDS Naturals, FiniteSets

CONSTANTS
  Jobs, Workers,       \* queued operations; monitor processes of one computer
  Conversation,        \* the conversation key of each job
  CreatedAt,           \* its creation time: a distinct number per job
  Immediate,           \* the jobs released by "Send now"
  MaxLeaders,          \* monitors that may believe they lead at one time
  JournalFirst,        \* a recursive rm may unlink events.jsonl before request.json
  CanCancelFailed,     \* the controller deletes failed jobs too
  LongOutage,          \* no monitor may run until every retention period is over
  Overdue,             \* an attempt may look older than 15 minutes to another tick
  MaxCrashes, MaxFaults \* bounds: restarts per monitor; lost answers and disk errors

ASSUME DispatchAssumption ==
  /\ Conversation \in [Jobs -> Jobs]
  /\ CreatedAt \in [Jobs -> Nat]
  /\ Immediate \subseteq Jobs
  /\ {JournalFirst, CanCancelFailed, LongOutage, Overdue} \subseteq BOOLEAN
  /\ {MaxLeaders, MaxCrashes, MaxFaults} \subseteq Nat

VARIABLES
  request, journal, receipt,  \* the inbox on disk
  relay,                      \* the relay's record of each job
  forgotten,                  \* jobs past every retention period
  pid,                        \* incarnation of each monitor process
  leads,                      \* the monitors that believe they hold the lease
  task,                       \* task[w][j]: where worker w stands with job j
  starts, outcome,            \* native invocations begun, and the last one's answer
  faults

disk == <<request, journal, receipt>>
vars == <<disk, relay, forgotten, pid, leads, task, starts, outcome, faults>>

Phases == {"staged", "claimed", "running", "uncertain", "delivered",
           "failed", "rejected", "completed", "cancelled"}
RelayStates == {"absent", "queued", "accepted", "completed", "failed", "cancelled", "expired"}
Places == {"idle", "begin", "get", "decide", "finished", "reserve", "rejectReserve",
           "claim", "rejectClaim", "mark", "rejectMark", "rejectFail", "run", "native",
           "await", "reload", "finish", "confirm", "retire", "erase", "eraseRest"}

phaseTransitions ==
  [ staged    |-> {"claimed", "failed", "cancelled"},
    claimed   |-> {"running", "failed", "cancelled"},
    running   |-> {"delivered", "uncertain", "failed"},
    uncertain |-> {"delivered", "failed", "rejected", "cancelled"},
    delivered |-> {"completed"},
    failed    |-> {"rejected", "completed"},
    rejected  |-> {"cancelled"},
    cancelled |-> {},
    completed |-> {} ]

NoAttempt == <<>>
Attempts == {NoAttempt} \cup (Workers \X Nat)
Fresh == [phase |-> "staged", claim |-> 0, attempt |-> NoAttempt]
Idle == [pc |-> "idle", phase |-> "staged", claim |-> 0, attempt |-> NoAttempt, seen |-> "absent"]

Journals == [phase : Phases, claim : Nat, attempt : Attempts]
Tasks == [pc : Places, phase : Phases, claim : Nat, attempt : Attempts, seen : RelayStates]
RelayJobs == [state : RelayStates, claim : Nat]

TypeOK ==
  /\ request \in [Jobs -> BOOLEAN]
  /\ journal \in [Jobs -> Journals]
  /\ receipt \in [Jobs -> BOOLEAN]
  /\ relay \in [Jobs -> RelayJobs]
  /\ forgotten \subseteq Jobs
  /\ pid \in [Workers -> Nat]
  /\ leads \subseteq Workers
  /\ task \in [Workers -> [Jobs -> Tasks]]
  /\ starts \in [Jobs -> Nat]
  /\ outcome \in [Jobs -> {"none", "accepted", "rejected"}]
  /\ faults \in Nat
  /\ \A j \in Jobs : journal[j].phase \in {"running", "uncertain", "delivered"}
       => journal[j].attempt # NoAttempt      \* transition() refuses running without one

Init ==
  /\ request = [j \in Jobs |-> FALSE]
  /\ journal = [j \in Jobs |-> Fresh]
  /\ receipt = [j \in Jobs |-> FALSE]
  /\ relay = [j \in Jobs |-> [state |-> "absent", claim |-> 0]]
  /\ forgotten = {}
  /\ pid = [w \in Workers |-> 0]
  /\ leads = {}
  /\ task = [w \in Workers |-> [j \in Jobs |-> Idle]]
  /\ starts = [j \in Jobs |-> 0]
  /\ outcome = [j \in Jobs |-> "none"]
  /\ faults = 0
-----------------------------------------------------------------------------
(* The inbox *)

Terminal == {"completed", "cancelled"}

\* Mutant: a job the queue has rejected no longer holds its conversation.
Pending_ForgetsRejected(j) == request[j] /\ journal[j].phase \notin Terminal \cup {"rejected"}

Pending(j) == request[j] /\ journal[j].phase \notin Terminal
Accepts(j, phase) == request[j] /\ phase \in phaseTransitions[journal[j].phase]

\* transition(): an illegal or late move changes nothing, and says so.
Advance(j, phase) ==
  journal' = IF Accepts(j, phase) THEN [journal EXCEPT ![j].phase = phase] ELSE journal

Before(i, j) ==
  \/ i \in Immediate /\ j \notin Immediate
  \/ (i \in Immediate <=> j \in Immediate) /\ CreatedAt[i] < CreatedAt[j]

SameConversation(i, j) == Conversation[i] = Conversation[j]

At(w, j, place) == task[w][j].pc = place
Goto(w, j, place) == task' = [task EXCEPT ![w][j].pc = place]
Leave(w, j) == task' = [task EXCEPT ![w][j] = Idle]
-----------------------------------------------------------------------------
(* The controller and the relay *)

Queue(j) ==
  /\ relay[j].state = "absent" /\ j \notin forgotten
  /\ relay' = [relay EXCEPT ![j].state = "queued"]
  /\ UNCHANGED <<disk, forgotten, pid, leads, task, starts, outcome, faults>>

\* DELETE: atomic on the relay, refused once a receiver has claimed the job.
Cancel(j) ==
  /\ \/ relay[j].state = "queued"
     \/ relay[j].state = "failed" /\ CanCancelFailed
  /\ relay' = [relay EXCEPT ![j].state = "cancelled"]
  /\ UNCHANGED <<disk, forgotten, pid, leads, task, starts, outcome, faults>>

Expire(j) ==
  /\ relay[j].state = "queued"
  /\ relay' = [relay EXCEPT ![j].state = "expired"]
  /\ UNCHANGED <<disk, forgotten, pid, leads, task, starts, outcome, faults>>

\* Seven days past expiry the relay has dropped the job and purge() its receipt.
Forget(j) ==
  /\ relay[j].state \in {"completed", "failed", "cancelled", "expired"}
  /\ LongOutage \/ ~Pending(j)
  /\ \A w \in Workers : At(w, j, "idle")
  /\ relay' = [relay EXCEPT ![j].state = "expired"]
  /\ receipt' = [receipt EXCEPT ![j] = FALSE]
  /\ forgotten' = forgotten \cup {j}
  /\ UNCHANGED <<request, journal, pid, leads, task, starts, outcome, faults>>
-----------------------------------------------------------------------------
(* One monitor *)

\* The relay repeats its offer until the claim; a frame may also arrive late.
Offered(j) == relay[j].state # "absent" /\ j \notin forgotten

\* An offer (the first, a repeated or a delayed one) reaches a leading monitor.
Stage(w, j) ==
  /\ w \in leads
  /\ Offered(j)
  /\ ~receipt[j] /\ ~request[j]
  /\ request' = [request EXCEPT ![j] = TRUE]
  /\ UNCHANGED <<journal, receipt, relay, forgotten, pid, leads, task, starts, outcome, faults>>

\* tick(): one job per conversation, the released ones first, then the oldest.
Launch(w, j) ==
  /\ w \in leads
  /\ Pending(j)
  /\ \A i \in Jobs : SameConversation(i, j) =>
       /\ At(w, i, "idle")
       /\ Pending(i) /\ i # j => Before(j, i)
  /\ task' = [task EXCEPT ![w][j] = [pc |-> "begin", phase |-> journal[j].phase,
       claim |-> journal[j].claim, attempt |-> journal[j].attempt, seen |-> "absent"]]
  /\ UNCHANGED <<disk, relay, forgotten, pid, leads, starts, outcome, faults>>

OwnerAlive(attempt) == attempt # NoAttempt /\ pid[attempt[1]] = attempt[2]

\* process(): what the phase read at launch calls for.
Begin(w, j) ==
  /\ At(w, j, "begin")
  /\ LET phase == task[w][j].phase
         late  == ~OwnerAlive(task[w][j].attempt) \/ Overdue IN
     \/ /\ phase \in {"delivered", "failed", "uncertain"}
        /\ Goto(w, j, "finish") /\ UNCHANGED journal
     \/ /\ phase = "running" /\ OwnerAlive(task[w][j].attempt)
        /\ Leave(w, j) /\ UNCHANGED journal
     \/ /\ phase = "running" /\ late
        /\ Goto(w, j, "finish") /\ Advance(j, "uncertain")
     \/ /\ phase \in {"staged", "claimed", "rejected"}
        /\ Goto(w, j, "get") /\ UNCHANGED journal
  /\ UNCHANGED <<request, receipt, relay, forgotten, pid, leads, starts, outcome, faults>>

Get(w, j) ==
  /\ At(w, j, "get")
  /\ task' = [task EXCEPT ![w][j] = [@ EXCEPT !.pc = "decide", !.seen = relay[j].state]]
  /\ UNCHANGED <<disk, relay, forgotten, pid, leads, starts, outcome, faults>>

\* Chats, policy, attachments and provider settings decide which: any may apply.
Defer(w, j)   == Leave(w, j)                    \* not due, or the chat is not ready
Refuse(w, j)  == Goto(w, j, "rejectReserve")    \* policy, validation, the handler's refusals
Deliver(w, j) == Goto(w, j, "reserve")          \* the handler reached beforeStart

\* What the relay said may be old by now; only the claim settles it.
Decide(w, j) ==
  /\ At(w, j, "decide")
  /\ LET seen     == task[w][j].seen
         rejected == task[w][j].phase = "rejected" IN
     \/ /\ seen \in {"cancelled", "expired"}
        /\ Advance(j, "cancelled") /\ Goto(w, j, "retire")
     \/ /\ seen \in {"completed", "failed"} /\ ~rejected
        /\ Advance(j, "failed") /\ Goto(w, j, "finished")   \* already_finished
     \/ /\ seen \in {"completed", "failed", "queued", "accepted"} /\ rejected
        /\ Leave(w, j) /\ UNCHANGED journal
     \/ /\ seen \in {"queued", "accepted"} /\ ~rejected
        /\ UNCHANGED journal
        /\ Defer(w, j) \/ Refuse(w, j) \/ Deliver(w, j)
  /\ UNCHANGED <<request, receipt, relay, forgotten, pid, leads, starts, outcome, faults>>

AlreadyFinished(w, j) ==
  /\ At(w, j, "finished")
  /\ Advance(j, "completed")
  /\ Goto(w, j, "retire")
  /\ UNCHANGED <<request, receipt, relay, forgotten, pid, leads, starts, outcome, faults>>

\* reserveClaim(): the claim id is durable before the relay hears of it, and a
\* later attempt reuses it.  Ids count up where the code draws a UUID.
Reserve(w, j) ==
  /\ task[w][j].pc \in {"reserve", "rejectReserve"}
  /\ LET next == IF At(w, j, "reserve") THEN "claim" ELSE "rejectClaim" IN
     IF ~request[j] \/ (journal[j].claim = 0 /\ journal[j].phase # "staged")
       THEN Leave(w, j) /\ UNCHANGED journal
       ELSE LET claim == IF journal[j].claim = 0 THEN relay[j].claim + 1 ELSE journal[j].claim IN
            /\ journal' = [journal EXCEPT ![j].claim = claim]
            /\ task' = [task EXCEPT ![w][j] = [@ EXCEPT !.pc = next, !.claim = claim]]
  /\ UNCHANGED <<request, receipt, relay, forgotten, pid, leads, starts, outcome, faults>>

\* Mutant: the answer of the claim is not looked at.
Claim_AnswerIgnored(w, j) ==
  /\ task[w][j].pc \in {"claim", "rejectClaim"}
  /\ Goto(w, j, IF At(w, j, "claim") THEN "mark" ELSE "rejectMark")
  /\ relay' = IF relay[j].state = "queued"
                THEN [relay EXCEPT ![j] = [state |-> "accepted", claim |-> task[w][j].claim]]
                ELSE relay
  /\ UNCHANGED <<disk, forgotten, pid, leads, starts, outcome, faults>>

\* The relay grants a queued job once and repeats its answer to the same claim.
Claim(w, j) ==
  /\ task[w][j].pc \in {"claim", "rejectClaim"}
  /\ LET claim   == task[w][j].claim
         granted == \/ relay[j].state = "queued"
                    \/ relay[j].state = "accepted" /\ relay[j].claim = claim
         next    == IF At(w, j, "claim") THEN "mark" ELSE "rejectMark" IN
     IF granted
       THEN /\ relay' = [relay EXCEPT ![j] = [state |-> "accepted", claim |-> claim]]
            /\ Goto(w, j, next)
       ELSE Leave(w, j) /\ UNCHANGED relay
  /\ UNCHANGED <<disk, forgotten, pid, leads, starts, outcome, faults>>

\* beforeStart: staged becomes claimed, unless another worker did it first.
Mark(w, j) ==
  /\ At(w, j, "mark")
  /\ IF task[w][j].phase = "staged"
       THEN /\ Advance(j, "claimed")
            /\ IF Accepts(j, "claimed") THEN Goto(w, j, "run") ELSE Leave(w, j)
       ELSE Goto(w, j, "run") /\ UNCHANGED journal
  /\ UNCHANGED <<request, receipt, relay, forgotten, pid, leads, starts, outcome, faults>>

\* Mutant: the table of phases is not consulted before the start.
Run_Unchecked(w, j) ==
  /\ At(w, j, "run") /\ request[j]
  /\ journal' = [journal EXCEPT ![j] = [@ EXCEPT !.phase = "running", !.attempt = <<w, pid[w]>>]]
  /\ Goto(w, j, "native")
  /\ UNCHANGED <<request, receipt, relay, forgotten, pid, leads, starts, outcome, faults>>

\* Mutant: running is recorded without the attempt that owns it.
Run_Anonymous(w, j) ==
  /\ At(w, j, "run")
  /\ Advance(j, "running")
  /\ IF Accepts(j, "running") THEN Goto(w, j, "native") ELSE Leave(w, j)
  /\ UNCHANGED <<request, receipt, relay, forgotten, pid, leads, starts, outcome, faults>>

\* The attempt is on disk, with the process that owns it, before anything runs.
Run(w, j) ==
  /\ At(w, j, "run")
  /\ IF Accepts(j, "running")
       THEN /\ journal' = [journal EXCEPT ![j] = [@ EXCEPT !.phase = "running", !.attempt = <<w, pid[w]>>]]
            /\ Goto(w, j, "native")
       ELSE Leave(w, j) /\ UNCHANGED journal
  /\ UNCHANGED <<request, receipt, relay, forgotten, pid, leads, starts, outcome, faults>>

NativeStart(w, j) ==
  /\ At(w, j, "native")
  /\ starts' = [starts EXCEPT ![j] = @ + 1]
  /\ Goto(w, j, "await")
  /\ UNCHANGED <<disk, relay, forgotten, pid, leads, outcome, faults>>

\* The provider took the run, refused it, or failed in a way that says neither.
Settle(w, j) ==
  /\ At(w, j, "await")
  /\ \/ /\ outcome' = [outcome EXCEPT ![j] = "accepted"]
        /\ Advance(j, "delivered") /\ Goto(w, j, "reload")
     \/ /\ outcome' = [outcome EXCEPT ![j] = "rejected"]
        /\ Advance(j, "failed") /\ Goto(w, j, "reload")
     \/ /\ Advance(j, "uncertain") /\ Goto(w, j, "finish")
        /\ UNCHANGED outcome
  /\ UNCHANGED <<request, receipt, relay, forgotten, pid, leads, starts, faults>>

\* Mutant: the record read at launch is reported instead of the one saved.
Reload_Snapshot(w, j) ==
  /\ At(w, j, "reload")
  /\ IF request[j] THEN Goto(w, j, "finish") ELSE Leave(w, j)
  /\ UNCHANGED <<disk, relay, forgotten, pid, leads, starts, outcome, faults>>

Reload(w, j) ==
  /\ At(w, j, "reload")
  /\ IF request[j]
       THEN task' = [task EXCEPT ![w][j] = [@ EXCEPT !.pc = "finish",
              !.phase = journal[j].phase, !.claim = journal[j].claim]]
       ELSE Leave(w, j)
  /\ UNCHANGED <<disk, relay, forgotten, pid, leads, starts, outcome, faults>>

\* reject(): a refusal is claimed like a run, so no other receiver takes the job.
RejectMark(w, j) ==
  /\ At(w, j, "rejectMark")
  /\ IF task[w][j].phase = "staged"
       THEN /\ Advance(j, "claimed")
            /\ IF Accepts(j, "claimed") THEN Goto(w, j, "rejectFail") ELSE Leave(w, j)
       ELSE Goto(w, j, "rejectFail") /\ UNCHANGED journal
  /\ UNCHANGED <<request, receipt, relay, forgotten, pid, leads, starts, outcome, faults>>

RejectFail(w, j) ==
  /\ At(w, j, "rejectFail")
  /\ Advance(j, "failed")
  /\ task' = [task EXCEPT ![w][j] = [@ EXCEPT !.pc = "finish", !.phase = "failed"]]
  /\ UNCHANGED <<request, receipt, relay, forgotten, pid, leads, starts, outcome, faults>>

\* Mutant: an unknown outcome is reported as success.
Verdict_Optimist(phase) == IF phase = "failed" THEN "failed" ELSE "completed"

Verdict(phase) == IF phase = "delivered" THEN "completed" ELSE "failed"

\* remote.finish(): any answer but the requested outcome is an error, and the
\* next tick asks again.
Finish(w, j) ==
  /\ At(w, j, "finish")
  /\ LET claim   == task[w][j].claim
         verdict == Verdict(task[w][j].phase)
         mine    == claim # 0 /\ relay[j].claim = claim IN
     /\ relay' = IF mine /\ relay[j].state = "accepted"
                   THEN [relay EXCEPT ![j].state = verdict] ELSE relay
     /\ IF mine /\ relay[j].state \in {"accepted", verdict}
          THEN Goto(w, j, "confirm") ELSE Leave(w, j)
  /\ UNCHANGED <<disk, forgotten, pid, leads, starts, outcome, faults>>

\* The confirmed outcome is recorded; only a completed operation is erased.
Confirm(w, j) ==
  /\ At(w, j, "confirm")
  /\ IF task[w][j].phase = "delivered"
       THEN Advance(j, "completed") /\ Goto(w, j, "retire")
       ELSE Advance(j, "rejected") /\ Leave(w, j)
  /\ UNCHANGED <<request, receipt, relay, forgotten, pid, leads, starts, outcome, faults>>

\* Mutant: the operation is erased without leaving a receipt.
Retire_NoReceipt(w, j) ==
  /\ At(w, j, "retire")
  /\ IF request[j] /\ journal[j].phase \in Terminal THEN Goto(w, j, "erase") ELSE Leave(w, j)
  /\ UNCHANGED <<disk, relay, forgotten, pid, leads, starts, outcome, faults>>

\* retire(): the receipt is durable before the operation is erased.
Retire(w, j) ==
  /\ At(w, j, "retire")
  /\ LET finished == request[j] /\ journal[j].phase \in Terminal IN
     /\ receipt' = [receipt EXCEPT ![j] = @ \/ finished]
     /\ IF finished \/ (~request[j] /\ receipt[j]) THEN Goto(w, j, "erase") ELSE Leave(w, j)
  /\ UNCHANGED <<request, journal, relay, forgotten, pid, leads, starts, outcome, faults>>

EraseJournal(j) == journal' = [journal EXCEPT ![j] = Fresh] /\ UNCHANGED request
EraseRequest(j) == request' = [request EXCEPT ![j] = FALSE] /\ UNCHANGED journal

\* rmSync(directory, recursive), outside the lock: one file, then the other.
Erase(w, j) ==
  /\ \/ At(w, j, "erase") /\ Goto(w, j, "eraseRest")
        /\ IF JournalFirst THEN EraseJournal(j) ELSE EraseRequest(j)
     \/ At(w, j, "eraseRest") /\ Leave(w, j)
        /\ IF JournalFirst THEN EraseRequest(j) ELSE EraseJournal(j)
  /\ UNCHANGED <<receipt, relay, forgotten, pid, leads, starts, outcome, faults>>

\* maintain(): the hourly pass retires what a crash left terminal on disk.
Maintain(w, j) ==
  /\ At(w, j, "idle")
  /\ request[j] /\ journal[j].phase \in Terminal
  /\ Goto(w, j, "retire")
  /\ UNCHANGED <<disk, relay, forgotten, pid, leads, starts, outcome, faults>>
-----------------------------------------------------------------------------
(* Failures *)

\* An answer is lost after the relay acted, or the request never arrived: the
\* await throws, and what is on disk decides what the next tick does.
LostAnswer(w, j) ==
  /\ faults < MaxFaults /\ faults' = faults + 1
  /\ task[w][j].pc \in {"get", "claim", "rejectClaim", "finish", "decide", "mark", "rejectMark", "confirm"}
  /\ Leave(w, j)
  /\ UNCHANGED <<disk, relay, forgotten, pid, leads, starts, outcome>>

\* An inbox write fails.  Before the start the job is left for the next tick;
\* after it the answer of the provider is unknown to the queue.
StorageFault(w, j) ==
  /\ faults < MaxFaults /\ faults' = faults + 1
  /\ \/ /\ task[w][j].pc \in {"reserve", "rejectReserve", "rejectFail", "run", "finished", "retire"}
        /\ Leave(w, j) /\ UNCHANGED <<journal, outcome>>
     \/ /\ At(w, j, "await")
        /\ \E answer \in {"accepted", "rejected"} : outcome' = [outcome EXCEPT ![j] = answer]
        /\ \/ Advance(j, "uncertain") /\ Goto(w, j, "finish")
           \/ Leave(w, j) /\ UNCHANGED journal
  /\ UNCHANGED <<request, receipt, relay, forgotten, pid, leads, starts>>

\* The process dies and is started again under another pid.
Crash(w) ==
  /\ pid[w] < MaxCrashes
  /\ pid' = [pid EXCEPT ![w] = @ + 1]
  /\ task' = [task EXCEPT ![w] = [j \in Jobs |-> Idle]]
  /\ UNCHANGED <<disk, relay, forgotten, leads, starts, outcome, faults>>

\* The lease changes hands (monitor/support/leadership.ts); work the old leader
\* has begun goes on.
Elect(w) ==
  /\ w \notin leads /\ Cardinality(leads) < MaxLeaders
  /\ leads' = leads \cup {w}
  /\ UNCHANGED <<disk, relay, forgotten, pid, task, starts, outcome, faults>>

Depose(w) ==
  /\ w \in leads
  /\ leads' = leads \ {w}
  /\ UNCHANGED <<disk, relay, forgotten, pid, task, starts, outcome, faults>>
-----------------------------------------------------------------------------
Work(w, j) ==
  \/ Begin(w, j) \/ Get(w, j) \/ Decide(w, j) \/ AlreadyFinished(w, j)
  \/ Reserve(w, j) \/ Claim(w, j) \/ Mark(w, j) \/ Run(w, j)
  \/ NativeStart(w, j) \/ Settle(w, j) \/ Reload(w, j) \/ RejectMark(w, j) \/ RejectFail(w, j)
  \/ Finish(w, j) \/ Confirm(w, j) \/ Retire(w, j) \/ Erase(w, j)

Next ==
  \/ \E j \in Jobs : Queue(j) \/ Cancel(j) \/ Expire(j) \/ Forget(j)
  \/ \E w \in Workers, j \in Jobs :
       \/ Stage(w, j) \/ Launch(w, j) \/ Work(w, j) \/ Maintain(w, j)
       \/ LostAnswer(w, j) \/ StorageFault(w, j)
  \/ \E w \in Workers : Crash(w) \/ Elect(w) \/ Depose(w)

Spec == Init /\ [][Next]_vars
-----------------------------------------------------------------------------
\* The promise to the controller, stated without disks and processes.
Contract == INSTANCE TaskJobContract WITH
  verdict <- [j \in Jobs |-> relay[j].state], ran <- starts, answer <- outcome

\* The receiver on one computer, with its restarts, keeps that promise.
Implements == Contract!Spec

\* One native invocation per job, over every duplicate offer, competing worker,
\* leadership change and restart (README.md:9-14 of the module, worker.test.ts).
AtMostOneStart == \A j \in Jobs : starts[j] <= 1

\* A saved native success is never reported as a failure: losing the answer of
\* finish(), or the process before it, only repeats the report.
SavedSuccessNotFailed ==
  \A j \in Jobs : request[j] /\ journal[j].phase = "delivered" =>
    relay[j].state \in {"accepted", "completed", "expired"}

\* A job that ran is never offered to the inbox as new: it is on disk, or its
\* receipt is, until no offer of it can arrive any more.
ReplayProtected ==
  \A j \in Jobs : starts[j] > 0 /\ ~request[j] => receipt[j] \/ j \in forgotten

\* What the relay tells the controller of a job is what became of it.  Completed
\* means that its provider took the one run of it; cancelled without a grant
\* means that it never ran: the cancellation of a queued job wins over every
\* stale offer and over every answer a worker still holds.
OutcomeHonest ==
  \A j \in Jobs :
    /\ relay[j].state = "completed" => outcome[j] = "accepted" /\ starts[j] = 1
    /\ relay[j].state = "cancelled" /\ relay[j].claim = 0 => starts[j] = 0

\* A follow-up never starts while an earlier message of its conversation has
\* run or failed and is not settled: a failed one holds the rest back.
HeldBehindUnsettled ==
  [][\A i, j \in Jobs :
       /\ i # j /\ SameConversation(i, j) /\ Before(i, j)
       /\ request[i] /\ journal[i].phase \in {"running", "uncertain", "delivered", "rejected"}
       => ~(journal[j].phase = "claimed" /\ journal'[j].phase = "running")]_vars

\* Both sides come to agree.  A native success reaches the relay, unless it
\* expires first; an operation that the relay has completed, or that was
\* cancelled before any claim, is erased from the disk.
Settles ==
  \A j \in Jobs :
    /\ (request[j] /\ journal[j].phase = "delivered") ~> relay[j].state \in {"completed", "expired"}
    /\ relay[j].state = "completed" ~> ~request[j]
    /\ relay[j] = [state |-> "cancelled", claim |-> 0] ~> ~request[j]
=============================================================================
