--------------------------- MODULE TaskQueue_proofs ---------------------------
(****************************************************************************)
(* What holds of the durable receiver for any number of jobs, crashes and   *)
(* lost answers, and of the receiver with the sender at its side.           *)
(*                                                                          *)
(* For any number of monitors, provided a removal unlinks the request       *)
(* before its journal: a job starts at most once, and what the relay says   *)
(* of it is what became of it.  (With the other order both fail: see the    *)
(* run dispatch_erase.)  In either order a job that ran is not offered      *)
(* again.                                                                   *)
(*                                                                          *)
(* For one monitor at work: a saved success is never reported failed, the   *)
(* receiver implements TaskJobContract, and a follow-up waits for what is   *)
(* unsettled.  (With two a late answer may find the job already reported.)  *)
(*                                                                          *)
(* The composition implements TaskDispatch, so all this holds of it; and    *)
(* the sender keeps the body of a message as long as it may be needed.      *)
(****************************************************************************)
EXTENDS TaskQueue, TLAPS
-----------------------------------------------------------------------------
(* The receiver: TaskDispatch *)


\* The native start is the one step between "running" on disk and the provider.
Starting(w, j) == task[w][j].pc = "native"

\* The job has passed the table's step into running.
Spent(j) == starts[j] > 0 \/ \E w \in Workers : Starting(w, j)

\* What makes AtMostOneStart inductive: a spent job never reads as staged or
\* claimed again, because its journal outlives its request and its receipt (or
\* the end of retention) keeps its offers out.
StartInv ==
  /\ TypeOK
  /\ \A j \in Jobs : starts[j] <= 1
  /\ \A j \in Jobs, w \in Workers : Starting(w, j) => starts[j] = 0
  /\ \A j \in Jobs, v, w \in Workers : Starting(v, j) /\ Starting(w, j) => v = w
  /\ \A j \in Jobs : Spent(j) =>
       IF request[j] THEN journal[j].phase \notin {"staged", "claimed"}
                     ELSE receipt[j] \/ j \in forgotten
  /\ \A j \in Jobs, w \in Workers :
       /\ task[w][j].pc \in {"erase", "eraseRest"} => receipt[j] \/ j \in forgotten
       /\ task[w][j].pc = "eraseRest" => ~request[j]
-----------------------------------------------------------------------------
\* A transition moves at most one job, along the table, and keeps its claim and
\* attempt.
LEMMA AdvanceFacts ==
  ASSUME TypeOK, NEW j \in Jobs, NEW phase \in Phases, Advance(j, phase)
  PROVE  /\ journal' \in [Jobs -> Journals]
         /\ \A k \in Jobs : /\ journal'[k].claim = journal[k].claim
                            /\ journal'[k].attempt = journal[k].attempt
         /\ \A k \in Jobs : k # j => journal'[k] = journal[k]
         /\ \/ journal'[j].phase = journal[j].phase
            \/ journal'[j].phase = phase /\ phase \in phaseTransitions[journal[j].phase]
  BY DEF TypeOK, Advance, Accepts, Journals

\* One worker's record of one job is now t; what follows from it is TaskUpdate.
Replaced(w, j, t) == task' = [task EXCEPT ![w] = [task[w] EXCEPT ![j] = t]]

\* Replacing the record of one job of one worker keeps the type of task.
LEMMA TaskUpdate ==
  ASSUME TypeOK, NEW w \in Workers, NEW j \in Jobs, NEW t \in Tasks, Replaced(w, j, t)
  PROVE  /\ task' \in [Workers -> [Jobs -> Tasks]]
         /\ task'[w][j] = t
         /\ \A v \in Workers, k \in Jobs : v # w \/ k # j => task'[v][k] = task[v][k]
  BY DEF TypeOK, Replaced

\* Worker w stands at the place with job j, and nothing else of task changed.
Moved(w, j, place) ==
  /\ task' \in [Workers -> [Jobs -> Tasks]]
  /\ task'[w][j].pc = place
  /\ \A v \in Workers, k \in Jobs : v # w \/ k # j => task'[v][k] = task[v][k]

LEMMA GotoFacts ==
  ASSUME TypeOK, NEW w \in Workers, NEW j \in Jobs, NEW place \in Places, Goto(w, j, place)
  PROVE  Moved(w, j, place)
<1> DEFINE t == [task[w][j] EXCEPT !.pc = place]
<1>1. task[w][j] \in Tasks
  BY DEF TypeOK
<1>2. t \in Tasks /\ t.pc = place
  BY <1>1 DEF Tasks
<1>3. Replaced(w, j, t)
  BY DEF Goto, TypeOK, Replaced
<1> HIDE DEF t
<1>4. QED
  BY <1>2, <1>3, TaskUpdate DEF Moved

LEMMA LeaveFacts ==
  ASSUME TypeOK, NEW w \in Workers, NEW j \in Jobs, Leave(w, j)
  PROVE  Moved(w, j, "idle")
<1>1. Idle \in Tasks /\ Idle.pc = "idle"
  BY DEF Idle, Tasks, Places, Phases, RelayStates, Attempts
<1>2. Replaced(w, j, Idle)
  BY DEF Leave, TypeOK, Replaced
<1>3. QED
  BY <1>1, <1>2, TaskUpdate DEF Moved

\* The phases a job may pass to after running are those that follow it in the
\* table; none leads back to staged or claimed.
LEMMA TableFacts ==
  ASSUME NEW from \in Phases, NEW to \in phaseTransitions[from]
  PROVE  /\ to # "staged"
         /\ to = "claimed" => from = "staged"
         /\ to \in {"uncertain", "delivered"} => from \in {"running", "uncertain"}
         /\ to = "running" => from = "claimed"
  BY DEF Phases, phaseTransitions
-----------------------------------------------------------------------------
LEMMA TypeInit == Init => TypeOK
  BY DEF Init, TypeOK, Fresh, Idle, Journals, Tasks, RelayJobs, Places, Phases, RelayStates, Attempts

\* The part of TypeOK about attempts, for a journal that only moved by a
\* transition other than to running.
AttemptsRecorded ==
  \A j \in Jobs : journal[j].phase \in {"running", "uncertain", "delivered"}
    => journal[j].attempt # NoAttempt

LEMMA AdvanceAttempts ==
  ASSUME TypeOK, NEW j \in Jobs, NEW phase \in Phases \ {"running"}, Advance(j, phase)
  PROVE  AttemptsRecorded'
<1>1. AttemptsRecorded
  BY DEF TypeOK, AttemptsRecorded
<1>2. \A k \in Jobs : journal[k].phase \in Phases
  BY DEF TypeOK, Journals
<1>3. QED
  BY <1>1, <1>2, AdvanceFacts, TableFacts DEF AttemptsRecorded
-----------------------------------------------------------------------------
\* A step that starts, stages and erases nothing: no job turns staged or
\* claimed, and nobody enters the start or the removal.
Loud == {"native", "erase", "eraseRest"}
Quiet ==
  /\ UNCHANGED <<request, receipt, forgotten, starts>>
  /\ \A k \in Jobs : journal'[k].phase \in {"staged", "claimed"} => journal[k].phase \in {"staged", "claimed"}
  /\ \A v \in Workers, k \in Jobs : task'[v][k].pc \in Loud => task'[v][k].pc = task[v][k].pc

\* The steps of a worker that move it to a quiet place and its job's journal
\* along the table, if at all.
LEMMA QuietSteps ==
  ASSUME TypeOK, NEW w \in Workers, NEW j \in Jobs, NEW place \in Places \ Loud,
         Moved(w, j, place),
         UNCHANGED journal \/ \E phase \in Phases \ {"running"} : Advance(j, phase),
         UNCHANGED <<request, receipt, forgotten, pid, leads, starts>>, relay' \in [Jobs -> RelayJobs],
         outcome' \in [Jobs -> {"none", "accepted", "rejected"}], faults' \in Nat
  PROVE  TypeOK' /\ Quiet
<1>1. journal' \in [Jobs -> Journals] /\ AttemptsRecorded'
  <2>1. CASE UNCHANGED journal
    BY <2>1 DEF TypeOK, AttemptsRecorded
  <2>2. CASE \E phase \in Phases \ {"running"} : Advance(j, phase)
    BY <2>2, AdvanceFacts, AdvanceAttempts
  <2>3. QED
    BY <2>1, <2>2
<1>2. TypeOK'
  BY <1>1 DEF TypeOK, AttemptsRecorded, Moved
<1>3. \A k \in Jobs : journal'[k].phase \in {"staged", "claimed"} => journal[k].phase \in {"staged", "claimed"}
  <2>1. CASE UNCHANGED journal
    BY <2>1
  <2>2. CASE \E phase \in Phases \ {"running"} : Advance(j, phase)
    <3>1. PICK phase \in Phases \ {"running"} : Advance(j, phase)
      BY <2>2
    <3>2. journal[j].phase \in Phases
      BY DEF TypeOK, Journals
    <3>3. QED
      BY <3>1, <3>2, AdvanceFacts, TableFacts
  <2>3. QED
    BY <2>1, <2>2
<1>4. \A v \in Workers, k \in Jobs : task'[v][k].pc \in Loud => task'[v][k].pc = task[v][k].pc
  BY DEF Moved
<1>5. QED
  BY <1>2, <1>3, <1>4 DEF Quiet
LEMMA OrdinarySteps ==
  ASSUME TypeOK, NEW w \in Workers, NEW j \in Jobs,
         Leave(w, j) \/ \E place \in Places \ Loud : Goto(w, j, place),
         UNCHANGED journal \/ \E phase \in Phases \ {"running"} : Advance(j, phase),
         UNCHANGED <<request, receipt, relay, forgotten, pid, leads, starts>>,
         UNCHANGED outcome \/ \E answer \in {"accepted", "rejected"} : outcome' = [outcome EXCEPT ![j] = answer],
         UNCHANGED faults \/ faults' = faults + 1
  PROVE  TypeOK' /\ Quiet
<1>1. \E place \in Places \ Loud : Moved(w, j, place)
  <2>1. CASE Leave(w, j)
    BY <2>1, LeaveFacts DEF Places, Loud
  <2>2. CASE \E place \in Places \ Loud : Goto(w, j, place)
    BY <2>2, GotoFacts
  <2>3. QED
    BY <2>1, <2>2
<1>2. outcome' \in [Jobs -> {"none", "accepted", "rejected"}] /\ faults' \in Nat
  BY DEF TypeOK
<1>3. relay' \in [Jobs -> RelayJobs]
  BY DEF TypeOK
<1>4. QED
  BY <1>1, <1>2, <1>3, QuietSteps

\* The steps that only move a worker and its job along the table.
Ordinary(w, j) ==
  \/ Begin(w, j) \/ Decide(w, j) \/ AlreadyFinished(w, j) \/ Mark(w, j) \/ Settle(w, j)
  \/ RejectMark(w, j) \/ Confirm(w, j) \/ Maintain(w, j) \/ LostAnswer(w, j) \/ StorageFault(w, j)

LEMMA OrdinaryQuiet ==
  ASSUME TypeOK, NEW w \in Workers, NEW j \in Jobs, Ordinary(w, j)
  PROVE  TypeOK' /\ Quiet
<1> USE DEF disk
<1>1. CASE Begin(w, j)
  BY <1>1, OrdinarySteps DEF Begin, Places, Loud, Phases
<1>2. CASE Decide(w, j)
  BY <1>2, OrdinarySteps DEF Decide, Defer, Refuse, Deliver, Places, Loud, Phases
<1>3. CASE AlreadyFinished(w, j)
  BY <1>3, OrdinarySteps DEF AlreadyFinished, Places, Loud, Phases
<1>4. CASE Mark(w, j)
  BY <1>4, OrdinarySteps DEF Mark, Places, Loud, Phases
<1>5. CASE Settle(w, j)
  BY <1>5, OrdinarySteps DEF Settle, Places, Loud, Phases
<1>6. CASE RejectMark(w, j)
  BY <1>6, OrdinarySteps DEF RejectMark, Places, Loud, Phases
<1>7. CASE Confirm(w, j)
  BY <1>7, OrdinarySteps DEF Confirm, Places, Loud, Phases
<1>8. CASE Maintain(w, j)
  BY <1>8, OrdinarySteps DEF Maintain, Places, Loud, Phases
<1>9. CASE LostAnswer(w, j)
  BY <1>9, OrdinarySteps DEF LostAnswer
<1>10. CASE StorageFault(w, j)
  BY <1>10, OrdinarySteps DEF StorageFault, Places, Loud, Phases
<1>11. QED
  BY <1>1, <1>2, <1>3, <1>4, <1>5, <1>6, <1>7, <1>8, <1>9, <1>10 DEF Ordinary
-----------------------------------------------------------------------------
\* Quiet steps that do more: they copy what they read into the worker's record,
\* reserve a claim, or change the relay.
LEMMA RecordSteps ==
  ASSUME TypeOK, NEW w \in Workers, NEW j \in Jobs,
         Get(w, j) \/ Reload(w, j) \/ RejectFail(w, j) \/ Launch(w, j)
  PROVE  TypeOK' /\ Quiet
<1>0. task[w][j] \in Tasks /\ journal[j] \in Journals /\ relay[j] \in RelayJobs
  BY DEF TypeOK
<1>1. CASE Get(w, j)
  <2> DEFINE t == [task[w][j] EXCEPT !.pc = "decide", !.seen = relay[j].state]
  <2>1. t \in Tasks /\ t.pc = "decide"
    BY <1>0 DEF Tasks, Places, RelayJobs
  <2>2. Replaced(w, j, t)
    BY <1>1 DEF Get, TypeOK, Replaced
  <2> HIDE DEF t
  <2>3. Moved(w, j, "decide")
    BY <2>1, <2>2, TaskUpdate DEF Moved
  <2>4. QED
    BY <1>1, <2>3, QuietSteps DEF Get, disk, Places, Loud, TypeOK
<1>2. CASE Reload(w, j) /\ request[j]
  <2> DEFINE t == [task[w][j] EXCEPT !.pc = "finish", !.phase = journal[j].phase, !.claim = journal[j].claim]
  <2>1. t \in Tasks /\ t.pc = "finish"
    BY <1>0 DEF Tasks, Journals, Places
  <2>2. Replaced(w, j, t)
    BY <1>2 DEF Reload, TypeOK, Replaced
  <2> HIDE DEF t
  <2>3. Moved(w, j, "finish")
    BY <2>1, <2>2, TaskUpdate DEF Moved
  <2>4. QED
    BY <1>2, <2>3, QuietSteps DEF Reload, disk, Places, Loud, TypeOK
<1>3. CASE Reload(w, j) /\ ~request[j]
  BY <1>3, OrdinarySteps DEF Reload, disk
<1>4. CASE RejectFail(w, j)
  <2> DEFINE t == [task[w][j] EXCEPT !.pc = "finish", !.phase = "failed"]
  <2>1. t \in Tasks /\ t.pc = "finish"
    BY <1>0 DEF Tasks, Places, Phases
  <2>2. Replaced(w, j, t)
    BY <1>4 DEF RejectFail, TypeOK, Replaced
  <2> HIDE DEF t
  <2>3. Moved(w, j, "finish")
    BY <2>1, <2>2, TaskUpdate DEF Moved
  <2>4. QED
    BY <1>4, <2>3, QuietSteps DEF RejectFail, Places, Loud, Phases, TypeOK
<1>5. CASE Launch(w, j)
  <2> DEFINE t == [pc |-> "begin", phase |-> journal[j].phase, claim |-> journal[j].claim,
                   attempt |-> journal[j].attempt, seen |-> "absent"]
  <2>1. t \in Tasks /\ t.pc = "begin"
    BY <1>0 DEF Tasks, Journals, Places, RelayStates
  <2>2. Replaced(w, j, t)
    BY <1>5 DEF Launch, TypeOK, Replaced
  <2> HIDE DEF t
  <2>3. Moved(w, j, "begin")
    BY <2>1, <2>2, TaskUpdate DEF Moved
  <2>4. QED
    BY <1>5, <2>3, QuietSteps DEF Launch, disk, Places, Loud, TypeOK
<1>6. QED
  BY <1>1, <1>2, <1>3, <1>4, <1>5

\* A reservation changes the claim of a journal and never its phase.
LEMMA ReserveQuiet ==
  ASSUME TypeOK, NEW w \in Workers, NEW j \in Jobs, Reserve(w, j)
  PROVE  TypeOK' /\ Quiet
<1>1. CASE Leave(w, j) /\ UNCHANGED journal
  BY <1>1, OrdinarySteps DEF Reserve
<1>2. CASE ~(Leave(w, j) /\ UNCHANGED journal)
  <2>1. PICK claim \in Nat, next \in {"claim", "rejectClaim"} :
          /\ journal' = [journal EXCEPT ![j].claim = claim]
          /\ task' = [task EXCEPT ![w][j] = [@ EXCEPT !.pc = next, !.claim = claim]]
    <3> DEFINE c == IF journal[j].claim = 0 THEN relay[j].claim + 1 ELSE journal[j].claim
               n == IF At(w, j, "reserve") THEN "claim" ELSE "rejectClaim"
    <3>1. relay[j] \in RelayJobs /\ journal[j] \in Journals
      BY DEF TypeOK
    <3>2. c \in Nat /\ n \in {"claim", "rejectClaim"}
      BY <3>1 DEF RelayJobs, Journals
    <3>3. /\ journal' = [journal EXCEPT ![j].claim = c]
          /\ task' = [task EXCEPT ![w][j] = [@ EXCEPT !.pc = n, !.claim = c]]
      BY <1>2 DEF Reserve
    <3> HIDE DEF c, n
    <3>4. QED
      BY <3>2, <3>3
  <2> DEFINE t == [task[w][j] EXCEPT !.pc = next, !.claim = claim]
             e == [journal[j] EXCEPT !.claim = claim]
  <2>2. task[w][j] \in Tasks /\ journal[j] \in Journals
    BY DEF TypeOK
  <2>3. t \in Tasks /\ t.pc = next
    BY <2>2 DEF Tasks, Places
  <2>4. e \in Journals /\ e.phase = journal[j].phase /\ e.attempt = journal[j].attempt
    BY <2>2 DEF Journals
  <2>5. Replaced(w, j, t)
    BY <2>1 DEF TypeOK, Replaced
  <2> HIDE DEF t
  <2>6. Moved(w, j, next)
    BY <2>3, <2>5, TaskUpdate DEF Moved
  <2>7. journal' = [journal EXCEPT ![j] = e]
    BY <2>1 DEF TypeOK
  <2>8. /\ journal' \in [Jobs -> Journals]
        /\ \A k \in Jobs : journal'[k].phase = journal[k].phase /\ journal'[k].attempt = journal[k].attempt
    BY <2>4, <2>7 DEF TypeOK
  <2>9. UNCHANGED <<request, receipt, relay, forgotten, pid, leads, starts, outcome, faults>>
    BY DEF Reserve
  <2>10. TypeOK'
    BY <2>6, <2>8, <2>9 DEF TypeOK, Moved
  <2>11. next \notin Loud
    BY DEF Loud
  <2>12. QED
    BY <2>6, <2>8, <2>9, <2>10, <2>11 DEF Quiet, Moved
<1>3. QED
  BY <1>1, <1>2

\* The relay's answers to a claim and to a report.
LEMMA RelaySteps ==
  ASSUME TypeOK, NEW w \in Workers, NEW j \in Jobs, Claim(w, j) \/ Finish(w, j)
  PROVE  TypeOK' /\ Quiet
<1>1. task[w][j].claim \in Nat /\ relay[j] \in RelayJobs
  BY DEF TypeOK, Tasks
<1>2. relay' \in [Jobs -> RelayJobs]
  <2>1. CASE UNCHANGED relay
    BY <2>1 DEF TypeOK
  <2>2. CASE Claim(w, j) /\ relay' # relay
    <3>1. relay' = [relay EXCEPT ![j] = [state |-> "accepted", claim |-> task[w][j].claim]]
      BY <2>2 DEF Claim
    <3>2. [state |-> "accepted", claim |-> task[w][j].claim] \in RelayJobs
      BY <1>1 DEF RelayJobs, RelayStates
    <3>3. QED
      BY <3>1, <3>2 DEF TypeOK
  <2>3. CASE Finish(w, j) /\ relay' # relay
    <3>1. PICK verdict \in {"completed", "failed"} : relay' = [relay EXCEPT ![j].state = verdict]
      BY <2>3 DEF Finish, Verdict
    <3> DEFINE r == [relay[j] EXCEPT !.state = verdict]
    <3>2. r \in RelayJobs
      BY <1>1 DEF RelayJobs, RelayStates
    <3>3. relay' = [relay EXCEPT ![j] = r]
      BY <3>1 DEF TypeOK
    <3>4. QED
      BY <3>2, <3>3 DEF TypeOK
  <2>4. QED
    BY <2>1, <2>2, <2>3
<1>3. \E place \in Places \ Loud : Moved(w, j, place)
  <2>1. Leave(w, j) \/ \E place \in {"mark", "rejectMark", "confirm"} : Goto(w, j, place)
    BY DEF Claim, Finish
  <2>2. QED
    BY <2>1, LeaveFacts, GotoFacts DEF Places, Loud
<1>4. UNCHANGED <<request, receipt, journal, forgotten, pid, leads, starts, outcome, faults>>
  BY DEF Claim, Finish, disk
<1>5. QED
  BY <1>2, <1>3, <1>4, QuietSteps DEF TypeOK

\* The controller, restarts and the lease disturb nothing on the disk.
LEMMA OutsideSteps ==
  ASSUME TypeOK,
         \/ \E j \in Jobs : Queue(j) \/ Cancel(j) \/ Expire(j)
         \/ \E w \in Workers : Crash(w) \/ Elect(w) \/ Depose(w)
         \/ UNCHANGED vars
  PROVE  TypeOK' /\ Quiet
<1> USE DEF disk
<1>1. ASSUME NEW j \in Jobs, Queue(j) \/ Cancel(j) \/ Expire(j)
      PROVE  TypeOK' /\ Quiet
  <2>1. PICK state \in RelayStates : relay' = [relay EXCEPT ![j].state = state]
    BY <1>1 DEF Queue, Cancel, Expire, RelayStates
  <2> DEFINE r == [relay[j] EXCEPT !.state = state]
  <2>2. r \in RelayJobs
    BY DEF TypeOK, RelayJobs
  <2>3. relay' = [relay EXCEPT ![j] = r]
    BY <2>1
  <2> HIDE DEF r
  <2>4. relay' \in [Jobs -> RelayJobs]
    BY <2>2, <2>3 DEF TypeOK
  <2>5. UNCHANGED <<disk, forgotten, pid, leads, task, starts, outcome, faults>>
    BY <1>1 DEF Queue, Cancel, Expire
  <2>6. QED
    BY <2>4, <2>5 DEF TypeOK, Quiet
<1>2. ASSUME NEW w \in Workers, Crash(w)
      PROVE  TypeOK' /\ Quiet
  <2>1. Idle \in Tasks /\ Idle.pc \notin Loud
    BY DEF Idle, Tasks, Places, Phases, RelayStates, Attempts, Loud
  <2>2. task' \in [Workers -> [Jobs -> Tasks]]
    BY <1>2, <2>1 DEF Crash, TypeOK
  <2>3. \A v \in Workers, k \in Jobs : task'[v][k] = IF v = w THEN Idle ELSE task[v][k]
    BY <1>2 DEF Crash, TypeOK
  <2>4. pid' \in [Workers -> Nat]
    BY <1>2 DEF Crash, TypeOK
  <2>5. QED
    BY <1>2, <2>1, <2>2, <2>3, <2>4 DEF Crash, TypeOK, Quiet
<1>3. ASSUME NEW w \in Workers, Elect(w) \/ Depose(w)
      PROVE  TypeOK' /\ Quiet
  BY <1>3 DEF Elect, Depose, TypeOK, Quiet
<1>4. CASE UNCHANGED vars
  BY <1>4 DEF vars, TypeOK, Quiet
<1>5. QED
  BY <1>1, <1>2, <1>3, <1>4
-----------------------------------------------------------------------------
\* The steps that stage, forget, start or erase.
LEMMA StageType ==
  ASSUME TypeOK, NEW j \in Jobs, Forget(j) \/ \E w \in Workers : Stage(w, j)
  PROVE  TypeOK'
<1>1. CASE Forget(j)
  <2> DEFINE r == [relay[j] EXCEPT !.state = "expired"]
  <2>1. r \in RelayJobs
    BY DEF TypeOK, RelayJobs, RelayStates
  <2>2. relay' = [relay EXCEPT ![j] = r]
    BY <1>1 DEF Forget
  <2> HIDE DEF r
  <2>3. QED
    BY <1>1, <2>1, <2>2 DEF Forget, TypeOK
<1>2. CASE \E w \in Workers : Stage(w, j)
  BY <1>2 DEF Stage, TypeOK
<1>3. QED
  BY <1>1, <1>2

LEMMA RunFacts ==
  ASSUME TypeOK, NEW w \in Workers, NEW j \in Jobs, Run(w, j), Accepts(j, "running")
  PROVE  /\ TypeOK'
         /\ Moved(w, j, "native")
         /\ request[j] /\ journal[j].phase = "claimed" /\ journal'[j].phase = "running"
         /\ \A k \in Jobs : k # j => journal'[k] = journal[k]
<1> DEFINE e == [journal[j] EXCEPT !.phase = "running", !.attempt = <<w, pid[w]>>]
<1>1. <<w, pid[w]>> \in Attempts /\ <<w, pid[w]>> # NoAttempt
  BY DEF TypeOK, Attempts, NoAttempt
<1>2. journal[j] \in Journals
  BY DEF TypeOK
<1>3. e \in Journals /\ e.phase = "running" /\ e.attempt # NoAttempt
  BY <1>1, <1>2 DEF Journals, Phases
<1>4. journal' = [journal EXCEPT ![j] = e]
  BY DEF Run
<1>5. journal[j].phase = "claimed" /\ request[j]
  BY <1>2, TableFacts DEF Accepts, Journals
<1> HIDE DEF e
<1>6. Moved(w, j, "native")
  BY GotoFacts DEF Run, Places
<1>7. TypeOK'
  BY <1>3, <1>4, <1>6 DEF TypeOK, Moved, Run
<1>8. QED
  BY <1>3, <1>4, <1>5, <1>6, <1>7 DEF TypeOK

LEMMA RemovalType ==
  ASSUME TypeOK, NEW w \in Workers, NEW j \in Jobs,
         NativeStart(w, j) \/ Retire(w, j) \/ Erase(w, j)
  PROVE  TypeOK'
<1>1. task' \in [Workers -> [Jobs -> Tasks]]
  <2>1. Leave(w, j) \/ \E place \in {"await", "erase", "eraseRest"} : Goto(w, j, place)
    BY DEF NativeStart, Retire, Erase
  <2>2. QED
    BY <2>1, LeaveFacts, GotoFacts DEF Moved, Places
<1>2. CASE NativeStart(w, j)
  BY <1>1, <1>2 DEF NativeStart, TypeOK, disk
<1>3. CASE Retire(w, j)
  <2>1. receipt' \in [Jobs -> BOOLEAN]
    BY <1>3 DEF Retire, TypeOK
  <2>2. QED
    BY <1>1, <1>3, <2>1 DEF Retire, TypeOK
<1>4. CASE Erase(w, j)
  <2>1. Fresh \in Journals /\ Fresh.phase = "staged"
    BY DEF Fresh, Journals, Phases, Attempts
  <2>2. EraseRequest(j) \/ EraseJournal(j)
    BY <1>4 DEF Erase
  <2>3. CASE EraseRequest(j)
    BY <1>1, <1>4, <2>3 DEF Erase, EraseRequest, TypeOK
  <2>4. CASE EraseJournal(j)
    BY <1>1, <1>4, <2>1, <2>4 DEF Erase, EraseJournal, TypeOK
  <2>5. QED
    BY <2>2, <2>3, <2>4
<1>5. QED
  BY <1>2, <1>3, <1>4
-----------------------------------------------------------------------------
\* A quiet step and a step that only starts or erases are all there is.
LEMMA Steps ==
  ASSUME TypeOK, [Next]_vars
  PROVE  \/ TypeOK' /\ Quiet
         \/ \E j \in Jobs : Forget(j)
         \/ \E w \in Workers, j \in Jobs :
              Stage(w, j) \/ (Run(w, j) /\ Accepts(j, "running")) \/ NativeStart(w, j) \/ Retire(w, j) \/ Erase(w, j)
<1>1. CASE \E j \in Jobs : Queue(j) \/ Cancel(j) \/ Expire(j)
  BY <1>1, OutsideSteps
<1>2. CASE (\E w \in Workers : Crash(w) \/ Elect(w) \/ Depose(w)) \/ UNCHANGED vars
  BY <1>2, OutsideSteps
<1>3. ASSUME NEW w \in Workers, NEW j \in Jobs,
             Launch(w, j) \/ Work(w, j) \/ Maintain(w, j) \/ LostAnswer(w, j) \/ StorageFault(w, j)
      PROVE  \/ TypeOK' /\ Quiet
             \/ (Run(w, j) /\ Accepts(j, "running")) \/ NativeStart(w, j) \/ Retire(w, j) \/ Erase(w, j)
  <2>1. CASE Ordinary(w, j)
    BY <2>1, OrdinaryQuiet
  <2>2. CASE Launch(w, j) \/ Get(w, j) \/ Reload(w, j) \/ RejectFail(w, j)
    BY <2>2, RecordSteps
  <2>3. CASE Reserve(w, j) \/ Claim(w, j) \/ Finish(w, j)
    BY <2>3, ReserveQuiet, RelaySteps
  <2>4. CASE Run(w, j) /\ ~Accepts(j, "running")
    BY <2>4, OrdinarySteps DEF Run
  <2>5. QED
    BY <1>3, <2>1, <2>2, <2>3, <2>4 DEF Work, Ordinary
<1>4. QED
  BY <1>1, <1>2, <1>3 DEF Next

LEMMA TypeStep == TypeOK /\ [Next]_vars => TypeOK'
  BY Steps, StageType, RunFacts, RemovalType

\* The records on disk, the relay's and every worker's keep their types, and
\* what ran has its attempt on disk (inbox.ts:126).
THEOREM TypeCorrect == Spec => []TypeOK
  BY TypeInit, TypeStep, PTL DEF Spec
-----------------------------------------------------------------------------
\* A quiet step keeps the invariant: it spends nothing and stages nothing.
LEMMA QuietStart ==
  ASSUME StartInv, TypeOK', Quiet
  PROVE  StartInv'
<1>1. starts \in [Jobs -> Nat] /\ UNCHANGED <<request, receipt, forgotten, starts>>
  BY DEF StartInv, TypeOK, Quiet
<1>2. \A j \in Jobs, w \in Workers : Starting(w, j)' => Starting(w, j)
  BY DEF Quiet, Starting, Loud
<1>3. \A j \in Jobs : Spent(j)' => Spent(j)
  BY <1>1, <1>2 DEF Spent
<1>4. \A j \in Jobs, w \in Workers : task'[w][j].pc \in {"erase", "eraseRest"} => task'[w][j].pc = task[w][j].pc
  BY DEF Quiet, Loud
<1>5. \A k \in Jobs : journal'[k].phase \in {"staged", "claimed"} => journal[k].phase \in {"staged", "claimed"}
  BY DEF Quiet
<1>6. QED
  BY <1>1, <1>2, <1>3, <1>4, <1>5 DEF StartInv

\* An offer that is staged is of a job that never ran: a spent one off the disk
\* has its receipt, or is offered no more.
LEMMA StageStart ==
  ASSUME StartInv, TypeOK', NEW w \in Workers, NEW j \in Jobs, Stage(w, j)
  PROVE  StartInv'
<1>1. ~Spent(j) /\ \A v \in Workers : task[v][j].pc \notin {"erase", "eraseRest"}
  BY DEF Stage, Offered, StartInv
<1>2. /\ \A k \in Jobs : Spent(k)' <=> Spent(k)
      /\ \A k \in Jobs : k # j => request'[k] = request[k]
  BY DEF Stage, Spent, Starting, StartInv, TypeOK
<1>3. UNCHANGED <<journal, receipt, forgotten, task, starts>>
  BY DEF Stage
<1>4. QED
  BY <1>1, <1>2, <1>3 DEF StartInv, Starting

LEMMA ForgetStart ==
  ASSUME StartInv, TypeOK', NEW j \in Jobs, Forget(j)
  PROVE  StartInv'
<1>1. /\ forgotten' = forgotten \cup {j}
      /\ \A k \in Jobs : k # j => receipt'[k] = receipt[k]
  BY DEF Forget, StartInv, TypeOK
<1>2. UNCHANGED <<request, journal, task, starts>>
  BY DEF Forget
<1>3. \A k \in Jobs : Spent(k)' <=> Spent(k)
  BY <1>2 DEF Spent, Starting
<1>4. QED
  BY <1>1, <1>2, <1>3 DEF StartInv, Starting

\* Running is reached from claimed alone, where no spent job is.
LEMMA RunStart ==
  ASSUME StartInv, NEW w \in Workers, NEW j \in Jobs, Run(w, j), Accepts(j, "running")
  PROVE  StartInv'
<1>0. TypeOK
  BY DEF StartInv
<1>1. /\ TypeOK'
      /\ Moved(w, j, "native")
      /\ request[j] /\ journal[j].phase = "claimed" /\ journal'[j].phase = "running"
      /\ \A k \in Jobs : k # j => journal'[k] = journal[k]
  BY <1>0, RunFacts
<1>2. UNCHANGED <<request, receipt, forgotten, starts>>
  BY DEF Run
<1>3. ~Spent(j)
  BY <1>1 DEF StartInv
<1>4. starts[j] = 0 /\ \A v \in Workers : ~Starting(v, j)
  BY <1>0, <1>3 DEF Spent, TypeOK
<1>5. \A v \in Workers, k \in Jobs : v # w \/ k # j => (Starting(v, k)' <=> Starting(v, k))
  BY <1>1 DEF Starting, Moved
<1>6. \A k \in Jobs : k # j => (Spent(k)' <=> Spent(k))
  BY <1>2, <1>5 DEF Spent
<1>7. \A v \in Workers, k \in Jobs : task'[v][k].pc \in {"erase", "eraseRest"} => task'[v][k].pc = task[v][k].pc
  BY <1>1 DEF Moved
<1>8. QED
  BY <1>1, <1>2, <1>4, <1>5, <1>6, <1>7 DEF StartInv

\* The one worker at the start begins the one invocation.
LEMMA NativeOnce ==
  ASSUME StartInv, TypeOK', NEW w \in Workers, NEW j \in Jobs, NativeStart(w, j)
  PROVE  StartInv'
<1>0. TypeOK /\ Starting(w, j) /\ starts[j] = 0
  BY DEF StartInv, NativeStart, At, Starting
<1>1. Moved(w, j, "await") /\ UNCHANGED <<request, journal, receipt, forgotten>>
  BY <1>0, GotoFacts DEF NativeStart, Places, disk
<1>2. starts'[j] = 1 /\ \A k \in Jobs : k # j => starts'[k] = starts[k]
  BY <1>0 DEF NativeStart, TypeOK
<1>3. \A v \in Workers : ~Starting(v, j)'
  BY <1>0, <1>1 DEF StartInv, Starting, Moved
<1>4. \A v \in Workers, k \in Jobs : k # j => (Starting(v, k)' <=> Starting(v, k))
  BY <1>1 DEF Starting, Moved
<1>5. Spent(j) /\ \A k \in Jobs : k # j => (Spent(k)' <=> Spent(k))
  BY <1>0, <1>2, <1>4 DEF Spent
<1>6. \A v \in Workers, k \in Jobs : task'[v][k].pc \in {"erase", "eraseRest"} => task'[v][k].pc = task[v][k].pc
  BY <1>1 DEF Moved
<1>7. QED
  BY <1>1, <1>2, <1>3, <1>4, <1>5, <1>6 DEF StartInv

LEMMA RetireStart ==
  ASSUME StartInv, TypeOK', NEW w \in Workers, NEW j \in Jobs, Retire(w, j)
  PROVE  StartInv'
<1>0. TypeOK
  BY DEF StartInv
<1>1. /\ UNCHANGED <<request, journal, forgotten, starts>>
      /\ \A k \in Jobs : receipt[k] => receipt'[k]
  BY <1>0 DEF Retire, TypeOK
<1>2. CASE Leave(w, j)
  <2>1. Moved(w, j, "idle")
    BY <1>0, <1>2, LeaveFacts
  <2>2. \A k \in Jobs : Spent(k)' => Spent(k)
    BY <1>1, <2>1 DEF Spent, Starting, Moved
  <2>3. QED
    BY <1>1, <2>1, <2>2 DEF StartInv, Starting, Moved
<1>3. CASE Goto(w, j, "erase") /\ receipt'[j]
  <2>1. Moved(w, j, "erase")
    BY <1>0, <1>3, GotoFacts DEF Places
  <2>2. \A k \in Jobs : Spent(k)' => Spent(k)
    BY <1>1, <2>1 DEF Spent, Starting, Moved
  <2>3. QED
    BY <1>1, <1>3, <2>1, <2>2 DEF StartInv, Starting, Moved
<1>4. QED
  BY <1>0, <1>2, <1>3 DEF Retire, TypeOK

\* The request goes first, under a receipt; the journal then has no reader.
LEMMA EraseStart ==
  ASSUME JournalFirst = FALSE, StartInv, TypeOK', NEW w \in Workers, NEW j \in Jobs, Erase(w, j)
  PROVE  StartInv'
<1>0. TypeOK /\ UNCHANGED <<receipt, forgotten, starts>> /\ (receipt[j] \/ j \in forgotten)
  BY DEF StartInv, Erase, At
<1>1. CASE EraseRequest(j) /\ Goto(w, j, "eraseRest")
  <2>1. Moved(w, j, "eraseRest")
    BY <1>0, <1>1, GotoFacts DEF Places
  <2>2. ~request'[j] /\ UNCHANGED journal /\ \A k \in Jobs : k # j => request'[k] = request[k]
    BY <1>0, <1>1 DEF EraseRequest, TypeOK
  <2>3. \A k \in Jobs : Spent(k)' => Spent(k)
    BY <1>0, <2>1 DEF Spent, Starting, Moved
  <2>4. \A v \in Workers, k \in Jobs : Starting(v, k)' => Starting(v, k)
    BY <2>1 DEF Starting, Moved
  <2>5. \A k \in Jobs : ~request[k] => ~request'[k]
    BY <2>2
  <2>6. \A k \in Jobs, v \in Workers :
          /\ task'[v][k].pc \in {"erase", "eraseRest"} => receipt[k] \/ k \in forgotten
          /\ task'[v][k].pc = "eraseRest" => ~request'[k]
    BY <1>0, <2>1, <2>2, <2>5 DEF StartInv, Moved
  <2>7. \A k \in Jobs : Spent(k)' =>
          IF request'[k] THEN journal'[k].phase \notin {"staged", "claimed"}
                         ELSE receipt[k] \/ k \in forgotten
    BY <1>0, <2>2, <2>3 DEF StartInv
  <2>8. QED
    BY <1>0, <2>4, <2>6, <2>7 DEF StartInv
<1>2. CASE EraseJournal(j) /\ Leave(w, j) /\ ~request[j]
  <2>1. Moved(w, j, "idle")
    BY <1>0, <1>2, LeaveFacts
  <2>2. UNCHANGED request /\ \A k \in Jobs : k # j => journal'[k] = journal[k]
    BY <1>0, <1>2 DEF EraseJournal, TypeOK
  <2>3. \A k \in Jobs : Spent(k)' => Spent(k)
    BY <1>0, <2>1 DEF Spent, Starting, Moved
  <2>4. QED
    BY <1>0, <1>2, <2>1, <2>2, <2>3 DEF StartInv, Starting, Moved
<1>3. QED
  BY <1>1, <1>2 DEF Erase, At, StartInv
-----------------------------------------------------------------------------
LEMMA StartInit == Init => StartInv
<1> SUFFICES ASSUME Init PROVE StartInv
  OBVIOUS
<1>1. TypeOK
  BY TypeInit
<1>2. \A j \in Jobs : starts[j] = 0 /\ \A w \in Workers : task[w][j].pc = "idle"
  BY DEF Init, Idle
<1>3. \A j \in Jobs : ~Spent(j) /\ \A w \in Workers : ~Starting(w, j)
  BY <1>2 DEF Spent, Starting
<1>4. QED
  BY <1>1, <1>2, <1>3 DEF StartInv

LEMMA StartStep == JournalFirst = FALSE /\ StartInv /\ [Next]_vars => StartInv'
<1> SUFFICES ASSUME JournalFirst = FALSE, StartInv, [Next]_vars PROVE StartInv'
  OBVIOUS
<1>1. TypeOK /\ TypeOK'
  BY TypeStep DEF StartInv
<1>2. QED
  BY <1>1, Steps, QuietStart, StageStart, ForgetStart, RunStart, NativeOnce, RetireStart, EraseStart

\* At most one native invocation per job, over duplicate and late offers,
\* competing monitors, lost answers and any number of crashes
\* (worker/index.ts:84-94, inbox.ts:126).
THEOREM OneStart == ASSUME JournalFirst = FALSE PROVE Spec => []AtMostOneStart
<1>1. StartInv => AtMostOneStart
  BY DEF StartInv, AtMostOneStart
<1>2. StartInv /\ [Next]_vars => StartInv'
  BY StartStep
<1>3. QED
  BY <1>1, <1>2, StartInit, PTL DEF Spec

(* The receipt comes before either unlink, so this needs no order of the two. *)

ReceiptInv ==
  /\ TypeOK
  /\ \A j \in Jobs : Spent(j) /\ ~request[j] => receipt[j] \/ j \in forgotten
  /\ \A j \in Jobs, w \in Workers : task[w][j].pc \in {"erase", "eraseRest"} => receipt[j] \/ j \in forgotten

\* A step that leaves the request, or takes it away under a receipt.
LEMMA ReceiptKept ==
  ASSUME ReceiptInv, TypeOK',
         \A j \in Jobs : /\ receipt[j] \/ j \in forgotten => receipt'[j] \/ j \in forgotten'
                         /\ request[j] => request'[j] \/ receipt[j] \/ j \in forgotten
                         /\ Spent(j)' => Spent(j) \/ request'[j],
         \A w \in Workers, j \in Jobs : task'[w][j].pc \in {"erase", "eraseRest"} =>
           task[w][j].pc \in {"erase", "eraseRest"} \/ receipt'[j]
  PROVE  ReceiptInv'
  BY DEF ReceiptInv

LEMMA ReceiptStep ==
  ASSUME ReceiptInv, [Next]_vars
  PROVE  ReceiptInv'
<1>1. TypeOK /\ TypeOK'
  BY TypeStep DEF ReceiptInv
<1>2. CASE Quiet
  <2>1. /\ UNCHANGED <<request, receipt, forgotten, starts>>
        /\ \A w \in Workers, j \in Jobs : task'[w][j].pc \in Loud => task'[w][j].pc = task[w][j].pc
    BY <1>2 DEF Quiet
  <2>2. \A j \in Jobs : Spent(j)' => Spent(j)
    BY <2>1 DEF Spent, Starting, Loud
  <2>3. QED
    BY <1>1, <2>1, <2>2, ReceiptKept DEF Loud
<1>3. ASSUME NEW j \in Jobs, Forget(j)
      PROVE  ReceiptInv'
  <2>1. /\ UNCHANGED <<request, task, starts>> /\ forgotten' = forgotten \cup {j}
        /\ \A k \in Jobs : k # j => receipt'[k] = receipt[k]
    BY <1>1, <1>3 DEF Forget, TypeOK
  <2>2. \A k \in Jobs : Spent(k)' => Spent(k)
    BY <2>1 DEF Spent, Starting
  <2>3. QED
    BY <1>1, <2>1, <2>2, ReceiptKept
<1>4. ASSUME NEW w \in Workers, NEW j \in Jobs, Stage(w, j)
      PROVE  ReceiptInv'
  <2>1. /\ UNCHANGED <<receipt, forgotten, task, starts>>
        /\ \A k \in Jobs : request[k] => request'[k]
    BY <1>1, <1>4 DEF Stage, TypeOK
  <2>2. \A k \in Jobs : Spent(k)' => Spent(k)
    BY <2>1 DEF Spent, Starting
  <2>3. QED
    BY <1>1, <2>1, <2>2, ReceiptKept
<1>5. ASSUME NEW w \in Workers, NEW j \in Jobs, Run(w, j) /\ Accepts(j, "running")
      PROVE  ReceiptInv'
  <2>1. Moved(w, j, "native") /\ request[j] /\ UNCHANGED <<request, receipt, forgotten, starts>>
    BY <1>1, <1>5, RunFacts DEF Run
  <2>2. \A k \in Jobs : Spent(k)' => Spent(k) \/ request'[k]
    BY <2>1 DEF Spent, Starting, Moved
  <2>3. \A v \in Workers, k \in Jobs : task'[v][k].pc \in {"erase", "eraseRest"} => task'[v][k].pc = task[v][k].pc
    BY <2>1 DEF Moved
  <2>4. QED
    BY <1>1, <2>1, <2>2, <2>3, ReceiptKept
<1>6. ASSUME NEW w \in Workers, NEW j \in Jobs, NativeStart(w, j)
      PROVE  ReceiptInv'
  <2>1. Moved(w, j, "await") /\ UNCHANGED <<request, receipt, forgotten>> /\ Starting(w, j)
    BY <1>1, <1>6, GotoFacts DEF NativeStart, Places, disk, At, Starting
  <2>2. \A k \in Jobs : k # j => starts'[k] = starts[k]
    BY <1>1, <1>6 DEF NativeStart, TypeOK
  <2>3. \A k \in Jobs : Spent(k)' => Spent(k)
    BY <2>1, <2>2 DEF Spent, Starting, Moved
  <2>4. \A v \in Workers, k \in Jobs : task'[v][k].pc \in {"erase", "eraseRest"} => task'[v][k].pc = task[v][k].pc
    BY <2>1 DEF Moved
  <2>5. QED
    BY <1>1, <2>1, <2>3, <2>4, ReceiptKept
<1>7. ASSUME NEW w \in Workers, NEW j \in Jobs, Retire(w, j)
      PROVE  ReceiptInv'
  <2>1. /\ UNCHANGED <<request, forgotten, starts>>
        /\ \A k \in Jobs : receipt[k] => receipt'[k]
    BY <1>1, <1>7 DEF Retire, TypeOK
  <2>2. Moved(w, j, "idle") \/ (Moved(w, j, "erase") /\ receipt'[j])
    <3>1. Leave(w, j) \/ (Goto(w, j, "erase") /\ receipt'[j])
      BY <1>1, <1>7 DEF Retire, TypeOK
    <3>2. QED
      BY <1>1, <3>1, LeaveFacts, GotoFacts DEF Places
  <2>3. \A k \in Jobs : Spent(k)' => Spent(k)
    BY <2>1, <2>2 DEF Spent, Starting, Moved
  <2>4. \A v \in Workers, k \in Jobs : task'[v][k].pc \in {"erase", "eraseRest"} =>
          task[v][k].pc \in {"erase", "eraseRest"} \/ receipt'[k]
    BY <2>2 DEF Moved
  <2>5. QED
    BY <1>1, <2>1, <2>3, <2>4, ReceiptKept
<1>8. ASSUME NEW w \in Workers, NEW j \in Jobs, Erase(w, j)
      PROVE  ReceiptInv'
  <2>1. /\ UNCHANGED <<receipt, forgotten, starts>> /\ (receipt[j] \/ j \in forgotten)
        /\ task[w][j].pc \in {"erase", "eraseRest"}
    BY <1>8 DEF Erase, At, ReceiptInv
  <2>2. \A k \in Jobs : k # j => request'[k] = request[k]
    BY <1>1, <1>8 DEF Erase, EraseRequest, EraseJournal, TypeOK
  <2>3. Moved(w, j, "idle") \/ Moved(w, j, "eraseRest")
    BY <1>1, <1>8, LeaveFacts, GotoFacts DEF Erase, Places
  <2>4. \A k \in Jobs : Spent(k)' => Spent(k)
    BY <2>1, <2>3 DEF Spent, Starting, Moved
  <2>5. \A v \in Workers, k \in Jobs : task'[v][k].pc \in {"erase", "eraseRest"} =>
          task[v][k].pc \in {"erase", "eraseRest"}
    BY <2>1, <2>3 DEF Moved
  <2>6. QED
    BY <1>1, <2>1, <2>2, <2>4, <2>5, ReceiptKept
<1>9. QED
  BY <1>1, <1>2, <1>3, <1>4, <1>5, <1>6, <1>7, <1>8, Steps

\* A job that ran is on disk or behind its receipt until no offer of it can
\* arrive, whichever file a removal unlinks first (inbox.ts:27, receipts/index.ts:37).
THEOREM Replay == Spec => []ReplayProtected
<1>1. Init => ReceiptInv
  BY StartInit, TypeInit DEF Init, ReceiptInv, Spent, Starting, Idle
<1>2. ReceiptInv /\ [Next]_vars => ReceiptInv'
  BY ReceiptStep
<1>3. ReceiptInv => ReplayProtected
  BY DEF ReceiptInv, ReplayProtected, Spent
<1>4. QED
  BY <1>1, <1>2, <1>3, PTL DEF Spec
-----------------------------------------------------------------------------
\* The relay grants no claim of the job any more.
Final == {"completed", "failed", "cancelled", "expired"}
Settled(j) == relay[j].state \in Final

\* The job's one run was begun and the provider took it.
Taken(j) == outcome[j] = "accepted" /\ starts[j] = 1

BeforeClaim == {"get", "decide", "reserve", "rejectReserve", "claim", "rejectClaim"}
AfterClaim == {"mark", "run", "native", "rejectMark", "rejectFail"}
BeforeAnswer == BeforeClaim \cup AfterClaim \cup {"await"}

\* What holds at each place of a worker that is alone with the job: up to the
\* claim a job that has run is settled, from the claim to the answer the relay
\* has the job granted, and after the report it is settled.
WorkInv(w, j) ==
  LET pc == task[w][j].pc
      phase == task[w][j].phase IN
  /\ pc = "begin" => phase = journal[j].phase
  /\ pc \in BeforeClaim => starts[j] = 0 \/ Settled(j)
  /\ phase = "delivered" => pc \notin BeforeAnswer
  /\ pc = "decide" /\ task[w][j].seen \in Final => Settled(j)
  /\ pc \in {"finished", "retire", "erase", "eraseRest", "confirm"} => Settled(j)
  /\ pc \in AfterClaim => relay[j].state = "accepted" /\ starts[j] = 0
  /\ pc \in {"native", "await"} => request[j] /\ journal[j].phase = "running"
  /\ pc = "await" => relay[j].state = "accepted" /\ starts[j] = 1 /\ outcome[j] = "none"
  /\ pc \in {"finish", "confirm"} /\ phase = "delivered" => Taken(j)
  /\ pc = "finish" /\ journal[j].phase = "delivered" => phase = "delivered"

\* The three records of a job: its journal, the relay's, and what really ran.
RecordInv(j) ==
  /\ starts[j] \in {0, 1}
  /\ starts[j] = 0 => outcome[j] = "none"
  /\ starts[j] = 1 /\ ~Settled(j) => request[j] /\ journal[j].phase \in {"running", "uncertain", "delivered", "failed"}
  /\ journal[j].phase \in {"rejected", "completed", "cancelled"} => Settled(j)
  /\ journal[j].phase = "delivered" => Taken(j) /\ relay[j].state \in {"accepted", "completed", "expired"}
  /\ relay[j].state = "completed" => Taken(j)

OneMonitor == \A v, w \in Workers : v = w
SoleInv == TypeOK /\ \A j \in Jobs : RecordInv(j) /\ \A w \in Workers : WorkInv(w, j)

\* Everything about the other jobs stays as it is.
Elsewhere(j) == \A k \in Jobs : k # j =>
  /\ request'[k] = request[k] /\ journal'[k] = journal[k] /\ relay'[k] = relay[k]
  /\ starts'[k] = starts[k] /\ outcome'[k] = outcome[k]
  /\ \A w \in Workers : task'[w][k] = task[w][k]

LEMMA ElsewhereKept ==
  ASSUME NEW j \in Jobs, NEW k \in Jobs, k # j, NEW w \in Workers,
         RecordInv(k), WorkInv(w, k), Elsewhere(j)
  PROVE  RecordInv(k)' /\ WorkInv(w, k)'
  BY DEF RecordInv, WorkInv, Elsewhere, Settled, Taken

\* A step at one job keeps the invariant if it keeps that job's part.
LEMMA SoleStep ==
  ASSUME SoleInv, OneMonitor, TypeOK', NEW w \in Workers, NEW j \in Jobs,
         Elsewhere(j), RecordInv(j)', WorkInv(w, j)'
  PROVE  SoleInv'
<1>1. ASSUME NEW k \in Jobs, NEW v \in Workers PROVE RecordInv(k)' /\ WorkInv(v, k)'
  <2>1. v = w
    BY DEF OneMonitor
  <2>2. CASE k = j
    BY <2>1, <2>2
  <2>3. CASE k # j
    BY <2>3, ElsewhereKept DEF SoleInv
  <2>4. QED
    BY <2>2, <2>3
<1>2. QED
  BY <1>1 DEF SoleInv

\* Where a step leaves the worker's record of the job.
Placed(w, j, pc, phase, seen) ==
  /\ \A v \in Workers, k \in Jobs : v # w \/ k # j => task'[v][k] = task[v][k]
  /\ task'[w][j].pc = pc /\ task'[w][j].phase = phase /\ task'[w][j].seen = seen

LEMMA GotoPlaced ==
  ASSUME TypeOK, NEW w \in Workers, NEW j \in Jobs, NEW place \in Places, Goto(w, j, place)
  PROVE  Placed(w, j, place, task[w][j].phase, task[w][j].seen)
<1> DEFINE t == [task[w][j] EXCEPT !.pc = place]
<1>1. task[w][j] \in Tasks
  BY DEF TypeOK
<1>2. t \in Tasks /\ t.pc = place /\ t.phase = task[w][j].phase /\ t.seen = task[w][j].seen
  BY <1>1 DEF Tasks
<1>3. Replaced(w, j, t)
  BY DEF Goto, TypeOK, Replaced
<1> HIDE DEF t
<1>4. task'[w][j] = t /\ \A v \in Workers, k \in Jobs : v # w \/ k # j => task'[v][k] = task[v][k]
  BY <1>2, <1>3, TaskUpdate
<1>5. QED
  BY <1>2, <1>4 DEF Placed

LEMMA LeavePlaced ==
  ASSUME TypeOK, NEW w \in Workers, NEW j \in Jobs, Leave(w, j)
  PROVE  Placed(w, j, "idle", "staged", "absent")
<1>1. Idle \in Tasks /\ Idle.pc = "idle" /\ Idle.phase = "staged" /\ Idle.seen = "absent"
  BY DEF Idle, Tasks, Places, Phases, RelayStates, Attempts
<1>2. Replaced(w, j, Idle)
  BY DEF Leave, TypeOK, Replaced
<1>3. QED
  BY <1>1, <1>2, TaskUpdate DEF Placed

\* The journal of the job may have passed to the phase, and no other changed.
Shifted(j, phase) ==
  /\ \A k \in Jobs : k # j => journal'[k] = journal[k]
  /\ journal'[j].phase = journal[j].phase \/ journal'[j].phase = phase

LEMMA AdvanceShifts ==
  ASSUME TypeOK, NEW j \in Jobs, NEW phase \in Phases, Advance(j, phase)
  PROVE  Shifted(j, phase)
  BY AdvanceFacts DEF Shifted

\* The steps of the worker that touch the journal, by the place they begin at.
LEMMA SoleBegin ==
  ASSUME SoleInv, OneMonitor, TypeOK', NEW w \in Workers, NEW j \in Jobs, Begin(w, j)
  PROVE  SoleInv'
<1>0. TypeOK /\ RecordInv(j) /\ WorkInv(w, j) /\ task[w][j].pc = "begin"
  BY DEF SoleInv, Begin, At
<1>1. UNCHANGED <<request, relay, starts, outcome>>
  BY DEF Begin
<1>2. CASE Leave(w, j) /\ UNCHANGED journal
  <2>1. Placed(w, j, "idle", "staged", "absent")
    BY <1>0, <1>2, LeavePlaced
  <2>2. QED
    BY <1>0, <1>1, <1>2, <2>1, SoleStep DEF Placed, Elsewhere, RecordInv, WorkInv, Settled, Taken, BeforeClaim, AfterClaim, BeforeAnswer
<1>3. CASE /\ task[w][j].phase \in {"delivered", "failed", "uncertain"}
           /\ Goto(w, j, "finish") /\ UNCHANGED journal
  <2>1. Placed(w, j, "finish", task[w][j].phase, task[w][j].seen)
    BY <1>0, <1>3, GotoPlaced DEF Places
  <2>2. QED
    BY <1>0, <1>1, <1>3, <2>1, SoleStep DEF Placed, Elsewhere, RecordInv, WorkInv, Settled, Taken, BeforeClaim, AfterClaim, BeforeAnswer
<1>4. CASE task[w][j].phase = "running" /\ Goto(w, j, "finish") /\ Advance(j, "uncertain")
  <2>1. Placed(w, j, "finish", task[w][j].phase, task[w][j].seen) /\ Shifted(j, "uncertain")
    BY <1>0, <1>4, GotoPlaced, AdvanceShifts DEF Places, Phases
  <2>2. QED
    BY <1>0, <1>1, <1>4, <2>1, SoleStep DEF Placed, Shifted, Elsewhere, RecordInv, WorkInv, Settled, Taken, BeforeClaim, AfterClaim, BeforeAnswer
<1>5. CASE /\ task[w][j].phase \in {"staged", "claimed", "rejected"}
           /\ Goto(w, j, "get") /\ UNCHANGED journal
  <2>1. Placed(w, j, "get", task[w][j].phase, task[w][j].seen)
    BY <1>0, <1>5, GotoPlaced DEF Places
  <2>2. QED
    BY <1>0, <1>1, <1>5, <2>1, SoleStep DEF Placed, Elsewhere, RecordInv, WorkInv, Settled, Taken, BeforeClaim, AfterClaim, BeforeAnswer
<1>6. QED
  BY <1>2, <1>3, <1>4, <1>5 DEF Begin
LEMMA SoleDecide ==
  ASSUME SoleInv, OneMonitor, TypeOK', NEW w \in Workers, NEW j \in Jobs, Decide(w, j)
  PROVE  SoleInv'
<1>0. TypeOK /\ RecordInv(j) /\ WorkInv(w, j) /\ task[w][j].pc = "decide"
  BY DEF SoleInv, Decide, Defer, Refuse, Deliver, At
<1>1. UNCHANGED <<request, relay, starts, outcome>>
  BY DEF Decide, Defer, Refuse, Deliver, At, disk
<1>2. CASE task[w][j].seen \in {"cancelled", "expired"} /\ Goto(w, j, "retire") /\ Advance(j, "cancelled")
  <2>1. Placed(w, j, "retire", task[w][j].phase, task[w][j].seen) /\ Shifted(j, "cancelled")
    BY <1>0, <1>2, GotoPlaced, AdvanceShifts DEF Places, Phases
  <2>2. QED
    BY <1>0, <1>1, <1>2, <2>1, SoleStep DEF Placed, Elsewhere, RecordInv, WorkInv, Settled, Taken, BeforeClaim, AfterClaim, BeforeAnswer, Shifted, Final
<1>3. CASE task[w][j].seen \in {"completed", "failed"} /\ Goto(w, j, "finished") /\ Advance(j, "failed")
  <2>1. Placed(w, j, "finished", task[w][j].phase, task[w][j].seen) /\ Shifted(j, "failed")
    BY <1>0, <1>3, GotoPlaced, AdvanceShifts DEF Places, Phases
  <2>2. QED
    BY <1>0, <1>1, <1>3, <2>1, SoleStep DEF Placed, Elsewhere, RecordInv, WorkInv, Settled, Taken, BeforeClaim, AfterClaim, BeforeAnswer, Shifted, Final
<1>4. CASE Leave(w, j) /\ UNCHANGED journal
  <2>1. Placed(w, j, "idle", "staged", "absent")
    BY <1>0, <1>4, LeavePlaced
  <2>2. QED
    BY <1>0, <1>1, <1>4, <2>1, SoleStep DEF Placed, Elsewhere, RecordInv, WorkInv, Settled, Taken, BeforeClaim, AfterClaim, BeforeAnswer
<1>5. CASE Goto(w, j, "reserve") /\ UNCHANGED journal
  <2>1. Placed(w, j, "reserve", task[w][j].phase, task[w][j].seen)
    BY <1>0, <1>5, GotoPlaced DEF Places
  <2>2. QED
    BY <1>0, <1>1, <1>5, <2>1, SoleStep DEF Placed, Elsewhere, RecordInv, WorkInv, Settled, Taken, BeforeClaim, AfterClaim, BeforeAnswer
<1>6. CASE Goto(w, j, "rejectReserve") /\ UNCHANGED journal
  <2>1. Placed(w, j, "rejectReserve", task[w][j].phase, task[w][j].seen)
    BY <1>0, <1>6, GotoPlaced DEF Places
  <2>2. QED
    BY <1>0, <1>1, <1>6, <2>1, SoleStep DEF Placed, Elsewhere, RecordInv, WorkInv, Settled, Taken, BeforeClaim, AfterClaim, BeforeAnswer
<1>7. QED
  BY <1>2, <1>3, <1>4, <1>5, <1>6 DEF Decide, Defer, Refuse, Deliver, At

LEMMA SoleFinished ==
  ASSUME SoleInv, OneMonitor, TypeOK', NEW w \in Workers, NEW j \in Jobs, AlreadyFinished(w, j)
  PROVE  SoleInv'
<1>0. TypeOK /\ RecordInv(j) /\ WorkInv(w, j) /\ task[w][j].pc = "finished"
  BY DEF SoleInv, AlreadyFinished, At
<1>1. UNCHANGED <<request, relay, starts, outcome>>
  BY DEF AlreadyFinished, At, disk
<1>2. CASE Goto(w, j, "retire") /\ Advance(j, "completed")
  <2>1. Placed(w, j, "retire", task[w][j].phase, task[w][j].seen) /\ Shifted(j, "completed")
    BY <1>0, <1>2, GotoPlaced, AdvanceShifts DEF Places, Phases
  <2>2. QED
    BY <1>0, <1>1, <1>2, <2>1, SoleStep DEF Placed, Elsewhere, RecordInv, WorkInv, Settled, Taken, BeforeClaim, AfterClaim, BeforeAnswer, Shifted
<1>3. QED
  BY <1>2 DEF AlreadyFinished, At

LEMMA SoleMark ==
  ASSUME SoleInv, OneMonitor, TypeOK', NEW w \in Workers, NEW j \in Jobs, Mark(w, j) \/ RejectMark(w, j)
  PROVE  SoleInv'
<1>0. TypeOK /\ RecordInv(j) /\ WorkInv(w, j) /\ task[w][j].pc \in {"mark", "rejectMark"}
  BY DEF SoleInv, Mark, RejectMark, At
<1>1. UNCHANGED <<request, relay, starts, outcome>>
  BY DEF Mark, RejectMark, disk
<1>2. Shifted(j, "claimed")
  BY <1>0, AdvanceShifts DEF Mark, RejectMark, Phases, Shifted
<1>3. CASE Goto(w, j, "run") /\ task[w][j].pc = "mark"
  <2>1. Placed(w, j, "run", task[w][j].phase, task[w][j].seen)
    BY <1>0, <1>3, GotoPlaced DEF Places
  <2>2. QED
    BY <1>0, <1>1, <1>2, <1>3, <2>1, SoleStep DEF Placed, Elsewhere, RecordInv, WorkInv, Settled, Taken, BeforeClaim, AfterClaim, BeforeAnswer, Shifted
<1>4. CASE Goto(w, j, "rejectFail") /\ task[w][j].pc = "rejectMark"
  <2>1. Placed(w, j, "rejectFail", task[w][j].phase, task[w][j].seen)
    BY <1>0, <1>4, GotoPlaced DEF Places
  <2>2. QED
    BY <1>0, <1>1, <1>2, <1>4, <2>1, SoleStep DEF Placed, Elsewhere, RecordInv, WorkInv, Settled, Taken, BeforeClaim, AfterClaim, BeforeAnswer, Shifted
<1>5. CASE Leave(w, j)
  <2>1. Placed(w, j, "idle", "staged", "absent")
    BY <1>0, <1>5, LeavePlaced
  <2>2. QED
    BY <1>0, <1>1, <1>2, <1>5, <2>1, SoleStep DEF Placed, Elsewhere, RecordInv, WorkInv, Settled, Taken, BeforeClaim, AfterClaim, BeforeAnswer, Shifted
<1>6. QED
  BY <1>3, <1>4, <1>5 DEF Mark, RejectMark, At

LEMMA SoleSettle ==
  ASSUME SoleInv, OneMonitor, TypeOK', NEW w \in Workers, NEW j \in Jobs, Settle(w, j)
  PROVE  SoleInv'
<1>0. TypeOK /\ RecordInv(j) /\ WorkInv(w, j) /\ task[w][j].pc = "await"
  BY DEF SoleInv, Settle, At
<1>1. UNCHANGED <<request, relay, starts>>
  BY DEF Settle
<1>2. CASE outcome' = [outcome EXCEPT ![j] = "accepted"] /\ Advance(j, "delivered") /\ Goto(w, j, "reload")
  <2>1. Placed(w, j, "reload", task[w][j].phase, task[w][j].seen) /\ Shifted(j, "delivered")
    BY <1>0, <1>2, GotoPlaced, AdvanceShifts DEF Places, Phases
  <2>2. outcome'[j] = "accepted" /\ \A k \in Jobs : k # j => outcome'[k] = outcome[k]
    BY <1>0, <1>2 DEF TypeOK
  <2>3. QED
    BY <1>0, <1>1, <2>1, <2>2, SoleStep DEF Placed, Shifted, Elsewhere, RecordInv, WorkInv, Settled, Taken, BeforeClaim, AfterClaim, BeforeAnswer
<1>3. CASE outcome' = [outcome EXCEPT ![j] = "rejected"] /\ Advance(j, "failed") /\ Goto(w, j, "reload")
  <2>1. Placed(w, j, "reload", task[w][j].phase, task[w][j].seen) /\ Shifted(j, "failed")
    BY <1>0, <1>3, GotoPlaced, AdvanceShifts DEF Places, Phases
  <2>2. \A k \in Jobs : k # j => outcome'[k] = outcome[k]
    BY <1>0, <1>3 DEF TypeOK
  <2>3. QED
    BY <1>0, <1>1, <2>1, <2>2, SoleStep DEF Placed, Shifted, Elsewhere, RecordInv, WorkInv, Settled, Taken, BeforeClaim, AfterClaim, BeforeAnswer
<1>4. CASE Advance(j, "uncertain") /\ Goto(w, j, "finish") /\ UNCHANGED outcome
  <2>1. Placed(w, j, "finish", task[w][j].phase, task[w][j].seen) /\ Shifted(j, "uncertain")
    BY <1>0, <1>4, GotoPlaced, AdvanceShifts DEF Places, Phases
  <2>2. QED
    BY <1>0, <1>1, <1>4, <2>1, SoleStep DEF Placed, Shifted, Elsewhere, RecordInv, WorkInv, Settled, Taken, BeforeClaim, AfterClaim, BeforeAnswer
<1>5. QED
  BY <1>2, <1>3, <1>4 DEF Settle

\* A step that writes the worker's record as a whole.
LEMMA RecordPlaced ==
  ASSUME TypeOK, NEW w \in Workers, NEW j \in Jobs, NEW t \in Tasks, Replaced(w, j, t)
  PROVE  Placed(w, j, t.pc, t.phase, t.seen)
  BY TaskUpdate DEF Placed

LEMMA GetPlaced ==
  ASSUME TypeOK, NEW w \in Workers, NEW j \in Jobs, Get(w, j)
  PROVE  Placed(w, j, "decide", task[w][j].phase, relay[j].state)
<1> DEFINE t == [task[w][j] EXCEPT !.pc = "decide", !.seen = relay[j].state]
<1>1. task[w][j] \in Tasks /\ relay[j].state \in RelayStates
  BY DEF TypeOK, RelayJobs
<1>2. t \in Tasks /\ t.pc = "decide" /\ t.phase = task[w][j].phase /\ t.seen = relay[j].state
  BY <1>1 DEF Tasks, Places
<1>3. Replaced(w, j, t)
  BY DEF Get, TypeOK, Replaced
<1> HIDE DEF t
<1>4. QED
  BY <1>2, <1>3, RecordPlaced

LEMMA SoleGet ==
  ASSUME SoleInv, OneMonitor, TypeOK', NEW w \in Workers, NEW j \in Jobs, Get(w, j)
  PROVE  SoleInv'
<1>0. TypeOK /\ RecordInv(j) /\ WorkInv(w, j) /\ task[w][j].pc = "get"
  BY DEF SoleInv, Get, At
<1>1. Placed(w, j, "decide", task[w][j].phase, relay[j].state)
  BY <1>0, GetPlaced
<1>2. UNCHANGED <<request, journal, relay, starts, outcome>>
  BY DEF Get, disk
<1>3. QED
  BY <1>0, <1>1, <1>2, SoleStep
  DEF Placed, Elsewhere, RecordInv, WorkInv, Settled, Taken, BeforeClaim, AfterClaim, BeforeAnswer

LEMMA ReloadPlaced ==
  ASSUME TypeOK, NEW w \in Workers, NEW j \in Jobs, Reload(w, j), request[j]
  PROVE  Placed(w, j, "finish", journal[j].phase, task[w][j].seen)
<1> DEFINE t == [task[w][j] EXCEPT !.pc = "finish", !.phase = journal[j].phase, !.claim = journal[j].claim]
<1>1. task[w][j] \in Tasks /\ journal[j] \in Journals
  BY DEF TypeOK
<1>2. t \in Tasks /\ t.pc = "finish" /\ t.phase = journal[j].phase /\ t.seen = task[w][j].seen
  BY <1>1 DEF Tasks, Journals, Places
<1>3. Replaced(w, j, t)
  BY DEF Reload, TypeOK, Replaced
<1> HIDE DEF t
<1>4. QED
  BY <1>2, <1>3, RecordPlaced

LEMMA SoleReload ==
  ASSUME SoleInv, OneMonitor, TypeOK', NEW w \in Workers, NEW j \in Jobs, Reload(w, j)
  PROVE  SoleInv'
<1>0. TypeOK /\ RecordInv(j) /\ WorkInv(w, j) /\ task[w][j].pc = "reload"
  BY DEF SoleInv, Reload, At
<1>1. UNCHANGED <<request, journal, relay, starts, outcome>>
  BY DEF Reload, disk
<1>2. CASE Leave(w, j)
  <2>1. Placed(w, j, "idle", "staged", "absent")
    BY <1>0, <1>2, LeavePlaced
  <2>2. QED
    BY <1>0, <1>1, <2>1, SoleStep
    DEF Placed, Elsewhere, RecordInv, WorkInv, Settled, Taken, BeforeClaim, AfterClaim, BeforeAnswer
<1>3. CASE request[j]
  <2>1. Placed(w, j, "finish", journal[j].phase, task[w][j].seen)
    BY <1>0, <1>3, ReloadPlaced
  <2>2. QED
    BY <1>0, <1>1, <2>1, SoleStep
    DEF Placed, Elsewhere, RecordInv, WorkInv, Settled, Taken, BeforeClaim, AfterClaim, BeforeAnswer
<1>4. QED
  BY <1>2, <1>3 DEF Reload

LEMMA RejectFailPlaced ==
  ASSUME TypeOK, NEW w \in Workers, NEW j \in Jobs, RejectFail(w, j)
  PROVE  Placed(w, j, "finish", "failed", task[w][j].seen)
<1> DEFINE t == [task[w][j] EXCEPT !.pc = "finish", !.phase = "failed"]
<1>1. task[w][j] \in Tasks
  BY DEF TypeOK
<1>2. t \in Tasks /\ t.pc = "finish" /\ t.phase = "failed" /\ t.seen = task[w][j].seen
  BY <1>1 DEF Tasks, Places, Phases
<1>3. Replaced(w, j, t)
  BY DEF RejectFail, TypeOK, Replaced
<1> HIDE DEF t
<1>4. QED
  BY <1>2, <1>3, RecordPlaced

LEMMA SoleRejectFail ==
  ASSUME SoleInv, OneMonitor, TypeOK', NEW w \in Workers, NEW j \in Jobs, RejectFail(w, j)
  PROVE  SoleInv'
<1>0. TypeOK /\ RecordInv(j) /\ WorkInv(w, j) /\ task[w][j].pc = "rejectFail"
  BY DEF SoleInv, RejectFail, At
<1>1. Placed(w, j, "finish", "failed", task[w][j].seen)
  BY <1>0, RejectFailPlaced
<1>2. UNCHANGED <<request, relay, starts, outcome>> /\ Shifted(j, "failed")
  BY <1>0, AdvanceShifts DEF RejectFail, Phases
<1>3. QED
  BY <1>0, <1>1, <1>2, SoleStep
  DEF Placed, Shifted, Elsewhere, RecordInv, WorkInv, Settled, Taken, BeforeClaim, AfterClaim, BeforeAnswer

LEMMA LaunchPlaced ==
  ASSUME TypeOK, NEW w \in Workers, NEW j \in Jobs, Launch(w, j)
  PROVE  Placed(w, j, "begin", journal[j].phase, "absent")
<1> DEFINE t == [pc |-> "begin", phase |-> journal[j].phase, claim |-> journal[j].claim,
                 attempt |-> journal[j].attempt, seen |-> "absent"]
<1>1. journal[j] \in Journals
  BY DEF TypeOK
<1>2. t \in Tasks /\ t.pc = "begin" /\ t.phase = journal[j].phase /\ t.seen = "absent"
  BY <1>1 DEF Tasks, Journals, Places, RelayStates
<1>3. Replaced(w, j, t)
  BY DEF Launch, TypeOK, Replaced
<1> HIDE DEF t
<1>4. QED
  BY <1>2, <1>3, RecordPlaced

LEMMA SoleLaunch ==
  ASSUME SoleInv, OneMonitor, TypeOK', NEW w \in Workers, NEW j \in Jobs, Launch(w, j)
  PROVE  SoleInv'
<1>0. TypeOK /\ RecordInv(j) /\ WorkInv(w, j)
  BY DEF SoleInv
<1>1. Placed(w, j, "begin", journal[j].phase, "absent")
  BY <1>0, LaunchPlaced
<1>2. UNCHANGED <<request, journal, relay, starts, outcome>>
  BY DEF Launch, disk
<1>3. QED
  BY <1>0, <1>1, <1>2, SoleStep
  DEF Placed, Elsewhere, RecordInv, WorkInv, Settled, Taken, BeforeClaim, AfterClaim, BeforeAnswer

\* A reservation writes the claim and goes on to the relay.
LEMMA ReservePlaced ==
  ASSUME TypeOK, NEW w \in Workers, NEW j \in Jobs, Reserve(w, j)
  PROVE  /\ \E pc \in {"idle", "claim", "rejectClaim"}, phase \in {"staged", task[w][j].phase}, seen \in RelayStates :
              Placed(w, j, pc, phase, seen)
         /\ \A k \in Jobs : k # j => journal'[k] = journal[k]
         /\ journal'[j].phase = journal[j].phase
<1>1. CASE Leave(w, j) /\ UNCHANGED journal
  BY <1>1, LeavePlaced DEF RelayStates
<1>2. CASE ~(Leave(w, j) /\ UNCHANGED journal)
  <2> DEFINE c == IF journal[j].claim = 0 THEN relay[j].claim + 1 ELSE journal[j].claim
             n == IF At(w, j, "reserve") THEN "claim" ELSE "rejectClaim"
             t == [task[w][j] EXCEPT !.pc = n, !.claim = c]
             e == [journal[j] EXCEPT !.claim = c]
  <2>1. task[w][j] \in Tasks /\ journal[j] \in Journals /\ relay[j] \in RelayJobs
    BY DEF TypeOK
  <2>2. c \in Nat /\ n \in {"claim", "rejectClaim"}
    BY <2>1 DEF RelayJobs, Journals
  <2>3. /\ journal' = [journal EXCEPT ![j].claim = c]
        /\ task' = [task EXCEPT ![w][j] = [@ EXCEPT !.pc = n, !.claim = c]]
    BY <1>2 DEF Reserve
  <2> HIDE DEF c, n
  <2>4. t \in Tasks /\ t.pc = n /\ t.phase = task[w][j].phase /\ t.seen \in RelayStates
    BY <2>1, <2>2 DEF Tasks, Places
  <2>5. Replaced(w, j, t)
    BY <2>3 DEF TypeOK, Replaced
  <2> HIDE DEF t
  <2>6. Placed(w, j, n, task[w][j].phase, t.seen)
    BY <2>4, <2>5, RecordPlaced
  <2>7. journal' = [journal EXCEPT ![j] = e] /\ e.phase = journal[j].phase
    BY <2>1, <2>3 DEF TypeOK, Journals
  <2> HIDE DEF e
  <2>8. QED
    BY <2>2, <2>4, <2>6, <2>7 DEF TypeOK
<1>3. QED
  BY <1>1, <1>2

LEMMA SoleReserve ==
  ASSUME SoleInv, OneMonitor, TypeOK', NEW w \in Workers, NEW j \in Jobs, Reserve(w, j)
  PROVE  SoleInv'
<1>0. TypeOK /\ RecordInv(j) /\ WorkInv(w, j) /\ task[w][j].pc \in {"reserve", "rejectReserve"}
  BY DEF SoleInv, Reserve
<1>1. UNCHANGED <<request, relay, starts, outcome>>
  BY DEF Reserve
<1>2. PICK pc \in {"idle", "claim", "rejectClaim"}, phase \in {"staged", task[w][j].phase}, seen \in RelayStates :
        Placed(w, j, pc, phase, seen)
  BY <1>0, ReservePlaced
<1>3. /\ \A k \in Jobs : k # j => journal'[k] = journal[k]
      /\ journal'[j].phase = journal[j].phase
  BY <1>0, ReservePlaced
<1>4. QED
  BY <1>0, <1>1, <1>2, <1>3, SoleStep
  DEF Placed, Elsewhere, RecordInv, WorkInv, Settled, Taken, BeforeClaim, AfterClaim, BeforeAnswer

\* The relay changes its record of the job to the state, or not at all.
RelayTurns(j, state) ==
  /\ \A k \in Jobs : k # j => relay'[k] = relay[k]
  /\ relay'[j].state = state

LEMMA SoleClaim ==
  ASSUME SoleInv, OneMonitor, TypeOK', NEW w \in Workers, NEW j \in Jobs, Claim(w, j)
  PROVE  SoleInv'
<1>0. TypeOK /\ RecordInv(j) /\ WorkInv(w, j) /\ task[w][j].pc \in {"claim", "rejectClaim"}
  BY DEF SoleInv, Claim
<1>1. UNCHANGED <<request, journal, starts, outcome>>
  BY DEF Claim, disk
<1>2. CASE Leave(w, j) /\ UNCHANGED relay
  <2>1. Placed(w, j, "idle", "staged", "absent")
    BY <1>0, <1>2, LeavePlaced
  <2>2. QED
    BY <1>0, <1>1, <1>2, <2>1, SoleStep
    DEF Placed, Elsewhere, RecordInv, WorkInv, Settled, Taken, BeforeClaim, AfterClaim, BeforeAnswer
<1>3. CASE ~(Leave(w, j) /\ UNCHANGED relay)
  <2>1. relay[j].state \in {"queued", "accepted"}
    BY <1>3 DEF Claim
  <2>2. RelayTurns(j, "accepted")
    BY <1>0, <1>3 DEF Claim, TypeOK, RelayTurns
  <2>3. Goto(w, j, "mark") \/ Goto(w, j, "rejectMark")
    BY <1>3 DEF Claim
  <2>4. \E place \in {"mark", "rejectMark"} : Placed(w, j, place, task[w][j].phase, task[w][j].seen)
    BY <1>0, <2>3, GotoPlaced DEF Places
  <2>5. starts[j] = 0
    BY <1>0, <2>1 DEF WorkInv, BeforeClaim, Settled, Final
  <2>6. QED
    BY <1>0, <1>1, <2>1, <2>2, <2>4, <2>5, SoleStep
    DEF Placed, RelayTurns, Elsewhere, RecordInv, WorkInv, Settled, Taken, BeforeClaim, AfterClaim, BeforeAnswer, Final
<1>4. QED
  BY <1>2, <1>3

LEMMA SoleRun ==
  ASSUME SoleInv, OneMonitor, TypeOK', NEW w \in Workers, NEW j \in Jobs, Run(w, j)
  PROVE  SoleInv'
<1>0. TypeOK /\ RecordInv(j) /\ WorkInv(w, j) /\ task[w][j].pc = "run"
  BY DEF SoleInv, Run, At
<1>1. UNCHANGED <<request, relay, starts, outcome>>
  BY DEF Run
<1>2. CASE Leave(w, j) /\ UNCHANGED journal
  <2>1. Placed(w, j, "idle", "staged", "absent")
    BY <1>0, <1>2, LeavePlaced
  <2>2. QED
    BY <1>0, <1>1, <1>2, <2>1, SoleStep
    DEF Placed, Elsewhere, RecordInv, WorkInv, Settled, Taken, BeforeClaim, AfterClaim, BeforeAnswer
<1>3. CASE Accepts(j, "running")
  <2>1. /\ request[j] /\ journal'[j].phase = "running"
        /\ \A k \in Jobs : k # j => journal'[k] = journal[k]
    BY <1>0, <1>3, RunFacts
  <2>2. Placed(w, j, "native", task[w][j].phase, task[w][j].seen)
    BY <1>0, <1>3, GotoPlaced DEF Run, Places
  <2>3. QED
    BY <1>0, <1>1, <2>1, <2>2, SoleStep
    DEF Placed, Elsewhere, RecordInv, WorkInv, Settled, Taken, BeforeClaim, AfterClaim, BeforeAnswer
<1>4. QED
  BY <1>2, <1>3 DEF Run

LEMMA SoleNative ==
  ASSUME SoleInv, OneMonitor, TypeOK', NEW w \in Workers, NEW j \in Jobs, NativeStart(w, j)
  PROVE  SoleInv'
<1>0. TypeOK /\ RecordInv(j) /\ WorkInv(w, j) /\ task[w][j].pc = "native"
  BY DEF SoleInv, NativeStart, At
<1>1. UNCHANGED <<request, journal, relay, outcome>>
  BY DEF NativeStart, disk
<1>2. starts'[j] = starts[j] + 1 /\ \A k \in Jobs : k # j => starts'[k] = starts[k]
  BY <1>0 DEF NativeStart, TypeOK
<1>3. Placed(w, j, "await", task[w][j].phase, task[w][j].seen)
  BY <1>0, GotoPlaced DEF NativeStart, Places
<1>4. QED
  BY <1>0, <1>1, <1>2, <1>3, SoleStep
  DEF Placed, Elsewhere, RecordInv, WorkInv, Settled, Taken, BeforeClaim, AfterClaim, BeforeAnswer

LEMMA SoleFinish ==
  ASSUME SoleInv, OneMonitor, TypeOK', NEW w \in Workers, NEW j \in Jobs, Finish(w, j)
  PROVE  SoleInv'
<1> DEFINE verdict == Verdict(task[w][j].phase)
<1>0. TypeOK /\ RecordInv(j) /\ WorkInv(w, j) /\ task[w][j].pc = "finish"
  BY DEF SoleInv, Finish, At
<1>1. UNCHANGED <<request, journal, starts, outcome>>
  BY DEF Finish, disk
<1>2. verdict = IF task[w][j].phase = "delivered" THEN "completed" ELSE "failed"
  BY DEF Verdict
<1>3. \/ UNCHANGED relay
      \/ relay[j].state = "accepted" /\ RelayTurns(j, verdict)
  BY <1>0 DEF Finish, TypeOK, RelayTurns
<1>4. \/ Leave(w, j)
      \/ Goto(w, j, "confirm") /\ relay'[j].state = verdict
  BY <1>0 DEF Finish, TypeOK
<1>5. \/ Placed(w, j, "idle", "staged", "absent")
      \/ /\ Placed(w, j, "confirm", task[w][j].phase, task[w][j].seen)
         /\ relay'[j].state = verdict
  BY <1>0, <1>4, LeavePlaced, GotoPlaced DEF Places
<1> HIDE DEF verdict
<1>6. QED
  BY <1>0, <1>1, <1>2, <1>3, <1>5, SoleStep
  DEF Placed, RelayTurns, Elsewhere, RecordInv, WorkInv, Settled, Taken, BeforeClaim, AfterClaim, BeforeAnswer, Final

LEMMA SoleConfirm ==
  ASSUME SoleInv, OneMonitor, TypeOK', NEW w \in Workers, NEW j \in Jobs, Confirm(w, j)
  PROVE  SoleInv'
<1>0. TypeOK /\ RecordInv(j) /\ WorkInv(w, j) /\ task[w][j].pc = "confirm"
  BY DEF SoleInv, Confirm, At
<1>1. UNCHANGED <<request, relay, starts, outcome>>
  BY DEF Confirm
<1>2. CASE Advance(j, "completed") /\ Goto(w, j, "retire")
  <2>1. Placed(w, j, "retire", task[w][j].phase, task[w][j].seen) /\ Shifted(j, "completed")
    BY <1>0, <1>2, GotoPlaced, AdvanceShifts DEF Places, Phases
  <2>2. QED
    BY <1>0, <1>1, <2>1, SoleStep
    DEF Placed, Shifted, Elsewhere, RecordInv, WorkInv, Settled, Taken, BeforeClaim, AfterClaim, BeforeAnswer
<1>3. CASE Advance(j, "rejected") /\ Leave(w, j)
  <2>1. Placed(w, j, "idle", "staged", "absent") /\ Shifted(j, "rejected")
    BY <1>0, <1>3, LeavePlaced, AdvanceShifts DEF Places, Phases
  <2>2. QED
    BY <1>0, <1>1, <2>1, SoleStep
    DEF Placed, Shifted, Elsewhere, RecordInv, WorkInv, Settled, Taken, BeforeClaim, AfterClaim, BeforeAnswer
<1>4. QED
  BY <1>2, <1>3 DEF Confirm

\* The journal is terminal, or the job settled, when its removal begins.
LEMMA SoleRetire ==
  ASSUME SoleInv, OneMonitor, TypeOK', NEW w \in Workers, NEW j \in Jobs, Retire(w, j) \/ Maintain(w, j)
  PROVE  SoleInv'
<1>0. TypeOK /\ RecordInv(j) /\ WorkInv(w, j)
  BY DEF SoleInv
<1>1. UNCHANGED <<request, journal, relay, starts, outcome>>
  BY DEF Retire, Maintain, disk
<1>2. CASE Leave(w, j)
  <2>1. Placed(w, j, "idle", "staged", "absent")
    BY <1>0, <1>2, LeavePlaced
  <2>2. QED
    BY <1>0, <1>1, <2>1, SoleStep
    DEF Placed, Elsewhere, RecordInv, WorkInv, Settled, Taken, BeforeClaim, AfterClaim, BeforeAnswer
<1>3. CASE task[w][j].pc = "retire" /\ Goto(w, j, "erase")
  <2>1. Placed(w, j, "erase", task[w][j].phase, task[w][j].seen)
    BY <1>0, <1>3, GotoPlaced DEF Places
  <2>2. QED
    BY <1>0, <1>1, <1>3, <2>1, SoleStep
    DEF Placed, Elsewhere, RecordInv, WorkInv, Settled, Taken, BeforeClaim, AfterClaim, BeforeAnswer
<1>4. CASE Goto(w, j, "retire") /\ journal[j].phase \in {"completed", "cancelled"}
  <2>1. Placed(w, j, "retire", task[w][j].phase, task[w][j].seen)
    BY <1>0, <1>4, GotoPlaced DEF Places
  <2>2. QED
    BY <1>0, <1>1, <1>4, <2>1, SoleStep
    DEF Placed, Elsewhere, RecordInv, WorkInv, Settled, Taken, BeforeClaim, AfterClaim, BeforeAnswer
<1>5. QED
  BY <1>2, <1>3, <1>4 DEF Retire, Maintain, At, Terminal

\* What is unlinked belongs to a settled job, in either order.
LEMMA SoleErase ==
  ASSUME SoleInv, OneMonitor, TypeOK', NEW w \in Workers, NEW j \in Jobs, Erase(w, j)
  PROVE  SoleInv'
<1>0. TypeOK /\ RecordInv(j) /\ WorkInv(w, j) /\ task[w][j].pc \in {"erase", "eraseRest"}
  BY DEF SoleInv, Erase, At
<1>1. UNCHANGED <<relay, starts, outcome>> /\ Settled(j)
  BY <1>0 DEF Erase, WorkInv
<1>2. /\ \A k \in Jobs : k # j => journal'[k] = journal[k] /\ request'[k] = request[k]
      /\ journal'[j].phase \in {journal[j].phase, "staged"}
  BY <1>0 DEF Erase, EraseJournal, EraseRequest, Fresh, TypeOK
<1>3. \/ Placed(w, j, "idle", "staged", "absent")
      \/ Placed(w, j, "eraseRest", task[w][j].phase, task[w][j].seen)
  BY <1>0, LeavePlaced, GotoPlaced DEF Erase, Places
<1>4. QED
  BY <1>0, <1>1, <1>2, <1>3, SoleStep
  DEF Placed, Elsewhere, RecordInv, WorkInv, Settled, Taken, BeforeClaim, AfterClaim, BeforeAnswer

LEMMA SoleFaults ==
  ASSUME SoleInv, OneMonitor, TypeOK', NEW w \in Workers, NEW j \in Jobs, LostAnswer(w, j) \/ StorageFault(w, j)
  PROVE  SoleInv'
<1>0. TypeOK /\ RecordInv(j) /\ WorkInv(w, j)
  BY DEF SoleInv
<1>1. UNCHANGED <<request, relay, starts>>
  BY DEF LostAnswer, StorageFault, disk
<1>2. \/ UNCHANGED outcome
      \/ task[w][j].pc = "await" /\ \A k \in Jobs : k # j => outcome'[k] = outcome[k]
  BY <1>0 DEF LostAnswer, StorageFault, At, TypeOK
<1>3. CASE Leave(w, j) /\ UNCHANGED journal
  <2>1. Placed(w, j, "idle", "staged", "absent")
    BY <1>0, <1>3, LeavePlaced
  <2>2. QED
    BY <1>0, <1>1, <1>2, <1>3, <2>1, SoleStep
    DEF Placed, Elsewhere, RecordInv, WorkInv, Settled, Taken, BeforeClaim, AfterClaim, BeforeAnswer
<1>4. CASE task[w][j].pc = "await" /\ Advance(j, "uncertain") /\ Goto(w, j, "finish")
  <2>1. Placed(w, j, "finish", task[w][j].phase, task[w][j].seen) /\ Shifted(j, "uncertain")
    BY <1>0, <1>4, GotoPlaced, AdvanceShifts DEF Places, Phases
  <2>2. QED
    BY <1>0, <1>1, <1>2, <1>4, <2>1, SoleStep
    DEF Placed, Shifted, Elsewhere, RecordInv, WorkInv, Settled, Taken, BeforeClaim, AfterClaim, BeforeAnswer
<1>5. QED
  BY <1>3, <1>4 DEF LostAnswer, StorageFault, At, disk
-----------------------------------------------------------------------------
\* The controller, the relay and retention: a cancelled or an expired job is
\* settled, and what was delivered is not withdrawn.
LEMMA SoleRelay ==
  ASSUME SoleInv, OneMonitor, TypeOK', NEW j \in Jobs, Queue(j) \/ Cancel(j) \/ Expire(j) \/ Forget(j)
  PROVE  SoleInv'
<1>1. UNCHANGED <<request, journal, task, starts, outcome>>
  BY DEF Queue, Cancel, Expire, Forget, disk
<1>2. PICK state \in {"queued", "cancelled", "expired"} :
        /\ relay' = [relay EXCEPT ![j].state = state]
        /\ state = "queued" => relay[j].state = "absent"
        /\ state = "cancelled" => relay[j].state \in {"queued", "failed"}
        /\ state = "expired" => relay[j].state \in {"queued", "completed", "failed", "cancelled", "expired"}
  BY DEF Queue, Cancel, Expire, Forget
<1>3. relay'[j].state = state /\ \A k \in Jobs : k # j => relay'[k] = relay[k]
  BY <1>2 DEF SoleInv, TypeOK, RelayJobs
<1>4. ASSUME NEW k \in Jobs PROVE RecordInv(k)' /\ \A v \in Workers : WorkInv(v, k)'
  <2>1. RecordInv(k) /\ \A v \in Workers : WorkInv(v, k)
    BY DEF SoleInv
  <2>2. CASE k = j
    BY <1>1, <1>2, <1>3, <2>1, <2>2 DEF RecordInv, WorkInv, Settled, Taken, Final, AfterClaim
  <2>3. CASE k # j
    BY <1>1, <1>3, <2>1, <2>3 DEF RecordInv, WorkInv, Settled, Taken
  <2>4. QED
    BY <2>2, <2>3
<1>5. QED
  BY <1>4 DEF SoleInv

LEMMA SoleSurroundings ==
  ASSUME SoleInv, TypeOK',
         \/ \E w \in Workers : Elect(w) \/ Depose(w) \/ Crash(w)
         \/ \E w \in Workers, j \in Jobs : Stage(w, j)
         \/ UNCHANGED vars
  PROVE  SoleInv'
<1> TypeOK
  BY DEF SoleInv
<1>1. UNCHANGED <<journal, relay, starts, outcome>> /\ \A k \in Jobs : request[k] => request'[k]
  <2>1. ASSUME NEW w \in Workers, Elect(w) \/ Depose(w) \/ Crash(w)
        PROVE  UNCHANGED <<journal, relay, starts, outcome, request>>
    BY <2>1 DEF Elect, Depose, Crash, disk
  <2>2. ASSUME NEW w \in Workers, NEW j \in Jobs, Stage(w, j)
        PROVE  UNCHANGED <<journal, relay, starts, outcome>> /\ \A k \in Jobs : request[k] => request'[k]
    BY <2>2 DEF Stage, TypeOK
  <2>3. UNCHANGED vars => UNCHANGED <<journal, relay, starts, outcome, request>>
    BY DEF vars, disk
  <2> QED  BY <2>1, <2>2, <2>3
<1>2. \A w \in Workers, k \in Jobs : task'[w][k] = task[w][k] \/ task'[w][k] = Idle
  <2>1. ASSUME NEW w \in Workers, Crash(w)
        PROVE  \A v \in Workers, k \in Jobs : task'[v][k] = task[v][k] \/ task'[v][k] = Idle
    BY <2>1 DEF Crash, TypeOK
  <2>2. (\E w \in Workers : Elect(w) \/ Depose(w)) => UNCHANGED task
    BY DEF Elect, Depose
  <2>3. (\E w \in Workers, j \in Jobs : Stage(w, j)) \/ UNCHANGED vars => UNCHANGED task
    BY DEF Stage, vars
  <2> QED  BY <2>1, <2>2, <2>3
<1>3. Idle.pc = "idle"
  BY DEF Idle
<1>4. ASSUME NEW k \in Jobs PROVE RecordInv(k)' /\ \A v \in Workers : WorkInv(v, k)'
  BY <1>1, <1>2, <1>3 DEF SoleInv, RecordInv, WorkInv, Settled, Taken, BeforeClaim, AfterClaim, BeforeAnswer
<1>5. QED
  BY <1>4 DEF SoleInv

LEMMA SoleInit == Init => SoleInv
<1> SUFFICES ASSUME Init PROVE SoleInv
  OBVIOUS
<1>1. \A j \in Jobs : /\ starts[j] = 0 /\ outcome[j] = "none" /\ relay[j].state = "absent"
                      /\ journal[j].phase = "staged"
                      /\ \A w \in Workers : task[w][j].pc = "idle"
  BY DEF Init, Fresh, Idle
<1>2. QED
  BY <1>1, TypeInit DEF SoleInv, RecordInv, WorkInv, BeforeClaim, AfterClaim, BeforeAnswer

LEMMA SoleNext == OneMonitor /\ SoleInv /\ [Next]_vars => SoleInv'
<1> SUFFICES ASSUME OneMonitor, SoleInv, [Next]_vars PROVE SoleInv'
  OBVIOUS
<1>1. TypeOK'
  BY TypeStep DEF SoleInv
<1>2. CASE \E j \in Jobs : Queue(j) \/ Cancel(j) \/ Expire(j) \/ Forget(j)
  BY <1>1, <1>2, SoleRelay
<1>3. CASE (\E w \in Workers : Crash(w) \/ Elect(w) \/ Depose(w)) \/ UNCHANGED vars
  BY <1>1, <1>3, SoleSurroundings
<1>4. ASSUME NEW w \in Workers, NEW j \in Jobs,
             Stage(w, j) \/ Launch(w, j) \/ Work(w, j) \/ Maintain(w, j) \/ LostAnswer(w, j) \/ StorageFault(w, j)
      PROVE  SoleInv'
  <2>1. CASE Stage(w, j)
    BY <1>1, <2>1, SoleSurroundings
  <2>2. CASE Launch(w, j) \/ Maintain(w, j) \/ LostAnswer(w, j) \/ StorageFault(w, j)
    BY <1>1, <2>2, SoleLaunch, SoleRetire, SoleFaults
  <2>3. CASE Begin(w, j) \/ Get(w, j) \/ Decide(w, j) \/ AlreadyFinished(w, j) \/ Reserve(w, j) \/ Claim(w, j)
    BY <1>1, <2>3, SoleBegin, SoleGet, SoleDecide, SoleFinished, SoleReserve, SoleClaim
  <2>4. CASE Mark(w, j) \/ RejectMark(w, j) \/ Run(w, j) \/ NativeStart(w, j) \/ Settle(w, j) \/ Reload(w, j)
    BY <1>1, <2>4, SoleMark, SoleRun, SoleNative, SoleSettle, SoleReload
  <2>5. CASE RejectFail(w, j) \/ Finish(w, j) \/ Confirm(w, j) \/ Retire(w, j) \/ Erase(w, j)
    BY <1>1, <2>5, SoleRejectFail, SoleFinish, SoleConfirm, SoleRetire, SoleErase
  <2>6. QED
    BY <1>4, <2>1, <2>2, <2>3, <2>4, <2>5 DEF Work
<1>5. QED
  BY <1>2, <1>3, <1>4 DEF Next

\* With one monitor at work a saved native success is never reported as a
\* failure, and not withdrawn (worker/index.ts:102-113).  Two monitors may lose
\* it: one that judges the attempt of the other too old reports a failure.
THEOREM SavedSuccess == ASSUME OneMonitor PROVE Spec => []SavedSuccessNotFailed
<1>1. SoleInv => SavedSuccessNotFailed
  BY DEF SoleInv, RecordInv, SavedSuccessNotFailed
<1>2. SoleInv /\ [Next]_vars => SoleInv'
  BY SoleNext
<1>3. QED
  BY <1>1, <1>2, SoleInit, PTL DEF Spec
-----------------------------------------------------------------------------
(* The receiver keeps the promise of TaskJobContract. *)

\* A change of the relay's record of one job, as the controller sees it.
LEMMA VerdictTurn ==
  ASSUME TypeOK, NEW j \in Jobs, NEW state,
         \A k \in Jobs : k # j => relay'[k].state = relay[k].state, relay'[j].state = state
  PROVE  [k \in Jobs |-> relay'[k].state] = [[k \in Jobs |-> relay[k].state] EXCEPT ![j] = state]
  OBVIOUS

LEMMA RelayPromise ==
  ASSUME SoleInv, NEW j \in Jobs, Queue(j) \/ Cancel(j) \/ Expire(j) \/ Forget(j)
  PROVE  Contract!Next
<1>1. PICK state \in {"queued", "cancelled", "expired"} :
        /\ relay' = [relay EXCEPT ![j].state = state]
        /\ state = "queued" => relay[j].state = "absent"
        /\ state = "cancelled" => relay[j].state \in {"queued", "failed"}
        /\ state = "expired" => relay[j].state \in {"queued", "completed", "failed", "cancelled", "expired"}
  BY DEF Queue, Cancel, Expire, Forget
<1>2. relay'[j].state = state /\ \A k \in Jobs : k # j => relay'[k].state = relay[k].state
  BY <1>1 DEF SoleInv, TypeOK, RelayJobs
<1>3. [k \in Jobs |-> relay'[k].state] = [[k \in Jobs |-> relay[k].state] EXCEPT ![j] = state]
  BY <1>2, VerdictTurn DEF SoleInv
<1>4. UNCHANGED <<starts, outcome>>
  BY DEF Queue, Cancel, Expire, Forget
<1>5. Contract!Queue(j) \/ Contract!Withdraw(j) \/ Contract!Expire(j)
  BY <1>1, <1>3, <1>4 DEF Contract!Queue, Contract!Withdraw, Contract!Expire, Contract!Becomes
<1>6. QED
  BY <1>5 DEF Contract!Next

\* A grant, a report of the outcome, a start and an answer are each a step of
\* the contract about that job.
LEMMA ClaimPromise ==
  ASSUME SoleInv, NEW w \in Workers, NEW j \in Jobs, Claim(w, j)
  PROVE  Contract!Next \/ UNCHANGED Contract!vars
<1>0. TypeOK /\ UNCHANGED <<starts, outcome>>
  BY DEF SoleInv, Claim
<1>1. CASE UNCHANGED relay
  BY <1>0, <1>1 DEF Contract!vars
<1>2. CASE ~UNCHANGED relay
  <2>1. relay'[j].state = "accepted" /\ \A k \in Jobs : k # j => relay'[k].state = relay[k].state
    BY <1>0, <1>2 DEF Claim, TypeOK
  <2>2. [k \in Jobs |-> relay'[k].state] = [[k \in Jobs |-> relay[k].state] EXCEPT ![j] = "accepted"]
    BY <1>0, <2>1, VerdictTurn
  <2>3. CASE relay[j].state = "queued"
    <3>1. Contract!Grant(j)
      BY <1>0, <2>2, <2>3 DEF Contract!Grant, Contract!Becomes
    <3>2. QED
      BY <3>1 DEF Contract!Next
  <2>4. CASE relay[j].state = "accepted"
    BY <1>0, <2>2, <2>4 DEF Contract!vars
  <2>5. QED
    BY <1>2, <2>3, <2>4 DEF Claim
<1>3. QED
  BY <1>1, <1>2

LEMMA FinishPromise ==
  ASSUME SoleInv, NEW w \in Workers, NEW j \in Jobs, Finish(w, j)
  PROVE  Contract!Next \/ UNCHANGED Contract!vars
<1> DEFINE verdict == Verdict(task[w][j].phase)
<1>0. TypeOK /\ WorkInv(w, j) /\ task[w][j].pc = "finish" /\ UNCHANGED <<starts, outcome>>
  BY DEF SoleInv, Finish, At
<1>1. verdict = IF task[w][j].phase = "delivered" THEN "completed" ELSE "failed"
  BY DEF Verdict
<1>2. \/ UNCHANGED relay
      \/ relay[j].state = "accepted" /\ RelayTurns(j, verdict)
  BY <1>0 DEF Finish, TypeOK, RelayTurns
<1> HIDE DEF verdict
<1>3. CASE UNCHANGED relay
  BY <1>0, <1>3 DEF Contract!vars
<1>4. CASE relay[j].state = "accepted" /\ RelayTurns(j, verdict)
  <2>1. [k \in Jobs |-> relay'[k].state] = [[k \in Jobs |-> relay[k].state] EXCEPT ![j] = verdict]
    BY <1>0, <1>4, VerdictTurn DEF RelayTurns
  <2>2. verdict = "completed" => outcome[j] = "accepted"
    BY <1>0, <1>1 DEF WorkInv, Taken
  <2>3. Contract!Complete(j) \/ Contract!Fail(j)
    BY <1>0, <1>1, <1>4, <2>1, <2>2 DEF Contract!Complete, Contract!Fail, Contract!Becomes
  <2>4. QED
    BY <2>3 DEF Contract!Next
<1>5. QED
  BY <1>2, <1>3, <1>4

LEMMA StartPromise ==
  ASSUME SoleInv, NEW w \in Workers, NEW j \in Jobs, NativeStart(w, j)
  PROVE  Contract!Next
<1>1. TypeOK /\ relay[j].state = "accepted" /\ starts[j] = 0
  BY DEF SoleInv, NativeStart, At, WorkInv, AfterClaim
<1>2. UNCHANGED <<relay, outcome>> /\ starts' = [starts EXCEPT ![j] = 1]
  BY <1>1 DEF NativeStart
<1>3. Contract!Start(j)
  BY <1>1, <1>2 DEF Contract!Start
<1>4. QED
  BY <1>3 DEF Contract!Next

LEMMA AnswerPromise ==
  ASSUME SoleInv, NEW w \in Workers, NEW j \in Jobs, Settle(w, j) \/ StorageFault(w, j)
  PROVE  Contract!Next \/ UNCHANGED Contract!vars
<1>1. UNCHANGED <<relay, starts>>
  BY DEF Settle, StorageFault
<1>2. CASE UNCHANGED outcome
  BY <1>1, <1>2 DEF Contract!vars
<1>3. CASE ~UNCHANGED outcome
  <2>1. task[w][j].pc = "await" /\ \E a \in {"accepted", "rejected"} : outcome' = [outcome EXCEPT ![j] = a]
    BY <1>3 DEF Settle, StorageFault, At
  <2>2. starts[j] = 1 /\ outcome[j] = "none"
    BY <2>1 DEF SoleInv, WorkInv
  <2>3. Contract!Answer(j)
    BY <1>1, <2>1, <2>2 DEF Contract!Answer
  <2>4. QED
    BY <2>3 DEF Contract!Next
<1>4. QED
  BY <1>2, <1>3

LEMMA PromiseInit == Init => Contract!Init
  BY DEF Init, Contract!Init

LEMMA PromiseStep == SoleInv /\ [Next]_vars => [Contract!Next]_(Contract!vars)
<1> SUFFICES ASSUME SoleInv, [Next]_vars PROVE Contract!Next \/ UNCHANGED Contract!vars
  OBVIOUS
<1>1. CASE \E j \in Jobs : Queue(j) \/ Cancel(j) \/ Expire(j) \/ Forget(j)
  BY <1>1, RelayPromise
<1>2. CASE (\E w \in Workers : Crash(w) \/ Elect(w) \/ Depose(w)) \/ UNCHANGED vars
  BY <1>2 DEF Crash, Elect, Depose, vars, Contract!vars
<1>3. ASSUME NEW w \in Workers, NEW j \in Jobs,
             Stage(w, j) \/ Launch(w, j) \/ Work(w, j) \/ Maintain(w, j) \/ LostAnswer(w, j) \/ StorageFault(w, j)
      PROVE  Contract!Next \/ UNCHANGED Contract!vars
  <2>1. CASE Claim(w, j) \/ Finish(w, j) \/ NativeStart(w, j) \/ Settle(w, j) \/ StorageFault(w, j)
    BY <2>1, ClaimPromise, FinishPromise, StartPromise, AnswerPromise
  <2>2. CASE ~(Claim(w, j) \/ Finish(w, j) \/ NativeStart(w, j) \/ Settle(w, j) \/ StorageFault(w, j))
    <3>1. UNCHANGED <<relay, starts, outcome>>
      BY <1>3, <2>2 DEF Work, Stage, Launch, Maintain, LostAnswer, Begin, Get, Decide, AlreadyFinished, Reserve,
         Mark, Run, Reload, RejectMark, RejectFail, Confirm, Retire, Erase, disk
    <3>2. QED
      BY <3>1 DEF Contract!vars
  <2>3. QED
    BY <2>1, <2>2
<1>4. QED
  BY <1>1, <1>2, <1>3 DEF Next

\* One receiver, with its restarts, lost answers and removals in either order,
\* implements the contract of the queue with the controller
\* (task-dispatch/README.md:10-17).
THEOREM KeepsPromise == ASSUME OneMonitor PROVE Spec => Implements
<1>1. SoleInv /\ [Next]_vars => SoleInv'
  BY SoleNext
<1>2. QED
  BY <1>1, SoleInit, PromiseInit, PromiseStep, PTL DEF Spec, Implements, Contract!Spec
-----------------------------------------------------------------------------
(* A follow-up waits for the earlier messages of its conversation. *)

Unsettled == {"running", "uncertain", "delivered", "rejected"}
Removing == {"idle", "retire", "erase", "eraseRest"}

\* While a worker is at a job it is at no other of its conversation, beyond
\* removing one, and no earlier one is unsettled; a job off the disk, or being
\* removed, left nothing unsettled behind.
HeldInv ==
  /\ \A j \in Jobs : ~request[j] => journal[j].phase \notin Unsettled
  /\ \A w \in Workers, j \in Jobs :
       /\ task[w][j].pc \in {"erase", "eraseRest"} => journal[j].phase \notin Unsettled
       /\ task[w][j].pc \notin Removing => \A i \in Jobs : i # j /\ SameConversation(i, j) =>
            /\ task[w][i].pc \in Removing
            /\ Before(i, j) /\ request[i] => journal[i].phase \notin Unsettled

\* A worker's step at one job leaves the others alone, and only Run starts one.
Local(w, j) ==
  /\ \A k \in Jobs : k # j => journal'[k] = journal[k] /\ request'[k] = request[k]
  /\ \A v \in Workers, k \in Jobs : v # w \/ k # j => task'[v][k] = task[v][k]
  /\ journal'[j].phase = "running" => journal[j].phase = "running" \/ Run(w, j)

LEMMA LocalMove ==
  ASSUME TypeOK, NEW w \in Workers, NEW j \in Jobs,
         Leave(w, j) \/ \E place \in Places : Goto(w, j, place),
         UNCHANGED journal \/ \E phase \in Phases \ {"running"} : Advance(j, phase),
         UNCHANGED request
  PROVE  Local(w, j) /\ (~request[j] => journal'[j].phase = journal[j].phase)
<1>1. \A v \in Workers, k \in Jobs : v # w \/ k # j => task'[v][k] = task[v][k]
  BY LeaveFacts, GotoFacts DEF Moved
<1>2. /\ \A k \in Jobs : k # j => journal'[k] = journal[k]
      /\ journal'[j].phase = "running" => journal[j].phase = "running"
      /\ ~request[j] => journal'[j].phase = journal[j].phase
  BY DEF Advance, Accepts, TypeOK, Journals
<1>3. QED
  BY <1>1, <1>2 DEF Local

\* The steps of a worker that is at a job, and neither launches nor removes it.
Active(w, j) ==
  \/ Begin(w, j) \/ Get(w, j) \/ Decide(w, j) \/ AlreadyFinished(w, j)
  \/ Reserve(w, j) \/ Claim(w, j) \/ Mark(w, j) \/ Run(w, j)
  \/ NativeStart(w, j) \/ Settle(w, j) \/ Reload(w, j) \/ RejectMark(w, j) \/ RejectFail(w, j)
  \/ Finish(w, j) \/ Confirm(w, j) \/ LostAnswer(w, j) \/ (StorageFault(w, j) /\ ~At(w, j, "retire"))

LEMMA ActiveLocal ==
  ASSUME TypeOK, NEW w \in Workers, NEW j \in Jobs, Active(w, j)
  PROVE  /\ Local(w, j) /\ UNCHANGED request
         /\ ~request[j] => journal'[j].phase = journal[j].phase
         /\ task[w][j].pc \notin Removing /\ task'[w][j].pc \notin {"erase", "eraseRest"}
<1>1. UNCHANGED request /\ task[w][j].pc \notin Removing
  BY DEF Active, Begin, Get, Decide, AlreadyFinished, Reserve, Claim, Mark, Run, NativeStart, Settle, Reload,
     RejectMark, RejectFail, Finish, Confirm, LostAnswer, StorageFault, At, Removing, disk
<1>2. CASE \/ Begin(w, j) \/ Decide(w, j) \/ AlreadyFinished(w, j) \/ Mark(w, j) \/ Settle(w, j) \/ RejectMark(w, j)
           \/ Confirm(w, j) \/ LostAnswer(w, j) \/ StorageFault(w, j) \/ Claim(w, j) \/ Finish(w, j) \/ NativeStart(w, j)
  <2>1. UNCHANGED journal \/ \E phase \in Phases \ {"running"} : Advance(j, phase)
    BY <1>2 DEF Begin, Decide, AlreadyFinished, Mark, Settle, RejectMark, Confirm, LostAnswer, StorageFault, Claim,
       Finish, NativeStart, disk, Phases
  <2>2. Leave(w, j) \/ \E place \in Places \ {"erase", "eraseRest"} : Goto(w, j, place)
    BY <1>2 DEF Begin, Decide, Defer, Refuse, Deliver, AlreadyFinished, Mark, Settle, RejectMark, Confirm, LostAnswer,
       StorageFault, Claim, Finish, NativeStart, Places
  <2>3. task'[w][j].pc \notin {"erase", "eraseRest"}
    BY <2>2, LeaveFacts, GotoFacts DEF Moved
  <2>4. QED
    BY <1>1, <2>1, <2>2, <2>3, LocalMove
<1>3. CASE Get(w, j)
  <2>1. task'[w][j].pc = "decide" /\ \A v \in Workers, k \in Jobs : v # w \/ k # j => task'[v][k] = task[v][k]
    BY <1>3 DEF Get, TypeOK, Tasks
  <2>2. QED
    BY <1>1, <1>3, <2>1 DEF Get, disk, Local
<1>4. CASE Reload(w, j)
  <2>1. CASE Leave(w, j)
    BY <1>1, <1>4, <2>1, LeaveFacts DEF Reload, disk, Local, Moved
  <2>2. CASE ~Leave(w, j)
    <3>1. Placed(w, j, "finish", journal[j].phase, task[w][j].seen)
      BY <1>4, <2>2, ReloadPlaced DEF Reload
    <3>2. QED
      BY <1>1, <1>4, <3>1 DEF Reload, disk, Local, Placed
  <2>3. QED
    BY <2>1, <2>2
<1>5. CASE RejectFail(w, j)
  <2>1. task'[w][j].pc = "finish" /\ \A v \in Workers, k \in Jobs : v # w \/ k # j => task'[v][k] = task[v][k]
    BY <1>5 DEF RejectFail, TypeOK, Tasks
  <2>2. /\ \A k \in Jobs : k # j => journal'[k] = journal[k]
        /\ journal'[j].phase = "running" => journal[j].phase = "running"
        /\ ~request[j] => journal'[j].phase = journal[j].phase
    BY <1>5 DEF RejectFail, Advance, Accepts, TypeOK, Journals
  <2>3. QED
    BY <1>1, <2>1, <2>2 DEF Local
<1>6. CASE Reserve(w, j)
  <2>1. PICK pc \in {"idle", "claim", "rejectClaim"}, phase \in {"staged", task[w][j].phase}, seen \in RelayStates :
          Placed(w, j, pc, phase, seen)
    BY <1>6, ReservePlaced
  <2>2. /\ \A k \in Jobs : k # j => journal'[k] = journal[k]
        /\ journal'[j].phase = journal[j].phase
    BY <1>6, ReservePlaced
  <2>3. QED
    BY <1>1, <2>1, <2>2 DEF Local, Placed
<1>7. CASE Run(w, j)
  <2>1. Leave(w, j) \/ Goto(w, j, "native")
    BY <1>7 DEF Run
  <2>2. /\ \A v \in Workers, k \in Jobs : v # w \/ k # j => task'[v][k] = task[v][k]
        /\ task'[w][j].pc \in {"idle", "native"}
    BY <2>1, LeaveFacts, GotoFacts DEF Moved, Places
  <2>3. /\ \A k \in Jobs : k # j => journal'[k] = journal[k]
        /\ ~request[j] => journal'[j].phase = journal[j].phase
    BY <1>7 DEF Run, Accepts, TypeOK
  <2>4. QED
    BY <1>1, <1>7, <2>2, <2>3 DEF Local
<1>8. QED
  BY <1>2, <1>3, <1>4, <1>5, <1>6, <1>7 DEF Active

\* A worker at a job may do with it what it likes: the others wait.
LEMMA HeldActive ==
  ASSUME TypeOK, HeldInv, OneMonitor, NEW w \in Workers, NEW j \in Jobs, Active(w, j)
  PROVE  HeldInv'
<1>1. /\ Local(w, j) /\ UNCHANGED request
      /\ ~request[j] => journal'[j].phase = journal[j].phase
      /\ task[w][j].pc \notin Removing /\ task'[w][j].pc \notin {"erase", "eraseRest"}
  BY ActiveLocal
<1>2. \A k \in Jobs : ~request'[k] => journal'[k].phase \notin Unsettled
  BY <1>1 DEF HeldInv, Local
<1>3. ASSUME NEW v \in Workers, NEW k \in Jobs, task'[v][k].pc \in {"erase", "eraseRest"}
      PROVE  journal'[k].phase \notin Unsettled
  BY <1>1, <1>3 DEF HeldInv, Local, OneMonitor
<1>4. ASSUME NEW v \in Workers, NEW k \in Jobs, task'[v][k].pc \notin Removing,
             NEW i \in Jobs, i # k, SameConversation(i, k)
      PROVE  /\ task'[v][i].pc \in Removing
             /\ Before(i, k) /\ request'[i] => journal'[i].phase \notin Unsettled
  <2>1. v = w
    BY DEF OneMonitor
  <2>2. i # j
    BY <1>1, <1>4, <2>1 DEF HeldInv, Local
  <2>3. task[w][k].pc \notin Removing
    BY <1>1, <1>4, <2>1 DEF Local
  <2>4. task[w][i].pc \in Removing /\ (Before(i, k) /\ request[i] => journal[i].phase \notin Unsettled)
    BY <1>4, <2>3 DEF HeldInv
  <2>5. task'[w][i] = task[w][i] /\ journal'[i] = journal[i] /\ request'[i] = request[i]
    BY <1>1, <2>2 DEF Local
  <2>6. QED
    BY <2>1, <2>4, <2>5
<1>5. QED
  BY <1>2, <1>3, <1>4 DEF HeldInv

\* A launch finds the conversation idle, and no earlier message pending.
LEMMA HeldLaunch ==
  ASSUME TypeOK, HeldInv, OneMonitor, NEW w \in Workers, NEW j \in Jobs, Launch(w, j)
  PROVE  HeldInv'
<1>1. UNCHANGED <<request, journal>>
  BY DEF Launch, disk
<1>2. /\ \A v \in Workers, k \in Jobs : v # w \/ k # j => task'[v][k] = task[v][k]
      /\ task'[w][j].pc = "begin"
  BY DEF Launch, TypeOK
<1>3. \A i \in Jobs : SameConversation(i, j) => task[w][i].pc = "idle" /\ (Pending(i) /\ i # j => Before(j, i))
  BY DEF Launch, At
<1>4. \A i \in Jobs : Before(j, i) => ~Before(i, j)
  BY DispatchAssumption DEF DispatchAssumption, Before
<1>5. \A i \in Jobs : SameConversation(i, j) /\ i # j /\ Before(i, j) /\ request[i] => journal[i].phase \notin Unsettled
  BY <1>3, <1>4 DEF Pending, Terminal, Unsettled
<1>6. \A i \in Jobs : SameConversation(j, i) => SameConversation(i, j)
  BY DEF SameConversation
<1>7. ASSUME NEW v \in Workers, NEW k \in Jobs
      PROVE  /\ task'[v][k].pc \in {"erase", "eraseRest"} => journal'[k].phase \notin Unsettled
             /\ task'[v][k].pc \notin Removing => \A i \in Jobs : i # k /\ SameConversation(i, k) =>
                  /\ task'[v][i].pc \in Removing
                  /\ Before(i, k) /\ request'[i] => journal'[i].phase \notin Unsettled
  <2>1. v = w
    BY DEF OneMonitor
  <2>2. CASE k = j
    BY <1>1, <1>2, <1>3, <1>5, <2>1, <2>2 DEF Removing
  <2>3. CASE k # j
    <3>1. task'[v][k] = task[v][k]
      BY <1>2, <2>3
    <3>2. task[v][k].pc \notin Removing => ~SameConversation(j, k)
      BY <1>3, <1>6, <2>1, <2>3 DEF Removing
    <3>3. QED
      BY <1>1, <1>2, <2>1, <3>1, <3>2 DEF HeldInv
  <2>4. QED
    BY <2>2, <2>3
<1>8. QED
  BY <1>1, <1>7 DEF HeldInv

\* Removal begins at a terminal journal and leaves at most an empty one.
LEMMA HeldRemoval ==
  ASSUME TypeOK, HeldInv, OneMonitor, NEW w \in Workers, NEW j \in Jobs,
         Retire(w, j) \/ Maintain(w, j) \/ Erase(w, j) \/ (StorageFault(w, j) /\ At(w, j, "retire"))
  PROVE  HeldInv'
<1>1. \A k \in Jobs : request'[k] => request[k]
  BY DEF Retire, Maintain, Erase, EraseRequest, EraseJournal, StorageFault, disk, TypeOK
<1>2. \A k \in Jobs : journal'[k] = journal[k] \/ journal'[k] = Fresh
  BY DEF Retire, Maintain, Erase, EraseRequest, EraseJournal, StorageFault, At, disk, TypeOK
<1>3. Leave(w, j) \/ \E place \in Removing : Goto(w, j, place)
  BY DEF Retire, Maintain, Erase, StorageFault, At, Removing
<1>4. /\ \A v \in Workers, k \in Jobs : v # w \/ k # j => task'[v][k] = task[v][k]
      /\ task'[w][j].pc \in Removing
  BY <1>3, LeaveFacts, GotoFacts DEF Moved, Removing, Places
<1>5. task'[w][j].pc \in {"erase", "eraseRest"} => journal[j].phase \notin Unsettled
  <2>1. CASE Retire(w, j)
    BY <2>1, LeaveFacts, GotoFacts DEF Retire, Moved, Places, Terminal, Unsettled, HeldInv
  <2>2. CASE Erase(w, j)
    BY <2>2 DEF Erase, At, HeldInv
  <2>3. CASE Maintain(w, j) \/ StorageFault(w, j)
    BY <2>3, LeaveFacts, GotoFacts DEF Maintain, StorageFault, Terminal, Unsettled, Moved, Places, At
  <2>4. QED
    BY <2>1, <2>2, <2>3
<1>6. \A k \in Jobs : request[k] /\ ~request'[k] => journal[k].phase \notin Unsettled
  BY DEF Retire, Maintain, Erase, EraseRequest, EraseJournal, StorageFault, disk, TypeOK, HeldInv, At
<1>7. Fresh.phase \notin Unsettled
  BY DEF Fresh, Unsettled
<1>8. \A k \in Jobs : ~request'[k] => journal'[k].phase \notin Unsettled
  BY <1>2, <1>6, <1>7 DEF HeldInv
<1>9. ASSUME NEW v \in Workers, NEW k \in Jobs
      PROVE  /\ task'[v][k].pc \in {"erase", "eraseRest"} => journal'[k].phase \notin Unsettled
             /\ task'[v][k].pc \notin Removing => \A i \in Jobs : i # k /\ SameConversation(i, k) =>
                  /\ task'[v][i].pc \in Removing
                  /\ Before(i, k) /\ request'[i] => journal'[i].phase \notin Unsettled
  <2>1. v = w
    BY DEF OneMonitor
  <2>2. CASE k = j
    BY <1>2, <1>4, <1>5, <1>7, <2>1, <2>2
  <2>3. CASE k # j
    <3>1. task'[v][k] = task[v][k]
      BY <1>4, <2>3
    <3>2. QED
      BY <1>1, <1>2, <1>4, <1>7, <2>1, <3>1 DEF HeldInv
  <2>4. QED
    BY <2>2, <2>3
<1>10. QED
  BY <1>8, <1>9 DEF HeldInv

LEMMA HeldOutside ==
  ASSUME TypeOK, HeldInv,
         \/ \E j \in Jobs : Queue(j) \/ Cancel(j) \/ Expire(j) \/ Forget(j) \/ \E w \in Workers : Stage(w, j)
         \/ \E w \in Workers : Crash(w) \/ Elect(w) \/ Depose(w)
         \/ UNCHANGED vars
  PROVE  HeldInv'
<1>1. UNCHANGED journal
  BY DEF Queue, Cancel, Expire, Forget, Stage, Crash, Elect, Depose, vars, disk
<1>2. \A k \in Jobs : request'[k] # request[k] => ~request[k]
  BY DEF Queue, Cancel, Expire, Forget, Stage, Crash, Elect, Depose, vars, disk, TypeOK
<1>3. \A w \in Workers, k \in Jobs : task'[w][k] = task[w][k] \/ task'[w][k] = Idle
  BY DEF Queue, Cancel, Expire, Forget, Stage, Crash, Elect, Depose, vars, disk, TypeOK
<1>4. Idle.pc = "idle" /\ "idle" \in Removing
  BY DEF Idle, Removing
<1>5. QED
  BY <1>1, <1>2, <1>3, <1>4 DEF HeldInv

LEMMA HeldStep == OneMonitor /\ TypeOK /\ HeldInv /\ [Next]_vars => HeldInv'
<1> SUFFICES ASSUME OneMonitor, TypeOK, HeldInv, [Next]_vars PROVE HeldInv'
  OBVIOUS
<1>1. CASE \/ \E j \in Jobs : Queue(j) \/ Cancel(j) \/ Expire(j) \/ Forget(j) \/ \E w \in Workers : Stage(w, j)
           \/ \E w \in Workers : Crash(w) \/ Elect(w) \/ Depose(w)
           \/ UNCHANGED vars
  BY <1>1, HeldOutside
<1>2. ASSUME NEW w \in Workers, NEW j \in Jobs,
             Launch(w, j) \/ Work(w, j) \/ Maintain(w, j) \/ LostAnswer(w, j) \/ StorageFault(w, j)
      PROVE  HeldInv'
  BY <1>2, HeldLaunch, HeldRemoval, HeldActive DEF Work, Active
<1>3. QED
  BY <1>1, <1>2 DEF Next

\* Only the step Run brings a job from claimed to running.
LEMMA RunningByRun ==
  ASSUME TypeOK, [Next]_vars, NEW j \in Jobs, journal[j].phase = "claimed", journal'[j].phase = "running"
  PROVE  \E w \in Workers : Run(w, j)
<1>1. CASE \/ \E k \in Jobs : Queue(k) \/ Cancel(k) \/ Expire(k) \/ Forget(k) \/ \E w \in Workers : Stage(w, k)
           \/ \E w \in Workers : Crash(w) \/ Elect(w) \/ Depose(w)
           \/ UNCHANGED vars
  BY <1>1 DEF Queue, Cancel, Expire, Forget, Stage, Crash, Elect, Depose, vars, disk
<1>2. ASSUME NEW w \in Workers, NEW k \in Jobs,
             Launch(w, k) \/ Retire(w, k) \/ Maintain(w, k) \/ Erase(w, k) \/ (StorageFault(w, k) /\ At(w, k, "retire"))
      PROVE  FALSE
  BY <1>2 DEF Launch, Retire, Maintain, Erase, EraseJournal, EraseRequest, StorageFault, At, Fresh, TypeOK, disk
<1>3. ASSUME NEW w \in Workers, NEW k \in Jobs, Active(w, k)
      PROVE  Run(w, j)
  BY <1>3, ActiveLocal DEF Local
<1>4. QED
  BY <1>1, <1>2, <1>3 DEF Next, Work, Active

LEMMA HeldInit == Init => HeldInv
  BY DEF Init, HeldInv, Fresh, Idle, Unsettled, Removing

\* With one monitor at work a follow-up never starts while an earlier message
\* of its conversation has run or failed and is not settled
\* (worker/index.ts:38-49, inbox.ts:64-74).
THEOREM FollowUpsWait == ASSUME OneMonitor PROVE Spec => HeldBehindUnsettled
<1>1. TypeOK /\ HeldInv /\ [Next]_vars =>
        [\A i, j \in Jobs :
           /\ i # j /\ SameConversation(i, j) /\ Before(i, j)
           /\ request[i] /\ journal[i].phase \in {"running", "uncertain", "delivered", "rejected"}
           => ~(journal[j].phase = "claimed" /\ journal'[j].phase = "running")]_vars
  <2> SUFFICES ASSUME TypeOK, HeldInv, [Next]_vars, NEW i \in Jobs, NEW j \in Jobs,
                      i # j, SameConversation(i, j), Before(i, j), request[i], journal[i].phase \in Unsettled,
                      journal[j].phase = "claimed", journal'[j].phase = "running"
               PROVE  FALSE
    BY DEF Unsettled
  <2>1. PICK w \in Workers : Run(w, j)
    BY RunningByRun
  <2>2. task[w][j].pc = "run"
    BY <2>1 DEF Run, At
  <2>3. QED
    BY <2>2 DEF HeldInv, Removing
<1>2. TypeOK /\ HeldInv /\ [Next]_vars => HeldInv'
  BY HeldStep
<1>3. QED
  BY <1>1, <1>2, HeldInit, TypeInit, TypeStep, PTL DEF Spec, HeldBehindUnsettled
-----------------------------------------------------------------------------
(* What the relay tells the controller is what became of the job. *)

\* The provider took the job's one run, and nobody is waiting for its answer.
Sure(j) == Taken(j) /\ \A w \in Workers : task[w][j].pc # "await"

HonestRecord(j) ==
  /\ relay[j].state = "completed" => Sure(j)
  /\ journal[j].phase = "delivered" => Sure(j)
  /\ starts[j] > 0 => relay[j].claim # 0

HonestWork(w, j) ==
  /\ task[w][j].phase = "delivered" => Sure(j)
  /\ task[w][j].pc = "await" => starts[j] = 1
  /\ task[w][j].pc \in {"claim", "rejectClaim"} => task[w][j].claim # 0
  /\ task[w][j].pc \in {"mark", "run", "native"} => relay[j].claim # 0

\* A job is taken once, by the one worker that waits for the answer; it runs
\* only under a claim that the relay has granted.
HonestInv ==
  /\ \A j \in Jobs : HonestRecord(j)
  /\ \A w \in Workers, j \in Jobs : HonestWork(w, j)
  /\ \A v, w \in Workers, j \in Jobs : task[w][j].pc = "await" /\ task[v][j].pc = "await" => v = w

\* A step of worker w at job j that starts nothing: what it may do to the
\* records.
Sincere(w, j) ==
  /\ Elsewhere(j)
  /\ \A v \in Workers : v # w => task'[v][j] = task[v][j]
  /\ starts'[j] = starts[j]
  /\ outcome'[j] = outcome[j] \/ task[w][j].pc = "await"
  /\ relay[j].claim # 0 => relay'[j].claim # 0
  /\ relay'[j].state = "completed" => relay[j].state = "completed" \/ task[w][j].phase = "delivered"
  /\ journal'[j].phase = "delivered" =>
       \/ journal[j].phase = "delivered"
       \/ task[w][j].pc = "await" /\ outcome'[j] = "accepted"
  /\ task'[w][j].phase = "delivered" => task[w][j].phase = "delivered" \/ journal[j].phase = "delivered"
  /\ task'[w][j].pc # "await"
  /\ task'[w][j].pc \in {"claim", "rejectClaim"} => task'[w][j].claim # 0
  /\ task'[w][j].pc \in {"mark", "run", "native"} => relay'[j].claim # 0

LEMMA SincereKept ==
  ASSUME TypeOK, HonestInv, NEW w \in Workers, NEW j \in Jobs, Sincere(w, j)
  PROVE  HonestInv'
<1>1. \A k \in Jobs : k # j =>
        /\ relay'[k] = relay[k] /\ journal'[k] = journal[k] /\ starts'[k] = starts[k] /\ outcome'[k] = outcome[k]
        /\ \A v \in Workers : task'[v][k] = task[v][k]
  BY DEF Sincere, Elsewhere
<1>2. \A v \in Workers, k \in Jobs : task'[v][k].pc = "await" => task[v][k].pc = "await"
  BY <1>1 DEF Sincere
<1>3. Sure(j) => Sure(j)'
  BY <1>2 DEF Sincere, Sure, Taken
<1>4. task[w][j].pc = "await" /\ outcome'[j] = "accepted" => Sure(j)'
  <2> SUFFICES ASSUME task[w][j].pc = "await", outcome'[j] = "accepted" PROVE Sure(j)'
    OBVIOUS
  <2>1. starts'[j] = 1
    BY DEF HonestInv, HonestWork, Sincere
  <2>2. \A v \in Workers : task'[v][j].pc # "await"
    BY DEF HonestInv, Sincere
  <2>3. QED
    BY <2>1, <2>2 DEF Sure, Taken
<1>5. HonestRecord(j)'
  BY <1>3, <1>4 DEF HonestInv, HonestRecord, HonestWork, Sincere
<1>6. \A v \in Workers : HonestWork(v, j)'
  <2> SUFFICES ASSUME NEW v \in Workers PROVE HonestWork(v, j)'
    OBVIOUS
  <2>1. CASE v = w
    BY <1>3, <2>1 DEF HonestInv, HonestRecord, HonestWork, Sincere
  <2>2. CASE v # w
    BY <1>3, <2>2 DEF HonestInv, HonestWork, Sincere
  <2>3. QED
    BY <2>1, <2>2
<1>7. ASSUME NEW k \in Jobs, k # j
      PROVE  HonestRecord(k)' /\ \A v \in Workers : HonestWork(v, k)'
  <2>1. Sure(k) => Sure(k)'
    BY <1>1, <1>7 DEF Sure, Taken
  <2>2. QED
    BY <1>1, <1>7, <2>1 DEF HonestInv, HonestRecord, HonestWork
<1>8. \A u, v \in Workers, k \in Jobs : task'[v][k].pc = "await" /\ task'[u][k].pc = "await" => u = v
  BY <1>2 DEF HonestInv
<1>9. QED
  BY <1>5, <1>6, <1>7, <1>8 DEF HonestInv

\* The steps that leave the relay alone and go to no place after the claim.
LEMMA SinceresMove ==
  ASSUME TypeOK, NEW w \in Workers, NEW j \in Jobs,
         Leave(w, j) \/ \E place \in Places \ {"await", "claim", "rejectClaim", "mark", "run", "native"} : Goto(w, j, place),
         UNCHANGED journal \/ \E phase \in Phases \ {"delivered"} : Advance(j, phase),
         \A k \in Jobs : k # j => request'[k] = request[k] /\ outcome'[k] = outcome[k],
         UNCHANGED <<relay, starts>>,
         outcome'[j] = outcome[j] \/ task[w][j].pc = "await"
  PROVE  Sincere(w, j)
<1>1. /\ \A v \in Workers, k \in Jobs : v # w \/ k # j => task'[v][k] = task[v][k]
      /\ task'[w][j].pc \notin {"await", "claim", "rejectClaim", "mark", "run", "native"}
      /\ task'[w][j].phase = "delivered" => task[w][j].phase = "delivered"
  <2>1. CASE Leave(w, j)
    BY <2>1, LeavePlaced DEF Placed
  <2>2. CASE \E place \in Places \ {"await", "claim", "rejectClaim", "mark", "run", "native"} : Goto(w, j, place)
    BY <2>2, GotoPlaced DEF Placed
  <2>3. QED
    BY <2>1, <2>2
<1>2. /\ \A k \in Jobs : k # j => journal'[k] = journal[k]
      /\ journal'[j].phase = "delivered" => journal[j].phase = "delivered"
  BY AdvanceShifts DEF Shifted
<1>3. QED
  BY <1>1, <1>2 DEF Sincere, Elsewhere

\* The steps that only record what happened: none of them claims or starts.
LEMMA SincereMoves ==
  ASSUME TypeOK, NEW w \in Workers, NEW j \in Jobs,
         \/ Begin(w, j) \/ Decide(w, j) \/ AlreadyFinished(w, j) \/ RejectMark(w, j) \/ Confirm(w, j)
         \/ Retire(w, j) \/ Maintain(w, j) \/ LostAnswer(w, j) \/ StorageFault(w, j)
  PROVE  Sincere(w, j)
<1>1. Leave(w, j) \/ \E place \in Places \ {"await", "claim", "rejectClaim", "mark", "run", "native"} : Goto(w, j, place)
  BY DEF Begin, Decide, Defer, Refuse, Deliver, AlreadyFinished, RejectMark, Confirm, Retire, Maintain,
         LostAnswer, StorageFault, Places
<1>2. UNCHANGED journal \/ \E phase \in Phases \ {"delivered"} : Advance(j, phase)
  BY DEF Begin, Decide, Defer, Refuse, Deliver, AlreadyFinished, RejectMark, Confirm, Retire, Maintain,
         LostAnswer, StorageFault, Phases, disk
<1>3. UNCHANGED <<request, relay, starts>>
  BY DEF Begin, Decide, AlreadyFinished, RejectMark, Confirm, Retire, Maintain, LostAnswer, StorageFault, disk
<1>4. UNCHANGED outcome \/ (At(w, j, "await") /\ \E answer \in {"accepted", "rejected"} : outcome' = [outcome EXCEPT ![j] = answer])
  BY DEF Begin, Decide, AlreadyFinished, RejectMark, Confirm, Retire, Maintain, LostAnswer, StorageFault, disk
<1>5. \A k \in Jobs : k # j => request'[k] = request[k] /\ outcome'[k] = outcome[k]
  BY <1>3, <1>4 DEF TypeOK
<1>6. outcome'[j] = outcome[j] \/ task[w][j].pc = "await"
  BY <1>4 DEF At
<1>7. QED
  BY <1>1, <1>2, <1>3, <1>5, <1>6, SinceresMove

\* The answer of the provider is recorded: delivered only if it took the run.
LEMMA SincereSettle ==
  ASSUME TypeOK, NEW w \in Workers, NEW j \in Jobs, Settle(w, j)
  PROVE  Sincere(w, j)
<1>1. UNCHANGED <<request, relay, starts>> /\ task[w][j].pc = "await"
  BY DEF Settle, At
<1>2. CASE outcome' = [outcome EXCEPT ![j] = "accepted"] /\ Advance(j, "delivered") /\ Goto(w, j, "reload")
  <2>1. Placed(w, j, "reload", task[w][j].phase, task[w][j].seen) /\ Shifted(j, "delivered")
    BY <1>2, GotoPlaced, AdvanceShifts DEF Places, Phases
  <2>2. outcome'[j] = "accepted" /\ \A k \in Jobs : k # j => outcome'[k] = outcome[k]
    BY <1>2 DEF TypeOK
  <2>3. QED
    BY <1>1, <2>1, <2>2 DEF Placed, Shifted, Elsewhere, Sincere
<1>3. CASE outcome' = [outcome EXCEPT ![j] = "rejected"] /\ Advance(j, "failed") /\ Goto(w, j, "reload")
  <2>1. \A k \in Jobs : k # j => request'[k] = request[k] /\ outcome'[k] = outcome[k]
    BY <1>1, <1>3 DEF TypeOK
  <2>2. QED
    BY <1>1, <1>3, <2>1, SinceresMove DEF Places, Phases
<1>4. CASE Advance(j, "uncertain") /\ Goto(w, j, "finish") /\ UNCHANGED outcome
  BY <1>1, <1>4, SinceresMove DEF Places, Phases
<1>5. QED
  BY <1>2, <1>3, <1>4 DEF Settle

\* The steps that write the worker's record as a whole.
LEMMA SincereRecord ==
  ASSUME TypeOK, NEW w \in Workers, NEW j \in Jobs,
         Get(w, j) \/ Reload(w, j) \/ RejectFail(w, j) \/ Launch(w, j)
  PROVE  Sincere(w, j)
<1>1. UNCHANGED <<request, relay, starts, outcome>>
  BY DEF Get, Reload, RejectFail, Launch, disk
<1>2. UNCHANGED journal \/ Shifted(j, "failed")
  BY AdvanceShifts DEF Get, Reload, RejectFail, Launch, disk, Phases
<1>3. ASSUME NEW pc \in {"begin", "decide", "finish"}, NEW phase \in {task[w][j].phase, journal[j].phase, "failed"},
             NEW seen, Placed(w, j, pc, phase, seen)
      PROVE  Sincere(w, j)
  BY <1>1, <1>2, <1>3 DEF Placed, Shifted, Elsewhere, Sincere
<1>4. CASE Get(w, j) \/ RejectFail(w, j) \/ Launch(w, j) \/ (Reload(w, j) /\ request[j])
  BY <1>3, <1>4, GetPlaced, RejectFailPlaced, LaunchPlaced, ReloadPlaced
<1>5. CASE Reload(w, j) /\ Leave(w, j)
  BY <1>1, <1>5, SinceresMove DEF Reload, disk
<1>6. QED
  BY <1>4, <1>5 DEF Reload

\* The claim that is reserved is an identifier.
LEMMA SincereReserve ==
  ASSUME TypeOK, NEW w \in Workers, NEW j \in Jobs, Reserve(w, j)
  PROVE  Sincere(w, j)
<1>1. UNCHANGED <<request, relay, starts, outcome>>
  BY DEF Reserve
<1>2. PICK pc \in {"idle", "claim", "rejectClaim"}, phase \in {"staged", task[w][j].phase}, seen \in RelayStates :
        Placed(w, j, pc, phase, seen)
  BY ReservePlaced
<1>3. /\ \A k \in Jobs : k # j => journal'[k] = journal[k]
      /\ journal'[j].phase = journal[j].phase
  BY ReservePlaced
<1>4. task'[w][j].pc \in {"claim", "rejectClaim"} => task'[w][j].claim # 0
  <2>1. CASE Leave(w, j)
    BY <2>1, LeavePlaced DEF Placed
  <2>2. CASE ~Leave(w, j)
    <3> DEFINE c == IF journal[j].claim = 0 THEN relay[j].claim + 1 ELSE journal[j].claim
    <3>1. task[w][j] \in Tasks /\ journal[j].claim \in Nat /\ relay[j].claim \in Nat
      BY DEF TypeOK, RelayJobs, Journals
    <3>2. c # 0
      BY <3>1
    <3> HIDE DEF c
    <3>3. PICK n : task' = [task EXCEPT ![w][j] = [@ EXCEPT !.pc = n, !.claim = c]]
      BY <2>2 DEF Reserve, c
    <3> DEFINE t == [task[w][j] EXCEPT !.pc = n, !.claim = c]
    <3>4. t.claim = c
      BY <3>1 DEF Tasks
    <3>5. Replaced(w, j, t)
      BY <3>3 DEF TypeOK, Replaced
    <3> HIDE DEF t
    <3>6. task'[w][j] = t
      BY <3>5 DEF TypeOK, Replaced
    <3>7. QED
      BY <3>2, <3>4, <3>6
  <2>3. QED
    BY <2>1, <2>2
<1>5. QED
  BY <1>1, <1>2, <1>3, <1>4 DEF Placed, Elsewhere, Sincere

\* The relay grants a claim, and marking the job claimed comes after it.
LEMMA SincereClaim ==
  ASSUME TypeOK, HonestInv, NEW w \in Workers, NEW j \in Jobs, Claim(w, j)
  PROVE  Sincere(w, j)
<1>1. UNCHANGED <<request, journal, starts, outcome>> /\ task[w][j].pc \in {"claim", "rejectClaim"} /\ task[w][j].claim # 0
  BY DEF Claim, HonestInv, HonestWork, disk
<1>2. CASE Leave(w, j) /\ UNCHANGED relay
  BY <1>1, <1>2, SinceresMove
<1>3. CASE /\ relay' = [relay EXCEPT ![j] = [state |-> "accepted", claim |-> task[w][j].claim]]
           /\ \E place \in {"mark", "rejectMark"} : Goto(w, j, place)
  <2>1. PICK place \in {"mark", "rejectMark"} : Placed(w, j, place, task[w][j].phase, task[w][j].seen)
    BY <1>3, GotoPlaced DEF Places
  <2>2. /\ relay'[j].state = "accepted" /\ relay'[j].claim # 0
        /\ \A k \in Jobs : k # j => relay'[k] = relay[k]
    BY <1>1, <1>3 DEF TypeOK
  <2>3. QED
    BY <1>1, <2>1, <2>2 DEF Placed, Elsewhere, Sincere
<1>4. QED
  BY <1>2, <1>3 DEF Claim

LEMMA SincereMark ==
  ASSUME TypeOK, HonestInv, NEW w \in Workers, NEW j \in Jobs, Mark(w, j)
  PROVE  Sincere(w, j)
<1>1. UNCHANGED <<request, relay, starts, outcome>> /\ relay[j].claim # 0
  BY DEF Mark, At, HonestInv, HonestWork
<1>2. Shifted(j, "claimed")
  BY AdvanceShifts DEF Mark, Phases, Shifted
<1>3. CASE Goto(w, j, "run")
  <2>1. Placed(w, j, "run", task[w][j].phase, task[w][j].seen)
    BY <1>3, GotoPlaced DEF Places
  <2>2. QED
    BY <1>1, <1>2, <2>1 DEF Placed, Shifted, Elsewhere, Sincere
<1>4. CASE Leave(w, j)
  <2>1. Placed(w, j, "idle", "staged", "absent")
    BY <1>4, LeavePlaced
  <2>2. QED
    BY <1>1, <1>2, <2>1 DEF Placed, Shifted, Elsewhere, Sincere
<1>5. QED
  BY <1>3, <1>4 DEF Mark

LEMMA SincereRun ==
  ASSUME TypeOK, HonestInv, NEW w \in Workers, NEW j \in Jobs, Run(w, j)
  PROVE  Sincere(w, j)
<1>1. UNCHANGED <<request, relay, starts, outcome>> /\ relay[j].claim # 0
  BY DEF Run, At, HonestInv, HonestWork
<1>2. CASE Leave(w, j) /\ UNCHANGED journal
  BY <1>1, <1>2, SinceresMove
<1>3. CASE /\ journal' = [journal EXCEPT ![j] = [@ EXCEPT !.phase = "running", !.attempt = <<w, pid[w]>>]]
           /\ Goto(w, j, "native")
  <2> DEFINE e == [journal[j] EXCEPT !.phase = "running", !.attempt = <<w, pid[w]>>]
  <2>1. e.phase = "running" /\ journal' = [journal EXCEPT ![j] = e]
    BY <1>3 DEF TypeOK, Journals
  <2> HIDE DEF e
  <2>2. journal'[j].phase = "running" /\ \A k \in Jobs : k # j => journal'[k] = journal[k]
    BY <2>1 DEF TypeOK
  <2>3. Placed(w, j, "native", task[w][j].phase, task[w][j].seen)
    BY <1>3, GotoPlaced DEF Places
  <2>4. QED
    BY <1>1, <2>2, <2>3 DEF Placed, Elsewhere, Sincere
<1>4. QED
  BY <1>2, <1>3 DEF Run

\* The report is completed only for a run that is known to be taken.
LEMMA SincereFinish ==
  ASSUME TypeOK, NEW w \in Workers, NEW j \in Jobs, Finish(w, j)
  PROVE  Sincere(w, j)
<1> DEFINE v == Verdict(task[w][j].phase)
<1>1. UNCHANGED <<request, journal, starts, outcome>>
  BY DEF Finish, disk
<1>2. v = "completed" => task[w][j].phase = "delivered"
  BY DEF Verdict
<1>3. relay' = [relay EXCEPT ![j].state = v] \/ UNCHANGED relay
  BY DEF Finish
<1> HIDE DEF v
<1>4. /\ \A k \in Jobs : k # j => relay'[k] = relay[k]
      /\ relay'[j].claim = relay[j].claim
      /\ relay'[j].state = relay[j].state \/ relay'[j].state = v
  BY <1>3 DEF TypeOK, RelayJobs
<1>5. PICK pc, phase, seen : /\ pc \in {"idle", "confirm"} /\ phase \in {"staged", task[w][j].phase}
                               /\ Placed(w, j, pc, phase, seen)
  BY GotoPlaced, LeavePlaced DEF Finish, Places
<1>6. QED
  BY <1>1, <1>2, <1>4, <1>5 DEF Placed, Elsewhere, Sincere

LEMMA SincereErase ==
  ASSUME TypeOK, NEW w \in Workers, NEW j \in Jobs, Erase(w, j)
  PROVE  Sincere(w, j)
<1>1. UNCHANGED <<relay, starts, outcome>>
  BY DEF Erase
<1>2. /\ \A k \in Jobs : k # j => request'[k] = request[k] /\ journal'[k] = journal[k]
      /\ journal'[j].phase = "delivered" => journal[j].phase = "delivered"
  BY DEF Erase, EraseJournal, EraseRequest, Fresh, TypeOK
<1>3. PICK pc, phase, seen : /\ pc \in {"idle", "eraseRest"} /\ phase \in {"staged", task[w][j].phase}
                               /\ Placed(w, j, pc, phase, seen)
  BY GotoPlaced, LeavePlaced DEF Erase, Places
<1>4. QED
  BY <1>1, <1>2, <1>3 DEF Placed, Elsewhere, Sincere

\* The one start of a job: nobody else waits for its answer.
LEMMA HonestStart ==
  ASSUME StartInv, HonestInv, NEW w \in Workers, NEW j \in Jobs, NativeStart(w, j)
  PROVE  HonestInv'
<1>0. TypeOK /\ UNCHANGED <<request, journal, relay, outcome>> /\ task[w][j].pc = "native"
  BY DEF StartInv, NativeStart, At, disk
<1>1. Placed(w, j, "await", task[w][j].phase, task[w][j].seen)
  BY <1>0, GotoPlaced DEF NativeStart, Places
<1>2. starts[j] = 0 /\ relay[j].claim # 0
  BY <1>0 DEF StartInv, Starting, HonestInv, HonestWork
<1>3. starts'[j] = 1 /\ \A k \in Jobs : k # j => starts'[k] = starts[k]
  BY <1>0, <1>2 DEF NativeStart, TypeOK
<1>4. ~Sure(j) /\ \A v \in Workers : task[v][j].pc # "await"
  BY <1>2 DEF Sure, Taken, HonestInv, HonestWork
<1>5. HonestRecord(j)' /\ \A v \in Workers : HonestWork(v, j)'
  BY <1>0, <1>1, <1>2, <1>3, <1>4 DEF Placed, HonestInv, HonestRecord, HonestWork
<1>6. ASSUME NEW k \in Jobs, k # j
      PROVE  HonestRecord(k)' /\ \A v \in Workers : HonestWork(v, k)'
  BY <1>0, <1>1, <1>3, <1>6 DEF Placed, HonestInv, HonestRecord, HonestWork, Sure, Taken
<1>7. \A u, v \in Workers, k \in Jobs : task'[v][k].pc = "await" /\ task'[u][k].pc = "await" => u = v
  BY <1>1, <1>4 DEF Placed, HonestInv
<1>8. QED
  BY <1>5, <1>6, <1>7 DEF HonestInv

\* The controller, the relay and the processes report nothing themselves.
LEMMA HonestOutside ==
  ASSUME TypeOK, HonestInv,
         \/ \E j \in Jobs : Queue(j) \/ Cancel(j) \/ Expire(j) \/ Forget(j) \/ \E w \in Workers : Stage(w, j)
         \/ \E w \in Workers : Crash(w) \/ Elect(w) \/ Depose(w)
         \/ UNCHANGED vars
  PROVE  HonestInv'
<1>1. UNCHANGED <<journal, starts, outcome>>
  BY DEF Queue, Cancel, Expire, Forget, Stage, Crash, Elect, Depose, vars, disk
<1>2. \A j \in Jobs : relay'[j].claim = relay[j].claim /\ (relay'[j].state = "completed" => relay[j].state = "completed")
  BY DEF Queue, Cancel, Expire, Forget, Stage, Crash, Elect, Depose, vars, TypeOK, RelayJobs
<1>3. \A w \in Workers, j \in Jobs : task'[w][j] = task[w][j] \/ task'[w][j] = Idle
  BY DEF Queue, Cancel, Expire, Forget, Stage, Crash, Elect, Depose, vars, TypeOK
<1>4. \A j \in Jobs : Sure(j) => Sure(j)'
  BY <1>1, <1>3 DEF Sure, Taken, Idle
<1>5. QED
  BY <1>1, <1>2, <1>3, <1>4 DEF HonestInv, HonestRecord, HonestWork, Idle

LEMMA HonestInit == Init => HonestInv
  BY DEF Init, HonestInv, HonestRecord, HonestWork, Fresh, Idle

LEMMA HonestStep == StartInv /\ HonestInv /\ [Next]_vars => HonestInv'
<1> SUFFICES ASSUME StartInv, HonestInv, [Next]_vars PROVE HonestInv'
  OBVIOUS
<1>1. TypeOK
  BY DEF StartInv
<1>2. ASSUME NEW w \in Workers, NEW j \in Jobs, Work(w, j) \/ Launch(w, j) \/ Maintain(w, j) \/ LostAnswer(w, j) \/ StorageFault(w, j)
      PROVE  NativeStart(w, j) \/ Sincere(w, j)
  BY <1>1, <1>2, SincereMoves, SincereSettle, SincereRecord, SincereReserve, SincereClaim, SincereMark,
     SincereRun, SincereFinish, SincereErase DEF Work
<1>3. QED
  BY <1>1, <1>2, SincereKept, HonestStart, HonestOutside DEF Next

\* What the relay tells the controller of a job is what became of it, with any
\* number of monitors: completed only if the provider took its one run, and
\* cancelled before a grant only if it never ran (remote.ts, worker/index.ts).
THEOREM Honest == ASSUME JournalFirst = FALSE PROVE Spec => []OutcomeHonest
<1>1. StartInv /\ HonestInv => OutcomeHonest
  BY DEF StartInv, TypeOK, HonestInv, HonestRecord, Sure, Taken, OutcomeHonest
<1>2. QED
  BY <1>1, HonestInit, HonestStep, StartInit, StartStep, PTL DEF Spec
-----------------------------------------------------------------------------
(* The sender and the receiver: TaskQueue *)


\* A call of the sender changes the receiver and the relay by nothing, or by what
\* a controller may do there.
LEMMA ExchangeSteps ==
  ASSUME NEW c \in Callers, NEW j \in Jobs, Exchange(c, j)
  PROVE  Next \/ UNCHANGED vars
<1>1. Put(c, j) => Queue(j) \/ UNCHANGED vars  BY DEF Put
<1>2. Delete(c, j) => Cancel(j) \/ UNCHANGED vars  BY DEF Delete
<1>3. ConfirmUpload(c, j) \/ Status(c, j) \/ RetireBody(c, j) => UNCHANGED vars
  BY DEF ConfirmUpload, Status, RetireBody
<1>4. Queue(j) \/ Cancel(j) => Next  BY DEF Next
<1> QED  BY <1>1, <1>2, <1>3, <1>4 DEF Exchange

\* Every step of the composition is a step of the receiver or none of it.
LEMMA QueueSteps == [QueueNext]_queueVars => [Next]_vars
<1> SUFFICES ASSUME [QueueNext]_queueVars PROVE Next \/ UNCHANGED vars
  OBVIOUS
<1>1. CASE UNCHANGED queueVars  BY <1>1 DEF queueVars
<1>2. ASSUME NEW j \in Jobs,
             Submit(j) \/ Admit(j) \/ AskStatus(j) \/ AskCancel(j) \/ Ages(j) \/ Lapse(j)
      PROVE  Next \/ UNCHANGED vars
  <2>1. Ages(j) => Next  BY DEF Ages, Next
  <2> QED  BY <1>2, <2>1 DEF Submit, Admit, AskStatus, AskCancel, Lapse
<1>3. ASSUME NEW c \in Callers, NEW j \in Jobs, Exchange(c, j) \/ Lose(c, j)
      PROVE  Next \/ UNCHANGED vars
  BY <1>3, ExchangeSteps DEF Lose
<1>4. ASSUME NEW w \in Workers, NEW j \in Jobs, Retry(w, j) \/ Receive(w, j) \/ Tick(w, j)
      PROVE  Next \/ UNCHANGED vars
  <2>1. Retry(w, j) => UNCHANGED vars  BY DEF Retry
  <2>2. Receive(w, j) => Next  BY DEF Receive, Next
  <2>3. Tick(w, j) => Next  BY DEF Tick, Next
  <2> QED  BY <1>4, <2>1, <2>2, <2>3
<1>5. ASSUME NEW w \in Workers, MonitorCrash(w) \/ Lead(w)
      PROVE  Next
  BY <1>5 DEF MonitorCrash, Lead, Next
<1> QED  BY <1>1, <1>2, <1>3, <1>4, <1>5 DEF QueueNext

\* The composition implements the receiver: whatever the sender does, the worker,
\* the inbox and the relay go on as TaskDispatch says.
THEOREM ImplementsReceiver == QueueSpec => Spec
<1>1. QueueInit => Init  BY DEF QueueInit
<1> QED  BY <1>1, QueueSteps, PTL DEF QueueSpec, Spec

\* One native invocation per message, whatever was uploaded again, cancelled, asked
\* about or lost on the sender's side (sender/index.ts, worker/index.ts:84-94).
THEOREM QueueOneStart == ASSUME JournalFirst = FALSE PROVE QueueSpec => []AtMostOneStart
  BY ImplementsReceiver, OneStart, PTL
-----------------------------------------------------------------------------
\* A worker knows the outcome of a job: it has asked the relay, or saved a success.
Concluding == {"begin", "finish", "confirm", "retire", "erase", "eraseRest"}
Removal == {"retire", "erase", "eraseRest"}

\* The worker reports the end of a job to the sender only when the relay has it.
ReportInv ==
  \A w \in Workers, j \in Jobs :
    /\ task[w][j].phase = "delivered" => task[w][j].pc \in Concluding
    /\ task[w][j].pc = "confirm" => Settled(j)
    /\ task[w][j].phase = "delivered" /\ task[w][j].pc \in Removal => Settled(j)

\* The relay never takes an outcome back.
LEMMA RelayForward ==
  ASSUME TypeOK, [Next]_vars, NEW j \in Jobs
  PROVE  /\ relay[j].state \in Over => relay'[j].state \in Over
         /\ Settled(j) => Settled(j)'
<1>1. ASSUME NEW k \in Jobs, Queue(k) \/ Cancel(k) \/ Expire(k) \/ Forget(k)
      PROVE  /\ relay[j].state \in Over => relay'[j].state \in Over
             /\ Settled(j) => Settled(j)'
  BY <1>1 DEF Queue, Cancel, Expire, Forget, TypeOK, RelayJobs, Settled, Over, Final
<1>2. ASSUME NEW w \in Workers, NEW k \in Jobs, Claim(w, k)
      PROVE  /\ relay[j].state \in Over => relay'[j].state \in Over
             /\ Settled(j) => Settled(j)'
  <2>1. relay' = relay \/ (/\ relay[k].state \in {"queued", "accepted"}
                           /\ relay' = [relay EXCEPT ![k] = [state |-> "accepted", claim |-> task[w][k].claim]])
    BY <1>2 DEF Claim
  <2>2. QED
    BY <2>1 DEF TypeOK, Settled, Over, Final
<1>3. ASSUME NEW w \in Workers, NEW k \in Jobs, Finish(w, k)
      PROVE  /\ relay[j].state \in Over => relay'[j].state \in Over
             /\ Settled(j) => Settled(j)'
  <2> DEFINE v == Verdict(task[w][k].phase)
  <2>1. relay' = relay \/ (relay[k].state = "accepted" /\ relay' = [relay EXCEPT ![k].state = v])
    BY <1>3 DEF Finish
  <2> HIDE DEF v
  <2>2. QED
    BY <2>1 DEF TypeOK, RelayJobs, Settled, Over, Final
<1>4. ASSUME UNCHANGED relay
      PROVE  /\ relay[j].state \in Over => relay'[j].state \in Over
             /\ Settled(j) => Settled(j)'
  BY <1>4 DEF Settled
<1>5. ASSUME NEW w \in Workers, NEW k \in Jobs,
             Stage(w, k) \/ Launch(w, k) \/ Work(w, k) \/ Maintain(w, k) \/ LostAnswer(w, k) \/ StorageFault(w, k)
      PROVE  Claim(w, k) \/ Finish(w, k) \/ UNCHANGED relay
  BY <1>5 DEF Stage, Launch, Work, Maintain, LostAnswer, StorageFault, Begin, Get, Decide, AlreadyFinished, Reserve,
     Mark, Run, NativeStart, Settle, Reload, RejectMark, RejectFail, Confirm, Retire, Erase
<1>6. ASSUME NEW w \in Workers, Crash(w) \/ Elect(w) \/ Depose(w)
      PROVE  UNCHANGED relay
  BY <1>6 DEF Crash, Elect, Depose
<1>7. CASE UNCHANGED vars
  BY <1>4, <1>7 DEF vars
<1>8. QED
  BY <1>1, <1>2, <1>3, <1>4, <1>5, <1>6, <1>7 DEF Next

\* A worker's step keeps the invariant if the place it comes to does.
LEMMA ReportPlace ==
  ASSUME TypeOK, ReportInv, [Next]_vars, NEW w \in Workers, NEW j \in Jobs, NEW pc, NEW phase, NEW seen,
         Placed(w, j, pc, phase, seen),
         phase = "delivered" => pc \in Concluding,
         pc = "confirm" => Settled(j)',
         phase = "delivered" /\ pc \in Removal => Settled(j)'
  PROVE  ReportInv'
<1>1. \A k \in Jobs : Settled(k) => Settled(k)'
  BY RelayForward
<1>2. QED
  BY <1>1 DEF Placed, ReportInv

\* The steps that leave the job or go to another place with what was read of it.
LEMMA ReportMove ==
  ASSUME TypeOK, ReportInv, [Next]_vars, NEW w \in Workers, NEW j \in Jobs,
         \/ Begin(w, j) \/ Decide(w, j) \/ AlreadyFinished(w, j) \/ Claim(w, j) \/ Mark(w, j) \/ Run(w, j)
         \/ NativeStart(w, j) \/ Settle(w, j) \/ RejectMark(w, j) \/ Confirm(w, j) \/ Retire(w, j)
         \/ Erase(w, j) \/ Maintain(w, j) \/ LostAnswer(w, j) \/ StorageFault(w, j)
  PROVE  ReportInv'
<1>1. CASE Leave(w, j)
  BY <1>1, LeavePlaced, ReportPlace
<1>2. ASSUME NEW place \in Places \ {"confirm"}, Goto(w, j, place),
             task[w][j].phase = "delivered" => place \in Concluding,
             task[w][j].phase = "delivered" /\ place \in Removal => Settled(j)
      PROVE  ReportInv'
  <2>1. Placed(w, j, place, task[w][j].phase, task[w][j].seen)
    BY <1>2, GotoPlaced
  <2>2. QED
    BY <1>2, <2>1, ReportPlace, RelayForward
<1>3. CASE Begin(w, j)
  BY <1>1, <1>2, <1>3 DEF Begin, Places, Concluding, Removal
<1>4. CASE \/ Decide(w, j) \/ AlreadyFinished(w, j) \/ Claim(w, j) \/ Mark(w, j) \/ Run(w, j)
           \/ NativeStart(w, j) \/ Settle(w, j) \/ RejectMark(w, j)
  <2>1. task[w][j].phase # "delivered"
    BY <1>4 DEF Decide, AlreadyFinished, Claim, Mark, Run, NativeStart, Settle, RejectMark, At, ReportInv, Concluding
  <2>2. Leave(w, j) \/ \E place \in Places \ {"confirm"} : Goto(w, j, place)
    BY <1>4 DEF Decide, Defer, Refuse, Deliver, AlreadyFinished, Claim, Mark, Run, NativeStart, Settle, RejectMark, Places
  <2>3. QED
    BY <1>1, <1>2, <2>1, <2>2
<1>5. CASE Confirm(w, j) \/ Retire(w, j) \/ Erase(w, j)
  BY <1>1, <1>2, <1>5 DEF Confirm, Retire, Erase, At, ReportInv, Places, Concluding, Removal
<1>6. CASE Maintain(w, j)
  BY <1>2, <1>6 DEF Maintain, At, ReportInv, Places, Concluding, Removal
<1>7. CASE LostAnswer(w, j) \/ StorageFault(w, j)
  <2>1. Leave(w, j) \/ (Goto(w, j, "finish") /\ At(w, j, "await"))
    BY <1>7 DEF LostAnswer, StorageFault
  <2>2. QED
    BY <1>1, <1>2, <2>1 DEF At, ReportInv, Places, Concluding, Removal
<1>8. QED
  BY <1>3, <1>4, <1>5, <1>6, <1>7

\* finish(): a report counts as confirmed only with the relay's own outcome.
LEMMA ReportFinish ==
  ASSUME TypeOK, ReportInv, [Next]_vars, NEW w \in Workers, NEW j \in Jobs, Finish(w, j)
  PROVE  ReportInv'
<1> DEFINE v == Verdict(task[w][j].phase)
           mine == task[w][j].claim # 0 /\ relay[j].claim = task[w][j].claim
<1>1. CASE Leave(w, j)
  BY <1>1, LeavePlaced, ReportPlace
<1>2. CASE Goto(w, j, "confirm") /\ mine /\ relay[j].state \in {"accepted", v}
  <2>1. v \in {"completed", "failed"}
    BY DEF Verdict
  <2>2. relay' = IF relay[j].state = "accepted" THEN [relay EXCEPT ![j].state = v] ELSE relay
    BY <1>2 DEF Finish
  <2> HIDE DEF v, mine
  <2>3. relay'[j].state = v
    BY <1>2, <2>2 DEF TypeOK, RelayJobs
  <2>4. Settled(j)'
    BY <2>1, <2>3 DEF Settled, Final
  <2>5. Placed(w, j, "confirm", task[w][j].phase, task[w][j].seen)
    BY <1>2, GotoPlaced DEF Places
  <2>6. QED
    BY <2>4, <2>5, ReportPlace DEF Concluding
<1>3. QED
  BY <1>1, <1>2 DEF Finish

\* The steps that read the disk or the relay anew.
LEMMA ReportRead ==
  ASSUME TypeOK, ReportInv, [Next]_vars, NEW w \in Workers, NEW j \in Jobs,
         Get(w, j) \/ Reload(w, j) \/ RejectFail(w, j) \/ Launch(w, j) \/ Reserve(w, j)
  PROVE  ReportInv'
<1>1. CASE RejectFail(w, j) \/ Launch(w, j) \/ (Reload(w, j) /\ request[j])
  BY <1>1, RejectFailPlaced, LaunchPlaced, ReloadPlaced, ReportPlace DEF Concluding, Removal
<1>2. CASE Get(w, j) \/ Reserve(w, j)
  <2>1. task[w][j].phase # "delivered"
    BY <1>2 DEF Get, Reserve, At, ReportInv, Concluding
  <2>2. \E pc \in {"idle", "decide", "claim", "rejectClaim"}, phase \in {"staged", task[w][j].phase}, seen \in RelayStates :
          Placed(w, j, pc, phase, seen)
    <3>1. relay[j].state \in RelayStates
      BY DEF TypeOK, RelayJobs
    <3>2. CASE Get(w, j)
      BY <3>1, <3>2, GetPlaced
    <3>3. CASE Reserve(w, j)
      BY <3>3, ReservePlaced
    <3>4. QED
      BY <1>2, <3>2, <3>3
  <2>3. QED
    BY <2>1, <2>2, ReportPlace
<1>3. CASE Reload(w, j) /\ Leave(w, j)
  BY <1>3, LeavePlaced, ReportPlace
<1>4. QED
  BY <1>1, <1>2, <1>3 DEF Reload

LEMMA ReportStep == TypeOK /\ ReportInv /\ [Next]_vars => ReportInv'
<1> SUFFICES ASSUME TypeOK, ReportInv, [Next]_vars PROVE ReportInv'
  OBVIOUS
<1>1. ASSUME NEW w \in Workers, NEW j \in Jobs,
             Launch(w, j) \/ Work(w, j) \/ Maintain(w, j) \/ LostAnswer(w, j) \/ StorageFault(w, j)
      PROVE  ReportInv'
  BY <1>1, ReportMove, ReportFinish, ReportRead DEF Work
<1>2. CASE \/ \E j \in Jobs : Queue(j) \/ Cancel(j) \/ Expire(j) \/ Forget(j) \/ \E w \in Workers : Stage(w, j)
           \/ \E w \in Workers : Crash(w) \/ Elect(w) \/ Depose(w)
           \/ UNCHANGED vars
  <2>1. \A w \in Workers, j \in Jobs : task'[w][j] = task[w][j] \/ task'[w][j] = Idle
    BY <1>2 DEF Queue, Cancel, Expire, Forget, Stage, Crash, Elect, Depose, vars, TypeOK
  <2>2. \A j \in Jobs : Settled(j) => Settled(j)'
    BY RelayForward
  <2>3. QED
    BY <2>1, <2>2 DEF ReportInv, Idle
<1>3. QED
  BY <1>1, <1>2 DEF Next

LEMMA ReportInit == Init => ReportInv
  BY DEF Init, ReportInv, Idle, Removal
-----------------------------------------------------------------------------
\* One caller's record of one job is now t; what follows from it is CallUpdate.
CallReplaced(c, j, t) == call' = [call EXCEPT ![c] = [call[c] EXCEPT ![j] = t]]

\* Replacing one caller's record of one job keeps the type of call.
LEMMA CallUpdate ==
  ASSUME QueueTypeOK, NEW c \in Callers, NEW j \in Jobs, NEW t \in Calls, CallReplaced(c, j, t)
  PROVE  /\ call' \in [Callers -> [Jobs -> Calls]]
         /\ call'[c][j] = t
         /\ \A d \in Callers, k \in Jobs : d # c \/ k # j => call'[d][k] = call[d][k]
<1>1. call \in [Callers -> [Jobs -> Calls]]
  BY DEF QueueTypeOK
<1>2. [call[c] EXCEPT ![j] = t] \in [Jobs -> Calls]
  BY <1>1
<1>3. QED
  BY <1>1, <1>2 DEF CallReplaced

\* Where a step leaves one call: its type is kept, and the others stand still.
Called(c, j, place, seen) ==
  /\ call' \in [Callers -> [Jobs -> Calls]]
  /\ call'[c][j].pc = place /\ call'[c][j].seen = seen
  /\ \A d \in Callers, k \in Jobs : d # c \/ k # j => call'[d][k] = call[d][k]

LEMMA MoveCalled ==
  ASSUME QueueTypeOK, NEW c \in Callers, NEW j \in Jobs,
         NEW place \in {"idle", "stage", "put", "confirm", "get", "delete", "retire"}, Move(c, j, place)
  PROVE  Called(c, j, place, call[c][j].seen)
<1> DEFINE t == [call[c][j] EXCEPT !.pc = place]
<1>1. call[c][j] \in Calls
  BY DEF QueueTypeOK
<1>2. t \in Calls /\ t.pc = place /\ t.seen = call[c][j].seen
  BY <1>1 DEF Calls
<1>3. CallReplaced(c, j, t)
  BY DEF Move, QueueTypeOK, CallReplaced
<1> HIDE DEF t
<1>4. QED
  BY <1>2, <1>3, CallUpdate DEF Called

LEMMA HangupCalled ==
  ASSUME QueueTypeOK, NEW c \in Callers, NEW j \in Jobs, Hangup(c, j)
  PROVE  Called(c, j, "idle", "absent")
<1>1. NoCall \in Calls /\ NoCall.pc = "idle" /\ NoCall.seen = "absent"
  BY DEF NoCall, Calls, RelayStates
<1>2. PICK t \in Calls : t = NoCall
  BY <1>1
<1>3. CallReplaced(c, j, t)
  BY <1>2 DEF Hangup, QueueTypeOK, CallReplaced
<1>4. /\ call' \in [Callers -> [Jobs -> Calls]]
      /\ call'[c][j] = t
      /\ \A d \in Callers, k \in Jobs : d # c \/ k # j => call'[d][k] = call[d][k]
  BY <1>3, CallUpdate
<1>5. QED
  BY <1>1, <1>2, <1>4 DEF Called

\* An upload remembers what the relay says of the job.
LEMMA PutCalled ==
  ASSUME QueueTypeOK, NEW c \in Callers, NEW j \in Jobs, Put(c, j)
  PROVE  \/ Called(c, j, "idle", "absent")
         \/ Called(c, j, "confirm", relay'[j].state)
<1>1. TypeOK /\ call[c][j] \in Calls /\ relay[j].state \in RelayStates
  BY DEF QueueTypeOK, TypeOK, RelayJobs
<1>2. CASE Hangup(c, j)
  BY <1>2, HangupCalled
<1>3. ASSUME NEW seen \in RelayStates, relay'[j].state = seen,
             call' = [call EXCEPT ![c][j] = [@ EXCEPT !.pc = "confirm", !.seen = seen]]
      PROVE  Called(c, j, "confirm", seen)
  <2> DEFINE t == [call[c][j] EXCEPT !.pc = "confirm", !.seen = seen]
  <2>1. t \in Calls /\ t.pc = "confirm" /\ t.seen = seen
    BY <1>1 DEF Calls
  <2>2. CallReplaced(c, j, t)
    BY <1>3 DEF QueueTypeOK, CallReplaced
  <2> HIDE DEF t
  <2>3. call' \in [Callers -> [Jobs -> Calls]] /\ call'[c][j] = t
        /\ \A d \in Callers, k \in Jobs : d # c \/ k # j => call'[d][k] = call[d][k]
    BY <2>1, <2>2, CallUpdate
  <2>4. QED
    BY <2>1, <2>3 DEF Called
<1>4. CASE Known(j) /\ ~Hangup(c, j)
  BY <1>1, <1>3, <1>4 DEF Put, vars
<1>5. CASE Queue(j) /\ call' = [call EXCEPT ![c][j] = [@ EXCEPT !.pc = "confirm", !.seen = "queued"]]
  <2>1. relay'[j].state = "queued"
    BY <1>1, <1>5 DEF Queue, TypeOK, RelayJobs
  <2>2. QED
    BY <1>3, <1>5, <2>1 DEF RelayStates
<1>6. QED
  BY <1>2, <1>4, <1>5 DEF Put

LEMMA CancelCalled ==
  ASSUME QueueTypeOK, NEW j \in Jobs, AskCancel(j)
  PROVE  \E place \in {"delete", "put"} : Called(App, j, place, call[App][j].seen)
<1> DEFINE place == IF confirmed[j] THEN "delete" ELSE "put"
           t == [call[App][j] EXCEPT !.pc = place, !.cancels = TRUE]
<1>1. App \in Callers /\ call[App][j] \in Calls /\ place \in {"delete", "put"}
  BY DEF QueueTypeOK, Callers
<1>2. call' = [call EXCEPT ![App][j] = [@ EXCEPT !.pc = place, !.cancels = TRUE]]
  BY DEF AskCancel
<1> HIDE DEF place
<1>3. t \in Calls /\ t.pc = place /\ t.seen = call[App][j].seen
  BY <1>1 DEF Calls
<1>4. CallReplaced(App, j, t)
  BY <1>1, <1>2 DEF QueueTypeOK, CallReplaced
<1> HIDE DEF t
<1>5. QED
  BY <1>1, <1>3, <1>4, CallUpdate DEF Called
-----------------------------------------------------------------------------
\* A body that is gone is not needed: BodyOutlivesJob.
BodyGone(j) ==
  intent[j] /\ ~body[j] => relay[j].state \in Over \/ (relay[j].state = "failed" /\ confirmed[j])

\* What each call knows: only an admitted job is asked about, a body is staged
\* before its intent, and it is retired for a job that is over.
CallInv(c, j) ==
  /\ call[c][j].pc \notin {"idle", "stage"} => intent[j]
  /\ call[c][j].pc = "stage" => c = App /\ ~intent[j] /\ body[j]
  /\ call[c][j].pc = "retire" => relay[j].state \in Over
  /\ call[c][j].pc = "confirm" /\ call[c][j].seen \in Over => relay[j].state \in Over

BodyInv == \A j \in Jobs : BodyGone(j) /\ \A c \in Callers : CallInv(c, j)

\* The files of the other jobs stay as they are.
FilesElsewhere(j) == \A k \in Jobs : k # j =>
  intent'[k] = intent[k] /\ body'[k] = body[k] /\ confirmed'[k] = confirmed[k]

\* A call's step keeps the invariant if it keeps that job's part.
LEMMA CallStep ==
  ASSUME QueueTypeOK, BodyInv, [Next]_vars, NEW c \in Callers, NEW j \in Jobs, NEW place, NEW seen,
         Called(c, j, place, seen), FilesElsewhere(j), BodyGone(j)', CallInv(c, j)',
         \A d \in Callers : d # c => CallInv(d, j)'
  PROVE  BodyInv'
<1>1. ASSUME NEW k \in Jobs, k # j
      PROVE  BodyGone(k)' /\ \A d \in Callers : CallInv(d, k)'
  <2>1. relay[k].state \in Over => relay'[k].state \in Over
    BY RelayForward DEF QueueTypeOK
  <2>2. relay[k].state = "failed" => relay'[k].state \in {"failed"} \cup Over
    BY RelayForward DEF QueueTypeOK, Settled, Final, Over
  <2>3. QED
    BY <1>1, <2>1, <2>2 DEF BodyInv, BodyGone, CallInv, Called, FilesElsewhere
<1>2. \A d \in Callers : CallInv(d, j)'
  OBVIOUS
<1>3. QED
  BY <1>1, <1>2 DEF BodyInv

\* A call that leaves the files alone.
LEMMA QuietCall ==
  ASSUME QueueTypeOK, BodyInv, [Next]_vars, NEW c \in Callers, NEW j \in Jobs, NEW place, NEW seen,
         UNCHANGED files, Called(c, j, place, seen),
         place # "stage", place # "idle" => intent[j],
         place = "retire" => relay'[j].state \in Over,
         place = "confirm" /\ seen \in Over => relay'[j].state \in Over
  PROVE  BodyInv'
<1>1. relay[j].state \in Over => relay'[j].state \in Over
  BY RelayForward DEF QueueTypeOK
<1>2. relay[j].state = "failed" => relay'[j].state \in {"failed"} \cup Over
  BY RelayForward DEF QueueTypeOK, Settled, Final, Over
<1>3. FilesElsewhere(j) /\ UNCHANGED <<intent, body, confirmed>>
  BY DEF FilesElsewhere, files
<1>4. BodyGone(j)' /\ CallInv(c, j)'
  BY <1>1, <1>2, <1>3 DEF BodyInv, BodyGone, CallInv, Called
<1>5. \A d \in Callers : d # c => CallInv(d, j)'
  BY <1>1, <1>3 DEF BodyInv, CallInv, Called
<1>6. QED
  BY <1>3, <1>4, <1>5, CallStep

\* The application's commands.
LEMMA CommandSteps ==
  ASSUME QueueTypeOK, BodyInv, NEW j \in Jobs, Submit(j) \/ Admit(j) \/ AskStatus(j) \/ AskCancel(j)
  PROVE  BodyInv' /\ call' \in [Callers -> [Jobs -> Calls]]
<1>1. App \in Callers /\ UNCHANGED vars /\ UNCHANGED relay
  BY DEF Callers, Submit, Admit, AskStatus, AskCancel, vars
<1>2. CASE Submit(j) /\ ~intent[j] /\ body' = [body EXCEPT ![j] = TRUE] /\ Move(App, j, "stage")
  <2>1. Called(App, j, "stage", call[App][j].seen)
    BY <1>1, <1>2, MoveCalled
  <2>2. FilesElsewhere(j) /\ body'[j] /\ intent'[j] = intent[j]
    BY <1>2 DEF Submit, FilesElsewhere, QueueTypeOK
  <2>3. BodyGone(j)' /\ CallInv(App, j)'
    BY <1>2, <2>1, <2>2 DEF BodyGone, CallInv, Called, QueueTypeOK
  <2>4. \A d \in Callers : d # App => CallInv(d, j)'
    BY <1>1, <2>1, <2>2 DEF BodyInv, CallInv, Called
  <2>5. QED
    BY <1>1, <2>1, <2>2, <2>3, <2>4, CallStep DEF Called
<1>3. CASE Admit(j)
  <2>1. Called(App, j, "put", call[App][j].seen)
    BY <1>1, <1>3, MoveCalled DEF Admit
  <2>2. FilesElsewhere(j) /\ body'[j] = body[j] /\ intent'[j]
    BY <1>3 DEF Admit, FilesElsewhere, QueueTypeOK
  <2>3. body[j] /\ \A d \in Callers : d # App => call[d][j].pc # "stage"
    BY <1>1, <1>3 DEF Admit, Stands, BodyInv, CallInv
  <2>4. BodyGone(j)' /\ CallInv(App, j)'
    BY <2>1, <2>2, <2>3 DEF BodyGone, CallInv, Called
  <2>5. \A d \in Callers : d # App => CallInv(d, j)'
    BY <1>1, <2>1, <2>2, <2>3 DEF BodyInv, CallInv, Called
  <2>6. QED
    BY <1>1, <2>1, <2>2, <2>4, <2>5, CallStep DEF Called
<1>4. CASE /\ UNCHANGED files /\ intent[j]
           /\ \E place \in {"get", "put", "delete"} : Called(App, j, place, call[App][j].seen)
  BY <1>1, <1>4, QuietCall DEF Called
<1>5. CASE AskStatus(j)
  BY <1>1, <1>4, <1>5, MoveCalled DEF AskStatus
<1>6. CASE AskCancel(j)
  BY <1>1, <1>4, <1>6, CancelCalled DEF AskCancel
<1>7. CASE Submit(j) /\ intent[j]
  BY <1>1, <1>4, <1>7, MoveCalled DEF Submit, files, Unconfirmed
<1>8. QED
  BY <1>2, <1>3, <1>5, <1>6, <1>7 DEF Submit, Unconfirmed

\* The exchanges with the relay.
LEMMA ExchangeCalls ==
  ASSUME QueueTypeOK, BodyInv, [Next]_vars, NEW c \in Callers, NEW j \in Jobs, Exchange(c, j)
  PROVE  BodyInv' /\ call' \in [Callers -> [Jobs -> Calls]]
<1>0. CallInv(c, j) /\ BodyGone(j)
  BY DEF BodyInv
<1>1. CASE Put(c, j)
  <2>1. UNCHANGED files /\ intent[j]
    BY <1>0, <1>1 DEF Put, files, Stands, CallInv
  <2>2. QED
    BY <1>1, <2>1, PutCalled, QuietCall DEF Called
<1>2. CASE ConfirmUpload(c, j)
  <2>1. PICK place, seen : place \in {"idle", "retire", "delete"} /\ Called(c, j, place, seen) /\ (place = "retire" => call[c][j].seen \in Over)
    <3>1. AfterUpload(c, j) \in {"idle", "retire", "delete"} /\ (AfterUpload(c, j) = "retire" => call[c][j].seen \in Over)
      BY DEF AfterUpload
    <3>2. QED
      BY <1>2, <3>1, MoveCalled, HangupCalled DEF ConfirmUpload
  <2>2. /\ UNCHANGED <<relay, intent, body>> /\ FilesElsewhere(j)
        /\ confirmed[j] => confirmed'[j]
    BY <1>2 DEF ConfirmUpload, FilesElsewhere, QueueTypeOK, vars
  <2>3. BodyGone(j)' /\ CallInv(c, j)'
    BY <1>0, <1>2, <2>1, <2>2 DEF ConfirmUpload, Stands, BodyGone, CallInv, Called
  <2>4. \A d \in Callers : d # c => CallInv(d, j)'
    BY <2>1, <2>2 DEF BodyInv, CallInv, Called
  <2>5. QED
    BY <2>1, <2>2, <2>3, <2>4, CallStep DEF Called
<1>3. CASE Status(c, j)
  <2>1. UNCHANGED <<files, relay>> /\ intent[j]
    BY <1>0, <1>3 DEF Status, files, vars, Stands, CallInv
  <2>2. Called(c, j, "idle", "absent") \/ (Called(c, j, "retire", call[c][j].seen) /\ relay[j].state \in Over)
    BY <1>3, MoveCalled, HangupCalled DEF Status
  <2>3. QED
    BY <2>1, <2>2, QuietCall DEF Called
<1>4. CASE Delete(c, j)
  <2>1. UNCHANGED files /\ intent[j]
    BY <1>0, <1>4 DEF Delete, files, Stands, CallInv
  <2>2. CASE Cancel(j) /\ Move(c, j, "retire")
    <3>1. relay'[j].state \in Over
      BY <2>2 DEF Cancel, QueueTypeOK, TypeOK, RelayJobs, Over
    <3>2. QED
      BY <2>1, <2>2, <3>1, MoveCalled, QuietCall DEF Called
  <2>3. CASE Move(c, j, "get")
    BY <2>1, <2>3, MoveCalled, QuietCall DEF Called
  <2>4. QED
    BY <1>4, <2>2, <2>3 DEF Delete
<1>5. CASE RetireBody(c, j)
  <2>1. Called(c, j, "idle", "absent")
    BY <1>5, HangupCalled DEF RetireBody
  <2>2. /\ UNCHANGED <<relay, intent, confirmed>> /\ FilesElsewhere(j)
        /\ intent[j] /\ relay[j].state \in Over
    BY <1>0, <1>5 DEF RetireBody, FilesElsewhere, QueueTypeOK, vars, Stands, CallInv
  <2>3. BodyGone(j)' /\ CallInv(c, j)'
    BY <2>1, <2>2 DEF BodyGone, CallInv, Called
  <2>4. \A d \in Callers : d # c => CallInv(d, j)'
    BY <2>1, <2>2 DEF BodyInv, CallInv, Called
  <2>5. QED
    BY <2>1, <2>2, <2>3, <2>4, CallStep DEF Called
<1>6. QED
  BY <1>1, <1>2, <1>3, <1>4, <1>5 DEF Exchange

\* The worker's steps: what it reports to the sender, the relay has.
LEMMA ReceiveStep ==
  ASSUME QueueTypeOK, BodyInv, ReportInv, [Next]_vars, NEW w \in Workers, NEW j \in Jobs, Receive(w, j)
  PROVE  BodyInv'
<1>1. UNCHANGED call /\ \A k \in Jobs : /\ relay[k].state \in Over => relay'[k].state \in Over
                                        /\ Settled(k) => Settled(k)'
  BY RelayForward DEF Receive, QueueTypeOK
<1>2. CASE UNCHANGED files
  BY <1>1, <1>2 DEF files, BodyInv, BodyGone, CallInv, Settled, Final, Over
<1>3. CASE Reports(w, j) /\ ConfirmOutcome(j)
  <2>1. Settled(j)
    BY <1>3 DEF Reports, At, ReportInv, Removal
  <2>2. /\ UNCHANGED intent /\ FilesElsewhere(j)
        /\ intent[j] => confirmed'[j]
        /\ ~intent[j] => body'[j] = body[j]
    BY <1>3 DEF ConfirmOutcome, FilesElsewhere, QueueTypeOK
  <2>3. BodyGone(j)' /\ \A c \in Callers : CallInv(c, j)'
    BY <1>1, <2>1, <2>2 DEF BodyInv, BodyGone, CallInv, Settled, Final, Over
  <2>4. \A k \in Jobs : k # j => BodyGone(k)' /\ \A c \in Callers : CallInv(c, k)'
    BY <1>1, <2>2 DEF BodyInv, BodyGone, CallInv, Settled, Final, Over, FilesElsewhere
  <2>5. QED
    BY <2>3, <2>4 DEF BodyInv
<1>4. QED
  BY <1>2, <1>3 DEF Receive

\* The other steps leave the files alone, and a call only stops.
LEMMA OtherSteps ==
  ASSUME QueueTypeOK, BodyInv, [Next]_vars, UNCHANGED files,
         \A c \in Callers, j \in Jobs : call'[c][j] = call[c][j] \/ call'[c][j] = NoCall
  PROVE  BodyInv'
<1>1. \A j \in Jobs : /\ relay[j].state \in Over => relay'[j].state \in Over
                      /\ Settled(j) => Settled(j)'
  BY RelayForward DEF QueueTypeOK
<1>2. \A j \in Jobs : BodyGone(j)'
  BY <1>1 DEF files, BodyInv, BodyGone, Settled, Final, Over
<1>3. \A j \in Jobs, c \in Callers : CallInv(c, j)'
  BY <1>1 DEF files, BodyInv, CallInv, NoCall, Over
<1>4. QED
  BY <1>2, <1>3 DEF BodyInv

LEMMA BodyStep == QueueTypeOK /\ BodyInv /\ ReportInv /\ [QueueNext]_queueVars => BodyInv' /\ QueueTypeOK'
<1> SUFFICES ASSUME QueueTypeOK, BodyInv, ReportInv, [QueueNext]_queueVars PROVE BodyInv' /\ QueueTypeOK'
  OBVIOUS
<1>1. TypeOK /\ [Next]_vars /\ TypeOK'
  BY QueueSteps, TypeStep DEF QueueTypeOK
<1>2. BodyInv' /\ call' \in [Callers -> [Jobs -> Calls]]
  <2>1. ASSUME NEW j \in Jobs, Submit(j) \/ Admit(j) \/ AskStatus(j) \/ AskCancel(j)
        PROVE  BodyInv' /\ call' \in [Callers -> [Jobs -> Calls]]
    BY <2>1, CommandSteps
  <2>2. ASSUME NEW c \in Callers, NEW j \in Jobs, Exchange(c, j)
        PROVE  BodyInv' /\ call' \in [Callers -> [Jobs -> Calls]]
    BY <1>1, <2>2, ExchangeCalls
  <2>3. ASSUME NEW c \in Callers, NEW j \in Jobs, Lose(c, j)
        PROVE  BodyInv' /\ call' \in [Callers -> [Jobs -> Calls]]
    <3>1. UNCHANGED files /\ CallReplaced(c, j, NoCall)
      BY <2>3 DEF Lose, Hangup, QueueTypeOK, files, CallReplaced
    <3>2. NoCall \in Calls
      BY DEF NoCall, Calls, RelayStates
    <3>3. QED
      BY <1>1, <3>1, <3>2, CallUpdate, OtherSteps
  <2>4. ASSUME NEW w \in Workers, NEW j \in Jobs, Retry(w, j)
        PROVE  BodyInv' /\ call' \in [Callers -> [Jobs -> Calls]]
    <3>1. w \in Callers /\ UNCHANGED files /\ intent[j] /\ Move(w, j, "put")
      BY <2>4 DEF Retry, Callers, files, Unconfirmed
    <3>2. QED
      BY <1>1, <3>1, MoveCalled, QuietCall DEF Called
  <2>5. ASSUME NEW w \in Workers, NEW j \in Jobs, Receive(w, j)
        PROVE  BodyInv' /\ call' \in [Callers -> [Jobs -> Calls]]
    BY <1>1, <2>5, ReceiveStep DEF Receive, QueueTypeOK
  <2>6. ASSUME NEW w \in Workers, MonitorCrash(w)
        PROVE  BodyInv' /\ call' \in [Callers -> [Jobs -> Calls]]
    <3>1. /\ UNCHANGED files /\ call' \in [Callers -> [Jobs -> Calls]]
          /\ \A c \in Callers, j \in Jobs : call'[c][j] = call[c][j] \/ call'[c][j] = NoCall
      BY <2>6 DEF MonitorCrash, files, QueueTypeOK, NoCall, Calls, RelayStates, Callers
    <3>2. QED
      BY <1>1, <3>1, OtherSteps
  <2>7. CASE \/ \E j \in Jobs : Ages(j) \/ Lapse(j) \/ \E w \in Workers : Tick(w, j)
             \/ \E w \in Workers : Lead(w)
             \/ UNCHANGED queueVars
    <3>1. UNCHANGED <<files, call>>
      BY <2>7 DEF Ages, Lapse, Tick, Lead, queueVars, senderVars, files
    <3>2. QED
      BY <1>1, <3>1, OtherSteps DEF QueueTypeOK
  <2>8. QED
    BY <2>1, <2>2, <2>3, <2>4, <2>5, <2>6, <2>7 DEF QueueNext
<1>3. {intent', body', confirmed'} \subseteq [Jobs -> BOOLEAN] /\ lapsed' \subseteq Jobs /\ losses' \in 0..MaxLosses
  <2>1. {intent, body, confirmed} \subseteq [Jobs -> BOOLEAN] /\ lapsed \subseteq Jobs /\ losses \in 0..MaxLosses
    BY DEF QueueTypeOK
  <2>2. CASE UNCHANGED queueVars
    BY <2>1, <2>2 DEF queueVars, senderVars, files
  <2>3. ASSUME NEW j \in Jobs, Submit(j) \/ Admit(j) \/ AskStatus(j) \/ AskCancel(j) \/ Ages(j) \/ Lapse(j)
        PROVE  {intent', body', confirmed'} \subseteq [Jobs -> BOOLEAN] /\ lapsed' \subseteq Jobs /\ losses' \in 0..MaxLosses
    BY <2>1, <2>3 DEF Submit, Admit, AskStatus, AskCancel, Ages, Lapse, senderVars, files
  <2>4. ASSUME NEW c \in Callers, NEW j \in Jobs, Exchange(c, j) \/ Lose(c, j)
        PROVE  {intent', body', confirmed'} \subseteq [Jobs -> BOOLEAN] /\ lapsed' \subseteq Jobs /\ losses' \in 0..MaxLosses
    <3>1. CASE ConfirmUpload(c, j) \/ RetireBody(c, j)
      BY <2>1, <3>1 DEF ConfirmUpload, RetireBody
    <3>2. CASE Put(c, j) \/ Status(c, j) \/ Delete(c, j)
      <4>1. UNCHANGED <<intent, body, confirmed, lapsed, losses>>
        BY <3>2 DEF Put, Status, Delete, files
      <4>2. QED
        BY <2>1, <4>1
    <3>3. CASE Lose(c, j)
      <4>1. UNCHANGED <<intent, body, confirmed, lapsed>> /\ losses' \in 0..MaxLosses
        BY <2>1, <3>3, QueueAssumption DEF Lose, files
      <4>2. QED
        BY <2>1, <4>1
    <3>4. QED
      BY <2>4, <3>1, <3>2, <3>3 DEF Exchange
  <2>5. ASSUME NEW w \in Workers, NEW j \in Jobs, Retry(w, j) \/ Receive(w, j) \/ Tick(w, j)
        PROVE  {intent', body', confirmed'} \subseteq [Jobs -> BOOLEAN] /\ lapsed' \subseteq Jobs /\ losses' \in 0..MaxLosses
    <3>1. CASE Retry(w, j)
      BY <2>1, <3>1 DEF Retry, files
    <3>2. CASE Receive(w, j)
      <4>1. UNCHANGED <<intent, lapsed, losses>> /\ (ConfirmOutcome(j) \/ UNCHANGED files)
        BY <3>2 DEF Receive, ConfirmOutcome, files
      <4>2. {body', confirmed'} \subseteq [Jobs -> BOOLEAN]
        BY <2>1, <4>1 DEF ConfirmOutcome, files
      <4>3. QED
        BY <2>1, <4>1, <4>2
    <3>3. CASE Tick(w, j)
      BY <2>1, <3>3 DEF Tick, senderVars, files
    <3>4. QED
      BY <2>5, <3>1, <3>2, <3>3
  <2>6. ASSUME NEW w \in Workers, MonitorCrash(w) \/ Lead(w)
        PROVE  {intent', body', confirmed'} \subseteq [Jobs -> BOOLEAN] /\ lapsed' \subseteq Jobs /\ losses' \in 0..MaxLosses
    BY <2>1, <2>6 DEF MonitorCrash, Lead, senderVars, files
  <2>7. QED
    BY <2>2, <2>3, <2>4, <2>5, <2>6 DEF QueueNext
<1>4. QED
  BY <1>1, <1>2, <1>3 DEF QueueTypeOK

LEMMA BodyInit == QueueInit => QueueTypeOK /\ BodyInv /\ ReportInv
<1> SUFFICES ASSUME QueueInit PROVE QueueTypeOK /\ BodyInv /\ ReportInv
  OBVIOUS
<1>1. TypeOK /\ ReportInv
  BY TypeInit, ReportInit DEF QueueInit
<1>2. QueueTypeOK
  BY <1>1, QueueAssumption DEF QueueInit, QueueTypeOK, NoCall, Calls, RelayStates, Callers
<1>3. BodyInv
  BY DEF QueueInit, BodyInv, BodyGone, CallInv, NoCall
<1>4. QED
  BY <1>1, <1>2, <1>3

\* The state of the composition keeps its type: at most MaxLosses answers are lost,
\* and every call is at one of its places.
THEOREM QueueTypeCorrect == QueueSpec => []QueueTypeOK
<1>1. ReportInv /\ QueueTypeOK /\ [QueueNext]_queueVars => ReportInv'
  BY QueueSteps, ReportStep DEF QueueTypeOK
<1>2. QED
  BY <1>1, BodyInit, BodyStep, PTL DEF QueueSpec

\* The encrypted body of an admitted message stays on disk until the relay holds
\* its outcome (sender/index.ts retireIfTerminal, confirmOutcome): whatever calls
\* raced, a lost answer can be made good by uploading it again.
THEOREM BodyKept == QueueSpec => []BodyOutlivesJob
<1>1. ReportInv /\ QueueTypeOK /\ [QueueNext]_queueVars => ReportInv'
  BY QueueSteps, ReportStep DEF QueueTypeOK
<1>2. BodyInv => BodyOutlivesJob
  BY DEF BodyInv, BodyGone, BodyOutlivesJob
<1>3. QED
  BY <1>1, <1>2, BodyInit, BodyStep, PTL DEF QueueSpec
=============================================================================
