--------------------------- MODULE ApprovalRegistry ---------------------------
(****************************************************************************)
(* The approval registry (apps/bridge/src/approvals): one-shot hooks wait   *)
(* for the person's answer to a tool call, each in a process of its own.    *)
(* They share a directory of records, one per request id, and of winner     *)
(* files, one per registration.  There is no lock: the hard link of a       *)
(* winner is the only atomic decision, and every read, link, write and      *)
(* pruning pass of one process interleaves with the others'.                *)
(*                                                                          *)
(* A registration's generation (a random UUID) is named by the waiter that  *)
(* wrote it.  The phone is external: it answers cards it was shown.         *)
(****************************************************************************)
EXTENDS Naturals, FiniteSets

CONSTANTS
  Waiters,               \* processes that wait, each for one request
  RequestId, Contents,   \* its request id; the actions one may ask about
  None,
  PendingAge, Retention, \* MAX_PENDING_AGE_MS, TERMINAL_RETENTION_MS (in clock units)
  MaxRecords,
  AnswerAge,             \* how long after its card was sent an answer can arrive
  MaxTime, MaxAnswers    \* bounds: the clock; answers the person gives

Outcomes == {"allow", "deny", "late", "expired", "cancelled", "local"}

ASSUME ApprovalAssumption ==
  /\ None \notin Waiters \cup Outcomes
  /\ {PendingAge, Retention, MaxRecords, AnswerAge, MaxTime, MaxAnswers} \subseteq Nat
  /\ PendingAge <= Retention

VARIABLES
  clock,
  record,    \* record[id]: the registration on disk, or None
  writtenAt, \* updatedAt of each registration
  winner,    \* winner[g]: the outcome linked for generation g, or None
  wonAt,     \* its acceptedAt
  waiter,    \* what each process knows
  doomed,    \* files a pruning pass has decided to unlink
  shell,     \* the registration Cursor's after-shell hook is about to cancel
  shown,     \* cards the phone has been shown
  answers,   \* the phone's answers on their way
  told,      \* told[g]: outcomes the phone was told for generation g
  granted,   \* history: every outcome ever linked, with its generation
  clashed    \* history: registrations of one id, or one and a pruning pass, overlapped

disk == <<record, writtenAt, winner, wonAt>>
history == <<granted, clashed>>
phone == <<shown, answers, told>>
vars == <<clock, disk, waiter, doomed, shell, phone, history>>

Ids == {RequestId[w] : w \in Waiters}
Results == {"none", "allow", "deny", "unanswered", "refused"}
Pcs == {"start", "registering", "pruning", "connect", "waiting", "claiming", "telling",
        "ended", "answer", "aborted", "done"}
Pruners == Waiters \cup {None}          \* None stands for the monitor

\* A card, when it was sent, and how long the registration it was sent for is
\* remembered at least.
Cards == [id : Ids, content : Contents, at : 0..MaxTime, until : 0..MaxTime + Retention]

TypeOK ==
  /\ clock \in 0..MaxTime
  /\ record \in [Ids -> Waiters \cup {None}]
  /\ writtenAt \in [Waiters -> 0..MaxTime]
  /\ winner \in [Waiters -> Outcomes \cup {None}]
  /\ wonAt \in [Waiters -> 0..MaxTime]
  /\ waiter \in [Waiters -> [content : Contents, pc : Pcs, gen : Waiters \cup {None}, outcome : Outcomes \cup {None},
                             then : Pcs, result : Results]]
  /\ doomed \in [Pruners -> SUBSET Waiters]
  /\ shell \in Waiters \cup {None}
  /\ shown \subseteq Cards
  /\ answers \subseteq [card : Cards, answer : {"allow", "deny"}]
  /\ told \in [Waiters -> SUBSET Outcomes]
  /\ granted \subseteq Waiters \X Outcomes
  /\ clashed \in BOOLEAN

NewWaiter(content) ==
  [content |-> content, pc |-> "start", gen |-> None, outcome |-> None, then |-> "done", result |-> "none"]

Init ==
  /\ clock = 0
  /\ record = [id \in Ids |-> None]
  /\ writtenAt = [w \in Waiters |-> 0]
  /\ winner = [w \in Waiters |-> None]
  /\ wonAt = [w \in Waiters |-> 0]
  /\ waiter \in [Waiters -> {NewWaiter(c) : c \in Contents}]
  /\ doomed = [p \in Pruners |-> {}]
  /\ shell = None
  /\ shown = {} /\ answers = {}
  /\ told = [w \in Waiters |-> {}]
  /\ granted = {} /\ clashed = FALSE
-----------------------------------------------------------------------------
Content(w) == waiter[w].content

\* recordWinner(): the linked outcome decides how old a registration is.
EffectiveAt(g) == IF winner[g] # None THEN wonAt[g] ELSE writtenAt[g]

Recent(g) == clock - EffectiveAt(g) <= Retention

\* matchesRegistration(): the registration read is the one this process holds.
Current(w) == LET g == waiter[w].gen IN g # None /\ record[RequestId[w]] = g

\* Mutant: a terminal status is handed on as it is.
Answer_Raw(outcome) == IF outcome = "local" THEN "allow" ELSE outcome

\* decisionFromOutcome(), and what isUnanswered() makes of it.
Answer(outcome) ==
  CASE outcome \in {"allow", "local"} -> "allow"
    [] outcome = "expired"            -> "unanswered"
    [] OTHER                          -> "deny"

Finish(w, result) == waiter' = [waiter EXCEPT ![w].pc = "done", ![w].result = result]
-----------------------------------------------------------------------------
(* Registration *)

\* A registration is read and written without a lock: two hooks of one id may
\* both find nothing, and a pruning pass may unlink what was just renamed there.
Clash(overlap) == clashed' = (clashed \/ overlap)

\* Mutant: the request of a reused id is not compared with the registered one.
RegisterRead_AnyContent(w) ==
  /\ waiter[w].pc = "start"
  /\ LET g == record[RequestId[w]] IN
     IF g # None /\ Recent(g)
       THEN waiter' = [waiter EXCEPT ![w].pc = "connect", ![w].gen = g]
       ELSE waiter' = [waiter EXCEPT ![w].pc = "registering"]
  /\ UNCHANGED <<clock, disk, doomed, shell, phone, granted>>
  /\ Clash(\E v \in Waiters : RequestId[v] = RequestId[w] /\ waiter[v].pc = "registering")

\* registerPendingApproval(): the record is read, then written, with no lock.
RegisterRead(w) ==
  /\ waiter[w].pc = "start"
  /\ LET g == record[RequestId[w]] IN
     IF g # None /\ Recent(g)
       THEN IF Content(g) = Content(w)
              THEN waiter' = [waiter EXCEPT ![w].pc = "connect", ![w].gen = g]
              ELSE Finish(w, "refused")
       ELSE waiter' = [waiter EXCEPT ![w].pc = "registering"]
  /\ UNCHANGED <<clock, disk, doomed, shell, phone, granted>>
  /\ Clash(\E v \in Waiters : RequestId[v] = RequestId[w] /\ waiter[v].pc = "registering")

OnDisk == {record[id] : id \in Ids} \ {None}

\* pruneRecords(): what one pass gives up, having listed the directory.
Surplus(D) ==
  LET recent == {g \in OnDisk : Recent(g)}
      kept   == OnDisk \ D IN
  /\ D \subseteq OnDisk /\ kept \subseteq recent
  /\ Cardinality(kept) <= MaxRecords
  /\ recent # kept => Cardinality(kept) = MaxRecords
  /\ \A g \in kept, h \in recent \ kept : EffectiveAt(g) >= EffectiveAt(h)

\* writeRecord(): the registration is renamed into place; a pruning pass follows.
RegisterWrite(w) ==
  /\ waiter[w].pc = "registering"
  /\ UNCHANGED <<clock, winner, wonAt, shell, phone, granted>>
  /\ record' = [record EXCEPT ![RequestId[w]] = w]
  /\ writtenAt' = [writtenAt EXCEPT ![w] = clock]
  /\ waiter' = [waiter EXCEPT ![w].pc = "pruning", ![w].gen = w]
  /\ \E D \in SUBSET Waiters : Surplus(D)' /\ doomed' = [doomed EXCEPT ![w] = D]
  /\ Clash(\E p \in Pruners : doomed[p] # {})

\* The pass unlinks by path: whatever is there by then goes too.  A winner of
\* another registration than the one on disk goes once older than a minute.
Unlink(p) ==
  LET recordAfter == [id \in Ids |-> IF \E g \in doomed[p] : RequestId[g] = id THEN None ELSE record[id]]
      orphan(g)   == recordAfter[RequestId[g]] # g /\ clock > wonAt[g] IN
  /\ record' = recordAfter
  /\ winner' = [g \in Waiters |-> IF g \in doomed[p] \/ orphan(g) THEN None ELSE winner[g]]
  /\ doomed' = [doomed EXCEPT ![p] = {}]
  /\ UNCHANGED <<clock, writtenAt, wonAt, shell, phone, history>>

RegisterPrune(w) ==
  /\ waiter[w].pc = "pruning"
  /\ Unlink(w)
  /\ waiter' = [waiter EXCEPT ![w].pc = "connect"]

\* approvalsStatus() of the monitor begins with the same pass.
MonitorList ==
  /\ doomed[None] = {}
  /\ \E D \in SUBSET Waiters : Surplus(D) /\ doomed' = [doomed EXCEPT ![None] = D]
  /\ UNCHANGED <<clock, disk, waiter, shell, phone, history>>

MonitorPrune == Unlink(None) /\ UNCHANGED waiter
-----------------------------------------------------------------------------
(* Waiting *)

\* sendRequest(), after the handler and the poll are in place.
Send(w) ==
  /\ waiter[w].pc = "connect"
  /\ waiter' = [waiter EXCEPT ![w].pc = "waiting"]
  /\ shown' = shown \cup {[id |-> RequestId[w], content |-> Content(w), at |-> clock,
                           until |-> EffectiveAt(waiter[w].gen) + Retention]}
  /\ UNCHANGED <<clock, disk, doomed, shell, answers, told, history>>

\* markApprovalTerminal() and acceptApprovalDecision(): what is on record wins;
\* otherwise the contender goes on to the link.
Read(w, outcome, then) ==
  LET linked == winner[waiter[w].gen] IN
  waiter' = IF linked # None
    THEN [waiter EXCEPT ![w] = [@ EXCEPT !.pc = then, !.outcome = linked]]
    ELSE [waiter EXCEPT ![w] = [@ EXCEPT !.pc = "claiming", !.outcome = outcome, !.then = then]]

\* An answer to a request older than five minutes expires it instead.
Contender(g, answer) == IF clock - writtenAt[g] > PendingAge THEN "late" ELSE answer

\* The relay brings an answer, perhaps again: it names the request's id only.
Message(w, a) ==
  /\ waiter[w].pc = "waiting" /\ a \in answers
  /\ a.card.id = RequestId[w] /\ clock - a.card.at <= AnswerAge
  /\ Current(w)
  /\ Read(w, Contender(waiter[w].gen, a.answer), "telling")
  /\ UNCHANGED <<clock, disk, doomed, shell, phone, history>>

\* claimApprovalWinner(): link() succeeds for one contender; the others read it.
Claim(w) ==
  /\ waiter[w].pc = "claiming"
  /\ LET g == waiter[w].gen IN
     IF winner[g] = None
       THEN /\ winner' = [winner EXCEPT ![g] = waiter[w].outcome]
            /\ wonAt' = [wonAt EXCEPT ![g] = clock]
            /\ granted' = granted \cup {<<g, waiter[w].outcome>>}
            /\ waiter' = [waiter EXCEPT ![w].pc = waiter[w].then]
       ELSE /\ waiter' = [waiter EXCEPT ![w].pc = waiter[w].then, ![w].outcome = winner[g]]
            /\ UNCHANGED <<winner, wonAt, granted>>
  /\ UNCHANGED <<clock, record, writtenAt, doomed, shell, phone, clashed>>

\* The phone hears the outcome; the waiter returns it whether or not that worked.
Tell(w) ==
  /\ waiter[w].pc = "telling"
  /\ \/ told' = [told EXCEPT ![waiter[w].gen] = @ \cup {waiter[w].outcome}]
     \/ UNCHANGED told
  /\ Finish(w, Answer(waiter[w].outcome))
  /\ UNCHANGED <<clock, disk, doomed, shell, shown, answers, history>>

\* Every 200 ms the waiter looks for an outcome another process has linked.
Poll(w) ==
  /\ waiter[w].pc = "waiting"
  /\ Current(w) /\ winner[waiter[w].gen] # None
  /\ Finish(w, Answer(winner[waiter[w].gen]))
  /\ UNCHANGED <<clock, disk, doomed, shell, phone, history>>


\* The timer fires, the relay cannot be reached or the socket breaks: the wait
\* is over, while a message being told may still reach the phone.
Timeout(w) ==
  /\ waiter[w].pc \in {"connect", "waiting", "telling"}
  /\ waiter' = [waiter EXCEPT ![w].pc = "ended"]
  /\ \/ UNCHANGED told
     \/ /\ waiter[w].pc = "telling"
        /\ told' = [told EXCEPT ![waiter[w].gen] = @ \cup {waiter[w].outcome}]
  /\ UNCHANGED <<clock, disk, doomed, shell, shown, answers, history>>

\* Mutant: the waiter that timed out does not look at what is on record.
End_Blind(w) ==
  /\ waiter[w].pc = "ended"
  /\ Finish(w, "unanswered")
  /\ UNCHANGED <<clock, disk, doomed, shell, phone, history>>

\* Then "expired" contends for the registration like any other outcome.
End(w) ==
  /\ waiter[w].pc = "ended"
  /\ IF Current(w) THEN Read(w, "expired", "answer") ELSE Finish(w, "unanswered")
  /\ UNCHANGED <<clock, disk, doomed, shell, phone, history>>

Return(w) ==
  /\ waiter[w].pc = "answer"
  /\ \/ told' = [told EXCEPT ![waiter[w].gen] = @ \cup {waiter[w].outcome}]
     \/ UNCHANGED told
  /\ Finish(w, Answer(waiter[w].outcome))
  /\ UNCHANGED <<clock, disk, doomed, shell, shown, answers, history>>

\* The agent stops waiting: "cancelled" contends, and the wait ends.
Abort(w) ==
  /\ waiter[w].pc \in {"connect", "waiting", "telling"}
  /\ LET then == IF waiter[w].pc = "connect" THEN "aborted" ELSE "ended" IN
     IF Current(w) THEN Read(w, "cancelled", then)
                   ELSE waiter' = [waiter EXCEPT ![w].pc = then]
  /\ UNCHANGED <<clock, disk, doomed, shell, phone, history>>

\* Aborted before anything was sent: failClosed().
Aborted(w) ==
  /\ waiter[w].pc = "aborted"
  /\ Finish(w, "refused")
  /\ UNCHANGED <<clock, disk, doomed, shell, phone, history>>

\* The hook's process is killed.
Crash(w) ==
  /\ waiter[w].pc \notin {"start", "done"}
  /\ waiter' = [waiter EXCEPT ![w].pc = "done"]
  /\ doomed' = [doomed EXCEPT ![w] = {}]
  /\ UNCHANGED <<clock, disk, shell, phone, history>>
-----------------------------------------------------------------------------
(* Others *)

\* The person answers a card.
Decide(card, answer) ==
  /\ Cardinality(answers) < MaxAnswers
  /\ answers' = answers \cup {[card |-> card, answer |-> answer]}
  /\ UNCHANGED <<clock, disk, waiter, doomed, shell, shown, told, history>>

\* Cursor ran the command locally: its after-shell hook cancels the pending card.
ShellRead(g) ==
  /\ shell = None
  /\ g \in OnDisk /\ winner[g] = None /\ clock - writtenAt[g] <= PendingAge
  /\ shell' = g
  /\ UNCHANGED <<clock, disk, waiter, doomed, phone, history>>

ShellClaim ==
  /\ shell # None
  /\ IF record[RequestId[shell]] = shell /\ winner[shell] = None
       THEN /\ winner' = [winner EXCEPT ![shell] = "local"]
            /\ wonAt' = [wonAt EXCEPT ![shell] = clock]
            /\ granted' = granted \cup {<<shell, "local">>}
       ELSE UNCHANGED <<winner, wonAt, granted>>
  /\ shell' = None
  /\ UNCHANGED <<clock, record, writtenAt, waiter, doomed, phone, clashed>>

\* The clock counts in steps longer than an agent lets a hook run (two minutes).
Tick ==
  /\ clock < MaxTime
  /\ shell = None /\ \A w \in Waiters : waiter[w].pc \in {"start", "done"}
  /\ clock' = clock + 1
  /\ UNCHANGED <<disk, waiter, doomed, shell, phone, history>>
-----------------------------------------------------------------------------
Progress(w) ==
  \/ RegisterRead(w) \/ RegisterWrite(w) \/ RegisterPrune(w) \/ Send(w)
  \/ Claim(w) \/ Tell(w) \/ Poll(w) \/ Timeout(w) \/ End(w) \/ Return(w) \/ Aborted(w)

Next ==
  \/ \E w \in Waiters : Progress(w) \/ Abort(w) \/ Crash(w) \/ \E a \in answers : Message(w, a)
  \/ \E card \in shown, answer \in {"allow", "deny"} : Decide(card, answer)
  \/ \E g \in Waiters : ShellRead(g)
  \/ ShellClaim \/ MonitorList \/ MonitorPrune \/ Tick

Spec == Init /\ [][Next]_vars
-----------------------------------------------------------------------------
\* One outcome per registration, whoever contends: two hooks, an expiry, a
\* cancellation and the after-shell hook (records.ts:158-163).  What the phone
\* was told of a registration is what every hook that waited on it gave its
\* agent; and a hook cannot time out after the answer was acknowledged to the
\* phone (index.ts:171-173).
OutcomeAgreed ==
  /\ \A g \in Waiters, o, p \in Outcomes : <<g, o>> \in granted /\ <<g, p>> \in granted => o = p
  /\ \A w \in Waiters, o \in Outcomes :
       /\ waiter[w].gen # None /\ o \in told[waiter[w].gen]
       /\ waiter[w].result \in {"allow", "deny"}
       => waiter[w].result = Answer(o)
  /\ ~clashed => \A w \in Waiters : waiter[w].result = "unanswered" =>
       told[waiter[w].gen] \cap {"allow", "deny", "late", "cancelled", "local"} = {}

\* An answer to it may arrive when its registration is forgotten: a hook that joins
\* a registration late sends its card late, and renews nothing.
Outlives(card) == card.at + AnswerAge > card.until

\* One request id stands for one action, as long as the registry remembers it
\* and registrations do not overlap.  Hooks of one tool call wait on one
\* registration (api.ts:47-60); a request that reuses an id for another action
\* is refused before it is sent; so a tool call runs only on an answer to the
\* card that shows that very action, or because Cursor had already run it.  The
\* answer to a card that outlives its registration may count for another action.
CardsAgree ==
  ~clashed =>
    /\ \A v, w \in Waiters :
         RequestId[v] = RequestId[w] /\ waiter[v].gen = v /\ waiter[w].gen = w
         => v = w \/ writtenAt[v] > writtenAt[w] + Retention \/ writtenAt[w] > writtenAt[v] + Retention
    /\ \A c, d \in shown : c.id = d.id /\ c.content # d.content => c.at > d.until \/ d.at > c.until
    /\ \A w \in Waiters : waiter[w].result = "allow" =>
         \/ \E a \in answers : /\ a.answer = "allow" /\ a.card.id = RequestId[w]
                              /\ (a.card.content = Content(w) \/ Outlives(a.card))
         \/ <<waiter[w].gen, "local">> \in granted

=============================================================================
