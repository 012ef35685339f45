---------------------------- MODULE TaskOwnership ----------------------------
(****************************************************************************)
(* Who owns a Task, on every computer of a Project (apps/bridge/src/mesh).  *)
(* Each computer keeps a store of its own: the Task, the executions of its  *)
(* chats, the events it knows and the receipts of accepted handoffs.  The   *)
(* catalog reads the live chats of its computer into the store, again and   *)
(* again; a handoff is a request, a started or prepared chat, and an        *)
(* answer; events and snapshots travel by the phone and the relay, late, in *)
(* any order, more than once or never.                                      *)
(*                                                                          *)
(* One Task; a chat is on one computer; the computers' clocks agree.  The   *)
(* store file of a computer is one value here (MeshClaims has its writers). *)
(* Titles, claims, dependencies, knowledge, expiry, the bounds of the       *)
(* collections, cloud runs and the rejoining of split chats are left out.   *)
(****************************************************************************)
EXTENDS Naturals, Sequences, FiniteSets

CONSTANTS
  Computers, Sessions, First,
  Home,                       \* Home[s]: the computer of chat s; First has the Task at the start
  Moves, From, To, Prepared,  \* the handoffs; those in Prepared start with the person's message
  Rank,                       \* Rank[s]: the order of the ids of the chats
  Instances,                  \* the handoffs and the changes of the chats that are tried, and for how long
  MaxNow, None

Instance == [moves : SUBSET Moves, until : 1 .. MaxNow,
             changes : SUBSET {"work", "close", "complete", "continue", "late", "quiet"}]

ASSUME TaskOwnershipAssumption ==
  /\ IsFiniteSet(Sessions) /\ First \in Sessions /\ Home \in [Sessions -> Computers]
  /\ From \in [Moves -> Sessions] /\ To \in [Moves -> Sessions \ {First}]
  /\ \A m, n \in Moves : To[m] = To[n] => m = n
  /\ Prepared \subseteq Moves /\ \A m \in Prepared : Home[From[m]] # Home[To[m]]
  /\ Rank \in [Sessions -> Nat] /\ \A s, t \in Sessions : Rank[s] = Rank[t] => s = t
  /\ MaxNow \in Nat \ {0} /\ None \notin Sessions \cup Moves
  /\ Instances \subseteq Instance

VARIABLES
  store,      \* store[c]: the Mesh store of computer c
  chat,       \* the chats as they are
  starting,   \* handoffs whose agent is being started
  job,        \* job[m]: what was captured of the source of a prepared handoff
  answer,     \* answer[m]: what the destination answered to it
  net,        \* events that were sent
  copy,       \* a snapshot that is on its way
  now, instance
vars == <<store, chat, starting, job, answer, net, copy, now, instance>>

States == {"planned", "working", "handoff", "needs_user", "completed"}
Time == 0 .. MaxNow
Stamp == 0 .. MaxNow + 1    \* a repair, or the consent counted from an answer, is one unit past a time
NoTask == [revision |-> 0, at |-> 0, state |-> "none", owner |-> None]
NoExecution == [start |-> 0, at |-> 0, ended |-> 0, continued |-> 0, state |-> "none"]
NoStore == [task |-> NoTask, exec |-> [s \in Sessions |-> NoExecution],
            events |-> {}, requests |-> {}, receipts |-> {}]
NoJob == [task |-> NoTask, exec |-> NoExecution, at |-> 0]
Unanswered == [accepted |-> FALSE, at |-> 0]
Alias(s) == \E m \in Prepared : To[m] = s
Event(type, of, at) == [type |-> type, of |-> of, at |-> at]

Task == [revision : Nat, at : Stamp, state : States \cup {"none"}, owner : Sessions \cup {None}]
Execution == [start : Time, at : Stamp, ended : Time, continued : Stamp,
              state : {"none", "idle", "waiting", "working"}]
Events == [type : {"request", "accepted", "rejected"}, of : Moves, at : Time]
          \cup [type : {"completed"}, of : Sessions, at : Time]
Store == [task : Task, exec : [Sessions -> Execution], events : SUBSET Events,
          requests : SUBSET (Moves \X Moves), receipts : SUBSET Moves]

Chat == [life : {"unborn", "prepared", "idle", "working", "gone"},
         start : Time, at : Time, continued : Stamp]

TypeOK ==
  /\ store \in [Computers -> Store]
  /\ chat \in [Sessions -> Chat]
  /\ starting \subseteq Moves \ Prepared
  /\ job \in [Moves -> [task : Task, exec : Execution, at : Time]]
  /\ answer \in [Moves -> [accepted : BOOLEAN, at : Time]]
  /\ net \in SUBSET Events
  /\ copy \in Store
  /\ now \in Time /\ instance \in Instance

Init ==
  /\ chat = [s \in Sessions |-> IF s = First THEN [life |-> "idle", start |-> 1, at |-> 1, continued |-> 0]
                                ELSE [life |-> "unborn", start |-> 0, at |-> 0, continued |-> 0]]
  /\ store = [c \in Computers |-> IF c # Home[First] THEN NoStore ELSE
       [NoStore EXCEPT !.task = [revision |-> 0, at |-> 1, state |-> "planned", owner |-> First],
                       !.exec[First] = [start |-> 1, at |-> 1, ended |-> 0, continued |-> 0, state |-> "idle"]]]
  /\ starting = {} /\ job = [m \in Moves |-> NoJob] /\ answer = [m \in Moves |-> Unanswered]
  /\ net = {} /\ copy = NoStore /\ now = 1 /\ instance \in Instances
-----------------------------------------------------------------------------
(* Which version survives *)

Terminal(task) == task.state = "completed"
Below(x, y) == \E i \in DOMAIN x : x[i] < y[i] /\ \A j \in 1 .. i - 1 : x[j] = y[j]

StateOrder == [none |-> 0, completed |-> 1, handoff |-> 2, needs_user |-> 3, planned |-> 4, working |-> 5]
OwnerOrder(s) == IF s = None THEN 0 ELSE Rank[s] + 1
TaskOrder(task) == <<task.revision, task.at, IF Terminal(task) THEN 1 ELSE 0,
                     StateOrder[task.state], OwnerOrder(task.owner)>>
\* Mutant: of two versions of one revision the one that arrives is kept.
PreferTask_Incoming(current, incoming) ==
  IF current.revision <= incoming.revision THEN incoming ELSE current

PreferTask(current, incoming) ==
  IF Below(TaskOrder(current), TaskOrder(incoming)) THEN incoming ELSE current

\* The order of the JSON text, of which the first member is continuedAt: a text
\* without it, or without a state, is above one with it.
TextOrder(e) == <<IF e.continued = 0 THEN MaxNow + 1 ELSE e.continued,
                  CASE e.state = "idle" -> 0 [] e.state = "waiting" -> 1 [] e.state = "working" -> 2 [] OTHER -> 3,
                  e.start, e.ended>>

\* Mutant: the newest version wins, closed or not.
PreferExecution_Newest(current, incoming, preparedOwner) ==
  IF Below(<<current.at>> \o TextOrder(current), <<incoming.at>> \o TextOrder(incoming))
  THEN incoming ELSE current

\* An execution that has ended stays ended, unless the person continued the chat
\* or it is the prepared owner.
PreferExecution(current, incoming, preparedOwner) ==
  IF (current.ended = 0) = (incoming.ended = 0)
  THEN IF Below(<<current.at>> \o TextOrder(current), <<incoming.at>> \o TextOrder(incoming))
       THEN incoming ELSE current
  ELSE LET ended == IF current.ended # 0 THEN current ELSE incoming
           live == IF current.ended # 0 THEN incoming ELSE current
       IN IF live.continued > ended.ended \/ (preparedOwner /\ live.at > ended.ended)
          THEN live ELSE [live EXCEPT !.ended = ended.ended]

MayOwn(r, s) ==
  \/ r.task.owner = s
  \/ /\ r.exec[s].ended = 0
     /\ \/ r.task.owner = None
        \/ r.exec[r.task.owner] = NoExecution \/ r.exec[r.task.owner].ended # 0
-----------------------------------------------------------------------------
(* Events *)

\* receiptMovesOwnership()
MovesOwnership(r, m) ==
  \/ r.task.owner \in {None, From[m]}
  \/ \A n \in r.receipts : From[n] = From[m] => To[n] = To[m]

\* recordExecutionCompletion() and the branches that still work.
Rested(r, s, at) ==
  IF r.exec[s] = NoExecution THEN r
  ELSE [r EXCEPT !.exec[s].state = "idle", !.exec[s].at = IF @ > at THEN @ ELSE at]
OtherWorking(r, s) ==
  \E t \in Sessions \ {s} : r.exec[t] # NoExecution /\ r.exec[t].ended = 0 /\ r.exec[t].state = "working"

Changed(task, next) ==
  IF [next EXCEPT !.revision = task.revision] = task THEN task ELSE [next EXCEPT !.revision = task.revision + 1]

\* taskAfterEvent()
After(r, e) ==
  LET task == r.task
      state == CASE e.type = "completed" -> IF OtherWorking(r, e.of) THEN "working" ELSE "completed"
                 [] Terminal(task) -> task.state
                 [] e.type = "accepted" -> IF e.of \in Prepared THEN "planned" ELSE "working"
                 [] e.type = "request" -> "handoff"
                 [] e.type = "rejected" -> "needs_user"
  IN Changed(task, [task EXCEPT !.state = state, !.owner = IF e.type = "accepted" THEN To[e.of] ELSE @,
                                !.at = IF @ > e.at THEN @ ELSE e.at])

\* applyEvent()
Applied(r, e) ==
  IF r.task = NoTask THEN r
  ELSE IF e.type = "accepted"
  THEN IF ~MovesOwnership(r, e.of) THEN r
       ELSE LET s == From[e.of]
                q == [r EXCEPT !.receipts = @ \cup {e.of},
                               !.exec[s].ended = IF r.exec[s] = NoExecution THEN 0 ELSE e.at]
            IN [q EXCEPT !.task = After(q, e)]
  ELSE LET q == IF e.type = "completed" THEN Rested(r, e.of, e.at) ELSE r
       IN [q EXCEPT !.task = After(q, e)]

\* The requests of a store, each at or before those it is paired with.
Known(requests) == {m \in Moves : <<m, m>> \in requests}

\* validStoredReceipt(): the receipt answers the latest request of its source.
Valid(r, m) ==
  /\ m \in Known(r.requests)
  /\ \A n \in Moves : From[n] = From[m] /\ <<m, n>> \in r.requests => n = m

Noted(r, e) ==
  [r EXCEPT !.events = @ \cup {e},
            !.requests = IF e.type = "request" THEN @ \cup (Known(@) \cup {e.of}) \X {e.of} ELSE @]

\* acceptEvent()
Accept(r, e) ==
  IF e \in r.events \/ (e.type = "accepted" /\ ~Valid(r, e.of)) THEN r ELSE Applied(Noted(r, e), e)

\* restoreHandoffResult(): the answer to a prepared handoff, as its source keeps it.
Restored(r, request, e, target) ==
  LET m == request.of
      newer == \E q \in r.events : q.type = "request" /\ q # request /\ From[q.of] = From[m] /\ q.at >= request.at
      owner == r.task.owner
      superseded == owner \notin {None, From[m]} /\ (e.type = "accepted" => owner # To[m])
                    /\ r.exec[owner].start > request.at
      asked == IF request \in r.events THEN r ELSE Noted(r, request)
      linked == IF e.type # "accepted" THEN asked
                ELSE [asked EXCEPT !.exec[To[m]] = IF @ = NoExecution THEN target
                                                   ELSE PreferExecution(@, target, FALSE)]
  IN IF r.task = NoTask \/ newer \/ superseded \/ e \in r.events \/ r.exec[From[m]] = NoExecution
     THEN r ELSE Applied(Noted(linked, e), e)
-----------------------------------------------------------------------------
(* Snapshots *)

\* preferScopedExecution()
PreferScoped(task, s, current, incoming) ==
  PreferExecution(current, incoming, Alias(s) /\ ~Terminal(task) /\ task.owner = s)

\* mergeSnapshotState(): the events of a snapshot become known, and are not applied.
Merged(r, q) ==
  IF q.task = NoTask THEN r
  ELSE LET task == IF r.task = NoTask THEN q.task ELSE PreferTask(r.task, q.task)
       IN [task |-> task,
           exec |-> [s \in Sessions |->
             IF r.exec[s] = NoExecution THEN q.exec[s]
             ELSE IF q.exec[s] = NoExecution THEN r.exec[s] ELSE PreferScoped(task, s, r.exec[s], q.exec[s])],
           events |-> r.events \cup q.events,
           requests |-> LET new == Known(q.requests) \ Known(r.requests)
                        IN r.requests \cup (q.requests \cap new \X new) \cup Known(r.requests) \X new,
           receipts |-> r.receipts]
-----------------------------------------------------------------------------
(* The catalog *)

\* claimTaskFor()
Claimed(r, s) ==
  IF r.task = NoTask \/ r.exec[s].ended # 0 \/ ~MayOwn(r, s) THEN r
  ELSE [r EXCEPT !.task = [revision |-> @.revision + 1, owner |-> s,
                           state |-> IF @.state = "handoff" THEN "working" ELSE @.state,
                           at |-> IF @.at > r.exec[s].start THEN @.at ELSE r.exec[s].start]]

\* linkExecution(): what is known already claims nothing; a reading made now is new.
Linked(r, s, e) ==
  LET q == [r EXCEPT !.exec[s] = IF @ = NoExecution THEN e ELSE PreferExecution(@, e, FALSE)]
  IN IF e.at < now /\ q = r THEN r ELSE Claimed(q, s)

\* upsertTask() and taskAfterLocalReading()
Upserted(r, s, reading) ==
  LET branch == r.exec[s]
      owns == MayOwn(r, s)
      parallel == branch # NoExecution /\ branch.ended = 0 /\ branch.continued # 0
                  /\ reading.at >= branch.continued /\ reading.state = "working"
      next == [r.task EXCEPT !.at = reading.at, !.owner = IF owns THEN s ELSE @,
                             !.state = IF (owns \/ parallel) /\ ~Terminal(r.task) THEN reading.state ELSE @]
  IN IF r.task.at > reading.at THEN r ELSE [r EXCEPT !.task = Changed(@, next)]

\* linkSession(): a chat with no execution here is of another Task.
Cataloged(r, s) ==
  IF r.exec[s] = NoExecution THEN r
  ELSE LET working == chat[s].life = "working"
       IN Linked(Upserted(r, s, [at |-> chat[s].at, state |-> IF working THEN "working" ELSE "planned"]), s,
                 [start |-> chat[s].start, at |-> now, ended |-> 0, continued |-> chat[s].continued,
                  state |-> IF working THEN "working" ELSE "idle"])

\* closeVanished()
Swept(r, c) ==
  [r EXCEPT !.exec = [s \in Sessions |->
    IF Home[s] = c /\ chat[s].life = "gone" /\ r.exec[s] # NoExecution /\ r.exec[s].ended = 0
    THEN [r.exec[s] EXCEPT !.ended = now, !.at = now] ELSE r.exec[s]]]

\* repairable()
Repairable(r, m) ==
  LET s == From[m]  t == To[m]
      requests == {e \in r.events : e.type = "request"}
  IN /\ chat[t].life = "prepared"
     /\ r.task # NoTask /\ ~Terminal(r.task) /\ r.task.owner \in {s, t}
     /\ r.exec[t] # NoExecution /\ r.exec[t].start = answer[m].at
     /\ r.exec[t].ended # 0 \/ r.task.owner # t
     /\ \E e \in requests : e.of = m /\ \A q \in requests \ {e} : q.at < e.at
     /\ \E e \in r.events : e.type = "accepted" /\ e.of = m
     /\ Valid(r, m)
     /\ r.exec[s].ended # 0 /\ r.exec[s].continued < answer[m].at

Latest(x, y) == IF x > y THEN x ELSE y

\* reconcilePreparedTransfers()
Repaired(r, c) ==
  LET one(q, m) ==
        LET at == Latest(now, Latest(q.exec[To[m]].ended + 1, q.task.at))
             IN [q EXCEPT !.exec[To[m]].ended = 0, !.exec[To[m]].at = at,
                          !.task = [revision |-> @.revision + 1, at |-> at, state |-> "planned", owner |-> To[m]]]
      here == {m \in Prepared : Home[To[m]] = c /\ Repairable(r, m)}
  IN IF here = {} THEN r ELSE one(r, CHOOSE m \in here : TRUE)

\* linkSessionsToProjects(): the chats come in any order; the sweep is left out where the
\* scan saw no chat of the agent.
Visible(c) == {s \in Sessions : Home[s] = c /\ chat[s].life \in {"prepared", "idle", "working"}}
Readings(r, c) ==
  LET read[S \in SUBSET Visible(c)] ==
        IF S = {} THEN {Repaired(r, c), Swept(Repaired(r, c), c)}
        ELSE UNION {{Cataloged(q, s) : q \in read[S \ {s}]} : s \in S}
  IN read[Visible(c)]
-----------------------------------------------------------------------------
(* The steps of the chats *)

Passes == now < instance.until /\ now' = now + 1
Tries(change) == change \in instance.changes
Alive(s) == chat[s].life \in {"idle", "working"}

\* The agent begins or ends a turn; a prepared chat begins with its first message.
Work(s) ==
  /\ Tries("work") /\ chat[s].life \in {"prepared", "idle", "working"} /\ Passes
  /\ chat' = [chat EXCEPT ![s].life = IF @ = "working" THEN "idle" ELSE "working", ![s].at = now']
  /\ UNCHANGED <<store, starting, job, answer, net, copy>>

Close(s) ==
  /\ Tries("close") /\ Alive(s) /\ ~Alias(s) /\ Passes
  /\ chat' = [chat EXCEPT ![s].life = "gone"]
  /\ UNCHANGED <<store, starting, job, answer, net, copy>>

\* The person continues the source of a prepared handoff.
Continue(m) ==
  /\ Tries("continue") /\ m \in Prepared /\ job[m] # NoJob /\ chat[From[m]].continued = 0 /\ Passes
  /\ chat' = [chat EXCEPT ![From[m]].continued = now']
  /\ UNCHANGED <<store, starting, job, answer, net, copy>>

\* The agent says that it completed the Task.
Complete(s) ==
  LET c == Home[s] e == Event("completed", s, now') IN
  /\ Tries("complete") /\ Alive(s) /\ store[c].exec[s] # NoExecution /\ Passes
  /\ \A at \in Time : Event("completed", s, at) \notin net
  /\ store' = [store EXCEPT ![c] = Accept(@, e)] /\ net' = net \cup {e}
  /\ UNCHANGED <<chat, starting, job, answer, copy>>
-----------------------------------------------------------------------------
(* Handoffs *)

Requested(m) == \E at \in Time : Event("request", m, at) \in net

\* prepareHandoff(): the catalog is read first.
Handoff(m) ==
  LET s == From[m] c == Home[s] e == Event("request", m, now') IN
  /\ ~Requested(m) /\ Alive(s) /\ store[c].exec[s] # NoExecution /\ Passes
  /\ \E r \in Readings(store[c], c) :
       /\ m \in Prepared => chat[s].life = "idle" /\ r.exec[s].ended = 0
       /\ store' = [store EXCEPT ![c] = Accept(r, e)]
       /\ job' = IF m \in Prepared THEN [job EXCEPT ![m] = [task |-> r.task, exec |-> r.exec[s], at |-> now']] ELSE job
  /\ net' = net \cup {e}
  /\ starting' = IF Home[To[m]] = c /\ m \notin Prepared THEN starting \cup {m} ELSE starting
  /\ UNCHANGED <<chat, answer, copy>>

\* Mutant: the request of a prepared handoff also starts an agent.
Deliver_Any(c, e) ==
  /\ e \in net /\ e \notin store[c].events
  /\ store' = [store EXCEPT ![c] = Accept(@, e)]
  /\ starting' = IF e.type = "request" /\ Home[To[e.of]] = c THEN starting \cup {e.of} ELSE starting
  /\ UNCHANGED <<chat, job, answer, net, copy, now>>

\* handle(): an event arrives.  The request of a handoff to this computer is taken
\* up; the controller hands a prepared one to its computer with the job, not here.
Deliver(c, e) ==
  /\ e \in net /\ e \notin store[c].events
  /\ ~(e.type = "request" /\ e.of \in Prepared /\ Home[To[e.of]] = c)
  /\ store' = [store EXCEPT ![c] = Accept(@, e)]
  /\ starting' = IF e.type = "request" /\ Home[To[e.of]] = c THEN starting \cup {e.of} ELSE starting
  /\ UNCHANGED <<chat, job, answer, net, copy, now>>

\* acceptHandoff(): the execution is linked, the receipt recorded, the answer kept.
Taken(r, m, at) ==
  LET linked == Linked(r, To[m], [NoExecution EXCEPT !.start = at, !.at = at])
  IN Accept([linked EXCEPT !.receipts = @ \cup {m}], Event("accepted", m, at))

\* The agent is started, or the handoff rejected.
Started(m) ==
  LET c == Home[To[m]] IN
  /\ m \in starting /\ Passes
  /\ starting' = starting \ {m}
  /\ \/ /\ chat' = [chat EXCEPT ![To[m]] = [life |-> "working", start |-> now', at |-> now', continued |-> 0]]
        /\ store' = [store EXCEPT ![c] = Taken(@, m, now')]
        /\ net' = net \cup {Event("accepted", m, now')}
     \/ /\ store' = [store EXCEPT ![c] = Accept(@, Event("rejected", m, now'))]
        /\ net' = net \cup {Event("rejected", m, now')}
        /\ UNCHANGED chat
  /\ UNCHANGED <<job, answer, copy>>

\* prepareNetworkTransfer(): refused when the Task has another owner here, or for what
\* is found before or after the request is recorded (a checkout, a worktree).
Prepare(m) ==
  LET c == Home[To[m]]
      r == store[c]
      foreign == r.task # NoTask /\ r.task.owner \notin {None, From[m]} /\ job[m].exec.continued = 0
      known == IF r.task = NoTask THEN [r EXCEPT !.task = job[m].task] ELSE r
      asked == Accept(Linked(known, From[m], job[m].exec), Event("request", m, job[m].at))
  IN
  /\ job[m] # NoJob /\ answer[m] = Unanswered /\ Passes
  /\ \/ /\ ~foreign
        /\ chat' = [chat EXCEPT ![To[m]] = [life |-> "prepared", start |-> now', at |-> now', continued |-> 0]]
        /\ store' = [store EXCEPT ![c] = Taken(asked, m, now')]
        /\ answer' = [answer EXCEPT ![m] = [accepted |-> TRUE, at |-> now']]
     \/ /\ answer' = [answer EXCEPT ![m].at = now']
        /\ \/ UNCHANGED store
           \/ ~foreign /\ store' = [store EXCEPT ![c] = Accept(asked, Event("rejected", m, now'))]
        /\ UNCHANGED chat
  /\ UNCHANGED <<starting, job, net, copy>>

\* onResult(): the answer reaches the source; consent counts from the answer on.
Recover(m) ==
  LET c == Home[From[m]]
      a == answer[m]
      e == Event(IF a.accepted THEN "accepted" ELSE "rejected", m, a.at)
  IN
  /\ a # Unanswered
  /\ \E target \in IF a.accepted THEN {store[Home[To[m]]].exec[To[m]]} ELSE {NoExecution} :
       store' = [store EXCEPT ![c] = Restored(@, Event("request", m, job[m].at), e, target)]
  /\ chat' = IF a.accepted /\ chat[From[m]].continued # 0
             THEN [chat EXCEPT ![From[m]].continued = Latest(@, a.at + 1)] ELSE chat
  /\ <<store', chat'>> # <<store, chat>>
  /\ UNCHANGED <<starting, job, answer, net, copy, now>>
-----------------------------------------------------------------------------
(* Readings and snapshots *)

\* A reading that raises nothing but the revision, and what a closed chat is doing,
\* is merged into the next one.
Same(r, q) ==
  LET Bare(x) == [x EXCEPT !.task.revision = 0,
                           !.exec = [s \in Sessions |-> IF @[s].ended = 0 THEN @[s] ELSE [@[s] EXCEPT !.at = 0, !.state = "none"]]]
  IN Bare(r) = Bare(q)

Read(c) ==
  /\ UNCHANGED <<chat, starting, job, answer, net, copy, now>>
  /\ ~Tries("quiet")
  /\ \E r \in Readings(store[c], c) : ~Same(r, store[c]) /\ store' = [store EXCEPT ![c] = r]

\* mergeSnapshot(): of a snapshot just taken, or of one that is late.
Exchange(c, d) ==
  /\ UNCHANGED <<chat, starting, job, answer, net, copy, now>>
  /\ c # d /\ store' = [store EXCEPT ![d] = Merged(@, store[c])]

Publish(c) ==
  /\ Tries("late") /\ copy = NoStore /\ copy' = store[c] /\ copy' # NoStore
  /\ UNCHANGED <<store, chat, starting, job, answer, net, now>>

Late(d) ==
  /\ store' = [store EXCEPT ![d] = Merged(@, copy)] /\ store' # store
  /\ UNCHANGED <<chat, starting, job, answer, net, copy, now>>

\* The end of a stretch in which no catalog was read but by the handoffs.
Resume ==
  /\ Tries("quiet") /\ instance' = [instance EXCEPT !.changes = @ \ {"quiet"}, !.until = now]
  /\ UNCHANGED <<store, chat, starting, job, answer, net, copy, now>>

ChatStep(s) == Work(s) \/ Close(s) \/ Complete(s)
MoveStep(m) == Handoff(m) \/ Started(m) \/ Prepare(m) \/ Recover(m) \/ Continue(m)

Next ==
  \/ Resume
  \/ /\ \/ \E s \in Sessions : ChatStep(s)
        \/ \E m \in instance.moves : MoveStep(m)
        \/ \E c \in Computers : Read(c) \/ Publish(c) \/ Late(c) \/ \E e \in net : Deliver(c, e)
        \/ \E c, d \in Computers : Exchange(c, d)
     /\ UNCHANGED instance

Spec == Init /\ [][Next]_vars

\* Every computer reads its chats and publishes what it has, again and again.
FairSpec ==
  /\ Spec /\ WF_vars(Resume)
  /\ \A c \in Computers : WF_vars(Read(c) /\ UNCHANGED instance)
  /\ \A c, d \in Computers : WF_vars(Exchange(c, d) /\ UNCHANGED instance)
-----------------------------------------------------------------------------
(* Properties *)

Agreed == \A c, d \in Computers : store[c].task = store[d].task

\* No closed chat is shown as the owner while another chat of the Task is open.
Current ==
  \A c \in Computers : LET r == store[c] IN
    r.task.owner # None /\ r.exec[r.task.owner].ended # 0 =>
      \A s \in Sessions : Alive(s) => r.exec[s] = NoExecution \/ r.exec[s].ended # 0

\* When nothing more is asked of the chats, every computer comes to the same Task, and
\* its owner is an open chat if there is one.
Settles == <>[](Agreed /\ Current)

\* A chat that handed the Task on takes it back only with the word of a computer that
\* still believes it, or of a late snapshot; when an acceptance by it arrives only now;
\* when the person continued it; where it is a prepared chat that was opened again as
\* the owner; or where it had offered the Task to another chat as well.
NotTakenBack(c) ==
  \A m \in Moves : LET s == From[m] IN
    m \in store[c].receipts /\ store[c].task.owner \notin {None, s} /\ store'[c].task.owner = s =>
      \/ \E d \in Computers \ {c} : store[d].task.owner = s
      \/ copy.task.owner = s
      \/ \E e \in store'[c].events \ store[c].events : e.type = "accepted" /\ To[e.of] = s
      \/ chat[s].continued # 0
      \/ Alias(s) /\ store[c].exec[s].ended = 0
      \/ Home[To[m]] = c /\ \E n \in Moves \ {m} : From[n] = s /\ Requested(n)

\* A closed execution opens again only where the person continued its chat after, or
\* where it is the prepared chat that owns the Task.
StaysClosed(c) ==
  \A s \in Sessions : store[c].exec[s].ended # 0 /\ store'[c].exec[s].ended = 0 =>
    \/ chat[s].continued > store[c].exec[s].ended
    \/ Alias(s) /\ store'[c].task.owner = s

\* What was handed on stays handed on, and what has ended stays ended, on every
\* computer, whatever events and snapshots reach it and in whichever order.
MovedStaysMoved == [][\A c \in Computers : NotTakenBack(c) /\ StaysClosed(c)]_vars
=============================================================================
