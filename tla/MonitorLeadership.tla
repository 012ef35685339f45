-------------------------- MODULE MonitorLeadership --------------------------
(****************************************************************************)
(* monitor/support/leadership: which of the monitors of one computer        *)
(* publishes.  The installed monitor and the MCP server of every open chat  *)
(* share the file monitor.lock: it names its owner, its modification time   *)
(* is the lease, and no lock guards it.  Every file operation of acquire()  *)
(* and release() is therefore an action, and the operations of different    *)
(* processes interleave.                                                    *)
(*                                                                          *)
(* One tick is the distance between two calls of a monitor, whose loops     *)
(* call acquire() every few seconds (questions every 2 s, the catalog every *)
(* 30 s); a call, which never waits, ends in the tick it began.             *)
(****************************************************************************)
EXTENDS Naturals, FiniteSets

CONSTANTS
  Monitors,     \* monitors of one computer
  Installed,    \* those started by the service manager (primary)
  Pids,         \* process ids: an id is free again once its process is gone
  FirstPid,     \* the ids of the monitors that run from the beginning, 0 for the others
  Nobody,       \* the content of a lease file not yet written
  TTL,          \* a lease older than this many ticks is free
  MaxFaults,    \* bound: crashes, closed sockets, refused writes, other processes
  MaxOverlaps   \* bound: calls that begin while another monitor's call is under way

ASSUME LeadershipAssumption ==
  /\ Installed \subseteq Monitors
  /\ 0 \notin Pids
  /\ FirstPid \in [Monitors -> Pids \cup {0}]
  /\ \A m, n \in Monitors : FirstPid[m] = FirstPid[n] /\ FirstPid[m] # 0 => m = n
  /\ TTL \in Nat
  /\ MaxFaults \in Nat
  /\ MaxOverlaps \in Nat

VARIABLES
  exists, owner, maker, age,   \* monitor.lock: its token, who created the file, its age
  pid,                         \* process id of each monitor, 0 when it is not running
  stranger,                    \* ids held by unrelated processes
  online,                      \* its relay socket is open
  leader,                      \* `let leader`: what the last acquire() left
  pc, retried,                 \* where the current call stands; its second attempt
  due,                         \* monitors that have yet to call in this tick
  life, faults, overlaps

file == <<exists, owner, maker, age>>
call == <<pc, retried, due>>
host == <<pid, stranger, online, life, faults>>
world == <<host, overlaps>>
vars == <<file, world, leader, call>>

Running(m) == pid[m] # 0
\* pid, random id and role: a monitor started again has another token.
Token(m) == [monitor |-> m, pid |-> pid[m], life |-> life[m]]
Tokens == [monitor : Monitors, pid : Pids, life : 0..MaxFaults]

Trying == {"open", "write", "primary", "holder", "stat", "unlink"}
Places == Trying \cup {"idle", "own", "renew", "release", "remove", "close", "closing"}

TypeOK ==
  /\ exists \in BOOLEAN
  /\ owner \in Tokens \cup {Nobody}
  /\ maker \in Tokens \cup {Nobody}
  /\ age \in 0..(TTL + 1)
  /\ pid \in [Monitors -> Pids \cup {0}]
  /\ stranger \subseteq Pids
  /\ online \in [Monitors -> BOOLEAN]
  /\ leader \in [Monitors -> BOOLEAN]
  /\ pc \in [Monitors -> Places]
  /\ retried \in [Monitors -> BOOLEAN]
  /\ due \subseteq {m \in Monitors : Running(m)}
  /\ life \in [Monitors -> 0..MaxFaults]
  /\ faults \in 0..MaxFaults
  /\ overlaps \in 0..MaxOverlaps
  /\ \A m, n \in Monitors : Running(m) /\ pid[m] = pid[n] => m = n
  /\ \A m \in Monitors : pid[m] \notin stranger
  /\ ~exists => owner = Nobody /\ maker = Nobody /\ age = 0
  /\ \A m \in Monitors : ~Running(m) => pc[m] = "idle" /\ ~leader[m]
  \* a monitor that is trying to take the lease does not count itself the leader
  /\ \A m \in Monitors : pc[m] \in Trying => ~leader[m]

Init ==
  /\ exists = FALSE /\ owner = Nobody /\ maker = Nobody /\ age = 0
  /\ pid = FirstPid
  /\ stranger = {}
  /\ online = [m \in Monitors |-> Running(m)]
  /\ leader = [m \in Monitors |-> FALSE]
  /\ pc = [m \in Monitors |-> "idle"]
  /\ retried = [m \in Monitors |-> FALSE]
  /\ due = {m \in Monitors : Running(m)}
  /\ life = [m \in Monitors |-> 0]
  /\ faults = 0
  /\ overlaps = 0
-----------------------------------------------------------------------------
(* The file *)

Write(token) == owner' = token /\ age' = 0

Create(m) ==
  exists' = TRUE /\ owner' = Nobody /\ maker' = Token(m) /\ age' = 0

Remove ==
  exists' = FALSE /\ owner' = Nobody /\ maker' = Nobody /\ age' = 0

Owns(m) == exists /\ owner = Token(m)

\* Only the marker in the token proves an installed monitor.
OwnerIsPrimary == exists /\ owner # Nobody /\ owner.monitor \in Installed

\* process.kill(pid, 0) answers ESRCH: no process has that id.
HolderGone ==
  /\ exists /\ owner # Nobody
  /\ owner.pid \notin stranger
  /\ \A m \in Monitors : pid[m] # owner.pid

Stale == ~exists \/ age > TTL
-----------------------------------------------------------------------------
(* acquire() *)

Goto(m, place) == pc' = [pc EXCEPT ![m] = place]
At(m, place) == pc[m] = place

Return(m) ==
  /\ Goto(m, "idle")
  /\ retried' = [retried EXCEPT ![m] = FALSE]
  /\ due' = due \ {m}

Within(m, place) == Goto(m, place) /\ UNCHANGED <<retried, due>>

\* A call begins while another one is under way only so often: two calls last
\* microseconds and lie seconds apart, so they do not meet for ever.
Begin(m) ==
  /\ Running(m) /\ At(m, "idle")
  /\ IF \E n \in Monitors : ~At(n, "idle")
       THEN overlaps < MaxOverlaps /\ overlaps' = overlaps + 1
       ELSE UNCHANGED overlaps

\* A closed socket gives up the lease instead.
Acquire(m) ==
  /\ m \in due /\ Begin(m)
  /\ CASE online[m] /\ leader[m]   -> Within(m, "own")
       [] online[m] /\ ~leader[m]  -> Within(m, "open")
       [] ~online[m] /\ leader[m]  -> Within(m, "release")
       [] ~online[m] /\ ~leader[m] -> Return(m)
  /\ UNCHANGED <<file, host, leader>>

\* Mutant: a displaced leader tries again without forgetting that it led.
Recheck_StillLeads(m) ==
  /\ At(m, "own")
  /\ Within(m, IF Owns(m) THEN "renew" ELSE "open")
  /\ UNCHANGED <<file, world, leader>>

Recheck(m) ==
  /\ At(m, "own")
  /\ IF Owns(m)
       THEN Within(m, "renew") /\ UNCHANGED leader
       ELSE Within(m, "open") /\ leader' = [leader EXCEPT ![m] = FALSE]
  /\ UNCHANGED <<file, world>>

\* writeFileSync truncates or creates the path, then writes.
Renew(m) ==
  /\ At(m, "renew")
  /\ exists' = TRUE /\ Write(Token(m))
  /\ maker' = IF exists THEN maker ELSE Token(m)
  /\ Return(m)
  /\ UNCHANGED <<world, leader>>

\* The disk refuses the renewal, at its opening or after the truncation.
RenewRefused(m) ==
  /\ At(m, "renew") /\ faults < MaxFaults
  /\ faults' = faults + 1
  /\ \/ UNCHANGED file
     \/ exists /\ Write(Nobody) /\ UNCHANGED <<exists, maker>>
  /\ Return(m)
  /\ UNCHANGED <<pid, stranger, online, life, overlaps, leader>>

\* Mutant: the installed monitor waits like everyone else.
Open_Polite(m) ==
  /\ At(m, "open")
  /\ IF exists THEN Within(m, "holder") /\ UNCHANGED file
               ELSE Create(m) /\ Within(m, "write")
  /\ UNCHANGED <<world, leader>>

Open(m) ==
  /\ At(m, "open")
  /\ IF exists THEN Within(m, IF m \in Installed THEN "primary" ELSE "holder") /\ UNCHANGED file
               ELSE Create(m) /\ Within(m, "write")
  /\ UNCHANGED <<world, leader>>

\* The token goes into the file this call created, which may be off its path by now.
WriteToken(m) ==
  /\ At(m, "write")
  /\ IF exists /\ maker = Token(m) THEN Write(Token(m)) /\ UNCHANGED <<exists, maker>>
                                   ELSE UNCHANGED file
  /\ leader' = [leader EXCEPT ![m] = TRUE]
  /\ Return(m)
  /\ UNCHANGED world

WriteRefused(m) ==
  /\ At(m, "write") /\ faults < MaxFaults
  /\ faults' = faults + 1
  /\ Return(m)
  /\ UNCHANGED <<file, pid, stranger, online, life, overlaps, leader>>

JudgeOwner(m) ==
  /\ At(m, "primary")
  /\ Within(m, IF OwnerIsPrimary THEN "holder" ELSE "unlink")
  /\ UNCHANGED <<file, world, leader>>

JudgeHolder(m) ==
  /\ At(m, "holder")
  /\ Within(m, IF HolderGone THEN "unlink" ELSE "stat")
  /\ UNCHANGED <<file, world, leader>>

JudgeAge(m) ==
  /\ At(m, "stat")
  /\ IF Stale THEN Within(m, "unlink") ELSE Return(m)
  /\ UNCHANGED <<file, world, leader>>

\* A removal that finds no file is an error, and the second one ends the call.
Unlink(m) ==
  /\ At(m, "unlink")
  /\ Remove
  /\ IF exists /\ ~retried[m]
       THEN /\ Goto(m, "open")
            /\ retried' = [retried EXCEPT ![m] = TRUE]
            /\ UNCHANGED due
       ELSE Return(m)
  /\ UNCHANGED <<world, leader>>
-----------------------------------------------------------------------------
(* release(), and the end of a monitor *)

\* A leader whose token is gone stays leader in its own eyes until it is online again.
Release(m) ==
  /\ At(m, "release")
  /\ IF Owns(m) THEN Within(m, "remove") ELSE Return(m)
  /\ UNCHANGED <<file, world, leader>>

RemoveOwn(m) ==
  /\ At(m, "remove")
  /\ Remove
  /\ leader' = [leader EXCEPT ![m] = FALSE]
  /\ Return(m)
  /\ UNCHANGED world

Fault == faults < MaxFaults /\ faults' = faults + 1

\* A process id is free when no process has it.
Free == {p \in Pids : p \notin stranger /\ \A m \in Monitors : pid[m] # p}

\* startSessionMonitor() calls acquire() at once, while the socket may still be closed.
Start(m) ==
  /\ ~Running(m)
  /\ \E p \in Free : pid' = [pid EXCEPT ![m] = p]
  /\ online' = [online EXCEPT ![m] = TRUE]
  /\ due' = due \cup {m}
  /\ UNCHANGED <<file, stranger, life, faults, overlaps, leader, pc, retried>>

\* The process is gone, and with it every flag it kept.
End(m) ==
  /\ pid' = [pid EXCEPT ![m] = 0]
  /\ online' = [online EXCEPT ![m] = FALSE]
  /\ life' = [life EXCEPT ![m] = @ + 1]
  /\ leader' = [leader EXCEPT ![m] = FALSE]
  /\ Return(m)

Crash(m) ==
  /\ Running(m) /\ Fault
  /\ End(m)
  /\ UNCHANGED <<file, stranger, overlaps>>

\* close() releases and stops.
Close(m) ==
  /\ Begin(m) /\ Fault
  /\ IF leader[m]
       THEN Within(m, "close") /\ UNCHANGED <<pid, online, life, leader>>
       ELSE End(m)
  /\ UNCHANGED <<file, stranger>>

CloseCheck(m) ==
  /\ At(m, "close")
  /\ IF Owns(m)
       THEN Within(m, "closing") /\ UNCHANGED <<pid, online, life, leader>>
       ELSE End(m)
  /\ UNCHANGED <<file, stranger, faults, overlaps>>

CloseRemove(m) ==
  /\ At(m, "closing")
  /\ Remove
  /\ End(m)
  /\ UNCHANGED <<stranger, faults, overlaps>>

Disconnect(m) ==
  /\ Running(m) /\ online[m] /\ Fault
  /\ online' = [online EXCEPT ![m] = FALSE]
  /\ UNCHANGED <<file, pid, stranger, life, overlaps, leader, call>>

Reconnect(m) ==
  /\ Running(m) /\ ~online[m]
  /\ online' = [online EXCEPT ![m] = TRUE]
  /\ UNCHANGED <<file, pid, stranger, life, faults, overlaps, leader, call>>

\* An unrelated process gets a free id, perhaps one a lease still names.
Recycle ==
  /\ Fault
  /\ \E p \in Free : stranger' = stranger \cup {p}
  /\ UNCHANGED <<file, pid, online, life, overlaps, leader, call>>

Tick ==
  /\ due = {} /\ \A m \in Monitors : At(m, "idle")
  /\ due' = {m \in Monitors : Running(m)}
  /\ age' = IF exists /\ age <= TTL THEN age + 1 ELSE age
  /\ UNCHANGED <<exists, owner, maker, world, leader, pc, retried>>
-----------------------------------------------------------------------------
Step(m) ==
  \/ Acquire(m) \/ Recheck(m) \/ Renew(m) \/ Open(m) \/ WriteToken(m)
  \/ JudgeOwner(m) \/ JudgeHolder(m) \/ JudgeAge(m) \/ Unlink(m)
  \/ Release(m) \/ RemoveOwn(m) \/ CloseCheck(m) \/ CloseRemove(m)

Next ==
  \/ \E m \in Monitors : \/ Step(m) \/ RenewRefused(m) \/ WriteRefused(m)
                         \/ Start(m) \/ Crash(m) \/ Close(m) \/ Disconnect(m) \/ Reconnect(m)
  \/ Recycle \/ Tick

Spec == Init /\ [][Next]_vars

\* The timers fire, a call runs to its end, and time passes.
FairSpec == Spec /\ WF_vars(Tick) /\ \A m \in Monitors : WF_vars(Step(m))
-----------------------------------------------------------------------------
(* Properties *)

Publishes(m) == online[m] /\ leader[m] /\ Owns(m)
Available(m) == Running(m) /\ online[m]

\* No silent computer: once a monitor stays available, one monitor comes to
\* publish for good and no other does, whatever crashes, recycled process ids,
\* refused writes and races came before.
OnePublisher ==
  (\E m \in Monitors : <>[]Available(m))
    => \E m \in Monitors :
         <>[](Publishes(m) /\ \A n \in Monitors \ {m} : ~(online[n] /\ leader[n]))

\* The installed monitor, once it stays available, comes to publish for good,
\* whoever held the lease before.
InstalledLeads ==
  \A i \in Installed :
    <>[](Available(i) /\ \A j \in Installed \ {i} : ~Running(j)) => <>[]Publishes(i)

\* The lease comes to rest, with the right monitor: what the snapshots and the
\* receivers of every other part need of it.
LeaseSettles == OnePublisher /\ InstalledLeads
=============================================================================
