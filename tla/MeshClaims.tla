------------------------------ MODULE MeshClaims ------------------------------
(****************************************************************************)
(* The resource claims of one computer's Project Mesh (apps/bridge/src/     *)
(* mesh/store).  The monitor and one MCP server per agent each keep the     *)
(* whole store in memory and share one file.  A process looks at the file   *)
(* when a method is called, changes its memory, and later writes what it    *)
(* changed over what is on disk by then, under the lock StoreLock models;   *)
(* a lock not taken in time leaves the change in memory.                    *)
(*                                                                          *)
(* Of a claim's row only the expiry is kept: 0 stands for no row.  So is    *)
(* that of a released claim's row, the record that it was released.         *)
(****************************************************************************)
EXTENDS Naturals, FiniteSets

CONSTANTS
  Processes, Monitor,     \* the stores over one file; the monitor's is one of them
  Claims, Observed,       \* claim ids; those derived from what an agent was seen writing
  Owner, File,            \* Owner[c], File[c]: who claims what
  MaxTime, Lease          \* bounds: the clock; Lease[c], the expiries claim c may be given

ASSUME MeshClaimsAssumption ==
  /\ Monitor \in Processes /\ Observed \subseteq Claims
  /\ MaxTime \in Nat /\ Lease \in [Claims -> SUBSET (1..MaxTime + 1)]

VARIABLES
  clock,
  file,       \* the store on disk
  memory,     \* memory[p]: what process p believes, its unwritten changes included
  baseline,   \* baseline[p]: the file as p last read or wrote it
  stale,      \* the file was replaced since p last read or wrote it
  pc,         \* p waits for the lock to write, or not
  told,       \* history: told[c], until when an agent was told it holds claim c
  contested   \* history: claims whose row two processes changed at once, an older copy
              \* replaced, or an agent claimed again after their release

vars == <<clock, file, memory, baseline, stale, pc, told, contested>>

Expiry == 0..MaxTime + 1
Rows == [Claims -> Expiry]
Store == [claims : Rows, released : Rows]

TypeOK ==
  /\ clock \in 0..MaxTime
  /\ file \in Store
  /\ memory \in [Processes -> Store] /\ baseline \in [Processes -> Store]
  /\ stale \in [Processes -> BOOLEAN]
  /\ pc \in [Processes -> {"idle", "saving"}]
  /\ told \in Rows
  /\ contested \subseteq Claims

NoRows == [c \in Claims |-> 0]
EmptyStore == [claims |-> NoRows, released |-> NoRows]

Init ==
  /\ clock = 0
  /\ file = EmptyStore
  /\ memory = [p \in Processes |-> EmptyStore]
  /\ baseline = [p \in Processes |-> EmptyStore]
  /\ stale = [p \in Processes |-> FALSE]
  /\ pc = [p \in Processes |-> "idle"]
  /\ told = NoRows /\ contested = {}
-----------------------------------------------------------------------------
(* Reading and writing the file *)

\* Mutant: a removal names a row by its key only.
LayRows_ByKey(disk, before, now) ==
  [c \in Claims |-> IF now[c] # 0 /\ now[c] # before[c] THEN now[c]
                    ELSE IF now[c] = 0 /\ before[c] # 0 THEN 0
                    ELSE disk[c]]

\* applyStoreDelta(): a row changed here is ours; one removed here goes only if
\* it is still as it was read; the rest is as it is on disk.
LayRows(disk, before, now) ==
  [c \in Claims |-> IF now[c] # 0 /\ now[c] # before[c] THEN now[c]
                    ELSE IF now[c] = 0 /\ before[c] # 0 /\ disk[c] = before[c] THEN 0
                    ELSE disk[c]]

Lay(disk, before, now) ==
  [claims   |-> LayRows(disk.claims, before.claims, now.claims),
   released |-> LayRows(disk.released, before.released, now.released)]

\* sync(): what p sees when a method is called, and what it then builds on.
View(p) == IF stale[p] THEN Lay(file, baseline[p], memory[p]) ELSE memory[p]
Base(p) == IF stale[p] THEN file ELSE baseline[p]

\* A change of c's rows that p has not written, the removal of an expired one aside.
Changed(before, now) == now # before /\ ~(now = 0 /\ before <= clock)
Pending(p, c) ==
  \/ Changed(baseline[p].claims[c], memory[p].claims[c])
  \/ Changed(baseline[p].released[c], memory[p].released[c])

\* A method changed the state; save() waits for the lock.
Change(p, new) ==
  /\ memory' = [memory EXCEPT ![p] = new]
  /\ baseline' = [baseline EXCEPT ![p] = Base(p)]
  /\ stale' = [stale EXCEPT ![p] = FALSE]
  /\ pc' = [pc EXCEPT ![p] = "saving"]
  /\ UNCHANGED file

\* The rows p changes on disk while another process has an unwritten change of them.
Raced(p, new) ==
  {c \in Claims : /\ \/ new.claims[c] # file.claims[c]
                    \/ new.released[c] # file.released[c]
                  /\ \E q \in Processes \ {p} : Pending(q, c)}

\* writeStoreState(): the file is replaced, and everybody else's look is old.
Write(p, new) ==
  /\ file' = new
  /\ memory' = [memory EXCEPT ![p] = new]
  /\ baseline' = [baseline EXCEPT ![p] = new]
  /\ stale' = [q \in Processes |-> q # p]

\* save() with the lock held: syncAndWriteUnderLock().
Save(p) ==
  /\ pc[p] = "saving"
  /\ Write(p, View(p))
  /\ contested' = contested \cup Raced(p, View(p))
  /\ pc' = [pc EXCEPT ![p] = "idle"]
  /\ UNCHANGED <<clock, told>>

\* The lock was not taken in time: the change waits for the next save.
SaveLate(p) ==
  /\ pc[p] = "saving"
  /\ pc' = [pc EXCEPT ![p] = "idle"]
  /\ UNCHANGED <<clock, file, memory, baseline, stale, told, contested>>

\* Mutant: only a process whose memory is current has anything to write.
Flush_WhenCurrent ==
  /\ pc[Monitor] = "idle"
  /\ ~stale[Monitor] /\ View(Monitor) # Base(Monitor)
  /\ Change(Monitor, View(Monitor))
  /\ UNCHANGED <<clock, told, contested>>

\* flush(): the monitor tries again before every scan.
Flush ==
  /\ pc[Monitor] = "idle"
  /\ View(Monitor) # Base(Monitor)
  /\ Change(Monitor, View(Monitor))
  /\ UNCHANGED <<clock, told, contested>>

\* A process dies with what it had not written, and another starts.
Restart(p) ==
  /\ memory' = [memory EXCEPT ![p] = file]
  /\ baseline' = [baseline EXCEPT ![p] = file]
  /\ stale' = [stale EXCEPT ![p] = FALSE]
  /\ pc' = [pc EXCEPT ![p] = "idle"]
  /\ UNCHANGED <<clock, file, told, contested>>
-----------------------------------------------------------------------------
(* Claims *)

Live(store, c) == store.claims[c] > clock
IsReleased(store, c) == store.released[c] > clock

\* scopedOverlapKind() "file", between two owners of one Project.
Overlap(c, d) == Owner[c] # Owner[d] /\ File[c] = File[d]

\* mergeBy() of one row into the claims of a store.
Merged(store, c, until) == [store EXCEPT !.claims[c] = until]

\* Mutant: the record outlasts the claim.
Released_Longer(store, c) ==
  [store EXCEPT !.claims[c] = 0,
                !.released[c] = 1 + IF store.claims[c] > clock THEN store.claims[c] ELSE clock + 1]

\* remember(): a released claim's row goes, its release is written down for as
\* long as the claim would have lasted.
Released(store, c) ==
  [store EXCEPT !.claims[c] = 0,
                !.released[c] = IF store.claims[c] > clock THEN store.claims[c] ELSE clock + 1]

\* applyEvent() of a RESOURCE_CLAIM: one that is remembered as released stays so.
Applied(store, c, until) == IF IsReleased(store, c) THEN store ELSE Merged(store, c, until)

Conflict(store, c) == \E d \in Claims : Live(store, d) /\ Overlap(c, d)

\* The agent hears that its claim was published.
Answer(p, c, until, new) ==
  /\ told' = [told EXCEPT ![c] = until]
  /\ contested' = contested \cup Raced(p, new) \cup
       {d \in {c} : IsReleased(new, d) \/ \E q \in Processes \ {p} : Pending(q, d)}

\* Mutant: the agent is answered before the claim is written.
AcceptClaim_BeforeSave(p, c, until) ==
  LET view == View(p) IN
  /\ pc[p] = "idle" /\ until > clock
  /\ ~Conflict(view, c)
  /\ Change(p, Applied(view, c, until)) /\ Answer(p, c, until, Applied(view, c, until))
  /\ UNCHANGED clock

\* acceptClaimEvent(), in an agent's MCP server: read, checked, written and
\* answered under one lock.  An agent renews a claim with the claim's
\* id, and may name one that was derived for it.
AcceptClaim(p, c, until) ==
  LET view == View(p) IN
  /\ pc[p] = "idle" /\ until > clock
  /\ IF Conflict(view, c)
       THEN Write(p, view) /\ contested' = contested \cup Raced(p, view) /\ UNCHANGED told
       ELSE Write(p, Applied(view, c, until)) /\ Answer(p, c, until, Applied(view, c, until))
  /\ UNCHANGED <<clock, pc>>

\* observeClaim(): the monitor saw the owner write; the claim is extended.
ObserveClaim(c, until) ==
  LET view == View(Monitor) IN
  /\ pc[Monitor] = "idle" /\ until > clock
  /\ ~IsReleased(view, c) /\ view.claims[c] < until
  /\ Change(Monitor, Merged(view, c, until))
  /\ UNCHANGED <<clock, told, contested>>

\* RESOURCE_RELEASE of the owner in its MCP server, or the person's release in
\* the monitor, which must find the claim live: one or the other is answered
\* before the change is written.
ReleaseClaim(p, c) ==
  LET view == View(p) IN
  /\ pc[p] = "idle" /\ view.claims[c] # 0
  /\ p = Monitor => Live(view, c)
  /\ Change(p, Released(view, c))
  /\ told' = [told EXCEPT ![c] = 0]
  /\ UNCHANGED <<clock, contested>>

\* Rows that are over are dropped by whoever looks at the claims.
Unexpired(rows) == [c \in Claims |-> IF rows[c] > clock THEN rows[c] ELSE 0]

\* activeClaims(), on the way to every conflict check and snapshot.
ActiveClaims(p) ==
  LET view   == View(p)
      active == [claims |-> Unexpired(view.claims), released |-> Unexpired(view.released)] IN
  /\ pc[p] = "idle" /\ active # view
  /\ Change(p, active)
  /\ UNCHANGED <<clock, told, contested>>

\* A snapshot of another endpoint, or one that came round through a phone,
\* carries a claim known here with an expiry it had at some time.  A late
\* RESOURCE_CLAIM event (acceptEvent) does to its claim what a snapshot does.
Copy(store, c) == store.claims[c] # 0 \/ store.released[c] # 0

\* mergeSnapshot(): a copy replaces the row there is, older or not; then no
\* claim that is remembered as released is kept.
MergeSnapshot(p, c, until) ==
  LET view   == View(p)
      merged == Merged(view, c, until)
      kept   == [d \in Claims |-> IF IsReleased(view, d) THEN 0 ELSE merged.claims[d]] IN
  /\ pc[p] = "idle" /\ Copy(view, c)
  /\ Change(p, [merged EXCEPT !.claims = kept])
  /\ contested' = contested \cup (IF until < view.claims[c] THEN {c} ELSE {})
  /\ UNCHANGED <<clock, told>>

Tick ==
  /\ clock < MaxTime
  /\ clock' = clock + 1
  /\ told' = [c \in Claims |-> IF told[c] > clock + 1 THEN told[c] ELSE 0]
  /\ UNCHANGED <<file, memory, baseline, stale, pc, contested>>
-----------------------------------------------------------------------------
Next ==
  \/ \E p \in Processes : Save(p) \/ SaveLate(p) \/ Restart(p) \/ ActiveClaims(p)
  \/ \E p \in Processes, c \in Claims : ReleaseClaim(p, c)
  \/ \E p \in Processes \ {Monitor}, c \in Claims : \E until \in Lease[c] : AcceptClaim(p, c, until)
  \/ \E c \in Observed : \E until \in Lease[c] : ObserveClaim(c, until)
  \/ \E p \in Processes, c \in Claims : \E until \in Lease[c] : MergeSnapshot(p, c, until)
  \/ Flush \/ Tick

Spec == Init /\ [][Next]_vars

\* The monitor scans again and again, and a lock somebody else holds is let go
\* by a living process or taken over (StoreLock): some attempt gets it.
FairSpec == Spec /\ WF_vars(Flush) /\ SF_vars(Save(Monitor))
-----------------------------------------------------------------------------
\* Two agents who claim one file are not both told that it is theirs
\* (index.ts:114-121), unless a row of theirs was contested.
OneHolder ==
  \A c, d \in Claims \ contested : Overlap(c, d) => ~(told[c] > clock /\ told[d] > clock)

\* A claim that is not contested stays where its holder left it.  What an agent
\* was told it holds is on disk, whatever the other processes had in memory and
\* wrote since (sync.ts:1-11).  It is not there together with the record of its
\* release: what was released does not come back (index.ts:57-64,
\* state.ts:44-49).  And until it expires it leaves the file only with that
\* record: a process that saw it expire does not remove its renewal
\* (sync.ts:93-99).
RowsKept ==
  /\ [](\A c \in Claims \ contested :
          /\ told[c] > clock => file.claims[c] >= told[c]
          /\ ~(file.claims[c] > clock /\ file.released[c] > clock))
  /\ [][\A c \in Claims \ contested' :
          file.claims[c] > clock /\ file'.claims[c] = 0 => file'.released[c] > clock]_vars

\* A change the lock held back reaches the disk, unless its process dies.
PendingWritten == View(Monitor) # Base(Monitor) ~> View(Monitor) = Base(Monitor)
=============================================================================
