------------------------------ MODULE StoreLock ------------------------------
(****************************************************************************)
(* packages/core/store-file-lock: withStoreLock, the cross-process lock     *)
(* under which the Mesh store, the task inbox, the receipts and the task    *)
(* origins are read and written.                                            *)
(*                                                                          *)
(* The lock is a directory beside the guarded file (mkdir is atomic) with a *)
(* file "owner" naming the process that made it.  Every system call of the  *)
(* code is one action, so that the calls of different processes interleave. *)
(*                                                                          *)
(* A process takes the lock for one call at a time and process ids are not  *)
(* reused, so the owner file names a process where the code names a process *)
(* and a random token.                                                      *)
(****************************************************************************)
EXTENDS Naturals, FiniteSets

CONSTANTS
  Procs,        \* the processes that call withStoreLock on one path
  NoOwner,      \* a lock directory without a readable owner file
  CanCrash,     \* a process may die in the middle of a call
  CanStall      \* a process may pause past waitMs between mkdir and its owner file

ASSUME ProcsAssumption == NoOwner \notin Procs
ASSUME SwitchAssumption == CanCrash \in BOOLEAN /\ CanStall \in BOOLEAN

VARIABLES
  dir,      \* the lock directory exists
  owner,    \* the content of its owner file
  aged,     \* it has existed longer than waitMs
  pc,       \* where each process stands inside withStoreLock
  seen      \* the owner each contender last read

vars == <<dir, owner, aged, pc, seen>>

Location == {"idle", "mkdir", "write", "look", "judge", "rename", "wait",
             "run", "check", "unlink", "rmdir", "dead"}

TypeOK ==
  /\ dir \in BOOLEAN
  /\ owner \in Procs \cup {NoOwner}
  /\ aged \in BOOLEAN
  /\ pc \in [Procs -> Location]
  /\ seen \in [Procs -> Procs \cup {NoOwner}]
  /\ owner # NoOwner \/ aged => dir      \* they are facts about the directory

Alive(p) == pc[p] # "dead"

Init ==
  /\ dir = FALSE
  /\ owner = NoOwner
  /\ aged = FALSE
  /\ pc = [p \in Procs |-> "idle"]
  /\ seen = [p \in Procs |-> NoOwner]

GoTo(p, place) == pc' = [pc EXCEPT ![p] = place]

Call(p) ==
  /\ pc[p] = "idle"
  /\ GoTo(p, "mkdir")
  /\ UNCHANGED <<dir, owner, aged, seen>>

\* Mutant: a recursive mkdir does not fail on a directory that exists.
MakeDir_Recursive(p) ==
  /\ pc[p] = "mkdir"
  /\ GoTo(p, "write")
  /\ dir' = TRUE
  /\ UNCHANGED <<owner, aged, seen>>

\* mkdirSync(lock): the atomic step.  EEXIST sends the caller to read the owner.
MakeDir(p) ==
  /\ pc[p] = "mkdir"
  /\ IF dir
       THEN /\ GoTo(p, "look")
            /\ UNCHANGED <<dir, owner, aged>>
       ELSE /\ GoTo(p, "write")
            /\ dir' = TRUE
            /\ owner' = NoOwner
            /\ aged' = FALSE
  /\ UNCHANGED seen

\* writeFileSync(lock/owner): without the directory it fails with ENOENT, which
\* is not EEXIST, so the caller gets a StoreLockError.
WriteOwner(p) ==
  /\ pc[p] = "write"
  /\ IF dir
       THEN GoTo(p, "run") /\ owner' = p /\ aged' = FALSE
       ELSE GoTo(p, "idle") /\ UNCHANGED <<owner, aged>>
  /\ UNCHANGED <<dir, seen>>

LookAtOwner(p) ==
  /\ pc[p] = "look"
  /\ seen' = [seen EXCEPT ![p] = IF dir THEN owner ELSE NoOwner]
  /\ GoTo(p, "judge")
  /\ UNCHANGED <<dir, owner, aged>>

\* Mutant: a contender that has waited long enough takes the lock from anyone.
Judge_ByElapsedTime(p) ==
  /\ pc[p] = "judge"
  /\ \E place \in {"rename", "wait"} : GoTo(p, place)
  /\ UNCHANGED <<dir, owner, aged, seen>>

\* Mutant: an owner file is taken for a live owner.
Judge_TrustsOwnerFile(p) ==
  /\ pc[p] = "judge"
  /\ GoTo(p, IF seen[p] = NoOwner /\ dir /\ aged THEN "rename" ELSE "wait")
  /\ UNCHANGED <<dir, owner, aged, seen>>

\* processAlive and lockAge decide whether the lock is stale.
Judge(p) ==
  /\ pc[p] = "judge"
  /\ GoTo(p, IF \/ seen[p] # NoOwner /\ ~Alive(seen[p])
                \/ seen[p] = NoOwner /\ dir /\ aged
             THEN "rename" ELSE "wait")
  /\ UNCHANGED <<dir, owner, aged, seen>>

\* Mutant: the age of the directory moved aside survives it.
TakeOverStale_KeepsAge(p) ==
  /\ pc[p] = "rename"
  /\ dir' = FALSE
  /\ owner' = NoOwner
  /\ GoTo(p, "mkdir")
  /\ UNCHANGED <<aged, seen>>

\* takeOverStale: the rename moves whatever directory bears the name by now.
TakeOverStale(p) ==
  /\ pc[p] = "rename"
  /\ dir' = FALSE
  /\ owner' = NoOwner
  /\ aged' = FALSE
  /\ GoTo(p, "mkdir")
  /\ UNCHANGED seen

Retry(p) ==
  /\ pc[p] = "wait"
  /\ GoTo(p, "mkdir")
  /\ UNCHANGED <<dir, owner, aged, seen>>

\* The wait ran out: StoreLockError instead of the critical section.
GiveUp(p) ==
  /\ pc[p] = "wait"
  /\ GoTo(p, "idle")
  /\ UNCHANGED <<dir, owner, aged, seen>>

FinishRun(p) ==
  /\ pc[p] = "run"
  /\ GoTo(p, "check")
  /\ UNCHANGED <<dir, owner, aged, seen>>

\* finally: only the process named by the owner file removes the lock.
CheckOwner(p) ==
  /\ pc[p] = "check"
  /\ GoTo(p, IF dir /\ owner = p THEN "unlink" ELSE "idle")
  /\ UNCHANGED <<dir, owner, aged, seen>>

\* rmSync(recursive) empties the directory, then removes it if it is empty.
UnlinkOwner(p) ==
  /\ pc[p] = "unlink"
  /\ owner' = NoOwner
  /\ aged' = FALSE
  /\ GoTo(p, "rmdir")
  /\ UNCHANGED <<dir, seen>>

RemoveDir(p) ==
  /\ pc[p] = "rmdir"
  /\ IF owner = NoOwner THEN dir' = FALSE /\ aged' = FALSE ELSE UNCHANGED <<dir, aged>>
  /\ GoTo(p, "idle")
  /\ UNCHANGED <<owner, seen>>

Crash(p) ==
  /\ CanCrash
  /\ pc[p] \notin {"idle", "dead"}
  /\ GoTo(p, "dead")
  /\ UNCHANGED <<dir, owner, aged, seen>>

\* waitMs pass over a directory without an owner file.  Only a dead or a paused
\* maker leaves one that long.
Age ==
  /\ dir /\ owner = NoOwner /\ ~aged
  /\ CanStall \/ \A p \in Procs : pc[p] \notin {"write", "rmdir"}
  /\ aged' = TRUE
  /\ UNCHANGED <<dir, owner, pc, seen>>

Step(p) ==
  \/ Call(p) \/ MakeDir(p) \/ WriteOwner(p)
  \/ LookAtOwner(p) \/ Judge(p) \/ TakeOverStale(p) \/ Retry(p) \/ GiveUp(p)
  \/ FinishRun(p) \/ CheckOwner(p) \/ UnlinkOwner(p) \/ RemoveDir(p)

Next == Age \/ \E p \in Procs : Step(p) \/ Crash(p)

Spec == Init /\ [][Next]_vars

\* A running process keeps executing (and a store that keeps being used keeps
\* calling); time passes.
FairSpec == Spec /\ WF_vars(Age) /\ \A p \in Procs : WF_vars(Step(p))
-----------------------------------------------------------------------------
InSection(p) == pc[p] = "run"

\* Two processes are never in the critical section together.  The comment at
\* store-file-lock/index.ts:36 promises it ("so two waiters cannot both take
\* it"); once a process has died inside a call the code does not keep it.
MutualExclusion ==
  \A p, q \in Procs : InSection(p) /\ InSection(q) => p = q

NobodyDied == \A p \in Procs : Alive(p)

\* As long as every caller lives, a lock that is only slow is never taken from
\* it, and nobody enters beside it.
ExclusionAmongLiving == NobodyDied => MutualExclusion

\* While the critical section runs the lock on disk keeps naming its owner: no
\* living contender removes or renames it, however long it waited.
LiveOwnerKept ==
  [][NobodyDied => \A p \in Procs : InSection(p) /\ dir /\ owner = p => dir' /\ owner' = p]_vars

AllDead == \A p \in Procs : ~Alive(p)

\* Whatever a dead process left behind, at any point of its call, does not block
\* the store for good: some contender moves a lock that names a dead process
\* aside (store-file-lock/index.ts:51), and so it does with a directory whose
\* maker never wrote, or already removed, its owner file (77-80).
LeftoverRecovered ==
  \A o \in Procs \cup {NoOwner} :
    dir /\ owner = o /\ (o = NoOwner \/ ~Alive(o)) ~> ~dir \/ owner # o \/ AllDead
=============================================================================
