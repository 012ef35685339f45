--------------------------- MODULE StoreLock_proofs ---------------------------
(****************************************************************************)
(* Mutual exclusion of withStoreLock, for any set of processes, as long as  *)
(* no process has died or stalls in the middle of a call.  (After a crash   *)
(* it fails: see the run storelock_race.)                                   *)
(****************************************************************************)
EXTENDS StoreLock, TLAPS

\* From mkdir to rmdir a process is inside the lock.
Inside(p) == pc[p] \in {"write", "run", "check", "unlink", "rmdir"}

\* The strengthening of MutualExclusion that every step without a death preserves:
\* the directory exists exactly while one process is inside it, the owner file
\* names that process once written, and so no contender ever sees a stale lock.
ExclusionInv ==
  /\ TypeOK
  /\ ~aged
  /\ \A p \in Procs : pc[p] \notin {"dead", "rename"}
  /\ \A p, q \in Procs : Inside(p) /\ Inside(q) => p = q
  /\ \A p \in Procs : Inside(p) => dir
  /\ dir => \E p \in Procs : Inside(p)
  /\ \A p \in Procs : pc[p] \in {"run", "check", "unlink"} => owner = p
  /\ \A p \in Procs : pc[p] \in {"write", "rmdir"} => owner = NoOwner

\* Types hold whoever dies; the rest as long as nobody has.
LockInv == TypeOK /\ (NobodyDied => ExclusionInv)

\* The first state satisfies the strengthened invariant: nobody is inside.
LEMMA InitExclusion == Init => LockInv
  BY ProcsAssumption DEF Init, LockInv, ExclusionInv, TypeOK, Location, Inside

\* Every step, a crash included, preserves the types.
LEMMA StepTypes == TypeOK /\ [Next]_vars => TypeOK'
<1> SUFFICES ASSUME TypeOK, [Next]_vars PROVE TypeOK'
  OBVIOUS
<1> USE ProcsAssumption DEF TypeOK, Location, GoTo
<1>1. ASSUME NEW p \in Procs, Step(p) PROVE TypeOK'
  <2>1. CASE Call(p)
    BY <2>1 DEF Call
  <2>2. CASE MakeDir(p)
    BY <2>2 DEF MakeDir
  <2>3. CASE WriteOwner(p)
    BY <2>3 DEF WriteOwner
  <2>4. CASE LookAtOwner(p)
    BY <2>4 DEF LookAtOwner
  <2>5. CASE Judge(p)
    BY <2>5 DEF Judge
  <2>6. CASE TakeOverStale(p)
    BY <2>6 DEF TakeOverStale
  <2>7. CASE Retry(p)
    BY <2>7 DEF Retry
  <2>8. CASE GiveUp(p)
    BY <2>8 DEF GiveUp
  <2>9. CASE FinishRun(p)
    BY <2>9 DEF FinishRun
  <2>10. CASE CheckOwner(p)
    BY <2>10 DEF CheckOwner
  <2>11. CASE UnlinkOwner(p)
    BY <2>11 DEF UnlinkOwner
  <2>12. CASE RemoveDir(p)
    BY <2>12 DEF RemoveDir
  <2>13. QED
    BY <1>1, <2>1, <2>2, <2>3, <2>4, <2>5, <2>6, <2>7, <2>8, <2>9, <2>10, <2>11, <2>12 DEF Step
<1>2. ASSUME NEW p \in Procs, Crash(p) PROVE TypeOK'
  BY <1>2 DEF Crash
<1>3. CASE Age
  BY <1>3 DEF Age
<1>4. CASE UNCHANGED vars
  BY <1>4 DEF vars
<1>5. QED
  BY <1>1, <1>2, <1>3, <1>4 DEF Next

\* The dead stay dead: if nobody has died after a step, nobody had before it.
LEMMA DeathIsFinal == TypeOK /\ [Next]_vars /\ NobodyDied' => NobodyDied
<1> SUFFICES ASSUME TypeOK, [Next]_vars, NEW q \in Procs, pc[q] = "dead"
             PROVE  pc'[q] = "dead"
  BY DEF NobodyDied, Alive
<1> USE DEF TypeOK, GoTo
<1>1. ASSUME NEW p \in Procs, Step(p) PROVE pc'[q] = "dead"
  BY <1>1 DEF Step, Call, MakeDir, WriteOwner, LookAtOwner, Judge,
     TakeOverStale, Retry, GiveUp, FinishRun, CheckOwner, UnlinkOwner, RemoveDir
<1>2. ASSUME NEW p \in Procs, Crash(p) PROVE pc'[q] = "dead"
  BY <1>2 DEF Crash
<1>3. QED
  BY <1>1, <1>2 DEF Next, Age, vars

\* Every system call of every process preserves it.
LEMMA StepExclusion ==
  ASSUME CanStall = FALSE, ExclusionInv, [Next]_vars, NobodyDied'
  PROVE  ExclusionInv'
<1> USE ProcsAssumption DEF ExclusionInv, TypeOK, Location, Inside, GoTo
<1>1. ASSUME NEW p \in Procs, Call(p) PROVE ExclusionInv'
  BY <1>1 DEF Call
<1>2. ASSUME NEW p \in Procs, MakeDir(p) PROVE ExclusionInv'
  <2>1. CASE dir
    <3>1. PICK q \in Procs : Inside(q)
      BY <2>1
    <3>2. q # p /\ pc'[q] = pc[q]
      BY <1>2, <2>1, <3>1 DEF MakeDir
    <3>3. QED
      BY <1>2, <2>1, <3>1, <3>2 DEF MakeDir
  <2>2. CASE ~dir
    <3>1. \A q \in Procs : ~Inside(q)
      BY <2>2
    <3>2. /\ pc' = [pc EXCEPT ![p] = "write"]
          /\ dir' = TRUE /\ owner' = NoOwner /\ aged' = FALSE /\ seen' = seen
      BY <1>2, <2>2 DEF MakeDir
    <3>3. TypeOK' /\ Inside(p)' /\ \A q \in Procs : q # p => ~Inside(q)'
      BY <3>1, <3>2
    <3>4. QED
      BY <3>1, <3>2, <3>3
  <2>3. QED
    BY <2>1, <2>2
<1>3. ASSUME NEW p \in Procs, WriteOwner(p) PROVE ExclusionInv'
  <2>1. Inside(p) /\ dir
    BY <1>3 DEF WriteOwner
  <2>2. /\ pc' = [pc EXCEPT ![p] = "run"]
        /\ dir' = dir /\ owner' = p /\ aged' = FALSE /\ seen' = seen
    BY <1>3, <2>1 DEF WriteOwner
  <2>3. \A q \in Procs : q # p => ~Inside(q)
    BY <2>1
  <2>4. pc'[p] = "run" /\ \A q \in Procs : q # p => pc'[q] = pc[q]
    BY <2>2
  <2>5. TypeOK'
    BY <2>1, <2>2
  <2>6. Inside(p)' /\ \A q \in Procs : q # p => ~Inside(q)'
    BY <2>3, <2>4
  <2>7. QED
    BY <2>1, <2>2, <2>4, <2>5, <2>6
<1>4. ASSUME NEW p \in Procs, LookAtOwner(p) PROVE ExclusionInv'
  BY <1>4 DEF LookAtOwner
<1>5. ASSUME NEW p \in Procs, Judge(p) PROVE ExclusionInv'
  BY <1>5 DEF Judge, Alive
<1>6. ASSUME NEW p \in Procs, TakeOverStale(p) PROVE ExclusionInv'
  BY <1>6 DEF TakeOverStale
<1>7. ASSUME NEW p \in Procs, Retry(p) \/ GiveUp(p) PROVE ExclusionInv'
  BY <1>7 DEF Retry, GiveUp
<1>8. ASSUME NEW p \in Procs, FinishRun(p) PROVE ExclusionInv'
  BY <1>8 DEF FinishRun
<1>9. ASSUME NEW p \in Procs, CheckOwner(p) PROVE ExclusionInv'
  BY <1>9 DEF CheckOwner
<1>10. ASSUME NEW p \in Procs, UnlinkOwner(p) PROVE ExclusionInv'
  BY <1>10 DEF UnlinkOwner
<1>11. ASSUME NEW p \in Procs, RemoveDir(p) PROVE ExclusionInv'
  BY <1>11 DEF RemoveDir
<1>12. CASE Age
  <2>1. PICK p \in Procs : Inside(p)
    BY <1>12 DEF Age
  <2>2. pc[p] \in {"write", "rmdir"}
    BY <1>12, <2>1 DEF Age
  <2>3. QED
    BY <1>12, <2>2 DEF Age
<1>13. CASE UNCHANGED vars
  BY <1>13 DEF vars
<1>14. ASSUME NEW p \in Procs, Crash(p) PROVE FALSE
  BY <1>14 DEF Crash, NobodyDied, Alive
<1>15. QED
  BY <1>1, <1>2, <1>3, <1>4, <1>5, <1>6, <1>7, <1>8, <1>9, <1>10, <1>11, <1>12, <1>13, <1>14
  DEF Next, Step

\* Both parts together are inductive.
LEMMA StepLock ==
  ASSUME CanStall = FALSE, LockInv, [Next]_vars
  PROVE  LockInv'
BY StepTypes, DeathIsFinal, StepExclusion DEF LockInv

\* The lock directory, its owner and every caller keep their types.
THEOREM TypeCorrect == Spec => []TypeOK
<1>1. Init => TypeOK
  BY InitExclusion DEF LockInv
<1>2. QED
  BY <1>1, StepTypes, PTL DEF Spec

\* Two processes are never inside the critical section together, whatever the
\* number of contenders, until one of them dies in the middle of its call.
THEOREM Exclusion ==
  ASSUME CanStall = FALSE
  PROVE  Spec => []ExclusionAmongLiving
<1>1. LockInv => ExclusionAmongLiving
  BY DEF LockInv, ExclusionInv, ExclusionAmongLiving, MutualExclusion, InSection, Inside
<1>2. QED
  BY InitExclusion, StepLock, <1>1, PTL DEF Spec

\* While it is inside the critical section, a process keeps its name in the
\* lock: no living contender removes it, however long it has waited.
THEOREM OwnerKept ==
  ASSUME CanStall = FALSE
  PROVE  Spec => LiveOwnerKept
<1>1. ASSUME LockInv, [Next]_vars
      PROVE  [NobodyDied => \A p \in Procs : InSection(p) /\ dir /\ owner = p => dir' /\ owner' = p]_vars
  <2>1. SUFFICES ASSUME NobodyDied, NEW p \in Procs, pc[p] = "run", dir, owner = p, Next
                 PROVE  dir' /\ owner' = p
    BY <1>1 DEF InSection
  <2>2. ASSUME NEW q \in Procs, Step(q) PROVE dir' /\ owner' = p
    <3>1. Inside(q) => q = p
      BY <1>1, <2>1 DEF LockInv, ExclusionInv, Inside
    <3>2. pc[q] # "rename"
      BY <1>1, <2>1 DEF LockInv, ExclusionInv
    <3>3. QED
      BY <2>1, <2>2, <3>1, <3>2 DEF Step, Inside, Call, MakeDir, WriteOwner, LookAtOwner, Judge,
         TakeOverStale, Retry, GiveUp, FinishRun, CheckOwner, UnlinkOwner, RemoveDir
  <2>3. QED
    BY <2>1, <2>2 DEF Next, Age, Crash
<1>2. QED
  BY InitExclusion, StepLock, <1>1, PTL DEF Spec, LiveOwnerKept
=============================================================================
