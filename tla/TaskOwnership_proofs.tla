------------------------- MODULE TaskOwnership_proofs -------------------------
(****************************************************************************)
(* What holds of the ownership of a Task for any number of computers, chats *)
(* and handoffs: what was handed on stays handed on, and what has ended     *)
(* stays ended, whatever events and snapshots arrive, in whichever order.   *)
(*                                                                          *)
(* First the pass of the catalog, an induction over the chats that it has   *)
(* read, by the well-foundedness of the naturals; then the operators on one *)
(* store, bottom up, each with what it keeps; then the invariant, what each *)
(* kind of step makes of a store (Grew), and one lemma per action.          *)
(****************************************************************************)
EXTENDS TaskOwnership, FiniteSetTheorems, NaturalsInduction, WellFoundedInduction, TLAPS

\* A set of natural numbers has a least element.
LEMMA Least ==
  ASSUME NEW T \in SUBSET Nat, T # {}
  PROVE  \E n \in T : \A k \in T : n <= k
<1>1. PICK n \in T : \A k \in T : ~(<<k, n>> \in OpToRel(<, Nat))
  BY NatLessThanWellFounded, WFMin
<1>2. \A k \in T : k < n => <<k, n>> \in OpToRel(<, Nat)
  BY DEF OpToRel
<1>3. \A k \in T : ~(k < n)
  BY <1>1, <1>2
<1>4. \A k \in T : n <= k
  BY <1>3
<1> QED  BY <1>4

\* What is read of the chats in S, if f is what is read of fewer.
Reads(f, S, r, c) ==
  IF S = {} THEN {Repaired(r, c), Swept(Repaired(r, c), c)}
  ELSE UNION {{Cataloged(q, s) : q \in f[S \ {s}]} : s \in S}

\* The sets of at most n of the chats.
Small(V, n) == {S \in SUBSET V : Cardinality(S) <= n}

\* A reading of them all.
IsPass(f, V, n, r, c) == f = [S \in Small(V, n) |-> Reads(f, S, r, c)]

\* There is such a function for every number of chats: it is built up one chat at a
\* time.
LEMMA PassExists ==
  ASSUME NEW V, IsFiniteSet(V), NEW r, NEW c
  PROVE  \A n \in Nat : \E f : IsPass(f, V, n, r, c)
<1> DEFINE Bad == {n \in Nat : ~\E f : IsPass(f, V, n, r, c)}
<1>1. SUFFICES ASSUME Bad # {} PROVE FALSE
  OBVIOUS
<1>2. PICK n \in Bad : \A k \in Bad : n <= k
  BY <1>1, Least
<1>3. n \in Nat /\ ~\E f : IsPass(f, V, n, r, c)
  OBVIOUS
<1>4. \A S \in SUBSET V : IsFiniteSet(S) /\ Cardinality(S) \in Nat
  BY FS_Subset, FS_CardinalityType
<1>5. \A S \in SUBSET V : \A s \in S : Cardinality(S \ {s}) = Cardinality(S) - 1
  BY <1>4, FS_RemoveElement
<1>6. CASE n = 0
  <2> DEFINE f == [S \in Small(V, 0) |-> Reads(<<>>, S, r, c)]
  <2>1. \A S \in Small(V, 0) : S = {}
    BY <1>4, FS_EmptySet DEF Small
  <2>2. \A S \in Small(V, 0) : Reads(<<>>, S, r, c) = Reads(f, S, r, c)
    BY <2>1 DEF Reads
  <2>3. IsPass(f, V, n, r, c)
    BY <1>6, <2>2 DEF IsPass
  <2> QED  BY <1>3, <2>3
<1>7. CASE n # 0
  <2>1. n - 1 \in Nat /\ n - 1 \notin Bad
    BY <1>2, <1>3, <1>7
  <2>2. PICK f : IsPass(f, V, n - 1, r, c)
    BY <2>1
  <2> DEFINE g == [S \in Small(V, n) |-> Reads(f, S, r, c)]
  <2>3. \A S \in Small(V, n - 1) : S \in Small(V, n) /\ g[S] = f[S]
    <3>1. \A S \in Small(V, n - 1) : S \in Small(V, n)
      BY <1>3, <1>4, <2>1 DEF Small
    <3>2. \A S \in Small(V, n - 1) : f[S] = Reads(f, S, r, c)
      BY <2>2 DEF IsPass
    <3> QED  BY <3>1, <3>2
  <2>4. \A S \in Small(V, n) : \A s \in S : S \ {s} \in Small(V, n - 1)
    <3> SUFFICES ASSUME NEW S \in Small(V, n), NEW s \in S PROVE S \ {s} \in Small(V, n - 1)
      OBVIOUS
    <3>1. S \in SUBSET V /\ S \ {s} \in SUBSET V /\ Cardinality(S) <= n
      BY DEF Small
    <3>2. Cardinality(S) \in Nat /\ Cardinality(S \ {s}) = Cardinality(S) - 1
      BY <1>4, <1>5, <3>1
    <3>3. Cardinality(S \ {s}) <= n - 1
      BY <1>3, <3>1, <3>2
    <3> QED  BY <3>1, <3>3 DEF Small
  <2>5. \A S \in Small(V, n) : Reads(f, S, r, c) = Reads(g, S, r, c)
    <3> TAKE S \in Small(V, n)
    <3>1. \A s \in S : f[S \ {s}] = g[S \ {s}]
      BY <2>3, <2>4
    <3> HIDE DEF g
    <3>2. \A h, q : q \in UNION {{Cataloged(x, s) : x \in h[S \ {s}]} : s \in S}
                     <=> \E s \in S : \E x \in h[S \ {s}] : q = Cataloged(x, s)
      OBVIOUS
    <3>3. UNION {{Cataloged(x, s) : x \in f[S \ {s}]} : s \in S}
          = UNION {{Cataloged(x, s) : x \in g[S \ {s}]} : s \in S}
      BY <3>1, <3>2
    <3> QED  BY <3>3 DEF Reads
  <2>6. IsPass(g, V, n, r, c)
    BY <2>5 DEF IsPass
  <2> QED  BY <1>3, <2>6
<1> QED  BY <1>6, <1>7

\* What holds of a store before the chats are read, and is kept by the reading of each
\* chat, holds after the catalog's pass, in whichever order it takes them.  G[S] is
\* what is claimed of a store when the chats in S have been read.
LEMMA ReadingsIn ==
  ASSUME NEW r, NEW c, IsFiniteSet(Visible(c)), NEW G,
         Repaired(r, c) \in G[{}], Swept(Repaired(r, c), c) \in G[{}],
         \A S \in SUBSET Visible(c) : \A s \in S : \A q \in G[S \ {s}] : Cataloged(q, s) \in G[S]
  PROVE  Readings(r, c) \subseteq G[Visible(c)]
<1> DEFINE V == Visible(c)
<1> DEFINE Is(f) == f = [S \in SUBSET V |->
             IF S = {} THEN {Repaired(r, c), Swept(Repaired(r, c), c)}
             ELSE UNION {{Cataloged(q, s) : q \in f[S \ {s}]} : s \in S}]
<1>1. \A S \in SUBSET V : /\ IsFiniteSet(S) /\ Cardinality(S) \in Nat
                          /\ Cardinality(S) <= Cardinality(V)
  BY FS_Subset, FS_CardinalityType
<1>2. \A S \in SUBSET V : \A s \in S : Cardinality(S \ {s}) = Cardinality(S) - 1
  BY <1>1, FS_RemoveElement
<1>3. Cardinality(V) \in Nat
  BY FS_CardinalityType
<1>4. PICK h : IsPass(h, V, Cardinality(V), r, c)
  BY <1>3, PassExists
<1>5. Small(V, Cardinality(V)) = SUBSET V
  BY <1>1 DEF Small
<1>6. Is(h)
  BY <1>4, <1>5 DEF IsPass, Reads
<1> DEFINE read == CHOOSE f : Is(f)
<1>7. Readings(r, c) = read[V]
  BY DEF Readings
<1>8. Is(read)
  BY <1>6
<1> HIDE DEF read, Is
<1>9. \A S \in SUBSET V : read[S] = Reads(read, S, r, c)
  BY <1>8 DEF Is, Reads
<1> DEFINE Bad == {n \in Nat : \E S \in SUBSET V : Cardinality(S) = n /\ ~(read[S] \subseteq G[S])}
<1>10. SUFFICES ASSUME Bad # {} PROVE FALSE
  BY <1>1, <1>7
<1>11. PICK n \in Bad : \A k \in Bad : n <= k
  BY <1>10, Least
<1>12. PICK S \in SUBSET V : Cardinality(S) = n /\ ~(read[S] \subseteq G[S])
  OBVIOUS
<1>13. n \in Nat
  OBVIOUS
<1>14. \A s \in S : read[S \ {s}] \subseteq G[S \ {s}]
  <2> SUFFICES ASSUME NEW s \in S, ~(read[S \ {s}] \subseteq G[S \ {s}]) PROVE FALSE
    OBVIOUS
  <2>1. S \ {s} \in SUBSET V /\ Cardinality(S \ {s}) = n - 1 /\ n - 1 \in Nat
    BY <1>1, <1>2, <1>12, <1>13
  <2>2. n - 1 \in Bad
    BY <2>1
  <2>3. n <= n - 1
    BY <1>11, <2>2
  <2> QED  BY <1>13, <2>3
<1>15. Reads(read, S, r, c) \subseteq G[S]
  <2>1. CASE S = {}  BY <2>1 DEF Reads
  <2>2. CASE S # {}
    <3> SUFFICES ASSUME NEW q \in Reads(read, S, r, c) PROVE q \in G[S]
      OBVIOUS
    <3>1. PICK s \in S : \E x \in read[S \ {s}] : q = Cataloged(x, s)
      BY <2>2 DEF Reads
    <3>2. PICK x \in G[S \ {s}] : q = Cataloged(x, s)
      BY <1>14, <3>1
    <3> QED  BY <3>2, <1>12
  <2> QED  BY <2>1, <2>2
<1> QED  BY <1>9, <1>12, <1>15

-----------------------------------------------------------------------------
(* Versions *)

\* The values of what is not known are of their types.
LEMMA NoTypes == NoTask \in Task /\ NoExecution \in Execution /\ NoStore \in Store
<1>1. 0 \in Nat /\ 0 \in Time /\ 0 \in Stamp
  BY TaskOwnershipAssumption DEF Time, Stamp
<1>2. NoTask \in Task /\ NoExecution \in Execution
  BY <1>1 DEF NoTask, NoExecution, Task, Execution
<1> QED  BY <1>2 DEF NoStore, Store

\* The times of the clock are among those of the records.
LEMMA TimeIsStamp == Time \subseteq Stamp
  BY TaskOwnershipAssumption DEF Time, Stamp

\* The kinds of events, and what each is of.
LEMMA EventKinds ==
  ASSUME NEW e \in Events
  PROVE  /\ e.type \in {"request", "accepted", "rejected", "completed"}
         /\ e.type = "completed" => e.of \in Sessions
         /\ e.type # "completed" => e.of \in Moves
         /\ e.at \in Time
  BY DEF Events

\* The parts of a store.
LEMMA StoreParts ==
  ASSUME NEW r \in Store
  PROVE  /\ r.task \in Task /\ r.exec \in [Sessions -> Execution] /\ r.events \in SUBSET Events
         /\ r.requests \in SUBSET (Moves \X Moves) /\ r.receipts \in SUBSET Moves
  BY DEF Store

\* Which of two versions survives: one of them, or the live one with the other's end.
LEMMA PreferKinds ==
  ASSUME NEW x, NEW y, NEW b \in BOOLEAN
  PROVE  \/ PreferExecution(x, y, b) = x /\ (x.ended # 0 \/ y.ended = 0)
         \/ PreferExecution(x, y, b) = y /\ (y.ended # 0 \/ x.ended = 0)
         \/ /\ x.ended # 0 /\ y.ended = 0
            /\ \/ PreferExecution(x, y, b) = y /\ (y.continued > x.ended \/ b)
               \/ PreferExecution(x, y, b) = [y EXCEPT !.ended = x.ended]
         \/ /\ y.ended # 0 /\ x.ended = 0
            /\ \/ PreferExecution(x, y, b) = x
               \/ PreferExecution(x, y, b) = [x EXCEPT !.ended = y.ended]
  BY DEF PreferExecution

\* A version has known fields, so that one with an end replaced is a version.
LEMMA EndReplaced ==
  ASSUME NEW x \in Execution, NEW t \in Time
  PROVE  /\ [x EXCEPT !.ended = t] \in Execution
         /\ [x EXCEPT !.ended = t].ended = t
         /\ [x EXCEPT !.ended = t].continued = x.continued
         /\ x # NoExecution \/ t # 0 => [x EXCEPT !.ended = t] # NoExecution \/ t = 0
  BY DEF Execution, NoExecution

\* Of two versions of an execution the ended one is replaced by a live one only where
\* that one was continued after, or where the prepared owner is excepted.
LEMMA Preferred ==
  ASSUME NEW x \in Execution, NEW y \in Execution, NEW b \in BOOLEAN
  PROVE  LET z == PreferExecution(x, y, b) IN
         /\ z \in Execution
         /\ z.continued \in {x.continued, y.continued}
         /\ z.ended \in {x.ended, y.ended}
         /\ x.ended # 0 /\ z.ended = 0 => y.ended = 0 /\ (y.continued > x.ended \/ b)
         /\ x.ended = 0 /\ y.ended = 0 => z.ended = 0
         /\ x # NoExecution /\ y # NoExecution => z # NoExecution
<1> DEFINE z == PreferExecution(x, y, b)
<1>1. x.ended \in Time /\ y.ended \in Time
  BY DEF Execution
<1>2. NoExecution.ended = 0
  BY DEF NoExecution
<1>3. CASE z = x /\ (x.ended # 0 \/ y.ended = 0)
  BY <1>3
<1>4. CASE z = y /\ (y.ended # 0 \/ x.ended = 0)
  BY <1>4
<1>5. CASE x.ended # 0 /\ y.ended = 0 /\ z = y /\ (y.continued > x.ended \/ b)
  BY <1>5
<1>6. CASE x.ended # 0 /\ y.ended = 0 /\ z = [y EXCEPT !.ended = x.ended]
  <2>1. z \in Execution /\ z.ended = x.ended /\ z.continued = y.continued
    BY <1>1, <1>6, EndReplaced
  <2>2. z # NoExecution
    BY <1>2, <1>6, <2>1
  <2> QED  BY <1>6, <2>1, <2>2
<1>7. CASE y.ended # 0 /\ x.ended = 0 /\ z = x
  BY <1>7
<1>8. CASE y.ended # 0 /\ x.ended = 0 /\ z = [x EXCEPT !.ended = y.ended]
  <2>1. z \in Execution /\ z.ended = y.ended /\ z.continued = x.continued
    BY <1>1, <1>8, EndReplaced
  <2>2. z # NoExecution
    BY <1>2, <1>8, <2>1
  <2> QED  BY <1>8, <2>1, <2>2
<1>9. \/ z = x /\ (x.ended # 0 \/ y.ended = 0)
      \/ z = y /\ (y.ended # 0 \/ x.ended = 0)
      \/ x.ended # 0 /\ y.ended = 0 /\ z = y /\ (y.continued > x.ended \/ b)
      \/ x.ended # 0 /\ y.ended = 0 /\ z = [y EXCEPT !.ended = x.ended]
      \/ y.ended # 0 /\ x.ended = 0 /\ z = x
      \/ y.ended # 0 /\ x.ended = 0 /\ z = [x EXCEPT !.ended = y.ended]
  BY PreferKinds
<1> HIDE DEF z
<1> QED  BY <1>3, <1>4, <1>5, <1>6, <1>7, <1>8, <1>9 DEF z

\* A Task that changes has another revision, so it is not the absent one.
LEMMA ChangedTask ==
  ASSUME NEW x \in Task, NEW y \in Task
  PROVE  LET z == Changed(x, y) IN
         /\ z \in Task /\ z.owner = y.owner
         /\ x # NoTask \/ y.at # x.at \/ y.owner # x.owner => z # NoTask
<1> DEFINE w == [y EXCEPT !.revision = x.revision]
           v == [y EXCEPT !.revision = x.revision + 1]
<1>1. x.revision \in Nat /\ w.owner = y.owner /\ w.at = y.at
  BY DEF Task
<1>2. v \in Task /\ v.owner = y.owner /\ v.revision # 0
  BY <1>1 DEF Task
<1>3. NoTask.revision = 0
  BY DEF NoTask
<1>4. w = x => Changed(x, y) = x
  BY DEF Changed
<1>5. w # x => Changed(x, y) = v
  BY DEF Changed
<1> HIDE DEF w, v
<1> QED  BY <1>1, <1>2, <1>3, <1>4, <1>5
-----------------------------------------------------------------------------
(* Events *)

\* What the Task is after an event: it stays a Task, and only an acceptance changes its
\* owner.
LEMMA AfterFacts ==
  ASSUME NEW r \in Store, NEW e \in Events
  PROVE  /\ After(r, e) \in Task
         /\ After(r, e).owner = IF e.type = "accepted" THEN To[e.of] ELSE r.task.owner
         /\ r.task # NoTask => After(r, e) # NoTask
<1> DEFINE state == CASE e.type = "completed" -> IF OtherWorking(r, e.of) THEN "working" ELSE "completed"
                 [] Terminal(r.task) -> r.task.state
                 [] e.type = "accepted" -> IF e.of \in Prepared THEN "planned" ELSE "working"
                 [] e.type = "request" -> "handoff"
                 [] e.type = "rejected" -> "needs_user"
           owner == IF e.type = "accepted" THEN To[e.of] ELSE r.task.owner
           at == IF r.task.at > e.at THEN r.task.at ELSE e.at
           next == [r.task EXCEPT !.state = state, !.owner = owner, !.at = at]
<1>1. r.task \in Task /\ e.at \in Stamp
  BY StoreParts, EventKinds, TimeIsStamp
<1>2. r.task.state \in States \cup {"none"} /\ r.task.owner \in Sessions \cup {None} /\ r.task.at \in Stamp
  BY <1>1 DEF Task
<1>3. state \in States \cup {"none"}
  BY <1>2, EventKinds DEF States
<1>4. owner \in Sessions \cup {None}
  BY <1>2, EventKinds, TaskOwnershipAssumption
<1>5. at \in Stamp
  BY <1>1, <1>2
<1>6. After(r, e) = Changed(r.task, next)
  BY DEF After
<1> HIDE DEF state, owner, at
<1>7. next \in Task /\ next.owner = owner
  BY <1>1, <1>3, <1>4, <1>5 DEF Task
<1> HIDE DEF next
<1>8. After(r, e) \in Task /\ After(r, e).owner = owner /\ (r.task # NoTask => After(r, e) # NoTask)
  BY <1>1, <1>6, <1>7, ChangedTask
<1> QED  BY <1>8 DEF owner

\* An execution replaced in a store.
LEMMA ExecReplaced ==
  ASSUME NEW r \in Store, NEW s \in Sessions, NEW x \in Execution
  PROVE  LET q == [r EXCEPT !.exec[s] = x] IN
         /\ q \in Store /\ q.task = r.task /\ q.events = r.events
         /\ q.requests = r.requests /\ q.receipts = r.receipts
         /\ q.exec = [r.exec EXCEPT ![s] = x]
         /\ q.exec[s] = x /\ \A t \in Sessions \ {s} : q.exec[t] = r.exec[t]
  BY DEF Store

\* An event leaves of the executions what the chats were asked, and opens none.
SameChats(x, y) ==
  \A s \in Sessions : /\ y[s].continued = x[s].continued
                      /\ y[s] = NoExecution <=> x[s] = NoExecution
                      /\ x[s].ended # 0 => y[s].ended # 0

\* A completed turn leaves a chat as open or closed as it was.
LEMMA RestedFacts ==
  ASSUME NEW r \in Store, NEW s \in Sessions, NEW at \in Time
  PROVE  LET q == Rested(r, s, at) IN
         /\ q \in Store /\ q.task = r.task /\ q.events = r.events
         /\ q.requests = r.requests /\ q.receipts = r.receipts
         /\ SameChats(r.exec, q.exec)
<1>1. CASE r.exec[s] = NoExecution
  BY <1>1 DEF Rested, SameChats
<1>2. CASE r.exec[s] # NoExecution
  <2> DEFINE x == [r.exec[s] EXCEPT !.state = "idle", !.at = IF @ > at THEN @ ELSE at]
             q == [r EXCEPT !.exec[s] = x]
  <2>1. r.exec[s] \in Execution /\ at \in Stamp
    BY StoreParts, TimeIsStamp
  <2>2. x \in Execution /\ x.continued = r.exec[s].continued /\ x.ended = r.exec[s].ended
        /\ x.state = "idle"
    BY <2>1 DEF Execution
  <2>3. x # NoExecution
    BY <2>2 DEF NoExecution
  <2>4. Rested(r, s, at) = [r EXCEPT !.exec[s].state = "idle", !.exec[s].at = IF @ > at THEN @ ELSE at]
    BY <1>2 DEF Rested
  <2>5. Rested(r, s, at) = q
    BY <2>1, <2>4 DEF Store, Execution
  <2> HIDE DEF x
  <2>6. /\ q \in Store /\ q.task = r.task /\ q.events = r.events
        /\ q.requests = r.requests /\ q.receipts = r.receipts
        /\ q.exec[s] = x /\ \A t \in Sessions \ {s} : q.exec[t] = r.exec[t]
    BY <2>2, ExecReplaced
  <2> HIDE DEF q
  <2>7. SameChats(r.exec, q.exec)
    BY <1>2, <2>2, <2>3, <2>6 DEF SameChats
  <2> QED  BY <2>5, <2>6, <2>7
<1> QED  BY <1>1, <1>2

\* What applying an event may change in a store.
Moved(r, q, e) ==
  /\ q \in Store /\ q.events = r.events /\ q.requests = r.requests
  /\ r.receipts \subseteq q.receipts
  /\ \A m \in q.receipts \ r.receipts :
       /\ e.type = "accepted" /\ m = e.of
       /\ q.exec[From[m]] = NoExecution \/ q.exec[From[m]].ended # 0
  /\ SameChats(r.exec, q.exec)
  /\ r.task # NoTask => q.task # NoTask
  /\ q.task.owner # r.task.owner => e.type = "accepted" /\ q.task.owner = To[e.of]

\* The Task of a store replaced.
LEMMA TaskReplaced ==
  ASSUME NEW r \in Store, NEW t \in Task
  PROVE  LET q == [r EXCEPT !.task = t] IN
         /\ q \in Store /\ q.task = t /\ q.events = r.events /\ q.exec = r.exec
         /\ q.requests = r.requests /\ q.receipts = r.receipts
  BY DEF Store

\* An acceptance that moves the Task ends its source, and nothing else.
LEMMA SourceEnded ==
  ASSUME NEW r \in Store, NEW m \in Moves, NEW at \in Time, at # 0
  PROVE  LET s == From[m]
             q == [r EXCEPT !.receipts = @ \cup {m},
                            !.exec[s].ended = IF r.exec[s] = NoExecution THEN 0 ELSE at] IN
         /\ q \in Store /\ q.task = r.task /\ q.events = r.events
         /\ q.requests = r.requests /\ q.receipts = r.receipts \cup {m}
         /\ SameChats(r.exec, q.exec)
         /\ q.exec[s] = NoExecution \/ q.exec[s].ended # 0
<1> DEFINE s == From[m]
           x == [r.exec[s] EXCEPT !.ended = IF r.exec[s] = NoExecution THEN 0 ELSE at]
           q == [r EXCEPT !.receipts = @ \cup {m},
                          !.exec[s].ended = IF r.exec[s] = NoExecution THEN 0 ELSE at]
<1>1. s \in Sessions
  BY TaskOwnershipAssumption
<1>2. r.exec[s] \in Execution /\ 0 \in Time
  BY <1>1, StoreParts, TaskOwnershipAssumption DEF Time
<1>3. x \in Execution /\ x.continued = r.exec[s].continued
  BY <1>2, EndReplaced DEF Execution
<1>4. r.exec[s] = NoExecution => x = NoExecution
  BY <1>2 DEF Execution, NoExecution
<1>5. r.exec[s] # NoExecution => x.ended = at
  BY <1>2, EndReplaced
<1>6. NoExecution.ended = 0
  BY DEF NoExecution
<1> DEFINE p == [r EXCEPT !.exec[s] = x]
<1>7. q = [p EXCEPT !.receipts = r.receipts \cup {m}]
  BY <1>1, <1>2 DEF Store, Execution
<1> HIDE DEF x
<1>8. /\ p \in Store /\ p.task = r.task /\ p.events = r.events
      /\ p.requests = r.requests /\ p.receipts = r.receipts
      /\ p.exec[s] = x /\ \A t \in Sessions \ {s} : p.exec[t] = r.exec[t]
  BY <1>1, <1>3, ExecReplaced
<1> HIDE DEF p
<1>9. q \in Store /\ q.task = r.task /\ q.events = r.events /\ q.requests = r.requests
      /\ q.receipts = r.receipts \cup {m}
      /\ q.exec[s] = x /\ \A t \in Sessions \ {s} : q.exec[t] = r.exec[t]
  BY <1>7, <1>8 DEF Store
<1>10. x = NoExecution <=> r.exec[s] = NoExecution
  BY <1>4, <1>5, <1>6
<1> HIDE DEF q
<1>11. SameChats(r.exec, q.exec)
  BY <1>3, <1>5, <1>6, <1>9, <1>10 DEF SameChats
<1>12. q.exec[s] = NoExecution \/ q.exec[s].ended # 0
  BY <1>5, <1>9, <1>10
<1> QED  BY <1>9, <1>11, <1>12 DEF q

\* What the application of an event may change (applyEvent).
LEMMA AppliedFacts ==
  ASSUME NEW r \in Store, NEW e \in Events, e.type = "accepted" => e.at # 0
  PROVE  Moved(r, Applied(r, e), e)
<1>1. CASE r.task = NoTask \/ (e.type = "accepted" /\ ~MovesOwnership(r, e.of))
  <2>1. Applied(r, e) = r
    BY <1>1 DEF Applied
  <2> QED  BY <2>1 DEF Moved, SameChats
<1>2. CASE r.task # NoTask /\ e.type = "accepted" /\ MovesOwnership(r, e.of)
  <2> DEFINE s == From[e.of]
             q == [r EXCEPT !.receipts = @ \cup {e.of},
                            !.exec[s].ended = IF r.exec[s] = NoExecution THEN 0 ELSE e.at]
             t == After(q, e)
  <2>1. e.of \in Moves /\ e.at \in Time /\ e.at # 0
    BY <1>2, EventKinds
  <2>2. /\ q \in Store /\ q.task = r.task /\ q.events = r.events
        /\ q.requests = r.requests /\ q.receipts = r.receipts \cup {e.of}
        /\ SameChats(r.exec, q.exec)
        /\ q.exec[s] = NoExecution \/ q.exec[s].ended # 0
    BY <2>1, SourceEnded
  <2>3. Applied(r, e) = [q EXCEPT !.task = t]
    BY <1>2 DEF Applied
  <2> HIDE DEF q
  <2>4. t \in Task /\ t.owner = To[e.of] /\ t # NoTask
    BY <1>2, <2>2, AfterFacts
  <2> HIDE DEF t
  <2>5. LET p == [q EXCEPT !.task = t] IN
        /\ p \in Store /\ p.task = t /\ p.events = q.events /\ p.exec = q.exec
        /\ p.requests = q.requests /\ p.receipts = q.receipts
    BY <2>2, <2>4, TaskReplaced
  <2> QED  BY <1>2, <2>2, <2>3, <2>4, <2>5 DEF Moved
<1>3. CASE r.task # NoTask /\ e.type # "accepted"
  <2> DEFINE q == IF e.type = "completed" THEN Rested(r, e.of, e.at) ELSE r
             t == After(q, e)
  <2>1. /\ q \in Store /\ q.task = r.task /\ q.events = r.events
        /\ q.requests = r.requests /\ q.receipts = r.receipts
        /\ SameChats(r.exec, q.exec)
    <3>1. CASE e.type = "completed"
      BY <3>1, EventKinds, RestedFacts
    <3>2. CASE e.type # "completed"
      BY <3>2 DEF SameChats
    <3> QED  BY <3>1, <3>2
  <2>2. Applied(r, e) = [q EXCEPT !.task = t]
    BY <1>3 DEF Applied
  <2> HIDE DEF q
  <2>3. t \in Task /\ t.owner = r.task.owner /\ t # NoTask
    BY <1>3, <2>1, AfterFacts
  <2> HIDE DEF t
  <2>4. LET p == [q EXCEPT !.task = t] IN
        /\ p \in Store /\ p.task = t /\ p.events = q.events /\ p.exec = q.exec
        /\ p.requests = q.requests /\ p.receipts = q.receipts
    BY <2>1, <2>3, TaskReplaced
  <2> QED  BY <1>3, <2>1, <2>2, <2>3, <2>4 DEF Moved
<1> QED  BY <1>1, <1>2, <1>3

\* The first of two requests, and the second, are known or the one that comes.
Asks(known, requests, m) ==
  \A p \in requests \ known : p[2] = m /\ (p[1] = m \/ <<p[1], p[1]>> \in known)

\* An event that is noted changes nothing but what is known.
LEMMA NotedFacts ==
  ASSUME NEW r \in Store, NEW e \in Events
  PROVE  LET q == Noted(r, e) IN
         /\ q \in Store /\ q.task = r.task /\ q.exec = r.exec /\ q.receipts = r.receipts
         /\ q.events = r.events \cup {e} /\ r.requests \subseteq q.requests
         /\ e.type # "request" => q.requests = r.requests
         /\ e.type = "request" => Asks(r.requests, q.requests, e.of) /\ <<e.of, e.of>> \in q.requests
<1> DEFINE requests == IF e.type = "request" THEN r.requests \cup (Known(r.requests) \cup {e.of}) \X {e.of}
                       ELSE r.requests
           q == Noted(r, e)
<1>1. q = [r EXCEPT !.events = r.events \cup {e}, !.requests = requests]
  BY DEF Noted, Store
<1>2. Known(r.requests) \subseteq Moves /\ \A m \in Known(r.requests) : <<m, m>> \in r.requests
  BY DEF Known
<1>3. e.type = "request" => e.of \in Moves
  BY EventKinds
<1>4. requests \in SUBSET (Moves \X Moves)
  BY <1>2, <1>3, StoreParts
<1>5. e.type = "request" => Asks(r.requests, requests, e.of) /\ <<e.of, e.of>> \in requests
  BY <1>2, <1>3 DEF Asks
<1>6. r.requests \subseteq requests /\ (e.type # "request" => requests = r.requests)
  OBVIOUS
<1> HIDE DEF requests
<1>7. /\ q \in Store /\ q.task = r.task /\ q.exec = r.exec /\ q.receipts = r.receipts
      /\ q.events = r.events \cup {e} /\ q.requests = requests
  BY <1>1, <1>4 DEF Store
<1> QED  BY <1>5, <1>6, <1>7

\* What an event that arrives may change in a store.
Heard(r, q, e) ==
  /\ q \in Store
  /\ r.events \subseteq q.events /\ q.events \subseteq r.events \cup {e}
  /\ e.type # "accepted" => e \in q.events
  /\ r.requests \subseteq q.requests
  /\ e.type = "request" => Asks(r.requests, q.requests, e.of)
  /\ e.type # "request" => q.requests = r.requests
  /\ e.type = "request" /\ e \notin r.events => <<e.of, e.of>> \in q.requests
  /\ r.receipts \subseteq q.receipts
  /\ \A m \in q.receipts \ r.receipts :
       /\ e.type = "accepted" /\ m = e.of
       /\ q.exec[From[m]] = NoExecution \/ q.exec[From[m]].ended # 0
  /\ SameChats(r.exec, q.exec)
  /\ r.task # NoTask => q.task # NoTask
  /\ q.task.owner # r.task.owner =>
       e.type = "accepted" /\ q.task.owner = To[e.of] /\ e \in q.events \ r.events

\* Noting and applying are one hearing.
LEMMA NotedThenApplied ==
  ASSUME NEW r \in Store, NEW e \in Events, e.type = "accepted" => e.at # 0, e \notin r.events
  PROVE  Heard(r, Applied(Noted(r, e), e), e)
<1> DEFINE p == Noted(r, e)
           q == Applied(p, e)
<1>1. /\ p \in Store /\ p.task = r.task /\ p.exec = r.exec /\ p.receipts = r.receipts
      /\ p.events = r.events \cup {e} /\ r.requests \subseteq p.requests
      /\ e.type # "request" => p.requests = r.requests
      /\ e.type = "request" => Asks(r.requests, p.requests, e.of) /\ <<e.of, e.of>> \in p.requests
  BY NotedFacts
<1> HIDE DEF p
<1>2. Moved(p, q, e)
  BY <1>1, AppliedFacts
<1> HIDE DEF q
<1>3. Heard(r, q, e)
  BY <1>1, <1>2 DEF Heard, Moved
<1> QED  BY <1>3 DEF p, q

\* acceptEvent() is a hearing of its event.
LEMMA AcceptFacts ==
  ASSUME NEW r \in Store, NEW e \in Events, e.type = "accepted" => e.at # 0
  PROVE  Heard(r, Accept(r, e), e)
<1>1. CASE e \in r.events \/ (e.type = "accepted" /\ ~Valid(r, e.of))
  <2>1. Accept(r, e) = r
    BY <1>1 DEF Accept
  <2> QED  BY <1>1, <2>1 DEF Heard, Asks, SameChats
<1>2. CASE ~(e \in r.events \/ (e.type = "accepted" /\ ~Valid(r, e.of)))
  <2>1. Accept(r, e) = Applied(Noted(r, e), e)
    BY <1>2 DEF Accept
  <2> QED  BY <1>2, <2>1, NotedThenApplied
<1> QED  BY <1>1, <1>2
-----------------------------------------------------------------------------
(* Executions *)

\* What a link does to an execution, given what is linked.
LinkedTo(x, y, e) ==
  /\ y \in Execution /\ y # NoExecution
  /\ y.continued \in {x.continued, e.continued}
  /\ y.ended \in {x.ended, e.ended}
  /\ x.ended # 0 /\ y.ended = 0 => e.continued > x.ended
  /\ x.ended = 0 /\ e.ended = 0 => y.ended = 0

\* Which execution a link leaves: the known one, the new one, or the live with an end.
LEMMA LinkedExecution ==
  ASSUME NEW x \in Execution, NEW e \in Execution, e # NoExecution
  PROVE  LinkedTo(x, IF x = NoExecution THEN e ELSE PreferExecution(x, e, FALSE), e)
<1>1. CASE x = NoExecution
  BY <1>1 DEF LinkedTo, NoExecution
<1>2. CASE x # NoExecution
  <2> DEFINE z == PreferExecution(x, e, FALSE)
  <2>1. /\ z \in Execution
        /\ z.continued \in {x.continued, e.continued}
        /\ z.ended \in {x.ended, e.ended}
        /\ x.ended # 0 /\ z.ended = 0 => e.continued > x.ended
        /\ x.ended = 0 /\ e.ended = 0 => z.ended = 0
        /\ z # NoExecution
    BY <1>2, Preferred
  <2> HIDE DEF z
  <2>2. LinkedTo(x, z, e)
    BY <2>1 DEF LinkedTo
  <2> QED  BY <1>2, <2>2 DEF z
<1> QED  BY <1>1, <1>2

\* claimTaskFor(): the owner may change to the chat only where no open chat owns the Task.
LEMMA ClaimedFacts ==
  ASSUME NEW r \in Store, NEW s \in Sessions
  PROVE  LET q == Claimed(r, s) IN
         /\ q \in Store /\ q.exec = r.exec /\ q.events = r.events
         /\ q.requests = r.requests /\ q.receipts = r.receipts
         /\ r.task # NoTask => q.task # NoTask
         /\ q.task.owner # r.task.owner =>
              /\ q.task.owner = s /\ r.exec[s].ended = 0 /\ MayOwn(r, s)
<1>1. CASE r.task = NoTask \/ r.exec[s].ended # 0 \/ ~MayOwn(r, s)
  BY <1>1 DEF Claimed
<1>2. CASE ~(r.task = NoTask \/ r.exec[s].ended # 0 \/ ~MayOwn(r, s))
  <2> DEFINE t == [revision |-> r.task.revision + 1, owner |-> s,
                   state |-> IF r.task.state = "handoff" THEN "working" ELSE r.task.state,
                   at |-> IF r.task.at > r.exec[s].start THEN r.task.at ELSE r.exec[s].start]
  <2>1. r.task \in Task /\ r.exec[s] \in Execution
    BY StoreParts
  <2>2. r.task.revision \in Nat /\ r.task.state \in States \cup {"none"} /\ r.task.at \in Stamp
        /\ r.exec[s].start \in Stamp
    BY <2>1, TimeIsStamp DEF Task, Execution
  <2>3. t \in Task /\ t.owner = s
    BY <2>2 DEF Task, States
  <2>4. t # NoTask
    BY <2>2 DEF NoTask
  <2>5. Claimed(r, s) = [r EXCEPT !.task = t]
    BY <1>2 DEF Claimed, Store
  <2> HIDE DEF t
  <2>6. LET p == [r EXCEPT !.task = t] IN
        /\ p \in Store /\ p.task = t /\ p.events = r.events /\ p.exec = r.exec
        /\ p.requests = r.requests /\ p.receipts = r.receipts
    BY <2>3, TaskReplaced
  <2> QED  BY <1>2, <2>3, <2>4, <2>5, <2>6
<1> QED  BY <1>1, <1>2

\* The owner of a store's Task, if there is one, is not open.
Unowned(r) ==
  \/ r.task.owner = None
  \/ r.exec[r.task.owner] = NoExecution \/ r.exec[r.task.owner].ended # 0

\* What linking or reading a chat may change in a store, but for the execution itself.
Taking(r, q, s) ==
  /\ q \in Store /\ q.events = r.events /\ q.requests = r.requests /\ q.receipts = r.receipts
  /\ \A t \in Sessions \ {s} : q.exec[t] = r.exec[t]
  /\ r.task # NoTask => q.task # NoTask
  /\ q.task.owner # r.task.owner => q.task.owner = s /\ q.exec[s].ended = 0 /\ Unowned(r)

\* linkExecution(): what a link may change.
LEMMA LinkedFacts ==
  ASSUME NEW r \in Store, NEW s \in Sessions, NEW e \in Execution, e # NoExecution
  PROVE  Taking(r, Linked(r, s, e), s) /\ LinkedTo(r.exec[s], Linked(r, s, e).exec[s], e)
<1> DEFINE x == IF r.exec[s] = NoExecution THEN e ELSE PreferExecution(r.exec[s], e, FALSE)
           p == [r EXCEPT !.exec[s] = x]
           q == Claimed(p, s)
<1>1. r.exec[s] \in Execution
  BY StoreParts
<1>2. LinkedTo(r.exec[s], x, e)
  BY <1>1, LinkedExecution
<1>3. Linked(r, s, e) = IF e.at < now /\ p = r THEN r ELSE q
  BY DEF Linked, Store
<1> HIDE DEF x
<1>4. x \in Execution
  BY <1>2 DEF LinkedTo
<1>5. /\ p \in Store /\ p.task = r.task /\ p.events = r.events
      /\ p.requests = r.requests /\ p.receipts = r.receipts
      /\ p.exec[s] = x /\ \A t \in Sessions \ {s} : p.exec[t] = r.exec[t]
  BY <1>4, ExecReplaced
<1> HIDE DEF p
<1>6. /\ q \in Store /\ q.exec = p.exec /\ q.events = p.events
      /\ q.requests = p.requests /\ q.receipts = p.receipts
      /\ p.task # NoTask => q.task # NoTask
      /\ q.task.owner # p.task.owner => q.task.owner = s /\ p.exec[s].ended = 0 /\ MayOwn(p, s)
  BY <1>5, ClaimedFacts
<1> HIDE DEF q
<1>7. Taking(r, q, s)
  <2>1. q.task.owner # r.task.owner => Unowned(r)
    <3> SUFFICES ASSUME q.task.owner # r.task.owner PROVE Unowned(r)
      OBVIOUS
    <3>1. p.task.owner # s /\ MayOwn(p, s) /\ p.task = r.task
      BY <1>5, <1>6
    <3>2. r.task.owner \in Sessions \cup {None}
      BY StoreParts DEF Task
    <3>3. r.task.owner # None => p.exec[r.task.owner] = r.exec[r.task.owner]
      BY <1>5, <3>1, <3>2
    <3> QED  BY <3>1, <3>3 DEF MayOwn, Unowned
  <2> QED  BY <1>5, <1>6, <2>1 DEF Taking
<1>8. LinkedTo(r.exec[s], q.exec[s], e)
  BY <1>2, <1>5, <1>6
<1>9. p = r => Taking(r, r, s) /\ LinkedTo(r.exec[s], r.exec[s], e)
  BY <1>2, <1>5 DEF Taking
<1> QED  BY <1>3, <1>7, <1>8, <1>9

\* q is r with a reading of chat s, made at a time, in its Task.
Informed(r, q, s, at) ==
  /\ q \in Store /\ q.events = r.events /\ q.requests = r.requests /\ q.receipts = r.receipts
  /\ q.exec = r.exec
  /\ r.task # NoTask \/ at # 0 => q.task # NoTask
  /\ q.task.owner # r.task.owner => q.task.owner = s /\ r.exec[s].ended = 0 /\ Unowned(r)

\* upsertTask(): a reading changes the owner only where no open chat owns the Task.
LEMMA UpsertedFacts ==
  ASSUME NEW r \in Store, NEW s \in Sessions, NEW at \in Time, NEW state \in {"working", "planned"}
  PROVE  Informed(r, Upserted(r, s, [at |-> at, state |-> state]), s, at)
<1> DEFINE reading == [at |-> at, state |-> state]
           branch == r.exec[s]
           owns == MayOwn(r, s)
           parallel == branch # NoExecution /\ branch.ended = 0 /\ branch.continued # 0
                       /\ reading.at >= branch.continued /\ reading.state = "working"
           owner == IF owns THEN s ELSE r.task.owner
           left == IF (owns \/ parallel) /\ ~Terminal(r.task) THEN reading.state ELSE r.task.state
           next == [r.task EXCEPT !.at = reading.at, !.owner = owner, !.state = left]
           t == Changed(r.task, next)
           q == Upserted(r, s, reading)
<1>1. r.task \in Task /\ at \in Stamp /\ reading.at = at /\ reading.state = state
  BY StoreParts, TimeIsStamp
<1>2. r.task.owner \in Sessions \cup {None} /\ r.task.state \in States \cup {"none"} /\ r.task.at \in Stamp
  BY <1>1 DEF Task
<1>3. owner \in Sessions \cup {None} /\ left \in States \cup {"none"}
  BY <1>1, <1>2 DEF States
<1>4. owner # r.task.owner => owner = s /\ r.exec[s].ended = 0 /\ Unowned(r)
  BY DEF MayOwn, Unowned
<1>5. q = IF r.task.at > at THEN r ELSE [r EXCEPT !.task = t]
  BY <1>1 DEF Upserted, Store
<1> HIDE DEF owner, left
<1>6. next \in Task /\ next.owner = owner /\ next.at = at
  BY <1>1, <1>3 DEF Task
<1> HIDE DEF next
<1>7. t \in Task /\ t.owner = owner /\ (r.task # NoTask \/ at # r.task.at => t # NoTask)
  BY <1>1, <1>6, ChangedTask
<1> HIDE DEF t
<1>8. LET p == [r EXCEPT !.task = t] IN
      /\ p \in Store /\ p.task = t /\ p.events = r.events /\ p.exec = r.exec
      /\ p.requests = r.requests /\ p.receipts = r.receipts
  BY <1>7, TaskReplaced
<1>9. NoTask.at = 0
  BY DEF NoTask
<1>10. at # 0 /\ r.task = NoTask => at # r.task.at
  BY <1>9
<1>11. 0 \in Nat /\ at \in Nat
  BY DEF Time
<1>12. CASE r.task.at > at
  BY <1>5, <1>9, <1>11, <1>12 DEF Informed
<1>13. CASE ~(r.task.at > at)
  <2> DEFINE p == [r EXCEPT !.task = t]
  <2>1. q = p
    BY <1>5, <1>13
  <2>2. /\ p \in Store /\ p.task = t /\ p.events = r.events /\ p.exec = r.exec
        /\ p.requests = r.requests /\ p.receipts = r.receipts
    BY <1>8
  <2> HIDE DEF p, q
  <2>3. /\ q \in Store /\ q.events = r.events /\ q.requests = r.requests /\ q.receipts = r.receipts
        /\ q.exec = r.exec
        /\ r.task # NoTask \/ at # 0 => q.task # NoTask
        /\ q.task.owner # r.task.owner => q.task.owner = s /\ r.exec[s].ended = 0 /\ Unowned(r)
    BY <1>4, <1>7, <1>10, <2>1, <2>2
  <2> QED  BY <2>3 DEF q, Informed
<1> QED  BY <1>12, <1>13
-----------------------------------------------------------------------------
(* The catalog *)

\* linkSession(): what the reading of one chat may change.
LEMMA CatalogedFacts ==
  ASSUME NEW r \in Store, NEW s \in Sessions, chat[s] \in Chat, now \in Time,
         r.exec[s] # NoExecution
  PROVE  LET q == Cataloged(r, s) IN
         /\ Taking(r, q, s)
         /\ q.exec[s] # NoExecution
         /\ q.exec[s].continued \in {r.exec[s].continued, chat[s].continued}
         /\ q.exec[s].ended \in {r.exec[s].ended, 0}
         /\ r.exec[s].ended # 0 /\ q.exec[s].ended = 0 => chat[s].continued > r.exec[s].ended
         /\ chat[s].at # 0 => q.task # NoTask
<1> DEFINE working == chat[s].life = "working"
           state == IF working THEN "working" ELSE "planned"
           p == Upserted(r, s, [at |-> chat[s].at, state |-> state])
           e == [start |-> chat[s].start, at |-> now, ended |-> 0, continued |-> chat[s].continued,
                 state |-> IF working THEN "working" ELSE "idle"]
           q == Linked(p, s, e)
<1>1. Cataloged(r, s) = q
  BY DEF Cataloged
<1>2. chat[s].at \in Time /\ chat[s].start \in Time /\ chat[s].continued \in Stamp /\ 0 \in Time /\ now \in Stamp
  BY TaskOwnershipAssumption, TimeIsStamp DEF Chat, Time
<1>3. state \in {"working", "planned"}
  OBVIOUS
<1>4. e \in Execution /\ e.ended = 0 /\ e.continued = chat[s].continued
  BY <1>2 DEF Execution
<1>5. e # NoExecution
  BY DEF NoExecution
<1> HIDE DEF state, e
<1>6. /\ p \in Store /\ p.events = r.events /\ p.requests = r.requests /\ p.receipts = r.receipts
      /\ p.exec = r.exec
      /\ r.task # NoTask \/ chat[s].at # 0 => p.task # NoTask
      /\ p.task.owner # r.task.owner => p.task.owner = s /\ r.exec[s].ended = 0 /\ Unowned(r)
  <2>1. PICK at \in Time : at = chat[s].at
    BY <1>2
  <2>2. PICK word \in {"working", "planned"} : word = state
    BY <1>3
  <2> DEFINE v == Upserted(r, s, [at |-> at, state |-> word])
  <2>3. Informed(r, v, s, at)
    BY UpsertedFacts
  <2>4. v = p
    BY <2>1, <2>2
  <2> HIDE DEF v, p
  <2> QED  BY <2>1, <2>3, <2>4 DEF Informed
<1> HIDE DEF p
<1>7. Taking(p, q, s) /\ LinkedTo(p.exec[s], q.exec[s], e)
  BY <1>4, <1>5, <1>6, LinkedFacts
<1> HIDE DEF q
<1>8. q.task.owner # r.task.owner => q.task.owner = s /\ q.exec[s].ended = 0 /\ Unowned(r)
  <2>1. CASE p.task.owner = r.task.owner
    BY <1>6, <1>7, <2>1 DEF Taking, Unowned
  <2>2. CASE p.task.owner # r.task.owner
    BY <1>4, <1>6, <1>7, <2>2 DEF Taking, LinkedTo
  <2> QED  BY <2>1, <2>2
<1>9. Taking(r, q, s)
  BY <1>6, <1>7, <1>8 DEF Taking
<1>10. /\ q.exec[s] # NoExecution
       /\ q.exec[s].continued \in {r.exec[s].continued, chat[s].continued}
       /\ q.exec[s].ended \in {r.exec[s].ended, 0}
       /\ r.exec[s].ended # 0 /\ q.exec[s].ended = 0 => chat[s].continued > r.exec[s].ended
  BY <1>4, <1>6, <1>7 DEF LinkedTo
<1>11. chat[s].at # 0 => q.task # NoTask
  BY <1>6, <1>7 DEF Taking
<1> QED  BY <1>1, <1>9, <1>10, <1>11

\* reconcilePreparedTransfers(): only a prepared chat that is its handoff's is opened.
LEMMA RepairedFacts ==
  ASSUME NEW r \in Store, NEW c, now \in Time
  PROVE  LET q == Repaired(r, c) IN
         \/ q = r
         \/ \E t \in Sessions, x \in Execution :
              /\ Alias(t) /\ Home[t] = c /\ chat[t].life = "prepared" /\ r.exec[t] # NoExecution
              /\ x # NoExecution /\ x.ended = 0 /\ x.continued = r.exec[t].continued
              /\ q \in Store /\ q.exec = [r.exec EXCEPT ![t] = x]
              /\ q.events = r.events /\ q.requests = r.requests /\ q.receipts = r.receipts
              /\ q.task # NoTask /\ q.task.owner = t
<1> DEFINE here == {m \in Prepared : Home[To[m]] = c /\ Repairable(r, m)}
<1>1. CASE here = {}
  <2>1. Repaired(r, c) = r
    BY <1>1 DEF Repaired
  <2> QED  BY <2>1
<1>2. CASE here # {}
  <2> DEFINE m == CHOOSE n \in here : TRUE
             t == To[m]
             at == Latest(now, Latest(r.exec[t].ended + 1, r.task.at))
             q == [r EXCEPT !.exec[t].ended = 0, !.exec[t].at = at,
                            !.task = [revision |-> r.task.revision + 1, at |-> at, state |-> "planned", owner |-> t]]
             x == [r.exec[t] EXCEPT !.ended = 0, !.at = at]
             v == [revision |-> r.task.revision + 1, at |-> at, state |-> "planned", owner |-> t]
  <2>1. m \in here
    BY <1>2
  <2>2. m \in Prepared /\ m \in Moves /\ Home[To[m]] = c /\ Repairable(r, m)
    BY <2>1, TaskOwnershipAssumption
  <2>3. Repaired(r, c) = q
    BY <1>2, <2>1 DEF Repaired, Store
  <2> HIDE DEF here, m
  <2>4. t \in Sessions /\ Alias(t) /\ Home[t] = c /\ chat[t].life = "prepared" /\ r.exec[t] # NoExecution
    BY <2>2, TaskOwnershipAssumption DEF Alias, Repairable
  <2>5. r.exec[t] \in Execution /\ r.task \in Task
    BY <2>4, StoreParts
  <2>6. r.exec[t].ended \in 0 .. MaxNow /\ r.task.at \in 0 .. MaxNow + 1 /\ now \in 0 .. MaxNow /\ MaxNow \in Nat
        /\ r.task.revision \in Nat
    BY <2>5, TaskOwnershipAssumption DEF Execution, Task, Time, Stamp
  <2>7. at \in Stamp /\ at # 0
    BY <2>6 DEF Latest, Stamp
  <2>8. 0 \in Time
    BY TaskOwnershipAssumption DEF Time
  <2> HIDE DEF at
  <2>9. x \in Execution /\ x.ended = 0 /\ x.at = at /\ x.continued = r.exec[t].continued
    BY <2>5, <2>7, <2>8 DEF Execution
  <2>10. x # NoExecution
    BY <2>7, <2>9 DEF NoExecution
  <2>11. v \in Task /\ v.owner = t /\ v # NoTask
    BY <2>4, <2>6, <2>7 DEF Task, States, NoTask
  <2>12. q = [[r EXCEPT !.exec[t] = x] EXCEPT !.task = v]
    BY <2>4, <2>5 DEF Store, Execution
  <2> HIDE DEF t, x, v
  <2> DEFINE p == [r EXCEPT !.exec[t] = x]
  <2>13. /\ p \in Store /\ p.events = r.events /\ p.requests = r.requests /\ p.receipts = r.receipts
         /\ p.exec = [r.exec EXCEPT ![t] = x]
    BY <2>4, <2>9, ExecReplaced
  <2> HIDE DEF p
  <2>14. q = [p EXCEPT !.task = v]
    BY <2>12 DEF p
  <2> HIDE DEF q
  <2>15. /\ q \in Store /\ q.exec = [r.exec EXCEPT ![t] = x]
         /\ q.events = r.events /\ q.requests = r.requests /\ q.receipts = r.receipts /\ q.task = v
    BY <2>11, <2>13, <2>14, TaskReplaced
  <2> QED  BY <2>3, <2>4, <2>9, <2>10, <2>11, <2>15
<1> QED  BY <1>1, <1>2

\* closeVanished(): the sweep ends executions, and opens none.
LEMMA SweptFacts ==
  ASSUME NEW r \in Store, NEW c, now \in Time, now # 0
  PROVE  LET q == Swept(r, c) IN
         /\ q \in Store /\ q.task = r.task /\ q.events = r.events
         /\ q.requests = r.requests /\ q.receipts = r.receipts
         /\ \A s \in Sessions :
              \/ q.exec[s] = r.exec[s]
              \/ /\ chat[s].life = "gone" /\ r.exec[s] # NoExecution /\ r.exec[s].ended = 0
                 /\ q.exec[s] # NoExecution /\ q.exec[s].continued = r.exec[s].continued
<1> DEFINE x(s) == [r.exec[s] EXCEPT !.ended = now, !.at = now]
           f == [s \in Sessions |->
                  IF Home[s] = c /\ chat[s].life = "gone" /\ r.exec[s] # NoExecution /\ r.exec[s].ended = 0
                  THEN x(s) ELSE r.exec[s]]
           q == Swept(r, c)
<1>1. \A s \in Sessions : r.exec[s] \in Execution
  BY StoreParts
<1>2. now \in Stamp
  BY TimeIsStamp
<1>3. \A s \in Sessions : x(s) \in Execution /\ x(s).at = now /\ x(s).continued = r.exec[s].continued
  BY <1>1, <1>2 DEF Execution
<1>4. \A s \in Sessions : x(s) # NoExecution
  BY <1>3 DEF NoExecution
<1>5. q = [r EXCEPT !.exec = f]
  BY DEF Swept
<1> HIDE DEF x
<1>6. f \in [Sessions -> Execution]
  BY <1>1, <1>3
<1>7. \A s \in Sessions :
        \/ f[s] = r.exec[s]
        \/ /\ chat[s].life = "gone" /\ r.exec[s] # NoExecution /\ r.exec[s].ended = 0
           /\ f[s] # NoExecution /\ f[s].continued = r.exec[s].continued
  BY <1>3, <1>4
<1> HIDE DEF f
<1>8. /\ q \in Store /\ q.task = r.task /\ q.events = r.events
      /\ q.requests = r.requests /\ q.receipts = r.receipts /\ q.exec = f
  BY <1>5, <1>6 DEF Store
<1> QED  BY <1>7, <1>8

\* What a pass of the catalog of computer c may change in its store.  An execution that
\* had ended is open only where the person continued its chat since, or where it is
\* the prepared chat that owns the Task; and a new owner is an open chat of c.
Passed(r, c, q) ==
  /\ q \in Store /\ q.events = r.events /\ q.requests = r.requests /\ q.receipts = r.receipts
  /\ r.task # NoTask => q.task # NoTask
  /\ \A s \in Sessions :
       /\ q.exec[s] = NoExecution <=> r.exec[s] = NoExecution
       /\ q.exec[s].continued \in {r.exec[s].continued, chat[s].continued}
       /\ r.exec[s].ended # 0 =>
            \/ q.exec[s].ended = r.exec[s].ended
            \/ q.exec[s].ended = 0 /\ chat[s].continued > r.exec[s].ended
            \/ q.exec[s].ended = 0 /\ Alias(s) /\ chat[s].life = "prepared" /\ q.task.owner = s
  /\ q.task.owner # r.task.owner =>
       /\ q.task.owner \in Sessions /\ Home[q.task.owner] = c
       /\ q.exec[q.task.owner].ended = 0

\* What the repair of prepared handoffs opens is the prepared chat that owns the Task.
ForPrepared(r, q) ==
  \A s \in Sessions :
    /\ r.exec[s].ended # 0 /\ q.exec[s].ended = 0 => chat[s].life = "prepared" /\ q.task.owner = s
    /\ q.task.owner # r.task.owner => chat[q.task.owner].life = "prepared"

\* The repair is a pass of the catalog.
LEMMA RepairedPassed ==
  ASSUME NEW r \in Store, NEW c, now \in Time
  PROVE  Passed(r, c, Repaired(r, c)) /\ ForPrepared(r, Repaired(r, c))
<1>1. Passed(r, c, r) /\ ForPrepared(r, r)
  BY DEF Passed, ForPrepared
<1>2. ASSUME NEW q, NEW t \in Sessions, NEW x \in Execution,
             /\ Alias(t) /\ Home[t] = c /\ chat[t].life = "prepared" /\ r.exec[t] # NoExecution
             /\ x # NoExecution /\ x.ended = 0 /\ x.continued = r.exec[t].continued
             /\ q \in Store /\ q.exec = [r.exec EXCEPT ![t] = x]
             /\ q.events = r.events /\ q.requests = r.requests /\ q.receipts = r.receipts
             /\ q.task # NoTask /\ q.task.owner = t
      PROVE  Passed(r, c, q) /\ ForPrepared(r, q)
  <2>1. q.exec[t] = x /\ \A s \in Sessions \ {t} : q.exec[s] = r.exec[s]
    BY <1>2, StoreParts
  <2>2. \A s \in Sessions :
          /\ q.exec[s] = NoExecution <=> r.exec[s] = NoExecution
          /\ q.exec[s].continued \in {r.exec[s].continued, chat[s].continued}
          /\ r.exec[s].ended # 0 =>
               \/ q.exec[s].ended = r.exec[s].ended
               \/ q.exec[s].ended = 0 /\ Alias(s) /\ chat[s].life = "prepared" /\ q.task.owner = s
    BY <1>2, <2>1
  <2>3. Passed(r, c, q)
    BY <1>2, <2>1, <2>2 DEF Passed
  <2>4. ForPrepared(r, q)
    BY <1>2, <2>1 DEF ForPrepared
  <2> QED  BY <2>3, <2>4
<1>3. \/ Repaired(r, c) = r
      \/ \E t \in Sessions, x \in Execution :
           /\ Alias(t) /\ Home[t] = c /\ chat[t].life = "prepared" /\ r.exec[t] # NoExecution
           /\ x # NoExecution /\ x.ended = 0 /\ x.continued = r.exec[t].continued
           /\ Repaired(r, c) \in Store /\ Repaired(r, c).exec = [r.exec EXCEPT ![t] = x]
           /\ Repaired(r, c).events = r.events /\ Repaired(r, c).requests = r.requests
           /\ Repaired(r, c).receipts = r.receipts
           /\ Repaired(r, c).task # NoTask /\ Repaired(r, c).task.owner = t
  BY RepairedFacts
<1> QED  BY <1>1, <1>2, <1>3

\* A pass and then the sweep are a pass.
LEMMA SweptPassed ==
  ASSUME NEW r \in Store, NEW c, now \in Time, now # 0
  PROVE  Passed(r, c, Swept(Repaired(r, c), c))
<1> DEFINE p == Repaired(r, c)
           q == Swept(p, c)
<1>1. Passed(r, c, p) /\ ForPrepared(r, p)
  BY RepairedPassed
<1> HIDE DEF p
<1>2. p \in Store
  BY <1>1 DEF Passed
<1>3. /\ q \in Store /\ q.task = p.task /\ q.events = p.events
      /\ q.requests = p.requests /\ q.receipts = p.receipts
      /\ \A s \in Sessions :
           \/ q.exec[s] = p.exec[s]
           \/ /\ chat[s].life = "gone" /\ p.exec[s] # NoExecution /\ p.exec[s].ended = 0
              /\ q.exec[s] # NoExecution /\ q.exec[s].continued = p.exec[s].continued
  BY <1>2, SweptFacts
<1> HIDE DEF q
<1>4. ASSUME NEW s \in Sessions
      PROVE  /\ q.exec[s] = NoExecution <=> r.exec[s] = NoExecution
             /\ q.exec[s].continued \in {r.exec[s].continued, chat[s].continued}
             /\ r.exec[s].ended # 0 =>
                  \/ q.exec[s].ended = r.exec[s].ended
                  \/ q.exec[s].ended = 0 /\ chat[s].continued > r.exec[s].ended
                  \/ q.exec[s].ended = 0 /\ Alias(s) /\ chat[s].life = "prepared" /\ q.task.owner = s
  <2>1. CASE q.exec[s] = p.exec[s]
    BY <1>1, <1>3, <2>1 DEF Passed
  <2>2. CASE /\ chat[s].life = "gone" /\ p.exec[s] # NoExecution /\ p.exec[s].ended = 0
             /\ q.exec[s] # NoExecution /\ q.exec[s].continued = p.exec[s].continued
    BY <1>1, <2>2 DEF Passed, ForPrepared
  <2> QED  BY <1>3, <2>1, <2>2
<1>5. q.task.owner # r.task.owner =>
        /\ q.task.owner \in Sessions /\ Home[q.task.owner] = c
        /\ q.exec[q.task.owner].ended = 0
  <2> SUFFICES ASSUME q.task.owner # r.task.owner
               PROVE  /\ q.task.owner \in Sessions /\ Home[q.task.owner] = c
                      /\ q.exec[q.task.owner].ended = 0
    OBVIOUS
  <2>1. /\ p.task.owner \in Sessions /\ Home[p.task.owner] = c /\ p.exec[p.task.owner].ended = 0
        /\ chat[p.task.owner].life = "prepared"
    BY <1>1, <1>3 DEF Passed, ForPrepared
  <2>2. q.exec[p.task.owner] = p.exec[p.task.owner]
    BY <1>3, <2>1
  <2> QED  BY <1>3, <2>1, <2>2
<1>6. /\ q \in Store /\ q.events = r.events /\ q.requests = r.requests /\ q.receipts = r.receipts
      /\ r.task # NoTask => q.task # NoTask
  BY <1>1, <1>3 DEF Passed
<1>7. Passed(r, c, q)
  BY <1>4, <1>5, <1>6 DEF Passed
<1> QED  BY <1>7 DEF p, q

\* A pass and then the reading of one more chat are a pass.
LEMMA CatalogedPassed ==
  ASSUME NEW r \in Store, NEW c, NEW s \in Sessions, Home[s] = c, chat[s] \in Chat, now \in Time,
         NEW p, Passed(r, c, p)
  PROVE  /\ Passed(r, c, Cataloged(p, s))
         /\ p.task # NoTask \/ (r.exec[s] # NoExecution /\ chat[s].at # 0) => Cataloged(p, s).task # NoTask
<1> DEFINE q == Cataloged(p, s)
<1>1. p \in Store
  BY DEF Passed
<1>2. CASE p.exec[s] = NoExecution
  <2>1. q = p
    BY <1>2 DEF Cataloged
  <2>2. r.exec[s] = NoExecution
    BY <1>2 DEF Passed
  <2> QED  BY <2>1, <2>2
<1>3. CASE p.exec[s] # NoExecution
  <2>1. /\ Taking(p, q, s)
        /\ q.exec[s] # NoExecution
        /\ q.exec[s].continued \in {p.exec[s].continued, chat[s].continued}
        /\ q.exec[s].ended \in {p.exec[s].ended, 0}
        /\ p.exec[s].ended # 0 /\ q.exec[s].ended = 0 => chat[s].continued > p.exec[s].ended
        /\ chat[s].at # 0 => q.task # NoTask
    BY <1>1, <1>3, CatalogedFacts
  <2> HIDE DEF q
  <2>2. \A t \in Sessions :
          /\ q.exec[t] = NoExecution <=> r.exec[t] = NoExecution
          /\ q.exec[t].continued \in {r.exec[t].continued, chat[t].continued}
    BY <1>3, <2>1 DEF Passed, Taking
  <2>3. ASSUME NEW t \in Sessions, p.task.owner = t, p.exec[t].ended = 0, p.exec[t] # NoExecution
        PROVE  q.task.owner = t /\ q.exec[t].ended = 0
    BY <2>1, <2>3, TaskOwnershipAssumption DEF Taking, Unowned
  <2>4. ASSUME NEW t \in Sessions, r.exec[t].ended # 0
        PROVE  \/ q.exec[t].ended = r.exec[t].ended
               \/ q.exec[t].ended = 0 /\ chat[t].continued > r.exec[t].ended
               \/ q.exec[t].ended = 0 /\ Alias(t) /\ chat[t].life = "prepared" /\ q.task.owner = t
    <3>1. NoExecution.ended = 0
      BY DEF NoExecution
    <3>2. p.exec[t] # NoExecution
      BY <2>4, <3>1 DEF Passed
    <3>3. CASE p.exec[t].ended = r.exec[t].ended
      BY <2>1, <2>4, <3>3 DEF Taking
    <3>4. CASE p.exec[t].ended = 0 /\ chat[t].continued > r.exec[t].ended
      BY <2>1, <3>4 DEF Taking
    <3>5. CASE p.exec[t].ended = 0 /\ Alias(t) /\ chat[t].life = "prepared" /\ p.task.owner = t
      BY <2>3, <3>2, <3>5
    <3> QED  BY <2>4, <3>3, <3>4, <3>5 DEF Passed
  <2>5. q.task.owner # r.task.owner =>
          /\ q.task.owner \in Sessions /\ Home[q.task.owner] = c
          /\ q.exec[q.task.owner].ended = 0
    <3>1. CASE q.task.owner # p.task.owner
      BY <2>1, <3>1 DEF Taking
    <3>2. CASE q.task.owner = p.task.owner /\ p.task.owner # r.task.owner
      <4>1. /\ p.task.owner \in Sessions /\ Home[p.task.owner] = c /\ p.exec[p.task.owner].ended = 0
        BY <3>2 DEF Passed
      <4>2. q.exec[p.task.owner].ended = 0
        BY <2>1, <4>1 DEF Taking
      <4> QED  BY <3>2, <4>1, <4>2
    <3> QED  BY <3>1, <3>2
  <2>6. Passed(r, c, q)
    BY <2>1, <2>2, <2>4, <2>5 DEF Passed, Taking
  <2>7. p.task # NoTask \/ chat[s].at # 0 => q.task # NoTask
    BY <2>1 DEF Taking
  <2> QED  BY <2>6, <2>7 DEF q
<1> QED  BY <1>2, <1>3

\* The catalog's pass, whatever the order of the chats.
LEMMA ReadingsPassed ==
  ASSUME NEW r \in Store, NEW c, chat \in [Sessions -> Chat], now \in Time, now # 0
  PROVE  \A q \in Readings(r, c) :
           /\ Passed(r, c, q)
           /\ \A s \in Visible(c) : r.exec[s] # NoExecution /\ chat[s].at # 0 => q.task # NoTask
<1> DEFINE V == Visible(c)
           Covered(S) == \E s \in S : r.exec[s] # NoExecution /\ chat[s].at # 0
           P == {q \in Store : Passed(r, c, q)}
           G == [S \in SUBSET V |-> {q \in P : Covered(S) => q.task # NoTask}]
<1>1. IsFiniteSet(V)
  BY FS_Subset, TaskOwnershipAssumption DEF Visible
<1>2. \A q : Passed(r, c, q) => q \in P
  BY DEF Passed
<1>3. {} \in SUBSET V /\ ~Covered({})
  OBVIOUS
<1>4. Repaired(r, c) \in G[{}] /\ Swept(Repaired(r, c), c) \in G[{}]
  <2>1. Repaired(r, c) \in P /\ Swept(Repaired(r, c), c) \in P
    BY <1>2, RepairedPassed, SweptPassed
  <2> HIDE DEF P, Covered
  <2> QED  BY <1>3, <2>1
<1>5. ASSUME NEW S \in SUBSET V, NEW s \in S, NEW p \in G[S \ {s}]
      PROVE  Cataloged(p, s) \in G[S]
  <2>1. s \in Sessions /\ Home[s] = c /\ S \ {s} \in SUBSET V
    BY DEF Visible
  <2>2. p \in P /\ (Covered(S \ {s}) => p.task # NoTask)
    BY <2>1
  <2>3. /\ Passed(r, c, Cataloged(p, s))
        /\ p.task # NoTask \/ (r.exec[s] # NoExecution /\ chat[s].at # 0) => Cataloged(p, s).task # NoTask
    BY <2>1, <2>2, CatalogedPassed
  <2>4. Covered(S) => Covered(S \ {s}) \/ (r.exec[s] # NoExecution /\ chat[s].at # 0)
    OBVIOUS
  <2>5. Cataloged(p, s) \in P
    BY <1>2, <2>3
  <2> HIDE DEF P, Covered
  <2>6. Covered(S) => Cataloged(p, s).task # NoTask
    BY <2>2, <2>3, <2>4
  <2> QED  BY <2>5, <2>6
<1> HIDE DEF G
<1>6. Readings(r, c) \subseteq G[V]
  BY <1>1, <1>4, <1>5, ReadingsIn
<1>7. ASSUME NEW q \in G[V]
      PROVE  /\ Passed(r, c, q)
             /\ \A s \in V : r.exec[s] # NoExecution /\ chat[s].at # 0 => q.task # NoTask
  <2>1. V \in SUBSET V
    OBVIOUS
  <2>2. q \in P /\ (Covered(V) => q.task # NoTask)
    BY <2>1 DEF G
  <2> QED  BY <2>2
<1> QED  BY <1>6, <1>7
-----------------------------------------------------------------------------
(* The invariant *)

Born(s) == chat[s].life # "unborn"

\* Events as they are known: a request was sent; an acceptance is of a handoff that
\* was asked, by a chat that was made.
Sound(e) ==
  /\ e.type = "request" => e \in net
  /\ e.type = "accepted" => e.at # 0 /\ Requested(e.of) /\ Born(To[e.of])

\* What is true of a store wherever it is, on a computer or on its way.
Sounds(r) ==
  /\ r \in Store
  /\ \A e \in r.events : Sound(e)
  /\ \A q \in r.requests : Requested(q[1]) /\ Requested(q[2])
  /\ \A m \in r.receipts : Requested(m)
  /\ \A s \in Sessions : r.exec[s].continued <= chat[s].continued

\* The source of a handoff, on its own computer: it has its execution and the Task, and
\* once a receipt says that it was handed on it is closed, or it is one that may go on.
Source(r, c, m) ==
  Home[From[m]] = c =>
    /\ Requested(m) => r.exec[From[m]] # NoExecution /\ r.task # NoTask
    /\ m \in r.receipts =>
         \/ r.exec[From[m]].ended # 0
         \/ chat[From[m]].continued # 0
         \/ Alias(From[m])
         \/ Home[To[m]] = c /\ \E n \in Moves \ {m} : From[n] = From[m] /\ Requested(n)

StoresInv == \A c \in Computers : Sounds(store[c]) /\ \A m \in Moves : Source(store[c], c, m)

ChatsInv ==
  \A s \in Sessions : IF chat[s].life = "unborn" THEN chat[s].continued = 0 ELSE chat[s].at # 0

NetInv ==
  /\ Sounds(copy)
  /\ \A e \in net : Sound(e)
  /\ \A m \in Moves : \A x, y \in Time : Event("request", m, x) \in net /\ Event("request", m, y) \in net => x = y

\* The destination of a handoff knows of it.
AskedAt(r, m) == \E at \in Time : Event("request", m, at) \in r.events

MoveInv(m) ==
  /\ Requested(m) => chat[From[m]].life \notin {"unborn", "prepared"}
  /\ m \in starting =>
       /\ ~Born(To[m]) /\ AskedAt(store[Home[To[m]]], m) /\ <<m, m>> \in store[Home[To[m]]].requests
  /\ Born(To[m]) => IF m \in Prepared THEN answer[m] # Unanswered ELSE AskedAt(store[Home[To[m]]], m)

\* What was captured of the source is with a request that was sent, and an answer is to it.
JobInv(m) ==
  /\ job[m] # NoJob =>
       /\ m \in Prepared /\ Event("request", m, job[m].at) \in net
       /\ job[m].exec # NoExecution /\ job[m].exec.continued <= chat[From[m]].continued
  /\ answer[m] # Unanswered => job[m] # NoJob
  /\ answer[m].accepted => /\ answer[m].at # 0 /\ Born(To[m])
                           /\ store[Home[To[m]]].exec[To[m]] # NoExecution

OwnershipInv ==
  /\ TypeOK /\ now # 0 /\ StoresInv /\ ChatsInv /\ NetInv
  /\ \A m \in Moves : MoveInv(m) /\ JobInv(m)

-----------------------------------------------------------------------------
(* How a step changes a store *)

Consents(r) == [t \in Sessions |-> r.exec[t].continued]

\* z is r, with some of the events E, with requests and receipts of the handoffs A, and
\* with what y says that the person asked of the chats: only that opens one again, or
\* that it is the prepared chat that owns the Task.
Grew(r, z, E, A, y) ==
  /\ z \in Store
  /\ r.events \subseteq z.events /\ z.events \subseteq r.events \cup E
  /\ r.requests \subseteq z.requests
  /\ \A q \in z.requests \ r.requests :
       /\ q[1] \in A \/ <<q[1], q[1]>> \in r.requests
       /\ q[2] \in A \/ <<q[2], q[2]>> \in r.requests
  /\ r.receipts \subseteq z.receipts /\ z.receipts \subseteq r.receipts \cup A
  /\ r.task # NoTask => z.task # NoTask
  /\ \A t \in Sessions :
       /\ r.exec[t] # NoExecution => z.exec[t] # NoExecution
       /\ z.exec[t].continued \in {r.exec[t].continued, y[t]}
       /\ r.exec[t].ended # 0 /\ z.exec[t].ended = 0 =>
            y[t] > r.exec[t].ended \/ (Alias(t) /\ z.task.owner = t)

Only(x) == {x}

\* The handoff that an event may add to the requests or to the receipts.
About(e) == {m \in Moves : e.type \in {"request", "accepted"} /\ m = e.of}

\* A store that heard an event has grown by it.
LEMMA HeardGrew ==
  ASSUME NEW r \in Store, NEW q, NEW e \in Events, Heard(r, q, e)
  PROVE  Grew(r, q, {e}, About(e), Consents(r))
<1>1. /\ q \in Store
      /\ r.events \subseteq q.events /\ q.events \subseteq r.events \cup {e}
      /\ r.requests \subseteq q.requests /\ r.receipts \subseteq q.receipts
      /\ r.task # NoTask => q.task # NoTask
  BY DEF Heard
<1>2. q.requests \in SUBSET (Moves \X Moves) /\ q.receipts \in SUBSET Moves
  BY <1>1, StoreParts
<1>3. \A p \in q.requests \ r.requests :
        /\ p[1] \in About(e) \/ <<p[1], p[1]>> \in r.requests
        /\ p[2] \in About(e) \/ <<p[2], p[2]>> \in r.requests
  <2>1. CASE e.type = "request"
    <3>1. \A p \in q.requests \ r.requests : p[2] = e.of /\ (p[1] = e.of \/ <<p[1], p[1]>> \in r.requests)
      BY <2>1 DEF Heard, Asks
    <3>2. e.of \in About(e)
      BY <2>1, EventKinds DEF About
    <3> QED  BY <3>1, <3>2
  <2>2. CASE e.type # "request"
    BY <2>2 DEF Heard
  <2> QED  BY <2>1, <2>2
<1>4. q.receipts \subseteq r.receipts \cup About(e)
  BY <1>2 DEF Heard, About
<1>5. \A t \in Sessions :
        /\ r.exec[t] # NoExecution => q.exec[t] # NoExecution
        /\ q.exec[t].continued = r.exec[t].continued
        /\ r.exec[t].ended # 0 => q.exec[t].ended # 0
  BY DEF Heard, SameChats
<1> QED  BY <1>1, <1>3, <1>4, <1>5 DEF Grew

\* A store after a pass has grown by what the person asked of the chats.
LEMMA PassedGrew ==
  ASSUME NEW r \in Store, NEW c, NEW q, Passed(r, c, q)
  PROVE  Grew(r, q, {}, {}, [t \in Sessions |-> chat[t].continued])
<1>1. /\ q \in Store /\ q.events = r.events /\ q.requests = r.requests /\ q.receipts = r.receipts
      /\ r.task # NoTask => q.task # NoTask
  BY DEF Passed
<1>2. \A t \in Sessions :
        /\ r.exec[t] # NoExecution => q.exec[t] # NoExecution
        /\ q.exec[t].continued \in {r.exec[t].continued, chat[t].continued}
        /\ r.exec[t].ended # 0 /\ q.exec[t].ended = 0 =>
             chat[t].continued > r.exec[t].ended \/ (Alias(t) /\ q.task.owner = t)
  BY DEF Passed
<1> QED  BY <1>1, <1>2 DEF Grew

\* The Task of a store that another one is merged into: it stays, or it is the other's.
LEMMA MergedTask ==
  ASSUME NEW r \in Store, NEW q \in Store
  PROVE  /\ r.task # NoTask => Merged(r, q).task \in {r.task, q.task} /\ Merged(r, q).task # NoTask
         /\ Merged(r, q).task \in Task
<1>1. CASE q.task = NoTask
  BY <1>1, StoreParts DEF Merged
<1>2. CASE q.task # NoTask
  <2> DEFINE task == IF r.task = NoTask THEN q.task ELSE PreferTask(r.task, q.task)
  <2>1. Merged(r, q).task = task
    BY <1>2 DEF Merged
  <2>2. r.task # NoTask => task \in {r.task, q.task}
    BY DEF PreferTask
  <2>3. r.task = NoTask => task = q.task
    OBVIOUS
  <2> HIDE DEF task
  <2> QED  BY <1>2, <2>1, <2>2, <2>3, StoreParts
<1> QED  BY <1>1, <1>2

\* A store that merged a snapshot has grown by what the snapshot has (mergeSnapshot).
LEMMA MergedGrew ==
  ASSUME NEW r \in Store, NEW q \in Store
  PROVE  Grew(r, Merged(r, q), q.events, Known(q.requests), Consents(q))
<1> DEFINE z == Merged(r, q)
           A == Known(q.requests)
           y == Consents(q)
<1>1. CASE q.task = NoTask
  <2>1. z = r
    BY <1>1 DEF Merged
  <2> HIDE DEF z, A
  <2> QED  BY <2>1 DEF Grew, z, A
<1>2. CASE q.task # NoTask
  <2> DEFINE new == Known(q.requests) \ Known(r.requests)
             task == IF r.task = NoTask THEN q.task ELSE PreferTask(r.task, q.task)
             x == [s \in Sessions |->
                     IF r.exec[s] = NoExecution THEN q.exec[s]
                     ELSE IF q.exec[s] = NoExecution THEN r.exec[s] ELSE PreferScoped(task, s, r.exec[s], q.exec[s])]
             asked == r.requests \cup (q.requests \cap new \X new) \cup Known(r.requests) \X new
  <2>1. z = [task |-> task, exec |-> x, events |-> r.events \cup q.events, requests |-> asked, receipts |-> r.receipts]
    BY <1>2 DEF Merged
  <2>2. /\ z.task = task /\ z.exec = x /\ z.events = r.events \cup q.events
        /\ z.requests = asked /\ z.receipts = r.receipts
    BY <2>1
  <2>3. task \in Task /\ (r.task # NoTask => task # NoTask)
    BY <2>2, MergedTask
  <2>4. ASSUME NEW t \in Sessions
        PROVE  /\ x[t] \in Execution
               /\ r.exec[t] # NoExecution => x[t] # NoExecution
               /\ x[t].continued \in {r.exec[t].continued, q.exec[t].continued}
               /\ r.exec[t].ended # 0 /\ x[t].ended = 0 =>
                    q.exec[t].continued > r.exec[t].ended \/ (Alias(t) /\ task.owner = t)
    <3>1. r.exec[t] \in Execution /\ q.exec[t] \in Execution /\ NoExecution.ended = 0
      BY StoreParts DEF NoExecution
    <3>2. CASE r.exec[t] = NoExecution
      BY <3>1, <3>2
    <3>3. CASE r.exec[t] # NoExecution /\ q.exec[t] = NoExecution
      BY <3>1, <3>3
    <3>4. CASE r.exec[t] # NoExecution /\ q.exec[t] # NoExecution
      <4> DEFINE b == Alias(t) /\ ~Terminal(task) /\ task.owner = t
                 v == PreferExecution(r.exec[t], q.exec[t], b)
      <4>1. x[t] = v
        BY <3>4 DEF PreferScoped
      <4>2. b \in BOOLEAN /\ (b => Alias(t) /\ task.owner = t)
        BY DEF Alias
      <4> HIDE DEF b, task
      <4>3. /\ v \in Execution
            /\ v.continued \in {r.exec[t].continued, q.exec[t].continued}
            /\ r.exec[t].ended # 0 /\ v.ended = 0 => q.exec[t].continued > r.exec[t].ended \/ b
            /\ v # NoExecution
        BY <3>1, <3>4, <4>2, Preferred
      <4> HIDE DEF v, x
      <4> QED  BY <4>1, <4>2, <4>3
    <3> QED  BY <3>2, <3>3, <3>4
  <2>5. x \in [Sessions -> Execution]
    BY <2>4
  <2>6. /\ asked \in SUBSET (Moves \X Moves)
        /\ \A p \in asked \ r.requests :
             /\ p[1] \in A \/ <<p[1], p[1]>> \in r.requests
             /\ p[2] \in A \/ <<p[2], p[2]>> \in r.requests
    BY StoreParts DEF Known
  <2>7. r.requests \subseteq asked
    OBVIOUS
  <2>8. \A t \in Sessions : y[t] = q.exec[t].continued
    BY DEF Consents
  <2> HIDE DEF task, x, asked, new, A, y
  <2>9. z \in Store
    BY <2>1, <2>3, <2>5, <2>6, StoreParts DEF Store
  <2> HIDE DEF z
  <2>10. Grew(r, z, q.events, A, y)
    BY <2>2, <2>3, <2>4, <2>6, <2>7, <2>8, <2>9 DEF Grew
  <2> QED  BY <2>10 DEF z, A, y
<1> QED  BY <1>1, <1>2

\* One more word of the person, of chat s.
With(r, s, at) == [t \in Sessions |-> IF t = s THEN at ELSE r.exec[t].continued]

\* Linking an execution.
LEMMA LinkedGrew ==
  ASSUME NEW r \in Store, NEW s \in Sessions, NEW e \in Execution, e # NoExecution
  PROVE  /\ Grew(r, Linked(r, s, e), {}, {}, With(r, s, e.continued))
         /\ Linked(r, s, e).events = r.events /\ Linked(r, s, e).requests = r.requests
         /\ Linked(r, s, e).receipts = r.receipts /\ Linked(r, s, e).exec[s] # NoExecution
         /\ \A t \in Sessions \ {s} : Linked(r, s, e).exec[t] = r.exec[t]
         /\ \A t \in Sessions : r.exec[t].ended # 0 /\ Linked(r, s, e).exec[t].ended = 0 =>
              t = s /\ e.continued > r.exec[t].ended
         /\ Linked(r, s, e).task.owner # r.task.owner => Linked(r, s, e).task.owner = s
<1> DEFINE q == Linked(r, s, e)
           y == With(r, s, e.continued)
<1>1. Taking(r, q, s) /\ LinkedTo(r.exec[s], q.exec[s], e)
  BY LinkedFacts
<1> HIDE DEF q
<1>2. /\ q \in Store /\ q.events = r.events /\ q.requests = r.requests /\ q.receipts = r.receipts
      /\ \A t \in Sessions \ {s} : q.exec[t] = r.exec[t]
      /\ r.task # NoTask => q.task # NoTask
      /\ q.task.owner # r.task.owner => q.task.owner = s
  BY <1>1 DEF Taking
<1>3. /\ q.exec[s] # NoExecution
      /\ q.exec[s].continued \in {r.exec[s].continued, e.continued}
      /\ r.exec[s].ended # 0 /\ q.exec[s].ended = 0 => e.continued > r.exec[s].ended
  BY <1>1 DEF LinkedTo
<1>4. y[s] = e.continued /\ \A t \in Sessions \ {s} : y[t] = r.exec[t].continued
  BY DEF With
<1> HIDE DEF y
<1>5. \A t \in Sessions :
        /\ r.exec[t] # NoExecution => q.exec[t] # NoExecution
        /\ q.exec[t].continued \in {r.exec[t].continued, y[t]}
        /\ r.exec[t].ended # 0 /\ q.exec[t].ended = 0 => t = s /\ y[t] > r.exec[t].ended
  BY <1>2, <1>3, <1>4
<1>6. Grew(r, q, {}, {}, y)
  BY <1>2, <1>5 DEF Grew
<1> QED  BY <1>2, <1>3, <1>4, <1>5, <1>6 DEF q, y

\* What is linked and then an event are one growth of a store.
LEMMA GrewThenHeard ==
  ASSUME NEW r \in Store, NEW p \in Store, NEW q \in Store, NEW e \in Events, NEW y, NEW E, NEW A, NEW B,
         Grew(r, p, E, A, y), A \subseteq B, About(e) \subseteq B, Heard(p, q, e),
         \A t \in Sessions : r.exec[t].ended # 0 /\ p.exec[t].ended = 0 =>
           y[t] > r.exec[t].ended \/ (Alias(t) /\ q.task.owner = t)
  PROVE  /\ Grew(r, q, E \cup {e}, B, y)
         /\ \A t \in Sessions : r.exec[t].ended # 0 /\ q.exec[t].ended = 0 => p.exec[t].ended = 0
<1>1. Grew(p, q, {e}, About(e), Consents(p))
  BY HeardGrew
<1>2. SameChats(p.exec, q.exec)
  BY DEF Heard
<1>3. /\ q \in Store
      /\ r.events \subseteq q.events /\ q.events \subseteq r.events \cup (E \cup {e})
      /\ r.requests \subseteq q.requests
      /\ r.receipts \subseteq q.receipts /\ q.receipts \subseteq r.receipts \cup B
      /\ r.task # NoTask => q.task # NoTask
  BY <1>1 DEF Grew
<1>4. \A u \in q.requests \ r.requests :
        /\ u[1] \in B \/ <<u[1], u[1]>> \in r.requests
        /\ u[2] \in B \/ <<u[2], u[2]>> \in r.requests
  <2>1. \A u \in p.requests \ r.requests :
          /\ u[1] \in A \/ <<u[1], u[1]>> \in r.requests
          /\ u[2] \in A \/ <<u[2], u[2]>> \in r.requests
    BY DEF Grew
  <2>2. \A u \in q.requests \ p.requests :
          /\ u[1] \in About(e) \/ <<u[1], u[1]>> \in p.requests
          /\ u[2] \in About(e) \/ <<u[2], u[2]>> \in p.requests
    BY <1>1 DEF Grew
  <2>3. \A m : <<m, m>> \in p.requests => m \in A \/ <<m, m>> \in r.requests
    BY <2>1
  <2> QED  BY <2>1, <2>2, <2>3
<1>5. \A t \in Sessions :
        /\ r.exec[t] # NoExecution => q.exec[t] # NoExecution
        /\ q.exec[t].continued \in {r.exec[t].continued, y[t]}
        /\ r.exec[t].ended # 0 /\ q.exec[t].ended = 0 =>
             p.exec[t].ended = 0 /\ (y[t] > r.exec[t].ended \/ (Alias(t) /\ q.task.owner = t))
  BY <1>2 DEF Grew, SameChats
<1>6. Grew(r, q, E \cup {e}, B, y)
  BY <1>3, <1>4, <1>5 DEF Grew
<1> QED  BY <1>5, <1>6

\* Where a handoff was asked of a store, an acceptance of it ends its source, or is passed
\* over for another handoff of the same source.
LEMMA AcceptedEnds ==
  ASSUME NEW r \in Store, NEW m \in Moves, NEW at \in Time, at # 0,
         Event("accepted", m, at) \notin r.events, <<m, m>> \in r.requests,
         r.task # NoTask, r.exec[From[m]] # NoExecution
  PROVE  \/ Accept(r, Event("accepted", m, at)).exec[From[m]].ended # 0
         \/ \E n \in Moves \ {m} : From[n] = From[m] /\ (<<m, n>> \in r.requests \/ n \in r.receipts)
<1> DEFINE e == Event("accepted", m, at)
           s == From[m]
           p == Noted(r, e)
           x == [r.exec[s] EXCEPT !.ended = at]
           q == [p EXCEPT !.receipts = @ \cup {m},
                          !.exec[s].ended = IF p.exec[s] = NoExecution THEN 0 ELSE at]
           z == [q EXCEPT !.task = After(q, e)]
<1>1. e \in Events /\ e.type = "accepted" /\ e.of = m /\ e.at = at
  BY DEF Event, Events
<1> HIDE DEF e
<1>2. CASE ~Valid(r, m)
  <2>1. m \in Known(r.requests)
    BY DEF Known
  <2> QED  BY <1>2, <2>1 DEF Valid
<1>3. CASE Valid(r, m)
  <2>1. p \in Store /\ p.task = r.task /\ p.exec = r.exec /\ p.receipts = r.receipts
    BY <1>1, NotedFacts
  <2>2. Accept(r, e) = Applied(p, e)
    BY <1>1, <1>3 DEF Accept, e
  <2> HIDE DEF p
  <2>3. CASE ~MovesOwnership(p, m)
    BY <2>1, <2>3, StoreParts DEF MovesOwnership
  <2>4. CASE MovesOwnership(p, m)
    <3>1. Applied(p, e) = z
      BY <1>1, <2>1, <2>4 DEF Applied
    <3>2. q = [[p EXCEPT !.receipts = @ \cup {m}] EXCEPT !.exec = [r.exec EXCEPT ![s] = x]]
      BY <2>1 DEF Store, Execution
    <3>3. z.exec = [r.exec EXCEPT ![s] = x]
      BY <2>1, <3>2 DEF Store
    <3>4. x.ended = at
      BY StoreParts, TaskOwnershipAssumption DEF Execution
    <3>5. s \in DOMAIN r.exec
      BY StoreParts, TaskOwnershipAssumption
    <3> HIDE DEF z, x
    <3>6. z.exec[s] = x
      BY <3>3, <3>5
    <3> QED  BY <2>2, <3>1, <3>4, <3>6 DEF e
  <2> QED  BY <2>3, <2>4
<1> QED  BY <1>2, <1>3

\* The acceptance of a handoff.
LEMMA TakenGrew ==
  ASSUME NEW r \in Store, NEW m \in Moves, NEW at \in Time, at # 0, NEW z, NEW e,
         z = Taken(r, m, at), e = Event("accepted", m, at)
  PROVE  /\ Grew(r, z, Only(e), Only(m), With(r, To[m], 0))
         /\ \A t \in Sessions : r.exec[t].ended # 0 => z.exec[t].ended # 0
         /\ z.task.owner # r.task.owner => z.task.owner = To[m]
         /\ z.exec[To[m]] # NoExecution
<1> DEFINE x == [NoExecution EXCEPT !.start = at, !.at = at]
           p == Linked(r, To[m], x)
           q == [p EXCEPT !.receipts = @ \cup {m}]
           y == With(r, To[m], 0)
<1>1. e \in Events /\ e.type = "accepted" /\ e.of = m /\ e.at = at
  BY DEF Event, Events
<1>2. x \in Execution /\ x # NoExecution /\ x.continued = 0
  BY NoTypes, TimeIsStamp DEF Execution, NoExecution
<1>3. To[m] \in Sessions /\ From[m] \in Sessions
  BY TaskOwnershipAssumption
<1>4. z = Accept(q, e)
  BY DEF Taken
<1> HIDE DEF x
<1>5. /\ Grew(r, p, {}, {}, y)
      /\ p.events = r.events /\ p.requests = r.requests /\ p.receipts = r.receipts
      /\ \A t \in Sessions \ {To[m]} : p.exec[t] = r.exec[t]
      /\ \A t \in Sessions : r.exec[t].ended # 0 /\ p.exec[t].ended = 0 => 0 > r.exec[t].ended
      /\ p.task.owner # r.task.owner => p.task.owner = To[m]
      /\ p.exec[To[m]] # NoExecution
  BY <1>2, <1>3, LinkedGrew
<1> HIDE DEF p, y
<1>6. p \in Store
  BY <1>5 DEF Grew
<1>7. /\ q \in Store /\ q.task = p.task /\ q.exec = p.exec /\ q.events = p.events
      /\ q.requests = p.requests /\ q.receipts = p.receipts \cup {m}
  BY <1>6 DEF Store
<1> HIDE DEF q
<1>8. Grew(r, q, {}, {m}, y)
  BY <1>5, <1>7 DEF Grew
<1>9. Heard(q, z, e)
  BY <1>1, <1>4, <1>7, AcceptFacts
<1>10. \A t \in Sessions : r.exec[t].ended \in Nat
  BY StoreParts DEF Execution, Time
<1>11. \A t \in Sessions : r.exec[t].ended # 0 => q.exec[t].ended # 0
  BY <1>5, <1>7, <1>10
<1>12. About(e) \subseteq {m}
  BY <1>1 DEF About
<1>13. z \in Store
  BY <1>9 DEF Heard
<1> DEFINE N == {}
           M == {m}
<1>14. /\ Grew(r, z, N \cup {e}, M, y)
       /\ \A t \in Sessions : r.exec[t].ended # 0 /\ z.exec[t].ended = 0 => q.exec[t].ended = 0
  <2>1. Grew(r, q, N, M, y) /\ M \subseteq M /\ About(e) \subseteq M
    BY <1>8, <1>12
  <2>2. \A t \in Sessions : r.exec[t].ended # 0 /\ q.exec[t].ended = 0 =>
          y[t] > r.exec[t].ended \/ (Alias(t) /\ z.task.owner = t)
    BY <1>11
  <2>3. q \in Store /\ z \in Store /\ e \in Events /\ Heard(q, z, e)
    BY <1>1, <1>7, <1>9, <1>13
  <2> HIDE DEF N, M
  <2>4. Grew(r, z, N \cup {e}, M, y)
    BY <2>1, <2>2, <2>3, GrewThenHeard
  <2>5. \A t \in Sessions : r.exec[t].ended # 0 /\ z.exec[t].ended = 0 => q.exec[t].ended = 0
    BY <2>3 DEF Heard, SameChats
  <2> QED  BY <2>4, <2>5
<1>15. z.task.owner # r.task.owner => z.task.owner = To[m]
  BY <1>1, <1>5, <1>7, <1>9 DEF Heard
<1>16. N \cup {e} = {e}
  OBVIOUS
<1>17. \A t \in Sessions : r.exec[t].ended # 0 => z.exec[t].ended # 0
  BY <1>11, <1>14
<1>18. z.exec[To[m]] # NoExecution
  BY <1>3, <1>5, <1>7, <1>9 DEF Heard, SameChats
<1>19. /\ Grew(r, z, {e}, {m}, y)
       /\ \A t \in Sessions : r.exec[t].ended # 0 => z.exec[t].ended # 0
  BY <1>14, <1>16, <1>17
<1> QED  BY <1>15, <1>18, <1>19 DEF y, Only

\* It ends the source, where the source is on the same computer, or is passed over.
LEMMA TakenEnds ==
  ASSUME NEW r \in Store, NEW m \in Moves, NEW at \in Time, at # 0, NEW z,
         z = Taken(r, m, at), Event("accepted", m, at) \notin r.events, <<m, m>> \in r.requests,
         r.task # NoTask, From[m] # To[m], r.exec[From[m]] # NoExecution
  PROVE  \/ z.exec[From[m]].ended # 0
         \/ \E n \in Moves \ {m} : From[n] = From[m] /\ (<<m, n>> \in r.requests \/ n \in r.receipts)
<1> DEFINE x == [NoExecution EXCEPT !.start = at, !.at = at]
           p == Linked(r, To[m], x)
           q == [p EXCEPT !.receipts = @ \cup {m}]
<1>1. z = Accept(q, Event("accepted", m, at))
  BY DEF Taken
<1>2. x \in Execution /\ x # NoExecution
  BY NoTypes, TimeIsStamp DEF Execution, NoExecution
<1>3. To[m] \in Sessions /\ From[m] \in Sessions
  BY TaskOwnershipAssumption
<1> HIDE DEF x
<1>4. /\ Grew(r, p, {}, {}, With(r, To[m], x.continued))
      /\ p.events = r.events /\ p.requests = r.requests /\ p.receipts = r.receipts
      /\ \A t \in Sessions \ {To[m]} : p.exec[t] = r.exec[t]
  BY <1>2, <1>3, LinkedGrew
<1> HIDE DEF p
<1>5. p \in Store /\ p.task # NoTask
  BY <1>4 DEF Grew
<1>6. /\ q \in Store /\ q.task = p.task /\ q.exec = p.exec /\ q.events = p.events
      /\ q.requests = p.requests /\ q.receipts = p.receipts \cup {m}
  BY <1>5 DEF Store
<1> HIDE DEF q
<1>7. /\ Event("accepted", m, at) \notin q.events /\ <<m, m>> \in q.requests /\ q.task # NoTask
      /\ q.exec[From[m]] # NoExecution
  BY <1>3, <1>4, <1>5, <1>6
<1>8. \/ z.exec[From[m]].ended # 0
      \/ \E n \in Moves \ {m} : From[n] = From[m] /\ (<<m, n>> \in q.requests \/ n \in q.receipts)
  BY <1>1, <1>6, <1>7, AcceptedEnds
<1> QED  BY <1>4, <1>6, <1>8

\* What the computer of a prepared chat takes over with the job: the Task where it knows
\* none, the source as it was captured, the request.
LEMMA AskedGrew ==
  ASSUME NEW r \in Store, NEW m \in Moves, NEW at \in Time, NEW t \in Task, NEW x \in Execution, x # NoExecution
  PROVE  LET e == Event("request", m, at)
             k == IF r.task = NoTask THEN [r EXCEPT !.task = t] ELSE r
             z == Accept(Linked(k, From[m], x), e) IN
         /\ Grew(r, z, {e}, {m}, With(r, From[m], x.continued))
         /\ z.receipts = r.receipts
         /\ \A s \in Sessions : r.exec[s].ended # 0 /\ z.exec[s].ended = 0 => s = From[m] /\ x.continued > r.exec[s].ended
         /\ r.task # NoTask /\ z.task.owner # r.task.owner => z.task.owner = From[m]
<1> DEFINE e == Event("request", m, at)
           k == IF r.task = NoTask THEN [r EXCEPT !.task = t] ELSE r
           q == Linked(k, From[m], x)
           z == Accept(q, e)
           y == With(r, From[m], x.continued)
<1>1. e \in Events /\ e.type = "request" /\ e.of = m
  BY DEF Event, Events
<1>2. From[m] \in Sessions
  BY TaskOwnershipAssumption
<1>3. /\ k \in Store /\ k.events = r.events /\ k.requests = r.requests /\ k.receipts = r.receipts
      /\ k.exec = r.exec /\ (r.task # NoTask => k.task = r.task)
  BY TaskReplaced
<1> HIDE DEF k
<1>4. /\ Grew(k, q, {}, {}, With(k, From[m], x.continued))
      /\ q.receipts = k.receipts
      /\ \A s \in Sessions : k.exec[s].ended # 0 /\ q.exec[s].ended = 0 => s = From[m] /\ x.continued > k.exec[s].ended
      /\ q.task.owner # k.task.owner => q.task.owner = From[m]
  BY <1>2, <1>3, LinkedGrew
<1>5. With(k, From[m], x.continued) = y
  BY <1>3 DEF With
<1>6. y[From[m]] = x.continued
  BY <1>2 DEF With
<1> HIDE DEF q, y
<1>7. Grew(r, q, {}, {}, y)
  BY <1>3, <1>4, <1>5 DEF Grew
<1>8. q \in Store
  BY <1>7 DEF Grew
<1>9. Heard(q, z, e)
  BY <1>1, <1>8, AcceptFacts
<1>10. About(e) \subseteq {m}
  BY <1>1 DEF About
<1>11. z \in Store
  BY <1>9 DEF Heard
<1> HIDE DEF z, e
<1> DEFINE N == {}
           M == {m}
<1>12. /\ Grew(r, z, N \cup {e}, M, y)
       /\ \A s \in Sessions : r.exec[s].ended # 0 /\ z.exec[s].ended = 0 => q.exec[s].ended = 0
  <2>1. \A s \in Sessions : r.exec[s].ended # 0 /\ q.exec[s].ended = 0 =>
          y[s] > r.exec[s].ended \/ (Alias(s) /\ z.task.owner = s)
    BY <1>3, <1>4, <1>6
  <2>2. Grew(r, q, N, M, y) /\ M \subseteq M /\ About(e) \subseteq M
    BY <1>7, <1>10 DEF Grew
  <2>3. q \in Store /\ z \in Store /\ e \in Events /\ Heard(q, z, e)
    BY <1>1, <1>8, <1>9, <1>11
  <2> HIDE DEF N, M
  <2>4. Grew(r, z, N \cup {e}, M, y)
    BY <2>1, <2>2, <2>3, GrewThenHeard
  <2>5. \A s \in Sessions : r.exec[s].ended # 0 /\ z.exec[s].ended = 0 => q.exec[s].ended = 0
    BY <2>3 DEF Heard, SameChats
  <2> QED  BY <2>4, <2>5
<1>13. z.receipts = q.receipts
  BY <1>1, <1>9 DEF Heard
<1>14. r.task # NoTask /\ z.task.owner # r.task.owner => z.task.owner = From[m]
  BY <1>1, <1>3, <1>4, <1>9 DEF Heard
<1>15. \A s \in Sessions : r.exec[s].ended # 0 /\ z.exec[s].ended = 0 => s = From[m] /\ x.continued > r.exec[s].ended
  BY <1>3, <1>4, <1>12
<1>16. N \cup {e} = {e}
  OBVIOUS
<1>17. /\ Grew(r, z, {e}, {m}, y)
       /\ z.receipts = r.receipts
       /\ \A s \in Sessions : r.exec[s].ended # 0 /\ z.exec[s].ended = 0 => s = From[m] /\ x.continued > r.exec[s].ended
       /\ r.task # NoTask /\ z.task.owner # r.task.owner => z.task.owner = From[m]
  BY <1>3, <1>4, <1>12, <1>13, <1>14, <1>15, <1>16
<1> QED  BY <1>17 DEF z, q, k, y, e

\* restoreHandoffResult() changes nothing, or applies the answer.
LEMMA RestoredCases ==
  ASSUME NEW r, NEW request, NEW e, NEW target
  PROVE  LET asked == IF request \in r.events THEN r ELSE Noted(r, request)
             linked == IF e.type # "accepted" THEN asked
                       ELSE [asked EXCEPT !.exec[To[request.of]] = IF @ = NoExecution THEN target
                                                                   ELSE PreferExecution(@, target, FALSE)]
         IN Restored(r, request, e, target) = r
            \/ (Restored(r, request, e, target) = Applied(Noted(linked, e), e) /\ e \notin r.events)
  BY ZenonT(60) DEF Restored

\* The answer to a prepared handoff, at its source.
LEMMA RestoredGrew ==
  ASSUME NEW r \in Store, NEW m \in Moves, NEW request \in Events, request.type = "request", request.of = m,
         NEW e \in Events, e.type \in {"accepted", "rejected"}, e.of = m, e.type = "accepted" => e.at # 0,
         NEW target \in Execution, e.type = "accepted" => target # NoExecution
  PROVE  LET z == Restored(r, request, e, target) IN
         /\ Grew(r, z, {request, e}, {m}, With(r, To[m], target.continued))
         /\ \A n \in z.receipts \ r.receipts :
              n = m /\ (z.exec[From[m]] = NoExecution \/ z.exec[From[m]].ended # 0)
         /\ \A t \in Sessions : r.exec[t].ended # 0 /\ z.exec[t].ended = 0 =>
              t = To[m] /\ target.continued > r.exec[t].ended
         /\ z.task.owner # r.task.owner =>
              e.type = "accepted" /\ z.task.owner = To[m] /\ e \in z.events \ r.events
<1> DEFINE z == Restored(r, request, e, target)
           asked == IF request \in r.events THEN r ELSE Noted(r, request)
           x == IF asked.exec[To[m]] = NoExecution THEN target ELSE PreferExecution(asked.exec[To[m]], target, FALSE)
           linked == IF e.type # "accepted" THEN asked
                     ELSE [asked EXCEPT !.exec[To[request.of]] = IF @ = NoExecution THEN target
                                                                 ELSE PreferExecution(@, target, FALSE)]
           y == With(r, To[m], target.continued)
           Goal(v) ==
             /\ Grew(r, v, {request, e}, {m}, y)
             /\ \A n \in v.receipts \ r.receipts :
                  n = m /\ (v.exec[From[m]] = NoExecution \/ v.exec[From[m]].ended # 0)
             /\ \A t \in Sessions : r.exec[t].ended # 0 /\ v.exec[t].ended = 0 =>
                  t = To[m] /\ target.continued > r.exec[t].ended
             /\ v.task.owner # r.task.owner =>
                  e.type = "accepted" /\ v.task.owner = To[m] /\ e \in v.events \ r.events
<1>0. z = r \/ (z = Applied(Noted(linked, e), e) /\ e \notin r.events)
  BY ZenonT(60), RestoredCases
<1>1. To[m] \in Sessions /\ From[m] \in Sessions
  BY TaskOwnershipAssumption
<1>2. Goal(r)
  BY DEF Grew
<1> HIDE DEF z
<1>3. /\ asked \in Store /\ asked.task = r.task /\ asked.exec = r.exec /\ asked.receipts = r.receipts
      /\ r.events \subseteq asked.events /\ asked.events \subseteq r.events \cup {request}
      /\ r.requests \subseteq asked.requests /\ Asks(r.requests, asked.requests, m)
  <2>1. CASE request \in r.events
    BY <2>1 DEF Asks
  <2>2. CASE request \notin r.events
    <3>1. asked = Noted(r, request)
      BY <2>2
    <3> HIDE DEF asked
    <3>2. /\ asked \in Store /\ asked.task = r.task /\ asked.exec = r.exec /\ asked.receipts = r.receipts
          /\ asked.events = r.events \cup {request} /\ r.requests \subseteq asked.requests
      BY <3>1, NotedFacts
    <3>3. Asks(r.requests, asked.requests, m)
      BY <3>1, NotedFacts
    <3> QED  BY <3>2, <3>3
  <2> QED  BY <2>1, <2>2
<1>4. asked.requests \in SUBSET (Moves \X Moves)
  BY <1>3, StoreParts
<1> HIDE DEF asked
<1>5. Grew(r, asked, {request}, {m}, y)
  <2>1. \A q \in asked.requests \ r.requests : q[2] = m /\ (q[1] = m \/ <<q[1], q[1]>> \in r.requests)
    BY <1>3 DEF Asks
  <2>2. y = With(r, To[m], target.continued)
    OBVIOUS
  <2> HIDE DEF y
  <2> QED  BY <1>3, <2>1 DEF Grew
<1>6. y[To[m]] = target.continued
  BY <1>1 DEF With
<1> HIDE DEF y
<1>7. /\ linked \in Store /\ linked.task = r.task /\ linked.events = asked.events
      /\ linked.requests = asked.requests /\ linked.receipts = r.receipts
      /\ \A t \in Sessions \ {To[m]} : linked.exec[t] = r.exec[t]
      /\ r.exec[To[m]] # NoExecution => linked.exec[To[m]] # NoExecution
      /\ linked.exec[To[m]].continued \in {r.exec[To[m]].continued, target.continued}
      /\ r.exec[To[m]].ended # 0 /\ linked.exec[To[m]].ended = 0 => target.continued > r.exec[To[m]].ended
  <2>1. CASE e.type # "accepted"
    BY <1>1, <1>3, <2>1
  <2>2. CASE e.type = "accepted"
    <3>1. /\ x \in Execution
          /\ x # NoExecution
          /\ x.continued \in {r.exec[To[m]].continued, target.continued}
          /\ r.exec[To[m]].ended # 0 /\ x.ended = 0 => target.continued > r.exec[To[m]].ended
      <4>1. r.exec[To[m]] \in Execution /\ NoExecution.ended = 0
        BY <1>1, StoreParts DEF NoExecution
      <4>2. CASE r.exec[To[m]] = NoExecution
        BY <1>3, <2>2, <4>1, <4>2
      <4>3. CASE r.exec[To[m]] # NoExecution
        <5>1. x = PreferExecution(r.exec[To[m]], target, FALSE)
          BY <1>3, <4>3
        <5>2. FALSE \in BOOLEAN /\ target # NoExecution
          BY <2>2
        <5> HIDE DEF x
        <5> QED  BY <4>1, <4>3, <5>1, <5>2, Preferred
      <4> QED  BY <4>2, <4>3
    <3>2. linked = [asked EXCEPT !.exec[To[m]] = x]
      <4>1. linked = [asked EXCEPT !.exec[To[request.of]] = IF @ = NoExecution THEN target
                                                            ELSE PreferExecution(@, target, FALSE)]
        BY <2>2
      <4> HIDE DEF linked
      <4> QED  BY <4>1
    <3> HIDE DEF linked, x
    <3>3. /\ linked \in Store /\ linked.task = asked.task /\ linked.events = asked.events
          /\ linked.requests = asked.requests /\ linked.receipts = asked.receipts
          /\ linked.exec[To[m]] = x /\ \A t \in Sessions \ {To[m]} : linked.exec[t] = asked.exec[t]
      BY <1>1, <1>3, <3>1, <3>2, ExecReplaced
    <3> QED  BY <1>3, <3>1, <3>3
  <2> QED  BY <2>1, <2>2
<1> HIDE DEF linked
<1>8. \A t \in Sessions : r.exec[t].ended # 0 /\ linked.exec[t].ended = 0 =>
        t = To[m] /\ y[t] > r.exec[t].ended
  BY <1>6, <1>7
<1>9. Grew(r, linked, {request}, {m}, y)
  <2>1. \A t \in Sessions :
          /\ r.exec[t] # NoExecution => linked.exec[t] # NoExecution
          /\ linked.exec[t].continued \in {r.exec[t].continued, y[t]}
          /\ r.exec[t].ended # 0 /\ linked.exec[t].ended = 0 => y[t] > r.exec[t].ended
    BY <1>6, <1>7, <1>8
  <2> QED  BY <1>5, <1>7, <2>1 DEF Grew
<1>10. ASSUME z = r
       PROVE  Goal(z)
  <2> HIDE DEF Goal
  <2> QED  BY <1>2, <1>10
<1>11. ASSUME z = Applied(Noted(linked, e), e), e \notin r.events
       PROVE  Goal(z)
  <2> DEFINE v == Applied(Noted(linked, e), e)
  <2>1. e \notin linked.events
    BY <1>3, <1>7, <1>11
  <2>2. Heard(linked, v, e)
    BY <1>7, <2>1, NotedThenApplied
  <2> HIDE DEF v
  <2>3. v \in Store
    BY <2>2 DEF Heard
  <2>4. About(e) \subseteq {m} /\ {m} \subseteq {m}
    BY DEF About
  <2>5. /\ Grew(r, v, {request} \cup {e}, {m}, y)
        /\ \A t \in Sessions : r.exec[t].ended # 0 /\ v.exec[t].ended = 0 => linked.exec[t].ended = 0
    BY <1>7, <1>8, <1>9, <2>2, <2>3, <2>4, GrewThenHeard
  <2>6. /\ \A n \in v.receipts \ r.receipts :
             n = m /\ (v.exec[From[m]] = NoExecution \/ v.exec[From[m]].ended # 0)
        /\ v.task.owner # r.task.owner =>
             e.type = "accepted" /\ v.task.owner = To[m] /\ e \in v.events \ r.events
    BY <1>7, <1>11, <2>2 DEF Heard
  <2>7. \A t \in Sessions : r.exec[t].ended # 0 /\ v.exec[t].ended = 0 =>
          t = To[m] /\ target.continued > r.exec[t].ended
    BY <1>7, <1>6, <1>8, <2>5
  <2>8. {request} \cup {e} = {request, e}
    OBVIOUS
  <2>9. Goal(v)
    BY <2>5, <2>6, <2>7, <2>8
  <2> HIDE DEF Goal
  <2> QED  BY <1>11, <2>9 DEF v
<1>12. Goal(z)
  BY <1>0, <1>10, <1>11
<1> QED  BY <1>12 DEF z, y

\* The acceptance of a prepared handoff: what was captured and then the prepared chat.
LEMMA PreparedGrew ==
  ASSUME NEW r \in Store, NEW p, NEW z, NEW m \in Moves, NEW e, NEW a, NEW at, NEW y, From[m] # To[m],
         \A s \in Sessions : y[s] = IF s = To[m] THEN 0 ELSE With(r, From[m], at)[s],
         Grew(r, p, Only(e), Only(m), With(r, From[m], at)), Grew(p, z, Only(a), Only(m), With(p, To[m], 0)),
         \A s \in Sessions : r.exec[s].ended # 0 /\ p.exec[s].ended = 0 => s = From[m] /\ at > r.exec[s].ended,
         \A s \in Sessions : p.exec[s].ended # 0 => z.exec[s].ended # 0
  PROVE  Grew(r, z, {e, a}, {m}, y)
<1> DEFINE v == With(r, From[m], at)
           w == With(p, To[m], 0)
<1>1. /\ \A s \in Sessions : y[s] = IF s = To[m] THEN 0 ELSE v[s]
      /\ \A s \in Sessions : v[s] = IF s = From[m] THEN at ELSE r.exec[s].continued
      /\ \A s \in Sessions : w[s] = IF s = To[m] THEN 0 ELSE p.exec[s].continued
  BY DEF With
<1> HIDE DEF v, w
<1>2. Grew(r, p, {e}, {m}, v) /\ Grew(p, z, {a}, {m}, w)
  BY DEF v, w, Only
<1>3. /\ z \in Store
      /\ r.events \subseteq z.events /\ z.events \subseteq r.events \cup {e, a}
      /\ r.requests \subseteq z.requests
      /\ r.receipts \subseteq z.receipts /\ z.receipts \subseteq r.receipts \cup {m}
      /\ r.task # NoTask => z.task # NoTask
  BY <1>2 DEF Grew
<1>4. \A u \in z.requests \ r.requests :
        /\ u[1] \in {m} \/ <<u[1], u[1]>> \in r.requests
        /\ u[2] \in {m} \/ <<u[2], u[2]>> \in r.requests
  <2>1. \A u \in p.requests \ r.requests :
          /\ u[1] \in {m} \/ <<u[1], u[1]>> \in r.requests
          /\ u[2] \in {m} \/ <<u[2], u[2]>> \in r.requests
    BY <1>2 DEF Grew
  <2>2. \A u \in z.requests \ p.requests :
          /\ u[1] \in {m} \/ <<u[1], u[1]>> \in p.requests
          /\ u[2] \in {m} \/ <<u[2], u[2]>> \in p.requests
    BY <1>2 DEF Grew
  <2>3. \A n : <<n, n>> \in p.requests => n \in {m} \/ <<n, n>> \in r.requests
    BY <2>1
  <2> QED  BY <2>1, <2>2, <2>3
<1>5. \A s \in Sessions :
        /\ r.exec[s] # NoExecution => z.exec[s] # NoExecution
        /\ z.exec[s].continued \in {r.exec[s].continued, y[s]}
  <2>1. \A s \in Sessions : /\ r.exec[s] # NoExecution => p.exec[s] # NoExecution
                            /\ p.exec[s].continued \in {r.exec[s].continued, v[s]}
    BY <1>2 DEF Grew
  <2>2. \A s \in Sessions : /\ p.exec[s] # NoExecution => z.exec[s] # NoExecution
                            /\ z.exec[s].continued \in {p.exec[s].continued, w[s]}
    BY <1>2 DEF Grew
  <2> QED  BY <1>1, <2>1, <2>2
<1>6. \A s \in Sessions : r.exec[s].ended # 0 /\ z.exec[s].ended = 0 => y[s] > r.exec[s].ended
  BY <1>1
<1>7. Grew(r, z, {e, a}, {m}, y)
  BY <1>3, <1>4, <1>5, <1>6 DEF Grew
<1> QED  BY <1>7
-----------------------------------------------------------------------------
(* From one state to the next *)

\* What was sent stays sent, a chat that was made stays made, a word is not taken back.
Forward ==
  /\ net \subseteq net'
  /\ \A s \in Sessions : (Born(s) => Born(s)') /\ chat[s].continued <= chat'[s].continued

\* A request that was sent stays sent, and an event that is sound stays so.
LEMMA Onward ==
  ASSUME Forward
  PROVE  /\ \A m : Requested(m) => Requested(m)'
         /\ \A e \in Events : Sound(e) => Sound(e)'
<1>1. \A m : Requested(m) => Requested(m)'
  BY DEF Forward, Requested
<1>2. ASSUME NEW e \in Events, Sound(e)
      PROVE  Sound(e)'
  <2>1. e.type = "accepted" => To[e.of] \in Sessions
    BY EventKinds, TaskOwnershipAssumption
  <2>2. e.type = "accepted" => Born(To[e.of])'
    BY <1>2, <2>1 DEF Forward, Sound
  <2>3. e.type = "accepted" => Requested(e.of)'
    BY <1>1, <1>2 DEF Sound
  <2> QED  BY <1>2, <2>2, <2>3 DEF Forward, Sound
<1> QED  BY <1>1, <1>2

\* What is true of a store stays true of it while the others go on.
LEMMA SoundsNext ==
  ASSUME NEW r, Sounds(r), Forward, chat \in [Sessions -> Chat], chat' \in [Sessions -> Chat]
  PROVE  Sounds(r)'
<1>1. r \in Store /\ \A e \in r.events : e \in Events
  BY StoreParts DEF Sounds
<1>2. \A e \in r.events : Sound(e)'
  BY <1>1, Onward DEF Sounds
<1>3. /\ \A q \in r.requests : Requested(q[1])' /\ Requested(q[2])'
      /\ \A m \in r.receipts : Requested(m)'
  BY Onward DEF Sounds
<1>4. \A s \in Sessions : r.exec[s].continued <= chat'[s].continued
  <2>1. \A s \in Sessions : r.exec[s] \in Execution /\ chat[s] \in Chat /\ chat'[s] \in Chat
    BY <1>1, StoreParts
  <2>2. \A s \in Sessions : r.exec[s].continued \in Nat /\ chat[s].continued \in Nat /\ chat'[s].continued \in Nat
    BY <2>1, TaskOwnershipAssumption DEF Execution, Chat, Stamp
  <2>3. \A s \in Sessions : r.exec[s].continued <= chat[s].continued /\ chat[s].continued <= chat'[s].continued
    BY DEF Sounds, Forward
  <2> QED  BY <2>2, <2>3
<1> QED  BY <1>1, <1>2, <1>3, <1>4 DEF Sounds

\* It stays true of what the store grows into.
LEMMA SoundsGrows ==
  ASSUME NEW r, NEW z, NEW E, NEW A, NEW y, Sounds(r), Forward, Grew(r, z, E, A, y),
         chat \in [Sessions -> Chat], chat' \in [Sessions -> Chat],
         \A e \in E : Sound(e)', \A m \in A : Requested(m)',
         \A t \in Sessions : y[t] \in Nat /\ y[t] <= chat'[t].continued
  PROVE  Sounds(z)'
<1>1. Sounds(r)'
  BY SoundsNext
<1>2. z \in Store
  BY DEF Grew
<1>3. \A e \in z.events : Sound(e)'
  BY <1>1 DEF Sounds, Grew
<1>4. \A m : <<m, m>> \in r.requests => Requested(m)'
  BY <1>1 DEF Sounds
<1>5. \A q \in z.requests : Requested(q[1])' /\ Requested(q[2])'
  BY <1>1, <1>4 DEF Sounds, Grew
<1>6. \A m \in z.receipts : Requested(m)'
  BY <1>1 DEF Sounds, Grew
<1>7. \A s \in Sessions : z.exec[s].continued <= chat'[s].continued
  BY <1>1 DEF Sounds, Grew
<1> QED  BY <1>2, <1>3, <1>5, <1>6, <1>7 DEF Sounds

\* Another handoff of the same source, on one computer with it.
Offered(m) == \E n \in Moves \ {m} : From[n] = From[m] /\ Requested(n)

\* The source of a handoff stays closed, or one that may go on, while its store grows.
LEMMA SourceGrows ==
  ASSUME NEW r, NEW z, NEW E, NEW A, NEW y, NEW c, NEW m \in Moves,
         Sounds(r), Source(r, c, m), Forward, Grew(r, z, E, A, y),
         chat \in [Sessions -> Chat], chat' \in [Sessions -> Chat],
         \A t \in Sessions : y[t] \in Nat /\ y[t] <= chat'[t].continued,
         Home[From[m]] = c /\ m \in z.receipts \ r.receipts =>
           z.exec[From[m]].ended # 0 \/ (Home[To[m]] = c /\ Offered(m)'),
         Home[From[m]] = c /\ Requested(m)' /\ ~Requested(m) => z.exec[From[m]] # NoExecution /\ z.task # NoTask
  PROVE  Source(z, c, m)'
<1> DEFINE s == From[m]
<1>1. s \in Sessions
  BY TaskOwnershipAssumption
<1>2. /\ r \in Store /\ chat[s].continued \in Nat /\ chat'[s].continued \in Nat /\ r.exec[s].ended \in Nat
      /\ chat[s].continued <= chat'[s].continued /\ y[s] <= chat'[s].continued /\ y[s] \in Nat
  <2>1. r \in Store /\ chat[s] \in Chat /\ chat'[s] \in Chat
    BY <1>1 DEF Sounds
  <2>2. r.exec[s] \in Execution
    BY <1>1, <2>1, StoreParts
  <2> QED  BY <1>1, <2>1, <2>2, TaskOwnershipAssumption DEF Execution, Chat, Stamp, Time, Forward
<1>3. Offered(m) => Offered(m)'
  BY Onward DEF Offered
<1> HIDE DEF s
<1>4. SUFFICES ASSUME Home[From[m]] = c
               PROVE  /\ Requested(m)' => z.exec[From[m]] # NoExecution /\ z.task # NoTask
                      /\ m \in z.receipts =>
                           \/ z.exec[From[m]].ended # 0
                           \/ chat'[From[m]].continued # 0
                           \/ Alias(From[m])
                           \/ Home[To[m]] = c /\ Offered(m)'
  BY DEF Source, Offered
<1>5. Requested(m)' => z.exec[s] # NoExecution /\ z.task # NoTask
  BY <1>1, <1>4 DEF Source, Grew, s
<1>6. ASSUME m \in r.receipts
      PROVE  z.exec[s].ended # 0 \/ chat'[s].continued # 0 \/ Alias(s) \/ (Home[To[m]] = c /\ Offered(m)')
  <2>1. r.exec[s].ended # 0 \/ chat[s].continued # 0 \/ Alias(s) \/ (Home[To[m]] = c /\ Offered(m))
    BY <1>4, <1>6 DEF Source, Offered, s
  <2>2. r.exec[s].ended # 0 => z.exec[s].ended # 0 \/ y[s] > r.exec[s].ended \/ Alias(s)
    BY <1>1 DEF Grew
  <2>3. y[s] > r.exec[s].ended => chat'[s].continued # 0
    BY <1>2
  <2>4. chat[s].continued # 0 => chat'[s].continued # 0
    BY <1>2
  <2> QED  BY <1>3, <2>1, <2>2, <2>3, <2>4
<1> QED  BY <1>4, <1>5, <1>6 DEF s

\* What a computer knows stays known.
Kept ==
  \A d \in Computers :
    /\ store[d].events \subseteq store'[d].events
    /\ store[d].requests \subseteq store'[d].requests
    /\ \A s \in Sessions : store[d].exec[s] # NoExecution => store'[d].exec[s] # NoExecution

\* The source of a handoff in a store that does not change.
LEMMA SourceKept ==
  ASSUME NEW q, NEW d, NEW m \in Moves, Sounds(q), Source(q, d, m), Forward,
         chat \in [Sessions -> Chat], chat' \in [Sessions -> Chat],
         Home[From[m]] = d /\ Requested(m)' => Requested(m)
  PROVE  Source(q, d, m)'
<1>1. q \in Store
  BY DEF Sounds
<1>2. Grew(q, q, {}, {}, Consents(q))
  BY <1>1 DEF Grew, Consents
<1>3. \A t \in Sessions : Consents(q)[t] \in Nat /\ Consents(q)[t] <= chat'[t].continued
  <2>1. Sounds(q)'
    BY SoundsNext
  <2>2. \A t \in Sessions : q.exec[t] \in Execution /\ q.exec[t].continued <= chat'[t].continued
    BY <1>1, <2>1, StoreParts DEF Sounds
  <2>3. \A t \in Sessions : q.exec[t].continued \in Nat
    BY <2>2, TaskOwnershipAssumption DEF Execution, Stamp
  <2> QED  BY <2>2, <2>3 DEF Consents
<1> QED  BY <1>2, <1>3, SourceGrows

\* A step that changes one store.
LEMMA StoresStep ==
  ASSUME StoresInv, store \in [Computers -> Store], Forward,
         chat \in [Sessions -> Chat], chat' \in [Sessions -> Chat],
         NEW c \in Computers, NEW r, NEW z, NEW E, NEW A, NEW y,
         r = store[c], store' = [store EXCEPT ![c] = z], Grew(r, z, E, A, y),
         \A e \in E : Sound(e)', \A m \in A : Requested(m)',
         \A t \in Sessions : y[t] \in Nat /\ y[t] <= chat[t].continued,
         \A m \in Moves : Home[From[m]] = c /\ m \in z.receipts \ r.receipts =>
           z.exec[From[m]].ended # 0 \/ (Home[To[m]] = c /\ Offered(m)'),
         \A m \in Moves : Requested(m)' /\ ~Requested(m) =>
           Home[From[m]] = c /\ z.exec[From[m]] # NoExecution /\ z.task # NoTask
  PROVE  /\ StoresInv' /\ store' \in [Computers -> Store] /\ Kept
         /\ \A d \in Computers : StaysClosed(d)
         /\ \A d \in Computers \ {c} : NotTakenBack(d)
<1>1. Sounds(r) /\ \A m \in Moves : Source(r, c, m)
  BY DEF StoresInv
<1>2. z \in Store
  BY DEF Grew
<1>3. store' \in [Computers -> Store] /\ store'[c] = z /\ \A d \in Computers \ {c} : store'[d] = store[d]
  BY <1>2
<1>4. \A t \in Sessions : /\ chat[t].continued \in Nat /\ chat'[t].continued \in Nat
                          /\ y[t] \in Nat /\ y[t] <= chat'[t].continued
  <2>1. \A t \in Sessions : chat[t] \in Chat /\ chat'[t] \in Chat
    OBVIOUS
  <2>2. \A t \in Sessions : chat[t].continued \in Nat /\ chat'[t].continued \in Nat
    BY <2>1, TaskOwnershipAssumption DEF Chat, Stamp
  <2>3. \A t \in Sessions : chat[t].continued <= chat'[t].continued
    BY DEF Forward
  <2> QED  BY <2>2, <2>3
<1>5. Sounds(z)'
  BY <1>1, <1>4, SoundsGrows
<1>6. \A m \in Moves : Source(z, c, m)'
  BY <1>1, <1>4, SourceGrows
<1>7. ASSUME NEW d \in Computers
      PROVE  Sounds(store[d])' /\ \A m \in Moves : Source(store[d], d, m)'
  <2>1. CASE d = c
    <3>1. store'[d] = z
      BY <1>3, <2>1
    <3>2. Sounds(store[d])'
      BY <1>5, <3>1 DEF Sounds
    <3>3. \A m \in Moves : Source(store[d], d, m)'
      BY <1>6, <2>1, <3>1 DEF Source
    <3> QED  BY <3>2, <3>3
  <2>2. CASE d # c
    <3>1. PICK q : q = store[d]
      OBVIOUS
    <3>2. store'[d] = q
      BY <1>3, <2>2, <3>1
    <3>3. Sounds(q) /\ \A m \in Moves : Source(q, d, m)
      BY <3>1 DEF StoresInv
    <3>4. Sounds(q)'
      BY <3>3, SoundsNext
    <3>5. Sounds(store[d])'
      BY <3>2, <3>4 DEF Sounds
    <3>6. \A m \in Moves : Source(q, d, m)'
      BY <2>2, <3>3, SourceKept
    <3>7. \A m \in Moves : Source(store[d], d, m)'
      BY <3>2, <3>6 DEF Source
    <3> QED  BY <3>5, <3>7
  <2> QED  BY <2>1, <2>2
<1>8. StoresInv'
  BY <1>7 DEF StoresInv
<1>9. Kept
  <2>1. /\ r.events \subseteq z.events /\ r.requests \subseteq z.requests
        /\ \A s \in Sessions : r.exec[s] # NoExecution => z.exec[s] # NoExecution
    BY DEF Grew
  <2> QED  BY <1>3, <2>1 DEF Kept
<1>10. ASSUME NEW d \in Computers
       PROVE  StaysClosed(d)
  <2>1. CASE d = c
    <3>1. \A s \in Sessions : r.exec[s].ended # 0 /\ z.exec[s].ended = 0 =>
            y[s] > r.exec[s].ended \/ (Alias(s) /\ z.task.owner = s)
      BY DEF Grew
    <3>2. \A s \in Sessions : r.exec[s].ended \in Nat
      BY <1>1, StoreParts DEF Sounds, Execution, Time
    <3>3. \A s \in Sessions : y[s] > r.exec[s].ended => chat[s].continued > r.exec[s].ended
      BY <1>4, <3>2
    <3> QED  BY <1>3, <2>1, <3>1, <3>3 DEF StaysClosed
  <2>2. CASE d # c
    BY <1>3, <2>2 DEF StaysClosed
  <2> QED  BY <2>1, <2>2
<1>11. \A d \in Computers \ {c} : NotTakenBack(d)
  BY <1>3 DEF NotTakenBack
<1> QED  BY <1>3, <1>8, <1>9, <1>10, <1>11

\* A step that changes no store.
LEMMA StoresKept ==
  ASSUME StoresInv, store \in [Computers -> Store], Forward, store' = store,
         chat \in [Sessions -> Chat], chat' \in [Sessions -> Chat],
         \A m \in Moves : Requested(m)' => Requested(m)
  PROVE  /\ StoresInv' /\ Kept
         /\ \A d \in Computers : NotTakenBack(d) /\ StaysClosed(d)
<1>1. ASSUME NEW d \in Computers
      PROVE  Sounds(store[d])' /\ \A m \in Moves : Source(store[d], d, m)'
  <2>1. PICK q : q = store[d]
    OBVIOUS
  <2>2. Sounds(q) /\ \A m \in Moves : Source(q, d, m)
    BY <2>1 DEF StoresInv
  <2>3. Sounds(q)'
    BY <2>2, SoundsNext
  <2>4. \A m \in Moves : Source(q, d, m)'
    BY <2>2, SourceKept
  <2>5. store'[d] = q
    BY <2>1
  <2> QED  BY <2>3, <2>4, <2>5 DEF Sounds, Source
<1>2. StoresInv'
  BY <1>1 DEF StoresInv
<1> QED  BY <1>2 DEF Kept, NotTakenBack, StaysClosed

\* What a step leaves of a handoff that it is not of.
LEMMA MoveKept ==
  ASSUME NEW m \in Moves, MoveInv(m), Kept, Requested(m)' => Requested(m),
         Requested(m) /\ chat[From[m]].life \notin {"unborn", "prepared"} =>
           chat'[From[m]].life \notin {"unborn", "prepared"},
         m \in starting' => m \in starting, Born(To[m])' <=> Born(To[m]),
         answer[m] # Unanswered => answer'[m] # Unanswered
  PROVE  MoveInv(m)'
<1> DEFINE d == Home[To[m]]
<1>1. d \in Computers
  BY TaskOwnershipAssumption
<1>2. /\ AskedAt(store[d], m) => AskedAt(store[d], m)'
      /\ <<m, m>> \in store[d].requests => <<m, m>> \in store'[d].requests
  BY <1>1 DEF AskedAt, Kept
<1>3. Requested(m)' => chat'[From[m]].life \notin {"unborn", "prepared"}
  BY DEF MoveInv
<1>4. m \in starting' => ~Born(To[m])' /\ AskedAt(store[d], m)' /\ <<m, m>> \in store'[d].requests
  BY <1>2 DEF MoveInv
<1>5. Born(To[m])' => IF m \in Prepared THEN answer'[m] # Unanswered ELSE AskedAt(store[d], m)'
  BY <1>2 DEF MoveInv
<1> QED  BY <1>3, <1>4, <1>5 DEF MoveInv

\* What a step leaves of the job and the answer of a prepared handoff.
LEMMA JobKept ==
  ASSUME NEW m \in Moves, JobInv(m), Kept, Forward, TypeOK, chat' \in [Sessions -> Chat],
         job'[m] = job[m], answer'[m] = answer[m]
  PROVE  JobInv(m)'
<1>1. To[m] \in Sessions /\ From[m] \in Sessions /\ Home[To[m]] \in Computers
  BY TaskOwnershipAssumption
<1>2. job[m].exec.continued <= chat[From[m]].continued => job[m].exec.continued <= chat'[From[m]].continued
  <2>1. job[m].exec \in Execution /\ chat[From[m]] \in Chat /\ chat'[From[m]] \in Chat
    BY <1>1 DEF TypeOK
  <2>2. /\ job[m].exec.continued \in Nat /\ chat[From[m]].continued \in Nat /\ chat'[From[m]].continued \in Nat
    BY <2>1, TaskOwnershipAssumption DEF Execution, Chat, Stamp
  <2>3. chat[From[m]].continued <= chat'[From[m]].continued
    BY <1>1 DEF Forward
  <2> QED  BY <2>2, <2>3
<1>3. /\ Born(To[m]) => Born(To[m])'
      /\ store[Home[To[m]]].exec[To[m]] # NoExecution => store'[Home[To[m]]].exec[To[m]] # NoExecution
  BY <1>1 DEF Forward, Kept
<1>4. Event("request", m, job[m].at) \in net => Event("request", m, job[m].at) \in net'
  BY DEF Forward
<1> QED  BY <1>2, <1>3, <1>4 DEF JobInv

\* A step that sends no request keeps what is known of the events under way.
LEMMA NetKept ==
  ASSUME NetInv, Forward, chat \in [Sessions -> Chat], chat' \in [Sessions -> Chat], net \subseteq Events,
         copy' = copy, \A e \in net' \ net : Sound(e)' /\ e.type # "request"
  PROVE  NetInv' /\ \A m \in Moves : Requested(m)' => Requested(m)
<1>1. Sounds(copy)'
  <2>1. PICK q : q = copy
    OBVIOUS
  <2>2. Sounds(q)'
    BY <2>1, SoundsNext DEF NetInv
  <2> QED  BY <2>1, <2>2 DEF Sounds
<1>2. \A e \in net' : Sound(e)'
  BY Onward DEF NetInv
<1>3. \A m \in Moves, at \in Time : Event("request", m, at) \in net' => Event("request", m, at) \in net
  BY DEF Event
<1>4. \A m \in Moves : Requested(m)' => Requested(m)
  BY <1>3 DEF Requested
<1> QED  BY <1>1, <1>2, <1>3, <1>4 DEF NetInv

\* A step after which the invariant holds, and which takes nothing back.
StepOK == OwnershipInv' /\ \A c \in Computers : NotTakenBack(c) /\ StaysClosed(c)

\* A step that asks for no handoff, makes no chat and answers no prepared handoff.
LEMMA Stepped ==
  ASSUME OwnershipInv, Forward, Kept, StoresInv', ChatsInv', NetInv',
         store' \in [Computers -> Store], chat' \in [Sessions -> Chat], net' \in SUBSET Events, copy' \in Store,
         now' \in Time, now' # 0, instance' \in Instance, job' = job, answer' = answer,
         \A m \in Moves : Requested(m)' => Requested(m),
         \A s \in Sessions : /\ Born(s)' <=> Born(s)
                             /\ chat[s].life \notin {"unborn", "prepared"} => chat'[s].life \notin {"unborn", "prepared"},
         starting' \subseteq Moves \ Prepared,
         \A m \in starting' \ starting :
           ~Born(To[m])' /\ AskedAt(store[Home[To[m]]], m)' /\ <<m, m>> \in store'[Home[To[m]]].requests
  PROVE  OwnershipInv'
<1>1. TypeOK /\ \A m \in Moves : MoveInv(m) /\ JobInv(m)
  BY DEF OwnershipInv
<1>2. TypeOK'
  BY <1>1 DEF TypeOK
<1>3. \A m \in Moves : From[m] \in Sessions /\ To[m] \in Sessions
  BY TaskOwnershipAssumption
<1>4. ASSUME NEW m \in Moves
      PROVE  MoveInv(m)'
  <2>1. CASE m \in starting' => m \in starting
    BY <1>1, <1>3, <2>1, MoveKept
  <2>2. CASE m \in starting' \ starting
    <3>1. m \notin Prepared
      BY <2>2
    <3>2. Requested(m)' => chat'[From[m]].life \notin {"unborn", "prepared"}
      BY <1>1, <1>3 DEF MoveInv
    <3> QED  BY <2>2, <3>1, <3>2 DEF MoveInv
  <2> QED  BY <2>1, <2>2
<1>5. \A m \in Moves : JobInv(m)'
  BY <1>1, JobKept
<1> QED  BY <1>2, <1>4, <1>5 DEF OwnershipInv

\* The steps that change one store, and nothing else but which agents are started.
LEMMA OneStore ==
  ASSUME OwnershipInv, UNCHANGED <<chat, job, answer, net, copy, now, instance>>,
         NEW c \in Computers, NEW r, NEW z, NEW E, NEW A, NEW y,
         r = store[c], store' = [store EXCEPT ![c] = z], Grew(r, z, E, A, y),
         \A e \in E : Sound(e), \A m \in A : Requested(m),
         \A t \in Sessions : y[t] \in Nat /\ y[t] <= chat[t].continued,
         \A m \in z.receipts \ r.receipts : Home[From[m]] = c => z.exec[From[m]].ended # 0,
         starting' \subseteq Moves \ Prepared,
         \A m \in starting' \ starting :
           ~Born(To[m]) /\ Home[To[m]] = c /\ AskedAt(z, m) /\ <<m, m>> \in z.requests,
         NotTakenBack(c)
  PROVE  StepOK
<1>1. TypeOK /\ now # 0 /\ StoresInv /\ ChatsInv /\ NetInv
  BY DEF OwnershipInv
<1>2. /\ store \in [Computers -> Store] /\ chat \in [Sessions -> Chat] /\ chat' \in [Sessions -> Chat]
      /\ net \subseteq Events
  BY <1>1 DEF TypeOK
<1>3. Forward
  <2>1. \A s \in Sessions : chat[s].continued \in Nat
    BY <1>2, TaskOwnershipAssumption DEF Chat, Stamp
  <2>2. \A s \in Sessions : chat[s].continued <= chat'[s].continued
    BY <2>1
  <2> QED  BY <2>2 DEF Forward, Born
<1>4. NetInv' /\ \A m \in Moves : Requested(m)' => Requested(m)
  BY <1>1, <1>2, <1>3, NetKept
<1>5. (\A e \in E : Sound(e)') /\ \A m \in A : Requested(m)'
  BY DEF Sound, Requested, Born
<1>6. /\ StoresInv' /\ store' \in [Computers -> Store] /\ Kept
      /\ \A d \in Computers : StaysClosed(d)
      /\ \A d \in Computers \ {c} : NotTakenBack(d)
  <2>1. \A m \in Moves : Home[From[m]] = c /\ m \in z.receipts \ r.receipts =>
          z.exec[From[m]].ended # 0 \/ (Home[To[m]] = c /\ Offered(m)')
    OBVIOUS
  <2>2. \A m \in Moves : Requested(m)' /\ ~Requested(m) =>
          Home[From[m]] = c /\ z.exec[From[m]] # NoExecution /\ z.task # NoTask
    BY <1>4
  <2> QED  BY <1>1, <1>2, <1>3, <1>5, <2>1, <2>2, StoresStep
<1>7. ChatsInv' /\ \A s \in Sessions : Born(s)' <=> Born(s)
  BY <1>1 DEF ChatsInv, Born
<1>8. \A m \in starting' \ starting :
        ~Born(To[m])' /\ AskedAt(store[Home[To[m]]], m)' /\ <<m, m>> \in store'[Home[To[m]]].requests
  <2>1. store'[c] = z
    BY <1>2
  <2> QED  BY <2>1 DEF Born, AskedAt
<1>9. copy' \in Store /\ now' \in Time /\ now' # 0 /\ instance' \in Instance
  BY <1>1 DEF TypeOK
<1>10. OwnershipInv'
  BY <1>2, <1>3, <1>4, <1>6, <1>7, <1>8, <1>9, Stepped
<1> QED  BY <1>6, <1>10 DEF StepOK
-----------------------------------------------------------------------------
(* The steps *)

\* What the person asked of the chats, read from a store, from the chats, or captured.
LEMMA Words ==
  ASSUME chat \in [Sessions -> Chat]
  PROVE  /\ \A t \in Sessions : chat[t].continued \in Nat
         /\ \A r : Sounds(r) => \A t \in Sessions :
              Consents(r)[t] \in Nat /\ Consents(r)[t] <= chat[t].continued
         /\ \A r : Sounds(r) => \A s \in Sessions, x \in Nat : x <= chat[s].continued =>
              \A t \in Sessions : With(r, s, x)[t] \in Nat /\ With(r, s, x)[t] <= chat[t].continued
<1>1. \A t \in Sessions : chat[t].continued \in Nat
  BY TaskOwnershipAssumption DEF Chat, Stamp
<1>2. \A r : Sounds(r) => \A t \in Sessions : r.exec[t].continued \in Nat /\ r.exec[t].continued <= chat[t].continued
  BY StoreParts, TaskOwnershipAssumption DEF Sounds, Execution, Stamp
<1> QED  BY <1>1, <1>2 DEF Consents, With

\* Where a pass of the catalog takes the Task back for a chat that handed it on.
LEMMA PassTakes ==
  ASSUME OwnershipInv, NEW c \in Computers, NEW r, NEW z, r = store[c], Passed(r, c, z),
         NEW m \in Moves, m \in r.receipts, r.task.owner # From[m], z.task.owner = From[m]
  PROVE  \/ chat[From[m]].continued # 0
         \/ Alias(From[m]) /\ r.exec[From[m]].ended = 0
         \/ Home[To[m]] = c /\ \E n \in Moves \ {m} : From[n] = From[m] /\ Requested(n)
<1>1. chat \in [Sessions -> Chat] /\ r \in Store /\ Sounds(r)
  BY DEF OwnershipInv, TypeOK, StoresInv
<1>2. From[m] \in Sessions /\ Home[From[m]] = c /\ z.exec[From[m]].ended = 0
  BY DEF Passed
<1>3. Requested(m) /\ chat[From[m]].life \notin {"unborn", "prepared"}
  BY <1>1 DEF Sounds, OwnershipInv, MoveInv
<1>4. \/ r.exec[From[m]].ended # 0
      \/ chat[From[m]].continued # 0
      \/ Alias(From[m])
      \/ Home[To[m]] = c /\ \E n \in Moves \ {m} : From[n] = From[m] /\ Requested(n)
  BY <1>2 DEF OwnershipInv, StoresInv, Source
<1>5. r.exec[From[m]].ended # 0 => chat[From[m]].continued > r.exec[From[m]].ended
  BY <1>2, <1>3 DEF Passed
<1>6. r.exec[From[m]].ended \in Nat /\ chat[From[m]].continued \in Nat
  BY <1>1, <1>2, StoreParts, Words DEF Execution, Time
<1> QED  BY <1>4, <1>5, <1>6

\* Read: the catalog reads the chats of its computer.
LEMMA ReadStep ==
  ASSUME OwnershipInv, NEW c \in Computers, Read(c), UNCHANGED instance
  PROVE  StepOK
<1>1. /\ chat \in [Sessions -> Chat] /\ now \in Time /\ now # 0
      /\ store \in [Computers -> Store] /\ starting \subseteq Moves \ Prepared
  BY DEF OwnershipInv, TypeOK
<1>2. PICK r : r = store[c]
  OBVIOUS
<1>3. PICK z \in Readings(r, c) : store' = [store EXCEPT ![c] = z]
  BY <1>2 DEF Read
<1>4. r \in Store /\ Sounds(r)
  BY <1>1, <1>2 DEF OwnershipInv, StoresInv
<1>5. Passed(r, c, z)
  BY <1>1, <1>4, ReadingsPassed
<1> DEFINE y == [t \in Sessions |-> chat[t].continued]
           E == {}
           A == {}
<1>6. Grew(r, z, E, A, y)
  BY <1>4, <1>5, PassedGrew
<1>7. \A t \in Sessions : y[t] \in Nat /\ y[t] <= chat[t].continued
  BY <1>1, Words
<1>8. z.receipts = r.receipts
  BY <1>5 DEF Passed
<1>9. NotTakenBack(c)
  BY <1>1, <1>2, <1>3, <1>5, PassTakes DEF NotTakenBack
<1>10. UNCHANGED <<chat, starting, job, answer, net, copy, now, instance>>
  BY DEF Read
<1>11. /\ \A e \in E : Sound(e)
       /\ \A m \in A : Requested(m)
       /\ \A m \in z.receipts \ r.receipts : Home[From[m]] = c => z.exec[From[m]].ended # 0
       /\ starting' \subseteq Moves \ Prepared
       /\ \A m \in starting' \ starting :
            ~Born(To[m]) /\ Home[To[m]] = c /\ AskedAt(z, m) /\ <<m, m>> \in z.requests
  BY <1>1, <1>8, <1>10
<1> HIDE DEF y, E, A
<1> QED  BY <1>2, <1>3, <1>6, <1>7, <1>9, <1>10, <1>11, OneStore

\* Exchange and Late: a snapshot is merged.
LEMMA ExchangeStep ==
  ASSUME OwnershipInv, NEW d \in Computers, NEW q, Sounds(q),
         q = copy \/ \E c \in Computers \ {d} : q = store[c],
         store' = [store EXCEPT ![d] = Merged(@, q)],
         UNCHANGED <<chat, starting, job, answer, net, copy, now, instance>>
  PROVE  StepOK
<1>1. chat \in [Sessions -> Chat] /\ store \in [Computers -> Store] /\ starting \subseteq Moves \ Prepared
  BY DEF OwnershipInv, TypeOK
<1>2. PICK r : r = store[d]
  OBVIOUS
<1>3. PICK z : z = Merged(r, q)
  OBVIOUS
<1>4. store' = [store EXCEPT ![d] = z]
  BY <1>1, <1>2, <1>3
<1>5. r \in Store /\ q \in Store
  BY <1>1, <1>2 DEF Sounds
<1>6. Grew(r, z, q.events, Known(q.requests), Consents(q))
  BY <1>3, <1>5, MergedGrew
<1>7. \A t \in Sessions : Consents(q)[t] \in Nat /\ Consents(q)[t] <= chat[t].continued
  BY <1>1, Words
<1>8. z.receipts = r.receipts
  BY <1>3 DEF Merged
<1>9. (\A e \in q.events : Sound(e)) /\ \A m \in Known(q.requests) : Requested(m)
  BY DEF Sounds, Known
<1>10. NotTakenBack(d)
  <2>1. SUFFICES ASSUME NEW m \in Moves, r.task.owner \notin {None, From[m]}, z.task.owner = From[m]
                 PROVE  (\E c \in Computers \ {d} : store[c].task.owner = From[m]) \/ copy.task.owner = From[m]
    BY <1>1, <1>2, <1>4 DEF NotTakenBack
  <2>2. r.task # NoTask
    BY <2>1 DEF NoTask
  <2>3. z.task \in {r.task, q.task}
    BY <1>3, <1>5, <2>2, MergedTask
  <2> QED  BY <2>1, <2>3
<1> QED  BY <1>1, <1>2, <1>4, <1>6, <1>7, <1>8, <1>9, <1>10, OneStore

\* Deliver: an event arrives.
LEMMA DeliverStep ==
  ASSUME OwnershipInv, NEW c \in Computers, NEW e \in net, Deliver(c, e), UNCHANGED instance
  PROVE  StepOK
<1>1. /\ chat \in [Sessions -> Chat] /\ store \in [Computers -> Store] /\ starting \subseteq Moves \ Prepared
      /\ e \in Events /\ NetInv /\ Sound(e)
  BY DEF OwnershipInv, TypeOK, NetInv
<1>2. PICK r : r = store[c]
  OBVIOUS
<1>3. PICK z : z = Accept(r, e)
  OBVIOUS
<1>4. /\ store' = [store EXCEPT ![c] = z] /\ e \notin r.events
      /\ ~(e.type = "request" /\ e.of \in Prepared /\ Home[To[e.of]] = c)
      /\ starting' = IF e.type = "request" /\ Home[To[e.of]] = c THEN starting \cup {e.of} ELSE starting
  BY <1>1, <1>2, <1>3 DEF Deliver
<1>5. r \in Store /\ Sounds(r)
  BY <1>1, <1>2 DEF OwnershipInv, StoresInv
<1>6. Heard(r, z, e)
  BY <1>1, <1>3, <1>5, AcceptFacts DEF Sound
<1> DEFINE E == {e}
<1>7. Grew(r, z, E, About(e), Consents(r))
  BY <1>1, <1>5, <1>6, HeardGrew DEF Heard
<1>8. \A t \in Sessions : Consents(r)[t] \in Nat /\ Consents(r)[t] <= chat[t].continued
  BY <1>1, <1>5, Words
<1>9. \A m \in About(e) : Requested(m)
  <2>1. SUFFICES ASSUME e.type = "request"
                 PROVE  Requested(e.of)
    BY <1>1 DEF About, Sound
  <2>2. e = Event("request", e.of, e.at) /\ e.at \in Time
    BY <1>1, <2>1 DEF Events, Event
  <2> QED  BY <2>2 DEF Requested
<1>10. \A m \in z.receipts \ r.receipts : Home[From[m]] = c => z.exec[From[m]].ended # 0
  <2>1. SUFFICES ASSUME NEW m \in z.receipts \ r.receipts, Home[From[m]] = c
                 PROVE  z.exec[From[m]].ended # 0
    OBVIOUS
  <2>2. e.type = "accepted" /\ m = e.of /\ (z.exec[From[m]] = NoExecution \/ z.exec[From[m]].ended # 0)
    BY <1>6, <2>1 DEF Heard
  <2>3. m \in Moves /\ Requested(m) /\ From[m] \in Sessions
    BY <1>1, <2>2, EventKinds, TaskOwnershipAssumption DEF Sound
  <2>4. r.exec[From[m]] # NoExecution
    BY <1>2, <2>1, <2>3 DEF OwnershipInv, StoresInv, Source
  <2> QED  BY <1>7, <2>2, <2>3, <2>4 DEF Grew
<1>11. NotTakenBack(c)
  <2>1. SUFFICES ASSUME NEW m \in Moves, r.task.owner # From[m], z.task.owner = From[m]
                 PROVE  \E a \in z.events \ r.events : a.type = "accepted" /\ To[a.of] = From[m]
    BY <1>1, <1>2, <1>4 DEF NotTakenBack
  <2>2. e.type = "accepted" /\ z.task.owner = To[e.of] /\ e \in z.events
    BY <1>6, <2>1 DEF Heard
  <2> QED  BY <1>4, <2>1, <2>2
<1>12. \A m \in starting' \ starting :
         m \notin Prepared /\ m \in Moves /\ ~Born(To[m]) /\ Home[To[m]] = c /\ AskedAt(z, m) /\ <<m, m>> \in z.requests
  <2>1. SUFFICES ASSUME e.type = "request", Home[To[e.of]] = c
                 PROVE  /\ e.of \notin Prepared /\ e.of \in Moves
                        /\ ~Born(To[e.of]) /\ AskedAt(z, e.of) /\ <<e.of, e.of>> \in z.requests
    BY <1>4
  <2>2. e.of \notin Prepared /\ e.of \in Moves /\ e = Event("request", e.of, e.at) /\ e.at \in Time
    BY <1>1, <1>4, <2>1 DEF Events, Event
  <2>3. e \in z.events /\ <<e.of, e.of>> \in z.requests
    BY <1>4, <1>6, <2>1 DEF Heard
  <2>4. ~AskedAt(r, e.of)
    <3>1. \A at \in Time : Event("request", e.of, at) \in r.events => Event("request", e.of, at) \in net
      BY <1>5 DEF Sounds, Sound, Event
    <3>2. \A at \in Time : Event("request", e.of, at) \in r.events => at = e.at
      BY <1>1, <2>2, <3>1 DEF NetInv
    <3> QED  BY <1>4, <2>2, <3>2 DEF AskedAt
  <2>5. ~Born(To[e.of])
    BY <1>2, <2>1, <2>2, <2>4 DEF OwnershipInv, MoveInv
  <2> QED  BY <2>2, <2>3, <2>5 DEF AskedAt
<1>13. UNCHANGED <<chat, job, answer, net, copy, now, instance>>
  BY DEF Deliver
<1>14. starting' \subseteq Moves \ Prepared
  BY <1>1, <1>12
<1>15. /\ \A x \in E : Sound(x)
       /\ store' = [store EXCEPT ![c] = z]
       /\ \A m \in starting' \ starting :
            ~Born(To[m]) /\ Home[To[m]] = c /\ AskedAt(z, m) /\ <<m, m>> \in z.requests
  BY <1>1, <1>4, <1>12
<1> HIDE DEF E
<1> QED  BY <1>2, <1>7, <1>8, <1>9, <1>10, <1>11, <1>13, <1>14, <1>15, OneStore

\* The clock stays in its bounds.
LEMMA Ticks ==
  ASSUME TypeOK, Passes
  PROVE  now' \in Time /\ now' # 0
<1>1. now \in Time /\ instance.until \in 1 .. MaxNow /\ MaxNow \in Nat /\ now < instance.until /\ now' = now + 1
  BY TaskOwnershipAssumption DEF TypeOK, Instance, Passes
<1> QED  BY <1>1 DEF Time

\* The steps that change no store and send nothing.
LEMMA ChatsOnly ==
  ASSUME OwnershipInv, UNCHANGED <<store, starting, job, answer, net, instance>>,
         NetInv', copy' \in Store,
         chat' \in [Sessions -> Chat], ChatsInv', now' \in Time, now' # 0,
         \A s \in Sessions :
           /\ Born(s)' <=> Born(s)
           /\ chat[s].life \notin {"unborn", "prepared"} => chat'[s].life \notin {"unborn", "prepared"}
           /\ chat[s].continued <= chat'[s].continued
  PROVE  StepOK
<1>1. TypeOK /\ StoresInv
  BY DEF OwnershipInv
<1>2. /\ store \in [Computers -> Store] /\ chat \in [Sessions -> Chat] /\ net' \in SUBSET Events
      /\ starting' \subseteq Moves \ Prepared /\ instance' \in Instance
  BY <1>1 DEF TypeOK
<1>3. Forward
  BY DEF Forward
<1>4. \A m \in Moves : Requested(m)' => Requested(m)
  BY DEF Requested
<1>5. StoresInv' /\ Kept /\ \A d \in Computers : NotTakenBack(d) /\ StaysClosed(d)
  BY <1>1, <1>2, <1>3, <1>4, StoresKept
<1>6. OwnershipInv'
  BY <1>2, <1>3, <1>4, <1>5, Stepped
<1> QED  BY <1>5, <1>6 DEF StepOK

\* Work and Close: a chat goes on, or is closed.
LEMMA WorkStep ==
  ASSUME OwnershipInv, NEW s \in Sessions, Work(s) \/ Close(s), UNCHANGED instance
  PROVE  StepOK
<1>1. TypeOK /\ ChatsInv /\ NetInv
  BY DEF OwnershipInv
<1>2. chat \in [Sessions -> Chat] /\ copy \in Store /\ net \subseteq Events
  BY <1>1 DEF TypeOK
<1>3. now' \in Time /\ now' # 0
  BY <1>1, Ticks DEF Work, Close
<1>4. UNCHANGED <<store, starting, job, answer, net, copy, instance>>
  BY DEF Work, Close
<1>5. PICK life \in {"idle", "working", "gone"}, at \in Time :
        /\ chat' = [chat EXCEPT ![s].life = life, ![s].at = at]
        /\ chat[s].life # "unborn" /\ at # 0
  <2>1. CASE Work(s)
    <3> DEFINE life == IF chat[s].life = "working" THEN "idle" ELSE "working"
    <3>1. chat' = [chat EXCEPT ![s].life = life, ![s].at = now']
      BY <2>1 DEF Work
    <3>2. life \in {"idle", "working", "gone"} /\ chat[s].life # "unborn"
      BY <2>1 DEF Work
    <3> HIDE DEF life
    <3> QED  BY <1>3, <3>1, <3>2
  <2>2. CASE Close(s)
    <3>1. chat' = [chat EXCEPT ![s].life = "gone", ![s].at = chat[s].at]
      BY <1>2, <2>2 DEF Close, Chat
    <3>2. chat[s].life # "unborn" /\ chat[s].at # 0 /\ chat[s].at \in Time
      BY <1>1, <1>2, <2>2 DEF Close, Alive, ChatsInv, Chat
    <3> QED  BY <3>1, <3>2
  <2> QED  BY <2>1, <2>2
<1>6. chat' \in [Sessions -> Chat]
  BY <1>2, <1>5 DEF Chat
<1>7. \A t \in Sessions : /\ chat'[t].continued = chat[t].continued
                          /\ t # s => chat'[t] = chat[t]
  BY <1>2, <1>5 DEF Chat
<1>8. chat'[s].life = life /\ chat'[s].at = at
  BY <1>2, <1>5 DEF Chat
<1>9. ASSUME NEW t \in Sessions
      PROVE  /\ Born(t)' <=> Born(t)
             /\ chat[t].life \notin {"unborn", "prepared"} => chat'[t].life \notin {"unborn", "prepared"}
             /\ chat[t].continued <= chat'[t].continued
             /\ IF chat'[t].life = "unborn" THEN chat'[t].continued = 0 ELSE chat'[t].at # 0
  <2>1. chat[t].continued \in Nat
    BY <1>2, Words
  <2>2. CASE t = s
    <3>1. chat'[t].life = life /\ chat'[t].at = at /\ chat[t].life # "unborn" /\ at # 0
      BY <1>5, <1>8, <2>2
    <3>2. chat'[t].continued = chat[t].continued
      BY <1>7
    <3> QED  BY <2>1, <3>1, <3>2 DEF Born
  <2>3. CASE t # s
    <3>1. chat'[t] = chat[t]
      BY <1>7, <2>3
    <3> QED  BY <1>1, <2>1, <3>1 DEF Born, ChatsInv
  <2> QED  BY <2>2, <2>3
<1>10. ChatsInv'
  BY <1>9 DEF ChatsInv
<1>11. NetInv'
  <2>1. Forward
    BY <1>4, <1>9 DEF Forward
  <2> QED  BY <1>1, <1>2, <1>4, <1>6, <2>1, NetKept
<1> QED  BY <1>2, <1>3, <1>4, <1>6, <1>9, <1>10, <1>11, ChatsOnly

\* What changes of a chat is only that the person asked for it.
LEMMA Consented ==
  ASSUME OwnershipInv, NEW s \in Sessions, NEW at \in Stamp, Born(s), chat[s].continued <= at,
         chat' = [chat EXCEPT ![s].continued = at], net' = net, copy' = copy
  PROVE  /\ chat' \in [Sessions -> Chat] /\ ChatsInv' /\ NetInv' /\ Forward
         /\ \A t \in Sessions :
              /\ Born(t)' <=> Born(t)
              /\ chat[t].life \notin {"unborn", "prepared"} => chat'[t].life \notin {"unborn", "prepared"}
              /\ chat[t].continued <= chat'[t].continued
<1>1. TypeOK /\ ChatsInv /\ NetInv
  BY DEF OwnershipInv
<1>2. chat \in [Sessions -> Chat] /\ net \subseteq Events
  BY <1>1 DEF TypeOK
<1>3. chat' \in [Sessions -> Chat]
  BY <1>2 DEF Chat
<1>4. \A t \in Sessions : /\ chat'[t].life = chat[t].life /\ chat'[t].at = chat[t].at
                          /\ t # s => chat'[t] = chat[t]
  BY <1>2 DEF Chat
<1>5. chat'[s].continued = at
  BY <1>2 DEF Chat
<1>6. ASSUME NEW t \in Sessions
      PROVE  /\ Born(t)' <=> Born(t)
             /\ chat[t].life \notin {"unborn", "prepared"} => chat'[t].life \notin {"unborn", "prepared"}
             /\ chat[t].continued <= chat'[t].continued
             /\ IF chat'[t].life = "unborn" THEN chat'[t].continued = 0 ELSE chat'[t].at # 0
  <2>1. chat[t].continued \in Nat
    BY <1>2, Words
  <2> QED  BY <1>1, <1>4, <1>5, <2>1 DEF Born, ChatsInv
<1>7. ChatsInv'
  BY <1>6 DEF ChatsInv
<1>8. Forward
  BY <1>6 DEF Forward
<1>9. NetInv'
  BY <1>1, <1>2, <1>3, <1>8, NetKept
<1> QED  BY <1>3, <1>6, <1>7, <1>8, <1>9

\* Continue: the person continues the source.
LEMMA ContinueStep ==
  ASSUME OwnershipInv, NEW m \in Moves, Continue(m), UNCHANGED instance
  PROVE  StepOK
<1>1. TypeOK /\ JobInv(m) /\ MoveInv(m)
  BY DEF OwnershipInv
<1>2. now' \in Time /\ now' # 0 /\ From[m] \in Sessions
  BY <1>1, Ticks, TaskOwnershipAssumption DEF Continue
<1>3. /\ chat' = [chat EXCEPT ![From[m]].continued = now'] /\ job[m] # NoJob /\ chat[From[m]].continued = 0
      /\ UNCHANGED <<store, starting, job, answer, net, copy, instance>>
  BY DEF Continue
<1>4. Requested(m)
  <2>1. job[m].at \in Time
    BY <1>1 DEF TypeOK
  <2> QED  BY <1>1, <1>3, <2>1 DEF JobInv, Requested
<1>5. Born(From[m])
  BY <1>1, <1>4 DEF MoveInv, Born
<1>6. now' \in Stamp /\ 0 <= now' /\ copy' \in Store
  BY <1>1, <1>2, <1>3, TimeIsStamp DEF Time, TypeOK
<1>7. /\ chat' \in [Sessions -> Chat] /\ ChatsInv' /\ NetInv'
      /\ \A t \in Sessions :
           /\ Born(t)' <=> Born(t)
           /\ chat[t].life \notin {"unborn", "prepared"} => chat'[t].life \notin {"unborn", "prepared"}
           /\ chat[t].continued <= chat'[t].continued
  <2>1. PICK at \in Stamp : at = now'
    BY <1>6
  <2>2. chat' = [chat EXCEPT ![From[m]].continued = at] /\ chat[From[m]].continued <= at
    BY <1>3, <1>6, <2>1
  <2> QED  BY <1>2, <1>3, <1>5, <2>2, Consented
<1> QED  BY <1>2, <1>3, <1>6, <1>7, ChatsOnly

\* Publish: a snapshot is taken that will be late.
LEMMA PublishStep ==
  ASSUME OwnershipInv, NEW c \in Computers, Publish(c), UNCHANGED instance
  PROVE  StepOK
<1>1. TypeOK /\ ChatsInv /\ NetInv /\ StoresInv /\ now # 0
  BY DEF OwnershipInv
<1>2. UNCHANGED <<store, chat, starting, job, answer, net, now, instance>> /\ copy' = store[c]
  BY DEF Publish
<1>3. \A s \in Sessions : chat[s].continued \in Nat
  BY <1>1, Words DEF TypeOK
<1>4. NetInv'
  <2>1. Sounds(store[c])
    BY <1>1 DEF StoresInv
  <2>2. Sounds(copy)'
    BY <1>2, <2>1 DEF Sounds, Sound, Requested, Born
  <2>3. \A e \in net' : Sound(e)'
    BY <1>1, <1>2 DEF NetInv, Sound, Requested, Born
  <2> QED  BY <1>1, <1>2, <2>2, <2>3 DEF NetInv
<1>5. chat' \in [Sessions -> Chat] /\ now' \in Time /\ now' # 0 /\ copy' \in Store
  BY <1>1, <1>2 DEF TypeOK
<1>6. ChatsInv'
  BY <1>1, <1>2 DEF ChatsInv
<1>7. \A s \in Sessions :
        /\ Born(s)' <=> Born(s)
        /\ chat[s].life \notin {"unborn", "prepared"} => chat'[s].life \notin {"unborn", "prepared"}
        /\ chat[s].continued <= chat'[s].continued
  BY <1>2, <1>3 DEF Born
<1> QED  BY <1>2, <1>4, <1>5, <1>6, <1>7, ChatsOnly

\* Resume: the catalogs are read again.
LEMMA ResumeStep ==
  ASSUME OwnershipInv, Resume
  PROVE  StepOK
<1>1. TypeOK /\ StoresInv /\ ChatsInv /\ NetInv /\ now # 0
  BY DEF OwnershipInv
<1>2. UNCHANGED <<store, chat, starting, job, answer, net, copy, now>>
  BY DEF Resume
<1>3. instance' \in Instance
  <2>1. instance \in Instance /\ now \in 1 .. MaxNow
    BY <1>1, TaskOwnershipAssumption DEF TypeOK, Time
  <2>2. instance' = [instance EXCEPT !.changes = @ \ {"quiet"}, !.until = now]
    BY DEF Resume
  <2> QED  BY <2>1, <2>2 DEF Instance
<1>4. Forward
  <2>1. \A s \in Sessions : chat[s].continued \in Nat
    BY <1>1, Words DEF TypeOK
  <2>2. \A s \in Sessions : chat[s].continued <= chat'[s].continued
    BY <1>2, <2>1
  <2> QED  BY <1>2, <2>2 DEF Forward, Born
<1>5. /\ store \in [Computers -> Store] /\ chat \in [Sessions -> Chat] /\ chat' \in [Sessions -> Chat]
      /\ net \subseteq Events /\ net' \in SUBSET Events /\ copy' \in Store /\ now' \in Time /\ now' # 0
      /\ starting' \subseteq Moves \ Prepared
  BY <1>1, <1>2 DEF TypeOK
<1>6. NetInv' /\ \A m \in Moves : Requested(m)' => Requested(m)
  BY <1>1, <1>2, <1>4, <1>5, NetKept
<1>7. ChatsInv'
  BY <1>1, <1>2 DEF ChatsInv
<1>8. StoresInv' /\ Kept /\ \A d \in Computers : NotTakenBack(d) /\ StaysClosed(d)
  BY <1>1, <1>2, <1>4, <1>5, <1>6, StoresKept
<1>9. \A s \in Sessions :
        /\ Born(s)' <=> Born(s)
        /\ chat[s].life \notin {"unborn", "prepared"} => chat'[s].life \notin {"unborn", "prepared"}
  BY <1>2 DEF Born
<1>10. OwnershipInv'
  BY <1>2, <1>3, <1>4, <1>5, <1>6, <1>7, <1>8, <1>9, Stepped
<1> QED  BY <1>8, <1>10 DEF StepOK

\* A chat tells that it completed the Task, or a computer that a handoff was rejected.
LEMMA ToldStep ==
  ASSUME OwnershipInv, NEW c \in Computers, NEW r, NEW z, NEW e \in Events, e.type \in {"completed", "rejected"},
         r = store[c], z = Accept(r, e), store' = [store EXCEPT ![c] = z], net' = net \cup {e},
         starting' \subseteq starting, UNCHANGED <<chat, job, answer, copy, instance>>,
         now' \in Time, now' # 0
  PROVE  StepOK
<1>1. TypeOK /\ StoresInv /\ ChatsInv /\ NetInv
  BY DEF OwnershipInv
<1>2. /\ store \in [Computers -> Store] /\ chat \in [Sessions -> Chat] /\ chat' \in [Sessions -> Chat]
      /\ net \subseteq Events /\ net' \in SUBSET Events /\ copy' \in Store
      /\ starting' \subseteq Moves \ Prepared /\ instance' \in Instance
  BY <1>1 DEF TypeOK
<1>3. Sounds(r) /\ r \in Store
  BY <1>1, <1>2 DEF StoresInv
<1>4. Heard(r, z, e)
  BY <1>3, AcceptFacts
<1>5. z.receipts = r.receipts /\ z.task.owner = r.task.owner
  BY <1>4 DEF Heard
<1>6. Grew(r, z, {e}, About(e), Consents(r))
  BY <1>3, <1>4, HeardGrew
<1>7. Forward
  <2>1. \A t \in Sessions : chat[t].continued \in Nat
    BY <1>2, Words
  <2>2. \A t \in Sessions : chat[t].continued <= chat'[t].continued
    BY <2>1
  <2> QED  BY <2>2 DEF Forward, Born
<1>8. Sound(e)'
  BY DEF Sound
<1>9. NetInv' /\ \A m \in Moves : Requested(m)' => Requested(m)
  <2>1. \A x \in net' \ net : Sound(x)' /\ x.type # "request"
    BY <1>8
  <2> QED  BY <1>1, <1>2, <1>7, <2>1, NetKept
<1>10. /\ StoresInv' /\ store' \in [Computers -> Store] /\ Kept
       /\ \A d \in Computers : StaysClosed(d)
       /\ \A d \in Computers \ {c} : NotTakenBack(d)
  <2> DEFINE X == {e}
             A == About(e)
             y == Consents(r)
  <2>1. /\ Grew(r, z, X, A, y)
        /\ \A x \in X : Sound(x)'
        /\ \A m \in A : Requested(m)'
    BY <1>6, <1>8 DEF About
  <2>2. \A t \in Sessions : y[t] \in Nat /\ y[t] <= chat[t].continued
    BY <1>2, <1>3, Words
  <2>3. /\ \A m \in Moves : Home[From[m]] = c /\ m \in z.receipts \ r.receipts =>
             z.exec[From[m]].ended # 0 \/ (Home[To[m]] = c /\ Offered(m)')
        /\ \A m \in Moves : Requested(m)' /\ ~Requested(m) =>
             Home[From[m]] = c /\ z.exec[From[m]] # NoExecution /\ z.task # NoTask
    BY <1>5, <1>9
  <2>4. /\ store \in [Computers -> Store] /\ StoresInv
        /\ chat \in [Sessions -> Chat] /\ chat' \in [Sessions -> Chat]
    BY <1>1, <1>2
  <2> HIDE DEF X, A, y
  <2> QED  BY <1>7, <2>1, <2>2, <2>3, <2>4, StoresStep, ZenonT(120)
<1>11. NotTakenBack(c)
  BY <1>2, <1>5 DEF NotTakenBack
<1>12. ChatsInv'
  BY <1>1 DEF ChatsInv
<1>13. \A t \in Sessions :
         /\ Born(t)' <=> Born(t)
         /\ chat[t].life \notin {"unborn", "prepared"} => chat'[t].life \notin {"unborn", "prepared"}
  BY DEF Born
<1>14. OwnershipInv'
  BY <1>2, <1>7, <1>9, <1>10, <1>12, <1>13, Stepped
<1> QED  BY <1>10, <1>11, <1>14 DEF StepOK

\* Complete: the agent completed the Task.
LEMMA CompleteStep ==
  ASSUME OwnershipInv, NEW s \in Sessions, Complete(s), UNCHANGED instance
  PROVE  StepOK
<1>1. TypeOK
  BY DEF OwnershipInv
<1>2. PICK c \in Computers : c = Home[s]
  BY TaskOwnershipAssumption
<1>3. now' \in Time /\ now' # 0
  BY <1>1, Ticks DEF Complete
<1>4. PICK e : e = Event("completed", s, now')
  OBVIOUS
<1>5. e \in Events /\ e.type = "completed"
  BY <1>3, <1>4 DEF Event, Events
<1>6. PICK r, z : r = store[c] /\ z = Accept(r, e)
  OBVIOUS
<1>7. /\ store' = [store EXCEPT ![c] = z] /\ net' = net \cup {e}
      /\ UNCHANGED <<chat, starting, job, answer, copy, instance>>
  BY <1>1, <1>2, <1>4, <1>6 DEF Complete, TypeOK
<1> QED  BY <1>3, <1>5, <1>6, <1>7, ToldStep

\* Recover: the answer to a prepared handoff reaches its source.
LEMMA RecoverStep ==
  ASSUME OwnershipInv, NEW m \in Moves, Recover(m), UNCHANGED instance
  PROVE  StepOK
<1>1. TypeOK /\ StoresInv /\ ChatsInv /\ NetInv /\ MoveInv(m) /\ JobInv(m) /\ now # 0
  BY DEF OwnershipInv
<1>2. PICK c \in Computers : c = Home[From[m]]
  BY TaskOwnershipAssumption
<1>3. PICK r : r = store[c]
  OBVIOUS
<1>4. PICK a : a = answer[m]
  OBVIOUS
<1>5. PICK e : e = Event(IF a.accepted THEN "accepted" ELSE "rejected", m, a.at)
  OBVIOUS
<1>6. PICK q : q = Event("request", m, job[m].at)
  OBVIOUS
<1>7. PICK target \in IF a.accepted THEN {store[Home[To[m]]].exec[To[m]]} ELSE {NoExecution} :
        store' = [store EXCEPT ![c] = Restored(@, q, e, target)]
  BY <1>2, <1>4, <1>5, <1>6 DEF Recover
<1>8. PICK z : z = Restored(r, q, e, target)
  OBVIOUS
<1>9. /\ store \in [Computers -> Store] /\ chat \in [Sessions -> Chat]
      /\ net \subseteq Events /\ job[m].at \in Time /\ a.accepted \in BOOLEAN /\ a.at \in Time
  BY <1>1, <1>4 DEF TypeOK
<1>10. store' = [store EXCEPT ![c] = z]
  BY <1>3, <1>7, <1>8, <1>9
<1>11. m \in Prepared /\ q \in net /\ (a.accepted => a.at # 0 /\ Born(To[m]))
  BY <1>1, <1>4, <1>6 DEF JobInv, Recover
<1>12. Requested(m) /\ Born(From[m])
  BY <1>1, <1>6, <1>9, <1>11 DEF Requested, MoveInv, Born
<1>13. From[m] \in Sessions /\ To[m] \in Sessions /\ Home[To[m]] \in Computers /\ Home[To[m]] # c
  BY <1>2, <1>11, TaskOwnershipAssumption
<1>14. /\ q \in Events /\ q.type = "request" /\ q.of = m
       /\ e \in Events /\ e.type \in {"accepted", "rejected"} /\ e.of = m
       /\ (e.type = "accepted" <=> a.accepted) /\ e.at = a.at
  BY <1>5, <1>6, <1>9 DEF Event, Events
<1>15. PICK t \in Sessions, u \in Sessions : t = From[m] /\ u = To[m]
  BY <1>13
<1>16. /\ target \in Execution
       /\ a.accepted => target # NoExecution
       /\ target.continued <= chat[u].continued /\ target.continued \in Nat
  <2>1. \A x \in Execution : x.continued \in Nat
    BY TaskOwnershipAssumption DEF Execution, Stamp
  <2>2. CASE a.accepted
    <3>1. target = store[Home[To[m]]].exec[To[m]]
      BY <1>7, <2>2
    <3>2. Sounds(store[Home[To[m]]])
      BY <1>1, <1>13 DEF StoresInv
    <3>3. target \in Execution /\ target.continued <= chat[To[m]].continued
      BY <1>13, <3>1, <3>2, StoreParts DEF Sounds
    <3>4. target # NoExecution
      BY <1>1, <1>4, <2>2, <3>1 DEF JobInv
    <3> QED  BY <1>15, <2>1, <3>3, <3>4
  <2>3. CASE ~a.accepted
    <3>1. target = NoExecution
      BY <1>7, <2>3
    <3>2. target \in Execution /\ target.continued = 0 /\ chat[u].continued \in Nat
      BY <1>9, <3>1, NoTypes, Words DEF NoExecution
    <3> QED  BY <2>1, <2>3, <3>2
  <2> QED  BY <2>2, <2>3
<1>17. Sounds(r) /\ r \in Store
  BY <1>1, <1>3, <1>9 DEF StoresInv
<1>18. /\ Grew(r, z, {q, e}, {m}, With(r, To[m], target.continued))
       /\ \A n \in z.receipts \ r.receipts :
            n = m /\ (z.exec[From[m]] = NoExecution \/ z.exec[From[m]].ended # 0)
       /\ z.task.owner # r.task.owner =>
            e.type = "accepted" /\ z.task.owner = To[m] /\ e \in z.events \ r.events
  <2>1. e.type = "accepted" => e.at # 0 /\ target # NoExecution
    BY <1>11, <1>14, <1>16
  <2>2. z = Restored(r, q, e, target) /\ r \in Store /\ target \in Execution
    BY <1>8, <1>16, <1>17
  <2> QED  BY <1>14, <2>1, <2>2, RestoredGrew
<1>19. UNCHANGED <<starting, job, answer, net, copy, now, instance>>
  BY DEF Recover
<1>20. /\ chat' \in [Sessions -> Chat] /\ ChatsInv' /\ NetInv' /\ Forward
       /\ \A x \in Sessions :
            /\ Born(x)' <=> Born(x)
            /\ chat[x].life \notin {"unborn", "prepared"} => chat'[x].life \notin {"unborn", "prepared"}
  <2> DEFINE at == IF a.accepted /\ chat[t].continued # 0 THEN Latest(chat[t].continued, a.at + 1)
                   ELSE chat[t].continued
  <2>1. chat[t].continued \in Stamp
    BY <1>9 DEF Chat
  <2>2. at \in Stamp /\ chat[t].continued <= at
    BY <1>9, <2>1, TaskOwnershipAssumption DEF Latest, Stamp, Time
  <2>3. chat' = [chat EXCEPT ![t].continued = at]
    <3>1. CASE a.accepted /\ chat[t].continued # 0
      BY <1>4, <1>15, <3>1 DEF Recover
    <3>2. CASE ~(a.accepted /\ chat[t].continued # 0)
      <4>1. chat' = chat
        BY <1>4, <1>15, <3>2 DEF Recover
      <4>2. chat = [chat EXCEPT ![t].continued = chat[t].continued]
        BY <1>9 DEF Chat
      <4> QED  BY <3>2, <4>1, <4>2
    <3> QED  BY <3>1, <3>2
  <2> HIDE DEF at
  <2> QED  BY <1>12, <1>15, <1>19, <2>2, <2>3, Consented
<1>21. Requested(m)' /\ \A n \in Moves : Requested(n)' => Requested(n)
  BY <1>12, <1>19 DEF Requested
<1>22. Sound(q)' /\ Sound(e)'
  <2>1. Sound(q) /\ Sound(e)
    BY <1>11, <1>12, <1>14 DEF Sound
  <2> QED  BY <1>14, <1>20, <2>1, Onward
<1>23. /\ StoresInv' /\ store' \in [Computers -> Store] /\ Kept
       /\ \A d \in Computers : StaysClosed(d)
       /\ \A d \in Computers \ {c} : NotTakenBack(d)
  <2> DEFINE E == {q, e}
             A == {m}
             y == With(r, To[m], target.continued)
  <2>1. /\ Grew(r, z, E, A, y)
        /\ \A x \in E : Sound(x)'
        /\ \A n \in A : Requested(n)'
    BY <1>18, <1>21, <1>22
  <2>2. \A x \in Sessions : y[x] \in Nat /\ y[x] <= chat[x].continued
    BY <1>9, <1>15, <1>16, <1>17, Words
  <2>3. \A n \in Moves : Home[From[n]] = c /\ n \in z.receipts \ r.receipts =>
          z.exec[From[n]].ended # 0 \/ (Home[To[n]] = c /\ Offered(n)')
    <3>1. r.exec[From[m]] # NoExecution
      BY <1>1, <1>2, <1>3, <1>12 DEF StoresInv, Source
    <3>2. z.exec[From[m]] # NoExecution
      BY <1>13, <1>18, <3>1 DEF Grew
    <3> QED  BY <1>18, <3>2
  <2>4. \A n \in Moves : Requested(n)' /\ ~Requested(n) =>
          Home[From[n]] = c /\ z.exec[From[n]] # NoExecution /\ z.task # NoTask
    BY <1>21
  <2> HIDE DEF E, A, y
  <2> QED  BY <1>1, <1>3, <1>9, <1>10, <1>20, <2>1, <2>2, <2>3, <2>4, StoresStep
<1>24. NotTakenBack(c)
  <2>1. SUFFICES ASSUME NEW n \in Moves, r.task.owner # From[n], z.task.owner = From[n]
                 PROVE  \E x \in z.events \ r.events : x.type = "accepted" /\ To[x.of] = From[n]
    BY <1>3, <1>9, <1>10 DEF NotTakenBack
  <2>2. e.type = "accepted" /\ z.task.owner = To[e.of] /\ e \in z.events \ r.events
    BY <1>14, <1>18, <2>1
  <2> QED  BY <2>1, <2>2
<1>25. /\ net' \in SUBSET Events /\ copy' \in Store /\ now' \in Time /\ now' # 0 /\ instance' \in Instance
       /\ starting' \subseteq Moves \ Prepared
  BY <1>1, <1>19 DEF TypeOK
<1>26. OwnershipInv'
  BY <1>19, <1>20, <1>21, <1>23, <1>25, Stepped
<1> QED  BY <1>23, <1>24, <1>26 DEF StepOK

\* Handoff: the catalog is read and a request is sent.
LEMMA HandoffStep ==
  ASSUME OwnershipInv, NEW m \in Moves, Handoff(m), UNCHANGED instance
  PROVE  StepOK
<1>1. TypeOK /\ StoresInv /\ ChatsInv /\ NetInv /\ MoveInv(m) /\ JobInv(m) /\ now # 0
  BY DEF OwnershipInv
<1>2. PICK s \in Sessions, c \in Computers : s = From[m] /\ c = Home[s]
  BY TaskOwnershipAssumption
<1>3. now' \in Time /\ now' # 0
  BY <1>1, Ticks DEF Handoff
<1>4. PICK e : e = Event("request", m, now')
  OBVIOUS
<1>5. PICK r : r = store[c]
  OBVIOUS
<1>6. PICK q \in Readings(r, c) :
        /\ store' = [store EXCEPT ![c] = Accept(q, e)]
        /\ job' = IF m \in Prepared THEN [job EXCEPT ![m] = [task |-> q.task, exec |-> q.exec[s], at |-> now']] ELSE job
  BY <1>1, <1>2, <1>4, <1>5 DEF Handoff, TypeOK
<1>7. PICK z : z = Accept(q, e)
  OBVIOUS
<1>8. /\ ~Requested(m) /\ Alive(s) /\ r.exec[s] # NoExecution
      /\ store' = [store EXCEPT ![c] = z] /\ net' = net \cup {e}
      /\ starting' = IF Home[To[m]] = c /\ m \notin Prepared THEN starting \cup {m} ELSE starting
      /\ UNCHANGED <<chat, answer, copy, instance>>
  BY <1>2, <1>4, <1>5, <1>6, <1>7 DEF Handoff
<1>9. e \in Events /\ e.type = "request" /\ e.of = m
  BY <1>3, <1>4 DEF Event, Events
<1>10. /\ store \in [Computers -> Store] /\ chat \in [Sessions -> Chat] /\ chat' \in [Sessions -> Chat]
       /\ net \subseteq Events /\ net' \in SUBSET Events /\ copy' \in Store
       /\ starting' \subseteq Moves \ Prepared /\ instance' \in Instance /\ now \in Time
  BY <1>1, <1>8, <1>9 DEF TypeOK
<1>11. Sounds(r) /\ r \in Store
  BY <1>1, <1>5, <1>10 DEF StoresInv
<1>12. Passed(r, c, q) /\ q.task # NoTask
  <2>1. s \in Visible(c) /\ chat[s].at # 0
    BY <1>1, <1>2, <1>8 DEF Visible, Alive, ChatsInv
  <2> QED  BY <1>1, <1>8, <1>10, <1>11, <2>1, ReadingsPassed
<1>13. /\ q \in Store /\ q.events = r.events /\ q.receipts = r.receipts
       /\ q.exec[s] # NoExecution /\ q.exec[s].continued \in {r.exec[s].continued, chat[s].continued}
  BY <1>8, <1>12 DEF Passed
<1>14. e \notin q.events
  <2>1. e \notin net
    BY <1>3, <1>4, <1>8 DEF Requested
  <2> QED  BY <1>9, <1>11, <1>13, <2>1 DEF Sounds, Sound
<1>15. Heard(q, z, e)
  BY <1>7, <1>9, <1>13, AcceptFacts
<1>16. /\ z \in Store /\ e \in z.events /\ <<m, m>> \in z.requests /\ z.receipts = r.receipts
       /\ z.exec[s] # NoExecution /\ z.task # NoTask /\ z.task.owner = q.task.owner
  BY <1>9, <1>12, <1>13, <1>14, <1>15 DEF Heard, SameChats
<1> DEFINE y == [t \in Sessions |-> chat[t].continued]
           E == {} \cup {e}
           A == About(e)
<1>17. Grew(r, z, E, A, y)
  <2>1. Grew(r, q, {}, {}, y)
    BY <1>11, <1>12, PassedGrew
  <2>2. \A t \in Sessions : r.exec[t].ended # 0 /\ q.exec[t].ended = 0 =>
          y[t] > r.exec[t].ended \/ (Alias(t) /\ z.task.owner = t)
    BY <1>12, <1>16 DEF Passed
  <2>3. {} \subseteq A /\ About(e) \subseteq A
    OBVIOUS
  <2> HIDE DEF y, A
  <2> QED  BY <1>9, <1>11, <1>13, <1>15, <1>16, <2>1, <2>2, <2>3, GrewThenHeard
<1>18. \A t \in Sessions : y[t] \in Nat /\ y[t] <= chat[t].continued
  BY <1>10, Words
<1>19. Forward
  <2>1. \A t \in Sessions : chat[t].continued \in Nat
    BY <1>10, Words
  <2>2. \A t \in Sessions : chat[t].continued <= chat'[t].continued
    BY <1>8, <2>1
  <2> QED  BY <1>8, <2>2 DEF Forward, Born
<1>20. \A n \in Moves, at \in Time :
         Event("request", n, at) \in net' => Event("request", n, at) \in net \/ (n = m /\ at = now')
  BY <1>4, <1>8 DEF Event
<1>21. /\ Requested(m)' /\ e \in net'
       /\ \A n \in Moves \ {m} : Requested(n)' => Requested(n)
  BY <1>3, <1>4, <1>8, <1>20 DEF Requested
<1>22. NetInv'
  <2>1. Sound(e)'
    BY <1>9, <1>21 DEF Sound
  <2>2. \A x \in net' : Sound(x)'
    BY <1>1, <1>8, <1>10, <1>19, <2>1, Onward DEF NetInv
  <2>3. Sounds(copy)'
    <3>1. PICK p : p = copy
      OBVIOUS
    <3>2. Sounds(p)'
      BY <1>1, <1>10, <1>19, <3>1, SoundsNext DEF NetInv
    <3> QED  BY <1>8, <3>1, <3>2 DEF Sounds
  <2>4. \A n \in Moves : \A x, w \in Time :
          Event("request", n, x) \in net' /\ Event("request", n, w) \in net' => x = w
    BY <1>1, <1>8, <1>20 DEF NetInv, Requested
  <2> QED  BY <2>2, <2>3, <2>4 DEF NetInv
<1>23. /\ StoresInv' /\ store' \in [Computers -> Store] /\ Kept
       /\ \A d \in Computers : StaysClosed(d)
       /\ \A d \in Computers \ {c} : NotTakenBack(d)
  <2>1. (\A x \in E : Sound(x)') /\ \A n \in A : Requested(n)'
    BY <1>9, <1>21 DEF Sound, About
  <2>2. /\ \A n \in Moves : Home[From[n]] = c /\ n \in z.receipts \ r.receipts =>
             z.exec[From[n]].ended # 0 \/ (Home[To[n]] = c /\ Offered(n)')
        /\ \A n \in Moves : Requested(n)' /\ ~Requested(n) =>
             Home[From[n]] = c /\ z.exec[From[n]] # NoExecution /\ z.task # NoTask
    BY <1>2, <1>16, <1>21
  <2> HIDE DEF y, E, A
  <2> QED  BY <1>1, <1>5, <1>8, <1>10, <1>17, <1>18, <1>19, <2>1, <2>2, StoresStep
<1>24. NotTakenBack(c)
  <2>1. SUFFICES ASSUME NEW n \in Moves, n \in r.receipts, r.task.owner # From[n], z.task.owner = From[n]
                 PROVE  \/ chat[From[n]].continued # 0
                        \/ Alias(From[n]) /\ r.exec[From[n]].ended = 0
                        \/ Home[To[n]] = c /\ \E k \in Moves \ {n} : From[k] = From[n] /\ Requested(k)
    BY <1>5, <1>8, <1>10 DEF NotTakenBack
  <2>2. q.task.owner = From[n]
    BY <1>16, <2>1
  <2> QED  BY <1>5, <1>12, <2>1, <2>2, PassTakes
<1>25. ChatsInv'
  BY <1>1, <1>8 DEF ChatsInv
<1>26. ~AskedAt(store[Home[To[m]]], m) /\ job[m] = NoJob /\ answer[m] = Unanswered
  <2>1. Home[To[m]] \in Computers /\ To[m] \in Sessions
    BY TaskOwnershipAssumption
  <2>2. Sounds(store[Home[To[m]]])
    BY <1>1, <2>1 DEF StoresInv
  <2>3. \A at \in Time : Event("request", m, at) \notin store[Home[To[m]]].events
    BY <1>8, <2>2 DEF Sounds, Sound, Event, Requested
  <2>4. job[m].at \in Time
    BY <1>1 DEF TypeOK
  <2> QED  BY <1>1, <1>8, <2>3, <2>4 DEF AskedAt, JobInv, Requested
<1>27. MoveInv(m)'
  <2>1. Requested(m)' => chat'[From[m]].life \notin {"unborn", "prepared"}
    BY <1>2, <1>8 DEF Alive
  <2>2. ~Born(To[m])'
    BY <1>1, <1>8, <1>26 DEF MoveInv, Born
  <2>3. m \in starting' => AskedAt(store[Home[To[m]]], m)' /\ <<m, m>> \in store'[Home[To[m]]].requests
    <3>1. m \in starting' => Home[To[m]] = c
      BY <1>1, <1>8, <1>26 DEF MoveInv
    <3>2. store'[c] = z
      BY <1>8, <1>10
    <3>3. \E at \in Time : Event("request", m, at) \in z.events
      BY <1>3, <1>4, <1>16
    <3> QED  BY <1>16, <3>1, <3>2, <3>3 DEF AskedAt
  <2> QED  BY <2>1, <2>2, <2>3 DEF MoveInv
<1>28. ASSUME NEW n \in Moves, n # m
       PROVE  MoveInv(n)' /\ JobInv(n)'
  <2>1. MoveInv(n) /\ JobInv(n)
    BY DEF OwnershipInv
  <2>2. MoveInv(n)'
    <3>1. (n \in starting' => n \in starting) /\ (Requested(n)' => Requested(n)) /\ (Born(To[n])' <=> Born(To[n]))
      BY <1>8, <1>21, <1>28 DEF Born
    <3> QED  BY <1>8, <1>23, <2>1, <3>1, MoveKept
  <2>3. JobInv(n)'
    <3>1. job'[n] = job[n] /\ answer'[n] = answer[n]
      BY <1>1, <1>6, <1>8, <1>28 DEF TypeOK
    <3> QED  BY <1>1, <1>10, <1>19, <1>23, <2>1, <3>1, JobKept
  <2> QED  BY <2>2, <2>3
<1>29. JobInv(m)'
  <2>1. answer'[m] = Unanswered /\ ~answer'[m].accepted
    BY <1>8, <1>26 DEF Unanswered
  <2>2. CASE m \notin Prepared
    BY <1>6, <1>26, <2>1, <2>2 DEF JobInv
  <2>3. CASE m \in Prepared
    <3>1. job'[m] = [task |-> q.task, exec |-> q.exec[s], at |-> now']
      BY <1>1, <1>6, <2>3 DEF TypeOK
    <3>2. job'[m].exec = q.exec[s] /\ job'[m].at = now'
      BY <3>1
    <3>3. q.exec[s].continued <= chat'[From[m]].continued
      <4>1. r.exec[s].continued <= chat[s].continued /\ chat[s].continued \in Nat
        BY <1>10, <1>11, Words DEF Sounds
      <4> QED  BY <1>2, <1>8, <1>13, <4>1
    <3>4. Event("request", m, job'[m].at) \in net'
      BY <1>4, <1>21, <3>2
    <3> QED  BY <1>13, <2>1, <2>3, <3>2, <3>3, <3>4 DEF JobInv
  <2> QED  BY <2>2, <2>3
<1>30. TypeOK'
  <2>1. job' \in [Moves -> [task : Task, exec : Execution, at : Time]]
    <3>1. q.task \in Task /\ q.exec[s] \in Execution
      BY <1>13, StoreParts
    <3>2. [task |-> q.task, exec |-> q.exec[s], at |-> now'] \in [task : Task, exec : Execution, at : Time]
      BY <1>3, <3>1
    <3> QED  BY <1>1, <1>6, <3>2 DEF TypeOK
  <2> QED  BY <1>1, <1>3, <1>8, <1>10, <1>23, <2>1 DEF TypeOK
<1>31. OwnershipInv'
  BY <1>3, <1>22, <1>23, <1>25, <1>27, <1>28, <1>29, <1>30 DEF OwnershipInv
<1> QED  BY <1>23, <1>24, <1>31 DEF StepOK

\* A chat is made for a handoff: nothing was asked of it, and no handoff is of it yet.
LEMMA Made ==
  ASSUME OwnershipInv, NEW m \in Moves, ~Born(To[m]), NEW life \in {"working", "prepared"},
         now' \in Time, now' # 0,
         chat' = [chat EXCEPT ![To[m]] = [life |-> life, start |-> now', at |-> now', continued |-> 0]],
         net \subseteq net'
  PROVE  /\ chat' \in [Sessions -> Chat] /\ ChatsInv' /\ Forward
         /\ Born(To[m])' /\ \A n \in Moves \ {m} : Born(To[n])' <=> Born(To[n])
         /\ \A n \in Moves : Requested(n) => From[n] # To[m] /\ chat'[From[n]] = chat[From[n]]
<1>1. TypeOK /\ ChatsInv /\ \A n \in Moves : MoveInv(n)
  BY DEF OwnershipInv
<1>2. PICK s \in Sessions : s = To[m]
  BY TaskOwnershipAssumption
<1>3. chat \in [Sessions -> Chat]
  BY <1>1 DEF TypeOK
<1>4. [life |-> life, start |-> now', at |-> now', continued |-> 0] \in Chat
  BY TaskOwnershipAssumption DEF Chat, Stamp
<1>5. /\ chat' \in [Sessions -> Chat]
      /\ chat'[s] = [life |-> life, start |-> now', at |-> now', continued |-> 0]
      /\ \A t \in Sessions \ {s} : chat'[t] = chat[t]
  BY <1>2, <1>3, <1>4
<1>6. chat[s].life = "unborn" /\ chat[s].continued = 0
  BY <1>1, <1>2 DEF ChatsInv, Born
<1>7. ChatsInv'
  BY <1>1, <1>5 DEF ChatsInv
<1>8. Forward
  <2>1. ASSUME NEW t \in Sessions
        PROVE  (Born(t) => Born(t)') /\ chat[t].continued <= chat'[t].continued
    <3>1. chat[t].continued \in Nat
      BY <1>3, Words
    <3>2. CASE t = s
      BY <1>5, <1>6, <3>2 DEF Born
    <3>3. CASE t # s
      BY <1>5, <3>1, <3>3 DEF Born
    <3> QED  BY <3>2, <3>3
  <2> QED  BY <2>1 DEF Forward
<1>9. Born(To[m])'
  BY <1>2, <1>5 DEF Born
<1>10. \A n \in Moves \ {m} : Born(To[n])' <=> Born(To[n])
  <2>1. \A n \in Moves \ {m} : To[n] \in Sessions \ {s}
    BY <1>2, TaskOwnershipAssumption
  <2> QED  BY <1>5, <2>1 DEF Born
<1>11. ASSUME NEW n \in Moves, Requested(n)
       PROVE  From[n] # To[m] /\ chat'[From[n]] = chat[From[n]]
  <2>1. From[n] \in Sessions /\ chat[From[n]].life # "unborn"
    BY <1>1, <1>11, TaskOwnershipAssumption DEF MoveInv
  <2> QED  BY <1>2, <1>5, <1>6, <2>1
<1> QED  BY <1>5, <1>7, <1>8, <1>9, <1>10, <1>11

\* Started: the agent was started, or the handoff rejected.
LEMMA StartedStep ==
  ASSUME OwnershipInv, NEW m \in Moves, Started(m), UNCHANGED instance
  PROVE  StepOK
<1>1. TypeOK /\ StoresInv /\ ChatsInv /\ NetInv /\ MoveInv(m)
  BY DEF OwnershipInv
<1>2. PICK c \in Computers : c = Home[To[m]]
  BY TaskOwnershipAssumption
<1>3. now' \in Time /\ now' # 0
  BY <1>1, Ticks DEF Started
<1>4. PICK r : r = store[c]
  OBVIOUS
<1>5. /\ m \in starting /\ m \notin Prepared /\ starting' = starting \ {m}
      /\ UNCHANGED <<job, answer, copy, instance>>
  BY <1>1 DEF Started, TypeOK
<1>6. /\ store \in [Computers -> Store] /\ chat \in [Sessions -> Chat] /\ net \subseteq Events
      /\ copy' \in Store /\ starting' \subseteq Moves \ Prepared /\ instance' \in Instance
  BY <1>1, <1>5 DEF TypeOK
<1>7. Sounds(r) /\ r \in Store
  BY <1>1, <1>4, <1>6 DEF StoresInv
<1>8. ~Born(To[m]) /\ AskedAt(r, m) /\ <<m, m>> \in r.requests
  BY <1>1, <1>2, <1>4, <1>5 DEF MoveInv
<1>9. Requested(m)
  BY <1>7, <1>8 DEF Sounds
<1>10. CASE /\ UNCHANGED chat
            /\ store' = [store EXCEPT ![c] = Accept(@, Event("rejected", m, now'))]
            /\ net' = net \cup {Event("rejected", m, now')}
  <2>1. PICK e : e = Event("rejected", m, now')
    OBVIOUS
  <2>2. e \in Events /\ e.type = "rejected"
    BY <1>3, <2>1 DEF Event, Events
  <2>3. PICK z : z = Accept(r, e)
    OBVIOUS
  <2>4. store' = [store EXCEPT ![c] = z] /\ net' = net \cup {e}
    BY <1>4, <1>6, <1>10, <2>1, <2>3
  <2>5. starting' \subseteq starting
    BY <1>5
  <2>6. e.type \in {"completed", "rejected"} /\ UNCHANGED <<chat, job, answer, copy, instance>>
    BY <1>5, <1>10, <2>2
  <2> QED  BY <1>3, <1>4, <2>2, <2>3, <2>4, <2>5, <2>6, ToldStep
<1>11. CASE /\ chat' = [chat EXCEPT ![To[m]] = [life |-> "working", start |-> now', at |-> now', continued |-> 0]]
            /\ store' = [store EXCEPT ![c] = Taken(@, m, now')]
            /\ net' = net \cup {Event("accepted", m, now')}
  <2>1. PICK e : e = Event("accepted", m, now')
    OBVIOUS
  <2>2. e \in Events /\ e.type = "accepted" /\ e.of = m /\ e.at # 0
    BY <1>3, <2>1 DEF Event, Events
  <2>3. PICK z : z = Taken(r, m, now')
    OBVIOUS
  <2>4. store' = [store EXCEPT ![c] = z] /\ net' = net \cup {e}
    BY <1>4, <1>6, <1>11, <2>1, <2>3
  <2>5. /\ chat' \in [Sessions -> Chat] /\ ChatsInv' /\ Forward
        /\ Born(To[m])' /\ \A n \in Moves \ {m} : Born(To[n])' <=> Born(To[n])
        /\ \A n \in Moves : Requested(n) => From[n] # To[m] /\ chat'[From[n]] = chat[From[n]]
    <3>1. net \subseteq net' /\ "working" \in {"working", "prepared"}
      BY <2>4
    <3> QED  BY <1>3, <1>8, <1>11, <3>1, Made
  <2>6. e \notin r.events
    BY <1>7, <1>8, <2>2 DEF Sounds, Sound
  <2> DEFINE E == {e}
             A == {m}
             y == With(r, To[m], 0)
  <2>7. /\ Grew(r, z, E, A, y)
        /\ z.task.owner # r.task.owner => z.task.owner = To[m]
        /\ r.task # NoTask /\ From[m] # To[m] /\ r.exec[From[m]] # NoExecution
           => \/ z.exec[From[m]].ended # 0
              \/ \E n \in Moves \ {m} : From[n] = From[m] /\ (<<m, n>> \in r.requests \/ n \in r.receipts)
    <3>1. PICK at \in Time : at = now' /\ at # 0
      BY <1>3
    <3>2. z = Taken(r, m, at) /\ e = Event("accepted", m, at)
      BY <2>1, <2>3, <3>1
    <3>3. /\ Grew(r, z, E, A, y)
          /\ z.task.owner # r.task.owner => z.task.owner = To[m]
      <4>1. /\ Grew(r, z, Only(e), Only(m), y)
            /\ z.task.owner # r.task.owner => z.task.owner = To[m]
        BY <1>7, <3>1, <3>2, TakenGrew
      <4> QED  BY <4>1 DEF Only
    <3>4. ASSUME r.task # NoTask, From[m] # To[m], r.exec[From[m]] # NoExecution
          PROVE  \/ z.exec[From[m]].ended # 0
                 \/ \E n \in Moves \ {m} : From[n] = From[m] /\ (<<m, n>> \in r.requests \/ n \in r.receipts)
      BY <1>7, <1>8, <2>6, <3>1, <3>2, <3>4, TakenEnds
    <3> QED  BY <3>3, <3>4
  <2>8. \A t \in Sessions : y[t] \in Nat /\ y[t] <= chat[t].continued
    <3>1. PICK s \in Sessions : s = To[m]
      BY TaskOwnershipAssumption
    <3>2. 0 <= chat[s].continued
      BY <1>6, Words
    <3> QED  BY <1>6, <1>7, <3>1, <3>2, Words
  <2>9. Requested(m)' /\ Sound(e)'
    <3>1. Requested(m)'
      BY <1>9, <2>5, Onward
    <3> QED  BY <2>2, <2>5, <3>1 DEF Sound
  <2>10. NetInv' /\ \A n \in Moves : Requested(n)' => Requested(n)
    <3>1. \A x \in net' \ net : Sound(x)' /\ x.type # "request"
      BY <2>2, <2>4, <2>9
    <3> QED  BY <1>1, <1>5, <1>6, <2>5, <3>1, NetKept
  <2>11. /\ StoresInv' /\ store' \in [Computers -> Store] /\ Kept
         /\ \A d \in Computers : StaysClosed(d)
         /\ \A d \in Computers \ {c} : NotTakenBack(d)
    <3>1. (\A x \in E : Sound(x)') /\ \A n \in A : Requested(n)'
      BY <2>9
    <3>2. ASSUME NEW n \in Moves, Home[From[n]] = c, n \in z.receipts \ r.receipts
          PROVE  z.exec[From[n]].ended # 0 \/ (Home[To[n]] = c /\ Offered(n)')
      <4>1. n = m
        BY <2>7, <3>2 DEF Grew
      <4>2. r.exec[From[m]] # NoExecution /\ r.task # NoTask /\ From[m] # To[m]
        BY <1>1, <1>4, <1>9, <2>5, <3>2, <4>1 DEF StoresInv, Source
      <4>3. \A k \in Moves : (<<m, k>> \in r.requests \/ k \in r.receipts) => Requested(k)'
        BY <1>7, <2>5, Onward DEF Sounds
      <4> QED  BY <1>2, <2>7, <4>1, <4>2, <4>3 DEF Offered
    <3>3. \A n \in Moves : Requested(n)' /\ ~Requested(n) =>
            Home[From[n]] = c /\ z.exec[From[n]] # NoExecution /\ z.task # NoTask
      BY <2>10
    <3> HIDE DEF E, A, y
    <3> QED  BY <1>1, <1>4, <1>6, <2>4, <2>5, <2>7, <2>8, <3>1, <3>2, <3>3, StoresStep
  <2>12. NotTakenBack(c)
    <3>1. SUFFICES ASSUME NEW n \in Moves, n \in r.receipts, r.task.owner # From[n], z.task.owner = From[n]
                   PROVE  FALSE
      BY <1>4, <1>6, <2>4 DEF NotTakenBack
    <3>2. From[n] # To[m]
      BY <1>7, <2>5, <3>1 DEF Sounds
    <3> QED  BY <2>7, <3>1, <3>2
  <2>13. ASSUME NEW n \in Moves
         PROVE  MoveInv(n)' /\ JobInv(n)'
    <3>1. MoveInv(n) /\ JobInv(n)
      BY DEF OwnershipInv
    <3>2. Requested(n)' => chat'[From[n]].life \notin {"unborn", "prepared"}
      BY <2>5, <2>10, <3>1 DEF MoveInv
    <3>3. MoveInv(n)'
      <4>1. CASE n # m
        <5>1. /\ n \in starting' => n \in starting
              /\ Requested(n)' => Requested(n)
              /\ Requested(n) /\ chat[From[n]].life \notin {"unborn", "prepared"} =>
                   chat'[From[n]].life \notin {"unborn", "prepared"}
              /\ Born(To[n])' <=> Born(To[n])
              /\ answer[n] # Unanswered => answer'[n] # Unanswered
          BY <1>5, <2>5, <2>10, <4>1
        <5> QED  BY <2>11, <3>1, <5>1, MoveKept
      <4>2. CASE n = m
        <5>1. AskedAt(store[Home[To[m]]], m)'
          <6>1. store'[Home[To[m]]] = z
            BY <1>2, <1>6, <2>4
          <6>2. r.events \subseteq z.events
            BY <2>7 DEF Grew
          <6> QED  BY <1>8, <6>1, <6>2 DEF AskedAt
        <5> QED  BY <1>5, <3>2, <4>2, <5>1 DEF MoveInv
      <4> QED  BY <4>1, <4>2
    <3>4. JobInv(n)'
      BY <1>1, <1>5, <2>5, <2>11, <3>1, JobKept
    <3> QED  BY <3>3, <3>4
  <2>14. TypeOK'
    <3>1. net' \in SUBSET Events
      BY <1>6, <2>2, <2>4
    <3> QED  BY <1>1, <1>3, <1>5, <1>6, <2>5, <2>11, <3>1 DEF TypeOK
  <2>15. OwnershipInv'
    BY <1>3, <2>5, <2>10, <2>11, <2>13, <2>14 DEF OwnershipInv
  <2> QED  BY <2>11, <2>12, <2>15 DEF StepOK
<1> QED  BY <1>2, <1>10, <1>11 DEF Started

\* Prepare: the prepared chat is made, or the handoff rejected.
LEMMA PrepareStep ==
  ASSUME OwnershipInv, NEW m \in Moves, Prepare(m), UNCHANGED instance
  PROVE  StepOK
<1>1. TypeOK /\ StoresInv /\ ChatsInv /\ NetInv /\ MoveInv(m) /\ JobInv(m)
  BY DEF OwnershipInv
<1>2. PICK c \in Computers : c = Home[To[m]]
  BY TaskOwnershipAssumption
<1>3. now' \in Time /\ now' # 0
  BY <1>1, Ticks DEF Prepare
<1>4. PICK r : r = store[c]
  OBVIOUS
<1>5. PICK j : j = job[m]
  OBVIOUS
<1>6. PICK q : q = Event("request", m, j.at)
  OBVIOUS
<1>7. PICK p : p = Accept(Linked(IF r.task = NoTask THEN [r EXCEPT !.task = j.task] ELSE r, From[m], j.exec), q)
  OBVIOUS
<1>8. /\ job[m] # NoJob /\ answer[m] = Unanswered
      /\ UNCHANGED <<starting, job, net, copy, instance>>
  BY DEF Prepare
<1>9. /\ store \in [Computers -> Store] /\ chat \in [Sessions -> Chat] /\ net \subseteq Events
      /\ copy \in Store /\ copy' \in Store /\ starting' \subseteq Moves \ Prepared /\ instance' \in Instance
      /\ net' \in SUBSET Events
      /\ job[m] \in [task : Task, exec : Execution, at : Time]
      /\ answer \in [Moves -> [accepted : BOOLEAN, at : Time]]
  BY <1>1, <1>8 DEF TypeOK
<1>10. Sounds(r) /\ r \in Store
  BY <1>1, <1>4, <1>9 DEF StoresInv
<1>11. j.task \in Task /\ j.exec \in Execution /\ j.at \in Time /\ j.exec # NoExecution
  BY <1>1, <1>5, <1>8, <1>9 DEF JobInv
<1>12. m \in Prepared /\ q \in net /\ Requested(m)
  BY <1>1, <1>5, <1>6, <1>8, <1>11 DEF JobInv, Requested
<1>13. ~Born(To[m])
  BY <1>1, <1>8, <1>12 DEF MoveInv
<1>14. PICK s \in Sessions, u \in Sessions : s = From[m] /\ u = To[m] /\ Home[s] # c
  BY <1>2, <1>12, TaskOwnershipAssumption
<1>15. s # u /\ j.exec.continued <= chat[s].continued /\ j.exec.continued \in Nat
  <2>1. s # u
    BY <1>2, <1>14
  <2>2. j.exec.continued <= chat[s].continued
    BY <1>1, <1>5, <1>8, <1>14 DEF JobInv
  <2> QED  BY <1>11, <2>1, <2>2, TaskOwnershipAssumption DEF Execution, Stamp
<1>16. q \in Events /\ q.type = "request" /\ q.of = m
  BY <1>6, <1>11 DEF Event, Events
<1>17. /\ Grew(r, p, {q}, {m}, With(r, From[m], j.exec.continued))
       /\ p.receipts = r.receipts
       /\ \A t \in Sessions : r.exec[t].ended # 0 /\ p.exec[t].ended = 0 => t = From[m] /\ j.exec.continued > r.exec[t].ended
       /\ r.task # NoTask /\ p.task.owner # r.task.owner => p.task.owner = From[m]
  BY <1>6, <1>7, <1>10, <1>11, AskedGrew
<1>18. p \in Store
  BY <1>17 DEF Grew
<1>19. \A t \in Sessions : /\ With(r, s, j.exec.continued)[t] \in Nat
                           /\ With(r, s, j.exec.continued)[t] <= chat[t].continued
  BY <1>9, <1>10, <1>15, Words
<1>20. PICK foreign \in BOOLEAN :
         foreign = (r.task # NoTask /\ r.task.owner \notin {None, From[m]} /\ j.exec.continued = 0)
  OBVIOUS
\* Where the Task has another owner here, nothing is taken back but by the person's word.
<1>21. ASSUME ~foreign, NEW z, store' = [store EXCEPT ![c] = z],
              z.task.owner # p.task.owner => z.task.owner = To[m]
       PROVE  NotTakenBack(c)
  <2>1. SUFFICES ASSUME NEW n \in Moves, n \in r.receipts, r.task.owner \notin {None, From[n]}, z.task.owner = From[n]
                 PROVE  chat[From[n]].continued # 0
    BY <1>4, <1>9, <1>21 DEF NotTakenBack
  <2>2. Requested(n) /\ MoveInv(n)
    BY <1>10, <2>1 DEF Sounds, OwnershipInv
  <2>3. From[n] # To[m]
    BY <1>13, <2>2 DEF MoveInv, Born
  <2>4. p.task.owner = From[n]
    BY <1>21, <2>1, <2>3
  <2>5. r.task # NoTask
    BY <2>1 DEF NoTask
  <2>6. From[n] = From[m]
    BY <1>17, <2>1, <2>4, <2>5
  <2>7. j.exec.continued # 0
    BY <1>20, <1>21, <2>1, <2>5, <2>6
  <2>8. chat[s].continued \in Nat
    BY <1>9, Words
  <2> QED  BY <1>14, <1>15, <2>6, <2>7, <2>8
<1>22. CASE /\ ~foreign
            /\ chat' = [chat EXCEPT ![To[m]] = [life |-> "prepared", start |-> now', at |-> now', continued |-> 0]]
            /\ store' = [store EXCEPT ![c] = Taken(p, m, now')]
            /\ answer' = [answer EXCEPT ![m] = [accepted |-> TRUE, at |-> now']]
  <2>1. PICK e : e = Event("accepted", m, now')
    OBVIOUS
  <2>2. e \in Events /\ e.type = "accepted" /\ e.of = m /\ e.at # 0
    BY <1>3, <2>1 DEF Event, Events
  <2>3. PICK z : z = Taken(p, m, now')
    OBVIOUS
  <2>4. store' = [store EXCEPT ![c] = z]
    BY <1>22, <2>3
  <2>5. /\ chat' \in [Sessions -> Chat] /\ ChatsInv' /\ Forward
        /\ Born(To[m])' /\ \A n \in Moves \ {m} : Born(To[n])' <=> Born(To[n])
        /\ \A n \in Moves : Requested(n) => From[n] # To[m] /\ chat'[From[n]] = chat[From[n]]
    <3>1. net \subseteq net' /\ "prepared" \in {"working", "prepared"}
      BY <1>8
    <3> QED  BY <1>3, <1>13, <1>22, <3>1, Made
  <2>6. /\ Grew(p, z, Only(e), Only(m), With(p, To[m], 0))
        /\ \A t \in Sessions : p.exec[t].ended # 0 => z.exec[t].ended # 0
        /\ z.task.owner # p.task.owner => z.task.owner = To[m]
        /\ z.exec[To[m]] # NoExecution
    <3>1. PICK at \in Time : at = now' /\ at # 0
      BY <1>3
    <3>2. z = Taken(p, m, at) /\ e = Event("accepted", m, at)
      BY <2>1, <2>3, <3>1
    <3> QED  BY <1>18, <3>1, <3>2, TakenGrew
  <2> DEFINE E == {q, e}
             A == {m}
             y == [t \in Sessions |-> IF t = To[m] THEN 0 ELSE With(r, From[m], j.exec.continued)[t]]
  <2>7. Grew(r, z, E, A, y)
    <3>1. From[m] # To[m] /\ z \in Store
      BY <1>14, <1>15, <2>6 DEF Grew
    <3>2. /\ Grew(r, p, Only(q), Only(m), With(r, From[m], j.exec.continued))
          /\ Grew(p, z, Only(e), Only(m), With(p, To[m], 0))
          /\ \A t \in Sessions : r.exec[t].ended # 0 /\ p.exec[t].ended = 0 =>
               t = From[m] /\ j.exec.continued > r.exec[t].ended
          /\ \A t \in Sessions : p.exec[t].ended # 0 => z.exec[t].ended # 0
      BY <1>17, <2>6 DEF Only
    <3>3. r \in Store
      BY <1>10
    <3>4. \A t \in Sessions : y[t] = IF t = To[m] THEN 0 ELSE With(r, From[m], j.exec.continued)[t]
      OBVIOUS
    <3> HIDE DEF y
    <3> QED  BY <3>1, <3>2, <3>3, <3>4, PreparedGrew
  <2>8. \A t \in Sessions : y[t] \in Nat /\ y[t] <= chat[t].continued
    <3>1. \A t \in Sessions : chat[t].continued \in Nat
      BY <1>9, Words
    <3> QED  BY <1>14, <1>19, <3>1
  <2>9. Requested(m)' /\ Sound(e)' /\ Sound(q)'
    <3>1. Requested(m)'
      BY <1>12, <2>5, Onward
    <3> QED  BY <1>8, <1>12, <1>16, <2>2, <2>5, <3>1 DEF Sound
  <2>10. NetInv' /\ \A n \in Moves : Requested(n)' => Requested(n)
    BY <1>1, <1>8, <1>9, <2>5, NetKept
  <2>11. /\ StoresInv' /\ store' \in [Computers -> Store] /\ Kept
         /\ \A d \in Computers : StaysClosed(d)
         /\ \A d \in Computers \ {c} : NotTakenBack(d)
    <3>1. (\A x \in E : Sound(x)') /\ \A n \in A : Requested(n)'
      BY <2>9
    <3>2. \A n \in Moves : Home[From[n]] = c /\ n \in z.receipts \ r.receipts =>
            z.exec[From[n]].ended # 0 \/ (Home[To[n]] = c /\ Offered(n)')
      BY <1>14, <2>7 DEF Grew
    <3>3. \A n \in Moves : Requested(n)' /\ ~Requested(n) =>
            Home[From[n]] = c /\ z.exec[From[n]] # NoExecution /\ z.task # NoTask
      BY <2>10
    <3> HIDE DEF E, A, y
    <3>4. /\ StoresInv /\ Forward /\ store \in [Computers -> Store]
          /\ chat \in [Sessions -> Chat] /\ chat' \in [Sessions -> Chat]
      BY <1>1, <1>9, <2>5
    <3> QED  BY <1>4, <2>4, <2>7, <2>8, <3>1, <3>2, <3>3, <3>4, StoresStep, ZenonT(120)
  <2>12. NotTakenBack(c)
    BY <1>21, <1>22, <2>4, <2>6
  <2>13. answer'[m] = [accepted |-> TRUE, at |-> now'] /\ \A n \in Moves \ {m} : answer'[n] = answer[n]
    BY <1>9, <1>22
  <2>14. answer'[m].accepted /\ answer'[m].at = now' /\ answer'[m] # Unanswered
    BY <2>13 DEF Unanswered
  <2>15. ASSUME NEW n \in Moves
         PROVE  MoveInv(n)' /\ JobInv(n)'
    <3>1. MoveInv(n) /\ JobInv(n)
      BY DEF OwnershipInv
    <3>2. Requested(n)' => chat'[From[n]].life \notin {"unborn", "prepared"}
      BY <2>5, <2>10, <3>1 DEF MoveInv
    <3>3. CASE n # m
      <4>1. /\ n \in starting' => n \in starting
            /\ Requested(n)' => Requested(n)
            /\ Requested(n) /\ chat[From[n]].life \notin {"unborn", "prepared"} =>
                 chat'[From[n]].life \notin {"unborn", "prepared"}
            /\ Born(To[n])' <=> Born(To[n])
            /\ answer[n] # Unanswered => answer'[n] # Unanswered
        BY <1>8, <2>5, <2>10, <2>13, <3>3
      <4>2. job'[n] = job[n] /\ answer'[n] = answer[n]
        BY <1>8, <2>13, <3>3
      <4>3. MoveInv(n)'
        BY <2>11, <3>1, <4>1, MoveKept
      <4>4. JobInv(n)'
        BY <1>1, <2>5, <2>11, <3>1, <4>2, JobKept
      <4> QED  BY <4>3, <4>4
    <3>4. CASE n = m
      <4>1. MoveInv(n)'
        <5>1. m \notin starting'
          BY <1>9, <1>12
        <5> QED  BY <1>12, <2>14, <3>2, <3>4, <5>1 DEF MoveInv
      <4>2. store'[Home[To[m]]].exec[To[m]] # NoExecution
        BY <1>2, <1>9, <2>4, <2>6
      <4>3. j.exec.continued <= chat'[From[m]].continued
        BY <1>12, <1>14, <1>15, <2>5
      <4>4. JobInv(n)'
        BY <1>3, <1>5, <1>6, <1>8, <1>11, <1>12, <2>5, <2>14, <3>4, <4>2, <4>3 DEF JobInv
      <4> QED  BY <4>1, <4>4
    <3> QED  BY <3>3, <3>4
  <2>16. TypeOK'
    <3>1. answer' \in [Moves -> [accepted : BOOLEAN, at : Time]]
      BY <1>3, <1>9, <1>22
    <3> QED  BY <1>1, <1>3, <1>8, <1>9, <2>5, <2>11, <3>1 DEF TypeOK
  <2>17. OwnershipInv'
    BY <1>3, <2>5, <2>10, <2>11, <2>15, <2>16 DEF OwnershipInv
  <2> QED  BY <2>11, <2>12, <2>17 DEF StepOK
<1>23. \A n \in Moves \ {m} : answer'[n] = answer[n]
  BY <1>9 DEF Prepare
<1>24. CASE /\ chat' = chat /\ answer' = [answer EXCEPT ![m].at = now']
            /\ \/ store' = store
               \/ ~foreign /\ store' = [store EXCEPT ![c] = Accept(p, Event("rejected", m, now'))]
  <2>1. /\ Forward /\ ChatsInv' /\ chat' \in [Sessions -> Chat]
        /\ \A s1 \in Sessions : Born(s1)' <=> Born(s1)
    <3>1. \A s1 \in Sessions : chat[s1].continued \in Nat
      BY <1>9, Words
    <3>2. \A s1 \in Sessions : chat[s1].continued <= chat'[s1].continued
      BY <1>24, <3>1
    <3> QED  BY <1>1, <1>8, <1>9, <1>24, <3>2 DEF Forward, ChatsInv, Born
  <2>2. NetInv' /\ \A n \in Moves : Requested(n)' => Requested(n)
    BY <1>1, <1>8, <1>9, <2>1, NetKept
  <2>3. /\ StoresInv' /\ store' \in [Computers -> Store] /\ Kept
        /\ \A d \in Computers : NotTakenBack(d) /\ StaysClosed(d)
    <3>1. CASE store' = store
      BY <1>1, <1>9, <2>1, <2>2, <3>1, StoresKept
    <3>2. CASE ~foreign /\ store' = [store EXCEPT ![c] = Accept(p, Event("rejected", m, now'))]
      <4>1. PICK e : e = Event("rejected", m, now')
        OBVIOUS
      <4>2. e \in Events /\ e.type = "rejected"
        BY <1>3, <4>1 DEF Event, Events
      <4>3. PICK z : z = Accept(p, e)
        OBVIOUS
      <4>4. store' = [store EXCEPT ![c] = z]
        BY <3>2, <4>1, <4>3
      <4>5. Heard(p, z, e)
        BY <1>18, <4>2, <4>3, AcceptFacts
      <4>6. z.receipts = p.receipts /\ z.task.owner = p.task.owner /\ z \in Store
        BY <4>2, <4>5 DEF Heard
      <4> DEFINE E == {q} \cup {e}
                 Q == {q}
                 A == {m}
                 y == With(r, s, j.exec.continued)
      <4>7. Grew(r, p, Q, A, y)
        BY <1>14, <1>17
      <4>8. A \subseteq A /\ About(e) \subseteq A
        BY <4>2 DEF About
      <4>9. Grew(r, z, E, A, y)
        <5>1. \A t \in Sessions : r.exec[t].ended # 0 /\ p.exec[t].ended = 0 =>
                y[t] > r.exec[t].ended \/ (Alias(t) /\ z.task.owner = t)
          BY <4>6, <4>7 DEF Grew
        <5>2. E = Q \cup {e}
          OBVIOUS
        <5> HIDE DEF E, Q, A, y
        <5>3. Grew(r, z, Q \cup {e}, A, y)
          BY <1>10, <1>18, <4>2, <4>5, <4>6, <4>7, <4>8, <5>1, GrewThenHeard
        <5> QED  BY <5>2, <5>3
      <4>10. Requested(m)' /\ Sound(e)' /\ Sound(q)'
        <5>1. Requested(m)'
          BY <1>12, <2>1, Onward
        <5>2. q \in net'
          BY <1>8, <1>12
        <5>3. e.type # "request" /\ e.type # "accepted" /\ q.type # "accepted"
          BY <1>16, <4>2
        <5> QED  BY <5>1, <5>2, <5>3 DEF Sound
      <4>11. (\A x \in E : Sound(x)') /\ \A n \in A : Requested(n)'
        BY <4>10
      <4>12. \A n \in Moves : Home[From[n]] = c /\ n \in z.receipts \ r.receipts =>
              z.exec[From[n]].ended # 0 \/ (Home[To[n]] = c /\ Offered(n)')
        BY <1>17, <4>6
      <4>13. \A n \in Moves : Requested(n)' /\ ~Requested(n) =>
              Home[From[n]] = c /\ z.exec[From[n]] # NoExecution /\ z.task # NoTask
        BY <2>2
      <4>14. \A t \in Sessions : y[t] \in Nat /\ y[t] <= chat[t].continued
        BY <1>19
      <4>15. NotTakenBack(c)
        BY <1>21, <3>2, <4>4, <4>6
      <4> HIDE DEF E, A, y
      <4>16. /\ StoresInv' /\ store' \in [Computers -> Store] /\ Kept
             /\ \A d \in Computers : StaysClosed(d)
             /\ \A d \in Computers \ {c} : NotTakenBack(d)
        BY <1>1, <1>4, <1>9, <2>1, <4>4, <4>9, <4>11, <4>12, <4>13, <4>14, StoresStep
      <4> QED  BY <4>15, <4>16
    <3> QED  BY <1>24, <3>1, <3>2
  <2>4. answer'[m] = [answer[m] EXCEPT !.at = now']
    BY <1>9, <1>24
  <2>5. ~answer'[m].accepted
    BY <1>8, <2>4 DEF Unanswered
  <2>6. ASSUME NEW n \in Moves
        PROVE  MoveInv(n)' /\ JobInv(n)'
    <3>1. MoveInv(n) /\ JobInv(n)
      BY DEF OwnershipInv
    <3>2. From[n] \in Sessions /\ To[n] \in Sessions
      BY TaskOwnershipAssumption
    <3>3. answer[n] # Unanswered => answer'[n] # Unanswered
      BY <1>8, <1>23
    <3>4. MoveInv(n)'
      BY <1>8, <1>24, <2>1, <2>2, <2>3, <3>1, <3>2, <3>3, MoveKept
    <3>5. JobInv(n)'
      <4>1. CASE n # m
        BY <1>1, <1>8, <1>23, <2>1, <2>3, <3>1, <4>1, JobKept
      <4>2. CASE n = m
        BY <1>8, <1>24, <2>5, <3>1, <4>2 DEF JobInv
      <4> QED  BY <4>1, <4>2
    <3> QED  BY <3>4, <3>5
  <2>7. TypeOK'
    <3>1. answer' \in [Moves -> [accepted : BOOLEAN, at : Time]]
      BY <1>3, <1>9, <1>24
    <3> QED  BY <1>1, <1>3, <1>8, <1>9, <2>1, <2>3, <3>1 DEF TypeOK
  <2>8. OwnershipInv'
    BY <1>3, <2>1, <2>2, <2>3, <2>6, <2>7 DEF OwnershipInv
  <2> QED  BY <2>3, <2>8 DEF StepOK
<1>25. \/ /\ ~foreign
          /\ chat' = [chat EXCEPT ![To[m]] = [life |-> "prepared", start |-> now', at |-> now', continued |-> 0]]
          /\ store' = [store EXCEPT ![c] = Taken(p, m, now')]
          /\ answer' = [answer EXCEPT ![m] = [accepted |-> TRUE, at |-> now']]
       \/ /\ answer' = [answer EXCEPT ![m].at = now']
          /\ store' = store \/ (~foreign /\ store' = [store EXCEPT ![c] = Accept(p, Event("rejected", m, now'))])
          /\ chat' = chat
  BY <1>2, <1>4, <1>5, <1>6, <1>7, <1>20 DEF Prepare
<1> QED  BY <1>22, <1>24, <1>25
-----------------------------------------------------------------------------
(* The theorems *)

\* The invariant at the start.
LEMMA InitInv == Init => OwnershipInv
<1> SUFFICES ASSUME Init  PROVE OwnershipInv
  OBVIOUS
<1>1. NoTask \in Task /\ NoExecution \in Execution /\ NoStore \in Store
  BY NoTypes
<1>2. 0 \in Nat /\ 1 \in Nat /\ 0 \in Time /\ 1 \in Time /\ 0 \in Stamp /\ 1 \in Stamp /\ 0 <= 0 /\ 0 # 1
  BY TaskOwnershipAssumption DEF Time, Stamp
<1> DEFINE idle == [start |-> 1, at |-> 1, ended |-> 0, continued |-> 0, state |-> "idle"]
           first == [NoStore EXCEPT !.task = [revision |-> 0, at |-> 1, state |-> "planned", owner |-> First],
                                    !.exec[First] = idle]
<1>3. First \in Sessions /\ Home[First] \in Computers
  BY TaskOwnershipAssumption
<1>4. \A s \in Sessions : NoStore.exec[s] = NoExecution /\ NoExecution.continued = 0
  BY DEF NoStore, NoExecution
<1>5. /\ NoStore.events = {} /\ NoStore.requests = {} /\ NoStore.receipts = {}
      /\ NoStore.exec \in [Sessions -> Execution]
  BY <1>1, StoreParts DEF NoStore
<1>6. /\ first \in Store /\ first.events = {} /\ first.requests = {} /\ first.receipts = {}
      /\ \A s \in Sessions : first.exec[s].continued = 0
  <2>1. idle \in Execution /\ idle.continued = 0
    BY <1>2 DEF Execution
  <2>2. [revision |-> 0, at |-> 1, state |-> "planned", owner |-> First] \in Task
    BY <1>2, <1>3 DEF Task, States
  <2> HIDE DEF idle
  <2>3. first = [NoStore EXCEPT !.task = [revision |-> 0, at |-> 1, state |-> "planned", owner |-> First],
                                !.exec = [NoStore.exec EXCEPT ![First] = idle]]
    BY DEF NoStore
  <2>4. [NoStore.exec EXCEPT ![First] = idle] \in [Sessions -> Execution]
    BY <1>5, <2>1
  <2>5. \A s \in Sessions : [NoStore.exec EXCEPT ![First] = idle][s].continued = 0
    BY <1>4, <1>5, <2>1
  <2>6. /\ first.exec = [NoStore.exec EXCEPT ![First] = idle]
        /\ first.events = {} /\ first.requests = {} /\ first.receipts = {}
        /\ first \in Store
    BY <1>5, <2>2, <2>3, <2>4 DEF NoStore, Store
  <2> QED  BY <2>5, <2>6
<1>7. \A c \in Computers : store[c] = IF c # Home[First] THEN NoStore ELSE first
  BY DEF Init
<1> HIDE DEF first
<1>8. /\ store \in [Computers -> Store] /\ net = {} /\ starting = {} /\ copy = NoStore /\ now = 1
      /\ job = [m \in Moves |-> NoJob] /\ answer = [m \in Moves |-> Unanswered]
      /\ instance \in Instance
  <2>1. store \in [Computers -> Store]
    BY <1>1, <1>6 DEF Init, first
  <2> QED  BY <2>1, TaskOwnershipAssumption DEF Init
<1>9. /\ chat \in [Sessions -> Chat]
      /\ \A s \in Sessions : /\ chat[s].continued = 0
                             /\ chat[s].life # "unborn" => chat[s].at = 1
      /\ \A s \in Sessions \ {First} : chat[s].life = "unborn"
  BY <1>2 DEF Init, Chat
<1>10. TypeOK
  <2>1. job \in [Moves -> [task : Task, exec : Execution, at : Time]]
    BY <1>1, <1>2, <1>8 DEF NoJob
  <2>2. answer \in [Moves -> [accepted : BOOLEAN, at : Time]]
    BY <1>2, <1>8 DEF Unanswered
  <2> QED  BY <1>1, <1>2, <1>8, <1>9, <2>1, <2>2 DEF TypeOK
<1>11. \A m \in Moves : ~Requested(m)
  BY <1>8 DEF Requested
<1>12. ASSUME NEW r, r = NoStore \/ r = first
       PROVE  Sounds(r) /\ r.receipts = {}
  <2>1. r \in Store /\ r.events = {} /\ r.requests = {} /\ r.receipts = {}
    BY <1>1, <1>5, <1>6, <1>12
  <2>2. \A s \in Sessions : r.exec[s].continued = 0
    BY <1>4, <1>6, <1>12
  <2> QED  BY <1>2, <1>9, <2>1, <2>2 DEF Sounds
<1>13. StoresInv
  <2>1. \A c \in Computers : store[c] = NoStore \/ store[c] = first
    BY <1>7
  <2> QED  BY <1>11, <1>12, <2>1 DEF StoresInv, Source
<1>14. ChatsInv
  BY <1>2, <1>9 DEF ChatsInv
<1>15. NetInv
  BY <1>8, <1>12 DEF NetInv
<1>16. ASSUME NEW m \in Moves
       PROVE  MoveInv(m) /\ JobInv(m)
  <2>1. To[m] \in Sessions \ {First}
    BY TaskOwnershipAssumption
  <2>2. ~Born(To[m])
    BY <1>9, <2>1 DEF Born
  <2>3. job[m] = NoJob /\ answer[m] = Unanswered
    BY <1>8
  <2>4. ~answer[m].accepted
    BY <2>3 DEF Unanswered
  <2> QED  BY <1>8, <1>11, <2>2, <2>3, <2>4 DEF MoveInv, JobInv
<1> QED  BY <1>2, <1>8, <1>10, <1>13, <1>14, <1>15, <1>16 DEF OwnershipInv

\* Every step keeps the invariant and takes nothing back.
LEMMA Steps ==
  ASSUME OwnershipInv, Next
  PROVE  StepOK
<1>1. TypeOK /\ StoresInv /\ NetInv
  BY DEF OwnershipInv
<1>2. store \in [Computers -> Store]
  BY <1>1 DEF TypeOK
<1>3. CASE Resume
  BY <1>3, ResumeStep
<1>4. ASSUME NEW s \in Sessions, ChatStep(s), UNCHANGED instance
      PROVE  StepOK
  BY <1>4, WorkStep, CompleteStep DEF ChatStep
<1>5. ASSUME NEW m \in instance.moves, MoveStep(m), UNCHANGED instance
      PROVE  StepOK
  <2>1. m \in Moves
    BY <1>1 DEF TypeOK, Instance
  <2>2. CASE Handoff(m)
    BY <1>5, <2>1, <2>2, HandoffStep
  <2>3. CASE Started(m)
    BY <1>5, <2>1, <2>3, StartedStep
  <2>4. CASE Prepare(m)
    BY <1>5, <2>1, <2>4, PrepareStep
  <2>5. CASE Recover(m)
    BY <1>5, <2>1, <2>5, RecoverStep
  <2>6. CASE Continue(m)
    BY <1>5, <2>1, <2>6, ContinueStep
  <2> QED  BY <1>5, <2>2, <2>3, <2>4, <2>5, <2>6 DEF MoveStep
<1>6. ASSUME NEW c \in Computers, Read(c), UNCHANGED instance
      PROVE  StepOK
  BY <1>6, ReadStep
<1>7. ASSUME NEW c \in Computers, Publish(c), UNCHANGED instance
      PROVE  StepOK
  BY <1>7, PublishStep
<1>8. ASSUME NEW d \in Computers, Late(d), UNCHANGED instance
      PROVE  StepOK
  <2>1. PICK q : q = copy
    OBVIOUS
  <2>2. Sounds(q)
    BY <1>1, <2>1 DEF NetInv
  <2>3. /\ store' = [store EXCEPT ![d] = Merged(@, q)]
        /\ UNCHANGED <<chat, starting, job, answer, net, copy, now, instance>>
    BY <1>8, <2>1 DEF Late
  <2> QED  BY <2>1, <2>2, <2>3, ExchangeStep
<1>9. ASSUME NEW c \in Computers, NEW e \in net, Deliver(c, e), UNCHANGED instance
      PROVE  StepOK
  BY <1>9, DeliverStep
<1>10. ASSUME NEW c \in Computers, NEW d \in Computers, Exchange(c, d), UNCHANGED instance
       PROVE  StepOK
  <2>1. PICK q : q = store[c]
    OBVIOUS
  <2>2. Sounds(q) /\ c \in Computers \ {d}
    BY <1>1, <1>10, <2>1 DEF StoresInv, Exchange
  <2>3. /\ store' = [store EXCEPT ![d] = Merged(@, q)]
        /\ UNCHANGED <<chat, starting, job, answer, net, copy, now, instance>>
    BY <1>10, <2>1 DEF Exchange
  <2>4. q = copy \/ \E b \in Computers \ {d} : q = store[b]
    BY <2>1, <2>2
  <2> QED  BY <2>2, <2>3, <2>4, ExchangeStep
<1> QED  BY <1>3, <1>4, <1>5, <1>6, <1>7, <1>8, <1>9, <1>10 DEF Next

\* The invariant is inductive.
LEMMA StepInv == OwnershipInv /\ [Next]_vars => OwnershipInv'
<1>1. ASSUME OwnershipInv, UNCHANGED vars
      PROVE  OwnershipInv'
  <2>1. UNCHANGED <<store, chat, starting, job, answer, net, copy, now, instance>>
    BY <1>1 DEF vars
  <2>2. TypeOK' /\ now' # 0 /\ ChatsInv'
    BY <1>1, <2>1 DEF OwnershipInv, TypeOK, ChatsInv
  <2>3. \A m : (Requested(m)' <=> Requested(m)) /\ (Born(m)' <=> Born(m))
    BY <2>1 DEF Requested, Born
  <2>4. \A r : Sounds(r)' <=> Sounds(r)
    BY <2>1, <2>3 DEF Sounds, Sound
  <2>5. StoresInv'
    <3>1. \A r, c, m : Source(r, c, m)' <=> Source(r, c, m)
      BY <2>1, <2>3 DEF Source
    <3> QED  BY <1>1, <2>1, <2>4, <3>1 DEF OwnershipInv, StoresInv
  <2>6. NetInv'
    BY <1>1, <2>1, <2>3, <2>4 DEF OwnershipInv, NetInv, Sound
  <2>7. \A m \in Moves : MoveInv(m)' /\ JobInv(m)'
    BY <1>1, <2>1, <2>3 DEF OwnershipInv, MoveInv, JobInv, AskedAt
  <2> QED  BY <2>2, <2>5, <2>6, <2>7 DEF OwnershipInv
<1> QED  BY <1>1, Steps DEF StepOK

\* The invariant holds at all times: what each computer knows is of handoffs that were
\* asked and of chats that were made, and on its own computer a chat that handed the Task
\* on is closed, or is one that may go on (upsertTask, applyEvent, acceptHandoff).
THEOREM OwnershipInvariant == Spec => []OwnershipInv
<1>1. Init => OwnershipInv
  BY InitInv
<1>2. OwnershipInv /\ [Next]_vars => OwnershipInv'
  BY StepInv
<1> QED  BY <1>1, <1>2, PTL DEF Spec

\* Every store, chat, job and answer stays well formed: owners are chats, executions
\* carry times, events are of handoffs and chats that there are.
THEOREM TypeCorrect == Spec => []TypeOK
<1>1. OwnershipInv => TypeOK
  BY DEF OwnershipInv
<1> QED  BY <1>1, OwnershipInvariant, PTL

\* For any number of computers, chats and handoffs, and whatever events and snapshots
\* arrive in whichever order: what was handed on stays handed on, and what has ended
\* stays ended, but for the cases that NotTakenBack and StaysClosed name.
THEOREM HandedOn == Spec => MovedStaysMoved
<1>1. OwnershipInv /\ Next => \A c \in Computers : NotTakenBack(c) /\ StaysClosed(c)
  BY Steps DEF StepOK
<1> QED  BY <1>1, OwnershipInvariant, PTL DEF Spec, MovedStaysMoved
=============================================================================
