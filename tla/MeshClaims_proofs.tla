--------------------------- MODULE MeshClaims_proofs ---------------------------
(****************************************************************************)
(* A file is not claimed twice and a row is not lost, for any number of     *)
(* processes, agents and claims.  A process that holds back no change of a  *)
(* claim sees it as the file has it; one that does holds back a change of   *)
(* the row that is on disk, or the claim is contested.                      *)
(****************************************************************************)
EXTENDS MeshClaims, TLAPS

\* What a process sees of c, or the file holds, respects what was told and
\* released, and keeps or settles the row that is on disk.
Sound(s, c) ==
  /\ told[c] > clock => s.claims[c] >= told[c]
  /\ ~(s.claims[c] > clock /\ s.released[c] > clock)
  /\ file.claims[c] > clock => \/ s.claims[c] >= file.claims[c]
                               \/ s.claims[c] = 0 /\ s.released[c] >= file.claims[c]

SameRows(s, t, c) == s.claims[c] = t.claims[c] /\ s.released[c] = t.released[c]

ClaimInv(c) ==
  /\ Sound(file, c)
  /\ \A p \in Processes : Sound(View(p), c) /\ (Pending(p, c) => SameRows(baseline[p], file, c))

MeshInv ==
  /\ TypeOK
  /\ \A p \in Processes : ~stale[p] => baseline[p] = file
  /\ \A c \in Claims \ contested : ClaimInv(c)
  /\ OneHolder
-----------------------------------------------------------------------------
LEMMA Bounds ==
  /\ MaxTime \in Nat /\ Monitor \in Processes /\ Observed \subseteq Claims
  /\ Expiry \subseteq Nat /\ 0 \in Expiry
  /\ \A c \in Claims : \A until \in Lease[c] : until \in Expiry
  BY MeshClaimsAssumption DEF Expiry

LEMMA StoreRows ==
  ASSUME NEW s \in Store, NEW c \in Claims
  PROVE  /\ s.claims \in Rows /\ s.released \in Rows
         /\ s.claims[c] \in Expiry /\ s.released[c] \in Expiry /\ s.claims[c] \in Nat /\ s.released[c] \in Nat
  BY Bounds DEF Store, Rows

\* A row as laid over the file: the change held back, if there is one.
LEMMA RowLaid ==
  ASSUME NEW disk \in Rows, NEW before \in Rows, NEW now \in Rows
  PROVE  /\ LayRows(disk, before, now) \in Rows
         /\ \A c \in Claims : /\ disk[c] = before[c] => LayRows(disk, before, now)[c] = now[c]
                              /\ now[c] = before[c] => LayRows(disk, before, now)[c] = disk[c]
                              /\ now[c] = 0 => LayRows(disk, before, now)[c] = disk[c]
                                               \/ (LayRows(disk, before, now)[c] = 0 /\ disk[c] = before[c])
<1>1. \A c \in Claims : disk[c] \in Expiry /\ now[c] \in Expiry /\ 0 \in Expiry
  BY Bounds DEF Rows
<1>2. LayRows(disk, before, now) \in Rows
  BY <1>1 DEF LayRows, Rows
<1>3. QED
  BY <1>1, <1>2 DEF LayRows

LEMMA StoreLaid ==
  ASSUME NEW d \in Store, NEW b \in Store, NEW m \in Store
  PROVE  /\ Lay(d, b, m) \in Store
         /\ \A c \in Claims :
              /\ SameRows(b, d, c) => SameRows(Lay(d, b, m), m, c)
              /\ m.claims[c] = b.claims[c] => Lay(d, b, m).claims[c] = d.claims[c]
              /\ m.claims[c] = 0 => Lay(d, b, m).claims[c] = d.claims[c] \/ (Lay(d, b, m).claims[c] = 0 /\ d.claims[c] = b.claims[c])
              /\ m.released[c] = b.released[c] => Lay(d, b, m).released[c] = d.released[c]
              /\ m.released[c] = 0 => Lay(d, b, m).released[c] = d.released[c] \/ (Lay(d, b, m).released[c] = 0 /\ d.released[c] = b.released[c])
<1>1. /\ d.claims \in Rows /\ b.claims \in Rows /\ m.claims \in Rows
      /\ d.released \in Rows /\ b.released \in Rows /\ m.released \in Rows
  BY DEF Store
<1>2. /\ Lay(d, b, m).claims = LayRows(d.claims, b.claims, m.claims)
      /\ Lay(d, b, m).released = LayRows(d.released, b.released, m.released)
  BY DEF Lay
<1>3. Lay(d, b, m) \in Store
  BY <1>1, RowLaid DEF Lay, Store
<1>4. ASSUME NEW c \in Claims
      PROVE  /\ SameRows(b, d, c) => SameRows(Lay(d, b, m), m, c)
             /\ m.claims[c] = b.claims[c] => Lay(d, b, m).claims[c] = d.claims[c]
             /\ m.claims[c] = 0 => Lay(d, b, m).claims[c] = d.claims[c] \/ (Lay(d, b, m).claims[c] = 0 /\ d.claims[c] = b.claims[c])
             /\ m.released[c] = b.released[c] => Lay(d, b, m).released[c] = d.released[c]
             /\ m.released[c] = 0 => Lay(d, b, m).released[c] = d.released[c] \/ (Lay(d, b, m).released[c] = 0 /\ d.released[c] = b.released[c])
  <2>1. /\ d.claims[c] = b.claims[c] => Lay(d, b, m).claims[c] = m.claims[c]
        /\ m.claims[c] = b.claims[c] => Lay(d, b, m).claims[c] = d.claims[c]
        /\ m.claims[c] = 0 => Lay(d, b, m).claims[c] = d.claims[c] \/ (Lay(d, b, m).claims[c] = 0 /\ d.claims[c] = b.claims[c])
    BY <1>1, <1>2, RowLaid
  <2>2. /\ d.released[c] = b.released[c] => Lay(d, b, m).released[c] = m.released[c]
        /\ m.released[c] = b.released[c] => Lay(d, b, m).released[c] = d.released[c]
        /\ m.released[c] = 0 => Lay(d, b, m).released[c] = d.released[c] \/ (Lay(d, b, m).released[c] = 0 /\ d.released[c] = b.released[c])
    BY <1>1, <1>2, RowLaid
  <2>3. QED
    BY <2>1, <2>2 DEF SameRows
<1>5. QED
  BY <1>3, <1>4

\* Without a change to write, a process sees the row on disk, or has dropped it as expired.
LEMMA Reads ==
  ASSUME NEW d \in Store, NEW b \in Store, NEW m \in Store, NEW c \in Claims, NEW t \in Nat,
         m.claims[c] # b.claims[c] => m.claims[c] = 0 /\ b.claims[c] <= t,
         m.released[c] # b.released[c] => m.released[c] = 0 /\ b.released[c] <= t
  PROVE  /\ Lay(d, b, m).claims[c] = d.claims[c] \/ (Lay(d, b, m).claims[c] = 0 /\ d.claims[c] <= t)
         /\ Lay(d, b, m).released[c] = d.released[c] \/ (Lay(d, b, m).released[c] = 0 /\ d.released[c] <= t)
  BY StoreLaid

LEMMA Views ==
  ASSUME MeshInv, NEW p \in Processes
  PROVE  /\ View(p) \in Store /\ Base(p) = file /\ file \in Store /\ memory[p] \in Store /\ baseline[p] \in Store
         /\ clock \in Nat /\ clock <= MaxTime
         /\ \A c \in Claims : told[c] \in Nat
<1>1. /\ file \in Store /\ memory[p] \in Store /\ baseline[p] \in Store /\ clock \in Nat /\ clock <= MaxTime
      /\ \A c \in Claims : told[c] \in Nat
  <2>1. file \in Store /\ memory[p] \in Store /\ baseline[p] \in Store /\ clock \in 0..MaxTime /\ told \in Rows
    BY DEF MeshInv, TypeOK
  <2>2. \A c \in Claims : told[c] \in Expiry
    BY <2>1 DEF Rows
  <2>3. MaxTime \in Nat /\ \A x \in Expiry : x \in Nat
    BY Bounds
  <2>4. QED
    BY <2>1, <2>2, <2>3
<1>2. View(p) \in Store
  BY <1>1, StoreLaid DEF View
<1>3. Base(p) = file
  BY DEF Base, MeshInv
<1>4. QED
  BY <1>1, <1>2, <1>3
-----------------------------------------------------------------------------
\* A process changes its memory: what it sees from then on is what it put there.
Remembers(p, new) ==
  /\ file' = file
  /\ memory' = [memory EXCEPT ![p] = new] /\ baseline' = [baseline EXCEPT ![p] = file]
  /\ stale' = [stale EXCEPT ![p] = FALSE]
  /\ pc' \in [Processes -> {"idle", "saving"}]

LEMMA Changes ==
  ASSUME MeshInv, NEW p \in Processes, NEW new, Change(p, new)
  PROVE  Remembers(p, new)
  BY Views DEF Change, Remembers, MeshInv, TypeOK

LEMMA ChangeSound ==
  ASSUME MeshInv, NEW p \in Processes, NEW new \in Store, Remembers(p, new), clock' = clock,
         contested \subseteq contested', contested' \subseteq Claims, told' \in Rows,
         \A c \in Claims : told'[c] \in {told[c], 0},
         \A c \in Claims \ contested' : Sound(new, c)'
  PROVE  MeshInv'
<1>1. file' = file /\ file \in Store
  BY Views DEF Remembers
<1>2. /\ memory' \in [Processes -> Store] /\ memory'[p] = new /\ \A q \in Processes : q # p => memory'[q] = memory[q]
      /\ baseline' \in [Processes -> Store] /\ baseline'[p] = file /\ \A q \in Processes : q # p => baseline'[q] = baseline[q]
      /\ stale' \in [Processes -> BOOLEAN] /\ stale'[p] = FALSE /\ \A q \in Processes : q # p => stale'[q] = stale[q]
      /\ pc' \in [Processes -> {"idle", "saving"}]
  BY <1>1 DEF Remembers, MeshInv, TypeOK
<1>3. TypeOK'
  BY <1>1, <1>2 DEF MeshInv, TypeOK
<1>4. \A q \in Processes : ~stale'[q] => baseline'[q] = file'
  BY <1>1, <1>2 DEF MeshInv
<1>5. ASSUME NEW c \in Claims \ contested'
      PROVE  ClaimInv(c)'
  <2>1. ClaimInv(c) /\ told'[c] \in {told[c], 0} /\ told[c] \in Nat /\ clock \in Nat
    BY <1>5, Views DEF MeshInv
  <2>2. Sound(file, c)'
    BY <1>1, <2>1 DEF ClaimInv, Sound
  <2>3. ASSUME NEW q \in Processes, q # p
        PROVE  Sound(View(q), c)' /\ (Pending(q, c)' => SameRows(baseline[q], file, c)')
    <3>1. View(q)' = View(q)
      BY <1>1, <1>2, <2>3 DEF View
    <3>2. PICK v : v = View(q)
      OBVIOUS
    <3>3. Sound(v, c)
      BY <2>1, <3>2 DEF ClaimInv
    <3>4. Sound(v, c)'
      BY <1>1, <2>1, <3>3 DEF Sound
    <3>5. Sound(View(q), c)'
      BY <3>1, <3>2, <3>4 DEF Sound
    <3>6. Pending(q, c)' <=> Pending(q, c)
      BY <1>2, <2>3 DEF Pending, Changed
    <3>7. QED
      BY <1>1, <1>2, <2>1, <2>3, <3>5, <3>6 DEF ClaimInv, SameRows
  <2>4. Sound(View(p), c)' /\ SameRows(baseline[p], file, c)'
    <3>1. View(p)' = new
      BY <1>2 DEF View
    <3>2. Sound(new, c)'
      BY <1>5
    <3>3. QED
      BY <1>1, <1>2, <3>1, <3>2 DEF Sound, SameRows
  <2>5. QED
    BY <2>2, <2>3, <2>4 DEF ClaimInv
<1>6. OneHolder'
  <2>1. \A c, d \in Claims \ contested : Overlap(c, d) => ~(told[c] > clock /\ told[d] > clock)
    BY DEF MeshInv, OneHolder
  <2>2. \A c \in Claims : told'[c] > clock => told[c] > clock
    BY Views
  <2>3. QED
    BY <2>1, <2>2 DEF OneHolder, Overlap
<1>7. QED
  BY <1>3, <1>4, <1>5, <1>6 DEF MeshInv

\* A process writes the file: the others keep seeing what they held back, and
\* otherwise see what was written.
LEMMA WriteSound ==
  ASSUME MeshInv, NEW p \in Processes, NEW new \in Store, Write(p, new), clock' = clock,
         contested \subseteq contested', contested' \subseteq Claims, told' \in Rows,
         pc' \in [Processes -> {"idle", "saving"}], OneHolder',
         \A c \in Claims \ contested' :
           /\ told'[c] > clock => new.claims[c] >= told'[c]
           /\ ~(new.claims[c] > clock /\ new.released[c] > clock)
           /\ \A q \in Processes \ {p} : Pending(q, c) => SameRows(new, file, c) /\ told'[c] = told[c]
  PROVE  MeshInv'
<1>1. file' = new /\ file \in Store
  BY Views DEF Write
<1>2. /\ memory' \in [Processes -> Store] /\ memory'[p] = new /\ \A q \in Processes : q # p => memory'[q] = memory[q]
      /\ baseline' \in [Processes -> Store] /\ baseline'[p] = new /\ \A q \in Processes : q # p => baseline'[q] = baseline[q]
      /\ stale' \in [Processes -> BOOLEAN] /\ \A q \in Processes : stale'[q] <=> q # p
  BY <1>1 DEF Write, MeshInv, TypeOK
<1>3. TypeOK'
  BY <1>1, <1>2 DEF MeshInv, TypeOK
<1>4. \A q \in Processes : ~stale'[q] => baseline'[q] = file'
  BY <1>1, <1>2
<1>5. ASSUME NEW c \in Claims \ contested'
      PROVE  ClaimInv(c)'
  <2>1. ClaimInv(c) /\ told[c] \in Nat /\ clock \in Nat
    BY <1>5, Views DEF MeshInv
  <2>2. told'[c] \in Nat /\ new.claims[c] \in Nat /\ new.released[c] \in Nat
    BY Bounds, StoreRows DEF Rows
  <2>3. Sound(file, c)'
    BY <1>1, <1>5, <2>2 DEF Sound
  <2>4. ASSUME NEW q \in Processes, q # p
        PROVE  Sound(View(q), c)' /\ (Pending(q, c)' => SameRows(baseline[q], file, c)')
    <3>1. View(q)' = Lay(new, baseline[q], memory[q]) /\ (Pending(q, c)' <=> Pending(q, c))
      BY <1>1, <1>2, <2>4 DEF View, Pending, Changed
    <3>2. PICK v : v = Lay(new, baseline[q], memory[q])
      OBVIOUS
    <3>3. /\ baseline[q] \in Store /\ memory[q] \in Store /\ v \in Store
          /\ memory[q].claims[c] \in Nat /\ memory[q].released[c] \in Nat
      BY <3>2, Views, StoreLaid, StoreRows
    <3>4. CASE Pending(q, c)
      <4>1. SameRows(baseline[q], file, c) /\ SameRows(new, file, c) /\ told'[c] = told[c]
        BY <1>5, <2>1, <2>4, <3>4 DEF ClaimInv
      <4>2. SameRows(v, memory[q], c)
        BY <3>2, <3>3, <4>1, StoreLaid DEF SameRows
      <4>3. SameRows(View(q), memory[q], c)
        <5>1. stale[q] => SameRows(View(q), memory[q], c)
          BY <1>1, <3>3, <4>1, StoreLaid DEF View
        <5>2. QED
          BY <5>1 DEF View, SameRows
      <4>4. Sound(View(q), c)
        BY <2>1 DEF ClaimInv
      <4>5. Sound(v, c)'
        BY <1>1, <4>1, <4>2, <4>3, <4>4 DEF Sound, SameRows
      <4>6. SameRows(baseline[q], file, c)'
        BY <1>1, <1>2, <2>4, <4>1 DEF SameRows
      <4>7. QED
        BY <3>1, <3>2, <4>5, <4>6 DEF Sound
    <3>5. CASE ~Pending(q, c)
      <4>1. /\ memory[q].claims[c] # baseline[q].claims[c] => memory[q].claims[c] = 0 /\ baseline[q].claims[c] <= clock
            /\ memory[q].released[c] # baseline[q].released[c] => memory[q].released[c] = 0 /\ baseline[q].released[c] <= clock
        BY <3>5 DEF Pending, Changed
      <4>2. /\ v.claims[c] = new.claims[c] \/ (v.claims[c] = 0 /\ new.claims[c] <= clock)
            /\ v.released[c] = new.released[c] \/ (v.released[c] = 0 /\ new.released[c] <= clock)
        BY <2>1, <3>2, <3>3, <4>1, Reads
      <4>3. Sound(v, c)'
        BY <1>1, <1>5, <2>1, <2>2, <4>2 DEF Sound
      <4>4. QED
        BY <3>1, <3>2, <3>5, <4>3 DEF Sound
    <3>6. QED
      BY <3>4, <3>5
  <2>5. Sound(View(p), c)' /\ SameRows(baseline[p], file, c)'
    <3>1. View(p)' = new
      BY <1>2 DEF View
    <3>2. QED
      BY <1>1, <1>2, <2>3, <3>1 DEF Sound, SameRows
  <2>6. QED
    BY <2>3, <2>4, <2>5 DEF ClaimInv
<1>6. QED
  BY <1>3, <1>4, <1>5 DEF MeshInv
-----------------------------------------------------------------------------
\* Two overlapping claims nobody told anything new of stay as they were.
LEMMA StillOne ==
  ASSUME MeshInv, clock' = clock, contested \subseteq contested', \A c \in Claims : told'[c] \in {told[c], 0}
  PROVE  OneHolder'
<1>1. \A c, d \in Claims \ contested : Overlap(c, d) => ~(told[c] > clock /\ told[d] > clock)
  BY DEF MeshInv, OneHolder
<1>2. \A c \in Claims : told'[c] > clock => told[c] > clock
  BY Bounds, Views
<1>3. QED
  BY <1>1, <1>2 DEF OneHolder, Overlap

\* What p sees of a claim that is not contested.
LEMMA SeenSound ==
  ASSUME MeshInv, NEW p \in Processes, NEW c \in Claims \ contested
  PROVE  /\ Sound(View(p), c) /\ Sound(file, c)
         /\ file.claims[c] \in Nat /\ View(p).claims[c] \in Nat /\ View(p).released[c] \in Nat
  BY Views, StoreRows DEF MeshInv, ClaimInv

LEMMA MeshSave ==
  ASSUME MeshInv, NEW p \in Processes, Save(p)
  PROVE  MeshInv'
<1>1. PICK new \in Store : new = View(p)
  BY Views
<1>2. Write(p, new) /\ clock' = clock /\ told' = told /\ contested' = contested \cup Raced(p, new)
  BY <1>1 DEF Save
<1>3. /\ contested \subseteq contested' /\ contested' \subseteq Claims /\ told' \in Rows
      /\ pc' \in [Processes -> {"idle", "saving"}]
  BY <1>2 DEF Save, MeshInv, TypeOK, Raced
<1>4. ASSUME NEW c \in Claims \ contested'
      PROVE  /\ told'[c] > clock => new.claims[c] >= told'[c]
             /\ ~(new.claims[c] > clock /\ new.released[c] > clock)
             /\ \A q \in Processes \ {p} : Pending(q, c) => SameRows(new, file, c) /\ told'[c] = told[c]
  <2>1. Sound(new, c)
    BY <1>1, <1>3, <1>4, SeenSound
  <2>2. QED
    BY <1>2, <1>4, <2>1 DEF Sound, Raced, SameRows
<1>5. OneHolder'
  BY <1>2, <1>3, StillOne
<1>6. QED
  BY <1>2, <1>3, <1>4, <1>5, WriteSound

LEMMA MeshAccept ==
  ASSUME MeshInv, NEW p \in Processes, NEW c \in Claims, NEW until \in Lease[c], AcceptClaim(p, c, until)
  PROVE  MeshInv'
<1>1. PICK view \in Store : view = View(p)
  BY Views
<1>2. PICK new : new = IF Conflict(view, c) THEN view ELSE Applied(view, c, until)
  OBVIOUS
<1>3. /\ until \in Expiry /\ until \in Nat /\ clock \in Nat /\ until > clock
      /\ contested \subseteq Claims /\ told \in Rows /\ pc' = pc /\ pc \in [Processes -> {"idle", "saving"}]
  BY Bounds, Views DEF AcceptClaim, MeshInv, TypeOK
<1>4. new \in Store
  BY <1>1, <1>2, <1>3 DEF Applied, Merged, Store, Rows
<1>5. Write(p, new) /\ clock' = clock /\ Raced(p, new) \subseteq contested'
  BY <1>1, <1>2 DEF AcceptClaim, Answer
<1>6. CASE Conflict(view, c)
  <2>1. new = view /\ told' = told /\ contested' = contested \cup Raced(p, new)
    BY <1>1, <1>2, <1>6 DEF AcceptClaim
  <2>2. contested \subseteq contested' /\ contested' \subseteq Claims
    BY <1>3, <2>1 DEF Raced
  <2>3. ASSUME NEW d \in Claims \ contested'
        PROVE  /\ told'[d] > clock => new.claims[d] >= told'[d]
               /\ ~(new.claims[d] > clock /\ new.released[d] > clock)
               /\ \A q \in Processes \ {p} : Pending(q, d) => SameRows(new, file, d) /\ told'[d] = told[d]
    <3>1. Sound(new, d)
      BY <1>1, <2>1, <2>2, <2>3, SeenSound
    <3>2. QED
      BY <2>1, <2>3, <3>1 DEF Sound, Raced, SameRows
  <2>4. OneHolder'
    BY <1>5, <2>1, <2>2, StillOne
  <2>5. QED
    BY <1>3, <1>4, <1>5, <2>1, <2>2, <2>3, <2>4, WriteSound
<1>7. CASE ~Conflict(view, c)
  <2>1. /\ new = Applied(view, c, until) /\ told' = [told EXCEPT ![c] = until]
        /\ contested' = contested \cup Raced(p, new) \cup
             {d \in {c} : IsReleased(new, d) \/ \E q \in Processes \ {p} : Pending(q, d)}
    BY <1>1, <1>2, <1>7 DEF AcceptClaim, Answer
  <2>2. contested \subseteq contested' /\ contested' \subseteq Claims /\ told' \in Rows
    BY <1>3, <2>1 DEF Raced, Rows
  <2>3. ASSUME NEW d \in Claims \ contested'
        PROVE  /\ told'[d] > clock => new.claims[d] >= told'[d]
               /\ ~(new.claims[d] > clock /\ new.released[d] > clock)
               /\ \A q \in Processes \ {p} : Pending(q, d) => SameRows(new, file, d) /\ told'[d] = told[d]
    <3>1. Sound(view, d)
      BY <1>1, <2>2, <2>3, SeenSound
    <3>2. CASE d = c
      <4>1. ~IsReleased(new, c) /\ \A q \in Processes \ {p} : ~Pending(q, c)
        BY <2>1, <2>3, <3>2
      <4>2. new = Merged(view, c, until)
        BY <2>1, <4>1 DEF Applied, IsReleased
      <4>3. new.claims[c] = until /\ told'[c] = until
        BY <1>1, <1>3, <2>1, <4>2 DEF Merged, Store, Rows
      <4>4. QED
        BY <1>3, <3>2, <4>1, <4>3 DEF IsReleased
    <3>3. CASE d # c
      <4>1. new.claims[d] = view.claims[d] /\ new.released[d] = view.released[d] /\ told'[d] = told[d]
        BY <1>1, <1>3, <2>1, <3>3 DEF Applied, Merged, Store, Rows
      <4>2. QED
        BY <2>1, <2>3, <3>1, <4>1 DEF Sound, Raced, SameRows
    <3>4. QED
      BY <3>2, <3>3
  <2>4. OneHolder'
    <3>1. \A d \in Claims \ contested : Overlap(c, d) => ~(told[d] > clock)
      <4>1. ASSUME NEW d \in Claims \ contested, told[d] > clock
            PROVE  view.claims[d] > clock
        BY <1>1, <1>3, <4>1, SeenSound, Views DEF Sound
      <4>2. QED
        BY <1>7, <4>1 DEF Conflict, Live
    <3>2. \A d, e \in Claims \ contested : Overlap(d, e) => ~(told[d] > clock /\ told[e] > clock)
      BY DEF MeshInv, OneHolder
    <3>3. ~Overlap(c, c) /\ \A d \in Claims : Overlap(d, c) => Overlap(c, d)
      BY DEF Overlap
    <3>4. \A d \in Claims : d # c => told'[d] = told[d]
      BY <1>3, <2>1 DEF Rows
    <3>5. ASSUME NEW d \in Claims \ contested', NEW e \in Claims \ contested', Overlap(d, e)
          PROVE  ~(told'[d] > clock /\ told'[e] > clock)
      BY <2>2, <3>1, <3>2, <3>3, <3>4, <3>5
    <3>6. QED
      BY <1>5, <3>5 DEF OneHolder, Overlap
  <2>5. QED
    BY <1>3, <1>4, <1>5, <2>2, <2>3, <2>4, WriteSound
<1>8. QED
  BY <1>6, <1>7

LEMMA MeshFlush ==
  ASSUME MeshInv, Flush
  PROVE  MeshInv'
<1>1. Monitor \in Processes
  BY Bounds
<1>2. PICK new \in Store : new = View(Monitor)
  BY <1>1, Views
<1>3. Remembers(Monitor, new) /\ clock' = clock /\ told' = told /\ contested' = contested /\ contested \subseteq Claims /\ told \in Rows
  BY <1>1, <1>2, Changes DEF Flush, MeshInv, TypeOK
<1>4. ASSUME NEW c \in Claims \ contested'
      PROVE  Sound(new, c)'
  <2>1. Sound(new, c) /\ file' = file
    BY <1>1, <1>2, <1>3, <1>4, SeenSound DEF Remembers
  <2>2. QED
    BY <1>3, <2>1 DEF Sound
<1>5. QED
  BY <1>1, <1>3, <1>4, ChangeSound

LEMMA MeshRestart ==
  ASSUME MeshInv, NEW p \in Processes, Restart(p)
  PROVE  MeshInv'
<1>1. PICK new \in Store : new = file
  BY Views
<1>2. /\ Remembers(p, new) /\ clock' = clock /\ told' = told /\ contested' = contested
      /\ contested \subseteq Claims /\ told \in Rows
  BY <1>1 DEF Restart, Remembers, MeshInv, TypeOK
<1>3. ASSUME NEW c \in Claims \ contested'
      PROVE  Sound(new, c)'
  <2>1. Sound(new, c) /\ file' = file
    BY <1>1, <1>2, <1>3, SeenSound DEF Remembers
  <2>2. QED
    BY <1>2, <2>1 DEF Sound
<1>4. QED
  BY <1>2, <1>3, ChangeSound

\* A claim that is extended covers what its holder was told.
LEMMA MeshObserve ==
  ASSUME MeshInv, NEW c \in Claims, NEW until \in Lease[c], ObserveClaim(c, until)
  PROVE  MeshInv'
<1>1. Monitor \in Processes /\ until \in Expiry /\ until \in Nat /\ clock \in Nat
  BY Bounds, Views
<1>2. PICK view \in Store : view = View(Monitor)
  BY <1>1, Views
<1>3. PICK new : new = Merged(view, c, until)
  OBVIOUS
<1>4. /\ new \in Store /\ new.claims[c] = until /\ \A d \in Claims : d # c => new.claims[d] = view.claims[d]
      /\ new.released = view.released
  BY <1>1, <1>2, <1>3 DEF Merged, Store, Rows
<1>5. Change(Monitor, new) /\ clock' = clock /\ told' = told /\ contested' = contested
      /\ ~IsReleased(view, c) /\ view.claims[c] < until
  BY <1>2, <1>3 DEF ObserveClaim
<1>6. Remembers(Monitor, new) /\ contested \subseteq Claims /\ told \in Rows
  BY <1>1, <1>4, <1>5, Changes DEF MeshInv, TypeOK
<1>7. ASSUME NEW d \in Claims \ contested'
      PROVE  Sound(new, d)'
  <2>1. /\ Sound(view, d) /\ file' = file /\ told[d] \in Nat /\ file.claims[d] \in Nat
        /\ view.claims[d] \in Nat /\ view.released[d] \in Nat
    BY <1>1, <1>2, <1>5, <1>6, <1>7, SeenSound, Views DEF Remembers
  <2>2. CASE d = c
    BY <1>1, <1>4, <1>5, <2>1, <2>2 DEF Sound, IsReleased
  <2>3. CASE d # c
    BY <1>4, <1>5, <2>1, <2>3 DEF Sound
  <2>4. QED
    BY <2>2, <2>3
<1>8. QED
  BY <1>1, <1>4, <1>5, <1>6, <1>7, ChangeSound

\* The record of a release lasts as long as the row that is still on disk.
LEMMA MeshRelease ==
  ASSUME MeshInv, NEW p \in Processes, NEW c \in Claims, ReleaseClaim(p, c)
  PROVE  MeshInv'
<1>1. PICK view \in Store : view = View(p)
  BY Views
<1>2. PICK new : new = Released(view, c)
  OBVIOUS
<1>3. PICK end : end = IF view.claims[c] > clock THEN view.claims[c] ELSE clock + 1
  OBVIOUS
<1>4. /\ clock \in Nat /\ clock <= MaxTime /\ MaxTime \in Nat /\ view.claims[c] \in Nat /\ view.claims[c] \in Expiry
      /\ contested \subseteq Claims /\ told \in Rows
  BY Bounds, Views, StoreRows DEF MeshInv, TypeOK
<1>5. end \in Expiry /\ end \in Nat /\ end > clock /\ (view.claims[c] > clock => end = view.claims[c])
  BY <1>3, <1>4, Bounds DEF Expiry
<1>6. new = [view EXCEPT !.claims[c] = 0, !.released[c] = end]
  BY <1>2, <1>3 DEF Released
<1>7. /\ new \in Store /\ new.claims[c] = 0 /\ new.released[c] = end
      /\ \A d \in Claims : d # c => new.claims[d] = view.claims[d] /\ new.released[d] = view.released[d]
  BY <1>1, <1>5, <1>6, Bounds DEF Store, Rows
<1>8. /\ Change(p, new) /\ clock' = clock /\ told' = [told EXCEPT ![c] = 0] /\ contested' = contested
      /\ view.claims[c] # 0
  BY <1>1, <1>2 DEF ReleaseClaim
<1>9. /\ Remembers(p, new) /\ told' \in Rows /\ told'[c] = 0
      /\ \A d \in Claims : d # c => told'[d] = told[d]
  BY <1>4, <1>8, Changes, Bounds DEF Rows
<1>10. ASSUME NEW d \in Claims \ contested'
       PROVE  Sound(new, d)'
  <2>1. /\ Sound(view, d) /\ file' = file /\ told[d] \in Nat /\ file.claims[d] \in Nat
        /\ view.claims[d] \in Nat /\ view.released[d] \in Nat
    BY <1>1, <1>8, <1>9, <1>10, SeenSound, Views DEF Remembers
  <2>2. CASE d = c
    BY <1>4, <1>5, <1>7, <1>8, <1>9, <2>1, <2>2 DEF Sound
  <2>3. CASE d # c
    BY <1>7, <1>8, <1>9, <2>1, <2>3 DEF Sound
  <2>4. QED
    BY <2>2, <2>3
<1>11. QED
  BY <1>4, <1>7, <1>8, <1>9, <1>10, ChangeSound

LEMMA MeshActive ==
  ASSUME MeshInv, NEW p \in Processes, ActiveClaims(p)
  PROVE  MeshInv'
<1>1. PICK view \in Store : view = View(p)
  BY Views
<1>2. PICK new : new = [claims |-> Unexpired(view.claims), released |-> Unexpired(view.released)]
  OBVIOUS
<1>3. /\ new \in Store
      /\ \A c \in Claims : /\ new.claims[c] = IF view.claims[c] > clock THEN view.claims[c] ELSE 0
                           /\ new.released[c] = IF view.released[c] > clock THEN view.released[c] ELSE 0
  <2>1. \A c \in Claims : view.claims[c] \in Expiry /\ view.released[c] \in Expiry /\ 0 \in Expiry
    BY StoreRows, Bounds
  <2>2. Unexpired(view.claims) \in Rows /\ Unexpired(view.released) \in Rows
    BY <2>1 DEF Unexpired, Rows
  <2>3. QED
    BY <1>2, <2>2 DEF Unexpired, Store
<1>4. Change(p, new) /\ clock' = clock /\ told' = told /\ contested' = contested
  BY <1>1, <1>2 DEF ActiveClaims
<1>5. Remembers(p, new) /\ contested \subseteq Claims /\ told \in Rows
  BY <1>4, Changes DEF MeshInv, TypeOK
<1>6. ASSUME NEW c \in Claims \ contested'
      PROVE  Sound(new, c)'
  <2>1. /\ Sound(view, c) /\ file' = file /\ told[c] \in Nat /\ file.claims[c] \in Nat /\ clock \in Nat
        /\ view.claims[c] \in Nat /\ view.released[c] \in Nat
    BY <1>1, <1>4, <1>5, <1>6, SeenSound, Views DEF Remembers
  <2>2. QED
    BY <1>3, <1>4, <2>1 DEF Sound
<1>7. QED
  BY <1>3, <1>4, <1>5, <1>6, ChangeSound

\* A copy that is not older than the row it replaces; what was released stays out.
LEMMA MeshMerge ==
  ASSUME MeshInv, NEW p \in Processes, NEW c \in Claims, NEW until \in Lease[c], MergeSnapshot(p, c, until)
  PROVE  MeshInv'
<1>1. PICK view \in Store : view = View(p)
  BY Views
<1>2. until \in Expiry /\ until \in Nat /\ clock \in Nat
  BY Bounds, Views
<1>3. PICK merged \in Rows : merged = [view.claims EXCEPT ![c] = until]
  BY <1>1, <1>2 DEF Store, Rows
<1>4. PICK kept : kept = [d \in Claims |-> IF IsReleased(view, d) THEN 0 ELSE merged[d]]
  OBVIOUS
<1>5. kept \in Rows
  <2>1. \A d \in Claims : merged[d] \in Expiry /\ 0 \in Expiry
    BY <1>3, Bounds DEF Rows
  <2>2. QED
    BY <1>4, <2>1 DEF Rows
<1>6. PICK new : new = [view EXCEPT !.claims = kept]
  OBVIOUS
<1>7. /\ new \in Store /\ new.released = view.released
      /\ \A d \in Claims : /\ IsReleased(view, d) => new.claims[d] = 0
                           /\ ~IsReleased(view, d) => new.claims[d] = IF d = c THEN until ELSE view.claims[d]
  BY <1>1, <1>3, <1>4, <1>5, <1>6 DEF Store, Rows
<1>8. Merged(view, c, until) = [view EXCEPT !.claims = merged]
  BY <1>1, <1>3 DEF Merged, Store
<1>9. Merged(view, c, until).claims = merged /\ [Merged(view, c, until) EXCEPT !.claims = kept] = new
  BY <1>1, <1>6, <1>8 DEF Store
<1>10. /\ Change(p, new) /\ clock' = clock /\ told' = told
       /\ contested' = contested \cup (IF until < view.claims[c] THEN {c} ELSE {})
  BY <1>1, <1>4, <1>9 DEF MergeSnapshot
<1>11. /\ Remembers(p, new) /\ contested \subseteq contested' /\ contested' \subseteq Claims /\ told \in Rows
  BY <1>10, Changes DEF MeshInv, TypeOK
<1>12. ASSUME NEW d \in Claims \ contested'
       PROVE  Sound(new, d)'
  <2>1. /\ Sound(view, d) /\ file' = file /\ told[d] \in Nat /\ file.claims[d] \in Nat
        /\ view.claims[d] \in Nat /\ view.released[d] \in Nat
    BY <1>1, <1>11, <1>12, SeenSound, Views DEF Remembers
  <2>2. d = c => until >= view.claims[c]
    BY <1>2, <1>10, <1>12, <2>1
  <2>3. QED
    BY <1>2, <1>7, <1>10, <2>1, <2>2 DEF Sound, IsReleased
<1>13. QED
  BY <1>7, <1>10, <1>11, <1>12, ChangeSound

LEMMA MeshTick ==
  ASSUME MeshInv, Tick
  PROVE  MeshInv'
<1>1. /\ clock' = clock + 1 /\ clock \in Nat /\ clock' \in 0..MaxTime
      /\ told' = [c \in Claims |-> IF told[c] > clock + 1 THEN told[c] ELSE 0]
      /\ UNCHANGED <<file, memory, baseline, stale, pc, contested>>
      /\ \A c \in Claims : told[c] \in Nat /\ told[c] \in Expiry
  BY Bounds, Views DEF Tick, MeshInv, TypeOK, Rows
<1>2. told' \in Rows /\ \A c \in Claims : told'[c] > clock' => told'[c] = told[c] /\ told[c] > clock
  BY <1>1, Bounds DEF Rows
<1>3. TypeOK' /\ \A q \in Processes : ~stale'[q] => baseline'[q] = file'
  BY <1>1, <1>2 DEF MeshInv, TypeOK
<1>4. ASSUME NEW c \in Claims \ contested'
      PROVE  ClaimInv(c)'
  <2>1. ASSUME NEW s \in Store, Sound(s, c)
        PROVE  Sound(s, c)'
    <3>1. s.claims[c] \in Nat /\ s.released[c] \in Nat /\ file.claims[c] \in Nat
      BY Bounds, Views, StoreRows
    <3>2. QED
      BY <1>1, <1>2, <2>1, <3>1 DEF Sound
  <2>2. file \in Store /\ Sound(file, c)
    BY <1>1, <1>4, Bounds, Views, SeenSound
  <2>3. Sound(file, c)'
    <3>1. PICK s \in Store : s = file
      BY <2>2
    <3>2. Sound(s, c)'
      BY <2>1, <2>2, <3>1
    <3>3. QED
      BY <1>1, <3>1, <3>2 DEF Sound
  <2>4. ASSUME NEW q \in Processes
        PROVE  Sound(View(q), c)' /\ (Pending(q, c)' => SameRows(baseline[q], file, c)')
    <3>1. PICK v \in Store : v = View(q)
      BY Views
    <3>2. Sound(v, c)'
      BY <1>1, <1>4, <2>1, <3>1, SeenSound
    <3>3. View(q)' = v
      BY <1>1, <3>1 DEF View
    <3>4. Pending(q, c)' => Pending(q, c)
      <4>1. baseline[q].claims[c] \in Nat /\ baseline[q].released[c] \in Nat
        BY Views, StoreRows
      <4>2. QED
        BY <1>1, <4>1 DEF Pending, Changed
    <3>5. Pending(q, c) => SameRows(baseline[q], file, c)
      BY <1>1, <1>4 DEF MeshInv, ClaimInv
    <3>6. QED
      BY <1>1, <3>2, <3>3, <3>4, <3>5 DEF Sound, SameRows
  <2>5. QED
    BY <2>3, <2>4 DEF ClaimInv
<1>5. OneHolder'
  BY <1>1, <1>2 DEF MeshInv, OneHolder, Overlap
<1>6. QED
  BY <1>3, <1>4, <1>5 DEF MeshInv

LEMMA MeshQuiet ==
  ASSUME MeshInv, UNCHANGED <<clock, file, memory, baseline, stale, told, contested>>,
         pc' \in [Processes -> {"idle", "saving"}]
  PROVE  MeshInv'
<1>1. TypeOK'
  BY DEF MeshInv, TypeOK
<1>2. \A c \in Claims : ClaimInv(c)' <=> ClaimInv(c)
  BY DEF ClaimInv, Sound, View, Pending, Changed, SameRows
<1>3. QED
  BY <1>1, <1>2 DEF MeshInv, OneHolder, Overlap
-----------------------------------------------------------------------------
LEMMA MeshInit == Init => MeshInv
<1> SUFFICES ASSUME Init PROVE MeshInv
  OBVIOUS
<1>1. EmptyStore \in Store /\ EmptyStore.claims = NoRows /\ EmptyStore.released = NoRows /\ NoRows \in Rows
      /\ \A c \in Claims : NoRows[c] = 0
  BY Bounds DEF EmptyStore, NoRows, Store, Rows
<1>2. TypeOK
  BY <1>1, Bounds DEF Init, TypeOK
<1>3. ASSUME NEW c \in Claims
      PROVE  ClaimInv(c)
  <2>1. Sound(EmptyStore, c)
    BY <1>1 DEF Init, Sound
  <2>2. QED
    BY <2>1 DEF Init, ClaimInv, View, Pending, Changed, SameRows
<1>4. OneHolder
  BY <1>1 DEF Init, OneHolder
<1>5. QED
  BY <1>2, <1>3, <1>4 DEF Init, MeshInv

LEMMA MeshNext == MeshInv /\ [Next]_vars => MeshInv'
<1> SUFFICES ASSUME MeshInv, [Next]_vars PROVE MeshInv'
  OBVIOUS
<1>1. ASSUME NEW p \in Processes, Save(p) \/ SaveLate(p) \/ Restart(p) \/ ActiveClaims(p)
      PROVE  MeshInv'
  <2>1. CASE SaveLate(p)
    BY <2>1, MeshQuiet DEF SaveLate, MeshInv, TypeOK
  <2>2. QED
    BY <1>1, <2>1, MeshSave, MeshRestart, MeshActive
<1>2. ASSUME NEW p \in Processes, NEW c \in Claims, ReleaseClaim(p, c)
      PROVE  MeshInv'
  BY <1>2, MeshRelease
<1>3. ASSUME NEW p \in Processes, NEW c \in Claims, NEW until \in Lease[c], AcceptClaim(p, c, until)
      PROVE  MeshInv'
  BY <1>3, MeshAccept
<1>4. ASSUME NEW c \in Claims, NEW until \in Lease[c], ObserveClaim(c, until)
      PROVE  MeshInv'
  BY <1>4, MeshObserve
<1>5. ASSUME NEW p \in Processes, NEW c \in Claims, NEW until \in Lease[c], MergeSnapshot(p, c, until)
      PROVE  MeshInv'
  BY <1>5, MeshMerge
<1>6. CASE Flush \/ Tick
  BY <1>6, MeshFlush, MeshTick
<1>7. CASE UNCHANGED vars
  BY <1>7, MeshQuiet DEF vars, MeshInv, TypeOK
<1>8. QED
  BY <1>1, <1>2, <1>3, <1>4, <1>5, <1>6, <1>7, Bounds DEF Next

LEMMA MeshAlways == Spec => []MeshInv
<1>1. QED
  BY MeshInit, MeshNext, PTL DEF Spec

\* A write leaves the row of a claim that still runs, or the record that it was released.
LEMMA RowsStep ==
  ASSUME MeshInv, [Next]_vars
  PROVE  \A c \in Claims \ contested' :
           file.claims[c] > clock /\ file'.claims[c] = 0 => file'.released[c] > clock
<1> SUFFICES ASSUME NEW c \in Claims \ contested', file.claims[c] > clock, file'.claims[c] = 0
             PROVE  file'.released[c] > clock
  OBVIOUS
<1>1. file.claims[c] \in Nat /\ clock \in Nat
  BY Views, Bounds, StoreRows
<1>2. CASE UNCHANGED file
  BY <1>1, <1>2
<1>3. ASSUME NEW p \in Processes, contested \subseteq contested',
             file'.released = View(p).released, file'.claims[c] = View(p).claims[c]
      PROVE  file'.released[c] > clock
  <2>1. Sound(View(p), c) /\ View(p).claims[c] \in Nat /\ View(p).released[c] \in Nat
    BY <1>3, SeenSound
  <2>2. QED
    BY <1>1, <1>3, <2>1 DEF Sound
<1>4. ASSUME NEW p \in Processes, Save(p)
      PROVE  file'.released[c] > clock
  BY <1>3, <1>4 DEF Save, Write
<1>5. ASSUME NEW p \in Processes, NEW d \in Claims, NEW until \in Lease[d], AcceptClaim(p, d, until)
      PROVE  file'.released[c] > clock
  <2>1. PICK view \in Store : view = View(p)
    BY Views
  <2>2. until # 0 /\ until \in Expiry
    BY <1>1, <1>5, Bounds DEF AcceptClaim
  <2>3. /\ contested \subseteq contested'
        /\ file' = view \/ file' = Applied(view, d, until)
    BY <1>5, <2>1 DEF AcceptClaim, Answer, Write
  <2>4. file' = view \/ file' = [view EXCEPT !.claims[d] = until]
    BY <2>3 DEF Applied, Merged
  <2>5. file'.released = view.released /\ file'.claims[c] = view.claims[c]
    BY <2>1, <2>2, <2>4 DEF Store, Rows
  <2>6. QED
    BY <1>3, <2>1, <2>3, <2>5
<1>6. QED
  BY <1>2, <1>4, <1>5 DEF Next, Flush, Tick, SaveLate, Restart, ActiveClaims, ReleaseClaim, ObserveClaim,
                          MergeSnapshot, Change, vars
-----------------------------------------------------------------------------
\* What is kept of the claims is well formed, whatever is merged and released.
THEOREM TypeCorrect == Spec => []TypeOK
<1>1. MeshInv => TypeOK
  BY DEF MeshInv
<1>2. QED
  BY <1>1, MeshAlways, PTL

\* Of two agents who claim one file only one is told that it is theirs
\* (index.ts:114-121), with any number of agents: every claim is checked against
\* a view that has each claim that was answered, written or not.
THEOREM ToldOnce == Spec => []OneHolder
<1>1. MeshInv => OneHolder
  BY DEF MeshInv
<1>2. QED
  BY <1>1, MeshAlways, PTL

\* What an agent was told it holds is on disk, and leaves it, before it expires,
\* only with the record of its release (sync.ts:1-11 and 93-99): a process that
\* writes over a newer file lays only its own changes over it.
THEOREM RowsStay == Spec => RowsKept
<1>1. MeshInv => \A c \in Claims \ contested :
                   /\ told[c] > clock => file.claims[c] >= told[c]
                   /\ ~(file.claims[c] > clock /\ file.released[c] > clock)
  BY DEF MeshInv, ClaimInv, Sound
<1>2. MeshInv /\ [Next]_vars =>
        [\A c \in Claims \ contested' :
           file.claims[c] > clock /\ file'.claims[c] = 0 => file'.released[c] > clock]_vars
  BY RowsStep
<1>3. QED
  BY <1>1, <1>2, MeshAlways, PTL DEF Spec, RowsKept
=============================================================================
