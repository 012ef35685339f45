------------------------ MODULE MessageDelivery_proofs ------------------------
(****************************************************************************)
(* The agent is given a message once, for any number of monitors, leaders,  *)
(* messages, copies and faults, and a refusal is final; each crash and each *)
(* refused write that cuts a handling short pays for at most one more run.  *)
(****************************************************************************)
EXTENDS MessageDelivery, SequenceTheorems, TLAPS

\* A run of the copy whose handler still waits, and one that goes on after it.
Awaited(q, c) == \E i \in DOMAIN q : q[i].copy = c /\ ~q[i].late
Detached(q, c) == \E i \in DOMAIN q : q[i].copy = c /\ q[i].late

\* A handler waits for one run.
Apart(q) == \A i, k \in DOMAIN q : ~q[i].late /\ ~q[k].late /\ q[i].copy = q[k].copy => i = k

AtWork(m) == \E w \in Monitors, c \in Copies : Of[c] = m /\ at[w][c] = "acknowledged"

\* What is known of a message: the agent takes it once more only after a cut, and
\* a phone that reads "accepted" is right, or will be put right.
MessageInv(m) ==
  /\ ledger[m].rejected => ledger[m].state = "completed"
  /\ ledger[m].acknowledged => ledger[m].state # "none"
  /\ cut[m] <= faults
  /\ taken[m] <= cut[m] + 1
  /\ ~Handled(m) /\ ledger[m].state # "completed" => taken[m] <= cut[m]
  /\ ~Handled(m) /\ ledger[m].state = "processing" => cut[m] > 0
  /\ ledger[m].state = "completed" /\ ~ledger[m].rejected => taken[m] > 0 \/ cut[m] > 0
  /\ told[m] = "accepted" => taken[m] > 0 \/ cut[m] > 0 \/ m \in overtaken \/ AtWork(m)

\* What a handler of the copy knows: the ledger holds the message for it.
HandlerInv(w, c) ==
  LET m == Of[c] IN
  /\ at[w][c] # "idle" =>
       ledger[m].state = "completed" \/ (ledger[m].state = "processing" /\ ~ledger[m].old)
  /\ at[w][c] # "idle" /\ cut[m] = 0 => ledger[m].state = "processing"
  /\ at[w][c] \in {"begun", "acknowledged", "failed"} => taken[m] <= cut[m]
  /\ at[w][c] \in {"window", "succeeded"} => taken[m] > 0
  /\ at[w][c] = "begun" /\ cut[m] = 0 => ~ledger[m].acknowledged

\* A run is waited for by its own handler, or the message is settled.
RunInv(w, c) ==
  /\ Awaited(queue[w], c) <=> at[w][c] = "window"
  /\ Detached(queue[w], c) /\ cut[Of[c]] = 0 =>
       ledger[Of[c]].state = "completed" /\ taken[Of[c]] > 0 /\ ~Handled(Of[c])

OneHandler(m) ==
  \A w, v \in Monitors, c, d \in Copies :
    Of[c] = m /\ Of[d] = m /\ at[w][c] # "idle" /\ at[v][d] # "idle" => w = v /\ c = d

Sound(m) ==
  /\ OneHandler(m) /\ MessageInv(m)
  /\ \A w \in Monitors, c \in Copies : Of[c] = m => HandlerInv(w, c) /\ RunInv(w, c)

\* The type invariant, without what RunInv says of a waiting handler.
Shape ==
  /\ box \in [Copies -> {"phone", "offered", "acknowledged"}]
  /\ ledger \in [Messages -> Entries]
  /\ leads \subseteq Monitors
  /\ at \in [Monitors -> [Copies -> Places]]
  /\ queue \in [Monitors -> Seq(Runs)]
  /\ running \in [Monitors -> BOOLEAN]
  /\ told \in [Messages -> {"nothing", "accepted", "rejected"}]
  /\ taken \in [Messages -> Nat]
  /\ cut \in [Messages -> 0..MaxFaults]
  /\ overtaken \subseteq Messages
  /\ faults \in 0..MaxFaults
  /\ \A w \in Monitors : running[w] => queue[w] # <<>>

DeliveryInv ==
  /\ Shape
  /\ \A w \in Monitors : Apart(queue[w])
  /\ \A m \in Messages : Sound(m)
-----------------------------------------------------------------------------
(* Queues of runs *)

LEMMA RunOf ==
  ASSUME NEW q \in Seq(Runs), NEW i \in DOMAIN q
  PROVE  q[i] \in Runs /\ q[i].copy \in Copies /\ q[i].late \in BOOLEAN
<1>1. DOMAIN q = 1..Len(q)
  BY LenProperties
<1>2. q[i] \in Runs
  BY <1>1, ElementOfSeq
<1>3. QED
  BY <1>2 DEF Runs

LEMMA WaitsAwaited ==
  ASSUME Shape, NEW w \in Monitors, NEW c \in Copies
  PROVE  Waits(w, c) <=> Awaited(queue[w], c)
<1>1. queue[w] \in Seq(Runs)
  BY DEF Shape
<1>2. ASSUME NEW i \in DOMAIN queue[w]
      PROVE  queue[w][i] = [copy |-> c, late |-> FALSE] <=> queue[w][i].copy = c /\ ~queue[w][i].late
  <2>1. queue[w][i] \in Runs
    BY <1>1, RunOf
  <2>2. queue[w][i] = [copy |-> queue[w][i].copy, late |-> queue[w][i].late] /\ queue[w][i].late \in BOOLEAN
    BY <2>1 DEF Runs
  <2>3. CASE queue[w][i].late = FALSE
    <3>1. queue[w][i].copy = c => queue[w][i] = [copy |-> c, late |-> FALSE]
      BY <2>2, <2>3, Zenon
    <3>2. [copy |-> c, late |-> FALSE].copy = c
      OBVIOUS
    <3>3. queue[w][i] = [copy |-> c, late |-> FALSE] => queue[w][i].copy = c
      BY <3>2, Zenon
    <3>4. QED
      BY <2>3, <3>1, <3>3, Zenon
  <2>4. CASE queue[w][i].late = TRUE
    <3>1. [copy |-> c, late |-> FALSE].late = FALSE
      OBVIOUS
    <3>2. queue[w][i] # [copy |-> c, late |-> FALSE]
      BY <2>4, <3>1, Zenon
    <3>3. QED
      BY <2>4, <3>2
  <2>5. QED
    BY <2>2, <2>3, <2>4
<1>3. QED
  BY <1>2 DEF Waits, Awaited

\* r is the queue q with a run of the copy c behind it.
Extended(q, c, r) == r = Append(q, [copy |-> c, late |-> FALSE])

\* A new run comes last.
LEMMA AppendRun ==
  ASSUME NEW q \in Seq(Runs), NEW c \in Copies, ~Awaited(q, c), Apart(q), NEW r, Extended(q, c, r)
  PROVE  /\ r \in Seq(Runs) /\ r # <<>> /\ Apart(r)
         /\ \A d \in Copies : /\ Awaited(r, d) <=> Awaited(q, d) \/ d = c
                              /\ Detached(r, d) => Detached(q, d)
<1> DEFINE x == [copy |-> c, late |-> FALSE]
<1>1. x \in Runs /\ x.copy = c /\ ~x.late
  BY DEF Runs
<1> HIDE DEF x
<1>2. r \in Seq(Runs) /\ Len(r) = Len(q) + 1 /\ Len(q) \in Nat /\ DOMAIN q = 1..Len(q) /\ DOMAIN r = 1..Len(r)
  BY <1>1, LenProperties DEF x, Extended
<1>3. \A i \in 1..Len(q) : r[i] = q[i]
  BY <1>1 DEF x, Extended
<1>4. r[Len(q) + 1] = x
  BY <1>1 DEF x, Extended
<1>5. \A i \in DOMAIN r : i = Len(q) + 1 \/ (i \in DOMAIN q /\ r[i] = q[i])
  BY <1>2, <1>3
<1>6. \A i \in DOMAIN q : i \in DOMAIN r /\ r[i] = q[i] /\ i # Len(q) + 1
  BY <1>2, <1>3
<1>7. Len(q) + 1 \in DOMAIN r
  BY <1>2
<1>8. Apart(r)
  BY <1>1, <1>4, <1>5 DEF Apart, Awaited
<1>9. ASSUME NEW d \in Copies
      PROVE  /\ Awaited(r, d) <=> Awaited(q, d) \/ d = c
             /\ Detached(r, d) => Detached(q, d)
  BY <1>1, <1>4, <1>5, <1>6, <1>7 DEF Awaited, Detached
<1>10. r # <<>>
  BY <1>2, EmptySeq
<1>11. QED
  BY <1>2, <1>8, <1>9, <1>10

\* The first run ends.
LEMMA TailRun ==
  ASSUME NEW q \in Seq(Runs), q # <<>>, Apart(q), NEW r, r = Tail(q)
  PROVE  /\ r \in Seq(Runs) /\ Apart(r)
         /\ Head(q).copy \in Copies
         /\ Head(q).late => Detached(q, Head(q).copy)
         /\ ~Head(q).late => Awaited(q, Head(q).copy) /\ ~Awaited(r, Head(q).copy)
         /\ \A d \in Copies : /\ Head(q).late \/ d # Head(q).copy => (Awaited(r, d) <=> Awaited(q, d))
                              /\ Detached(r, d) => Detached(q, d)
<1>1. /\ r \in Seq(Runs) /\ Len(q) \in Nat \ {0} /\ Len(r) = Len(q) - 1
      /\ DOMAIN q = 1..Len(q) /\ DOMAIN r = 1..Len(r)
      /\ \A i \in 1..Len(r) : r[i] = q[i + 1]
  BY EmptySeq, LenProperties, HeadTailProperties
<1>2. Head(q) = q[1] /\ q[1] \in Runs /\ 1 \in DOMAIN q
  BY <1>1, ElementOfSeq
<1>3. \A i \in DOMAIN r : i + 1 \in DOMAIN q /\ i + 1 # 1 /\ r[i] = q[i + 1]
  BY <1>1
<1>4. \A i \in DOMAIN q : i = 1 \/ (i - 1 \in DOMAIN r /\ r[i - 1] = q[i])
  <2> SUFFICES ASSUME NEW i \in DOMAIN q, i # 1 PROVE i - 1 \in DOMAIN r /\ r[i - 1] = q[i]
    OBVIOUS
  <2>1. i - 1 \in 1..Len(r) /\ i = (i - 1) + 1
    BY <1>1
  <2>2. QED
    BY <1>1, <2>1
<1>5. Apart(r)
  <2> SUFFICES ASSUME NEW i \in DOMAIN r, NEW k \in DOMAIN r, ~r[i].late, ~r[k].late, r[i].copy = r[k].copy
               PROVE  i = k
    BY DEF Apart
  <2>1. i + 1 = k + 1
    BY <1>3 DEF Apart
  <2>2. QED
    BY <1>1, <2>1
<1>6. q[1].copy \in Copies
  BY <1>2 DEF Runs
<1>7. ~q[1].late => ~Awaited(r, q[1].copy)
  BY <1>2, <1>3 DEF Awaited, Apart
<1>8. (q[1].late => Detached(q, q[1].copy)) /\ (~q[1].late => Awaited(q, q[1].copy))
  BY <1>2 DEF Detached, Awaited
<1>9. ASSUME NEW d \in Copies
      PROVE  /\ q[1].late \/ d # q[1].copy => (Awaited(r, d) <=> Awaited(q, d))
             /\ Detached(r, d) => Detached(q, d)
  <2>1. \A i \in DOMAIN r : \E k \in DOMAIN q : k # 1 /\ r[i] = q[k]
    BY <1>3
  <2>2. \A i \in DOMAIN q : i = 1 \/ \E k \in DOMAIN r : r[k] = q[i]
    BY <1>4
  <2>3. Detached(r, d) => Detached(q, d)
    BY <2>1 DEF Detached
  <2>4. Awaited(r, d) => Awaited(q, d)
    BY <2>1 DEF Awaited
  <2>5. Awaited(q, d) /\ (q[1].late \/ d # q[1].copy) => Awaited(r, d)
    BY <2>2 DEF Awaited
  <2>6. QED
    BY <2>3, <2>4, <2>5
<1>10. QED
  BY <1>1, <1>2, <1>5, <1>6, <1>7, <1>8, <1>9

\* The runs of a copy go on without their handler.
LEMMA LateRun ==
  ASSUME NEW q \in Seq(Runs), NEW c \in Copies, Apart(q),
         NEW r, r = [i \in DOMAIN q |-> IF q[i].copy = c THEN [q[i] EXCEPT !.late = TRUE] ELSE q[i]]
  PROVE  /\ r \in Seq(Runs) /\ Apart(r) /\ (q # <<>> => r # <<>>) /\ ~Awaited(r, c)
         /\ \A d \in Copies : d # c => /\ Awaited(r, d) <=> Awaited(q, d)
                                       /\ Detached(r, d) => Detached(q, d)
<1>1. Len(q) \in Nat /\ DOMAIN q = 1..Len(q)
  BY LenProperties
<1>2. DOMAIN r = DOMAIN q
  OBVIOUS
<1>3. ASSUME NEW i \in DOMAIN q
      PROVE  /\ r[i] \in Runs /\ r[i].copy = q[i].copy
             /\ q[i].copy = c => r[i].late
             /\ q[i].copy # c => r[i] = q[i]
  <2>1. q[i] \in Runs
    BY <1>1, ElementOfSeq
  <2>2. QED
    BY <2>1 DEF Runs
<1>4. r \in [1..Len(q) -> Runs]
  BY <1>1, <1>3
<1>5. r \in Seq(Runs) /\ Len(r) = Len(q)
  <2>1. r \in Seq(Runs)
    BY <1>1, <1>4, SeqDef
  <2>2. QED
    BY <1>1, <1>2, <2>1, LenProperties
<1>6. q # <<>> => r # <<>>
  BY <1>5, EmptySeq
<1>7. Apart(r) /\ ~Awaited(r, c)
  BY <1>2, <1>3 DEF Apart, Awaited
<1>8. ASSUME NEW d \in Copies, d # c
      PROVE  /\ Awaited(r, d) <=> Awaited(q, d)
             /\ Detached(r, d) => Detached(q, d)
  BY <1>2, <1>3, <1>8 DEF Awaited, Detached
<1>9. QED
  BY <1>5, <1>6, <1>7, <1>8
-----------------------------------------------------------------------------
LEMMA InvType == DeliveryInv => TypeOK
  BY WaitsAwaited, DeliveryAssumption DEF DeliveryInv, Sound, RunInv, Shape, TypeOK

LEMMA GotoAt ==
  ASSUME Shape, NEW w \in Monitors, NEW c \in Copies, NEW place \in Places, Goto(w, c, place)
  PROVE  /\ at' \in [Monitors -> [Copies -> Places]]
         /\ at'[w][c] = place
         /\ \A v \in Monitors, d \in Copies : v # w \/ d # c => at'[v][d] = at[v][d]
<1>1. at \in [Monitors -> [Copies -> Places]] /\ at' = [at EXCEPT ![w] = [at[w] EXCEPT ![c] = place]]
  BY DEF Shape, Goto
<1>2. [at[w] EXCEPT ![c] = place] \in [Copies -> Places]
  BY <1>1
<1>3. QED
  BY <1>1, <1>2

LEMMA EntryFacts ==
  /\ NoEntry \in Entries /\ NoEntry.state = "none" /\ ~NoEntry.acknowledged /\ ~NoEntry.rejected
  /\ Processing \in Entries /\ Processing.state = "processing"
  /\ ~Processing.acknowledged /\ ~Processing.rejected /\ ~Processing.old
  BY DEF NoEntry, Processing, Entries

LEMMA CompletedFacts ==
  ASSUME Shape, NEW m \in Messages
  PROVE  /\ Completed(m) \in Entries /\ Completed(m).state = "completed"
         /\ Completed(m).rejected = ledger[m].rejected
         /\ Refused(m) \in Entries /\ Refused(m).state = "completed" /\ Refused(m).rejected
<1>1. ledger[m] \in Entries
  BY DEF Shape
<1>2. QED
  BY <1>1 DEF Completed, Refused, Entries

LEMMA SaveEntry ==
  ASSUME Shape, NEW m \in Messages, NEW entry \in Entries, Save(m, entry)
  PROVE  /\ ledger' \in [Messages -> Entries] /\ ledger'[m] = entry
         /\ \A n \in Messages : n # m => ledger'[n] = ledger[n]
  BY DEF Shape, Save

\* The phone has been told of no other message.
Spoken(m) ==
  /\ told' \in [Messages -> {"nothing", "accepted", "rejected"}] /\ overtaken' \subseteq Messages
  /\ faults' \in 0..MaxFaults /\ faults <= faults'
  /\ \A n \in Messages : n # m => told'[n] = told[n]
  /\ \A n \in overtaken : n \in overtaken'

\* What the phone may have learned of a message.
Heard(m, status) ==
  /\ Spoken(m)
  /\ told'[m] = status \/ (told'[m] = told[m] /\ (status = "rejected" => m \in overtaken'))

LEMMA FaultFacts ==
  ASSUME Shape, Fault
  PROVE  faults' \in 0..MaxFaults /\ faults <= faults'
<1>1. faults \in 0..MaxFaults /\ MaxFaults \in Nat
  BY DeliveryAssumption DEF Shape
<1>2. QED
  BY <1>1 DEF Fault

LEMMA TellHeard ==
  ASSUME Shape, NEW m \in Messages, NEW status \in {"accepted", "rejected"}, Tell(m, status)
  PROVE  Heard(m, status)
<1>1. CASE told' = [told EXCEPT ![m] = status] /\ UNCHANGED <<overtaken, faults>>
  <2>1. told' \in [Messages -> {"nothing", "accepted", "rejected"}] /\ told'[m] = status /\ \A n \in Messages : n # m => told'[n] = told[n]
    BY <1>1 DEF Shape
  <2>2. faults' = faults /\ faults \in 0..MaxFaults /\ MaxFaults \in Nat /\ overtaken' = overtaken /\ overtaken \subseteq Messages
    BY <1>1, DeliveryAssumption DEF Shape
  <2>3. QED
    BY <2>1, <2>2 DEF Heard, Spoken
<1>2. CASE /\ Fault /\ UNCHANGED told
           /\ overtaken' = IF status = "rejected" THEN overtaken \cup {m} ELSE overtaken
  <2>1. faults' \in 0..MaxFaults /\ faults <= faults'
    BY <1>2, FaultFacts
  <2>2. overtaken' \subseteq Messages /\ (status = "rejected" => m \in overtaken') /\ \A n \in overtaken : n \in overtaken'
    BY <1>2 DEF Shape
  <2>3. told' = told /\ told \in [Messages -> {"nothing", "accepted", "rejected"}]
    BY <1>2 DEF Shape
  <2>4. QED
    BY <2>1, <2>2, <2>3 DEF Heard, Spoken
<1>3. QED
  BY <1>1, <1>2 DEF Tell

LEMMA RepeatHeard ==
  ASSUME Shape, NEW m \in Messages, Repeat(m)
  PROVE  /\ Heard(m, IF ledger[m].rejected THEN "rejected" ELSE "accepted")
         /\ told'[m] = "accepted" /\ told[m] # "accepted" =>
              ~ledger[m].rejected /\ (m \in overtaken' \/ \A w \in Monitors, c \in Copies : Of[c] = m => at[w][c] # "failed")
<1>1. CASE ledger[m].rejected
  BY <1>1, TellHeard DEF Repeat, Heard, Spoken
<1>2. CASE ~ledger[m].rejected
  <2> DEFINE failed == \E w \in Monitors, c \in Copies : Of[c] = m /\ at[w][c] = "failed"
  <2>1. CASE told' = [told EXCEPT ![m] = "accepted"] /\ overtaken' = (IF failed THEN overtaken \cup {m} ELSE overtaken) /\ UNCHANGED faults
    <3>1. told' \in [Messages -> {"nothing", "accepted", "rejected"}] /\ told'[m] = "accepted" /\ \A n \in Messages : n # m => told'[n] = told[n]
      BY <2>1 DEF Shape
    <3>2. overtaken' \subseteq Messages /\ (failed => m \in overtaken') /\ \A n \in overtaken : n \in overtaken'
      BY <2>1 DEF Shape
    <3>3. faults' = faults /\ faults \in 0..MaxFaults /\ MaxFaults \in Nat
      BY <2>1, DeliveryAssumption DEF Shape
    <3>4. QED
      BY <1>2, <3>1, <3>2, <3>3 DEF Heard, Spoken
  <2>2. CASE Fault /\ UNCHANGED <<told, overtaken>>
    <3>1. faults' \in 0..MaxFaults /\ faults <= faults'
      BY <2>2, FaultFacts
    <3>2. QED
      BY <1>2, <2>2, <3>1 DEF Heard, Spoken, Shape
  <2>3. QED
    BY <1>2, <2>1, <2>2 DEF Repeat
<1>3. QED
  BY <1>1, <1>2

\* Nothing about the other messages changes.
Elsewhere(m) ==
  /\ faults <= faults'
  /\ \A n \in Messages : n # m =>
       /\ ledger'[n] = ledger[n] /\ told'[n] = told[n] /\ taken'[n] = taken[n] /\ cut'[n] = cut[n]
       /\ n \in overtaken => n \in overtaken'
  /\ \A w \in Monitors, c \in Copies : Of[c] # m =>
       /\ at'[w][c] = at[w][c]
       /\ Awaited(queue'[w], c) <=> Awaited(queue[w], c)
       /\ Detached(queue'[w], c) => Detached(queue[w], c)

LEMMA ElsewhereSound ==
  ASSUME Shape, Shape', NEW m \in Messages, NEW n \in Messages, n # m, Elsewhere(m), Sound(n)
  PROVE  Sound(n)'
<1>1. /\ ledger'[n] = ledger[n] /\ told'[n] = told[n] /\ taken'[n] = taken[n] /\ cut'[n] = cut[n]
      /\ n \in overtaken => n \in overtaken'
      /\ faults <= faults' /\ cut[n] \in Nat /\ {faults, faults'} \subseteq Nat
  BY DeliveryAssumption DEF Elsewhere, Shape
<1>2. \A w \in Monitors, c \in Copies : Of[c] = n =>
       /\ at'[w][c] = at[w][c]
       /\ Awaited(queue'[w], c) <=> Awaited(queue[w], c)
       /\ Detached(queue'[w], c) => Detached(queue[w], c)
  BY DEF Elsewhere
<1>3. (Handled(n)' <=> Handled(n)) /\ (AtWork(n)' <=> AtWork(n))
  BY <1>2 DEF Handled, AtWork
<1>4. OneHandler(n)'
  BY <1>2 DEF Sound, OneHandler
<1>5. MessageInv(n)'
  BY <1>1, <1>3 DEF Sound, MessageInv
<1>6. ASSUME NEW w \in Monitors, NEW c \in Copies, Of[c] = n
      PROVE  HandlerInv(w, c)' /\ RunInv(w, c)'
  BY <1>1, <1>2, <1>3, <1>6 DEF Sound, HandlerInv, RunInv
<1>7. QED
  BY <1>4, <1>5, <1>6 DEF Sound

\* RefusalKept, of one message.
Firm(m) ==
  ledger[m].rejected /\ cut[m] = 0 =>
    /\ ledger'[m].rejected
    /\ taken'[m] <= taken[m]
    /\ told'[m] = "accepted" => told[m] = "accepted"

Advanced == DeliveryInv' /\ \A m \in Messages : Firm(m)

\* A step that concerns one message.
LEMMA MessageStep ==
  ASSUME DeliveryInv, Shape', \A w \in Monitors : Apart(queue'[w]),
         NEW m \in Messages, Elsewhere(m), Sound(m)', Firm(m)
  PROVE  Advanced
<1>1. \A n \in Messages : Sound(n)'
  BY ElsewhereSound DEF DeliveryInv
<1>2. ASSUME NEW n \in Messages, n # m PROVE Firm(n)
  BY <1>2 DEF Elsewhere, Firm, DeliveryInv, Shape
<1>3. DeliveryInv'
  BY <1>1 DEF DeliveryInv
<1>4. QED
  BY <1>2, <1>3 DEF Advanced
-----------------------------------------------------------------------------
(* The steps of a handler *)

\* What is to be known of a message while nobody else handles it.
Alone(w, c) ==
  LET m == Of[c] IN
  /\ ledger[m].rejected => ledger[m].state = "completed"
  /\ ledger[m].acknowledged => ledger[m].state # "none"
  /\ cut[m] <= faults
  /\ taken[m] <= cut[m] + 1
  /\ at[w][c] = "idle" /\ ledger[m].state # "completed" => taken[m] <= cut[m]
  /\ at[w][c] = "idle" /\ ledger[m].state = "processing" => cut[m] > 0
  /\ ledger[m].state = "completed" /\ ~ledger[m].rejected => taken[m] > 0 \/ cut[m] > 0
  /\ told[m] = "accepted" => taken[m] > 0 \/ cut[m] > 0 \/ m \in overtaken \/ at[w][c] = "acknowledged"
  /\ HandlerInv(w, c)

NobodyElse(w, c) == \A v \in Monitors, d \in Copies : Of[d] = Of[c] /\ (v # w \/ d # c) => at[v][d] = "idle"

LEMMA AloneBefore ==
  ASSUME DeliveryInv, NEW w \in Monitors, NEW c \in Copies,
         at[w][c] # "idle" \/ BeginAnswer(Of[c]) = "started"
  PROVE  /\ NobodyElse(w, c) /\ Alone(w, c)
         /\ ~(ledger[Of[c]].rejected /\ cut[Of[c]] = 0)
         /\ \A v \in Monitors, d \in Copies : Of[d] = Of[c] /\ Detached(queue[v], d) => cut[Of[c]] > 0
<1> DEFINE m == Of[c]
<1>1. m \in Messages /\ Sound(m) /\ cut[m] \in Nat
  BY DeliveryAssumption DEF DeliveryInv, Shape
<1>2. CASE at[w][c] # "idle"
  <2>1. NobodyElse(w, c)
    BY <1>1, <1>2 DEF Sound, OneHandler, NobodyElse
  <2>2. Handled(m) /\ (AtWork(m) => at[w][c] = "acknowledged")
    BY <1>2, <2>1 DEF Handled, AtWork, NobodyElse
  <2>3. Alone(w, c)
    BY <1>1, <1>2, <2>2 DEF Sound, MessageInv, Alone
  <2>4. cut[m] = 0 => ledger[m].state = "processing" /\ ~ledger[m].rejected
    BY <1>1, <1>2 DEF Sound, MessageInv, HandlerInv
  <2>5. ASSUME NEW v \in Monitors, NEW d \in Copies, Of[d] = m, Detached(queue[v], d) PROVE cut[m] > 0
    BY <1>1, <2>2, <2>5 DEF Sound, RunInv
  <2>6. QED
    BY <2>1, <2>3, <2>4, <2>5
<1>3. CASE BeginAnswer(m) = "started"
  <2>1. ledger[m].state # "completed" /\ ~(ledger[m].state = "processing" /\ ~ledger[m].old)
    BY <1>3 DEF BeginAnswer
  <2>2. ~Handled(m)
    BY <1>1, <2>1 DEF Sound, HandlerInv, Handled
  <2>3. NobodyElse(w, c) /\ at[w][c] = "idle" /\ ~AtWork(m)
    BY <2>2 DEF Handled, NobodyElse, AtWork
  <2>4. Alone(w, c)
    BY <1>1, <2>2, <2>3 DEF Sound, MessageInv, Alone
  <2>5. ASSUME NEW v \in Monitors, NEW d \in Copies, Of[d] = m, Detached(queue[v], d) PROVE cut[m] > 0
    BY <1>1, <2>1, <2>5 DEF Sound, RunInv
  <2>6. ~ledger[m].rejected
    BY <1>1, <2>1 DEF Sound, MessageInv
  <2>7. QED
    BY <2>3, <2>4, <2>5, <2>6
<1>4. QED
  BY <1>2, <1>3

\* Where a handler's step leaves the chat: nothing else moves.
Moved(w, c) ==
  \A v \in Monitors, d \in Copies : v # w \/ d # c =>
    /\ at'[v][d] = at[v][d]
    /\ Awaited(queue'[v], d) <=> Awaited(queue[v], d)
    /\ Detached(queue'[v], d) => Detached(queue[v], d)

Others(m) ==
  /\ faults <= faults'
  /\ \A n \in Messages : n # m =>
       /\ ledger'[n] = ledger[n] /\ told'[n] = told[n] /\ taken'[n] = taken[n] /\ cut'[n] = cut[n]
       /\ n \in overtaken => n \in overtaken'

LEMMA HandlerStep ==
  ASSUME DeliveryInv, Shape', \A v \in Monitors : Apart(queue'[v]), NEW w \in Monitors, NEW c \in Copies,
         at[w][c] # "idle" \/ BeginAnswer(Of[c]) = "started",
         Moved(w, c), Others(Of[c]), cut[Of[c]] <= cut'[Of[c]],
         Alone(w, c)', Awaited(queue'[w], c) <=> at'[w][c] = "window",
         \/ Detached(queue'[w], c) => Detached(queue[w], c)
         \/ at'[w][c] = "idle" /\ (cut'[Of[c]] > 0 \/ (ledger'[Of[c]].state = "completed" /\ taken'[Of[c]] > 0))
  PROVE  Advanced
<1> DEFINE m == Of[c]
<1>1. m \in Messages /\ Sound(m) /\ cut[m] \in Nat /\ cut'[m] \in Nat
  BY DeliveryAssumption DEF DeliveryInv, Shape
<1>2. /\ NobodyElse(w, c)
      /\ ~(ledger[m].rejected /\ cut[m] = 0)
      /\ \A v \in Monitors, d \in Copies : Of[d] = m /\ Detached(queue[v], d) => cut[m] > 0
  BY AloneBefore
<1>3. \A v \in Monitors, d \in Copies : Of[d] = m /\ (v # w \/ d # c) => at'[v][d] = "idle"
  BY <1>2 DEF NobodyElse, Moved
<1>4. (Handled(m)' <=> at'[w][c] # "idle") /\ (AtWork(m)' <=> at'[w][c] = "acknowledged")
  BY <1>3 DEF Handled, AtWork
<1>5. OneHandler(m)' /\ MessageInv(m)'
  BY <1>3, <1>4 DEF OneHandler, MessageInv, Alone
<1>6. ASSUME NEW v \in Monitors, NEW d \in Copies, Of[d] = m
      PROVE  HandlerInv(v, d)' /\ RunInv(v, d)'
  <2>1. CASE v = w /\ d = c
    BY <1>1, <1>2, <1>4, <2>1 DEF Alone, RunInv
  <2>2. CASE v # w \/ d # c
    <3>1. at'[v][d] = "idle" /\ at[v][d] = "idle"
      BY <1>2, <1>3, <1>6, <2>2 DEF NobodyElse
    <3>2. HandlerInv(v, d)'
      BY <3>1 DEF HandlerInv
    <3>3. ~Awaited(queue'[v], d)
      BY <1>1, <1>6, <2>2, <3>1 DEF Moved, Sound, RunInv
    <3>4. Detached(queue'[v], d) => cut'[m] > 0
      BY <1>1, <1>2, <1>6, <2>2 DEF Moved
    <3>5. QED
      BY <1>1, <1>6, <3>1, <3>2, <3>3, <3>4 DEF RunInv
  <2>3. QED
    BY <2>1, <2>2
<1>7. Sound(m)'
  BY <1>5, <1>6 DEF Sound
<1>8. Elsewhere(m)
  BY DEF Elsewhere, Moved, Others
<1>9. Firm(m)
  BY <1>2 DEF Firm
<1>10. QED
  BY <1>1, <1>7, <1>8, <1>9, MessageStep

LEMMA QuietSpoken ==
  ASSUME Shape, Quiet, NEW m \in Messages
  PROVE  Spoken(m) /\ told'[m] = told[m] /\ overtaken' = overtaken
<1>1. faults \in 0..MaxFaults /\ MaxFaults \in Nat
  BY DeliveryAssumption DEF Shape
<1>2. QED
  BY <1>1 DEF Shape, Quiet, Spoken

LEMMA FaultSpoken ==
  ASSUME Shape, Fault, UNCHANGED <<told, overtaken>>, NEW m \in Messages
  PROVE  Spoken(m) /\ told'[m] = told[m] /\ overtaken' = overtaken
  BY FaultFacts DEF Shape, Spoken

\* A step of a handler that leaves the runs alone.
LEMMA ClaimStep ==
  ASSUME DeliveryInv, NEW w \in Monitors, NEW c \in Copies,
         at[w][c] # "idle" \/ BeginAnswer(Of[c]) = "started", at[w][c] # "window",
         NEW place \in Places \ {"window"}, Goto(w, c, place),
         box' \in [Copies -> {"phone", "offered", "acknowledged"}],
         ledger' \in [Messages -> Entries], \A n \in Messages : n # Of[c] => ledger'[n] = ledger[n],
         Spoken(Of[c]), UNCHANGED <<leads, queue, running, taken, cut>>,
         Alone(w, c)'
  PROVE  Advanced
<1> DEFINE m == Of[c]
<1>1. m \in Messages /\ Shape /\ Sound(m) /\ cut[m] \in Nat
  BY DeliveryAssumption DEF DeliveryInv, Shape
<1>2. /\ at' \in [Monitors -> [Copies -> Places]] /\ at'[w][c] = place
      /\ \A v \in Monitors, d \in Copies : v # w \/ d # c => at'[v][d] = at[v][d]
  BY <1>1, GotoAt
<1>3. Shape'
  BY <1>1, <1>2 DEF Shape, Spoken
<1>4. \A v \in Monitors : Apart(queue'[v])
  BY DEF DeliveryInv
<1>5. Moved(w, c)
  BY <1>2 DEF Moved
<1>6. Others(m)
  BY DEF Others, Spoken
<1>7. Awaited(queue'[w], c) <=> at'[w][c] = "window"
  BY <1>1, <1>2 DEF Sound, RunInv
<1>8. cut[m] <= cut'[m] /\ queue' = queue
  BY <1>1
<1>9. QED
  BY <1>3, <1>4, <1>5, <1>6, <1>7, <1>8, HandlerStep

LEMMA ReceiveStep ==
  ASSUME DeliveryInv, NEW w \in Monitors, NEW c \in Copies, Receive(w, c), BeginAnswer(Of[c]) = "started"
  PROVE  Advanced
<1> DEFINE m == Of[c]
<1>1. m \in Messages /\ Shape /\ at[w][c] = "idle" /\ Save(m, Processing) /\ Goto(w, c, "begun") /\ Quiet /\ box' = box
  BY DeliveryAssumption DEF DeliveryInv, Shape, Receive
<1>2. /\ ledger' \in [Messages -> Entries] /\ ledger'[m] = Processing
      /\ \A n \in Messages : n # m => ledger'[n] = ledger[n]
  BY <1>1, SaveEntry, EntryFacts
<1>3. Alone(w, c) /\ ledger[m].state # "completed"
  BY AloneBefore DEF BeginAnswer
<1>4. Spoken(m) /\ told'[m] = told[m] /\ overtaken' = overtaken /\ faults' = faults
  BY <1>1, QuietSpoken DEF Quiet
<1>5. at'[w][c] = "begun"
  BY <1>1, GotoAt DEF Places
<1>6. taken' = taken /\ cut' = cut
  BY DEF Receive
<1>7. HandlerInv(w, c)'
  BY <1>1, <1>2, <1>3, <1>5, <1>6, EntryFacts DEF Alone, HandlerInv
<1>8. Alone(w, c)'
  BY <1>1, <1>2, <1>3, <1>4, <1>5, <1>6, <1>7, EntryFacts DEF Alone
<1>9. QED
  BY <1>1, <1>2, <1>4, <1>8, ClaimStep DEF Places, Receive, DeliveryInv, Shape

LEMMA RefuseStep ==
  ASSUME DeliveryInv, NEW w \in Monitors, NEW c \in Copies, Refuse(w, c)
  PROVE  Advanced
<1> DEFINE m == Of[c]
<1>1. /\ m \in Messages /\ Shape /\ at[w][c] = "begun" /\ Save(m, Refused(m)) /\ Tell(m, "rejected")
      /\ Goto(w, c, "idle") /\ box' = [box EXCEPT ![c] = "acknowledged"]
  BY DeliveryAssumption DEF DeliveryInv, Shape, Refuse, Acknowledge
<1>2. Refused(m) \in Entries /\ Refused(m).state = "completed" /\ Refused(m).rejected
  BY <1>1, CompletedFacts
<1>3. /\ ledger' \in [Messages -> Entries] /\ ledger'[m] = Refused(m)
      /\ \A n \in Messages : n # m => ledger'[n] = ledger[n]
  BY <1>1, <1>2, SaveEntry
<1>4. Alone(w, c)
  BY <1>1, AloneBefore
<1>5. Heard(m, "rejected") /\ faults <= faults' /\ {faults, faults', cut[m]} \subseteq Nat
  BY <1>1, TellHeard, DeliveryAssumption DEF Heard, Spoken, Shape
<1>6. at'[w][c] = "idle"
  BY <1>1, GotoAt DEF Places
<1>7. taken' = taken /\ cut' = cut
  BY DEF Refuse
<1>8. HandlerInv(w, c)'
  BY <1>6 DEF HandlerInv
<1>9. Alone(w, c)'
  BY <1>1, <1>2, <1>3, <1>4, <1>5, <1>6, <1>7, <1>8 DEF Alone, Heard, Spoken
<1>10. box' \in [Copies -> {"phone", "offered", "acknowledged"}]
  BY <1>1 DEF Shape
<1>11. UNCHANGED <<leads, queue, running, taken, cut>>
  BY DEF Refuse
<1>12. QED
  BY <1>1, <1>3, <1>5, <1>9, <1>10, <1>11, ClaimStep DEF Places, Heard

LEMMA AttachmentMissingStep ==
  ASSUME DeliveryInv, NEW w \in Monitors, NEW c \in Copies, AttachmentMissing(w, c)
  PROVE  Advanced
<1> DEFINE m == Of[c]
<1>1. /\ m \in Messages /\ Shape /\ at[w][c] = "begun" /\ Goto(w, c, "failed")
      /\ Tell(m, "rejected")
      /\ ledger' = ledger
      /\ box' = box
  BY DeliveryAssumption DEF DeliveryInv, Shape, AttachmentMissing, Acknowledge, Decline, Forgotten
<1>2. /\ ledger' \in [Messages -> Entries] /\ ledger'[m] = ledger[m]
      /\ \A n \in Messages : n # m => ledger'[n] = ledger[n]
  BY <1>1 DEF Shape
<1>3. Alone(w, c)
  BY <1>1, AloneBefore
<1>4. Heard(m, "rejected") /\ faults <= faults' /\ {faults, faults', cut[m], taken[m]} \subseteq Nat
  BY <1>1, TellHeard, DeliveryAssumption DEF Heard, Spoken, Shape
<1>5. at'[w][c] = "failed"
  BY <1>1, GotoAt DEF Places
<1>6. UNCHANGED <<leads, queue, running, taken, cut>>
  BY DEF AttachmentMissing
<1>7. HandlerInv(w, c)'
  BY <1>1, <1>2, <1>3, <1>4, <1>5, <1>6, EntryFacts DEF Alone, HandlerInv
<1>8. Alone(w, c)'
  BY <1>1, <1>2, <1>3, <1>4, <1>5, <1>6, <1>7, EntryFacts DEF Alone, HandlerInv, Heard, Spoken
<1>9. box' \in [Copies -> {"phone", "offered", "acknowledged"}]
  BY <1>1 DEF Shape
<1>10. QED
  BY <1>1, <1>2, <1>4, <1>6, <1>8, <1>9, ClaimStep DEF Places, Heard, Spoken

LEMMA FailStep ==
  ASSUME DeliveryInv, NEW w \in Monitors, NEW c \in Copies, Fail(w, c)
  PROVE  Advanced
<1> DEFINE m == Of[c]
<1>1. /\ m \in Messages /\ Shape /\ at[w][c] = "begun" /\ Goto(w, c, "idle")
      /\ Fault /\ UNCHANGED <<told, overtaken>>
      /\ Save(m, NoEntry)
      /\ box' = box
  BY DeliveryAssumption DEF DeliveryInv, Shape, Fail, Acknowledge, Decline, Forgotten
<1>2. /\ ledger' \in [Messages -> Entries] /\ ledger'[m] = NoEntry
      /\ \A n \in Messages : n # m => ledger'[n] = ledger[n]
  BY <1>1, SaveEntry, EntryFacts
<1>3. Alone(w, c)
  BY <1>1, AloneBefore
<1>4. /\ Spoken(m) /\ told'[m] = told[m] /\ overtaken' = overtaken /\ faults <= faults'
      /\ {faults, faults', cut[m], taken[m]} \subseteq Nat
  BY <1>1, FaultSpoken, DeliveryAssumption DEF Spoken, Shape
<1>5. at'[w][c] = "idle"
  BY <1>1, GotoAt DEF Places
<1>6. UNCHANGED <<leads, queue, running, taken, cut>>
  BY DEF Fail
<1>7. HandlerInv(w, c)'
  BY <1>1, <1>2, <1>3, <1>4, <1>5, <1>6, EntryFacts DEF Alone, HandlerInv
<1>8. Alone(w, c)'
  BY <1>1, <1>2, <1>3, <1>4, <1>5, <1>6, <1>7, EntryFacts DEF Alone, HandlerInv, Spoken
<1>9. box' \in [Copies -> {"phone", "offered", "acknowledged"}]
  BY <1>1 DEF Shape
<1>10. QED
  BY <1>1, <1>2, <1>4, <1>6, <1>8, <1>9, ClaimStep DEF Places, Spoken

LEMMA ProcessStep ==
  ASSUME DeliveryInv, NEW w \in Monitors, NEW c \in Copies, Process(w, c)
  PROVE  Advanced
<1> DEFINE m == Of[c]
<1>1. /\ m \in Messages /\ Shape /\ at[w][c] = "begun" /\ Goto(w, c, "acknowledged")
      /\ Tell(m, "accepted")
      /\ Save(m, IF ledger[m].state = "processing" THEN [Processing EXCEPT !.acknowledged = TRUE] ELSE ledger[m])
      /\ box' = box
  BY DeliveryAssumption DEF DeliveryInv, Shape, Process, Acknowledge, Decline, Forgotten
<1> DEFINE entry == IF ledger[m].state = "processing" THEN [Processing EXCEPT !.acknowledged = TRUE] ELSE ledger[m]
<1>e. /\ entry \in Entries /\ entry.state = ledger[m].state
      /\ ledger[m].state = "processing" => ~entry.rejected /\ ~entry.old
      /\ ledger[m].state # "processing" => entry = ledger[m]
  BY <1>1 DEF Shape, Entries, Processing, NoEntry
<1>2. /\ ledger' \in [Messages -> Entries] /\ ledger'[m] = entry
      /\ \A n \in Messages : n # m => ledger'[n] = ledger[n]
  BY <1>1, <1>e, SaveEntry
<1> HIDE DEF entry
<1>3. Alone(w, c)
  BY <1>1, AloneBefore
<1>4. Heard(m, "accepted") /\ faults <= faults' /\ {faults, faults', cut[m], taken[m]} \subseteq Nat
  BY <1>1, TellHeard, DeliveryAssumption DEF Heard, Spoken, Shape
<1>5. at'[w][c] = "acknowledged"
  BY <1>1, GotoAt DEF Places
<1>6. UNCHANGED <<leads, queue, running, taken, cut>>
  BY DEF Process
<1>7. HandlerInv(w, c)'
  BY <1>1, <1>e, <1>2, <1>3, <1>4, <1>5, <1>6, EntryFacts DEF Alone, HandlerInv
<1>8. Alone(w, c)'
  BY <1>1, <1>e, <1>2, <1>3, <1>4, <1>5, <1>6, <1>7, EntryFacts DEF Alone, HandlerInv, Heard, Spoken
<1>9. box' \in [Copies -> {"phone", "offered", "acknowledged"}]
  BY <1>1 DEF Shape
<1>10. QED
  BY <1>1, <1>2, <1>4, <1>6, <1>8, <1>9, ClaimStep DEF Places, Heard, Spoken

LEMMA BlockedStep ==
  ASSUME DeliveryInv, NEW w \in Monitors, NEW c \in Copies, Blocked(w, c)
  PROVE  Advanced
<1> DEFINE m == Of[c]
<1>1. /\ m \in Messages /\ Shape /\ at[w][c] = "acknowledged" /\ Goto(w, c, "failed")
      /\ Tell(m, "rejected")
      /\ ledger' = ledger
      /\ box' = box
  BY DeliveryAssumption DEF DeliveryInv, Shape, Blocked, Acknowledge, Decline, Forgotten
<1>2. /\ ledger' \in [Messages -> Entries] /\ ledger'[m] = ledger[m]
      /\ \A n \in Messages : n # m => ledger'[n] = ledger[n]
  BY <1>1 DEF Shape
<1>3. Alone(w, c)
  BY <1>1, AloneBefore
<1>4. Heard(m, "rejected") /\ faults <= faults' /\ {faults, faults', cut[m], taken[m]} \subseteq Nat
  BY <1>1, TellHeard, DeliveryAssumption DEF Heard, Spoken, Shape
<1>5. at'[w][c] = "failed"
  BY <1>1, GotoAt DEF Places
<1>6. UNCHANGED <<leads, queue, running, taken, cut>>
  BY DEF Blocked
<1>7. HandlerInv(w, c)'
  BY <1>1, <1>2, <1>3, <1>4, <1>5, <1>6, EntryFacts DEF Alone, HandlerInv
<1>8. Alone(w, c)'
  BY <1>1, <1>2, <1>3, <1>4, <1>5, <1>6, <1>7, EntryFacts DEF Alone, HandlerInv, Heard, Spoken
<1>9. box' \in [Copies -> {"phone", "offered", "acknowledged"}]
  BY <1>1 DEF Shape
<1>10. QED
  BY <1>1, <1>2, <1>4, <1>6, <1>8, <1>9, ClaimStep DEF Places, Heard, Spoken

LEMMA AbandonStep ==
  ASSUME DeliveryInv, NEW w \in Monitors, NEW c \in Copies, Abandon(w, c)
  PROVE  Advanced
<1> DEFINE m == Of[c]
<1>1. /\ m \in Messages /\ Shape /\ at[w][c] = "failed" /\ Goto(w, c, "idle")
      /\ Quiet
      /\ Save(m, NoEntry)
      /\ box' = [box EXCEPT ![c] = "acknowledged"]
  BY DeliveryAssumption DEF DeliveryInv, Shape, Abandon, Acknowledge, Decline, Forgotten
<1>2. /\ ledger' \in [Messages -> Entries] /\ ledger'[m] = NoEntry
      /\ \A n \in Messages : n # m => ledger'[n] = ledger[n]
  BY <1>1, SaveEntry, EntryFacts
<1>3. Alone(w, c)
  BY <1>1, AloneBefore
<1>4. /\ Spoken(m) /\ told'[m] = told[m] /\ overtaken' = overtaken /\ faults <= faults'
      /\ {faults, faults', cut[m], taken[m]} \subseteq Nat
  BY <1>1, QuietSpoken, DeliveryAssumption DEF Spoken, Shape
<1>5. at'[w][c] = "idle"
  BY <1>1, GotoAt DEF Places
<1>6. UNCHANGED <<leads, queue, running, taken, cut>>
  BY DEF Abandon
<1>7. HandlerInv(w, c)'
  BY <1>1, <1>2, <1>3, <1>4, <1>5, <1>6, EntryFacts DEF Alone, HandlerInv
<1>8. Alone(w, c)'
  BY <1>1, <1>2, <1>3, <1>4, <1>5, <1>6, <1>7, EntryFacts DEF Alone, HandlerInv, Spoken
<1>9. box' \in [Copies -> {"phone", "offered", "acknowledged"}]
  BY <1>1 DEF Shape
<1>10. QED
  BY <1>1, <1>2, <1>4, <1>6, <1>8, <1>9, ClaimStep DEF Places, Spoken
-----------------------------------------------------------------------------
(* The steps that move a run *)

\* The chat's queue at one monitor changes.
LEMMA QueueAt ==
  ASSUME Shape, NEW w \in Monitors, NEW q \in Seq(Runs), queue' = [queue EXCEPT ![w] = q]
  PROVE  /\ queue' \in [Monitors -> Seq(Runs)] /\ queue'[w] = q
         /\ \A v \in Monitors : v # w => queue'[v] = queue[v]
  BY DEF Shape

LEMMA DeliverStep ==
  ASSUME DeliveryInv, NEW w \in Monitors, NEW c \in Copies, Deliver(w, c)
  PROVE  Advanced
<1> DEFINE m == Of[c]
           q == Append(queue[w], [copy |-> c, late |-> FALSE])
<1>1. /\ m \in Messages /\ Shape /\ Sound(m) /\ at[w][c] = "acknowledged" /\ Goto(w, c, "window") /\ Quiet
      /\ queue[w] \in Seq(Runs) /\ Apart(queue[w])
      /\ queue' = [queue EXCEPT ![w] = q] /\ taken' = [taken EXCEPT ![m] = taken[m] + 1]
      /\ UNCHANGED <<box, ledger, leads, running, cut>>
  BY DeliveryAssumption DEF DeliveryInv, Shape, Deliver
<1>2. ~Awaited(queue[w], c)
  BY <1>1 DEF Sound, RunInv
<1>3. /\ q \in Seq(Runs) /\ q # <<>> /\ Apart(q)
      /\ \A d \in Copies : /\ Awaited(q, d) <=> Awaited(queue[w], d) \/ d = c
                           /\ Detached(q, d) => Detached(queue[w], d)
  <2>1. Extended(queue[w], c, q)
    BY DEF Extended
  <2> HIDE DEF q
  <2>2. QED
    BY <1>1, <1>2, <2>1, AppendRun
<1> HIDE DEF q
<1>4. /\ queue' \in [Monitors -> Seq(Runs)] /\ queue'[w] = q
      /\ \A v \in Monitors : v # w => queue'[v] = queue[v]
  BY <1>1, <1>3, QueueAt
<1>5. Alone(w, c)
  BY <1>1, AloneBefore
<1>6. Spoken(m) /\ told'[m] = told[m] /\ overtaken' = overtaken /\ faults' = faults
  BY <1>1, QuietSpoken DEF Quiet
<1>7. /\ at' \in [Monitors -> [Copies -> Places]] /\ at'[w][c] = "window"
      /\ \A v \in Monitors, d \in Copies : v # w \/ d # c => at'[v][d] = at[v][d]
  BY <1>1, GotoAt DEF Places
<1>8. /\ taken' \in [Messages -> Nat] /\ taken'[m] = taken[m] + 1 /\ taken[m] \in Nat /\ cut[m] \in Nat
      /\ \A n \in Messages : n # m => taken'[n] = taken[n]
  BY <1>1, DeliveryAssumption DEF Shape
<1>9. Shape'
  BY <1>1, <1>3, <1>4, <1>6, <1>7, <1>8 DEF Shape, Spoken
<1>10. \A v \in Monitors : Apart(queue'[v])
  BY <1>3, <1>4 DEF DeliveryInv
<1>11. Moved(w, c)
  BY <1>3, <1>4, <1>7 DEF Moved
<1>12. Others(m)
  BY <1>1, <1>6, <1>8 DEF Others, Spoken
<1>13. HandlerInv(w, c)'
  BY <1>1, <1>5, <1>7, <1>8 DEF Alone, HandlerInv
<1>14. Alone(w, c)'
  BY <1>1, <1>5, <1>6, <1>7, <1>8, <1>13 DEF Alone, HandlerInv
<1>15. /\ Awaited(queue'[w], c) <=> at'[w][c] = "window"
       /\ Detached(queue'[w], c) => Detached(queue[w], c)
       /\ cut[m] <= cut'[m]
  BY <1>1, <1>3, <1>4, <1>7, <1>8
<1>16. QED
  BY <1>1, <1>9, <1>10, <1>11, <1>12, <1>14, <1>15, HandlerStep

\* The handler leaves its run behind.
LEMMA LeaveRun ==
  ASSUME DeliveryInv, NEW w \in Monitors, NEW c \in Copies, Accepting(w, c), MarkLate(w, c), Goto(w, c, "idle"),
         box' \in [Copies -> {"phone", "offered", "acknowledged"}],
         ledger' \in [Messages -> Entries], \A n \in Messages : n # Of[c] => ledger'[n] = ledger[n],
         cut' \in [Messages -> 0..MaxFaults], \A n \in Messages : n # Of[c] => cut'[n] = cut[n],
         cut[Of[c]] <= cut'[Of[c]],
         cut'[Of[c]] > 0 \/ ledger'[Of[c]].state = "completed",
         Spoken(Of[c]), UNCHANGED <<leads, running, taken>>,
         Alone(w, c)'
  PROVE  Advanced
<1> DEFINE m == Of[c]
           q == queue[w]
           r == [i \in DOMAIN q |-> IF q[i].copy = c THEN [q[i] EXCEPT !.late = TRUE] ELSE q[i]]
<1>1. /\ m \in Messages /\ Shape /\ Sound(m) /\ at[w][c] \in {"window", "succeeded"}
      /\ queue[w] \in Seq(Runs) /\ Apart(queue[w])
      /\ queue' = [queue EXCEPT ![w] = r]
  BY DeliveryAssumption DEF DeliveryInv, Shape, Accepting, MarkLate
<1>2. taken[m] > 0
  BY <1>1 DEF Sound, HandlerInv
<1>3. /\ r \in Seq(Runs) /\ Apart(r) /\ (q # <<>> => r # <<>>) /\ ~Awaited(r, c)
      /\ \A d \in Copies : d # c => /\ Awaited(r, d) <=> Awaited(q, d)
                                    /\ Detached(r, d) => Detached(q, d)
  <2>1. \A x : x = r => x = [i \in DOMAIN q |-> IF q[i].copy = c THEN [q[i] EXCEPT !.late = TRUE] ELSE q[i]]
    OBVIOUS
  <2> HIDE DEF r, q
  <2>2. q \in Seq(Runs) /\ Apart(q)
    BY <1>1 DEF q
  <2>3. QED
    BY <2>1, <2>2, LateRun
<1> HIDE DEF r
<1>4. /\ queue' \in [Monitors -> Seq(Runs)] /\ queue'[w] = r
      /\ \A v \in Monitors : v # w => queue'[v] = queue[v]
  BY <1>1, <1>3, QueueAt
<1>5. /\ at' \in [Monitors -> [Copies -> Places]] /\ at'[w][c] = "idle"
      /\ \A v \in Monitors, d \in Copies : v # w \/ d # c => at'[v][d] = at[v][d]
  BY <1>1, GotoAt DEF Places
<1>6. Shape'
  BY <1>1, <1>3, <1>4, <1>5 DEF Shape, Spoken
<1>7. \A v \in Monitors : Apart(queue'[v])
  BY <1>3, <1>4 DEF DeliveryInv
<1>8. Moved(w, c)
  BY <1>3, <1>4, <1>5 DEF Moved
<1>9. Others(m)
  BY DEF Others, Spoken
<1>10. /\ Awaited(queue'[w], c) <=> at'[w][c] = "window"
       /\ at'[w][c] = "idle" /\ (cut'[m] > 0 \/ (ledger'[m].state = "completed" /\ taken'[m] > 0))
  BY <1>2, <1>3, <1>4, <1>5
<1>11. QED
  BY <1>1, <1>6, <1>7, <1>8, <1>9, <1>10, HandlerStep

LEMMA AcceptStep ==
  ASSUME DeliveryInv, NEW w \in Monitors, NEW c \in Copies, Accept(w, c)
  PROVE  Advanced
<1> DEFINE m == Of[c]
<1>1. /\ m \in Messages /\ Shape /\ at[w][c] \in {"window", "succeeded"} /\ Save(m, Completed(m)) /\ Tell(m, "accepted")
      /\ Accepting(w, c) /\ MarkLate(w, c) /\ Goto(w, c, "idle") /\ box' = [box EXCEPT ![c] = "acknowledged"]
      /\ UNCHANGED <<leads, running, taken, cut>>
  BY DeliveryAssumption DEF DeliveryInv, Shape, Accept, Acknowledge, Accepting
<1>2. Completed(m) \in Entries /\ Completed(m).state = "completed" /\ Completed(m).rejected = ledger[m].rejected
  BY <1>1, CompletedFacts
<1>3. /\ ledger' \in [Messages -> Entries] /\ ledger'[m] = Completed(m)
      /\ \A n \in Messages : n # m => ledger'[n] = ledger[n]
  BY <1>1, <1>2, SaveEntry
<1>4. Alone(w, c)
  BY <1>1, AloneBefore
<1>5. Heard(m, "accepted") /\ Spoken(m) /\ faults <= faults' /\ {faults, faults', cut[m], taken[m]} \subseteq Nat
  BY <1>1, TellHeard, DeliveryAssumption DEF Heard, Spoken, Shape
<1>6. at'[w][c] = "idle"
  BY <1>1, GotoAt DEF Places
<1>7. HandlerInv(w, c)'
  BY <1>6 DEF HandlerInv
<1>8. taken[m] > 0
  BY <1>1, <1>4 DEF Alone, HandlerInv
<1>9. Alone(w, c)'
  BY <1>1, <1>2, <1>3, <1>4, <1>5, <1>6, <1>7, <1>8 DEF Alone
<1>10. /\ box' \in [Copies -> {"phone", "offered", "acknowledged"}]
       /\ cut' \in [Messages -> 0..MaxFaults] /\ cut[m] <= cut'[m] /\ cut' = cut
       /\ ledger'[m].state = "completed"
  BY <1>1, <1>2, <1>3, <1>5 DEF Shape
<1>11. QED
  BY <1>1, <1>3, <1>5, <1>9, <1>10, LeaveRun

LEMMA AcceptUnsavedStep ==
  ASSUME DeliveryInv, NEW w \in Monitors, NEW c \in Copies, AcceptUnsaved(w, c)
  PROVE  Advanced
<1> DEFINE m == Of[c]
<1>1. /\ m \in Messages /\ Shape /\ at[w][c] \in {"window", "succeeded"} /\ (Save(m, NoEntry) \/ ledger' = ledger)
      /\ Fault /\ UNCHANGED <<told, overtaken>>
      /\ Accepting(w, c) /\ MarkLate(w, c) /\ Goto(w, c, "idle") /\ box' = box
      /\ UNCHANGED <<leads, running, taken>> /\ cut' = [cut EXCEPT ![m] = cut[m] + 1]
  BY DeliveryAssumption DEF DeliveryInv, Shape, AcceptUnsaved, Decline, Accepting, Forgotten
<1>2. /\ ledger' \in [Messages -> Entries] /\ ledger'[m] \in {NoEntry, ledger[m]}
      /\ \A n \in Messages : n # m => ledger'[n] = ledger[n]
  <2>1. CASE ledger' = ledger
    BY <1>1, <2>1 DEF Shape
  <2>2. CASE Save(m, NoEntry)
    BY <1>1, <2>2, SaveEntry, EntryFacts
  <2>3. QED
    BY <1>1, <2>1, <2>2 DEF AcceptUnsaved, Forgotten
<1>3. Alone(w, c)
  BY <1>1, AloneBefore
<1>4. /\ Spoken(m) /\ told'[m] = told[m] /\ overtaken' = overtaken
      /\ faults' = faults + 1 /\ faults \in Nat /\ faults' \in 0..MaxFaults /\ MaxFaults \in Nat
      /\ cut[m] \in 0..MaxFaults /\ taken[m] \in Nat
  BY <1>1, FaultSpoken, DeliveryAssumption DEF Spoken, Shape, Fault
<1>5. cut[m] <= faults
  BY <1>3 DEF Alone
<1>6. /\ cut' \in [Messages -> 0..MaxFaults] /\ cut'[m] = cut[m] + 1
      /\ \A n \in Messages : n # m => cut'[n] = cut[n]
  <2>1. cut[m] + 1 \in 0..MaxFaults
    BY <1>4, <1>5
  <2>2. QED
    BY <1>1, <2>1 DEF Shape
<1>7. at'[w][c] = "idle"
  BY <1>1, GotoAt DEF Places
<1>8. HandlerInv(w, c)'
  BY <1>7 DEF HandlerInv
<1>9. taken'[m] <= cut'[m]
  BY <1>1, <1>3, <1>4, <1>6 DEF Alone
<1>10. cut'[m] <= faults' /\ cut'[m] > 0 /\ cut[m] <= cut'[m] /\ taken'[m] <= cut'[m] + 1
  <2>1. taken'[m] = taken[m] /\ cut'[m] \in Nat /\ taken[m] \in Nat
    BY <1>1, <1>4, <1>6
  <2>2. QED
    BY <1>4, <1>5, <1>6, <1>9, <2>1
<1>11. Alone(w, c)'
  BY <1>1, <1>2, <1>3, <1>4, <1>7, <1>8, <1>9, <1>10, EntryFacts DEF Alone
<1>12. box' \in [Copies -> {"phone", "offered", "acknowledged"}]
  BY <1>1 DEF Shape
<1>13. QED
  BY <1>1, <1>2, <1>4, <1>6, <1>10, <1>11, <1>12, LeaveRun
-----------------------------------------------------------------------------
(* The ends of the runs *)

\* What ends is the run that came first.
LEMMA EndsFacts ==
  ASSUME DeliveryInv, NEW w \in Monitors, Ends(w)
  PROVE  LET c == Head(queue[w]).copy IN
         /\ c \in Copies
         /\ queue' \in [Monitors -> Seq(Runs)] /\ running' \in [Monitors -> BOOLEAN]
         /\ \A v \in Monitors : Apart(queue'[v]) /\ (running'[v] => queue'[v] # <<>>)
         /\ \A v \in Monitors, d \in Copies :
              /\ (v # w \/ d # c \/ Head(queue[w]).late) => (Awaited(queue'[v], d) <=> Awaited(queue[v], d))
              /\ Detached(queue'[v], d) => Detached(queue[v], d)
         /\ Head(queue[w]).late => Detached(queue[w], c)
         /\ ~Head(queue[w]).late => Awaited(queue[w], c) /\ ~Awaited(queue'[w], c) /\ at[w][c] = "window"
<1> DEFINE q == queue[w]
           r == Tail(queue[w])
           c == Head(queue[w]).copy
<1>1. /\ Shape /\ queue[w] \in Seq(Runs) /\ Apart(queue[w]) /\ queue[w] # <<>>
      /\ queue' = [queue EXCEPT ![w] = r] /\ running' = [running EXCEPT ![w] = FALSE]
  BY DEF Ends, DeliveryInv, Shape
<1>2. /\ r \in Seq(Runs) /\ Apart(r)
      /\ Head(q).copy \in Copies
      /\ Head(q).late => Detached(q, Head(q).copy)
      /\ ~Head(q).late => Awaited(q, Head(q).copy) /\ ~Awaited(r, Head(q).copy)
      /\ \A d \in Copies : /\ Head(q).late \/ d # Head(q).copy => (Awaited(r, d) <=> Awaited(q, d))
                           /\ Detached(r, d) => Detached(q, d)
  BY <1>1, TailRun
<1> HIDE DEF r
<1>3. /\ queue' \in [Monitors -> Seq(Runs)] /\ queue'[w] = r
      /\ \A v \in Monitors : v # w => queue'[v] = queue[v]
  BY <1>1, <1>2, QueueAt
<1>4. /\ running' \in [Monitors -> BOOLEAN] /\ ~running'[w]
      /\ \A v \in Monitors : v # w => running'[v] = running[v]
  BY <1>1 DEF Shape
<1>5. \A v \in Monitors : Apart(queue'[v]) /\ (running'[v] => queue'[v] # <<>>)
  BY <1>1, <1>2, <1>3, <1>4 DEF DeliveryInv, Shape
<1>6. Awaited(q, c) => at[w][c] = "window"
  <2>1. Of[c] \in Messages
    BY <1>2, DeliveryAssumption
  <2>2. RunInv(w, c)
    BY <1>2, <2>1 DEF DeliveryInv, Sound
  <2>3. QED
    BY <2>2 DEF RunInv
<1>7. \A v \in Monitors, d \in Copies :
        /\ (v # w \/ d # c \/ Head(queue[w]).late) => (Awaited(queue'[v], d) <=> Awaited(queue[v], d))
        /\ Detached(queue'[v], d) => Detached(queue[v], d)
  BY <1>2, <1>3
<1>8. QED
  BY <1>2, <1>3, <1>4, <1>5, <1>6, <1>7

LEMMA FinishEarlyStep ==
  ASSUME DeliveryInv, NEW w \in Monitors, FinishEarly(w)
  PROVE  Advanced
<1>a. Ends(w) /\ Head(queue[w]).copy \in Copies
  BY EndsFacts DEF FinishEarly
<1>b. PICK c \in Copies : c = Head(queue[w]).copy
  BY <1>a, Zenon
<1> DEFINE m == Of[c]
<1>1. Ends(w) /\ ~Head(queue[w]).late /\ Goto(w, c, "succeeded") /\ Quiet /\ UNCHANGED <<ledger, taken>>
  BY <1>b DEF FinishEarly
<1>2. /\ c \in Copies
      /\ queue' \in [Monitors -> Seq(Runs)] /\ running' \in [Monitors -> BOOLEAN]
      /\ \A v \in Monitors : Apart(queue'[v]) /\ (running'[v] => queue'[v] # <<>>)
      /\ \A v \in Monitors, d \in Copies :
           /\ (v # w \/ d # c) => (Awaited(queue'[v], d) <=> Awaited(queue[v], d))
           /\ Detached(queue'[v], d) => Detached(queue[v], d)
      /\ ~Awaited(queue'[w], c) /\ at[w][c] = "window"
  BY <1>b, <1>1, EndsFacts
<1>3. m \in Messages /\ Shape /\ box' = box /\ leads' = leads /\ cut' = cut /\ cut[m] \in Nat
  BY <1>1, <1>2, DeliveryAssumption DEF DeliveryInv, Shape, Ends
<1>4. /\ at' \in [Monitors -> [Copies -> Places]] /\ at'[w][c] = "succeeded"
      /\ \A v \in Monitors, d \in Copies : v # w \/ d # c => at'[v][d] = at[v][d]
  BY <1>1, <1>2, <1>3, GotoAt DEF Places
<1>5. Alone(w, c)
  BY <1>2, AloneBefore
<1>6. Spoken(m) /\ told'[m] = told[m] /\ overtaken' = overtaken /\ faults' = faults
  BY <1>1, <1>3, QuietSpoken DEF Quiet
<1>7. Shape'
  BY <1>1, <1>2, <1>3, <1>4, <1>6 DEF Shape, Spoken
<1>8. Moved(w, c)
  BY <1>2, <1>4 DEF Moved
<1>9. Others(m)
  BY <1>1, <1>3, <1>6 DEF Others, Spoken
<1>10. HandlerInv(w, c)'
  BY <1>1, <1>2, <1>3, <1>4, <1>5 DEF Alone, HandlerInv
<1>11. Alone(w, c)'
  BY <1>1, <1>2, <1>3, <1>4, <1>5, <1>6, <1>10 DEF Alone, HandlerInv
<1>12. /\ Awaited(queue'[w], c) <=> at'[w][c] = "window"
       /\ Detached(queue'[w], c) => Detached(queue[w], c)
       /\ cut[m] <= cut'[m] /\ at[w][c] # "idle"
  BY <1>2, <1>3, <1>4
<1>13. QED
  BY <1>2, <1>7, <1>8, <1>9, <1>11, <1>12, HandlerStep

LEMMA FailEarlyStep ==
  ASSUME DeliveryInv, NEW w \in Monitors, FailEarly(w)
  PROVE  Advanced
<1>a. Ends(w) /\ Head(queue[w]).copy \in Copies
  BY EndsFacts DEF FailEarly
<1>b. PICK c \in Copies : c = Head(queue[w]).copy
  BY <1>a, Zenon
<1> DEFINE m == Of[c]
<1>1. /\ Ends(w) /\ ~Head(queue[w]).late /\ Goto(w, c, "failed") /\ Tell(m, "rejected") /\ ledger' = ledger
      /\ taken' = [taken EXCEPT ![m] = taken[m] - 1]
  BY <1>b DEF FailEarly
<1>2. /\ c \in Copies
      /\ queue' \in [Monitors -> Seq(Runs)] /\ running' \in [Monitors -> BOOLEAN]
      /\ \A v \in Monitors : Apart(queue'[v]) /\ (running'[v] => queue'[v] # <<>>)
      /\ \A v \in Monitors, d \in Copies :
           /\ (v # w \/ d # c) => (Awaited(queue'[v], d) <=> Awaited(queue[v], d))
           /\ Detached(queue'[v], d) => Detached(queue[v], d)
      /\ ~Awaited(queue'[w], c) /\ at[w][c] = "window"
  BY <1>b, <1>1, EndsFacts
<1>3. m \in Messages /\ Shape /\ box' = box /\ leads' = leads /\ cut' = cut /\ cut[m] \in Nat
  BY <1>1, <1>2, DeliveryAssumption DEF DeliveryInv, Shape, Ends
<1>4. /\ at' \in [Monitors -> [Copies -> Places]] /\ at'[w][c] = "failed"
      /\ \A v \in Monitors, d \in Copies : v # w \/ d # c => at'[v][d] = at[v][d]
  BY <1>1, <1>2, <1>3, GotoAt DEF Places
<1>5. Alone(w, c)
  BY <1>2, AloneBefore
<1>6. Heard(m, "rejected") /\ Spoken(m) /\ faults <= faults' /\ {faults, faults'} \subseteq Nat
  BY <1>1, <1>3, TellHeard, DeliveryAssumption DEF Heard, Spoken, Shape
<1>7. /\ taken' \in [Messages -> Nat] /\ taken'[m] = taken[m] - 1 /\ taken[m] \in Nat /\ taken[m] > 0
      /\ \A n \in Messages : n # m => taken'[n] = taken[n]
  <2>1. taken[m] \in Nat /\ taken[m] > 0
    BY <1>2, <1>3, <1>5 DEF Shape, Alone, HandlerInv
  <2>2. taken[m] - 1 \in Nat
    BY <2>1
  <2>3. QED
    BY <1>1, <1>3, <2>1, <2>2 DEF Shape
<1>8. Shape'
  BY <1>1, <1>2, <1>3, <1>4, <1>6, <1>7 DEF Shape, Spoken
<1>9. Moved(w, c)
  BY <1>2, <1>4 DEF Moved
<1>10. Others(m)
  BY <1>1, <1>3, <1>6, <1>7 DEF Others, Spoken
<1>11. taken'[m] <= cut'[m] /\ taken'[m] <= cut'[m] + 1
  BY <1>3, <1>5, <1>7 DEF Alone
<1>12. HandlerInv(w, c)'
  BY <1>1, <1>2, <1>3, <1>4, <1>5, <1>11 DEF Alone, HandlerInv
<1>13. cut[m] = 0 => ledger[m].state = "processing"
  BY <1>2, <1>5 DEF Alone, HandlerInv
<1>14. told'[m] = "accepted" => m \in overtaken'
  BY <1>6 DEF Heard
<1>15. Alone(w, c)'
  BY <1>1, <1>2, <1>3, <1>4, <1>5, <1>6, <1>11, <1>12, <1>13, <1>14 DEF Alone
<1>16. /\ Awaited(queue'[w], c) <=> at'[w][c] = "window"
       /\ Detached(queue'[w], c) => Detached(queue[w], c)
       /\ cut[m] <= cut'[m] /\ at[w][c] # "idle"
  BY <1>2, <1>3, <1>4
<1>17. QED
  BY <1>2, <1>8, <1>9, <1>10, <1>15, <1>16, HandlerStep

\* A step that leaves the handlers of a message, its runs and its cuts as they are.
LEMMA SettledStep ==
  ASSUME DeliveryInv, Shape', \A v \in Monitors : Apart(queue'[v]), NEW m \in Messages, Elsewhere(m), Firm(m),
         at' = at, cut' = cut, taken' = taken,
         \A v \in Monitors, d \in Copies :
           /\ Awaited(queue'[v], d) <=> Awaited(queue[v], d)
           /\ Detached(queue'[v], d) => Detached(queue[v], d),
         MessageInv(m)',
         ledger'[m] = ledger[m] \/ ~Handled(m) \/ (cut[m] > 0 /\ ledger'[m].state = "completed"),
         ledger[m].state = "completed" => ledger'[m].state = "completed"
  PROVE  Advanced
<1>1. Sound(m) /\ cut[m] \in Nat
  BY DeliveryAssumption DEF DeliveryInv, Shape
<1>2. OneHandler(m)' /\ (Handled(m)' <=> Handled(m))
  BY <1>1 DEF Sound, OneHandler, Handled
<1>3. ASSUME NEW v \in Monitors, NEW d \in Copies, Of[d] = m
      PROVE  HandlerInv(v, d)' /\ RunInv(v, d)'
  <2>1. HandlerInv(v, d) /\ RunInv(v, d)
    BY <1>1, <1>3 DEF Sound
  <2>2. at[v][d] # "idle" => Handled(m)
    BY <1>3 DEF Handled
  <2>3. HandlerInv(v, d)'
    BY <1>1, <1>3, <2>1, <2>2 DEF HandlerInv
  <2>4. RunInv(v, d)'
    BY <1>1, <1>2, <1>3, <2>1 DEF RunInv
  <2>5. QED
    BY <2>3, <2>4
<1>4. Sound(m)'
  BY <1>2, <1>3 DEF Sound
<1>5. QED
  BY <1>4, MessageStep

LEMMA StillStep ==
  ASSUME DeliveryInv, Shape', UNCHANGED <<ledger, at, queue, told, taken, cut, overtaken>>, faults <= faults'
  PROVE  Advanced
<1>1. \A v \in Monitors : Apart(queue'[v])
  BY DEF DeliveryInv
<1>2. ASSUME NEW m \in Messages PROVE Sound(m)' /\ Firm(m)
  <2>1. Sound(m) /\ {cut[m], taken[m], faults, faults'} \subseteq Nat
    BY DeliveryAssumption DEF DeliveryInv, Shape
  <2>2. Firm(m)
    BY <2>1 DEF Firm
  <2>3. OneHandler(m)' /\ (Handled(m)' <=> Handled(m)) /\ (AtWork(m)' <=> AtWork(m))
    BY <2>1 DEF Sound, OneHandler, Handled, AtWork
  <2>4. MessageInv(m)'
    BY <2>1, <2>3 DEF Sound, MessageInv
  <2>5. ASSUME NEW v \in Monitors, NEW d \in Copies, Of[d] = m PROVE HandlerInv(v, d)' /\ RunInv(v, d)'
    BY <2>1, <2>3, <2>5 DEF Sound, HandlerInv, RunInv
  <2>6. QED
    BY <2>2, <2>3, <2>4, <2>5 DEF Sound
<1>3. QED
  BY <1>1, <1>2 DEF Advanced, DeliveryInv

\* Handlers and runs stay as they are, and the phone hears of one message.
LEMMA RepeatStep ==
  ASSUME DeliveryInv, NEW m \in Messages, Repeat(m), ledger[m].state = "completed" \/ ledger[m].acknowledged,
         box' \in [Copies -> {"phone", "offered", "acknowledged"}],
         UNCHANGED <<ledger, leads, at, queue, running, taken, cut>>
  PROVE  Advanced
<1>1. Shape /\ Sound(m) /\ cut[m] \in Nat /\ taken[m] \in Nat
  BY DeliveryAssumption DEF DeliveryInv, Shape
<1>2. /\ Heard(m, IF ledger[m].rejected THEN "rejected" ELSE "accepted")
      /\ told'[m] = "accepted" /\ told[m] # "accepted" =>
           ~ledger[m].rejected /\ (m \in overtaken' \/ \A w \in Monitors, c \in Copies : Of[c] = m => at[w][c] # "failed")
  BY <1>1, RepeatHeard
<1>3. Spoken(m) /\ (m \in overtaken => m \in overtaken') /\ faults <= faults' /\ {faults, faults'} \subseteq Nat
  BY <1>1, <1>2, DeliveryAssumption DEF Heard, Spoken, Shape
<1>4. Shape'
  BY <1>1, <1>3 DEF Shape, Spoken
<1>5. Elsewhere(m)
  BY <1>3 DEF Elsewhere, Spoken
<1>6. Firm(m)
  BY <1>1, <1>2 DEF Firm
<1>7. told'[m] = "accepted" => taken[m] > 0 \/ cut[m] > 0 \/ m \in overtaken' \/ AtWork(m)
  <2>1. CASE told[m] = "accepted"
    BY <1>1, <1>3, <2>1 DEF Sound, MessageInv
  <2>2. CASE told[m] # "accepted" /\ told'[m] = "accepted" /\ cut[m] = 0 /\ m \notin overtaken'
    <3>1. ~ledger[m].rejected /\ \A w \in Monitors, c \in Copies : Of[c] = m => at[w][c] # "failed"
      BY <1>2, <2>2
    <3>2. CASE ledger[m].state = "completed"
      BY <1>1, <2>2, <3>1, <3>2 DEF Sound, MessageInv
    <3>3. CASE ledger[m].state = "processing" /\ ledger[m].acknowledged
      <4>1. PICK w \in Monitors, c \in Copies : Of[c] = m /\ at[w][c] # "idle"
        BY <1>1, <2>2, <3>3 DEF Sound, MessageInv, Handled
      <4>2. at[w][c] \in {"acknowledged", "window", "succeeded"}
        BY <1>1, <2>2, <3>1, <3>3, <4>1 DEF Sound, HandlerInv, Shape, Places
      <4>3. QED
        BY <1>1, <4>1, <4>2 DEF Sound, HandlerInv, AtWork
    <3>4. ledger[m].state \in {"none", "processing", "completed"}
      BY <1>1 DEF Shape, Entries
    <3>5. QED
      BY <1>1, <3>2, <3>3, <3>4 DEF Sound, MessageInv
  <2>3. QED
    BY <1>1, <2>1, <2>2
<1>8. (Handled(m)' <=> Handled(m)) /\ (AtWork(m)' <=> AtWork(m))
  BY DEF Handled, AtWork
<1>9. MessageInv(m)'
  BY <1>1, <1>3, <1>7, <1>8 DEF Sound, MessageInv
<1>10. \A v \in Monitors : Apart(queue'[v])
  BY DEF DeliveryInv
<1>11. /\ \A v \in Monitors, d \in Copies :
            /\ Awaited(queue'[v], d) <=> Awaited(queue[v], d)
            /\ Detached(queue'[v], d) => Detached(queue[v], d)
       /\ ledger'[m] = ledger[m] /\ at' = at /\ cut' = cut /\ taken' = taken
  OBVIOUS
<1>12. QED
  BY <1>4, <1>5, <1>6, <1>9, <1>10, <1>11, SettledStep

LEMMA RepeatReceived ==
  ASSUME DeliveryInv, NEW w \in Monitors, NEW c \in Copies, Receive(w, c), BeginAnswer(Of[c]) # "started"
  PROVE  Advanced
<1> DEFINE m == Of[c]
<1>1. /\ m \in Messages /\ Shape /\ at[w][c] = "idle" /\ Goto(w, c, "idle")
      /\ box' = [box EXCEPT ![c] = "acknowledged"] /\ ledger' = ledger
      /\ IF BeginAnswer(m) = "completed" \/ ledger[m].acknowledged THEN Repeat(m) ELSE Quiet
      /\ UNCHANGED <<leads, queue, running, taken, cut>>
  BY DeliveryAssumption DEF DeliveryInv, Shape, Receive, Acknowledge
<1>2. at' = at
  <2>1. at \in [Monitors -> [Copies -> Places]] /\ at' = [at EXCEPT ![w] = [at[w] EXCEPT ![c] = "idle"]]
    BY <1>1 DEF Shape, Goto
  <2>2. [at[w] EXCEPT ![c] = "idle"] = at[w]
    BY <1>1, <2>1
  <2>3. QED
    BY <2>1, <2>2
<1>3. box' \in [Copies -> {"phone", "offered", "acknowledged"}]
  BY <1>1 DEF Shape
<1>4. CASE BeginAnswer(m) = "completed" \/ ledger[m].acknowledged
  <2>1. ledger[m].state = "completed" \/ ledger[m].acknowledged
    BY <1>4 DEF BeginAnswer
  <2>2. Repeat(m) /\ UNCHANGED <<ledger, leads, at, queue, running, taken, cut>>
    BY <1>1, <1>2, <1>4
  <2>3. QED
    BY <1>1, <1>3, <2>1, <2>2, RepeatStep
<1>5. CASE ~(BeginAnswer(m) = "completed" \/ ledger[m].acknowledged)
  <2>1. Quiet /\ UNCHANGED <<ledger, leads, at, queue, running, taken, cut>>
    BY <1>1, <1>2, <1>5
  <2>2. Shape'
    BY <1>1, <1>3, <2>1 DEF Shape, Quiet
  <2>3. faults <= faults'
    BY <1>1, <2>1, QuietSpoken DEF Spoken
  <2>4. QED
    BY <2>1, <2>2, <2>3, StillStep DEF Quiet
<1>6. QED
  BY <1>4, <1>5

LEMMA QueryStep ==
  ASSUME DeliveryInv, NEW w \in Monitors, NEW m \in Messages, Query(w, m)
  PROVE  Advanced
<1>1. /\ Repeat(m) /\ (ledger[m].state = "completed" \/ ledger[m].acknowledged)
      /\ UNCHANGED <<box, ledger, leads, at, queue, running, taken, cut>>
  BY DEF Query
<1>2. box' \in [Copies -> {"phone", "offered", "acknowledged"}]
  BY <1>1 DEF DeliveryInv, Shape
<1>3. QED
  BY <1>1, <1>2, RepeatStep

LEMMA ActivityStep ==
  ASSUME DeliveryInv, NEW w \in Monitors, Activity(w)
  PROVE  Advanced
<1>1. Shape /\ queue[w] \in Seq(Runs) /\ queue[w] # <<>> /\ Apart(queue[w])
  BY DEF DeliveryInv, Shape, Activity
<1>2. /\ Head(queue[w]).copy \in Copies
      /\ Detached(queue[w], Head(queue[w]).copy) \/ Awaited(queue[w], Head(queue[w]).copy)
  <2>1. \A r : r = Tail(queue[w]) =>
          /\ Head(queue[w]).copy \in Copies
          /\ Head(queue[w]).late => Detached(queue[w], Head(queue[w]).copy)
          /\ ~Head(queue[w]).late => Awaited(queue[w], Head(queue[w]).copy)
    BY <1>1, TailRun
  <2>2. QED
    BY <2>1
<1>3. PICK c \in Copies : c = Head(queue[w]).copy
  BY <1>2, Zenon
<1> DEFINE m == Of[c]
           entry == [NoEntry EXCEPT !.state = "completed", !.acknowledged = TRUE]
<1>4. /\ m \in Messages /\ Sound(m) /\ cut[m] \in Nat /\ taken[m] \in Nat
      /\ ~ledger[m].rejected /\ Tell(m, "accepted")
      /\ IF ledger[m] = NoEntry THEN Save(m, entry) ELSE UNCHANGED ledger
      /\ UNCHANGED <<box, leads, at, queue, running, taken, cut>>
  <2>1. m \in Messages /\ Sound(m) /\ cut[m] \in Nat /\ taken[m] \in Nat
    BY <1>1, <1>3, DeliveryAssumption DEF DeliveryInv, Shape
  <2>2. /\ ~ledger[m].rejected /\ Tell(m, "accepted")
        /\ IF ledger[m] = NoEntry THEN Save(m, entry) ELSE UNCHANGED ledger
        /\ UNCHANGED <<box, leads, at, queue, running, taken, cut>>
    BY <1>3 DEF Activity
  <2>3. QED
    BY <2>1, <2>2
<1>5. Detached(queue[w], c) \/ Awaited(queue[w], c)
  BY <1>2, <1>3
<1>6. RunInv(w, c) /\ HandlerInv(w, c)
  BY <1>4 DEF Sound
<1>7. taken[m] > 0 \/ cut[m] > 0
  BY <1>4, <1>5, <1>6 DEF RunInv, HandlerInv
<1>8. ledger[m] = NoEntry => cut[m] > 0
  BY <1>4, <1>5, <1>6, EntryFacts DEF RunInv, HandlerInv
<1>9. /\ entry \in Entries /\ entry.state = "completed" /\ ~entry.rejected
  BY DEF Entries, NoEntry
<1> HIDE DEF entry
<1>10. /\ ledger' \in [Messages -> Entries]
       /\ ledger'[m] = IF ledger[m] = NoEntry THEN entry ELSE ledger[m]
       /\ \A n \in Messages : n # m => ledger'[n] = ledger[n]
  <2>1. CASE ledger[m] = NoEntry
    BY <1>1, <1>4, <1>9, <2>1, SaveEntry
  <2>2. CASE ledger[m] # NoEntry
    BY <1>1, <1>4, <2>2 DEF Shape
  <2>3. QED
    BY <2>1, <2>2
<1>11. Spoken(m) /\ faults <= faults' /\ {faults, faults'} \subseteq Nat
  BY <1>1, <1>4, TellHeard, DeliveryAssumption DEF Heard, Spoken, Shape
<1>12. Shape'
  BY <1>1, <1>4, <1>10, <1>11 DEF Shape, Spoken
<1>13. \A v \in Monitors : Apart(queue'[v])
  BY <1>4 DEF DeliveryInv
<1>14. Elsewhere(m)
  BY <1>4, <1>10, <1>11 DEF Elsewhere, Spoken
<1>15. Firm(m)
  BY <1>4 DEF Firm
<1>16. (Handled(m)' <=> Handled(m)) /\ (AtWork(m)' <=> AtWork(m))
  BY <1>4 DEF Handled, AtWork
<1>17. MessageInv(m)'
  BY <1>4, <1>7, <1>9, <1>10, <1>11, <1>16 DEF Sound, MessageInv
<1>18. /\ at' = at /\ cut' = cut /\ taken' = taken
       /\ \A v \in Monitors, d \in Copies :
            /\ Awaited(queue'[v], d) <=> Awaited(queue[v], d)
            /\ Detached(queue'[v], d) => Detached(queue[v], d)
       /\ ledger'[m] = ledger[m] \/ (cut[m] > 0 /\ ledger'[m].state = "completed")
       /\ ledger[m].state = "completed" => ledger'[m].state = "completed"
  BY <1>4, <1>8, <1>9, <1>10
<1>19. QED
  BY <1>4, <1>12, <1>13, <1>14, <1>15, <1>17, <1>18, SettledStep

LEMMA FinishLateStep ==
  ASSUME DeliveryInv, NEW w \in Monitors, FinishLate(w)
  PROVE  Advanced
<1>a. Ends(w) /\ Head(queue[w]).late /\ Quiet /\ UNCHANGED <<ledger, at, taken>>
  BY DEF FinishLate
<1>b. PICK c \in Copies : c = Head(queue[w]).copy
  BY <1>a, EndsFacts, Zenon
<1> DEFINE m == Of[c]
<1>1. /\ queue' \in [Monitors -> Seq(Runs)] /\ running' \in [Monitors -> BOOLEAN]
      /\ \A v \in Monitors : Apart(queue'[v]) /\ (running'[v] => queue'[v] # <<>>)
      /\ \A v \in Monitors, d \in Copies :
           /\ Awaited(queue'[v], d) <=> Awaited(queue[v], d)
           /\ Detached(queue'[v], d) => Detached(queue[v], d)
  BY <1>a, EndsFacts
<1>2. m \in Messages /\ Shape /\ Sound(m) /\ box' = box /\ leads' = leads /\ cut' = cut /\ {cut[m], taken[m]} \subseteq Nat
  BY <1>a, DeliveryAssumption DEF DeliveryInv, Shape, Ends
<1>3. Spoken(m) /\ told'[m] = told[m] /\ overtaken' = overtaken /\ faults' = faults
  BY <1>a, <1>2, QuietSpoken DEF Quiet
<1>4. Shape'
  BY <1>a, <1>1, <1>2, <1>3 DEF Shape, Spoken
<1>5. Elsewhere(m)
  BY <1>a, <1>1, <1>2, <1>3 DEF Elsewhere, Spoken
<1>6. Firm(m)
  BY <1>a, <1>2, <1>3 DEF Firm
<1>7. (Handled(m)' <=> Handled(m)) /\ (AtWork(m)' <=> AtWork(m))
  BY <1>a DEF Handled, AtWork
<1>8. MessageInv(m)'
  BY <1>a, <1>2, <1>3, <1>7 DEF Sound, MessageInv
<1>9. QED
  BY <1>a, <1>1, <1>2, <1>4, <1>5, <1>6, <1>8, SettledStep

LEMMA FailLateStep ==
  ASSUME DeliveryInv, NEW w \in Monitors, FailLate(w)
  PROVE  Advanced
<1>a. Ends(w) /\ Head(queue[w]).late /\ UNCHANGED <<at, taken>>
  BY DEF FailLate
<1>b. PICK c \in Copies : c = Head(queue[w]).copy
  BY <1>a, EndsFacts, Zenon
<1> DEFINE m == Of[c]
<1>1. /\ queue' \in [Monitors -> Seq(Runs)] /\ running' \in [Monitors -> BOOLEAN]
      /\ \A v \in Monitors : Apart(queue'[v]) /\ (running'[v] => queue'[v] # <<>>)
      /\ \A v \in Monitors, d \in Copies :
           /\ Awaited(queue'[v], d) <=> Awaited(queue[v], d)
           /\ Detached(queue'[v], d) => Detached(queue[v], d)
      /\ Detached(queue[w], c)
  BY <1>a, <1>b, EndsFacts
<1>2. /\ m \in Messages /\ Shape /\ Sound(m) /\ box' = box /\ leads' = leads /\ cut' = cut /\ {cut[m], taken[m]} \subseteq Nat
      /\ Save(m, Refused(m)) /\ Tell(m, "rejected")
  BY <1>a, <1>b, DeliveryAssumption DEF DeliveryInv, Shape, Ends, FailLate
<1>3. Refused(m) \in Entries /\ Refused(m).state = "completed" /\ Refused(m).rejected
  BY <1>2, CompletedFacts
<1>4. /\ ledger' \in [Messages -> Entries] /\ ledger'[m] = Refused(m)
      /\ \A n \in Messages : n # m => ledger'[n] = ledger[n]
  BY <1>2, <1>3, SaveEntry
<1>5. cut[m] = 0 => ~Handled(m)
  BY <1>1, <1>2 DEF Sound, RunInv
<1>6. Heard(m, "rejected") /\ Spoken(m) /\ faults <= faults' /\ {faults, faults'} \subseteq Nat
  BY <1>2, TellHeard, DeliveryAssumption DEF Heard, Spoken, Shape
<1>7. Shape'
  BY <1>a, <1>1, <1>2, <1>4, <1>6 DEF Shape, Spoken
<1>8. Elsewhere(m)
  BY <1>a, <1>1, <1>2, <1>4, <1>6 DEF Elsewhere, Spoken
<1>9. Firm(m)
  BY <1>a, <1>2, <1>3, <1>4, <1>6 DEF Firm, Heard
<1>10. (Handled(m)' <=> Handled(m)) /\ (AtWork(m)' <=> AtWork(m))
  BY <1>a DEF Handled, AtWork
<1>11. MessageInv(m)'
  BY <1>a, <1>2, <1>3, <1>4, <1>6, <1>10 DEF Sound, MessageInv, Heard
<1>12. /\ ~Handled(m) \/ (cut[m] > 0 /\ ledger'[m].state = "completed")
       /\ ledger'[m].state = "completed"
  BY <1>2, <1>3, <1>4, <1>5
<1>13. QED
  BY <1>a, <1>1, <1>2, <1>7, <1>8, <1>9, <1>11, <1>12, SettledStep

LEMMA LapseStep ==
  ASSUME DeliveryInv, NEW m \in Messages, Lapse(m)
  PROVE  Advanced
<1>1. /\ Shape /\ Sound(m) /\ ledger[m].state = "processing" /\ ~Handled(m) /\ Quiet
      /\ ledger' = [ledger EXCEPT ![m] = [ledger[m] EXCEPT !.old = TRUE]]
      /\ UNCHANGED <<box, leads, at, queue, running, taken, cut>> /\ {cut[m], taken[m]} \subseteq Nat
  BY DeliveryAssumption DEF DeliveryInv, Shape, Lapse
<1> DEFINE entry == [ledger[m] EXCEPT !.old = TRUE]
<1>2. /\ entry \in Entries /\ entry.state = ledger[m].state /\ entry.rejected = ledger[m].rejected
      /\ entry.acknowledged = ledger[m].acknowledged
  <2>1. ledger[m] \in Entries
    BY <1>1 DEF Shape
  <2>2. QED
    BY <2>1 DEF Entries
<1>e. ledger' = [ledger EXCEPT ![m] = entry]
  BY <1>1
<1> HIDE DEF entry
<1>3. /\ ledger' \in [Messages -> Entries] /\ ledger'[m] = entry
      /\ \A n \in Messages : n # m => ledger'[n] = ledger[n]
  BY <1>1, <1>2, <1>e DEF Shape
<1>4. Spoken(m) /\ told'[m] = told[m] /\ overtaken' = overtaken /\ faults' = faults
  BY <1>1, QuietSpoken DEF Quiet
<1>5. Shape'
  BY <1>1, <1>3, <1>4 DEF Shape, Spoken
<1>6. Elsewhere(m)
  BY <1>1, <1>3, <1>4 DEF Elsewhere, Spoken
<1>7. Firm(m)
  BY <1>1, <1>2, <1>3, <1>4 DEF Firm
<1>8. (Handled(m)' <=> Handled(m)) /\ (AtWork(m)' <=> AtWork(m))
  BY <1>1 DEF Handled, AtWork
<1>9. MessageInv(m)'
  BY <1>1, <1>2, <1>3, <1>4, <1>8 DEF Sound, MessageInv
<1>10. \A v \in Monitors : Apart(queue'[v])
  BY <1>1 DEF DeliveryInv
<1>11. /\ at' = at /\ cut' = cut /\ taken' = taken
       /\ \A v \in Monitors, d \in Copies :
            /\ Awaited(queue'[v], d) <=> Awaited(queue[v], d)
            /\ Detached(queue'[v], d) => Detached(queue[v], d)
       /\ ledger[m].state = "completed" => ledger'[m].state = "completed"
  BY <1>1, <1>2, <1>3
<1>12. QED
  BY <1>1, <1>5, <1>6, <1>7, <1>9, <1>10, <1>11, SettledStep
-----------------------------------------------------------------------------
(* The surroundings *)

\* The phone sends again, a run starts, a monitor gains or loses the lease.
LEMMA SurroundStep ==
  ASSUME DeliveryInv,
         \/ \E c \in Copies : Send(c)
         \/ \E w \in Monitors : StartRun(w) \/ Elect(w) \/ Depose(w)
  PROVE  Advanced
<1>1. Shape /\ faults \in 0..MaxFaults /\ MaxFaults \in Nat
  BY DeliveryAssumption DEF DeliveryInv, Shape
<1>2. CASE \E c \in Copies : Send(c)
  <2>1. Shape'
    BY <1>1, <1>2 DEF Shape, Send, Quiet
  <2>2. QED
    BY <1>1, <1>2, <2>1, StillStep DEF Send, Quiet
<1>3. CASE \E w \in Monitors : StartRun(w)
  <2>1. Shape'
    BY <1>1, <1>3 DEF Shape, StartRun, Quiet
  <2>2. QED
    BY <1>1, <1>3, <2>1, StillStep DEF StartRun, Quiet
<1>4. CASE \E w \in Monitors : Elect(w)
  <2>1. Shape'
    BY <1>1, <1>4 DEF Shape, Elect, Quiet
  <2>2. QED
    BY <1>1, <1>4, <2>1, StillStep DEF Elect, Quiet
<1>5. CASE \E w \in Monitors : Depose(w)
  <2>1. faults' \in 0..MaxFaults /\ faults <= faults'
    BY <1>1, <1>5, FaultFacts DEF Depose
  <2>2. Shape'
    BY <1>1, <1>5, <2>1 DEF Shape, Depose
  <2>3. QED
    BY <1>5, <2>1, <2>2, StillStep DEF Depose
<1>6. QED
  BY <1>2, <1>3, <1>4, <1>5

\* What the crashed monitor had in hand pays for one more run.
LEMMA CrashStep ==
  ASSUME DeliveryInv, NEW w \in Monitors, Crash(w)
  PROVE  Advanced
<1>1. /\ Shape /\ faults \in Nat /\ MaxFaults \in Nat /\ faults < MaxFaults /\ faults' = faults + 1
      /\ UNCHANGED <<box, ledger, told, taken, overtaken>>
      /\ leads' = leads \ {w}
      /\ at' = [at EXCEPT ![w] = [c \in Copies |-> "idle"]]
      /\ queue' = [queue EXCEPT ![w] = <<>>] /\ running' = [running EXCEPT ![w] = FALSE]
      /\ cut' = [m \in Messages |-> IF InHand(w, m) THEN cut[m] + 1 ELSE cut[m]]
  BY DeliveryAssumption DEF DeliveryInv, Shape, Crash, Fault
<1>2. /\ at' \in [Monitors -> [Copies -> Places]] /\ \A d \in Copies : at'[w][d] = "idle"
      /\ \A v \in Monitors, d \in Copies : v # w => at'[v][d] = at[v][d]
  <2>1. [c \in Copies |-> "idle"] \in [Copies -> Places]
    BY DEF Places
  <2>2. QED
    BY <1>1, <2>1 DEF Shape
<1>3. /\ queue' \in [Monitors -> Seq(Runs)] /\ queue'[w] = <<>>
      /\ \A v \in Monitors : v # w => queue'[v] = queue[v]
  <2>1. <<>> \in Seq(Runs)
    OBVIOUS
  <2>2. QED
    BY <1>1, <2>1, QueueAt
<1>4. \A d : ~Awaited(<<>>, d) /\ ~Detached(<<>>, d)
  BY DEF Awaited, Detached
<1>5. \A m \in Messages : cut[m] \in Nat /\ taken[m] \in Nat /\ cut[m] <= faults
  BY <1>1 DEF Shape, DeliveryInv, Sound, MessageInv
<1>6. \A m \in Messages : cut'[m] = IF InHand(w, m) THEN cut[m] + 1 ELSE cut[m]
  BY <1>1
<1>7. cut' \in [Messages -> 0..MaxFaults]
  <2>1. \A m \in Messages : cut[m] + 1 \in 0..MaxFaults /\ cut[m] \in 0..MaxFaults
    BY <1>1, <1>5
  <2>2. QED
    BY <1>1, <2>1
<1>8. /\ running' \in [Monitors -> BOOLEAN] /\ ~running'[w]
      /\ \A v \in Monitors : v # w => running'[v] = running[v]
  BY <1>1 DEF Shape
<1>9. Shape'
  BY <1>1, <1>2, <1>3, <1>7, <1>8 DEF Shape
<1>10. \A v \in Monitors : Apart(queue'[v])
  <2>1. Apart(<<>>)
    BY DEF Apart
  <2>2. QED
    BY <1>3, <2>1 DEF DeliveryInv
<1>11. ASSUME NEW m \in Messages PROVE Sound(m)' /\ Firm(m)
  <2>1. Sound(m) /\ cut[m] \in Nat /\ taken[m] \in Nat /\ cut[m] <= faults
    BY <1>5 DEF DeliveryInv
  <2>2. Firm(m)
    BY <1>1, <2>1 DEF Firm
  <2>3. /\ \A v \in Monitors, d \in Copies : at'[v][d] # "idle" => at'[v][d] = at[v][d]
        /\ OneHandler(m)'
    BY <1>2, <2>1 DEF Sound, OneHandler
  <2>4. CASE InHand(w, m)
    <3>1. cut'[m] = cut[m] + 1
      BY <1>6, <2>4
    <3>2. MessageInv(m)'
      BY <1>1, <2>1, <3>1 DEF Sound, MessageInv
    <3>3. ASSUME NEW v \in Monitors, NEW d \in Copies, Of[d] = m PROVE HandlerInv(v, d)' /\ RunInv(v, d)'
      <4>1. HandlerInv(v, d) /\ RunInv(v, d)
        BY <2>1, <3>3 DEF Sound
      <4>2. HandlerInv(v, d)'
        BY <1>1, <2>1, <2>3, <3>1, <3>3, <4>1 DEF HandlerInv
      <4>3. Awaited(queue'[v], d) <=> at'[v][d] = "window"
        BY <1>2, <1>3, <1>4, <4>1 DEF RunInv
      <4>4. QED
        BY <2>1, <3>1, <3>3, <4>2, <4>3 DEF RunInv
    <3>4. QED
      BY <2>2, <2>3, <3>2, <3>3 DEF Sound
  <2>5. CASE ~InHand(w, m)
    <3>1. cut'[m] = cut[m]
      BY <1>6, <2>5
    <3>2. \A d \in Copies : Of[d] = m => at[w][d] = "idle" /\ ~Awaited(queue[w], d) /\ ~Detached(queue[w], d)
      BY <2>5 DEF InHand, Awaited, Detached
    <3>3. \A v \in Monitors, d \in Copies : Of[d] = m => at'[v][d] = at[v][d]
      BY <1>2, <3>2
    <3>4. (Handled(m)' <=> Handled(m)) /\ (AtWork(m)' <=> AtWork(m))
      BY <3>3 DEF Handled, AtWork
    <3>5. MessageInv(m)'
      BY <1>1, <2>1, <3>1, <3>4 DEF Sound, MessageInv
    <3>6. ASSUME NEW v \in Monitors, NEW d \in Copies, Of[d] = m PROVE HandlerInv(v, d)' /\ RunInv(v, d)'
      <4>1. HandlerInv(v, d) /\ RunInv(v, d)
        BY <2>1, <3>6 DEF Sound
      <4>2. HandlerInv(v, d)'
        BY <1>1, <3>1, <3>3, <3>6, <4>1 DEF HandlerInv
      <4>3. /\ Awaited(queue'[v], d) <=> Awaited(queue[v], d)
            /\ Detached(queue'[v], d) => Detached(queue[v], d)
        BY <1>3, <1>4, <3>2, <3>6
      <4>4. QED
        BY <1>1, <3>1, <3>3, <3>4, <3>6, <4>1, <4>2, <4>3 DEF RunInv
    <3>7. QED
      BY <2>2, <2>3, <3>5, <3>6 DEF Sound
  <2>6. QED
    BY <2>4, <2>5
<1>12. QED
  BY <1>9, <1>10, <1>11 DEF Advanced, DeliveryInv
-----------------------------------------------------------------------------
LEMMA InitDelivery == Init => DeliveryInv
<1> SUFFICES ASSUME Init PROVE DeliveryInv
  OBVIOUS
<1>1. <<>> \in Seq(Runs) /\ MaxFaults \in Nat
  BY DeliveryAssumption
<1>2. Shape
  BY <1>1, EntryFacts DEF Init, Shape, Places
<1>3. \A w \in Monitors : queue[w] = <<>>
  BY DEF Init
<1>4. Apart(<<>>) /\ \A d : ~Awaited(<<>>, d) /\ ~Detached(<<>>, d)
  BY DEF Apart, Awaited, Detached
<1>5. \A w \in Monitors, c \in Copies : at[w][c] = "idle"
  BY DEF Init
<1>6. ASSUME NEW m \in Messages PROVE Sound(m)
  <2>1. ledger[m] = NoEntry /\ cut[m] = 0 /\ taken[m] = 0 /\ faults = 0 /\ told[m] = "nothing"
    BY DEF Init
  <2>2. OneHandler(m) /\ MessageInv(m)
    BY <1>5, <2>1, EntryFacts DEF OneHandler, MessageInv
  <2>3. \A w \in Monitors, c \in Copies : Of[c] = m => HandlerInv(w, c) /\ RunInv(w, c)
    BY <1>3, <1>4, <1>5 DEF HandlerInv, RunInv
  <2>4. QED
    BY <2>2, <2>3 DEF Sound
<1>7. QED
  BY <1>2, <1>3, <1>4, <1>6 DEF DeliveryInv

LEMMA Step == DeliveryInv /\ Next => Advanced
<1> SUFFICES ASSUME DeliveryInv, Next PROVE Advanced
  OBVIOUS
<1>1. CASE \E c \in Copies : Send(c)
  BY <1>1, SurroundStep
<1>2. CASE \E w \in Monitors, c \in Copies : Receive(w, c)
  BY <1>2, ReceiveStep, RepeatReceived
<1>3. CASE \E w \in Monitors, c \in Copies : Refuse(w, c) \/ AttachmentMissing(w, c) \/ Process(w, c) \/ Deliver(w, c)
  BY <1>3, RefuseStep, AttachmentMissingStep, ProcessStep, DeliverStep
<1>4. CASE \E w \in Monitors, c \in Copies : Blocked(w, c) \/ Abandon(w, c) \/ Accept(w, c) \/ Fail(w, c) \/ AcceptUnsaved(w, c)
  BY <1>4, BlockedStep, AbandonStep, AcceptStep, FailStep, AcceptUnsavedStep
<1>5. CASE \E w \in Monitors : StartRun(w) \/ Elect(w) \/ Depose(w)
  BY <1>5, SurroundStep
<1>6. CASE \E w \in Monitors : FinishLate(w) \/ FinishEarly(w) \/ FailLate(w) \/ FailEarly(w)
  BY <1>6, FinishLateStep, FinishEarlyStep, FailLateStep, FailEarlyStep
<1>7. CASE \E w \in Monitors : Activity(w) \/ Crash(w)
  BY <1>7, ActivityStep, CrashStep
<1>8. CASE \E m \in Messages : Lapse(m) \/ \E w \in Monitors : Query(w, m)
  BY <1>8, LapseStep, QueryStep
<1>9. QED
  BY <1>1, <1>2, <1>3, <1>4, <1>5, <1>6, <1>7, <1>8 DEF Next, Handle, RunStep

LEMMA Idle == DeliveryInv /\ UNCHANGED vars => DeliveryInv'
<1> SUFFICES ASSUME DeliveryInv, UNCHANGED vars PROVE DeliveryInv'
  OBVIOUS
<1>1. Shape' /\ faults <= faults'
  <2>1. faults \in 0..MaxFaults /\ MaxFaults \in Nat
    BY DeliveryAssumption DEF DeliveryInv, Shape
  <2>2. QED
    BY <2>1 DEF DeliveryInv, Shape, vars
<1>2. QED
  BY <1>1, StillStep DEF vars, Advanced

LEMMA AlwaysDelivery == Spec => []DeliveryInv
<1>1. DeliveryInv /\ [Next]_vars => DeliveryInv'
  BY Step, Idle DEF Advanced
<1>2. QED
  BY InitDelivery, <1>1, PTL DEF Spec

\* The state of handlers, runs and ledger has its form; a handler inside its
\* three seconds has a run in its monitor's queue.
THEOREM TypeCorrect == Spec => []TypeOK
  BY AlwaysDelivery, InvType, PTL

\* However many copies of a message arrive, at however many monitors that
\* believe they lead, the agent is given it once, runs that fail at once aside,
\* and once more at most for each crash or refused write; two handlers never
\* work on one message (beginDelivery, handleInboundUserMessage).
THEOREM GivenOnce == Spec => []OneRun
<1>1. DeliveryInv => OneRun
  BY DeliveryAssumption DEF DeliveryInv, Shape, Sound, MessageInv, OneHandler, OneRun
<1>2. QED
  BY AlwaysDelivery, <1>1, PTL

\* A phone that reads "accepted" is not misled (sendDeliveryReceipt).
THEOREM AcceptedMeansTaken == Spec => []AcceptedTaken
<1>1. ASSUME NEW m \in Messages, AtWork(m) PROVE Handled(m)
  BY <1>1 DEF AtWork, Handled
<1>2. DeliveryInv => AcceptedTaken
  BY <1>1 DEF DeliveryInv, Sound, MessageInv, AcceptedTaken
<1>3. QED
  BY AlwaysDelivery, <1>2, PTL

\* No step takes back a refusal that the ledger holds (completeDelivery,
\* rejectCompletedDelivery).
THEOREM RefusalFinal == Spec => RefusalKept
<1>1. DeliveryInv /\ [Next]_vars =>
        [\A m \in Messages : ledger[m].rejected /\ cut[m] = 0 =>
           /\ ledger'[m].rejected
           /\ taken'[m] <= taken[m]
           /\ told'[m] = "accepted" => told[m] = "accepted"]_vars
  BY Step DEF Advanced, Firm
<1>2. QED
  BY AlwaysDelivery, <1>1, PTL DEF Spec, RefusalKept
=============================================================================
