------------------------ MODULE ApprovalRegistry_proofs ------------------------
(****************************************************************************)
(* A registration has one outcome, and an answer counts for the action      *)
(* whose card it answers, for any number of waiters, requests and answers,  *)
(* as long as the registry has room for a record of every request id.       *)
(****************************************************************************)
EXTENDS ApprovalRegistry, FiniteSetTheorems, TLAPS

\* No pass drops a registration for want of room (MAX_RECORDS is 300).
Roomy == IsFiniteSet(Ids) /\ Cardinality(Ids) <= MaxRecords

\* Between its registration and its end a waiter holds a registration.
Active(w) == waiter[w].pc \notin {"start", "registering", "done"}
Registered(g) == waiter[g].gen = g
Listed(g) == record[RequestId[g]] = g

\* Somebody waits on the registration g, or is about to settle it.
Engaged(g) == shell = g \/ \E w \in Waiters : Active(w) /\ waiter[w].gen = g
Claiming(g) == shell = g \/ \E w \in Waiters : waiter[w].pc = "claiming" /\ waiter[w].gen = g

\* A waiter holds a registration of its own request, and what it tells and
\* returns of it was linked.
WaiterInv(w) ==
  LET g == waiter[w].gen IN
  /\ waiter[w].pc \in {"start", "registering"} => g = None
  /\ Active(w) => g # None
  /\ waiter[w].pc # "done" => waiter[w].result = "none"
  /\ g # None => Registered(g) /\ RequestId[g] = RequestId[w] /\ Content(g) = Content(w)
  /\ waiter[w].pc \in {"telling", "answer"} => <<g, waiter[w].outcome>> \in granted
  /\ waiter[w].pc = "claiming" => waiter[w].outcome # None /\ waiter[w].then \in {"telling", "answer", "aborted", "ended"}
  /\ waiter[w].result \in {"allow", "deny"} => \E o \in Outcomes : <<g, o>> \in granted /\ waiter[w].result = Answer(o)
  /\ waiter[w].result = "unanswered" => g # None

\* A registration is settled once: its winner goes only when nobody can link
\* another one any more.
GrantInv(g) ==
  /\ writtenAt[g] <= clock
  /\ winner[g] # None => <<g, winner[g]>> \in granted /\ writtenAt[g] <= wonAt[g] /\ wonAt[g] <= clock
  /\ \A o \in Outcomes : <<g, o>> \in granted => winner[g] = o \/ (winner[g] = None /\ ~Listed(g) /\ ~Claiming(g))
  /\ \A o, p \in Outcomes : <<g, o>> \in granted /\ <<g, p>> \in granted => o = p
  /\ \A o \in told[g] : <<g, o>> \in granted
  /\ Claiming(g) /\ winner[g] # None => wonAt[g] = clock
  /\ Listed(g) \/ shell = g \/ (\E o \in Outcomes : <<g, o>> \in granted) \/ (\E p \in Pruners : g \in doomed[p]) => Registered(g)
  /\ Listed(g) /\ Engaged(g) => Recent(g)
  /\ \A p \in Pruners : g \in doomed[p] => ~Recent(g) /\ ~Engaged(g)

\* The parts that need registrations of one id not to overlap.  A waiter's
\* registration stays on disk, it registers alone, and what a pass is about to
\* unlink is still what it listed.
HeldInv ==
  /\ \A w \in Waiters : Active(w) => Listed(waiter[w].gen)
  /\ \A v, w \in Waiters : waiter[v].pc = "registering" /\ w # v /\ RequestId[w] = RequestId[v] => waiter[w].pc \in {"start", "done"}
  /\ \A p \in Pruners : \A g \in doomed[p] : record[RequestId[g]] \in {g, None}

\* A registration gives way when it is forgotten, and no sooner.
Over(g) == clock > writtenAt[g] + Retention
Apart(v, w) == writtenAt[v] > writtenAt[w] + Retention \/ writtenAt[w] > writtenAt[v] + Retention
ApartInv ==
  /\ \A g \in Waiters : Registered(g) /\ ~Listed(g) => Over(g)
  /\ \A w \in Waiters : waiter[w].pc = "registering" => record[RequestId[w]] = None \/ ~Recent(record[RequestId[w]])
  /\ \A v, w \in Waiters : Registered(v) /\ Registered(w) /\ RequestId[v] = RequestId[w] => v = w \/ Apart(v, w)

\* A card is of a registration that lasts as long as the card says.
Of(c, h) == Registered(h) /\ RequestId[h] = c.id /\ Content(h) = c.content
Lasting(c, h) == IF Listed(h) THEN c.until <= EffectiveAt(h) + Retention ELSE clock > c.until
CardInv ==
  /\ \A c \in shown : \E h \in Waiters : Of(c, h) /\ Lasting(c, h)
  /\ \A c, d \in shown : c.id = d.id /\ c.content # d.content => c.at > d.until \/ d.at > c.until

\* Silence is an expiry, and an allowance is somebody's answer.
Answered(g) ==
  \E a \in answers : /\ a.answer = "allow" /\ a.card.id = RequestId[g]
                     /\ (a.card.content = Content(g) \/ Outlives(a.card))
Allowing(g) == \E w \in Waiters : waiter[w].pc = "claiming" /\ waiter[w].gen = g /\ waiter[w].outcome = "allow"
AnswerInv ==
  /\ \A w \in Waiters : waiter[w].result = "unanswered" => <<waiter[w].gen, "expired">> \in granted
  /\ \A g \in Waiters : <<g, "allow">> \in granted \/ Allowing(g) => Answered(g)

ClearInv == HeldInv /\ ApartInv /\ CardInv /\ AnswerInv

RegistryInv ==
  /\ TypeOK
  /\ \A id \in Ids : record[id] # None => RequestId[record[id]] = id
  /\ \A a \in answers : a.card \in shown
  /\ \A w \in Waiters : WaiterInv(w)
  /\ \A g \in Waiters : GrantInv(g)
  /\ ~clashed => ClearInv
-----------------------------------------------------------------------------
Waits == [content : Contents, pc : Pcs, gen : Waiters \cup {None}, outcome : Outcomes \cup {None},
          then : Pcs, result : Results]
Replies == [card : Cards, answer : {"allow", "deny"}]

LEMMA Types ==
  TypeOK <=>
    /\ clock \in 0..MaxTime
    /\ record \in [Ids -> Waiters \cup {None}] /\ writtenAt \in [Waiters -> 0..MaxTime]
    /\ winner \in [Waiters -> Outcomes \cup {None}] /\ wonAt \in [Waiters -> 0..MaxTime]
    /\ waiter \in [Waiters -> Waits]
    /\ doomed \in [Pruners -> SUBSET Waiters]
    /\ shell \in Waiters \cup {None}
    /\ shown \subseteq Cards /\ answers \subseteq Replies
    /\ told \in [Waiters -> SUBSET Outcomes]
    /\ granted \subseteq Waiters \X Outcomes /\ clashed \in BOOLEAN
  BY DEF TypeOK, Waits, Replies

LEMMA Constants ==
  /\ PendingAge \in Nat /\ Retention \in Nat /\ MaxRecords \in Nat /\ AnswerAge \in Nat /\ MaxTime \in Nat
  /\ PendingAge <= Retention /\ None \notin Waiters /\ None \notin Outcomes
  /\ \A w \in Waiters : RequestId[w] \in Ids
  BY ApprovalAssumption DEF Ids

LEMMA Times ==
  ASSUME TypeOK, NEW g \in Waiters
  PROVE  /\ clock \in Nat /\ clock <= MaxTime /\ writtenAt[g] \in Nat /\ wonAt[g] \in Nat /\ EffectiveAt(g) \in Nat
         /\ Recent(g) <=> clock <= EffectiveAt(g) + Retention
         /\ winner[g] \in Outcomes \cup {None}
<1>1. /\ clock \in Nat /\ clock <= MaxTime /\ writtenAt[g] \in Nat /\ wonAt[g] \in Nat /\ MaxTime \in Nat /\ Retention \in Nat
      /\ winner[g] \in Outcomes \cup {None}
  BY Constants, Types
<1>2. EffectiveAt(g) \in Nat
  BY <1>1 DEF EffectiveAt
<1>3. QED
  BY <1>1, <1>2 DEF Recent

LEMMA WaiterAt ==
  ASSUME TypeOK, NEW w \in Waiters, NEW x \in Waits, waiter' = [waiter EXCEPT ![w] = x]
  PROVE  /\ waiter' \in [Waiters -> Waits] /\ waiter'[w] = x
         /\ \A v \in Waiters : v # w => waiter'[v] = waiter[v]
  BY Types

\* An active waiter and its registration.
LEMMA WaiterFacts ==
  ASSUME RegistryInv, NEW w \in Waiters
  PROVE  /\ TypeOK /\ waiter[w] \in Waits /\ WaiterInv(w)
         /\ Active(w) => /\ waiter[w].gen \in Waiters /\ GrantInv(waiter[w].gen) /\ Engaged(waiter[w].gen)
                         /\ RequestId[waiter[w].gen] = RequestId[w] /\ Content(waiter[w].gen) = Content(w)
                         /\ Current(w) <=> Listed(waiter[w].gen)
         /\ waiter[w].pc \in {"telling", "answer"} => waiter[w].gen \in Waiters /\ waiter[w].outcome \in Outcomes
         /\ waiter[w].pc = "claiming" => waiter[w].outcome \in Outcomes
<1>1. TypeOK /\ waiter[w] \in Waits /\ WaiterInv(w)
  BY Types DEF RegistryInv
<1>2. waiter[w].gen \in Waiters \cup {None} /\ waiter[w].outcome \in Outcomes \cup {None}
  BY <1>1 DEF Waits
<1>3. ASSUME Active(w)
      PROVE  /\ waiter[w].gen \in Waiters /\ GrantInv(waiter[w].gen) /\ Engaged(waiter[w].gen)
             /\ RequestId[waiter[w].gen] = RequestId[w] /\ Content(waiter[w].gen) = Content(w)
             /\ Current(w) <=> Listed(waiter[w].gen)
  <2>1. waiter[w].gen \in Waiters
    BY <1>1, <1>2, <1>3 DEF WaiterInv
  <2>2. RequestId[waiter[w].gen] = RequestId[w] /\ Content(waiter[w].gen) = Content(w)
    BY <1>1, <2>1, Constants DEF WaiterInv
  <2>3. GrantInv(waiter[w].gen)
    BY <2>1 DEF RegistryInv
  <2>4. QED
    BY <1>3, <2>1, <2>2, <2>3, Constants DEF Engaged, Current, Listed
<1>4. waiter[w].pc \in {"telling", "answer"} => <<waiter[w].gen, waiter[w].outcome>> \in Waiters \X Outcomes
  BY <1>1, Types DEF WaiterInv
<1>5. QED
  BY <1>1, <1>2, <1>3, <1>4 DEF WaiterInv
-----------------------------------------------------------------------------
\* With room for every id a pass gives up what is no longer recent, nothing else.
LEMMA RoomEnough ==
  ASSUME Roomy, NEW r \in [Ids -> Waiters \cup {None}], NEW S, \A s \in S : \E id \in Ids : r[id] = s,
         NEW R \in SUBSET S, NEW D \in SUBSET S, S \ D \subseteq R,
         R # S \ D => Cardinality(S \ D) = MaxRecords
  PROVE  R = S \ D
<1>1. PICK T : T = {r[id] : id \in Ids}
  OBVIOUS
<1>2. r \in Surjection(Ids, T)
  BY <1>1 DEF Surjection
<1>3. IsFiniteSet(T) /\ Cardinality(T) <= Cardinality(Ids)
  BY <1>2, FS_Surjection DEF Roomy
<1>4. IsFiniteSet(S) /\ Cardinality(S) <= Cardinality(T)
  <2>1. S \in SUBSET T
    BY <1>1
  <2>2. QED
    BY <2>1, <1>3, FS_Subset
<1>5. IsFiniteSet(R) /\ Cardinality(R) <= Cardinality(S)
  BY <1>4, FS_Subset
<1>6. S \ D \in SUBSET R
  OBVIOUS
<1>7. /\ Cardinality(S \ D) <= Cardinality(R)
      /\ Cardinality(R) = Cardinality(S \ D) => R = S \ D
  BY <1>5, <1>6, FS_Subset
<1>8. IsFiniteSet(S \ D)
  BY <1>5, <1>6, FS_Subset
<1>9. /\ Cardinality(S \ D) \in Nat /\ Cardinality(R) \in Nat /\ Cardinality(S) \in Nat
      /\ Cardinality(T) \in Nat /\ Cardinality(Ids) \in Nat /\ MaxRecords \in Nat
  BY <1>3, <1>4, <1>5, <1>8, FS_CardinalityType, Constants DEF Roomy
<1>10. QED
  BY <1>3, <1>4, <1>5, <1>7, <1>9 DEF Roomy
-----------------------------------------------------------------------------
\* What a step of one waiter that keeps its registration must respect.
LEMMA LocalSound ==
  ASSUME RegistryInv, TypeOK', NEW w \in Waiters, NEW x \in Waits,
         waiter' = [waiter EXCEPT ![w] = x],
         UNCHANGED <<clock, disk, shell, answers, granted>>,
         clashed => clashed',
         shown \subseteq shown', ~clashed' => CardInv',
         \A p \in Pruners : doomed'[p] \subseteq doomed[p],
         \A g \in Waiters : \A o \in told'[g] : <<g, o>> \in granted,
         x.gen = waiter[w].gen, x.content = waiter[w].content,
         x.pc \notin {"start", "registering"},
         x.pc = "done" \/ (Active(w) /\ x.result = "none"),
         x.pc \in {"telling", "answer"} => <<x.gen, x.outcome>> \in granted,
         x.pc = "claiming" => /\ x.outcome # None /\ x.then \in {"telling", "answer", "aborted", "ended"}
                              /\ winner[x.gen] = None /\ Listed(x.gen),
         x.result \in {"allow", "deny"} => \E o \in Outcomes : <<x.gen, o>> \in granted /\ x.result = Answer(o),
         x.result = "unanswered" => x.gen # None,
         ~clashed => /\ x.result = "unanswered" => <<x.gen, "expired">> \in granted
                     /\ x.pc = "claiming" /\ x.outcome = "allow" => Answered(x.gen)
  PROVE  RegistryInv'
<1>1. /\ clock' = clock /\ record' = record /\ writtenAt' = writtenAt /\ winner' = winner /\ wonAt' = wonAt
      /\ shell' = shell /\ answers' = answers /\ granted' = granted
  BY DEF disk
<1>2. /\ waiter' \in [Waiters -> Waits] /\ waiter'[w] = x
      /\ \A v \in Waiters : v # w => waiter'[v] = waiter[v]
  BY WaiterAt DEF RegistryInv
<1>3. \A v \in Waiters : waiter'[v].gen = waiter[v].gen /\ waiter'[v].content = waiter[v].content
  BY <1>2
<1>4. \A g \in Waiters : /\ Registered(g)' <=> Registered(g)
                         /\ Listed(g)' <=> Listed(g)
                         /\ Content(g)' = Content(g) /\ EffectiveAt(g)' = EffectiveAt(g)
                         /\ Recent(g)' <=> Recent(g)
  BY <1>1, <1>3 DEF Registered, Listed, Content, EffectiveAt, Recent
<1>5. \A v \in Waiters : Active(v)' => Active(v)
  BY <1>2 DEF Active
<1>6. \A g \in Waiters : Engaged(g)' => Engaged(g)
  BY <1>1, <1>3, <1>5 DEF Engaged
<1>7. \A g \in Waiters : Claiming(g)' => Claiming(g) \/ (winner[g] = None /\ Listed(g))
  BY <1>1, <1>2 DEF Claiming
<1>8. \A v \in Waiters : WaiterInv(v)'
  <2>1. ASSUME NEW v \in Waiters, v # w
        PROVE  WaiterInv(v)'
    <3>1. WaiterInv(v) /\ waiter'[v] = waiter[v] /\ waiter[v] \in Waits
      BY <1>2, <2>1, Types DEF RegistryInv
    <3>2. waiter[v].gen # None => waiter[v].gen \in Waiters
      BY <3>1 DEF Waits
    <3>3. QED
      BY <1>1, <1>4, <3>1, <3>2, <2>1 DEF WaiterInv, Active
  <2>2. WaiterInv(w)'
    <3>1. WaiterInv(w) /\ waiter[w] \in Waits
      BY Types DEF RegistryInv
    <3>2. waiter[w].gen # None => waiter[w].gen \in Waiters
      BY <3>1 DEF Waits
    <3>3. Active(w)' => x.gen # None /\ x.result = "none"
      BY <1>2, <3>1 DEF Active, WaiterInv
    <3>4. x.gen # None => Registered(x.gen)' /\ RequestId[x.gen] = RequestId[w] /\ Content(x.gen)' = Content(w)'
      BY <1>4, <3>1, <3>2 DEF WaiterInv
    <3>5. QED
      BY <1>1, <1>2, <3>3, <3>4 DEF WaiterInv
  <2>3. QED
    BY <2>1, <2>2
<1>9. \A g \in Waiters : GrantInv(g)'
  <2> SUFFICES ASSUME NEW g \in Waiters PROVE GrantInv(g)'
    OBVIOUS
  <2>1. GrantInv(g)
    BY DEF RegistryInv
  <2>2. Claiming(g)' /\ winner[g] # None => Claiming(g)
    BY <1>7
  <2>3. \A o \in Outcomes : <<g, o>> \in granted => winner[g] = o \/ (winner[g] = None /\ ~Listed(g) /\ ~Claiming(g)')
    BY <2>1, <1>7 DEF GrantInv
  <2>4. \A p \in Pruners : g \in doomed'[p] => g \in doomed[p]
    OBVIOUS
  <2>5. /\ \A p \in Pruners : g \in doomed'[p] => ~Recent(g)' /\ ~Engaged(g)'
        /\ Listed(g)' /\ Engaged(g)' => Recent(g)'
    BY <2>1, <2>4, <1>4, <1>6 DEF GrantInv
  <2>6. Listed(g)' \/ shell' = g \/ (\E o \in Outcomes : <<g, o>> \in granted') \/ (\E p \in Pruners : g \in doomed'[p]) => Registered(g)'
    BY <2>1, <2>4, <1>1, <1>4 DEF GrantInv
  <2>7. QED
    BY <2>1, <2>2, <2>3, <2>5, <2>6, <1>1, <1>4 DEF GrantInv
<1>10. ASSUME ~clashed'
       PROVE  ClearInv'
  <2>1. ClearInv /\ ~clashed /\ CardInv'
    BY <1>10 DEF RegistryInv
  <2>2. \A p \in Pruners : \A g \in doomed'[p] : g \in doomed[p] /\ g \in Waiters
    BY Types DEF RegistryInv
  <2>3. HeldInv'
    <3>1. \A v \in Waiters : Active(v)' => Listed(waiter[v].gen)'
      BY <2>1, <1>1, <1>5 DEF ClearInv, HeldInv, Listed
    <3>2. \A v \in Waiters : waiter'[v].pc = "registering" => v # w /\ waiter[v].pc = "registering"
      BY <1>2
    <3>3. ASSUME NEW v \in Waiters, NEW u \in Waiters, waiter'[v].pc = "registering", u # v, RequestId[u] = RequestId[v]
          PROVE  waiter'[u].pc \in {"start", "done"}
      <4>1. waiter[u].pc \in {"start", "done"}
        BY <3>2, <3>3, <2>1 DEF ClearInv, HeldInv
      <4>2. QED
        BY <4>1, <1>2 DEF Active
    <3>4. \A p \in Pruners : \A g \in doomed'[p] : record'[RequestId[g]] \in {g, None}
      BY <2>1, <2>2, <1>1 DEF ClearInv, HeldInv
    <3>5. QED
      BY <3>1, <3>3, <3>4, <1>3 DEF HeldInv
  <2>4. ApartInv'
    <3>1. \A v \in Waiters : waiter'[v].pc = "registering" => waiter[v].pc = "registering"
      BY <1>2
    <3>2. \A v \in Waiters : record[RequestId[v]] # None => (Recent(record[RequestId[v]])' <=> Recent(record[RequestId[v]]))
      BY <1>1, <1>4, Types, Constants DEF RegistryInv
    <3>3. QED
      BY <2>1, <3>1, <3>2, <1>1, <1>4 DEF ClearInv, ApartInv, Over, Apart
  <2>5. AnswerInv'
    <3>1. \A v \in Waiters : waiter'[v].result = "unanswered" => <<waiter'[v].gen, "expired">> \in granted
      BY <2>1, <1>2 DEF ClearInv, AnswerInv
    <3>2. \A g \in Waiters : Answered(g)' <=> Answered(g)
      BY <1>1, <1>4 DEF Answered, Outlives
    <3>3. ASSUME NEW g \in Waiters, Allowing(g)'
          PROVE  Answered(g)
      <4>1. PICK v \in Waiters : waiter'[v].pc = "claiming" /\ waiter'[v].gen = g /\ waiter'[v].outcome = "allow"
        BY <3>3 DEF Allowing
      <4>2. CASE v = w
        BY <4>1, <4>2, <1>2, <2>1
      <4>3. CASE v # w
        BY <4>1, <4>3, <1>2, <2>1 DEF ClearInv, AnswerInv, Allowing
      <4>4. QED
        BY <4>2, <4>3
    <3>4. QED
      BY <2>1, <3>1, <3>2, <3>3, <1>1 DEF ClearInv, AnswerInv
  <2>6. QED
    BY <2>1, <2>3, <2>4, <2>5 DEF ClearInv
<1>11. QED
  BY <1>1, <1>8, <1>9, <1>10 DEF RegistryInv
-----------------------------------------------------------------------------
\* Cards do not change with what their waiters do next.
LEMMA CardsKept ==
  ASSUME RegistryInv, CardInv,
         UNCHANGED <<clock, record, writtenAt, winner, wonAt, shown>>,
         \A v \in Waiters : (Registered(v)' <=> Registered(v)) /\ waiter'[v].content = waiter[v].content
  PROVE  CardInv'
<1>1. \A h \in Waiters : /\ Registered(h)' <=> Registered(h)
                         /\ Listed(h)' <=> Listed(h)
                         /\ Content(h)' = Content(h) /\ EffectiveAt(h)' = EffectiveAt(h)
  BY DEF Listed, Content, EffectiveAt
<1>2. \A c \in shown : \A h \in Waiters : Of(c, h) /\ Lasting(c, h) => Of(c, h)' /\ Lasting(c, h)'
  BY <1>1 DEF Of, Lasting
<1>3. QED
  BY <1>2 DEF CardInv

\* Such a step when no card is shown, what is on disk stays, and the phone hears
\* nothing but what was linked.
LEMMA LocalStep ==
  ASSUME RegistryInv, NEW w \in Waiters, NEW x \in Waits,
         waiter' = [waiter EXCEPT ![w] = x],
         UNCHANGED <<clock, disk, shell, shown, answers, granted>>,
         clashed' \in BOOLEAN, clashed => clashed',
         doomed' = doomed \/ doomed' = [doomed EXCEPT ![w] = {}],
         told' = told \/ (waiter[w].pc \in {"telling", "answer"} /\ told' = [told EXCEPT ![waiter[w].gen] = @ \cup {waiter[w].outcome}]),
         x.gen = waiter[w].gen, x.content = waiter[w].content,
         x.pc \notin {"start", "registering"},
         x.pc = "done" \/ (Active(w) /\ x.result = "none"),
         x.pc \in {"telling", "answer"} => <<x.gen, x.outcome>> \in granted,
         x.pc = "claiming" => /\ x.outcome # None /\ x.then \in {"telling", "answer", "aborted", "ended"}
                              /\ winner[x.gen] = None /\ Listed(x.gen),
         x.result \in {"allow", "deny"} => \E o \in Outcomes : <<x.gen, o>> \in granted /\ x.result = Answer(o),
         x.result = "unanswered" => x.gen # None,
         ~clashed => /\ x.result = "unanswered" => <<x.gen, "expired">> \in granted
                     /\ x.pc = "claiming" /\ x.outcome = "allow" => Answered(x.gen)
  PROVE  RegistryInv'
<1>1. /\ clock' = clock /\ record' = record /\ writtenAt' = writtenAt /\ winner' = winner /\ wonAt' = wonAt
      /\ shell' = shell /\ answers' = answers /\ granted' = granted /\ shown' = shown
  BY DEF disk
<1>2. /\ waiter' \in [Waiters -> Waits] /\ waiter'[w] = x
      /\ \A v \in Waiters : v # w => waiter'[v] = waiter[v]
  BY WaiterAt DEF RegistryInv
<1>3. doomed' \in [Pruners -> SUBSET Waiters] /\ \A p \in Pruners : doomed'[p] \subseteq doomed[p]
  BY Types DEF RegistryInv, Pruners
<1>4. told' \in [Waiters -> SUBSET Outcomes] /\ \A g \in Waiters : \A o \in told'[g] : <<g, o>> \in granted
  <2>1. told \in [Waiters -> SUBSET Outcomes] /\ \A g \in Waiters : \A o \in told[g] : <<g, o>> \in granted
    BY Types DEF RegistryInv, GrantInv
  <2>2. CASE told' = told
    BY <2>1, <2>2
  <2>3. CASE waiter[w].pc \in {"telling", "answer"} /\ told' = [told EXCEPT ![waiter[w].gen] = @ \cup {waiter[w].outcome}]
    <3>1. waiter[w].gen \in Waiters /\ waiter[w].outcome \in Outcomes /\ <<waiter[w].gen, waiter[w].outcome>> \in granted
      BY <2>3, WaiterFacts DEF WaiterInv
    <3>2. QED
      BY <2>1, <2>3, <3>1
  <2>4. QED
    BY <2>2, <2>3
<1>5. TypeOK'
  BY <1>1, <1>2, <1>3, <1>4, Types DEF RegistryInv, TypeOK, Waits
<1>6. ~clashed' => CardInv'
  <2>1. ~clashed' => CardInv
    BY DEF RegistryInv, ClearInv
  <2>2. \A v \in Waiters : (Registered(v)' <=> Registered(v)) /\ waiter'[v].content = waiter[v].content
    BY <1>2 DEF Registered
  <2>3. QED
    BY <1>1, <2>1, <2>2, CardsKept
<1>7. QED
  BY <1>3, <1>4, <1>5, <1>6, LocalSound

\* What recordWinner() and the link begin with: the outcome on record, or a contender.
LEMMA ReadStep ==
  ASSUME RegistryInv, NEW w \in Waiters, Active(w), Current(w),
         NEW outcome \in Outcomes, NEW then \in {"telling", "answer", "aborted", "ended"},
         Read(w, outcome, then),
         ~clashed /\ outcome = "allow" => Answered(waiter[w].gen),
         UNCHANGED <<clock, disk, doomed, shell, phone, history>>
  PROVE  RegistryInv'
<1>0. /\ UNCHANGED <<clock, disk, shell, shown, answers, granted>> /\ clashed' = clashed /\ doomed' = doomed /\ told' = told
      /\ clashed \in BOOLEAN
  BY Types DEF phone, history, RegistryInv
<1>1. waiter[w] \in Waits /\ waiter[w].gen \in Waiters /\ waiter[w].result = "none" /\ Listed(waiter[w].gen)
      /\ waiter \in [Waiters -> Waits] /\ GrantInv(waiter[w].gen) /\ winner[waiter[w].gen] \in Outcomes \cup {None}
  BY WaiterFacts, Types DEF WaiterInv, Active
<1>2. CASE winner[waiter[w].gen] # None
  <2>1. PICK x : x = [waiter[w] EXCEPT !.pc = then, !.outcome = winner[waiter[w].gen]]
    OBVIOUS
  <2>2. waiter' = [waiter EXCEPT ![w] = x]
    BY <1>2, <2>1 DEF Read
  <2>3. /\ x \in Waits /\ x.gen = waiter[w].gen /\ x.content = waiter[w].content /\ x.pc = then
        /\ x.outcome = winner[waiter[w].gen] /\ x.result = "none"
    BY <1>1, <1>2, <2>1 DEF Waits, Pcs
  <2>4. <<x.gen, x.outcome>> \in granted
    BY <1>1, <1>2, <2>3 DEF GrantInv
  <2>5. QED
    BY <1>0, <2>2, <2>3, <2>4, LocalStep
<1>3. CASE winner[waiter[w].gen] = None
  <2>1. PICK x : x = [waiter[w] EXCEPT !.pc = "claiming", !.outcome = outcome, !.then = then]
    OBVIOUS
  <2>2. waiter' = [waiter EXCEPT ![w] = x]
    BY <1>3, <2>1 DEF Read
  <2>3. /\ x \in Waits /\ x.gen = waiter[w].gen /\ x.content = waiter[w].content /\ x.pc = "claiming"
        /\ x.outcome = outcome /\ x.then = then /\ x.result = "none"
    BY <1>1, <2>1 DEF Waits, Pcs
  <2>4. x.outcome # None
    BY <2>3, Constants
  <2>5. QED
    BY <1>0, <1>1, <1>3, <2>2, <2>3, <2>4, LocalStep
<1>4. QED
  BY <1>2, <1>3

LEMMA Answers ==
  ASSUME NEW o \in Outcomes
  PROVE  /\ Answer(o) \in {"allow", "deny", "unanswered"}
         /\ Answer(o) = "unanswered" => o = "expired"
  BY DEF Answer, Outcomes

\* The wait is over.
LEMMA FinishStep ==
  ASSUME RegistryInv, NEW w \in Waiters, Active(w), NEW r \in Results, Finish(w, r),
         UNCHANGED <<clock, disk, doomed, shell, shown, answers, history>>,
         told' = told \/ (waiter[w].pc \in {"telling", "answer"} /\ told' = [told EXCEPT ![waiter[w].gen] = @ \cup {waiter[w].outcome}]),
         r \in {"allow", "deny"} => \E o \in Outcomes : <<waiter[w].gen, o>> \in granted /\ r = Answer(o),
         ~clashed /\ r = "unanswered" => <<waiter[w].gen, "expired">> \in granted
  PROVE  RegistryInv'
<1>1. /\ UNCHANGED <<clock, disk, shell, shown, answers, granted>> /\ clashed' = clashed /\ doomed' = doomed
      /\ clashed \in BOOLEAN
  BY Types DEF history, RegistryInv
<1>2. waiter[w] \in Waits /\ waiter[w].gen # None /\ waiter \in [Waiters -> Waits]
  BY WaiterFacts, Types DEF WaiterInv
<1>3. PICK x : x = [waiter[w] EXCEPT !.pc = "done", !.result = r]
  OBVIOUS
<1>4. waiter' = [waiter EXCEPT ![w] = x]
  BY <1>2, <1>3 DEF Finish
<1>5. x \in Waits /\ x.gen = waiter[w].gen /\ x.content = waiter[w].content /\ x.pc = "done" /\ x.result = r
  BY <1>2, <1>3 DEF Waits, Pcs
<1>6. QED
  BY <1>1, <1>2, <1>4, <1>5, LocalStep

\* The waiter goes on, with what it knows, to a place where it holds no outcome.
LEMMA MoveStep ==
  ASSUME RegistryInv, NEW w \in Waiters, Active(w),
         NEW pc \in {"connect", "waiting", "ended", "aborted"},
         waiter' = [waiter EXCEPT ![w].pc = pc],
         UNCHANGED <<clock, disk, doomed, shell, shown, answers, history>>,
         told' = told \/ (waiter[w].pc \in {"telling", "answer"} /\ told' = [told EXCEPT ![waiter[w].gen] = @ \cup {waiter[w].outcome}])
  PROVE  RegistryInv'
<1>1. /\ UNCHANGED <<clock, disk, shell, shown, answers, granted>> /\ clashed' = clashed /\ doomed' = doomed
      /\ clashed \in BOOLEAN
  BY Types DEF history, RegistryInv
<1>2. waiter[w] \in Waits /\ waiter[w].result = "none" /\ waiter \in [Waiters -> Waits]
  BY WaiterFacts, Types DEF WaiterInv, Active
<1>3. PICK x : x = [waiter[w] EXCEPT !.pc = pc]
  OBVIOUS
<1>4. waiter' = [waiter EXCEPT ![w] = x]
  BY <1>2, <1>3
<1>5. x \in Waits /\ x.gen = waiter[w].gen /\ x.content = waiter[w].content /\ x.pc = pc /\ x.result = "none"
  BY <1>2, <1>3 DEF Waits, Pcs
<1>6. QED
  BY <1>1, <1>2, <1>4, <1>5, LocalStep
-----------------------------------------------------------------------------
\* The answer to another action's card comes after that card's registration.
LEMMA MessageStep ==
  ASSUME RegistryInv, NEW w \in Waiters, NEW a \in answers, Message(w, a)
  PROVE  RegistryInv'
<1> USE DEF Message
<1>1. Active(w) /\ Current(w)
  BY DEF Active
<1>2. waiter[w].gen \in Waiters /\ Listed(waiter[w].gen) /\ RequestId[waiter[w].gen] = RequestId[w]
  BY <1>1, WaiterFacts
<1>3. a \in Replies /\ a.card \in Cards /\ a.card \in shown /\ a.answer \in {"allow", "deny"}
      /\ clock \in Nat /\ AnswerAge \in Nat
  <2>1. a \in Replies /\ a.card \in shown /\ clock \in Nat
    BY Types, Constants DEF RegistryInv
  <2>2. QED
    BY <2>1, Constants DEF Replies
<1>4. PICK o : o = Contender(waiter[w].gen, a.answer)
  OBVIOUS
<1>5. o \in Outcomes /\ (o = "allow" => a.answer = "allow")
  BY <1>3, <1>4 DEF Contender, Outcomes
<1>6. ASSUME ~clashed, o = "allow"
      PROVE  Answered(waiter[w].gen)
  <2>1. PICK h \in Waiters : Of(a.card, h) /\ Lasting(a.card, h)
    BY <1>3, <1>6 DEF RegistryInv, ClearInv, CardInv
  <2>2. CASE h = waiter[w].gen
    BY <1>2, <1>5, <1>6, <2>1, <2>2 DEF Answered, Of
  <2>3. CASE h # waiter[w].gen
    <3>1. ~Listed(h)
      BY <1>2, <2>1, <2>3 DEF Listed, Of
    <3>2. clock > a.card.until /\ clock - a.card.at <= AnswerAge
      BY <3>1, <2>1 DEF Lasting
    <3>3. a.card.at \in Nat /\ a.card.until \in Nat
      BY <1>3, Constants DEF Cards
    <3>4. Outlives(a.card)
      BY <1>3, <3>2, <3>3 DEF Outlives
    <3>5. QED
      BY <1>2, <1>5, <1>6, <3>4 DEF Answered
  <2>4. QED
    BY <2>2, <2>3
<1>7. Read(w, o, "telling")
  BY <1>4
<1>8. QED
  BY <1>1, <1>5, <1>6, <1>7, ReadStep

LEMMA EndStep ==
  ASSUME RegistryInv, NEW w \in Waiters, End(w)
  PROVE  RegistryInv'
<1> USE DEF End
<1>1. Active(w)
  BY DEF Active
<1>2. CASE Current(w)
  BY <1>1, <1>2, ReadStep DEF Outcomes
<1>3. CASE ~Current(w)
  <2>1. clashed
    BY <1>1, <1>3, WaiterFacts DEF RegistryInv, ClearInv, HeldInv
  <2>2. UNCHANGED <<clock, disk, doomed, shell, shown, answers, history>> /\ told' = told
    BY DEF phone
  <2>3. Finish(w, "unanswered")
    BY <1>3
  <2>4. QED
    BY <1>1, <2>1, <2>2, <2>3, FinishStep DEF Results
<1>4. QED
  BY <1>2, <1>3

LEMMA AbortStep ==
  ASSUME RegistryInv, NEW w \in Waiters, Abort(w)
  PROVE  RegistryInv'
<1> USE DEF Abort
<1>1. Active(w)
  BY DEF Active
<1>2. PICK then : then = IF waiter[w].pc = "connect" THEN "aborted" ELSE "ended"
  OBVIOUS
<1>3. then \in {"aborted", "ended"}
  BY <1>2
<1>4. CASE Current(w)
  <2>1. Read(w, "cancelled", then)
    BY <1>2, <1>4
  <2>2. QED
    BY <1>1, <1>3, <1>4, <2>1, ReadStep DEF Outcomes
<1>5. CASE ~Current(w)
  <2>1. UNCHANGED <<clock, disk, doomed, shell, shown, answers, history>> /\ told' = told
    BY DEF phone
  <2>2. waiter' = [waiter EXCEPT ![w].pc = then]
    BY <1>2, <1>5
  <2>3. QED
    BY <1>1, <1>3, <2>1, <2>2, MoveStep
<1>6. QED
  BY <1>4, <1>5

LEMMA TellStep ==
  ASSUME RegistryInv, NEW w \in Waiters, Tell(w) \/ Return(w)
  PROVE  RegistryInv'
<1>1. Active(w) /\ waiter[w].pc \in {"telling", "answer"}
  BY DEF Tell, Return, Active
<1>2. PICK r : r = Answer(waiter[w].outcome)
  OBVIOUS
<1>3. Finish(w, r)
  BY <1>2 DEF Tell, Return
<1>4. /\ UNCHANGED <<clock, disk, doomed, shell, shown, answers, history>>
      /\ told' = told \/ told' = [told EXCEPT ![waiter[w].gen] = @ \cup {waiter[w].outcome}]
  BY DEF Tell, Return
<1>5. waiter[w].outcome \in Outcomes /\ <<waiter[w].gen, waiter[w].outcome>> \in granted
  BY <1>1, WaiterFacts DEF WaiterInv
<1>6. r \in Results /\ (r = "unanswered" => waiter[w].outcome = "expired")
  BY <1>2, <1>5, Answers DEF Results
<1>7. r = "unanswered" => <<waiter[w].gen, "expired">> \in granted
  BY <1>5, <1>6
<1>8. QED
  BY <1>1, <1>2, <1>3, <1>4, <1>5, <1>6, <1>7, FinishStep

LEMMA PollStep ==
  ASSUME RegistryInv, NEW w \in Waiters, Poll(w)
  PROVE  RegistryInv'
<1> USE DEF Poll
<1>1. Active(w)
  BY DEF Active
<1>2. PICK o : o = winner[waiter[w].gen]
  OBVIOUS
<1>3. o \in Outcomes /\ <<waiter[w].gen, o>> \in granted
  BY <1>1, <1>2, WaiterFacts, Types DEF GrantInv
<1>4. PICK r : r = Answer(o)
  OBVIOUS
<1>5. r \in Results /\ (r = "unanswered" => o = "expired")
  BY <1>3, <1>4, Answers DEF Results
<1>6. Finish(w, r) /\ UNCHANGED <<clock, disk, doomed, shell, shown, answers, history>> /\ told' = told
  BY <1>2, <1>4 DEF phone
<1>7. QED
  BY <1>1, <1>3, <1>4, <1>5, <1>6, FinishStep

LEMMA TimeoutStep ==
  ASSUME RegistryInv, NEW w \in Waiters, Timeout(w)
  PROVE  RegistryInv'
  BY MoveStep DEF Timeout, Active

LEMMA AbortedStep ==
  ASSUME RegistryInv, NEW w \in Waiters, Aborted(w)
  PROVE  RegistryInv'
<1>1. Active(w) /\ Finish(w, "refused") /\ UNCHANGED <<clock, disk, doomed, shell, shown, answers, history>> /\ told' = told
  BY DEF Aborted, Active, phone
<1>2. QED
  BY <1>1, FinishStep DEF Results

LEMMA CrashStep ==
  ASSUME RegistryInv, NEW w \in Waiters, Crash(w)
  PROVE  RegistryInv'
<1>1. waiter[w] \in Waits /\ WaiterInv(w) /\ waiter \in [Waiters -> Waits] /\ clashed \in BOOLEAN
  BY WaiterFacts, Types
<1>2. PICK x : x = [waiter[w] EXCEPT !.pc = "done"]
  OBVIOUS
<1>3. /\ waiter' = [waiter EXCEPT ![w] = x] /\ doomed' = [doomed EXCEPT ![w] = {}] /\ told' = told
      /\ UNCHANGED <<clock, disk, shell, shown, answers, granted>> /\ clashed' = clashed
  BY <1>1, <1>2 DEF Crash, phone, history
<1>4. x \in Waits /\ x.gen = waiter[w].gen /\ x.content = waiter[w].content /\ x.pc = "done" /\ x.result = waiter[w].result
  BY <1>1, <1>2 DEF Waits, Pcs
<1>5. ~clashed /\ x.result = "unanswered" => <<x.gen, "expired">> \in granted
  BY <1>4 DEF RegistryInv, ClearInv, AnswerInv
<1>6. /\ x.result \in {"allow", "deny"} => \E o \in Outcomes : <<x.gen, o>> \in granted /\ x.result = Answer(o)
      /\ x.result = "unanswered" => x.gen # None
  BY <1>1, <1>4 DEF WaiterInv
<1>7. QED
  BY <1>1, <1>3, <1>4, <1>5, <1>6, LocalStep
-----------------------------------------------------------------------------
\* A card of a waiter's registration; an older card of another action is of a
\* registration forgotten by now.
LEMMA SendStep ==
  ASSUME RegistryInv, NEW w \in Waiters, Send(w)
  PROVE  RegistryInv'
<1>1. Active(w) /\ waiter[w].pc = "connect"
  BY DEF Send, Active
<1>2. PICK g \in Waiters : g = waiter[w].gen
  BY <1>1, WaiterFacts
<1>3. /\ TypeOK /\ waiter[w] \in Waits /\ waiter[w].result = "none" /\ waiter \in [Waiters -> Waits]
      /\ Registered(g) /\ RequestId[g] = RequestId[w] /\ Content(g) = Content(w) /\ GrantInv(g)
  BY <1>1, <1>2, WaiterFacts, Types DEF WaiterInv
<1>4. PICK x : x = [waiter[w] EXCEPT !.pc = "waiting"]
  OBVIOUS
<1>5. /\ waiter' = [waiter EXCEPT ![w] = x] /\ doomed' = doomed /\ told' = told /\ UNCHANGED <<clock, disk, shell, answers, granted>>
      /\ clashed' = clashed
  BY <1>3, <1>4 DEF Send, history
<1>6. x \in Waits /\ x.gen = waiter[w].gen /\ x.content = waiter[w].content /\ x.pc = "waiting" /\ x.result = "none"
  BY <1>3, <1>4 DEF Waits, Pcs
<1>7. PICK k : k = [id |-> RequestId[w], content |-> Content(w), at |-> clock, until |-> EffectiveAt(g) + Retention]
  OBVIOUS
<1>8. shown' = shown \cup {k}
  BY <1>2, <1>7 DEF Send
<1>9. k \in Cards
  <2>1. Content(w) \in Contents /\ RequestId[w] \in Ids
    BY <1>3, Constants DEF Content, Waits
  <2>2. clock \in 0..MaxTime /\ writtenAt[g] \in 0..MaxTime /\ wonAt[g] \in 0..MaxTime
    BY <1>3, Types
  <2>3. EffectiveAt(g) + Retention \in 0..(MaxTime + Retention)
    BY <2>2, Constants DEF EffectiveAt
  <2>4. QED
    BY <1>7, <2>1, <2>2, <2>3 DEF Cards
<1>10. /\ waiter' \in [Waiters -> Waits]
       /\ \A v \in Waiters : waiter'[v].gen = waiter[v].gen /\ waiter'[v].content = waiter[v].content
  BY <1>3, <1>5, <1>6, WaiterAt
<1>11. TypeOK'
  <2>1. clock' = clock /\ record' = record /\ writtenAt' = writtenAt /\ winner' = winner /\ wonAt' = wonAt
    BY <1>5 DEF disk
  <2>2. shown' \subseteq Cards
    BY <1>3, <1>8, <1>9, Types
  <2>3. QED
    BY <1>3, <1>5, <1>10, <2>1, <2>2, Types DEF TypeOK, Waits
<1>12. ASSUME ~clashed'
       PROVE  CardInv'
  <2>1. ClearInv
    BY <1>5, <1>12 DEF RegistryInv
  <2>2. Listed(g)
    BY <1>1, <1>2, <2>1 DEF ClearInv, HeldInv
  <2>3. \A h \in Waiters : /\ Registered(h)' <=> Registered(h)
                           /\ Listed(h)' <=> Listed(h)
                           /\ Content(h)' = Content(h) /\ EffectiveAt(h)' = EffectiveAt(h)
    BY <1>5, <1>10 DEF disk, Registered, Listed, Content, EffectiveAt
  <2>4. \A c \in shown : \E h \in Waiters : Of(c, h) /\ Lasting(c, h)
    BY <2>1 DEF ClearInv, CardInv
  <2>5. \A c : \A h \in Waiters : Of(c, h) /\ Lasting(c, h) => Of(c, h)' /\ Lasting(c, h)'
    BY <1>5, <2>3 DEF Of, Lasting
  <2>6. Of(k, g) /\ Lasting(k, g)
    <3>1. k.until = EffectiveAt(g) + Retention /\ EffectiveAt(g) + Retention \in Nat
      BY <1>3, <1>7, Times, Constants
    <3>2. QED
      BY <1>3, <1>7, <2>2, <3>1 DEF Of, Lasting
  <2>7. ASSUME NEW d \in shown, d.id = k.id, d.content # k.content
        PROVE  k.at > d.until
    <3>1. PICK h \in Waiters : Of(d, h) /\ Lasting(d, h)
      BY <2>4
    <3>2. h # g /\ RequestId[h] = RequestId[g]
      BY <1>3, <1>7, <2>7, <3>1 DEF Of
    <3>3. ~Listed(h)
      BY <2>2, <3>2 DEF Listed
    <3>4. QED
      BY <1>7, <3>1, <3>3 DEF Lasting
  <2>8. \A c, d \in shown : c.id = d.id /\ c.content # d.content => c.at > d.until \/ d.at > c.until
    BY <2>1 DEF ClearInv, CardInv
  <2>9. \A c \in shown' : \E h \in Waiters : Of(c, h)' /\ Lasting(c, h)'
    BY <1>8, <2>4, <2>5, <2>6
  <2>10. \A c, d \in shown' : c.id = d.id /\ c.content # d.content => c.at > d.until \/ d.at > c.until
    BY <1>8, <2>7, <2>8
  <2>11. QED
    BY <2>9, <2>10 DEF CardInv
<1>13. \A q \in Waiters : \A o \in told'[q] : <<q, o>> \in granted
  BY <1>5 DEF RegistryInv, GrantInv
<1>14. shown \subseteq shown' /\ \A p \in Pruners : doomed'[p] \subseteq doomed[p]
  BY <1>5, <1>8
<1>15. QED
  BY <1>1, <1>5, <1>6, <1>11, <1>12, <1>13, <1>14, LocalSound
-----------------------------------------------------------------------------
\* A hook joins the registration it found, or is about to write one: alone for
\* its id, and after the one it found was forgotten.
LEMMA StartSound ==
  ASSUME RegistryInv, NEW w \in Waiters, waiter[w].pc = "start", NEW x \in Waits,
         waiter' = [waiter EXCEPT ![w] = x],
         UNCHANGED <<clock, disk, doomed, shell, phone, granted>>,
         Clash(\E v \in Waiters : RequestId[v] = RequestId[w] /\ waiter[v].pc = "registering"),
         x.content = waiter[w].content, x.result = "none",
         \/ /\ x.pc = "registering" /\ x.gen = None
            /\ record[RequestId[w]] # None => ~Recent(record[RequestId[w]])
         \/ /\ x.pc = "connect" /\ x.gen = record[RequestId[w]] /\ x.gen \in Waiters
            /\ Recent(x.gen) /\ Content(x.gen) = Content(w)
  PROVE  RegistryInv'
<1>1. /\ clock' = clock /\ record' = record /\ writtenAt' = writtenAt /\ winner' = winner /\ wonAt' = wonAt
      /\ shell' = shell /\ answers' = answers /\ granted' = granted /\ shown' = shown /\ told' = told /\ doomed' = doomed
  BY DEF disk, phone
<1>2. /\ waiter' \in [Waiters -> Waits] /\ waiter'[w] = x
      /\ \A v \in Waiters : v # w => waiter'[v] = waiter[v]
  BY WaiterAt DEF RegistryInv
<1>3. /\ TypeOK /\ WaiterInv(w) /\ waiter[w].gen = None /\ waiter[w] \in Waits
      /\ \A id \in Ids : record[id] # None => record[id] \in Waiters /\ RequestId[record[id]] = id
      /\ \A g \in Waiters : GrantInv(g)
  BY WaiterFacts, Types DEF WaiterInv, RegistryInv
<1>4. clashed' \in BOOLEAN /\ (~clashed' => ~clashed /\ \A v \in Waiters : ~(RequestId[v] = RequestId[w] /\ waiter[v].pc = "registering"))
  BY <1>3, Types DEF Clash
<1>5. TypeOK'
  BY <1>1, <1>2, <1>3, <1>4, Types DEF TypeOK, Waits
<1>6. RequestId[w] \in Ids /\ None \notin Waiters
  BY Constants
<1>7. x.pc = "connect" => /\ x.gen \in Waiters /\ x.gen # w /\ x.gen # None /\ Listed(x.gen) /\ RequestId[x.gen] = RequestId[w]
                          /\ Registered(x.gen) /\ Recent(x.gen) /\ Content(x.gen) = Content(w)
  <2>1. ASSUME x.pc = "connect"
        PROVE  x.gen \in Waiters /\ Recent(x.gen) /\ Content(x.gen) = Content(w) /\ RequestId[x.gen] = RequestId[w] /\ Listed(x.gen)
    BY <1>3, <1>6, <2>1 DEF Listed
  <2>2. ASSUME x.pc = "connect"
        PROVE  Registered(x.gen)
    BY <1>3, <2>1, <2>2 DEF GrantInv
  <2>3. QED
    BY <1>3, <1>6, <2>1, <2>2 DEF Registered
<1>8. \A g \in Waiters : /\ Registered(g)' <=> Registered(g)
                         /\ Listed(g)' <=> Listed(g)
                         /\ Content(g)' = Content(g) /\ EffectiveAt(g)' = EffectiveAt(g)
                         /\ Recent(g)' <=> Recent(g)
  <2>1. \A g \in Waiters : Registered(g)' <=> Registered(g)
    BY <1>2, <1>3, <1>6, <1>7 DEF Registered
  <2>2. \A g \in Waiters : Content(g)' = Content(g)
    BY <1>2 DEF Content
  <2>3. QED
    BY <1>1, <2>1, <2>2 DEF Listed, EffectiveAt, Recent
<1>9. \A g \in Waiters : Engaged(g)' => Engaged(g) \/ (Listed(g) /\ Recent(g))
  <2>1. \A v \in Waiters : v # w => (Active(v)' <=> Active(v))
    BY <1>2 DEF Active
  <2>2. Active(w)' => x.pc = "connect"
    BY <1>2 DEF Active
  <2>3. QED
    BY <1>1, <1>2, <1>7, <2>1, <2>2 DEF Engaged
<1>10. \A g \in Waiters : Claiming(g)' => Claiming(g)
  BY <1>1, <1>2 DEF Claiming
<1>11. \A v \in Waiters : WaiterInv(v)'
  <2>1. ASSUME NEW v \in Waiters, v # w
        PROVE  WaiterInv(v)'
    <3>1. WaiterInv(v) /\ waiter'[v] = waiter[v] /\ waiter[v] \in Waits
      BY <1>2, <2>1, <1>3, Types DEF RegistryInv
    <3>2. waiter[v].gen # None => waiter[v].gen \in Waiters
      BY <3>1 DEF Waits
    <3>3. QED
      BY <1>1, <1>8, <3>1, <3>2, <2>1 DEF WaiterInv, Active
  <2>2. WaiterInv(w)'
    <3>1. x.gen # None => Registered(x.gen)' /\ RequestId[x.gen] = RequestId[w] /\ Content(x.gen)' = Content(w)'
      BY <1>7, <1>8
    <3>2. x.gen # None <=> x.pc = "connect"
      BY <1>7
    <3>3. QED
      BY <1>2, <3>1, <3>2 DEF WaiterInv, Active
  <2>3. QED
    BY <2>1, <2>2
<1>12. \A g \in Waiters : GrantInv(g)'
  BY <1>1, <1>3, <1>8, <1>9, <1>10 DEF GrantInv
<1>13. ASSUME ~clashed'
       PROVE  ClearInv'
  <2>1. ClearInv /\ ~clashed
    BY <1>4, <1>13 DEF RegistryInv
  <2>2. \A v \in Waiters : RequestId[v] = RequestId[w] => waiter[v].pc # "registering"
    BY <1>4, <1>13
  <2>3. ASSUME NEW v \in Waiters, x.pc = "registering", v # w, RequestId[v] = RequestId[w]
        PROVE  waiter[v].pc \in {"start", "done"}
    <3>1. ~Active(v)
      <4>1. SUFFICES ASSUME Active(v) PROVE FALSE
        OBVIOUS
      <4>2. /\ Listed(waiter[v].gen) /\ GrantInv(waiter[v].gen) /\ Engaged(waiter[v].gen)
            /\ RequestId[waiter[v].gen] = RequestId[w] /\ waiter[v].gen \in Waiters
        BY <2>1, <2>3, <4>1, WaiterFacts DEF ClearInv, HeldInv
      <4>3. record[RequestId[w]] = waiter[v].gen
        BY <4>2 DEF Listed
      <4>4. Recent(waiter[v].gen)
        BY <4>2 DEF GrantInv
      <4>5. QED
        BY <1>6, <2>3, <4>2, <4>3, <4>4
    <3>2. QED
      BY <2>2, <2>3, <3>1 DEF Active
  <2>4. HeldInv'
    <3>1. \A v \in Waiters : Active(v)' => Listed(waiter[v].gen)'
      <4>1. \A v \in Waiters : Active(v)' => Active(v) \/ (v = w /\ x.pc = "connect")
        BY <1>2 DEF Active
      <4>2. \A v \in Waiters : Active(v) => Listed(waiter[v].gen) /\ v # w
        BY <2>1 DEF ClearInv, HeldInv, Active
      <4>3. QED
        BY <1>1, <1>2, <1>7, <4>1, <4>2 DEF Listed
    <3>2. ASSUME NEW v \in Waiters, NEW u \in Waiters, waiter'[v].pc = "registering", u # v, RequestId[u] = RequestId[v]
          PROVE  waiter'[u].pc \in {"start", "done"}
      <4>1. CASE v = w
        BY <1>2, <2>3, <3>2, <4>1
      <4>2. CASE v # w
        BY <1>2, <2>1, <2>2, <3>2, <4>2 DEF ClearInv, HeldInv
      <4>3. QED
        BY <4>1, <4>2
    <3>3. \A p \in Pruners : \A g \in doomed[p] : record[RequestId[g]] \in {g, None}
      BY <2>1 DEF ClearInv, HeldInv
    <3>4. QED
      BY <1>1, <3>1, <3>2, <3>3 DEF HeldInv
  <2>5. ApartInv'
    <3>1. ASSUME NEW u \in Waiters, waiter'[u].pc = "registering", record[RequestId[u]] # None
          PROVE  ~Recent(record[RequestId[u]])
      <4>1. CASE u # w
        BY <1>2, <2>1, <3>1, <4>1 DEF ClearInv, ApartInv
      <4>2. CASE u = w
        BY <1>2, <3>1, <4>2
      <4>3. QED
        BY <4>1, <4>2
    <3>2. \A v \in Waiters : Over(v)' <=> Over(v)
      BY <1>1 DEF Over
    <3>3. \A u, v \in Waiters : Apart(u, v)' <=> Apart(u, v)
      BY <1>1 DEF Apart
    <3>4. \A v \in Waiters : record[RequestId[v]] # None => (Recent(record[RequestId[v]])' <=> Recent(record[RequestId[v]]))
      BY <1>1, <1>3, <1>8, Constants
    <3>5. QED
      BY <1>1, <1>8, <2>1, <3>1, <3>2, <3>3, <3>4 DEF ClearInv, ApartInv
  <2>6. CardInv'
    <3>1. \A v \in Waiters : (Registered(v)' <=> Registered(v)) /\ waiter'[v].content = waiter[v].content
      BY <1>2, <1>8
    <3>2. QED
      BY <1>1, <2>1, <3>1, CardsKept DEF ClearInv
  <2>7. AnswerInv'
    <3>1. \A g \in Waiters : Answered(g)' <=> Answered(g)
      BY <1>1, <1>8 DEF Answered, Outlives
    <3>2. \A g \in Waiters : Allowing(g)' => Allowing(g)
      BY <1>2 DEF Allowing
    <3>3. \A v \in Waiters : waiter'[v].result = "unanswered" => <<waiter'[v].gen, "expired">> \in granted
      BY <1>2, <2>1 DEF ClearInv, AnswerInv
    <3>4. QED
      BY <1>1, <2>1, <3>1, <3>2, <3>3 DEF ClearInv, AnswerInv
  <2>8. QED
    BY <2>4, <2>5, <2>6, <2>7 DEF ClearInv
<1>14. QED
  <2>1. \A id \in Ids : record'[id] # None => RequestId[record'[id]] = id
    BY <1>1, <1>3
  <2>2. \A a \in answers' : a.card \in shown'
    BY <1>1 DEF RegistryInv
  <2>3. QED
    BY <1>5, <1>11, <1>12, <1>13, <2>1, <2>2 DEF RegistryInv

LEMMA RegisterReadStep ==
  ASSUME RegistryInv, NEW w \in Waiters, RegisterRead(w)
  PROVE  RegistryInv'
<1> USE DEF RegisterRead
<1>1. /\ TypeOK /\ WaiterInv(w) /\ waiter[w].gen = None /\ waiter[w] \in Waits /\ waiter[w].result = "none"
      /\ waiter \in [Waiters -> Waits] /\ RequestId[w] \in Ids
  BY WaiterFacts, Types, Constants DEF WaiterInv
<1>2. PICK g : g = record[RequestId[w]]
  OBVIOUS
<1>3. g \in Waiters \cup {None}
  BY <1>1, <1>2, Types
<1>4. CASE g # None /\ Recent(g) /\ Content(g) = Content(w)
  <2>1. PICK x : x = [waiter[w] EXCEPT !.pc = "connect", !.gen = g]
    OBVIOUS
  <2>2. waiter' = [waiter EXCEPT ![w] = x]
    BY <1>1, <1>2, <1>4, <2>1
  <2>3. x \in Waits /\ x.content = waiter[w].content /\ x.result = "none" /\ x.pc = "connect" /\ x.gen = g
    BY <1>1, <1>3, <2>1 DEF Waits, Pcs
  <2>4. QED
    BY <1>2, <1>3, <1>4, <2>2, <2>3, StartSound
<1>5. CASE ~(g # None /\ Recent(g))
  <2>1. PICK x : x = [waiter[w] EXCEPT !.pc = "registering"]
    OBVIOUS
  <2>2. waiter' = [waiter EXCEPT ![w] = x]
    BY <1>1, <1>2, <1>5, <2>1
  <2>3. x \in Waits /\ x.content = waiter[w].content /\ x.result = "none" /\ x.pc = "registering" /\ x.gen = None
    BY <1>1, <2>1 DEF Waits, Pcs
  <2>4. QED
    BY <1>2, <1>3, <1>5, <2>2, <2>3, StartSound
<1>6. CASE g # None /\ Recent(g) /\ Content(g) # Content(w)
  <2>1. PICK x : x = [waiter[w] EXCEPT !.pc = "done", !.result = "refused"]
    OBVIOUS
  <2>2. waiter' = [waiter EXCEPT ![w] = x]
    BY <1>1, <1>2, <1>6, <2>1 DEF Finish
  <2>3. x \in Waits /\ x.content = waiter[w].content /\ x.result = "refused" /\ x.pc = "done" /\ x.gen = waiter[w].gen
    BY <1>1, <2>1 DEF Waits, Pcs, Results
  <2>4. /\ UNCHANGED <<clock, disk, shell, shown, answers, granted>> /\ doomed' = doomed /\ told' = told
        /\ clashed' \in BOOLEAN /\ (clashed => clashed')
    BY <1>1, Types DEF phone, Clash
  <2>5. QED
    BY <2>2, <2>3, <2>4, LocalStep
<1>7. QED
  BY <1>4, <1>5, <1>6
-----------------------------------------------------------------------------
\* A registration is renamed into place: the one before it, if any, is forgotten.
LEMMA RegisterWriteStep ==
  ASSUME Roomy, RegistryInv, NEW w \in Waiters, RegisterWrite(w)
  PROVE  RegistryInv'
<1> USE DEF RegisterWrite
<1>1. /\ clock' = clock /\ winner' = winner /\ wonAt' = wonAt
      /\ shell' = shell /\ answers' = answers /\ granted' = granted /\ shown' = shown /\ told' = told
      /\ waiter[w].pc = "registering"
  BY DEF phone
<1>2. /\ TypeOK /\ WaiterInv(w) /\ waiter[w].gen = None /\ waiter[w] \in Waits /\ waiter[w].result = "none"
      /\ waiter \in [Waiters -> Waits] /\ RequestId[w] \in Ids /\ None \notin Waiters /\ clock \in Nat
      /\ \A id \in Ids : record[id] \in Waiters \cup {None} /\ (record[id] # None => RequestId[record[id]] = id)
      /\ \A g \in Waiters : GrantInv(g)
      /\ \A v \in Waiters : RequestId[v] \in Ids
  <2>1. TypeOK /\ WaiterInv(w) /\ waiter[w] \in Waits
    BY WaiterFacts
  <2>2. /\ \A id \in Ids : record[id] # None => RequestId[record[id]] = id
        /\ \A g \in Waiters : GrantInv(g)
    BY DEF RegistryInv
  <2>3. waiter[w].gen = None /\ waiter[w].result = "none"
    BY <2>1 DEF WaiterInv
  <2>4. waiter \in [Waiters -> Waits] /\ clock \in Nat /\ \A id \in Ids : record[id] \in Waiters \cup {None}
    BY <2>1, Types
  <2>5. QED
    BY <2>1, <2>2, <2>3, <2>4, Constants
<1>3. PICK x : x = [waiter[w] EXCEPT !.pc = "pruning", !.gen = w]
  OBVIOUS
<1>4. x \in Waits /\ x.content = waiter[w].content /\ x.result = "none" /\ x.pc = "pruning" /\ x.gen = w
  BY <1>2, <1>3 DEF Waits, Pcs
<1>5. waiter' = [waiter EXCEPT ![w] = x]
  BY <1>2, <1>3
<1>6. /\ waiter' \in [Waiters -> Waits] /\ waiter'[w] = x
      /\ \A v \in Waiters : v # w => waiter'[v] = waiter[v]
  BY <1>2, <1>4, <1>5, WaiterAt
<1>7. /\ record' \in [Ids -> Waiters \cup {None}] /\ record'[RequestId[w]] = w
      /\ \A id \in Ids : id # RequestId[w] => record'[id] = record[id]
  BY <1>2, Types
<1>8. /\ writtenAt' \in [Waiters -> 0..MaxTime] /\ writtenAt'[w] = clock
      /\ \A v \in Waiters : v # w => writtenAt'[v] = writtenAt[v]
  BY <1>2, Types
<1>9. /\ ~Registered(w) /\ ~Listed(w) /\ shell # w /\ winner[w] = None /\ \A o \in Outcomes : <<w, o>> \notin granted
      /\ \A p \in Pruners : w \notin doomed[p]
      /\ \A v \in Waiters : waiter[v].gen # w
  <2>1. ~Registered(w) /\ GrantInv(w)
    BY <1>2 DEF Registered
  <2>2. winner[w] \in Outcomes \cup {None}
    BY <1>2, Types
  <2>3. \A v \in Waiters : waiter[v].gen # w
    BY <2>1, <1>2 DEF RegistryInv, WaiterInv
  <2>4. QED
    BY <2>1, <2>2, <2>3 DEF GrantInv
<1>10. PICK D \in SUBSET Waiters : Surplus(D)' /\ doomed' = [doomed EXCEPT ![w] = D]
  OBVIOUS
<1>11. doomed' \in [Pruners -> SUBSET Waiters] /\ doomed'[w] = D /\ \A p \in Pruners : p # w => doomed'[p] = doomed[p]
  BY <1>2, <1>10, Types DEF Pruners
<1>12. clashed' \in BOOLEAN /\ (~clashed' => ~clashed /\ \A p \in Pruners : doomed[p] = {})
  BY <1>2, Types DEF Clash
<1>13. TypeOK'
  BY <1>1, <1>2, <1>6, <1>7, <1>8, <1>11, <1>12, Types DEF TypeOK, Waits
<1>14. \A g \in Waiters : /\ Registered(g)' <=> Registered(g) \/ g = w
                          /\ Listed(g)' <=> g = w \/ (Listed(g) /\ RequestId[g] # RequestId[w])
                          /\ Content(g)' = Content(g)
                          /\ g # w => EffectiveAt(g)' = EffectiveAt(g) /\ (Recent(g)' <=> Recent(g))
  <2>1. \A g \in Waiters : (Registered(g)' <=> Registered(g) \/ g = w) /\ Content(g)' = Content(g)
    BY <1>4, <1>6 DEF Registered, Content
  <2>2. \A g \in Waiters : Listed(g)' <=> g = w \/ (Listed(g) /\ RequestId[g] # RequestId[w])
    BY <1>2, <1>7, <1>9 DEF Listed
  <2>3. \A g \in Waiters : g # w => EffectiveAt(g)' = EffectiveAt(g) /\ (Recent(g)' <=> Recent(g))
    BY <1>1, <1>8 DEF EffectiveAt, Recent
  <2>4. QED
    BY <2>1, <2>2, <2>3
<1>15. EffectiveAt(w)' = clock /\ Recent(w)'
  BY <1>1, <1>2, <1>8, <1>9, Constants DEF EffectiveAt, Recent
<1>16. \A g \in D : g \in Waiters /\ Listed(g)' /\ ~Recent(g)'
  <2>1. PICK S : S = {record'[id] : id \in Ids} \ {None}
    OBVIOUS
  <2>2. S = OnDisk'
    BY <2>1 DEF OnDisk
  <2>3. PICK R : R = {g \in S : Recent(g)'}
    OBVIOUS
  <2>4. /\ D \in SUBSET S /\ S \ D \subseteq R /\ R \in SUBSET S
        /\ R # S \ D => Cardinality(S \ D) = MaxRecords
    BY <1>10, <2>2, <2>3 DEF Surplus
  <2>5. R = S \ D
    <3>1. PICK r \in [Ids -> Waiters \cup {None}] : r = record'
      BY <1>7
    <3>2. \A s \in S : \E id \in Ids : r[id] = s
      BY <2>1, <3>1
    <3>3. QED
      BY <2>4, <3>2, RoomEnough
  <2>6. \A g \in S : g \in Waiters /\ record'[RequestId[g]] = g
    <3>1. ASSUME NEW id \in Ids, record'[id] # None
          PROVE  record'[id] \in Waiters /\ RequestId[record'[id]] = id
      BY <1>2, <1>7, <3>1
    <3>2. QED
      BY <2>1, <3>1
  <2>7. QED
    BY <2>3, <2>4, <2>5, <2>6 DEF Listed
<1>17. \A g \in Waiters : g # w => (Engaged(g)' <=> Engaged(g))
  <2>1. \A v \in Waiters : v # w => (Active(v)' <=> Active(v))
    BY <1>6 DEF Active
  <2>2. ~Active(w)
    BY <1>1 DEF Active
  <2>3. QED
    BY <1>1, <1>4, <1>6, <2>1, <2>2 DEF Engaged
<1>18. \A g \in Waiters : Claiming(g)' <=> Claiming(g)
  BY <1>1, <1>4, <1>6 DEF Claiming
<1>19. \A v \in Waiters : WaiterInv(v)'
  <2>1. ASSUME NEW v \in Waiters, v # w
        PROVE  WaiterInv(v)'
    <3>1. WaiterInv(v) /\ waiter'[v] = waiter[v] /\ waiter[v] \in Waits
      BY <1>2, <1>6, <2>1, Types DEF RegistryInv
    <3>2. waiter[v].gen # None => waiter[v].gen \in Waiters
      BY <3>1 DEF Waits
    <3>3. QED
      BY <1>1, <1>14, <3>1, <3>2, <2>1 DEF WaiterInv, Active
  <2>2. WaiterInv(w)'
    BY <1>2, <1>4, <1>6, <1>14 DEF WaiterInv, Active
  <2>3. QED
    BY <2>1, <2>2
<1>20. \A g \in Waiters : GrantInv(g)'
  <2>1. ASSUME NEW g \in Waiters, g # w
        PROVE  GrantInv(g)'
    <3>1. GrantInv(g)
      BY <1>2
    <3>2. \A p \in Pruners : g \in doomed'[p] => ~Recent(g)' /\ ~Engaged(g)' /\ Registered(g)'
      <4>1. ASSUME NEW p \in Pruners, p # w, g \in doomed'[p]
            PROVE  ~Recent(g)' /\ ~Engaged(g)' /\ Registered(g)'
        BY <1>11, <1>14, <1>17, <2>1, <3>1, <4>1 DEF GrantInv
      <4>2. ASSUME g \in D
            PROVE  ~Recent(g)' /\ ~Engaged(g)' /\ Registered(g)'
        BY <1>14, <1>16, <1>17, <2>1, <3>1, <4>2 DEF GrantInv
      <4>3. QED
        BY <1>11, <4>1, <4>2
    <3>3. writtenAt'[g] = writtenAt[g]
      BY <1>8, <2>1
    <3>4. QED
      BY <1>1, <1>14, <1>17, <1>18, <2>1, <3>1, <3>2, <3>3 DEF GrantInv
  <2>2. GrantInv(w)'
    <3>1. \A p \in Pruners : w \notin doomed'[p]
      BY <1>9, <1>11, <1>15, <1>16
    <3>2. \A o \in told'[w] : FALSE
      BY <1>1, <1>2, <1>9, Types DEF GrantInv
    <3>3. QED
      BY <1>1, <1>2, <1>8, <1>9, <1>14, <1>15, <3>1, <3>2 DEF GrantInv
  <2>3. QED
    BY <2>1, <2>2
<1>21. ASSUME ~clashed'
       PROVE  ClearInv'
  <2>1. ClearInv /\ \A p \in Pruners : doomed[p] = {}
    BY <1>12, <1>21 DEF RegistryInv
  <2>2. \A v \in Waiters : v # w /\ RequestId[v] = RequestId[w] => waiter[v].pc \in {"start", "done"}
    BY <1>1, <2>1 DEF ClearInv, HeldInv
  <2>3. HeldInv'
    <3>1. ASSUME NEW v \in Waiters, v # w, Active(v)'
          PROVE  Listed(waiter[v].gen)'
      <4>1. Active(v) /\ waiter'[v] = waiter[v]
        BY <1>6, <3>1 DEF Active
      <4>2. Listed(waiter[v].gen) /\ waiter[v].gen \in Waiters /\ RequestId[waiter[v].gen] = RequestId[v]
        BY <2>1, <4>1, WaiterFacts DEF ClearInv, HeldInv
      <4>3. RequestId[v] # RequestId[w]
        BY <2>2, <3>1, <4>1 DEF Active
      <4>4. QED
        BY <1>14, <4>1, <4>2, <4>3
    <3>2. Listed(waiter[w].gen)'
      BY <1>4, <1>6, <1>14
    <3>3. ASSUME NEW v \in Waiters, NEW u \in Waiters, waiter'[v].pc = "registering", u # v, RequestId[u] = RequestId[v]
          PROVE  waiter'[u].pc \in {"start", "done"}
      <4>1. v # w /\ waiter[v].pc = "registering"
        BY <1>4, <1>6, <3>3
      <4>2. u # w
        BY <2>2, <3>3, <4>1
      <4>3. QED
        BY <1>6, <2>1, <3>3, <4>1, <4>2 DEF ClearInv, HeldInv
    <3>4. \A p \in Pruners : \A g \in doomed'[p] : record'[RequestId[g]] \in {g, None}
      BY <1>11, <1>16, <2>1 DEF Listed
    <3>5. QED
      BY <3>1, <3>2, <3>3, <3>4 DEF HeldInv
  <2>4. \A v \in Waiters : Registered(v) /\ RequestId[v] = RequestId[w] =>
          Over(v) /\ v # w /\ (Listed(v) => clock > EffectiveAt(v) + Retention)
    <3>1. ASSUME NEW v \in Waiters, Registered(v), RequestId[v] = RequestId[w], Listed(v)
          PROVE  Over(v) /\ v # w /\ clock > EffectiveAt(v) + Retention
      <4>1. ~Recent(v) /\ v # w
        BY <1>1, <1>2, <1>9, <2>1, <3>1 DEF ClearInv, ApartInv, Listed
      <4>2. writtenAt[v] \in Nat /\ wonAt[v] \in Nat /\ (winner[v] # None => writtenAt[v] <= wonAt[v])
        BY <1>2, Times DEF GrantInv
      <4>3. writtenAt[v] <= EffectiveAt(v) /\ EffectiveAt(v) \in Nat /\ Retention \in Nat
        BY <4>2, Constants DEF EffectiveAt
      <4>4. clock > EffectiveAt(v) + Retention
        BY <1>2, <4>1, <4>3, Times
      <4>5. QED
        BY <1>2, <4>1, <4>2, <4>3, <4>4 DEF Over
    <3>2. ASSUME NEW v \in Waiters, Registered(v), ~Listed(v)
          PROVE  Over(v) /\ v # w
      BY <1>9, <2>1, <3>2 DEF ClearInv, ApartInv
    <3>3. QED
      BY <3>1, <3>2
  <2>5. ApartInv'
    <3>1. ASSUME NEW g \in Waiters, Registered(g)', ~Listed(g)'
          PROVE  Over(g)'
      <4>1. g # w /\ Registered(g) /\ (~Listed(g) \/ RequestId[g] = RequestId[w])
        BY <1>14, <3>1
      <4>2. Over(g)
        BY <2>1, <2>4, <4>1 DEF ClearInv, ApartInv
      <4>3. QED
        BY <1>1, <1>8, <4>1, <4>2 DEF Over
    <3>2. ASSUME NEW v \in Waiters, waiter'[v].pc = "registering", record'[RequestId[v]] # None
          PROVE  ~Recent(record[RequestId[v]])'
      <4>1. v # w /\ waiter[v].pc = "registering"
        BY <1>4, <1>6, <3>2
      <4>2. RequestId[v] # RequestId[w]
        BY <1>1, <2>2, <4>1
      <4>3. record'[RequestId[v]] = record[RequestId[v]] /\ record[RequestId[v]] \in Waiters /\ record[RequestId[v]] # w
        BY <1>2, <1>7, <3>2, <4>2
      <4>4. ~Recent(record[RequestId[v]])
        BY <2>1, <4>1, <4>3, <1>2 DEF ClearInv, ApartInv
      <4>5. QED
        BY <1>14, <4>3, <4>4
    <3>3. ASSUME NEW v \in Waiters, NEW u \in Waiters, Registered(v)', Registered(u)', RequestId[v] = RequestId[u], v # u
          PROVE  Apart(v, u)'
      <4>1. CASE v # w /\ u # w
        <5>1. Apart(v, u)
          BY <1>14, <2>1, <3>3, <4>1 DEF ClearInv, ApartInv
        <5>2. QED
          BY <1>8, <4>1, <5>1 DEF Apart
      <4>2. CASE v = w /\ u # w
        BY <1>8, <1>14, <2>4, <3>3, <4>2 DEF Apart, Over
      <4>3. CASE v # w /\ u = w
        BY <1>8, <1>14, <2>4, <3>3, <4>3 DEF Apart, Over
      <4>4. QED
        BY <3>3, <4>1, <4>2, <4>3
    <3>4. QED
      BY <3>1, <3>2, <3>3 DEF ApartInv
  <2>6. CardInv'
    <3>1. ASSUME NEW c \in shown
          PROVE  \E h \in Waiters : Of(c, h)' /\ Lasting(c, h)'
      <4>1. PICK h \in Waiters : Of(c, h) /\ Lasting(c, h)
        BY <2>1 DEF ClearInv, CardInv
      <4>2. Of(c, h)' /\ h # w
        BY <1>9, <1>14, <4>1 DEF Of
      <4>3. CASE Listed(h) /\ RequestId[h] = RequestId[w]
        <5>1. clock > EffectiveAt(h) + Retention /\ c.until <= EffectiveAt(h) + Retention
          BY <2>4, <4>1, <4>3 DEF Of, Lasting
        <5>2. c.until \in Nat /\ EffectiveAt(h) + Retention \in Nat
          <6>1. c \in Cards
            BY <1>2, Types
          <6>2. QED
            BY <1>2, <6>1, Times, Constants DEF Cards
        <5>3. clock > c.until
          BY <1>2, <5>1, <5>2
        <5>4. QED
          BY <1>1, <1>14, <4>2, <4>3, <5>3 DEF Lasting
      <4>4. CASE ~(Listed(h) /\ RequestId[h] = RequestId[w])
        BY <1>1, <1>14, <4>1, <4>2, <4>4 DEF Lasting
      <4>5. QED
        BY <4>3, <4>4
    <3>2. QED
      BY <1>1, <2>1, <3>1 DEF ClearInv, CardInv
  <2>7. AnswerInv'
    <3>1. \A g \in Waiters : Answered(g)' <=> Answered(g)
      BY <1>1, <1>14 DEF Answered, Outlives
    <3>2. \A g \in Waiters : Allowing(g)' => Allowing(g)
      BY <1>4, <1>6 DEF Allowing
    <3>3. \A v \in Waiters : waiter'[v].result = "unanswered" => <<waiter'[v].gen, "expired">> \in granted
      BY <1>4, <1>6, <2>1 DEF ClearInv, AnswerInv
    <3>4. QED
      BY <1>1, <2>1, <3>1, <3>2, <3>3 DEF ClearInv, AnswerInv
  <2>8. QED
    BY <2>3, <2>5, <2>6, <2>7 DEF ClearInv
<1>22. QED
  <2>1. \A id \in Ids : record'[id] # None => RequestId[record'[id]] = id
    BY <1>2, <1>7
  <2>2. \A a \in answers' : a.card \in shown'
    BY <1>1 DEF RegistryInv
  <2>3. QED
    BY <1>13, <1>19, <1>20, <1>21, <2>1, <2>2 DEF RegistryInv
-----------------------------------------------------------------------------
\* A pass unlinks what nobody waits on any more, and the winners that go with it.
LEMMA UnlinkStep ==
  ASSUME RegistryInv, NEW p \in Pruners, Unlink(p), waiter' \in [Waiters -> Waits],
         \A v \in Waiters : \/ waiter'[v] = waiter[v]
                            \/ waiter[v].pc = "pruning" /\ waiter'[v] = [waiter[v] EXCEPT !.pc = "connect"]
  PROVE  RegistryInv'
<1>1. /\ clock' = clock /\ writtenAt' = writtenAt /\ wonAt' = wonAt /\ shell' = shell /\ answers' = answers
      /\ granted' = granted /\ shown' = shown /\ told' = told /\ clashed' = clashed
  BY DEF Unlink, phone, history
<1>2. /\ TypeOK /\ None \notin Waiters /\ clock \in Nat /\ waiter \in [Waiters -> Waits]
      /\ doomed \in [Pruners -> SUBSET Waiters]
      /\ \A id \in Ids : record[id] \in Waiters \cup {None} /\ (record[id] # None => RequestId[record[id]] = id)
      /\ \A g \in Waiters : GrantInv(g) /\ RequestId[g] \in Ids /\ winner[g] \in Outcomes \cup {None}
  BY Types, Constants DEF RegistryInv
<1>3. \A v \in Waiters : /\ waiter'[v].gen = waiter[v].gen /\ waiter'[v].content = waiter[v].content
                         /\ waiter'[v].outcome = waiter[v].outcome /\ waiter'[v].result = waiter[v].result
                         /\ waiter'[v].then = waiter[v].then
                         /\ Active(v)' <=> Active(v)
                         /\ waiter'[v].pc # waiter[v].pc => waiter[v].pc = "pruning" /\ waiter'[v].pc = "connect"
  <2>1. \A v \in Waiters : waiter[v] \in Waits
    BY <1>2
  <2>2. QED
    BY <2>1 DEF Waits, Active
<1>4. /\ record' \in [Ids -> Waiters \cup {None}]
      /\ \A id \in Ids : record'[id] \in {record[id], None}
      /\ \A g \in doomed[p] : record'[RequestId[g]] = None
      /\ \A id \in Ids : record'[id] # record[id] => \E g \in doomed[p] : RequestId[g] = id
  BY <1>2 DEF Unlink
<1>5. /\ winner' \in [Waiters -> Outcomes \cup {None}]
      /\ \A g \in Waiters : winner'[g] \in {winner[g], None}
      /\ \A g \in Waiters : winner'[g] # winner[g] => g \in doomed[p] \/ (record'[RequestId[g]] # g /\ clock > wonAt[g])
  BY <1>2 DEF Unlink
<1>6. /\ doomed' \in [Pruners -> SUBSET Waiters]
      /\ \A q \in Pruners : \A g \in doomed'[q] : g \in doomed[q] /\ g \in Waiters
  BY <1>2 DEF Unlink
<1>7. TypeOK'
  BY <1>1, <1>2, <1>4, <1>5, <1>6, Types DEF TypeOK, Waits
<1>8. \A g \in Waiters : /\ Registered(g)' <=> Registered(g)
                         /\ Content(g)' = Content(g)
                         /\ Engaged(g)' <=> Engaged(g)
                         /\ Claiming(g)' <=> Claiming(g)
                         /\ Claiming(g) => Engaged(g)
  <2>1. \A v \in Waiters : waiter'[v].pc = "claiming" <=> waiter[v].pc = "claiming"
    BY <1>3
  <2>2. \A g \in Waiters : (Registered(g)' <=> Registered(g)) /\ Content(g)' = Content(g)
    BY <1>3 DEF Registered, Content
  <2>3. \A g \in Waiters : Engaged(g)' <=> Engaged(g)
    BY <1>1, <1>3 DEF Engaged
  <2>4. \A g \in Waiters : Claiming(g)' <=> Claiming(g)
    BY <1>1, <1>3, <2>1 DEF Claiming
  <2>5. \A g \in Waiters : Claiming(g) => Engaged(g)
    BY DEF Claiming, Engaged, Active
  <2>6. QED
    BY <2>2, <2>3, <2>4, <2>5
<1>9. \A g \in Waiters : Listed(g)' => Listed(g) /\ winner'[g] = winner[g] /\ EffectiveAt(g)' = EffectiveAt(g)
  <2>1. ASSUME NEW g \in Waiters, Listed(g)'
        PROVE  Listed(g) /\ winner'[g] = winner[g]
    <3>1. record'[RequestId[g]] = g /\ RequestId[g] \in Ids
      BY <1>2, <2>1 DEF Listed
    <3>2. record[RequestId[g]] = g
      BY <1>2, <1>4, <3>1
    <3>3. QED
      BY <1>2, <1>4, <1>5, <3>1, <3>2 DEF Listed
  <2>2. QED
    BY <1>1, <2>1 DEF EffectiveAt
<1>10. \A g \in Waiters : Recent(g)' => Recent(g)
  <2>1. ASSUME NEW g \in Waiters
        PROVE  EffectiveAt(g)' <= EffectiveAt(g) /\ EffectiveAt(g)' \in Nat /\ EffectiveAt(g) \in Nat
    <3>1. writtenAt[g] \in Nat /\ wonAt[g] \in Nat /\ (winner[g] # None => writtenAt[g] <= wonAt[g])
      BY <1>2, Times DEF GrantInv
    <3>2. QED
      BY <1>1, <1>5, <3>1 DEF EffectiveAt
  <2>2. QED
    BY <1>1, <1>2, <2>1, Constants DEF Recent
<1>11. \A v \in Waiters : WaiterInv(v)'
  <2>1. ASSUME NEW v \in Waiters
        PROVE  WaiterInv(v)'
    <3>1. WaiterInv(v) /\ waiter[v] \in Waits
      BY <1>2 DEF RegistryInv
    <3>2. waiter[v].gen # None => waiter[v].gen \in Waiters
      BY <3>1 DEF Waits
    <3>3. \A pc \in {"start", "registering", "telling", "answer", "claiming", "done"} : waiter'[v].pc = pc => waiter[v].pc = pc
      BY <1>3
    <3>4. waiter'[v].pc # "done" => waiter[v].pc # "done"
      BY <1>3
    <3>5. waiter[v].gen # None => Registered(waiter[v].gen)' /\ RequestId[waiter[v].gen] = RequestId[v] /\ Content(waiter[v].gen)' = Content(v)'
      <4>1. PICK g \in Waiters \cup {None} : g = waiter[v].gen
        BY <3>2
      <4>2. g # None => Registered(g) /\ RequestId[g] = RequestId[v] /\ Content(g) = Content(v)
        BY <3>1, <4>1 DEF WaiterInv
      <4>3. g # None => Registered(g)' /\ RequestId[g] = RequestId[v] /\ Content(g)' = Content(v)'
        BY <1>8, <4>2
      <4>4. waiter'[v].gen = g
        BY <1>3, <4>1
      <4>5. QED
        BY <4>1, <4>3, <4>4 DEF Registered, Content
    <3>6. /\ waiter'[v].gen = waiter[v].gen /\ waiter'[v].outcome = waiter[v].outcome
          /\ waiter'[v].result = waiter[v].result /\ waiter'[v].then = waiter[v].then
          /\ (Active(v)' => Active(v)) /\ granted' = granted
      BY <1>1, <1>3
    <3>7. /\ waiter[v].pc \in {"start", "registering"} => waiter[v].gen = None
          /\ Active(v) => waiter[v].gen # None
          /\ waiter[v].pc # "done" => waiter[v].result = "none"
          /\ waiter[v].pc \in {"telling", "answer"} => <<waiter[v].gen, waiter[v].outcome>> \in granted
          /\ waiter[v].pc = "claiming" => waiter[v].outcome # None /\ waiter[v].then \in {"telling", "answer", "aborted", "ended"}
          /\ waiter[v].result = "unanswered" => waiter[v].gen # None
      BY <3>1 DEF WaiterInv
    <3>8. waiter[v].result \in {"allow", "deny"} =>
            \E o \in Outcomes : <<waiter[v].gen, o>> \in granted /\ waiter[v].result = Answer(o)
      BY <3>1 DEF WaiterInv
    <3>9. waiter'[v].result \in {"allow", "deny"} =>
            \E o \in Outcomes : <<waiter'[v].gen, o>> \in granted' /\ waiter'[v].result = Answer(o)
      BY <3>6, <3>8
    <3>10. waiter[v].gen # None =>
             Registered(waiter[v].gen)' /\ Content(waiter[v].gen)' = Content(v)' /\ RequestId[waiter[v].gen] = RequestId[v]
      BY <3>5
    <3>11. QED
      BY <3>3, <3>4, <3>6, <3>7, <3>9, <3>10 DEF WaiterInv, Registered, Content
  <2>2. QED
    BY <2>1
<1>12. \A g \in Waiters : GrantInv(g)'
  <2> SUFFICES ASSUME NEW g \in Waiters PROVE GrantInv(g)'
    OBVIOUS
  <2>1. GrantInv(g)
    BY <1>2
  <2>2. winner'[g] # winner[g] => ~Listed(g)' /\ ~Claiming(g)' /\ winner'[g] = None
    <3>1. CASE g \in doomed[p]
      BY <1>2, <1>4, <1>5, <1>8, <2>1, <3>1 DEF GrantInv, Listed
    <3>2. CASE winner'[g] # winner[g] /\ g \notin doomed[p]
      <4>1. record'[RequestId[g]] # g /\ clock > wonAt[g] /\ winner[g] # None /\ winner'[g] = None
        BY <1>5, <3>2
      <4>2. wonAt[g] \in Nat
        BY <1>2, Times
      <4>3. QED
        BY <1>2, <1>8, <2>1, <4>1, <4>2 DEF GrantInv, Listed
    <3>3. QED
      BY <3>1, <3>2
  <2>3. \A o \in Outcomes : <<g, o>> \in granted => winner'[g] = o \/ (winner'[g] = None /\ ~Listed(g)' /\ ~Claiming(g)')
    BY <1>5, <1>8, <1>9, <2>1, <2>2 DEF GrantInv
  <2>4. \A q \in Pruners : g \in doomed'[q] => ~Recent(g)' /\ ~Engaged(g)' /\ Registered(g)'
    BY <1>6, <1>8, <1>10, <2>1 DEF GrantInv
  <2>5. Listed(g)' /\ Engaged(g)' => Recent(g)'
    BY <1>1, <1>8, <1>9, <2>1 DEF GrantInv, Recent
  <2>6. Listed(g)' \/ shell' = g \/ (\E o \in Outcomes : <<g, o>> \in granted') \/ (\E q \in Pruners : g \in doomed'[q]) => Registered(g)'
    BY <1>1, <1>8, <1>9, <2>1, <2>4 DEF GrantInv
  <2>7. winner'[g] # None => winner'[g] = winner[g]
    BY <1>5
  <2>8. QED
    BY <1>1, <1>8, <2>1, <2>3, <2>4, <2>5, <2>6, <2>7 DEF GrantInv
<1>13. ASSUME ~clashed'
       PROVE  ClearInv'
  <2>1. ClearInv
    BY <1>1, <1>13 DEF RegistryInv
  <2>2. ASSUME NEW g \in Waiters, Listed(g), ~Listed(g)'
        PROVE  ~Recent(g) /\ ~Engaged(g) /\ clock > EffectiveAt(g) + Retention /\ Over(g)
    <3>1. PICK h \in doomed[p] : RequestId[h] = RequestId[g]
      BY <1>2, <1>4, <2>2 DEF Listed
    <3>2. h = g
      BY <1>2, <2>1, <2>2, <3>1 DEF ClearInv, HeldInv, Listed
    <3>3. ~Recent(g) /\ ~Engaged(g)
      BY <1>2, <3>1, <3>2 DEF GrantInv
    <3>4. writtenAt[g] \in Nat /\ wonAt[g] \in Nat /\ (winner[g] # None => writtenAt[g] <= wonAt[g])
      BY <1>2, Times DEF GrantInv
    <3>5. writtenAt[g] <= EffectiveAt(g) /\ EffectiveAt(g) \in Nat /\ Retention \in Nat
      BY <3>4, Constants DEF EffectiveAt
    <3>6. clock > EffectiveAt(g) + Retention
      BY <1>2, <3>3, <3>5, Times
    <3>7. QED
      BY <1>2, <3>3, <3>4, <3>5, <3>6 DEF Over
  <2>3. HeldInv'
    <3>1. ASSUME NEW v \in Waiters, Active(v)'
          PROVE  Listed(waiter[v].gen)'
      <4>1. Listed(waiter[v].gen) /\ Engaged(waiter[v].gen) /\ waiter[v].gen \in Waiters
        BY <1>3, <2>1, <3>1, WaiterFacts DEF ClearInv, HeldInv
      <4>2. PICK g \in Waiters : g = waiter[v].gen
        BY <4>1
      <4>3. Listed(g)'
        BY <2>2, <4>1, <4>2
      <4>4. QED
        BY <1>3, <4>2, <4>3 DEF Listed
    <3>2. \A v, w \in Waiters : waiter'[v].pc = "registering" /\ w # v /\ RequestId[w] = RequestId[v] => waiter'[w].pc \in {"start", "done"}
      BY <1>3, <2>1 DEF ClearInv, HeldInv
    <3>3. \A q \in Pruners : \A g \in doomed'[q] : record'[RequestId[g]] \in {g, None}
      BY <1>2, <1>4, <1>6, <2>1 DEF ClearInv, HeldInv
    <3>4. QED
      BY <3>1, <3>2, <3>3 DEF HeldInv
  <2>4. ApartInv'
    <3>1. \A g \in Waiters : Over(g)' <=> Over(g)
      BY <1>1 DEF Over
    <3>2. \A g \in Waiters : Registered(g)' /\ ~Listed(g)' => Over(g)'
      BY <1>8, <2>1, <2>2, <3>1 DEF ClearInv, ApartInv
    <3>3. ASSUME NEW v \in Waiters, waiter'[v].pc = "registering", record'[RequestId[v]] # None
          PROVE  ~Recent(record[RequestId[v]])'
      <4>1. waiter[v].pc = "registering" /\ record'[RequestId[v]] = record[RequestId[v]] /\ record[RequestId[v]] \in Waiters
        BY <1>2, <1>3, <1>4, <3>3
      <4>2. ~Recent(record[RequestId[v]])
        BY <1>2, <2>1, <4>1 DEF ClearInv, ApartInv
      <4>3. QED
        BY <1>10, <4>1, <4>2
    <3>4. \A u, v \in Waiters : Apart(u, v)' <=> Apart(u, v)
      BY <1>1 DEF Apart
    <3>5. QED
      BY <1>8, <2>1, <3>2, <3>3, <3>4 DEF ClearInv, ApartInv
  <2>5. CardInv'
    <3>1. ASSUME NEW c \in shown
          PROVE  \E h \in Waiters : Of(c, h)' /\ Lasting(c, h)'
      <4>1. PICK h \in Waiters : Of(c, h) /\ Lasting(c, h)
        BY <2>1 DEF ClearInv, CardInv
      <4>2. Of(c, h)'
        BY <1>8, <4>1 DEF Of
      <4>3. CASE Listed(h)'
        BY <1>1, <1>9, <4>1, <4>2, <4>3 DEF Lasting
      <4>4. CASE ~Listed(h)' /\ ~Listed(h)
        BY <1>1, <4>1, <4>2, <4>4 DEF Lasting
      <4>5. CASE ~Listed(h)' /\ Listed(h)
        <5>1. clock > EffectiveAt(h) + Retention /\ c.until <= EffectiveAt(h) + Retention
          BY <2>2, <4>1, <4>5 DEF Lasting
        <5>2. c.until \in Nat /\ EffectiveAt(h) + Retention \in Nat
          <6>1. c \in Cards
            BY <1>2, Types
          <6>2. QED
            BY <1>2, <6>1, Times, Constants DEF Cards
        <5>3. clock > c.until
          BY <1>2, <5>1, <5>2
        <5>4. QED
          BY <1>1, <4>2, <4>5, <5>3 DEF Lasting
      <4>6. QED
        BY <4>3, <4>4, <4>5
    <3>2. QED
      BY <1>1, <2>1, <3>1 DEF ClearInv, CardInv
  <2>6. AnswerInv'
    <3>1. \A g \in Waiters : Answered(g)' <=> Answered(g)
      BY <1>1, <1>8 DEF Answered, Outlives
    <3>2. \A g \in Waiters : Allowing(g)' => Allowing(g)
      BY <1>3 DEF Allowing
    <3>3. QED
      BY <1>1, <1>3, <2>1, <3>1, <3>2 DEF ClearInv, AnswerInv
  <2>7. QED
    BY <2>3, <2>4, <2>5, <2>6 DEF ClearInv
<1>14. QED
  <2>1. \A id \in Ids : record'[id] # None => RequestId[record'[id]] = id
    BY <1>2, <1>4
  <2>2. \A a \in answers' : a.card \in shown'
    BY <1>1 DEF RegistryInv
  <2>3. QED
    BY <1>7, <1>11, <1>12, <1>13, <2>1, <2>2 DEF RegistryInv

LEMMA PruneStep ==
  ASSUME RegistryInv, MonitorPrune \/ \E w \in Waiters : RegisterPrune(w)
  PROVE  RegistryInv'
<1>1. waiter \in [Waiters -> Waits]
  BY Types DEF RegistryInv
<1>2. CASE MonitorPrune
  BY <1>1, <1>2, UnlinkStep DEF MonitorPrune, Pruners
<1>3. ASSUME NEW w \in Waiters, RegisterPrune(w)
      PROVE  RegistryInv'
  <2>1. Unlink(w) /\ waiter[w].pc = "pruning" /\ w \in Pruners
    BY <1>3 DEF RegisterPrune, Pruners
  <2>2. PICK x : x = [waiter[w] EXCEPT !.pc = "connect"]
    OBVIOUS
  <2>3. x \in Waits
    BY <1>1, <2>2 DEF Waits, Pcs
  <2>4. waiter' = [waiter EXCEPT ![w] = x]
    BY <1>1, <1>3, <2>2 DEF RegisterPrune
  <2>5. waiter' \in [Waiters -> Waits] /\ waiter'[w] = x /\ \A v \in Waiters : v # w => waiter'[v] = waiter[v]
    BY <1>1, <2>3, <2>4
  <2>6. QED
    BY <2>1, <2>2, <2>5, UnlinkStep
<1>4. QED
  BY <1>2, <1>3

\* The monitor decides what it will unlink.
LEMMA ListStep ==
  ASSUME Roomy, RegistryInv, MonitorList
  PROVE  RegistryInv'
<1>1. /\ clock' = clock /\ record' = record /\ writtenAt' = writtenAt /\ winner' = winner /\ wonAt' = wonAt
      /\ waiter' = waiter /\ shell' = shell /\ answers' = answers /\ granted' = granted /\ shown' = shown /\ told' = told
      /\ clashed' = clashed
  BY DEF MonitorList, disk, phone, history
<1>2. PICK D \in SUBSET Waiters : Surplus(D) /\ doomed' = [doomed EXCEPT ![None] = D]
  BY DEF MonitorList
<1>3. /\ TypeOK /\ record \in [Ids -> Waiters \cup {None}] /\ doomed \in [Pruners -> SUBSET Waiters]
      /\ \A id \in Ids : record[id] # None => record[id] \in Waiters /\ RequestId[record[id]] = id
  BY Types DEF RegistryInv
<1>4. /\ doomed' \in [Pruners -> SUBSET Waiters]
      /\ \A p \in Pruners : \A g \in doomed'[p] : g \in doomed[p] \/ g \in D
  BY <1>2, <1>3 DEF Pruners
<1>5. \A g \in D : g \in Waiters /\ Listed(g) /\ ~Recent(g)
  <2>1. PICK S : S = OnDisk
    OBVIOUS
  <2>2. PICK R : R = {g \in S : Recent(g)}
    OBVIOUS
  <2>3. /\ D \in SUBSET S /\ S \ D \subseteq R /\ R \in SUBSET S
        /\ R # S \ D => Cardinality(S \ D) = MaxRecords
    BY <1>2, <2>1, <2>2 DEF Surplus
  <2>4. \A g \in S : \E id \in Ids : record[id] = g /\ g # None
    BY <2>1 DEF OnDisk
  <2>5. R = S \ D
    <3>1. PICK r \in [Ids -> Waiters \cup {None}] : r = record
      BY <1>3
    <3>2. \A g \in S : \E id \in Ids : r[id] = g
      BY <2>4, <3>1
    <3>3. QED
      BY <2>3, <3>2, RoomEnough
  <2>6. QED
    BY <1>3, <2>2, <2>3, <2>4, <2>5 DEF Listed
<1>6. TypeOK'
  BY <1>1, <1>3, <1>4, Types DEF TypeOK, Waits
<1>7. \A g \in Waiters : /\ Registered(g)' <=> Registered(g)
                         /\ Listed(g)' <=> Listed(g)
                         /\ Content(g)' = Content(g) /\ EffectiveAt(g)' = EffectiveAt(g)
                         /\ Recent(g)' <=> Recent(g)
                         /\ Engaged(g)' <=> Engaged(g)
                         /\ Claiming(g)' <=> Claiming(g)
                         /\ Answered(g)' <=> Answered(g)
                         /\ Allowing(g)' <=> Allowing(g)
  BY <1>1 DEF Registered, Listed, Content, EffectiveAt, Recent, Engaged, Claiming, Active, Answered, Allowing, Outlives
<1>8. \A v \in Waiters : WaiterInv(v)'
  BY <1>1 DEF RegistryInv, WaiterInv, Active, Registered, Content
<1>9. \A g \in Waiters : GrantInv(g)'
  <2> SUFFICES ASSUME NEW g \in Waiters PROVE GrantInv(g)'
    OBVIOUS
  <2>1. GrantInv(g)
    BY DEF RegistryInv
  <2>2. \A p \in Pruners : g \in doomed'[p] => ~Recent(g)' /\ ~Engaged(g)' /\ Registered(g)'
    BY <1>4, <1>5, <1>7, <2>1 DEF GrantInv
  <2>3. QED
    BY <1>1, <1>7, <2>1, <2>2 DEF GrantInv
<1>10. ASSUME ~clashed'
       PROVE  ClearInv'
  <2>1. ClearInv
    BY <1>1, <1>10 DEF RegistryInv
  <2>2. HeldInv'
    <3>1. \A p \in Pruners : \A g \in doomed'[p] : record[RequestId[g]] \in {g, None}
      BY <1>4, <1>5, <2>1 DEF ClearInv, HeldInv, Listed
    <3>2. \A v \in Waiters : Active(v)' => Listed(waiter[v].gen)'
      BY <1>1, <2>1 DEF ClearInv, HeldInv, Active, Listed
    <3>3. QED
      BY <1>1, <2>1, <3>1, <3>2 DEF ClearInv, HeldInv
  <2>3. ApartInv'
    BY <1>1, <2>1 DEF ClearInv, ApartInv, Registered, Listed, Over, Recent, EffectiveAt, Apart
  <2>4. CardInv'
    BY <1>1, <1>7, <2>1, CardsKept DEF ClearInv
  <2>5. AnswerInv'
    BY <1>1, <1>7, <2>1 DEF ClearInv, AnswerInv
  <2>6. QED
    BY <2>2, <2>3, <2>4, <2>5 DEF ClearInv
<1>11. QED
  <2>1. /\ \A id \in Ids : record'[id] # None => RequestId[record'[id]] = id
        /\ \A a \in answers' : a.card \in shown'
    BY <1>1 DEF RegistryInv
  <2>2. QED
    BY <1>6, <1>8, <1>9, <1>10, <2>1 DEF RegistryInv
-----------------------------------------------------------------------------
\* An outcome is linked where there is none, by who was about to: it is the first.
LEMMA GrantSound ==
  ASSUME RegistryInv, NEW g \in Waiters, NEW o \in Outcomes, winner[g] = None, Claiming(g),
         winner' = [winner EXCEPT ![g] = o], wonAt' = [wonAt EXCEPT ![g] = clock],
         granted' = granted \cup {<<g, o>>},
         UNCHANGED <<clock, record, writtenAt, doomed, phone, clashed>>,
         shell' \in {shell, None}, waiter' \in [Waiters -> Waits],
         \A v \in Waiters : \/ waiter'[v] = waiter[v]
                            \/ /\ waiter[v].pc = "claiming" /\ waiter[v].gen = g /\ waiter[v].outcome = o
                               /\ waiter'[v] = [waiter[v] EXCEPT !.pc = waiter[v].then],
         ~clashed /\ o = "allow" => Answered(g)
  PROVE  RegistryInv'
<1>1. /\ clock' = clock /\ record' = record /\ writtenAt' = writtenAt /\ doomed' = doomed /\ answers' = answers
      /\ shown' = shown /\ told' = told /\ clashed' = clashed
  BY DEF phone
<1>2. /\ TypeOK /\ None \notin Waiters /\ None \notin Outcomes /\ clock \in Nat /\ Retention \in Nat /\ waiter \in [Waiters -> Waits]
      /\ \A h \in Waiters : GrantInv(h)
  BY Types, Constants DEF RegistryInv
<1>3. \A v \in Waiters : /\ waiter'[v].gen = waiter[v].gen /\ waiter'[v].content = waiter[v].content
                         /\ waiter'[v].outcome = waiter[v].outcome /\ waiter'[v].result = waiter[v].result
                         /\ Active(v)' => Active(v)
                         /\ waiter'[v].pc = waiter[v].pc \/ waiter[v].pc = "claiming"
                         /\ waiter'[v] = waiter[v] \/ waiter'[v].pc \in {"telling", "answer", "aborted", "ended"}
  <2>1. ASSUME NEW v \in Waiters
        PROVE  waiter[v] \in Waits /\ (waiter[v].pc = "claiming" => waiter[v].then \in {"telling", "answer", "aborted", "ended"})
    BY <1>2 DEF RegistryInv, WaiterInv
  <2>2. QED
    BY <2>1 DEF Waits, Active
<1>4. /\ winner' \in [Waiters -> Outcomes \cup {None}] /\ winner'[g] = o
      /\ \A h \in Waiters : h # g => winner'[h] = winner[h]
  BY <1>2, Types
<1>5. /\ wonAt' \in [Waiters -> 0..MaxTime] /\ wonAt'[g] = clock
      /\ \A h \in Waiters : h # g => wonAt'[h] = wonAt[h]
  BY <1>2, Types
<1>6. TypeOK'
  BY <1>1, <1>2, <1>4, <1>5, Types DEF TypeOK, Waits
<1>7. \A h \in Waiters : /\ Registered(h)' <=> Registered(h)
                         /\ Listed(h)' <=> Listed(h)
                         /\ Content(h)' = Content(h)
                         /\ Engaged(h)' => Engaged(h)
                         /\ Claiming(h)' => Claiming(h)
                         /\ h # g => EffectiveAt(h)' = EffectiveAt(h) /\ (Recent(h)' <=> Recent(h))
  <2>1. \A h \in Waiters : (Registered(h)' <=> Registered(h)) /\ (Listed(h)' <=> Listed(h)) /\ Content(h)' = Content(h)
    BY <1>1, <1>3 DEF Registered, Listed, Content
  <2>2. \A h \in Waiters : (Engaged(h)' => Engaged(h)) /\ (Claiming(h)' => Claiming(h))
    BY <1>2, <1>3 DEF Engaged, Claiming
  <2>3. \A h \in Waiters : h # g => EffectiveAt(h)' = EffectiveAt(h) /\ (Recent(h)' <=> Recent(h))
    BY <1>1, <1>4, <1>5 DEF EffectiveAt, Recent
  <2>4. QED
    BY <2>1, <2>2, <2>3
<1>8. /\ EffectiveAt(g)' = clock /\ Recent(g)' /\ EffectiveAt(g) = writtenAt[g] /\ writtenAt[g] <= clock /\ writtenAt[g] \in Nat
      /\ Engaged(g) /\ Registered(g) /\ \A p \in Outcomes : <<g, p>> \notin granted
  <2>1. EffectiveAt(g)' = clock /\ Recent(g)' /\ EffectiveAt(g) = writtenAt[g]
    BY <1>1, <1>2, <1>4, <1>5 DEF EffectiveAt, Recent
  <2>2. Engaged(g)
    BY DEF Claiming, Engaged, Active
  <2>3. Registered(g)
    <3>1. CASE shell = g
      BY <1>2, <3>1 DEF GrantInv
    <3>2. ASSUME NEW v \in Waiters, waiter[v].gen = g
          PROVE  Registered(g)
      BY <1>2, <3>2 DEF RegistryInv, WaiterInv
    <3>3. QED
      BY <3>1, <3>2 DEF Claiming
  <2>4. writtenAt[g] <= clock /\ \A p \in Outcomes : <<g, p>> \notin granted
    BY <1>2 DEF GrantInv
  <2>5. QED
    BY <1>2, <2>1, <2>2, <2>3, <2>4, Times
<1>9. \A v \in Waiters : WaiterInv(v)'
  <2>1. ASSUME NEW v \in Waiters
        PROVE  WaiterInv(v)'
    <3>1. WaiterInv(v) /\ waiter[v] \in Waits
      BY <1>2 DEF RegistryInv
    <3>2. PICK h \in Waiters \cup {None} : h = waiter[v].gen
      BY <3>1 DEF Waits
    <3>3. waiter'[v].gen = h
      BY <1>3, <3>2
    <3>4. h # None => Registered(h)' /\ RequestId[h] = RequestId[v] /\ Content(h)' = Content(v)'
      BY <1>7, <3>1, <3>2 DEF WaiterInv
    <3>5. waiter'[v].pc \in {"telling", "answer"} => <<h, waiter'[v].outcome>> \in granted'
      BY <1>3, <3>1, <3>2 DEF WaiterInv
    <3>6. waiter'[v].pc = "claiming" => waiter'[v] = waiter[v]
      BY <1>3
    <3>7. waiter'[v].result \in {"allow", "deny"} => \E p \in Outcomes : <<h, p>> \in granted' /\ waiter'[v].result = Answer(p)
      <4>1. waiter'[v].result = waiter[v].result /\ \A p \in Outcomes : <<h, p>> \in granted => <<h, p>> \in granted'
        BY <1>1, <1>3
      <4>2. waiter[v].result \in {"allow", "deny"} => \E p \in Outcomes : <<h, p>> \in granted /\ waiter[v].result = Answer(p)
        BY <3>1, <3>2 DEF WaiterInv
      <4>3. QED
        BY <4>1, <4>2
    <3>8. /\ waiter'[v].pc \in {"start", "registering"} => h = None
          /\ Active(v)' => h # None
          /\ waiter'[v].pc # "done" => waiter'[v].result = "none"
          /\ waiter'[v].result = "unanswered" => h # None
      <4>1. /\ waiter[v].pc \in {"start", "registering"} => h = None
            /\ Active(v) => h # None
            /\ waiter[v].pc # "done" => waiter[v].result = "none"
            /\ waiter[v].result = "unanswered" => h # None
        BY <3>1, <3>2 DEF WaiterInv
      <4>2. /\ waiter'[v].result = waiter[v].result /\ (Active(v)' => Active(v))
            /\ waiter'[v].pc = waiter[v].pc \/ waiter'[v].pc \in {"telling", "answer", "aborted", "ended"}
            /\ waiter'[v].pc = waiter[v].pc \/ waiter[v].pc = "claiming"
        BY <1>3
      <4>3. QED
        BY <4>1, <4>2
    <3>9. waiter'[v].pc = "claiming" => waiter'[v].outcome # None /\ waiter'[v].then \in {"telling", "answer", "aborted", "ended"}
      BY <3>1, <3>6 DEF WaiterInv
    <3>10. h # None => Registered(waiter[v].gen)' /\ RequestId[waiter'[v].gen] = RequestId[v] /\ Content(waiter[v].gen)' = Content(v)'
      BY <3>3, <3>4 DEF Registered, Content
    <3>11. QED
      BY <3>3, <3>5, <3>7, <3>8, <3>9, <3>10 DEF WaiterInv
  <2>2. QED
    BY <2>1
<1>10. \A h \in Waiters : GrantInv(h)'
  <2>1. ASSUME NEW h \in Waiters, h # g
        PROVE  GrantInv(h)'
    <3>1. GrantInv(h)
      BY <1>2
    <3>2. \A p \in Outcomes : <<h, p>> \in granted' <=> <<h, p>> \in granted
      BY <2>1
    <3>3. shell' = h => shell = h
      BY <1>2
    <3>4. winner'[h] = winner[h] /\ wonAt'[h] = wonAt[h]
      BY <1>4, <1>5, <2>1
    <3>5. winner[h] \in Outcomes \cup {None} /\ told[h] \subseteq Outcomes
      BY <1>2, Types
    <3>6. QED
      BY <1>1, <1>7, <2>1, <3>1, <3>2, <3>3, <3>4, <3>5 DEF GrantInv
  <2>2. GrantInv(g)'
    <3>1. \A p \in Pruners : g \notin doomed[p]
      BY <1>2, <1>8 DEF GrantInv
    <3>2. told[g] = {}
      <4>1. \A p \in told[g] : <<g, p>> \in granted
        BY <1>2 DEF GrantInv
      <4>2. told[g] \subseteq Outcomes
        BY <1>2, Types
      <4>3. QED
        BY <1>8, <4>1, <4>2
    <3>3. \A p \in Outcomes : <<g, p>> \in granted' => p = o
      BY <1>8
    <3>4. Registered(g)'
      BY <1>7, <1>8
    <3>5. QED
      BY <1>1, <1>2, <1>4, <1>5, <1>8, <3>1, <3>2, <3>3, <3>4 DEF GrantInv
  <2>3. QED
    BY <2>1, <2>2
<1>11. ASSUME ~clashed'
       PROVE  ClearInv'
  <2>1. ClearInv
    BY <1>1, <1>11 DEF RegistryInv
  <2>2. HeldInv'
    <3>1. \A v \in Waiters : Active(v)' => Listed(waiter[v].gen)'
      BY <1>1, <1>3, <2>1 DEF ClearInv, HeldInv, Listed
    <3>2. \A v, w \in Waiters : waiter'[v].pc = "registering" /\ w # v /\ RequestId[w] = RequestId[v] => waiter'[w].pc \in {"start", "done"}
      BY <1>3, <2>1 DEF ClearInv, HeldInv
    <3>3. QED
      BY <1>1, <2>1, <3>1, <3>2 DEF ClearInv, HeldInv
  <2>3. ApartInv'
    <3>1. ASSUME NEW v \in Waiters, waiter'[v].pc = "registering", record[RequestId[v]] # None
          PROVE  ~Recent(record[RequestId[v]])'
      <4>1. waiter[v].pc = "registering" /\ ~Recent(record[RequestId[v]]) /\ record[RequestId[v]] \in Waiters
            /\ RequestId[record[RequestId[v]]] = RequestId[v]
        <5>1. waiter[v].pc = "registering"
          BY <1>3, <3>1
        <5>2. RequestId[v] \in Ids
          BY Constants
        <5>3. QED
          BY <1>2, <2>1, <3>1, <5>1, <5>2, Types DEF ClearInv, ApartInv, RegistryInv
      <4>2. PICK h \in Waiters : h = record[RequestId[v]]
        BY <4>1
      <4>3. h # g
        <5>1. Listed(h) /\ ~Recent(h)
          BY <4>1, <4>2 DEF Listed
        <5>2. Listed(g) => Recent(g)
          BY <1>2, <1>8 DEF GrantInv
        <5>3. QED
          BY <5>1, <5>2
      <4>4. ~Recent(h)'
        BY <1>7, <4>1, <4>2, <4>3
      <4>5. QED
        BY <1>1, <4>2, <4>4 DEF Recent, EffectiveAt
    <3>2. \A h \in Waiters : Over(h)' <=> Over(h)
      BY <1>1 DEF Over
    <3>3. \A u, v \in Waiters : Apart(u, v)' <=> Apart(u, v)
      BY <1>1 DEF Apart
    <3>4. QED
      BY <1>1, <1>7, <2>1, <3>1, <3>2, <3>3 DEF ClearInv, ApartInv
  <2>4. CardInv'
    <3>1. ASSUME NEW c \in shown
          PROVE  \E h \in Waiters : Of(c, h)' /\ Lasting(c, h)'
      <4>1. PICK h \in Waiters : Of(c, h) /\ Lasting(c, h)
        BY <2>1 DEF ClearInv, CardInv
      <4>2. Of(c, h)'
        BY <1>7, <4>1 DEF Of
      <4>3. c.until \in Nat
        <5>1. c \in Cards
          BY <1>2, Types
        <5>2. QED
          BY <5>1, Constants DEF Cards
      <4>4. CASE h = g
        BY <1>1, <1>2, <1>7, <1>8, <4>1, <4>2, <4>3, <4>4 DEF Lasting
      <4>5. CASE h # g
        BY <1>1, <1>7, <4>1, <4>2, <4>5 DEF Lasting
      <4>6. QED
        BY <4>4, <4>5
    <3>2. QED
      BY <1>1, <2>1, <3>1 DEF ClearInv, CardInv
  <2>5. AnswerInv'
    <3>1. \A h \in Waiters : Answered(h)' <=> Answered(h)
      BY <1>1, <1>7 DEF Answered, Outlives
    <3>2. \A h \in Waiters : Allowing(h)' => Allowing(h)
      BY <1>3 DEF Allowing
    <3>3. \A h \in Waiters : <<h, "allow">> \in granted' => <<h, "allow">> \in granted \/ (h = g /\ o = "allow")
      OBVIOUS
    <3>4. \A h \in Waiters : <<h, "allow">> \in granted' \/ Allowing(h)' => Answered(h)'
      BY <1>1, <1>11, <2>1, <3>1, <3>2, <3>3 DEF ClearInv, AnswerInv
    <3>5. \A v \in Waiters : waiter'[v].result = "unanswered" => <<waiter'[v].gen, "expired">> \in granted'
      BY <1>3, <2>1 DEF ClearInv, AnswerInv
    <3>6. QED
      BY <3>4, <3>5 DEF AnswerInv
  <2>6. QED
    BY <2>2, <2>3, <2>4, <2>5 DEF ClearInv
<1>12. QED
  <2>1. /\ \A id \in Ids : record'[id] # None => RequestId[record'[id]] = id
        /\ \A a \in answers' : a.card \in shown'
    BY <1>1 DEF RegistryInv
  <2>2. QED
    BY <1>6, <1>9, <1>10, <1>11, <2>1 DEF RegistryInv

LEMMA ClaimStep ==
  ASSUME RegistryInv, NEW w \in Waiters, Claim(w)
  PROVE  RegistryInv'
<1> USE DEF Claim
<1>1. /\ waiter[w].pc = "claiming" /\ Active(w) /\ waiter[w] \in Waits /\ WaiterInv(w) /\ waiter \in [Waiters -> Waits]
      /\ waiter[w].outcome \in Outcomes /\ waiter[w].then \in {"telling", "answer", "aborted", "ended"}
      /\ waiter[w].result = "none"
  BY WaiterFacts, Types DEF Active, WaiterInv
<1>2. PICK g \in Waiters : g = waiter[w].gen
  BY <1>1, WaiterFacts
<1>3. GrantInv(g) /\ winner[g] \in Outcomes \cup {None} /\ clashed \in BOOLEAN
  BY Types DEF RegistryInv
<1>4. CASE winner[g] = None
  <2>1. PICK x : x = [waiter[w] EXCEPT !.pc = waiter[w].then]
    OBVIOUS
  <2>2. x \in Waits
    BY <1>1, <2>1 DEF Waits, Pcs
  <2>3. waiter' = [waiter EXCEPT ![w] = x]
    BY <1>1, <1>2, <1>4, <2>1
  <2>4. waiter' \in [Waiters -> Waits] /\ waiter'[w] = x /\ \A v \in Waiters : v # w => waiter'[v] = waiter[v]
    BY <1>1, <2>2, <2>3
  <2>5. PICK o \in Outcomes : o = waiter[w].outcome
    BY <1>1
  <2>6. /\ winner' = [winner EXCEPT ![g] = o] /\ wonAt' = [wonAt EXCEPT ![g] = clock] /\ granted' = granted \cup {<<g, o>>}
        /\ UNCHANGED <<clock, record, writtenAt, doomed, phone, clashed>> /\ shell' = shell
    BY <1>2, <1>4, <2>5
  <2>7. Claiming(g)
    BY <1>1, <1>2 DEF Claiming
  <2>8. ~clashed /\ o = "allow" => Answered(g)
    BY <1>1, <1>2, <2>5 DEF RegistryInv, ClearInv, AnswerInv, Allowing
  <2>9. \A v \in Waiters : \/ waiter'[v] = waiter[v]
                           \/ /\ waiter[v].pc = "claiming" /\ waiter[v].gen = g /\ waiter[v].outcome = o
                              /\ waiter'[v] = [waiter[v] EXCEPT !.pc = waiter[v].then]
    BY <1>1, <1>2, <2>1, <2>4, <2>5
  <2>10. QED
    BY <1>4, <2>4, <2>6, <2>7, <2>8, <2>9, GrantSound
<1>5. CASE winner[g] # None
  <2>1. PICK x : x = [waiter[w] EXCEPT !.pc = waiter[w].then, !.outcome = winner[g]]
    OBVIOUS
  <2>2. waiter' = [waiter EXCEPT ![w] = x]
    BY <1>1, <1>2, <1>5, <2>1
  <2>3. x \in Waits /\ x.gen = g /\ x.content = waiter[w].content /\ x.result = "none" /\ x.pc = waiter[w].then /\ x.outcome = winner[g]
    BY <1>1, <1>2, <1>3, <1>5, <2>1 DEF Waits, Pcs
  <2>4. /\ UNCHANGED <<clock, disk, shell, shown, answers, granted>> /\ clashed' = clashed /\ doomed' = doomed /\ told' = told
    BY <1>2, <1>5 DEF disk, phone
  <2>5. <<x.gen, x.outcome>> \in granted
    BY <1>3, <1>5, <2>3 DEF GrantInv
  <2>6. /\ x.gen = waiter[w].gen /\ x.gen # None
        /\ x.pc \in {"telling", "answer", "aborted", "ended"}
        /\ x.result \notin {"allow", "deny", "unanswered"}
    BY <1>1, <1>2, <2>3, Constants
  <2> HIDE DEF Claim
  <2>7. QED
    BY <1>1, <1>3, <2>2, <2>3, <2>4, <2>5, <2>6, LocalStep
<1>6. QED
  BY <1>4, <1>5

\* The after-shell hook reads a registration it may cancel, or lets go of one.
LEMMA ShellSound ==
  ASSUME RegistryInv, shell' \in Waiters \cup {None},
         shell' # None => Listed(shell') /\ winner[shell'] = None /\ Recent(shell'),
         UNCHANGED <<clock, disk, waiter, doomed, phone, history>>
  PROVE  RegistryInv'
<1>1. /\ clock' = clock /\ record' = record /\ writtenAt' = writtenAt /\ winner' = winner /\ wonAt' = wonAt
      /\ waiter' = waiter /\ doomed' = doomed /\ answers' = answers /\ granted' = granted /\ shown' = shown /\ told' = told
      /\ clashed' = clashed
  BY DEF disk, phone, history
<1>2. TypeOK'
  BY <1>1, Types DEF RegistryInv, TypeOK, Waits
<1>3. \A g \in Waiters : /\ Registered(g)' <=> Registered(g)
                         /\ Listed(g)' <=> Listed(g)
                         /\ Recent(g)' <=> Recent(g)
                         /\ Engaged(g)' => Engaged(g) \/ shell' = g
                         /\ Claiming(g)' => Claiming(g) \/ shell' = g
                         /\ Answered(g)' <=> Answered(g)
                         /\ Allowing(g)' <=> Allowing(g)
  BY <1>1 DEF Registered, Listed, Content, EffectiveAt, Recent, Engaged, Claiming, Active, Answered, Allowing, Outlives
<1>4. \A v \in Waiters : WaiterInv(v)'
  BY <1>1 DEF RegistryInv, WaiterInv, Active, Registered, Content
<1>5. \A g \in Waiters : GrantInv(g)'
  <2> SUFFICES ASSUME NEW g \in Waiters PROVE GrantInv(g)'
    OBVIOUS
  <2>1. GrantInv(g) /\ g # None
    BY Constants DEF RegistryInv
  <2>2. shell' = g => Listed(g) /\ winner[g] = None /\ Recent(g) /\ Registered(g)
    BY <2>1 DEF GrantInv
  <2>3. QED
    BY <1>1, <1>3, <2>1, <2>2 DEF GrantInv
<1>6. ASSUME ~clashed'
      PROVE  ClearInv'
  <2>1. ClearInv
    BY <1>1, <1>6 DEF RegistryInv
  <2>2. HeldInv'
    BY <1>1, <2>1 DEF ClearInv, HeldInv, Active, Listed
  <2>3. ApartInv'
    BY <1>1, <2>1 DEF ClearInv, ApartInv, Registered, Listed, Over, Recent, EffectiveAt, Apart
  <2>4. CardInv'
    BY <1>1, <1>3, <2>1, CardsKept DEF ClearInv
  <2>5. AnswerInv'
    BY <1>1, <1>3, <2>1 DEF ClearInv, AnswerInv
  <2>6. QED
    BY <2>2, <2>3, <2>4, <2>5 DEF ClearInv
<1>7. QED
  <2>1. /\ \A id \in Ids : record'[id] # None => RequestId[record'[id]] = id
        /\ \A a \in answers' : a.card \in shown'
    BY <1>1 DEF RegistryInv
  <2>2. QED
    BY <1>2, <1>4, <1>5, <1>6, <2>1 DEF RegistryInv

LEMMA ShellStep ==
  ASSUME RegistryInv, ShellClaim \/ \E g \in Waiters : ShellRead(g)
  PROVE  RegistryInv'
<1>1. ASSUME NEW g \in Waiters, ShellRead(g)
      PROVE  RegistryInv'
  <2>1. shell' = g /\ g \in OnDisk /\ winner[g] = None /\ clock - writtenAt[g] <= PendingAge
        /\ UNCHANGED <<clock, disk, waiter, doomed, phone, history>>
    BY <1>1 DEF ShellRead
  <2>2. Listed(g)
    BY <2>1 DEF OnDisk, RegistryInv, Listed
  <2>3. Recent(g)
    <3>1. clock \in Nat /\ writtenAt[g] \in Nat /\ PendingAge \in Nat /\ Retention \in Nat /\ PendingAge <= Retention
      BY Times, Constants DEF RegistryInv
    <3>2. QED
      BY <2>1, <3>1 DEF Recent, EffectiveAt
  <2>4. PICK h \in Waiters : h = shell'
    BY <2>1
  <2>5. Listed(shell') /\ Recent(shell') /\ winner[shell'] = None
    BY <2>1, <2>2, <2>3
  <2>6. QED
    BY <2>1, <2>5, ShellSound
<1>2. CASE ShellClaim
  <2>1. PICK g \in Waiters : g = shell
    BY <1>2, Types DEF ShellClaim, RegistryInv
  <2>2. CASE record[RequestId[g]] = g /\ winner[g] = None
    <3>1. /\ winner' = [winner EXCEPT ![g] = "local"] /\ wonAt' = [wonAt EXCEPT ![g] = clock]
          /\ granted' = granted \cup {<<g, "local">>}
          /\ UNCHANGED <<clock, record, writtenAt, doomed, phone, clashed>> /\ waiter' = waiter /\ shell' = None
      BY <1>2, <2>1, <2>2 DEF ShellClaim
    <3>2. waiter \in [Waiters -> Waits] /\ Claiming(g)
      BY <2>1, Types DEF RegistryInv, Claiming
    <3>3. "local" \in Outcomes
      BY DEF Outcomes
    <3>4. \A v \in Waiters : waiter'[v] = waiter[v]
      BY <3>1
    <3>5. QED
      BY <2>2, <3>1, <3>2, <3>3, <3>4, GrantSound
  <2>3. CASE ~(record[RequestId[g]] = g /\ winner[g] = None)
    <3>1. UNCHANGED <<clock, disk, waiter, doomed, phone, history>> /\ shell' = None
      BY <1>2, <2>1, <2>3 DEF ShellClaim, disk, history
    <3>2. QED
      BY <3>1, ShellSound
  <2>4. QED
    BY <2>2, <2>3
<1>3. QED
  BY <1>1, <1>2

\* The person answers a card the phone was shown, or nothing happens.
LEMMA AnswersGrow ==
  ASSUME RegistryInv, answers \subseteq answers', answers' \subseteq Replies,
         \A a \in answers' : a.card \in shown,
         UNCHANGED <<clock, disk, waiter, doomed, shell, shown, told, history>>
  PROVE  RegistryInv'
<1>1. /\ clock' = clock /\ record' = record /\ writtenAt' = writtenAt /\ winner' = winner /\ wonAt' = wonAt
      /\ waiter' = waiter /\ shell' = shell /\ doomed' = doomed /\ granted' = granted /\ shown' = shown /\ told' = told
      /\ clashed' = clashed
  BY DEF disk, history
<1>2. TypeOK'
  BY <1>1, Types DEF RegistryInv, TypeOK, Waits, Replies
<1>3. \A g \in Waiters : Answered(g) => Answered(g)'
  BY <1>1 DEF Answered, Outlives, Content
<1>4. \A v \in Waiters : WaiterInv(v)'
  BY <1>1 DEF RegistryInv, WaiterInv, Active, Registered, Content
<1>5. \A g \in Waiters : GrantInv(g)'
  BY <1>1 DEF RegistryInv, GrantInv, Active, Registered, Listed, Engaged, Claiming, Recent, EffectiveAt
<1>6. ASSUME ~clashed'
      PROVE  ClearInv'
  <2>1. ClearInv
    BY <1>1, <1>6 DEF RegistryInv
  <2>2. HeldInv'
    BY <1>1, <2>1 DEF ClearInv, HeldInv, Active, Listed
  <2>3. ApartInv'
    BY <1>1, <2>1 DEF ClearInv, ApartInv, Registered, Listed, Over, Recent, EffectiveAt, Apart
  <2>4. CardInv'
    BY <1>1, <2>1, CardsKept DEF ClearInv, Registered
  <2>5. AnswerInv'
    BY <1>1, <1>3, <2>1 DEF ClearInv, AnswerInv, Allowing
  <2>6. QED
    BY <2>2, <2>3, <2>4, <2>5 DEF ClearInv
<1>7. QED
  <2>1. /\ \A id \in Ids : record'[id] # None => RequestId[record'[id]] = id
        /\ \A a \in answers' : a.card \in shown'
    BY <1>1 DEF RegistryInv
  <2>2. QED
    BY <1>2, <1>4, <1>5, <1>6, <2>1 DEF RegistryInv

LEMMA DecideStep ==
  ASSUME RegistryInv, NEW card \in shown, NEW answer \in {"allow", "deny"}, Decide(card, answer)
  PROVE  RegistryInv'
<1>1. [card |-> card, answer |-> answer] \in Replies
  BY Types DEF RegistryInv, Replies
<1>2. answers \subseteq Replies /\ \A a \in answers : a.card \in shown
  BY Types DEF RegistryInv
<1>3. /\ answers' = answers \cup {[card |-> card, answer |-> answer]}
      /\ UNCHANGED <<clock, disk, waiter, doomed, shell, shown, told, history>>
  BY DEF Decide
<1>4. answers' \subseteq Replies /\ \A a \in answers' : a.card \in shown
  BY <1>1, <1>2, <1>3
<1>5. QED
  BY <1>3, <1>4, AnswersGrow

\* Time passes when nobody waits; what was forgotten stays forgotten.
LEMMA TickStep ==
  ASSUME RegistryInv, Tick
  PROVE  RegistryInv'
<1>1. /\ clock' = clock + 1 /\ record' = record /\ writtenAt' = writtenAt /\ winner' = winner /\ wonAt' = wonAt
      /\ waiter' = waiter /\ shell' = shell /\ doomed' = doomed /\ answers' = answers /\ granted' = granted
      /\ shown' = shown /\ told' = told /\ clashed' = clashed
  BY DEF Tick, disk, phone, history
<1>2. /\ TypeOK /\ clock \in Nat /\ clock < MaxTime /\ MaxTime \in Nat /\ Retention \in Nat /\ None \notin Waiters
  BY Types, Constants DEF RegistryInv, Tick
<1>3. TypeOK'
  <2>1. clock' \in 0..MaxTime
    BY <1>1, <1>2
  <2>2. QED
    BY <1>1, <1>2, <2>1, Types DEF TypeOK, Waits
<1>4. \A g \in Waiters : ~Engaged(g)' /\ ~Claiming(g)'
  BY <1>1, <1>2 DEF Tick, Engaged, Claiming, Active
<1>5. \A g \in Waiters : /\ writtenAt[g] \in Nat /\ wonAt[g] \in Nat /\ EffectiveAt(g) \in Nat /\ EffectiveAt(g)' = EffectiveAt(g)
                         /\ Recent(g)' => Recent(g)
                         /\ Over(g) => Over(g)'
                         /\ Registered(g)' <=> Registered(g)
                         /\ Listed(g)' <=> Listed(g)
  <2>1. \A g \in Waiters : writtenAt[g] \in Nat /\ wonAt[g] \in Nat /\ EffectiveAt(g) \in Nat
    BY <1>2, Times
  <2>2. \A g \in Waiters : EffectiveAt(g)' = EffectiveAt(g)
    BY <1>1 DEF EffectiveAt
  <2>3. QED
    BY <1>1, <1>2, <2>1, <2>2 DEF Recent, Over, Registered, Listed
<1>6. \A v \in Waiters : WaiterInv(v)'
  BY <1>1 DEF RegistryInv, WaiterInv, Active, Registered, Content
<1>7. \A g \in Waiters : GrantInv(g)'
  <2> SUFFICES ASSUME NEW g \in Waiters PROVE GrantInv(g)'
    OBVIOUS
  <2>1. GrantInv(g)
    BY DEF RegistryInv
  <2>2. writtenAt[g] <= clock' /\ (wonAt[g] <= clock => wonAt[g] <= clock')
    BY <1>1, <1>2, <1>5, <2>1 DEF GrantInv
  <2>3. QED
    BY <1>1, <1>4, <1>5, <2>1, <2>2 DEF GrantInv
<1>8. ASSUME ~clashed'
      PROVE  ClearInv'
  <2>1. ClearInv
    BY <1>1, <1>8 DEF RegistryInv
  <2>2. \A v \in Waiters : waiter[v].pc \in {"start", "done"}
    BY DEF Tick
  <2>3. HeldInv'
    BY <1>1, <2>1, <2>2 DEF ClearInv, HeldInv, Active
  <2>4. ApartInv'
    BY <1>1, <1>5, <2>1, <2>2 DEF ClearInv, ApartInv, Apart
  <2>5. CardInv'
    <3>1. ASSUME NEW c \in shown
          PROVE  \E h \in Waiters : Of(c, h)' /\ Lasting(c, h)'
      <4>1. PICK h \in Waiters : Of(c, h) /\ Lasting(c, h)
        BY <2>1 DEF ClearInv, CardInv
      <4>2. Of(c, h)'
        BY <1>1, <4>1 DEF Of, Registered, Content
      <4>3. c.until \in Nat
        <5>1. c \in Cards
          BY <1>2, Types
        <5>2. QED
          BY <5>1, Constants DEF Cards
      <4>4. QED
        BY <1>1, <1>2, <1>5, <4>1, <4>2, <4>3 DEF Lasting
    <3>2. QED
      BY <1>1, <2>1, <3>1 DEF ClearInv, CardInv
  <2>6. AnswerInv'
    BY <1>1, <2>1 DEF ClearInv, AnswerInv, Answered, Allowing, Outlives, Content
  <2>7. QED
    BY <2>3, <2>4, <2>5, <2>6 DEF ClearInv
<1>9. QED
  <2>1. /\ \A id \in Ids : record'[id] # None => RequestId[record'[id]] = id
        /\ \A a \in answers' : a.card \in shown'
    BY <1>1 DEF RegistryInv
  <2>2. QED
    BY <1>3, <1>6, <1>7, <1>8, <2>1 DEF RegistryInv
-----------------------------------------------------------------------------
LEMMA RegistryInit == Init => RegistryInv
<1> SUFFICES ASSUME Init PROVE RegistryInv
  OBVIOUS
<1> USE DEF Init
<1>1. waiter \in [Waiters -> Waits] /\ \A w \in Waiters : \E c \in Contents : waiter[w] = NewWaiter(c)
  <2>1. \A c \in Contents : NewWaiter(c) \in Waits
    BY DEF NewWaiter, Waits, Pcs, Results
  <2>2. QED
    BY <2>1
<1>2. \A w \in Waiters : waiter[w].pc = "start" /\ waiter[w].gen = None /\ waiter[w].result = "none"
  BY <1>1 DEF NewWaiter
<1>3. /\ \A id \in Ids : record[id] = None
      /\ \A g \in Waiters : writtenAt[g] = 0 /\ winner[g] = None /\ told[g] = {} /\ RequestId[g] \in Ids
      /\ \A p \in Pruners : doomed[p] = {}
      /\ None \notin Waiters /\ clock = 0
  BY Constants
<1>4. TypeOK
  <2>1. 0 \in 0..MaxTime
    BY Constants
  <2>2. /\ clock \in 0..MaxTime /\ writtenAt \in [Waiters -> 0..MaxTime] /\ wonAt \in [Waiters -> 0..MaxTime]
        /\ record \in [Ids -> Waiters \cup {None}] /\ winner \in [Waiters -> Outcomes \cup {None}]
    BY <2>1
  <2>3. /\ doomed \in [Pruners -> SUBSET Waiters] /\ shell \in Waiters \cup {None} /\ told \in [Waiters -> SUBSET Outcomes]
        /\ shown \subseteq Cards /\ answers \subseteq Replies /\ granted \subseteq Waiters \X Outcomes /\ clashed \in BOOLEAN
    OBVIOUS
  <2> HIDE DEF Init
  <2>4. QED
    BY <1>1, <2>2, <2>3, Types
<1>5. \A g \in Waiters : ~Engaged(g) /\ ~Claiming(g) /\ ~Listed(g) /\ ~Registered(g)
  BY <1>2, <1>3 DEF Engaged, Claiming, Listed, Registered, Active
<1>6. \A w \in Waiters : WaiterInv(w)
  BY <1>2 DEF WaiterInv, Active
<1>7. \A g \in Waiters : GrantInv(g)
  BY <1>3, <1>5 DEF GrantInv
<1>8. HeldInv /\ ApartInv /\ CardInv /\ AnswerInv
  BY <1>2, <1>3, <1>5 DEF HeldInv, ApartInv, CardInv, AnswerInv, Active, Allowing
<1>9. QED
  BY <1>3, <1>4, <1>6, <1>7, <1>8 DEF RegistryInv, ClearInv

LEMMA Idle ==
  ASSUME RegistryInv, UNCHANGED vars
  PROVE  RegistryInv'
<1>1. UNCHANGED <<clock, disk, waiter, doomed, shell, shown, told, history>> /\ answers' = answers
  BY DEF vars, phone
<1>2. answers \subseteq Replies /\ \A a \in answers : a.card \in shown
  BY Types DEF RegistryInv
<1>3. QED
  BY <1>1, <1>2, AnswersGrow

LEMMA RegistryStep ==
  ASSUME Roomy, RegistryInv, [Next]_vars
  PROVE  RegistryInv'
<1>1. ASSUME NEW w \in Waiters, Progress(w)
      PROVE  RegistryInv'
  BY <1>1, RegisterReadStep, RegisterWriteStep, PruneStep, SendStep, ClaimStep, TellStep, PollStep, TimeoutStep, EndStep,
     AbortedStep DEF Progress
<1>2. ASSUME NEW w \in Waiters, Abort(w) \/ Crash(w) \/ \E a \in answers : Message(w, a)
      PROVE  RegistryInv'
  BY <1>2, AbortStep, CrashStep, MessageStep
<1>3. CASE \E card \in shown, answer \in {"allow", "deny"} : Decide(card, answer)
  BY <1>3, DecideStep
<1>4. CASE ShellClaim \/ \E g \in Waiters : ShellRead(g)
  BY <1>4, ShellStep
<1>5. CASE MonitorList \/ MonitorPrune \/ Tick
  BY <1>5, ListStep, PruneStep, TickStep
<1>6. CASE UNCHANGED vars
  BY <1>6, Idle
<1>7. QED
  BY <1>1, <1>2, <1>3, <1>4, <1>5, <1>6 DEF Next

LEMMA RegistryInvariant == ASSUME Roomy PROVE Spec => []RegistryInv
<1>1. RegistryInv /\ [Next]_vars => RegistryInv'
  BY RegistryStep
<1>2. QED
  BY <1>1, RegistryInit, PTL DEF Spec
-----------------------------------------------------------------------------
\* Types alone need no room: whoever waits has a registration in hand, and what
\* it is about to link or to tell is an outcome.
Formed(x) ==
  /\ x.pc \notin {"start", "registering", "done"} => x.gen \in Waiters
  /\ x.pc \in {"claiming", "telling", "answer"} => x.outcome \in Outcomes

FormInv == TypeOK /\ \A w \in Waiters : Formed(waiter[w])

\* A step of one waiter.
LEMMA FormStep ==
  ASSUME FormInv, NEW w \in Waiters, NEW x \in Waits, waiter' = [waiter EXCEPT ![w] = x], Formed(x),
         clock' = clock, shell' = shell, answers' = answers,
         record' \in [Ids -> Waiters \cup {None}], writtenAt' \in [Waiters -> 0..MaxTime],
         winner' \in [Waiters -> Outcomes \cup {None}], wonAt' \in [Waiters -> 0..MaxTime],
         doomed' \in [Pruners -> SUBSET Waiters], shown' \subseteq Cards,
         told' \in [Waiters -> SUBSET Outcomes], granted' \subseteq Waiters \X Outcomes, clashed' \in BOOLEAN
  PROVE  FormInv'
<1>1. /\ waiter' \in [Waiters -> Waits] /\ waiter'[w] = x
      /\ \A v \in Waiters : v # w => waiter'[v] = waiter[v]
  BY WaiterAt DEF FormInv
<1>2. TypeOK'
  BY <1>1, Types DEF FormInv, TypeOK, Waits, Replies
<1>3. \A v \in Waiters : Formed(waiter[v])'
  BY <1>1 DEF FormInv, Formed
<1>4. QED
  BY <1>2, <1>3 DEF FormInv

\* What Read leaves is an outcome, linked or contending.
LEMMA FormRead ==
  ASSUME FormInv, NEW w \in Waiters, waiter[w].gen \in Waiters, NEW o \in Outcomes,
         NEW then \in Pcs, Read(w, o, then),
         UNCHANGED <<clock, disk, doomed, shell, phone, history>>
  PROVE  FormInv'
<1>1. PICK linked \in Outcomes \cup {None} : linked = winner[waiter[w].gen]
  BY Types DEF FormInv
<1>2. waiter[w] \in Waits
  BY Types DEF FormInv
<1>3. PICK x : x = IF linked # None THEN [waiter[w] EXCEPT !.pc = then, !.outcome = linked]
                   ELSE [waiter[w] EXCEPT !.pc = "claiming", !.outcome = o, !.then = then]
  OBVIOUS
<1>4. waiter' = [waiter EXCEPT ![w] = x]
  BY <1>1, <1>3 DEF Read
<1>5. x \in Waits
  BY <1>1, <1>2, <1>3 DEF Waits, Pcs
<1>6. Formed(x)
  BY <1>1, <1>2, <1>3 DEF Waits, Formed
<1>7. QED
  BY <1>4, <1>5, <1>6, FormStep, Types DEF FormInv, disk, phone, history

\* A step that changes a waiter's place, or lets it return something.
LEMMA FormMove ==
  ASSUME FormInv, NEW w \in Waiters, NEW pc \in Pcs, NEW result \in Results,
         waiter' = [waiter EXCEPT ![w] = [waiter[w] EXCEPT !.pc = pc, !.result = result]],
         pc \in {"start", "registering", "done"} \/ (waiter[w].gen \in Waiters /\ pc \notin {"claiming", "telling", "answer"}),
         UNCHANGED <<clock, shell, answers, writtenAt, wonAt, granted>>,
         record' \in [Ids -> Waiters \cup {None}], winner' \in [Waiters -> Outcomes \cup {None}],
         doomed' \in [Pruners -> SUBSET Waiters], shown' \subseteq Cards,
         told' \in [Waiters -> SUBSET Outcomes], clashed' \in BOOLEAN
  PROVE  FormInv'
<1>1. waiter[w] \in Waits
  BY Types DEF FormInv
<1>2. PICK x : x = [waiter[w] EXCEPT !.pc = pc, !.result = result]
  OBVIOUS
<1>3. x \in Waits /\ Formed(x)
  BY <1>1, <1>2 DEF Waits, Formed
<1>4. QED
  BY <1>2, <1>3, FormStep, Types DEF FormInv

\* What a waiter of the form holds.
LEMMA FormFacts ==
  ASSUME FormInv, NEW w \in Waiters
  PROVE  /\ waiter[w] \in Waits /\ waiter \in [Waiters -> Waits] /\ Formed(waiter[w]) /\ RequestId[w] \in Ids
         /\ waiter[w].pc \in Pcs /\ waiter[w].result \in Results /\ waiter[w].then \in Pcs
         /\ waiter[w].gen \in Waiters \cup {None} /\ waiter[w].outcome \in Outcomes \cup {None}
<1>1. waiter[w] \in Waits /\ waiter \in [Waiters -> Waits] /\ Formed(waiter[w]) /\ RequestId[w] \in Ids
  BY Types, Constants DEF FormInv
<1>2. QED
  BY <1>1 DEF Waits

LEMMA FormRegister ==
  ASSUME FormInv, NEW w \in Waiters, RegisterRead(w) \/ RegisterWrite(w)
  PROVE  FormInv'
<1>1. /\ waiter[w] \in Waits /\ waiter \in [Waiters -> Waits] /\ RequestId[w] \in Ids
      /\ clashed \in BOOLEAN /\ record[RequestId[w]] \in Waiters \cup {None} /\ clock \in 0..MaxTime
      /\ doomed \in [Pruners -> SUBSET Waiters]
  BY FormFacts, Types DEF FormInv
<1>2. ASSUME RegisterRead(w)
      PROVE  FormInv'
  <2>1. PICK g \in Waiters \cup {None} : g = record[RequestId[w]]
    BY <1>1
  <2>2. clashed' \in BOOLEAN /\ UNCHANGED <<clock, disk, doomed, shell, phone, granted>>
    BY <1>1, <1>2 DEF RegisterRead, Clash
  <2>3. PICK x : x = IF g # None /\ Recent(g)
                       THEN IF Content(g) = Content(w) THEN [waiter[w] EXCEPT !.pc = "connect", !.gen = g]
                                                       ELSE [waiter[w] EXCEPT !.pc = "done", !.result = "refused"]
                       ELSE [waiter[w] EXCEPT !.pc = "registering"]
    OBVIOUS
  <2>4. waiter' = [waiter EXCEPT ![w] = x]
    BY <1>1, <1>2, <2>1, <2>3 DEF RegisterRead, Finish
  <2>5. x \in Waits /\ Formed(x)
    <3>1. CASE g # None /\ Recent(g) /\ Content(g) = Content(w)
      BY <1>1, <2>1, <2>3, <3>1 DEF Waits, Pcs, Formed
    <3>2. CASE g # None /\ Recent(g) /\ Content(g) # Content(w)
      BY <1>1, <2>1, <2>3, <3>2 DEF Waits, Pcs, Results, Formed
    <3>3. CASE ~(g # None /\ Recent(g))
      BY <1>1, <2>1, <2>3, <3>3 DEF Waits, Pcs, Formed
    <3>4. QED
      BY <3>1, <3>2, <3>3
  <2>6. QED
    BY <2>2, <2>4, <2>5, FormStep, Types DEF FormInv, disk, phone
<1>3. ASSUME RegisterWrite(w)
      PROVE  FormInv'
  <2>1. PICK x : x = [waiter[w] EXCEPT !.pc = "pruning", !.gen = w]
    OBVIOUS
  <2>2. x \in Waits /\ Formed(x)
    BY <1>1, <2>1 DEF Waits, Pcs, Formed
  <2>3. waiter' = [waiter EXCEPT ![w] = x] /\ UNCHANGED <<clock, winner, wonAt, shell, phone, granted>>
    BY <1>1, <1>3, <2>1 DEF RegisterWrite
  <2>4. /\ record' \in [Ids -> Waiters \cup {None}] /\ writtenAt' \in [Waiters -> 0..MaxTime]
        /\ clashed' \in BOOLEAN
    BY <1>1, <1>3, Types DEF RegisterWrite, FormInv, Clash
  <2>5. doomed' \in [Pruners -> SUBSET Waiters]
    BY <1>1, <1>3 DEF RegisterWrite, Pruners
  <2>6. QED
    BY <2>2, <2>3, <2>4, <2>5, FormStep, Types DEF FormInv, phone
<1>4. QED
  BY <1>2, <1>3

LEMMA FormPrune ==
  ASSUME FormInv, MonitorPrune \/ \E w \in Waiters : RegisterPrune(w)
  PROVE  FormInv'
<1>1. ASSUME NEW p \in Pruners, Unlink(p)
      PROVE  /\ record' \in [Ids -> Waiters \cup {None}] /\ winner' \in [Waiters -> Outcomes \cup {None}]
             /\ doomed' \in [Pruners -> SUBSET Waiters]
             /\ UNCHANGED <<clock, writtenAt, wonAt, shell, phone, history>>
  <2>1. /\ record \in [Ids -> Waiters \cup {None}] /\ winner \in [Waiters -> Outcomes \cup {None}]
        /\ doomed \in [Pruners -> SUBSET Waiters]
    BY Types DEF FormInv
  <2>2. QED
    BY <1>1, <2>1 DEF Unlink
<1>2. CASE MonitorPrune
  <2>1. UNCHANGED waiter /\ None \in Pruners /\ Unlink(None)
    BY <1>2 DEF MonitorPrune, Pruners
  <2>2. TypeOK'
    BY <1>1, <2>1, Types DEF FormInv, phone, history, TypeOK
  <2>3. QED
    BY <2>1, <2>2 DEF FormInv, Formed
<1>3. ASSUME NEW w \in Waiters, RegisterPrune(w)
      PROVE  FormInv'
  <2>1. Unlink(w) /\ w \in Pruners /\ waiter[w].pc = "pruning"
    BY <1>3 DEF RegisterPrune, Pruners
  <2>2. waiter' = [waiter EXCEPT ![w] = [waiter[w] EXCEPT !.pc = "connect", !.result = waiter[w].result]]
    BY <1>3, FormFacts DEF RegisterPrune, Waits
  <2>3. waiter[w].gen \in Waiters /\ waiter[w].result \in Results
    BY <2>1, FormFacts DEF Formed
  <2>4. QED
    BY <1>1, <2>1, <2>2, <2>3, FormMove, Types DEF FormInv, phone, history, Pcs
<1>4. QED
  BY <1>2, <1>3

LEMMA FormSend ==
  ASSUME FormInv, NEW w \in Waiters, Send(w)
  PROVE  FormInv'
<1>1. /\ waiter[w].pc = "connect" /\ waiter[w] \in Waits /\ waiter[w].gen \in Waiters
      /\ waiter[w].result \in Results /\ RequestId[w] \in Ids
  BY FormFacts DEF Send, Formed
<1>2. PICK g \in Waiters : g = waiter[w].gen
  BY <1>1
<1>3. writtenAt[g] \in 0..MaxTime /\ wonAt[g] \in 0..MaxTime /\ clock \in 0..MaxTime
  BY Types DEF FormInv
<1>4. EffectiveAt(g) + Retention \in 0..(MaxTime + Retention)
  BY <1>3, Constants DEF EffectiveAt
<1>5. Content(w) \in Contents
  BY <1>1 DEF Content, Waits
<1>6. [id |-> RequestId[w], content |-> Content(w), at |-> clock, until |-> EffectiveAt(g) + Retention] \in Cards
  BY <1>1, <1>3, <1>4, <1>5 DEF Cards
<1>7. shown' \subseteq Cards
  BY <1>2, <1>6, Types DEF FormInv, Send
<1>8. waiter' = [waiter EXCEPT ![w] = [waiter[w] EXCEPT !.pc = "waiting", !.result = waiter[w].result]]
  BY <1>1, FormFacts DEF Send, Waits
<1>9. UNCHANGED <<clock, disk, doomed, shell, answers, told, history>>
  BY DEF Send
<1>10. QED
  BY <1>1, <1>7, <1>8, <1>9, FormMove, Types DEF FormInv, disk, history, Pcs

LEMMA FormClaim ==
  ASSUME FormInv, NEW w \in Waiters, Claim(w)
  PROVE  FormInv'
<1>1. /\ waiter[w] \in Waits /\ waiter \in [Waiters -> Waits] /\ waiter[w].then \in Pcs
      /\ waiter[w].gen \in Waiters /\ waiter[w].outcome \in Outcomes
  BY FormFacts DEF Claim, Formed
<1>2. PICK g \in Waiters, o \in Outcomes : g = waiter[w].gen /\ o = waiter[w].outcome
  BY <1>1
<1>3. /\ winner \in [Waiters -> Outcomes \cup {None}] /\ wonAt \in [Waiters -> 0..MaxTime] /\ clock \in 0..MaxTime
      /\ granted \subseteq Waiters \X Outcomes /\ winner[g] \in Outcomes \cup {None}
  BY Types DEF FormInv
<1>4. PICK p \in Outcomes : p = IF winner[g] = None THEN o ELSE winner[g]
  BY <1>3
<1>5. PICK x : x = [waiter[w] EXCEPT !.pc = waiter[w].then, !.outcome = p]
  OBVIOUS
<1>6. x \in Waits /\ Formed(x)
  BY <1>1, <1>4, <1>5 DEF Waits, Formed
<1>7. waiter' = [waiter EXCEPT ![w] = x]
  <2>1. CASE winner[g] = None
    <3>1. [waiter[w] EXCEPT !.pc = waiter[w].then] = x
      BY <1>1, <1>2, <1>4, <1>5, <2>1 DEF Waits
    <3>2. QED
      BY <1>1, <1>2, <2>1, <3>1 DEF Claim
  <2>2. CASE winner[g] # None
    BY <1>1, <1>2, <1>4, <1>5, <2>2 DEF Claim
  <2>3. QED
    BY <2>1, <2>2
<1>8. /\ winner' \in [Waiters -> Outcomes \cup {None}] /\ wonAt' \in [Waiters -> 0..MaxTime]
      /\ granted' \subseteq Waiters \X Outcomes
  BY <1>2, <1>3 DEF Claim
<1>9. UNCHANGED <<clock, record, writtenAt, doomed, shell, phone, clashed>>
  BY DEF Claim
<1>10. QED
  BY <1>6, <1>7, <1>8, <1>9, FormStep, Types DEF FormInv, phone

\* What a waiter makes of an outcome is a result.
LEMMA FormAnswer == \A o : Answer(o) \in Results
  BY DEF Answer, Results

LEMMA FormFinish ==
  ASSUME FormInv, NEW w \in Waiters, NEW result \in Results, Finish(w, result),
         UNCHANGED <<clock, disk, doomed, shell, shown, answers, history>>, told' \in [Waiters -> SUBSET Outcomes]
  PROVE  FormInv'
<1>1. waiter' = [waiter EXCEPT ![w] = [waiter[w] EXCEPT !.pc = "done", !.result = result]]
  BY FormFacts DEF Finish
<1>2. QED
  BY <1>1, FormMove, Types DEF FormInv, disk, history, Pcs

\* The phone is told an outcome of the registration in hand, or nothing.
LEMMA FormTold ==
  ASSUME FormInv, NEW w \in Waiters, waiter[w].pc \in {"telling", "answer"},
         told' = told \/ told' = [told EXCEPT ![waiter[w].gen] = @ \cup {waiter[w].outcome}]
  PROVE  told' \in [Waiters -> SUBSET Outcomes]
<1>1. waiter[w].gen \in Waiters /\ waiter[w].outcome \in Outcomes
  BY FormFacts DEF Formed
<1>2. QED
  BY <1>1, Types DEF FormInv

LEMMA FormTell ==
  ASSUME FormInv, NEW w \in Waiters, Tell(w) \/ Return(w) \/ Poll(w) \/ Aborted(w)
  PROVE  FormInv'
<1>1. CASE Tell(w) \/ Return(w)
  <2>1. /\ Finish(w, Answer(waiter[w].outcome)) /\ waiter[w].pc \in {"telling", "answer"}
        /\ UNCHANGED <<clock, disk, doomed, shell, shown, answers, history>>
        /\ told' = told \/ told' = [told EXCEPT ![waiter[w].gen] = @ \cup {waiter[w].outcome}]
    BY <1>1 DEF Tell, Return
  <2>2. QED
    BY <2>1, FormTold, FormAnswer, FormFinish
<1>2. CASE Poll(w) \/ Aborted(w)
  <2>1. told' \in [Waiters -> SUBSET Outcomes] /\ UNCHANGED <<clock, disk, doomed, shell, shown, answers, history>>
    BY <1>2, Types DEF Poll, Aborted, phone, FormInv
  <2>2. Finish(w, Answer(winner[waiter[w].gen])) \/ Finish(w, "refused")
    BY <1>2 DEF Poll, Aborted
  <2>3. "refused" \in Results
    BY DEF Results
  <2>4. QED
    BY <2>1, <2>2, <2>3, FormAnswer, FormFinish
<1>3. QED
  BY <1>1, <1>2

LEMMA FormTimeout ==
  ASSUME FormInv, NEW w \in Waiters, Timeout(w)
  PROVE  FormInv'
<1>1. waiter[w].gen \in Waiters /\ waiter[w].result \in Results
  BY FormFacts DEF Timeout, Formed
<1>2. waiter' = [waiter EXCEPT ![w] = [waiter[w] EXCEPT !.pc = "ended", !.result = waiter[w].result]]
  BY FormFacts DEF Timeout, Waits
<1>3. told' \in [Waiters -> SUBSET Outcomes]
  BY FormTold, Types DEF Timeout, FormInv
<1>4. UNCHANGED <<clock, shell, record, writtenAt, winner, wonAt, doomed, shown, answers, granted, clashed>>
  BY DEF Timeout, disk, history
<1>5. /\ record' \in [Ids -> Waiters \cup {None}] /\ winner' \in [Waiters -> Outcomes \cup {None}]
      /\ doomed' \in [Pruners -> SUBSET Waiters] /\ shown' \subseteq Cards /\ clashed' \in BOOLEAN
  BY <1>4, Types DEF FormInv
<1>6. "ended" \in Pcs
  BY DEF Pcs
<1>7. QED
  BY <1>1, <1>2, <1>3, <1>4, <1>5, <1>6, FormMove

\* An end or a cancellation contends while the registration is the one in hand.
LEMMA FormEnd ==
  ASSUME FormInv, NEW w \in Waiters, End(w) \/ Abort(w)
  PROVE  FormInv'
<1>1. /\ waiter[w].gen \in Waiters /\ waiter[w].result \in Results
      /\ UNCHANGED <<clock, disk, doomed, shell, phone, history>>
  BY FormFacts DEF End, Abort, Formed
<1>2. PICK then \in {"aborted", "ended"} : then = IF waiter[w].pc = "connect" THEN "aborted" ELSE "ended"
  OBVIOUS
<1>3. CASE Current(w)
  <2>1. Read(w, "expired", "answer") \/ Read(w, "cancelled", then)
    BY <1>2, <1>3 DEF End, Abort
  <2>2. {"answer", "aborted", "ended"} \subseteq Pcs /\ {"expired", "cancelled"} \subseteq Outcomes
    BY DEF Pcs, Outcomes
  <2>3. QED
    BY <1>1, <1>2, <2>1, <2>2, FormRead
<1>4. CASE End(w) /\ ~Current(w)
  <2>1. Finish(w, "unanswered") /\ "unanswered" \in Results /\ told' \in [Waiters -> SUBSET Outcomes]
    BY <1>1, <1>4, Types DEF End, Results, phone, FormInv
  <2>2. QED
    BY <1>1, <2>1, FormFinish DEF phone
<1>5. CASE Abort(w) /\ ~Current(w)
  <2>1. waiter' = [waiter EXCEPT ![w] = [waiter[w] EXCEPT !.pc = then, !.result = waiter[w].result]]
    BY <1>2, <1>5, FormFacts DEF Abort, Waits
  <2>2. QED
    BY <1>1, <1>2, <2>1, FormMove, Types DEF FormInv, disk, phone, history, Pcs
<1>6. QED
  BY <1>3, <1>4, <1>5

LEMMA FormMessage ==
  ASSUME FormInv, NEW w \in Waiters, NEW a \in answers, Message(w, a)
  PROVE  FormInv'
<1>1. waiter[w].gen \in Waiters
  BY FormFacts DEF Message, Formed
<1>2. PICK o \in Outcomes : o = Contender(waiter[w].gen, a.answer)
  BY Types DEF FormInv, Contender, Outcomes, Replies
<1>3. Read(w, o, "telling") /\ UNCHANGED <<clock, disk, doomed, shell, phone, history>> /\ "telling" \in Pcs
  BY <1>2 DEF Message, Pcs
<1>4. QED
  BY <1>1, <1>3, FormRead

LEMMA FormCrash ==
  ASSUME FormInv, NEW w \in Waiters, Crash(w)
  PROVE  FormInv'
<1>1. waiter[w].result \in Results
  BY FormFacts
<1>2. waiter' = [waiter EXCEPT ![w] = [waiter[w] EXCEPT !.pc = "done", !.result = waiter[w].result]]
  BY FormFacts DEF Crash, Waits
<1>3. doomed' \in [Pruners -> SUBSET Waiters]
  BY Types DEF Crash, FormInv
<1>4. QED
  BY <1>1, <1>2, <1>3, FormMove, Types DEF FormInv, Crash, disk, phone, history, Pcs

\* The phone, the monitor, the after-shell hook and the clock leave the waiters alone.
LEMMA FormOthers ==
  ASSUME FormInv,
         \/ \E card \in shown, answer \in {"allow", "deny"} : Decide(card, answer)
         \/ \E g \in Waiters : ShellRead(g)
         \/ ShellClaim \/ MonitorList \/ Tick \/ UNCHANGED vars
  PROVE  FormInv'
<1>1. waiter' = waiter
  BY DEF Decide, ShellRead, ShellClaim, MonitorList, Tick, vars
<1>2. TypeOK'
  <2>1. ASSUME NEW card \in shown, NEW answer \in {"allow", "deny"}, Decide(card, answer)
        PROVE  TypeOK'
    <3>1. [card |-> card, answer |-> answer] \in Replies
      BY Types DEF FormInv, Replies
    <3>2. answers' \subseteq Replies
      BY <2>1, <3>1, Types DEF FormInv, Decide
    <3>3. QED
      BY <2>1, <3>2, Types DEF FormInv, TypeOK, Replies, Decide, disk, history
  <2>2. ASSUME NEW g \in Waiters, ShellRead(g)
        PROVE  TypeOK'
    BY <2>2, Types DEF FormInv, TypeOK, ShellRead, disk, phone, history
  <2>3. CASE ShellClaim
    <3>1. shell \in Waiters /\ "local" \in Outcomes
      BY <2>3, Types DEF FormInv, ShellClaim, Outcomes
    <3>2. /\ winner' \in [Waiters -> Outcomes \cup {None}] /\ wonAt' \in [Waiters -> 0..MaxTime]
          /\ granted' \subseteq Waiters \X Outcomes
      BY <2>3, <3>1, Types DEF FormInv, ShellClaim
    <3>3. QED
      BY <2>3, <3>2, Types DEF FormInv, TypeOK, ShellClaim, phone
  <2>4. CASE MonitorList
    <3>1. doomed' \in [Pruners -> SUBSET Waiters]
      BY <2>4, Types DEF FormInv, MonitorList
    <3>2. QED
      BY <2>4, <3>1, Types DEF FormInv, TypeOK, MonitorList, disk, phone, history
  <2>5. CASE Tick
    <3>1. clock' \in 0..MaxTime
      BY <2>5, Constants, Types DEF FormInv, Tick
    <3>2. QED
      BY <2>5, <3>1, Types DEF FormInv, TypeOK, Tick, disk, phone, history
  <2>6. CASE UNCHANGED vars
    BY <2>6, Types DEF FormInv, TypeOK, vars, disk, phone, history
  <2>7. QED
    BY <2>1, <2>2, <2>3, <2>4, <2>5, <2>6
<1>3. QED
  BY <1>1, <1>2 DEF FormInv, Formed

LEMMA FormKept == FormInv /\ [Next]_vars => FormInv'
<1> SUFFICES ASSUME FormInv, [Next]_vars PROVE FormInv'
  OBVIOUS
<1>1. ASSUME NEW w \in Waiters, Progress(w)
      PROVE  FormInv'
  BY <1>1, FormRegister, FormPrune, FormSend, FormClaim, FormTell, FormTimeout, FormEnd DEF Progress
<1>2. ASSUME NEW w \in Waiters, Abort(w) \/ Crash(w) \/ \E a \in answers : Message(w, a)
      PROVE  FormInv'
  BY <1>2, FormEnd, FormCrash, FormMessage
<1>3. QED
  BY <1>1, <1>2, FormPrune, FormOthers DEF Next

\* The registry's state keeps its shape, whatever the hooks and the passes do,
\* and however many requests there are.
THEOREM TypeCorrect == Spec => []TypeOK
<1>1. Init => FormInv
  BY RegistryInit DEF Init, RegistryInv, FormInv, Formed, NewWaiter
<1>2. FormInv => TypeOK
  BY DEF FormInv
<1>3. QED
  BY <1>1, <1>2, FormKept, PTL DEF Spec

\* The first outcome linked for a registration is the only one, whatever was
\* unlinked since; every hook that waited and the phone hear that one
\* (records.ts:158-163, index.ts:171-173).
THEOREM OneOutcome == ASSUME Roomy PROVE Spec => []OutcomeAgreed
<1>1. RegistryInv => OutcomeAgreed
  <2> SUFFICES ASSUME RegistryInv PROVE OutcomeAgreed
    OBVIOUS
  <2>1. \A g \in Waiters, o, p \in Outcomes : <<g, o>> \in granted /\ <<g, p>> \in granted => o = p
    BY DEF RegistryInv, GrantInv
  <2>2. \A g \in Waiters : told[g] \subseteq Outcomes /\ \A o \in told[g] : <<g, o>> \in granted
    BY Types DEF RegistryInv, GrantInv
  <2>3. ASSUME NEW w \in Waiters
        PROVE  waiter[w].gen # None => waiter[w].gen \in Waiters
    <3>1. waiter[w] \in Waits
      BY WaiterFacts
    <3>2. QED
      BY <3>1 DEF Waits
  <2>4. ASSUME NEW w \in Waiters, NEW o \in Outcomes, waiter[w].gen # None, o \in told[waiter[w].gen],
               waiter[w].result \in {"allow", "deny"}
        PROVE  waiter[w].result = Answer(o)
    <3>1. PICK p \in Outcomes : <<waiter[w].gen, p>> \in granted /\ waiter[w].result = Answer(p)
      BY <2>4 DEF RegistryInv, WaiterInv
    <3>2. o = p
      BY <2>1, <2>2, <2>3, <2>4, <3>1
    <3>3. QED
      BY <3>1, <3>2
  <2>5. ASSUME ~clashed, NEW w \in Waiters, waiter[w].result = "unanswered"
        PROVE  told[waiter[w].gen] \cap {"allow", "deny", "late", "cancelled", "local"} = {}
    <3>1. <<waiter[w].gen, "expired">> \in granted /\ waiter[w].gen \in Waiters
      BY <2>3, <2>5 DEF RegistryInv, ClearInv, AnswerInv, WaiterInv
    <3>2. \A o \in told[waiter[w].gen] : o = "expired"
      BY <2>1, <2>2, <3>1 DEF Outcomes
    <3>3. QED
      BY <3>2
  <2>6. QED
    BY <2>1, <2>4, <2>5 DEF OutcomeAgreed
<1>2. QED
  BY <1>1, RegistryInvariant, PTL

\* As long as registrations of one id do not overlap, an allowance is an answer to
\* the card of that very action, or the card outlived its registration
\* (api.ts:47-60).
THEOREM CardsTrue == ASSUME Roomy PROVE Spec => []CardsAgree
<1>1. RegistryInv => CardsAgree
  <2> SUFFICES ASSUME RegistryInv, ~clashed PROVE CardsAgree
    BY DEF CardsAgree
  <2>1. ClearInv
    BY DEF RegistryInv
  <2>2. \A v, w \in Waiters :
          RequestId[v] = RequestId[w] /\ waiter[v].gen = v /\ waiter[w].gen = w
          => v = w \/ writtenAt[v] > writtenAt[w] + Retention \/ writtenAt[w] > writtenAt[v] + Retention
    BY <2>1 DEF ClearInv, ApartInv, Registered, Apart
  <2>3. \A c, d \in shown : c.id = d.id /\ c.content # d.content => c.at > d.until \/ d.at > c.until
    BY <2>1 DEF ClearInv, CardInv
  <2>4. ASSUME NEW w \in Waiters, waiter[w].result = "allow", <<waiter[w].gen, "local">> \notin granted
        PROVE  \E a \in answers : /\ a.answer = "allow" /\ a.card.id = RequestId[w]
                                  /\ (a.card.content = Content(w) \/ Outlives(a.card))
    <3>1. PICK o \in Outcomes : <<waiter[w].gen, o>> \in granted /\ Answer(o) = "allow"
      BY <2>4 DEF RegistryInv, WaiterInv
    <3>2. o = "allow"
      BY <2>4, <3>1 DEF Answer, Outcomes
    <3>3. PICK g \in Waiters : g = waiter[w].gen
      BY <3>1, Types DEF RegistryInv
    <3>4. RequestId[g] = RequestId[w] /\ Content(g) = Content(w)
      BY <3>3, Constants DEF RegistryInv, WaiterInv
    <3>5. Answered(g)
      BY <2>1, <3>1, <3>2, <3>3 DEF ClearInv, AnswerInv
    <3>6. QED
      BY <3>4, <3>5 DEF Answered
  <2>5. QED
    BY <2>2, <2>3, <2>4 DEF CardsAgree
<1>2. QED
  BY <1>1, RegistryInvariant, PTL
=============================================================================
