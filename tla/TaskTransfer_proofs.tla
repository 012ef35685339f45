-------------------------- MODULE TaskTransfer_proofs --------------------------
(****************************************************************************)
(* A transferred Task runs once on the destination, and its source chat     *)
(* waits, for any number of transfers, receivers, changes of the grant and  *)
(* failures; an answer that is kept is never replaced.                      *)
(****************************************************************************)
EXTENDS TaskTransfer, TLAPS

Later(u, t) == CreatedAt[u] > CreatedAt[t]

\* The relay knows nothing of the transfer, and never will.
Undone(t) == job[t] = "none" /\ \A c \in Callers : call[c][t].step \in {"idle", "withdraw"}

\* What the source has on record agrees with the relay.
SourceInv(t) ==
  /\ submit[t] = "idle" => outbox[t] = "none" /\ \A c \in Callers : call[c][t].step = "idle"
  /\ outbox[t] \in {"none", "drafting"} => Undone(t)
  /\ \A c \in Callers :
       /\ call[c][t].step = "withdraw" => outbox[t] = "failed" /\ Undone(t)
       /\ call[c][t].step = "read" =>
            /\ job[t] # "none" /\ call[c][t].receipt # "none"
            /\ call[c][t].receipt \in Final => job[t] = call[c][t].receipt
  /\ outbox[t] = "completed" => job[t] = "completed"
  /\ outbox[t] = "failed" => Undone(t) \/ job[t] = "failed"
  /\ t \in applied => outbox[t] \in Final

\* What the relay has of the transfer agrees with the destination.
JobInv(t) ==
  /\ job[t] = "completed" => inbox[t].result = "accepted"
  /\ job[t] = "failed" => inbox[t].result = "refused"
  /\ inbox[t].result # "none" <=> inbox[t].phase \in {"result", "completed"}
  /\ inbox[t].phase # "none" => job[t] # "none"
  /\ inbox[t].result = "accepted" => prepared[t] # "none"
  /\ prepared[t] # "none" => inbox[t].phase # "none"
  /\ launches[t] = IF prepared[t] \in {"none", "prepared"} THEN 0 ELSE 1

\* What a receiver remembers of a transfer is still so.
ReceiverInv(r) ==
  /\ \A h \in queue[r] : /\ inbox[h.transfer].phase # "none"
                         /\ h.phase = "result" => inbox[h.transfer].result # "none"
  /\ at[r].step # "idle" => at[r].transfer \in Transfers /\ inbox[at[r].transfer].phase # "none"
  /\ at[r].step = "save" =>
       at[r].answer # "none" /\ (at[r].answer = "accepted" => prepared[at[r].transfer] # "none")
  /\ at[r].step = "finish" => inbox[at[r].transfer].result # "none"

\* No later transfer of the chat is under way.
Idling(t) == \A u \in Transfers : Later(u, t) => submit[u] = "idle"

\* The notice is to be this transfer's.
Guarded(t) == outbox[t] \in Sent \/ (submit[t] = "confirming" /\ outbox[t] = "drafting")
Standing(t) == outbox[t] = "completed" /\ t \notin consented

\* Transfers are tried in their order, one at a time; what is under way, or was
\* taken over for good, has the notice, and no later transfer can take it away.
NoticeInv(t) ==
  /\ submit[t] # "idle" => t \in instance.transfers /\ \A u \in instance.transfers : Later(t, u) => submit[u] # "idle"
  /\ Guarded(t) => notice.transfer = t
  /\ t \in Outgoing => Idling(t)
  /\ Standing(t) => ended /\ notice.transfer = t /\ ~notice.pending /\ Idling(t)

Consent ==
  /\ notice.continued => notice.transfer \in consented
  /\ notice.transfer # None => submit[notice.transfer] # "idle"

TransferInv ==
  /\ TypeOK /\ Consent
  /\ \A t \in Transfers : SourceInv(t) /\ JobInv(t) /\ NoticeInv(t)
  /\ \A r \in Receivers : ReceiverInv(r)

\* AnswerStands, of one transfer.
Stands(t) ==
  /\ inbox[t].result # "none" => inbox'[t].result = inbox[t].result
  /\ job[t] \in Final => job'[t] = job[t]

Good == TransferInv' /\ \A t \in Transfers : Stands(t)
-----------------------------------------------------------------------------
Calls == [step : {"idle", "withdraw", "wait", "read"}, put : BOOLEAN,
          receipt : {"none", "queued", "accepted"} \cup Final]
Notices == [transfer : Transfers \cup {None}, pending : BOOLEAN, continued : BOOLEAN]
Records == [phase : {"none", "staged", "preparing", "result", "completed"},
            owner : Receivers \cup {None}, started : BOOLEAN, result : {"none", "accepted", "refused"}]
Works == [step : {"idle", "claim", "refresh", "prepare", "save", "finish"},
          transfer : Transfers \cup {None}, started : BOOLEAN, answer : {"none", "accepted", "refused"}]
States == {"none", "drafting", "uploading", "queued", "accepted", "completed", "failed"}
Jobs == {"none", "queued", "accepted", "completed", "failed"}

LEMMA Types ==
  /\ TypeOK <=>
       /\ outbox \in [Transfers -> States] /\ revision \in [Transfers -> 0..issued]
       /\ notice \in Notices
       /\ submit \in [Transfers -> {"idle", "staged", "confirming", "done"}]
       /\ call \in [Callers -> [Transfers -> Calls]]
       /\ ended \in BOOLEAN /\ applied \subseteq Transfers
       /\ job \in [Transfers -> Jobs]
       /\ instance \in Instances
       /\ issued \in 0..instance.revisions /\ grant \in [{"source", "target"} -> 0..issued]
       /\ inbox \in [Transfers -> Records]
       /\ prepared \in [Transfers -> {"none", "prepared", "starting", "active", "uncertain"}]
       /\ launcher \in [Transfers -> Receivers \cup {None}]
       /\ queue \in [Receivers -> SUBSET Header]
       /\ at \in [Receivers -> Works]
       /\ failures \in 0..instance.failures
       /\ consented \subseteq Transfers /\ launches \in [Transfers -> Nat]
<1>1. States = {"none", "drafting"} \cup Sent \cup Final /\ Jobs = {"none", "queued", "accepted"} \cup Final
  BY DEF States, Jobs, Sent, Final
<1>2. QED
  BY <1>1 DEF TypeOK, Calls, Notices, Records, Works

LEMMA Bounds ==
  ASSUME TypeOK
  PROVE  /\ instance.transfers \subseteq Transfers /\ instance.receivers \subseteq Receivers
         /\ instance.revisions \in Nat /\ instance.failures \in Nat
         /\ issued \in Nat /\ failures \in Nat
         /\ None \notin Transfers /\ None \notin Receivers /\ CreatedAt \in [Transfers -> Nat]
<1>1. instance \in [transfers : SUBSET Transfers, receivers : SUBSET Receivers, revisions : Nat, failures : Nat]
  BY TaskTransferAssumption DEF TypeOK
<1>2. QED
  BY <1>1, TaskTransferAssumption DEF TypeOK

\* Later is an order of the transfers.
LEMMA InOrder ==
  ASSUME NEW t \in Transfers, NEW u \in Transfers
  PROVE  /\ t # u => Later(u, t) \/ Later(t, u)
         /\ ~(Later(u, t) /\ Later(t, u)) /\ ~Later(t, t)
         /\ Later(u, t) <=> ~(CreatedAt[t] >= CreatedAt[u])
<1>1. CreatedAt[t] \in Nat /\ CreatedAt[u] \in Nat /\ (CreatedAt[t] = CreatedAt[u] => t = u)
  BY TaskTransferAssumption
<1>2. QED
  BY <1>1 DEF Later
-----------------------------------------------------------------------------
(* The notice *)

LEMMA RecordedFacts ==
  ASSUME TypeOK, NEW t \in Transfers, NEW pending \in BOOLEAN
  PROVE  /\ Recorded(t, pending) \in Notices
         /\ Recorded(t, pending).continued => notice.continued /\ notice.transfer = Recorded(t, pending).transfer
         /\ Recorded(t, pending).transfer \in {t, notice.transfer}
         /\ notice.transfer # None /\ notice.transfer # t /\ CreatedAt[notice.transfer] >= CreatedAt[t] =>
              Recorded(t, pending) = notice
         /\ notice.transfer = None \/ ~(CreatedAt[notice.transfer] >= CreatedAt[t]) => Recorded(t, pending).transfer = t
         /\ notice.transfer = t => Recorded(t, pending).transfer = t
         /\ notice.transfer = t /\ ~pending => ~Recorded(t, pending).pending
         /\ notice.transfer = t /\ ~notice.pending => Recorded(t, pending) = notice
<1>1. notice \in Notices /\ None \notin Transfers
  BY Types, Bounds
<1>2. CreatedAt[t] >= CreatedAt[t]
  BY TaskTransferAssumption
<1>3. /\ notice.transfer \in Transfers \cup {None} /\ notice.pending \in BOOLEAN /\ notice.continued \in BOOLEAN
  BY <1>1 DEF Notices
<1> DEFINE new == [transfer |-> t, pending |-> pending, continued |-> notice.transfer = t /\ notice.continued]
           kept == notice.transfer # None /\ ~(notice.transfer = t /\ notice.pending /\ ~pending)
                     /\ CreatedAt[notice.transfer] >= CreatedAt[t]
<1>4. Recorded(t, pending) = IF kept THEN notice ELSE new
  BY DEF Recorded
<1>5. /\ new \in Notices /\ new.transfer = t /\ (new.pending <=> pending)
      /\ new.continued <=> notice.transfer = t /\ notice.continued
  BY <1>3 DEF Notices
<1> HIDE DEF new
<1>6. QED
  BY <1>1, <1>2, <1>3, <1>4, <1>5

LEMMA WithdrawnFacts ==
  ASSUME TypeOK, NEW t \in Transfers
  PROVE  /\ Withdrawn(t) \in Notices
         /\ Withdrawn(t) = notice \/ (Withdrawn(t) = NoNotice /\ notice.transfer = t)
         /\ NoNotice.transfer = None /\ ~NoNotice.continued
<1>1. notice \in Notices
  BY Types
<1>2. QED
  BY <1>1 DEF Withdrawn, NoNotice, Notices

\* Whatever a source step of the transfer t writes into the notice.
Noted(t) == notice' \in {notice, Recorded(t, TRUE), Recorded(t, FALSE), Withdrawn(t)}

LEMMA NotedFacts ==
  ASSUME TypeOK, NEW t \in Transfers, Noted(t)
  PROVE  /\ notice' \in Notices
         /\ notice'.continued => notice.continued /\ notice.transfer = notice'.transfer
         /\ notice'.transfer \in {t, notice.transfer, None}
         /\ notice.transfer # None /\ notice.transfer # t /\ CreatedAt[notice.transfer] >= CreatedAt[t] => notice' = notice
<1>1. notice \in Notices
  BY Types
<1>2. CASE notice' = notice
  BY <1>1, <1>2
<1>3. CASE notice' = Recorded(t, TRUE)
  BY <1>3, RecordedFacts
<1>4. CASE notice' = Recorded(t, FALSE)
  BY <1>4, RecordedFacts
<1>5. CASE notice' = Withdrawn(t)
  BY <1>1, <1>5, WithdrawnFacts
<1>6. QED
  BY <1>2, <1>3, <1>4, <1>5 DEF Noted
-----------------------------------------------------------------------------
(* Steps of the source *)

\* A step that concerns one transfer, at the source or at the relay.
SourceMove(t) ==
  /\ UNCHANGED <<issued, grant, targetVars, instance, consented>>
  /\ \A u \in Transfers : u # t =>
       /\ outbox'[u] = outbox[u] /\ submit'[u] = submit[u] /\ job'[u] = job[u]
       /\ \A c \in Callers : call'[c][u] = call[c][u]
       /\ u \in applied' => u \in applied
  /\ job'[t] = job[t] \/ (job[t] = "none" /\ job'[t] = "queued")

LEMMA SourceSound ==
  ASSUME TransferInv, TypeOK', NEW t \in Transfers, SourceMove(t), Noted(t),
         submit[t] # "idle", submit'[t] # "idle", ended => ended',
         SourceInv(t)', Guarded(t)' => notice'.transfer = t, t \in Outgoing' => t \in Outgoing,
         Standing(t)' => ended' /\ notice'.transfer = t /\ ~notice'.pending /\ (t \in Outgoing \/ Standing(t))
  PROVE  Good
<1>1. TypeOK /\ Consent /\ None \notin Transfers
  BY Bounds DEF TransferInv
<1>2. \A u \in Transfers : submit'[u] = "idle" <=> submit[u] = "idle"
  BY DEF SourceMove
<1>3. \A u \in Transfers : Idling(u)' <=> Idling(u)
  BY <1>2 DEF Idling, Later
<1>4. instance' = instance /\ consented' = consented
  BY DEF SourceMove
<1>5. ASSUME NEW u \in Transfers, u # t, notice.transfer = u, Idling(u)
      PROVE  notice' = notice
  <2>1. ~Later(t, u)
    BY <1>5 DEF Idling
  <2>2. CreatedAt[u] >= CreatedAt[t]
    BY <2>1, InOrder
  <2>3. QED
    BY <1>1, <1>5, <2>2, NotedFacts
<1>6. ASSUME NEW u \in Transfers, u # t PROVE SourceInv(u)' /\ NoticeInv(u)'
  <2>1. /\ SourceInv(u) /\ NoticeInv(u)
        /\ outbox'[u] = outbox[u] /\ submit'[u] = submit[u] /\ job'[u] = job[u]
        /\ \A c \in Callers : call'[c][u] = call[c][u]
        /\ u \in applied' => u \in applied
    BY <1>6 DEF TransferInv, SourceMove
  <2>2. Undone(u)' <=> Undone(u)
    BY <2>1 DEF Undone
  <2>3. SourceInv(u)'
    BY <2>1, <2>2 DEF SourceInv
  <2>4. (u \in Outgoing' <=> u \in Outgoing) /\ (Guarded(u)' <=> Guarded(u)) /\ (Standing(u)' <=> Standing(u))
    BY <1>4, <2>1 DEF Outgoing, Guarded, Standing
  <2>5. Guarded(u) => u \in Outgoing
    BY DEF Guarded, Outgoing
  <2>6. (Guarded(u) \/ Standing(u)) => notice' = notice
    BY <1>5, <1>6, <2>1, <2>5 DEF NoticeInv
  <2>7. submit[u] # "idle" => u \in instance.transfers /\ \A v \in instance.transfers : Later(u, v) => submit[v] # "idle"
    BY <2>1 DEF NoticeInv
  <2>8. submit'[u] # "idle" => u \in instance'.transfers /\ \A v \in instance'.transfers : Later(u, v)' => submit'[v] # "idle"
    BY <1>1, <1>2, <1>4, <2>1, <2>7, Bounds DEF Later
  <2>9. NoticeInv(u)'
    BY <1>3, <2>1, <2>4, <2>6, <2>8 DEF NoticeInv
  <2>10. QED
    BY <2>3, <2>9
<1>7. NoticeInv(t)'
  <2>1. NoticeInv(t)
    BY DEF TransferInv
  <2>2. submit'[t] # "idle" => t \in instance'.transfers /\ \A v \in instance'.transfers : Later(t, v)' => submit'[v] # "idle"
    BY <1>1, <1>2, <1>4, <2>1, Bounds DEF Later, NoticeInv
  <2>3. QED
    BY <1>3, <2>1, <2>2 DEF NoticeInv
<1>8. Consent'
  <2>1. /\ notice'.continued => notice.continued /\ notice.transfer = notice'.transfer
        /\ notice'.transfer \in {t, notice.transfer, None}
        /\ notice.transfer \in Transfers \cup {None}
    BY <1>1, NotedFacts DEF TypeOK
  <2>2. QED
    BY <1>1, <1>2, <1>4, <2>1 DEF Consent
<1>9. UNCHANGED <<inbox, prepared, launches, queue, at>>
  BY DEF SourceMove, targetVars
<1>10. ASSUME NEW u \in Transfers PROVE JobInv(u)' /\ Stands(u)
  <2>1. JobInv(u) /\ (job'[u] = job[u] \/ (job[u] = "none" /\ job'[u] = "queued"))
    BY DEF TransferInv, SourceMove
  <2>2. Stands(u)
    BY <1>9, <2>1 DEF Stands, Final
  <2>3. JobInv(u)'
    BY <1>9, <2>1 DEF JobInv
  <2>4. QED
    BY <2>2, <2>3
<1>11. \A r \in Receivers : ReceiverInv(r)'
  BY <1>9 DEF TransferInv, ReceiverInv
<1>12. QED
  BY <1>6, <1>7, <1>8, <1>10, <1>11 DEF Good, TransferInv

\* One of the source's calls about a transfer is now x; what follows is CallAt.
Replaced(c, t, x) == call' = [call EXCEPT ![c] = [call[c] EXCEPT ![t] = x]]

LEMMA CallAt ==
  ASSUME TypeOK, NEW c \in Callers, NEW t \in Transfers, NEW x \in Calls, Replaced(c, t, x)
  PROVE  /\ call' \in [Callers -> [Transfers -> Calls]] /\ call'[c][t] = x
         /\ \A d \in Callers, u \in Transfers : d # c \/ u # t => call'[d][u] = call[d][u]
<1>1. call \in [Callers -> [Transfers -> Calls]]
  BY Types
<1>2. [call[c] EXCEPT ![t] = x] \in [Transfers -> Calls]
  BY <1>1
<1>3. QED
  BY <1>1, <1>2 DEF Replaced

LEMMA SourceTyped ==
  ASSUME TypeOK, UNCHANGED <<issued, grant, targetVars, instance, consented>>,
         outbox' \in [Transfers -> States], revision' \in [Transfers -> 0..issued], notice' \in Notices,
         submit' \in [Transfers -> {"idle", "staged", "confirming", "done"}],
         call' \in [Callers -> [Transfers -> Calls]], ended' \in BOOLEAN, applied' \subseteq Transfers,
         job' \in [Transfers -> Jobs], failures' \in 0..instance.failures
  PROVE  TypeOK'
<1>1. UNCHANGED <<inbox, prepared, launcher, queue, at, launches>>
  BY DEF targetVars
<1>2. QED
  BY <1>1, Types DEF TypeOK, Calls, Notices, Records, Works, States, Jobs, Sent, Final

LEMMA StepFacts ==
  ASSUME TransferInv, NEW t \in instance.transfers
  PROVE  /\ t \in Transfers /\ TypeOK /\ Consent
         /\ SourceInv(t) /\ JobInv(t) /\ NoticeInv(t)
         /\ outbox[t] \in States /\ job[t] \in Jobs /\ notice \in Notices
         /\ \A c \in Callers : call[c][t] \in Calls
<1>1. t \in Transfers /\ TypeOK
  BY Bounds DEF TransferInv
<1>2. QED
  BY <1>1, Types DEF TransferInv

LEMMA RecordPendingStep ==
  ASSUME TransferInv, NEW t \in instance.transfers, RecordPending(t), UNCHANGED instance
  PROVE  Good
<1>1. /\ t \in Transfers /\ TypeOK /\ Consent
      /\ SourceInv(t) /\ NoticeInv(t)
  BY StepFacts
<1>2. /\ submit[t] = "staged" /\ submit' = [submit EXCEPT ![t] = "confirming"] /\ notice' = Recorded(t, TRUE)
      /\ UNCHANGED <<outbox, revision, call, ended, applied, consented, job, issued, grant, targetVars, failures>>
  BY DEF RecordPending, SourceKeeps
<1>3. /\ submit' \in [Transfers -> {"idle", "staged", "confirming", "done"}] /\ submit'[t] = "confirming"
      /\ \A u \in Transfers : u # t => submit'[u] = submit[u]
  BY <1>1, <1>2 DEF TypeOK
<1>4. Recorded(t, TRUE) \in Notices
  BY <1>1, RecordedFacts
<1>5. TypeOK'
  BY <1>1, <1>2, <1>3, <1>4, Types, SourceTyped
<1>6. SourceMove(t) /\ Noted(t)
  BY <1>2, <1>3 DEF SourceMove, Noted
<1>7. SourceInv(t)'
  BY <1>1, <1>2, <1>3 DEF SourceInv, Undone
<1>8. t \in Outgoing' <=> t \in Outgoing
  BY <1>2 DEF Outgoing
<1>9. Guarded(t)' => notice'.transfer = t
  <2> SUFFICES ASSUME outbox[t] \in Sent \/ outbox[t] = "drafting" PROVE notice'.transfer = t
    BY <1>2 DEF Guarded
  <2>1. Idling(t)
    BY <1>1 DEF NoticeInv, Outgoing
  <2>2. notice.transfer \in Transfers \cup {None}
    BY <1>1 DEF TypeOK
  <2>3. notice.transfer \in {t, None} \/ Later(t, notice.transfer)
    BY <1>1, <2>1, <2>2, InOrder DEF Idling, Consent
  <2>4. notice.transfer \in {t, None} \/ ~(CreatedAt[notice.transfer] >= CreatedAt[t])
    BY <1>1, <2>2, <2>3, InOrder
  <2>5. QED
    BY <1>1, <1>2, <2>4, RecordedFacts
<1>10. Standing(t)' => ended' /\ notice'.transfer = t /\ ~notice'.pending /\ Standing(t)
  <2> SUFFICES ASSUME Standing(t) PROVE ended' /\ notice'.transfer = t /\ ~notice'.pending
    BY <1>2 DEF Standing
  <2>1. ended /\ notice.transfer = t /\ ~notice.pending
    BY <1>1 DEF NoticeInv
  <2>2. notice' = notice
    BY <1>1, <1>2, <2>1, RecordedFacts
  <2>3. QED
    BY <1>2, <2>1, <2>2
<1>11. submit[t] # "idle" /\ submit'[t] # "idle" /\ (ended => ended')
  BY <1>2, <1>3
<1>12. QED
  BY <1>1, <1>5, <1>6, <1>7, <1>8, <1>9, <1>10, <1>11, SourceSound

\* A draft that is given up, by either process.
LEMMA DiscardFacts ==
  ASSUME TransferInv, NEW t \in instance.transfers, NEW c \in Callers, outbox[t] = "drafting", Discard(c, t)
  PROVE  /\ outbox' \in [Transfers -> States] /\ outbox'[t] = "failed"
         /\ \A u \in Transfers : u # t => outbox'[u] = outbox[u]
         /\ call' \in [Callers -> [Transfers -> Calls]] /\ call'[c][t].step = "withdraw"
         /\ \A d \in Callers, u \in Transfers : d # c \/ u # t => call'[d][u] = call[d][u]
<1>1. t \in Transfers /\ TypeOK /\ call[c][t] \in Calls
  BY StepFacts
<1> DEFINE x == [call[c][t] EXCEPT !.step = "withdraw"]
<1>2. x \in Calls /\ x.step = "withdraw"
  BY <1>1 DEF Calls
<1>3. Replaced(c, t, x)
  BY DEF Discard, Replaced
<1> HIDE DEF x
<1>4. /\ outbox' \in [Transfers -> States] /\ outbox'[t] = "failed"
      /\ \A u \in Transfers : u # t => outbox'[u] = outbox[u]
  BY <1>1, Types DEF States, Discard
<1>5. /\ call' \in [Callers -> [Transfers -> Calls]] /\ call'[c][t] = x
      /\ \A d \in Callers, u \in Transfers : d # c \/ u # t => call'[d][u] = call[d][u]
  BY <1>1, <1>2, <1>3, CallAt
<1>6. QED
  BY <1>2, <1>4, <1>5

\* A question to the relay, or an upload.
LEMMA ContactFacts ==
  ASSUME TransferInv, NEW t \in instance.transfers, NEW c \in Callers, NEW state \in Sent, Contact(c, t, state)
  PROVE  /\ call' \in [Callers -> [Transfers -> Calls]] /\ call'[c][t].step = "wait"
         /\ \A d \in Callers, u \in Transfers : d # c \/ u # t => call'[d][u] = call[d][u]
<1>1. t \in Transfers /\ TypeOK
  BY StepFacts
<1> DEFINE x == [Idle EXCEPT !.step = "wait", !.put = state = "uploading" /\ CanUpload(t)]
<1>2. x \in Calls /\ x.step = "wait"
  BY DEF Calls, Idle
<1>3. Replaced(c, t, x)
  BY DEF Contact, Replaced
<1> HIDE DEF x
<1>4. QED
  BY <1>1, <1>2, <1>3, CallAt

LEMMA ConfirmStep ==
  ASSUME TransferInv, NEW t \in instance.transfers, Confirm(t), UNCHANGED instance
  PROVE  Good
<1>1. /\ t \in Transfers /\ TypeOK /\ Consent
      /\ SourceInv(t) /\ NoticeInv(t) /\ "submitter" \in Callers
  BY StepFacts DEF Callers
<1>2. /\ submit[t] = "confirming" /\ submit' = [submit EXCEPT ![t] = "done"]
      /\ Activate(t) \/ Discard("submitter", t)
      /\ UNCHANGED <<revision, notice, ended, applied, consented, job, issued, grant, targetVars, failures>>
  BY DEF Confirm, SourceKeeps
<1>3. /\ submit' \in [Transfers -> {"idle", "staged", "confirming", "done"}] /\ submit'[t] = "done"
      /\ \A u \in Transfers : u # t => submit'[u] = submit[u]
  BY <1>1, <1>2 DEF TypeOK
<1>4. CASE UNCHANGED <<outbox, call>> /\ outbox[t] # "drafting"
  <2>1. TypeOK'
    BY <1>1, <1>2, <1>3, <1>4, Types, SourceTyped
  <2>2. SourceMove(t) /\ Noted(t)
    BY <1>2, <1>3, <1>4 DEF SourceMove, Noted
  <2>3. SourceInv(t)'
    BY <1>1, <1>2, <1>3, <1>4 DEF SourceInv, Undone
  <2>4. /\ t \in Outgoing' <=> t \in Outgoing
        /\ Guarded(t)' => Guarded(t)
        /\ Standing(t)' <=> Standing(t)
    BY <1>2, <1>3, <1>4 DEF Outgoing, Guarded, Standing
  <2>5. /\ Guarded(t)' => notice'.transfer = t
        /\ Standing(t)' => ended' /\ notice'.transfer = t /\ ~notice'.pending /\ Standing(t)
    BY <1>1, <1>2, <2>4 DEF NoticeInv
  <2>6. QED
    BY <1>1, <1>2, <1>3, <2>1, <2>2, <2>3, <2>4, <2>5, SourceSound
<1>5. CASE /\ outbox[t] = "drafting" /\ outbox' = [outbox EXCEPT ![t] = "uploading"]
           /\ Contact("submitter", t, "uploading")
  <2>1. /\ call' \in [Callers -> [Transfers -> Calls]] /\ call'["submitter"][t].step = "wait"
        /\ \A d \in Callers, u \in Transfers : d # "submitter" \/ u # t => call'[d][u] = call[d][u]
    BY <1>1, <1>5, ContactFacts DEF Sent
  <2>2. /\ outbox' \in [Transfers -> States] /\ outbox'[t] = "uploading"
        /\ \A u \in Transfers : u # t => outbox'[u] = outbox[u]
    BY <1>1, <1>5, Types DEF States
  <2>3. TypeOK'
    BY <1>1, <1>2, <1>3, <2>1, <2>2, Types, SourceTyped
  <2>4. SourceMove(t) /\ Noted(t)
    BY <1>2, <1>3, <2>1, <2>2 DEF SourceMove, Noted
  <2>5. \A c \in Callers : call'[c][t].step \notin {"withdraw", "read"}
    <3>1. \A c \in Callers : call[c][t].step \in {"idle", "withdraw"} /\ call[c][t].step # "withdraw"
      BY <1>1, <1>5 DEF SourceInv, Undone
    <3>2. QED
      BY <1>1, <2>1, <3>1
  <2>6. SourceInv(t)'
    BY <1>1, <1>2, <1>3, <1>5, <2>2, <2>5 DEF SourceInv, Final
  <2>7. notice.transfer = t
    BY <1>1, <1>2, <1>5 DEF NoticeInv, Guarded
  <2>8. t \in Outgoing /\ ~Standing(t)'
    BY <1>1, <1>5, <2>2 DEF Outgoing, Standing
  <2>9. QED
    BY <1>1, <1>2, <1>3, <2>3, <2>4, <2>6, <2>7, <2>8, SourceSound
<1>6. CASE outbox[t] = "drafting" /\ Discard("submitter", t)
  <2>1. /\ outbox' \in [Transfers -> States] /\ outbox'[t] = "failed"
        /\ \A u \in Transfers : u # t => outbox'[u] = outbox[u]
        /\ call' \in [Callers -> [Transfers -> Calls]] /\ call'["submitter"][t].step = "withdraw"
        /\ \A d \in Callers, u \in Transfers : d # "submitter" \/ u # t => call'[d][u] = call[d][u]
    BY <1>1, <1>6, DiscardFacts
  <2>2. TypeOK'
    BY <1>1, <1>2, <1>3, <2>1, Types, SourceTyped
  <2>3. SourceMove(t) /\ Noted(t)
    BY <1>2, <1>3, <2>1 DEF SourceMove, Noted
  <2>4. Undone(t)'
    BY <1>1, <1>2, <1>6, <2>1 DEF SourceInv, Undone
  <2>5. SourceInv(t)'
    BY <1>1, <1>2, <1>3, <2>1, <2>4 DEF SourceInv, Undone, Final
  <2>6. ~Guarded(t)' /\ ~Standing(t)' /\ t \notin Outgoing'
    BY <2>1 DEF Guarded, Standing, Outgoing, Sent
  <2>7. QED
    BY <1>1, <1>2, <1>3, <2>2, <2>3, <2>5, <2>6, SourceSound
<1>7. Discard("submitter", t) => outbox[t] = "drafting" \/ UNCHANGED <<outbox, call>>
  BY DEF Discard
<1>8. QED
  BY <1>2, <1>4, <1>5, <1>6, <1>7 DEF Activate

LEMMA WithdrawStep ==
  ASSUME TransferInv, NEW t \in instance.transfers, NEW c \in Callers, Withdraw(c, t), UNCHANGED instance
  PROVE  Good
<1>1. /\ t \in Transfers /\ TypeOK /\ Consent
      /\ SourceInv(t) /\ NoticeInv(t)
  BY StepFacts
<1>2. /\ call[c][t].step = "withdraw" /\ notice' = Withdrawn(t)
      /\ Replaced(c, t, Idle)
      /\ UNCHANGED <<outbox, revision, submit, ended, applied, consented, job, issued, grant, targetVars, failures>>
  BY DEF Withdraw, SourceKeeps, Replaced
<1>3. Idle \in Calls /\ Idle.step = "idle"
  BY DEF Idle, Calls
<1>4. /\ call' \in [Callers -> [Transfers -> Calls]] /\ call'[c][t].step = "idle"
      /\ \A d \in Callers, u \in Transfers : d # c \/ u # t => call'[d][u] = call[d][u]
  BY <1>1, <1>2, <1>3, CallAt
<1>5. outbox[t] = "failed" /\ Undone(t)
  BY <1>1, <1>2 DEF SourceInv
<1>6. Withdrawn(t) \in Notices
  BY <1>1, WithdrawnFacts
<1>7. TypeOK'
  BY <1>1, <1>2, <1>4, <1>6, Types, SourceTyped
<1>8. SourceMove(t) /\ Noted(t)
  BY <1>2, <1>4 DEF SourceMove, Noted
<1>9. Undone(t)'
  BY <1>1, <1>2, <1>4, <1>5 DEF Undone
<1>10. SourceInv(t)'
  BY <1>1, <1>2, <1>4, <1>5, <1>9 DEF SourceInv, Undone, Final
<1>11. ~Guarded(t)' /\ ~Standing(t)' /\ t \notin Outgoing' /\ submit[t] # "idle" /\ submit'[t] # "idle"
  BY <1>1, <1>2, <1>5 DEF Guarded, Standing, Outgoing, Sent, SourceInv
<1>12. QED
  BY <1>1, <1>2, <1>7, <1>8, <1>10, <1>11, SourceSound

LEMMA ResumeStep ==
  ASSUME TransferInv, NEW t \in instance.transfers, Resume(t), UNCHANGED instance
  PROVE  Good
<1>1. /\ t \in Transfers /\ TypeOK /\ Consent
      /\ SourceInv(t) /\ NoticeInv(t) /\ "monitor" \in Callers
  BY StepFacts DEF Callers
<1>2. /\ call["monitor"][t].step = "idle"
      /\ UNCHANGED <<revision, notice, submit, ended, applied, consented, job, issued, grant, targetVars, failures>>
  BY DEF Resume, SourceKeeps
<1>3. CASE outbox[t] = "drafting" /\ Discard("monitor", t)
  <2>1. /\ outbox' \in [Transfers -> States] /\ outbox'[t] = "failed"
        /\ \A u \in Transfers : u # t => outbox'[u] = outbox[u]
        /\ call' \in [Callers -> [Transfers -> Calls]] /\ call'["monitor"][t].step = "withdraw"
        /\ \A d \in Callers, u \in Transfers : d # "monitor" \/ u # t => call'[d][u] = call[d][u]
    BY <1>1, <1>3, DiscardFacts
  <2>2. TypeOK'
    BY <1>1, <1>2, <2>1, Types, SourceTyped
  <2>3. SourceMove(t) /\ Noted(t)
    BY <1>2, <2>1 DEF SourceMove, Noted
  <2>4. Undone(t)'
    BY <1>1, <1>2, <1>3, <2>1 DEF SourceInv, Undone
  <2>5. SourceInv(t)'
    BY <1>1, <1>2, <1>3, <2>1, <2>4 DEF SourceInv, Undone, Final
  <2>6. ~Guarded(t)' /\ ~Standing(t)' /\ t \notin Outgoing' /\ submit[t] # "idle" /\ submit'[t] # "idle"
    BY <1>1, <1>2, <1>3, <2>1 DEF Guarded, Standing, Outgoing, Sent, SourceInv
  <2>7. QED
    BY <1>1, <1>2, <2>2, <2>3, <2>5, <2>6, SourceSound
<1>4. CASE outbox[t] \in Sent /\ Contact("monitor", t, outbox[t]) /\ UNCHANGED outbox
  <2>1. /\ call' \in [Callers -> [Transfers -> Calls]] /\ call'["monitor"][t].step = "wait"
        /\ \A d \in Callers, u \in Transfers : d # "monitor" \/ u # t => call'[d][u] = call[d][u]
    BY <1>1, <1>4, ContactFacts
  <2>2. TypeOK'
    BY <1>1, <1>2, <1>4, <2>1, Types, SourceTyped
  <2>3. SourceMove(t) /\ Noted(t)
    BY <1>2, <1>4, <2>1 DEF SourceMove, Noted
  <2>4. SourceInv(t)'
    <3>1. outbox[t] \notin {"none", "drafting", "completed", "failed"}
      BY <1>4 DEF Sent
    <3>2. \A d \in Callers : call'[d][t].step \notin {"idle", "wait"} => call'[d][t] = call[d][t]
      BY <1>1, <2>1
    <3>3. QED
      BY <1>1, <1>2, <1>4, <3>1, <3>2 DEF SourceInv
  <2>5. /\ Guarded(t)' <=> Guarded(t)
        /\ t \in Outgoing' <=> t \in Outgoing
        /\ ~Standing(t)' /\ submit[t] # "idle" /\ submit'[t] # "idle"
    BY <1>1, <1>2, <1>4 DEF Guarded, Outgoing, Standing, SourceInv, Sent
  <2>6. QED
    BY <1>1, <1>2, <2>2, <2>3, <2>4, <2>5, SourceSound DEF NoticeInv
<1>5. QED
  BY <1>3, <1>4 DEF Resume

\* The relay answers, or an exchange with it breaks off: the source's record,
\* the notice and the Mesh store are as before.
LEMMA ExchangeStep ==
  ASSUME TransferInv, NEW t \in instance.transfers, NEW c \in Callers, call[c][t].step = "wait",
         NEW x \in Calls, Replaced(c, t, x),
         job' = job \/ job' = [job EXCEPT ![t] = Kept(c, t)],
         x.step = "idle" \/ (x.step = "read" /\ x.receipt = job'[t] /\ job'[t] # "none"),
         UNCHANGED <<outbox, revision, notice, submit, ended, applied, consented, issued, grant, targetVars, instance>>,
         failures' \in 0..instance.failures
  PROVE  Good
<1>1. /\ t \in Transfers /\ TypeOK /\ Consent
      /\ SourceInv(t) /\ NoticeInv(t) /\ job[t] \in Jobs
  BY StepFacts
<1>2. /\ call' \in [Callers -> [Transfers -> Calls]] /\ call'[c][t] = x
      /\ \A d \in Callers, u \in Transfers : d # c \/ u # t => call'[d][u] = call[d][u]
  BY <1>1, CallAt
<1>3. /\ job' \in [Transfers -> Jobs] /\ (job'[t] = job[t] \/ (job[t] = "none" /\ job'[t] = "queued"))
      /\ \A u \in Transfers : u # t => job'[u] = job[u]
  BY <1>1, Types DEF Kept, Jobs
<1>4. TypeOK'
  BY <1>1, <1>2, <1>3, Types, SourceTyped
<1>5. SourceMove(t) /\ Noted(t)
  BY <1>2, <1>3 DEF SourceMove, Noted
<1>6. outbox[t] \notin {"none", "drafting"} /\ submit[t] # "idle" /\ ~Undone(t)
  BY <1>1 DEF SourceInv, Undone
<1>7. \A d \in Callers : call[d][t].step # "withdraw"
  BY <1>1, <1>6 DEF SourceInv
<1>8. SourceInv(t)'
  <2>1. job[t] # "none" => job'[t] = job[t]
    BY <1>3
  <2>2. \A d \in Callers : call'[d][t] = x \/ call'[d][t] = call[d][t]
    BY <1>1, <1>2
  <2>3. outbox[t] = "failed" => job'[t] = "failed"
    BY <1>1, <1>6, <2>1 DEF SourceInv
  <2>4. outbox[t] = "completed" => job'[t] = "completed"
    BY <1>1, <2>1 DEF SourceInv
  <2>5. \A d \in Callers : call'[d][t].step # "withdraw"
    BY <1>7, <2>2
  <2>6. \A d \in Callers : call'[d][t].step = "read" =>
          /\ job'[t] # "none" /\ call'[d][t].receipt # "none"
          /\ call'[d][t].receipt \in Final => job'[t] = call'[d][t].receipt
    BY <1>1, <1>3, <2>1, <2>2 DEF SourceInv
  <2>7. QED
    BY <1>1, <1>6, <2>3, <2>4, <2>5, <2>6 DEF SourceInv
<1>9. /\ Guarded(t)' <=> Guarded(t)
      /\ t \in Outgoing' <=> t \in Outgoing
      /\ Standing(t)' <=> Standing(t)
  BY DEF Guarded, Outgoing, Standing
<1>10. /\ Guarded(t)' => notice'.transfer = t
       /\ Standing(t)' => ended' /\ notice'.transfer = t /\ ~notice'.pending /\ Standing(t)
  BY <1>1, <1>9 DEF NoticeInv
<1>11. submit'[t] # "idle" /\ (ended => ended')
  BY <1>6
<1>12. QED
  BY <1>1, <1>4, <1>5, <1>6, <1>8, <1>9, <1>10, <1>11, SourceSound

LEMMA AnswerStep ==
  ASSUME TransferInv, NEW t \in instance.transfers, NEW c \in Callers, Answer(c, t), UNCHANGED instance
  PROVE  Good
<1>1. /\ t \in Transfers /\ TypeOK /\ job[t] \in Jobs /\ call[c][t] \in Calls
  BY StepFacts
<1> DEFINE x == IF Kept(c, t) = "none" THEN Idle ELSE [call[c][t] EXCEPT !.step = "read", !.receipt = Kept(c, t)]
<1>2. Kept(c, t) \in Jobs
  BY <1>1 DEF Kept, Jobs
<1>3. x \in Calls /\ (x.step = "idle" \/ (x.step = "read" /\ x.receipt = Kept(c, t) /\ Kept(c, t) # "none"))
  BY <1>1, <1>2 DEF Calls, Idle, Jobs, Final
<1>4. /\ call[c][t].step = "wait" /\ job' = [job EXCEPT ![t] = Kept(c, t)]
      /\ Replaced(c, t, x)
      /\ UNCHANGED <<outbox, revision, notice, submit, ended, applied, consented, issued, grant, targetVars, failures>>
  BY DEF Answer, Replaced
<1> HIDE DEF x
<1>5. job'[t] = Kept(c, t)
  BY <1>1, <1>4 DEF TypeOK
<1>6. failures' \in 0..instance.failures
  BY <1>1, <1>4 DEF TypeOK
<1>7. QED
  BY <1>1, <1>3, <1>4, <1>5, <1>6, ExchangeStep

LEMMA FailureFacts ==
  ASSUME TypeOK, failures < instance.failures, failures' = failures + 1
  PROVE  failures' \in 0..instance.failures
<1>1. failures \in 0..instance.failures /\ instance.failures \in Nat
  BY Bounds DEF TypeOK
<1>2. QED
  BY <1>1

LEMMA SourceFaultStep ==
  ASSUME TransferInv, NEW t \in instance.transfers, NEW c \in Callers, SourceFault(c, t), UNCHANGED instance
  PROVE  Good
<1>1. t \in Transfers /\ TypeOK
  BY StepFacts
<1>2. job' = job \/ job' = [job EXCEPT ![t] = Kept(c, t)]
  BY DEF SourceFault
<1>3. /\ call[c][t].step = "wait" /\ Replaced(c, t, Idle)
      /\ UNCHANGED <<outbox, revision, notice, submit, ended, applied, consented, issued, grant, targetVars>>
  BY DEF SourceFault, Replaced
<1>4. failures' \in 0..instance.failures
  BY <1>1, FailureFacts DEF SourceFault
<1>5. Idle \in Calls /\ Idle.step = "idle"
  BY DEF Idle, Calls
<1>6. QED
  BY <1>2, <1>3, <1>4, <1>5, ExchangeStep

LEMMA ReadReceiptStep ==
  ASSUME TransferInv, NEW t \in instance.transfers, NEW c \in Callers, ReadReceipt(c, t), UNCHANGED instance
  PROVE  Good
<1> DEFINE receipt == call[c][t].receipt
           note == IF receipt = "completed" THEN Recorded(t, FALSE) ELSE notice
<1>1. /\ t \in Transfers /\ TypeOK /\ Consent
      /\ SourceInv(t) /\ NoticeInv(t) /\ outbox[t] \in States /\ job[t] \in Jobs /\ notice \in Notices
      /\ call[c][t] \in Calls
  BY StepFacts
<1>2. /\ call[c][t].step = "read" /\ Replaced(c, t, Idle)
      /\ outbox' = IF outbox[t] \in Final THEN outbox ELSE [outbox EXCEPT ![t] = receipt]
      /\ IF receipt \in Final
           THEN /\ applied' = Applied(t, note)
                /\ ended' = (ended \/ (t \in applied' \ applied /\ receipt = "completed"))
                /\ notice' = IF receipt = "failed" THEN Withdrawn(t) ELSE note
           ELSE UNCHANGED <<notice, applied, ended>>
      /\ UNCHANGED <<revision, submit, consented, job, issued, grant, targetVars, failures>>
  BY DEF ReadReceipt, SourceKeeps, Replaced
<1>3. Idle \in Calls /\ Idle.step = "idle"
  BY DEF Idle, Calls
<1>4. /\ call' \in [Callers -> [Transfers -> Calls]] /\ call'[c][t].step = "idle"
      /\ \A d \in Callers, u \in Transfers : d # c \/ u # t => call'[d][u] = call[d][u]
  <2>1. Replaced(c, t, Idle)
    BY <1>2
  <2>2. QED
    BY <1>1, <1>3, <2>1, CallAt
<1>5. /\ receipt \in {"queued", "accepted", "completed", "failed"}
      /\ receipt \in Final => job[t] = receipt
      /\ job[t] # "none"
  BY <1>1, <1>2 DEF SourceInv, Calls, Final
<1>6. outbox[t] \in Sent \/ outbox[t] \in Final
  BY <1>1, <1>5 DEF SourceInv, Undone, States, Sent, Final
<1> HIDE DEF receipt
<1>7. /\ outbox' \in [Transfers -> States] /\ outbox'[t] = (IF outbox[t] \in Final THEN outbox[t] ELSE receipt)
      /\ \A u \in Transfers : u # t => outbox'[u] = outbox[u]
  BY <1>1, <1>2, <1>5, Types DEF States
<1>8. Noted(t)
  BY <1>2 DEF Noted
<1>9. notice' \in Notices
  BY <1>1, <1>8, NotedFacts
<1>10. /\ applied' \subseteq Transfers /\ (t \in applied' => t \in applied \/ receipt \in Final)
       /\ \A u \in Transfers : u # t => (u \in applied' => u \in applied)
  <2>1. applied \subseteq Transfers
    BY <1>1 DEF TypeOK
  <2>2. (receipt \in Final /\ applied' = Applied(t, note)) \/ applied' = applied
    BY <1>2
  <2>3. Applied(t, note) \in {applied, applied \cup {t}}
    BY DEF Applied
  <2>4. QED
    BY <1>1, <2>1, <2>2, <2>3
<1>11. ended' \in BOOLEAN /\ (ended => ended')
  <2>1. ended \in BOOLEAN
    BY <1>1, Types, Zenon
  <2> DEFINE now == t \in applied' \ applied /\ receipt = "completed"
  <2>2. ended' = (ended \/ now) \/ ended' = ended
    BY <1>2
  <2>3. now \in BOOLEAN
    OBVIOUS
  <2> HIDE DEF now
  <2>4. QED
    BY <2>1, <2>2, <2>3
<1>12. TypeOK'
  BY <1>1, <1>2, <1>4, <1>7, <1>9, <1>10, <1>11, Types, SourceTyped
<1>13. SourceMove(t)
  BY <1>2, <1>4, <1>7, <1>10 DEF SourceMove
<1>14. SourceInv(t)'
  <2>1. outbox[t] \notin {"none", "drafting"} /\ submit[t] # "idle" /\ outbox'[t] \notin {"none", "drafting"}
    BY <1>1, <1>5, <1>6, <1>7 DEF SourceInv, Sent, Final
  <2>2. \A d \in Callers : call[d][t].step # "withdraw" \/ outbox[t] = "failed"
    BY <1>1 DEF SourceInv
  <2>3. \A d \in Callers : call'[d][t].step = "idle" \/ call'[d][t] = call[d][t]
    BY <1>1, <1>4
  <2>4. outbox[t] = "failed" => job[t] = "failed" /\ \A d \in Callers : call[d][t].step # "withdraw"
    BY <1>1, <1>5 DEF SourceInv, Undone
  <2>5. \A d \in Callers : call'[d][t].step # "withdraw"
    BY <2>2, <2>3, <2>4
  <2>6. /\ outbox'[t] = "completed" => job'[t] = "completed"
        /\ outbox'[t] = "failed" => job'[t] = "failed"
    BY <1>1, <1>2, <1>5, <1>7, <2>4 DEF SourceInv, Final
  <2>7. t \in applied' => outbox'[t] \in Final
    BY <1>1, <1>7, <1>10 DEF SourceInv
  <2>8. \A d \in Callers : call'[d][t].step = "read" =>
          /\ job'[t] # "none" /\ call'[d][t].receipt # "none"
          /\ call'[d][t].receipt \in Final => job'[t] = call'[d][t].receipt
    BY <1>1, <1>2, <2>3 DEF SourceInv
  <2>9. QED
    BY <1>2, <2>1, <2>5, <2>6, <2>7, <2>8 DEF SourceInv
<1>15. submit[t] # "idle" /\ submit' = submit
  BY <1>1, <1>2 DEF SourceInv
<1>16. CASE outbox[t] \in Sent /\ receipt \in {"queued", "accepted"}
  <2>1. outbox'[t] = receipt /\ notice' = notice /\ outbox'[t] \in Sent
    BY <1>2, <1>7, <1>16 DEF Sent, Final
  <2>2. t \in Outgoing /\ notice.transfer = t /\ ~Standing(t)'
    BY <1>1, <1>16, <2>1 DEF Outgoing, NoticeInv, Guarded, Standing, Sent
  <2>3. QED
    BY <1>1, <1>8, <1>11, <1>12, <1>13, <1>14, <1>15, <2>1, <2>2, SourceSound
<1>17. CASE outbox[t] \in Sent /\ receipt = "failed"
  <2>1. outbox'[t] = "failed"
    BY <1>7, <1>17 DEF Sent, Final
  <2>2. ~Guarded(t)' /\ ~Standing(t)' /\ t \notin Outgoing'
    BY <2>1 DEF Guarded, Standing, Outgoing, Sent
  <2>3. QED
    BY <1>1, <1>8, <1>11, <1>12, <1>13, <1>14, <1>15, <2>2, SourceSound
<1>18. CASE outbox[t] \in Sent /\ receipt = "completed"
  <2>1. outbox'[t] = "completed" /\ t \in Outgoing /\ notice.transfer = t
    BY <1>1, <1>7, <1>18 DEF Sent, Final, Outgoing, NoticeInv, Guarded
  <2>2. note.transfer = t /\ ~note.pending
    BY <1>1, <1>18, <2>1, RecordedFacts
  <2>3. t \notin applied
    BY <1>1, <1>18 DEF SourceInv, Sent, Final
  <2>4. notice' = note /\ ended'
    BY <1>2, <1>18, <2>2, <2>3 DEF Final, Applied
  <2>5. ~Guarded(t)' /\ t \notin Outgoing'
    BY <2>1 DEF Guarded, Outgoing, Sent
  <2>6. QED
    BY <1>1, <1>8, <1>11, <1>12, <1>13, <1>14, <1>15, <2>1, <2>2, <2>4, <2>5, SourceSound
<1>19. CASE outbox[t] = "failed"
  <2>1. outbox'[t] = "failed"
    BY <1>7, <1>19 DEF Final
  <2>2. ~Guarded(t)' /\ ~Standing(t)' /\ t \notin Outgoing'
    BY <2>1 DEF Guarded, Standing, Outgoing, Sent
  <2>3. QED
    BY <1>1, <1>8, <1>11, <1>12, <1>13, <1>14, <1>15, <2>2, SourceSound
<1>20. CASE outbox[t] = "completed"
  <2>1. outbox'[t] = "completed" /\ job[t] = "completed"
    BY <1>1, <1>7, <1>20 DEF Final, SourceInv
  <2>2. ~Guarded(t)' /\ t \notin Outgoing' /\ (Standing(t)' <=> Standing(t))
    BY <1>2, <1>20, <2>1 DEF Guarded, Outgoing, Sent, Standing
  <2>3. ASSUME Standing(t) PROVE ended' /\ notice'.transfer = t /\ ~notice'.pending
    <3>1. ended /\ notice.transfer = t /\ ~notice.pending
      BY <1>1, <2>3 DEF NoticeInv
    <3>2. note = notice
      BY <1>1, <3>1, RecordedFacts
    <3>3. receipt # "failed"
      BY <1>5, <2>1 DEF Final
    <3>4. notice' = notice
      BY <1>2, <3>2, <3>3
    <3>5. QED
      BY <1>11, <3>1, <3>4
  <2>4. QED
    BY <1>1, <1>8, <1>11, <1>12, <1>13, <1>14, <1>15, <2>2, <2>3, SourceSound
<1>21. QED
  BY <1>5, <1>6, <1>16, <1>17, <1>18, <1>19, <1>20 DEF Final

LEMMA SourceCrashStep ==
  ASSUME TransferInv, NEW t \in instance.transfers, NEW c \in Callers, SourceCrash(c, t), UNCHANGED instance
  PROVE  Good
<1>1. /\ t \in Transfers /\ TypeOK /\ Consent
      /\ SourceInv(t) /\ NoticeInv(t)
  BY StepFacts
<1>2. /\ Replaced(c, t, Idle)
      /\ submit' = IF c = "submitter" THEN [submit EXCEPT ![t] = "done"] ELSE submit
      /\ UNCHANGED <<outbox, revision, notice, ended, applied, consented, job, issued, grant, targetVars>>
      /\ call[c][t].step = "withdraw" \/ submit[t] \in {"staged", "confirming"}
  BY DEF SourceCrash, Replaced
<1>3. failures' \in 0..instance.failures
  BY <1>1, FailureFacts DEF SourceCrash
<1>4. Idle \in Calls /\ Idle.step = "idle"
  BY DEF Idle, Calls
<1>5. /\ call' \in [Callers -> [Transfers -> Calls]] /\ call'[c][t].step = "idle"
      /\ \A d \in Callers, u \in Transfers : d # c \/ u # t => call'[d][u] = call[d][u]
  BY <1>1, <1>2, <1>4, CallAt
<1>6. submit[t] # "idle"
  BY <1>1, <1>2 DEF SourceInv
<1>7. /\ submit' \in [Transfers -> {"idle", "staged", "confirming", "done"}] /\ submit'[t] \in {submit[t], "done"}
      /\ \A u \in Transfers : u # t => submit'[u] = submit[u]
  BY <1>1, <1>2 DEF TypeOK
<1>8. TypeOK'
  BY <1>1, <1>2, <1>3, <1>5, <1>7, Types, SourceTyped
<1>9. SourceMove(t) /\ Noted(t)
  BY <1>2, <1>5, <1>7 DEF SourceMove, Noted
<1>10. SourceInv(t)'
  <2>1. \A d \in Callers : call'[d][t].step = "idle" \/ call'[d][t] = call[d][t]
    BY <1>1, <1>5
  <2>2. Undone(t) => Undone(t)'
    BY <1>2, <2>1 DEF Undone
  <2>3. QED
    BY <1>1, <1>2, <1>6, <1>7, <2>1, <2>2 DEF SourceInv
<1>11. /\ Guarded(t)' => Guarded(t)
       /\ t \in Outgoing' <=> t \in Outgoing
       /\ Standing(t)' <=> Standing(t)
  BY <1>2, <1>7 DEF Guarded, Outgoing, Standing
<1>12. submit'[t] # "idle" /\ (ended => ended')
  BY <1>2, <1>6, <1>7
<1>13. /\ Guarded(t)' => notice'.transfer = t
       /\ Standing(t)' => ended' /\ notice'.transfer = t /\ ~notice'.pending /\ Standing(t)
  BY <1>1, <1>2, <1>11 DEF NoticeInv
<1>14. QED
  BY <1>1, <1>6, <1>8, <1>9, <1>10, <1>11, <1>12, <1>13, SourceSound

\* A new transfer is staged when none is under way and the chat is open: none
\* stands whose notice it could take away.
LEMMA StageStep ==
  ASSUME TransferInv, NEW t \in instance.transfers, Stage(t), UNCHANGED instance
  PROVE  Good
<1>1. /\ t \in Transfers /\ TypeOK /\ Consent
      /\ SourceInv(t) /\ NoticeInv(t)
  BY StepFacts
<1>2. /\ submit[t] = "idle" /\ ~ended /\ Outgoing = {}
      /\ \A u \in instance.transfers : CreatedAt[u] < CreatedAt[t] => submit[u] # "idle"
      /\ submit' = [submit EXCEPT ![t] = "staged"] /\ outbox' = [outbox EXCEPT ![t] = "drafting"]
      /\ revision' = [revision EXCEPT ![t] = grant["source"]]
      /\ UNCHANGED <<notice, call, ended, applied, consented, job, issued, grant, targetVars, failures, instance>>
  BY DEF Stage, SourceKeeps, Submittable
<1>3. /\ submit' \in [Transfers -> {"idle", "staged", "confirming", "done"}] /\ submit'[t] = "staged"
      /\ \A u \in Transfers : u # t => submit'[u] = submit[u]
  BY <1>1, <1>2 DEF TypeOK
<1>4. /\ outbox' \in [Transfers -> States] /\ outbox'[t] = "drafting"
      /\ \A u \in Transfers : u # t => outbox'[u] = outbox[u]
  BY <1>1, <1>2, Types DEF States
<1>5. revision' \in [Transfers -> 0..issued]
  BY <1>1, <1>2 DEF TypeOK
<1>6. TypeOK'
  BY <1>1, <1>2, <1>3, <1>4, <1>5, Types, SourceTyped
<1>7. UNCHANGED <<inbox, prepared, launches, queue, at>>
  BY <1>2 DEF targetVars
<1>8. \A u \in Transfers : ~Guarded(u) /\ u \notin Outgoing /\ ~Standing(u)
  <2>1. ASSUME NEW u \in Transfers PROVE ~Guarded(u) /\ u \notin Outgoing
    BY <1>2 DEF Guarded, Outgoing
  <2>2. ASSUME NEW u \in Transfers PROVE ~Standing(u)
    BY <1>2 DEF TransferInv, NoticeInv
  <2>3. QED
    BY <2>1, <2>2
<1>9. ASSUME NEW u \in Transfers PROVE SourceInv(u)'
  <2>1. SourceInv(u)
    BY DEF TransferInv
  <2>2. Undone(u)' <=> Undone(u)
    BY <1>2 DEF Undone
  <2>3. CASE u = t
    <3>1. outbox[t] = "none" /\ Undone(t) /\ (t \notin applied) /\ \A c \in Callers : call[c][t].step = "idle"
      BY <1>1, <1>2 DEF SourceInv, Final
    <3>2. QED
      BY <1>2, <1>3, <1>4, <2>2, <2>3, <3>1 DEF SourceInv
  <2>4. CASE u # t
    BY <1>2, <1>3, <1>4, <2>1, <2>2, <2>4 DEF SourceInv
  <2>5. QED
    BY <2>3, <2>4
<1>10. \A u \in Transfers : submit[u] # "idle" => submit'[u] # "idle"
  BY <1>3
<1>11. ASSUME NEW u \in Transfers PROVE NoticeInv(u)'
  <2>1. NoticeInv(u)
    BY DEF TransferInv
  <2>2. submit'[u] # "idle" => u \in instance'.transfers /\ \A v \in instance'.transfers : Later(u, v)' => submit'[v] # "idle"
    <3>1. CASE u = t
      <4>1. ASSUME NEW v \in instance.transfers, Later(t, v) PROVE submit[v] # "idle"
        <5>1. CreatedAt[v] \in Nat /\ CreatedAt[t] \in Nat
          BY <1>1, Bounds
        <5>2. QED
          BY <1>2, <4>1, <5>1 DEF Later
      <4>2. QED
        BY <1>1, <1>2, <1>10, <3>1, <4>1, Bounds DEF Later
    <3>2. CASE u # t
      BY <1>1, <1>2, <1>3, <1>10, <2>1, <3>2, Bounds DEF NoticeInv, Later
    <3>3. QED
      BY <3>1, <3>2
  <2>3. CASE u # t
    <3>1. ~Guarded(u)' /\ u \notin Outgoing' /\ ~Standing(u)'
      BY <1>2, <1>3, <1>4, <1>8, <2>3 DEF Guarded, Outgoing, Standing
    <3>2. QED
      BY <2>2, <3>1 DEF NoticeInv
  <2>4. CASE u = t
    <3>1. ~Guarded(t)' /\ ~Standing(t)'
      BY <1>3, <1>4 DEF Guarded, Standing, Sent
    <3>2. Idling(t)'
      <4>1. ASSUME NEW v \in Transfers, Later(v, t) PROVE submit'[v] = "idle"
        <5>1. v # t
          BY <1>1, <4>1, InOrder
        <5>2. submit[v] = "idle"
          BY <1>1, <1>2, <4>1 DEF TransferInv, NoticeInv
        <5>3. QED
          BY <1>3, <5>1, <5>2
      <4>2. QED
        BY <4>1 DEF Idling, Later
    <3>3. QED
      BY <2>2, <2>4, <3>1, <3>2 DEF NoticeInv
  <2>5. QED
    BY <2>3, <2>4
<1>12. Consent'
  <2>1. notice.transfer \in Transfers \cup {None}
    BY <1>1 DEF TypeOK
  <2>2. QED
    BY <1>1, <1>2, <1>10, <2>1 DEF Consent
<1>13. \A u \in Transfers : JobInv(u)' /\ Stands(u)
  BY <1>2, <1>7 DEF TransferInv, JobInv, Stands
<1>14. \A r \in Receivers : ReceiverInv(r)'
  BY <1>7 DEF TransferInv, ReceiverInv
<1>15. QED
  BY <1>6, <1>9, <1>11, <1>12, <1>13, <1>14 DEF Good, TransferInv
-----------------------------------------------------------------------------
(* The person and the grant *)

\* Neither the relay, nor the destination, nor a transfer's record changes.
LEMMA WorldSound ==
  ASSUME TransferInv, TypeOK',
         UNCHANGED <<outbox, submit, call, applied, job, targetVars, instance>>,
         notice'.transfer = notice.transfer, notice'.pending = notice.pending,
         notice'.continued => notice.transfer \in consented', consented \subseteq consented',
         ended /\ ~ended' => notice.continued
  PROVE  Good
<1>1. UNCHANGED <<inbox, prepared, launches, queue, at>>
  BY DEF targetVars
<1>2. \A u \in Transfers : SourceInv(u)' /\ JobInv(u)' /\ Stands(u)
  BY <1>1 DEF TransferInv, SourceInv, Undone, JobInv, Stands
<1>3. \A r \in Receivers : ReceiverInv(r)'
  BY <1>1 DEF TransferInv, ReceiverInv
<1>4. ASSUME NEW u \in Transfers PROVE NoticeInv(u)'
  <2>1. NoticeInv(u) /\ Consent
    BY DEF TransferInv
  <2>2. (Guarded(u)' <=> Guarded(u)) /\ (Idling(u)' <=> Idling(u)) /\ (u \in Outgoing' <=> u \in Outgoing)
    BY DEF Guarded, Idling, Later, Outgoing
  <2>3. Standing(u)' => Standing(u)
    BY DEF Standing
  <2>4. Standing(u)' => ended'
    <3>1. ASSUME Standing(u)', ~ended' PROVE FALSE
      <4>1. ended /\ notice.transfer = u
        BY <2>1, <2>3, <3>1 DEF NoticeInv
      <4>2. u \in consented
        BY <2>1, <3>1, <4>1 DEF Consent
      <4>3. QED
        BY <3>1, <4>2 DEF Standing
    <3>2. QED
      BY <3>1
  <2>5. submit'[u] # "idle" => u \in instance'.transfers /\ \A v \in instance'.transfers : Later(u, v)' => submit'[v] # "idle"
    BY <2>1 DEF NoticeInv, Later
  <2>6. QED
    BY <2>1, <2>2, <2>3, <2>4, <2>5 DEF NoticeInv
<1>5. Consent'
  BY DEF TransferInv, Consent
<1>6. QED
  BY <1>2, <1>3, <1>4, <1>5 DEF Good, TransferInv

LEMMA WorldStep ==
  ASSUME TransferInv, World, UNCHANGED instance
  PROVE  Good
<1>1. TypeOK /\ Consent /\ notice \in Notices
  BY Types DEF TransferInv
<1>2. CASE Continue
  <2>1. /\ notice.transfer # None /\ notice' = [notice EXCEPT !.continued = TRUE]
        /\ consented' = consented \cup {notice.transfer}
        /\ UNCHANGED <<outbox, revision, submit, call, ended, applied, job, issued, grant, targetVars, failures>>
    BY <1>2 DEF Continue
  <2>2. notice' \in Notices /\ notice'.transfer = notice.transfer /\ notice'.pending = notice.pending
    BY <1>1, <2>1 DEF Notices
  <2>3. consented' \subseteq Transfers
    BY <1>1, <2>1 DEF Notices, TypeOK
  <2>4. TypeOK'
    BY <1>1, <2>1, <2>2, <2>3, Types DEF targetVars, TypeOK, Calls, Notices, Records, Works, States, Jobs, Sent, Final
  <2>5. QED
    BY <2>1, <2>2, <2>4, WorldSound
<1>3. CASE Reopen
  <2>1. /\ notice.continued /\ ended' = FALSE
        /\ UNCHANGED <<outbox, revision, notice, submit, call, applied, consented, job, issued, grant, targetVars, failures>>
    BY <1>3 DEF Reopen
  <2>2. TypeOK'
    BY <1>1, <2>1 DEF targetVars, TypeOK
  <2>3. QED
    BY <1>1, <2>1, <2>2, WorldSound DEF Consent
<1>4. CASE Issue
  <2>1. /\ issued < instance.revisions /\ issued' = issued + 1
        /\ UNCHANGED <<sourceVars, job, grant, targetVars, failures>>
    BY <1>4 DEF Issue
  <2>2. /\ issued \in Nat /\ instance.revisions \in Nat
    BY <1>1, Bounds
  <2>3. issued' \in 0..instance.revisions /\ \A x \in 0..issued : x \in 0..issued'
    BY <2>1, <2>2
  <2>4. revision' \in [Transfers -> 0..issued'] /\ grant' \in [{"source", "target"} -> 0..issued']
    BY <1>1, <2>1, <2>3 DEF TypeOK, sourceVars
  <2>5. TypeOK'
    BY <1>1, <2>1, <2>3, <2>4 DEF targetVars, sourceVars, TypeOK
  <2>6. QED
    BY <1>1, <2>1, <2>5, WorldSound DEF Consent, sourceVars
<1>5. CASE \E computer \in {"source", "target"} : Configure(computer)
  <2>1. PICK computer \in {"source", "target"} : Configure(computer)
    BY <1>5
  <2>2. PICK x \in grant[computer] + 1 .. issued : grant' = [grant EXCEPT ![computer] = x]
    BY <2>1 DEF Configure
  <2>3. UNCHANGED <<sourceVars, job, issued, targetVars, failures>>
    BY <2>1 DEF Configure
  <2>4. x \in 0..issued
    <3>1. grant[computer] \in 0..issued /\ issued \in Nat
      BY <1>1, Bounds DEF TypeOK
    <3>2. QED
      BY <2>2, <3>1
  <2>5. grant' \in [{"source", "target"} -> 0..issued]
    BY <1>1, <2>2, <2>4 DEF TypeOK
  <2>6. TypeOK'
    BY <1>1, <2>3, <2>5 DEF targetVars, sourceVars, TypeOK
  <2>7. QED
    BY <1>1, <2>3, <2>6, WorldSound DEF Consent, sourceVars
<1>6. QED
  BY <1>2, <1>3, <1>4, <1>5 DEF World
-----------------------------------------------------------------------------
(* Steps of the destination *)

Same(u) == inbox'[u] = inbox[u] /\ prepared'[u] = prepared[u] /\ launches'[u] = launches[u] /\ job'[u] = job[u]

\* What is known of a transfer stays known.
Grows(u) ==
  /\ inbox[u].phase # "none" => inbox'[u].phase # "none"
  /\ inbox[u].result # "none" => inbox'[u].result = inbox[u].result
  /\ prepared[u] # "none" => prepared'[u] # "none"
  /\ job'[u] = "none" <=> job[u] = "none"
  /\ job[u] \in Final => job'[u] = job[u]

LEMMA TargetSound ==
  ASSUME TransferInv, TypeOK', UNCHANGED <<sourceVars, instance>>,
         \A u \in Transfers : Same(u) \/ (Grows(u) /\ JobInv(u)'),
         \A s \in Receivers : (at'[s] = at[s] /\ queue'[s] = queue[s]) \/ ReceiverInv(s)'
  PROVE  Good
<1>1. \A u \in Transfers : Grows(u) /\ JobInv(u)' /\ Stands(u)
  BY DEF TransferInv, Same, Grows, JobInv, Stands
<1>2. UNCHANGED <<outbox, notice, submit, call, ended, applied, consented, instance>>
  BY DEF sourceVars
<1>3. ASSUME NEW u \in Transfers PROVE SourceInv(u)'
  <2>1. Grows(u) /\ SourceInv(u)
    BY <1>1 DEF TransferInv
  <2>2. Undone(u)' <=> Undone(u)
    BY <1>2, <2>1 DEF Undone, Grows
  <2>3. QED
    BY <1>2, <2>1, <2>2 DEF SourceInv, Grows, Final
<1>4. \A u \in Transfers : NoticeInv(u)'
  BY <1>2 DEF TransferInv, NoticeInv, Guarded, Standing, Outgoing, Idling, Later
<1>5. Consent'
  BY <1>2 DEF TransferInv, Consent
<1>6. ASSUME NEW s \in Receivers, at'[s] = at[s], queue'[s] = queue[s] PROVE ReceiverInv(s)'
  <2>1. ReceiverInv(s)
    BY DEF TransferInv
  <2>2. \A h \in queue[s] : h.transfer \in Transfers
    BY Types DEF TransferInv, Header
  <2>3. QED
    BY <1>1, <1>6, <2>1, <2>2 DEF ReceiverInv, Grows
<1>7. QED
  BY <1>1, <1>3, <1>4, <1>5, <1>6 DEF Good, TransferInv

LEMMA TargetTyped ==
  ASSUME TypeOK, UNCHANGED <<sourceVars, issued, instance>>,
         job' \in [Transfers -> Jobs], grant' \in [{"source", "target"} -> 0..issued],
         inbox' \in [Transfers -> Records],
         prepared' \in [Transfers -> {"none", "prepared", "starting", "active", "uncertain"}],
         launcher' \in [Transfers -> Receivers \cup {None}], queue' \in [Receivers -> SUBSET Header],
         at' \in [Receivers -> Works], failures' \in 0..instance.failures, launches' \in [Transfers -> Nat]
  PROVE  TypeOK'
  BY Types DEF sourceVars, TypeOK, Calls, Notices, Records, Works, States, Jobs, Sent, Final

LEMMA ReceiverFacts ==
  ASSUME TransferInv, NEW r \in instance.receivers
  PROVE  /\ r \in Receivers /\ TypeOK /\ ReceiverInv(r) /\ at[r] \in Works
         /\ at[r].step # "idle" =>
              /\ at[r].transfer \in Transfers /\ inbox[at[r].transfer].phase # "none"
              /\ JobInv(at[r].transfer) /\ job[at[r].transfer] \in Jobs \ {"none"}
              /\ inbox[at[r].transfer] \in Records
<1>1. r \in Receivers /\ TypeOK
  BY Bounds DEF TransferInv
<1>2. ReceiverInv(r) /\ at[r] \in Works
  BY <1>1, Types DEF TransferInv
<1>3. ASSUME at[r].step # "idle"
      PROVE  /\ at[r].transfer \in Transfers /\ inbox[at[r].transfer].phase # "none"
             /\ JobInv(at[r].transfer) /\ job[at[r].transfer] \in Jobs \ {"none"}
             /\ inbox[at[r].transfer] \in Records
  <2>1. at[r].transfer \in Transfers /\ inbox[at[r].transfer].phase # "none"
    BY <1>2, <1>3 DEF ReceiverInv
  <2>2. JobInv(at[r].transfer)
    BY <2>1 DEF TransferInv
  <2>3. QED
    BY <1>1, <2>1, <2>2, Types DEF JobInv
<1>4. QED
  BY <1>1, <1>2, <1>3

LEMMA AtPlace ==
  ASSUME TypeOK, NEW r \in Receivers, NEW x \in Works, at' = [at EXCEPT ![r] = x]
  PROVE  /\ at' \in [Receivers -> Works] /\ at'[r] = x
         /\ \A s \in Receivers : s # r => at'[s] = at[s]
  BY Types

LEMMA RestFacts ==
  ASSUME TypeOK, NEW r \in Receivers, Rest(r)
  PROVE  /\ at' \in [Receivers -> Works] /\ at'[r].step = "idle"
         /\ \A s \in Receivers : s # r => at'[s] = at[s]
<1>1. Resting \in Works /\ Resting.step = "idle"
  BY DEF Resting, Works
<1>2. at' = [at EXCEPT ![r] = Resting]
  BY DEF Rest
<1>3. QED
  BY <1>1, <1>2, AtPlace

LEMMA GoFacts ==
  ASSUME TypeOK, NEW r \in Receivers, NEW step \in {"refresh", "prepare", "save", "finish"},
         NEW answer \in {"none", "accepted", "refused"}, Go(r, step, answer)
  PROVE  /\ at' \in [Receivers -> Works]
         /\ at'[r].step = step /\ at'[r].answer = answer /\ at'[r].transfer = at[r].transfer
         /\ \A s \in Receivers : s # r => at'[s] = at[s]
<1> DEFINE x == [at[r] EXCEPT !.step = step, !.answer = answer]
<1>1. at[r] \in Works
  BY Types
<1>2. x \in Works /\ x.step = step /\ x.answer = answer /\ x.transfer = at[r].transfer
  BY <1>1 DEF Works
<1>3. at' = [at EXCEPT ![r] = x]
  BY <1>1, Types DEF Go, Works
<1> HIDE DEF x
<1>4. QED
  BY <1>2, <1>3, AtPlace

\* The destination's record of one transfer.
LEMMA InboxAt ==
  ASSUME TypeOK, NEW t \in Transfers, NEW x \in Records, inbox' = [inbox EXCEPT ![t] = x]
  PROVE  /\ inbox' \in [Transfers -> Records] /\ inbox'[t] = x
         /\ \A u \in Transfers : u # t => inbox'[u] = inbox[u]
  BY Types

LEMMA JobAt ==
  ASSUME TypeOK, NEW t \in Transfers, NEW x \in Jobs, job' = [job EXCEPT ![t] = x]
  PROVE  /\ job' \in [Transfers -> Jobs] /\ job'[t] = x
         /\ \A u \in Transfers : u # t => job'[u] = job[u]
  BY Types

\* A receiver that has stopped remembers nothing.
LEMMA IdleReceiver ==
  ASSUME TransferInv, NEW r \in Receivers, at'[r].step = "idle",
         queue'[r] \subseteq queue[r], \A u \in Transfers : Same(u) \/ Grows(u)
  PROVE  ReceiverInv(r)'
<1>1. ReceiverInv(r)
  BY DEF TransferInv
<1>2. \A h \in queue'[r] : h \in queue[r] /\ h.transfer \in Transfers
  BY Types DEF TransferInv, Header
<1>3. QED
  BY <1>1, <1>2 DEF ReceiverInv, Same, Grows

LEMMA OfferStep ==
  ASSUME TransferInv, NEW t \in instance.transfers, Offer(t), UNCHANGED instance
  PROVE  Good
<1>1. t \in Transfers /\ TypeOK /\ JobInv(t) /\ inbox[t] \in Records
  BY StepFacts, Types
<1> DEFINE x == [inbox[t] EXCEPT !.phase = "staged"]
<1>2. /\ job[t] = "queued" /\ inbox[t].phase = "none"
      /\ inbox' = [inbox EXCEPT ![t] = x]
      /\ UNCHANGED <<job, grant, prepared, launcher, queue, at, launches, sourceVars, issued, failures>>
  BY DEF Offer, TargetKeeps
<1>3. x \in Records /\ x.phase = "staged" /\ x.result = inbox[t].result
  BY <1>1 DEF Records
<1> HIDE DEF x
<1>4. /\ inbox' \in [Transfers -> Records] /\ inbox'[t] = x
      /\ \A u \in Transfers : u # t => inbox'[u] = inbox[u]
  BY <1>1, <1>2, <1>3, InboxAt
<1>5. TypeOK'
  BY <1>1, <1>2, <1>4, Types, TargetTyped
<1>6. Grows(t)
  BY <1>2, <1>3, <1>4 DEF Grows
<1>7. JobInv(t)'
  BY <1>1, <1>2, <1>3, <1>4 DEF JobInv
<1>8. \A u \in Transfers : u # t => Same(u)
  BY <1>2, <1>4 DEF Same
<1>9. QED
  BY <1>2, <1>5, <1>6, <1>7, <1>8, TargetSound

LEMMA TickStep ==
  ASSUME TransferInv, NEW r \in instance.receivers, Tick(r), UNCHANGED instance
  PROVE  Good
<1>1. r \in Receivers /\ TypeOK
  BY ReceiverFacts
<1> DEFINE headers == {[transfer |-> t, phase |-> inbox[t].phase, started |-> inbox[t].started] :
                         t \in {u \in Transfers : inbox[u].phase \in {"staged", "preparing", "result"}}}
<1>2. /\ at[r].step = "idle" /\ queue' = [queue EXCEPT ![r] = headers]
      /\ UNCHANGED <<job, grant, inbox, prepared, launcher, at, launches, sourceVars, issued, failures>>
  BY DEF Tick, TargetKeeps
<1>3. \A h \in headers : h \in Header /\ inbox[h.transfer].phase # "none" /\ (h.phase = "result" => inbox[h.transfer].result # "none")
  <2> SUFFICES ASSUME NEW t \in Transfers, inbox[t].phase \in {"staged", "preparing", "result"},
                      NEW h, h = [transfer |-> t, phase |-> inbox[t].phase, started |-> inbox[t].started]
               PROVE  h \in Header /\ inbox[h.transfer].phase # "none" /\ (h.phase = "result" => inbox[h.transfer].result # "none")
    OBVIOUS
  <2>1. JobInv(t) /\ inbox[t] \in Records
    BY <1>1, Types DEF TransferInv
  <2>2. h.transfer = t /\ h.phase = inbox[t].phase
    OBVIOUS
  <2>3. inbox[t].started \in BOOLEAN
    BY <2>1 DEF Records
  <2>4. h \in Header
    BY <2>3 DEF Header
  <2>5. QED
    BY <2>1, <2>2, <2>4 DEF JobInv
<1> HIDE DEF headers
<1>4. headers \subseteq Header
  BY <1>3
<1>5. /\ queue' \in [Receivers -> SUBSET Header] /\ queue'[r] = headers
      /\ \A s \in Receivers : s # r => queue'[s] = queue[s]
  BY <1>1, <1>2, <1>4, Types
<1>6. TypeOK'
  BY <1>1, <1>2, <1>5, Types, TargetTyped
<1>7. \A u \in Transfers : Same(u)
  BY <1>2 DEF Same
<1>8. ReceiverInv(r)'
  BY <1>2, <1>3, <1>5 DEF ReceiverInv
<1>9. QED
  BY <1>2, <1>5, <1>6, <1>7, <1>8, TargetSound

LEMMA TakeStep ==
  ASSUME TransferInv, NEW r \in instance.receivers, NEW h \in queue[r], Take(r, h), UNCHANGED instance
  PROVE  Good
<1> DEFINE t == h.transfer
<1>1. r \in Receivers /\ TypeOK /\ ReceiverInv(r)
  BY ReceiverFacts
<1>2. /\ h \in Header /\ t \in Transfers /\ inbox[t] \in Records /\ JobInv(t)
      /\ h.started \in BOOLEAN
      /\ inbox[t].phase # "none" /\ (h.phase = "result" => inbox[t].result # "none")
  BY <1>1, Types DEF Header, TransferInv, ReceiverInv
<1>3. /\ at[r].step = "idle" /\ queue' = [queue EXCEPT ![r] = queue[r] \ {h}]
      /\ UNCHANGED <<sourceVars, job, issued, grant, prepared, launcher, launches>>
  BY DEF Take
<1>4. /\ queue' \in [Receivers -> SUBSET Header] /\ queue'[r] \subseteq queue[r]
      /\ \A s \in Receivers : s # r => queue'[s] = queue[s]
  BY <1>1, <1>3, Types
<1>5. failures \in 0..instance.failures
  BY <1>1 DEF TypeOK
<1>6. CASE /\ h.phase = "result" /\ UNCHANGED <<inbox, failures>>
           /\ at' = [at EXCEPT ![r] = [Resting EXCEPT !.step = "finish", !.transfer = t]]
  <2> DEFINE x == [Resting EXCEPT !.step = "finish", !.transfer = t]
  <2>1. x \in Works /\ x.step = "finish" /\ x.transfer = t
    BY <1>2 DEF Resting, Works
  <2>2. at' = [at EXCEPT ![r] = x]
    BY <1>6
  <2> HIDE DEF x
  <2>3. /\ at' \in [Receivers -> Works] /\ at'[r] = x
        /\ \A s \in Receivers : s # r => at'[s] = at[s]
    BY <1>1, <2>1, <2>2, AtPlace
  <2>4. TypeOK'
    BY <1>1, <1>3, <1>4, <1>5, <1>6, <2>3, Types, TargetTyped
  <2>5. \A u \in Transfers : Same(u)
    BY <1>3, <1>6 DEF Same
  <2>6. ReceiverInv(r)'
    BY <1>1, <1>2, <1>3, <1>4, <1>6, <2>1, <2>3 DEF ReceiverInv
  <2>7. QED
    BY <1>3, <1>4, <2>3, <2>4, <2>5, <2>6, TargetSound
<1>7. CASE /\ h.phase # "result" /\ Free(r, t)
           /\ inbox' = [inbox EXCEPT ![t].phase = "preparing", ![t].owner = r]
           /\ at' = [at EXCEPT ![r] = [Resting EXCEPT !.step = "claim", !.transfer = t, !.started = h.started]]
           /\ failures' = IF Stalled(r, t) THEN failures + 1 ELSE failures
  <2> DEFINE x == [Resting EXCEPT !.step = "claim", !.transfer = t, !.started = h.started]
             y == [inbox[t] EXCEPT !.phase = "preparing", !.owner = r]
  <2>1. x \in Works /\ x.step = "claim" /\ x.transfer = t
    BY <1>2 DEF Resting, Works
  <2>2. y \in Records /\ y.phase = "preparing" /\ y.result = inbox[t].result
    BY <1>1, <1>2 DEF Records
  <2>3. at' = [at EXCEPT ![r] = x]
    BY <1>7
  <2>4. inbox' = [inbox EXCEPT ![t] = y]
    BY <1>1, <1>2, <1>7, Types DEF Records
  <2> HIDE DEF x, y
  <2>5. /\ at' \in [Receivers -> Works] /\ at'[r] = x
        /\ \A s \in Receivers : s # r => at'[s] = at[s]
    BY <1>1, <2>1, <2>3, AtPlace
  <2>6. /\ inbox' \in [Transfers -> Records] /\ inbox'[t] = y
        /\ \A u \in Transfers : u # t => inbox'[u] = inbox[u]
    BY <1>1, <1>2, <2>2, <2>4, InboxAt
  <2>7. failures' \in 0..instance.failures
    BY <1>1, <1>5, <1>7, FailureFacts DEF Stalled
  <2>8. TypeOK'
    BY <1>1, <1>3, <1>4, <2>5, <2>6, <2>7, Types, TargetTyped
  <2>9. inbox[t].phase \in {"staged", "preparing"}
    BY <1>7 DEF Free, Stalled
  <2>10. Grows(t) /\ JobInv(t)'
    BY <1>2, <1>3, <2>2, <2>6, <2>9 DEF Grows, JobInv
  <2>11. \A u \in Transfers : u # t => Same(u)
    BY <1>3, <2>6 DEF Same
  <2>12. ReceiverInv(r)'
    <3>1. \A g \in queue[r] : g.transfer \in Transfers
      BY <1>1, Types DEF Header
    <3>2. \A u \in Transfers : Same(u) \/ Grows(u)
      BY <2>10, <2>11
    <3>3. \A g \in queue'[r] : /\ inbox'[g.transfer].phase # "none"
                               /\ g.phase = "result" => inbox'[g.transfer].result # "none"
      BY <1>1, <1>4, <3>1, <3>2 DEF ReceiverInv, Same, Grows
    <3>4. QED
      BY <1>2, <2>1, <2>2, <2>5, <2>6, <3>3 DEF ReceiverInv
  <2>13. QED
    BY <1>2, <1>3, <1>4, <2>5, <2>8, <2>10, <2>11, <2>12, TargetSound
<1>8. CASE UNCHANGED <<inbox, at, failures>>
  <2>1. TypeOK'
    BY <1>1, <1>3, <1>4, <1>5, <1>8, Types, TargetTyped
  <2>2. \A u \in Transfers : Same(u)
    BY <1>3, <1>8 DEF Same
  <2>3. ReceiverInv(r)'
    BY <1>1, <1>3, <1>4, <1>8, <2>2, IdleReceiver
  <2>4. QED
    BY <1>3, <1>4, <1>8, <2>1, <2>2, <2>3, TargetSound
<1>9. QED
  BY <1>6, <1>7, <1>8 DEF Take

\* What a receiver has still to see is judged as before.
LEMMA QueueKept ==
  ASSUME TransferInv, NEW r \in Receivers, queue'[r] = queue[r], \A u \in Transfers : Same(u) \/ Grows(u)
  PROVE  \A h \in queue'[r] : /\ inbox'[h.transfer].phase # "none"
                              /\ h.phase = "result" => inbox'[h.transfer].result # "none"
<1>1. ReceiverInv(r) /\ \A h \in queue[r] : h.transfer \in Transfers
  BY Types DEF TransferInv, Header
<1>2. QED
  BY <1>1 DEF ReceiverInv, Same, Grows

\* A receiver goes on with the transfer it is at.
LEMMA GoSound ==
  ASSUME TransferInv, NEW r \in Receivers, NEW step \in {"refresh", "prepare", "save", "finish"},
         NEW answer \in {"none", "accepted", "refused"}, Go(r, step, answer), at[r].step # "idle",
         UNCHANGED queue, \A u \in Transfers : Same(u) \/ Grows(u),
         step = "save" => answer # "none" /\ (answer = "accepted" => prepared'[at[r].transfer] # "none"),
         step = "finish" => inbox'[at[r].transfer].result # "none"
  PROVE  ReceiverInv(r)'
<1>1. TypeOK /\ ReceiverInv(r)
  BY DEF TransferInv
<1>2. at'[r].step = step /\ at'[r].answer = answer /\ at'[r].transfer = at[r].transfer
  BY <1>1, GoFacts
<1>3. at[r].transfer \in Transfers /\ inbox[at[r].transfer].phase # "none"
  BY <1>1 DEF ReceiverInv
<1>4. inbox'[at[r].transfer].phase # "none"
  BY <1>3 DEF Same, Grows
<1>5. \A h \in queue'[r] : /\ inbox'[h.transfer].phase # "none"
                           /\ h.phase = "result" => inbox'[h.transfer].result # "none"
  BY QueueKept
<1>6. QED
  BY <1>2, <1>3, <1>4, <1>5 DEF ReceiverInv

LEMMA ClaimStep ==
  ASSUME TransferInv, NEW r \in instance.receivers, Claim(r), UNCHANGED instance
  PROVE  Good
<1>1. at[r].step = "claim"
  BY DEF Claim
<1>0. PICK t \in Transfers : t = at[r].transfer
  BY <1>1, ReceiverFacts
<1>2. /\ r \in Receivers /\ TypeOK /\ inbox[t].phase # "none"
      /\ JobInv(t) /\ job[t] \in Jobs \ {"none"}
  BY <1>0, <1>1, ReceiverFacts
<1>3. /\ job' = [job EXCEPT ![t] = Claimed(t)]
      /\ IF Claimed(t) = "accepted" THEN Go(r, "refresh", "none") ELSE Rest(r)
      /\ UNCHANGED <<grant, inbox, prepared, launcher, queue, launches, sourceVars, issued, failures>>
  BY <1>0 DEF Claim, TargetKeeps
<1>4. /\ Claimed(t) \in Jobs /\ Claimed(t) # "none" /\ (job[t] \in Final => Claimed(t) = job[t])
      /\ Claimed(t) \in Final => Claimed(t) = job[t]
  BY <1>2 DEF Claimed, Jobs, Final
<1>5. /\ job' \in [Transfers -> Jobs] /\ job'[t] = Claimed(t)
      /\ \A u \in Transfers : u # t => job'[u] = job[u]
  BY <1>2, <1>3, <1>4, JobAt
<1>6. Grows(t) /\ JobInv(t)'
  BY <1>2, <1>3, <1>4, <1>5 DEF Grows, JobInv, Final
<1>7. \A u \in Transfers : u # t => Same(u)
  BY <1>3, <1>5 DEF Same
<1>8. CASE Rest(r)
  <2>1. /\ at' \in [Receivers -> Works] /\ at'[r].step = "idle"
        /\ \A s \in Receivers : s # r => at'[s] = at[s]
    BY <1>2, <1>8, RestFacts
  <2>2. TypeOK'
    BY <1>2, <1>3, <1>5, <2>1, Types, TargetTyped
  <2>3. ReceiverInv(r)'
    BY <1>2, <1>3, <1>6, <1>7, <2>1, IdleReceiver
  <2>4. QED
    BY <1>2, <1>3, <1>6, <1>7, <2>1, <2>2, <2>3, TargetSound
<1>9. CASE Go(r, "refresh", "none")
  <2>1. /\ at' \in [Receivers -> Works]
        /\ \A s \in Receivers : s # r => at'[s] = at[s]
    BY <1>2, <1>9, GoFacts
  <2>2. TypeOK'
    BY <1>2, <1>3, <1>5, <2>1, Types, TargetTyped
  <2>3. ReceiverInv(r)'
    BY <1>1, <1>2, <1>3, <1>6, <1>7, <1>9, GoSound
  <2>4. QED
    BY <1>2, <1>3, <1>6, <1>7, <2>1, <2>2, <2>3, TargetSound
<1>10. QED
  BY <1>3, <1>8, <1>9

LEMMA PrepareStep ==
  ASSUME TransferInv, NEW r \in instance.receivers, Prepare(r), UNCHANGED instance
  PROVE  Good
<1>1. at[r].step = "prepare"
  BY DEF Prepare
<1>0. PICK t \in Transfers : t = at[r].transfer
  BY <1>1, ReceiverFacts
<1>2. /\ r \in Receivers /\ TypeOK /\ inbox[t].phase # "none" /\ JobInv(t)
  BY <1>0, <1>1, ReceiverFacts
<1>3. /\ \/ Go(r, "save", "refused") /\ UNCHANGED prepared
         \/ Go(r, "save", "accepted") /\ prepared' = Made(t)
      /\ UNCHANGED <<job, grant, inbox, launcher, queue, launches, sourceVars, issued, failures>>
  BY <1>0 DEF Prepare, TargetKeeps
<1>4. /\ at' \in [Receivers -> Works]
      /\ \A s \in Receivers : s # r => at'[s] = at[s]
  BY <1>2, <1>3, GoFacts
<1>5. CASE Go(r, "save", "refused") /\ UNCHANGED prepared
  <2>1. TypeOK'
    BY <1>2, <1>3, <1>4, <1>5, Types, TargetTyped
  <2>2. \A u \in Transfers : Same(u)
    BY <1>3, <1>5 DEF Same
  <2>3. ReceiverInv(r)'
    BY <1>1, <1>2, <1>3, <1>5, <2>2, GoSound
  <2>4. QED
    BY <1>2, <1>3, <1>4, <2>1, <2>2, <2>3, TargetSound
<1>6. CASE Go(r, "save", "accepted") /\ prepared' = Made(t)
  <2>1. prepared \in [Transfers -> {"none", "prepared", "starting", "active", "uncertain"}]
    BY <1>2, Types
  <2>2. /\ prepared' \in [Transfers -> {"none", "prepared", "starting", "active", "uncertain"}]
        /\ prepared'[t] = IF prepared[t] = "none" THEN "prepared" ELSE prepared[t]
        /\ \A u \in Transfers : u # t => prepared'[u] = prepared[u]
    BY <1>2, <1>6, <2>1 DEF Made
  <2>3. TypeOK'
    BY <1>2, <1>3, <1>4, <2>2, Types, TargetTyped
  <2>4. Grows(t) /\ JobInv(t)'
    BY <1>2, <1>3, <2>2 DEF Grows, JobInv
  <2>5. \A u \in Transfers : u # t => Same(u)
    BY <1>3, <2>2 DEF Same
  <2>6. prepared'[at[r].transfer] # "none"
    BY <1>0, <2>2
  <2>7. ReceiverInv(r)'
    BY <1>1, <1>2, <1>3, <1>6, <2>4, <2>5, <2>6, GoSound
  <2>8. QED
    BY <1>2, <1>3, <1>4, <2>3, <2>4, <2>5, <2>7, TargetSound
<1>7. QED
  BY <1>3, <1>5, <1>6

LEMMA SaveStep ==
  ASSUME TransferInv, NEW r \in instance.receivers, Save(r), UNCHANGED instance
  PROVE  Good
<1>1. at[r].step = "save"
  BY DEF Save
<1>0. PICK t \in Transfers, answer \in {"none", "accepted", "refused"} : t = at[r].transfer /\ answer = at[r].answer
  BY <1>1, ReceiverFacts DEF Works
<1>2. /\ r \in Receivers /\ TypeOK /\ inbox[t].phase # "none"
      /\ JobInv(t) /\ inbox[t] \in Records
      /\ answer \in {"accepted", "refused"} /\ (answer = "accepted" => prepared[t] # "none")
  <2>1. ReceiverInv(r) /\ at[r] \in Works
    BY ReceiverFacts
  <2>2. answer # "none" /\ (answer = "accepted" => prepared[t] # "none")
    BY <1>0, <1>1, <2>1 DEF ReceiverInv
  <2>3. QED
    BY <1>0, <1>1, <2>2, ReceiverFacts
<1> DEFINE x == [inbox[t] EXCEPT !.phase = "result", !.result = answer]
<1>3. UNCHANGED <<job, grant, prepared, launcher, queue, launches, sourceVars, issued, failures>>
  BY DEF Save, TargetKeeps
<1>4. \/ /\ Owns(r, t) /\ inbox' = [inbox EXCEPT ![t].phase = "result", ![t].result = answer]
         /\ Go(r, "finish", answer)
      \/ Rest(r) /\ UNCHANGED inbox
  BY <1>0 DEF Save
<1>5. CASE Rest(r) /\ UNCHANGED inbox
  <2>1. /\ at' \in [Receivers -> Works] /\ at'[r].step = "idle"
        /\ \A s \in Receivers : s # r => at'[s] = at[s]
    BY <1>2, <1>5, RestFacts
  <2>2. TypeOK'
    BY <1>2, <1>3, <1>5, <2>1, Types, TargetTyped
  <2>3. \A u \in Transfers : Same(u)
    BY <1>3, <1>5 DEF Same
  <2>4. ReceiverInv(r)'
    BY <1>2, <1>3, <2>1, <2>3, IdleReceiver
  <2>5. QED
    BY <1>3, <2>1, <2>2, <2>3, <2>4, TargetSound
<1>6. CASE /\ Owns(r, t) /\ inbox' = [inbox EXCEPT ![t].phase = "result", ![t].result = answer]
           /\ Go(r, "finish", answer)
  <2>1. x \in Records /\ x.phase = "result" /\ x.result = answer
    BY <1>2 DEF Records
  <2>2. inbox' = [inbox EXCEPT ![t] = x]
    BY <1>2, <1>6, Types DEF Records
  <2> HIDE DEF x
  <2>3. /\ inbox' \in [Transfers -> Records] /\ inbox'[t] = x
        /\ \A u \in Transfers : u # t => inbox'[u] = inbox[u]
    BY <1>2, <2>1, <2>2, InboxAt
  <2>4. /\ at' \in [Receivers -> Works]
        /\ \A s \in Receivers : s # r => at'[s] = at[s]
    BY <1>2, <1>6, GoFacts
  <2>5. TypeOK'
    BY <1>2, <1>3, <2>3, <2>4, Types, TargetTyped
  <2>6. inbox[t].result = "none"
    BY <1>2, <1>6 DEF Owns, JobInv
  <2>7. Grows(t)
    BY <1>3, <2>1, <2>3, <2>6 DEF Grows
  <2>8. JobInv(t)'
    BY <1>2, <1>3, <2>1, <2>3, <2>6 DEF JobInv
  <2>9. \A u \in Transfers : u # t => Same(u)
    BY <1>3, <2>3 DEF Same
  <2>10. inbox'[at[r].transfer].result # "none"
    BY <1>0, <1>2, <2>1, <2>3
  <2>11. ReceiverInv(r)'
    BY <1>1, <1>2, <1>3, <1>6, <2>7, <2>9, <2>10, GoSound
  <2>12. QED
    BY <1>2, <1>3, <2>4, <2>5, <2>7, <2>8, <2>9, <2>11, TargetSound
<1>7. QED
  BY <1>4, <1>5, <1>6

LEMMA RefreshStep ==
  ASSUME TransferInv, NEW r \in instance.receivers, Refresh(r), UNCHANGED instance
  PROVE  Good
<1>1. at[r].step = "refresh"
  BY DEF Refresh
<1>2. PICK t \in Transfers : t = at[r].transfer
  BY <1>1, ReceiverFacts
<1>3. r \in Receivers /\ TypeOK /\ JobInv(t) /\ inbox[t] \in Records /\ inbox[t].phase # "none"
  BY <1>1, <1>2, ReceiverFacts
<1>4. UNCHANGED <<job, prepared, launcher, queue, launches, sourceVars, issued, failures>>
  BY DEF Refresh, TargetKeeps
<1>5. grant' \in [{"source", "target"} -> 0..issued]
  <2>1. grant' = [grant EXCEPT !["target"] = issued]
    BY DEF Refresh, Fetched
  <2>2. issued \in 0..issued
    BY <1>3, Bounds
  <2>3. QED
    BY <1>3, <2>1, <2>2, Types
<1>6. \/ /\ Owns(r, t) /\ inbox' = [inbox EXCEPT ![t].started = TRUE]
         /\ Go(r, "prepare", "none")
      \/ Rest(r) /\ UNCHANGED inbox
      \/ Go(r, "save", IF at[r].started THEN Recovered(t) ELSE "refused") /\ UNCHANGED inbox
  BY <1>2 DEF Refresh
<1>7. CASE Owns(r, t) /\ inbox' = [inbox EXCEPT ![t].started = TRUE] /\ Go(r, "prepare", "none")
  <2> DEFINE x == [inbox[t] EXCEPT !.started = TRUE]
  <2>1. x \in Records /\ x.phase = inbox[t].phase /\ x.result = inbox[t].result
    BY <1>3 DEF Records
  <2>2. inbox' = [inbox EXCEPT ![t] = x]
    BY <1>3, <1>7, Types DEF Records
  <2> HIDE DEF x
  <2>3. /\ inbox' \in [Transfers -> Records] /\ inbox'[t] = x
        /\ \A u \in Transfers : u # t => inbox'[u] = inbox[u]
    BY <1>3, <2>1, <2>2, InboxAt
  <2>4. /\ at' \in [Receivers -> Works]
        /\ \A s \in Receivers : s # r => at'[s] = at[s]
    BY <1>3, <1>7, GoFacts
  <2>5. TypeOK'
    BY <1>3, <1>4, <1>5, <2>3, <2>4, Types, TargetTyped
  <2>6. Grows(t) /\ JobInv(t)'
    BY <1>3, <1>4, <2>1, <2>3 DEF Grows, JobInv
  <2>7. \A u \in Transfers : u # t => Same(u)
    BY <1>4, <2>3 DEF Same
  <2>8. ReceiverInv(r)'
    BY <1>1, <1>3, <1>4, <1>7, <2>6, <2>7, GoSound
  <2>9. QED
    BY <1>3, <1>4, <2>4, <2>5, <2>6, <2>7, <2>8, TargetSound
<1>8. CASE UNCHANGED inbox
  <2>1. \A u \in Transfers : Same(u)
    BY <1>4, <1>8 DEF Same
  <2>2. CASE Rest(r)
    <3>1. /\ at' \in [Receivers -> Works] /\ at'[r].step = "idle"
          /\ \A s \in Receivers : s # r => at'[s] = at[s]
      BY <1>3, <2>2, RestFacts
    <3>2. TypeOK'
      BY <1>3, <1>4, <1>5, <1>8, <3>1, Types, TargetTyped
    <3>3. ReceiverInv(r)'
      BY <1>3, <1>4, <2>1, <3>1, IdleReceiver
    <3>4. QED
      BY <1>4, <2>1, <3>1, <3>2, <3>3, TargetSound
  <2>3. CASE Go(r, "save", IF at[r].started THEN Recovered(t) ELSE "refused")
    <3>1. PICK answer \in {"accepted", "refused"} : answer = IF at[r].started THEN Recovered(t) ELSE "refused"
      BY DEF Recovered
    <3>2. Go(r, "save", answer) /\ (answer = "accepted" => prepared[t] # "none")
      BY <2>3, <3>1 DEF Recovered
    <3>3. /\ at' \in [Receivers -> Works]
          /\ \A s \in Receivers : s # r => at'[s] = at[s]
      BY <1>3, <3>2, GoFacts
    <3>4. TypeOK'
      BY <1>3, <1>4, <1>5, <1>8, <3>3, Types, TargetTyped
    <3>5. answer = "accepted" => prepared'[at[r].transfer] # "none"
      BY <1>2, <1>4, <3>2
    <3>6. ReceiverInv(r)'
      BY <1>1, <1>3, <1>4, <2>1, <3>1, <3>2, <3>5, GoSound
    <3>7. QED
      BY <1>4, <2>1, <3>3, <3>4, <3>6, TargetSound
  <2>4. QED
    BY <1>6, <1>7, <2>2, <2>3
<1>9. QED
  BY <1>6, <1>7, <1>8

\* The relay keeps an answer the destination has kept.
LEMMA FinishedFacts ==
  ASSUME NEW t \in Transfers, JobInv(t), inbox[t] \in Records, job[t] \in Jobs, inbox[t].result # "none"
  PROVE  /\ Finished(t) \in Final /\ (job[t] \in Final => Finished(t) = job[t])
         /\ Finished(t) = "completed" => inbox[t].result = "accepted"
         /\ Finished(t) = "failed" => inbox[t].result = "refused"
<1>1. inbox[t].result \in {"accepted", "refused"}
  BY DEF Records
<1>2. Final = {"completed", "failed"}
  BY DEF Final
<1>3. QED
  BY <1>1, <1>2 DEF Finished, Outcome, JobInv, Jobs

LEMMA FinishStep ==
  ASSUME TransferInv, NEW r \in instance.receivers, Finish(r), UNCHANGED instance
  PROVE  Good
<1>1. at[r].step = "finish"
  BY DEF Finish
<1>2. PICK t \in Transfers : t = at[r].transfer
  BY <1>1, ReceiverFacts
<1>3. r \in Receivers /\ TypeOK /\ JobInv(t) /\ inbox[t] \in Records /\ job[t] \in Jobs \ {"none"}
  BY <1>1, <1>2, ReceiverFacts
<1>4. inbox[t].result # "none"
  BY <1>1, <1>2, ReceiverFacts DEF ReceiverInv
<1>5. /\ UNCHANGED <<grant, prepared, launcher, queue, launches, sourceVars, issued, failures>>
      /\ Rest(r) /\ job' = [job EXCEPT ![t] = Finished(t)]
      /\ \/ UNCHANGED inbox
         \/ inbox' = [inbox EXCEPT ![t].phase = "completed", ![t].owner = None]
  BY <1>2 DEF Finish, TargetKeeps, Closed
<1>6. /\ Finished(t) \in Jobs \ {"none"} /\ (job[t] \in Final => Finished(t) = job[t])
      /\ Finished(t) = "completed" => inbox[t].result = "accepted"
      /\ Finished(t) = "failed" => inbox[t].result = "refused"
  BY <1>3, <1>4, FinishedFacts DEF Final, Jobs
<1>7. /\ job' \in [Transfers -> Jobs] /\ job'[t] = Finished(t)
      /\ \A u \in Transfers : u # t => job'[u] = job[u]
  BY <1>3, <1>5, <1>6, JobAt
<1>8. /\ inbox' \in [Transfers -> Records]
      /\ inbox'[t].result = inbox[t].result /\ inbox'[t].phase \in {inbox[t].phase, "completed"}
      /\ \A u \in Transfers : u # t => inbox'[u] = inbox[u]
  <2>1. CASE UNCHANGED inbox
    BY <1>3, <2>1, Types
  <2>2. CASE inbox' = [inbox EXCEPT ![t].phase = "completed", ![t].owner = None]
    <3> DEFINE x == [inbox[t] EXCEPT !.phase = "completed", !.owner = None]
    <3>1. x \in Records /\ x.phase = "completed" /\ x.result = inbox[t].result
      BY <1>3 DEF Records
    <3>2. inbox' = [inbox EXCEPT ![t] = x]
      BY <1>3, <2>2, Types DEF Records
    <3> HIDE DEF x
    <3>3. QED
      BY <1>3, <3>1, <3>2, InboxAt
  <2>3. QED
    BY <1>5, <2>1, <2>2
<1>9. /\ at' \in [Receivers -> Works] /\ at'[r].step = "idle"
      /\ \A s \in Receivers : s # r => at'[s] = at[s]
  BY <1>3, <1>5, RestFacts
<1>10. TypeOK'
  BY <1>3, <1>5, <1>7, <1>8, <1>9, Types, TargetTyped
<1>11. Grows(t)
  BY <1>3, <1>5, <1>6, <1>7, <1>8 DEF Grows
<1>12. JobInv(t)'
  BY <1>3, <1>4, <1>5, <1>6, <1>7, <1>8 DEF JobInv
<1>13. \A u \in Transfers : u # t => Same(u)
  BY <1>5, <1>7, <1>8 DEF Same
<1>14. ReceiverInv(r)'
  BY <1>3, <1>5, <1>9, <1>11, <1>13, IdleReceiver
<1>15. QED
  BY <1>5, <1>9, <1>10, <1>11, <1>12, <1>13, <1>14, TargetSound
-----------------------------------------------------------------------------
(* Steps of the prepared chat *)

LEMMA ChatStep ==
  ASSUME TransferInv, NEW t \in instance.transfers, UNCHANGED instance,
         Sweep(t) \/ \E r \in instance.receivers : Launch(r, t) \/ Launched(r, t)
  PROVE  Good
<1>1. t \in Transfers /\ TypeOK /\ JobInv(t) /\ launches[t] \in Nat
  BY StepFacts, Types DEF TransferInv
<1>2. UNCHANGED <<job, grant, inbox, queue, at, sourceVars, issued, failures>>
  BY DEF Sweep, Launch, Launched, ChatKeeps, TargetKeeps
<1>3. /\ prepared \in [Transfers -> {"none", "prepared", "starting", "active", "uncertain"}]
      /\ launcher \in [Transfers -> Receivers \cup {None}] /\ launches \in [Transfers -> Nat]
  BY <1>1, Types
<1>4. launcher' \in [Transfers -> Receivers \cup {None}]
  BY <1>1, <1>3, Bounds DEF Sweep, Launch, Launched
<1>5. /\ prepared' \in [Transfers -> {"none", "prepared", "starting", "active", "uncertain"}]
      /\ launches' \in [Transfers -> Nat]
      /\ \A u \in Transfers : u # t => prepared'[u] = prepared[u] /\ launches'[u] = launches[u]
      /\ prepared[t] # "none" /\ prepared'[t] # "none" /\ prepared'[t] # "prepared"
      /\ \/ prepared[t] = "prepared" /\ launches'[t] = launches[t] + 1
         \/ prepared[t] = "starting" /\ launches'[t] = launches[t]
  <2>1. CASE Sweep(t)
    BY <1>1, <1>3, <2>1 DEF Sweep
  <2>2. CASE \E r \in instance.receivers : Launch(r, t)
    <3>1. prepared[t] = "prepared" /\ prepared' = [prepared EXCEPT ![t] = "starting"]
          /\ launches' = [launches EXCEPT ![t] = launches[t] + 1]
      BY <2>2 DEF Launch
    <3>2. launches[t] + 1 \in Nat
      BY <1>1
    <3>3. QED
      BY <1>1, <1>3, <3>1, <3>2
  <2>3. CASE \E r \in instance.receivers : Launched(r, t)
    <3>1. PICK phase \in {"active", "uncertain"} : prepared' = [prepared EXCEPT ![t] = phase]
      BY <2>3 DEF Launched
    <3>2. prepared[t] = "starting" /\ UNCHANGED launches
      BY <2>3 DEF Launched
    <3>3. QED
      BY <1>1, <1>3, <3>1, <3>2
  <2>4. QED
    BY <2>1, <2>2, <2>3
<1>6. TypeOK'
  BY <1>1, <1>2, <1>4, <1>5, Types, TargetTyped
<1>7. Grows(t)
  BY <1>2, <1>5 DEF Grows
<1>8. JobInv(t)'
  BY <1>1, <1>2, <1>5 DEF JobInv
<1>9. \A u \in Transfers : u # t => Same(u)
  BY <1>2, <1>5 DEF Same
<1>10. QED
  BY <1>2, <1>6, <1>7, <1>8, <1>9, TargetSound
-----------------------------------------------------------------------------
(* Failures of the destination *)

LEMMA ReceiverFaultStep ==
  ASSUME TransferInv, NEW r \in instance.receivers, ReceiverFault(r), UNCHANGED instance
  PROVE  Good
<1>1. at[r].step \in {"claim", "refresh", "finish"} /\ failures < instance.failures /\ failures' = failures + 1
  BY DEF ReceiverFault
<1>2. PICK t \in Transfers : t = at[r].transfer
  BY <1>1, ReceiverFacts
<1>3. /\ r \in Receivers /\ TypeOK /\ JobInv(t) /\ inbox[t] \in Records /\ job[t] \in Jobs \ {"none"}
      /\ inbox[t].phase # "none" /\ (at[r].step = "finish" => inbox[t].result # "none")
  BY <1>1, <1>2, ReceiverFacts DEF ReceiverInv
<1>4. /\ UNCHANGED <<sourceVars, issued, grant, inbox, prepared, launcher, queue, launches>>
      /\ Rest(r)
      /\ \/ UNCHANGED job
         \/ at[r].step = "claim" /\ job' = [job EXCEPT ![t] = Claimed(t)]
         \/ at[r].step = "finish" /\ job' = [job EXCEPT ![t] = Finished(t)]
  BY <1>2 DEF ReceiverFault
<1>5. /\ job' \in [Transfers -> Jobs]
      /\ job'[t] # "none" /\ (job[t] \in Final => job'[t] = job[t])
      /\ job'[t] = "completed" => inbox[t].result = "accepted"
      /\ job'[t] = "failed" => inbox[t].result = "refused"
      /\ \A u \in Transfers : u # t => job'[u] = job[u]
  <2>1. CASE UNCHANGED job
    BY <1>3, <2>1, Types DEF JobInv
  <2>2. CASE at[r].step = "claim" /\ job' = [job EXCEPT ![t] = Claimed(t)]
    <3>1. Claimed(t) \in Jobs /\ Claimed(t) # "none" /\ Claimed(t) \in {job[t], "accepted"}
          /\ (job[t] \in Final => Claimed(t) = job[t])
      BY <1>3 DEF Claimed, Jobs, Final
    <3>2. /\ job' \in [Transfers -> Jobs] /\ job'[t] = Claimed(t)
          /\ \A u \in Transfers : u # t => job'[u] = job[u]
      BY <1>3, <2>2, <3>1, JobAt
    <3>3. QED
      BY <1>3, <3>1, <3>2 DEF JobInv
  <2>3. CASE at[r].step = "finish" /\ job' = [job EXCEPT ![t] = Finished(t)]
    <3>1. /\ Finished(t) \in Jobs /\ Finished(t) # "none" /\ (job[t] \in Final => Finished(t) = job[t])
          /\ Finished(t) = "completed" => inbox[t].result = "accepted"
          /\ Finished(t) = "failed" => inbox[t].result = "refused"
      BY <1>3, <2>3, FinishedFacts DEF Final, Jobs
    <3>2. /\ job' \in [Transfers -> Jobs] /\ job'[t] = Finished(t)
          /\ \A u \in Transfers : u # t => job'[u] = job[u]
      BY <1>3, <2>3, <3>1, JobAt
    <3>3. QED
      BY <3>1, <3>2
  <2>4. QED
    BY <1>4, <2>1, <2>2, <2>3
<1>6. /\ at' \in [Receivers -> Works] /\ at'[r].step = "idle"
      /\ \A s \in Receivers : s # r => at'[s] = at[s]
  BY <1>3, <1>4, RestFacts
<1>7. failures' \in 0..instance.failures
  BY <1>1, <1>3, FailureFacts
<1>8. TypeOK'
  BY <1>3, <1>4, <1>5, <1>6, <1>7, Types, TargetTyped
<1>9. Grows(t)
  BY <1>3, <1>4, <1>5 DEF Grows
<1>10. JobInv(t)'
  BY <1>3, <1>4, <1>5 DEF JobInv
<1>11. \A u \in Transfers : u # t => Same(u)
  BY <1>4, <1>5 DEF Same
<1>12. ReceiverInv(r)'
  BY <1>3, <1>4, <1>6, <1>9, <1>11, IdleReceiver
<1>13. QED
  BY <1>4, <1>6, <1>8, <1>9, <1>10, <1>11, <1>12, TargetSound

LEMMA ReceiverCrashStep ==
  ASSUME TransferInv, NEW r \in instance.receivers, ReceiverCrash(r), UNCHANGED instance
  PROVE  Good
<1>1. r \in Receivers /\ TypeOK /\ None \notin Receivers
  BY ReceiverFacts, Bounds
<1>2. /\ failures < instance.failures /\ failures' = failures + 1
      /\ at' = [at EXCEPT ![r] = Resting] /\ queue' = [queue EXCEPT ![r] = {}]
      /\ inbox' = [t \in Transfers |-> IF inbox[t].owner = r THEN [inbox[t] EXCEPT !.owner = None] ELSE inbox[t]]
      /\ launcher' = [t \in Transfers |-> IF launcher[t] = r THEN None ELSE launcher[t]]
      /\ UNCHANGED <<sourceVars, job, issued, grant, prepared, launches>>
  BY DEF ReceiverCrash
<1>3. /\ at' \in [Receivers -> Works] /\ at'[r].step = "idle"
      /\ \A s \in Receivers : s # r => at'[s] = at[s]
  BY <1>1, <1>2, RestFacts DEF Rest
<1>4. /\ queue' \in [Receivers -> SUBSET Header] /\ queue'[r] = {}
      /\ \A s \in Receivers : s # r => queue'[s] = queue[s]
  BY <1>1, <1>2, Types
<1>5. ASSUME NEW t \in Transfers
      PROVE  inbox'[t] \in Records /\ inbox'[t].phase = inbox[t].phase /\ inbox'[t].result = inbox[t].result
  <2>1. inbox[t] \in Records
    BY <1>1, Types
  <2>2. inbox'[t] = inbox[t] \/ inbox'[t] = [inbox[t] EXCEPT !.owner = None]
    BY <1>2
  <2>3. QED
    BY <2>1, <2>2 DEF Records
<1>6. inbox' \in [Transfers -> Records]
  BY <1>2, <1>5
<1>7. launcher' \in [Transfers -> Receivers \cup {None}]
  BY <1>1, <1>2, Types
<1>8. failures' \in 0..instance.failures
  BY <1>1, <1>2, FailureFacts
<1>9. TypeOK'
  BY <1>1, <1>2, <1>3, <1>4, <1>6, <1>7, <1>8, Types, TargetTyped
<1>10. \A t \in Transfers : Grows(t)
  BY <1>2, <1>5 DEF Grows
<1>11. \A t \in Transfers : JobInv(t)'
  BY <1>2, <1>5 DEF TransferInv, JobInv
<1>12. ReceiverInv(r)'
  BY <1>1, <1>3, <1>4, <1>10, IdleReceiver
<1>13. QED
  BY <1>2, <1>3, <1>4, <1>9, <1>10, <1>11, <1>12, TargetSound
-----------------------------------------------------------------------------
(* The theorems *)

LEMMA InitTransfer == Init => TransferInv
<1> SUFFICES ASSUME Init PROVE TransferInv
  OBVIOUS
<1>1. instance \in Instances /\ issued = 0 /\ failures = 0
  BY DEF Init
<1>2. instance.revisions \in Nat /\ instance.failures \in Nat
  BY <1>1, TaskTransferAssumption
<1>3. 0 \in 0..issued /\ 0 \in 0..instance.failures /\ 0 \in 0..instance.revisions /\ 0 \in Nat
  BY <1>1, <1>2
<1>4. NoNotice \in Notices /\ Idle \in Calls /\ Unseen \in Records /\ Resting \in Works
  BY DEF NoNotice, Notices, Idle, Calls, Unseen, Records, Resting, Works
<1>5. TypeOK
  <2>1. /\ outbox \in [Transfers -> States] /\ revision \in [Transfers -> 0..issued]
        /\ submit \in [Transfers -> {"idle", "staged", "confirming", "done"}]
        /\ job \in [Transfers -> Jobs]
    BY <1>3 DEF Init, States, Jobs
  <2>2. /\ notice \in Notices /\ call \in [Callers -> [Transfers -> Calls]]
        /\ ended \in BOOLEAN /\ applied \subseteq Transfers
    BY <1>4 DEF Init
  <2>3. /\ issued \in 0..instance.revisions /\ grant \in [{"source", "target"} -> 0..issued]
        /\ failures \in 0..instance.failures
    BY <1>1, <1>3 DEF Init
  <2>4. /\ inbox \in [Transfers -> Records] /\ at \in [Receivers -> Works]
        /\ queue \in [Receivers -> SUBSET Header]
    BY <1>4 DEF Init
  <2>5. /\ prepared \in [Transfers -> {"none", "prepared", "starting", "active", "uncertain"}]
        /\ launcher \in [Transfers -> Receivers \cup {None}]
        /\ consented \subseteq Transfers /\ launches \in [Transfers -> Nat]
    BY <1>3 DEF Init
  <2>6. QED
    BY <1>1, <2>1, <2>2, <2>3, <2>4, <2>5, Types
<1>6. Consent
  BY DEF Init, Consent, NoNotice
<1>7. ASSUME NEW t \in Transfers PROVE SourceInv(t) /\ JobInv(t) /\ NoticeInv(t)
  <2>1. /\ outbox[t] = "none" /\ submit[t] = "idle" /\ job[t] = "none" /\ t \notin applied
        /\ prepared[t] = "none" /\ launches[t] = 0 /\ inbox[t] = Unseen
    BY DEF Init
  <2>2. \A c \in Callers : call[c][t].step = "idle"
    BY DEF Init, Idle
  <2>3. SourceInv(t)
    BY <2>1, <2>2 DEF SourceInv, Undone
  <2>4. JobInv(t)
    BY <2>1 DEF JobInv, Unseen
  <2>5. NoticeInv(t)
    BY <2>1 DEF NoticeInv, Guarded, Standing, Outgoing, Sent
  <2>6. QED
    BY <2>3, <2>4, <2>5
<1>8. \A r \in Receivers : ReceiverInv(r)
  BY DEF Init, ReceiverInv, Resting
<1>9. QED
  BY <1>5, <1>6, <1>7, <1>8 DEF TransferInv

LEMMA Step == TransferInv /\ Next => Good
<1> SUFFICES ASSUME TransferInv, Next PROVE Good
  OBVIOUS
<1>1. UNCHANGED instance
  BY DEF Next
<1>2. CASE World
  BY <1>1, <1>2, WorldStep
<1>3. ASSUME NEW t \in instance.transfers, SourceStep(t) PROVE Good
  <2>1. CASE Stage(t) \/ RecordPending(t) \/ Confirm(t) \/ Resume(t)
    BY <1>1, <2>1, StageStep, RecordPendingStep, ConfirmStep, ResumeStep
  <2>2. ASSUME NEW c \in Callers, Withdraw(c, t) \/ Answer(c, t) \/ ReadReceipt(c, t) PROVE Good
    BY <1>1, <2>2, WithdrawStep, AnswerStep, ReadReceiptStep
  <2>3. QED
    BY <1>3, <2>1, <2>2 DEF SourceStep
<1>4. ASSUME NEW t \in instance.transfers, Offer(t) \/ Sweep(t) PROVE Good
  BY <1>1, <1>4, OfferStep, ChatStep
<1>5. ASSUME NEW t \in instance.transfers, NEW c \in Callers, SourceFault(c, t) \/ SourceCrash(c, t) PROVE Good
  BY <1>1, <1>5, SourceFaultStep, SourceCrashStep
<1>6. ASSUME NEW r \in instance.receivers, Tick(r) \/ ReceiverStep(r) PROVE Good
  <2>1. CASE Tick(r)
    BY <1>1, <2>1, TickStep
  <2>2. CASE \E h \in queue[r] : Take(r, h)
    BY <1>1, <2>2, TakeStep
  <2>3. CASE Claim(r) \/ Refresh(r) \/ Prepare(r) \/ Save(r) \/ Finish(r)
    BY <1>1, <2>3, ClaimStep, RefreshStep, PrepareStep, SaveStep, FinishStep
  <2>4. QED
    BY <1>6, <2>1, <2>2, <2>3 DEF ReceiverStep
<1>7. ASSUME NEW r \in instance.receivers, ReceiverFault(r) \/ ReceiverCrash(r) PROVE Good
  BY <1>1, <1>7, ReceiverFaultStep, ReceiverCrashStep
<1>8. ASSUME NEW r \in instance.receivers, NEW t \in instance.transfers, Launch(r, t) \/ Launched(r, t) PROVE Good
  BY <1>1, <1>8, ChatStep
<1>9. QED
  BY <1>2, <1>3, <1>4, <1>5, <1>6, <1>7, <1>8 DEF Next

LEMMA Still == TransferInv /\ UNCHANGED vars => Good
<1> SUFFICES ASSUME TransferInv, UNCHANGED vars PROVE Good
  OBVIOUS
<1>1. TypeOK /\ Consent
  BY DEF TransferInv
<1>2. TypeOK'
  BY <1>1 DEF vars, sourceVars, targetVars, TypeOK
<1>3. QED
  BY <1>1, <1>2, WorldSound DEF vars, sourceVars, Consent

LEMMA AlwaysTransfer == Spec => []TransferInv
<1>1. TransferInv /\ [Next]_vars => TransferInv'
  BY Step, Still DEF Good
<1>2. QED
  BY InitTransfer, <1>1, PTL DEF Spec

\* Every variable keeps its type.
THEOREM TypeCorrect == Spec => []TypeOK
<1>1. TransferInv => TypeOK
  BY DEF TransferInv
<1>2. QED
  BY AlwaysTransfer, <1>1, PTL

\* The provider of a prepared chat is started once, whatever receiver delivers its
\* first message, however often, and wherever a launch stops (deliver).
THEOREM OneLaunch == Spec => []OneNativeExecution
<1>1. ASSUME TransferInv, NEW t \in Transfers PROVE launches[t] <= 1
  BY <1>1 DEF TransferInv, JobInv
<1>2. TransferInv => OneNativeExecution
  BY <1>1 DEF OneNativeExecution
<1>3. QED
  BY AlwaysTransfer, <1>2, PTL

\* The source says "transferred" only of a chat the destination keeps, and is held
\* back while the destination keeps one, unless the person continued both (record,
\* withdrawPending, acceptReceipt).
THEOREM SourceHeld == Spec => []SourceWaits
<1>1. ASSUME TransferInv, NEW t \in Transfers
      PROVE  /\ outbox[t] = "completed" => prepared[t] # "none"
             /\ prepared[t] # "none" /\ inbox[t].result # "refused" =>
                  (notice.transfer # None /\ ~notice.continued) \/ t \in consented
  <2>1. SourceInv(t) /\ JobInv(t) /\ NoticeInv(t) /\ Consent /\ t # None
    BY <1>1, Bounds DEF TransferInv
  <2>2. outbox[t] = "completed" => prepared[t] # "none"
    BY <2>1 DEF SourceInv, JobInv
  <2>3. ASSUME prepared[t] # "none", inbox[t].result # "refused" PROVE notice.transfer = t \/ t \in consented
    <3>1. job[t] # "none" /\ job[t] # "failed"
      BY <2>1, <2>3 DEF JobInv
    <3>2. outbox[t] \notin {"none", "drafting", "failed"}
      BY <2>1, <3>1 DEF SourceInv, Undone
    <3>3. outbox[t] \in Sent \/ outbox[t] = "completed"
      BY <1>1, <3>2, Types DEF TransferInv, States, Sent
    <3>4. QED
      BY <2>1, <3>3 DEF NoticeInv, Guarded, Standing
  <2>4. QED
    BY <2>1, <2>2, <2>3 DEF Consent
<1>2. TransferInv => SourceWaits
  BY <1>1 DEF SourceWaits
<1>3. QED
  BY AlwaysTransfer, <1>2, PTL

\* No step replaces an answer that the destination or the relay keeps: the safety
\* half of what the run checks as AnsweredOnce (saveResult, finish, claim).
THEOREM AnswersKept == Spec => AnswerStands
<1>1. TransferInv /\ [Next]_vars =>
        [\A t \in Transfers : /\ inbox[t].result # "none" => inbox'[t].result = inbox[t].result
                              /\ job[t] \in Final => job'[t] = job[t]]_vars
  BY Step DEF Good, Stands
<1>2. QED
  BY AlwaysTransfer, <1>1, PTL DEF Spec, AnswerStands
=============================================================================
