---------------------------- MODULE TaskJobContract ----------------------------
(****************************************************************************)
(* What the durable task queue promises a controller about one operation,   *)
(* without saying how (apps/bridge/src/task-dispatch/README.md): the job is *)
(* granted once, runs at most once and only while granted, is completed     *)
(* only if the provider took it, and is withdrawn only before the grant or  *)
(* after a failure.                                                         *)
(****************************************************************************)
EXTENDS Naturals

CONSTANT Jobs

VARIABLES
  verdict,   \* what the controller sees of each job
  ran,       \* how often its operation was started
  answer     \* what the provider said

vars == <<verdict, ran, answer>>

Init ==
  /\ verdict = [j \in Jobs |-> "absent"]
  /\ ran = [j \in Jobs |-> 0]
  /\ answer = [j \in Jobs |-> "none"]

Becomes(j, state) == verdict' = [verdict EXCEPT ![j] = state] /\ UNCHANGED <<ran, answer>>

Queue(j)    == verdict[j] = "absent" /\ Becomes(j, "queued")
Grant(j)    == verdict[j] = "queued" /\ Becomes(j, "accepted")
Withdraw(j) == verdict[j] \in {"queued", "failed"} /\ Becomes(j, "cancelled")
Expire(j)   == verdict[j] \notin {"absent", "accepted"} /\ Becomes(j, "expired")
Complete(j) == verdict[j] = "accepted" /\ answer[j] = "accepted" /\ Becomes(j, "completed")
Fail(j)     == verdict[j] = "accepted" /\ Becomes(j, "failed")

Start(j) ==
  /\ verdict[j] = "accepted" /\ ran[j] = 0
  /\ ran' = [ran EXCEPT ![j] = 1]
  /\ UNCHANGED <<verdict, answer>>

Answer(j) ==
  /\ ran[j] = 1 /\ answer[j] = "none"
  /\ answer' \in {[answer EXCEPT ![j] = a] : a \in {"accepted", "rejected"}}
  /\ UNCHANGED <<verdict, ran>>

Next == \E j \in Jobs :
  \/ Queue(j) \/ Grant(j) \/ Withdraw(j) \/ Expire(j)
  \/ Complete(j) \/ Fail(j) \/ Start(j) \/ Answer(j)

Spec == Init /\ [][Next]_vars
=============================================================================
