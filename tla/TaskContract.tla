----------------------------- MODULE TaskContract -----------------------------
(***************************************************************************)
(* What the task system of model/task.go promises to the code that adds    *)
(* tasks, without the dispatcher, the lock table or the goroutines: a task *)
(* is executed at least once until one execution ends it, never by two     *)
(* executions at a time, and an execution that is over has left the task   *)
(* in one of the stages waiting, failed or gone.                           *)
(***************************************************************************)
CONSTANTS Tasks, Keys

VARIABLES
    stage,      \* stage of each task
    holders     \* the executions of each task, by key

vars == <<stage, holders>>

Init ==
    /\ stage = [t \in Tasks |-> "new"]
    /\ holders = [t \in Tasks |-> {}]

Submit(t) ==
    /\ stage[t] = "new"
    /\ stage' = [stage EXCEPT ![t] = "waiting"]
    /\ UNCHANGED holders

(* Claiming a waiting task and launching its execution are two steps; the  *)
(* task may be withdrawn between them.                                     *)
Claim(t) ==
    /\ stage[t] = "waiting"
    /\ stage' = [stage EXCEPT ![t] = "active"]
    /\ UNCHANGED holders

Launch(t, k) ==
    /\ stage[t] \in {"active", "gone"}
    /\ holders[t] = {}
    /\ holders' = [holders EXCEPT ![t] = {k}]
    /\ UNCHANGED stage

(* The outcome of an execution, recorded while it still holds the task.    *)
Outcome(t) ==
    /\ stage[t] = "active"
    /\ holders[t] # {}
    /\ \E s \in {"waiting", "failed", "gone"} :
         stage' = [stage EXCEPT ![t] = s]
    /\ UNCHANGED holders

Release(t) ==
    /\ stage[t] # "active"
    /\ holders[t] # {}
    /\ holders' = [holders EXCEPT ![t] = {}]
    /\ UNCHANGED stage

(* A user takes a failed task up again, or withdraws a task.               *)
Retry(t) ==
    /\ stage[t] = "failed"
    /\ holders[t] = {}
    /\ stage' = [stage EXCEPT ![t] = "waiting"]
    /\ UNCHANGED holders

Withdraw(t) ==
    /\ stage[t] \in {"waiting", "active", "failed"}
    /\ stage' = [stage EXCEPT ![t] = "gone"]
    /\ UNCHANGED holders

(* The process stops, then starts again.                                   *)
Abandon ==
    /\ holders' = [t \in Tasks |-> {}]
    /\ UNCHANGED stage

Recover ==
    /\ holders = [t \in Tasks |-> {}]
    /\ stage' = [t \in Tasks |->
                   IF stage[t] = "active" THEN "waiting" ELSE stage[t]]
    /\ UNCHANGED holders

Next ==
    \/ \E t \in Tasks :
         \/ Submit(t) \/ Claim(t) \/ Outcome(t) \/ Release(t)
         \/ Retry(t) \/ Withdraw(t)
         \/ \E k \in Keys : Launch(t, k)
    \/ Abandon \/ Recover

Spec == Init /\ [][Next]_vars
=============================================================================
