---------------------------- MODULE TaskQueueProps ----------------------------
(***************************************************************************)
(* The properties of TaskQueue.                                            *)
(***************************************************************************)
EXTENDS TaskQueue, FiniteSetsExt

(* A run unlocks the entry it inserted: the panic of unlock, "bad lock     *)
(* structure: key mismatch", is unreachable.                               *)
NoLockPanic == ~panicked

(* A row in state 'running' belongs to someone who will move it on: the    *)
(* dispatcher about to insert it, or an execution that has yet to record   *)
(* its outcome.  A row that nobody owns is stuck until the next restart    *)
(* (the comment of unlock: run already moved the task to its terminal      *)
(* state).                                                                 *)
owned(t) ==
    \/ disp.pc = "insert" /\ disp.task = t
    \/ \E k \in executions(t) : run[k].pc # "unlock"
RunningHasOwner ==
    up => \A t \in Tasks : row[t].state = "running" => owned(t)

(* canAdmit looks only at the budget that is left and starts a task of any *)
(* width: counted as they were admitted, the running tasks overbook the    *)
(* queue by at most one.  A task that turns out narrower is counted as     *)
(* narrow as it is, since what it gives back may be given away again; what *)
(* one grows by (pass 1 of many renditions, the encode of a top rendition) *)
(* nobody has admitted, and it is left out.                                *)
admitted == [t \in Tasks |->
    [running[t] EXCEPT !.weight = IF @ > Weight[t] THEN Weight[t] ELSE @]]
AdmittedByOne ==
    LET all == MapThenSumSet(LAMBDA t : admitted[t].weight, Tasks)
    IN all >= Capacity => \E t \in Tasks : /\ admitted[t].key # NoKey
                                          /\ all - admitted[t].weight < Capacity

(* The admission budget is neither leaked nor double-counted: used is the  *)
(* sum of the weights in the lock table, across reweighTask and unlock.    *)
BudgetIsSum ==
    used = MapThenSumSet(LAMBDA t : running[t].weight, Tasks)

(* run1: a kill that lands during the terminal delete cannot leave a       *)
(* completed task behind as a permanent failure.  No step marks a row      *)
(* failed while the execution that writes it had returned nil.             *)
CompletedNeverFails ==
    [][\A k \in live : (run[k].ok /\ run'[k].pc = "unlock")
         => row'[run[k].task].state # "failed" \/ row' = row]_vars

(* A kill that lands before run1 returns is final: the execution never     *)
(* puts the task back in the queue, whatever error its function returned   *)
(* (task_test.go, TestKilledTaskRecordsFailed).                            *)
KilledIsNotRetried ==
    [][\A k \in live :
         (run[k].killed /\ row[run[k].task].state = "running")
           => row'[run[k].task].state # "queued"]_vars

(* The states and executions of TaskQueue implement the contract: at most  *)
(* one execution of a task at a time, launched only for a claimed task,    *)
(* over only when the outcome is in the row, and a deleted row stays gone. *)
stageOf(t) ==
    CASE row[t].state = "queued" -> "waiting"
      [] row[t].state = "running" -> "active"
      [] OTHER -> row[t].state
Contract == INSTANCE TaskContract WITH
    stage <- [t \in Tasks |-> stageOf(t)],
    holders <- [t \in Tasks |-> executions(t)]
ImplementsContract == Contract!Spec

(* A row that is queued and due is eventually taken up (or withdrawn),     *)
(* whatever its place in ORDER BY Priority, ID: tasks that keep failing    *)
(* lose a priority level per retry (task_test.go,                          *)
(* TestRescheduleLowersPriority).                                          *)
DueTaskIsTaken ==
    \A t \in Tasks :
        (row[t].state = "queued" /\ row[t].due) ~> (row[t].state # "queued")

-----------------------------------------------------------------------------
(* Statements of the comments that the code does not keep.                 *)

(* "a task wider than the remaining budget still starts, overbooking the   *)
(* queue by at most one task" (canAdmit): without one of the tasks that    *)
(* hold it, the queue would be below its capacity.  Tasks that grow after  *)
(* they were admitted overbook it together.                                *)
OverbookedByOne ==
    used >= Capacity =>
        \E t \in Tasks : /\ running[t].key # NoKey
                         /\ used - running[t].weight < Capacity
=============================================================================
