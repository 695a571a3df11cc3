------------------------------ MODULE TaskQueue ------------------------------
(***************************************************************************)
(* One queue of the persistent task system of model/task.go: the Task rows *)
(* of the queue (database), the dispatcher goroutine (runTasks), the       *)
(* in-memory lock table (running, used), the goroutines that execute tasks *)
(* (dispatch, run, run1), and the requests of the web UI (RunTaskNow,      *)
(* KillTask, TaskDelete).  The net, disk and cpu queues share no state but *)
(* the table, in which a row belongs to one queue, so one queue is the     *)
(* whole story.  The process may crash at any step and restarts from the   *)
(* rows.                                                                   *)
(*                                                                         *)
(* Abstracted: what a task does (Work chooses its outcome), clock values   *)
(* (due says NextRun <= now; TimePasses makes a row due), Failures and     *)
(* FailureDesc (they only feed the length of the delay and the UI).        *)
(***************************************************************************)
EXTENDS Integers

CONSTANTS
    Tasks,          \* task IDs; their order as integers is ORDER BY ID
    Keys,           \* lock keys (cryptorand.Text(): never equal by chance)
    NoKey,          \* the key of runEntry{}, the zero value
    Capacity,       \* taskQueue.capacity
    Weight,         \* [Tasks -> Nat]: weightFor(type), the nominal weight
    Learns,         \* [Tasks -> SUBSET Nat]: what a task passes to reweighTask
    Priorities,     \* priorities tasks are created with
    MaxPriority,    \* bound: a row at this priority is not retried any more
    MaxClicks,      \* bound on the number of RunTaskNow requests
    MaxCrashes,     \* bound on the number of crashes
    Overlap,        \* may a click or an expired delay land on a task whose
                    \* previous run has not been unlocked yet?
    WritesMayFail   \* may TaskLock, TaskDelete, TaskReschedule and
                    \* TaskMarkFailed return an I/O error?

ASSUME TaskQueueAssumption ==
    /\ Tasks \subseteq Nat \ {0}
    /\ NoKey \notin Keys
    /\ Capacity \in Nat \ {0}
    /\ Weight \in [Tasks -> Nat]
    /\ Learns \in [Tasks -> SUBSET Nat]
    /\ Priorities \subseteq Nat
    /\ MaxPriority \in Nat
    /\ MaxClicks \in Nat
    /\ MaxCrashes \in Nat
    /\ Overlap \in BOOLEAN
    /\ WritesMayFail \in BOOLEAN

VARIABLES
    row,        \* table Task
    disp,       \* the dispatcher goroutine: its place and the row next() read
    signal,     \* the capacity-1 wake channel holds a token
    running,    \* taskQueue.running; an absent entry has key NoKey
    used,       \* taskQueue.used
    run,        \* the goroutines started by dispatch, by lock key
    panicked,   \* unlock hit panic("bad lock structure: key mismatch")
    clicks,     \* RunTaskNow requests so far
    crashes     \* crashes so far

vars == <<row, disp, signal, running, used, run, panicked, clicks, crashes>>
bounds == <<clicks, crashes>>

NoTask  == 0
NoEntry == [key |-> NoKey, weight |-> 0]
NoRun   == [pc |-> "free", task |-> NoTask, prio |-> 0, err |-> "nil",
            killed |-> FALSE, ok |-> FALSE]

(* "new": the ID is not generated yet.  "gone": the row has been deleted.  *)
Row == [state: {"new", "queued", "running", "failed", "gone"},
        prio: Nat, due: BOOLEAN]

(* Places of the dispatcher: the select of runTasks, the canAdmit test,    *)
(* next, the UPDATE of lock, and the insertion that ends lock.             *)
Dispatcher == [pc: {"select", "admit", "next", "lock", "insert", "down"},
               task: Tasks \cup {NoTask}, prio: Nat]

Entry == [key: Keys \cup {NoKey}, weight: Nat]

(* Places of a task goroutine: before TaskGet; in the task function; before*)
(* the terminal TaskDelete; where run1 joins context.Cause; before the     *)
(* failure write; before the deferred unlock.  ok: the function returned   *)
(* nil.                                                                    *)
Run == [pc: {"free", "start", "work", "delete", "join", "record", "unlock"},
        task: Tasks \cup {NoTask}, prio: Nat,
        err: {"nil", "retry", "permanent"}, killed: BOOLEAN, ok: BOOLEAN]

TypeOK ==
    /\ row \in [Tasks -> Row]
    /\ disp \in Dispatcher
    /\ disp.pc \in {"lock", "insert"} => disp.task \in Tasks
    /\ signal \in BOOLEAN
    /\ running \in [Tasks -> Entry]
    /\ used \in Int
    /\ run \in [Keys -> Run]
    /\ \A k \in Keys : run[k].pc # "free" => run[k].task \in Tasks
    /\ panicked \in BOOLEAN
    /\ clicks \in Nat
    /\ crashes \in Nat

up == disp.pc # "down"
exists(t) == row[t].state \in {"queued", "running", "failed"}
live == {k \in Keys : run[k].pc # "free"}
executions(t) == {k \in live : run[k].task = t}

Init ==
    /\ row = [t \in Tasks |-> [state |-> "new", prio |-> 0, due |-> FALSE]]
    /\ disp = [pc |-> "select", task |-> NoTask, prio |-> 0]
    /\ signal = FALSE
    /\ running = [t \in Tasks |-> NoEntry]
    /\ used = 0
    /\ run = [k \in Keys |-> NoRun]
    /\ panicked = FALSE
    /\ clicks = 0
    /\ crashes = 0

-----------------------------------------------------------------------------
(* The environment of the queue: other transactions, the UI and the clock. *)

(* addTaskOpts; its commit hook wakes the dispatcher.  IDs are generated   *)
(* once and never reused.                                                  *)
AddTask(t) ==
    /\ up
    /\ row[t].state = "new"
    /\ \E p \in Priorities, d \in BOOLEAN :
         row' = [row EXCEPT ![t] = [state |-> "queued", prio |-> p, due |-> d]]
    /\ signal' = TRUE
    /\ UNCHANGED <<disp, running, used, run, panicked, bounds>>

(* NextRun is reached.  A retry delay is at least 100ms, so unless Overlap *)
(* the run that asked for it has been unlocked by then.                    *)
TimePasses(t) ==
    /\ row[t].state = "queued" /\ ~row[t].due
    /\ Overlap \/ running[t].key = NoKey
    /\ row' = [row EXCEPT ![t].due = TRUE]
    /\ UNCHANGED <<disp, signal, running, used, run, panicked, bounds>>

(* RunTaskNow, the "Run Now" and "Retry" buttons.  The UPDATE has no guard *)
(* on State.  The buttons are drawn for rows that were not running; unless *)
(* Overlap the page is not older than the task's last run.                 *)
RunTaskNow(t) ==
    /\ up
    /\ clicks < MaxClicks
    /\ Overlap \/ (row[t].state # "running" /\ running[t].key = NoKey)
    /\ exists(t)
    /\ row' = [row EXCEPT ![t].state = "queued", ![t].due = TRUE]
    /\ signal' = TRUE
    /\ clicks' = clicks + 1
    /\ UNCHANGED <<disp, running, used, run, panicked, crashes>>

(* TxRW.TaskDelete, the "Delete" button, in whatever state the row is.     *)
TaskDelete(t) ==
    /\ up
    /\ exists(t)
    /\ row' = [row EXCEPT ![t].state = "gone"]
    /\ UNCHANGED <<disp, signal, running, used, run, panicked, bounds>>

(* KillTask cancels the context of the entry with a permanent cause.       *)
(* Nobody looks at that context any more once run1 has joined its cause:   *)
(* KillTask still returns true and has no effect.                          *)
KillTask(t) ==
    /\ up
    /\ running[t].key # NoKey
    /\ LET k == running[t].key IN
       run' = [run EXCEPT ![k].killed = @ \/ run[k].pc \notin {"record", "unlock"}]
    /\ UNCHANGED <<row, disp, signal, running, used, panicked, bounds>>

-----------------------------------------------------------------------------
(* The dispatcher goroutine, runTasks.                                     *)

Goto(pc) == disp' = [disp EXCEPT !.pc = pc]

(* The select: a token on signal, or the 5-second tick.                    *)
Wake ==
    /\ disp.pc = "select"
    /\ signal' = FALSE
    /\ Goto("admit")
    /\ UNCHANGED <<row, running, used, run, panicked, bounds>>

(* Slip: the test admits at a full queue.                                  *)
CanAdmitWhenFull ==
    /\ disp.pc = "admit"
    /\ Goto(IF used <= Capacity THEN "next" ELSE "select")
    /\ UNCHANGED <<row, signal, running, used, run, panicked, bounds>>

CanAdmit ==
    /\ disp.pc = "admit"
    /\ Goto(IF used < Capacity THEN "next" ELSE "select")
    /\ UNCHANGED <<row, signal, running, used, run, panicked, bounds>>

candidates == {t \in Tasks : row[t].state = "queued" /\ row[t].due}

(* ORDER BY Priority, ID.                                                  *)
before(t, u) ==
    \/ row[t].prio < row[u].prio
    \/ row[t].prio = row[u].prio /\ t <= u

(* next reads the row (TaskNext); lock comes later, in another statement.  *)
TaskNext ==
    /\ disp.pc = "next"
    /\ IF candidates = {}
       THEN Goto("select")
       ELSE \E t \in candidates :
              /\ \A u \in candidates : before(t, u)
              /\ disp' = [pc |-> "lock", task |-> t, prio |-> row[t].prio]
    /\ UNCHANGED <<row, signal, running, used, run, panicked, bounds>>

(* Slip: the UPDATE of TaskLock without AND State = 'queued'.              *)
TaskLockUnguarded ==
    /\ disp.pc = "lock"
    /\ row' = [row EXCEPT ![disp.task].state = "running"]
    /\ Goto("insert")
    /\ UNCHANGED <<signal, running, used, run, panicked, bounds>>

(* The guarded UPDATE of TaskLock, from State queued only.                 *)
TaskLock ==
    /\ disp.pc = "lock"
    /\ LET t == disp.task IN
       \/ /\ row[t].state = "queued"
          /\ row' = [row EXCEPT ![t].state = "running"]
          /\ Goto("insert")
       \/ /\ row[t].state # "queued" \/ WritesMayFail
          /\ Goto("admit")
          /\ UNCHANGED row
    /\ UNCHANGED <<signal, running, used, run, panicked, bounds>>

(* The rest of lock, under runningMu, and the go statement of dispatch.    *)
Insert ==
    /\ disp.pc = "insert"
    /\ LET t == disp.task IN
       \E k \in Keys \ live :
         /\ running' = [running EXCEPT ![t] = [key |-> k, weight |-> Weight[t]]]
         /\ used' = used + Weight[t]
         /\ run' = [run EXCEPT ![k] = [NoRun EXCEPT !.pc = "start", !.task = t,
                                                    !.prio = disp.prio]]
    /\ Goto("admit")
    /\ UNCHANGED <<row, signal, panicked, bounds>>

-----------------------------------------------------------------------------
(* The goroutine of one execution: run, run1 and the deferred unlock.      *)

(* Slip: a missing row returns before unlock is deferred.                  *)
StartLeavesSlot(k) ==
    /\ run[k].pc = "start"
    /\ run' = IF ~exists(run[k].task) THEN [run EXCEPT ![k] = NoRun]
              ELSE [run EXCEPT ![k].pc = IF run[k].killed THEN "join" ELSE "work"]
    /\ UNCHANGED <<row, disp, signal, running, used, panicked, bounds>>

(* TaskGet in the snapshot of the run: a missing row ends the run without  *)
(* an error, and BeginTx refuses a canceled context.                       *)
Start(k) ==
    /\ run[k].pc = "start"
    /\ run' = [run EXCEPT ![k].pc =
                 IF run[k].killed \/ ~exists(run[k].task) THEN "join" ELSE "work"]
    /\ UNCHANGED <<row, disp, signal, running, used, panicked, bounds>>

(* reweighTask, from the task function, finds the entry by the task's ID.  *)
(* A task function does it once, from the nominal weight that lock gave    *)
(* the entry; executions that overlap share one, and may do it in turn.    *)
Reweigh(k) ==
    /\ run[k].pc = "work"
    /\ LET t == run[k].task IN
       /\ running[t].key # NoKey
       /\ Overlap \/ running[t].weight = Weight[t]
       /\ \E w \in Learns[t] :
            /\ w # running[t].weight
            /\ used' = used + w - running[t].weight
            /\ running' = [running EXCEPT ![t].weight = w]
            /\ signal' = (signal \/ w < running[t].weight)
    /\ UNCHANGED <<row, disp, run, panicked, bounds>>

(* The task function returns: nil with its work committed, an error to     *)
(* retry, or a permanent error (a recovered panic is one).                 *)
Work(k) ==
    /\ run[k].pc = "work"
    /\ \/ run' = [run EXCEPT ![k].pc = "delete", ![k].ok = TRUE]
       \/ /\ run[k].prio < MaxPriority
          /\ run' = [run EXCEPT ![k].pc = "join", ![k].err = "retry"]
       \/ run' = [run EXCEPT ![k].pc = "join", ![k].err = "permanent"]
    /\ UNCHANGED <<row, disp, signal, running, used, panicked, bounds>>

(* Slip: the terminal TaskDelete still runs under the task's context.      *)
CompleteNotDetached(k) ==
    /\ run[k].pc = "delete"
    /\ row' = IF run[k].killed THEN row
              ELSE [row EXCEPT ![run[k].task].state = "gone"]
    /\ run' = [run EXCEPT ![k].pc = "join"]
    /\ UNCHANGED <<disp, signal, running, used, panicked, bounds>>

(* The terminal TaskDelete, in a transaction detached from the context.    *)
Complete(k) ==
    /\ run[k].pc = "delete"
    /\ \/ /\ row' = [row EXCEPT ![run[k].task].state = "gone"]
          /\ run' = [run EXCEPT ![k].pc = "join"]
       \/ /\ WritesMayFail
          /\ run[k].prio < MaxPriority
          /\ run' = [run EXCEPT ![k].pc = "join", ![k].err = "retry"]
          /\ UNCHANGED row
    /\ UNCHANGED <<disp, signal, running, used, panicked, bounds>>

(* Slip: the cause of the cancellation is not joined.                      *)
JoinWithoutCause(k) ==
    /\ run[k].pc = "join"
    /\ run' = [run EXCEPT ![k].pc =
                 IF run[k].err = "nil" THEN "unlock" ELSE "record"]
    /\ UNCHANGED <<row, disp, signal, running, used, panicked, bounds>>

(* errors.Join(err, context.Cause(ctx)): a kill makes the error permanent. *)
Join(k) ==
    /\ run[k].pc = "join"
    /\ LET e == IF run[k].killed THEN "permanent" ELSE run[k].err IN
       run' = [run EXCEPT ![k].err = e,
                          ![k].pc = IF e = "nil" THEN "unlock" ELSE "record"]
    /\ UNCHANGED <<row, disp, signal, running, used, panicked, bounds>>

Requeue(k, prio, due) ==
    LET t == run[k].task IN
    IF ~exists(t) THEN row
    ELSE IF run[k].err = "permanent"
    THEN [row EXCEPT ![t].state = "failed"]
    ELSE [row EXCEPT ![t] = [state |-> "queued", prio |-> prio, due |-> due]]

(* Slips of reschedule: no delay; the priority is kept.                    *)
SettleWithoutDelay(k) == Requeue(k, run[k].prio + 1, TRUE)
SettleSamePriority(k) == Requeue(k, run[k].prio, FALSE)

(* markFailed or reschedule: unguarded UPDATEs of a row that may be gone.  *)
(* The priority written comes from the copy next() read.                   *)
Settle(k) == Requeue(k, run[k].prio + 1, FALSE)

Record(k) ==
    /\ run[k].pc = "record"
    /\ row' = Settle(k) \/ (WritesMayFail /\ UNCHANGED row)
    /\ run' = [run EXCEPT ![k].pc = "unlock"]
    /\ UNCHANGED <<disp, signal, running, used, panicked, bounds>>

Memory(pc) ==
    /\ disp' = [pc |-> pc, task |-> NoTask, prio |-> 0]
    /\ signal' = FALSE
    /\ running' = [t \in Tasks |-> NoEntry]
    /\ used' = 0
    /\ run' = [k \in Keys |-> NoRun]

(* Slip: unlock gives back the nominal weight, not the reweighed one.      *)
UnlockNominal(k) ==
    /\ run[k].pc = "unlock"
    /\ running[run[k].task].key = k
    /\ running' = [running EXCEPT ![run[k].task] = NoEntry]
    /\ used' = used - Weight[run[k].task]
    /\ signal' = TRUE
    /\ run' = [run EXCEPT ![k] = NoRun]
    /\ UNCHANGED <<row, disp, panicked, bounds>>

(* unlock compares the entry's key with its own.  On a mismatch the panic  *)
(* of a goroutine takes the process down.                                  *)
Unlock(k) ==
    /\ run[k].pc = "unlock"
    /\ LET t == run[k].task IN
       IF running[t].key = k
       THEN /\ running' = [running EXCEPT ![t] = NoEntry]
            /\ used' = used - running[t].weight
            /\ signal' = TRUE
            /\ run' = [run EXCEPT ![k] = NoRun]
            /\ UNCHANGED <<row, disp, panicked, bounds>>
       ELSE /\ panicked' = TRUE
            /\ Memory("down")
            /\ UNCHANGED <<row, bounds>>

-----------------------------------------------------------------------------
(* The process stops at any point and loses its memory.  New resets the    *)
(* rows left 'running' (TaskResetRunning) before the queues start.         *)

Crash ==
    /\ up
    /\ crashes < MaxCrashes
    /\ crashes' = crashes + 1
    /\ Memory("down")
    /\ UNCHANGED <<row, panicked, clicks>>

(* Slip: New does not call TaskResetRunning.                               *)
RestartWithoutReset ==
    /\ ~up
    /\ Memory("select")
    /\ UNCHANGED <<row, panicked, bounds>>

Restart ==
    /\ ~up
    /\ Memory("select")
    /\ row' = [t \in Tasks |->
                 IF row[t].state = "running"
                 THEN [row[t] EXCEPT !.state = "queued"] ELSE row[t]]
    /\ UNCHANGED <<panicked, bounds>>

Dispatch == Wake \/ CanAdmit \/ TaskNext \/ TaskLock \/ Insert

Execute(k) ==
    Start(k) \/ Work(k) \/ Complete(k) \/ Join(k) \/ Record(k) \/ Unlock(k)

Next ==
    \/ \E t \in Tasks : \/ AddTask(t) \/ TimePasses(t) \/ RunTaskNow(t)
                        \/ TaskDelete(t) \/ KillTask(t)
    \/ Dispatch
    \/ \E k \in Keys : Execute(k) \/ Reweigh(k)
    \/ Crash \/ Restart

Spec == Init /\ [][Next]_vars

(* The dispatcher's select never blocks for more than five seconds, a      *)
(* goroutine is scheduled, a task function returns, time passes, and the   *)
(* process is restarted.  Nothing is assumed of the UI.                    *)
Fairness ==
    /\ WF_vars(Dispatch)
    /\ \A k \in Keys : WF_vars(Execute(k))
    /\ \A t \in Tasks : WF_vars(TimePasses(t))
    /\ WF_vars(Restart)

FairSpec == Spec /\ Fairness
=============================================================================
