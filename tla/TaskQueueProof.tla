---------------------------- MODULE TaskQueueProof ----------------------------
(***************************************************************************)
(* Proofs about TaskQueue, for any number of tasks and keys and any bounds.*)
(***************************************************************************)
EXTENDS TaskQueueProps, FiniteSetTheorems, TLAPS

USE TaskQueueAssumption

-----------------------------------------------------------------------------
(* Updates of the tables keep their types.                                 *)

LEMMA RowState ==
  ASSUME NEW f \in [Tasks -> Row], NEW t \in Tasks,
         NEW s \in {"new", "queued", "running", "failed", "gone"}
  PROVE  [f EXCEPT ![t].state = s] \in [Tasks -> Row]
  BY DEF Row

LEMMA RowWhole ==
  ASSUME NEW f \in [Tasks -> Row], NEW t \in Tasks, NEW p \in Nat,
         NEW s \in {"new", "queued", "running", "failed", "gone"},
         NEW d \in BOOLEAN
  PROVE  [f EXCEPT ![t] = [state |-> s, prio |-> p, due |-> d]]
           \in [Tasks -> Row]
  BY DEF Row

LEMMA RowDue ==
  ASSUME NEW f \in [Tasks -> Row], NEW t \in Tasks
  PROVE  /\ [f EXCEPT ![t].due = TRUE] \in [Tasks -> Row]
         /\ [f EXCEPT ![t].state = "queued", ![t].due = TRUE]
              \in [Tasks -> Row]
  <1>1. /\ [f[t] EXCEPT !.due = TRUE] \in Row
        /\ [f[t] EXCEPT !.state = "queued", !.due = TRUE] \in Row
    BY DEF Row
  <1>2. QED
    BY <1>1

LEMMA NoRunType == NoRun \in Run
  BY DEF NoRun, Run, NoTask

Places == {"free", "start", "work", "delete", "join", "record", "unlock"}

RunTyped(f) ==
  /\ f \in [Keys -> Run]
  /\ \A k \in Keys : f[k].pc # "free" => f[k].task \in Tasks

(* A goroutine that moves on, with or without an outcome.                  *)
LEMMA RunPlace ==
  ASSUME NEW f, RunTyped(f), NEW k \in Keys, f[k].pc # "free", NEW p \in Places
  PROVE  RunTyped([f EXCEPT ![k].pc = p])
  BY DEF RunTyped, Run, Places

LEMMA RunReturns ==
  ASSUME NEW f, RunTyped(f), NEW k \in Keys, f[k].pc # "free", NEW p \in Places
  PROVE  RunTyped([f EXCEPT ![k].pc = p, ![k].ok = TRUE])
  <1>1. [f[k] EXCEPT !.pc = p, !.ok = TRUE] \in Run
    BY ZenonT(40) DEF RunTyped, Run, Places
  <1>2. QED
    BY <1>1 DEF RunTyped

Errors == {"nil", "retry", "permanent"}

LEMMA RunFails ==
  ASSUME NEW f, RunTyped(f), NEW k \in Keys, f[k].pc # "free",
         NEW p \in Places, NEW e \in Errors
  PROVE  RunTyped([f EXCEPT ![k].pc = p, ![k].err = e])
  <1>1. [f[k] EXCEPT !.pc = p, !.err = e] \in Run
    <2>1. f[k] \in Run
      BY DEF RunTyped
    <2>2. /\ p \in {"free", "start", "work", "delete", "join", "record", "unlock"}
          /\ e \in {"nil", "retry", "permanent"}
      BY DEF Places, Errors
    <2>3. QED
      BY <2>1, <2>2 DEF Run
  <1>2. QED
    BY <1>1 DEF RunTyped

LEMMA RunJoins ==
  ASSUME NEW f, RunTyped(f), NEW k \in Keys, f[k].pc # "free",
         NEW p \in Places, NEW e \in Errors
  PROVE  RunTyped([f EXCEPT ![k].err = e, ![k].pc = p])
  <1>1. [f[k] EXCEPT !.err = e, !.pc = p] \in Run
    <2>1. f[k] \in Run
      BY DEF RunTyped
    <2>2. /\ p \in {"free", "start", "work", "delete", "join", "record", "unlock"}
          /\ e \in {"nil", "retry", "permanent"}
      BY DEF Places, Errors
    <2>3. QED
      BY <2>1, <2>2 DEF Run
  <1>2. QED
    BY <1>1 DEF RunTyped

LEMMA RunKilled ==
  ASSUME NEW f, RunTyped(f), NEW k \in Keys, NEW b \in BOOLEAN
  PROVE  RunTyped([f EXCEPT ![k].killed = b])
  BY DEF RunTyped, Run

LEMMA RunWhole ==
  ASSUME NEW f, RunTyped(f), NEW k \in Keys, NEW r \in Run,
         r.pc # "free" => r.task \in Tasks
  PROVE  RunTyped([f EXCEPT ![k] = r])
  BY DEF RunTyped

(* The record fields that later proofs use, from the types of the tables.  *)
LEMMA Fields ==
  ASSUME TypeOK
  PROVE  /\ \A t \in Tasks :
              /\ row[t].state \in {"new", "queued", "running", "failed", "gone"}
              /\ row[t].prio \in Nat
              /\ row[t].due \in BOOLEAN
              /\ running[t].key \in Keys \cup {NoKey}
              /\ running[t].weight \in Nat
         /\ \A k \in Keys :
              /\ run[k].pc \in {"free", "start", "work", "delete", "join",
                                "record", "unlock"}
              /\ run[k].prio \in Nat
              /\ run[k].err \in {"nil", "retry", "permanent"}
              /\ run[k].killed \in BOOLEAN
              /\ run[k].ok \in BOOLEAN
         /\ disp.pc \in {"select", "admit", "next", "lock", "insert", "down"}
         /\ disp.prio \in Nat
  <1>1. row \in [Tasks -> Row] /\ running \in [Tasks -> Entry]
        /\ run \in [Keys -> Run] /\ disp \in Dispatcher
    BY DEF TypeOK
  <1>2. ASSUME NEW t \in Tasks
        PROVE  /\ row[t].state \in {"new", "queued", "running", "failed", "gone"}
               /\ row[t].prio \in Nat
               /\ row[t].due \in BOOLEAN
    BY <1>1 DEF Row
  <1>3. ASSUME NEW t \in Tasks
        PROVE  running[t].key \in Keys \cup {NoKey} /\ running[t].weight \in Nat
    BY <1>1 DEF Entry
  <1>4. ASSUME NEW k \in Keys
        PROVE  /\ run[k].pc \in {"free", "start", "work", "delete", "join",
                                 "record", "unlock"}
               /\ run[k].prio \in Nat
               /\ run[k].err \in {"nil", "retry", "permanent"}
               /\ run[k].killed \in BOOLEAN
               /\ run[k].ok \in BOOLEAN
    BY <1>1 DEF Run
  <1>5. /\ disp.pc \in {"select", "admit", "next", "lock", "insert", "down"}
        /\ disp.prio \in Nat
    BY <1>1 DEF Dispatcher
  <1>6. QED
    BY <1>2, <1>3, <1>4, <1>5

(* What New and the end of the process leave in memory is well typed.      *)
LEMMA MemoryType ==
  ASSUME NEW p \in {"select", "down"}, Memory(p)
  PROVE  /\ disp' \in Dispatcher
         /\ disp'.pc = p
         /\ signal' \in BOOLEAN
         /\ running' \in [Tasks -> Entry]
         /\ used' \in Int
         /\ run' \in [Keys -> Run]
         /\ \A k \in Keys : run'[k].pc = "free"
  <1>1. disp' \in Dispatcher /\ disp'.pc = p
    BY DEF Memory, Dispatcher, NoTask
  <1>2. running' \in [Tasks -> Entry]
    BY DEF Memory, Entry, NoEntry
  <1>3. run' \in [Keys -> Run] /\ \A k \in Keys : run'[k].pc = "free"
    BY NoRunType DEF Memory, NoRun
  <1>4. signal' \in BOOLEAN
    BY DEF Memory
  <1>5. used' \in Int
    BY DEF Memory
  <1>6. QED
    BY <1>1, <1>2, <1>3, <1>4, <1>5

-----------------------------------------------------------------------------
(* Every variable stays in its type.                                       *)
THEOREM TypeCorrect == Spec => []TypeOK
<1>1. ASSUME Init PROVE TypeOK
  <2>1. row \in [Tasks -> Row]
    BY <1>1 DEF Init, Row
  <2>2. disp \in Dispatcher /\ disp.pc = "select"
    BY <1>1 DEF Init, Dispatcher, NoTask
  <2>3. running \in [Tasks -> Entry]
    BY <1>1 DEF Init, Entry, NoEntry
  <2>4. run \in [Keys -> Run] /\ \A k \in Keys : run[k].pc = "free"
    BY <1>1, NoRunType DEF Init, NoRun
  <2>5. signal \in BOOLEAN /\ panicked \in BOOLEAN
    BY <1>1 DEF Init
  <2>6. used \in Int /\ clicks \in Nat /\ crashes \in Nat
    BY <1>1 DEF Init
  <2>7. QED
    BY <2>1, <2>2, <2>3, <2>4, <2>5, <2>6 DEF TypeOK
<1>2. ASSUME TypeOK, [Next]_vars
      PROVE  TypeOK'
  <2> USE <1>2
  <2>1. ASSUME NEW t \in Tasks, AddTask(t) PROVE TypeOK'
    <3>1. row' \in [Tasks -> Row]
      BY <2>1, RowWhole DEF AddTask, TypeOK
    <3>2. QED
      BY <2>1, <3>1 DEF AddTask, TypeOK, bounds
  <2>2. ASSUME NEW t \in Tasks, TimePasses(t) PROVE TypeOK'
    <3>1. row' \in [Tasks -> Row]
      BY <2>2, RowDue DEF TimePasses, TypeOK
    <3>2. QED
      BY <2>2, <3>1 DEF TimePasses, TypeOK, bounds
  <2>3. ASSUME NEW t \in Tasks, RunTaskNow(t) PROVE TypeOK'
    <3>1. row' \in [Tasks -> Row]
      BY <2>3, RowDue DEF RunTaskNow, TypeOK
    <3>2. QED
      BY <2>3, <3>1 DEF RunTaskNow, TypeOK
  <2>4. ASSUME NEW t \in Tasks, TaskDelete(t) PROVE TypeOK'
    <3>1. row' \in [Tasks -> Row]
      BY <2>4, RowState DEF TaskDelete, TypeOK
    <3>2. QED
      BY <2>4, <3>1 DEF TaskDelete, TypeOK, bounds
  <2>5. ASSUME NEW t \in Tasks, KillTask(t) PROVE TypeOK'
    <3> DEFINE k == running[t].key
               b == run[k].killed \/ run[k].pc \notin {"record", "unlock"}
    <3>1. k \in Keys /\ run' = [run EXCEPT ![k].killed = b]
      BY <2>5, Fields DEF KillTask
    <3>2. b \in BOOLEAN
      OBVIOUS
    <3> HIDE DEF b, k
    <3>3. RunTyped(run')
      BY <3>1, <3>2, RunKilled DEF TypeOK, RunTyped
    <3>4. QED
      BY <2>5, <3>3 DEF KillTask, TypeOK, RunTyped, bounds
  <2>6. CASE Wake
    <3>1. disp' \in Dispatcher /\ disp'.pc = "admit"
      BY <2>6 DEF Wake, Goto, TypeOK, Dispatcher
    <3>2. QED
      BY <2>6, <3>1 DEF Wake, TypeOK, bounds
  <2>7. CASE CanAdmit
    <3>1. disp' \in Dispatcher /\ disp'.pc \in {"next", "select"}
      BY <2>7 DEF CanAdmit, Goto, TypeOK, Dispatcher
    <3>2. QED
      BY <2>7, <3>1 DEF CanAdmit, TypeOK, bounds
  <2>8. CASE TaskNext
    <3>1. CASE candidates = {}
      <4>1. disp' \in Dispatcher /\ disp'.pc = "select"
        BY <2>8, <3>1 DEF TaskNext, Goto, TypeOK, Dispatcher
      <4>2. QED
        BY <2>8, <4>1 DEF TaskNext, TypeOK, bounds
    <3>2. CASE candidates # {}
      <4>1. PICK t \in Tasks :
              disp' = [pc |-> "lock", task |-> t, prio |-> row[t].prio]
        BY <2>8, <3>2 DEF TaskNext, candidates
      <4>2. disp' \in Dispatcher /\ disp'.task \in Tasks
        BY <4>1, Fields DEF Dispatcher
      <4>3. QED
        BY <2>8, <4>2 DEF TaskNext, TypeOK, bounds
    <3>3. QED
      BY <3>1, <3>2
  <2>9. CASE TaskLock
    <3>1. disp' \in Dispatcher /\ disp'.task \in Tasks
      BY <2>9 DEF TaskLock, Goto, TypeOK, Dispatcher
    <3>2. row' \in [Tasks -> Row]
      <4>1. disp.task \in Tasks /\ row \in [Tasks -> Row]
        BY <2>9 DEF TaskLock, TypeOK
      <4>2. \/ row' = [row EXCEPT ![disp.task].state = "running"]
            \/ row' = row
        BY <2>9 DEF TaskLock
      <4>3. [row EXCEPT ![disp.task].state = "running"] \in [Tasks -> Row]
        BY <4>1, RowState
      <4>4. QED
        BY <4>1, <4>2, <4>3
    <3>3. QED
      BY <2>9, <3>1, <3>2 DEF TaskLock, TypeOK, bounds
  <2>10. CASE Insert
    <3> DEFINE r == [NoRun EXCEPT !.pc = "start", !.task = disp.task,
                                  !.prio = disp.prio]
    <3>1. disp.task \in Tasks /\ disp.prio \in Nat
      BY <2>10, Fields DEF Insert, TypeOK
    <3>2. disp' \in Dispatcher /\ disp'.pc = "admit"
      BY <2>10 DEF Insert, Goto, TypeOK, Dispatcher
    <3>3. PICK k \in Keys :
            /\ running' = [running EXCEPT ![disp.task] =
                             [key |-> k, weight |-> Weight[disp.task]]]
            /\ run' = [run EXCEPT ![k] = r]
      BY <2>10 DEF Insert
    <3>4. r \in Run /\ r.task \in Tasks
      BY <3>1 DEF Run, NoRun, NoTask
    <3>5. running' \in [Tasks -> Entry]
      BY <3>1, <3>3 DEF TypeOK, Entry
    <3>6. used' \in Int
      BY <2>10, <3>1 DEF Insert, TypeOK
    <3> HIDE DEF r
    <3>7. QED
      BY <2>10, <3>2, <3>3, <3>4, <3>5, <3>6 DEF Insert, TypeOK, bounds
  <2>11. ASSUME NEW k \in Keys, Start(k) PROVE TypeOK'
    <3>1. run[k].pc # "free" /\ RunTyped(run)
      BY <2>11 DEF Start, TypeOK, RunTyped
    <3>2. PICK p \in Places : run' = [run EXCEPT ![k].pc = p]
      BY <2>11 DEF Start, Places
    <3>3. RunTyped(run')
      <4>1. RunTyped([run EXCEPT ![k].pc = p])
        BY <3>1, RunPlace
      <4>2. QED
        BY <3>2, <4>1
    <3>4. QED
      BY <2>11, <3>3 DEF Start, TypeOK, RunTyped, bounds
  <2>12. ASSUME NEW k \in Keys, Work(k) PROVE TypeOK'
    <3>1. run[k].pc # "free" /\ RunTyped(run)
      BY <2>12 DEF Work, TypeOK, RunTyped
    <3>2. \E p \in Places :
            \/ run' = [run EXCEPT ![k].pc = p, ![k].ok = TRUE]
            \/ \E e \in Errors :
                 run' = [run EXCEPT ![k].pc = p, ![k].err = e]
      BY <2>12 DEF Work, Places, Errors
    <3>3. RunTyped(run')
      BY <3>1, <3>2, RunReturns, RunFails
    <3>4. QED
      BY <2>12, <3>3 DEF Work, TypeOK, RunTyped, bounds
  <2>13. ASSUME NEW k \in Keys, Complete(k) PROVE TypeOK'
    <3>1. run[k].pc # "free" /\ RunTyped(run)
      BY <2>13 DEF Complete, TypeOK, RunTyped
    <3>2. \/ row' = [row EXCEPT ![run[k].task].state = "gone"]
          \/ row' = row
      BY <2>13 DEF Complete
    <3>3. row' \in [Tasks -> Row]
      <4>1. run[k].task \in Tasks /\ row \in [Tasks -> Row]
        BY <3>1 DEF TypeOK, RunTyped
      <4>2. [row EXCEPT ![run[k].task].state = "gone"] \in [Tasks -> Row]
        BY <4>1, RowState
      <4>3. QED
        BY <3>2, <4>1, <4>2
    <3>4. \E p \in Places :
            \/ run' = [run EXCEPT ![k].pc = p]
            \/ \E e \in Errors :
                 run' = [run EXCEPT ![k].pc = p, ![k].err = e]
      BY <2>13 DEF Complete, Places, Errors
    <3>5. RunTyped(run')
      BY <3>1, <3>4, RunPlace, RunFails
    <3>6. QED
      BY <2>13, <3>3, <3>5 DEF Complete, TypeOK, RunTyped, bounds
  <2>14. ASSUME NEW k \in Keys, Join(k) PROVE TypeOK'
    <3>1. run[k].pc # "free" /\ RunTyped(run)
      BY <2>14 DEF Join, TypeOK, RunTyped
    <3>2. PICK p \in Places, e \in Errors :
            run' = [run EXCEPT ![k].err = e, ![k].pc = p]
      BY <2>14, Fields DEF Join, Places, Errors
    <3>3. RunTyped(run')
      <4>1. RunTyped([run EXCEPT ![k].err = e, ![k].pc = p])
        BY <3>1, RunJoins
      <4>2. QED
        BY <3>2, <4>1
    <3>4. QED
      BY <2>14, <3>3 DEF Join, TypeOK, RunTyped, bounds
  <2>15. ASSUME NEW k \in Keys, Record(k) PROVE TypeOK'
    <3>1. run[k].task \in Tasks /\ run[k].prio + 1 \in Nat
      BY <2>15, Fields DEF Record, TypeOK
    <3>2. Settle(k) \in [Tasks -> Row]
      BY <3>1, RowState, RowWhole DEF Settle, Requeue, TypeOK
    <3>3. run[k].pc # "free" /\ RunTyped(run)
      BY <2>15 DEF Record, TypeOK, RunTyped
    <3>4. run' = [run EXCEPT ![k].pc = "unlock"] /\ "unlock" \in Places
      BY <2>15 DEF Record, Places
    <3>5. RunTyped(run')
      <4>1. RunTyped([run EXCEPT ![k].pc = "unlock"])
        BY <3>3, <3>4, RunPlace
      <4>2. QED
        BY <3>4, <4>1
    <3>6. QED
      BY <2>15, <3>2, <3>5 DEF Record, TypeOK, RunTyped, bounds
  <2>16. ASSUME NEW k \in Keys, Unlock(k) PROVE TypeOK'
    <3>1. CASE running[run[k].task].key = k
      <4>1. run[k].task \in Tasks
        BY <2>16 DEF Unlock, TypeOK
      <4>2. running' \in [Tasks -> Entry]
        BY <2>16, <3>1 DEF Unlock, TypeOK, Entry, NoEntry
      <4>3. run' \in [Keys -> Run] /\ run' = [run EXCEPT ![k] = NoRun]
        BY <2>16, <3>1, NoRunType DEF Unlock, TypeOK
      <4>4. used' \in Int
        <5>1. running[run[k].task].weight \in Nat
          BY <4>1, Fields
        <5>2. used \in Int
          BY DEF TypeOK
        <5>3. used' = used - running[run[k].task].weight
          BY <2>16, <3>1 DEF Unlock
        <5>4. QED
          BY <5>1, <5>2, <5>3
      <4>5. NoRun.pc = "free"
        BY DEF NoRun
      <4>6. QED
        BY <2>16, <3>1, <4>2, <4>3, <4>4, <4>5 DEF Unlock, TypeOK, bounds
    <3>2. CASE running[run[k].task].key # k
      BY <2>16, <3>2, MemoryType DEF Unlock, TypeOK, bounds
    <3>3. QED
      BY <3>1, <3>2
  <2>17. ASSUME NEW k \in Keys, Reweigh(k) PROVE TypeOK'
    <3>1. run[k].task \in Tasks
      BY <2>17 DEF Reweigh, TypeOK
    <3>2. PICK w \in Learns[run[k].task] :
            /\ used' = used + w - running[run[k].task].weight
            /\ running' = [running EXCEPT ![run[k].task].weight = w]
            /\ signal' = (signal \/ w < running[run[k].task].weight)
      BY <2>17 DEF Reweigh
    <3>3. w \in Nat
      BY <3>1, <3>2
    <3>4. running' \in [Tasks -> Entry]
      BY <3>1, <3>2, <3>3 DEF TypeOK, Entry
    <3>5. used' \in Int
      BY <3>1, <3>2, <3>3, Fields DEF TypeOK
    <3>6. signal' \in BOOLEAN
      BY <3>2 DEF TypeOK
    <3>7. QED
      BY <2>17, <3>4, <3>5, <3>6 DEF Reweigh, TypeOK, bounds
  <2>18. CASE Crash
    BY <2>18, MemoryType DEF Crash, TypeOK
  <2>19. CASE Restart
    <3>1. row' \in [Tasks -> Row]
      BY <2>19 DEF Restart, TypeOK, Row
    <3>2. QED
      BY <2>19, <3>1, MemoryType DEF Restart, TypeOK, bounds
  <2>20. CASE UNCHANGED vars
    BY <2>20 DEF vars, TypeOK
  <2>21. QED
    BY <2>1, <2>2, <2>3, <2>4, <2>5, <2>6, <2>7, <2>8, <2>9, <2>10, <2>11,
       <2>12, <2>13, <2>14, <2>15, <2>16, <2>17, <2>18, <2>19, <2>20
       DEF Next, Dispatch, Execute
<1>3. QED
  BY <1>1, <1>2, PTL DEF Spec

-----------------------------------------------------------------------------
(* The lock structure.  Executions and entries of the lock table are in    *)
(* one-to-one correspondence, and a task that has an entry, or that the    *)
(* dispatcher has chosen, cannot be offered by TaskNext again.  The last   *)
(* is where Overlap matters.                                               *)

HoldsEntry ==
  \A k \in Keys : run[k].pc # "free" => running[run[k].task].key = k
EntryHeld ==
  \A t \in Tasks : running[t].key # NoKey =>
    run[running[t].key].pc # "free" /\ run[running[t].key].task = t
HeldNotDue ==
  \A t \in Tasks : running[t].key # NoKey =>
    row[t].state # "new" /\ ~(row[t].state = "queued" /\ row[t].due)
CandidateFree ==
  disp.pc \in {"lock", "insert"} =>
    running[disp.task].key = NoKey /\ row[disp.task].state # "new"
ClaimedRow ==
  disp.pc = "insert" => row[disp.task].state \in {"running", "gone"}
ActiveRow ==
  \A k \in Keys : run[k].pc \notin {"free", "unlock"} =>
    row[run[k].task].state \in {"running", "gone"}
DownIsEmpty ==
  disp.pc = "down" => \A k \in Keys : run[k].pc = "free"

LockInv ==
  /\ ~panicked
  /\ HoldsEntry /\ EntryHeld /\ HeldNotDue
  /\ CandidateFree /\ ClaimedRow /\ ActiveRow /\ DownIsEmpty

(* A row outside the lock table and not chosen by the dispatcher may take  *)
(* any value.                                                              *)
LEMMA LockRow ==
  ASSUME TypeOK, LockInv, NEW t \in Tasks, NEW r \in Row,
         row' = [row EXCEPT ![t] = r],
         \/ r.state = "gone" /\ row[t].state # "new"
         \/ /\ running[t].key = NoKey
            /\ disp.pc \in {"lock", "insert"} => disp.task # t
         \/ /\ running[t].key = NoKey
            /\ disp.pc = "lock"
            /\ r.state # "new",
         UNCHANGED <<disp, running, run, panicked>>
  PROVE  LockInv'
  <1>1. row'[t] = r /\ \A u \in Tasks \ {t} : row'[u] = row[u]
    BY DEF TypeOK
  <1>2. HoldsEntry' /\ EntryHeld' /\ DownIsEmpty' /\ ~panicked'
    BY DEF LockInv, HoldsEntry, EntryHeld, DownIsEmpty
  <1>3. HeldNotDue'
    BY <1>1 DEF LockInv, HeldNotDue
  <1>4. CandidateFree' /\ ClaimedRow'
    BY <1>1 DEF LockInv, CandidateFree, ClaimedRow, TypeOK
  <1>5. ActiveRow'
    <2> SUFFICES ASSUME NEW k \in Keys, run[k].pc \notin {"free", "unlock"}
                 PROVE  row'[run[k].task].state \in {"running", "gone"}
      BY DEF ActiveRow
    <2>1. run[k].task \in Tasks /\ running[run[k].task].key = k
      BY DEF LockInv, HoldsEntry, TypeOK
    <2>2. row[run[k].task].state \in {"running", "gone"}
      BY DEF LockInv, ActiveRow
    <2>3. QED
      BY <1>1, <2>1, <2>2
  <1>6. QED
    BY <1>2, <1>3, <1>4, <1>5 DEF LockInv

(* Steps of the dispatcher other than TaskNext's choice and Insert.        *)
LEMMA LockGoto ==
  ASSUME LockInv, disp'.pc \in {"select", "admit", "next"},
         UNCHANGED <<row, running, run, panicked>>
  PROVE  LockInv'
  BY DEF LockInv, HoldsEntry, EntryHeld, HeldNotDue, CandidateFree,
         ClaimedRow, ActiveRow, DownIsEmpty

(* An execution moves on without touching its row.                         *)
LEMMA LockMove ==
  ASSUME TypeOK, LockInv, NEW k \in Keys, run[k].pc # "free",
         NEW r \in Run, r.pc # "free", r.task = run[k].task,
         run[k].pc = "unlock" => r.pc = "unlock",
         run' = [run EXCEPT ![k] = r],
         UNCHANGED <<row, disp, running, panicked>>
  PROVE  LockInv'
  <1>1. run'[k] = r /\ \A j \in Keys \ {k} : run'[j] = run[j]
    BY DEF TypeOK
  <1>2. HoldsEntry' /\ EntryHeld'
    BY <1>1, Fields DEF LockInv, HoldsEntry, EntryHeld
  <1>3. HeldNotDue' /\ CandidateFree' /\ ClaimedRow' /\ ~panicked'
    BY DEF LockInv, HeldNotDue, CandidateFree, ClaimedRow
  <1>4. ActiveRow'
    BY <1>1 DEF LockInv, ActiveRow
  <1>5. DownIsEmpty'
    BY <1>1 DEF LockInv, DownIsEmpty
  <1>6. QED
    BY <1>2, <1>3, <1>4, <1>5 DEF LockInv

(* The loss of the memory, with or without the reset of the rows.          *)
LEMMA LockMemory ==
  ASSUME NEW p \in {"select", "down"}, Memory(p), ~panicked'
  PROVE  LockInv'
  BY DEF Memory, NoRun, NoEntry, LockInv, HoldsEntry, EntryHeld, HeldNotDue,
         CandidateFree, ClaimedRow, ActiveRow, DownIsEmpty

LEMMA LockNext ==
  ASSUME TypeOK, LockInv, TaskNext
  PROVE  LockInv'
  <1>1. CASE candidates = {}
    <2>1. disp'.pc = "select"
      BY <1>1 DEF TaskNext, Goto, TypeOK, Dispatcher
    <2>2. QED
      BY <2>1, LockGoto DEF TaskNext
  <1>2. CASE candidates # {}
    <2>1. PICK t \in candidates :
            disp' = [pc |-> "lock", task |-> t, prio |-> row[t].prio]
      BY <1>2 DEF TaskNext
    <2>2. t \in Tasks /\ row[t].state = "queued" /\ row[t].due
      BY DEF candidates
    <2>3. running[t].key = NoKey
      BY <2>2 DEF LockInv, HeldNotDue
    <2>4. UNCHANGED <<row, running, run, panicked>>
      BY DEF TaskNext
    <2>5. CandidateFree' /\ ClaimedRow' /\ DownIsEmpty'
      BY <2>1, <2>2, <2>3, <2>4 DEF CandidateFree, ClaimedRow, DownIsEmpty
    <2>6. HoldsEntry' /\ EntryHeld' /\ HeldNotDue' /\ ActiveRow' /\ ~panicked'
      BY <2>4 DEF LockInv, HoldsEntry, EntryHeld, HeldNotDue, ActiveRow
    <2>7. QED
      BY <2>5, <2>6 DEF LockInv
  <1>3. QED
    BY <1>1, <1>2

LEMMA LockClaim ==
  ASSUME TypeOK, LockInv, TaskLock
  PROVE  LockInv'
  <1> DEFINE t == disp.task
  <1>1. t \in Tasks /\ running[t].key = NoKey /\ row[t].state # "new"
    BY DEF TaskLock, TypeOK, LockInv, CandidateFree
  <1>2. UNCHANGED <<running, run, panicked>>
    BY DEF TaskLock
  <1>3. CASE row' = row /\ disp'.pc = "admit"
    BY <1>2, <1>3, LockGoto
  <1>4. CASE /\ row' = [row EXCEPT ![t].state = "running"]
             /\ disp' = [disp EXCEPT !.pc = "insert"]
    <2>1. row'[t].state = "running" /\ \A u \in Tasks \ {t} : row'[u] = row[u]
      BY <1>1, <1>4 DEF TypeOK, Row
    <2>2. disp'.pc = "insert" /\ disp'.task = t
      BY <1>4 DEF TypeOK, Dispatcher
    <2>3. HoldsEntry' /\ EntryHeld' /\ DownIsEmpty' /\ ~panicked'
      BY <1>2, <2>2 DEF LockInv, HoldsEntry, EntryHeld, DownIsEmpty
    <2>4. HeldNotDue'
      BY <1>1, <1>2, <2>1 DEF LockInv, HeldNotDue
    <2>5. CandidateFree' /\ ClaimedRow'
      BY <1>1, <1>2, <2>1, <2>2 DEF CandidateFree, ClaimedRow
    <2>6. ActiveRow'
      <3> SUFFICES ASSUME NEW k \in Keys, run[k].pc \notin {"free", "unlock"}
                   PROVE  row'[run[k].task].state \in {"running", "gone"}
        BY <1>2 DEF ActiveRow
      <3>1. run[k].task \in Tasks /\ running[run[k].task].key = k
        BY DEF LockInv, HoldsEntry, TypeOK
      <3>2. row[run[k].task].state \in {"running", "gone"}
        BY DEF LockInv, ActiveRow
      <3>3. QED
        BY <2>1, <3>1, <3>2
    <2>7. QED
      BY <2>3, <2>4, <2>5, <2>6 DEF LockInv
  <1>5. QED
    <2>1. \/ row' = row /\ disp' = [disp EXCEPT !.pc = "admit"]
          \/ /\ row' = [row EXCEPT ![t].state = "running"]
             /\ disp' = [disp EXCEPT !.pc = "insert"]
      BY DEF TaskLock, Goto
    <2>2. [disp EXCEPT !.pc = "admit"].pc = "admit"
      BY DEF TypeOK, Dispatcher
    <2>3. QED
      BY <1>3, <1>4, <2>1, <2>2

LEMMA LockInsert ==
  ASSUME TypeOK, LockInv, Insert
  PROVE  LockInv'
  <1> DEFINE t == disp.task
             r == [NoRun EXCEPT !.pc = "start", !.task = t, !.prio = disp.prio]
  <1>1. /\ t \in Tasks /\ running[t].key = NoKey
        /\ row[t].state \in {"running", "gone"}
    BY DEF Insert, TypeOK, LockInv, CandidateFree, ClaimedRow
  <1>2. PICK k \in Keys \ live :
          /\ running' = [running EXCEPT ![t] =
                           [key |-> k, weight |-> Weight[t]]]
          /\ run' = [run EXCEPT ![k] = r]
    BY DEF Insert
  <1>3. r.pc = "start" /\ r.task = t
    BY DEF NoRun
  <1> HIDE DEF r
  <1>4. /\ running'[t].key = k
        /\ \A u \in Tasks \ {t} : running'[u] = running[u]
    BY <1>1, <1>2 DEF TypeOK
  <1>5. run'[k] = r /\ \A j \in Keys \ {k} : run'[j] = run[j]
    BY <1>2 DEF TypeOK
  <1>6. run[k].pc = "free"
    BY <1>2 DEF live
  <1>7. disp'.pc = "admit" /\ row' = row /\ panicked' = panicked
    BY DEF Insert, Goto, TypeOK, Dispatcher
  <1>8. HoldsEntry'
    <2> SUFFICES ASSUME NEW j \in Keys, run'[j].pc # "free"
                 PROVE  running'[run'[j].task].key = j
      BY DEF HoldsEntry
    <2>1. CASE j = k
      BY <2>1, <1>3, <1>4, <1>5
    <2>2. CASE j # k
      <3>1. run'[j] = run[j] /\ run[j].task \in Tasks
        BY <2>2, <1>5 DEF TypeOK
      <3>2. running[run[j].task].key = j
        BY <3>1 DEF LockInv, HoldsEntry
      <3>3. run[j].task # t
        BY <3>2, <1>1
      <3>4. QED
        BY <3>1, <3>2, <3>3, <1>4
    <2>3. QED
      BY <2>1, <2>2
  <1>9. EntryHeld'
    <2> SUFFICES ASSUME NEW u \in Tasks, running'[u].key # NoKey
                 PROVE  /\ run'[running'[u].key].pc # "free"
                        /\ run'[running'[u].key].task = u
      BY DEF EntryHeld
    <2>1. CASE u = t
      BY <2>1, <1>2, <1>3, <1>4, <1>5
    <2>2. CASE u # t
      <3>1. running'[u] = running[u] /\ running[u].key \in Keys
        BY <2>2, <1>4, Fields
      <3>2. run[running[u].key].pc # "free" /\ run[running[u].key].task = u
        BY <3>1 DEF LockInv, EntryHeld
      <3>3. QED
        BY <3>1, <3>2, <1>5, <1>6
    <2>3. QED
      BY <2>1, <2>2
  <1>10. HeldNotDue'
    BY <1>1, <1>4, <1>7 DEF LockInv, HeldNotDue
  <1>11. CandidateFree' /\ ClaimedRow' /\ DownIsEmpty' /\ ~panicked'
    BY <1>7 DEF LockInv, CandidateFree, ClaimedRow, DownIsEmpty
  <1>12. ActiveRow'
    BY <1>1, <1>3, <1>5, <1>7 DEF LockInv, ActiveRow
  <1>13. QED
    BY <1>8, <1>9, <1>10, <1>11, <1>12 DEF LockInv

(* An execution writes the row of the task it holds.                       *)
LEMMA LockSettle ==
  ASSUME TypeOK, LockInv, NEW k \in Keys, run[k].pc # "free",
         NEW q \in Row, NEW r \in Run,
         row' = [row EXCEPT ![run[k].task] = q],
         run' = [run EXCEPT ![k] = r],
         r.pc # "free", r.task = run[k].task,
         q.state # "new", ~(q.state = "queued" /\ q.due),
         r.pc = "unlock" \/ q.state \in {"running", "gone"},
         UNCHANGED <<disp, running, panicked>>
  PROVE  LockInv'
  <1> DEFINE t == run[k].task
  <1>1. t \in Tasks /\ running[t].key = k
    BY DEF LockInv, HoldsEntry, TypeOK
  <1>2. row'[t] = q /\ \A u \in Tasks \ {t} : row'[u] = row[u]
    BY <1>1 DEF TypeOK
  <1>3. run'[k] = r /\ \A j \in Keys \ {k} : run'[j] = run[j]
    BY DEF TypeOK
  <1>4. HoldsEntry' /\ EntryHeld'
    <2>1. \A j \in Keys : /\ run'[j].task = run[j].task
                          /\ run'[j].pc = "free" <=> run[j].pc = "free"
      BY <1>3
    <2>2. HoldsEntry'
      BY <2>1 DEF LockInv, HoldsEntry
    <2>3. \A u \in Tasks : running[u].key # NoKey => running[u].key \in Keys
      BY Fields
    <2>4. EntryHeld'
      BY <2>1, <2>3 DEF LockInv, EntryHeld
    <2>5. QED
      BY <2>2, <2>4
  <1>5. HeldNotDue'
    <2> SUFFICES ASSUME NEW u \in Tasks, running'[u].key # NoKey
                 PROVE  row'[u].state # "new" /\ ~(row'[u].state = "queued" /\ row'[u].due)
      BY DEF HeldNotDue
    <2>1. CASE u = t
      <3>1. row'[u] = q
        BY <1>2, <2>1
      <3>2. QED
        BY <3>1
    <2>2. CASE u # t
      <3>1. row'[u] = row[u] /\ running[u].key # NoKey
        BY <1>2, <2>2
      <3>2. row[u].state # "new" /\ ~(row[u].state = "queued" /\ row[u].due)
        BY <3>1 DEF LockInv, HeldNotDue
      <3>3. QED
        BY <3>1, <3>2
    <2>3. QED
      BY <2>1, <2>2
  <1>6. CandidateFree' /\ ClaimedRow'
    <2>1. disp.pc \in {"lock", "insert"} => disp.task \in Tasks \ {t}
      BY <1>1 DEF LockInv, CandidateFree, TypeOK
    <2>2. QED
      BY <1>2, <2>1 DEF LockInv, CandidateFree, ClaimedRow
  <1>7. ActiveRow'
    <2> SUFFICES ASSUME NEW j \in Keys, run'[j].pc \notin {"free", "unlock"}
                 PROVE  row'[run'[j].task].state \in {"running", "gone"}
      BY DEF ActiveRow
    <2>1. CASE j = k
      BY <2>1, <1>2, <1>3
    <2>2. CASE j # k
      <3>1. /\ run'[j] = run[j] /\ run[j].task \in Tasks
            /\ running[run[j].task].key = j
        BY <2>2, <1>3 DEF LockInv, HoldsEntry, TypeOK
      <3>2. run[j].task # t
        BY <3>1, <2>2, <1>1
      <3>3. QED
        BY <3>1, <3>2, <1>2 DEF LockInv, ActiveRow
    <2>3. QED
      BY <2>1, <2>2
  <1>8. DownIsEmpty' /\ ~panicked'
    BY DEF LockInv, DownIsEmpty
  <1>9. QED
    BY <1>4, <1>5, <1>6, <1>7, <1>8 DEF LockInv

LEMMA LockUnlock ==
  ASSUME TypeOK, LockInv, NEW k \in Keys, Unlock(k)
  PROVE  LockInv'
  <1> DEFINE t == run[k].task
  <1>1. t \in Tasks /\ running[t].key = k
    BY DEF Unlock, LockInv, HoldsEntry, TypeOK
  <1>2. /\ running' = [running EXCEPT ![t] = NoEntry]
        /\ run' = [run EXCEPT ![k] = NoRun]
        /\ UNCHANGED <<row, disp, panicked>>
    BY <1>1 DEF Unlock
  <1>3. running'[t].key = NoKey /\ \A u \in Tasks \ {t} : running'[u] = running[u]
    BY <1>1, <1>2 DEF TypeOK, NoEntry
  <1>4. run'[k].pc = "free" /\ \A j \in Keys \ {k} : run'[j] = run[j]
    BY <1>2 DEF TypeOK, NoRun
  <1>5. HoldsEntry'
    <2> SUFFICES ASSUME NEW j \in Keys, run'[j].pc # "free"
                 PROVE  running'[run'[j].task].key = j
      BY DEF HoldsEntry
    <2>1. j # k /\ run'[j] = run[j] /\ run[j].task \in Tasks
      BY <1>4 DEF TypeOK
    <2>2. running[run[j].task].key = j
      BY <2>1 DEF LockInv, HoldsEntry
    <2>3. QED
      BY <2>1, <2>2, <1>1, <1>3
  <1>6. EntryHeld'
    <2> SUFFICES ASSUME NEW u \in Tasks, running'[u].key # NoKey
                 PROVE  /\ run'[running'[u].key].pc # "free"
                        /\ run'[running'[u].key].task = u
      BY DEF EntryHeld
    <2>1. u # t /\ running'[u] = running[u] /\ running[u].key \in Keys
      BY <1>3, Fields
    <2>2. run[running[u].key].pc # "free" /\ run[running[u].key].task = u
      BY <2>1 DEF LockInv, EntryHeld
    <2>3. QED
      BY <2>1, <2>2, <1>4
  <1>7. HeldNotDue' /\ CandidateFree' /\ ClaimedRow'
    BY <1>1, <1>2, <1>3
       DEF LockInv, HeldNotDue, CandidateFree, ClaimedRow, TypeOK
  <1>8. ActiveRow' /\ DownIsEmpty' /\ ~panicked'
    BY <1>2, <1>4 DEF LockInv, ActiveRow, DownIsEmpty
  <1>9. QED
    BY <1>5, <1>6, <1>7, <1>8 DEF LockInv

LEMMA LockReweigh ==
  ASSUME TypeOK, LockInv, NEW k \in Keys, Reweigh(k)
  PROVE  LockInv'
  <1>1. \A u \in Tasks : running'[u].key = running[u].key
    <2>1. PICK w \in Learns[run[k].task] :
            running' = [running EXCEPT ![run[k].task].weight = w]
      BY DEF Reweigh
    <2>2. QED
      BY <2>1 DEF TypeOK, Entry
  <1>2. UNCHANGED <<row, disp, run, panicked>>
    BY DEF Reweigh
  <1>3. HoldsEntry' /\ EntryHeld' /\ HeldNotDue' /\ CandidateFree'
    BY <1>1, <1>2
       DEF LockInv, HoldsEntry, EntryHeld, HeldNotDue, CandidateFree, TypeOK
  <1>4. ClaimedRow' /\ ActiveRow' /\ DownIsEmpty' /\ ~panicked'
    BY <1>2 DEF LockInv, ClaimedRow, ActiveRow, DownIsEmpty
  <1>5. QED
    BY <1>3, <1>4 DEF LockInv

LEMMA LockStep ==
  ASSUME ~Overlap, TypeOK, TypeOK', LockInv, [Next]_vars
  PROVE  LockInv'
  <1>1. ASSUME NEW t \in Tasks,
               AddTask(t) \/ TimePasses(t) \/ RunTaskNow(t) \/ TaskDelete(t)
        PROVE  LockInv'
    <2>1. row' = [row EXCEPT ![t] = row'[t]] /\ row'[t] \in Row
      BY <1>1 DEF AddTask, TimePasses, RunTaskNow, TaskDelete, TypeOK
    <2>2. UNCHANGED <<disp, running, run, panicked>>
      BY <1>1 DEF AddTask, TimePasses, RunTaskNow, TaskDelete, bounds
    <2>3. CASE AddTask(t)
      <3>1. row[t].state = "new"
        BY <2>3 DEF AddTask
      <3>2. running[t].key = NoKey
        BY <3>1 DEF LockInv, HeldNotDue
      <3>3. disp.pc \in {"lock", "insert"} => disp.task # t
        BY <3>1 DEF LockInv, CandidateFree
      <3>4. QED
        BY <2>1, <2>2, <3>2, <3>3, LockRow
    <2>4. CASE TimePasses(t)
      <3>1. running[t].key = NoKey /\ row[t].state = "queued"
        BY <2>4 DEF TimePasses
      <3>2. row'[t].state = "queued"
        BY <2>4 DEF TimePasses, TypeOK, Row
      <3>3. disp.pc = "insert" => disp.task # t
        BY <3>1 DEF LockInv, ClaimedRow
      <3>4. disp.pc \in {"lock", "insert"} => disp.task # t \/ disp.pc = "lock"
        BY <3>3
      <3>5. QED
        BY <2>1, <2>2, <3>1, <3>2, <3>4, LockRow
    <2>5. CASE RunTaskNow(t)
      <3>1. running[t].key = NoKey /\ row[t].state \in {"queued", "failed"}
        BY <2>5 DEF RunTaskNow, exists
      <3>2. row'[t].state = "queued"
        BY <2>5 DEF RunTaskNow, TypeOK, Row
      <3>3. disp.pc = "insert" => disp.task # t
        BY <3>1 DEF LockInv, ClaimedRow
      <3>4. disp.pc \in {"lock", "insert"} => disp.task # t \/ disp.pc = "lock"
        BY <3>3
      <3>5. QED
        BY <2>1, <2>2, <3>1, <3>2, <3>4, LockRow
    <2>6. CASE TaskDelete(t)
      <3>1. row[t].state # "new"
        BY <2>6 DEF TaskDelete, exists
      <3>2. row'[t].state = "gone"
        BY <2>6 DEF TaskDelete, TypeOK, Row
      <3>3. QED
        BY <2>1, <2>2, <3>1, <3>2, LockRow
    <2>7. QED
      BY <1>1, <2>3, <2>4, <2>5, <2>6
  <1>2. ASSUME NEW t \in Tasks, KillTask(t) PROVE LockInv'
    <2> DEFINE k == running[t].key
    <2>1. k \in Keys /\ run[k].pc # "free"
      BY <1>2, Fields DEF KillTask, LockInv, EntryHeld
    <2>2. /\ run' = [run EXCEPT ![k] = run'[k]] /\ run'[k] \in Run
          /\ run'[k].pc = run[k].pc /\ run'[k].task = run[k].task
      <3> DEFINE b == run[k].killed \/ run[k].pc \notin {"record", "unlock"}
      <3>1. run' = [run EXCEPT ![k].killed = b]
        BY <1>2 DEF KillTask
      <3> HIDE DEF b, k
      <3>2. run'[k].pc = run[k].pc /\ run'[k].task = run[k].task
        BY <2>1, <3>1 DEF TypeOK, Run
      <3>3. QED
        BY <2>1, <3>1, <3>2 DEF TypeOK
    <2>3. UNCHANGED <<row, disp, running, panicked>>
      BY <1>2 DEF KillTask
    <2> HIDE DEF k
    <2>4. QED
      BY <2>1, <2>2, <2>3, LockMove
  <1>3. ASSUME Wake \/ CanAdmit PROVE LockInv'
    <2>1. disp'.pc \in {"select", "admit", "next"}
      BY <1>3 DEF Wake, CanAdmit, Goto, TypeOK, Dispatcher
    <2>2. QED
      BY <1>3, <2>1, LockGoto DEF Wake, CanAdmit
  <1>4. ASSUME NEW k \in Keys, Start(k) \/ Work(k) \/ Join(k) PROVE LockInv'
    <2>1. run[k].pc \notin {"free", "unlock"}
      BY <1>4 DEF Start, Work, Join
    <2>2. run' = [run EXCEPT ![k] = run'[k]] /\ run'[k] \in Run
      BY <1>4 DEF Start, Work, Join, TypeOK
    <2>3. run'[k].pc # "free" /\ run'[k].task = run[k].task
      <3>1. CASE Start(k)
        <4>1. PICK p \in {"work", "join"} : run' = [run EXCEPT ![k].pc = p]
          BY <3>1 DEF Start
        <4>2. QED
          BY <4>1 DEF TypeOK, Run
      <3>2. CASE Work(k)
        BY <3>2 DEF Work, TypeOK, Run
      <3>3. CASE Join(k)
        <4>1. PICK p \in {"unlock", "record"}, e \in Errors :
                run' = [run EXCEPT ![k].err = e, ![k].pc = p]
          BY <3>3, Fields DEF Join, Errors
        <4>2. QED
          BY <4>1 DEF TypeOK, Run
      <3>4. QED
        BY <1>4, <3>1, <3>2, <3>3
    <2>4. UNCHANGED <<row, disp, running, panicked>>
      BY <1>4 DEF Start, Work, Join
    <2>5. QED
      BY <2>1, <2>2, <2>3, <2>4, LockMove
  <1>5. ASSUME NEW k \in Keys, Complete(k) \/ Record(k) PROVE LockInv'
    <2> DEFINE t == run[k].task
    <2>1. run[k].pc \notin {"free", "unlock"} /\ t \in Tasks
      BY <1>5 DEF Complete, Record, TypeOK
    <2>2. run' = [run EXCEPT ![k] = run'[k]] /\ run'[k] \in Run
      BY <1>5 DEF Complete, Record, TypeOK
    <2>3. /\ run'[k].pc # "free" /\ run'[k].task = t
          /\ Record(k) => run'[k].pc = "unlock"
      BY <1>5 DEF Complete, Record, TypeOK, Run
    <2>4. row' = [row EXCEPT ![t] = row'[t]] /\ row'[t] \in Row
      BY <1>5, <2>1 DEF Complete, Record, Settle, Requeue, TypeOK
    <2>5. row[t].state \in {"running", "gone"}
      BY <2>1 DEF LockInv, ActiveRow
    <2>6. /\ row'[t].state # "new"
          /\ ~(row'[t].state = "queued" /\ row'[t].due)
          /\ Complete(k) => row'[t].state \in {"running", "gone"}
      BY <1>5, <2>1, <2>5
         DEF Complete, Record, Settle, Requeue, exists, TypeOK, Row
    <2>7. UNCHANGED <<disp, running, panicked>>
      BY <1>5 DEF Complete, Record
    <2>8. run'[k].pc = "unlock" \/ row'[t].state \in {"running", "gone"}
      BY <1>5, <2>3, <2>6
    <2>9. QED
      BY <2>1, <2>2, <2>3, <2>4, <2>6, <2>7, <2>8, LockSettle
  <1>6. CASE Crash \/ Restart
    BY <1>6, LockMemory DEF Crash, Restart, LockInv
  <1>7. CASE UNCHANGED vars
    BY <1>7 DEF vars, LockInv, HoldsEntry, EntryHeld, HeldNotDue,
                CandidateFree, ClaimedRow, ActiveRow, DownIsEmpty
  <1>8. QED
    BY <1>1, <1>2, <1>3, <1>4, <1>5, <1>6, <1>7, LockNext, LockClaim,
       LockInsert, LockUnlock, LockReweigh
       DEF Next, Dispatch, Execute

(* As long as no click and no expired delay lands on a task whose last run *)
(* is not unlocked, unlock never panics with "bad lock structure".         *)
THEOREM LockStructure ==
  ASSUME ~Overlap
  PROVE  Spec => []NoLockPanic
<1>1. ASSUME Init PROVE LockInv
  BY <1>1 DEF Init, NoEntry, NoRun, LockInv, HoldsEntry, EntryHeld,
     HeldNotDue, CandidateFree, ClaimedRow, ActiveRow, DownIsEmpty
<1>2. ASSUME TypeOK, TypeOK', LockInv, [Next]_vars
      PROVE  LockInv'
  BY <1>2, LockStep
<1>3. LockInv => NoLockPanic
  BY DEF LockInv, NoLockPanic
<1>4. QED
  BY <1>1, <1>2, <1>3, TypeCorrect, PTL DEF Spec

-----------------------------------------------------------------------------
(* Sums over the lock table.  The fold that defines them is a recursive    *)
(* function on the sets of tasks; that it is there, and what it is, is     *)
(* shown of a smallest set of which it would fail.                         *)

LEMMA SmallestSet ==
  ASSUME NEW S, IsFiniteSet(S), NEW C, C \subseteq SUBSET S, C # {}
  PROVE  \E T \in C : \A x \in T : T \ {x} \notin C
  <1> DEFINE R == StrictSubsetOrdering(S)
  <1>1. IsWellFoundedOn(R, SUBSET S)
    BY FS_StrictSubsetOrderingWellFounded, FS_FiniteSubsetsOfFinite
  <1>2. PICK T \in C : \A U \in C : ~(<<U, T>> \in R)
    BY <1>1, WFMin
  <1>3. ASSUME NEW x \in T
        PROVE  T \ {x} \notin C
    <2>1. T \ {x} \in SUBSET S /\ T \in SUBSET S /\ T \ {x} \subseteq T /\ T \ {x} # T
      BY <1>2, <1>3
    <2>2. <<T \ {x}, T>> \in R
      BY <2>1 DEF StrictSubsetOrdering
    <2>3. QED
      BY <1>2, <2>2
  <1>4. QED
    BY <1>2, <1>3

(* g[T]: the weights of the tasks T in the table r, whatever their order.  *)
Sums(g, r, S) ==
    /\ g \in [SUBSET S -> Int] /\ g[{}] = 0
    /\ \A T \in SUBSET S : \A x \in T : g[T] = r[x].weight + g[T \ {x}]

LEMMA SumsGrow ==
  ASSUME NEW S \in SUBSET Tasks, NEW x \in S, NEW r \in [Tasks -> Entry],
         NEW g, Sums(g, r, S \ {x})
  PROVE  \E h : Sums(h, r, S)
  <1> DEFINE h == [T \in SUBSET S |->
                     IF x \in T THEN r[x].weight + g[T \ {x}] ELSE g[T]]
  <1>1. /\ \A T \in SUBSET S : T \ {x} \in SUBSET (S \ {x})
        /\ \A T \in SUBSET S : x \notin T => T \in SUBSET (S \ {x})
        /\ \A y \in S : r[y].weight \in Int
    BY DEF Entry
  <1>2. h \in [SUBSET S -> Int]
    BY <1>1 DEF Sums
  <1>3. h[{}] = 0
    BY DEF Sums
  <1>4. ASSUME NEW T \in SUBSET S, NEW y \in T
        PROVE  h[T] = r[y].weight + h[T \ {y}]
    <2>1. T \ {y} \in SUBSET S /\ r[y].weight \in Int /\ r[x].weight \in Int
      BY <1>1
    <2>2. CASE y = x
      BY <1>1, <2>1, <2>2 DEF Sums
    <2>3. CASE y # x /\ x \notin T
      <3>1. T \in SUBSET (S \ {x}) /\ x \notin T \ {y}
        BY <2>3
      <3>2. g[T] = r[y].weight + g[T \ {y}]
        BY <3>1 DEF Sums
      <3>3. QED
        BY <2>1, <3>1, <3>2, <2>3
    <2>4. CASE y # x /\ x \in T
      <3> DEFINE U == T \ {x}
      <3>1. U \in SUBSET (S \ {x}) /\ y \in U /\ (T \ {y}) \ {x} = U \ {y}
        BY <2>4
      <3>2. g[U] = r[y].weight + g[U \ {y}]
        BY <3>1 DEF Sums
      <3>3. U \ {y} \in SUBSET (S \ {x}) /\ g[U \ {y}] \in Int
        BY <3>1 DEF Sums
      <3>4. h[T] = r[x].weight + g[U] /\ h[T \ {y}] = r[x].weight + g[U \ {y}]
        BY <2>1, <2>4, <3>1
      <3> HIDE DEF U, h
      <3>5. QED
        BY <2>1, <3>2, <3>3, <3>4
    <2>5. QED
      BY <2>2, <2>3, <2>4
  <1> HIDE DEF h
  <1>5. QED
    BY <1>2, <1>3, <1>4 DEF Sums

LEMMA SumsExist ==
  ASSUME IsFiniteSet(Tasks), NEW r \in [Tasks -> Entry]
  PROVE  \E g : Sums(g, r, Tasks)
  <1> DEFINE C == {S \in SUBSET Tasks : ~\E g : Sums(g, r, S)}
  <1> SUFFICES ASSUME C # {} PROVE FALSE
    OBVIOUS
  <1>0. C \subseteq SUBSET Tasks
    OBVIOUS
  <1> HIDE DEF C
  <1>1. PICK S \in C : \A x \in S : S \ {x} \notin C
    BY <1>0, SmallestSet
  <1> USE DEF C
  <1>2. CASE S = {}
    <2>1. Sums([T \in SUBSET {} |-> 0], r, {})
      BY DEF Sums
    <2>2. QED
      BY <1>1, <1>2, <2>1
  <1>3. CASE S # {}
    <2>1. PICK x \in S : TRUE
      BY <1>3
    <2>2. PICK g : Sums(g, r, S \ {x})
      BY <1>1
    <2>3. QED
      BY <1>1, <2>1, <2>2, SumsGrow
  <1>4. QED
    BY <1>2, <1>3

(* The sum of BudgetIsSum.                                                 *)
Held(r) == MapThenSumSet(LAMBDA t : r[t].weight, Tasks)

LEMMA HeldIsSum ==
  ASSUME IsFiniteSet(Tasks), NEW r \in [Tasks -> Entry]
  PROVE  \E g : Sums(g, r, Tasks) /\ Held(r) = g[Tasks]
  <1> DEFINE Chosen(s) == CHOOSE x \in s : TRUE
             Solves(f) == f = [s \in SUBSET Tasks |->
                                 IF s = {} THEN 0
                                 ELSE r[Chosen(s)].weight + f[s \ {Chosen(s)}]]
             f0 == CHOOSE f : Solves(f)
  <1>1. PICK g : Sums(g, r, Tasks)
    BY SumsExist
  <1>2. Solves(g)
    <2>1. \A s \in SUBSET Tasks : s # {} => Chosen(s) \in s
      OBVIOUS
    <2> HIDE DEF Chosen
    <2>2. g = [s \in SUBSET Tasks |-> g[s]]
      BY <1>1 DEF Sums
    <2>3. \A s \in SUBSET Tasks :
            g[s] = IF s = {} THEN 0
                   ELSE r[Chosen(s)].weight + g[s \ {Chosen(s)}]
      BY <1>1, <2>1 DEF Sums
    <2>4. QED
      BY <2>2, <2>3
  <1> HIDE DEF Solves
  <1>3. Solves(f0)
    BY <1>2
  <1> USE DEF Solves
  <1>4. Held(r) = f0[Tasks]
    BY DEF Held, MapThenSumSet, MapThenFoldSet
  <1> HIDE DEF f0
  <1>5. f0[Tasks] = g[Tasks]
    <2> DEFINE C == {s \in SUBSET Tasks : f0[s] # g[s]}
    <2> SUFFICES ASSUME C # {} PROVE FALSE
      OBVIOUS
    <2>0. C \subseteq SUBSET Tasks
      OBVIOUS
    <2> HIDE DEF C
    <2>1. PICK s \in C : \A x \in s : s \ {x} \notin C
      BY <2>0, SmallestSet
    <2> USE DEF C
    <2>2. s # {}
      BY <1>1, <1>3, <2>1 DEF Sums
    <2>3. Chosen(s) \in s
      BY <2>2
    <2> HIDE DEF Chosen
    <2>4. f0[s \ {Chosen(s)}] = g[s \ {Chosen(s)}]
      BY <2>1, <2>3
    <2>5. f0[s] = r[Chosen(s)].weight + f0[s \ {Chosen(s)}]
      BY <1>3, <2>1, <2>2
    <2>6. g[s] = r[Chosen(s)].weight + g[s \ {Chosen(s)}]
      BY <1>1, <2>1, <2>3 DEF Sums
    <2>7. QED
      BY <2>1, <2>4, <2>5, <2>6
  <1>6. QED
    BY <1>1, <1>4, <1>5

(* An entry of another weight changes the sum by the difference.           *)
LEMMA HeldChanges ==
  ASSUME IsFiniteSet(Tasks), NEW r \in [Tasks -> Entry], NEW q \in [Tasks -> Entry],
         NEW t \in Tasks, \A u \in Tasks \ {t} : q[u] = r[u]
  PROVE  Held(q) = Held(r) - r[t].weight + q[t].weight
  <1>1. PICK g : Sums(g, r, Tasks) /\ Held(r) = g[Tasks]
    BY HeldIsSum
  <1>2. PICK h : Sums(h, q, Tasks) /\ Held(q) = h[Tasks]
    BY HeldIsSum
  <1>3. h[Tasks \ {t}] = g[Tasks \ {t}]
    <2> DEFINE C == {S \in SUBSET (Tasks \ {t}) : h[S] # g[S]}
    <2> SUFFICES ASSUME C # {} PROVE FALSE
      OBVIOUS
    <2> DEFINE B == Tasks \ {t}
    <2>0. IsFiniteSet(B) /\ C \subseteq SUBSET B
      BY FS_Subset
    <2> HIDE DEF B, C
    <2>1. PICK S \in C : \A x \in S : S \ {x} \notin C
      BY <2>0, SmallestSet
    <2> USE DEF B, C
    <2>2. S # {}
      BY <1>1, <1>2, <2>1 DEF Sums
    <2>3. PICK x \in S : TRUE
      BY <2>2
    <2>4. h[S \ {x}] = g[S \ {x}] /\ q[x] = r[x]
      BY <2>1, <2>3
    <2>5. h[S] = q[x].weight + h[S \ {x}] /\ g[S] = r[x].weight + g[S \ {x}]
      BY <1>1, <1>2, <2>1, <2>3 DEF Sums
    <2>6. QED
      BY <2>1, <2>4, <2>5
  <1>4. /\ h[Tasks] = q[t].weight + h[Tasks \ {t}]
        /\ g[Tasks] = r[t].weight + g[Tasks \ {t}]
        /\ g[Tasks \ {t}] \in Int
    BY <1>1, <1>2 DEF Sums
  <1>5. r[t].weight \in Int /\ q[t].weight \in Int
    BY DEF Entry
  <1>6. QED
    BY <1>1, <1>2, <1>3, <1>4, <1>5

LEMMA HeldByNone ==
  ASSUME IsFiniteSet(Tasks), NEW r, r = [t \in Tasks |-> NoEntry]
  PROVE  Held(r) = 0
  <1>1. r \in [Tasks -> Entry] /\ \A t \in Tasks : r[t].weight = 0
    BY DEF Entry, NoEntry
  <1>2. PICK g : Sums(g, r, Tasks) /\ Held(r) = g[Tasks]
    BY <1>1, HeldIsSum
  <1>3. g[Tasks] = 0
    <2> DEFINE C == {S \in SUBSET Tasks : g[S] # 0}
    <2> SUFFICES ASSUME C # {} PROVE FALSE
      OBVIOUS
    <2>0. C \subseteq SUBSET Tasks
      OBVIOUS
    <2> HIDE DEF C
    <2>1. PICK S \in C : \A x \in S : S \ {x} \notin C
      BY <2>0, SmallestSet
    <2>2. S \in SUBSET Tasks /\ g[S] # 0 /\ g[{}] = 0
      BY <1>2, <2>1 DEF Sums, C
    <2> USE DEF C
    <2>3. PICK x \in S : TRUE
      BY <2>2
    <2>4. g[S] = r[x].weight + g[S \ {x}] /\ g[S \ {x}] = 0 /\ r[x].weight = 0
      BY <1>1, <1>2, <2>1, <2>3 DEF Sums
    <2>5. QED
      BY <2>1, <2>4
  <1>4. QED
    BY <1>2, <1>3

(* A task without an entry has no weight, so an insertion adds its own.    *)
FreeIsWeightless == \A t \in Tasks : running[t].key = NoKey => running[t].weight = 0

BudgetInv == used = Held(running) /\ FreeIsWeightless

(* One entry changes, and used by the difference.                          *)
LEMMA BudgetChange ==
  ASSUME IsFiniteSet(Tasks), TypeOK, TypeOK', BudgetInv, NEW t \in Tasks, NEW e \in Entry,
         running' = [running EXCEPT ![t] = e], e.key = NoKey => e.weight = 0,
         used' = used + e.weight - running[t].weight
  PROVE  BudgetInv'
  <1>1. running \in [Tasks -> Entry] /\ running' \in [Tasks -> Entry] /\ used \in Int
    BY DEF TypeOK
  <1>2. running'[t] = e /\ \A u \in Tasks \ {t} : running'[u] = running[u]
    BY <1>1
  <1>3. Held(running') = Held(running) - running[t].weight + e.weight
    BY <1>1, <1>2, HeldChanges
  <1>4. running[t].weight \in Int /\ e.weight \in Int
    BY <1>1 DEF Entry
  <1>5. used' = Held(running')
    BY <1>1, <1>3, <1>4 DEF BudgetInv
  <1>6. FreeIsWeightless'
    BY <1>2 DEF BudgetInv, FreeIsWeightless
  <1>7. QED
    BY <1>5, <1>6 DEF BudgetInv

LEMMA BudgetMemory ==
  ASSUME IsFiniteSet(Tasks), NEW p, Memory(p)
  PROVE  BudgetInv'
  BY HeldByNone DEF Memory, BudgetInv, FreeIsWeightless, NoEntry

LEMMA BudgetStep ==
  ASSUME IsFiniteSet(Tasks), TypeOK, TypeOK', LockInv, BudgetInv, [Next]_vars
  PROVE  BudgetInv'
  <1>1. ASSUME UNCHANGED <<running, used>>
        PROVE  BudgetInv'
    BY <1>1 DEF BudgetInv, FreeIsWeightless
  <1>2. CASE Insert
    <2> DEFINE t == disp.task
    <2>1. PICK k \in Keys \ live :
            /\ running' = [running EXCEPT ![t] = [key |-> k, weight |-> Weight[t]]]
            /\ used' = used + Weight[t]
      BY <1>2 DEF Insert
    <2>2. t \in Tasks /\ running[t].key = NoKey
      BY <1>2 DEF Insert, TypeOK, LockInv, CandidateFree
    <2>3. running[t].weight = 0 /\ Weight[t] \in Nat /\ used \in Int
      BY <2>2 DEF BudgetInv, FreeIsWeightless, TypeOK
    <2> DEFINE e == [key |-> k, weight |-> Weight[t]]
    <2>4. e \in Entry /\ e.key # NoKey /\ e.weight = Weight[t]
      BY <2>3 DEF Entry
    <2> HIDE DEF e
    <2>5. used' = used + e.weight - running[t].weight
      BY <2>1, <2>3, <2>4
    <2>6. running' = [running EXCEPT ![t] = e]
      BY <2>1 DEF e
    <2>7. QED
      BY <2>2, <2>4, <2>5, <2>6, BudgetChange
  <1>3. ASSUME NEW k \in Keys, Reweigh(k)
        PROVE  BudgetInv'
    <2> DEFINE t == run[k].task
    <2>1. PICK w \in Learns[t] :
            /\ used' = used + w - running[t].weight
            /\ running' = [running EXCEPT ![t].weight = w]
      BY <1>3 DEF Reweigh
    <2>2. t \in Tasks /\ running[t].key # NoKey /\ running[t] \in Entry /\ w \in Nat
      BY <1>3 DEF Reweigh, TypeOK
    <2> DEFINE e == [running[t] EXCEPT !.weight = w]
    <2>3. e \in Entry /\ e.key # NoKey /\ e.weight = w
      BY <2>2 DEF Entry
    <2>4. running' = [running EXCEPT ![t] = e]
      BY <2>1
    <2> HIDE DEF e
    <2>5. QED
      BY <2>1, <2>2, <2>3, <2>4, BudgetChange
  <1>4. ASSUME NEW k \in Keys, Unlock(k)
        PROVE  BudgetInv'
    <2> DEFINE t == run[k].task
    <2>1. CASE running[t].key = k
      <3>1. running' = [running EXCEPT ![t] = NoEntry] /\ used' = used - running[t].weight
        BY <1>4, <2>1 DEF Unlock
      <3>0. t \in Tasks /\ used \in Int
        BY <1>4 DEF Unlock, TypeOK
      <3> HIDE DEF t
      <3>2. t \in Tasks /\ running[t].weight \in Int /\ used \in Int
        BY <3>0 DEF TypeOK, Entry
      <3>3. NoEntry \in Entry /\ NoEntry.weight = 0
        BY DEF NoEntry, Entry
      <3>4. used' = used + NoEntry.weight - running[t].weight
        BY <3>1, <3>2, <3>3
      <3>5. QED
        BY <3>1, <3>2, <3>3, <3>4, BudgetChange
    <2>2. CASE running[t].key # k
      BY <1>4, <2>2, BudgetMemory DEF Unlock
    <2>3. QED
      BY <2>1, <2>2
  <1>5. ASSUME NEW t \in Tasks,
               AddTask(t) \/ TimePasses(t) \/ RunTaskNow(t) \/ TaskDelete(t) \/ KillTask(t)
        PROVE  BudgetInv'
    BY <1>1, <1>5 DEF AddTask, TimePasses, RunTaskNow, TaskDelete, KillTask
  <1>6. CASE Wake \/ CanAdmit \/ TaskNext \/ TaskLock
    BY <1>1, <1>6 DEF Wake, CanAdmit, TaskNext, TaskLock
  <1>7. ASSUME NEW k \in Keys, Start(k) \/ Work(k) \/ Complete(k) \/ Join(k) \/ Record(k)
        PROVE  BudgetInv'
    BY <1>1, <1>7 DEF Start, Work, Complete, Join, Record
  <1>8. CASE Crash \/ Restart
    BY <1>8, BudgetMemory DEF Crash, Restart
  <1>9. CASE UNCHANGED vars
    BY <1>1, <1>9 DEF vars
  <1>10. QED
    BY <1>2, <1>3, <1>4, <1>5, <1>6, <1>7, <1>8, <1>9 DEF Next, Dispatch, Execute

(* As long as no click and no expired delay lands on a task whose last run *)
(* is not unlocked, the admission budget is the sum of the weights in the  *)
(* lock table: reweighTask and unlock neither leak nor double-count it.    *)
THEOREM BudgetIsExact ==
  ASSUME ~Overlap, IsFiniteSet(Tasks)
  PROVE  Spec => []BudgetIsSum
<1>1. ASSUME Init PROVE LockInv /\ BudgetInv
  <2>1. LockInv
    BY <1>1 DEF Init, NoEntry, NoRun, LockInv, HoldsEntry, EntryHeld,
       HeldNotDue, CandidateFree, ClaimedRow, ActiveRow, DownIsEmpty
  <2>2. BudgetInv
    BY <1>1, HeldByNone DEF Init, BudgetInv, FreeIsWeightless, NoEntry
  <2>3. QED
    BY <2>1, <2>2
<1>2. ASSUME TypeOK, TypeOK', LockInv, BudgetInv, [Next]_vars
      PROVE  LockInv' /\ BudgetInv'
  BY <1>2, LockStep, BudgetStep
<1>3. BudgetInv => BudgetIsSum
  BY DEF BudgetInv, BudgetIsSum, Held
<1>4. QED
  BY <1>1, <1>2, <1>3, TypeCorrect, PTL DEF Spec

-----------------------------------------------------------------------------
(* The overbooking bound.  Counted as they were admitted, the tasks never  *)
(* hold more than used, which is what the dispatcher looks at, and between *)
(* that look and the insertion nobody else can add to it: a task that      *)
(* re-weighs does so from its nominal weight, and gives up or keeps what   *)
(* was admitted.                                                           *)

LEMMA HeldIsMonotone ==
  ASSUME IsFiniteSet(Tasks), NEW r \in [Tasks -> Entry], NEW q \in [Tasks -> Entry],
         \A t \in Tasks : q[t].weight <= r[t].weight
  PROVE  Held(q) <= Held(r)
  <1>1. PICK g : Sums(g, r, Tasks) /\ Held(r) = g[Tasks]
    BY HeldIsSum
  <1>2. PICK h : Sums(h, q, Tasks) /\ Held(q) = h[Tasks]
    BY HeldIsSum
  <1>3. h[Tasks] <= g[Tasks]
    <2> DEFINE C == {S \in SUBSET Tasks : ~(h[S] <= g[S])}
    <2> SUFFICES ASSUME C # {} PROVE FALSE
      OBVIOUS
    <2>0. C \subseteq SUBSET Tasks
      OBVIOUS
    <2> HIDE DEF C
    <2>1. PICK S \in C : \A x \in S : S \ {x} \notin C
      BY <2>0, SmallestSet
    <2>2. S \in SUBSET Tasks /\ ~(h[S] <= g[S])
      BY <2>1 DEF C
    <2>3. S # {}
      <3>1. g[{}] = 0 /\ h[{}] = 0
        BY <1>1, <1>2 DEF Sums
      <3>2. QED
        BY <2>2, <3>1
    <2>4. PICK x \in S : TRUE
      BY <2>3
    <2>5. h[S \ {x}] <= g[S \ {x}]
      BY <2>1, <2>2, <2>4 DEF C
    <2>6. /\ h[S] = q[x].weight + h[S \ {x}] /\ g[S] = r[x].weight + g[S \ {x}]
          /\ h[S \ {x}] \in Int /\ g[S \ {x}] \in Int
      BY <1>1, <1>2, <2>2, <2>4 DEF Sums
    <2>7. q[x].weight \in Int /\ r[x].weight \in Int /\ q[x].weight <= r[x].weight
      BY <2>2, <2>4 DEF Entry
    <2>8. QED
      BY <2>2, <2>5, <2>6, <2>7
  <1>4. QED
    BY <1>1, <1>2, <1>3

(* No overbooking but by one task, of a table r.                           *)
ByOne(r) ==
    Held(r) >= Capacity =>
        \E t \in Tasks : r[t].key # NoKey /\ Held(r) - r[t].weight < Capacity

Admitting(r) == disp.pc \in {"next", "lock", "insert"} => Held(r) < Capacity

AdmissionInv == ByOne(admitted) /\ Admitting(admitted)

AdmittedTyped ==
    /\ admitted \in [Tasks -> Entry]
    /\ \A t \in Tasks :
         /\ admitted[t].key = running[t].key
         /\ admitted[t].weight = IF running[t].weight > Weight[t]
                                 THEN Weight[t] ELSE running[t].weight

LEMMA AdmittedType ==
  ASSUME TypeOK
  PROVE  AdmittedTyped
  BY DEF AdmittedTyped, admitted, TypeOK, Entry

LEMMA AdmittedTypeNext ==
  ASSUME TypeOK'
  PROVE  AdmittedTyped'
  BY DEF AdmittedTyped, admitted, TypeOK, Entry

(* What was admitted is within the budget in use.                          *)
LEMMA AdmittedIsUsed ==
  ASSUME IsFiniteSet(Tasks), TypeOK, BudgetInv
  PROVE  Held(admitted) <= used
  <1>1. AdmittedTyped /\ running \in [Tasks -> Entry]
    BY AdmittedType DEF TypeOK
  <1>2. ASSUME NEW t \in Tasks
        PROVE  admitted[t].weight <= running[t].weight
    <2>1. running[t].weight \in Nat /\ Weight[t] \in Nat
      BY Fields
    <2>2. admitted[t].weight = IF running[t].weight > Weight[t]
                               THEN Weight[t] ELSE running[t].weight
      BY <1>1 DEF AdmittedTyped
    <2>3. QED
      BY <2>1, <2>2
  <1>3. QED
    BY <1>1, <1>2, HeldIsMonotone DEF AdmittedTyped, BudgetInv

LEMMA HeldIsInt ==
  ASSUME IsFiniteSet(Tasks), NEW r \in [Tasks -> Entry]
  PROVE  Held(r) \in Int
  BY HeldIsSum DEF Sums

(* An entry that gives weight back, or leaves, keeps the bound.            *)
LEMMA ByOneKept ==
  ASSUME IsFiniteSet(Tasks), NEW r \in [Tasks -> Entry], NEW q \in [Tasks -> Entry],
         NEW t \in Tasks, \A u \in Tasks \ {t} : q[u] = r[u],
         q[t].weight <= r[t].weight,
         q[t].key = r[t].key \/ q[t].weight = 0,
         ByOne(r)
  PROVE  ByOne(q) /\ Held(q) <= Held(r)
  <1>1. Held(q) = Held(r) - r[t].weight + q[t].weight
    BY HeldChanges
  <1>2. /\ Held(r) \in Int /\ Held(q) \in Int /\ Capacity \in Nat
        /\ r[t].weight \in Nat /\ q[t].weight \in Nat
    BY HeldIsInt DEF Entry
  <1>3. Held(q) <= Held(r)
    BY <1>1, <1>2
  <1>4. ASSUME Held(q) >= Capacity
        PROVE  \E u \in Tasks : q[u].key # NoKey /\ Held(q) - q[u].weight < Capacity
    <2>1. Held(r) >= Capacity
      BY <1>2, <1>3, <1>4
    <2>2. PICK u \in Tasks : r[u].key # NoKey /\ Held(r) - r[u].weight < Capacity
      BY <2>1 DEF ByOne
    <2>3. CASE u = t
      <3>1. Held(q) - q[t].weight < Capacity
        BY <1>1, <1>2, <2>2, <2>3
      <3>2. q[t].weight # 0
        BY <1>2, <1>4, <3>1
      <3>3. QED
        BY <2>2, <2>3, <3>1, <3>2
    <2>4. CASE u # t
      <3>1. q[u] = r[u] /\ q[u].weight \in Nat
        BY <2>4 DEF Entry
      <3>2. Held(q) - q[u].weight < Capacity
        BY <1>2, <1>3, <2>2, <3>1
      <3>3. QED
        BY <2>2, <3>1, <3>2
    <2>5. QED
      BY <2>3, <2>4
  <1>5. QED
    BY <1>3, <1>4 DEF ByOne

(* The dispatcher has seen that there is room, and there still is.         *)
LEMMA AdmissionInsert ==
  ASSUME IsFiniteSet(Tasks), TypeOK, TypeOK', LockInv, BudgetInv, AdmissionInv, Insert
  PROVE  AdmissionInv'
  <1> DEFINE t == disp.task
  <1>1. /\ t \in Tasks /\ running[t].key = NoKey /\ running[t].weight = 0
        /\ Held(admitted) < Capacity
    BY DEF Insert, TypeOK, LockInv, CandidateFree, BudgetInv, FreeIsWeightless,
           AdmissionInv, Admitting
  <1>2. PICK k \in Keys :
          running' = [running EXCEPT ![t] = [key |-> k, weight |-> Weight[t]]]
    BY DEF Insert
  <1>3. disp'.pc = "admit"
    BY DEF Insert, Goto, TypeOK, Dispatcher
  <1> HIDE DEF t
  <1>4. /\ admitted \in [Tasks -> Entry] /\ admitted' \in [Tasks -> Entry]
        /\ admitted[t].weight = 0 /\ Weight[t] \in Nat /\ k # NoKey
    BY <1>1, AdmittedType, AdmittedTypeNext DEF AdmittedTyped
  <1>5. /\ admitted'[t].key = k /\ admitted'[t].weight = Weight[t]
        /\ \A u \in Tasks \ {t} : admitted'[u] = admitted[u]
    BY <1>1, <1>2, <1>4 DEF admitted, TypeOK, Entry
  <1>6. Held(admitted') = Held(admitted) - admitted[t].weight + admitted'[t].weight
    BY <1>1, <1>4, <1>5, HeldChanges
  <1>7. Held(admitted) \in Int /\ Held(admitted') \in Int
    BY <1>4, HeldIsInt
  <1>8. Held(admitted') - admitted'[t].weight < Capacity
    BY <1>1, <1>4, <1>5, <1>6, <1>7
  <1>9. QED
    BY <1>1, <1>3, <1>4, <1>5, <1>8 DEF AdmissionInv, ByOne, Admitting

(* It re-weighs from its nominal weight, so that what was admitted of it   *)
(* does not grow.                                                          *)
LEMMA AdmissionReweigh ==
  ASSUME ~Overlap, IsFiniteSet(Tasks), TypeOK, TypeOK', AdmissionInv,
         NEW k \in Keys, Reweigh(k)
  PROVE  AdmissionInv'
  <1> DEFINE t == run[k].task
  <1>1. t \in Tasks /\ running[t].weight = Weight[t] /\ disp' = disp
    BY DEF Reweigh, TypeOK
  <1>2. PICK w \in Learns[t] : running' = [running EXCEPT ![t].weight = w]
    BY DEF Reweigh
  <1> HIDE DEF t
  <1>3. w \in Nat /\ Weight[t] \in Nat
    BY <1>1
  <1>4. /\ running'[t].key = running[t].key /\ running'[t].weight = w
        /\ \A u \in Tasks \ {t} : running'[u] = running[u]
    BY <1>1, <1>2 DEF TypeOK, Entry
  <1>5. /\ admitted \in [Tasks -> Entry] /\ admitted' \in [Tasks -> Entry]
        /\ AdmittedTyped /\ AdmittedTyped'
    BY AdmittedType, AdmittedTypeNext DEF AdmittedTyped
  <1>6. /\ admitted'[t].key = admitted[t].key
        /\ admitted'[t].weight <= admitted[t].weight
        /\ \A u \in Tasks \ {t} : admitted'[u] = admitted[u]
    <2>1. admitted'[t].key = admitted[t].key
      BY <1>1, <1>4, <1>5 DEF AdmittedTyped
    <2>2. admitted[t].weight = Weight[t]
      BY <1>1, <1>5 DEF AdmittedTyped
    <2>3. admitted'[t].weight = IF w > Weight[t] THEN Weight[t] ELSE w
      BY <1>1, <1>4, <1>5 DEF AdmittedTyped
    <2>4. \A u \in Tasks \ {t} : admitted'[u] = admitted[u]
      BY <1>4 DEF admitted
    <2>5. QED
      BY <1>3, <2>1, <2>2, <2>3, <2>4
  <1>7. ByOne(admitted') /\ Held(admitted') <= Held(admitted)
    BY <1>1, <1>5, <1>6, ByOneKept DEF AdmissionInv
  <1>8. Held(admitted') \in Int /\ Held(admitted) \in Int /\ Capacity \in Nat
    BY <1>5, HeldIsInt
  <1>9. QED
    BY <1>1, <1>7, <1>8 DEF AdmissionInv, ByOne, Admitting

(* After a crash or a panic nothing is admitted.                           *)
LEMMA AdmissionMemory ==
  ASSUME IsFiniteSet(Tasks), NEW p \in {"select", "down"}, Memory(p)
  PROVE  AdmissionInv'
  <1>1. \A t \in Tasks : Weight[t] \in Nat
    OBVIOUS
  <1>2. admitted' = [t \in Tasks |-> NoEntry]
    BY <1>1 DEF Memory, admitted, NoEntry
  <1>3. Held(admitted') = 0 /\ Capacity \in Nat \ {0}
    BY <1>2, HeldByNone
  <1>4. QED
    BY <1>3 DEF Memory, AdmissionInv, ByOne, Admitting

LEMMA AdmissionUnlock ==
  ASSUME IsFiniteSet(Tasks), TypeOK, TypeOK', AdmissionInv, NEW k \in Keys, Unlock(k)
  PROVE  AdmissionInv'
  <1> DEFINE t == run[k].task
  <1>1. CASE running[t].key = k
    <2>1. t \in Tasks /\ running' = [running EXCEPT ![t] = NoEntry] /\ disp' = disp
      BY <1>1 DEF Unlock, TypeOK
    <2> HIDE DEF t
    <2>2. /\ running'[t] = NoEntry /\ NoEntry.weight = 0
          /\ \A u \in Tasks \ {t} : running'[u] = running[u]
      BY <2>1 DEF TypeOK, NoEntry
    <2>3. /\ admitted \in [Tasks -> Entry] /\ admitted' \in [Tasks -> Entry]
          /\ AdmittedTyped'
      BY AdmittedType, AdmittedTypeNext DEF AdmittedTyped
    <2>4. admitted'[t].weight = 0 /\ admitted[t].weight \in Nat
      <3>1. Weight[t] \in Nat /\ admitted[t].weight \in Nat
        BY <2>1, <2>3 DEF Entry
      <3>2. admitted'[t].weight = IF NoEntry.weight > Weight[t]
                                  THEN Weight[t] ELSE NoEntry.weight
        BY <2>1, <2>2, <2>3 DEF AdmittedTyped
      <3>3. QED
        BY <2>2, <3>1, <3>2
    <2>5. \A u \in Tasks \ {t} : admitted'[u] = admitted[u]
      BY <2>2 DEF admitted
    <2>6. ByOne(admitted') /\ Held(admitted') <= Held(admitted)
      BY <2>1, <2>3, <2>4, <2>5, ByOneKept DEF AdmissionInv
    <2>7. Held(admitted') \in Int /\ Held(admitted) \in Int /\ Capacity \in Nat
      BY <2>3, HeldIsInt
    <2>8. QED
      BY <2>1, <2>6, <2>7 DEF AdmissionInv, ByOne, Admitting
  <1>2. CASE running[t].key # k
    BY <1>2, AdmissionMemory DEF Unlock
  <1>3. QED
    BY <1>1, <1>2

LEMMA AdmissionStep ==
  ASSUME ~Overlap, IsFiniteSet(Tasks), TypeOK, TypeOK', LockInv, BudgetInv,
         AdmissionInv, [Next]_vars
  PROVE  AdmissionInv'
  <1>1. ASSUME running' = running,
               \/ disp' = disp
               \/ disp'.pc \in {"select", "admit", "down"}
               \/ disp.pc \in {"next", "lock", "insert"}
               \/ used < Capacity
        PROVE  AdmissionInv'
    <2>1. admitted' = admitted
      BY <1>1 DEF admitted
    <2>2. /\ Held(admitted) <= used /\ Held(admitted) \in Int
          /\ used \in Int /\ Capacity \in Nat
      BY AdmittedIsUsed, AdmittedType, HeldIsInt DEF TypeOK, AdmittedTyped
    <2>3. used < Capacity => Held(admitted) < Capacity
      BY <2>2
    <2>4. Admitting(admitted)'
      BY <1>1, <2>1, <2>3 DEF AdmissionInv, Admitting
    <2>5. QED
      BY <2>1, <2>4 DEF AdmissionInv, ByOne
  <1>2. ASSUME NEW t \in Tasks,
               AddTask(t) \/ TimePasses(t) \/ RunTaskNow(t) \/ TaskDelete(t) \/ KillTask(t)
        PROVE  AdmissionInv'
    BY <1>1, <1>2 DEF AddTask, TimePasses, RunTaskNow, TaskDelete, KillTask
  <1>3. CASE Wake
    <2>1. disp'.pc = "admit"
      BY <1>3 DEF Wake, Goto, TypeOK, Dispatcher
    <2>2. QED
      BY <1>1, <1>3, <2>1 DEF Wake
  <1>4. CASE CanAdmit
    <2>1. used < Capacity \/ disp'.pc = "select"
      BY <1>4 DEF CanAdmit, Goto, TypeOK, Dispatcher
    <2>2. QED
      BY <1>1, <1>4, <2>1 DEF CanAdmit
  <1>5. CASE TaskNext \/ TaskLock
    BY <1>1, <1>5 DEF TaskNext, TaskLock
  <1>6. ASSUME NEW k \in Keys,
               Start(k) \/ Work(k) \/ Complete(k) \/ Join(k) \/ Record(k)
        PROVE  AdmissionInv'
    BY <1>1, <1>6 DEF Start, Work, Complete, Join, Record
  <1>7. CASE Crash \/ Restart
    BY <1>7, AdmissionMemory DEF Crash, Restart
  <1>8. CASE UNCHANGED vars
    BY <1>1, <1>8 DEF vars
  <1>9. QED
    BY <1>2, <1>3, <1>4, <1>5, <1>6, <1>7, <1>8, AdmissionInsert,
       AdmissionReweigh, AdmissionUnlock DEF Next, Dispatch, Execute

(* As long as no click and no expired delay lands on a task whose last run *)
(* is not unlocked, the queue is overbooked by at most one task, counting  *)
(* of each what was admitted of it (the comment of canAdmit).  Tasks may   *)
(* turn out narrower or wider than their nominal weight.                   *)
THEOREM AdmissionBound ==
  ASSUME ~Overlap, IsFiniteSet(Tasks)
  PROVE  Spec => []AdmittedByOne
<1>1. ASSUME Init PROVE LockInv /\ BudgetInv /\ AdmissionInv
  <2>1. LockInv
    BY <1>1 DEF Init, NoEntry, NoRun, LockInv, HoldsEntry, EntryHeld,
       HeldNotDue, CandidateFree, ClaimedRow, ActiveRow, DownIsEmpty
  <2>2. BudgetInv
    BY <1>1, HeldByNone DEF Init, BudgetInv, FreeIsWeightless, NoEntry
  <2>3. \A t \in Tasks : Weight[t] \in Nat
    OBVIOUS
  <2>4. admitted = [t \in Tasks |-> NoEntry]
    BY <1>1, <2>3 DEF Init, admitted, NoEntry
  <2>5. Held(admitted) = 0 /\ Capacity \in Nat \ {0}
    BY <2>4, HeldByNone
  <2>6. AdmissionInv
    BY <2>5 DEF AdmissionInv, ByOne, Admitting
  <2>7. QED
    BY <2>1, <2>2, <2>6
<1>2. ASSUME TypeOK, TypeOK', LockInv, BudgetInv, AdmissionInv, [Next]_vars
      PROVE  LockInv' /\ BudgetInv' /\ AdmissionInv'
  BY <1>2, LockStep, BudgetStep, AdmissionStep
<1>3. AdmissionInv => AdmittedByOne
  BY DEF AdmissionInv, ByOne, Held, AdmittedByOne
<1>4. QED
  BY <1>1, <1>2, <1>3, TypeCorrect, PTL DEF Spec

-----------------------------------------------------------------------------
(* TaskQueue keeps the promises of TaskContract when its writes succeed    *)
(* and no request lands on a run that is not unlocked yet.                 *)

(* The row of a task that is somebody's business is not lost: a running    *)
(* row has an entry in the lock table or the dispatcher is about to make   *)
(* one; an execution about to unlock has written its outcome.              *)
Owned ==
  disp.pc # "down" =>
    \A t \in Tasks : row[t].state = "running" =>
      running[t].key # NoKey \/ (disp.pc = "insert" /\ disp.task = t)
ReleasedRow ==
  \A k \in Keys : run[k].pc = "unlock" => row[run[k].task].state # "running"
CleanJoin ==
  \A k \in Keys :
    (run[k].pc = "join" /\ run[k].err = "nil" /\ ~run[k].killed)
      => row[run[k].task].state = "gone"
OkIsGone ==
  \A k \in Keys : (run[k].pc \notin {"free", "delete"} /\ run[k].ok)
    => row[run[k].task].state = "gone"
KillSettles ==
  \A k \in Keys : (run[k].pc = "record" /\ run[k].killed)
    => run[k].err = "permanent"

OutcomeInv ==
  /\ Owned /\ ReleasedRow /\ CleanJoin /\ OkIsGone /\ KillSettles

(* Two executions never share a task.                                      *)
LEMMA OneRun ==
  ASSUME LockInv, NEW j \in Keys, NEW k \in Keys, j # k,
         run[j].pc # "free", run[k].pc # "free"
  PROVE  run[j].task # run[k].task
  BY DEF LockInv, HoldsEntry

(* A step that touches neither the executions nor the lock table, and      *)
(* makes no row running.                                                   *)
LEMMA OutcomeRow ==
  ASSUME TypeOK, LockInv, OutcomeInv, UNCHANGED <<running, run>>,
         \A t \in Tasks : /\ row'[t].state = "running" => row[t].state = "running"
                          /\ row[t].state = "gone" => row'[t].state = "gone",
         disp'.pc = disp.pc \/ disp.pc # "insert",
         disp'.task = disp.task \/ disp.pc # "insert",
         disp'.pc = "down" <=> disp.pc = "down"
  PROVE  OutcomeInv'
  <1>1. \A k \in Keys : run[k].pc # "free" => run[k].task \in Tasks
    BY DEF TypeOK
  <1>2. Owned'
    BY DEF OutcomeInv, Owned
  <1>3. ReleasedRow' /\ CleanJoin' /\ OkIsGone' /\ KillSettles'
    BY <1>1 DEF OutcomeInv, ReleasedRow, CleanJoin, OkIsGone, KillSettles
  <1>4. QED
    BY <1>2, <1>3 DEF OutcomeInv

(* An execution moves on; its row may change, the others are left alone.   *)
LEMMA OutcomeMove ==
  ASSUME TypeOK, LockInv, OutcomeInv, NEW k \in Keys, run[k].pc # "free",
         NEW q \in Row, NEW r \in Run,
         row' = [row EXCEPT ![run[k].task] = q],
         run' = [run EXCEPT ![k] = r],
         UNCHANGED <<disp, running>>,
         r.task = run[k].task,
         q.state = "running" => row[run[k].task].state = "running",
         r.pc = "unlock" => q.state # "running",
         (r.pc = "join" /\ r.err = "nil" /\ ~r.killed) => q.state = "gone",
         (r.pc \notin {"free", "delete"} /\ r.ok) => q.state = "gone",
         (r.pc = "record" /\ r.killed) => r.err = "permanent"
  PROVE  OutcomeInv'
  <1> DEFINE t == run[k].task
  <1>1. t \in Tasks /\ running[t].key = k
    BY DEF LockInv, HoldsEntry, TypeOK
  <1>2. row'[t] = q /\ \A u \in Tasks \ {t} : row'[u] = row[u]
    BY <1>1 DEF TypeOK
  <1>3. run'[k] = r /\ \A j \in Keys \ {k} : run'[j] = run[j]
    BY DEF TypeOK
  <1>4. \A j \in Keys \ {k} : run[j].pc # "free" => row'[run[j].task] = row[run[j].task]
    <2> SUFFICES ASSUME NEW j \in Keys \ {k}, run[j].pc # "free"
                 PROVE  row'[run[j].task] = row[run[j].task]
      OBVIOUS
    <2>1. run[j].task # t
      BY OneRun
    <2>2. run[j].task \in Tasks
      BY DEF TypeOK
    <2>3. QED
      BY <2>1, <2>2, <1>2
  <1>5. Owned'
    BY <1>1, <1>2 DEF OutcomeInv, Owned
  <1>6. ReleasedRow' /\ CleanJoin'
    BY <1>2, <1>3, <1>4 DEF OutcomeInv, ReleasedRow, CleanJoin
  <1>7. OkIsGone' /\ KillSettles'
    BY <1>2, <1>3, <1>4 DEF OutcomeInv, OkIsGone, KillSettles
  <1>8. QED
    BY <1>5, <1>6, <1>7 DEF OutcomeInv

LEMMA OutcomeClaim ==
  ASSUME TypeOK, LockInv, OutcomeInv, TaskLock
  PROVE  OutcomeInv'
  <1> DEFINE t == disp.task
  <1>1. t \in Tasks /\ running[t].key = NoKey
    BY DEF TaskLock, TypeOK, LockInv, CandidateFree
  <1>2. UNCHANGED <<running, run>> /\ disp.pc = "lock"
    BY DEF TaskLock
  <1>3. CASE row' = row /\ disp'.pc = "admit"
    BY <1>2, <1>3, OutcomeRow
  <1>4. CASE /\ row[t].state = "queued"
             /\ row' = [row EXCEPT ![t].state = "running"]
             /\ disp' = [disp EXCEPT !.pc = "insert"]
    <2>1. row'[t].state = "running" /\ \A u \in Tasks \ {t} : row'[u] = row[u]
      BY <1>1, <1>4 DEF TypeOK, Row
    <2>2. disp'.pc = "insert" /\ disp'.task = t
      BY <1>4 DEF TypeOK, Dispatcher
    <2>3. \A k \in Keys : run[k].pc # "free" =>
            run[k].task \in Tasks \ {t} /\ row'[run[k].task] = row[run[k].task]
      <3> SUFFICES ASSUME NEW k \in Keys, run[k].pc # "free"
                   PROVE  run[k].task \in Tasks \ {t}
        BY <2>1
      <3>1. run[k].task \in Tasks /\ running[run[k].task].key = k
        BY DEF LockInv, HoldsEntry, TypeOK
      <3>2. QED
        BY <3>1, <1>1
    <2>4. Owned'
      BY <1>2, <2>1, <2>2 DEF OutcomeInv, Owned
    <2>5. ReleasedRow' /\ CleanJoin' /\ OkIsGone' /\ KillSettles'
      BY <1>2, <2>3
         DEF OutcomeInv, ReleasedRow, CleanJoin, OkIsGone, KillSettles
    <2>6. QED
      BY <2>4, <2>5 DEF OutcomeInv
  <1>5. QED
    <2>1. \/ row' = row /\ disp' = [disp EXCEPT !.pc = "admit"]
          \/ /\ row[t].state = "queued"
             /\ row' = [row EXCEPT ![t].state = "running"]
             /\ disp' = [disp EXCEPT !.pc = "insert"]
      BY DEF TaskLock, Goto
    <2>2. [disp EXCEPT !.pc = "admit"].pc = "admit"
      BY DEF TypeOK, Dispatcher
    <2>3. QED
      BY <1>3, <1>4, <2>1, <2>2

LEMMA OutcomeInsert ==
  ASSUME TypeOK, LockInv, OutcomeInv, Insert
  PROVE  OutcomeInv'
  <1> DEFINE t == disp.task
             r == [NoRun EXCEPT !.pc = "start", !.task = t, !.prio = disp.prio]
  <1>1. t \in Tasks /\ disp.pc = "insert"
    BY DEF Insert, TypeOK
  <1>2. PICK k \in Keys \ live :
          /\ running' = [running EXCEPT ![t] =
                           [key |-> k, weight |-> Weight[t]]]
          /\ run' = [run EXCEPT ![k] = r]
    BY DEF Insert
  <1>3. r.pc = "start"
    BY DEF NoRun
  <1> HIDE DEF r
  <1>4. /\ running'[t].key # NoKey
        /\ \A u \in Tasks \ {t} : running'[u] = running[u]
    <2>1. k \in Keys /\ k # NoKey
      OBVIOUS
    <2>2. running'[t].key = k
      BY <1>1, <1>2 DEF TypeOK
    <2>3. QED
      BY <1>2, <2>1, <2>2 DEF TypeOK
  <1>5. run'[k] = r /\ \A j \in Keys \ {k} : run'[j] = run[j]
    BY <1>2 DEF TypeOK
  <1>6. row' = row
    BY DEF Insert
  <1>7. r.ok = FALSE
    BY DEF r, NoRun
  <1>8. Owned'
    BY <1>1, <1>4, <1>6 DEF OutcomeInv, Owned
  <1>9. ReleasedRow' /\ CleanJoin' /\ OkIsGone' /\ KillSettles'
    BY <1>3, <1>5, <1>6, <1>7
       DEF OutcomeInv, ReleasedRow, CleanJoin, OkIsGone, KillSettles
  <1>10. QED
    BY <1>8, <1>9 DEF OutcomeInv

LEMMA OutcomeUnlock ==
  ASSUME TypeOK, LockInv, OutcomeInv, NEW k \in Keys, Unlock(k)
  PROVE  OutcomeInv'
  <1> DEFINE t == run[k].task
  <1>1. t \in Tasks /\ running[t].key = k
    BY DEF Unlock, LockInv, HoldsEntry, TypeOK
  <1>2. /\ running' = [running EXCEPT ![t] = NoEntry]
        /\ run' = [run EXCEPT ![k] = NoRun]
        /\ UNCHANGED <<row, disp>>
    BY <1>1 DEF Unlock
  <1>3. \A u \in Tasks \ {t} : running'[u] = running[u]
    BY <1>1, <1>2 DEF TypeOK
  <1>4. run'[k].pc = "free" /\ \A j \in Keys \ {k} : run'[j] = run[j]
    BY <1>2 DEF TypeOK, NoRun
  <1>5. row[t].state # "running"
    BY DEF Unlock, OutcomeInv, ReleasedRow
  <1>6. Owned'
    BY <1>2, <1>3, <1>5 DEF OutcomeInv, Owned
  <1>7. ReleasedRow' /\ CleanJoin' /\ OkIsGone' /\ KillSettles'
    BY <1>2, <1>4
       DEF OutcomeInv, ReleasedRow, CleanJoin, OkIsGone, KillSettles
  <1>8. QED
    BY <1>6, <1>7 DEF OutcomeInv

LEMMA OutcomeReweigh ==
  ASSUME TypeOK, OutcomeInv, NEW k \in Keys, Reweigh(k)
  PROVE  OutcomeInv'
  <1>1. PICK w \in Learns[run[k].task] :
          running' = [running EXCEPT ![run[k].task].weight = w]
    BY DEF Reweigh
  <1>2. \A u \in Tasks : running'[u].key = running[u].key
    BY <1>1 DEF TypeOK, Entry
  <1>3. UNCHANGED <<row, disp, run>>
    BY DEF Reweigh
  <1>4. QED
    BY <1>2, <1>3 DEF OutcomeInv, Owned, ReleasedRow, CleanJoin, OkIsGone,
       KillSettles

LEMMA OutcomeMemory ==
  ASSUME NEW p \in {"select", "down"}, Memory(p),
         p = "select" => \A t \in Tasks : row'[t].state # "running"
  PROVE  OutcomeInv'
  BY DEF Memory, NoRun, NoEntry, OutcomeInv, Owned, ReleasedRow, CleanJoin,
     OkIsGone, KillSettles

LEMMA OutcomeStep ==
  ASSUME ~Overlap, ~WritesMayFail, TypeOK, TypeOK', LockInv, OutcomeInv,
         [Next]_vars
  PROVE  OutcomeInv'
  <1>1. ASSUME NEW t \in Tasks,
               AddTask(t) \/ TimePasses(t) \/ RunTaskNow(t) \/ TaskDelete(t)
        PROVE  OutcomeInv'
    <2>1. UNCHANGED <<disp, running, run>>
      BY <1>1 DEF AddTask, TimePasses, RunTaskNow, TaskDelete, bounds
    <2>2. row' = [row EXCEPT ![t] = row'[t]]
      BY <1>1 DEF AddTask, TimePasses, RunTaskNow, TaskDelete, TypeOK
    <2>3. /\ row'[t].state = "running" => row[t].state = "running"
          /\ row[t].state = "gone" => row'[t].state = "gone"
      BY <1>1 DEF AddTask, TimePasses, RunTaskNow, TaskDelete, exists,
                  TypeOK, Row
    <2>4. \A u \in Tasks \ {t} : row'[u] = row[u]
      BY <2>2 DEF TypeOK
    <2>5. QED
      BY <2>1, <2>3, <2>4, OutcomeRow
  <1>2. ASSUME NEW t \in Tasks, KillTask(t) PROVE OutcomeInv'
    <2> DEFINE k == running[t].key
               b == run[k].killed \/ run[k].pc \notin {"record", "unlock"}
    <2>1. k \in Keys /\ run[k].pc # "free" /\ run[k].task = t
      BY <1>2, Fields DEF KillTask, LockInv, EntryHeld
    <2>2. run' = [run EXCEPT ![k].killed = b]
      BY <1>2 DEF KillTask
    <2>3. row' = [row EXCEPT ![t] = row[t]] /\ row[t] \in Row
      BY <1>2 DEF KillTask, TypeOK
    <2>4. UNCHANGED <<disp, running>>
      BY <1>2 DEF KillTask
    <2>5. run[k].pc = "record" => b = run[k].killed
      BY <2>1, Fields
    <2>6. run[k].pc \in {"join", "start"} => b
      OBVIOUS
    <2> HIDE DEF b, k
    <2>7. /\ run' = [run EXCEPT ![k] = run'[k]] /\ run'[k] \in Run
          /\ run'[k].pc = run[k].pc /\ run'[k].task = run[k].task
          /\ run'[k].err = run[k].err /\ run'[k].ok = run[k].ok
          /\ run'[k].killed = b
      BY <2>1, <2>2 DEF TypeOK, Run
    <2>8. /\ run'[k].pc = "unlock" => row[t].state # "running"
          /\ (run'[k].pc \notin {"free", "delete"} /\ run'[k].ok)
               => row[t].state = "gone"
          /\ (run'[k].pc = "record" /\ run'[k].killed)
               => run'[k].err = "permanent"
      BY <2>1, <2>5, <2>7 DEF OutcomeInv, ReleasedRow, OkIsGone, KillSettles
    <2>9. ~(run'[k].pc = "join" /\ run'[k].err = "nil" /\ ~run'[k].killed)
      BY <2>6, <2>7
    <2>10. QED
      BY <2>1, <2>3, <2>4, <2>7, <2>8, <2>9, OutcomeMove
  <1>3. CASE Wake \/ CanAdmit \/ TaskNext
    <2>1. UNCHANGED <<row, running, run>>
      BY <1>3 DEF Wake, CanAdmit, TaskNext
    <2>2. /\ disp.pc # "insert" /\ disp.pc # "down" /\ disp'.pc # "down"
      <3>1. CASE Wake \/ CanAdmit
        BY <3>1 DEF Wake, CanAdmit, Goto, TypeOK, Dispatcher
      <3>2. CASE TaskNext
        BY <3>2 DEF TaskNext, Goto, TypeOK, Dispatcher
      <3>3. QED
        BY <1>3, <3>1, <3>2
    <2>3. QED
      BY <2>1, <2>2, OutcomeRow
  <1>4. ASSUME NEW k \in Keys, Start(k) \/ Work(k) \/ Join(k) PROVE OutcomeInv'
    <2> DEFINE t == run[k].task
    <2>1. run[k].pc \notin {"free", "unlock"} /\ t \in Tasks
      BY <1>4 DEF Start, Work, Join, TypeOK
    <2>2. /\ run' = [run EXCEPT ![k] = run'[k]] /\ run'[k] \in Run
          /\ row' = [row EXCEPT ![t] = row[t]] /\ row[t] \in Row
          /\ UNCHANGED <<disp, running>>
      BY <1>4, <2>1 DEF Start, Work, Join, TypeOK
    <2>3. row[t].state \in {"running", "gone"}
      BY <2>1 DEF LockInv, ActiveRow
    <2>4. CASE Start(k)
      <3>1. PICK p \in {"work", "join"} : run' = [run EXCEPT ![k].pc = p]
        BY <2>4 DEF Start
      <3>2. p = "join" => run[k].killed \/ row[t].state = "gone"
        <4>1. p = run'[k].pc
          BY <3>1 DEF TypeOK, Run
        <4>2. run'[k].pc = IF run[k].killed \/ ~exists(t) THEN "join" ELSE "work"
          BY <2>4 DEF Start, TypeOK, Run
        <4>3. QED
          BY <4>1, <4>2, <2>3 DEF exists
      <3>3. /\ run'[k].pc = p /\ run'[k].task = t /\ run'[k].err = run[k].err
            /\ run'[k].killed = run[k].killed /\ run'[k].ok = run[k].ok
        BY <3>1 DEF TypeOK, Run
      <3>4. run[k].ok => row[t].state = "gone"
        BY <2>4 DEF Start, OutcomeInv, OkIsGone
      <3>5. QED
        BY <2>1, <2>2, <3>2, <3>3, <3>4, OutcomeMove
    <2>5. CASE Work(k)
      <3>1. /\ run'[k].task = t
            /\ run'[k].pc = "delete" \/ (run'[k].pc = "join" /\ run'[k].err # "nil"
                                          /\ run'[k].ok = run[k].ok)
        BY <2>5 DEF Work, TypeOK, Run
      <3>2. run[k].ok => row[t].state = "gone"
        BY <2>5 DEF Work, OutcomeInv, OkIsGone
      <3>3. QED
        BY <2>1, <2>2, <3>1, <3>2, OutcomeMove
    <2>6. CASE Join(k)
      <3> DEFINE e == IF run[k].killed THEN "permanent" ELSE run[k].err
                 p == IF e = "nil" THEN "unlock" ELSE "record"
      <3>1. run' = [run EXCEPT ![k].err = e, ![k].pc = p]
        BY <2>6 DEF Join
      <3>2. p \in {"unlock", "record"} /\ (p = "unlock" => e = "nil")
        OBVIOUS
      <3>3. e = "nil" => run[k].err = "nil" /\ ~run[k].killed
        OBVIOUS
      <3>4. run[k].killed => e = "permanent"
        OBVIOUS
      <3> HIDE DEF e, p
      <3>5. /\ run'[k].pc = p /\ run'[k].task = t /\ run'[k].err = e
            /\ run'[k].killed = run[k].killed /\ run'[k].ok = run[k].ok
        BY <3>1 DEF TypeOK, Run
      <3>6. run[k].ok => row[t].state = "gone"
        BY <2>6 DEF Join, OutcomeInv, OkIsGone
      <3>7. e = "nil" => row[t].state = "gone"
        BY <2>6, <3>3 DEF Join, OutcomeInv, CleanJoin
      <3>8. QED
        BY <2>1, <2>2, <3>2, <3>4, <3>5, <3>6, <3>7, OutcomeMove
    <2>7. QED
      BY <1>4, <2>4, <2>5, <2>6
  <1>5. ASSUME NEW k \in Keys, Complete(k) \/ Record(k) PROVE OutcomeInv'
    <2> DEFINE t == run[k].task
    <2>1. run[k].pc \notin {"free", "unlock"} /\ t \in Tasks
      BY <1>5 DEF Complete, Record, TypeOK
    <2>2. /\ run' = [run EXCEPT ![k] = run'[k]] /\ run'[k] \in Run
          /\ row' = [row EXCEPT ![t] = row'[t]] /\ row'[t] \in Row
          /\ UNCHANGED <<disp, running>>
      BY <1>5, <2>1 DEF Complete, Record, Settle, Requeue, TypeOK
    <2>3. row[t].state \in {"running", "gone"}
      BY <2>1 DEF LockInv, ActiveRow
    <2>4. CASE Complete(k)
      <3>1. row'[t].state = "gone"
        BY <2>4, <2>1 DEF Complete, TypeOK, Row
      <3>2. run'[k].pc = "join" /\ run'[k].task = t
        BY <2>4 DEF Complete, TypeOK, Run
      <3>3. QED
        BY <2>1, <2>2, <3>1, <3>2, OutcomeMove
    <2>5. CASE Record(k)
      <3>1. /\ row'[t].state # "running"
            /\ row[t].state = "gone" => row'[t].state = "gone"
        BY <2>5, <2>1, <2>3
           DEF Record, Settle, Requeue, exists, TypeOK, Row
      <3>2. /\ run'[k].pc = "unlock" /\ run'[k].task = t
            /\ run'[k].ok = run[k].ok
        BY <2>5 DEF Record, TypeOK, Run
      <3>3. run[k].ok => row[t].state = "gone"
        BY <2>5 DEF Record, OutcomeInv, OkIsGone
      <3>4. QED
        BY <2>1, <2>2, <3>1, <3>2, <3>3, OutcomeMove
    <2>6. QED
      BY <1>5, <2>4, <2>5
  <1>6. CASE Crash
    BY <1>6, OutcomeMemory DEF Crash
  <1>7. CASE Restart
    <2>1. \A t \in Tasks : row'[t].state # "running"
      BY <1>7 DEF Restart, TypeOK, Row
    <2>2. QED
      BY <1>7, <2>1, OutcomeMemory DEF Restart
  <1>8. CASE UNCHANGED vars
    BY <1>8, OutcomeRow DEF vars
  <1>9. QED
    BY <1>1, <1>2, <1>3, <1>4, <1>5, <1>6, <1>7, <1>8, OutcomeClaim,
       OutcomeInsert, OutcomeUnlock, OutcomeReweigh DEF Next, Dispatch, Execute

LEMMA OutcomeInductive ==
  ASSUME ~Overlap, ~WritesMayFail
  PROVE  Spec => [](TypeOK /\ LockInv /\ OutcomeInv)
<1>1. ASSUME Init PROVE LockInv /\ OutcomeInv
  BY <1>1 DEF Init, NoEntry, NoRun, LockInv, HoldsEntry, EntryHeld,
     HeldNotDue, CandidateFree, ClaimedRow, ActiveRow, DownIsEmpty,
     OutcomeInv, Owned, ReleasedRow, CleanJoin, OkIsGone, KillSettles
<1>2. ASSUME TypeOK, TypeOK', LockInv /\ OutcomeInv, [Next]_vars
      PROVE  LockInv' /\ OutcomeInv'
  BY <1>2, LockStep, OutcomeStep
<1>3. QED
  BY <1>1, <1>2, TypeCorrect, PTL DEF Spec

(* A row in state 'running' always has somebody who will move it on, if    *)
(* writes do not fail: no task is stuck until the next restart.            *)
THEOREM NoStuckTask ==
  ASSUME ~Overlap, ~WritesMayFail
  PROVE  Spec => []RunningHasOwner
<1>1. ASSUME TypeOK, LockInv, OutcomeInv
      PROVE  RunningHasOwner
  <2> USE <1>1
  <2> SUFFICES ASSUME disp.pc # "down", NEW t \in Tasks,
                      row[t].state = "running",
                      ~(disp.pc = "insert" /\ disp.task = t)
               PROVE  \E k \in executions(t) : run[k].pc # "unlock"
    BY DEF RunningHasOwner, owned, up
  <2> DEFINE k == running[t].key
  <2>1. k \in Keys /\ run[k].pc # "free" /\ run[k].task = t
    BY Fields DEF OutcomeInv, Owned, LockInv, EntryHeld
  <2>2. run[k].pc # "unlock"
    BY <2>1 DEF OutcomeInv, ReleasedRow
  <2>3. QED
    BY <2>1, <2>2 DEF executions, live
<1>2. QED
  BY <1>1, OutcomeInductive, PTL

(* An execution keeps its task, and what its function returned.            *)
LEMMA SameRun ==
  ASSUME TypeOK, Next, NEW k \in Keys, run[k].pc # "free", run'[k].pc # "free"
  PROVE  run'[k].task = run[k].task /\ (run[k].ok => run'[k].ok)
  <1> DEFINE Same == run'[k].task = run[k].task /\ (run[k].ok => run'[k].ok)
  <1>1. CASE run' = run
    BY <1>1
  <1>2. ASSUME NEW t \in Tasks, KillTask(t) PROVE Same
    BY <1>2 DEF KillTask, TypeOK, Run
  <1>3. CASE Insert
    <2>1. PICK j \in Keys \ live : \E r : run' = [run EXCEPT ![j] = r]
      BY <1>3 DEF Insert
    <2>2. j # k
      BY DEF live
    <2>3. QED
      BY <2>1, <2>2 DEF TypeOK
  <1>4. ASSUME NEW j \in Keys, Start(j) PROVE Same
    <2>1. PICK p \in Places : run' = [run EXCEPT ![j].pc = p]
      BY <1>4 DEF Start, Places
    <2>2. QED
      BY <2>1 DEF TypeOK, Run
  <1>5. ASSUME NEW j \in Keys, Work(j) PROVE Same
    BY <1>5 DEF Work, TypeOK, Run
  <1>6. ASSUME NEW j \in Keys, Complete(j) PROVE Same
    BY <1>6 DEF Complete, TypeOK, Run
  <1>7. ASSUME NEW j \in Keys, Join(j) PROVE Same
    <2>1. PICK p \in Places, e \in Errors :
            run' = [run EXCEPT ![j].err = e, ![j].pc = p]
      BY <1>7, Fields DEF Join, Places, Errors
    <2>2. QED
      BY <2>1 DEF TypeOK, Run
  <1>8. ASSUME NEW j \in Keys, Record(j) PROVE Same
    BY <1>8 DEF Record, TypeOK, Run
  <1>9. ASSUME NEW j \in Keys, Unlock(j) PROVE Same
    BY <1>9 DEF Unlock, Memory, NoRun, TypeOK
  <1>10. CASE Crash \/ Restart
    BY <1>10 DEF Crash, Restart, Memory, NoRun
  <1>11. QED
    BY <1>1, <1>2, <1>3, <1>4, <1>5, <1>6, <1>7, <1>8, <1>9, <1>10
       DEF Next, Dispatch, Execute, AddTask, TimePasses, RunTaskNow,
           TaskDelete, Wake, CanAdmit, TaskNext, TaskLock, Reweigh

(* A task whose function returned nil is never recorded as failed by that  *)
(* execution, whenever a kill lands.                                       *)
THEOREM CompletedIsNotFailed ==
  ASSUME ~Overlap, ~WritesMayFail
  PROVE  Spec => CompletedNeverFails
<1>1. ASSUME OutcomeInv, OutcomeInv', TypeOK, TypeOK', [Next]_vars
      PROVE  [\A k \in live : (run[k].ok /\ run'[k].pc = "unlock")
                => row'[run[k].task].state # "failed" \/ row' = row]_vars
  <2> USE <1>1
  <2> SUFFICES ASSUME NEW k \in live, run[k].ok, run'[k].pc = "unlock", Next
               PROVE  row'[run[k].task].state # "failed" \/ row' = row
    BY DEF vars
  <2>1. k \in Keys /\ run[k].pc # "free"
    BY DEF live
  <2>2. run'[k].task = run[k].task /\ run'[k].ok
    BY <2>1, SameRun
  <2>3. row'[run[k].task].state = "gone"
    BY <2>1, <2>2 DEF OutcomeInv, OkIsGone
  <2>4. QED
    BY <2>3
<1>2. QED
  BY <1>1, OutcomeInductive, PTL DEF CompletedNeverFails, Spec

(* A kill that lands before run1 returns is final.                         *)
THEOREM KillIsFinal ==
  ASSUME ~Overlap, ~WritesMayFail
  PROVE  Spec => KilledIsNotRetried
<1>1. ASSUME TypeOK, LockInv, OutcomeInv, Next, NEW k \in live,
             run[k].killed, row[run[k].task].state = "running"
      PROVE  row'[run[k].task].state # "queued"
  <2> USE <1>1
  <2> DEFINE t == run[k].task
  <2>1. k \in Keys /\ run[k].pc # "free" /\ t \in Tasks
    BY DEF live, TypeOK
  <2>2. CASE row' = row
    BY <2>2
  <2>3. ASSUME NEW u \in Tasks,
               AddTask(u) \/ TimePasses(u) \/ RunTaskNow(u) \/ TaskDelete(u)
        PROVE  row'[t].state # "queued"
    <3>1. CASE u = t
      <4>1. TaskDelete(t)
        BY <2>3, <3>1 DEF AddTask, TimePasses, RunTaskNow
      <4>2. QED
        BY <2>1, <4>1 DEF TaskDelete, TypeOK, Row
    <3>2. CASE u # t
      BY <2>1, <2>3, <3>2
         DEF AddTask, TimePasses, RunTaskNow, TaskDelete, TypeOK, Row
    <3>3. QED
      BY <3>1, <3>2
  <2>4. CASE TaskLock
    BY <2>1, <2>4 DEF TaskLock, TypeOK, Row
  <2>5. ASSUME NEW j \in Keys, Complete(j) PROVE row'[t].state # "queued"
    BY <2>1, <2>5 DEF Complete, TypeOK, Row
  <2>6. ASSUME NEW j \in Keys, Record(j) PROVE row'[t].state # "queued"
    <3>1. CASE j = k
      <4>1. run[k].err = "permanent"
        BY <2>1, <2>6, <3>1 DEF Record, OutcomeInv, KillSettles
      <4>2. QED
        <5>1. row' = [row EXCEPT ![t].state = "failed"]
          BY <2>6, <3>1, <4>1 DEF Record, Settle, Requeue, exists
        <5>2. QED
          BY <2>1, <5>1 DEF TypeOK, Row
    <3>2. CASE j # k
      <4>1. run[j].task # t
        BY <2>1, <2>6, <3>2, OneRun DEF Record
      <4>2. row'[t] = row[t]
        BY <2>1, <2>6, <4>1 DEF Record, Settle, Requeue, TypeOK
      <4>3. QED
        BY <4>2
    <3>3. QED
      BY <3>1, <3>2
  <2>7. CASE Restart
    BY <2>1, <2>7 DEF Restart, up, LockInv, DownIsEmpty
  <2>8. QED
    BY <2>2, <2>3, <2>4, <2>5, <2>6, <2>7
       DEF Next, Dispatch, Execute, KillTask, Wake, CanAdmit, TaskNext, Insert,
           Start, Work, Join, Unlock, Reweigh, Crash
<1>2. ASSUME TypeOK, LockInv, OutcomeInv, [Next]_vars
      PROVE  [\A k \in live :
                 (run[k].killed /\ row[run[k].task].state = "running")
                   => row'[run[k].task].state # "queued"]_vars
  BY <1>1, <1>2
<1>3. QED
  BY <1>2, OutcomeInductive, PTL DEF KilledIsNotRetried, Spec

-----------------------------------------------------------------------------
(* The refinement.                                                         *)

stages == [t \in Tasks |-> stageOf(t)]
holds == [t \in Tasks |-> executions(t)]

(* An entry of the lock table is the execution of its task.                *)
LEMMA Executions ==
  ASSUME TypeOK, LockInv, NEW t \in Tasks
  PROVE  /\ running[t].key = NoKey => executions(t) = {}
         /\ running[t].key # NoKey => executions(t) = {running[t].key}
  <1>1. \A k \in executions(t) : k \in Keys /\ running[t].key = k
    BY DEF executions, live, LockInv, HoldsEntry
  <1>2. running[t].key # NoKey => running[t].key \in executions(t)
    BY Fields DEF executions, live, LockInv, EntryHeld
  <1>3. QED
    BY <1>1, <1>2

(* The same after a step.                                                  *)
LEMMA ExecutionsNext ==
  ASSUME TypeOK', LockInv', NEW t \in Tasks
  PROVE  /\ running'[t].key = NoKey => executions(t)' = {}
         /\ running'[t].key # NoKey => executions(t)' = {running'[t].key}
  <1>1. \A k \in executions(t)' : k \in Keys /\ running'[t].key = k
    BY DEF executions, live, LockInv, HoldsEntry
  <1>2. running'[t].key # NoKey => running'[t].key \in Keys
    BY DEF TypeOK, Entry
  <1>3. running'[t].key # NoKey => running'[t].key \in executions(t)'
    BY <1>2 DEF executions, live, LockInv, EntryHeld
  <1>4. QED
    BY <1>1, <1>3

(* A step that starts and ends no execution leaves holds alone.            *)
LEMMA SameHolds ==
  ASSUME TypeOK, \A k \in Keys : /\ run'[k].task = run[k].task
                                 /\ run'[k].pc = "free" <=> run[k].pc = "free"
  PROVE  holds' = holds
  BY DEF holds, executions, live

(* A change of one row is a change of one stage.                           *)
LEMMA OneStage ==
  ASSUME TypeOK, TypeOK', NEW t \in Tasks,
         \A u \in Tasks \ {t} : row'[u] = row[u]
  PROVE  stages' = [stages EXCEPT ![t] = stageOf(t)']
  BY DEF stages, stageOf

LEMMA StepRefines ==
  ASSUME ~Overlap, ~WritesMayFail, TypeOK, TypeOK', LockInv, LockInv',
         OutcomeInv, OutcomeInv', [Next]_vars
  PROVE  [Contract!Next]_(Contract!vars)
  <1> USE DEF stages, holds
  <1> DEFINE Stutter == stages' = stages /\ holds' = holds
  <1>0. ASSUME Stutter PROVE UNCHANGED Contract!vars
    BY <1>0 DEF Contract!vars
  <1>1. ASSUME NEW t \in Tasks, AddTask(t) PROVE Contract!Next
    <2>1. row'[t].state = "queued" /\ \A u \in Tasks \ {t} : row'[u] = row[u]
      BY <1>1 DEF AddTask, TypeOK
    <2>2. stages' = [stages EXCEPT ![t] = "waiting"]
      BY <2>1, OneStage DEF stageOf
    <2>3. stages[t] = "new" /\ holds' = holds
      BY <1>1, SameHolds DEF AddTask, stageOf
    <2>4. Contract!Submit(t)
      BY <2>2, <2>3 DEF Contract!Submit
    <2>5. QED
      BY <2>4 DEF Contract!Next
  <1>2. ASSUME NEW t \in Tasks, TimePasses(t) PROVE Stutter
    <2>1. \A u \in Tasks : row'[u].state = row[u].state
      BY <1>2 DEF TimePasses, TypeOK, Row
    <2>2. QED
      BY <1>2, <2>1, SameHolds DEF TimePasses, stageOf
  <1>3. ASSUME NEW t \in Tasks, RunTaskNow(t) PROVE Contract!Next \/ Stutter
    <2>1. row'[t].state = "queued" /\ \A u \in Tasks \ {t} : row'[u] = row[u]
      BY <1>3 DEF RunTaskNow, TypeOK, Row
    <2>2. stages' = [stages EXCEPT ![t] = "waiting"]
      BY <2>1, OneStage DEF stageOf
    <2>3. running[t].key = NoKey /\ row[t].state \in {"queued", "failed"}
      BY <1>3 DEF RunTaskNow, exists
    <2>4. holds' = holds /\ holds[t] = {}
      BY <1>3, <2>3, SameHolds, Executions DEF RunTaskNow
    <2>5. CASE row[t].state = "queued"
      <3>1. stages[t] = "waiting"
        BY <2>5 DEF stageOf
      <3>2. QED
        BY <2>2, <2>4, <3>1
    <2>6. CASE row[t].state = "failed"
      <3>1. stages[t] = "failed"
        BY <2>6 DEF stageOf
      <3>2. Contract!Retry(t)
        BY <2>2, <2>4, <3>1 DEF Contract!Retry
      <3>3. QED
        BY <3>2 DEF Contract!Next
    <2>7. QED
      BY <2>3, <2>5, <2>6
  <1>4. ASSUME NEW t \in Tasks, TaskDelete(t) PROVE Contract!Next
    <2>1. row'[t].state = "gone" /\ \A u \in Tasks \ {t} : row'[u] = row[u]
      BY <1>4 DEF TaskDelete, TypeOK, Row
    <2>2. stages' = [stages EXCEPT ![t] = "gone"]
      BY <2>1, OneStage DEF stageOf
    <2>3. stages[t] \in {"waiting", "active", "failed"} /\ holds' = holds
      BY <1>4, SameHolds DEF TaskDelete, exists, stageOf
    <2>4. Contract!Withdraw(t)
      BY <2>2, <2>3 DEF Contract!Withdraw
    <2>5. QED
      BY <2>4 DEF Contract!Next
  <1>5. ASSUME NEW t \in Tasks, KillTask(t) PROVE Stutter
    <2>1. row' = row
      BY <1>5 DEF KillTask
    <2>2. \A k \in Keys : run'[k].task = run[k].task /\ run'[k].pc = run[k].pc
      <3>1. run \in [Keys -> Run]
        BY DEF TypeOK
      <3>2. PICK b : run' = [run EXCEPT ![running[t].key].killed = b]
        BY <1>5 DEF KillTask
      <3>3. QED
        BY <3>1, <3>2 DEF Run
    <2>3. QED
      BY <2>1, <2>2, SameHolds DEF stageOf
  <1>6. ASSUME Wake \/ CanAdmit \/ TaskNext PROVE Stutter
    BY <1>6, SameHolds DEF Wake, CanAdmit, TaskNext, stageOf
  <1>7. ASSUME TaskLock PROVE Contract!Next \/ Stutter
    <2> DEFINE t == disp.task
    <2>1. t \in Tasks /\ run' = run
      BY <1>7 DEF TaskLock, TypeOK
    <2>2. CASE row' = row
      BY <2>1, <2>2, SameHolds DEF stageOf
    <2>3. CASE row[t].state = "queued" /\ row' = [row EXCEPT ![t].state = "running"]
      <3>1. row'[t].state = "running" /\ \A u \in Tasks \ {t} : row'[u] = row[u]
        BY <2>1, <2>3 DEF TypeOK, Row
      <3>2. stages' = [stages EXCEPT ![t] = "active"]
        BY <2>1, <3>1, OneStage DEF stageOf
      <3>3. stages[t] = "waiting" /\ holds' = holds
        BY <2>1, <2>3, SameHolds DEF stageOf
      <3>4. Contract!Claim(t)
        BY <3>2, <3>3 DEF Contract!Claim
      <3>5. QED
        BY <2>1, <3>4 DEF Contract!Next
    <2>4. QED
      BY <1>7, <2>2, <2>3 DEF TaskLock
  <1>8. ASSUME Insert PROVE Contract!Next
    <2>0. PICK t \in Tasks : t = disp.task
      BY <1>8 DEF Insert, TypeOK
    <2>1. /\ t \in Tasks /\ running[t].key = NoKey
          /\ row[t].state \in {"running", "gone"} /\ row' = row
      BY <1>8, <2>0 DEF Insert, LockInv, CandidateFree, ClaimedRow
    <2>2. PICK k \in Keys \ live :
            running' = [running EXCEPT ![t] = [key |-> k, weight |-> Weight[t]]]
      BY <1>8, <2>0 DEF Insert
    <2>3. running'[t].key = k /\ k # NoKey
      BY <2>1, <2>2 DEF TypeOK
    <2>4. \A u \in Tasks \ {t} : running'[u].key = running[u].key
      BY <2>2 DEF TypeOK
    <2>5. \A u \in Tasks \ {t} : executions(u)' = executions(u)
      BY <2>4, Executions, ExecutionsNext
    <2>6. executions(t) = {} /\ executions(t)' = {k}
      BY <2>1, <2>3, Executions, ExecutionsNext
    <2>7. holds' = [holds EXCEPT ![t] = {k}] /\ holds[t] = {}
      BY <2>1, <2>5, <2>6
    <2>8. stages' = stages /\ stages[t] \in {"active", "gone"}
      BY <2>1 DEF stageOf
    <2>9. Contract!Launch(t, k)
      BY <2>7, <2>8 DEF Contract!Launch
    <2>10. QED
      BY <2>1, <2>9 DEF Contract!Next
  <1>9. ASSUME NEW k \in Keys, Start(k) \/ Work(k) \/ Join(k) \/ Reweigh(k)
        PROVE  Stutter
    <2>1. row' = row /\ run[k].pc # "free"
      BY <1>9 DEF Start, Work, Join, Reweigh
    <2>2. /\ \A j \in Keys \ {k} : run'[j] = run[j]
          /\ run'[k].pc # "free" /\ run'[k].task = run[k].task
      <3>0. run \in [Keys -> Run]
        BY DEF TypeOK
      <3>1. CASE Start(k)
        BY <3>0, <3>1 DEF Start, Run
      <3>2. CASE Work(k)
        BY <3>0, <3>2 DEF Work, Run
      <3>3. CASE Join(k)
        BY <3>0, <3>3 DEF Join, Run
      <3>4. CASE Reweigh(k)
        BY <3>4 DEF Reweigh
      <3>5. QED
        BY <1>9, <3>1, <3>2, <3>3, <3>4
    <2>3. QED
      BY <2>1, <2>2, SameHolds DEF stageOf
  <1>10. ASSUME NEW k \in Keys, Complete(k) \/ Record(k)
         PROVE  Contract!Next \/ Stutter
    <2>0. PICK t \in Tasks : t = run[k].task
      BY <1>10 DEF Complete, Record, TypeOK
    <2>1. /\ t = run[k].task /\ run[k].pc \notin {"free", "unlock"}
          /\ running[t].key = k
      BY <1>10, <2>0 DEF Complete, Record, LockInv, HoldsEntry
    <2>2. /\ \A j \in Keys \ {k} : run'[j] = run[j]
          /\ run'[k].pc # "free" /\ run'[k].task = run[k].task
      <3>1. CASE Complete(k)
        BY <3>1 DEF Complete, TypeOK, Run
      <3>2. CASE Record(k)
        BY <3>2 DEF Record, TypeOK, Run
      <3>3. QED
        BY <1>10, <3>1, <3>2
    <2>3. holds' = holds /\ holds[t] # {}
      BY <2>1, <2>2, SameHolds, Executions DEF TypeOK
    <2>4. /\ \A u \in Tasks \ {t} : row'[u] = row[u]
          /\ row'[t].state \in {"queued", "failed", "gone"} \/ row' = row
      <3>1. CASE Complete(k)
        BY <2>1, <3>1 DEF Complete, TypeOK, Row
      <3>2. CASE Record(k)
        <4>1. \/ row' = row
              \/ row' = [row EXCEPT ![t].state = "failed"]
              \/ row' = [row EXCEPT ![t] = [state |-> "queued",
                                          prio |-> run[k].prio + 1,
                                          due |-> FALSE]]
          BY <2>1, <3>2 DEF Record, Settle, Requeue
        <4>2. QED
          BY <2>1, <4>1 DEF TypeOK, Row
      <3>3. QED
        BY <1>10, <3>1, <3>2
    <2>5. row[t].state \in {"running", "gone"}
      BY <2>1 DEF LockInv, ActiveRow
    <2>6. row[t].state = "gone" => row'[t].state = "gone"
      <3>1. CASE Complete(k)
        BY <2>1, <3>1 DEF Complete, TypeOK, Row
      <3>2. CASE Record(k)
        BY <2>1, <3>2 DEF Record, Settle, Requeue, exists
      <3>3. QED
        BY <1>10, <3>1, <3>2
    <2>7. CASE row[t].state = "gone" \/ row' = row
      <3>1. stages' = stages
        BY <2>1, <2>4, <2>6, <2>7 DEF stageOf
      <3>2. QED
        BY <2>3, <3>1
    <2>8. CASE row[t].state = "running" /\ row' # row
      <3>1. stages[t] = "active"
        BY <2>1, <2>8 DEF stageOf
      <3>2. stageOf(t)' \in {"waiting", "failed", "gone"}
        BY <2>4, <2>8 DEF stageOf
      <3>3. stages' = [stages EXCEPT ![t] = stageOf(t)']
        BY <2>1, <2>4, OneStage
      <3>4. Contract!Outcome(t)
        BY <2>3, <3>1, <3>2, <3>3 DEF Contract!Outcome
      <3>5. QED
        BY <2>1, <3>4 DEF Contract!Next
    <2>9. QED
      BY <2>5, <2>7, <2>8
  <1>11. ASSUME NEW k \in Keys, Unlock(k) PROVE Contract!Next
    <2>0. PICK t \in Tasks : t = run[k].task
      BY <1>11 DEF Unlock, TypeOK
    <2>1. /\ t = run[k].task /\ run[k].pc = "unlock"
          /\ running[t].key = k /\ k # NoKey
      BY <1>11, <2>0 DEF Unlock, LockInv, HoldsEntry
    <2>2. running' = [running EXCEPT ![t] = NoEntry] /\ row' = row
      BY <1>11, <2>1 DEF Unlock
    <2>3. /\ running'[t].key = NoKey
          /\ \A u \in Tasks \ {t} : running'[u].key = running[u].key
      BY <2>1, <2>2 DEF TypeOK, NoEntry
    <2>4. \A u \in Tasks \ {t} : executions(u)' = executions(u)
      BY <2>3, Executions, ExecutionsNext
    <2>5. executions(t) = {k} /\ executions(t)' = {}
      BY <2>1, <2>3, Executions, ExecutionsNext
    <2>6. holds' = [holds EXCEPT ![t] = {}] /\ holds[t] # {}
      BY <2>1, <2>4, <2>5
    <2>7. stages' = stages
      BY <2>2 DEF stageOf
    <2>8. row[t].state # "running"
      BY <2>1 DEF OutcomeInv, ReleasedRow
    <2>9. stages[t] # "active"
      BY <2>1, <2>8, Fields DEF stageOf
    <2>10. Contract!Release(t)
      BY <2>6, <2>7, <2>9 DEF Contract!Release
    <2>11. QED
      BY <2>1, <2>10 DEF Contract!Next
  <1>12. ASSUME Crash PROVE Contract!Next
    <2>1. row' = row /\ \A k \in Keys : run'[k].pc = "free"
      BY <1>12 DEF Crash, Memory, NoRun
    <2>2. holds' = [t \in Tasks |-> {}]
      BY <2>1 DEF executions, live
    <2>3. stages' = stages
      BY <2>1 DEF stageOf
    <2>4. Contract!Abandon
      BY <2>2, <2>3 DEF Contract!Abandon
    <2>5. QED
      BY <2>4 DEF Contract!Next
  <1>13. ASSUME Restart PROVE Contract!Next
    <2>1. \A k \in Keys : run[k].pc = "free" /\ run'[k].pc = "free"
      BY <1>13 DEF Restart, Memory, NoRun, up, LockInv, DownIsEmpty
    <2>2. holds = [t \in Tasks |-> {}] /\ holds' = holds
      BY <2>1 DEF executions, live
    <2>3. \A t \in Tasks :
            row'[t].state = IF row[t].state = "running" THEN "queued"
                            ELSE row[t].state
      BY <1>13 DEF Restart, TypeOK, Row
    <2>4. \A t \in Tasks :
            stageOf(t)' = IF stageOf(t) = "active" THEN "waiting" ELSE stageOf(t)
      BY <2>3, Fields DEF stageOf
    <2>5. stages' = [t \in Tasks |->
                      IF stages[t] = "active" THEN "waiting" ELSE stages[t]]
      BY <2>4
    <2>6. Contract!Recover
      BY <2>2, <2>5 DEF Contract!Recover
    <2>7. QED
      BY <2>6 DEF Contract!Next
  <1>14. ASSUME UNCHANGED vars PROVE Stutter
    BY <1>14, SameHolds DEF vars, stageOf
  <1>15. Next \/ UNCHANGED vars => Contract!Next \/ Stutter
    BY <1>1, <1>2, <1>3, <1>4, <1>5, <1>6, <1>7, <1>8, <1>9, <1>10, <1>11,
       <1>12, <1>13, <1>14 DEF Next, Dispatch, Execute
  <1>16. QED
    BY <1>0, <1>15

(* The dispatcher, the lock table and the goroutines of model/task.go      *)
(* implement the contract of TaskContract: at most one execution of a task *)
(* at a time, and none over before its outcome is in the row.              *)
THEOREM Refinement ==
  ASSUME ~Overlap, ~WritesMayFail
  PROVE  Spec => ImplementsContract
<1> USE DEF stages, holds
<1>1. ASSUME Init PROVE Contract!Init
  <2>1. stages = [t \in Tasks |-> "new"]
    BY <1>1 DEF Init, stageOf
  <2>2. holds = [t \in Tasks |-> {}]
    BY <1>1 DEF Init, NoRun, executions, live
  <2>3. QED
    BY <2>1, <2>2 DEF Contract!Init
<1>2. ASSUME TypeOK, TypeOK', LockInv /\ OutcomeInv, (LockInv /\ OutcomeInv)',
             [Next]_vars
      PROVE  [Contract!Next]_(Contract!vars)
  BY <1>2, StepRefines
<1>3. QED
  BY <1>1, <1>2, OutcomeInductive, PTL DEF Spec, ImplementsContract, Contract!Spec
=============================================================================
