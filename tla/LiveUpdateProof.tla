---------------------------- MODULE LiveUpdateProof ----------------------------
(***************************************************************************)
(* Proofs about LiveUpdate, for any pages, tasks, uploads, and any room in *)
(* the channels.                                                           *)
(*                                                                         *)
(* Two arguments that have nothing to do with each other.  For the pages:  *)
(* a change makes somebody owe an event, and an event that is dropped is   *)
(* dropped because others wait.  For the items: an execution opens one     *)
(* only when its work is not recorded, and once it is the same execution   *)
(* goes on to close it.  Nobody does when the rendition is deleted.        *)
(***************************************************************************)
EXTENDS LiveUpdateProps, TLAPS

USE LiveUpdateAssumption

(* What of TypeOK is about pages.                                          *)
PagesTyped ==
    /\ due \in SUBSET Emitters
    /\ queue \in [Pages -> -1 .. Capacity]
    /\ toRead \in [Pages -> {{}, Database, Memory, Parts}]
    /\ stale \in [Pages -> SUBSET Parts]
    /\ \A p \in Pages : toRead[p] \cap stale[p] = {}
    /\ unsaid \in SUBSET Parts

(* And of tasks and uploads.                                               *)
WorkTyped ==
    /\ row \in [Tasks -> {"queued", "waiting", "running", "failed", "gone"}]
    /\ result \in [Tasks -> {"unmade", "made", "deleted"}]
    /\ item \in [Tasks -> {"none", "begun", "half", "error"}]
    /\ running \in SUBSET Tasks
    /\ upload \in [Uploads -> {"none", "begun", "half"}]
    /\ exec \in [Tasks -> {"off", "locked", "starts", "works", "committed",
                           "returned", "erred", "ended"}]
    /\ sender \in [Uploads -> {"new", "reads", "done"}]
    /\ runs \in [Tasks -> 0 .. MaxRuns]

(* A page that has left misses nothing.                                    *)
GoneMissesNothing == \A p \in Pages : ~visited(p) => stale[p] = {}

PagesInv == PagesTyped /\ GoneMissesNothing /\ StaleHasEvent

(* The work of a task is recorded by the execution that opened its item,   *)
(* and until that has closed it it has not returned; no execution opens an *)
(* item of work that is recorded.                                          *)
WorkIsRecorded ==
    \A t \in Tasks :
        /\ exec[t] = "works" => result[t] # "made"
        /\ result[t] = "made" /\ exec[t] # "committed" => item[t] = "none"

WorkInv == WorkTyped /\ WorkIsRecorded

(* The inductive invariant.                                                *)
IInv == PagesInv /\ WorkInv

LEMMA Halves == TypeOK <=> PagesTyped /\ WorkTyped
  BY DEF TypeOK, PagesTyped, WorkTyped

-----------------------------------------------------------------------------
(* The pages.                                                              *)

(* A change that an event follows: the event is owed.                      *)
LEMMA ChangesKeepsPages ==
  ASSUME PagesInv, NEW x \in Emitters, NEW parts \in SUBSET Parts,
         Changes(x, parts)
  PROVE  PagesInv'
  <1> USE DEF PagesInv, Changes, Outdates, outdated
  <1>1. PagesTyped'
    BY DEF PagesTyped
  <1>2. GoneMissesNothing'
    BY DEF PagesTyped, GoneMissesNothing, visited
  <1>3. StaleHasEvent'
    BY DEF StaleHasEvent
  <1>4. QED
    BY <1>1, <1>2, <1>3

(* A change without one is on the list of those.                           *)
LEMMA SilentlyKeepsPages ==
  ASSUME PagesInv, NEW x, NEW parts \in SUBSET Parts, Silently(x, parts)
  PROVE  PagesInv'
  <1> USE DEF PagesInv, Silently, Outdates, outdated
  <1>1. PagesTyped'
    BY DEF PagesTyped
  <1>2. GoneMissesNothing'
    BY DEF PagesTyped, GoneMissesNothing, visited
  <1>3. StaleHasEvent'
    BY DEF PagesTyped, StaleHasEvent
  <1>4. QED
    BY <1>1, <1>2, <1>3

(* An event reaches every page or finds its channel full.                  *)
LEMMA EmitKeepsPages ==
  ASSUME PagesInv, NEW x \in Emitters, Emit(x)
  PROVE  PagesInv'
  <1> USE DEF PagesInv, Emit, hasRoom, visited
  <1>1. PagesTyped'
    BY DEF PagesTyped
  <1>2. GoneMissesNothing'
    BY DEF PagesTyped, GoneMissesNothing
  <1>3. StaleHasEvent'
    <2> SUFFICES ASSUME NEW p \in Pages, NEW part \in stale[p]
                 PROVE  queue'[p] > 0
      BY DEF StaleHasEvent
    <2>1. queue[p] \in 0 .. Capacity
      BY DEF PagesTyped, GoneMissesNothing
    <2>2. CASE queue[p] < Capacity
      BY <2>1, <2>2 DEF PagesTyped
    <2>3. CASE queue[p] = Capacity
      BY <2>1, <2>3 DEF PagesTyped
    <2>4. QED
      BY <2>1, <2>2, <2>3
  <1>4. QED
    BY <1>1, <1>2, <1>3

(* A page that is drawn anew has missed nothing; one that has left, too.   *)
LEMMA PageKeepsPages ==
  ASSUME PagesInv, NEW p \in Pages,
         Visit(p) \/ Leave(p) \/ ModelEvent(p)
  PROVE  PagesInv'
  <1> USE DEF PagesInv, Visit, Leave, ModelEvent, Redraws, visited
  <1>1. PagesTyped'
    BY DEF PagesTyped
  <1>2. GoneMissesNothing'
    BY DEF PagesTyped, GoneMissesNothing
  <1>3. StaleHasEvent'
    BY DEF PagesTyped, StaleHasEvent
  <1>4. QED
    BY <1>1, <1>2, <1>3

(* Reading takes no event away.                                            *)
LEMMA ViewKeepsPages ==
  ASSUME PagesInv, NEW p \in Pages, View(p)
  PROVE  PagesInv'
  <1> USE DEF PagesInv, View, kept, visited
  <1>1. PagesTyped'
    <2> PICK parts \in {Database, Memory} :
              parts \subseteq toRead[p] /\ toRead' = [toRead EXCEPT ![p] = @ \ parts]
      OBVIOUS
    <2>1. toRead[p] \ parts \in {{}, Database, Memory, Parts}
      BY DEF PagesTyped, Database, Memory, Parts
    <2>2. QED
      BY <2>1 DEF PagesTyped
  <1>2. GoneMissesNothing'
    BY DEF PagesTyped, GoneMissesNothing
  <1>3. StaleHasEvent'
    BY DEF PagesTyped, StaleHasEvent
  <1>4. QED
    BY <1>1, <1>2, <1>3

(* The page of the editor is drawn anew, the others are on the list.       *)
LEMMA RunTaskNowKeepsPages ==
  ASSUME PagesInv, NEW p \in Pages, NEW t \in Tasks, RunTaskNow(p, t)
  PROVE  PagesInv'
  <1> USE DEF PagesInv, RunTaskNow, outdated, visited
  <1>1. PagesTyped'
    BY DEF PagesTyped, Parts, Database, Memory
  <1>2. GoneMissesNothing'
    BY DEF PagesTyped, GoneMissesNothing
  <1>3. StaleHasEvent'
    BY DEF PagesTyped, StaleHasEvent
  <1>4. QED
    BY <1>1, <1>2, <1>3

(* Every step of a task, an upload or a re-encode makes one of the two     *)
(* kinds of change, or none.                                               *)
OneKind ==
    \/ UNCHANGED <<due, queue, toRead, stale, unsaid>>
    \/ \E x \in Emitters, parts \in SUBSET Parts :
         Changes(x, parts) \/ Silently(x, parts)

LEMMA OneKindKeepsPages ==
  ASSUME PagesInv, OneKind
  PROVE  PagesInv'
  <1>1. CASE UNCHANGED <<due, queue, toRead, stale, unsaid>>
    BY <1>1 DEF PagesInv, PagesTyped, GoneMissesNothing, StaleHasEvent, visited
  <1>2. ASSUME NEW x \in Emitters, NEW parts \in SUBSET Parts,
               Changes(x, parts) \/ Silently(x, parts)
        PROVE  PagesInv'
    BY <1>2, ChangesKeepsPages, SilentlyKeepsPages
  <1>3. QED
    BY <1>1, <1>2 DEF OneKind

LEMMA TaskIsOneKind ==
  ASSUME NEW t \in Tasks, Lock(t) \/ Task(t)
  PROVE  OneKind
  <1>1. \A parts \in SUBSET Parts :
          Changes(t, parts) \/ Silently(t, parts) => OneKind
    BY DEF OneKind, Emitters
  <1>2. {{"rows", "running"}, {"items"}, {"rows"}, {"running"}} \subseteq SUBSET Parts
    BY DEF Parts, Database, Memory
  <1>3. CASE Lock(t)
    BY <1>1, <1>2, <1>3 DEF Lock
  <1>4. CASE Open(t)
    <2>1. CASE UNCHANGED <<due, queue, toRead, stale, unsaid>>
      BY <2>1 DEF OneKind
    <2>2. CASE Changes(t, {"items"})
      BY <1>1, <1>2, <2>2
    <2>3. QED
      BY <1>4, <2>1, <2>2 DEF Open
  <1>5. CASE Progress(t) \/ ToolFails(t) \/ CloseItem(t)
    BY <1>1, <1>2, <1>5 DEF Progress, ToolFails, CloseItem
  <1>6. CASE ReturnEarly(t) \/ DeleteFails(t)
    BY <1>6 DEF ReturnEarly, DeleteFails, OneKind
  <1>7. CASE Commit(t) \/ DeleteTask(t) \/ Record(t)
    BY <1>1, <1>2, <1>7 DEF Commit, DeleteTask, Record
  <1>8. CASE Unlock(t)
    BY <1>1, <1>2, <1>8 DEF Unlock
  <1>9. QED
    BY <1>3, <1>4, <1>5, <1>6, <1>7, <1>8 DEF Task

LEMMA UploadIsOneKind ==
  ASSUME NEW u \in Uploads, Upload(u)
  PROVE  OneKind
  <1>1. Changes(u, {"uploads"}) \/ Silently(u, {"uploads"})
    BY DEF Upload, UploadBegin, UploadRead, UploadEnd
  <1>2. {"uploads"} \in SUBSET Parts
    BY DEF Parts, Memory
  <1>3. QED
    BY <1>1, <1>2 DEF OneKind, Emitters

LEMMA TeardownIsOneKind ==
  ASSUME Teardown
  PROVE  OneKind
  <1>1. Changes(Reencoder, {"rows"})
    BY DEF Teardown
  <1>2. {"rows"} \in SUBSET Parts
    BY DEF Parts, Database
  <1>3. QED
    BY <1>1, <1>2 DEF OneKind, Emitters

-----------------------------------------------------------------------------
(* The tasks and uploads.                                                  *)

(* The queue gives the task out; its work is recorded or not, but an item  *)
(* of recorded work is closed.                                             *)
LEMMA LockKeepsWork ==
  ASSUME WorkInv, NEW t \in Tasks, Lock(t)
  PROVE  WorkInv'
  <1> USE DEF WorkInv, WorkTyped, Lock
  <1>1. WorkTyped'
    <2>1. runs[t] + 1 \in 0 .. MaxRuns
      OBVIOUS
    <2>2. QED
      BY <2>1
  <1>2. WorkIsRecorded'
    BY DEF WorkIsRecorded
  <1>3. QED
    BY <1>1, <1>2

(* An execution opens an item only of work that is not recorded.           *)
LEMMA OpenKeepsWork ==
  ASSUME WorkInv, NEW t \in Tasks, Open(t)
  PROVE  WorkInv'
  <1> USE DEF WorkInv, WorkTyped, Open, Steps
  <1>1. WorkTyped'
    OBVIOUS
  <1>2. WorkIsRecorded'
    BY DEF WorkIsRecorded
  <1>3. QED
    BY <1>1, <1>2

(* On the way nothing is recorded yet, and a failure records nothing.      *)
LEMMA ToolKeepsWork ==
  ASSUME WorkInv, NEW t \in Tasks,
         Progress(t) \/ ToolFails(t) \/ ReturnEarly(t)
  PROVE  WorkInv'
  <1> USE DEF WorkInv, WorkTyped, Progress, ToolFails, ReturnEarly, Steps, memory
  <1>1. WorkTyped'
    OBVIOUS
  <1>2. WorkIsRecorded'
    BY DEF WorkIsRecorded
  <1>3. QED
    BY <1>1, <1>2

(* The work is recorded first, then the item is closed.                    *)
LEMMA CommitKeepsWork ==
  ASSUME WorkInv, NEW t \in Tasks, Commit(t) \/ CloseItem(t)
  PROVE  WorkInv'
  <1> USE DEF WorkInv, WorkTyped, Commit, CloseItem, removed, Steps, memory
  <1>1. WorkTyped'
    OBVIOUS
  <1>2. WorkIsRecorded'
    BY DEF WorkIsRecorded
  <1>3. QED
    BY <1>1, <1>2

(* The queue records the end of an execution.                              *)
LEMMA EndKeepsWork ==
  ASSUME WorkInv, NEW t \in Tasks,
         DeleteTask(t) \/ DeleteFails(t) \/ Record(t) \/ Unlock(t)
  PROVE  WorkInv'
  <1> USE DEF WorkInv, WorkTyped, DeleteTask, DeleteFails, Record, Unlock, Steps, memory
  <1>1. WorkTyped'
    OBVIOUS
  <1>2. WorkIsRecorded'
    BY DEF WorkIsRecorded
  <1>3. QED
    BY <1>1, <1>2

(* A deletion records nothing and makes nothing undone.                    *)
LEMMA TeardownKeepsWork ==
  ASSUME WorkInv, Teardown
  PROVE  WorkInv'
  <1> USE DEF WorkInv, WorkTyped, Teardown, memory, work
  <1>1. PICK ts \in SUBSET Tasks :
          result' = [t \in Tasks |-> IF t \in ts THEN "deleted" ELSE result[t]]
    OBVIOUS
  <1>2. WorkTyped'
    BY <1>1
  <1>3. WorkIsRecorded'
    BY <1>1 DEF WorkIsRecorded
  <1>4. QED
    BY <1>2, <1>3

(* An upload is no task's business.                                        *)
LEMMA UploadKeepsWork ==
  ASSUME WorkInv, NEW u \in Uploads, Upload(u)
  PROVE  WorkInv'
  <1> USE DEF WorkInv, WorkTyped, Upload, UploadBegin, UploadRead, UploadEnd, Sends
  <1>1. WorkTyped'
    OBVIOUS
  <1>2. WorkIsRecorded'
    BY DEF WorkIsRecorded
  <1>3. QED
    BY <1>1, <1>2

(* An editor has a task that is not done run now.                          *)
LEMMA RunTaskNowKeepsWork ==
  ASSUME WorkInv, NEW p \in Pages, NEW t \in Tasks, RunTaskNow(p, t)
  PROVE  WorkInv'
  <1> USE DEF WorkInv, WorkTyped, RunTaskNow, memory, work
  <1>1. WorkTyped'
    OBVIOUS
  <1>2. WorkIsRecorded'
    BY DEF WorkIsRecorded
  <1>3. QED
    BY <1>1, <1>2

(* Events and pages touch none of it.                                      *)
LEMMA RestKeepsWork ==
  ASSUME WorkInv, UNCHANGED <<row, result, memory, work>>
  PROVE  WorkInv'
  BY DEF WorkInv, WorkTyped, WorkIsRecorded, memory, work

-----------------------------------------------------------------------------
(* IInv is inductive.                                                      *)

LEMMA InitIInv == Init => IInv
  <1> SUFFICES ASSUME Init PROVE IInv
    OBVIOUS
  <1> USE DEF Init
  <1>1. PagesInv
    BY DEF PagesInv, PagesTyped, GoneMissesNothing, StaleHasEvent
  <1>2. WorkInv
    BY DEF WorkInv, WorkTyped, WorkIsRecorded
  <1>3. QED
    BY <1>1, <1>2 DEF IInv

LEMMA NextIInv == IInv /\ [Next]_vars => IInv'
  <1> SUFFICES ASSUME IInv, [Next]_vars PROVE IInv'
    OBVIOUS
  <1>0. PagesInv /\ WorkInv
    BY DEF IInv
  <1>1. ASSUME NEW t \in Tasks, Lock(t) \/ Task(t)
        PROVE  IInv'
    <2>1. PagesInv'
      BY <1>0, <1>1, TaskIsOneKind, OneKindKeepsPages
    <2>2. WorkInv'
      BY <1>0, <1>1, LockKeepsWork, OpenKeepsWork, ToolKeepsWork,
         CommitKeepsWork, EndKeepsWork DEF Task
    <2>3. QED
      BY <2>1, <2>2 DEF IInv
  <1>2. ASSUME NEW u \in Uploads, Upload(u)
        PROVE  IInv'
    BY <1>0, <1>2, UploadIsOneKind, OneKindKeepsPages, UploadKeepsWork DEF IInv
  <1>3. ASSUME NEW x \in Emitters, Emit(x)
        PROVE  IInv'
    <2>1. WorkInv'
      BY <1>0, <1>3, RestKeepsWork DEF Emit
    <2>2. QED
      BY <1>0, <1>3, <2>1, EmitKeepsPages DEF IInv
  <1>4. ASSUME NEW p \in Pages, Visit(p) \/ Leave(p) \/ ModelEvent(p) \/ View(p)
        PROVE  IInv'
    <2>1. WorkInv'
      BY <1>0, <1>4, RestKeepsWork DEF Visit, Leave, ModelEvent, View
    <2>2. PagesInv'
      BY <1>0, <1>4, PageKeepsPages, ViewKeepsPages
    <2>3. QED
      BY <2>1, <2>2 DEF IInv
  <1>5. ASSUME NEW p \in Pages, NEW t \in Tasks, RunTaskNow(p, t)
        PROVE  IInv'
    BY <1>0, <1>5, RunTaskNowKeepsPages, RunTaskNowKeepsWork DEF IInv
  <1>6. CASE UNCHANGED vars
    <2>1. OneKind /\ UNCHANGED <<row, result, memory, work>>
      BY <1>6 DEF vars, OneKind
    <2>2. QED
      BY <1>0, <2>1, OneKindKeepsPages, RestKeepsWork DEF IInv
  <1>7. CASE Teardown
    BY <1>0, <1>7, TeardownIsOneKind, OneKindKeepsPages, TeardownKeepsWork DEF IInv
  <1>8. QED
    BY <1>1, <1>2, <1>3, <1>4, <1>5, <1>6, <1>7 DEF Next

THEOREM Inductive == Spec => []IInv
  BY InitIInv, NextIInv, PTL DEF Spec

\* Every variable keeps its type; in particular no channel holds more
\* events than it has room for, and a page never counts a part as changed
\* that it is still to read.
THEOREM TypeCorrect == Spec => []TypeOK
  <1>1. IInv => TypeOK
    BY Halves DEF IInv, PagesInv, WorkInv
  <1>2. QED
    BY <1>1, Inductive, PTL

\* A page that shows what is no more is about to hear of it, whatever the
\* order of the events and however many are dropped.
THEOREM StalePagesHear == Spec => []StaleHasEvent
  <1>1. IInv => StaleHasEvent
    BY DEF IInv, PagesInv
  <1>2. QED
    BY <1>1, Inductive, PTL

\* Work that is recorded is not left with a progress item: whatever earlier
\* executions left behind, the one that recorded it closes the item, and no
\* later one opens it again.
THEOREM DoneTasksAreClosed == Spec => []DoneIsClosed
  <1>1. IInv => DoneIsClosed
    BY DEF IInv, WorkInv, WorkIsRecorded, DoneIsClosed
  <1>2. QED
    BY <1>1, Inductive, PTL
=============================================================================
