------------------------------ MODULE LiveUpdate ------------------------------
(***************************************************************************)
(* How an open page comes to show what has changed: the events of          *)
(* model/event.go, sent after the change and dropped when the channel of a *)
(* page is full; what the server keeps in memory beside the database (the  *)
(* progress items of model/progress, the running tasks of model/task.go,   *)
(* the uploads of model/upload.go); and the pages of web/, which on an     *)
(* event read all of it again, the database in one snapshot and the rest   *)
(* as it is by then (TxR.RunningTasks, Tracker.List, TxR.Uploads).         *)
(*                                                                         *)
(* Abstracted: a task has one progress item (the code names it after the   *)
(* video or the rendition) and one commit; the library behind result, the  *)
(* row of table Rendition that a task is to fill in; what of its parts a   *)
(* page looks at (every page looks at all).                                *)
(***************************************************************************)
EXTENDS Integers

CONSTANTS
    Pages,      \* open connections of browsers
    Tasks,      \* rows of table Task
    Uploads,    \* requests that upload a video
    Reencoder,  \* whoever deletes renditions: a re-encode, the purge
    Capacity,   \* of the channel of a page: 64
    MaxRuns     \* bound on the executions of a task

ASSUME LiveUpdateAssumption ==
    /\ Reencoder \notin Tasks \cup Uploads
    /\ Capacity \in Nat \ {0} /\ MaxRuns \in Nat \ {0}

VARIABLES
    row,        \* table Task, and "gone" once the task has returned nil
    result,     \* the rendition of a task: without a Key, with one, deleted
    item,       \* Tracker.item: no entry, open at the start or on the way,
                \* or the tombstone of an error
    running,    \* taskQueue.running
    upload,     \* Model.uploads: none, registered, on the way
    exec,       \* an execution of a task: how far it is
    sender,     \* the same of an upload request
    due,        \* the executions and requests that changed something and
                \* are to emit next
    runs,       \* executions so far
    queue,      \* events in the channel of a page
    toRead,     \* what a page still has to read for the view in the making
    stale,      \* what has changed since it read it
    unsaid      \* parts changed without an event, none emitted since

work == <<exec, sender, runs>>
memory == <<item, running, upload>>
vars == <<row, result, memory, work, due, queue, toRead, stale, unsaid>>

Database == {"rows"}
Memory == {"items", "running", "uploads"}
Parts == Database \cup Memory
Emitters == Tasks \cup Uploads \cup {Reencoder}
open(t) == item[t] \in {"begun", "half"}
visited(p) == queue[p] >= 0

TypeOK ==
    /\ row \in [Tasks -> {"queued", "waiting", "running", "failed", "gone"}]
    /\ result \in [Tasks -> {"unmade", "made", "deleted"}]
    /\ item \in [Tasks -> {"none", "begun", "half", "error"}]
    /\ running \in SUBSET Tasks
    /\ upload \in [Uploads -> {"none", "begun", "half"}]
    /\ exec \in [Tasks -> {"off", "locked", "starts", "works", "committed",
                           "returned", "erred", "ended"}]
    /\ sender \in [Uploads -> {"new", "reads", "done"}]
    /\ due \in SUBSET Emitters
    /\ runs \in [Tasks -> 0 .. MaxRuns]
    /\ queue \in [Pages -> -1 .. Capacity]      \* -1: not subscribed
    /\ toRead \in [Pages -> {{}, Database, Memory, Parts}]
    /\ stale \in [Pages -> SUBSET Parts]
    /\ \A p \in Pages : toRead[p] \cap stale[p] = {}
    /\ unsaid \in SUBSET Parts

Init ==
    /\ row = [t \in Tasks |-> "queued"]
    /\ result = [t \in Tasks |-> "unmade"]
    /\ item = [t \in Tasks |-> "none"]
    /\ running = {}
    /\ upload = [u \in Uploads |-> "none"]
    /\ exec = [t \in Tasks |-> "off"]
    /\ sender = [u \in Uploads |-> "new"]
    /\ due = {}
    /\ runs = [t \in Tasks |-> 0]
    /\ queue = [p \in Pages |-> -1]
    /\ toRead = [p \in Pages |-> {}]
    /\ stale = [p \in Pages |-> {}]
    /\ unsaid = {}

-----------------------------------------------------------------------------
(* Model.emit.                                                             *)

(* Slip: no buffer, so that a page that is drawing is not reached.         *)
hasRoomIdle(p) == visited(p) /\ toRead[p] = {} /\ queue[p] = 0
hasRoom(p) == visited(p) /\ queue[p] < Capacity
Emit(x) ==
    /\ x \in due
    /\ due' = due \ {x}
    /\ queue' = [p \in Pages |-> IF hasRoom(p) THEN queue[p] + 1 ELSE queue[p]]
    /\ unsaid' = {}
    /\ UNCHANGED <<row, result, memory, work, toRead, stale>>

(* Parts change, for every page that is not going to read them yet.        *)
outdated(p, parts) == IF visited(p) THEN stale[p] \cup (parts \ toRead[p]) ELSE {}
Outdates(parts) == stale' = [p \in Pages |-> outdated(p, parts)]
(* The change is made, the event follows, or does not.                     *)
Changes(x, parts) ==
    /\ x \notin due
    /\ due' = due \cup {x}
    /\ Outdates(parts)
    /\ UNCHANGED <<queue, toRead, unsaid>>
Silently(x, parts) ==
    /\ x \notin due
    /\ unsaid' = unsaid \cup parts
    /\ Outdates(parts)
    /\ UNCHANGED <<due, queue, toRead>>

Steps(t, to) ==
    /\ exec' = [exec EXCEPT ![t] = to]
    /\ UNCHANGED <<sender, runs>>

-----------------------------------------------------------------------------
(* A task: taskQueue.dispatch, run, and a task function of model/ingest.go.*)

Lock(t) ==
    /\ row[t] \in {"queued", "waiting"} /\ exec[t] = "off" /\ runs[t] < MaxRuns
    /\ row' = [row EXCEPT ![t] = "running"]
    /\ running' = running \cup {t}
    /\ exec' = [exec EXCEPT ![t] = "locked"]
    /\ runs' = [runs EXCEPT ![t] = @ + 1]
    /\ Changes(t, {"rows", "running"})
    /\ UNCHANGED <<result, item, upload, sender>>

(* A task whose work is recorded, or whose rendition has been deleted,     *)
(* returns nil before Tracker.Open, which does nothing to an open item.    *)
Open(t) ==
    /\ exec[t] = "locked"
    /\ LET returns == result[t] # "unmade" IN
       /\ IF returns \/ open(t)
            THEN /\ t \notin due
                 /\ UNCHANGED <<item, due, queue, toRead, stale, unsaid>>
            ELSE /\ item' = [item EXCEPT ![t] = "begun"]
                 /\ Changes(t, {"items"})
       /\ Steps(t, IF returns THEN "returned" ELSE "works")
    /\ UNCHANGED <<row, result, running, upload>>

(* Tracker.Update and UpdateStatus.                                        *)
Progress(t) ==
    /\ exec[t] = "works" /\ item[t] = "begun"
    /\ item' = [item EXCEPT ![t] = "half"]
    /\ Changes(t, {"items"})
    /\ Steps(t, "works")
    /\ UNCHANGED <<row, result, running, upload>>

(* The tool fails, or the commit, which finds no rendition any more:       *)
(* Tracker.Close with the error leaves a tombstone.                        *)
ToolFails(t) ==
    /\ exec[t] = "works"
    /\ item' = [item EXCEPT ![t] = "error"]
    /\ Changes(t, {"items"})
    /\ Steps(t, "erred")
    /\ UNCHANGED <<row, result, running, upload>>

(* taskIngestEncodeRend returns early without closing the item, or any     *)
(* task function panics.                                                   *)
ReturnEarly(t) ==
    /\ exec[t] = "works" /\ t \notin due
    /\ Steps(t, "erred")
    /\ UNCHANGED <<row, result, memory, due, queue, toRead, stale, unsaid>>

Commit(t) ==
    /\ exec[t] = "works" /\ result[t] = "unmade"
    /\ result' = [result EXCEPT ![t] = "made"]
    /\ Changes(t, {"rows"})
    /\ Steps(t, "committed")
    /\ UNCHANGED <<row, memory>>

(* Tracker.Close without an error.  Slip: left out on this path.           *)
leftOpen(t) == item
removed(t) == [item EXCEPT ![t] = "none"]
CloseItem(t) ==
    /\ exec[t] = "committed"
    /\ item' = removed(t)
    /\ Changes(t, {"items"})
    /\ Steps(t, "returned")
    /\ UNCHANGED <<row, result, running, upload>>

(* run1 deletes the task, in a transaction that emits; run emits again.    *)
DeleteTask(t) ==
    /\ exec[t] = "returned"
    /\ row' = [row EXCEPT ![t] = "gone"]
    /\ Changes(t, {"rows"})
    /\ Steps(t, "ended")
    /\ UNCHANGED <<result, memory>>

(* Or the delete fails, and the task is to be run once more.               *)
DeleteFails(t) ==
    /\ exec[t] = "returned" /\ t \notin due
    /\ Steps(t, "erred")
    /\ UNCHANGED <<row, result, memory, due, queue, toRead, stale, unsaid>>

(* reschedule or markFailed.                                               *)
Record(t) ==
    /\ exec[t] = "erred"
    /\ \E to \in {"waiting", "failed"} : row' = [row EXCEPT ![t] = to]
    /\ Changes(t, {"rows"})
    /\ Steps(t, "ended")
    /\ UNCHANGED <<result, memory>>

(* unlock comes after the last event.                                      *)
Unlock(t) ==
    /\ exec[t] = "ended"
    /\ running' = running \ {t}
    /\ Silently(t, {"running"})
    /\ Steps(t, "off")
    /\ UNCHANGED <<row, result, item, upload>>

(* taskReencode, or the purge, deletes the renditions of a video; the tasks*)
(* that were to make them stay, as do the items they have opened.          *)
Teardown ==
    /\ \E ts \in SUBSET {t \in Tasks : result[t] # "deleted"} :
         /\ ts # {}
         /\ result' = [t \in Tasks |-> IF t \in ts THEN "deleted" ELSE result[t]]
    /\ Changes(Reencoder, {"rows"})
    /\ UNCHANGED <<row, memory, work>>

-----------------------------------------------------------------------------
(* An upload: uploadBegin, Read, uploadEnd.                                *)

Sends(u, to) ==
    /\ sender' = [sender EXCEPT ![u] = to]
    /\ UNCHANGED <<row, result, item, running, exec, runs>>

UploadBegin(u) ==
    /\ sender[u] = "new"
    /\ upload' = [upload EXCEPT ![u] = "begun"]
    /\ Changes(u, {"uploads"})
    /\ Sends(u, "reads")

(* Announced when the last announcement is half a second old.              *)
UploadRead(u) ==
    /\ sender[u] = "reads" /\ upload[u] = "begun"
    /\ upload' = [upload EXCEPT ![u] = "half"]
    /\ Changes(u, {"uploads"}) \/ Silently(u, {"uploads"})
    /\ Sends(u, "reads")

UploadEnd(u) ==
    /\ sender[u] = "reads"
    /\ upload' = [upload EXCEPT ![u] = "none"]
    /\ Changes(u, {"uploads"})
    /\ Sends(u, "done")

-----------------------------------------------------------------------------
(* A page.                                                                 *)

(* Update is through: the view is drawn anew.                              *)
Redraws(p) ==
    /\ toRead' = [toRead EXCEPT ![p] = Parts]
    /\ stale' = [stale EXCEPT ![p] = {}]

(* It subscribes, then draws its first view.                               *)
Visit(p) ==
    /\ ~visited(p)
    /\ queue' = [queue EXCEPT ![p] = 0]
    /\ Redraws(p)
    /\ UNCHANGED <<row, result, memory, work, due, unsaid>>

Leave(p) ==
    /\ visited(p)
    /\ queue' = [queue EXCEPT ![p] = -1]
    /\ toRead' = [toRead EXCEPT ![p] = {}]
    /\ stale' = [stale EXCEPT ![p] = {}]
    /\ UNCHANGED <<row, result, memory, work, due, unsaid>>

(* Update, for an event.                                                   *)
ModelEvent(p) ==
    /\ toRead[p] = {} /\ queue[p] > 0
    /\ queue' = [queue EXCEPT ![p] = @ - 1]
    /\ Redraws(p)
    /\ UNCHANGED <<row, result, memory, work, due, unsaid>>

(* The request of an editor writes and has its own page drawn anew.  This  *)
(* one, RunTaskNow, does not go through WithTxRW and emits nothing.        *)
RunTaskNow(p, t) ==
    /\ visited(p) /\ toRead[p] = {}
    /\ row[t] \in {"waiting", "failed"}
    /\ row' = [row EXCEPT ![t] = "queued"]
    /\ unsaid' = unsaid \cup {"rows"}
    /\ toRead' = [toRead EXCEPT ![p] = Parts]
    /\ stale' = [q \in Pages |-> IF q = p THEN {} ELSE outdated(q, {"rows"})]
    /\ UNCHANGED <<result, memory, work, due, queue>>

(* WithTxR: one snapshot of the database, the rest before it or after.     *)
(* Slip: the events that came meanwhile are taken to say the same.         *)
drained(p, rest) == IF rest = {} THEN 0 ELSE queue[p]
kept(p, rest) == queue[p]
View(p) ==
    /\ \E parts \in {Database, Memory} :
         /\ parts \subseteq toRead[p]
         /\ toRead' = [toRead EXCEPT ![p] = @ \ parts]
    /\ queue' = [queue EXCEPT ![p] = kept(p, toRead'[p])]
    /\ UNCHANGED <<row, result, memory, work, due, stale, unsaid>>

-----------------------------------------------------------------------------
Task(t) ==
    \/ Open(t) \/ Progress(t) \/ ToolFails(t) \/ ReturnEarly(t) \/ Commit(t)
    \/ CloseItem(t) \/ DeleteTask(t) \/ DeleteFails(t) \/ Record(t) \/ Unlock(t)
Upload(u) == UploadBegin(u) \/ UploadRead(u) \/ UploadEnd(u)

Next ==
    \/ \E t \in Tasks : Lock(t) \/ Task(t)
    \/ \E u \in Uploads : Upload(u)
    \/ Teardown
    \/ \E x \in Emitters : Emit(x)
    \/ \E p \in Pages :
         \/ Visit(p) \/ Leave(p) \/ ModelEvent(p) \/ View(p)
         \/ \E t \in Tasks : RunTaskNow(p, t)

Spec == Init /\ [][Next]_vars

(* Who has made a change goes on to emit, and a page handles its messages. *)
(* Nothing is assumed of tasks, uploads and editors.                       *)
Fairness ==
    /\ \A x \in Emitters : WF_vars(Emit(x))
    /\ \A p \in Pages : WF_vars(ModelEvent(p)) /\ WF_vars(View(p))

FairSpec == Spec /\ Fairness
=============================================================================
