---------------------------- MODULE LiveUpdateProps ----------------------------
(***************************************************************************)
(* What the live pages of LiveUpdate.tla promise.                          *)
(***************************************************************************)
EXTENDS LiveUpdate

\* A page that shows a part as it is no more is about to hear of it: it is
\* still to read the part, an event is in its channel, one is about to be
\* sent, or the change is one of the three that have no event of their own
\* (unlock, RunTaskNow, the throttled bytes of an upload) and no other event
\* has come since.  Full channels drop events (event.go, emit) and events
\* overtake one another, and the page ends up with the last state all the
\* same.
StaleHasEvent ==
    \A p \in Pages : \A part \in stale[p] :
        queue[p] > 0 \/ due # {} \/ part \in unsaid

\* A page left alone comes to show all that was announced, however many
\* events it was too slow for.
PageCatchesUp ==
    \A p \in Pages :
        []<>(toRead[p] = {} /\ stale[p] \subseteq unsaid)

\* Work that is recorded does not go on being shown as under way, or as
\* failed: once no execution of its task is left the item is closed, whatever
\* earlier ones left behind (taskIngestEncodeRend returns without Close, a
\* failed tool leaves a tombstone, and the retry finds either), and although
\* an execution that finds the work recorded returns without a look at the
\* item.  Nothing of the kind holds once the rendition has been deleted: see
\* FinishedIsClosed.
DoneIsClosed ==
    \A t \in Tasks : result[t] = "made" /\ exec[t] = "off" => item[t] = "none"

-----------------------------------------------------------------------------
(***************************************************************************)
(* Statements of the comments that the code does not keep.                 *)
(***************************************************************************)
\* "Emitters include ... the task queue (when a task begins or ends)"
\* (event.go): a page does not go on listing a task that has ended.
EndIsAnnounced ==
    \A p \in Pages : "running" \in stale[p] => queue[p] > 0 \/ due # {}

\* "Clients open items, update progress as work is done, and close them when
\* finished" (progress.go): an item is open for a task that is to close it.
OpenHasTask ==
    \A t \in Tasks : open(t) => row[t] # "failed"

\* The same of a task that has returned nil: it has finished, and does not
\* leave behind an item of its earlier executions that is still open.
FinishedIsClosed ==
    \A t \in Tasks : row[t] = "gone" => ~open(t)
=============================================================================
