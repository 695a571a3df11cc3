---------------------------- MODULE DownloadsProps ----------------------------
(***************************************************************************)
(* What the downloads of Downloads.tla promise.                            *)
(***************************************************************************)
EXTENDS Downloads

\* A file is handed to the ingest once, whoever finds it complete first (the
\* add task, the poller, or an editor with the answer in memory), and only a
\* file the daemon has completed (processDownload sets Video.State and queues
\* the task in one transaction).
IngestedOnceComplete ==
    \A v \in Videos :
        /\ ingests[v] <= 1
        /\ video[v] = "pending" => ingests[v] = 0
        /\ video[v] = "importing" => ingests[v] = 1
        /\ ingests[v] > 0 => Source[v] \in DOMAIN daemon /\ v \in daemon[Source[v]]

\* The state of a download says what is left of its files, however old the
\* answer it was derived from: "imported" means that none waits, "downloaded"
\* that some wait and all of those are complete (deriveState).
StateIsTrue ==
    \A d \in Downloads : Exists(d) =>
        /\ row[d].state = "imported" => pendingOf(d) = {}
        /\ row[d].state = "downloaded" =>
             pendingOf(d) # {} /\ d \in DOMAIN daemon /\ pendingOf(d) \subseteq daemon[d]

\* The loop takes a download only when no editor has had to do with it for
\* the whole period ("so that user curation counts as activity against the
\* 7-day auto-trash timer"), and none that still has a file to import, unless
\* the daemon has given up on it.
AutoTrashSpares ==
    [][\A d \in Downloads :
          AutoTrash(d) => /\ touched[d] = IdleTimeout
                          /\ row[d].state = "error" \/ pendingOf(d) = {}]_vars

\* A file of a live download with auto-import on is imported in the end,
\* though answers are lost, undone or overtaken, unless the daemon reports an
\* error, which ends the polling (pollTransmissionOnce).
due(v) ==
    LET d == Source[v]
    IN /\ video[v] = "pending"
       /\ row[d].there = "live" /\ row[d].auto /\ row[d].state # "error"
       /\ d \in DOMAIN daemon
AutoImportHappens == []<>(\A v \in Videos : ~due(v))
=============================================================================
