------------------------------ MODULE Downloads ------------------------------
(***************************************************************************)
(* The downloads of model/download.go: rows that follow the torrents of a  *)
(* daemon (Transmission) until each of their files has been handed to the  *)
(* ingest.  Four parties write the rows: the add task, the poller, editors *)
(* and the auto-trash loop.  The first two ask the daemon outside any      *)
(* transaction and write its answer in a later one; the last answer about  *)
(* each torrent also stays in memory, for the import an editor asks for.   *)
(*                                                                         *)
(* Abstracted: a file is complete or it is not, and stays complete; the    *)
(* errors of the daemon are one; planning and attaching are Curate; the    *)
(* trash is Library's, here a download comes and goes alone or with the    *)
(* work it is for; what becomes of an ingest task is VideoPipeline's.      *)
(***************************************************************************)
EXTENDS Integers, Functions

CONSTANTS
    Downloads,      \* info hashes
    Videos,         \* files with a video extension, over all torrents
    Source,         \* [Videos -> Downloads]: Video.InfoHash
    Edited,         \* those an editor deals with
    Histories,      \* where a behaviour may begin: the downloads the daemon
                    \* has already, with import enabled, and the requests
                    \* and the faults already spent
    IdleTimeout,    \* downloadIdleTimeout, in ticks
    MaxClicks,      \* bound on the requests of editors
    MaxFaults       \* bound on crashes, kills and errors of the daemon

ASSUME DownloadsAssumption ==
    /\ Source \in [Videos -> Downloads]
    /\ Edited \subseteq Downloads
    /\ \A h \in Histories : /\ h.first \subseteq Downloads
                            /\ h.clicks \in 0 .. MaxClicks
                            /\ h.faults \in 0 .. MaxFaults
    /\ IdleTimeout \in Nat \ {0}
    /\ MaxClicks \in Nat /\ MaxFaults \in Nat

VARIABLES
    row,        \* table Download; idle: ticks since LastActivityAt
    video,      \* table Video: its State, "none" when there is no row
    ingests,    \* ingest tasks queued so far, by video
    adds,       \* the add-download-to-transmission tasks
    adder,      \* their executions: where they are and what they were told
    poller,     \* pollTransmissionOnce, likewise
    torrent,    \* Model.torrent: the complete files, by download
    daemon,     \* the torrents the daemon has: their complete files
    broken,     \* the torrents it reports an error for
    touched,    \* ticks since an editor last did something with a download
    clicks, faults

rows == <<row, video, ingests, adds>>
memory == <<adder, poller, torrent>>
outside == <<daemon, broken>>
bounds == <<touched, clicks, faults>>
vars == <<rows, memory, outside, bounds>>

States == {"queued", "downloading", "downloaded", "imported", "error"}
FilesOf(d) == {v \in Videos : Source[v] = d}
Ticks == 0 .. IdleTimeout

(* Functions on some of the downloads.                                     *)
Partial(V) == UNION {[D -> V] : D \in SUBSET Downloads}
Nothing == [d \in {} |-> {}]

(* What the daemon says of the torrents D, of those it has.                *)
Answer(D) ==
    [d \in D \cap DOMAIN daemon |-> [done |-> daemon[d], error |-> d \in broken]]
Answers == Partial([done : SUBSET Videos, error : BOOLEAN])

(* DownloadGet finds the row, trashed or not.                              *)
Exists(d) == row[d].there \in {"live", "trashed", "cascaded"}

Idle == [pc |-> "idle", answer |-> Nothing]
Sleeping == [pc |-> "sleep", asked |-> {}, answer |-> Nothing]

TypeOK ==
    /\ row \in [Downloads -> [there : {"no", "live", "trashed", "cascaded", "purged"},
                              state : States, auto : BOOLEAN, idle : Ticks]]
    /\ video \in [Videos -> {"none", "pending", "importing"}]
    /\ \A v \in Videos : video[v] # "none" => Exists(Source[v])
    /\ ingests \in [Videos -> Nat]
    /\ adds \subseteq Downloads
    /\ adder \in [Downloads -> [pc : {"idle", "get", "update", "return"}, answer : Answers]]
    /\ poller \in [pc : {"sleep", "ask", "apply"}, asked : SUBSET Downloads,
                   answer : Answers]
    /\ torrent \in Partial(SUBSET Videos)
    /\ daemon \in Partial(SUBSET Videos)
    /\ broken \subseteq Downloads
    /\ touched \in [Downloads -> Ticks]
    /\ clicks \in 0 .. MaxClicks
    /\ faults \in 0 .. MaxFaults

Init ==
    \E h \in Histories :
      /\ row = [d \in Downloads |->
                  IF d \in h.first
                    THEN [there |-> "live", state |-> "downloading", auto |-> TRUE, idle |-> 0]
                    ELSE [there |-> "no", state |-> "queued", auto |-> FALSE, idle |-> 0]]
      /\ video = [v \in Videos |-> IF Source[v] \in h.first THEN "pending" ELSE "none"]
      /\ ingests = [v \in Videos |-> 0]
      /\ adds = {}
      /\ adder = [d \in Downloads |-> Idle]
      /\ poller = Sleeping
      /\ torrent = Nothing
      /\ daemon = [d \in h.first |-> {}]
      /\ broken = {}
      /\ touched = [d \in Downloads |-> 0]
      /\ clicks = h.clicks
      /\ faults = h.faults

pendingOf(d) == {v \in FilesOf(d) : video[v] = "pending"}

-----------------------------------------------------------------------------
(* processDownload.                                                        *)

(* Slip: the file's state is not looked at.                                *)
completeFiles(rs, T) ==
    {v \in Videos : /\ Source[v] \in DOMAIN T /\ v \in T[Source[v]]
                    /\ rs[Source[v]].auto}
(* The files to be ingested when the downloads DOMAIN T are processed      *)
(* with the torrents T and rows rs: pending, complete, import enabled.     *)
importable(rs, T) ==
    {v \in Videos : /\ Source[v] \in DOMAIN T /\ v \in T[Source[v]]
                    /\ rs[Source[v]].auto
                    /\ video[v] = "pending"}

(* Slip: counts the files as they were read, before their State is set.    *)
deriveStateAsRead(d, done, importing) ==
    IF ~(pendingOf(d) \subseteq done) THEN "downloading"
    ELSE IF pendingOf(d) # {} THEN "downloaded" ELSE "imported"
deriveState(d, done, importing) ==
    LET left == pendingOf(d) \ importing
    IN IF ~(left \subseteq done) THEN "downloading"
       ELSE IF left # {} THEN "downloaded" ELSE "imported"

(* The transaction: ingests are queued and the rows rs brought up to date. *)
processDownloads(rs, T) ==
    LET I == importable(rs, T) IN
      /\ video' = [v \in Videos |-> IF v \in I THEN "importing" ELSE video[v]]
      /\ ingests' = [v \in Videos |-> IF v \in I THEN ingests[v] + 1 ELSE ingests[v]]
      /\ row' = [d \in Downloads |->
                   IF d \in DOMAIN T
                     THEN [rs[d] EXCEPT !.state = deriveState(d, T[d], I), !.idle = 0]
                     ELSE rs[d]]

(* updateDownload, for the answers A.  An error of the torrent goes to the *)
(* row and leaves the memory as it was.                                    *)
told(A) == [d \in {e \in DOMAIN A : ~A[e].error} |-> A[d].done]
withErrors(A) ==
    [d \in Downloads |->
       IF d \in DOMAIN A \ DOMAIN told(A)
         THEN [row[d] EXCEPT !.state = "error", !.idle = 0] ELSE row[d]]
remember(A) ==
    torrent' = [d \in DOMAIN torrent \cup DOMAIN told(A) |->
                  IF d \in DOMAIN told(A) THEN told(A)[d] ELSE torrent[d]]
updateDownloads(A) ==
    /\ processDownloads(withErrors(A), told(A))
    /\ remember(A)

-----------------------------------------------------------------------------
(* taskAddDownloadToTransmission, with retries until it succeeds.          *)

AddTorrent(d) ==
    /\ d \in adds /\ adder[d] = Idle /\ Exists(d)
    /\ daemon' = [e \in DOMAIN daemon \cup {d} |->
                    IF e \in DOMAIN daemon THEN daemon[e] ELSE {}]
    /\ adder' = [adder EXCEPT ![d].pc = "get"]
    /\ UNCHANGED <<rows, poller, torrent, broken, bounds>>

AddAsks(d) ==
    /\ adder[d].pc = "get"
    /\ adder' = [adder EXCEPT ![d] = [pc |-> "update", answer |-> Answer({d})]]
    /\ UNCHANGED <<rows, poller, torrent, outside, bounds>>

(* A row that was purged fails the transaction, and the task is retried.   *)
AddCommit(d) ==
    /\ adder[d].pc = "update"
    /\ IF Exists(d)
         THEN /\ updateDownloads(adder[d].answer)
              /\ adder' = [adder EXCEPT ![d] = [pc |-> "return", answer |-> Nothing]]
         ELSE /\ remember(adder[d].answer)
              /\ adder' = [adder EXCEPT ![d] = Idle]
              /\ UNCHANGED <<row, video, ingests>>
    /\ UNCHANGED <<adds, poller, outside, bounds>>

AddReturns(d) ==
    /\ adder[d].pc = "return"
    /\ adds' = adds \ {d}
    /\ adder' = [adder EXCEPT ![d] = Idle]
    /\ UNCHANGED <<row, video, ingests, poller, torrent, outside, bounds>>

-----------------------------------------------------------------------------
(* pollTransmissionOnce, every minute.                                     *)

(* Slips of DownloadListInfoHashesActive: "queued" is left to the add task,*)
(* or "downloaded" to the editor.                                          *)
activeButQueued ==
    {d \in Downloads : /\ row[d].there = "live"
                       /\ row[d].state \in {"downloading", "downloaded"}}
activeUntilComplete ==
    {d \in Downloads : /\ row[d].there = "live"
                       /\ row[d].state \in {"queued", "downloading"}}
active ==
    {d \in Downloads : /\ row[d].there = "live"
                       /\ row[d].state \in {"queued", "downloading", "downloaded"}}

PollLists ==
    /\ poller.pc = "sleep" /\ active # {}
    /\ poller' = [poller EXCEPT !.pc = "ask", !.asked = active]
    /\ UNCHANGED <<rows, adder, torrent, outside, bounds>>

PollAsks ==
    /\ poller.pc = "ask"
    /\ poller' = [pc |-> "apply", asked |-> {}, answer |-> Answer(poller.asked)]
    /\ UNCHANGED <<rows, adder, torrent, outside, bounds>>

(* One transaction for all answers.  One that names a purged row undoes    *)
(* it, but not what the answers handled before have left in memory.        *)
PollApplies ==
    /\ poller.pc = "apply"
    /\ LET A == poller.answer
           found == {d \in DOMAIN A : Exists(d)}
       IN IF found = DOMAIN A
            THEN updateDownloads(A)
            ELSE /\ \E D \in SUBSET found : remember(Restrict(A, D))
                 /\ UNCHANGED <<row, video, ingests>>
    /\ poller' = Sleeping
    /\ UNCHANGED <<adds, adder, outside, bounds>>

-----------------------------------------------------------------------------
(* Editors.                                                                *)

Touch(d) ==
    /\ touched' = [touched EXCEPT ![d] = 0]
    /\ UNCHANGED faults
Click == clicks < MaxClicks /\ clicks' = clicks + 1

Plannable(d) == row[d].state \notin {"downloaded", "imported", "error"}

(* doTorrentAdd: DownloadCreate and the planning, in one transaction.  A   *)
(* planning that is refused undoes the restore of a trashed download.      *)
DownloadCreate(d) ==
    /\ row[d].there = "no"
    /\ row' = [row EXCEPT ![d].there = "live"]
    /\ video' = [v \in Videos |-> IF v \in FilesOf(d) THEN "pending" ELSE video[v]]
    /\ adds' = adds \cup {d}
    /\ Touch(d)
    /\ UNCHANGED <<ingests, memory, outside, clicks>>

TorrentAddedAgain(d) ==
    /\ Click
    /\ row[d].there \in {"live", "trashed"} /\ Plannable(d)
    /\ row' = [row EXCEPT ![d].there = "live", ![d].idle = 0]
    /\ Touch(d)
    /\ UNCHANGED <<video, ingests, adds, memory, outside>>

(* DownloadAutoImportSet, DownloadImport; from a page drawn earlier, also  *)
(* of a download that is in the trash by now.                              *)
DownloadAutoImportSet(d, auto) ==
    /\ Click
    /\ Exists(d)
    /\ LET rs == [row EXCEPT ![d].auto = auto, ![d].idle = 0]
       IN processDownloads(rs, Restrict(torrent, {d} \cap DOMAIN torrent))
    /\ Touch(d)
    /\ UNCHANGED <<adds, memory, outside>>

(* EpisodeVideoSet, with bumpDownloadActivity.                             *)
Curate(d) ==
    /\ Click
    /\ row[d].there = "live"
    /\ row' = [row EXCEPT ![d].idle = 0]
    /\ Touch(d)
    /\ UNCHANGED <<video, ingests, adds, memory, outside>>

(* Trash, of the download or of the work it is for.                        *)
Trash(d, there) ==
    /\ Click
    /\ row[d].there = "live"
    /\ row' = [row EXCEPT ![d].there = there]
    /\ UNCHANGED <<video, ingests, adds, memory, outside, touched, faults>>

(* Slip: LastActivityAt is left as it was.                                 *)
restoredAsItWas(d) == [row EXCEPT ![d].there = "live"]
restored(d) == [row EXCEPT ![d].there = "live", ![d].idle = 0]

Restore(d) ==
    /\ Click
    /\ row[d].there = "trashed"
    /\ row' = restored(d)
    /\ Touch(d)
    /\ UNCHANGED <<video, ingests, adds, memory, outside>>

(* DownloadRestoreByCascade.                                               *)
RestoreWork(d) ==
    /\ Click
    /\ row[d].there = "cascaded"
    /\ row' = [row EXCEPT ![d].there = "live"]
    /\ UNCHANGED <<video, ingests, adds, memory, outside, touched, faults>>

(* Purge: the videos lose their InfoHash, or go too.                       *)
unlinked(d) == [v \in Videos |-> IF v \in FilesOf(d) THEN "none" ELSE video[v]]
Purge(d) ==
    /\ Click
    /\ row[d].there \in {"trashed", "cascaded"}
    /\ row' = [row EXCEPT ![d] = [there |-> "purged", state |-> "queued",
                                  auto |-> FALSE, idle |-> 0]]
    /\ video' = unlinked(d)
    /\ UNCHANGED <<ingests, adds, memory, outside, touched, faults>>

-----------------------------------------------------------------------------
(* The auto-trash loop, time, the daemon, and what goes wrong.             *)

AutoTrash(d) ==
    /\ row[d].there = "live"
    /\ row[d].state \in {"imported", "error"}
    /\ row[d].idle = IdleTimeout
    /\ row' = [row EXCEPT ![d].there = "trashed"]
    /\ UNCHANGED <<video, ingests, adds, memory, outside, bounds>>

(* The time a download spends in flight is not followed: it reaches a      *)
(* final state by an update, which begins the period anew.                 *)
Rests(d) == Exists(d) /\ row[d].state \in {"imported", "error"}
Older(n) == IF n < IdleTimeout THEN n + 1 ELSE n
TimePasses ==
    /\ row' = [d \in Downloads |->
                 IF Rests(d) THEN [row[d] EXCEPT !.idle = Older(@)] ELSE row[d]]
    /\ touched' = [d \in Downloads |-> IF Rests(d) THEN Older(touched[d]) ELSE touched[d]]
    /\ UNCHANGED <<video, ingests, adds, memory, outside, clicks, faults>>

FileCompletes(d) ==
    /\ d \in DOMAIN daemon
    /\ \E v \in FilesOf(d) \ daemon[d] :
         daemon' = [daemon EXCEPT ![d] = @ \cup {v}]
    /\ UNCHANGED <<rows, memory, broken, bounds>>

Fault == faults < MaxFaults /\ faults' = faults + 1 /\ UNCHANGED <<touched, clicks>>

DaemonReports(d) ==
    /\ Fault
    /\ d \in DOMAIN daemon
    /\ broken' = broken \cup {d}
    /\ UNCHANGED <<rows, memory, daemon>>

DaemonRecovers(d) ==
    /\ d \in broken
    /\ broken' = broken \ {d}
    /\ UNCHANGED <<rows, memory, daemon, bounds>>

(* KillTask: the add task fails for good.                                  *)
KillAdd(d) ==
    /\ Fault
    /\ adder[d].pc \in {"get", "update"}
    /\ adds' = adds \ {d}
    /\ adder' = [adder EXCEPT ![d] = Idle]
    /\ UNCHANGED <<row, video, ingests, poller, torrent, outside>>

(* The daemon does not answer the poll.                                    *)
PollFails ==
    /\ Fault
    /\ poller.pc = "ask"
    /\ poller' = Sleeping
    /\ UNCHANGED <<rows, adder, torrent, outside>>

(* The server stops and starts again.                                      *)
Crash ==
    /\ Fault
    /\ adder' = [d \in Downloads |-> Idle]
    /\ poller' = Sleeping
    /\ torrent' = Nothing
    /\ UNCHANGED <<rows, outside>>

-----------------------------------------------------------------------------
Add(d) == AddTorrent(d) \/ AddAsks(d) \/ AddCommit(d) \/ AddReturns(d)
Poll == PollLists \/ PollAsks \/ PollApplies

Editor(d) ==
    \/ DownloadCreate(d) \/ TorrentAddedAgain(d) \/ Curate(d)
    \/ \E auto \in BOOLEAN : DownloadAutoImportSet(d, auto)
    \/ \E there \in {"trashed", "cascaded"} : Trash(d, there)
    \/ Restore(d) \/ RestoreWork(d) \/ Purge(d)

Next ==
    \/ Poll \/ TimePasses \/ PollFails \/ Crash
    \/ \E d \in Downloads :
         \/ Add(d) \/ AutoTrash(d) \/ (d \in Edited /\ Editor(d))
         \/ FileCompletes(d) \/ DaemonReports(d) \/ DaemonRecovers(d) \/ KillAdd(d)

Spec == Init /\ [][Next]_vars

(* The poller comes round every minute, a task is executed until it ends   *)
(* (TaskContract), and the daemon completes what it has.  Nothing is       *)
(* assumed of editors or of the auto-trash loop.                           *)
Fairness ==
    /\ WF_vars(Poll)
    /\ \A d \in Downloads : WF_vars(Add(d)) /\ WF_vars(FileCompletes(d))

FairSpec == Spec /\ Fairness
=============================================================================
