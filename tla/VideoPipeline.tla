---------------------------- MODULE VideoPipeline ----------------------------
(***************************************************************************)
(* From a file to a playable video: the task functions of model/ingest.go  *)
(* and model/subtitle.go, which copy and probe a source, plan its          *)
(* renditions, analyse it, encode each rendition, and tear a ladder down   *)
(* to build another.                                                       *)
(*                                                                         *)
(* Tasks run as TaskContract promises: at least once until one execution   *)
(* ends the task, never twice at a time, several tasks at once.  An        *)
(* execution is a read of the rows, slow work outside any transaction, a   *)
(* write transaction, and later the deletion of the task: a crash between  *)
(* the last two runs the task again.  An error leaves the task to a retry. *)
(*                                                                         *)
(* Abstracted: bytes are a member of Contents with the probe Probe[c];     *)
(* blobs (BlobStore); an ID is a generation number no row, task, file or   *)
(* goroutine mentions; priorities and queues (any task may be next); what  *)
(* the encoder agent does with a job (EncoderAgent); the trash (Library).  *)
(***************************************************************************)
EXTENDS Ladder, FiniteSets, Functions, Bags

CONSTANTS
    Videos,
    Episodes,
    Contents, NoContent,
    Probe,          \* [Contents -> sources]: what ffmpeg.Probe says of them
    File,           \* [Videos -> Contents]: what the download holds
    Replaced,       \* [Videos -> SUBSET Contents]: what a reimport may find
    FirstLinks,     \* the table EpisodeVideo at the start
    Capacity,       \* tasks of a queue that are executed at a time
    Presets,        \* values of A3FFMPEGVIDEOPRESET over the restarts
    NoPreset,
    Imports,        \* where a history may begin: the videos being imported,
                    \* the preset, the requests and the faults already spent
    MaxGen,         \* bound on the ladders of a video that are around at once
    MaxClicks,      \* bound on the requests of editors
    MaxFaults,      \* bound on crashes, tool failures and early ingests
    Overtakes,      \* may two executions for one video overtake each other
                    \* where one of them needs milliseconds, the other minutes?
    PresetReplays,  \* may the preset change while a pass 1 is to be repeated?
    Backlog         \* may an encode wait for longer than the agent keeps stats?

ASSUME VideoPipelineAssumption ==
    /\ NoContent \notin Contents
    /\ \A c \in Contents : IsSource(Probe[c])
    /\ File \in [Videos -> Contents]
    /\ Replaced \in [Videos -> SUBSET Contents]
    /\ FirstLinks \subseteq Episodes \X Videos
    /\ NoPreset \notin Presets
    /\ \A i \in Imports :
         /\ i.videos \subseteq Videos /\ i.preset \in Presets
         /\ i.clicks \in 0 .. MaxClicks /\ i.faults \in 0 .. MaxFaults
    /\ Capacity \in [{"disk", "cpu"} -> Nat \ {0}]
    /\ {MaxGen, MaxClicks, MaxFaults} \subseteq Nat
    /\ {Overtakes, PresetReplays, Backlog} \subseteq BOOLEAN

VARIABLES
    video,      \* table Video: the rows there are
    rend,       \* tables Rendition, AudioRendition and SubtitleTrack: the
                \* content each row was made from, NoContent while Key = ''
    links,      \* table EpisodeVideo
    active,     \* its Active rows
    tasks,      \* table Task, a bag: queued, running or failed
    run,        \* the executions, a set
    stats,      \* pass-1 statistics on the agent: the preset, by rendition
    preset,     \* Model.videoPreset
    clicks, faults

tables == <<video, rend, links, active>>
bounds == <<preset, clicks, faults>>
vars == <<tables, tasks, run, stats, bounds>>

Key(v, g, part) == [video |-> v, gen |-> g, part |-> part]
AllParts == UNION {Parts(Probe[c]) : c \in Contents}
Rends == [video : Videos, gen : 1 .. MaxGen, part : AllParts]

(* args: a video, or a rendition and, for an encode, the preset.           *)
Task(type, arg) == [type |-> type, arg |-> arg, preset |-> NoPreset]
EncodeTask(r, p) ==
    [type |-> IF r.part.purpose = "download" THEN "encode-dl-rend" ELSE "encode-rend",
     arg |-> r, preset |-> p]
VideoTasks == {"ingest", "pass1", "extract-subs", "reimport", "reencode"}

queue(t) == IF t.type \in VideoTasks \ {"pass1"} THEN "disk" ELSE "cpu"
runningOn(q) == {x \in run : queue(x.task) = q}

NoVideo == [original |-> NoContent, probed |-> NoContent, playable |-> FALSE]

TypeOK ==
    /\ DOMAIN video \subseteq Videos
    /\ \A v \in DOMAIN video :
         video[v] \in [original : Contents \cup {NoContent},
                       probed : Contents \cup {NoContent}, playable : BOOLEAN]
    /\ DOMAIN rend \subseteq [video : DOMAIN video, gen : 1 .. MaxGen, part : AllParts]
    /\ \A r \in DOMAIN rend : rend[r] \in Contents \cup {NoContent}
    /\ links \subseteq Episodes \X DOMAIN video
    /\ active \subseteq links
    /\ \A t \in BagToSet(tasks) :
         IF t.type \in VideoTasks THEN t.arg \in Videos ELSE t.arg \in Rends
    /\ \A x \in run :
         /\ x.task \in BagToSet(tasks) /\ x.copy \in 1 .. Capacity[queue(x.task)]
         /\ x.key \in Contents \cup {NoContent}
         /\ x.todo \subseteq Rends
    /\ \A x, y \in run : x.task = y.task /\ x.copy = y.copy => x = y
    /\ \A q \in DOMAIN Capacity : Cardinality(runningOn(q)) <= Capacity[q]
    /\ DOMAIN stats \subseteq Rends
    /\ \A r \in DOMAIN stats : stats[r] \in Presets
    /\ preset \in Presets
    /\ clicks \in 0 .. MaxClicks
    /\ faults \in 0 .. MaxFaults

(* Each video is a file of a download whose import has been queued.        *)
Init ==
    \E i \in Imports :
      /\ video = [v \in i.videos |-> NoVideo]
      /\ rend = EmptyBag
      /\ links = {l \in FirstLinks : l[2] \in i.videos}
      /\ active = {}
      /\ tasks = SetToBag({Task("ingest", v) : v \in i.videos})
      /\ run = {}
      /\ stats = EmptyBag
      /\ preset = i.preset
      /\ clicks = i.clicks
      /\ faults = i.faults

-----------------------------------------------------------------------------
(* Tables.                                                                 *)

tracksOf(v) == IF v \notin DOMAIN video \/ video[v].probed = NoContent THEN {}
               ELSE {a.index : a \in Probe[video[v].probed].audio}
rowsOf(v) == {r \in DOMAIN rend : r.video = v}
renditionsOf(v) == {r \in rowsOf(v) : r.part.purpose \in {"streaming", "download"}}
reencodes(R) ==
    {r \in R : r.part.purpose \in {"streaming", "download"} /\ ~r.part.remux}
unmade == {r \in DOMAIN rend : rend[r] = NoContent}
batch(v) == {r \in DOMAIN stats : r.video = v}

copies(t) == IF t \in BagToSet(tasks) THEN tasks[t] ELSE 0
executions(t) == {x \in run : x.task = t}
videoOf(t) == IF t.type \in VideoTasks THEN t.arg ELSE t.arg.video
holders(v) == {x \in run : videoOf(x.task) = v}

(* newID(): a generation nothing mentions; MaxGen bounds them in the       *)
(* guards of those who plan.                                               *)
mentioned(v) ==
    {r.gen : r \in rowsOf(v) \cup batch(v)
             \cup {t.arg : t \in {u \in BagToSet(tasks) : u.type \notin VideoTasks
                                                          /\ u.arg.video = v}}
             \cup {r \in UNION {x.todo : x \in run} : r.video = v}}
unused(v) == 1 .. MaxGen \ mentioned(v)
newID(v) == CHOOSE g \in unused(v) : TRUE

(* Slip: an audio track that has no rendition yet is not waited for.       *)
anyStreaming(v, rows) ==
    \E r \in DOMAIN rows : /\ r.video = v /\ rows[r] # NoContent
                           /\ r.part.purpose = "streaming"

(* isPlayableMV: a streaming rendition, and a rendition of every track.    *)
isPlayableMV(v, rows) ==
    LET encoded == {r \in DOMAIN rows : r.video = v /\ rows[r] # NoContent}
    IN /\ \E r \in encoded : r.part.purpose = "streaming"
       /\ \A k \in tracksOf(v) : \E r \in encoded :
            r.part.purpose = "audio" /\ r.part.track = k

(* recomputePlayable, with ensureActiveVideoForVideoID: the episodes that  *)
(* have no active video get this one.                                      *)
recomputePlayable(v, rows) ==
    IF isPlayableMV(v, rows)
      THEN /\ video' = [video EXCEPT ![v].playable = TRUE]
           /\ active' = active \cup
                {l \in links : l[2] = v /\ ~\E k \in active : k[1] = l[1]}
      ELSE UNCHANGED <<video, active>>

(* Slip: the download rendition is forgotten.                              *)
allStreamingEncoded(v, rows) ==
    \A r \in DOMAIN rows :
        r \in renditionsOf(v) /\ r.part.purpose = "streaming" => rows[r] # NoContent

allRenditionsEncoded(v, rows) ==
    \A r \in DOMAIN rows : r \in renditionsOf(v) => rows[r] # NoContent

(* Slip: audio is left to the encode tasks of pass 1.                      *)
onlyPass1(v, g, c) ==
    {Task("pass1", v)} \cup {Task("extract-subs", v) : s \in Probe[c].subs}

(* planAndCreateRenditions: the rows and tasks of a new ladder.            *)
newRows(v, g, c) == {Key(v, g, part) : part \in Parts(Probe[c])}
newTasks(v, g, c) ==
    {Task("pass1", v)}
    \cup {Task("encode-audio", Key(v, g, part)) : part \in AudioRenditions(Probe[c])}
    \cup {Task("extract-subs", v) : s \in Probe[c].subs}

-----------------------------------------------------------------------------
(* Executions.                                                             *)

(* An execution: its task (copy tells equal tasks apart), where it is, and *)
(* what it has read: the key of the original, rows still to be dealt with. *)
Begin(t, pc, key, todo) ==
    /\ Cardinality(runningOn(queue(t))) < Capacity[queue(t)]
    /\ Cardinality(executions(t)) < copies(t)
    /\ LET n == CHOOSE i \in 1 .. Capacity[queue(t)] : \A x \in executions(t) : x.copy # i
       IN run' = run \cup {[task |-> t, copy |-> n, pc |-> pc, key |-> key, todo |-> todo]}
    /\ UNCHANGED <<tables, tasks, stats, bounds>>

(* It finds nothing to do and returns nil: the task is deleted.            *)
Drop(t) ==
    /\ Cardinality(executions(t)) < copies(t)
    /\ tasks' = tasks (-) SetToBag({t})
    /\ UNCHANGED <<tables, run, stats, bounds>>

Become(x, y) == run' = (run \ {x}) \cup {y}
Goto(x, pc) == Become(x, [x EXCEPT !.pc = pc])
Return(x) == Become(x, [x EXCEPT !.pc = "return", !.key = NoContent, !.todo = {}])

(* The function returned an error: the task is left to a retry.            *)
Error(x) ==
    /\ run' = run \ {x}
    /\ UNCHANGED <<tables, tasks, stats>>

(* The function returned nil: run deletes the task.                        *)
DeleteTask(x) ==
    /\ x.pc = "return"
    /\ tasks' = tasks (-) SetToBag({x.task})
    /\ run' = run \ {x}
    /\ UNCHANGED <<tables, stats, bounds>>

(* taskIngest.                                                             *)
StartIngest(v) ==
    IF v \in DOMAIN video /\ video[v].original = NoContent
      THEN Begin(Task("ingest", v), "copy", NoContent, {})
      ELSE Drop(Task("ingest", v))

(* retryIngest: the daemon has not moved the file to its place yet.        *)
IngestTooEarly(x) ==
    /\ x.pc = "copy" /\ x.task.type = "ingest"
    /\ faults < MaxFaults /\ faults' = faults + 1
    /\ tasks' = tasks (+) SetToBag({x.task})
    /\ Return(x)
    /\ UNCHANGED <<tables, stats, preset, clicks>>

winners(v, c) == {x \in DOMAIN video \ {v} : video[x].original = c}

(* EpisodeVideoReassign; slips: the loser's junctions are deleted first, or *)
(* left where they are.                                                    *)
leftAlone(loser, winner) == links
deleted(loser, winner) == {l \in links : l[2] # loser}
reassigned(loser, winner) ==
    {l \in links : l[2] # loser}
    \cup {<<l[1], winner>> : l \in {k \in links : k[2] = loser}}

(* mergeDuplicateVideo.  Rows that refer to the loser refuse the deletion. *)
Merge(x, loser, winner) ==
    IF rowsOf(loser) # {} THEN Error(x)
    ELSE /\ links' = reassigned(loser, winner)
         /\ active' = {l \in active : l[2] # loser}
         /\ video' = Restrict(video, DOMAIN video \ {loser})
         /\ Return(x)
         /\ UNCHANGED <<rend, tasks, stats>>

(* Tracks are UNIQUE (VideoID, StreamIndex): a second plan beside the      *)
(* first is refused if they have one in common.                            *)
sameTracks(v, c) ==
    \/ tracksOf(v) \cap {a.index : a \in Probe[c].audio} # {}
    \/ \E r \in rowsOf(v) : r.part.purpose = "subtitle"
                            /\ r.part.track \in Probe[c].subs

IngestCommit(x) ==
    /\ x.pc = "copy" /\ x.task.type = "ingest"
    /\ LET v == x.task.arg
           c == File[v]
       IN
         /\ \/ \E winner \in winners(v, c) : Merge(x, v, winner)
            \/ /\ winners(v, c) = {}
               /\ v \notin DOMAIN video \/ sameTracks(v, c)
               /\ Error(x)
            \/ /\ winners(v, c) = {}
               /\ v \in DOMAIN video /\ ~sameTracks(v, c)
               /\ unused(v) # {}
               /\ LET g == newID(v) IN
                    /\ rend' = [r \in DOMAIN rend \cup newRows(v, g, c) |->
                                  IF r \in DOMAIN rend THEN rend[r] ELSE NoContent]
                    /\ tasks' = tasks (+) SetToBag(newTasks(v, g, c))
               /\ video' = [video EXCEPT ![v].original = c, ![v].probed = c]
               /\ Return(x)
               /\ UNCHANGED <<links, active, stats>>
    /\ UNCHANGED bounds

(* taskIngestPass1.  A video that is gone, or has no renditions: an error. *)
StartPass1(v) ==
    /\ renditionsOf(v) # {}
    /\ Begin(Task("pass1", v),
             IF reencodes(renditionsOf(v)) = {} THEN "queue" ELSE "analyse",
             NoContent, renditionsOf(v))

(* Pass1Combined has written the statistics of each rendition.             *)
(* Slip: statistics that are there already are good enough.                *)
analysedOnce(R) ==
    [r \in DOMAIN stats \cup R |-> IF r \in DOMAIN stats THEN stats[r] ELSE preset]
analysed(R) ==
    [r \in DOMAIN stats \cup R |-> IF r \in R THEN preset ELSE stats[r]]

Pass1Analyses(x) ==
    /\ x.pc = "analyse"
    /\ Overtakes \/ \A y \in holders(x.task.arg) : y.pc # "release"
    /\ stats' = analysed(reencodes(x.todo))
    /\ Goto(x, "queue")
    /\ UNCHANGED <<tables, tasks, bounds>>

(* Slip: a remux needs no pass 1, so it is not queued from here.           *)
queueReencodes(R) == {EncodeTask(r, preset) : r \in reencodes(R)}
queueRenditions(R) == {EncodeTask(r, preset) : r \in R}

Pass1Commit(x) ==
    /\ x.pc = "queue"
    /\ tasks' = tasks (+) SetToBag(queueRenditions(x.todo))
    /\ Return(x)
    /\ UNCHANGED <<tables, stats, bounds>>

(* taskIngestEncodeRend, taskIngestEncodeDownloadRend and                  *)
(* taskIngestEncodeAudio begin alike; the second pass needs its statistics.*)
StartEncode(t) ==
    /\ t.type \in {"encode-rend", "encode-dl-rend", "encode-audio"}
    /\ IF t.arg \in unmade
         THEN /\ reencodes({t.arg}) \subseteq DOMAIN stats
              /\ Begin(t, "encode", video[t.arg.video].original, {t.arg})
         ELSE Drop(t)   \* gone, or encoded already

EncodeCommit(x) ==
    /\ x.pc = "encode"
    /\ LET r == x.task.arg
           rows == [rend EXCEPT ![r] = x.key]
           audio == x.task.type = "encode-audio"
       IN IF r \notin DOMAIN rend THEN Error(x)
          ELSE /\ rend' = rows
               /\ IF x.task.type = "encode-dl-rend"
                    THEN UNCHANGED <<video, active>>
                    ELSE recomputePlayable(r.video, rows)
               /\ IF ~audio /\ allRenditionsEncoded(r.video, rows)
                    THEN Goto(x, "release") ELSE Return(x)
               /\ UNCHANGED <<links, tasks, stats>>
    /\ UNCHANGED bounds

(* releasePass1Stats, after the transaction: the batch of the video.       *)
ReleaseStats(x) ==
    /\ x.pc = "release"
    /\ stats' = Restrict(stats, DOMAIN stats \ batch(x.task.arg.video))
    /\ Return(x)
    /\ UNCHANGED <<tables, tasks, bounds>>

(* taskIngestExtractSubs: one transaction per track, then the rebuild.     *)
StartExtractSubs(v) ==
    LET todo == {r \in unmade : r.video = v /\ r.part.purpose = "subtitle"}
    IN /\ v \in DOMAIN video
       /\ IF todo = {} THEN Drop(Task("extract-subs", v))
          ELSE Begin(Task("extract-subs", v), "extract", video[v].original, todo)

ExtractTrack(x) ==
    /\ x.pc = "extract"
    /\ \E r \in x.todo :
         IF r \notin DOMAIN rend THEN Error(x)
         ELSE /\ rend' = [rend EXCEPT ![r] = x.key]
              /\ Become(x, [x EXCEPT !.todo = @ \ {r},
                              !.pc = IF x.todo = {r} THEN "rebuild" ELSE @])
              /\ UNCHANGED <<video, links, active, tasks, stats>>
    /\ UNCHANGED bounds

RebuildAfterSubs(x) ==
    /\ x.pc = "rebuild"
    /\ IF x.task.arg \in DOMAIN video
         THEN recomputePlayable(x.task.arg, rend)
         ELSE UNCHANGED <<video, active>>
    /\ Return(x)
    /\ UNCHANGED <<rend, links, tasks, stats, bounds>>

(* taskReimport: the row keeps its ladder until taskReencode has run.      *)
(* Slip: the re-encode is left to the editor.                              *)
noTask(v) == {}
afterReimport(v) == {Task("reencode", v)}

StartReimport(v) ==
    /\ v \in DOMAIN video
    /\ Begin(Task("reimport", v), "copy", NoContent, {})

ReimportCommit(x, c) ==
    /\ x.pc = "copy" /\ x.task.type = "reimport"
    /\ LET v == x.task.arg IN
         /\ c \in Replaced[v]
         /\ IF v \notin DOMAIN video \/ winners(v, c) # {} THEN Error(x)
            ELSE /\ video' = [video EXCEPT ![v].original = c]
                 /\ tasks' = tasks (+) SetToBag(afterReimport(v))
                 /\ Return(x)
                 /\ UNCHANGED <<rend, links, active, stats>>
    /\ UNCHANGED bounds

(* taskReencode: probe, release the statistics, tear down and plan again.  *)
(* Slip: Playable is left as it is.                                        *)
replanned(v, c) == [video EXCEPT ![v].probed = c]
replannedAnew(v, c) == [video EXCEPT ![v].probed = c, ![v].playable = FALSE]
(* Slip: the audio renditions stay, as the source is the same.             *)
keptAudio(v) == DOMAIN rend \ {r \in rowsOf(v) : r.part.purpose # "audio"}
kept(v) == DOMAIN rend \ rowsOf(v)

StartReencode(v) ==
    /\ v \in DOMAIN video /\ video[v].original # NoContent
    /\ Overtakes \/ \A y \in holders(v) : y.task.type \notin {"ingest", "reencode"}
    /\ Begin(Task("reencode", v), "probe", video[v].original, {})

ReencodeReleases(x) ==
    /\ x.pc = "probe"
    /\ stats' = Restrict(stats, DOMAIN stats \ batch(x.task.arg))
    /\ Goto(x, "teardown")
    /\ UNCHANGED <<tables, tasks, bounds>>

ReencodeCommit(x) ==
    /\ x.pc = "teardown"
    /\ LET v == x.task.arg
           c == x.key
           g == newID(v)
       IN IF v \notin DOMAIN video THEN Error(x)
          ELSE /\ unused(v) # {}
               /\ rend' = [r \in kept(v) \cup newRows(v, g, c) |->
                             IF r \in kept(v) THEN rend[r] ELSE NoContent]
               /\ tasks' = tasks (+) SetToBag(newTasks(v, g, c))
               /\ video' = replannedAnew(v, c)
               /\ Return(x)
               /\ UNCHANGED <<links, active, stats>>
    /\ UNCHANGED bounds

-----------------------------------------------------------------------------
(* Editors, and what goes wrong.                                           *)

playableOf(e) == {l[2] : l \in {k \in links : k[1] = e /\ video[k[2]].playable}}
guardActiveVideo(v) ==
    \A l \in active : l[2] = v => Cardinality(playableOf(l[1])) <= 1

Click == clicks < MaxClicks /\ clicks' = clicks + 1 /\ UNCHANGED <<preset, faults>>

(* The daemon still has the torrent.                                       *)
ReimportVideo(v) ==
    /\ Click
    /\ Replaced[v] # {}
    /\ v \in DOMAIN video /\ guardActiveVideo(v)
    /\ tasks' = tasks (+) SetToBag({Task("reimport", v)})
    /\ UNCHANGED <<tables, run, stats>>

(* The page offers it once the video has an original.                      *)
ReencodeVideo(v) ==
    /\ Click
    /\ v \in DOMAIN video /\ video[v].original # NoContent /\ guardActiveVideo(v)
    /\ tasks' = tasks (+) SetToBag({Task("reencode", v)})
    /\ UNCHANGED <<tables, run, stats>>

(* The video is trashed and purged: its rows go with it.                   *)
PurgeVideo(v) ==
    /\ Click
    /\ v \in DOMAIN video /\ guardActiveVideo(v)
    /\ video' = Restrict(video, DOMAIN video \ {v})
    /\ rend' = Restrict(rend, DOMAIN rend \ rowsOf(v))
    /\ links' = {l \in links : l[2] # v}
    /\ active' = {l \in active : l[2] # v}
    /\ UNCHANGED <<tasks, run, stats>>

Fault == faults < MaxFaults /\ faults' = faults + 1 /\ UNCHANGED clicks

(* An I/O error, a kill, or a tool that fails, before the transaction.     *)
Fail(x) ==
    /\ Fault
    /\ x.pc \notin {"release", "return"}
    /\ Error(x)
    /\ UNCHANGED preset

(* A pass 1 that has committed and whose task is not deleted yet.          *)
toRepeat(v) ==
    /\ Task("pass1", v) \in BagToSet(tasks)
    /\ \E t \in BagToSet(tasks) : t.preset # NoPreset /\ t.arg.video = v

(* The server stops and starts again, perhaps with another preset.         *)
Crash ==
    /\ Fault
    /\ run' = {}
    /\ preset' \in IF PresetReplays \/ \A v \in Videos : ~toRepeat(v)
                     THEN Presets ELSE {preset}
    /\ UNCHANGED <<tables, tasks, stats>>

(* The agent starts and sweeps batches that nothing touched for a week.    *)
SweepOrphans(v) ==
    /\ batch(v) # {}
    /\ \/ Backlog
       \/ /\ holders(v) = {}
          /\ batch(v) \cap unmade = {}
    /\ stats' = Restrict(stats, DOMAIN stats \ batch(v))
    /\ UNCHANGED <<tables, tasks, run, bounds>>

-----------------------------------------------------------------------------
Start ==
    \/ \E v \in Videos :
         \/ StartIngest(v) \/ StartPass1(v) \/ StartExtractSubs(v)
         \/ StartReimport(v) \/ StartReencode(v)
    \/ \E t \in BagToSet(tasks) : StartEncode(t)

Step(x) ==
    \/ IngestCommit(x)
    \/ \E c \in Contents : ReimportCommit(x, c)
    \/ Pass1Analyses(x) \/ Pass1Commit(x)
    \/ EncodeCommit(x) \/ ReleaseStats(x)
    \/ ExtractTrack(x) \/ RebuildAfterSubs(x)
    \/ ReencodeReleases(x) \/ ReencodeCommit(x)
    \/ DeleteTask(x)

Progress == Start \/ \E x \in run : Step(x)

Next ==
    \/ Progress
    \/ \E x \in run : IngestTooEarly(x) \/ Fail(x)
    \/ \E v \in Videos :
         ReimportVideo(v) \/ ReencodeVideo(v) \/ PurgeVideo(v) \/ SweepOrphans(v)
    \/ Crash

Spec == Init /\ [][Next]_vars

(* Some task advances as long as one can: the dispatcher starts what is    *)
(* queued, and no execution blocks for ever.                               *)
Fairness == WF_vars(Progress)

FairSpec == Spec /\ Fairness
=============================================================================
