-------------------------- MODULE VideoPipelineProps --------------------------
(***************************************************************************)
(* What the pipeline of VideoPipeline.tla promises about the videos.       *)
(***************************************************************************)
EXTENDS VideoPipeline

(* Sources on both sides of every threshold of the ladder.                 *)
Rates == {0, 1, 380, 381, 382, 420, 421, 3000, 20000, 450000, 450001, 500000, 500001}
Heights == {0, 480, 540, 541, 1080, 2160}
FrameRates == {0, 24, 25, 26, 30, 60}

Stream(i, n, l) == [index |-> i, channels |-> n, label |-> l]
Layouts ==
    {{}, {Stream(1, 0, "none")}, {Stream(1, 6, "en"), Stream(2, 2, "fr")}}
    \cup
    {{Stream(1, n, k), Stream(2, 2, "en"), Stream(3, m, l)} :
        n \in {1, 2, 6}, m \in {2, 6, 8}, k \in {"en", "fr"}, l \in {"en", "fr"}}

Pictures ==
    [codec : {"h264", "hevc", "mpeg2video"}, kbps : Rates, height : Heights,
     fps : FrameRates, gap : {0, 10, 11}, dts : BOOLEAN, dovi : BOOLEAN,
     hdr : {"SDR"}, audio : {{}}, subs : {{}}]
Sounds ==
    [codec : {"hevc"}, kbps : {8000}, height : {2160}, fps : {24}, gap : {2},
     dts : {TRUE}, dovi : BOOLEAN, hdr : {"SDR", "PQ"}, audio : Layouts, subs : {{}}]
Sources == Pictures \cup Sounds

-----------------------------------------------------------------------------
(* Who will still do something about a row: the copies of a task that have *)
(* not been executed past the point where they would.                      *)

pending(type, v) ==
    copies(Task(type, v)) >
    Cardinality({x \in executions(Task(type, v)) : x.pc = "return"})

willVisit(type, r) ==
    copies(Task(type, r.video)) >
    Cardinality({x \in executions(Task(type, r.video)) : r \notin x.todo})

willEncode(r) == \E t \in BagToSet(tasks) : t.type \notin VideoTasks /\ t.arg = r

(* A ladder a player can use.                                              *)
Sound(src) ==
    LET plan == PlanVideoRenditions(src)
        audio == PlanAudioRenditions(src)
    IN /\ (plan = <<>>) = (src.kbps = 0)
       /\ \A i, j \in DOMAIN plan :
            /\ i < j => plan[j].kbps < plan[i].kbps
            /\ plan[i].codec = plan[j].codec /\ plan[i].hdr = plan[j].hdr
            /\ plan[i].remux => i = 1 /\ plan[i].codec = src.codec
            /\ plan[i].height < src.height \/ plan[i].height = 0
            /\ plan[i].fps < src.fps \/ plan[i].fps = 0
       /\ \A i \in DOMAIN plan \cap {1} :
            /\ plan[i].kbps \in 1 .. topTierCeiling
            /\ plan[i].height = 0 /\ plan[i].fps = 0
            /\ \E part \in Renditions(src) :
                 part.purpose = "download" /\ part.remux = plan[i].remux
            /\ plan[Len(plan)].kbps <= IF src.kbps > 420 THEN 420
                                      ELSE (src.kbps * 11) \div 10
       /\ \A a \in src.audio :
            /\ \E t \in audio : t.track = a.index /\ t.channels >= a.channels
            /\ a.channels > 2 =>
                 \E t \in audio, b \in src.audio :
                    t.track = b.index /\ b.label = a.label /\ t.channels = 2

SourcesAreSound == \A src \in Sources : Sound(src)

-----------------------------------------------------------------------------
\* A video that is marked playable has everything its playlist needs: a
\* streaming rendition and one of every audio track of the source it was
\* planned from, whatever executions of an older ladder still commit
\* (isPlayableMV: "a partially-encoded MV would either omit audio entries
\* (silent playback) or expose only a subset").
PlayableIsComplete ==
    \A v \in DOMAIN video : video[v].playable =>
        LET made == {r.part : r \in {x \in rowsOf(v) : x \notin unmade}}
        IN /\ \E part \in made : part.purpose = "streaming"
           /\ \A a \in Probe[video[v].probed].audio :
                \E part \in made : part.purpose = "audio" /\ part.track = a.index

\* No row is forgotten: a video without an original has an ingest coming,
\* one without a ladder a re-encode, and every rendition, audio rendition or
\* subtitle track without a file has a task that will make it, or one that
\* will queue that task (taskReencode: "so a failure can't leave the video
\* stripped of renditions with nothing queued to rebuild it").
NothingStranded ==
    /\ \A v \in DOMAIN video :
         /\ video[v].original = NoContent => pending("ingest", v)
         /\ video[v].original # NoContent /\ video[v].probed = NoContent
              => pending("reencode", v)
    /\ \A r \in unmade :
         CASE r.part.purpose = "audio" -> willEncode(r)
           [] r.part.purpose = "subtitle" -> willVisit("extract-subs", r)
           [] OTHER -> willEncode(r) \/ willVisit("pass1", r)

\* An encode that is still to come finds the statistics of its first pass:
\* no release, of this ladder or of an earlier one, and no sweep of the agent
\* comes before it, unless the row itself is about to be torn down
\* (allRenditionsEncoded: "no further encode task will need the pass-1 stats
\* directory").
EncodeHasStats ==
    \A r \in reencodes(unmade) : willEncode(r) =>
        \/ r \in DOMAIN stats
        \/ pending("reencode", r.video)

\* An encode uses the preset its statistics were made with, "even when the
\* configured preset changes.  They must match." (taskIngestPass1)
PresetsMatch ==
    \A t \in BagToSet(tasks) :
        t.preset # NoPreset /\ t.arg \in unmade \cap DOMAIN stats
          => stats[t.arg] = t.preset

\* All of a video comes from one file: a ladder planned or encoded from
\* other bytes than the row's original is there only until the re-encode
\* that is coming, though a reimport replaces the original under executions
\* that have opened the old one.
OneSource ==
    \A v \in DOMAIN video :
        \/ pending("reencode", v)
        \/ /\ video[v].probed \in {video[v].original, NoContent}
           /\ \A r \in rowsOf(v) : rend[r] \in {video[v].original, NoContent}

\* A video has one ladder: nothing is planned twice, not by an ingest that
\* was queued twice, nor by a re-encode that is executed again.
OneLadder ==
    \A q, r \in DOMAIN rend : q.video = r.video /\ q.part = r.part => q = r

\* A video row disappears without an editor's request only when another
\* video holds the same bytes, and then its episodes keep a video.
MergeKeepsEpisodes ==
    [][\A v \in DOMAIN video \ DOMAIN video' :
          \/ clicks' # clicks
          \/ \A l \in links : l[2] = v =>
               \E k \in links' : k[1] = l[1] /\ video'[k[2]].original = File[v]]_vars

\* What the ladder of a source is for, of a video and over the cases of Sources: every
\* step down costs less bandwidth than the one before, nothing is scaled up
\* or speeded up, the best rendition keeps the size of the source within the
\* ceiling, a player may switch between any two (one codec, one VIDEO-RANGE),
\* a slow line is served by the lowest rung, every audio stream is there as
\* it is and every label in stereo, and the download has the parameters of
\* the best (PlanVideoRenditions, PlanAudioRenditions).
LadderIsSound ==
    /\ \A v \in DOMAIN video :
         video[v].probed # NoContent => Sound(Probe[video[v].probed])
    /\ SourcesAreSound

\* An episode with a playable video shows one (ensureActiveVideoForVideoID:
\* "run after a video transitions to playable [...] or after a junction set
\* changes").
PlayableIsShown ==
    \A l \in links : video[l[2]].playable => \E k \in active : k[1] = l[1]

\* Every video is completed again and again: whatever fails, stops or is
\* asked for, it ends up with every row made and playable.
EverythingIsMade ==
    \A v \in Videos : []<>(v \in DOMAIN video =>
        video[v].playable /\ rowsOf(v) \cap unmade = {})
=============================================================================
