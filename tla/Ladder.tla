-------------------------------- MODULE Ladder --------------------------------
(***************************************************************************)
(* Which renditions of a source the server makes: video/ladder.go, and the *)
(* rows planAndCreateRenditions of model/ingest.go derives from its plan.  *)
(* A source is a record of what ffmpeg.Probe reports and the plan reads:   *)
(*   codec, kbps, height, fps; gap, the largest keyframe distance in       *)
(*   seconds (0 if unknown); dts, the first packet carries one; dovi, a    *)
(*   Dolby Vision base layer to convert; hdr, the VIDEO-RANGE label;       *)
(*   audio, a set of [index, channels, label]; subs, a set of indices.     *)
(*                                                                         *)
(* Abstracted: rates are whole frames per second; label stands for the     *)
(* title and the language of an audio stream.                              *)
(***************************************************************************)
EXTENDS Integers, Sequences

(* What a source is measured in.                                           *)
IsSource(src) ==
    /\ {src.kbps, src.height, src.fps} \subseteq Nat
    /\ \A a \in src.audio : a.channels \in Nat

Rungs == <<[kbps |-> 20000, height |-> 0,    fps |-> 0],
           [kbps |-> 5000,  height |-> 1080, fps |-> 0],
           [kbps |-> 3000,  height |-> 720,  fps |-> 0],
           [kbps |-> 1500,  height |-> 540,  fps |-> 30],
           [kbps |-> 420,   height |-> 540,  fps |-> 30]>>

topTierCeiling == 500000
reencodeThreshold == 450000
MaxRemuxKeyframeGap == 10

canRemux(src) ==
    /\ src.codec \in {"h264", "hevc"}
    /\ src.gap <= MaxRemuxKeyframeGap
    /\ src.dts
    /\ ~src.dovi

outCodec(src) == IF canRemux(src) /\ src.codec = "h264" THEN "h264" ELSE "hevc"

Best(src) ==
    LET remux == canRemux(src) /\ src.kbps <= topTierCeiling
    IN [remux |-> remux, codec |-> outCodec(src), height |-> 0, fps |-> 0,
        hdr |-> src.hdr,
        kbps |-> IF remux THEN src.kbps
                 ELSE IF ~canRemux(src) /\ src.kbps <= reencodeThreshold
                   THEN (src.kbps * 11) \div 10
                   ELSE topTierCeiling]

(* A cap is resolved when it is planned: 0 where the source is within it.  *)
Cap(limit, value) == IF limit > 0 /\ value > limit THEN limit ELSE 0

Rung(src, r) ==
    [remux |-> FALSE, codec |-> outCodec(src), hdr |-> src.hdr,
     kbps |-> IF src.fps > 0 /\ src.fps <= 25 THEN (r.kbps * 4) \div 5 ELSE r.kbps,
     height |-> Cap(r.height, src.height), fps |-> Cap(r.fps, src.fps)]

notAboveBest(src, r) == Rung(src, r).kbps <= Best(src).kbps    \* a mutant
belowBest(src, r) == Rung(src, r).kbps < Best(src).kbps

Lower(src) ==
    LET upTo[n \in 0 .. Len(Rungs)] ==
          IF n = 0 THEN <<>>
          ELSE IF belowBest(src, Rungs[n])
            THEN Append(upTo[n - 1], Rung(src, Rungs[n]))
            ELSE upTo[n - 1]
    IN upTo[Len(Rungs)]

(* A source whose bit rate is unknown is refused: the empty sequence.      *)
PlanVideoRenditions(src) ==
    IF src.kbps = 0 THEN <<>> ELSE <<Best(src)>> \o Lower(src)

(* Every stream as it is, and a stereo downmix of a surround stream that   *)
(* no stereo stream of the same label accompanies.                         *)
PlanAudioRenditions(src) ==
    {[track |-> a.index, channels |-> IF a.channels = 0 THEN 1 ELSE a.channels] :
        a \in src.audio}
    \cup
    {[track |-> a.index, channels |-> 2] :
        a \in {s \in src.audio : s.channels > 2 /\
                 ~\E t \in src.audio : t.channels = 2 /\ t.label = s.label}}

(* The rows of a video with this source.  The download is packaged with    *)
(* the parameters of the best streaming rendition.                         *)
Part(purpose, n, track, remux) ==
    [purpose |-> purpose, n |-> n, track |-> track, remux |-> remux]

Renditions(src) ==
    LET plan == PlanVideoRenditions(src)
    IN {Part("streaming", i, 0, plan[i].remux) : i \in DOMAIN plan}
       \cup {Part("download", 1, 0, plan[i].remux) : i \in DOMAIN plan \cap {1}}

AudioRenditions(src) ==
    {Part("audio", a.channels, a.track, FALSE) : a \in PlanAudioRenditions(src)}

SubtitleTracks(src) == {Part("subtitle", 0, s, FALSE) : s \in src.subs}

Parts(src) == Renditions(src) \cup AudioRenditions(src) \cup SubtitleTracks(src)
=============================================================================
