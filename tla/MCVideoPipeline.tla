--------------------------- MODULE MCVideoPipeline ---------------------------
(***************************************************************************)
(* Small instances of VideoPipeline for TLC.                               *)
(***************************************************************************)
EXTENDS VideoPipelineProps

CONSTANTS v1, v2, e1, e2, film, copy, slow, fast

(* 300 kbit/s and a codec to re-encode: a streaming rendition and a        *)
(* download, both with two passes, and a stereo track.                     *)
Foreign == [codec |-> "mpeg2video", kbps |-> 300, height |-> 480, fps |-> 30,
            gap |-> 0, dts |-> TRUE, dovi |-> FALSE, hdr |-> "",
            audio |-> {[index |-> 1, channels |-> 2, label |-> "main"]},
            subs |-> {}]
(* The same in H.264, with subtitles: both renditions are remuxed.         *)
Native == [Foreign EXCEPT !.codec = "h264", !.audio = {}, !.subs = {2}]

MCProbe == film :> Foreign @@ copy :> Native
MCFile == [v \in Videos |-> film]
MCReplaced == [v \in Videos |-> IF v = v1 THEN {copy} ELSE {}]
Import(V, c, f) == [videos |-> V, preset |-> slow, clicks |-> c, faults |-> f]
MCImports == {Import({v2}, 0, 0), Import({v1, v2}, 1, 0), Import({v1, v2}, 0, 1)}
MCCapacity == [disk |-> 1, cpu |-> 1]
(* One video and its re-encode, with a second slot to overtake in.         *)
MCOneImport == {Import({v1}, 0, 0)}
MCTwoSlots == [disk |-> 2, cpu |-> 2]
MCFirstLinks == {<<e1, v1>>, <<e2, v2>>}
=============================================================================
