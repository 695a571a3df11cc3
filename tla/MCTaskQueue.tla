---------------------------- MODULE MCTaskQueue ----------------------------
(***************************************************************************)
(* Small instances of TaskQueue for TLC, and its properties.               *)
(***************************************************************************)
EXTENDS TaskQueueProps, TLC

(* Two tasks as wide as the queue, like pass 1 before it knows how many    *)
(* renditions it encodes: one turns out narrower, one wider.               *)
MCWeight == [t \in Tasks |-> 2]
MCLearns == [t \in Tasks |-> IF t = 1 THEN {1} ELSE {3}]
(* Two encodes of EncoderThreads, which turn out to be of a top rendition  *)
(* and use TopEncoderThreads, twice as many.                               *)
MCEncodes == [t \in Tasks |-> 1]
MCTopRenditions == [t \in Tasks |-> {2}]
MCSymmetry == Permutations(Keys)
=============================================================================
