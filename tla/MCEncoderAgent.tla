---------------------------- MODULE MCEncoderAgent ----------------------------
(***************************************************************************)
(* Two jobs for TLC.                                                       *)
(***************************************************************************)
EXTENDS EncoderAgentProps

CONSTANTS j1, j2
=============================================================================
