----------------------------- MODULE MCLiveUpdate -----------------------------
(***************************************************************************)
(* A page for TLC, with a task, an upload and a re-encode.                 *)
(***************************************************************************)
EXTENDS LiveUpdateProps

CONSTANTS p1, t1, u1, r1
=============================================================================
