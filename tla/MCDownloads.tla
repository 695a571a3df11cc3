----------------------------- MODULE MCDownloads -----------------------------
(***************************************************************************)
(* Two torrents for TLC: one with two files, one with one.                 *)
(***************************************************************************)
EXTENDS DownloadsProps, TLC

CONSTANTS h1, h2, f1, f2, f3

MCSource == f1 :> h1 @@ f2 :> h1 @@ f3 :> h2
MCHistories == {[first |-> {h2}, clicks |-> 0, faults |-> 1],
                [first |-> {h2}, clicks |-> 1, faults |-> 0]}
=============================================================================
