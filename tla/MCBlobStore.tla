---------------------------- MODULE MCBlobStore ----------------------------
(***************************************************************************)
(* Small instances of BlobStore for TLC.                                   *)
(***************************************************************************)
EXTENDS BlobStoreProps, TLC

MCSymmetry == Permutations(Blobs \ Placeholders)
=============================================================================
