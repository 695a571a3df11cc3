---------------------------- MODULE BlobStoreProps ----------------------------
(***************************************************************************)
(* The properties of BlobStore.                                            *)
(***************************************************************************)
EXTENDS BlobStore

(* The sweep never takes a blob somebody needs: every key in a row, and    *)
(* every key a flow is still going to record, names a file.  The snapshot  *)
(* of the rows may be stale and the key may have been recorded after it,   *)
(* so this rests on the grace period alone (comment of blobGCGrace).       *)
NoLiveBlobSwept == \A b \in rows \cup held : file[b] = "keyed"

(* A file that is being streamed keeps its temporary name until the rename *)
(* (Sweep: "safe to run concurrently with blob creation").                 *)
StreamKeepsTemp ==
    \A f \in Flows \ Encodes : temp[f] # NoBlob => file[temp[f]] = "temp"

(* The same for an encode that has collected its output: the rename finds  *)
(* it, whatever the sweep is doing.                                        *)
EncodeKeepsResult ==
    \A f \in Encodes : pc[f] = "written" => file[temp[f]] = "temp"

(* A file nobody needs any more is removed, whether a crash left it under  *)
(* its temporary name or its key is recorded nowhere ("a blob whose key is *)
(* recorded nowhere is garbage, and Sweep removes such blobs once they are *)
(* old enough").                                                           *)
garbage(b) ==
    /\ file[b] # "absent"
    /\ b \notin rows \cup held
    /\ \A f \in Flows : temp[f] # b
GarbageIsCollected == \A b \in Blobs : garbage(b) ~> file[b] = "absent"
=============================================================================
