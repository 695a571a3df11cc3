---------------------------- MODULE BlobStoreProof ----------------------------
(***************************************************************************)
(* Proofs about BlobStore, for any flows, blobs, batch and grace period.   *)
(*                                                                         *)
(* The collector works from three things it read at different moments: the *)
(* cutoff, the rows, and the age of the file at hand.  The invariant ties  *)
(* them: what a flow holds is never in aged, so by the time it is recorded *)
(* the cutoff of the current sweep spares it, even when the snapshot of    *)
(* the rows is too old to show it.                                         *)
(***************************************************************************)
EXTENDS BlobStoreProps, TLAPS

USE BlobStoreAssumption

(* Neither the cutoff in force nor the next one can hit b.                 *)
young(b) == age[b] <= Grace /\ b \notin aged

(* What a flow has made and not recorded is protected by its age.          *)
HeldIsYoung == \A f \in Flows : \A b \in keys[f] : file[b] = "keyed" /\ young(b)

(* What is recorded has its file, and the sweep spares it: by the cutoff,  *)
(* or by the snapshot.                                                     *)
RowsAreKept ==
    \A b \in rows : /\ file[b] = "keyed"
                    /\ gc = "sweep" /\ b \in aged => b \in live

(* A temporary file has one owner.  It is young, unless it belongs to an   *)
(* encode that has yet to collect.                                         *)
TempIsOwn ==
    /\ \A f \in Flows : temp[f] # NoBlob <=> pc[f] \in {"writing", "written"}
    /\ \A f \in Flows : temp[f] # NoBlob =>
         /\ temp[f] \notin rows
         /\ \A g \in Flows : temp[f] \notin keys[g]
         /\ \A g \in Flows : g # f => temp[g] # temp[f]
         /\ file[temp[f]] \in {"temp", "absent"}
         /\ f \notin Encodes => file[temp[f]] = "temp" /\ young(temp[f])
         /\ pc[f] = "written" => young(temp[f])

(* What the walk is about to remove is nobody's, save that it may be the   *)
(* temporary file of an encode.                                            *)
VictimIsGarbage ==
    victim # NoVictim =>
      /\ gc = "sweep"
      /\ \A f \in Flows \ Encodes : temp[f] # victim.blob
      /\ victim.name = "keyed" =>
           /\ victim.blob \notin rows
           /\ \A f \in Flows : victim.blob \notin keys[f]
           /\ \A f \in Flows : temp[f] # victim.blob

(* The inductive invariant.                                                *)
IInv ==
    /\ TypeOK
    /\ HeldIsYoung
    /\ RowsAreKept
    /\ TempIsOwn
    /\ VictimIsGarbage

-----------------------------------------------------------------------------
(* A new temporary file is young, and its name nobody else's.              *)
LEMMA CreateKeeps ==
  ASSUME IInv, NEW f \in Flows, NEW b \in Blobs, Create(f, b)
  PROVE  IInv'
  <1> USE DEF IInv, Create, fresh, held, Touch, dirVars, flowVars, gcVars
  <1>1. TypeOK'
    BY DEF TypeOK
  <1>2. HeldIsYoung'
    BY DEF HeldIsYoung, young
  <1>3. RowsAreKept'
    BY DEF RowsAreKept
  <1>4. TempIsOwn'
    BY DEF TypeOK, TempIsOwn, young
  <1>5. VictimIsGarbage'
    BY DEF VictimIsGarbage
  <1>6. QED
    BY <1>1, <1>2, <1>3, <1>4, <1>5

(* Writing to a stream makes its file young again.                         *)
LEMMA WriteChunkKeeps ==
  ASSUME IInv, NEW f \in Flows, WriteChunk(f)
  PROVE  IInv'
  <1> USE DEF IInv, WriteChunk, Touch, dirVars, flowVars, gcVars
  <1>1. TypeOK'
    BY DEF TypeOK
  <1>2. HeldIsYoung'
    BY DEF TypeOK, HeldIsYoung, young
  <1>3. RowsAreKept'
    BY DEF RowsAreKept
  <1>4. TempIsOwn'
    BY DEF TypeOK, TempIsOwn, young
  <1>5. VictimIsGarbage'
    BY DEF VictimIsGarbage
  <1>6. QED
    BY <1>1, <1>2, <1>3, <1>4, <1>5

(* The encode's file is written at last: young from here to the rename,    *)
(* but the walk may have chosen it already.                                *)
LEMMA CollectIntoKeeps ==
  ASSUME IInv, NEW f \in Flows, CollectInto(f)
  PROVE  IInv'
  <1> USE DEF IInv, CollectInto, Touch, dirVars, flowVars, gcVars
  <1>1. TypeOK'
    BY DEF TypeOK, TempIsOwn
  <1>2. HeldIsYoung'
    BY DEF HeldIsYoung, TempIsOwn, young
  <1>3. RowsAreKept'
    BY DEF RowsAreKept, TempIsOwn
  <1>4. TempIsOwn'
    BY DEF TypeOK, TempIsOwn, young
  <1>5. VictimIsGarbage'
    BY DEF VictimIsGarbage
  <1>6. QED
    BY <1>1, <1>2, <1>3, <1>4, <1>5

(* The temporary file becomes a held blob, as young as it was; a victim    *)
(* chosen under the temporary name is none of it.                          *)
LEMMA RenameKeeps ==
  ASSUME IInv, NEW f \in Flows, Rename(f)
  PROVE  IInv'
  <1> USE DEF IInv, Rename, dirVars, flowVars, gcVars
  <1>1. TypeOK'
    BY DEF TypeOK, TempIsOwn
  <1>2. HeldIsYoung'
    BY DEF TypeOK, HeldIsYoung, TempIsOwn, young
  <1>3. RowsAreKept'
    BY DEF RowsAreKept
  <1>4. TempIsOwn'
    BY DEF TypeOK, TempIsOwn, young
  <1>5. VictimIsGarbage'
    BY DEF TypeOK, VictimIsGarbage
  <1>6. QED
    BY <1>1, <1>2, <1>3, <1>4, <1>5

(* The encode whose file was swept leaves with nothing.                    *)
LEMMA RenameFailsKeeps ==
  ASSUME IInv, NEW f \in Flows, RenameFails(f)
  PROVE  IInv'
  <1> USE DEF IInv, RenameFails, Leave, dirVars, flowVars, gcVars
  <1>1. TypeOK'
    BY DEF TypeOK
  <1>2. HeldIsYoung'
    BY DEF HeldIsYoung, young
  <1>3. RowsAreKept'
    BY DEF RowsAreKept
  <1>4. TempIsOwn'
    BY DEF TypeOK, TempIsOwn, young
  <1>5. VictimIsGarbage'
    BY DEF TypeOK, VictimIsGarbage
  <1>6. QED
    BY <1>1, <1>2, <1>3, <1>4, <1>5

(* A flow leaves; what it held becomes garbage.                            *)
LEMMA GiveUpKeeps ==
  ASSUME IInv, NEW f \in Flows, GiveUp(f)
  PROVE  IInv'
  <1> USE DEF IInv, GiveUp, Leave, Unlink, Touch, dirVars, flowVars, gcVars
  <1>1. TypeOK'
    BY DEF TypeOK
  <1>2. HeldIsYoung'
    BY DEF TypeOK, HeldIsYoung, young
  <1>3. RowsAreKept'
    BY DEF TypeOK, RowsAreKept
  <1>4. TempIsOwn'
    BY DEF TypeOK, TempIsOwn, young
  <1>5. VictimIsGarbage'
    BY DEF TypeOK, VictimIsGarbage
  <1>6. QED
    BY <1>1, <1>2, <1>3, <1>4, <1>5

(* What was held is recorded: not in the snapshot perhaps, but young, so   *)
(* not in aged.                                                            *)
LEMMA RecordKeysKeeps ==
  ASSUME IInv, NEW f \in Flows, RecordKeys(f)
  PROVE  IInv'
  <1> USE DEF IInv, RecordKeys, Leave, dirVars, flowVars, gcVars
  <1>1. TypeOK'
    BY DEF TypeOK
  <1>2. HeldIsYoung'
    BY DEF HeldIsYoung, young
  <1>3. RowsAreKept'
    BY DEF RowsAreKept, HeldIsYoung, young
  <1>4. TempIsOwn'
    BY DEF TempIsOwn, young
  <1>5. VictimIsGarbage'
    BY DEF TypeOK, VictimIsGarbage
  <1>6. QED
    BY <1>1, <1>2, <1>3, <1>4, <1>5

(* Forgetting a key only makes garbage.                                    *)
LEMMA DropRowKeeps ==
  ASSUME IInv, NEW b \in Blobs, DropRow(b)
  PROVE  IInv'
  <1> USE DEF IInv, DropRow, dirVars, flowVars, gcVars
  <1>1. TypeOK'
    BY DEF TypeOK
  <1>2. HeldIsYoung'
    BY DEF HeldIsYoung, young
  <1>3. RowsAreKept'
    BY DEF RowsAreKept
  <1>4. TempIsOwn'
    BY DEF TempIsOwn, young
  <1>5. VictimIsGarbage'
    BY DEF VictimIsGarbage
  <1>6. QED
    BY <1>1, <1>2, <1>3, <1>4, <1>5

(* Ages grow; what is held stays within the grace period.                  *)
LEMMA TimePassesKeeps ==
  ASSUME IInv, TimePasses
  PROVE  IInv'
  <1> USE DEF IInv, TimePasses, held, inGrace, dirVars, flowVars, gcVars
  <1>1. TypeOK'
    BY DEF TypeOK
  <1>2. HeldIsYoung'
    BY DEF TypeOK, HeldIsYoung, young
  <1>3. RowsAreKept'
    BY DEF RowsAreKept
  <1>4. TempIsOwn'
    BY DEF TypeOK, TempIsOwn, young
  <1>5. VictimIsGarbage'
    BY DEF VictimIsGarbage
  <1>6. QED
    BY <1>1, <1>2, <1>3, <1>4, <1>5

(* The cutoff spares what is younger than the grace period, so all that is *)
(* held.                                                                   *)
LEMMA WakeKeeps ==
  ASSUME IInv, Wake
  PROVE  IInv'
  <1> USE DEF IInv, Wake, older, dirVars, flowVars, gcVars
  <1>1. TypeOK'
    BY DEF TypeOK
  <1>2. HeldIsYoung'
    BY DEF TypeOK, HeldIsYoung, young
  <1>3. RowsAreKept'
    BY DEF RowsAreKept
  <1>4. TempIsOwn'
    BY DEF TypeOK, TempIsOwn, young
  <1>5. VictimIsGarbage'
    BY DEF VictimIsGarbage
  <1>6. QED
    BY <1>1, <1>2, <1>3, <1>4, <1>5

(* Every row of this moment is in the snapshot.                            *)
LEMMA ScanKeeps ==
  ASSUME IInv, Scan
  PROVE  IInv'
  <1> USE DEF IInv, Scan, dirVars, flowVars, gcVars
  <1>1. TypeOK'
    BY DEF TypeOK
  <1>2. HeldIsYoung'
    BY DEF HeldIsYoung, young
  <1>3. RowsAreKept'
    BY DEF RowsAreKept
  <1>4. TempIsOwn'
    BY DEF TempIsOwn, young
  <1>5. VictimIsGarbage'
    BY DEF VictimIsGarbage
  <1>6. QED
    BY <1>1, <1>2, <1>3, <1>4, <1>5

(* The victim is condemned: old, and temporary or recorded nowhere in the  *)
(* snapshot; so nobody's.                                                  *)
LEMMA StatKeeps ==
  ASSUME IInv, NEW b \in Blobs, Stat(b)
  PROVE  IInv'
  <1> USE DEF IInv, Stat, condemned, dirVars, flowVars, gcVars
  <1>1. TypeOK'
    BY DEF TypeOK
  <1>2. HeldIsYoung'
    BY DEF HeldIsYoung, young
  <1>3. RowsAreKept'
    BY DEF RowsAreKept
  <1>4. TempIsOwn'
    BY DEF TempIsOwn, young
  <1>5. VictimIsGarbage'
    BY DEF VictimIsGarbage, TempIsOwn, HeldIsYoung, RowsAreKept, young
  <1>6. QED
    BY <1>1, <1>2, <1>3, <1>4, <1>5

(* Removing the victim harms no row, no held key and no stream.            *)
LEMMA RemoveKeeps ==
  ASSUME IInv, Remove
  PROVE  IInv'
  <1> USE DEF IInv, Remove, Unlink, Touch, dirVars, flowVars, gcVars
  <1>1. TypeOK'
    BY DEF TypeOK
  <1>2. HeldIsYoung'
    BY DEF TypeOK, HeldIsYoung, young, VictimIsGarbage
  <1>3. RowsAreKept'
    BY DEF TypeOK, RowsAreKept, VictimIsGarbage
  <1>4. TempIsOwn'
    BY DEF TypeOK, TempIsOwn, young, VictimIsGarbage
  <1>5. VictimIsGarbage'
    BY DEF VictimIsGarbage
  <1>6. QED
    BY <1>1, <1>2, <1>3, <1>4, <1>5

(* The collector goes to sleep.                                            *)
LEMMA SweepEndsKeeps ==
  ASSUME IInv, SweepEnds
  PROVE  IInv'
  <1> USE DEF IInv, SweepEnds, dirVars, flowVars, gcVars
  <1>1. TypeOK'
    BY DEF TypeOK
  <1>2. HeldIsYoung'
    BY DEF HeldIsYoung, young
  <1>3. RowsAreKept'
    BY DEF RowsAreKept
  <1>4. TempIsOwn'
    BY DEF TempIsOwn, young
  <1>5. VictimIsGarbage'
    BY DEF VictimIsGarbage
  <1>6. QED
    BY <1>1, <1>2, <1>3, <1>4, <1>5

(* A crash leaves files and rows, and no flow.                             *)
LEMMA CrashKeeps ==
  ASSUME IInv, Crash
  PROVE  IInv'
  <1> USE DEF IInv, Crash, dirVars, flowVars, gcVars
  <1>1. TypeOK'
    BY DEF TypeOK
  <1>2. HeldIsYoung'
    BY DEF HeldIsYoung
  <1>3. RowsAreKept'
    BY DEF RowsAreKept
  <1>4. TempIsOwn'
    BY DEF TempIsOwn
  <1>5. VictimIsGarbage'
    BY DEF VictimIsGarbage
  <1>6. QED
    BY <1>1, <1>2, <1>3, <1>4, <1>5

-----------------------------------------------------------------------------
(* The flows are idle and the only files are the placeholders, recorded    *)
(* and old: nothing is held, and no sweep has begun.                       *)
LEMMA InitInv == Init => IInv
  <1> SUFFICES ASSUME Init PROVE IInv
    OBVIOUS
  <1> USE DEF Init
  <1>1. TypeOK
    BY DEF TypeOK, NoVictim
  <1>2. HeldIsYoung /\ RowsAreKept /\ TempIsOwn /\ VictimIsGarbage
    BY DEF HeldIsYoung, RowsAreKept, TempIsOwn, VictimIsGarbage, NoVictim
  <1>3. QED
    BY <1>1, <1>2 DEF IInv

(* The invariant is inductive: one lemma above for each action.            *)
LEMMA StepInv == IInv /\ [Next]_vars => IInv'
  <1> SUFFICES ASSUME IInv, [Next]_vars PROVE IInv'
    OBVIOUS
  <1>1. ASSUME NEW f \in Flows, FlowStep(f) PROVE IInv'
    BY <1>1, CreateKeeps, WriteChunkKeeps, CollectIntoKeeps, RenameKeeps,
       RenameFailsKeeps, GiveUpKeeps, RecordKeysKeeps DEF FlowStep
  <1>2. ASSUME NEW b \in Blobs, DropRow(b) PROVE IInv'
    BY <1>2, DropRowKeeps
  <1>3. CASE TimePasses
    BY <1>3, TimePassesKeeps
  <1>4. CASE Collector
    BY <1>4, WakeKeeps, ScanKeeps, StatKeeps, RemoveKeeps, SweepEndsKeeps
       DEF Collector
  <1>5. CASE Crash
    BY <1>5, CrashKeeps
  <1>6. CASE UNCHANGED vars
    BY <1>6 DEF vars, dirVars, flowVars, gcVars, IInv, TypeOK, HeldIsYoung,
       RowsAreKept, TempIsOwn, VictimIsGarbage, young
  <1>7. QED
    BY <1>1, <1>2, <1>3, <1>4, <1>5, <1>6 DEF Next

(* In every behaviour of the store and its collector the invariant holds.  *)
THEOREM StoreInvariant == Spec => []IInv
  <1>1. QED
    BY InitInv, StepInv, PTL DEF Spec

(* The variables keep their types: in particular the directory never holds *)
(* a blob under both names, and no age leaves the range that the collector *)
(* tells apart.                                                            *)
THEOREM TypeCorrect == Spec => []TypeOK
  <1>1. IInv => TypeOK
    BY DEF IInv
  <1>2. QED
    BY <1>1, StoreInvariant, PTL

(* The daily sweep of model/gc.go removes no blob that a row names or that *)
(* a flow is still going to record, however its three stale readings of    *)
(* the cutoff, the rows and the directory interleave with the flows.       *)
THEOREM BlobsAreSafe == Spec => []NoLiveBlobSwept
  <1>1. IInv => NoLiveBlobSwept
    BY DEF IInv, HeldIsYoung, RowsAreKept, NoLiveBlobSwept, held
  <1>2. QED
    BY <1>1, StoreInvariant, PTL

(* Dir.Copy's temporary file is there when the copy ends and the rename    *)
(* comes, whatever the sweep does in the meantime.                         *)
THEOREM StreamsAreSafe == Spec => []StreamKeepsTemp
  <1>1. IInv => StreamKeepsTemp
    BY DEF IInv, TempIsOwn, StreamKeepsTemp
  <1>2. QED
    BY <1>1, StoreInvariant, PTL
=============================================================================
