------------------------------ MODULE BlobStore ------------------------------
(***************************************************************************)
(* The blob store of storage/ and its garbage collector, model/gc.go.      *)
(*                                                                         *)
(* A blob is a file that a flow (an upload, an ingest, an encode, an image *)
(* variant) writes under a temporary name, renames to a random key, and    *)
(* whose key the flow then records in a row.  Nothing but the age of a     *)
(* file protects it before it is recorded: once a day gcBlobsLoop computes *)
(* a cutoff, reads the keys of every row in one read transaction, and then *)
(* walks the directory, concurrently with everything else, removing what   *)
(* is older than the cutoff and not in that snapshot.                      *)
(*                                                                         *)
(* Abstracted: contents; a blob keeps its identity through the rename and  *)
(* under its key.  Keys and temporary names are random and never collide.  *)
(* The rows are the set of the keys some row holds.                        *)
(***************************************************************************)
EXTENDS Integers, FiniteSets

CONSTANTS
    Flows,          \* goroutines that create blobs
    Encodes,        \* those that have the encoder agent write the file
    Blobs,
    NoBlob,
    Placeholders,   \* blobs of the placeholder images: recorded at boot
    Batch,          \* bound on the blobs a flow records in one transaction
    Grace,          \* blobGCGrace
    MaxCrashes      \* bound on the number of crashes

ASSUME BlobStoreAssumption ==
    /\ Encodes \subseteq Flows
    /\ NoBlob \notin Blobs
    /\ Placeholders \subseteq Blobs
    /\ Placeholders # {}
    /\ Batch \in Nat \ {0}
    /\ Grace \in Nat
    /\ MaxCrashes \in Nat

VARIABLES
    file,       \* the store's directory: how each blob is named in it
    age,        \* time since ModTime, as far as the grace period tells apart
    rows,       \* the keys recorded in the database
    pc,         \* of each flow
    temp,       \* the blob a flow is writing, under its temporary name
    keys,       \* what a flow has created and not yet recorded
    gc,         \* the collector: where it is
    aged,       \* the files last modified before its cutoff
    live,       \* its snapshot of rows
    victim,     \* the path the walk is about to remove
    crashes     \* crashes so far

dirVars == <<file, age>>
flowVars == <<pc, temp, keys>>
gcVars == <<gc, aged, live, victim>>
vars == <<dirVars, rows, flowVars, gcVars, crashes>>

NoVictim == [blob |-> NoBlob, name |-> "absent"]

TypeOK ==
    /\ file \in [Blobs -> {"absent", "temp", "keyed"}]
    /\ age \in [Blobs -> 0 .. Grace + 1]
    /\ rows \subseteq Blobs
    /\ pc \in [Flows -> {"idle", "writing", "written", "between"}]
    /\ temp \in [Flows -> Blobs \cup {NoBlob}]
    /\ keys \in [Flows -> SUBSET Blobs]
    /\ gc \in {"asleep", "scan", "sweep"}
    /\ aged \subseteq Blobs
    /\ live \subseteq Blobs
    /\ victim \in [blob : Blobs, name : {"temp", "keyed"}] \cup {NoVictim}
    /\ crashes \in 0 .. MaxCrashes

(* Placeholder images were inserted at the first boot, long ago.           *)
Init ==
    /\ file = [b \in Blobs |-> IF b \in Placeholders THEN "keyed" ELSE "absent"]
    /\ age = [b \in Blobs |-> IF b \in Placeholders THEN Grace + 1 ELSE 0]
    /\ rows = Placeholders
    /\ pc = [f \in Flows |-> "idle"]
    /\ temp = [f \in Flows |-> NoBlob]
    /\ keys = [f \in Flows |-> {}]
    /\ gc = "asleep"
    /\ aged = {}
    /\ live = {}
    /\ victim = NoVictim
    /\ crashes = 0

-----------------------------------------------------------------------------
(* Flows: Dir.Copy, Dir.Clone and Dir.CreateFunc, and their callers.       *)

held == UNION {keys[f] : f \in Flows}
fresh(b) ==
    /\ file[b] = "absent"
    /\ b \notin rows \cup held
    /\ \A f \in Flows : temp[f] # b
    /\ victim.blob # b

(* What the file system does to the ModTime of a file.                     *)
Touch(b) ==
    /\ age' = [age EXCEPT ![b] = 0]
    /\ aged' = aged \ {b}

Unlink(b) ==
    /\ file' = [file EXCEPT ![b] = "absent"]
    /\ Touch(b)

Create(f, b) ==
    /\ pc[f] \in {"idle", "between"}
    /\ Cardinality(keys[f]) < Batch
    /\ fresh(b)
    /\ file' = [file EXCEPT ![b] = "temp"]
    /\ Touch(b)
    /\ pc' = [pc EXCEPT ![f] = "writing"]
    /\ temp' = [temp EXCEPT ![f] = b]
    /\ UNCHANGED <<rows, keys, gc, live, victim, crashes>>

(* A chunk of the stream, written through the open file.  If the sweep has *)
(* unlinked the name, the bytes go to a file that has none.                *)
WriteChunk(f) ==
    /\ f \notin Encodes
    /\ pc[f] \in {"writing", "written"}
    /\ IF file[temp[f]] = "temp"
         THEN Touch(temp[f])
         ELSE UNCHANGED <<age, aged>>
    /\ pc' = [pc EXCEPT ![f] = "written"]
    /\ UNCHANGED <<file, rows, temp, keys, gc, live, victim, crashes>>

(* The encoder writes in its own job directory; at the end collectInto     *)
(* opens the temporary file by name, creating it again if it is gone.      *)
CollectInto(f) ==
    /\ f \in Encodes
    /\ pc[f] = "writing"
    /\ file' = [file EXCEPT ![temp[f]] = "temp"]
    /\ Touch(temp[f])
    /\ pc' = [pc EXCEPT ![f] = "written"]
    /\ UNCHANGED <<rows, temp, keys, gc, live, victim, crashes>>

Rename(f) ==
    /\ pc[f] = "written"
    /\ file[temp[f]] = "temp"
    /\ file' = [file EXCEPT ![temp[f]] = "keyed"]
    /\ pc' = [pc EXCEPT ![f] = "between"]
    /\ keys' = [keys EXCEPT ![f] = @ \cup {temp[f]}]
    /\ temp' = [temp EXCEPT ![f] = NoBlob]
    /\ UNCHANGED <<age, rows, gcVars, crashes>>

(* The flow's goroutine is over; its deferred Remove(tmp) has run.  Keys   *)
(* it did not record are garbage from now on.                              *)
Leave(f) ==
    /\ pc' = [pc EXCEPT ![f] = "idle"]
    /\ temp' = [temp EXCEPT ![f] = NoBlob]
    /\ keys' = [keys EXCEPT ![f] = {}]

RenameFails(f) ==
    /\ pc[f] = "written"
    /\ file[temp[f]] = "absent"
    /\ Leave(f)
    /\ UNCHANGED <<dirVars, rows, gcVars, crashes>>

(* An error, a kill, or an upload that duplicates a known video: "the      *)
(* freshly-copied blob is left for the blob GC".                           *)
GiveUp(f) ==
    /\ pc[f] # "idle"
    /\ IF temp[f] # NoBlob /\ file[temp[f]] = "temp"
         THEN Unlink(temp[f])
         ELSE UNCHANGED <<dirVars, aged>>
    /\ Leave(f)
    /\ UNCHANGED <<rows, gc, live, victim, crashes>>

(* The write transaction that stores the keys in their rows.               *)
RecordKeys(f) ==
    /\ pc[f] = "between"
    /\ rows' = rows \cup keys[f]
    /\ Leave(f)
    /\ UNCHANGED <<dirVars, gcVars, crashes>>

(* A row is deleted, or its key overwritten: purge, re-encode, a new image.*)
DropRow(b) ==
    /\ b \in rows \ Placeholders
    /\ rows' = rows \ {b}
    /\ UNCHANGED <<dirVars, flowVars, gcVars, crashes>>

-----------------------------------------------------------------------------
(* Time.  The assumption of blobGCGrace: a flow records its keys within    *)
(* the grace period.  Likewise no stream pauses for that long; an encode,  *)
(* though, may run for longer than the grace period before it collects.    *)

inGrace(b) == age[b] < Grace

TimePasses ==
    /\ \A b \in held : inGrace(b)
    /\ \A f \in Flows :
         temp[f] # NoBlob /\ (f \notin Encodes \/ pc[f] = "written")
           => inGrace(temp[f])
    /\ age' = [b \in Blobs |->
                 IF file[b] = "absent" \/ age[b] > Grace THEN age[b]
                 ELSE age[b] + 1]
    /\ UNCHANGED <<file, rows, flowVars, gcVars, crashes>>

-----------------------------------------------------------------------------
(* gcBlobsLoop, gcBlobsOnce and Dir.Sweep.                                 *)

olderOrEven(b) == file[b] # "absent" /\ age[b] >= Grace   \* a mutant
older(b) == file[b] # "absent" /\ age[b] > Grace

Wake ==
    /\ gc = "asleep"
    /\ gc' = "scan"
    /\ aged' = {b \in Blobs : older(b)}
    /\ UNCHANGED <<dirVars, rows, flowVars, live, victim, crashes>>

(* liveStorageKeys; the error on an empty result cannot happen while the   *)
(* placeholder rows exist.                                                 *)
Scan ==
    /\ gc = "scan"
    /\ rows # {}
    /\ gc' = "sweep"
    /\ live' = rows
    /\ UNCHANGED <<dirVars, rows, flowVars, aged, victim, crashes>>

deadKeys == {b \in aged : file[b] = "keyed" /\ b \notin live}   \* a mutant
deadOrTemp == deadKeys \cup {b \in Blobs : file[b] = "temp"}   \* a mutant
condemned ==
    {b \in aged : file[b] = "temp" \/ (file[b] = "keyed" /\ b \notin live)}

(* The walk looks at one file, and removes it by name if it must go.       *)
Stat(b) ==
    /\ gc = "sweep"
    /\ victim = NoVictim
    /\ b \in condemned
    /\ victim' = [blob |-> b, name |-> file[b]]
    /\ UNCHANGED <<dirVars, rows, flowVars, gc, aged, live, crashes>>

Remove ==
    /\ victim # NoVictim
    /\ IF file[victim.blob] = victim.name
         THEN Unlink(victim.blob)
         ELSE UNCHANGED <<dirVars, aged>>
    /\ victim' = NoVictim
    /\ UNCHANGED <<rows, flowVars, gc, live, crashes>>

SweepEnds ==
    /\ gc = "sweep"
    /\ victim = NoVictim
    /\ condemned = {}
    /\ gc' = "asleep"
    /\ aged' = {}
    /\ live' = {}
    /\ UNCHANGED <<dirVars, rows, flowVars, victim, crashes>>

(* The process dies and starts again: no deferred Remove runs.             *)
Crash ==
    /\ crashes < MaxCrashes
    /\ crashes' = crashes + 1
    /\ pc' = [f \in Flows |-> "idle"]
    /\ temp' = [f \in Flows |-> NoBlob]
    /\ keys' = [f \in Flows |-> {}]
    /\ gc' = "asleep"
    /\ aged' = {}
    /\ live' = {}
    /\ victim' = NoVictim
    /\ UNCHANGED <<dirVars, rows>>

-----------------------------------------------------------------------------
FlowStep(f) ==
    \/ \E b \in Blobs : Create(f, b)
    \/ WriteChunk(f)
    \/ CollectInto(f)
    \/ Rename(f)
    \/ RenameFails(f)
    \/ GiveUp(f)
    \/ RecordKeys(f)

Collector ==
    \/ Wake
    \/ Scan
    \/ \E b \in Blobs : Stat(b)
    \/ Remove
    \/ SweepEnds

Next ==
    \/ \E f \in Flows : FlowStep(f)
    \/ \E b \in Blobs : DropRow(b)
    \/ TimePasses
    \/ Collector
    \/ Crash

Spec == Init /\ [][Next]_vars

(* The collector's loop runs as long as the process does, time passes, and *)
(* every flow comes to an end.                                             *)
Fairness ==
    /\ WF_vars(Collector)
    /\ WF_vars(TimePasses)
    /\ \A f \in Flows : WF_vars(GiveUp(f))

FairSpec == Spec /\ Fairness
=============================================================================
