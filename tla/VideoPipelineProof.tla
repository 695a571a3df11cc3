-------------------------- MODULE VideoPipelineProof --------------------------
(***************************************************************************)
(* Proofs about VideoPipeline, for any videos, contents and probes, any    *)
(* number of slots in the queues, and any bounds on requests and faults.   *)
(***************************************************************************)
EXTENDS VideoPipelineProps, FiniteSetTheorems, TLAPS

(* A file has an audio stream or subtitles.  The rows of the first plan of *)
(* a silent film are no obstacle to a second one (sameTracks), made by an  *)
(* ingest that was queued twice and is executed in both slots of the disk  *)
(* queue: it would have two ladders.                                       *)
FilesHaveTracks ==
    \A v \in Videos : Probe[File[v]].audio # {} \/ Probe[File[v]].subs # {}

-----------------------------------------------------------------------------
(* Types.                                                                  *)

encodes == {"encode-rend", "encode-dl-rend", "encode-audio"}
VideoTask == [type : VideoTasks, arg : Videos, preset : {NoPreset}]
RendTask == [type : encodes, arg : Rends, preset : Presets \cup {NoPreset}]
AnyTask == VideoTask \cup RendTask

Places == {"copy", "analyse", "queue", "encode", "release", "extract",
           "rebuild", "probe", "teardown", "return"}
Execution == [task : AnyTask, copy : Nat \ {0}, pc : Places,
              key : Contents \cup {NoContent}, todo : SUBSET Rends]

TasksTyped ==
    /\ IsABag(tasks) /\ BagToSet(tasks) \subseteq AnyTask
    /\ run \subseteq Execution /\ IsFiniteSet(run)

(* No more executions of a task than copies of it, nor than slots.         *)
Booked ==
    /\ \A x \in run : Cardinality(executions(x.task)) <= copies(x.task)
    /\ \A x \in run : x.copy \in 1 .. Capacity[queue(x.task)]
    /\ \A x, y \in run : x.task = y.task /\ x.copy = y.copy => x = y
    /\ \A q \in {"disk", "cpu"} : Cardinality(runningOn(q)) <= Capacity[q]

TablesTyped ==
    /\ DOMAIN video \subseteq Videos
    /\ video \in [DOMAIN video -> [original : Contents \cup {NoContent},
                                   probed : Contents \cup {NoContent},
                                   playable : BOOLEAN]]
    /\ DOMAIN rend \subseteq Rends
    /\ rend \in [DOMAIN rend -> Contents \cup {NoContent}]
    /\ links \subseteq Episodes \X DOMAIN video
    /\ active \subseteq links
    /\ DOMAIN stats \subseteq Rends
    /\ stats \in [DOMAIN stats -> Presets]
    /\ preset \in Presets
    /\ clicks \in 0 .. MaxClicks
    /\ faults \in 0 .. MaxFaults

(* Where an execution is, and what it may hold there.                      *)
AtItsPlace(x) ==
    /\ x.pc = "copy" => x.task.type \in {"ingest", "reimport"}
    /\ x.pc \in {"analyse", "queue"} => x.task.type = "pass1"
    /\ x.pc \in {"encode", "release"} => x.task.type \in encodes
    /\ x.pc \in {"extract", "rebuild"} => x.task.type = "extract-subs"
    /\ x.pc \in {"probe", "teardown"} => x.task.type = "reencode"
    /\ x.pc \in {"encode", "extract", "probe", "teardown"} => x.key \in Contents
    /\ x.pc = "encode" => x.todo = {x.task.arg}
    /\ x.pc \in {"rebuild", "return"} => x.todo = {}
    /\ \A r \in x.todo : r.video = videoOf(x.task)

InPlace == \A x \in run : AtItsPlace(x)

-----------------------------------------------------------------------------
(* Rows.                                                                   *)

(* A row has been planned from the probe of an original; all rows of a     *)
(* video at once.                                                          *)
Planned ==
    /\ \A v \in DOMAIN video : video[v].original = NoContent => video[v].probed = NoContent
    /\ \A r \in DOMAIN rend : /\ r.video \in DOMAIN video
                              /\ video[r.video].probed # NoContent
    /\ \A q, r \in DOMAIN rend : q.video = r.video => q.gen = r.gen

(* An ingest that still copies meets a video without a plan, or with one   *)
(* that was made from the same file; a re-encode one with an original.     *)
reencoding(v) == {x \in run : x.task = Task("reencode", v)}
IngestAlone ==
    /\ \A x \in run : x.task.type = "ingest" /\ x.pc = "copy" /\ x.task.arg \in DOMAIN video =>
         LET v == x.task.arg IN
           /\ reencoding(v) = {}
           /\ \/ video[v].probed = NoContent
              \/ /\ video[v].probed = File[v]
                 /\ \A s \in Probe[File[v]].subs :
                      \E r \in rowsOf(v) : r.part.purpose = "subtitle" /\ r.part.track = s
    /\ \A v \in DOMAIN video : reencoding(v) # {} => video[v].original # NoContent
    /\ \A x, y \in run : x.task.type = "reencode" /\ x.task = y.task => x = y

-----------------------------------------------------------------------------
(* What is still to come: a copy of the task that has not begun, or an     *)
(* execution that has not come to the point.                               *)

spare(t) == Cardinality(executions(t)) < copies(t)
due(t) == spare(t) \/ \E x \in executions(t) : x.pc # "return"
visits(t, r) == spare(t) \/ \E x \in executions(t) : r \in x.todo

Coming ==
    /\ \A v \in DOMAIN video :
         /\ video[v].original = NoContent => due(Task("ingest", v))
         /\ video[v].original # NoContent /\ video[v].probed = NoContent
              => due(Task("reencode", v))
    /\ \A r \in unmade :
         CASE r.part.purpose = "audio" -> willEncode(r)
           [] r.part.purpose = "subtitle" -> visits(Task("extract-subs", r.video), r)
           [] OTHER -> willEncode(r) \/ visits(Task("pass1", r.video), r)

(* An encode whose row is made goes on to end its task.                    *)
EncodedIsMade ==
    \A x \in run : x.task.type \in encodes /\ x.pc \in {"release", "return"}
      => x.task.arg \notin unmade

-----------------------------------------------------------------------------
(* Statistics.                                                             *)

\* With a Backlog the sweep may take the statistics of a batch that waits.
hasStats(r) == Backlog \/ r \in DOMAIN stats \/ due(Task("reencode", r.video))

StatsWait ==
    /\ DOMAIN stats \subseteq reencodes(DOMAIN stats)
    /\ \A r \in reencodes(unmade) : willEncode(r) => hasStats(r)
    /\ \A x \in run : x.pc = "queue" => \A r \in reencodes(unmade) \cap x.todo : hasStats(r)
    \* Who is about to release the statistics is not waited for: the rows that
    \* are not made belong to a ladder whose first pass is still to come.
    /\ \A x \in run : x.pc = "release" =>
         \A r \in reencodes(unmade) : r.video = x.task.arg.video =>
           ~willEncode(r) /\ \A y \in run : y.pc = "queue" => r \notin y.todo

(* While a first pass may be executed again, the preset is the one its     *)
(* encodes were queued with, unless PresetReplays.                         *)
presetFor(t) == t.preset # NoPreset /\ ~PresetReplays
PresetsStand ==
    /\ \A t \in BagToSet(tasks) : presetFor(t) /\ t.arg \in unmade =>
         /\ t.arg \in DOMAIN stats => stats[t.arg] = t.preset
         /\ Task("pass1", t.arg.video) \in BagToSet(tasks) => t.preset = preset
    /\ \A x \in run : x.pc = "queue" =>
         \A r \in x.todo \cap unmade \cap DOMAIN stats : stats[r] = preset

-----------------------------------------------------------------------------
(* Sources.                                                                *)

SourceStands ==
    /\ \A v \in DOMAIN video :
         \/ due(Task("reencode", v))
         \/ /\ video[v].probed \in {video[v].original, NoContent}
            /\ \A r \in rowsOf(v) : rend[r] \in {video[v].original, NoContent}
            /\ \A x \in run : x.pc \in {"encode", "extract"} /\ videoOf(x.task) = v
                 /\ x.todo \cap DOMAIN rend # {} => x.key = video[v].original
    /\ \A x \in run : x.pc \in {"probe", "teardown"} /\ x.task.arg \in DOMAIN video
         => x.key = video[x.task.arg].original \/ spare(x.task)

(* The inductive invariant.                                                *)
TypeInv == TasksTyped /\ Booked /\ TablesTyped /\ InPlace
PlanInv == Planned /\ IngestAlone
WorkInv == Coming /\ EncodedIsMade
StatsInv == StatsWait /\ PresetsStand
IInv == TypeInv /\ PlanInv /\ WorkInv /\ StatsInv /\ SourceStands /\ PlayableIsComplete

-----------------------------------------------------------------------------
(* Bags.                                                                   *)

(* The copies of a task among B, which tasks is or becomes.                *)
copiesIn(u, B) == IF u \in BagToSet(B) THEN B[u] ELSE 0


LEMMA Copies ==
  ASSUME NEW B, IsABag(B), NEW t
  PROVE  copiesIn(t, B) \in Nat /\ (t \in BagToSet(B) <=> copiesIn(t, B) > 0)
  BY DEF IsABag, copiesIn, BagToSet

LEMMA OneLess ==
  ASSUME NEW B, IsABag(B), NEW t
  PROVE  /\ IsABag(B (-) SetToBag({t}))
         /\ BagToSet(B (-) SetToBag({t})) \subseteq BagToSet(B)
         /\ BagToSet(B) \subseteq BagToSet(B (-) SetToBag({t})) \cup {t}
         /\ \A u : u # t => copiesIn(u, B (-) SetToBag({t})) = copiesIn(u, B)
         /\ t \in BagToSet(B) => copiesIn(t, B (-) SetToBag({t})) = copiesIn(t, B) - 1
  BY DEF IsABag, copiesIn, BagToSet, SetToBag, (-)

LEMMA SetMore ==
  ASSUME NEW B, IsABag(B), NEW S
  PROVE  /\ IsABag(B (+) SetToBag(S))
         /\ BagToSet(B (+) SetToBag(S)) = BagToSet(B) \cup S
         /\ \A u : u \notin S => copiesIn(u, B (+) SetToBag(S)) = copiesIn(u, B)
         /\ \A u \in S : copiesIn(u, B (+) SetToBag(S)) = copiesIn(u, B) + 1
  BY DEF IsABag, copiesIn, BagToSet, (+), SetToBag

-----------------------------------------------------------------------------
(* How a step changes the executions and the tasks.                        *)

LEMMA Finite ==
  ASSUME TasksTyped, NEW u, NEW q
  PROVE  /\ IsFiniteSet(executions(u)) /\ Cardinality(executions(u)) \in Nat
         /\ IsFiniteSet(runningOn(q)) /\ Cardinality(runningOn(q)) \in Nat
         /\ copies(u) = copiesIn(u, tasks) /\ copies(u) \in Nat
         /\ u \in BagToSet(tasks) <=> copies(u) > 0
  <1>1. executions(u) \in SUBSET run /\ runningOn(q) \in SUBSET run
    BY DEF executions, runningOn
  <1>2. IsFiniteSet(run) /\ IsABag(tasks)
    BY DEF TasksTyped
  <1>3. copies(u) = copiesIn(u, tasks)
    BY DEF copies, copiesIn
  <1>4. QED
    BY <1>1, <1>2, <1>3, FS_Subset, FS_CardinalityType, Copies

LEMMA BookedAll ==
  ASSUME TasksTyped, Booked, NEW u
  PROVE  Cardinality(executions(u)) <= copies(u)
  <1>1. CASE executions(u) = {}
    BY <1>1, Finite, FS_EmptySet
  <1>2. CASE executions(u) # {}
    BY <1>2 DEF Booked, executions
  <1>3. QED
    BY <1>1, <1>2

(* Who is executed is a task of the table.                                 *)
LEMMA RunIsTask ==
  ASSUME TasksTyped, Booked, NEW x \in run
  PROVE  /\ x \in Execution /\ x.task \in AnyTask /\ x.task \in BagToSet(tasks)
         /\ copies(x.task) >= 1 /\ x \in executions(x.task)
  <1>1. x \in executions(x.task)
    BY DEF executions
  <1>2. Cardinality(executions(x.task)) >= 1
    BY <1>1, Finite, FS_EmptySet
  <1>3. copies(x.task) >= 1
    BY <1>2, Finite DEF Booked
  <1>4. x \in Execution
    BY DEF TasksTyped
  <1>5. x.task \in AnyTask
    BY <1>4 DEF Execution
  <1>6. QED
    BY <1>1, <1>3, <1>4, <1>5, Finite

(* Fewer executions than slots: one of the numbers is free.                *)
LEMMA FreeCopy ==
  ASSUME NEW E, IsFiniteSet(E), NEW c \in Nat, Cardinality(E) < c
  PROVE  \E i \in 1 .. c : \A x \in E : x.copy # i
  <1> SUFFICES ASSUME \A i \in 1 .. c : \E x \in E : x.copy = i
               PROVE  FALSE
    OBVIOUS
  <1> DEFINE g == [i \in 1 .. c |-> CHOOSE x \in E : x.copy = i]
  <1>1. g \in [1 .. c -> E] /\ \A i \in 1 .. c : g[i].copy = i
    OBVIOUS
  <1>2. IsFiniteSet(1 .. c) /\ Cardinality(1 .. c) = c
    BY FS_Interval
  <1> HIDE DEF g
  <1>3. Cardinality(E) < Cardinality(1 .. c)
    BY <1>2
  <1>4. \E i, j \in 1 .. c : i # j /\ g[i] = g[j]
    BY <1>1, <1>2, <1>3, FS_PigeonHole
  <1>5. QED
    BY <1>1, <1>4

LEMMA BeginStep ==
  ASSUME TasksTyped, Booked, VideoPipelineAssumption,
         NEW t \in AnyTask, NEW pc \in Places,
         NEW key \in Contents \cup {NoContent}, NEW todo \in SUBSET Rends,
         Begin(t, pc, key, todo)
  PROVE  /\ TasksTyped' /\ Booked' /\ tasks' = tasks
         /\ \A u : u # t => (spare(u)' <=> spare(u))
         /\ t \in BagToSet(tasks)
         /\ \E y : /\ y \notin run /\ run' = run \cup {y}
                  /\ y.task = t /\ y.pc = pc /\ y.key = key /\ y.todo = todo
  <1> DEFINE q == queue(t)
             n == CHOOSE i \in 1 .. Capacity[q] : \A x \in executions(t) : x.copy # i
             y == [task |-> t, copy |-> n, pc |-> pc, key |-> key, todo |-> todo]
  <1>1. q \in {"disk", "cpu"} /\ Capacity[q] \in Nat \ {0}
    BY DEF queue, VideoPipelineAssumption
  <1>2. run' = run \cup {y} /\ tasks' = tasks
    BY DEF Begin, Become
  <1>3. \E i \in 1 .. Capacity[q] : \A x \in executions(t) : x.copy # i
    <2>1. executions(t) \in SUBSET runningOn(q)
      BY DEF executions, runningOn
    <2>2. Cardinality(executions(t)) < Capacity[q]
      BY <1>1, <2>1, Finite, FS_Subset DEF Begin
    <2>3. QED
      BY <1>1, <2>2, Finite, FreeCopy
  <1>4. n \in 1 .. Capacity[q] /\ \A x \in executions(t) : x.copy # n
    BY <1>3
  <1>5. y \in Execution /\ y \notin run
    <2>1. n \in Nat \ {0}
      BY <1>1, <1>4
    <2>2. QED
      BY <1>4, <2>1 DEF Execution, executions
  <1>14. /\ y.task = t /\ y.pc = pc /\ y.key = key /\ y.todo = todo
         /\ y.copy = n
    OBVIOUS
  <1> HIDE DEF y
  <1>6. TasksTyped'
    BY <1>2, <1>5, FS_AddElement DEF TasksTyped
  <1>7. \A u : u # t => executions(u)' = executions(u)
    BY <1>2, <1>14 DEF executions
  <1>8. executions(t)' = executions(t) \cup {y} /\ y \notin executions(t)
    BY <1>2, <1>5, <1>14 DEF executions
  <1>9. Cardinality(executions(t)') = Cardinality(executions(t)) + 1
    BY <1>8, Finite, FS_AddElement
  <1>10. \A u : copies(u)' = copies(u)
    BY <1>2 DEF copies
  <1>11. Booked'
    <2>1. \A x \in run' : Cardinality(executions(x.task)') <= copies(x.task)'
      <3>1. Cardinality(executions(t)) + 1 <= copies(t)
        BY Finite DEF Begin
      <3>2. QED
        BY <1>2, <1>7, <1>9, <1>10, <1>14, <3>1 DEF Booked
    <2>2. \A x \in run' : x.copy \in 1 .. Capacity[queue(x.task)]
      BY <1>2, <1>4, <1>14 DEF Booked
    <2>3. \A x, z \in run' : x.task = z.task /\ x.copy = z.copy => x = z
      BY <1>2, <1>4, <1>14 DEF Booked, executions
    <2>4. ASSUME NEW p \in {"disk", "cpu"}
          PROVE  Cardinality(runningOn(p)') <= Capacity[p]
      <3>1. CASE p = q
        <4>1. runningOn(p)' = runningOn(p) \cup {y} /\ y \notin runningOn(p)
          BY <1>2, <1>5, <1>14, <3>1 DEF runningOn
        <4>2. Cardinality(runningOn(p)') = Cardinality(runningOn(p)) + 1
          BY <4>1, Finite, FS_AddElement
        <4>3. QED
          BY <1>1, <3>1, <4>2, Finite DEF Begin
      <3>2. CASE p # q
        <4>1. runningOn(p)' = runningOn(p)
          BY <1>2, <1>14, <3>2 DEF runningOn
        <4>2. QED
          BY <4>1 DEF Booked
      <3>3. QED
        BY <3>1, <3>2
    <2>5. QED
      BY <2>1, <2>2, <2>3, <2>4 DEF Booked
  <1>12. \A u : u # t => (spare(u)' <=> spare(u))
    BY <1>7, <1>10 DEF spare
  <1>13. t \in BagToSet(tasks)
    BY Finite DEF Begin
  <1>15. QED
    BY <1>2, <1>5, <1>6, <1>11, <1>12, <1>13, <1>14

LEMMA Swap ==
  ASSUME NEW E, IsFiniteSet(E), NEW x \in E, NEW y, y \notin E \ {x}
  PROVE  /\ IsFiniteSet((E \ {x}) \cup {y})
         /\ Cardinality((E \ {x}) \cup {y}) = Cardinality(E)
  <1> DEFINE F == E \ {x}
  <1>1. IsFiniteSet(F) /\ Cardinality(F) = Cardinality(E) - 1
    BY FS_RemoveElement
  <1>2. Cardinality(E) \in Nat /\ y \notin F
    BY FS_CardinalityType
  <1> HIDE DEF F
  <1>3. IsFiniteSet(F \cup {y}) /\ Cardinality(F \cup {y}) = Cardinality(F) + 1
    BY <1>1, <1>2, FS_AddElement
  <1>4. QED
    BY <1>1, <1>2, <1>3 DEF F

(* An execution goes on; the tasks S are queued.                           *)
Queues(S) ==
    \/ tasks' = tasks /\ S = {}
    \/ tasks' = tasks (+) SetToBag(S)

LEMMA QueuesStep ==
  ASSUME TasksTyped, NEW S \in SUBSET AnyTask, Queues(S)
  PROVE  /\ IsABag(tasks') /\ BagToSet(tasks)' = BagToSet(tasks) \cup S
         /\ BagToSet(tasks)' \subseteq AnyTask
         /\ \A u : u \notin S => copies(u)' = copies(u)
         /\ \A u \in S : copies(u)' = copies(u) + 1
  <1>1. \A u : copies(u) = copiesIn(u, tasks) /\ copies(u)' = copiesIn(u, tasks')
    BY DEF copies, copiesIn
  <1>2. IsABag(tasks) /\ BagToSet(tasks) \subseteq AnyTask
    BY DEF TasksTyped
  <1>3. CASE tasks' = tasks /\ S = {}
    <2>1. BagToSet(tasks)' = BagToSet(tasks)
      BY <1>3 DEF BagToSet
    <2>2. QED
      BY <1>1, <1>2, <1>3, <2>1
  <1>4. CASE tasks' = tasks (+) SetToBag(S)
    <2>1. BagToSet(tasks)' = BagToSet(tasks')
      BY DEF BagToSet
    <2>2. QED
      BY <1>1, <1>2, <1>4, <2>1, SetMore
  <1>5. QED
    BY <1>3, <1>4 DEF Queues

LEMMA MoveStep ==
  ASSUME TasksTyped, Booked, NEW x \in run, NEW y \in Execution,
         y.task = x.task, y.copy = x.copy, Become(x, y),
         NEW S \in SUBSET AnyTask, Queues(S)
  PROVE  /\ TasksTyped' /\ Booked'
         /\ BagToSet(tasks)' = BagToSet(tasks) \cup S
         /\ run' = (run \ {x}) \cup {y}
         /\ \A u : spare(u) => spare(u)'
         /\ \A u : u \notin S => (spare(u)' <=> spare(u))
         /\ \A u \in S : spare(u)'
  <1>1. run' = (run \ {x}) \cup {y}
    BY DEF Become
  <1>2. y \notin run \ {x}
    BY DEF Booked
  <1>3. TasksTyped'
    <2>1. IsFiniteSet(run')
      BY <1>1, <1>2, Swap DEF TasksTyped
    <2>2. QED
      BY <1>1, <2>1, QueuesStep DEF TasksTyped
  <1>4. ASSUME NEW u
        PROVE  Cardinality(executions(u)') = Cardinality(executions(u))
    <2>1. CASE u = x.task
      <3>1. executions(u)' = (executions(u) \ {x}) \cup {y}
        BY <1>1, <2>1 DEF executions
      <3>2. x \in executions(u) /\ y \notin executions(u) \ {x}
        BY <1>2, <2>1 DEF executions
      <3>3. QED
        BY <3>1, <3>2, Finite, Swap
    <2>2. CASE u # x.task
      <3>1. executions(u)' = executions(u)
        BY <1>1, <2>2 DEF executions
      <3>2. QED
        BY <3>1
    <2>3. QED
      BY <2>1, <2>2
  <1>5. ASSUME NEW q
        PROVE  Cardinality(runningOn(q)') = Cardinality(runningOn(q))
    <2>1. CASE q = queue(x.task)
      <3>1. runningOn(q)' = (runningOn(q) \ {x}) \cup {y}
        BY <1>1, <2>1 DEF runningOn
      <3>2. x \in runningOn(q) /\ y \notin runningOn(q) \ {x}
        BY <1>2, <2>1 DEF runningOn
      <3>3. QED
        BY <3>1, <3>2, Finite, Swap
    <2>2. CASE q # queue(x.task)
      <3>1. runningOn(q)' = runningOn(q)
        BY <1>1, <2>2 DEF runningOn
      <3>2. QED
        BY <3>1
    <2>3. QED
      BY <2>1, <2>2
  <1>6. Booked'
    <2>1. \A z \in run' : Cardinality(executions(z.task)') <= copies(z.task)'
      <3>1. \A u : Cardinality(executions(u)') <= copies(u) /\ copies(u) \in Nat
                   /\ Cardinality(executions(u)') \in Nat
        BY <1>4, BookedAll, Finite
      <3>2. \A u : copies(u)' = copies(u) \/ copies(u)' = copies(u) + 1
        BY QueuesStep
      <3>3. QED
        BY <3>1, <3>2
    <2>2. \A z \in run' : z.copy \in 1 .. Capacity[queue(z.task)]
      BY <1>1 DEF Booked
    <2>3. \A z, w \in run' : z.task = w.task /\ z.copy = w.copy => z = w
      BY <1>1 DEF Booked
    <2>4. QED
      BY <1>5, <2>1, <2>2, <2>3 DEF Booked
  <1>7. \A u : u \notin S => (spare(u)' <=> spare(u))
    BY <1>4, QueuesStep DEF spare
  <1>8. \A u \in S : spare(u)'
    <2>1. \A u : Cardinality(executions(u)) <= copies(u) /\ copies(u) \in Nat
                 /\ Cardinality(executions(u)) \in Nat
      BY BookedAll, Finite
    <2>2. \A u \in S : copies(u)' = copies(u) + 1
      BY QueuesStep
    <2>3. QED
      BY <1>4, <2>1, <2>2 DEF spare
  <1>9. QED
    BY <1>1, <1>3, <1>6, <1>7, <1>8, QueuesStep

(* Tasks are queued by somebody who is no task.                            *)
LEMMA GrowStep ==
  ASSUME TasksTyped, Booked, run' = run, NEW S \in SUBSET AnyTask, Queues(S)
  PROVE  /\ TasksTyped' /\ Booked'
         /\ BagToSet(tasks)' = BagToSet(tasks) \cup S
         /\ \A u : executions(u)' = executions(u)
         /\ \A u : spare(u) => spare(u)'
         /\ \A u : u \notin S => (spare(u)' <=> spare(u))
         /\ \A u \in S : spare(u)'
  <1>1. \A u : executions(u)' = executions(u)
    BY DEF executions
  <1>2. \A q : runningOn(q)' = runningOn(q)
    BY DEF runningOn
  <1>3. \A u : Cardinality(executions(u)) <= copies(u) /\ copies(u) \in Nat
               /\ Cardinality(executions(u)) \in Nat
    BY BookedAll, Finite
  <1>4. \A u : /\ copies(u)' = copies(u) \/ copies(u)' = copies(u) + 1
               /\ u \in S => copies(u)' = copies(u) + 1
               /\ u \notin S => copies(u)' = copies(u)
    BY QueuesStep
  <1>5. TasksTyped'
    BY QueuesStep DEF TasksTyped
  <1>6. Booked'
    BY <1>1, <1>2, <1>3, <1>4 DEF Booked
  <1>7. /\ \A u : u \notin S => (spare(u)' <=> spare(u))
        /\ \A u \in S : spare(u)'
    BY <1>1, <1>3, <1>4 DEF spare
  <1>8. QED
    BY <1>1, <1>5, <1>6, <1>7, QueuesStep

(* One execution less, with or without its task.                           *)
LEMMA LeaveStep ==
  ASSUME TasksTyped, NEW x \in run, run' = run \ {x}
  PROVE  /\ IsFiniteSet(run') /\ run' \subseteq Execution
         /\ \A u : u # x.task => executions(u)' = executions(u)
         /\ executions(x.task)' = executions(x.task) \ {x}
         /\ Cardinality(executions(x.task)') = Cardinality(executions(x.task)) - 1
         /\ \A q : Cardinality(runningOn(q)') <= Cardinality(runningOn(q))
                   /\ Cardinality(runningOn(q)') \in Nat
  <1>1. IsFiniteSet(run') /\ run' \subseteq Execution
    BY FS_RemoveElement DEF TasksTyped
  <1>2. /\ \A u : u # x.task => executions(u)' = executions(u)
        /\ executions(x.task)' = executions(x.task) \ {x} /\ x \in executions(x.task)
    BY DEF executions
  <1>3. Cardinality(executions(x.task)') = Cardinality(executions(x.task)) - 1
    BY <1>2, Finite, FS_RemoveElement
  <1>4. ASSUME NEW q
        PROVE  /\ Cardinality(runningOn(q)') <= Cardinality(runningOn(q))
               /\ Cardinality(runningOn(q)') \in Nat
    <2>1. runningOn(q)' \in SUBSET runningOn(q)
      BY DEF runningOn
    <2>2. QED
      BY <2>1, Finite, FS_Subset, FS_CardinalityType
  <1>5. QED
    BY <1>1, <1>2, <1>3, <1>4

LEMMA ErrorStep ==
  ASSUME TasksTyped, Booked, VideoPipelineAssumption, NEW x \in run,
         run' = run \ {x}, tasks' = tasks
  PROVE  /\ TasksTyped' /\ Booked'
         /\ \A u : spare(u) => spare(u)'
         /\ spare(x.task)'
  <1>1. \A u : copies(u)' = copies(u)
    BY DEF copies
  <1>2. TasksTyped'
    BY LeaveStep DEF TasksTyped
  <1>3. \A u : /\ Cardinality(executions(u)) <= copies(u) /\ copies(u) \in Nat
               /\ Cardinality(executions(u)) \in Nat
    BY BookedAll, Finite
  <1>4. \A u : /\ u # x.task => Cardinality(executions(u)') = Cardinality(executions(u))
               /\ u = x.task => Cardinality(executions(u)') = Cardinality(executions(u)) - 1
    BY LeaveStep
  <1>5. \A q \in {"disk", "cpu"} : Cardinality(runningOn(q)') <= Capacity[q]
    <2>1. \A q \in {"disk", "cpu"} : Cardinality(runningOn(q)) \in Nat
                                     /\ Capacity[q] \in Nat
      BY Finite DEF VideoPipelineAssumption
    <2>2. QED
      BY <2>1, LeaveStep DEF Booked
  <1>6. Booked'
    BY <1>1, <1>3, <1>4, <1>5 DEF Booked
  <1>7. QED
    BY <1>1, <1>2, <1>3, <1>4, <1>6 DEF spare

LEMMA DeleteStep ==
  ASSUME TasksTyped, Booked, VideoPipelineAssumption, NEW x \in run, DeleteTask(x)
  PROVE  /\ TasksTyped' /\ Booked' /\ run' = run \ {x}
         /\ BagToSet(tasks)' \subseteq BagToSet(tasks)
         /\ BagToSet(tasks) \subseteq BagToSet(tasks)' \cup {x.task}
         /\ \A u : spare(u)' <=> spare(u)
  <1>1. run' = run \ {x} /\ tasks' = tasks (-) SetToBag({x.task})
    BY DEF DeleteTask
  <1>2. \A u : copies(u) = copiesIn(u, tasks) /\ copies(u)' = copiesIn(u, tasks')
    BY DEF copies, copiesIn
  <1>3. /\ IsABag(tasks') /\ BagToSet(tasks') \subseteq BagToSet(tasks)
        /\ BagToSet(tasks) \subseteq BagToSet(tasks') \cup {x.task}
        /\ \A u : u # x.task => copies(u)' = copies(u)
        /\ copies(x.task)' = copies(x.task) - 1
    BY <1>1, <1>2, OneLess, RunIsTask, ZenonT(40) DEF TasksTyped
  <1>4. TasksTyped'
    BY <1>1, <1>3, LeaveStep DEF TasksTyped, BagToSet
  <1>5. \A u : /\ Cardinality(executions(u)) <= copies(u) /\ copies(u) \in Nat
               /\ Cardinality(executions(u)) \in Nat
    BY BookedAll, Finite
  <1>6. \A u : /\ u # x.task => Cardinality(executions(u)') = Cardinality(executions(u))
               /\ u = x.task => Cardinality(executions(u)') = Cardinality(executions(u)) - 1
    BY <1>1, LeaveStep
  <1>7. \A q \in {"disk", "cpu"} : Cardinality(runningOn(q)') <= Capacity[q]
    <2>1. \A q \in {"disk", "cpu"} : Cardinality(runningOn(q)) \in Nat
                                     /\ Capacity[q] \in Nat
      BY Finite DEF VideoPipelineAssumption
    <2>2. QED
      BY <1>1, <2>1, LeaveStep DEF Booked
  <1>8. \A u : Cardinality(executions(u)') <= copies(u)'
    BY <1>3, <1>5, <1>6
  <1>9. Booked'
    BY <1>1, <1>7, <1>8 DEF Booked
  <1>10. \A u : spare(u)' <=> spare(u)
    BY <1>3, <1>5, <1>6 DEF spare
  <1>11. QED
    BY <1>1, <1>3, <1>4, <1>9, <1>10 DEF BagToSet

LEMMA DropStep ==
  ASSUME TasksTyped, Booked, NEW t, Drop(t)
  PROVE  /\ TasksTyped' /\ Booked' /\ run' = run
         /\ BagToSet(tasks)' \subseteq BagToSet(tasks)
         /\ BagToSet(tasks) \subseteq BagToSet(tasks)' \cup {t}
         /\ \A u : executions(u)' = executions(u)
         /\ \A u : u # t => (spare(u)' <=> spare(u))
  <1>1. run' = run /\ tasks' = tasks (-) SetToBag({t})
    BY DEF Drop
  <1>2. \A u : copies(u) = copiesIn(u, tasks) /\ copies(u)' = copiesIn(u, tasks')
    BY DEF copies, copiesIn
  <1>3. \A u : executions(u)' = executions(u)
    BY <1>1 DEF executions
  <1>4. \A q : runningOn(q)' = runningOn(q)
    BY <1>1 DEF runningOn
  <1>5. \A u : /\ Cardinality(executions(u)) <= copies(u) /\ copies(u) \in Nat
               /\ Cardinality(executions(u)) \in Nat
    BY BookedAll, Finite
  <1>6. Cardinality(executions(t)) < copies(t)
    BY DEF Drop
  <1>7. t \in BagToSet(tasks)
    BY <1>5, <1>6, Finite
  <1>8. /\ IsABag(tasks') /\ BagToSet(tasks') \subseteq BagToSet(tasks)
        /\ BagToSet(tasks) \subseteq BagToSet(tasks') \cup {t}
        /\ \A u : u # t => copies(u)' = copies(u)
        /\ copies(t)' = copies(t) - 1
    BY <1>1, <1>2, <1>7, OneLess DEF TasksTyped
  <1>9. TasksTyped'
    BY <1>1, <1>8 DEF TasksTyped, BagToSet
  <1>10. \A u : Cardinality(executions(u)') <= copies(u)'
    BY <1>3, <1>5, <1>6, <1>8
  <1>11. Booked'
    BY <1>1, <1>4, <1>10 DEF Booked
  <1>12. \A u : u # t => (spare(u)' <=> spare(u))
    BY <1>3, <1>8 DEF spare
  <1>13. QED
    BY <1>1, <1>3, <1>8, <1>9, <1>11, <1>12 DEF BagToSet

LEMMA CrashStep ==
  ASSUME TasksTyped, Booked, VideoPipelineAssumption, run' = {}, tasks' = tasks
  PROVE  /\ TasksTyped' /\ Booked'
         /\ \A u : spare(u) \/ executions(u) # {} => spare(u)'
  <1>1. \A u : executions(u)' = {} /\ copies(u)' = copies(u)
    BY DEF executions, copies
  <1>2. \A q : runningOn(q)' = {}
    BY DEF runningOn
  <1>3. TasksTyped'
    BY FS_EmptySet DEF TasksTyped
  <1>4. \A q \in {"disk", "cpu"} : Capacity[q] >= 0
    BY DEF VideoPipelineAssumption
  <1>5. Booked'
    BY <1>2, <1>4, FS_EmptySet DEF Booked
  <1>6. ASSUME NEW u, spare(u) \/ executions(u) # {}
        PROVE  spare(u)'
    <2>1. /\ Cardinality(executions(u)) <= copies(u) /\ copies(u) \in Nat
          /\ Cardinality(executions(u)) \in Nat
      BY BookedAll, Finite
    <2>2. Cardinality(executions(u)) = 0 => executions(u) = {}
      BY Finite, FS_EmptySet
    <2>3. Cardinality({}) = 0
      BY FS_EmptySet
    <2>4. copies(u) > 0
      BY <1>6, <2>1, <2>2 DEF spare
    <2>5. QED
      BY <1>1, <2>3, <2>4 DEF spare
  <1>7. QED
    BY <1>3, <1>5, <1>6

-----------------------------------------------------------------------------
(* Types of what is made.                                                  *)

LEMMA TaskTypes ==
  /\ \A y \in VideoTasks, v \in Videos : Task(y, v) \in AnyTask
  /\ \A r \in Rends, p \in Presets : EncodeTask(r, p) \in RendTask
  /\ \A r \in Rends : Task("encode-audio", r) \in RendTask
  /\ \A t \in AnyTask : \/ /\ t.type \in VideoTasks /\ t.arg \in Videos
                           /\ t \notin RendTask /\ t = Task(t.type, t.arg)
                        \/ t.type \in encodes /\ t \in RendTask /\ t.arg \in Rends
  /\ VideoTasks \cap encodes = {}
  <1>1. \A r \in Rends, p \in Presets : EncodeTask(r, p) \in RendTask
    BY DEF EncodeTask, RendTask, encodes
  <1>2. VideoTasks \cap encodes = {}
    BY DEF VideoTasks, encodes
  <1>3. \A r \in Rends : Task("encode-audio", r) \in RendTask
    BY DEF Task, RendTask, encodes
  <1>4. QED
    BY <1>1, <1>2, <1>3 DEF Task, AnyTask, VideoTask, RendTask

LEMMA RowTypes ==
  ASSUME NEW v \in Videos, NEW g \in 1 .. MaxGen, NEW c \in Contents
  PROVE  /\ newRows(v, g, c) \subseteq Rends
         /\ \A r \in newRows(v, g, c) : r.video = v /\ r.gen = g /\ r.part \in Parts(Probe[c])
         /\ newTasks(v, g, c) \subseteq AnyTask
         /\ Task("pass1", v) \in newTasks(v, g, c)
         /\ \A t \in newTasks(v, g, c) :
              \/ t \in {Task("pass1", v), Task("extract-subs", v)}
              \/ \E r \in newRows(v, g, c) :
                   t = Task("encode-audio", r) /\ r.part.purpose = "audio"
         /\ \A r \in newRows(v, g, c) :
              /\ r.part.purpose = "audio" => Task("encode-audio", r) \in newTasks(v, g, c)
              /\ r.part.purpose = "subtitle" => Task("extract-subs", v) \in newTasks(v, g, c)
  <1>1. newRows(v, g, c) \subseteq Rends
    BY DEF newRows, Rends, AllParts, Key
  <1>2. \A r \in newRows(v, g, c) : r.video = v /\ r.gen = g /\ r.part \in Parts(Probe[c])
    BY DEF newRows, Key
  <1>3. \A p \in Renditions(Probe[c]) : p.purpose \in {"streaming", "download"}
    BY DEF Renditions, Part
  <1>4. \A p \in AudioRenditions(Probe[c]) : p.purpose = "audio"
    BY DEF AudioRenditions, Part
  <1>5. \A p \in SubtitleTracks(Probe[c]) : p.purpose = "subtitle"
    BY DEF SubtitleTracks, Part
  <1>6. \A p \in SubtitleTracks(Probe[c]) : Probe[c].subs # {}
    BY DEF SubtitleTracks
  <1>7. ASSUME NEW r \in newRows(v, g, c), r.part.purpose = "audio"
        PROVE  Task("encode-audio", r) \in newTasks(v, g, c)
    <2>1. r.part \in AudioRenditions(Probe[c]) /\ r = Key(v, g, r.part)
      BY <1>2, <1>3, <1>5, <1>7 DEF newRows, Key, Parts
    <2>2. QED
      BY <2>1 DEF newTasks
  <1>8. ASSUME NEW r \in newRows(v, g, c), r.part.purpose = "subtitle"
        PROVE  Task("extract-subs", v) \in newTasks(v, g, c)
    <2>1. r.part \in SubtitleTracks(Probe[c])
      BY <1>2, <1>3, <1>4, <1>8 DEF Parts
    <2>2. QED
      BY <2>1, <1>6 DEF newTasks
  <1>9. ASSUME NEW t \in newTasks(v, g, c)
        PROVE  \/ t \in {Task("pass1", v), Task("extract-subs", v)}
               \/ \E r \in newRows(v, g, c) :
                    t = Task("encode-audio", r) /\ r.part.purpose = "audio"
    <2>1. CASE t \in {Task("encode-audio", Key(v, g, part)) : part \in AudioRenditions(Probe[c])}
      <3>1. PICK part \in AudioRenditions(Probe[c]) : t = Task("encode-audio", Key(v, g, part))
        BY <2>1
      <3>2. Key(v, g, part) \in newRows(v, g, c) /\ Key(v, g, part).part = part
        BY <3>1 DEF newRows, Key, Parts
      <3>3. QED
        BY <1>4, <3>1, <3>2
    <2>2. QED
      BY <2>1 DEF newTasks
  <1>10. newTasks(v, g, c) \subseteq AnyTask
    BY <1>1, <1>9, TaskTypes DEF AnyTask, VideoTasks
  <1>11. Task("pass1", v) \in newTasks(v, g, c)
    BY DEF newTasks
  <1>12. QED
    BY <1>1, <1>2, <1>7, <1>8, <1>9, <1>10, <1>11

(* A new ID is mentioned nowhere.                                          *)
LEMMA Fresh ==
  ASSUME TypeInv, NEW v, unused(v) # {}, NEW r, r.video = v, r.gen = newID(v)
  PROVE  /\ newID(v) \in 1 .. MaxGen
         /\ r \notin DOMAIN rend /\ r \notin DOMAIN stats
         /\ \A t \in BagToSet(tasks) : t.type \notin VideoTasks => t.arg # r
         /\ \A x \in run : r \notin x.todo
  <1>1. newID(v) \in unused(v)
    BY DEF newID
  <1>2. newID(v) \in 1 .. MaxGen /\ newID(v) \notin mentioned(v)
    BY <1>1 DEF unused
  <1>3. r \notin DOMAIN rend /\ r \notin DOMAIN stats
    BY <1>2 DEF mentioned, rowsOf, batch
  <1>4. \A t \in BagToSet(tasks) : t.type \notin VideoTasks => t.arg # r
    BY <1>2 DEF mentioned
  <1>5. \A x \in run : r \notin x.todo
    BY <1>2 DEF mentioned
  <1>6. QED
    BY <1>2, <1>3, <1>4, <1>5

-----------------------------------------------------------------------------
(* What a step may do.  Every step but those that plan a ladder keeps what *)
(* there is in the ways below; each of them preserves a part of the        *)
(* invariant.                                                              *)

StillSpare(u) == spare(u) => spare(u)'
StillDue(u) == due(u) => due(u)'
StillVisits(u, r) == visits(u, r) => visits(u, r)'
begun == run' \ run

(* Videos and rows only go, and a row not without its video.  An ingest    *)
(* begins without an original, a re-encode with one and alone.             *)
KeepsPlans ==
    /\ \A v \in DOMAIN video' :
         /\ v \in DOMAIN video /\ video'[v].probed = video[v].probed
         /\ video'[v].original = video[v].original \/ video'[v].original # NoContent
    /\ \A r \in DOMAIN rend' : r \in DOMAIN rend /\ r.video \in DOMAIN video'
    /\ \A r \in DOMAIN rend : r.video \in DOMAIN video' => r \in DOMAIN rend'
    /\ \A z \in begun :
         /\ z.task.type = "ingest" /\ z.pc = "copy" /\ z.task.arg \in DOMAIN video'
              => video[z.task.arg].original = NoContent
         /\ z.task.type = "reencode" =>
              /\ \A w \in run' : w.task = z.task => w = z
              /\ z.task.arg \in DOMAIN video' =>
                   \/ \E x \in run : x.task = z.task
                   \/ /\ video[z.task.arg].original # NoContent
                      /\ \A y \in run : y.task.type = "ingest" /\ y.task.arg = z.task.arg
                                          => y.pc # "copy"

(* What is to be done stays due, or is done.                               *)
KeepsWork ==
    /\ \A v \in DOMAIN video' :
         /\ v \in DOMAIN video /\ video'[v].probed = video[v].probed
         /\ \/ video'[v].original = video[v].original
            \/ video'[v].original # NoContent /\ due(Task("reencode", v))'
         /\ video[v].original = NoContent => StillDue(Task("ingest", v))
         /\ StillDue(Task("reencode", v))
    /\ \A r \in unmade' :
         /\ r \in unmade
         /\ willEncode(r) => willEncode(r)'
         /\ r.part.purpose = "subtitle" => StillVisits(Task("extract-subs", r.video), r)
         /\ r.part.purpose \notin {"audio", "subtitle"} /\ visits(Task("pass1", r.video), r)
              => visits(Task("pass1", r.video), r)' \/ willEncode(r)'
    /\ \A z \in begun : z.task.type \in encodes /\ z.pc \in {"release", "return"}
         => z.task.arg \notin unmade'

(* Statistics that somebody waits for stay; nobody begins to wait for      *)
(* statistics that are not there or about to go.                           *)
awaited(r) == willEncode(r) \/ \E y \in run : y.pc = "queue" /\ r \in y.todo

KeepsStats ==
    /\ DOMAIN stats' \subseteq reencodes(DOMAIN stats')
    /\ \A r \in reencodes(unmade') :
         /\ r \in unmade
         /\ awaited(r) /\ hasStats(r) => hasStats(r)'
         /\ willEncode(r)' => awaited(r)
         /\ \A z \in begun :
              /\ z.pc = "queue" /\ r \in z.todo =>
                   /\ hasStats(r)'
                   /\ \A y \in run' : y.pc = "release" => y.task.arg.video # r.video
              /\ z.pc = "release" => z.task.arg.video # r.video

(* Encodes are queued by a first pass, with its preset.                    *)
KeepsPresets ==
    /\ preset' = preset /\ unmade' \subseteq unmade
    /\ \A r \in DOMAIN stats' : r \in DOMAIN stats /\ stats'[r] = stats[r]
    /\ \A t \in BagToSet(tasks)' \ BagToSet(tasks) :
         /\ t.type # "pass1"
         /\ t.preset # NoPreset =>
              /\ t.preset = preset
              /\ \E y \in run : y.pc = "queue" /\ t.arg \in y.todo
    /\ \A z \in begun : z.pc = "queue" => z.todo \cap DOMAIN stats = {}

(* Files are made of the original, or of what an execution has opened; an  *)
(* original is replaced only with a re-encode to follow.                   *)
opened == {x \in run : x.pc \in {"encode", "extract"}}
KeepsSource ==
    /\ \A v \in DOMAIN video' :
         /\ v \in DOMAIN video
         /\ StillDue(Task("reencode", v))
         /\ due(Task("reencode", v))' \/
              /\ video'[v].original = video[v].original
              /\ video'[v].probed = video[v].probed
              /\ \A r \in DOMAIN rend' : r.video = v =>
                   /\ r \in DOMAIN rend
                   /\ \/ rend'[r] = rend[r]
                      \/ \E x \in opened :
                           videoOf(x.task) = v /\ r \in x.todo /\ rend'[r] = x.key
              /\ \A z \in begun : z.pc \in {"encode", "extract"} /\ videoOf(z.task) = v =>
                   \/ z.key = video[v].original
                   \/ \E x \in opened :
                        videoOf(x.task) = v /\ z.key = x.key /\ z.todo \subseteq x.todo
              /\ \A r \in DOMAIN rend' : r \in DOMAIN rend
    /\ \A x \in run' : x.pc \in {"probe", "teardown"} /\ x.task.arg \in DOMAIN video' =>
         \/ x.key = video'[x.task.arg].original
         \/ spare(x.task)'
         \/ \E y \in run : /\ y.pc \in {"probe", "teardown"}
                          /\ y.task = x.task /\ y.key = x.key
                          /\ video'[x.task.arg].original = video[x.task.arg].original
                          /\ StillSpare(x.task)

(* What is made stays made.                                                *)
KeepsMade ==
    \A v \in DOMAIN video' : video'[v].playable =>
      /\ v \in DOMAIN video /\ video'[v].probed = video[v].probed
      /\ \A r \in DOMAIN rend : r.video = v /\ rend[r] # NoContent
           => r \in DOMAIN rend' /\ rend'[r] # NoContent
      /\ video[v].playable \/ isPlayableMV(v, rend')

LEMMA PlansKept ==
  ASSUME Planned, IngestAlone, KeepsPlans
  PROVE  Planned' /\ IngestAlone'
  <1>1. Planned'
    BY DEF Planned, KeepsPlans
  <1>2. ASSUME NEW v \in DOMAIN video'
        PROVE  reencoding(v)' # {} => video[v].original # NoContent
    <2> SUFFICES ASSUME NEW w \in run', w.task = Task("reencode", v)
                 PROVE  video[v].original # NoContent
      BY DEF reencoding
    <2>1. w.task.type = "reencode" /\ w.task.arg = v
      BY DEF Task
    <2>2. CASE \E x \in run : x.task = w.task
      BY <2>2 DEF IngestAlone, KeepsPlans, reencoding
    <2>3. CASE ~\E x \in run : x.task = w.task
      BY <2>1, <2>3 DEF KeepsPlans, begun
    <2>4. QED
      BY <2>2, <2>3
  <1>3. ASSUME NEW x \in run', x.task.type = "ingest", x.pc = "copy",
               x.task.arg \in DOMAIN video'
        PROVE  LET v == x.task.arg IN
                 /\ reencoding(v)' = {}
                 /\ \/ video'[v].probed = NoContent
                    \/ /\ video'[v].probed = File[v]
                       /\ \A s \in Probe[File[v]].subs :
                            \E r \in rowsOf(v)' : r.part.purpose = "subtitle" /\ r.part.track = s
    <2> DEFINE v == x.task.arg
    <2>1. v \in DOMAIN video /\ video'[v].probed = video[v].probed
      BY <1>3 DEF KeepsPlans
    <2>2. rowsOf(v) \subseteq rowsOf(v)'
      BY <1>3 DEF KeepsPlans, rowsOf
    <2>3. CASE x \in run
      <3>1. reencoding(v) = {}
        BY <1>3, <2>1, <2>3 DEF IngestAlone
      <3>2. ASSUME NEW w \in run', w.task = Task("reencode", v) PROVE FALSE
        <4>1. w.task.type = "reencode" /\ w.task.arg = v
          BY <3>2 DEF Task
        <4>2. ~\E y \in run : y.task = w.task
          BY <3>1, <3>2 DEF reencoding
        <4>3. QED
          BY <1>3, <2>3, <4>1, <4>2 DEF KeepsPlans, begun
      <3>3. QED
        BY <1>3, <2>1, <2>2, <2>3, <3>2 DEF IngestAlone, reencoding
    <2>4. CASE x \notin run
      <3>1. video[v].original = NoContent
        BY <1>3, <2>4 DEF KeepsPlans, begun
      <3>2. video[v].probed = NoContent
        BY <2>1, <3>1 DEF Planned
      <3>3. QED
        BY <1>2, <1>3, <2>1, <3>1, <3>2
    <2>5. QED
      BY <2>3, <2>4
  <1>4. \A x, y \in run' : x.task.type = "reencode" /\ x.task = y.task => x = y
    BY DEF IngestAlone, KeepsPlans, begun
  <1>5. \A v \in DOMAIN video' : reencoding(v)' # {} => video'[v].original # NoContent
    BY <1>2 DEF KeepsPlans
  <1>6. QED
    BY <1>1, <1>3, <1>4, <1>5 DEF IngestAlone

LEMMA WorkKept ==
  ASSUME Coming, EncodedIsMade, KeepsWork
  PROVE  Coming' /\ EncodedIsMade'
  <1>1. EncodedIsMade'
    BY DEF EncodedIsMade, KeepsWork, begun
  <1>2. ASSUME NEW v \in DOMAIN video'
        PROVE  /\ video'[v].original = NoContent => due(Task("ingest", v))'
               /\ video'[v].original # NoContent /\ video'[v].probed = NoContent
                    => due(Task("reencode", v))'
    BY DEF Coming, KeepsWork, StillDue
  <1>3. ASSUME NEW r \in unmade'
        PROVE  CASE r.part.purpose = "audio" -> willEncode(r)'
                 [] r.part.purpose = "subtitle" -> visits(Task("extract-subs", r.video), r)'
                 [] OTHER -> willEncode(r)' \/ visits(Task("pass1", r.video), r)'
    <2>1. CASE r.part.purpose = "audio"
      BY <2>1 DEF Coming, KeepsWork
    <2>2. CASE r.part.purpose = "subtitle"
      BY <2>2 DEF Coming, KeepsWork, StillVisits
    <2>3. CASE r.part.purpose \notin {"audio", "subtitle"}
      BY <2>3 DEF Coming, KeepsWork
    <2>4. QED
      BY <2>1, <2>2, <2>3
  <1>4. QED
    BY <1>1, <1>2, <1>3 DEF Coming

LEMMA StatsKept ==
  ASSUME StatsWait, KeepsStats
  PROVE  StatsWait'
  <1>1. \A r \in reencodes(unmade') : r \in reencodes(unmade)
    BY DEF KeepsStats, reencodes
  <1>2. \A r \in reencodes(unmade') : awaited(r) => hasStats(r)
    BY <1>1 DEF StatsWait, awaited
  <1>3. \A r \in reencodes(unmade') : willEncode(r)' => hasStats(r)'
    BY <1>2 DEF KeepsStats
  <1>4. \A x \in run' : x.pc = "queue" => \A r \in reencodes(unmade') \cap x.todo : hasStats(r)'
    BY <1>2 DEF KeepsStats, begun, awaited
  <1>5. ASSUME NEW x \in run', x.pc = "release",
               NEW r \in reencodes(unmade'), r.video = x.task.arg.video
        PROVE  ~willEncode(r)' /\ \A y \in run' : y.pc = "queue" => r \notin y.todo
    <2>1. x \in run
      BY <1>5 DEF KeepsStats, begun
    <2>2. ~awaited(r)
      BY <1>1, <1>5, <2>1 DEF StatsWait, awaited
    <2>3. QED
      BY <1>5, <2>2 DEF KeepsStats, begun, awaited
  <1>6. reencodes(unmade)' = reencodes(unmade') /\ reencodes(DOMAIN stats)' = reencodes(DOMAIN stats')
    BY DEF reencodes
  <1>7. QED
    BY <1>3, <1>4, <1>5, <1>6 DEF StatsWait, KeepsStats

LEMMA PresetsKept ==
  ASSUME PresetsStand, KeepsPresets
  PROVE  PresetsStand'
  <1>1. ASSUME NEW x \in run', x.pc = "queue", NEW r \in x.todo,
               r \in unmade', r \in DOMAIN stats'
        PROVE  stats'[r] = preset'
    BY <1>1 DEF PresetsStand, KeepsPresets, begun
  <1>2. ASSUME NEW t \in BagToSet(tasks)', presetFor(t), t.arg \in unmade'
        PROVE  /\ t.arg \in DOMAIN stats' => stats'[t.arg] = t.preset
               /\ Task("pass1", t.arg.video) \in BagToSet(tasks)' => t.preset = preset'
    <2>1. Task("pass1", t.arg.video).type = "pass1"
      BY DEF Task
    <2>2. CASE t \in BagToSet(tasks)
      BY <1>2, <2>1, <2>2 DEF PresetsStand, KeepsPresets
    <2>3. CASE t \notin BagToSet(tasks)
      BY <1>2, <2>3 DEF PresetsStand, presetFor, KeepsPresets
    <2>4. QED
      BY <2>2, <2>3
  <1>3. QED
    BY <1>1, <1>2 DEF PresetsStand

LEMMA SourceKept ==
  ASSUME SourceStands, KeepsSource
  PROVE  SourceStands'
  <1>1. ASSUME NEW v \in DOMAIN video', ~due(Task("reencode", v))'
        PROVE  /\ video'[v].probed \in {video'[v].original, NoContent}
               /\ \A r \in rowsOf(v)' : rend'[r] \in {video'[v].original, NoContent}
               /\ \A x \in run' : x.pc \in {"encode", "extract"} /\ videoOf(x.task) = v
                    /\ x.todo \cap DOMAIN rend' # {} => x.key = video'[v].original
    <2>1. v \in DOMAIN video /\ ~due(Task("reencode", v))
      BY <1>1 DEF KeepsSource, StillDue
    <2>2. /\ video[v].probed \in {video[v].original, NoContent}
          /\ \A r \in rowsOf(v) : rend[r] \in {video[v].original, NoContent}
          /\ \A x \in run : x.pc \in {"encode", "extract"} /\ videoOf(x.task) = v
                 /\ x.todo \cap DOMAIN rend # {} => x.key = video[v].original
      BY <2>1 DEF SourceStands
    <2>3. /\ video'[v].original = video[v].original
          /\ video'[v].probed = video[v].probed
          /\ \A r \in DOMAIN rend' : r.video = v =>
               /\ r \in DOMAIN rend
               /\ \/ rend'[r] = rend[r]
                  \/ \E x \in opened :
                       videoOf(x.task) = v /\ r \in x.todo /\ rend'[r] = x.key
          /\ \A z \in begun : z.pc \in {"encode", "extract"} /\ videoOf(z.task) = v =>
               \/ z.key = video[v].original
               \/ \E x \in opened :
                    videoOf(x.task) = v /\ z.key = x.key /\ z.todo \subseteq x.todo
          /\ \A r \in DOMAIN rend' : r \in DOMAIN rend
      BY <1>1 DEF KeepsSource
    <2>4. \A r \in rowsOf(v)' : rend'[r] \in {video'[v].original, NoContent}
      BY <2>2, <2>3 DEF rowsOf, opened
    <2>5. \A x \in run' : x.pc \in {"encode", "extract"} /\ videoOf(x.task) = v
                    /\ x.todo \cap DOMAIN rend' # {} => x.key = video'[v].original
      BY <2>2, <2>3 DEF opened, begun
    <2>6. QED
      BY <2>2, <2>3, <2>4, <2>5
  <1>2. ASSUME NEW x \in run', x.pc \in {"probe", "teardown"}, x.task.arg \in DOMAIN video'
        PROVE  x.key = video'[x.task.arg].original \/ spare(x.task)'
    <2>1. CASE \E y \in run : /\ y.pc \in {"probe", "teardown"}
                             /\ y.task = x.task /\ y.key = x.key
                             /\ video'[x.task.arg].original = video[x.task.arg].original
                             /\ StillSpare(x.task)
      <3>1. PICK y \in run : /\ y.pc \in {"probe", "teardown"}
                             /\ y.task = x.task /\ y.key = x.key
                             /\ video'[x.task.arg].original = video[x.task.arg].original
                             /\ StillSpare(x.task)
        BY <2>1
      <3>2. y.task.arg \in DOMAIN video
        BY <1>2, <3>1 DEF KeepsSource
      <3>3. y.key = video[y.task.arg].original \/ spare(y.task)
        BY <3>1, <3>2 DEF SourceStands
      <3>4. y.key = video[y.task.arg].original \/ spare(x.task)
        BY <3>1, <3>3 DEF spare
      <3>5. QED
        BY <3>1, <3>4 DEF StillSpare
    <2>2. QED
      BY <1>2, <2>1 DEF KeepsSource
  <1>3. QED
    BY <1>1, <1>2 DEF SourceStands, videoOf

LEMMA MadeKept ==
  ASSUME PlayableIsComplete, KeepsMade, Planned'
  PROVE  PlayableIsComplete'
  <1> SUFFICES ASSUME NEW v \in DOMAIN video', video'[v].playable
               PROVE  /\ \E r \in DOMAIN rend' : /\ r.video = v /\ rend'[r] # NoContent
                                                /\ r.part.purpose = "streaming"
                      /\ \A a \in Probe[video'[v].probed].audio :
                           \E r \in DOMAIN rend' :
                             /\ r.video = v /\ rend'[r] # NoContent
                             /\ r.part.purpose = "audio" /\ r.part.track = a.index
    BY DEF PlayableIsComplete, rowsOf, unmade
  <1>1. v \in DOMAIN video /\ video'[v].probed = video[v].probed
    BY DEF KeepsMade
  <1>2. CASE video[v].playable
    <2>1. /\ \E r \in DOMAIN rend : /\ r.video = v /\ rend[r] # NoContent
                                   /\ r.part.purpose = "streaming"
          /\ \A a \in Probe[video[v].probed].audio :
               \E r \in DOMAIN rend :
                  /\ r.video = v /\ rend[r] # NoContent
                  /\ r.part.purpose = "audio" /\ r.part.track = a.index
      BY <1>1, <1>2 DEF PlayableIsComplete, rowsOf, unmade
    <2>2. QED
      BY <1>1, <2>1 DEF KeepsMade
  <1>3. CASE ~video[v].playable
    <2>1. isPlayableMV(v, rend')
      BY <1>3 DEF KeepsMade
    <2>2. PICK r \in DOMAIN rend' : /\ r.video = v /\ rend'[r] # NoContent
                                   /\ r.part.purpose = "streaming"
      BY <2>1 DEF isPlayableMV
    <2>3. video'[v].probed # NoContent
      BY <2>2 DEF Planned
    <2>4. ASSUME NEW a \in Probe[video'[v].probed].audio
          PROVE  \E q \in DOMAIN rend' :
                    /\ q.video = v /\ rend'[q] # NoContent
                    /\ q.part.purpose = "audio" /\ q.part.track = a.index
      <3>1. a.index \in tracksOf(v)
        BY <1>1, <2>3, <2>4 DEF tracksOf
      <3>2. QED
        BY <2>1, <3>1 DEF isPlayableMV
    <2>5. QED
      BY <2>2, <2>4
  <1>4. QED
    BY <1>2, <1>3

-----------------------------------------------------------------------------
(* All of the invariant but the types.                                     *)
Rest == PlanInv /\ WorkInv /\ StatsInv /\ SourceStands /\ PlayableIsComplete
KeepsAll == KeepsPlans /\ KeepsWork /\ KeepsStats /\ KeepsPresets /\ KeepsSource /\ KeepsMade

LEMMA AllKept ==
  ASSUME Rest, KeepsAll
  PROVE  Rest'
  BY PlansKept, WorkKept, StatsKept, PresetsKept, SourceKept, MadeKept
     DEF Rest, KeepsAll, PlanInv, WorkInv, StatsInv

(* What becomes due and what is still due, as executions and tasks change. *)
LEMMA MoveKeeps ==
  ASSUME TasksTyped, Booked, NEW x \in run, NEW y \in Execution,
         y.task = x.task, y.copy = x.copy, Become(x, y),
         NEW S \in SUBSET AnyTask, Queues(S)
  PROVE  /\ begun \subseteq {y} /\ \A z \in run' : z = y \/ z \in run
         /\ \A u : u # x.task \/ y.pc # "return" => StillDue(u)
         /\ \A u, r : u # x.task \/ r \notin x.todo \/ r \in y.todo => StillVisits(u, r)
         /\ \A u : StillSpare(u)
         /\ \A u \in S : spare(u)' /\ due(u)' /\ \A r : visits(u, r)'
         /\ \A r : willEncode(r) => willEncode(r)'
         /\ \A r : willEncode(r)' => willEncode(r) \/
              \E t \in S : t.type \notin VideoTasks /\ t.arg = r
         /\ \A t \in BagToSet(tasks)' \ BagToSet(tasks) : t \in S
         /\ \A z \in run' : z.task = x.task /\ (\A w \in run : w.task = x.task => w = x) => z = y
  <1>1. /\ BagToSet(tasks)' = BagToSet(tasks) \cup S
        /\ run' = (run \ {x}) \cup {y}
        /\ \A u : spare(u) => spare(u)'
        /\ \A u \in S : spare(u)'
    BY MoveStep
  <1>2. \A u : executions(u)' = {z \in run' : z.task = u}
    BY DEF executions
  <1>3. ASSUME NEW u, u # x.task \/ y.pc # "return", due(u)
        PROVE  due(u)'
    <2>1. CASE spare(u)
      BY <1>1, <2>1 DEF due
    <2>2. CASE \E z \in executions(u) : z.pc # "return"
      <3>1. PICK z \in run : z.task = u /\ z.pc # "return"
        BY <2>2 DEF executions
      <3>2. \E w \in run' : w.task = u /\ w.pc # "return"
        BY <1>1, <1>3, <3>1
      <3>3. QED
        BY <1>2, <3>2 DEF due
    <2>3. QED
      BY <1>3, <2>1, <2>2 DEF due
  <1>4. ASSUME NEW u, NEW r, u # x.task \/ r \notin x.todo \/ r \in y.todo, visits(u, r)
        PROVE  visits(u, r)'
    <2>1. CASE spare(u)
      BY <1>1, <2>1 DEF visits
    <2>2. CASE \E z \in executions(u) : r \in z.todo
      <3>1. PICK z \in run : z.task = u /\ r \in z.todo
        BY <2>2 DEF executions
      <3>2. \E w \in run' : w.task = u /\ r \in w.todo
        BY <1>1, <1>4, <3>1
      <3>3. QED
        BY <1>2, <3>2 DEF visits
    <2>3. QED
      BY <1>4, <2>1, <2>2 DEF visits
  <1>5. \A u \in S : spare(u)' /\ due(u)' /\ \A r : visits(u, r)'
    BY <1>1 DEF due, visits
  <1>6. /\ \A r : willEncode(r) => willEncode(r)'
        /\ \A r : willEncode(r)' => willEncode(r) \/
              \E t \in S : t.type \notin VideoTasks /\ t.arg = r
    BY <1>1 DEF willEncode
  <1>7. QED
    BY <1>1, <1>3, <1>4, <1>5, <1>6 DEF begun, StillDue, StillVisits, StillSpare

LEMMA BeginKeeps ==
  ASSUME TasksTyped, Booked, VideoPipelineAssumption,
         NEW t \in AnyTask, NEW pc \in Places \ {"return"},
         NEW key \in Contents \cup {NoContent}, NEW todo \in SUBSET Rends,
         Begin(t, pc, key, todo)
  PROVE  /\ \A u : StillDue(u)
         /\ \A u, r : u # t \/ r \in todo => StillVisits(u, r)
         /\ \A u : u # t => StillSpare(u)
         /\ \A r : willEncode(r)' <=> willEncode(r)
         /\ \E y : /\ run' = run \cup {y} /\ begun = {y}
                  /\ y.task = t /\ y.pc = pc /\ y.key = key /\ y.todo = todo
  <1>1. PICK y : /\ y \notin run /\ run' = run \cup {y}
                 /\ y.task = t /\ y.pc = pc /\ y.key = key /\ y.todo = todo
    BY BeginStep
  <1>2. tasks' = tasks /\ \A u : u # t => (spare(u)' <=> spare(u))
    BY BeginStep
  <1>3. /\ \A u : executions(u) \subseteq executions(u)'
        /\ y \in executions(t)'
    BY <1>1 DEF executions
  <1>4. \A u : due(u) => due(u)'
    BY <1>1, <1>2, <1>3 DEF due
  <1>5. \A u, r : (u # t \/ r \in todo) /\ visits(u, r) => visits(u, r)'
    BY <1>1, <1>2, <1>3 DEF visits
  <1>6. \A r : willEncode(r)' <=> willEncode(r)
    BY <1>2 DEF willEncode, BagToSet
  <1>7. QED
    BY <1>1, <1>2, <1>4, <1>5, <1>6 DEF begun, StillDue, StillVisits, StillSpare

LEMMA LeaveKeeps ==
  ASSUME TasksTyped, Booked, VideoPipelineAssumption, NEW x \in run,
         run' = run \ {x}, tasks' = tasks
  PROVE  /\ \A u : StillDue(u) /\ StillSpare(u) /\ \A r : StillVisits(u, r)
         /\ \A r : willEncode(r)' <=> willEncode(r)
         /\ begun = {}
  <1>1. \A u : (spare(u) => spare(u)') /\ spare(x.task)'
    BY ErrorStep
  <1>2. \A u : u # x.task => executions(u)' = executions(u)
    BY DEF executions
  <1>3. \A u : due(u) => due(u)'
    BY <1>1, <1>2 DEF due
  <1>4. \A u, r : visits(u, r) => visits(u, r)'
    BY <1>1, <1>2 DEF visits
  <1>5. \A r : willEncode(r)' <=> willEncode(r)
    BY DEF willEncode, BagToSet
  <1>6. QED
    BY <1>1, <1>3, <1>4, <1>5 DEF begun, StillDue, StillVisits, StillSpare

LEMMA DeleteKeeps ==
  ASSUME TasksTyped, Booked, InPlace, VideoPipelineAssumption, NEW x \in run, DeleteTask(x)
  PROVE  /\ \A u : StillDue(u) /\ StillSpare(u) /\ \A r : StillVisits(u, r)
         /\ \A r : willEncode(r)' => willEncode(r)
         /\ \A r : willEncode(r) => willEncode(r)' \/ (x.task.type \notin VideoTasks /\ x.task.arg = r)
         /\ begun = {} /\ BagToSet(tasks)' \subseteq BagToSet(tasks)
  <1>1. /\ run' = run \ {x} /\ \A u : spare(u)' <=> spare(u)
        /\ BagToSet(tasks)' \subseteq BagToSet(tasks)
        /\ BagToSet(tasks) \subseteq BagToSet(tasks)' \cup {x.task}
    BY DeleteStep
  <1>2. x.pc = "return" /\ x.todo = {}
    BY DEF DeleteTask, InPlace, AtItsPlace
  <1>3. \A u : executions(u)' = executions(u) \ {x}
    BY <1>1 DEF executions
  <1>4. \A u : due(u) => due(u)'
    BY <1>1, <1>2, <1>3 DEF due
  <1>5. \A u, r : visits(u, r) => visits(u, r)'
    BY <1>1, <1>2, <1>3 DEF visits
  <1>6. /\ \A r : willEncode(r)' => willEncode(r)
        /\ \A r : willEncode(r) => willEncode(r)' \/ (x.task.type \notin VideoTasks /\ x.task.arg = r)
    BY <1>1 DEF willEncode
  <1>7. QED
    BY <1>1, <1>4, <1>5, <1>6 DEF begun, StillDue, StillVisits, StillSpare

LEMMA DropKeeps ==
  ASSUME TasksTyped, Booked, NEW t, Drop(t)
  PROVE  /\ \A u : u # t => StillDue(u) /\ \A r : StillVisits(u, r)
         /\ \A u : u # t => StillSpare(u)
         /\ \A r : willEncode(r)' => willEncode(r)
         /\ \A r : willEncode(r) => willEncode(r)' \/ (t.type \notin VideoTasks /\ t.arg = r)
         /\ begun = {} /\ BagToSet(tasks)' \subseteq BagToSet(tasks)
  <1>1. /\ run' = run /\ \A u : executions(u)' = executions(u)
        /\ \A u : u # t => (spare(u)' <=> spare(u))
        /\ BagToSet(tasks)' \subseteq BagToSet(tasks)
        /\ BagToSet(tasks) \subseteq BagToSet(tasks)' \cup {t}
    BY DropStep
  <1>2. \A u : u # t /\ due(u) => due(u)'
    BY <1>1 DEF due
  <1>3. \A u, r : u # t /\ visits(u, r) => visits(u, r)'
    BY <1>1 DEF visits
  <1>4. /\ \A r : willEncode(r)' => willEncode(r)
        /\ \A r : willEncode(r) => willEncode(r)' \/ (t.type \notin VideoTasks /\ t.arg = r)
    BY <1>1 DEF willEncode
  <1>5. QED
    BY <1>1, <1>2, <1>3, <1>4 DEF begun, StillDue, StillVisits, StillSpare

LEMMA GrowKeeps ==
  ASSUME TasksTyped, Booked, run' = run, NEW S \in SUBSET AnyTask, Queues(S)
  PROVE  /\ \A u : StillDue(u) /\ StillSpare(u) /\ \A r : StillVisits(u, r)
         /\ \A r : willEncode(r) => willEncode(r)'
         /\ \A r : willEncode(r)' => willEncode(r) \/
              \E t \in S : t.type \notin VideoTasks /\ t.arg = r
         /\ \A t \in BagToSet(tasks)' \ BagToSet(tasks) : t \in S
         /\ begun = {}
  <1>1. /\ BagToSet(tasks)' = BagToSet(tasks) \cup S
        /\ \A u : executions(u)' = executions(u)
        /\ \A u : spare(u) => spare(u)'
    BY GrowStep
  <1>2. \A u : due(u) => due(u)'
    BY <1>1 DEF due
  <1>3. \A u, r : visits(u, r) => visits(u, r)'
    BY <1>1 DEF visits
  <1>4. /\ \A r : willEncode(r) => willEncode(r)'
        /\ \A r : willEncode(r)' => willEncode(r) \/
              \E t \in S : t.type \notin VideoTasks /\ t.arg = r
    BY <1>1 DEF willEncode
  <1>5. QED
    BY <1>1, <1>2, <1>3, <1>4 DEF begun, StillDue, StillVisits, StillSpare

-----------------------------------------------------------------------------
(* Steps that change executions and tasks only.                            *)

(* An execution that begins, or moves on, with the tables as they are.     *)
Sensible(z) ==
    /\ z.task.type = "ingest" /\ z.pc = "copy" /\ z.task.arg \in DOMAIN video
         => video[z.task.arg].original = NoContent
    /\ z.task.type = "reencode" =>
         /\ \A w \in run : w.task # z.task
         /\ \A w \in begun : w = z
         /\ z.task.arg \in DOMAIN video =>
              /\ video[z.task.arg].original # NoContent
              /\ \A y \in run : y.task.type = "ingest" /\ y.task.arg = z.task.arg
                                  => y.pc # "copy"
    /\ z.pc = "queue" => reencodes(z.todo) = {}
    /\ z.pc # "release"
    /\ z.pc = "return" => z.task.type \notin encodes
    /\ z.pc \in {"encode", "extract"} /\ videoOf(z.task) \in DOMAIN video
         => z.key = video[videoOf(z.task)].original
    /\ z.pc \in {"probe", "teardown"} /\ z.task.arg \in DOMAIN video
         => z.key = video[z.task.arg].original

KeepsTasks ==
    /\ \A v \in DOMAIN video : video[v].original = NoContent => StillDue(Task("ingest", v))
    /\ \A v : StillDue(Task("reencode", v))
    /\ \A r \in unmade :
         /\ willEncode(r) => willEncode(r)'
         /\ r.part.purpose = "subtitle" => StillVisits(Task("extract-subs", r.video), r)
         /\ r.part.purpose \notin {"audio", "subtitle"} /\ visits(Task("pass1", r.video), r)
              => visits(Task("pass1", r.video), r)' \/ willEncode(r)'
    /\ \A r : willEncode(r)' => awaited(r)
    /\ \A t \in BagToSet(tasks)' \ BagToSet(tasks) :
         /\ t.type # "pass1"
         /\ t.preset # NoPreset =>
              /\ t.preset = preset
              /\ \E y \in run : y.pc = "queue" /\ t.arg \in y.todo
    /\ \A x \in run : x \in run' /\ x.pc \in {"probe", "teardown"} => StillSpare(x.task)

LEMMA QuietStep ==
  ASSUME Rest, UNCHANGED <<tables, stats, preset>>, KeepsTasks, \A z \in begun : Sensible(z)
  PROVE  Rest'
  <1>1. /\ video' = video /\ rend' = rend /\ stats' = stats /\ preset' = preset
        /\ unmade' = unmade
    BY DEF tables, unmade
  <1>2. \A r \in DOMAIN rend : r.video \in DOMAIN video
    BY DEF Rest, PlanInv, Planned
  <1>3. DOMAIN stats \subseteq reencodes(DOMAIN stats)
    BY DEF Rest, StatsInv, StatsWait
  <1>4. KeepsPlans
    BY <1>1, <1>2 DEF KeepsPlans, Sensible, begun
  <1>5. KeepsWork
    BY <1>1 DEF KeepsWork, Sensible, KeepsTasks
  <1>6. KeepsStats
    <2>1. \A r \in reencodes(unmade) : hasStats(r) => hasStats(r)'
      BY <1>1 DEF hasStats, KeepsTasks, StillDue
    <2>2. \A z \in begun : z.pc = "queue" => \A r \in reencodes(unmade) : r \notin z.todo
      BY DEF Sensible, reencodes
    <2>3. \A z \in begun : z.pc # "release"
      BY DEF Sensible
    <2>4. \A r \in reencodes(unmade) : r \in unmade
      BY DEF reencodes
    <2>5. \A r : willEncode(r)' => awaited(r)
      BY DEF KeepsTasks
    <2>6. QED
      BY <1>1, <1>3, <2>1, <2>2, <2>3, <2>4, <2>5 DEF KeepsStats
  <1>7. KeepsPresets
    <2>1. \A z \in begun : z.pc = "queue" => z.todo \cap DOMAIN stats = {}
      BY <1>3 DEF Sensible, reencodes
    <2>2. QED
      BY <1>1, <2>1 DEF KeepsPresets, KeepsTasks
  <1>8. KeepsSource
    <2>1. ASSUME NEW x \in run', x.pc \in {"probe", "teardown"}, x.task.arg \in DOMAIN video'
          PROVE  \/ x.key = video'[x.task.arg].original
                 \/ \E y \in run : /\ y.pc \in {"probe", "teardown"}
                          /\ y.task = x.task /\ y.key = x.key
                          /\ video'[x.task.arg].original = video[x.task.arg].original
                          /\ StillSpare(x.task)
      BY <1>1, <2>1 DEF KeepsTasks, Sensible, begun
    <2>2. QED
      BY <1>1, <2>1 DEF KeepsSource, KeepsTasks, Sensible
  <1>9. KeepsMade
    BY <1>1 DEF KeepsMade
  <1>10. QED
    BY <1>4, <1>5, <1>6, <1>7, <1>8, <1>9, AllKept DEF KeepsAll

LEMMA SameTables ==
  ASSUME TablesTyped, UNCHANGED <<tables, stats, preset>>,
         clicks' \in 0 .. MaxClicks, faults' \in 0 .. MaxFaults
  PROVE  TablesTyped'
  BY DEF TablesTyped, tables

LEMMA SamePlaces ==
  ASSUME InPlace, \A z \in begun : AtItsPlace(z)
  PROVE  InPlace'
  BY DEF InPlace, begun, AtItsPlace, videoOf

(* An execution ends in an error, or before it has done anything.          *)
LEMMA Erring ==
  ASSUME TypeInv, Rest, VideoPipelineAssumption, NEW x \in run,
         run' = run \ {x}, tasks' = tasks, UNCHANGED <<tables, stats, preset>>,
         clicks' \in 0 .. MaxClicks, faults' \in 0 .. MaxFaults
  PROVE  TypeInv' /\ Rest'
  <1>1. /\ \A u : StillDue(u) /\ StillSpare(u) /\ \A r : StillVisits(u, r)
        /\ \A r : willEncode(r)' <=> willEncode(r)
        /\ begun = {}
    BY LeaveKeeps DEF TypeInv
  <1>2. BagToSet(tasks)' = BagToSet(tasks)
    BY DEF BagToSet
  <1>3. KeepsTasks
    BY <1>1, <1>2 DEF KeepsTasks, awaited, StillVisits
  <1>4. TypeInv'
    BY <1>1, ErrorStep, SameTables, SamePlaces DEF TypeInv
  <1>5. QED
    BY <1>1, <1>3, <1>4, QuietStep

LEMMA Ending ==
  ASSUME TypeInv, Rest, VideoPipelineAssumption, NEW x \in run, DeleteTask(x)
  PROVE  TypeInv' /\ Rest'
  <1>1. /\ \A u : StillDue(u) /\ StillSpare(u) /\ \A r : StillVisits(u, r)
        /\ \A r : willEncode(r)' => willEncode(r)
        /\ \A r : willEncode(r) => willEncode(r)' \/ (x.task.type \notin VideoTasks /\ x.task.arg = r)
        /\ begun = {} /\ BagToSet(tasks)' \subseteq BagToSet(tasks)
    BY DeleteKeeps DEF TypeInv
  <1>2. x.task.type \in encodes => x.task.arg \notin unmade
    BY DEF DeleteTask, Rest, WorkInv, EncodedIsMade
  <1>3. x.task.type \in encodes \/ x.task.type \in VideoTasks
    <2>1. x.task \in AnyTask
      BY RunIsTask DEF TypeInv
    <2>2. QED
      BY <2>1, TaskTypes
  <1>4. \A r \in unmade : willEncode(r) => willEncode(r)'
    BY <1>1, <1>2, <1>3
  <1>5. KeepsTasks
    BY <1>1, <1>4 DEF KeepsTasks, awaited, StillVisits
  <1>6. /\ UNCHANGED <<tables, stats, preset>>
        /\ clicks' \in 0 .. MaxClicks /\ faults' \in 0 .. MaxFaults
    BY DEF DeleteTask, bounds, TypeInv, TablesTyped
  <1>7. TypeInv'
    BY <1>1, <1>6, DeleteStep, SameTables, SamePlaces DEF TypeInv
  <1>8. QED
    BY <1>1, <1>5, <1>6, <1>7, QuietStep

(* A task is found to have nothing to do.                                  *)
LEMMA Dropping ==
  ASSUME TypeInv, Rest, NEW t \in AnyTask, Drop(t),
         t.type \notin {"reencode", "pass1"},
         t.type = "ingest" =>
           t.arg \notin DOMAIN video \/ video[t.arg].original # NoContent,
         t.type = "extract-subs" =>
           \A r \in unmade : r.video = t.arg => r.part.purpose # "subtitle",
         t.type \in encodes => t.arg \notin unmade
  PROVE  TypeInv' /\ Rest'
  <1>1. /\ \A u : u # t => StillDue(u) /\ \A r : StillVisits(u, r)
        /\ \A u : u # t => StillSpare(u)
        /\ \A r : willEncode(r)' => willEncode(r)
        /\ \A r : willEncode(r) => willEncode(r)' \/ (t.type \notin VideoTasks /\ t.arg = r)
        /\ begun = {} /\ BagToSet(tasks)' \subseteq BagToSet(tasks)
    BY DropKeeps DEF TypeInv
  <1>2. \A y, v : Task(y, v).type = y /\ Task(y, v).arg = v
    BY DEF Task
  <1>3. \A v \in DOMAIN video : video[v].original = NoContent => t # Task("ingest", v)
    BY <1>2
  <1>4. \A v : t # Task("reencode", v) /\ t # Task("pass1", v)
    BY <1>2
  <1>5. \A r \in unmade : r.part.purpose = "subtitle" => t # Task("extract-subs", r.video)
    BY <1>2
  <1>6. \A r \in unmade : willEncode(r) => willEncode(r)'
    BY <1>1, TaskTypes
  <1>7. \A x \in run : x.pc \in {"probe", "teardown"} => x.task # t
    BY DEF TypeInv, InPlace, AtItsPlace
  <1>8. KeepsTasks
    BY <1>1, <1>3, <1>4, <1>5, <1>6, <1>7 DEF KeepsTasks, awaited, StillVisits
  <1>9. /\ UNCHANGED <<tables, stats, preset>>
        /\ clicks' \in 0 .. MaxClicks /\ faults' \in 0 .. MaxFaults
    BY DEF Drop, bounds, TypeInv, TablesTyped
  <1>10. TypeInv'
    BY <1>1, <1>9, DropStep, SameTables, SamePlaces DEF TypeInv
  <1>11. QED
    BY <1>1, <1>8, <1>9, <1>10, QuietStep

(* An execution begins.                                                    *)
LEMMA Beginning ==
  ASSUME TypeInv, Rest, VideoPipelineAssumption,
         NEW t \in AnyTask, NEW pc \in Places \ {"return"},
         NEW key \in Contents \cup {NoContent}, NEW todo \in SUBSET Rends,
         Begin(t, pc, key, todo),
         t.type = "reencode" => \A x \in run : x.task # t,
         \A r \in unmade :
           \/ r \in todo
           \/ /\ r.part.purpose = "subtitle" => t # Task("extract-subs", r.video)
              /\ r.part.purpose \notin {"audio", "subtitle"} => t # Task("pass1", r.video),
         \A z : z.task = t /\ z.pc = pc /\ z.key = key /\ z.todo = todo /\ begun = {z}
                  => Sensible(z) /\ AtItsPlace(z)
  PROVE  TypeInv' /\ Rest'
  <1>1. /\ \A u : StillDue(u)
        /\ \A u, r : u # t \/ r \in todo => StillVisits(u, r)
        /\ \A u : u # t => StillSpare(u)
        /\ \A r : willEncode(r)' <=> willEncode(r)
    BY BeginKeeps DEF TypeInv
  <1>2. PICK y : /\ run' = run \cup {y} /\ begun = {y}
                 /\ y.task = t /\ y.pc = pc /\ y.key = key /\ y.todo = todo
    BY BeginKeeps DEF TypeInv
  <1>3. /\ UNCHANGED <<tables, stats, preset>> /\ tasks' = tasks
        /\ clicks' \in 0 .. MaxClicks /\ faults' \in 0 .. MaxFaults
    BY DEF Begin, bounds, TypeInv, TablesTyped
  <1>4. BagToSet(tasks)' = BagToSet(tasks)
    BY <1>3 DEF BagToSet
  <1>5. \A x \in run : x.pc \in {"probe", "teardown"} => x.task # t
    BY DEF TypeInv, InPlace, AtItsPlace
  <1>6. \A r \in unmade : r.part.purpose = "subtitle" => StillVisits(Task("extract-subs", r.video), r)
    BY <1>1
  <1>7. \A r \in unmade : r.part.purpose \notin {"audio", "subtitle"} =>
                               StillVisits(Task("pass1", r.video), r)
    BY <1>1
  <1>8. KeepsTasks
    BY <1>1, <1>4, <1>5, <1>6, <1>7 DEF KeepsTasks, awaited, StillVisits
  <1>9. TypeInv'
    BY <1>2, <1>3, BeginStep, SameTables, SamePlaces DEF TypeInv
  <1>10. QED
    BY <1>2, <1>3, <1>8, <1>9, QuietStep

-----------------------------------------------------------------------------
(* The starts.                                                             *)

LEMMA TaskFields ==
  /\ \A y, v : Task(y, v).type = y /\ Task(y, v).arg = v
  /\ \A y, v, z, w : Task(y, v) = Task(z, w) => y = z /\ v = w
  BY DEF Task

(* What a video with rows looks like.                                      *)
LEMMA RowFacts ==
  ASSUME TypeInv, Rest, NEW r \in DOMAIN rend
  PROVE  /\ r.video \in DOMAIN video /\ video[r.video].probed \in Contents
         /\ video[r.video].original \in Contents
         /\ r \in Rends /\ r.video \in Videos
  BY DEF TypeInv, TablesTyped, Rest, PlanInv, Planned

LEMMA StartIngestKeeps ==
  ASSUME TypeInv, Rest, VideoPipelineAssumption, NEW v \in Videos, StartIngest(v)
  PROVE  TypeInv' /\ Rest'
  <1> DEFINE t == Task("ingest", v)
  <1>1. t \in AnyTask /\ t.type = "ingest" /\ t.arg = v
    BY TaskTypes, TaskFields DEF VideoTasks
  <1>2. \A r : t # Task("extract-subs", r.video) /\ t # Task("pass1", r.video)
    BY TaskFields
  <1> HIDE DEF t
  <1>3. CASE v \in DOMAIN video /\ video[v].original = NoContent
    <2>1. Begin(t, "copy", NoContent, {})
      BY <1>3 DEF StartIngest, t
    <2>2. ASSUME NEW z, z.task = t, z.pc = "copy", z.todo = {}
          PROVE  Sensible(z) /\ AtItsPlace(z)
      BY <1>1, <1>3, <2>2 DEF Sensible, AtItsPlace
    <2>3. QED
      BY <1>1, <1>2, <2>1, <2>2, Beginning DEF Places
  <1>4. CASE ~(v \in DOMAIN video /\ video[v].original = NoContent)
    <2>1. Drop(t)
      BY <1>4 DEF StartIngest, t
    <2>2. QED
      BY <1>1, <1>4, <2>1, Dropping DEF encodes
  <1>5. QED
    BY <1>3, <1>4

LEMMA StartPass1Keeps ==
  ASSUME TypeInv, Rest, VideoPipelineAssumption, NEW v \in Videos, StartPass1(v)
  PROVE  TypeInv' /\ Rest'
  <1> DEFINE t == Task("pass1", v)
             R == renditionsOf(v)
             pc == IF reencodes(R) = {} THEN "queue" ELSE "analyse"
  <1>1. t \in AnyTask /\ t.type = "pass1" /\ t.arg = v
    BY TaskTypes, TaskFields DEF VideoTasks
  <1>2. \A r : t # Task("extract-subs", r.video)
    BY TaskFields
  <1>3. \A r : t = Task("pass1", r.video) => r.video = v
    BY TaskFields
  <1>4. \A r \in Rends : r.part.purpose \in {"streaming", "download", "audio", "subtitle"}
    BY DEF Rends, AllParts, Parts, Renditions, AudioRenditions, SubtitleTracks, Part
  <1>5. /\ R \in SUBSET Rends /\ \A r \in R : r.video = v
        /\ \A r \in unmade : r.video = v /\ r.part.purpose \notin {"audio", "subtitle"}
             => r \in R
    BY <1>4 DEF TypeInv, TablesTyped, renditionsOf, rowsOf, unmade
  <1>6. Begin(t, pc, NoContent, R)
    BY DEF StartPass1
  <1>7. pc \in Places \ {"return"} /\ pc \in {"queue", "analyse"}
        /\ (pc = "queue" => reencodes(R) = {})
    BY DEF Places
  <1>8. videoOf(t) = v
    BY <1>1 DEF videoOf, VideoTasks
  <1> HIDE DEF t, R, pc
  <1>9. ASSUME NEW z, z.task = t, z.pc = pc, z.todo = R
        PROVE  Sensible(z) /\ AtItsPlace(z)
    BY <1>1, <1>5, <1>7, <1>8, <1>9 DEF Sensible, AtItsPlace
  <1>10. \A r \in unmade :
           \/ r \in R
           \/ /\ r.part.purpose = "subtitle" => t # Task("extract-subs", r.video)
              /\ r.part.purpose \notin {"audio", "subtitle"} => t # Task("pass1", r.video)
    BY <1>2, <1>3, <1>5
  <1>11. QED
    BY <1>1, <1>5, <1>6, <1>7, <1>9, <1>10, Beginning

LEMMA StartExtractSubsKeeps ==
  ASSUME TypeInv, Rest, VideoPipelineAssumption, NEW v \in Videos, StartExtractSubs(v)
  PROVE  TypeInv' /\ Rest'
  <1> DEFINE t == Task("extract-subs", v)
             R == {r \in unmade : r.video = v /\ r.part.purpose = "subtitle"}
  <1>1. t \in AnyTask /\ t.type = "extract-subs" /\ t.arg = v
    BY TaskTypes, TaskFields DEF VideoTasks
  <1>2. \A r : t # Task("pass1", r.video)
    BY TaskFields
  <1>3. \A r : t = Task("extract-subs", r.video) => r.video = v
    BY TaskFields
  <1>4. /\ R \in SUBSET Rends /\ \A r \in R : r.video = v
        /\ \A r \in unmade : r.video = v /\ r.part.purpose = "subtitle" => r \in R
    BY DEF TypeInv, TablesTyped, unmade
  <1>5. v \in DOMAIN video /\ IF R = {} THEN Drop(t) ELSE Begin(t, "extract", video[v].original, R)
    BY DEF StartExtractSubs
  <1>6. R # {} => video[v].original \in Contents
    BY RowFacts DEF unmade
  <1>7. videoOf(t) = v
    BY <1>1 DEF videoOf, VideoTasks
  <1> HIDE DEF t, R
  <1>8. CASE R = {}
    <2>1. QED
      BY <1>1, <1>4, <1>5, <1>8, Dropping DEF encodes
  <1>9. CASE R # {}
    <2>1. ASSUME NEW z, z.task = t, z.pc = "extract", z.todo = R, z.key = video[v].original
          PROVE  Sensible(z) /\ AtItsPlace(z)
      BY <1>1, <1>4, <1>6, <1>7, <1>9, <2>1 DEF Sensible, AtItsPlace
    <2>2. \A r \in unmade :
           \/ r \in R
           \/ /\ r.part.purpose = "subtitle" => t # Task("extract-subs", r.video)
              /\ r.part.purpose \notin {"audio", "subtitle"} => t # Task("pass1", r.video)
      BY <1>2, <1>3, <1>4
    <2>3. QED
      BY <1>1, <1>4, <1>5, <1>6, <1>9, <2>1, <2>2, Beginning DEF Places
  <1>10. QED
    BY <1>8, <1>9

LEMMA StartReimportKeeps ==
  ASSUME TypeInv, Rest, VideoPipelineAssumption, NEW v \in Videos, StartReimport(v)
  PROVE  TypeInv' /\ Rest'
  <1> DEFINE t == Task("reimport", v)
  <1>1. t \in AnyTask /\ t.type = "reimport" /\ t.arg = v
    BY TaskTypes, TaskFields DEF VideoTasks
  <1>2. \A r : t # Task("extract-subs", r.video) /\ t # Task("pass1", r.video)
    BY TaskFields
  <1>3. Begin(t, "copy", NoContent, {})
    BY DEF StartReimport
  <1> HIDE DEF t
  <1>4. ASSUME NEW z, z.task = t, z.pc = "copy", z.todo = {}
        PROVE  Sensible(z) /\ AtItsPlace(z)
    BY <1>1, <1>4 DEF Sensible, AtItsPlace
  <1>5. QED
    BY <1>1, <1>2, <1>3, <1>4, Beginning DEF Places

LEMMA StartReencodeKeeps ==
  ASSUME TypeInv, Rest, VideoPipelineAssumption, ~Overtakes,
         NEW v \in Videos, StartReencode(v)
  PROVE  TypeInv' /\ Rest'
  <1> DEFINE t == Task("reencode", v)
  <1>1. t \in AnyTask /\ t.type = "reencode" /\ t.arg = v
    BY TaskTypes, TaskFields DEF VideoTasks
  <1>2. \A r : t # Task("extract-subs", r.video) /\ t # Task("pass1", r.video)
    BY TaskFields
  <1>3. Begin(t, "probe", video[v].original, {})
    BY DEF StartReencode
  <1>4. v \in DOMAIN video /\ video[v].original \in Contents
    BY DEF StartReencode, TypeInv, TablesTyped
  <1>5. \A y \in run : y.task.type \in {"ingest", "reencode"} => y.task.arg # v
    BY DEF StartReencode, holders, videoOf, VideoTasks
  <1> HIDE DEF t
  <1>6. ASSUME NEW z, z.task = t, z.pc = "probe", z.todo = {}, z.key = video[v].original,
               begun = {z}
        PROVE  Sensible(z) /\ AtItsPlace(z)
    BY <1>1, <1>4, <1>5, <1>6 DEF Sensible, AtItsPlace
  <1>7. QED
    BY <1>1, <1>2, <1>3, <1>4, <1>5, <1>6, Beginning DEF Places

LEMMA StartEncodeKeeps ==
  ASSUME TypeInv, Rest, VideoPipelineAssumption, NEW t \in BagToSet(tasks), StartEncode(t)
  PROVE  TypeInv' /\ Rest'
  <1> DEFINE key == video[t.arg.video].original
  <1>1. t \in AnyTask /\ t.type \in encodes /\ t.arg \in Rends
    BY TaskTypes DEF StartEncode, encodes, TypeInv, TasksTyped
  <1>2. t.type \notin VideoTasks
    BY <1>1, TaskTypes
  <1>3. \A r : t # Task("extract-subs", r.video) /\ t # Task("pass1", r.video)
    BY <1>1, TaskFields DEF encodes
  <1>4. videoOf(t) = t.arg.video
    BY <1>2 DEF videoOf
  <1>5. CASE t.arg \in unmade
    <2>1. Begin(t, "encode", key, {t.arg})
      BY <1>5 DEF StartEncode
    <2>2. key \in Contents
      BY <1>5, RowFacts DEF unmade
    <2> HIDE DEF key
    <2>3. ASSUME NEW z, z.task = t, z.pc = "encode", z.todo = {t.arg}, z.key = key
          PROVE  Sensible(z) /\ AtItsPlace(z)
      <3>1. z.key = video[videoOf(z.task)].original
        BY <1>4, <2>3 DEF key
      <3>2. QED
        BY <1>1, <1>4, <2>2, <2>3, <3>1 DEF Sensible, AtItsPlace, encodes
    <2>4. t.type # "reencode"
      BY <1>1 DEF encodes
    <2>5. QED
      BY <1>1, <1>3, <2>1, <2>2, <2>3, <2>4, Beginning DEF Places
  <1>6. CASE t.arg \notin unmade
    <2>1. Drop(t)
      BY <1>6 DEF StartEncode
    <2>2. QED
      BY <1>1, <1>6, <2>1, Dropping DEF encodes
  <1>7. QED
    BY <1>5, <1>6

-----------------------------------------------------------------------------
(* Executions that move on.                                                *)

Returned(x) == [x EXCEPT !.pc = "return", !.key = NoContent, !.todo = {}]
At(x, pc) == [x EXCEPT !.pc = pc]

LEMMA Places2 ==
  ASSUME TypeInv, NEW x \in run
  PROVE  /\ Returned(x) \in Execution /\ AtItsPlace(Returned(x))
         /\ Returned(x).task = x.task /\ Returned(x).copy = x.copy
         /\ Returned(x).pc = "return" /\ Returned(x).todo = {}
         /\ \A pc \in Places :
              /\ At(x, pc) \in Execution
              /\ At(x, pc).task = x.task /\ At(x, pc).copy = x.copy
              /\ At(x, pc).pc = pc /\ At(x, pc).todo = x.todo /\ At(x, pc).key = x.key
         /\ AtItsPlace(x) /\ x \in Execution /\ x.task \in AnyTask
         /\ x.task.type \in VideoTasks =>
              /\ x.task = Task(x.task.type, x.task.arg) /\ x.task.arg \in Videos
              /\ videoOf(x.task) = x.task.arg
         /\ x.task.type \in encodes => x.task.arg \in Rends /\ videoOf(x.task) = x.task.arg.video
  <1>1. x \in Execution /\ AtItsPlace(x)
    BY DEF TypeInv, TasksTyped, InPlace
  <1>2. x.task \in AnyTask
    BY <1>1 DEF Execution
  <1>3. /\ Returned(x) \in Execution
        /\ Returned(x).task = x.task /\ Returned(x).copy = x.copy
        /\ Returned(x).pc = "return" /\ Returned(x).todo = {}
    BY <1>1 DEF Returned, Execution, Places
  <1>4. \A pc \in Places :
              /\ At(x, pc) \in Execution
              /\ At(x, pc).task = x.task /\ At(x, pc).copy = x.copy
              /\ At(x, pc).pc = pc /\ At(x, pc).todo = x.todo /\ At(x, pc).key = x.key
    BY <1>1 DEF At, Execution
  <1>5. AtItsPlace(Returned(x))
    BY <1>3 DEF AtItsPlace
  <1>6. x.task.type \in VideoTasks =>
              /\ x.task = Task(x.task.type, x.task.arg) /\ x.task.arg \in Videos
              /\ videoOf(x.task) = x.task.arg
    BY <1>2, TaskTypes DEF videoOf
  <1>7. x.task.type \in encodes => x.task.arg \in Rends /\ videoOf(x.task) = x.task.arg.video
    BY <1>2, TaskTypes DEF videoOf
  <1>8. QED
    BY <1>1, <1>2, <1>3, <1>4, <1>5, <1>6, <1>7

LEMMA MoveTypes ==
  ASSUME TypeInv, NEW x \in run, NEW y \in Execution, AtItsPlace(y),
         y.task = x.task, y.copy = x.copy, Become(x, y),
         NEW S \in SUBSET AnyTask, Queues(S), TablesTyped'
  PROVE  TypeInv'
  <1>1. \A z \in begun : AtItsPlace(z)
    BY DEF Become, begun
  <1>2. QED
    BY <1>1, MoveStep, SamePlaces DEF TypeInv

(* The execution has done its work without touching a table.               *)
LEMMA QuietReturn ==
  ASSUME TypeInv, Rest, NEW x \in run, Return(x),
         x.task.type \notin encodes \cup {"reencode", "extract-subs"},
         NEW S \in SUBSET AnyTask, Queues(S),
         x.task.type = "ingest" => x.task \in S,
         x.task.type = "pass1" =>
           \A r \in x.todo : \E t \in S : t.type \notin VideoTasks /\ t.arg = r,
         \A t \in S :
            /\ t.type # "pass1"
            /\ t.type \in VideoTasks \/ (x.pc = "queue" /\ t.arg \in x.todo)
            /\ t.preset # NoPreset => t.preset = preset /\ x.pc = "queue" /\ t.arg \in x.todo,
         UNCHANGED <<tables, stats, preset>>,
         clicks' \in 0 .. MaxClicks, faults' \in 0 .. MaxFaults
  PROVE  TypeInv' /\ Rest'
  <1> DEFINE y == Returned(x)
  <1>1. /\ y \in Execution /\ AtItsPlace(y) /\ y.task = x.task /\ y.copy = x.copy
        /\ y.pc = "return" /\ y.todo = {}
    BY Places2
  <1>2. Become(x, y)
    BY DEF Return, Returned
  <1> HIDE DEF y
  <1>3. TypeInv'
    BY <1>1, <1>2, MoveTypes, SameTables DEF TypeInv
  <1>4. /\ begun \subseteq {y}
        /\ \A u : u # x.task => StillDue(u)
        /\ \A u, r : u # x.task \/ r \notin x.todo => StillVisits(u, r)
        /\ \A u : StillSpare(u)
        /\ \A u \in S : spare(u)' /\ due(u)' /\ \A r : visits(u, r)'
        /\ \A r : willEncode(r) => willEncode(r)'
        /\ \A r : willEncode(r)' => willEncode(r) \/
              \E t \in S : t.type \notin VideoTasks /\ t.arg = r
        /\ \A t \in BagToSet(tasks)' \ BagToSet(tasks) : t \in S
        /\ \A r : (\E t \in S : t.type \notin VideoTasks /\ t.arg = r) => willEncode(r)'
    <2>1. \A r : (\E t \in S : t.type \notin VideoTasks /\ t.arg = r) => willEncode(r)'
      <3>1. BagToSet(tasks)' = BagToSet(tasks) \cup S
        BY QueuesStep DEF TypeInv
      <3>2. QED
        BY <3>1 DEF willEncode
    <2>2. QED
      BY <1>1, <1>2, <2>1, MoveKeeps DEF TypeInv
  <1>5. Sensible(y)
    BY <1>1 DEF Sensible
  <1>6. \A v : StillDue(Task("reencode", v))
    BY <1>4, TaskFields
  <1>7. \A v : StillDue(Task("ingest", v))
    <2>1. ASSUME NEW v, Task("ingest", v) = x.task
          PROVE  due(Task("ingest", v))'
      BY <1>4, <2>1, TaskFields
    <2>2. QED
      BY <1>4, <2>1 DEF StillDue
  <1>8. \A r : StillVisits(Task("extract-subs", r.video), r)
    BY <1>4, TaskFields
  <1>9. ASSUME NEW r \in unmade, r.part.purpose \notin {"audio", "subtitle"},
               visits(Task("pass1", r.video), r)
        PROVE  visits(Task("pass1", r.video), r)' \/ willEncode(r)'
    <2>1. CASE Task("pass1", r.video) # x.task \/ r \notin x.todo
      BY <1>4, <1>9, <2>1 DEF StillVisits
    <2>2. CASE x.task = Task("pass1", r.video) /\ r \in x.todo
      <3>1. x.task.type = "pass1"
        BY <2>2, TaskFields
      <3>2. QED
        BY <1>4, <2>2, <3>1
    <2>3. QED
      BY <2>1, <2>2
  <1>10. \A r : willEncode(r)' => awaited(r)
    BY <1>4 DEF awaited
  <1>11. KeepsTasks
    BY <1>4, <1>6, <1>7, <1>8, <1>9, <1>10 DEF KeepsTasks
  <1>12. QED
    BY <1>3, <1>4, <1>5, <1>11, QuietStep

LEMMA IngestTooEarlyKeeps ==
  ASSUME TypeInv, Rest, VideoPipelineAssumption, NEW x \in run, IngestTooEarly(x)
  PROVE  TypeInv' /\ Rest'
  <1>1. x.task \in AnyTask /\ x.task.type = "ingest" /\ x.task.type \in VideoTasks
    BY Places2 DEF IngestTooEarly, VideoTasks
  <1>2. Queues({x.task}) /\ Return(x) /\ UNCHANGED <<tables, stats, preset>>
    BY DEF IngestTooEarly, Queues
  <1>3. clicks' \in 0 .. MaxClicks /\ faults' \in 0 .. MaxFaults
    BY DEF IngestTooEarly, TypeInv, TablesTyped, VideoPipelineAssumption
  <1>4. x.task.preset = NoPreset
    BY <1>1, TaskTypes, Places2 DEF Task
  <1>5. x.pc = "copy"
    BY DEF IngestTooEarly
  <1>6. QED
    BY <1>1, <1>2, <1>3, <1>4, QuietReturn DEF encodes

LEMMA Pass1CommitKeeps ==
  ASSUME TypeInv, Rest, VideoPipelineAssumption, NEW x \in run, Pass1Commit(x)
  PROVE  TypeInv' /\ Rest'
  <1> DEFINE S == queueRenditions(x.todo)
  <1>1. x.pc = "queue" /\ x.task.type = "pass1"
    BY Places2 DEF Pass1Commit, AtItsPlace
  <1>2. x.todo \subseteq Rends /\ preset \in Presets /\ preset # NoPreset
    BY Places2 DEF Execution, TypeInv, TablesTyped, VideoPipelineAssumption
  <1>3. S \subseteq RendTask
    BY <1>2, TaskTypes DEF queueRenditions
  <1>4. \A r, p : EncodeTask(r, p).type \in encodes /\ EncodeTask(r, p).arg = r
                 /\ EncodeTask(r, p).preset = p
    BY DEF EncodeTask, encodes
  <1>5. /\ \A r \in x.todo : \E t \in S : t.type \in encodes /\ t.arg = r
        /\ \A t \in S : t.type \in encodes /\ t.arg \in x.todo /\ t.preset = preset
    <2>1. ASSUME NEW r \in x.todo
          PROVE  \E t \in S : t.type \in encodes /\ t.arg = r
      <3>1. EncodeTask(r, preset) \in S
        BY DEF queueRenditions
      <3>2. QED
        BY <1>4, <3>1
    <2>2. ASSUME NEW t \in S
          PROVE  t.type \in encodes /\ t.arg \in x.todo /\ t.preset = preset
      <3>1. PICK r \in x.todo : t = EncodeTask(r, preset)
        BY DEF queueRenditions
      <3>2. QED
        BY <1>4, <3>1
    <2>3. QED
      BY <2>1, <2>2
  <1>6. Queues(S) /\ Return(x) /\ UNCHANGED <<tables, stats, preset>>
        /\ clicks' \in 0 .. MaxClicks /\ faults' \in 0 .. MaxFaults
    BY DEF Pass1Commit, Queues, bounds, TypeInv, TablesTyped
  <1> HIDE DEF S
  <1>7. S \in SUBSET AnyTask
    BY <1>3 DEF AnyTask
  <1>8. \A u \in encodes : u \notin VideoTasks /\ u # "pass1"
    BY TaskTypes DEF VideoTasks
  <1>9. QED
    BY <1>1, <1>5, <1>6, <1>7, <1>8, QuietReturn DEF encodes

(* An editor asks for something.                                           *)
LEMMA ClickKeeps ==
  ASSUME TypeInv, Rest, VideoPipelineAssumption, NEW t \in AnyTask,
         t.type \in {"reimport", "reencode"}, tasks' = tasks (+) SetToBag({t}),
         UNCHANGED <<tables, run, stats>>, Click
  PROVE  TypeInv' /\ Rest'
  <1>1. Queues({t}) /\ run' = run
    BY DEF Queues
  <1>2. /\ UNCHANGED <<tables, stats, preset>>
        /\ clicks' \in 0 .. MaxClicks /\ faults' \in 0 .. MaxFaults
    BY DEF Click, TypeInv, TablesTyped, VideoPipelineAssumption
  <1>3. /\ \A u : StillDue(u) /\ StillSpare(u) /\ \A r : StillVisits(u, r)
        /\ \A r : willEncode(r) => willEncode(r)'
        /\ \A r : willEncode(r)' => willEncode(r) \/
              \E u \in {t} : u.type \notin VideoTasks /\ u.arg = r
        /\ \A u \in BagToSet(tasks)' \ BagToSet(tasks) : u \in {t}
        /\ begun = {}
    <2>1. {t} \in SUBSET AnyTask
      OBVIOUS
    <2>2. QED
      BY <1>1, <2>1, GrowKeeps DEF TypeInv
  <1>4. t.type \in VideoTasks /\ t.preset = NoPreset
    <2>1. t.type \in VideoTasks
      BY DEF VideoTasks
    <2>2. QED
      BY <2>1, TaskTypes DEF Task
  <1>5. KeepsTasks
    BY <1>3, <1>4 DEF KeepsTasks, awaited, StillVisits
  <1>6. TasksTyped' /\ Booked'
    <2>1. {t} \in SUBSET AnyTask
      OBVIOUS
    <2>2. QED
      BY <1>1, <2>1, GrowStep DEF TypeInv
  <1>7. TypeInv'
    BY <1>2, <1>3, <1>6, SameTables, SamePlaces DEF TypeInv
  <1>8. QED
    BY <1>2, <1>3, <1>5, <1>7, QuietStep

LEMMA ClicksKeep ==
  ASSUME TypeInv, Rest, VideoPipelineAssumption, NEW v \in Videos,
         ReimportVideo(v) \/ ReencodeVideo(v)
  PROVE  TypeInv' /\ Rest'
  <1>1. /\ Task("reimport", v) \in AnyTask /\ Task("reimport", v).type = "reimport"
        /\ Task("reencode", v) \in AnyTask /\ Task("reencode", v).type = "reencode"
    BY TaskTypes, TaskFields DEF VideoTasks
  <1>2. CASE ReimportVideo(v)
    BY <1>1, <1>2, ClickKeeps DEF ReimportVideo
  <1>3. CASE ReencodeVideo(v)
    BY <1>1, <1>3, ClickKeeps DEF ReencodeVideo
  <1>4. QED
    BY <1>2, <1>3

LEMMA ErrorKeeps ==
  ASSUME TypeInv, Rest, VideoPipelineAssumption, NEW x \in run, Error(x),
         preset' = preset, clicks' = clicks,
         faults' = faults \/ (faults < MaxFaults /\ faults' = faults + 1)
  PROVE  TypeInv' /\ Rest'
  <1>1. clicks' \in 0 .. MaxClicks /\ faults' \in 0 .. MaxFaults
    BY DEF TypeInv, TablesTyped, VideoPipelineAssumption
  <1>2. QED
    BY <1>1, Erring DEF Error, tables

-----------------------------------------------------------------------------
(* Steps that change a table.                                              *)

LEMMA FewerStats ==
  ASSUME StatsWait,
         \A r \in DOMAIN stats' : r \in DOMAIN stats /\ stats'[r] = stats[r],
         unmade' \subseteq unmade,
         \A r \in reencodes(unmade') : awaited(r) /\ r \in DOMAIN stats
           => Backlog \/ r \in DOMAIN stats' \/ due(Task("reencode", r.video))',
         \A v : StillDue(Task("reencode", v)),
         \A r : willEncode(r)' => willEncode(r),
         \A t \in BagToSet(tasks)' \ BagToSet(tasks) : t.type # "pass1" /\ t.preset = NoPreset,
         \A z \in begun :
            /\ z.pc # "queue"
            /\ z.pc = "release" => \A r \in reencodes(unmade') : z.task.arg.video # r.video
  PROVE  KeepsStats /\ (preset' = preset => KeepsPresets)
  <1>1. DOMAIN stats' \subseteq reencodes(DOMAIN stats')
    BY DEF StatsWait, reencodes
  <1>2. \A r \in reencodes(unmade') : awaited(r) /\ hasStats(r) => hasStats(r)'
    BY DEF hasStats, StillDue
  <1>3. \A r \in reencodes(unmade') : r \in unmade
    BY DEF reencodes
  <1>4. KeepsStats
    BY <1>1, <1>2, <1>3 DEF KeepsStats, awaited
  <1>5. preset' = preset => KeepsPresets
    BY DEF KeepsPresets
  <1>6. QED
    BY <1>4, <1>5

(* Rows are made from what executions have opened, and videos become       *)
(* playable; or nothing of the two tables changes.                         *)
LEMMA RowsMade ==
  ASSUME Rest,
         DOMAIN video' = DOMAIN video, DOMAIN rend' = DOMAIN rend,
         \A v \in DOMAIN video :
           /\ video'[v].original = video[v].original
           /\ video'[v].probed = video[v].probed
           /\ video'[v].playable => video[v].playable \/ isPlayableMV(v, rend'),
         \A r \in DOMAIN rend :
           \/ rend'[r] = rend[r]
           \/ \E x \in opened : /\ videoOf(x.task) = r.video /\ r \in x.todo
                                /\ rend'[r] = x.key /\ x.key # NoContent,
         \A v : StillDue(Task("ingest", v)) /\ StillDue(Task("reencode", v)),
         \A r \in unmade' : /\ StillVisits(Task("extract-subs", r.video), r)
                            /\ StillVisits(Task("pass1", r.video), r)
                            /\ willEncode(r) => willEncode(r)',
         \A z \in begun :
           /\ z.pc # "copy"
           /\ z.task.type \in encodes /\ z.pc \in {"release", "return"} => z.task.arg \notin unmade'
           /\ z.pc \in {"encode", "extract"} =>
                \E x \in opened : z.task = x.task /\ z.key = x.key /\ z.todo \subseteq x.todo
           /\ z.task.type = "reencode" =>
                /\ \A w \in run' : w.task = z.task => w = z
                /\ \E x \in run : x.task = z.task
           /\ z.pc \in {"probe", "teardown"} =>
                \E x \in run : /\ x.pc \in {"probe", "teardown"}
                               /\ x.task = z.task /\ x.key = z.key,
         \A u : StillSpare(u)
  PROVE  KeepsPlans /\ KeepsWork /\ KeepsSource /\ KeepsMade
  <1>1. \A r \in DOMAIN rend : r.video \in DOMAIN video
    BY DEF Rest, PlanInv, Planned
  <1>2. KeepsPlans
    BY <1>1 DEF KeepsPlans
  <1>3. \A r \in unmade' : r \in unmade
    BY DEF unmade
  <1>4. KeepsWork
    BY <1>3 DEF KeepsWork, StillVisits
  <1>5. KeepsSource
    <2>1. \A v \in DOMAIN video, r \in DOMAIN rend : r.video = v =>
             \/ rend'[r] = rend[r]
             \/ \E x \in opened :
                  videoOf(x.task) = v /\ r \in x.todo /\ rend'[r] = x.key
      OBVIOUS
    <2>2. \A v \in DOMAIN video, z \in begun : z.pc \in {"encode", "extract"} /\ videoOf(z.task) = v =>
            \E x \in opened :
               videoOf(x.task) = v /\ z.key = x.key /\ z.todo \subseteq x.todo
      BY DEF videoOf
    <2>3. ASSUME NEW x \in run', x.pc \in {"probe", "teardown"}, x.task.arg \in DOMAIN video'
          PROVE  \E y \in run : /\ y.pc \in {"probe", "teardown"}
                          /\ y.task = x.task /\ y.key = x.key
                          /\ video'[x.task.arg].original = video[x.task.arg].original
                          /\ StillSpare(x.task)
      BY <2>3 DEF begun
    <2>4. QED
      BY <2>1, <2>2, <2>3 DEF KeepsSource
  <1>6. KeepsMade
    BY DEF KeepsMade
  <1>7. QED
    BY <1>2, <1>4, <1>5, <1>6

(* A video goes, and its rows with it.                                     *)
LEMMA VideoGoes ==
  ASSUME TypeInv, Rest, NEW v,
         video' = Restrict(video, DOMAIN video \ {v}),
         DOMAIN rend' = DOMAIN rend \ rowsOf(v),
         \A r \in DOMAIN rend' : rend'[r] = rend[r],
         UNCHANGED <<stats, preset>>, tasks' = tasks,
         begun = {} \/ (\E y : begun = {y} /\ y.task = Task("ingest", v) /\ y.pc = "return"),
         \A u : u # Task("ingest", v) => StillDue(u) /\ \A r : StillVisits(u, r),
         \A u : StillSpare(u)
  PROVE  Rest'
  <1>1. /\ DOMAIN video' = DOMAIN video \ {v}
        /\ \A w \in DOMAIN video' : video'[w] = video[w]
        /\ DOMAIN rend' = DOMAIN rend \ rowsOf(v)
        /\ \A r \in DOMAIN rend' : rend'[r] = rend[r]
    BY DEF Restrict
  <1>2. \A r \in DOMAIN rend : r.video \in DOMAIN video /\ (r \in DOMAIN rend' <=> r.video # v)
    BY <1>1 DEF Rest, PlanInv, Planned, rowsOf
  <1>3. \A z \in begun : z.task.type = "ingest" /\ z.pc = "return"
    BY TaskFields
  <1>4. \A w : Task("reencode", w) # Task("ingest", v) /\ Task("pass1", w) # Task("ingest", v)
               /\ Task("extract-subs", w) # Task("ingest", v)
               /\ (w # v => Task("ingest", w) # Task("ingest", v))
    BY TaskFields
  <1>5. unmade' \subseteq unmade
    BY <1>1 DEF unmade
  <1>6. BagToSet(tasks)' = BagToSet(tasks) /\ \A r : willEncode(r)' <=> willEncode(r)
    BY DEF BagToSet, willEncode
  <1>7. KeepsPlans
    BY <1>1, <1>2, <1>3 DEF KeepsPlans
  <1>8. KeepsWork
    BY <1>1, <1>3, <1>4, <1>5, <1>6 DEF KeepsWork, StillVisits, encodes
  <1>9. KeepsStats /\ KeepsPresets
    BY <1>3, <1>4, <1>5, <1>6, FewerStats DEF Rest, StatsInv
  <1>10. KeepsSource
    <2>1. ASSUME NEW x \in run', x.pc \in {"probe", "teardown"}, x.task.arg \in DOMAIN video'
          PROVE  \E y \in run : /\ y.pc \in {"probe", "teardown"}
                          /\ y.task = x.task /\ y.key = x.key
                          /\ video'[x.task.arg].original = video[x.task.arg].original
                          /\ StillSpare(x.task)
      BY <1>1, <1>3, <2>1 DEF begun
    <2>2. QED
      BY <1>1, <1>3, <1>4, <2>1 DEF KeepsSource
  <1>11. KeepsMade
    BY <1>1, <1>2 DEF KeepsMade
  <1>12. QED
    BY <1>7, <1>8, <1>9, <1>10, <1>11, AllKept DEF KeepsAll

LEMMA Recomputed ==
  ASSUME TypeInv, NEW v \in DOMAIN video, NEW rows, recomputePlayable(v, rows), links' = links
  PROVE  /\ DOMAIN video' = DOMAIN video
         /\ \A w \in DOMAIN video :
              /\ video'[w].original = video[w].original
              /\ video'[w].probed = video[w].probed
              /\ video'[w].playable => video[w].playable \/ isPlayableMV(w, rows)
         /\ video' \in [DOMAIN video' -> [original : Contents \cup {NoContent},
                                          probed : Contents \cup {NoContent},
                                          playable : BOOLEAN]]
         /\ active' \subseteq links'
  <1> DEFINE V == [original : Contents \cup {NoContent}, probed : Contents \cup {NoContent},
                   playable : BOOLEAN]
  <1>1. video \in [DOMAIN video -> V] /\ active \subseteq links
    BY DEF TypeInv, TablesTyped
  <1>2. CASE isPlayableMV(v, rows)
    <2>1. /\ video' = [video EXCEPT ![v].playable = TRUE]
          /\ active' \subseteq links
      BY <1>1, <1>2 DEF recomputePlayable
    <2>2. \A w \in DOMAIN video : video'[w] =
            IF w = v THEN [video[v] EXCEPT !.playable = TRUE] ELSE video[w]
      BY <2>1
    <2>3. DOMAIN video' = DOMAIN video
      BY <2>1
    <2>4. ASSUME NEW w \in DOMAIN video
          PROVE  /\ video'[w] \in V
                 /\ video'[w].original = video[w].original
                 /\ video'[w].probed = video[w].probed
                 /\ video'[w].playable => video[w].playable \/ isPlayableMV(w, rows)
      BY <1>1, <1>2, <2>2
    <2>5. video' \in [DOMAIN video' -> V]
      BY <2>1, <2>3, <2>4
    <2>6. QED
      BY <2>1, <2>3, <2>4, <2>5
  <1>3. CASE ~isPlayableMV(v, rows)
    BY <1>1, <1>3 DEF recomputePlayable
  <1>4. QED
    BY <1>2, <1>3

(* One row is made from what an execution has opened.                      *)
LEMMA RowTyped ==
  ASSUME TypeInv, NEW r \in DOMAIN rend, NEW c \in Contents, VideoPipelineAssumption,
         rend' = [rend EXCEPT ![r] = c]
  PROVE  /\ DOMAIN rend' = DOMAIN rend /\ rend' \in [DOMAIN rend' -> Contents \cup {NoContent}]
         /\ rend'[r] = c /\ \A q \in DOMAIN rend : q # r => rend'[q] = rend[q]
         /\ unmade' = unmade \ {r}
  BY DEF TypeInv, TablesTyped, unmade, VideoPipelineAssumption

LEMMA EncodeCommitKeeps ==
  ASSUME TypeInv, Rest, VideoPipelineAssumption, NEW x \in run, EncodeCommit(x)
  PROVE  TypeInv' /\ Rest'
  <1> DEFINE r == x.task.arg
             rows == [rend EXCEPT ![r] = x.key]
  <1>1. /\ x.pc = "encode" /\ x.task.type \in encodes /\ x.key \in Contents /\ x.todo = {r}
        /\ x.task.type \notin VideoTasks /\ videoOf(x.task) = r.video
    BY Places2, TaskTypes DEF EncodeCommit, AtItsPlace
  <1>2. UNCHANGED <<preset, clicks, faults>>
    BY DEF EncodeCommit, bounds
  <1>3. CASE r \notin DOMAIN rend
    BY <1>2, <1>3, ErrorKeeps DEF EncodeCommit
  <1>4. CASE r \in DOMAIN rend
    <2>1. /\ rend' = rows /\ UNCHANGED <<links, tasks, stats>>
          /\ \/ UNCHANGED <<video, active>>
             \/ recomputePlayable(r.video, rows)
          /\ \/ Return(x)
             \/ allRenditionsEncoded(r.video, rows) /\ Goto(x, "release")
      BY <1>4 DEF EncodeCommit
    <2>2. r.video \in DOMAIN video
      BY <1>4, RowFacts
    <2>3. /\ DOMAIN video' = DOMAIN video
          /\ \A w \in DOMAIN video :
              /\ video'[w].original = video[w].original
              /\ video'[w].probed = video[w].probed
              /\ video'[w].playable => video[w].playable \/ isPlayableMV(w, rend')
          /\ video' \in [DOMAIN video' -> [original : Contents \cup {NoContent},
                                           probed : Contents \cup {NoContent},
                                           playable : BOOLEAN]]
          /\ active' \subseteq links'
      <3>1. CASE UNCHANGED <<video, active>>
        BY <2>1, <3>1 DEF TypeInv, TablesTyped
      <3>2. CASE recomputePlayable(r.video, rows)
        BY <2>1, <2>2, <3>2, Recomputed
      <3>3. QED
        BY <2>1, <3>1, <3>2
    <2>4. /\ DOMAIN rend' = DOMAIN rend /\ rend' \in [DOMAIN rend' -> Contents \cup {NoContent}]
          /\ rend'[r] = x.key /\ \A q \in DOMAIN rend : q # r => rend'[q] = rend[q]
          /\ unmade' = unmade \ {r}
      BY <1>1, <1>4, <2>1, RowTyped
    <2>5. TablesTyped'
      BY <1>2, <2>1, <2>3, <2>4 DEF TypeInv, TablesTyped
    <2>6. PICK y \in {Returned(x), At(x, "release")} :
            /\ Become(x, y)
            /\ y.pc = "release" => allRenditionsEncoded(r.video, rows)
      <3>1. CASE Return(x)
        BY <3>1, Places2 DEF Return, Returned
      <3>2. CASE allRenditionsEncoded(r.video, rows) /\ Goto(x, "release")
        BY <3>2 DEF Goto, At
      <3>3. QED
        BY <2>1, <3>1, <3>2
    <2>7. /\ y \in Execution /\ y.task = x.task /\ y.copy = x.copy
          /\ y.pc \in {"release", "return"} /\ AtItsPlace(y)
      <3>1. "release" \in Places
        BY DEF Places
      <3>2. CASE y = Returned(x)
        BY <3>2, Places2 DEF AtItsPlace
      <3>3. CASE y = At(x, "release")
        <4>1. /\ y \in Execution /\ y.task = x.task /\ y.copy = x.copy
              /\ y.pc = "release" /\ y.todo = x.todo
          BY <3>1, <3>3, Places2
        <4>2. AtItsPlace(x)
          BY Places2
        <4>3. AtItsPlace(y)
          BY <1>1, <4>1, <4>2 DEF AtItsPlace
        <4>4. QED
          BY <4>1, <4>3
      <3>4. QED
        BY <2>6, <3>2, <3>3
    <2>8. Queues({}) /\ {} \in SUBSET AnyTask
      BY <2>1 DEF Queues
    <2>9. TypeInv'
      BY <2>5, <2>6, <2>7, <2>8, MoveTypes
    <2>10. /\ begun \subseteq {y}
           /\ \A u : u # x.task => StillDue(u)
           /\ \A u, q : u # x.task => StillVisits(u, q)
           /\ \A u : StillSpare(u)
           /\ \A q : willEncode(q)' <=> willEncode(q)
      BY <2>6, <2>7, <2>8, MoveKeeps DEF TypeInv
    <2>11. \A v : /\ Task("ingest", v) # x.task /\ Task("reencode", v) # x.task
                  /\ Task("extract-subs", v) # x.task /\ Task("pass1", v) # x.task
      BY <1>1, TaskFields DEF encodes
    <2>12. x \in opened /\ r \in x.todo /\ rend'[r] = x.key /\ x.key # NoContent
           /\ videoOf(x.task) = r.video
      BY <1>1, <2>4 DEF opened, VideoPipelineAssumption
    <2>13. \A z \in begun : z = y /\ z.task.type \in encodes /\ z.task.arg \notin unmade'
                            /\ z.pc \in {"release", "return"}
      BY <1>1, <2>4, <2>7, <2>10
    <2>14. \A q \in DOMAIN rend : \/ rend'[q] = rend[q]
                                  \/ q = r
      BY <2>4
    <2>15. KeepsPlans /\ KeepsWork /\ KeepsSource /\ KeepsMade
      BY <2>3, <2>4, <2>10, <2>11, <2>12, <2>13, <2>14, RowsMade DEF encodes
    <2>16. y.pc = "release" => \A q \in reencodes(unmade') : q.video # r.video
      <3>1. SUFFICES ASSUME allRenditionsEncoded(r.video, rows),
                            NEW q \in reencodes(unmade'), q.video = r.video
                     PROVE  FALSE
        BY <2>6
      <3>2. q \in renditionsOf(r.video)
        BY <2>4, <3>1 DEF renditionsOf, rowsOf, reencodes, unmade
      <3>3. q \in DOMAIN rend' /\ rend'[q] = NoContent
        BY <3>1 DEF reencodes, unmade
      <3>4. QED
        BY <2>1, <3>1, <3>2, <3>3 DEF allRenditionsEncoded
    <2>17. BagToSet(tasks)' = BagToSet(tasks)
      BY <2>1 DEF BagToSet
    <2>18. KeepsStats /\ KeepsPresets
      BY <1>2, <2>1, <2>4, <2>7, <2>10, <2>11, <2>13, <2>16, <2>17, FewerStats DEF Rest, StatsInv
    <2>19. QED
      BY <2>9, <2>15, <2>18, AllKept DEF KeepsAll
  <1>5. QED
    BY <1>3, <1>4

(* An execution moves on to pc, and perhaps statistics go.                 *)
LEMMA Advancing ==
  ASSUME TypeInv, Rest, VideoPipelineAssumption, NEW x \in run,
         NEW y \in Execution, AtItsPlace(y), y.task = x.task, y.copy = x.copy, Become(x, y),
         y.pc \in {"queue", "teardown", "return", "extract", "rebuild"},
         y.pc = "return" => x.task.type \notin {"ingest", "reencode"},
         y.pc = "return" /\ x.task.type \in encodes => x.task.arg \notin unmade',
         y.pc = "extract" => x \in opened /\ y.key = x.key,
         y.pc = "teardown" => x.pc = "probe" /\ y.key = x.key,
         y.todo \subseteq x.todo,
         x.task.type \in {"pass1", "extract-subs"} => x.todo \cap unmade' \subseteq y.todo,
         tasks' = tasks,
         DOMAIN video' = DOMAIN video, DOMAIN rend' = DOMAIN rend,
         \A v \in DOMAIN video :
           /\ video'[v].original = video[v].original
           /\ video'[v].probed = video[v].probed
           /\ video'[v].playable => video[v].playable \/ isPlayableMV(v, rend'),
         \A r \in DOMAIN rend :
           \/ rend'[r] = rend[r]
           \/ \E z \in opened : /\ videoOf(z.task) = r.video /\ r \in z.todo
                                /\ rend'[r] = z.key /\ z.key # NoContent,
         TablesTyped'
  PROVE  /\ TypeInv' /\ KeepsPlans /\ KeepsWork /\ KeepsSource /\ KeepsMade
         /\ begun \subseteq {y}
         /\ \A v : StillDue(Task("reencode", v))
         /\ \A r : willEncode(r)' <=> willEncode(r)
         /\ BagToSet(tasks)' = BagToSet(tasks)
         /\ y.pc = "teardown" => due(x.task)'
  <1>1. Queues({}) /\ {} \in SUBSET AnyTask
    BY DEF Queues
  <1>2. TypeInv'
    BY <1>1, MoveTypes
  <1>3. /\ begun \subseteq {y}
        /\ \A u : u # x.task \/ y.pc # "return" => StillDue(u)
        /\ \A u, q : u # x.task \/ q \notin x.todo \/ q \in y.todo => StillVisits(u, q)
        /\ \A u : StillSpare(u)
        /\ \A q : willEncode(q)' <=> willEncode(q)
    BY <1>1, MoveKeeps DEF TypeInv
  <1>4. \A v : StillDue(Task("ingest", v)) /\ StillDue(Task("reencode", v))
    BY <1>3, TaskFields
  <1>5. ASSUME NEW q \in unmade'
        PROVE  StillVisits(Task("extract-subs", q.video), q) /\ StillVisits(Task("pass1", q.video), q)
    BY <1>3, <1>5, TaskFields
  <1>6. \A w \in run' : w.task = x.task /\ x.task.type = "reencode" => w = y
    BY DEF Become, Rest, PlanInv, IngestAlone
  <1>7. \A z \in begun :
           /\ z.pc # "copy"
           /\ z.task.type \in encodes /\ z.pc \in {"release", "return"} => z.task.arg \notin unmade'
           /\ z.pc \in {"encode", "extract"} =>
                \E w \in opened : z.task = w.task /\ z.key = w.key /\ z.todo \subseteq w.todo
           /\ z.task.type = "reencode" =>
                /\ \A w \in run' : w.task = z.task => w = z
                /\ \E w \in run : w.task = z.task
           /\ z.pc \in {"probe", "teardown"} =>
                \E w \in run : /\ w.pc \in {"probe", "teardown"}
                               /\ w.task = z.task /\ w.key = z.key
    <2>1. y.pc # "copy" /\ y.pc # "release" /\ y.pc # "encode" /\ y.pc # "probe"
      OBVIOUS
    <2>2. y.pc = "teardown" => x.pc \in {"probe", "teardown"} /\ x.task = y.task /\ x.key = y.key
      OBVIOUS
    <2>3. \A z \in begun : z = y
      BY <1>3
    <2>4. QED
      BY <1>6, <2>1, <2>2, <2>3
  <1>8. KeepsPlans /\ KeepsWork /\ KeepsSource /\ KeepsMade
    BY <1>3, <1>4, <1>5, <1>7, RowsMade
  <1>9. y.pc = "teardown" => due(x.task)'
    <2>1. y \in run'
      BY DEF Become
    <2>2. QED
      BY <2>1 DEF due, executions
  <1>10. BagToSet(tasks)' = BagToSet(tasks)
    BY DEF BagToSet
  <1>11. QED
    BY <1>2, <1>3, <1>4, <1>8, <1>9, <1>10

LEMMA SameTasks ==
  ASSUME tasks' = tasks
  PROVE  BagToSet(tasks)' = BagToSet(tasks) /\ \A r : willEncode(r)' <=> willEncode(r)
  BY DEF BagToSet, willEncode

LEMMA ReleaseStatsKeeps ==
  ASSUME TypeInv, Rest, VideoPipelineAssumption, NEW x \in run, ReleaseStats(x)
  PROVE  TypeInv' /\ Rest'
  <1> DEFINE y == Returned(x)
             v == x.task.arg.video
  <1>1. /\ x.pc = "release" /\ x.task.type \in encodes
        /\ Become(x, y) /\ UNCHANGED <<tables, tasks, preset, clicks, faults>>
        /\ stats' = Restrict(stats, DOMAIN stats \ batch(v))
    BY Places2 DEF ReleaseStats, Return, Returned, AtItsPlace, bounds
  <1>2. /\ y \in Execution /\ AtItsPlace(y) /\ y.task = x.task /\ y.copy = x.copy
        /\ y.pc = "return" /\ y.todo = {}
    BY Places2
  <1> HIDE DEF y
  <1>3. x.task.arg \notin unmade'
    BY <1>1 DEF Rest, WorkInv, EncodedIsMade, unmade, tables
  <1>4. /\ video' = video /\ rend' = rend /\ unmade' = unmade
    BY <1>1 DEF tables, unmade
  <1>5. /\ \A r \in DOMAIN stats' : r \in DOMAIN stats /\ stats'[r] = stats[r]
        /\ \A r \in DOMAIN stats : r.video # v => r \in DOMAIN stats'
    BY <1>1 DEF Restrict, batch
  <1>6. TablesTyped'
    BY <1>1, <1>5 DEF TypeInv, TablesTyped, tables, Restrict
  <1>7. /\ TypeInv' /\ KeepsPlans /\ KeepsWork /\ KeepsSource /\ KeepsMade
        /\ begun \subseteq {y}
        /\ \A w : StillDue(Task("reencode", w))
        /\ \A r : willEncode(r)' <=> willEncode(r)
        /\ BagToSet(tasks)' = BagToSet(tasks)
    BY <1>1, <1>2, <1>3, <1>4, <1>6, Advancing DEF encodes
  <1>8. \A r \in reencodes(unmade) : r.video = v => ~awaited(r)
    BY <1>1 DEF Rest, StatsInv, StatsWait, awaited
  <1>9. \A z \in begun : z.pc = "return"
    BY <1>2, <1>7
  <1>10. KeepsStats /\ KeepsPresets
    BY <1>1, <1>4, <1>5, <1>7, <1>8, <1>9, FewerStats DEF Rest, StatsInv
  <1>11. QED
    BY <1>7, <1>10, AllKept DEF KeepsAll

LEMMA ReencodeReleasesKeeps ==
  ASSUME TypeInv, Rest, VideoPipelineAssumption, NEW x \in run, ReencodeReleases(x)
  PROVE  TypeInv' /\ Rest'
  <1> DEFINE y == At(x, "teardown")
             v == x.task.arg
  <1>1. /\ x.pc = "probe" /\ x.task.type = "reencode" /\ x.key \in Contents
        /\ Become(x, y) /\ UNCHANGED <<tables, tasks, preset, clicks, faults>>
        /\ stats' = Restrict(stats, DOMAIN stats \ batch(v))
    BY Places2 DEF ReencodeReleases, Goto, At, AtItsPlace, bounds
  <1>2. "teardown" \in Places
    BY DEF Places
  <1>3. /\ y \in Execution /\ y.task = x.task /\ y.copy = x.copy
        /\ y.pc = "teardown" /\ y.todo = x.todo /\ y.key = x.key
    BY <1>2, Places2
  <1>4. x.task = Task("reencode", v)
    BY <1>1, Places2 DEF VideoTasks
  <1> HIDE DEF y
  <1>5. AtItsPlace(y)
    <2>1. AtItsPlace(x)
      BY Places2
    <2>2. QED
      BY <1>1, <1>3, <2>1 DEF AtItsPlace
  <1>6. /\ video' = video /\ rend' = rend /\ unmade' = unmade
    BY <1>1 DEF tables, unmade
  <1>7. /\ \A r \in DOMAIN stats' : r \in DOMAIN stats /\ stats'[r] = stats[r]
        /\ \A r \in DOMAIN stats : r.video # v => r \in DOMAIN stats'
    BY <1>1 DEF Restrict, batch
  <1>8. TablesTyped'
    BY <1>1, <1>7 DEF TypeInv, TablesTyped, tables, Restrict
  <1>9. /\ TypeInv' /\ KeepsPlans /\ KeepsWork /\ KeepsSource /\ KeepsMade
        /\ begun \subseteq {y}
        /\ \A w : StillDue(Task("reencode", w))
        /\ \A r : willEncode(r)' <=> willEncode(r)
        /\ BagToSet(tasks)' = BagToSet(tasks)
        /\ due(x.task)'
    BY <1>1, <1>3, <1>5, <1>6, <1>8, Advancing
  <1>10. \A z \in begun : z.pc = "teardown"
    BY <1>3, <1>9
  <1>11. due(Task("reencode", v))'
    BY <1>4, <1>9 DEF due, spare, executions, copies
  <1>12. \A r \in reencodes(unmade') : awaited(r) /\ r \in DOMAIN stats
           => r \in DOMAIN stats' \/ due(Task("reencode", r.video))'
    BY <1>7, <1>11
  <1>13. KeepsStats /\ KeepsPresets
    BY <1>1, <1>6, <1>7, <1>9, <1>10, <1>12, FewerStats DEF Rest, StatsInv
  <1>14. QED
    BY <1>9, <1>13, AllKept DEF KeepsAll

LEMMA RebuildKeeps ==
  ASSUME TypeInv, Rest, VideoPipelineAssumption, NEW x \in run, RebuildAfterSubs(x)
  PROVE  TypeInv' /\ Rest'
  <1> DEFINE y == Returned(x)
  <1>1. /\ x.pc = "rebuild" /\ x.task.type = "extract-subs" /\ x.todo = {}
        /\ Become(x, y) /\ UNCHANGED <<rend, links, tasks, stats, preset, clicks, faults>>
        /\ \/ x.task.arg \in DOMAIN video /\ recomputePlayable(x.task.arg, rend)
           \/ UNCHANGED <<video, active>>
    BY Places2 DEF RebuildAfterSubs, Return, Returned, AtItsPlace, bounds
  <1>2. /\ y \in Execution /\ AtItsPlace(y) /\ y.task = x.task /\ y.copy = x.copy
        /\ y.pc = "return" /\ y.todo = {}
    BY Places2
  <1> HIDE DEF y
  <1>3. /\ DOMAIN video' = DOMAIN video
        /\ \A w \in DOMAIN video :
              /\ video'[w].original = video[w].original
              /\ video'[w].probed = video[w].probed
              /\ video'[w].playable => video[w].playable \/ isPlayableMV(w, rend')
        /\ video' \in [DOMAIN video' -> [original : Contents \cup {NoContent},
                                         probed : Contents \cup {NoContent},
                                         playable : BOOLEAN]]
        /\ active' \subseteq links'
    <2>1. CASE x.task.arg \in DOMAIN video /\ recomputePlayable(x.task.arg, rend)
      BY <1>1, <2>1, Recomputed
    <2>2. CASE UNCHANGED <<video, active>>
      BY <1>1, <2>2 DEF TypeInv, TablesTyped
    <2>3. QED
      BY <1>1, <2>1, <2>2
  <1>4. unmade' = unmade
    BY <1>1 DEF unmade
  <1>5. TablesTyped'
    BY <1>1, <1>3 DEF TypeInv, TablesTyped
  <1>6. /\ TypeInv' /\ KeepsPlans /\ KeepsWork /\ KeepsSource /\ KeepsMade
        /\ begun \subseteq {y}
        /\ \A w : StillDue(Task("reencode", w))
        /\ \A r : willEncode(r)' <=> willEncode(r)
        /\ BagToSet(tasks)' = BagToSet(tasks)
    BY <1>1, <1>2, <1>3, <1>5, Advancing DEF encodes
  <1>7. \A z \in begun : z.pc = "return"
    BY <1>2, <1>6
  <1>8. KeepsStats /\ KeepsPresets
    BY <1>1, <1>4, <1>6, <1>7, FewerStats DEF Rest, StatsInv
  <1>9. QED
    BY <1>6, <1>8, AllKept DEF KeepsAll

LEMMA ExtractTrackKeeps ==
  ASSUME TypeInv, Rest, VideoPipelineAssumption, NEW x \in run, ExtractTrack(x)
  PROVE  TypeInv' /\ Rest'
  <1>1. /\ x.pc = "extract" /\ x.task.type = "extract-subs" /\ x.key \in Contents
        /\ UNCHANGED <<preset, clicks, faults>>
        /\ \A r \in x.todo : r.video = videoOf(x.task)
        /\ x \in Execution
    BY Places2 DEF ExtractTrack, AtItsPlace, bounds
  <1>2. PICK r \in x.todo :
         IF r \notin DOMAIN rend THEN Error(x)
         ELSE /\ rend' = [rend EXCEPT ![r] = x.key]
              /\ Become(x, [x EXCEPT !.todo = @ \ {r},
                              !.pc = IF x.todo = {r} THEN "rebuild" ELSE @])
              /\ UNCHANGED <<video, links, active, tasks, stats>>
    BY DEF ExtractTrack
  <1>3. CASE r \notin DOMAIN rend
    BY <1>1, <1>2, <1>3, ErrorKeeps
  <1>4. CASE r \in DOMAIN rend
    <2> DEFINE y == [x EXCEPT !.todo = @ \ {r}, !.pc = IF x.todo = {r} THEN "rebuild" ELSE @]
    <2>1. /\ rend' = [rend EXCEPT ![r] = x.key] /\ Become(x, y)
          /\ UNCHANGED <<video, links, active, tasks, stats>>
      BY <1>2, <1>4
    <2>2. /\ y \in Execution /\ y.task = x.task /\ y.copy = x.copy /\ y.key = x.key
          /\ y.todo = x.todo \ {r} /\ y.pc \in {"extract", "rebuild"}
          /\ y.pc = "rebuild" => y.todo = {}
      BY <1>1 DEF Execution, Places
    <2> HIDE DEF y
    <2>3. AtItsPlace(y)
      BY <1>1, <2>2 DEF AtItsPlace
    <2>4. /\ DOMAIN rend' = DOMAIN rend /\ rend' \in [DOMAIN rend' -> Contents \cup {NoContent}]
          /\ rend'[r] = x.key /\ \A q \in DOMAIN rend : q # r => rend'[q] = rend[q]
          /\ unmade' = unmade \ {r}
      BY <1>1, <1>4, <2>1, RowTyped
    <2>5. TablesTyped'
      BY <1>1, <2>1, <2>4 DEF TypeInv, TablesTyped
    <2>6. x \in opened /\ x.key # NoContent /\ videoOf(x.task) = r.video
      BY <1>1 DEF opened, VideoPipelineAssumption
    <2>7. \A q \in DOMAIN rend :
           \/ rend'[q] = rend[q]
           \/ \E z \in opened : /\ videoOf(z.task) = q.video /\ q \in z.todo
                                /\ rend'[q] = z.key /\ z.key # NoContent
      BY <2>4, <2>6
    <2>8. /\ TypeInv' /\ KeepsPlans /\ KeepsWork /\ KeepsSource /\ KeepsMade
          /\ begun \subseteq {y}
          /\ \A w : StillDue(Task("reencode", w))
          /\ \A q : willEncode(q)' <=> willEncode(q)
          /\ BagToSet(tasks)' = BagToSet(tasks)
      BY <1>1, <2>1, <2>2, <2>3, <2>4, <2>5, <2>6, <2>7, Advancing DEF encodes
    <2>9. \A z \in begun : z.pc \notin {"queue", "release"}
      BY <2>2, <2>8
    <2>10. KeepsStats /\ KeepsPresets
      BY <1>1, <2>1, <2>4, <2>8, <2>9, FewerStats DEF Rest, StatsInv
    <2>11. QED
      BY <2>8, <2>10, AllKept DEF KeepsAll
  <1>5. QED
    BY <1>3, <1>4

LEMMA Pass1AnalysesKeeps ==
  ASSUME TypeInv, Rest, VideoPipelineAssumption, ~Overtakes, NEW x \in run, Pass1Analyses(x)
  PROVE  TypeInv' /\ Rest'
  <1> DEFINE y == At(x, "queue")
             v == x.task.arg
             R == reencodes(x.todo)
  <1>1. /\ x.pc = "analyse" /\ x.task.type = "pass1"
        /\ Become(x, y) /\ UNCHANGED <<tables, tasks, preset, clicks, faults>>
        /\ stats' = [r \in DOMAIN stats \cup R |-> IF r \in R THEN preset ELSE stats[r]]
        /\ \A z \in holders(v) : z.pc # "release"
    BY Places2 DEF Pass1Analyses, Goto, At, AtItsPlace, bounds, analysed
  <1>2. "queue" \in Places
    BY DEF Places
  <1>3. /\ y \in Execution /\ y.task = x.task /\ y.copy = x.copy
        /\ y.pc = "queue" /\ y.todo = x.todo /\ y.key = x.key
    BY <1>2, Places2
  <1>4. /\ x.task = Task("pass1", v) /\ x.todo \subseteq Rends
        /\ \A r \in x.todo : r.video = v
    BY <1>1, Places2 DEF VideoTasks, AtItsPlace, Execution
  <1> HIDE DEF y
  <1>5. AtItsPlace(y)
    <2>1. AtItsPlace(x)
      BY Places2
    <2>2. QED
      BY <1>1, <1>3, <2>1 DEF AtItsPlace
  <1>6. /\ video' = video /\ rend' = rend /\ unmade' = unmade
    BY <1>1 DEF tables, unmade
  <1>7. /\ DOMAIN stats' = DOMAIN stats \cup R /\ R \subseteq Rends
        /\ \A r \in R : stats'[r] = preset
        /\ \A r \in DOMAIN stats \ R : stats'[r] = stats[r]
    BY <1>1, <1>4 DEF reencodes
  <1>8. TablesTyped'
    BY <1>1, <1>7 DEF TypeInv, TablesTyped, tables
  <1>9. /\ TypeInv' /\ KeepsPlans /\ KeepsWork /\ KeepsSource /\ KeepsMade
        /\ begun \subseteq {y}
        /\ \A w : StillDue(Task("reencode", w))
        /\ \A r : willEncode(r)' <=> willEncode(r)
        /\ BagToSet(tasks)' = BagToSet(tasks)
    BY <1>1, <1>3, <1>5, <1>6, <1>8, Advancing DEF encodes
  <1>10. KeepsStats
    <2>1. DOMAIN stats' \subseteq reencodes(DOMAIN stats')
      BY <1>7 DEF Rest, StatsInv, StatsWait, reencodes
    <2>2. \A r \in reencodes(unmade') : hasStats(r) => hasStats(r)'
      BY <1>7, <1>9 DEF hasStats, StillDue
    <2>3. \A r \in reencodes(unmade') : r \in unmade /\ (r \in x.todo => r \in R)
      BY <1>6 DEF reencodes
    <2>4. \A r \in x.todo : r \in R => hasStats(r)'
      BY <1>7 DEF hasStats
    <2>5. \A z \in run' : z.pc = "release" => z.task.arg.video # v
      <3>1. ASSUME NEW z \in run', z.pc = "release"
            PROVE  z \in run /\ z.task.type \notin VideoTasks
        <4>1. z \in run
          BY <1>3, <3>1, <1>1 DEF Become
        <4>2. z.task.type \in encodes
          BY <3>1, <4>1, Places2 DEF AtItsPlace
        <4>3. QED
          BY <4>1, <4>2, TaskTypes
      <3>2. QED
        BY <1>1, <3>1 DEF holders, videoOf
    <2>6. \A z \in begun : z.pc = "queue" /\ z.todo = x.todo
      BY <1>3, <1>9
    <2>7. \A r \in reencodes(unmade'), z \in begun : z.pc = "queue" /\ r \in z.todo =>
             /\ hasStats(r)'
             /\ \A u \in run' : u.pc = "release" => u.task.arg.video # r.video
      BY <1>4, <2>3, <2>4, <2>5, <2>6
    <2>8. QED
      BY <1>9, <2>1, <2>2, <2>3, <2>6, <2>7 DEF KeepsStats, awaited
  <1>11. PresetsStand'
    <2>1. ASSUME NEW t \in BagToSet(tasks), presetFor(t), t.arg \in unmade
          PROVE  /\ t.arg \in DOMAIN stats' => stats'[t.arg] = t.preset
                 /\ Task("pass1", t.arg.video) \in BagToSet(tasks) => t.preset = preset
      <3>1. x.task \in BagToSet(tasks)
        BY RunIsTask DEF TypeInv
      <3>2. /\ t.arg \in DOMAIN stats => stats[t.arg] = t.preset
            /\ Task("pass1", t.arg.video) \in BagToSet(tasks) => t.preset = preset
        BY <2>1 DEF Rest, StatsInv, PresetsStand
      <3>3. t.arg \in R => t.arg.video = v
        BY <1>4 DEF reencodes
      <3>4. QED
        BY <1>4, <1>7, <3>1, <3>2, <3>3
    <2>2. ASSUME NEW z \in run', z.pc = "queue", NEW r \in z.todo, r \in unmade, r \in DOMAIN stats'
          PROVE  stats'[r] = preset
      <3>1. CASE r \in R
        BY <1>7, <3>1
      <3>2. CASE r \notin R
        <4>1. r \in DOMAIN stats /\ stats'[r] = stats[r]
          BY <1>7, <2>2, <3>2
        <4>2. r \in reencodes(DOMAIN stats)
          BY <4>1 DEF Rest, StatsInv, StatsWait
        <4>3. r \notin x.todo
          BY <3>2, <4>2 DEF reencodes
        <4>4. z \in run
          BY <1>1, <1>3, <2>2, <4>3 DEF Become
        <4>5. QED
          BY <2>2, <4>1, <4>4 DEF Rest, StatsInv, PresetsStand
      <3>3. QED
        BY <3>1, <3>2
    <2>3. QED
      BY <1>1, <1>6, <1>9, <2>1, <2>2 DEF PresetsStand
  <1>12. QED
    BY <1>9, <1>10, <1>11, PlansKept, WorkKept, StatsKept, SourceKept, MadeKept
       DEF Rest, PlanInv, WorkInv, StatsInv

LEMMA SweepOrphansKeeps ==
  ASSUME TypeInv, Rest, VideoPipelineAssumption, NEW v \in Videos, SweepOrphans(v)
  PROVE  TypeInv' /\ Rest'
  <1>1. /\ UNCHANGED <<tables, tasks, run, preset, clicks, faults>>
        /\ stats' = Restrict(stats, DOMAIN stats \ batch(v))
        /\ Backlog \/ batch(v) \cap unmade = {}
    BY DEF SweepOrphans, bounds
  <1>2. /\ video' = video /\ rend' = rend /\ unmade' = unmade /\ begun = {}
    BY <1>1 DEF tables, unmade, begun
  <1>3. Queues({}) /\ {} \in SUBSET AnyTask
    BY <1>1 DEF Queues
  <1>4. /\ \A u : StillDue(u) /\ StillSpare(u) /\ \A r : StillVisits(u, r)
        /\ \A r : willEncode(r)' <=> willEncode(r)
    BY <1>1, <1>3, GrowKeeps DEF TypeInv
  <1>5. KeepsPlans /\ KeepsWork /\ KeepsSource /\ KeepsMade
    BY <1>2, <1>4, RowsMade
  <1>6. /\ \A r \in DOMAIN stats' : r \in DOMAIN stats /\ stats'[r] = stats[r]
        /\ \A r \in DOMAIN stats : r.video # v => r \in DOMAIN stats'
    BY <1>1 DEF Restrict, batch
  <1>7. \A r \in reencodes(unmade') : r \in DOMAIN stats => Backlog \/ r \in DOMAIN stats'
    BY <1>1, <1>2, <1>6 DEF batch, reencodes
  <1>8. BagToSet(tasks)' = BagToSet(tasks)
    BY <1>1 DEF BagToSet
  <1>9. KeepsStats /\ KeepsPresets
    BY <1>1, <1>2, <1>4, <1>6, <1>7, <1>8, FewerStats DEF Rest, StatsInv
  <1>10. TablesTyped'
    BY <1>1, <1>6 DEF TypeInv, TablesTyped, tables, Restrict
  <1>11. TypeInv'
    BY <1>1, <1>2, <1>3, <1>10, GrowStep, SamePlaces DEF TypeInv
  <1>12. QED
    BY <1>5, <1>9, <1>11, AllKept DEF KeepsAll

LEMMA CrashKeeps ==
  ASSUME TypeInv, Rest, VideoPipelineAssumption, Crash
  PROVE  TypeInv' /\ Rest'
  <1>1. /\ run' = {} /\ UNCHANGED <<tables, tasks, stats>>
        /\ preset' \in IF PresetReplays \/ \A v \in Videos : ~toRepeat(v) THEN Presets ELSE {preset}
        /\ clicks' = clicks /\ faults < MaxFaults /\ faults' = faults + 1
    BY DEF Crash, Fault
  <1>2. /\ video' = video /\ rend' = rend /\ unmade' = unmade /\ begun = {}
    BY <1>1 DEF tables, unmade, begun
  <1>3. \A u : spare(u) \/ executions(u) # {} => spare(u)'
    BY <1>1, CrashStep DEF TypeInv
  <1>4. /\ \A u : StillDue(u) /\ StillSpare(u) /\ \A r : StillVisits(u, r)
    BY <1>3 DEF StillDue, StillSpare, StillVisits, due, visits
  <1>5. BagToSet(tasks)' = BagToSet(tasks) /\ \A r : willEncode(r)' <=> willEncode(r)
    BY <1>1, SameTasks
  <1>6. KeepsPlans /\ KeepsWork /\ KeepsSource /\ KeepsMade
    BY <1>2, <1>4, <1>5, RowsMade
  <1>7. KeepsStats
    BY <1>1, <1>2, <1>4, <1>5, FewerStats DEF Rest, StatsInv
  <1>8. PresetsStand'
    <2>1. ASSUME NEW t \in BagToSet(tasks), presetFor(t), t.arg \in unmade
          PROVE  /\ t.arg \in DOMAIN stats => stats[t.arg] = t.preset
                 /\ Task("pass1", t.arg.video) \in BagToSet(tasks) => t.preset = preset'
      <3>1. /\ t.arg \in DOMAIN stats => stats[t.arg] = t.preset
            /\ Task("pass1", t.arg.video) \in BagToSet(tasks) => t.preset = preset
        BY <2>1 DEF Rest, StatsInv, PresetsStand
      <3>2. t.arg.video \in Videos
        BY <2>1, RowFacts DEF unmade
      <3>3. Task("pass1", t.arg.video) \in BagToSet(tasks) => toRepeat(t.arg.video)
        BY <2>1 DEF toRepeat, presetFor
      <3>4. QED
        BY <1>1, <2>1, <3>1, <3>2, <3>3 DEF presetFor
    <2>2. QED
      BY <1>1, <1>2, <1>5, <2>1 DEF PresetsStand
  <1>9. TablesTyped'
    <2>1. preset' \in Presets
      BY <1>1 DEF TypeInv, TablesTyped
    <2>2. QED
      BY <1>1, <2>1 DEF TypeInv, TablesTyped, tables, VideoPipelineAssumption
  <1>10. TypeInv'
    BY <1>1, <1>2, <1>9, CrashStep, SamePlaces DEF TypeInv
  <1>11. QED
    BY <1>6, <1>7, <1>8, <1>10, PlansKept, WorkKept, StatsKept, SourceKept, MadeKept
       DEF Rest, PlanInv, WorkInv, StatsInv

LEMMA PurgeVideoKeeps ==
  ASSUME TypeInv, Rest, VideoPipelineAssumption, NEW v \in Videos, PurgeVideo(v)
  PROVE  TypeInv' /\ Rest'
  <1>1. /\ video' = Restrict(video, DOMAIN video \ {v})
        /\ rend' = Restrict(rend, DOMAIN rend \ rowsOf(v))
        /\ links' = {l \in links : l[2] # v} /\ active' = {l \in active : l[2] # v}
        /\ UNCHANGED <<tasks, run, stats, preset, faults>>
        /\ clicks < MaxClicks /\ clicks' = clicks + 1
    BY DEF PurgeVideo, Click
  <1>2. begun = {}
    BY <1>1 DEF begun
  <1>3. Queues({}) /\ {} \in SUBSET AnyTask
    BY <1>1 DEF Queues
  <1>4. \A u : StillDue(u) /\ StillSpare(u) /\ \A r : StillVisits(u, r)
    BY <1>1, <1>3, GrowKeeps DEF TypeInv
  <1>5. Rest'
    <2>1. DOMAIN rend' = DOMAIN rend \ rowsOf(v) /\ \A r \in DOMAIN rend' : rend'[r] = rend[r]
      BY <1>1 DEF Restrict
    <2>2. QED
      BY <1>1, <1>2, <1>4, <2>1, VideoGoes
  <1>6. TablesTyped'
    BY <1>1 DEF TypeInv, TablesTyped, Restrict, VideoPipelineAssumption
  <1>7. TypeInv'
    BY <1>1, <1>2, <1>3, <1>6, GrowStep, SamePlaces DEF TypeInv
  <1>8. QED
    BY <1>5, <1>7

LEMMA ReimportCommitKeeps ==
  ASSUME TypeInv, Rest, VideoPipelineAssumption,
         NEW x \in run, NEW c \in Contents, ReimportCommit(x, c)
  PROVE  TypeInv' /\ Rest'
  <1> DEFINE v == x.task.arg
             y == Returned(x)
             t == Task("reencode", v)
  <1>1. /\ x.pc = "copy" /\ x.task.type = "reimport" /\ UNCHANGED <<preset, clicks, faults>>
        /\ \/ Error(x)
           \/ /\ v \in DOMAIN video
              /\ video' = [video EXCEPT ![v].original = c]
              /\ tasks' = tasks (+) SetToBag({t})
              /\ Become(x, y)
              /\ UNCHANGED <<rend, links, active, stats>>
    BY DEF ReimportCommit, bounds, afterReimport, Return, Returned
  <1>2. CASE Error(x)
    BY <1>1, <1>2, ErrorKeeps
  <1>3. CASE /\ v \in DOMAIN video
             /\ video' = [video EXCEPT ![v].original = c]
             /\ tasks' = tasks (+) SetToBag({t})
             /\ Become(x, y)
             /\ UNCHANGED <<rend, links, active, stats>>
    <2>1. /\ y \in Execution /\ AtItsPlace(y) /\ y.task = x.task /\ y.copy = x.copy
          /\ y.pc = "return" /\ y.todo = {}
      BY Places2
    <2>2. /\ DOMAIN video' = DOMAIN video
          /\ \A w \in DOMAIN video :
               /\ w # v => video'[w] = video[w]
               /\ video'[w].probed = video[w].probed
               /\ video'[w].playable = video[w].playable
          /\ video'[v].original = c /\ c # NoContent
          /\ video'[v] \in [original : Contents \cup {NoContent},
                            probed : Contents \cup {NoContent}, playable : BOOLEAN]
      BY <1>3 DEF TypeInv, TablesTyped, VideoPipelineAssumption
    <2>3. v \in Videos /\ t \in AnyTask /\ t.type = "reencode" /\ t.preset = NoPreset
      BY <1>3, TaskTypes DEF TypeInv, TablesTyped, Task, VideoTasks
    <2>4. Queues({t}) /\ {t} \in SUBSET AnyTask
      BY <1>3, <2>3 DEF Queues
    <2>5. \A w : Task("ingest", w) # x.task /\ Task("reencode", w) # x.task
                 /\ Task("pass1", w) # x.task /\ Task("extract-subs", w) # x.task
      BY <1>1, TaskFields
    <2>6. "reencode" \in VideoTasks
      BY DEF VideoTasks
    <2> HIDE DEF y, t
    <2>7. /\ begun \subseteq {y}
          /\ \A u : u # x.task => StillDue(u) /\ \A r : StillVisits(u, r)
          /\ \A u : StillSpare(u)
          /\ spare(t)' /\ due(t)'
          /\ \A r : willEncode(r)' <=> willEncode(r)
          /\ \A u \in BagToSet(tasks)' \ BagToSet(tasks) : u = t
      <3>1. Become(x, y)
        BY <1>3
      <3>2. /\ begun \subseteq {y}
            /\ \A u : u # x.task => StillDue(u)
            /\ \A u, r : u # x.task => StillVisits(u, r)
            /\ \A u : StillSpare(u)
            /\ \A u \in {t} : spare(u)' /\ due(u)'
            /\ \A r : willEncode(r) => willEncode(r)'
            /\ \A r : willEncode(r)' => willEncode(r) \/
                 \E u \in {t} : u.type \notin VideoTasks /\ u.arg = r
            /\ \A u \in BagToSet(tasks)' \ BagToSet(tasks) : u \in {t}
        BY <2>1, <2>4, <3>1, MoveKeeps DEF TypeInv
      <3>3. QED
        BY <2>3, <2>6, <3>2
    <2>8. unmade' = unmade
      BY <1>3 DEF unmade
    <2>9. TablesTyped'
      <3>1. video' \in [DOMAIN video' -> [original : Contents \cup {NoContent},
                            probed : Contents \cup {NoContent}, playable : BOOLEAN]]
        BY <1>3, <2>2 DEF TypeInv, TablesTyped
      <3>2. QED
        BY <1>1, <1>3, <2>2, <3>1 DEF TypeInv, TablesTyped
    <2>10. TypeInv'
      BY <1>3, <2>1, <2>4, <2>9, MoveTypes
    <2>11. \A r \in DOMAIN rend : r.video \in DOMAIN video
      BY DEF Rest, PlanInv, Planned
    <2>12. \A z \in begun : z.pc = "return" /\ z.task.type = "reimport"
      BY <1>1, <2>1, <2>7
    <2>13. KeepsPlans
      BY <1>3, <2>2, <2>11, <2>12 DEF KeepsPlans
    <2>14. due(Task("reencode", v))' /\ spare(Task("reencode", v))'
      BY <2>7 DEF t
    <2>15. KeepsWork
      BY <2>2, <2>5, <2>7, <2>8, <2>12, <2>14 DEF KeepsWork, StillVisits, encodes
    <2>16. KeepsStats /\ KeepsPresets
      BY <1>1, <1>3, <2>3, <2>5, <2>7, <2>8, <2>12, FewerStats DEF Rest, StatsInv
    <2>17. KeepsSource
      <3>1. ASSUME NEW z \in run', z.pc \in {"probe", "teardown"}, z.task.arg \in DOMAIN video'
            PROVE  \/ spare(z.task)'
                   \/ \E u \in run : /\ u.pc \in {"probe", "teardown"}
                          /\ u.task = z.task /\ u.key = z.key
                          /\ video'[z.task.arg].original = video[z.task.arg].original
                          /\ StillSpare(z.task)
        <4>1. z \in run
          BY <2>12, <3>1 DEF begun
        <4>2. z.task = Task("reencode", z.task.arg)
          <5>1. z.task.type = "reencode" /\ z.task.type \in VideoTasks
            BY <2>6, <3>1, <4>1, Places2 DEF AtItsPlace
          <5>2. QED
            BY <4>1, <5>1, Places2
        <4>3. CASE z.task.arg = v
          <5>1. z.task = t
            BY <4>2, <4>3 DEF t
          <5>2. QED
            BY <2>7, <5>1 DEF spare, executions, copies
        <4>4. CASE z.task.arg # v
          BY <2>2, <2>7, <3>1, <4>1, <4>4
        <4>5. QED
          BY <4>3, <4>4
      <3>2. QED
        BY <1>3, <2>2, <2>5, <2>7, <2>12, <2>14, <3>1 DEF KeepsSource
    <2>18. KeepsMade
      BY <1>3, <2>2 DEF KeepsMade
    <2>19. QED
      BY <2>10, <2>13, <2>15, <2>16, <2>17, <2>18, AllKept DEF KeepsAll
  <1>4. QED
    BY <1>1, <1>2, <1>3

-----------------------------------------------------------------------------
(* The tables with a new ladder.                                           *)
LEMMA PlanTables ==
  ASSUME TypeInv, NEW v \in DOMAIN video, NEW c \in Contents,
         NEW n, n \in [original : Contents \cup {NoContent},
                       probed : Contents \cup {NoContent}, playable : BOOLEAN],
         unused(v) # {},
         rend' = [r \in kept(v) \cup newRows(v, newID(v), c) |->
                    IF r \in kept(v) THEN rend[r] ELSE NoContent],
         video' = [video EXCEPT ![v] = n],
         UNCHANGED <<links, active, stats, preset, clicks, faults>>
  PROVE  /\ DOMAIN rend' = kept(v) \cup newRows(v, newID(v), c)
         /\ \A r \in DOMAIN rend' : rend'[r] = IF r \in kept(v) THEN rend[r] ELSE NoContent
         /\ DOMAIN video' = DOMAIN video
         /\ \A w \in DOMAIN video : w # v => video'[w] = video[w]
         /\ video'[v] = n
         /\ TablesTyped'
  <1> DEFINE V == [original : Contents \cup {NoContent},
                   probed : Contents \cup {NoContent}, playable : BOOLEAN]
             N == newRows(v, newID(v), c)
  <1>1. n \in V
    OBVIOUS
  <1>2. video \in [DOMAIN video -> V] /\ v \in Videos
    BY DEF TypeInv, TablesTyped
  <1>3. newID(v) \in 1 .. MaxGen
    BY DEF newID, unused
  <1>4. N \subseteq Rends
    BY <1>2, <1>3, RowTypes
  <1>5. video' = [video EXCEPT ![v] = n]
    OBVIOUS
  <1> HIDE DEF V, N
  <1>6. /\ DOMAIN video' = DOMAIN video /\ video' \in [DOMAIN video -> V]
        /\ \A w \in DOMAIN video : w # v => video'[w] = video[w]
        /\ video'[v] = n
    BY <1>1, <1>2, <1>5
  <1>7. /\ DOMAIN rend' = kept(v) \cup N
        /\ \A r \in DOMAIN rend' : rend'[r] = IF r \in kept(v) THEN rend[r] ELSE NoContent
    BY DEF N
  <1>8. kept(v) \subseteq DOMAIN rend
    BY DEF kept
  <1>9. DOMAIN rend' \subseteq Rends /\ rend' \in [DOMAIN rend' -> Contents \cup {NoContent}]
    <2>1. DOMAIN rend' \subseteq Rends
      BY <1>4, <1>7, <1>8 DEF TypeInv, TablesTyped
    <2>2. \A r \in DOMAIN rend' : rend'[r] \in Contents \cup {NoContent}
      BY <1>7, <1>8 DEF TypeInv, TablesTyped
    <2>3. QED
      BY <2>1, <2>2
  <1>10. TablesTyped'
    BY <1>6, <1>9 DEF TypeInv, TablesTyped, V
  <1>11. QED
    BY <1>6, <1>7, <1>10 DEF N
(* Execution x plans a ladder of v from the bytes c, when the original is  *)
(* o: an ingest for a video without rows, a re-encode after it has torn    *)
(* down the old ones.                                                      *)
Plans(x, v, c, o) ==
    /\ x.task \in {Task("ingest", v), Task("reencode", v)} /\ x.pc # "return"
    /\ reencoding(v) \subseteq {x}
    /\ \A z \in run : z.task.type = "ingest" /\ z.pc = "copy" /\ z.task.arg = v
         => reencoding(v) = {} /\ c = File[v]
    /\ o = c \/ spare(Task("reencode", v))
    /\ x.task = Task("reencode", v) => o = video[v].original
    /\ unused(v) # {} /\ Return(x)
    /\ tasks' = tasks (+) SetToBag(newTasks(v, newID(v), c))
    /\ DOMAIN rend' = kept(v) \cup newRows(v, newID(v), c)
    /\ \A r \in DOMAIN rend' : rend'[r] = IF r \in kept(v) THEN rend[r] ELSE NoContent
    /\ DOMAIN video' = DOMAIN video
    /\ \A w \in DOMAIN video : w # v => video'[w] = video[w]
    /\ video'[v].original = o /\ video'[v].probed = c /\ video'[v].playable = FALSE
    /\ UNCHANGED <<links, active, stats, preset, clicks, faults>>

LEMMA Planning ==
  ASSUME TypeInv, Rest, VideoPipelineAssumption, NEW x \in run, NEW v \in DOMAIN video,
         NEW c \in Contents, NEW o \in Contents, Plans(x, v, c, o), TablesTyped'
  PROVE  TypeInv' /\ Rest'
  <1> USE DEF Plans
  <1> DEFINE y == Returned(x)
             g == newID(v)
             N == newRows(v, g, c)
             S == newTasks(v, g, c)
  <1>1. /\ y \in Execution /\ AtItsPlace(y) /\ y.task = x.task /\ y.copy = x.copy
        /\ y.pc = "return" /\ y.todo = {} /\ Become(x, y)
    <2>1. Become(x, y)
      BY DEF Return, Returned
    <2>2. QED
      BY <2>1, Places2
  <1>2. v \in Videos
    BY DEF TypeInv, TablesTyped
  <1>3. g \in 1 .. MaxGen
    BY DEF newID, unused
  <1>4. /\ N \subseteq Rends /\ S \subseteq AnyTask
        /\ \A r \in N : r.video = v /\ r.gen = g
        /\ Task("pass1", v) \in S
        /\ \A t \in S :
              \/ t \in {Task("pass1", v), Task("extract-subs", v)}
              \/ \E r \in N : t = Task("encode-audio", r) /\ r.part.purpose = "audio"
        /\ \A r \in N :
              /\ r.part.purpose = "audio" => Task("encode-audio", r) \in S
              /\ r.part.purpose = "subtitle" => Task("extract-subs", v) \in S
    BY <1>2, <1>3, RowTypes
  <1>5. ASSUME NEW r \in N
        PROVE  /\ r \notin DOMAIN rend /\ r \notin DOMAIN stats
               /\ \A t \in BagToSet(tasks) : t.type \notin VideoTasks => t.arg # r
               /\ \A z \in run : r \notin z.todo
    BY <1>4, <1>5, Fresh
  <1>6. /\ Queues(S) /\ S \in SUBSET AnyTask
    BY <1>4 DEF Queues
  <1>7. /\ DOMAIN rend' = kept(v) \cup N
        /\ \A r \in kept(v) : rend'[r] = rend[r]
        /\ \A r \in N : r \notin kept(v) /\ rend'[r] = NoContent
        /\ \A r \in kept(v) : r \in DOMAIN rend /\ r.video # v
        /\ \A r \in DOMAIN rend : r.video # v => r \in kept(v)
    BY <1>5 DEF kept, rowsOf
  <1> HIDE DEF y, g, N, S
  <1>8. /\ \A t \in S : t.preset = NoPreset /\ t.type \in {"pass1", "extract-subs", "encode-audio"}
                        /\ (t.type = "pass1" => t = Task("pass1", v))
        /\ \A t \in S : t.type \notin VideoTasks => t.arg \in N /\ t.arg.part.purpose = "audio"
    BY <1>4 DEF Task, VideoTasks
  <1>9. /\ begun \subseteq {y} /\ run' = (run \ {x}) \cup {y}
        /\ \A u : u # x.task => StillDue(u)
        /\ \A u, r : u # x.task => StillVisits(u, r)
        /\ \A u : StillSpare(u)
        /\ \A u \in S : due(u)' /\ \A r : visits(u, r)'
        /\ BagToSet(tasks)' = BagToSet(tasks) \cup S
    <2>1. /\ begun \subseteq {y}
          /\ \A u : u # x.task => StillDue(u)
          /\ \A u, r : u # x.task => StillVisits(u, r)
          /\ \A u : StillSpare(u)
          /\ \A u \in S : due(u)' /\ \A r : visits(u, r)'
      BY <1>1, <1>6, MoveKeeps DEF TypeInv
    <2>2. BagToSet(tasks)' = BagToSet(tasks) \cup S
      BY <1>1, <1>6, MoveStep DEF TypeInv
    <2>3. QED
      BY <1>1, <2>1, <2>2 DEF Become
  <1>10. /\ \A r : willEncode(r) => willEncode(r)'
         /\ \A r : willEncode(r)' => willEncode(r) \/ (r \in N /\ r.part.purpose = "audio")
         /\ \A r \in N : r.part.purpose = "audio" => willEncode(r)'
         /\ \A r \in N : ~willEncode(r)
    <2>1. \A r : willEncode(r)' => willEncode(r) \/ (r \in N /\ r.part.purpose = "audio")
      BY <1>8, <1>9 DEF willEncode
    <2>2. ASSUME NEW r \in N, r.part.purpose = "audio"
          PROVE  willEncode(r)'
      <3>1. Task("encode-audio", r) \in BagToSet(tasks)'
        BY <1>4, <1>9, <2>2
      <3>2. Task("encode-audio", r).type \notin VideoTasks /\ Task("encode-audio", r).arg = r
        BY DEF Task, VideoTasks
      <3>3. QED
        BY <3>1, <3>2 DEF willEncode
    <2>3. \A r \in N : ~willEncode(r)
      BY <1>5 DEF willEncode
    <2>4. \A r : willEncode(r) => willEncode(r)'
      BY <1>9 DEF willEncode
    <2>5. QED
      BY <2>1, <2>2, <2>3, <2>4
  <1>11. unmade' = (unmade \cap kept(v)) \cup N
    BY <1>7 DEF unmade
  <1>12. \A w : w # v => /\ Task("ingest", w) # x.task /\ Task("reencode", w) # x.task
    BY TaskFields
  <1>13. \A w : Task("pass1", w) # x.task /\ Task("extract-subs", w) # x.task
    BY TaskFields
  <1>14. x.task.type \in {"ingest", "reencode"} /\ x.task.arg = v
    BY TaskFields
  <1>15. /\ video'[v].original = o /\ video'[v].probed = c /\ video'[v].playable = FALSE
         /\ o # NoContent /\ c # NoContent
    BY DEF VideoPipelineAssumption
  <1>17. TypeInv'
    BY <1>1, <1>6, MoveTypes
  <1>18. Planned'
    <2>1. \A w \in DOMAIN video' : video'[w].original = NoContent => video'[w].probed = NoContent
      BY <1>15 DEF Rest, PlanInv, Planned
    <2>2. \A r \in DOMAIN rend' : r.video \in DOMAIN video' /\ video'[r.video].probed # NoContent
      BY <1>4, <1>7, <1>15 DEF Rest, PlanInv, Planned
    <2>3. \A q, r \in DOMAIN rend' : q.video = r.video => q.gen = r.gen
      BY <1>4, <1>7 DEF Rest, PlanInv, Planned
    <2>4. QED
      BY <2>1, <2>2, <2>3 DEF Planned
  <1>19. /\ \A w : reencoding(w)' \subseteq reencoding(w) \cup {y}
         /\ \A w : w # v => reencoding(w)' = reencoding(w)
         /\ reencoding(v) = {} => reencoding(v)' = {}
    <2>1. \A w : reencoding(w)' = {z \in run' : z.task = Task("reencode", w)}
                 /\ reencoding(w) = {z \in run : z.task = Task("reencode", w)}
      BY DEF reencoding
    <2>2. x.task = Task("reencode", v) => x \in reencoding(v)
      BY <2>1
    <2>3. \A w : reencoding(w)' \subseteq reencoding(w) \cup {y}
      BY <1>9, <2>1
    <2>4. ASSUME NEW w, x.task # Task("reencode", w)
          PROVE  reencoding(w)' = reencoding(w)
      BY <1>1, <1>9, <2>1, <2>4
    <2>5. QED
      BY <1>12, <2>2, <2>3, <2>4
  <1>20. IngestAlone'
    <2>1. ASSUME NEW z \in run', z.task.type = "ingest", z.pc = "copy", z.task.arg \in DOMAIN video'
          PROVE  LET w == z.task.arg IN
                   /\ reencoding(w)' = {}
                   /\ \/ video'[w].probed = NoContent
                      \/ /\ video'[w].probed = File[w]
                         /\ \A s \in Probe[File[w]].subs :
                              \E r \in rowsOf(w)' : r.part.purpose = "subtitle" /\ r.part.track = s
      <3>1. z \in run
        BY <1>1, <1>9, <2>1
      <3>2. CASE z.task.arg = v
        <4>1. reencoding(v)' = {} /\ c = File[v]
          BY <1>19, <2>1, <3>1, <3>2
        <4>2. ASSUME NEW s \in Probe[c].subs
              PROVE  \E r \in rowsOf(v)' : r.part.purpose = "subtitle" /\ r.part.track = s
          <5> DEFINE p == Part("subtitle", 0, s, FALSE)
          <5>1. p \in Parts(Probe[c]) /\ p.purpose = "subtitle" /\ p.track = s
            BY DEF Parts, SubtitleTracks, Part
          <5>2. Key(v, g, p) \in N /\ Key(v, g, p).part = p /\ Key(v, g, p).video = v
            BY <5>1 DEF N, g, newRows, Key
          <5>3. Key(v, g, p) \in rowsOf(v)'
            BY <1>7, <5>2 DEF rowsOf
          <5>4. QED
            BY <5>1, <5>2, <5>3
        <4>3. QED
          BY <1>15, <3>2, <4>1, <4>2
      <3>3. CASE z.task.arg # v
        <4>1. rowsOf(z.task.arg) \subseteq rowsOf(z.task.arg)'
          BY <1>7, <3>3 DEF rowsOf
        <4>2. video'[z.task.arg] = video[z.task.arg] /\ z.task.arg \in DOMAIN video
              /\ reencoding(z.task.arg)' = reencoding(z.task.arg)
          BY <1>19, <2>1, <3>3
        <4>3. /\ reencoding(z.task.arg) = {}
              /\ \/ video[z.task.arg].probed = NoContent
                 \/ /\ video[z.task.arg].probed = File[z.task.arg]
                    /\ \A s \in Probe[File[z.task.arg]].subs :
                         \E r \in rowsOf(z.task.arg) :
                            r.part.purpose = "subtitle" /\ r.part.track = s
          BY <2>1, <3>1, <4>2 DEF Rest, PlanInv, IngestAlone
        <4>4. QED
          BY <4>1, <4>2, <4>3
      <3>4. QED
        BY <3>2, <3>3
    <2>2. \A w \in DOMAIN video' : reencoding(w)' # {} => video'[w].original # NoContent
      BY <1>15, <1>19 DEF Rest, PlanInv, IngestAlone
    <2>3. \A z, w \in run' : z.task.type = "reencode" /\ z.task = w.task => z = w
      BY <1>1, <1>9 DEF Rest, PlanInv, IngestAlone
    <2>4. QED
      BY <2>1, <2>2, <2>3 DEF IngestAlone
  <1>21. Coming'
    <2>1. ASSUME NEW w \in DOMAIN video'
          PROVE  /\ video'[w].original = NoContent => due(Task("ingest", w))'
                 /\ video'[w].original # NoContent /\ video'[w].probed = NoContent
                      => due(Task("reencode", w))'
      <3>1. CASE w = v
        BY <1>15, <3>1
      <3>2. CASE w # v
        BY <1>9, <1>12, <2>1, <3>2 DEF Rest, WorkInv, Coming, StillDue
      <3>3. QED
        BY <3>1, <3>2
    <2>2. ASSUME NEW r \in unmade'
          PROVE  CASE r.part.purpose = "audio" -> willEncode(r)'
                   [] r.part.purpose = "subtitle" -> visits(Task("extract-subs", r.video), r)'
                   [] OTHER -> willEncode(r)' \/ visits(Task("pass1", r.video), r)'
      <3>1. CASE r \in N
        BY <1>4, <1>9, <1>10, <3>1
      <3>2. CASE r \notin N
        <4>1. r \in unmade
          BY <1>11, <2>2, <3>2
        <4>2. /\ visits(Task("extract-subs", r.video), r) => visits(Task("extract-subs", r.video), r)'
              /\ visits(Task("pass1", r.video), r) => visits(Task("pass1", r.video), r)'
          BY <1>9, <1>13 DEF StillVisits
        <4>3. CASE r.part.purpose = "audio"
          BY <1>10, <4>1, <4>3 DEF Rest, WorkInv, Coming
        <4>4. CASE r.part.purpose = "subtitle"
          BY <4>1, <4>2, <4>4 DEF Rest, WorkInv, Coming
        <4>5. CASE r.part.purpose \notin {"audio", "subtitle"}
          BY <1>10, <4>1, <4>2, <4>5 DEF Rest, WorkInv, Coming
        <4>6. QED
          BY <4>3, <4>4, <4>5
      <3>3. QED
        BY <3>1, <3>2
    <2>3. QED
      BY <2>1, <2>2 DEF Coming
  <1>22. EncodedIsMade'
    <2>1. ASSUME NEW z \in run', z.task.type \in encodes, z.pc \in {"release", "return"}
          PROVE  z.task.arg \notin unmade'
      <3>1. z \in run
        BY <1>1, <1>9, <1>14, <2>1 DEF encodes
      <3>2. z.task \in BagToSet(tasks) /\ z.task.type \notin VideoTasks
        BY <2>1, <3>1, RunIsTask, TaskTypes DEF TypeInv
      <3>3. z.task.arg \notin N /\ z.task.arg \notin unmade
        BY <1>5, <2>1, <3>1, <3>2 DEF Rest, WorkInv, EncodedIsMade
      <3>4. QED
        BY <1>11, <3>3
    <2>2. QED
      BY <2>1 DEF EncodedIsMade
  <1>23. \A r \in reencodes(unmade)' :
            \/ r \in N /\ ~willEncode(r)'
            \/ /\ r \in reencodes(unmade) /\ r \in kept(v)
               /\ willEncode(r)' => willEncode(r)
               /\ hasStats(r) => hasStats(r)'
    <2>1. ASSUME NEW r \in N, r \in reencodes(unmade)'
          PROVE  ~willEncode(r)'
      BY <1>10, <2>1 DEF reencodes
    <2>2. ASSUME NEW r \in reencodes(unmade)', r \notin N
          PROVE  /\ r \in reencodes(unmade) /\ r \in kept(v)
                 /\ willEncode(r)' => willEncode(r)
                 /\ hasStats(r) => hasStats(r)'
      <3>1. r \in unmade /\ r \in kept(v) /\ r \in reencodes(unmade)
        BY <1>11, <2>2 DEF reencodes
      <3>2. r.video # v
        BY <1>7, <3>1
      <3>3. StillDue(Task("reencode", r.video))
        BY <1>9, <1>12, <3>2
      <3>4. hasStats(r) => hasStats(r)'
        BY <3>3 DEF hasStats, StillDue
      <3>5. QED
        BY <1>10, <2>2, <3>1, <3>4
    <2>3. QED
      BY <2>1, <2>2
  <1>24. StatsWait'
    <2>1. DOMAIN stats' \subseteq reencodes(DOMAIN stats')
      BY DEF Rest, StatsInv, StatsWait
    <2>2. \A r \in reencodes(unmade)' : willEncode(r)' => hasStats(r)'
      BY <1>23 DEF Rest, StatsInv, StatsWait
    <2>3. \A z \in run' : z.pc \in {"queue", "release"} => z \in run
      BY <1>1, <1>9
    <2>4. \A z \in run' : z.pc = "queue" => \A r \in reencodes(unmade)' \cap z.todo : hasStats(r)'
      BY <1>5, <1>23, <2>3 DEF Rest, StatsInv, StatsWait
    <2>5. \A z \in run' : z.pc = "release" =>
            \A r \in reencodes(unmade)' : r.video = z.task.arg.video =>
              ~willEncode(r)' /\ \A u \in run' : u.pc = "queue" => r \notin u.todo
      BY <1>5, <1>23, <2>3 DEF Rest, StatsInv, StatsWait
    <2>6. reencodes(DOMAIN stats)' = reencodes(DOMAIN stats')
      BY DEF reencodes
    <2>7. QED
      BY <2>1, <2>2, <2>4, <2>5, <2>6 DEF StatsWait
  <1>25. PresetsStand'
    <2>1. ASSUME NEW t \in BagToSet(tasks)', presetFor(t), t.arg \in unmade'
          PROVE  /\ t.arg \in DOMAIN stats' => stats'[t.arg] = t.preset
                 /\ Task("pass1", t.arg.video) \in BagToSet(tasks)' => t.preset = preset'
      <3>1. t \in BagToSet(tasks) /\ t \in AnyTask
        BY <1>8, <1>9, <2>1 DEF presetFor, TypeInv, TasksTyped
      <3>2. t.type \notin VideoTasks
        BY <2>1, <3>1, TaskTypes DEF Task, presetFor
      <3>3. t.arg \in unmade /\ t.arg.video # v
        BY <1>5, <1>7, <1>11, <2>1, <3>1, <3>2
      <3>4. Task("pass1", t.arg.video) \notin S
        BY <1>8, <3>3, TaskFields
      <3>5. QED
        BY <1>9, <2>1, <3>1, <3>3, <3>4 DEF Rest, StatsInv, PresetsStand
    <2>2. ASSUME NEW z \in run', z.pc = "queue", NEW r \in z.todo, r \in unmade', r \in DOMAIN stats'
          PROVE  stats'[r] = preset'
      <3>1. z \in run
        BY <1>1, <1>9, <2>2
      <3>2. r \in unmade
        BY <1>5, <1>11, <2>2, <3>1
      <3>3. QED
        BY <2>2, <3>1, <3>2 DEF Rest, StatsInv, PresetsStand
    <2>3. QED
      BY <2>1, <2>2 DEF PresetsStand
  <1>26. SourceStands'
    <2>1. ASSUME NEW w \in DOMAIN video', ~due(Task("reencode", w))'
          PROVE  /\ video'[w].probed \in {video'[w].original, NoContent}
                 /\ \A r \in rowsOf(w)' : rend'[r] \in {video'[w].original, NoContent}
                 /\ \A z \in run' : z.pc \in {"encode", "extract"} /\ videoOf(z.task) = w
                      /\ z.todo \cap DOMAIN rend' # {} => z.key = video'[w].original
      <3>1. \A z \in run' : z.pc \in {"encode", "extract"} => z \in run
        BY <1>1, <1>9
      <3>2. CASE w = v
        <4>1. spare(Task("reencode", v)) => spare(Task("reencode", v))'
          BY <1>9 DEF StillSpare
        <4>2. o = c
          BY <2>1, <3>2, <4>1 DEF due
        <4>3. \A r \in rowsOf(v)' : r \in N
          BY <1>7 DEF rowsOf
        <4>4. \A z \in run' : z.pc \in {"encode", "extract"} /\ videoOf(z.task) = v
                => z.todo \cap DOMAIN rend' = {}
          <5>1. ASSUME NEW z \in run', z.pc \in {"encode", "extract"}, videoOf(z.task) = v,
                       NEW r \in z.todo, r \in DOMAIN rend'
                PROVE  FALSE
            <6>1. z \in run /\ r.video = v
              BY <3>1, <5>1 DEF TypeInv, InPlace, AtItsPlace
            <6>2. QED
              BY <1>5, <1>7, <5>1, <6>1
          <5>2. QED
            BY <5>1
        <4>5. QED
          BY <1>7, <1>15, <3>2, <4>2, <4>3, <4>4
      <3>3. CASE w # v
        <4>1. ~due(Task("reencode", w)) /\ w \in DOMAIN video /\ video'[w] = video[w]
          BY <1>9, <1>12, <2>1, <3>3 DEF StillDue
        <4>2. \A r \in rowsOf(w)' : r \in rowsOf(w) /\ rend'[r] = rend[r]
          BY <1>4, <1>7, <3>3 DEF rowsOf
        <4>3. \A z \in run : \A r \in z.todo : r \in DOMAIN rend' => r \in DOMAIN rend
          BY <1>5, <1>7
        <4>4. QED
          BY <3>1, <4>1, <4>2, <4>3 DEF Rest, SourceStands
      <3>4. QED
        BY <3>2, <3>3
    <2>2. ASSUME NEW z \in run', z.pc \in {"probe", "teardown"}, z.task.arg \in DOMAIN video'
          PROVE  z.key = video'[z.task.arg].original \/ spare(z.task)'
      <3>1. z \in run /\ z # x
        BY <1>1, <1>9, <2>2
      <3>2. z.task = Task("reencode", z.task.arg)
        <4>1. z.task.type = "reencode" /\ "reencode" \in VideoTasks
          BY <2>2, <3>1, Places2 DEF AtItsPlace, VideoTasks
        <4>2. QED
          BY <3>1, <4>1, Places2
      <3>3. z.task.arg # v
        BY <3>1, <3>2 DEF reencoding
      <3>4. z.key = video[z.task.arg].original \/ spare(z.task)
        BY <2>2, <3>1 DEF Rest, SourceStands
      <3>5. spare(z.task) => spare(z.task)'
        BY <1>9 DEF StillSpare
      <3>6. QED
        BY <2>2, <3>3, <3>4, <3>5
    <2>3. QED
      BY <2>1, <2>2 DEF SourceStands, videoOf
  <1>27. PlayableIsComplete'
    <2>1. \A w \in DOMAIN video' : video'[w].playable =>
             w # v /\ w \in DOMAIN video /\ video'[w] = video[w]
      BY <1>15
    <2>2. KeepsMade
      BY <1>7, <2>1 DEF KeepsMade
    <2>3. QED
      BY <1>18, <2>2, MadeKept DEF Rest
  <1>28. QED
    BY <1>17, <1>18, <1>20, <1>21, <1>22, <1>24, <1>25, <1>26, <1>27
       DEF Rest, PlanInv, WorkInv, StatsInv

(* There is an original, and one re-encode at a time.                      *)
LEMMA ReencodeFacts ==
  ASSUME TypeInv, Rest, NEW x \in run, x.pc \in {"probe", "teardown"}
  PROVE  /\ x.task = Task("reencode", x.task.arg) /\ x.task.type = "reencode"
         /\ x.key \in Contents
         /\ reencoding(x.task.arg) = {x}
         /\ x.task.arg \in DOMAIN video =>
              /\ video[x.task.arg].original \in Contents
              /\ video[x.task.arg].original = x.key \/ spare(x.task)
              /\ \A z \in run : z.task.type = "ingest" /\ z.task.arg = x.task.arg => z.pc # "copy"
  <1>1. x.task.type = "reencode" /\ x.key \in Contents /\ x.task = Task("reencode", x.task.arg)
    BY Places2 DEF AtItsPlace, VideoTasks
  <1>2. reencoding(x.task.arg) = {x}
    BY <1>1 DEF reencoding, Rest, PlanInv, IngestAlone
  <1>3. ASSUME x.task.arg \in DOMAIN video
        PROVE  video[x.task.arg].original \in Contents
    <2>1. video[x.task.arg].original # NoContent
      BY <1>2, <1>3 DEF Rest, PlanInv, IngestAlone
    <2>2. QED
      BY <1>3, <2>1 DEF TypeInv, TablesTyped
  <1>4. ASSUME x.task.arg \in DOMAIN video
        PROVE  /\ video[x.task.arg].original = x.key \/ spare(x.task)
               /\ \A z \in run : z.task.type = "ingest" /\ z.task.arg = x.task.arg => z.pc # "copy"
    <2>1. video[x.task.arg].original = x.key \/ spare(x.task)
      BY <1>4 DEF Rest, SourceStands
    <2>2. \A z \in run : z.task.type = "ingest" /\ z.task.arg = x.task.arg => z.pc # "copy"
      BY <1>2, <1>4 DEF Rest, PlanInv, IngestAlone
    <2>3. QED
      BY <2>1, <2>2
  <1>5. QED
    BY <1>1, <1>2, <1>3, <1>4

LEMMA ReencodeCommitKeeps ==
  ASSUME TypeInv, Rest, VideoPipelineAssumption, NEW x \in run, ReencodeCommit(x)
  PROVE  TypeInv' /\ Rest'
  <1> DEFINE v == x.task.arg
             c == x.key
             o == video[v].original
  <1>1. x.pc = "teardown" /\ UNCHANGED <<preset, clicks, faults>>
    BY DEF ReencodeCommit, bounds
  <1>2. CASE v \notin DOMAIN video
    <2>1. Error(x)
      BY <1>2 DEF ReencodeCommit
    <2>2. QED
      BY <1>1, <2>1, ErrorKeeps
  <1>3. CASE v \in DOMAIN video
    <2>1. /\ unused(v) # {} /\ Return(x)
          /\ rend' = [r \in kept(v) \cup newRows(v, newID(v), c) |->
                        IF r \in kept(v) THEN rend[r] ELSE NoContent]
          /\ tasks' = tasks (+) SetToBag(newTasks(v, newID(v), c))
          /\ video' = [video EXCEPT ![v].probed = c, ![v].playable = FALSE]
          /\ UNCHANGED <<links, active, stats>>
      BY <1>3 DEF ReencodeCommit, replannedAnew
    <2>2. /\ x.task = Task("reencode", v) /\ c \in Contents /\ o \in Contents
          /\ reencoding(v) = {x}
          /\ o = c \/ spare(Task("reencode", v))
          /\ \A z \in run : z.task.type = "ingest" /\ z.pc = "copy" => z.task.arg # v
      <3>1. /\ x.task = Task("reencode", v) /\ c \in Contents /\ o \in Contents
            /\ reencoding(v) = {x}
            /\ \A z \in run : z.task.type = "ingest" /\ z.pc = "copy" => z.task.arg # v
            /\ o = c \/ spare(x.task)
        BY <1>1, <1>3, ReencodeFacts
      <3>2. spare(x.task) => spare(Task("reencode", v))
        BY <3>1
      <3>3. QED
        BY <3>1, <3>2
    <2> DEFINE n == [video[v] EXCEPT !.probed = c, !.playable = FALSE]
    <2>3. /\ video' = [video EXCEPT ![v] = n]
          /\ n \in [original : Contents \cup {NoContent},
                    probed : Contents \cup {NoContent}, playable : BOOLEAN]
          /\ n.original = o /\ n.probed = c /\ n.playable = FALSE
      <3>1. video[v] \in [original : Contents \cup {NoContent},
                          probed : Contents \cup {NoContent}, playable : BOOLEAN]
        BY <1>3 DEF TypeInv, TablesTyped
      <3>2. video' = [video EXCEPT ![v] = n]
        BY <2>1
      <3>3. QED
        BY <2>2, <3>1, <3>2
    <2> HIDE DEF v, c, o, n
    <2>4. x.pc # "return" /\ x.task \in {Task("ingest", v), Task("reencode", v)}
      BY <1>1, <2>2
    <2>5. /\ DOMAIN rend' = kept(v) \cup newRows(v, newID(v), c)
          /\ \A r \in DOMAIN rend' : rend'[r] = IF r \in kept(v) THEN rend[r] ELSE NoContent
          /\ DOMAIN video' = DOMAIN video
          /\ \A w \in DOMAIN video : w # v => video'[w] = video[w]
          /\ video'[v].original = o /\ video'[v].probed = c /\ video'[v].playable = FALSE
          /\ TablesTyped'
      BY <1>1, <1>3, <2>1, <2>2, <2>3, PlanTables
    <2>6. /\ unused(v) # {} /\ Return(x)
          /\ tasks' = tasks (+) SetToBag(newTasks(v, newID(v), c))
          /\ UNCHANGED <<links, active, stats, preset, clicks, faults>>
      BY <1>1, <2>1
    <2>7. /\ o = video[v].original /\ reencoding(v) \subseteq {x}
          /\ \A z \in run : z.task.type = "ingest" /\ z.pc = "copy" /\ z.task.arg = v
               => reencoding(v) = {} /\ c = File[v]
      BY <2>2 DEF o
    <2>8. Plans(x, v, c, o)
      BY <2>2, <2>4, <2>5, <2>6, <2>7 DEF Plans
    <2>9. QED
      BY <1>3, <2>2, <2>5, <2>8, Planning
  <1>4. QED
    BY <1>2, <1>3

(* An ingest that finds no track of its file planned finds no row at all.  *)
LEMMA IngestFacts ==
  ASSUME TypeInv, Rest, VideoPipelineAssumption, FilesHaveTracks,
         NEW x \in run, x.pc = "copy", x.task.type = "ingest"
  PROVE  /\ x.task = Task("ingest", x.task.arg) /\ x.task.arg \in Videos
         /\ File[x.task.arg] \in Contents
         /\ x.task.arg \in DOMAIN video =>
              /\ reencoding(x.task.arg) = {}
              /\ ~sameTracks(x.task.arg, File[x.task.arg]) =>
                   rowsOf(x.task.arg) = {} /\ video[x.task.arg].playable = FALSE
  <1> DEFINE v == x.task.arg
             c == File[v]
  <1>1. x.task = Task("ingest", v) /\ v \in Videos
    BY Places2 DEF VideoTasks
  <1>2. c \in Contents /\ c # NoContent
    BY <1>1 DEF VideoPipelineAssumption
  <1>3. ASSUME v \in DOMAIN video, ~sameTracks(v, c)
        PROVE  rowsOf(v) = {} /\ video[v].playable = FALSE
    <2>1. \/ video[v].probed = NoContent
          \/ /\ video[v].probed = c
             /\ \A s \in Probe[c].subs :
                  \E r \in rowsOf(v) : r.part.purpose = "subtitle" /\ r.part.track = s
      BY <1>3 DEF Rest, PlanInv, IngestAlone
    <2>2. ASSUME video[v].probed = NoContent
          PROVE  rowsOf(v) = {}
      BY <2>2 DEF Rest, PlanInv, Planned, rowsOf
    <2>3. ASSUME video[v].probed = c,
                 \A s \in Probe[c].subs :
                   \E r \in rowsOf(v) : r.part.purpose = "subtitle" /\ r.part.track = s
          PROVE  FALSE
      <3>1. tracksOf(v) = {a.index : a \in Probe[c].audio}
        BY <1>2, <1>3, <2>3 DEF tracksOf
      <3> DEFINE indices == {a.index : a \in Probe[c].audio}
      <3>2. Probe[c].audio = {}
        <4>1. indices = {}
          BY <1>3, <3>1 DEF sameTracks
        <4>2. \A a \in Probe[c].audio : a.index \in indices
          OBVIOUS
        <4> HIDE DEF indices
        <4>3. QED
          BY <4>1, <4>2
      <3>3. Probe[c].subs = {}
        <4>1. \A r \in rowsOf(v) : ~(r.part.purpose = "subtitle" /\ r.part.track \in Probe[c].subs)
          BY <1>3 DEF sameTracks
        <4>2. QED
          BY <2>3, <4>1
      <3>4. QED
        BY <1>1, <3>2, <3>3 DEF FilesHaveTracks
    <2>4. rowsOf(v) = {}
      BY <2>1, <2>2, <2>3
    <2>5. ~video[v].playable
      BY <1>3, <2>4 DEF Rest, PlayableIsComplete
    <2>6. video[v].playable \in BOOLEAN
      BY <1>3 DEF TypeInv, TablesTyped
    <2>7. QED
      BY <2>4, <2>5, <2>6
  <1>4. v \in DOMAIN video => reencoding(v) = {}
    BY DEF Rest, PlanInv, IngestAlone
  <1>5. QED
    BY <1>1, <1>2, <1>3, <1>4

LEMMA MergeKeeps ==
  ASSUME TypeInv, Rest, VideoPipelineAssumption,
         NEW x \in run, x.pc = "copy", x.task.type = "ingest", NEW winner,
         winner \in winners(x.task.arg, File[x.task.arg]),
         Merge(x, x.task.arg, winner), UNCHANGED bounds
  PROVE  TypeInv' /\ Rest'
  <1> DEFINE v == x.task.arg
             y == Returned(x)
  <1>1. UNCHANGED <<preset, clicks, faults>>
    BY DEF bounds
  <1>2. CASE rowsOf(v) # {}
    <2>1. Error(x)
      BY <1>2 DEF Merge
    <2>2. QED
      BY <1>1, <2>1, ErrorKeeps
  <1>3. CASE rowsOf(v) = {}
    <2>1. /\ links' = reassigned(v, winner)
          /\ active' = {l \in active : l[2] # v}
          /\ video' = Restrict(video, DOMAIN video \ {v})
          /\ Become(x, y) /\ UNCHANGED <<rend, tasks, stats>>
      BY <1>3 DEF Merge, Return, Returned
    <2>2. /\ y \in Execution /\ AtItsPlace(y) /\ y.task = x.task /\ y.copy = x.copy
          /\ y.pc = "return" /\ y.todo = {}
      BY Places2
    <2>3. x.task = Task("ingest", v)
      BY Places2 DEF VideoTasks
    <2> HIDE DEF v, y
    <2>4. Queues({}) /\ {} \in SUBSET AnyTask
      BY <2>1 DEF Queues
    <2>5. /\ begun \subseteq {y}
          /\ \A u : u # Task("ingest", v) => StillDue(u) /\ \A r : StillVisits(u, r)
          /\ \A u : StillSpare(u)
      <3>1. Become(x, y)
        BY <2>1
      <3>2. QED
        BY <2>2, <2>3, <2>4, <3>1, MoveKeeps DEF TypeInv
    <2>6. begun = {} \/ (\E z : begun = {z} /\ z.task = Task("ingest", v) /\ z.pc = "return")
      <3>1. begun = {} \/ begun = {y}
        BY <2>5
      <3>2. QED
        BY <2>2, <2>3, <3>1
    <2>7. DOMAIN rend' = DOMAIN rend \ rowsOf(v) /\ \A r \in DOMAIN rend' : rend'[r] = rend[r]
      BY <1>3, <2>1 DEF v
    <2>8. Rest'
      BY <1>1, <2>1, <2>5, <2>6, <2>7, VideoGoes
    <2>9. TablesTyped'
      <3>1. links' \subseteq Episodes \X DOMAIN video' /\ active' \subseteq links'
        <4>1. /\ DOMAIN video' = DOMAIN video \ {v}
              /\ winner \in DOMAIN video'
          BY <2>1 DEF Restrict, winners, v
        <4>2. links \subseteq Episodes \X DOMAIN video /\ active \subseteq links
          BY DEF TypeInv, TablesTyped
        <4>3. links' = {l \in links : l[2] # v}
                         \cup {<<l[1], winner>> : l \in {k \in links : k[2] = v}}
          BY <2>1 DEF reassigned
        <4>4. \A l \in links : l[1] \in Episodes /\ l[2] \in DOMAIN video
          BY <4>2
        <4>5. {l \in links : l[2] # v} \subseteq Episodes \X DOMAIN video'
          BY <4>1, <4>2
        <4>6. {<<l[1], winner>> : l \in {k \in links : k[2] = v}} \subseteq Episodes \X DOMAIN video'
          BY <4>1, <4>4
        <4>7. QED
          BY <2>1, <4>2, <4>3, <4>5, <4>6
      <3>2. QED
        BY <1>1, <2>1, <3>1 DEF TypeInv, TablesTyped, Restrict
    <2>10. TypeInv'
      <3>1. Become(x, y)
        BY <2>1
      <3>2. QED
        BY <2>2, <2>4, <2>9, <3>1, MoveTypes
    <2>11. QED
      BY <2>8, <2>10
  <1>4. QED
    BY <1>2, <1>3

LEMMA IngestCommitKeeps ==
  ASSUME TypeInv, Rest, VideoPipelineAssumption, FilesHaveTracks,
         NEW x \in run, IngestCommit(x)
  PROVE  TypeInv' /\ Rest'
  <1> DEFINE v == x.task.arg
             c == File[v]
  <1>1. x.pc = "copy" /\ x.task.type = "ingest" /\ UNCHANGED bounds
        /\ UNCHANGED <<preset, clicks, faults>>
    BY DEF IngestCommit, bounds
  <1>2. CASE \E winner \in winners(v, c) : Merge(x, v, winner)
    BY <1>1, <1>2, MergeKeeps
  <1>3. CASE Error(x)
    BY <1>1, <1>3, ErrorKeeps
  <1>4. CASE /\ v \in DOMAIN video /\ ~sameTracks(v, c)
             /\ unused(v) # {} /\ Return(x)
             /\ rend' = [r \in DOMAIN rend \cup newRows(v, newID(v), c) |->
                           IF r \in DOMAIN rend THEN rend[r] ELSE NoContent]
             /\ tasks' = tasks (+) SetToBag(newTasks(v, newID(v), c))
             /\ video' = [video EXCEPT ![v].original = c, ![v].probed = c]
             /\ UNCHANGED <<links, active, stats>>
    <2> DEFINE n == [video[v] EXCEPT !.original = c, !.probed = c]
    <2>1. /\ x.task = Task("ingest", v) /\ c \in Contents /\ v \in DOMAIN video
          /\ reencoding(v) = {} /\ rowsOf(v) = {} /\ video[v].playable = FALSE
      BY <1>1, <1>4, IngestFacts
    <2>2. video[v] \in [original : Contents \cup {NoContent},
                        probed : Contents \cup {NoContent}, playable : BOOLEAN]
      BY <2>1 DEF TypeInv, TablesTyped
    <2>3. /\ n \in [original : Contents \cup {NoContent},
                    probed : Contents \cup {NoContent}, playable : BOOLEAN]
          /\ n.original = c /\ n.probed = c /\ n.playable = FALSE
      BY <2>1, <2>2
    <2>4. video' = [video EXCEPT ![v] = n]
      BY <1>4
    <2>5. kept(v) = DOMAIN rend
      BY <2>1 DEF kept
    <2>6. rend' = [r \in kept(v) \cup newRows(v, newID(v), c) |->
                     IF r \in kept(v) THEN rend[r] ELSE NoContent]
      BY <1>4, <2>5
    <2>7. /\ unused(v) # {} /\ Return(x) /\ x.pc # "return"
          /\ tasks' = tasks (+) SetToBag(newTasks(v, newID(v), c))
          /\ UNCHANGED <<links, active, stats, preset, clicks, faults>>
      BY <1>1, <1>4
    <2>8. /\ x.task \in {Task("ingest", v), Task("reencode", v)}
          /\ x.task # Task("reencode", v) /\ reencoding(v) \subseteq {x}
      BY <2>1, TaskFields
    <2>9. \A z \in run : z.task.type = "ingest" /\ z.pc = "copy" /\ z.task.arg = v
                           => reencoding(v) = {} /\ c = File[v]
      BY <2>1
    <2> HIDE DEF v, c, n
    <2>10. /\ DOMAIN rend' = kept(v) \cup newRows(v, newID(v), c)
           /\ \A r \in DOMAIN rend' : rend'[r] = IF r \in kept(v) THEN rend[r] ELSE NoContent
           /\ DOMAIN video' = DOMAIN video
           /\ \A w \in DOMAIN video : w # v => video'[w] = video[w]
           /\ video'[v] = n
           /\ TablesTyped'
      BY <2>1, <2>3, <2>4, <2>6, <2>7, PlanTables
    <2>11. Plans(x, v, c, c)
      BY <2>3, <2>7, <2>8, <2>9, <2>10 DEF Plans
    <2>12. QED
      BY <2>1, <2>10, <2>11, Planning
  <1>5. QED
    BY <1>2, <1>3, <1>4 DEF IngestCommit

-----------------------------------------------------------------------------
(* Initial states, and every step.                                         *)

LEMMA InitHolds ==
  ASSUME VideoPipelineAssumption, Init
  PROVE  TypeInv /\ Rest
  <1>1. PICK i \in Imports :
          /\ video = [v \in i.videos |-> NoVideo] /\ rend = EmptyBag
          /\ links = {l \in FirstLinks : l[2] \in i.videos} /\ active = {}
          /\ tasks = SetToBag({Task("ingest", v) : v \in i.videos})
          /\ run = {} /\ stats = EmptyBag
          /\ preset = i.preset /\ clicks = i.clicks /\ faults = i.faults
    BY DEF Init
  <1>2. /\ i.videos \subseteq Videos /\ i.preset \in Presets
        /\ i.clicks \in 0 .. MaxClicks /\ i.faults \in 0 .. MaxFaults
    BY DEF VideoPipelineAssumption
  <1>3. /\ DOMAIN video = i.videos
        /\ \A v \in DOMAIN video : video[v] = NoVideo
        /\ video \in [DOMAIN video -> [original : Contents \cup {NoContent},
                                       probed : Contents \cup {NoContent},
                                       playable : BOOLEAN]]
    BY <1>1 DEF NoVideo
  <1>4. /\ DOMAIN rend = {} /\ DOMAIN stats = {}
        /\ rend \in [{} -> Contents \cup {NoContent}] /\ stats \in [{} -> Presets]
    BY <1>1 DEF EmptyBag, SetToBag
  <1>5. /\ IsABag(tasks)
        /\ BagToSet(tasks) = {Task("ingest", v) : v \in i.videos}
        /\ \A u \in BagToSet(tasks) : tasks[u] = 1
    BY <1>1 DEF IsABag, BagToSet, SetToBag
  <1>6. \A u, q : executions(u) = {} /\ runningOn(q) = {}
    BY <1>1 DEF executions, runningOn
  <1>7. IsFiniteSet({}) /\ Cardinality({}) = 0
    BY FS_EmptySet
  <1>8. TypeInv
    <2>1. BagToSet(tasks) \subseteq AnyTask
      BY <1>2, <1>5, TaskTypes DEF VideoTasks
    <2>2. TasksTyped
      BY <1>1, <1>5, <1>7, <2>1 DEF TasksTyped
    <2>3. Booked
      <3>1. \A q \in {"disk", "cpu"} : Capacity[q] >= 0
        BY DEF VideoPipelineAssumption
      <3>2. \A q : Cardinality(runningOn(q)) = 0
        BY <1>6, <1>7
      <3>3. QED
        BY <1>1, <3>1, <3>2 DEF Booked
    <2>4. links \subseteq Episodes \X DOMAIN video /\ active \subseteq links
      BY <1>1, <1>3 DEF VideoPipelineAssumption
    <2>5. TablesTyped
      BY <1>1, <1>2, <1>3, <1>4, <2>4 DEF TablesTyped
    <2>6. QED
      BY <1>1, <2>2, <2>3, <2>5 DEF TypeInv, InPlace
  <1>9. PlanInv
    BY <1>1, <1>3, <1>4 DEF PlanInv, Planned, IngestAlone, NoVideo, reencoding
  <1>10. unmade = {} /\ \A R : R \subseteq {} => reencodes(R) = {}
    BY <1>4 DEF unmade, reencodes
  <1>11. \A v \in DOMAIN video : due(Task("ingest", v))
    <2>1. \A u \in BagToSet(tasks) : copies(u) = 1
      BY <1>5 DEF copies
    <2>2. \A u : Cardinality(executions(u)) = 0
      BY <1>6, <1>7
    <2>3. \A v \in DOMAIN video : Task("ingest", v) \in BagToSet(tasks)
      BY <1>3, <1>5
    <2>4. QED
      BY <2>1, <2>2, <2>3 DEF due, spare
  <1>12. WorkInv
    BY <1>1, <1>3, <1>10, <1>11 DEF WorkInv, Coming, EncodedIsMade, NoVideo
  <1>13. StatsInv
    <2>1. \A t \in BagToSet(tasks) : t.preset = NoPreset
      BY <1>5 DEF Task
    <2>2. QED
      BY <1>1, <1>4, <1>10, <2>1 DEF StatsInv, StatsWait, PresetsStand, reencodes
  <1>14. SourceStands
    BY <1>1, <1>3, <1>4 DEF SourceStands, NoVideo, rowsOf
  <1>15. PlayableIsComplete
    BY <1>3 DEF PlayableIsComplete, NoVideo
  <1>16. QED
    BY <1>8, <1>9, <1>12, <1>13, <1>14, <1>15 DEF Rest

LEMMA FailKeeps ==
  ASSUME TypeInv, Rest, VideoPipelineAssumption, NEW x \in run, Fail(x)
  PROVE  TypeInv' /\ Rest'
  BY ErrorKeeps DEF Fail, Fault

(* Files have tracks, and no execution overtakes another of its video.     *)
Orderly == FilesHaveTracks /\ ~Overtakes

LEMMA StartKeeps ==
  ASSUME TypeInv, Rest, VideoPipelineAssumption, Orderly, Start
  PROVE  TypeInv' /\ Rest'
  <1>1. ASSUME NEW v \in Videos, StartIngest(v)
        PROVE  TypeInv' /\ Rest'
    BY <1>1, StartIngestKeeps
  <1>2. ASSUME NEW v \in Videos, StartPass1(v)
        PROVE  TypeInv' /\ Rest'
    BY <1>2, StartPass1Keeps
  <1>3. ASSUME NEW v \in Videos, StartExtractSubs(v)
        PROVE  TypeInv' /\ Rest'
    BY <1>3, StartExtractSubsKeeps
  <1>4. ASSUME NEW v \in Videos, StartReimport(v)
        PROVE  TypeInv' /\ Rest'
    BY <1>4, StartReimportKeeps
  <1>5. ASSUME NEW v \in Videos, StartReencode(v)
        PROVE  TypeInv' /\ Rest'
    BY <1>5, StartReencodeKeeps DEF Orderly
  <1>6. ASSUME NEW t \in BagToSet(tasks), StartEncode(t)
        PROVE  TypeInv' /\ Rest'
    BY <1>6, StartEncodeKeeps
  <1>7. QED
    BY <1>1, <1>2, <1>3, <1>4, <1>5, <1>6 DEF Start

LEMMA StepKeeps ==
  ASSUME TypeInv, Rest, VideoPipelineAssumption, Orderly, NEW x \in run, Step(x)
  PROVE  TypeInv' /\ Rest'
  <1>1. CASE IngestCommit(x)
    BY <1>1, IngestCommitKeeps DEF Orderly
  <1>2. ASSUME NEW c \in Contents, ReimportCommit(x, c)
        PROVE  TypeInv' /\ Rest'
    BY <1>2, ReimportCommitKeeps
  <1>3. CASE Pass1Analyses(x)
    BY <1>3, Pass1AnalysesKeeps DEF Orderly
  <1>4. CASE Pass1Commit(x)
    BY <1>4, Pass1CommitKeeps
  <1>5. CASE EncodeCommit(x)
    BY <1>5, EncodeCommitKeeps
  <1>6. CASE ReleaseStats(x)
    BY <1>6, ReleaseStatsKeeps
  <1>7. CASE ExtractTrack(x)
    BY <1>7, ExtractTrackKeeps
  <1>8. CASE RebuildAfterSubs(x)
    BY <1>8, RebuildKeeps
  <1>9. CASE ReencodeReleases(x)
    BY <1>9, ReencodeReleasesKeeps
  <1>10. CASE ReencodeCommit(x)
    BY <1>10, ReencodeCommitKeeps
  <1>11. CASE DeleteTask(x)
    BY <1>11, Ending
  <1>12. QED
    BY <1>1, <1>2, <1>3, <1>4, <1>5, <1>6, <1>7, <1>8, <1>9, <1>10, <1>11 DEF Step

LEMMA NextKeeps ==
  ASSUME IInv, VideoPipelineAssumption, Orderly, [Next]_vars
  PROVE  IInv'
  <1>1. TypeInv /\ Rest
    BY DEF IInv, Rest
  <1>2. SUFFICES TypeInv' /\ Rest'
    BY DEF IInv, Rest
  <1>3. CASE Start
    BY <1>1, <1>3, StartKeeps
  <1>4. ASSUME NEW x \in run, Step(x)
        PROVE  TypeInv' /\ Rest'
    BY <1>1, <1>4, StepKeeps
  <1>5. ASSUME NEW x \in run, IngestTooEarly(x)
        PROVE  TypeInv' /\ Rest'
    BY <1>1, <1>5, IngestTooEarlyKeeps
  <1>6. ASSUME NEW x \in run, Fail(x)
        PROVE  TypeInv' /\ Rest'
    BY <1>1, <1>6, FailKeeps
  <1>7. ASSUME NEW v \in Videos, ReimportVideo(v) \/ ReencodeVideo(v)
        PROVE  TypeInv' /\ Rest'
    BY <1>1, <1>7, ClicksKeep
  <1>8. ASSUME NEW v \in Videos, PurgeVideo(v)
        PROVE  TypeInv' /\ Rest'
    BY <1>1, <1>8, PurgeVideoKeeps
  <1>9. ASSUME NEW v \in Videos, SweepOrphans(v)
        PROVE  TypeInv' /\ Rest'
    BY <1>1, <1>9, SweepOrphansKeeps
  <1>10. CASE Crash
    BY <1>1, <1>10, CrashKeeps
  <1>11. CASE UNCHANGED vars
    <2>1. UNCHANGED <<tables, stats, preset, tasks, run, clicks, faults>>
      BY <1>11 DEF vars, bounds
    <2>2. Queues({}) /\ {} \in SUBSET AnyTask /\ begun = {} /\ BagToSet(tasks)' = BagToSet(tasks)
      BY <2>1 DEF Queues, begun, BagToSet
    <2>3. /\ \A u : StillDue(u) /\ StillSpare(u) /\ \A r : StillVisits(u, r)
          /\ \A r : willEncode(r)' <=> willEncode(r)
      BY <1>1, <2>1, <2>2, GrowKeeps DEF TypeInv
    <2>4. KeepsTasks
      BY <2>2, <2>3 DEF KeepsTasks, awaited, StillVisits
    <2>5. Rest'
      BY <1>1, <2>1, <2>2, <2>4, QuietStep
    <2>6. clicks' \in 0 .. MaxClicks /\ faults' \in 0 .. MaxFaults
      BY <1>1, <2>1 DEF TypeInv, TablesTyped
    <2>7. TypeInv'
      BY <1>1, <2>1, <2>2, <2>6, GrowStep, SameTables, SamePlaces DEF TypeInv
    <2>8. QED
      BY <2>5, <2>7
  <1>12. QED
    BY <1>3, <1>4, <1>5, <1>6, <1>7, <1>8, <1>9, <1>10, <1>11 DEF Next, Progress

(* The invariant: an inductive one, from which everything below follows.   *)
THEOREM Invariant == ASSUME Orderly PROVE Spec => []IInv
  <1>1. Init => IInv
    BY InitHolds, VideoPipelineAssumption DEF IInv, Rest
  <1>2. IInv /\ [Next]_vars => IInv'
    BY NextKeeps, VideoPipelineAssumption
  <1>3. QED
    BY <1>1, <1>2, PTL DEF Spec

-----------------------------------------------------------------------------
(* What the invariant says of the videos.                                  *)

(* Some copy of the task has no execution among D.                         *)
LEMMA NotAll ==
  ASSUME TasksTyped, Booked, NEW u, NEW D \in SUBSET executions(u),
         spare(u) \/ D # executions(u)
  PROVE  copies(u) > Cardinality(D)
  <1>1. /\ IsFiniteSet(executions(u)) /\ Cardinality(executions(u)) \in Nat
        /\ copies(u) \in Nat /\ Cardinality(executions(u)) <= copies(u)
    BY Finite, BookedAll
  <1>2. /\ Cardinality(D) \in Nat /\ Cardinality(D) <= Cardinality(executions(u))
        /\ Cardinality(D) = Cardinality(executions(u)) => D = executions(u)
    BY <1>1, FS_Subset, FS_CardinalityType
  <1>3. CASE spare(u)
    BY <1>1, <1>2, <1>3 DEF spare
  <1>4. CASE D # executions(u)
    BY <1>1, <1>2, <1>4
  <1>5. QED
    BY <1>3, <1>4

LEMMA DueIsPending ==
  ASSUME TypeInv, NEW y, NEW v, due(Task(y, v))
  PROVE  pending(y, v)
  <1> DEFINE u == Task(y, v)
             D == {x \in executions(u) : x.pc = "return"}
  <1>1. D \in SUBSET executions(u) /\ (spare(u) \/ D # executions(u))
    BY DEF due
  <1> HIDE DEF D, u
  <1>2. copies(u) > Cardinality(D)
    BY <1>1, NotAll DEF TypeInv
  <1>3. QED
    BY <1>2 DEF pending, D, u

LEMMA VisitIsComing ==
  ASSUME TypeInv, NEW y, NEW r, visits(Task(y, r.video), r)
  PROVE  willVisit(y, r)
  <1> DEFINE u == Task(y, r.video)
             D == {x \in executions(u) : r \notin x.todo}
  <1>1. D \in SUBSET executions(u) /\ (spare(u) \/ D # executions(u))
    BY DEF visits
  <1> HIDE DEF D, u
  <1>2. copies(u) > Cardinality(D)
    BY <1>1, NotAll DEF TypeInv
  <1>3. QED
    BY <1>2 DEF willVisit, D, u

LEMMA TypesFollow ==
  ASSUME IInv, VideoPipelineAssumption
  PROVE  TypeOK
  <1>1. TypeInv /\ Rest
    BY DEF IInv, Rest
  <1>2. \A v \in DOMAIN video :
          video[v] \in [original : Contents \cup {NoContent},
                        probed : Contents \cup {NoContent}, playable : BOOLEAN]
    BY <1>1 DEF TypeInv, TablesTyped
  <1>3. DOMAIN rend \subseteq [video : DOMAIN video, gen : 1 .. MaxGen, part : AllParts]
    BY <1>1, RowFacts DEF Rends
  <1>4. \A t \in BagToSet(tasks) :
          IF t.type \in VideoTasks THEN t.arg \in Videos ELSE t.arg \in Rends
    BY <1>1, TaskTypes DEF TypeInv, TasksTyped
  <1>5. \A x \in run :
          /\ x.task \in BagToSet(tasks) /\ x.copy \in 1 .. Capacity[queue(x.task)]
          /\ x.key \in Contents \cup {NoContent} /\ x.todo \subseteq Rends
    BY <1>1, RunIsTask DEF TypeInv, Booked, Execution
  <1>6. DOMAIN Capacity = {"disk", "cpu"}
    BY DEF VideoPipelineAssumption
  <1>7. QED
    BY <1>1, <1>2, <1>3, <1>4, <1>5, <1>6 DEF TypeOK, TypeInv, TablesTyped, Booked

LEMMA NothingStrandedFollows ==
  ASSUME IInv
  PROVE  NothingStranded
  <1>1. TypeInv /\ Coming
    BY DEF IInv, WorkInv
  <1>2. \A v \in DOMAIN video :
          /\ video[v].original = NoContent => pending("ingest", v)
          /\ video[v].original # NoContent /\ video[v].probed = NoContent
               => pending("reencode", v)
    BY <1>1, DueIsPending DEF Coming
  <1>3. ASSUME NEW r \in unmade
        PROVE  CASE r.part.purpose = "audio" -> willEncode(r)
                 [] r.part.purpose = "subtitle" -> willVisit("extract-subs", r)
                 [] OTHER -> willEncode(r) \/ willVisit("pass1", r)
    <2>1. CASE r.part.purpose = "audio"
      BY <1>1, <2>1 DEF Coming
    <2>2. CASE r.part.purpose = "subtitle"
      <3>1. visits(Task("extract-subs", r.video), r)
        BY <1>1, <2>2 DEF Coming
      <3>2. QED
        BY <1>1, <2>2, <3>1, VisitIsComing
    <2>3. CASE r.part.purpose \notin {"audio", "subtitle"}
      <3>1. willEncode(r) \/ visits(Task("pass1", r.video), r)
        BY <1>1, <2>3 DEF Coming
      <3>2. willEncode(r) \/ willVisit("pass1", r)
        BY <1>1, <3>1, VisitIsComing
      <3>3. QED
        BY <2>3, <3>2
    <2>4. QED
      BY <2>1, <2>2, <2>3
  <1>4. QED
    BY <1>2, <1>3 DEF NothingStranded

LEMMA EncodeHasStatsFollows ==
  ASSUME IInv, ~Backlog
  PROVE  EncodeHasStats
  <1>1. TypeInv /\ StatsWait
    BY DEF IInv, StatsInv
  <1>2. \A r \in reencodes(unmade) : willEncode(r) =>
          r \in DOMAIN stats \/ due(Task("reencode", r.video))
    BY <1>1 DEF StatsWait, hasStats
  <1>3. QED
    BY <1>1, <1>2, DueIsPending DEF EncodeHasStats

LEMMA OneSourceFollows ==
  ASSUME IInv
  PROVE  OneSource
  <1>1. TypeInv /\ SourceStands
    BY DEF IInv
  <1>2. QED
    BY <1>1, DueIsPending DEF SourceStands, OneSource

LEMMA OneLadderFollows ==
  ASSUME IInv
  PROVE  OneLadder
  <1>1. DOMAIN rend \subseteq Rends
    BY DEF IInv, TypeInv, TablesTyped
  <1>2. \A q, r \in DOMAIN rend : q.video = r.video => q.gen = r.gen
    BY DEF IInv, PlanInv, Planned
  <1>3. \A q, r \in Rends : q.video = r.video /\ q.gen = r.gen /\ q.part = r.part => q = r
    BY DEF Rends
  <1>4. QED
    BY <1>1, <1>2, <1>3 DEF OneLadder

\* Tables, tasks and executions have their types, no more executions of a
\* task are under way than there are copies of it, and no more in a queue
\* than it has slots (taskqueue.go: the semaphore of a queue).
THEOREM TypesHold == ASSUME Orderly PROVE Spec => []TypeOK
  <1>1. IInv => TypeOK
    BY TypesFollow, VideoPipelineAssumption
  <1>2. QED
    BY <1>1, Invariant, PTL

\* Whatever executions of an older ladder commit, a video is playable only
\* with a streaming rendition and one of every audio track (isPlayableMV).
THEOREM PlayableComplete == ASSUME Orderly PROVE Spec => []PlayableIsComplete
  <1>1. IInv => PlayableIsComplete
    BY DEF IInv
  <1>2. QED
    BY <1>1, Invariant, PTL

\* A row that is not made, and a video without a ladder, is always awaited
\* by a task that has not come to the point yet, over every retry, crash,
\* purge and re-encode.
THEOREM NothingIsStranded == ASSUME Orderly PROVE Spec => []NothingStranded
  <1>1. IInv => NothingStranded
    BY NothingStrandedFollows
  <1>2. QED
    BY <1>1, Invariant, PTL

\* The statistics of a first pass are released only after the last encode
\* that needs them (allRenditionsEncoded, releasePass1Stats).
THEOREM StatsAreThere == ASSUME Orderly, ~Backlog PROVE Spec => []EncodeHasStats
  <1>1. IInv => EncodeHasStats
    BY EncodeHasStatsFollows
  <1>2. QED
    BY <1>1, Invariant, PTL

\* Both passes of an encode use one preset, over restarts with another
\* (taskIngestPass1).
THEOREM PresetsAgree == ASSUME Orderly, ~PresetReplays PROVE Spec => []PresetsMatch
  <1>1. IInv => PresetsMatch
    BY DEF IInv, StatsInv, PresetsStand, presetFor, PresetsMatch
  <1>2. QED
    BY <1>1, Invariant, PTL

\* What a video shows is made from the bytes of its original, or a re-encode
\* is coming (taskReimport, taskReencode).
THEOREM SourceIsOne == ASSUME Orderly PROVE Spec => []OneSource
  <1>1. IInv => OneSource
    BY OneSourceFollows
  <1>2. QED
    BY <1>1, Invariant, PTL

\* No second ladder is planned beside the first (planAndCreateRenditions).
THEOREM LadderIsOne == ASSUME Orderly PROVE Spec => []OneLadder
  <1>1. IInv => OneLadder
    BY OneLadderFollows
  <1>2. QED
    BY <1>1, Invariant, PTL

-----------------------------------------------------------------------------
(* Which steps take a video away.                                          *)

LEMMA VideosStay ==
  ASSUME TypeInv, Next
  PROVE  \/ DOMAIN video' = DOMAIN video
         \/ clicks' # clicks
         \/ \E x \in run : \E winner \in winners(x.task.arg, File[x.task.arg]) :
              /\ rowsOf(x.task.arg) = {}
              /\ Merge(x, x.task.arg, winner)
  <1> DEFINE Goal == \/ DOMAIN video' = DOMAIN video
                     \/ clicks' # clicks
                     \/ \E x \in run : \E winner \in winners(x.task.arg, File[x.task.arg]) :
                          /\ rowsOf(x.task.arg) = {}
                          /\ Merge(x, x.task.arg, winner)
  <1>1. CASE UNCHANGED video
    BY <1>1
  <1>2. CASE Start
    <2>1. UNCHANGED video
      BY <1>2 DEF Start, StartIngest, StartPass1, StartExtractSubs, StartReimport,
                  StartReencode, StartEncode, Begin, Drop, tables
    <2>2. QED
      BY <1>1, <2>1
  <1>3. ASSUME NEW x \in run, Step(x)
        PROVE  Goal
    <2>1. CASE IngestCommit(x)
      <3>1. CASE \E winner \in winners(x.task.arg, File[x.task.arg]) : Merge(x, x.task.arg, winner)
        <4>1. PICK winner \in winners(x.task.arg, File[x.task.arg]) : Merge(x, x.task.arg, winner)
          BY <3>1
        <4>2. CASE rowsOf(x.task.arg) = {}
          BY <4>1, <4>2
        <4>3. CASE rowsOf(x.task.arg) # {}
          BY <4>1, <4>3 DEF Merge, Error, tables
        <4>4. QED
          BY <4>2, <4>3
      <3>2. CASE DOMAIN video' = DOMAIN video
        BY <3>2
      <3>3. QED
        BY <2>1, <3>1, <3>2 DEF IngestCommit, Error, tables
    <2>2. CASE \E c \in Contents : ReimportCommit(x, c)
      BY <2>2 DEF ReimportCommit, Error, tables
    <2>3. CASE EncodeCommit(x) \/ RebuildAfterSubs(x)
      BY <2>3 DEF EncodeCommit, RebuildAfterSubs, recomputePlayable, Error, tables
    <2>4. CASE ReencodeCommit(x)
      BY <2>4 DEF ReencodeCommit, replannedAnew, Error, tables
    <2>5. CASE Pass1Analyses(x) \/ Pass1Commit(x) \/ ReleaseStats(x) \/ ReencodeReleases(x)
               \/ DeleteTask(x)
      BY <2>5 DEF Pass1Analyses, Pass1Commit, ReleaseStats, ReencodeReleases, DeleteTask, tables
    <2>6. CASE ExtractTrack(x)
      BY <2>6 DEF ExtractTrack, Error, tables
    <2>7. QED
      BY <1>3, <2>1, <2>2, <2>3, <2>4, <2>5, <2>6 DEF Step
  <1>4. ASSUME NEW v \in Videos, PurgeVideo(v)
        PROVE  Goal
    BY <1>4 DEF PurgeVideo, Click, TypeInv, TablesTyped
  <1>5. CASE \/ \E x \in run : IngestTooEarly(x) \/ Fail(x)
             \/ \E v \in Videos : ReimportVideo(v) \/ ReencodeVideo(v) \/ SweepOrphans(v)
             \/ Crash
    BY <1>5 DEF IngestTooEarly, Fail, Error, ReimportVideo, ReencodeVideo, SweepOrphans,
                Crash, tables
  <1>6. QED
    BY <1>2, <1>3, <1>4, <1>5 DEF Next, Progress

LEMMA MergedKeepTheirEpisodes ==
  ASSUME TypeInv, [Next]_vars, NEW v \in DOMAIN video \ DOMAIN video', clicks' = clicks,
         NEW l \in links, l[2] = v
  PROVE  \E k \in links' : k[1] = l[1] /\ video'[k[2]].original = File[v]
  <1>1. Next
    BY DEF vars, tables
  <1>2. PICK x \in run : \E winner \in winners(x.task.arg, File[x.task.arg]) :
                            rowsOf(x.task.arg) = {} /\ Merge(x, x.task.arg, winner)
    BY <1>1, VideosStay
  <1>3. PICK winner \in winners(x.task.arg, File[x.task.arg]) :
                            rowsOf(x.task.arg) = {} /\ Merge(x, x.task.arg, winner)
    BY <1>2
  <1>4. /\ video' = Restrict(video, DOMAIN video \ {x.task.arg})
        /\ links' = reassigned(x.task.arg, winner)
    BY <1>3 DEF Merge
  <1>5. /\ DOMAIN video' = DOMAIN video \ {x.task.arg}
        /\ \A w \in DOMAIN video' : video'[w] = video[w]
    BY <1>4 DEF Restrict
  <1>6. v = x.task.arg
    BY <1>5
  <1>7. <<l[1], winner>> \in links'
    BY <1>4, <1>6 DEF reassigned
  <1>8. video'[winner].original = File[v]
    BY <1>5, <1>6 DEF winners
  <1>9. QED
    BY <1>7, <1>8

\* A row goes without a request only in the merge of mergeDuplicateVideo, and
\* every episode it had has a video with the same bytes then.
THEOREM EpisodesKept == ASSUME Orderly PROVE Spec => MergeKeepsEpisodes
  <1>1. IInv /\ [Next]_vars =>
          [\A v \in DOMAIN video \ DOMAIN video' :
             \/ clicks' # clicks
             \/ \A l \in links : l[2] = v =>
                  \E k \in links' : k[1] = l[1] /\ video'[k[2]].original = File[v]]_vars
    BY MergedKeepTheirEpisodes DEF IInv
  <1>2. QED
    BY <1>1, Invariant, PTL DEF Spec, MergeKeepsEpisodes

-----------------------------------------------------------------------------
(* The ladder of a source, whatever it is: the best rendition, and the     *)
(* rungs below it as the recursion of Lower picks them.                    *)

RungOf(src) == [remux : {FALSE}, codec : {outCodec(src)}, hdr : {src.hdr},
                kbps : Nat, height : Nat, fps : Nat]

LEMMA SourceBest ==
  ASSUME NEW src, IsSource(src), src.kbps # 0
  PROVE  /\ Best(src).kbps \in Nat \ {0} /\ Best(src).kbps <= topTierCeiling
         /\ Best(src).codec = outCodec(src) /\ Best(src).hdr = src.hdr
         /\ Best(src).height = 0 /\ Best(src).fps = 0
         /\ Best(src).remux => Best(src).codec = src.codec
         /\ src.kbps > 420 => Best(src).kbps > 420
         /\ src.kbps <= 420 => Best(src).kbps <= (src.kbps * 11) \div 10
  <1> DEFINE more == (src.kbps * 11) \div 10
             best == Best(src).kbps
  <1>1. src.kbps \in Nat \ {0}
    BY DEF IsSource
  <1>2. more >= src.kbps /\ more \in Int
    BY <1>1
  <1>3. topTierCeiling \in Nat /\ topTierCeiling > 420 /\ reencodeThreshold > 420
        /\ reencodeThreshold \in Nat
    BY DEF topTierCeiling, reencodeThreshold
  <1>4. src.kbps <= reencodeThreshold => more <= topTierCeiling
    BY <1>1 DEF topTierCeiling, reencodeThreshold
  <1>5. /\ Best(src).codec = outCodec(src) /\ Best(src).hdr = src.hdr
        /\ Best(src).height = 0 /\ Best(src).fps = 0
        /\ best = IF canRemux(src) /\ src.kbps <= topTierCeiling THEN src.kbps
                  ELSE IF ~canRemux(src) /\ src.kbps <= reencodeThreshold THEN more
                  ELSE topTierCeiling
        /\ Best(src).remux => canRemux(src)
    BY DEF Best
  <1>6. canRemux(src) => outCodec(src) = src.codec
    BY DEF canRemux, outCodec
  <1> HIDE DEF best, more
  <1>7. /\ best \in Nat \ {0} /\ best <= topTierCeiling
        /\ src.kbps > 420 => best > 420
        /\ src.kbps <= 420 => best <= more
    BY <1>1, <1>2, <1>3, <1>4, <1>5
  <1>8. QED
    BY <1>5, <1>6, <1>7 DEF best, more

LEMMA Reduced == /\ (20000 * 4) \div 5 = 16000 /\ (5000 * 4) \div 5 = 4000
                 /\ (3000 * 4) \div 5 = 2400 /\ (1500 * 4) \div 5 = 1200
                 /\ (420 * 4) \div 5 = 336
  OBVIOUS

LEMMA RungFacts ==
  ASSUME NEW src, IsSource(src), NEW n \in 1 .. 5
  PROVE  LET r == Rung(src, Rungs[n]) IN
         /\ r \in RungOf(src)
         /\ r.height = 0 \/ r.height < src.height
         /\ r.fps = 0 \/ r.fps < src.fps
         /\ n > 1 => r.kbps < Rung(src, Rungs[n - 1]).kbps
         /\ n = 5 => r.kbps <= 420
  <1>1. src.height \in Nat /\ src.fps \in Nat
    BY DEF IsSource
  <1>2. /\ Rungs[n].kbps \in Nat /\ Rungs[n].height \in Nat /\ Rungs[n].fps \in Nat
    BY DEF Rungs
  <1>3. /\ Rungs[1].kbps = 20000 /\ Rungs[2].kbps = 5000 /\ Rungs[3].kbps = 3000
        /\ Rungs[4].kbps = 1500 /\ Rungs[5].kbps = 420
    BY DEF Rungs
  <1>4. n = 1 \/ n = 2 \/ n = 3 \/ n = 4 \/ n = 5
    OBVIOUS
  <1>5. n > 1 => Rung(src, Rungs[n]).kbps < Rung(src, Rungs[n - 1]).kbps
    BY <1>3, <1>4, Reduced DEF Rung
  <1>6. Rung(src, Rungs[n]).kbps \in Nat /\ (n = 5 => Rung(src, Rungs[n]).kbps <= 420)
    BY <1>3, <1>4, Reduced DEF Rung
  <1>7. /\ Cap(Rungs[n].height, src.height) \in Nat
        /\ Cap(Rungs[n].height, src.height) = 0 \/ Cap(Rungs[n].height, src.height) < src.height
        /\ Cap(Rungs[n].fps, src.fps) \in Nat
        /\ Cap(Rungs[n].fps, src.fps) = 0 \/ Cap(Rungs[n].fps, src.fps) < src.fps
    BY <1>1, <1>2 DEF Cap
  <1>8. QED
    BY <1>5, <1>6, <1>7 DEF Rung, RungOf

(* What is picked of the first n rungs: cheaper and cheaper ones, all of   *)
(* them below the best.                                                    *)
Picked(src, s, n) ==
    /\ s \in Seq(RungOf(src))
    /\ \A i \in 1 .. Len(s) :
         /\ s[i].kbps < Best(src).kbps
         /\ s[i].height = 0 \/ s[i].height < src.height
         /\ s[i].fps = 0 \/ s[i].fps < src.fps
         /\ n > 0 /\ s[i].kbps >= Rung(src, Rungs[n]).kbps
    /\ \A i, j \in 1 .. Len(s) : i < j => s[j].kbps < s[i].kbps
    /\ n > 0 /\ belowBest(src, Rungs[n]) =>
         Len(s) > 0 /\ s[Len(s)] = Rung(src, Rungs[n])

pick(src, s, n) == IF belowBest(src, Rungs[n]) THEN Append(s, Rung(src, Rungs[n])) ELSE s

LEMMA PickOne ==
  ASSUME NEW src, IsSource(src), src.kbps # 0, NEW n \in 1 .. 5, NEW s, Picked(src, s, n - 1)
  PROVE  Picked(src, pick(src, s, n), n)
  <1> DEFINE r == Rung(src, Rungs[n])
             q == Rung(src, Rungs[n - 1])
  <1>1. /\ r \in RungOf(src)
        /\ r.height = 0 \/ r.height < src.height
        /\ r.fps = 0 \/ r.fps < src.fps
        /\ n > 1 => r.kbps < q.kbps
    BY RungFacts
  <1>2. n > 1 => q \in RungOf(src)
    <2>1. n > 1 => n - 1 \in 1 .. 5
      OBVIOUS
    <2>2. QED
      BY <2>1, RungFacts
  <1>3. \A t \in RungOf(src) : t.kbps \in Nat
    BY DEF RungOf
  <1>4. s \in Seq(RungOf(src)) /\ Best(src).kbps \in Nat
    BY SourceBest DEF Picked
  <1>5. \A i \in 1 .. Len(s) :
          /\ s[i] \in RungOf(src)
          /\ s[i].kbps < Best(src).kbps
          /\ s[i].height = 0 \/ s[i].height < src.height
          /\ s[i].fps = 0 \/ s[i].fps < src.fps
          /\ n - 1 > 0 /\ s[i].kbps >= q.kbps
    BY <1>4 DEF Picked
  <1>6. \A i, j \in 1 .. Len(s) : i < j => s[j].kbps < s[i].kbps
    BY DEF Picked
  <1>7. r.kbps < Best(src).kbps <=> belowBest(src, Rungs[n])
    BY DEF belowBest
  <1> HIDE DEF r, q
  <1>8. \A i \in 1 .. Len(s) : s[i].kbps > r.kbps
    BY <1>1, <1>2, <1>3, <1>5
  <1>9. CASE belowBest(src, Rungs[n])
    <2> DEFINE z == Append(s, r)
    <2>1. pick(src, s, n) = z
      BY <1>9 DEF pick, r
    <2>2. /\ z \in Seq(RungOf(src)) /\ Len(z) = Len(s) + 1 /\ z[Len(s) + 1] = r
          /\ \A i \in 1 .. Len(s) : z[i] = s[i]
          /\ Len(s) \in Nat
      BY <1>1, <1>4
    <2> HIDE DEF z
    <2>3. \A i \in 1 .. Len(z) : i \in 1 .. Len(s) \/ (i = Len(s) + 1 /\ z[i] = r)
      BY <2>2
    <2>4. ASSUME NEW i \in 1 .. Len(z)
          PROVE  /\ z[i].kbps < Best(src).kbps
                 /\ z[i].height = 0 \/ z[i].height < src.height
                 /\ z[i].fps = 0 \/ z[i].fps < src.fps
                 /\ z[i].kbps >= r.kbps
      <3>1. CASE i \in 1 .. Len(s)
        <4>1. z[i] = s[i]
          BY <2>2, <3>1
        <4>2. s[i].kbps \in Nat /\ r.kbps \in Nat /\ s[i].kbps > r.kbps
          BY <1>1, <1>3, <1>5, <1>8, <3>1
        <4>3. QED
          BY <1>5, <3>1, <4>1, <4>2
      <3>2. CASE i = Len(s) + 1 /\ z[i] = r
        BY <1>1, <1>3, <1>7, <1>9, <3>2
      <3>3. QED
        BY <2>3, <3>1, <3>2
    <2>5. ASSUME NEW i \in 1 .. Len(z), NEW j \in 1 .. Len(z), i < j
          PROVE  z[j].kbps < z[i].kbps
      <3>1. i \in 1 .. Len(s) /\ z[i] = s[i]
        BY <2>2, <2>5
      <3>2. CASE j \in 1 .. Len(s)
        BY <1>6, <2>2, <2>5, <3>1, <3>2
      <3>3. CASE j = Len(s) + 1 /\ z[j] = r
        <4>1. s[i].kbps > r.kbps /\ s[i].kbps \in Nat /\ r.kbps \in Nat
          BY <1>1, <1>3, <1>5, <1>8, <3>1
        <4>2. QED
          BY <3>1, <3>3, <4>1
      <3>4. QED
        BY <2>3, <3>2, <3>3
    <2>6. Len(z) > 0 /\ z[Len(z)] = r
      BY <2>2
    <2>7. Picked(src, z, n)
      BY <2>2, <2>4, <2>5, <2>6 DEF Picked, r
    <2>8. QED
      BY <2>1, <2>7
  <1>10. CASE ~belowBest(src, Rungs[n])
    <2>1. pick(src, s, n) = s
      BY <1>10 DEF pick
    <2>2. \A i \in 1 .. Len(s) : n > 0 /\ s[i].kbps >= r.kbps
      BY <1>1, <1>3, <1>5, <1>8
    <2>3. Picked(src, s, n)
      BY <1>4, <1>5, <1>6, <1>10, <2>2 DEF Picked, r
    <2>4. QED
      BY <2>1, <2>3
  <1>11. QED
    BY <1>9, <1>10

(* The recursion of Lower over the first n rungs.                          *)
Picks(src, f, n) ==
    f = [k \in 0 .. n |-> IF k = 0 THEN <<>>
                          ELSE IF belowBest(src, Rungs[k])
                            THEN Append(f[k - 1], Rung(src, Rungs[k]))
                            ELSE f[k - 1]]

LEMMA PicksGrow ==
  ASSUME NEW src, NEW n \in 1 .. 5, NEW f, Picks(src, f, n - 1)
  PROVE  \E h : Picks(src, h, n)
  <1> DEFINE h == [k \in 0 .. n |-> IF k = n THEN pick(src, f[n - 1], n) ELSE f[k]]
  <1>1. \A k \in 0 .. n : k = n \/ k \in 0 .. (n - 1)
    OBVIOUS
  <1>2. \A k \in 0 .. (n - 1) : h[k] = f[k] /\ k # n
    BY <1>1
  <1>3. h[n] = pick(src, f[n - 1], n)
    OBVIOUS
  <1>4. h = [k \in 0 .. n |-> h[k]]
    OBVIOUS
  <1> HIDE DEF h
  <1>5. ASSUME NEW k \in 0 .. n, k # 0
        PROVE  h[k] = IF belowBest(src, Rungs[k])
                        THEN Append(h[k - 1], Rung(src, Rungs[k])) ELSE h[k - 1]
    <2>1. k - 1 \in 0 .. (n - 1)
      BY <1>5
    <2>2. CASE k = n
      BY <1>2, <1>3, <2>1, <2>2 DEF pick
    <2>3. CASE k \in 0 .. (n - 1)
      <3>1. f[k] = IF belowBest(src, Rungs[k])
                     THEN Append(f[k - 1], Rung(src, Rungs[k])) ELSE f[k - 1]
        BY <1>5, <2>3 DEF Picks
      <3>2. QED
        BY <1>2, <2>1, <2>3, <3>1
    <2>4. QED
      BY <1>1, <2>2, <2>3
  <1>6. h[0] = <<>>
    BY <1>2 DEF Picks
  <1>7. Picks(src, h, n)
    BY <1>4, <1>5, <1>6 DEF Picks
  <1>8. QED
    BY <1>7

LEMMA LowerIsPicked ==
  ASSUME NEW src, IsSource(src), src.kbps # 0
  PROVE  Picked(src, Lower(src), 5)
  <1> DEFINE f == CHOOSE g : Picks(src, g, 5)
  <1>1. Len(Rungs) = 5
    BY DEF Rungs
  <1>2. Lower(src) = f[5]
    BY <1>1 DEF Lower, Picks
  <1>3. \E g : Picks(src, g, 5)
    <2>1. Picks(src, [k \in 0 .. 0 |-> <<>>], 0)
      BY DEF Picks
    <2>2. \A n \in 1 .. 5 : (\E g : Picks(src, g, n - 1)) => \E g : Picks(src, g, n)
      BY PicksGrow
    <2>3. \E g : Picks(src, g, 1)
      BY <2>1, <2>2
    <2>4. \E g : Picks(src, g, 2)
      BY <2>2, <2>3
    <2>5. \E g : Picks(src, g, 3)
      BY <2>2, <2>4
    <2>6. \E g : Picks(src, g, 4)
      BY <2>2, <2>5
    <2>7. QED
      BY <2>2, <2>6
  <1>4. Picks(src, f, 5)
    BY <1>3
  <1> HIDE DEF f
  <1>5. f[0] = <<>> /\ \A n \in 1 .. 5 : f[n] = pick(src, f[n - 1], n)
    <2>1. f[0] = <<>>
      BY <1>4 DEF Picks
    <2>2. ASSUME NEW n \in 1 .. 5
          PROVE  f[n] = pick(src, f[n - 1], n)
      <3>1. n \in 0 .. 5 /\ n # 0
        OBVIOUS
      <3>2. f[n] = IF belowBest(src, Rungs[n])
                     THEN Append(f[n - 1], Rung(src, Rungs[n])) ELSE f[n - 1]
        BY <1>4, <3>1 DEF Picks
      <3>3. QED
        BY <3>2 DEF pick
    <2>3. QED
      BY <2>1, <2>2
  <1>6. Picked(src, f[0], 0)
    BY <1>5 DEF Picked
  <1>7. \A n \in 1 .. 5 : Picked(src, f[n - 1], n - 1) => Picked(src, f[n], n)
    BY <1>5, PickOne
  <1>8. Picked(src, f[1], 1)
    BY <1>6, <1>7
  <1>9. Picked(src, f[2], 2)
    BY <1>7, <1>8
  <1>10. Picked(src, f[3], 3)
    BY <1>7, <1>9
  <1>11. Picked(src, f[4], 4)
    BY <1>7, <1>10
  <1>12. Picked(src, f[5], 5)
    BY <1>7, <1>11
  <1>13. QED
    BY <1>2, <1>12

LEMMA PlanIsLadder ==
  ASSUME NEW src, IsSource(src), src.kbps # 0
  PROVE  LET plan == PlanVideoRenditions(src)
         IN /\ plan # <<>> /\ plan[1] = Best(src) /\ Len(plan) \in Nat \ {0}
            /\ DOMAIN plan = 1 .. Len(plan)
            /\ \A i \in DOMAIN plan :
                 /\ plan[i].codec = outCodec(src) /\ plan[i].hdr = src.hdr
                 /\ plan[i].remux => i = 1 /\ plan[i].codec = src.codec
                 /\ plan[i].height < src.height \/ plan[i].height = 0
                 /\ plan[i].fps < src.fps \/ plan[i].fps = 0
            /\ \A i, j \in DOMAIN plan : i < j => plan[j].kbps < plan[i].kbps
            /\ plan[Len(plan)].kbps <= IF src.kbps > 420 THEN 420
                                      ELSE (src.kbps * 11) \div 10
  <1> DEFINE b == Best(src)
             s == Lower(src)
             plan == <<b>> \o s
  <1>1. PlanVideoRenditions(src) = plan
    BY DEF PlanVideoRenditions
  <1>2. /\ b.kbps \in Nat \ {0}
        /\ b.codec = outCodec(src) /\ b.hdr = src.hdr /\ b.height = 0 /\ b.fps = 0
        /\ b.remux => b.codec = src.codec
        /\ src.kbps > 420 => b.kbps > 420
        /\ src.kbps <= 420 => b.kbps <= (src.kbps * 11) \div 10
    BY SourceBest
  <1>3. Picked(src, s, 5)
    BY LowerIsPicked
  <1>4. b.kbps \in Nat /\ src.kbps \in Nat /\ (src.kbps * 11) \div 10 \in Int
    <2>1. src.kbps \in Nat
      BY DEF IsSource
    <2>2. QED
      BY <1>2, <2>1
  <1>5. Rung(src, Rungs[5]).kbps \in Nat /\ Rung(src, Rungs[5]).kbps <= 420
    <2>1. 5 \in 1 .. 5
      OBVIOUS
    <2>2. Rung(src, Rungs[5]) \in RungOf(src) /\ Rung(src, Rungs[5]).kbps <= 420
      BY <2>1, RungFacts
    <2>3. QED
      BY <2>2 DEF RungOf
  <1> HIDE DEF b, s
  <1>6. s \in Seq(RungOf(src)) /\ Len(s) \in Nat
    BY <1>3 DEF Picked
  <1>7. \A i \in 1 .. Len(s) :
          /\ s[i].codec = outCodec(src) /\ s[i].hdr = src.hdr /\ s[i].remux = FALSE
          /\ s[i].kbps \in Nat
          /\ s[i].kbps < b.kbps
          /\ s[i].height = 0 \/ s[i].height < src.height
          /\ s[i].fps = 0 \/ s[i].fps < src.fps
    <2>1. \A r \in RungOf(src) : r.codec = outCodec(src) /\ r.hdr = src.hdr
                               /\ r.remux = FALSE /\ r.kbps \in Nat
      BY DEF RungOf
    <2>2. \A i \in 1 .. Len(s) : s[i] \in RungOf(src)
      BY <1>6
    <2>3. QED
      BY <1>3, <2>1, <2>2 DEF Picked, b
  <1>8. \A i, j \in 1 .. Len(s) : i < j => s[j].kbps < s[i].kbps
    BY <1>3 DEF Picked
  <1>9. /\ DOMAIN plan = 1 .. Len(plan) /\ Len(plan) = Len(s) + 1 /\ plan[1] = b
        /\ \A i \in 1 .. Len(plan) : i = 1 \/ (i - 1 \in 1 .. Len(s) /\ plan[i] = s[i - 1])
        /\ plan # <<>>
    <2>1. <<b>> \in Seq({b}) /\ Len(<<b>>) = 1 /\ <<b>>[1] = b
      OBVIOUS
    <2>2. <<b>> \in Seq({b} \cup RungOf(src)) /\ s \in Seq({b} \cup RungOf(src))
      BY <1>6
    <2>3. /\ plan \in Seq({b} \cup RungOf(src)) /\ Len(plan) = 1 + Len(s)
          /\ \A i \in 1 .. Len(plan) :
               plan[i] = IF i <= Len(<<b>>) THEN <<b>>[i] ELSE s[i - Len(<<b>>)]
      BY <2>1, <2>2
    <2>4. QED
      BY <1>6, <2>1, <2>3
  <1> HIDE DEF plan
  <1>10. ASSUME NEW i \in 1 .. Len(plan)
         PROVE  /\ plan[i].codec = outCodec(src) /\ plan[i].hdr = src.hdr
                /\ plan[i].remux => i = 1 /\ plan[i].codec = src.codec
                /\ plan[i].height < src.height \/ plan[i].height = 0
                /\ plan[i].fps < src.fps \/ plan[i].fps = 0
    BY <1>2, <1>7, <1>9
  <1>11. ASSUME NEW i \in 1 .. Len(plan), NEW j \in 1 .. Len(plan), i < j
         PROVE  plan[j].kbps < plan[i].kbps
    <2>1. j - 1 \in 1 .. Len(s) /\ plan[j] = s[j - 1]
      BY <1>9, <1>11
    <2>2. CASE i = 1
      BY <1>7, <1>9, <2>1, <2>2
    <2>3. CASE i # 1
      <3>1. i - 1 \in 1 .. Len(s) /\ plan[i] = s[i - 1] /\ i - 1 < j - 1
        BY <1>9, <1>11, <2>3
      <3>2. QED
        BY <1>8, <2>1, <3>1
    <2>4. QED
      BY <2>2, <2>3
  <1>12. plan[Len(plan)].kbps <= b.kbps
    <2>1. CASE Len(s) = 0
      BY <1>4, <1>9, <2>1
    <2>2. CASE Len(s) # 0
      <3>1. Len(plan) \in 1 .. Len(plan) /\ 1 \in 1 .. Len(plan) /\ 1 < Len(plan)
        BY <1>6, <1>9, <2>2
      <3>2. plan[Len(plan)].kbps < plan[1].kbps /\ plan[Len(plan)] = s[Len(plan) - 1]
        BY <1>9, <1>11, <3>1
      <3>3. Len(plan) - 1 \in 1 .. Len(s)
        BY <1>6, <1>9, <2>2
      <3>4. plan[Len(plan)].kbps \in Nat
        BY <1>7, <3>2, <3>3
      <3>5. QED
        BY <1>4, <1>9, <3>2, <3>4
    <2>3. QED
      BY <2>1, <2>2
  <1>13. src.kbps > 420 => plan[Len(plan)].kbps <= 420
    <2>1. SUFFICES ASSUME src.kbps > 420 PROVE plan[Len(plan)].kbps <= 420
      OBVIOUS
    <2>2. Rung(src, Rungs[5]).kbps < b.kbps
      BY <1>2, <1>4, <1>5, <2>1
    <2>3. Len(s) > 0 /\ s[Len(s)] = Rung(src, Rungs[5])
      BY <1>3, <2>2 DEF Picked, belowBest, b
    <2>4. plan[Len(plan)] = s[Len(s)]
      BY <1>6, <1>9, <2>3
    <2>5. QED
      BY <1>5, <2>3, <2>4
  <1>14. src.kbps <= 420 => plan[Len(plan)].kbps <= (src.kbps * 11) \div 10
    <2>1. plan[Len(plan)].kbps \in Nat
      <3>1. Len(plan) \in 1 .. Len(plan)
        BY <1>6, <1>9
      <3>2. QED
        BY <1>4, <1>7, <1>9, <3>1
    <2>2. QED
      BY <1>2, <1>4, <1>12, <2>1
  <1>15. QED
    BY <1>1, <1>4, <1>6, <1>9, <1>10, <1>11, <1>13, <1>14, SMTT(30) DEF b

LEMMA AudioIsSound ==
  ASSUME NEW src, IsSource(src), NEW a \in src.audio
  PROVE  LET audio == PlanAudioRenditions(src)
         IN /\ \E t \in audio : t.track = a.index /\ t.channels >= a.channels
            /\ a.channels > 2 =>
                 \E t \in audio, b \in src.audio :
                    t.track = b.index /\ b.label = a.label /\ t.channels = 2
  <1> DEFINE audio == PlanAudioRenditions(src)
             asIs(b) == [track |-> b.index,
                         channels |-> IF b.channels = 0 THEN 1 ELSE b.channels]
             downmix(b) == [track |-> b.index, channels |-> 2]
  <1>1. a.channels \in Nat
    BY DEF IsSource
  <1>2. \A b \in src.audio : asIs(b) \in audio
    BY DEF PlanAudioRenditions
  <1>3. \A b \in src.audio :
          (b.channels > 2 /\ ~\E t \in src.audio : t.channels = 2 /\ t.label = b.label)
            => downmix(b) \in audio
    BY DEF PlanAudioRenditions
  <1>4. asIs(a).track = a.index /\ asIs(a).channels >= a.channels
    BY <1>1
  <1> HIDE DEF audio
  <1>5. \E t \in audio : t.track = a.index /\ t.channels >= a.channels
    BY <1>2, <1>4
  <1>6. ASSUME a.channels > 2
        PROVE  \E t \in audio, b \in src.audio :
                 t.track = b.index /\ b.label = a.label /\ t.channels = 2
    <2>1. CASE \E t \in src.audio : t.channels = 2 /\ t.label = a.label
      <3>1. PICK b \in src.audio : b.channels = 2 /\ b.label = a.label
        BY <2>1
      <3>2. asIs(b) \in audio /\ asIs(b).track = b.index /\ asIs(b).channels = 2
        BY <1>2, <3>1
      <3>3. QED
        BY <3>1, <3>2
    <2>2. CASE ~\E t \in src.audio : t.channels = 2 /\ t.label = a.label
      <3>1. downmix(a) \in audio /\ downmix(a).track = a.index /\ downmix(a).channels = 2
        BY <1>3, <1>6, <2>2
      <3>2. QED
        BY <3>1
    <2>3. QED
      BY <2>1, <2>2
  <1>7. QED
    BY <1>5, <1>6 DEF audio

(* Every source that is measured in whole numbers has a ladder a player    *)
(* can use (PlanVideoRenditions, PlanAudioRenditions of video/ladder.go).  *)
THEOREM LaddersAreSound ==
  ASSUME NEW src, IsSource(src)
  PROVE  Sound(src)
  <1> DEFINE plan == PlanVideoRenditions(src)
  <1>1. \A a \in src.audio :
            LET audio == PlanAudioRenditions(src) IN
            /\ \E t \in audio : t.track = a.index /\ t.channels >= a.channels
            /\ a.channels > 2 =>
                 \E t \in audio, b \in src.audio :
                    t.track = b.index /\ b.label = a.label /\ t.channels = 2
    BY AudioIsSound
  <1>2. CASE src.kbps = 0
    <2>1. plan = <<>> /\ DOMAIN plan = {}
      BY <1>2 DEF PlanVideoRenditions
    <2> HIDE DEF plan
    <2>2. QED
      BY <1>1, <1>2, <2>1 DEF Sound, plan
  <1>3. CASE src.kbps # 0
    <2>1. /\ plan # <<>> /\ plan[1] = Best(src) /\ Len(plan) \in Nat \ {0}
          /\ DOMAIN plan = 1 .. Len(plan)
          /\ \A i \in DOMAIN plan :
               /\ plan[i].codec = outCodec(src) /\ plan[i].hdr = src.hdr
               /\ plan[i].remux => i = 1 /\ plan[i].codec = src.codec
               /\ plan[i].height < src.height \/ plan[i].height = 0
               /\ plan[i].fps < src.fps \/ plan[i].fps = 0
          /\ \A i, j \in DOMAIN plan : i < j => plan[j].kbps < plan[i].kbps
          /\ plan[Len(plan)].kbps <= IF src.kbps > 420 THEN 420
                                    ELSE (src.kbps * 11) \div 10
      BY <1>3, PlanIsLadder
    <2>2. plan[1].kbps \in 1 .. topTierCeiling /\ plan[1].height = 0 /\ plan[1].fps = 0
      <3>1. topTierCeiling \in Nat
        BY DEF topTierCeiling
      <3>2. QED
        BY <1>3, <2>1, <3>1, SourceBest
    <2>3. \E part \in Renditions(src) : part.purpose = "download" /\ part.remux = plan[1].remux
      <3>1. Part("download", 1, 0, plan[1].remux) \in Renditions(src)
        BY <2>1 DEF Renditions
      <3>2. QED
        BY <3>1 DEF Part
    <2> HIDE DEF plan
    <2>4. \A i, j \in DOMAIN plan :
            /\ i < j => plan[j].kbps < plan[i].kbps
            /\ plan[i].codec = plan[j].codec /\ plan[i].hdr = plan[j].hdr
            /\ plan[i].remux => i = 1 /\ plan[i].codec = src.codec
            /\ plan[i].height < src.height \/ plan[i].height = 0
            /\ plan[i].fps < src.fps \/ plan[i].fps = 0
      BY <2>1
    <2>5. \A i \in DOMAIN plan \cap {1} :
            /\ plan[i].kbps \in 1 .. topTierCeiling
            /\ plan[i].height = 0 /\ plan[i].fps = 0
            /\ \E part \in Renditions(src) :
                 part.purpose = "download" /\ part.remux = plan[i].remux
            /\ plan[Len(plan)].kbps <= IF src.kbps > 420 THEN 420
                                      ELSE (src.kbps * 11) \div 10
      BY <2>1, <2>2, <2>3
    <2>6. (plan = <<>>) = (src.kbps = 0)
      BY <1>3, <2>1
    <2>7. QED
      BY <1>1, <2>4, <2>5, <2>6 DEF Sound, plan
  <1>4. QED
    BY <1>2, <1>3

LEMMA PicturesAreSources ==
  ASSUME NEW src \in Pictures
  PROVE  IsSource(src)
  <1>1. src.kbps \in Rates /\ src.height \in Heights /\ src.fps \in FrameRates
    BY DEF Pictures
  <1>2. src.audio = {}
    BY DEF Pictures
  <1>3. /\ \A n \in Rates : n \in Nat
        /\ \A n \in Heights : n \in Nat
        /\ \A n \in FrameRates : n \in Nat
    BY DEF Rates, Heights, FrameRates
  <1>4. src.kbps \in Nat /\ src.height \in Nat /\ src.fps \in Nat
    BY <1>1, <1>3, Zenon
  <1>5. \A a \in src.audio : a.channels \in Nat
    BY <1>2
  <1>6. QED
    BY <1>4, <1>5 DEF IsSource

LEMMA SoundsAreSources ==
  ASSUME NEW src \in Sounds
  PROVE  IsSource(src)
  <1>1. src.kbps = 8000 /\ src.height = 2160 /\ src.fps = 24
    BY DEF Sounds
  <1>2. src.audio \in Layouts
    BY DEF Sounds
  <1>3. \A A \in Layouts : \A a \in A : a.channels \in Nat
    BY DEF Layouts, Stream
  <1>4. \A a \in src.audio : a.channels \in Nat
    BY <1>2, <1>3, Zenon
  <1>5. QED
    BY <1>1, <1>4 DEF IsSource

LEMMA LadderFollows ==
  ASSUME IInv, VideoPipelineAssumption
  PROVE  LadderIsSound
  <1>1. ASSUME NEW v \in DOMAIN video, video[v].probed # NoContent
        PROVE  Sound(Probe[video[v].probed])
    <2>1. video[v].probed \in Contents
      BY <1>1 DEF IInv, TypeInv, TablesTyped
    <2>2. IsSource(Probe[video[v].probed])
      BY <2>1 DEF VideoPipelineAssumption
    <2>3. QED
      BY <2>2, LaddersAreSound
  <1>2. SourcesAreSound
    <2>1. \A src \in Sources : IsSource(src)
      BY PicturesAreSources, SoundsAreSources DEF Sources
    <2>2. QED
      BY <2>1, LaddersAreSound DEF SourcesAreSound
  <1>3. QED
    BY <1>1, <1>2 DEF LadderIsSound

\* Every video has the ladder of its source, and it is one a player can use
\* (PlanVideoRenditions, PlanAudioRenditions).
THEOREM LadderHolds == ASSUME Orderly PROVE Spec => []LadderIsSound
  <1>1. IInv => LadderIsSound
    BY LadderFollows, VideoPipelineAssumption
  <1>2. QED
    BY <1>1, Invariant, PTL
=============================================================================
