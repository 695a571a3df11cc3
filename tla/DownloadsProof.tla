---------------------------- MODULE DownloadsProof ----------------------------
(***************************************************************************)
(* Proofs about Downloads, for any torrents, files and timeouts.           *)
(*                                                                         *)
(* An answer of the daemon may be old when it is written, and two answers  *)
(* may be written in the wrong order.  It does no harm because the daemon  *)
(* never takes a complete file back, so that every answer, however old,    *)
(* says less than the daemon knows, and because the State of a file is     *)
(* read and set in the transaction that queues its ingest.                 *)
(***************************************************************************)
EXTENDS DownloadsProps, TLAPS

USE DownloadsAssumption

RowType == [there : {"no", "live", "trashed", "cascaded", "purged"},
            state : States, auto : BOOLEAN, idle : Ticks]

(* The parts of TypeOK.                                                    *)
RowsTyped ==
    /\ row \in [Downloads -> RowType]
    /\ video \in [Videos -> {"none", "pending", "importing"}]
    /\ \A v \in Videos : video[v] # "none" => Exists(Source[v])
    /\ ingests \in [Videos -> Nat]
    /\ adds \subseteq Downloads
MemoryTyped ==
    /\ adder \in [Downloads -> [pc : {"idle", "get", "update", "return"}, answer : Answers]]
    /\ poller \in [pc : {"sleep", "ask", "apply"}, asked : SUBSET Downloads,
                   answer : Answers]
    /\ torrent \in Partial(SUBSET Videos)
OutsideTyped == daemon \in Partial(SUBSET Videos) /\ broken \subseteq Downloads
BoundsTyped ==
    /\ touched \in [Downloads -> Ticks]
    /\ clicks \in 0 .. MaxClicks
    /\ faults \in 0 .. MaxFaults

(* What is known of torrents is true of them, if no longer all of it.      *)
Knows(T) == \A d \in DOMAIN T : d \in DOMAIN daemon /\ T[d] \subseteq daemon[d]
Heard(A) == \A d \in DOMAIN A : d \in DOMAIN daemon /\ A[d].done \subseteq daemon[d]
Truthful ==
    /\ Knows(torrent)
    /\ Heard(poller.answer)
    /\ \A d \in Downloads : Heard(adder[d].answer) /\ DOMAIN adder[d].answer \subseteq {d}

(* Nothing has been done with a download that was never added.             *)
Fresh ==
    /\ \A d \in Downloads : row[d].there = "no" => row[d].state = "queued"
    /\ \A v \in Videos : row[Source[v]].there = "no" => ingests[v] = 0

RowsInv == Fresh /\ IngestedOnceComplete /\ StateIsTrue

(* The inductive invariant.                                                *)
Typed == RowsTyped /\ MemoryTyped /\ OutsideTyped /\ BoundsTyped
IInv == Typed /\ Truthful /\ RowsInv

-----------------------------------------------------------------------------
(* Functions on some of the downloads.                                     *)

LEMMA PartialMember ==
  ASSUME NEW V, NEW f
  PROVE  f \in Partial(V) <=> \E D \in SUBSET Downloads : f \in [D -> V]
  BY DEF Partial

LEMMA PartialIntro ==
  ASSUME NEW V, NEW D \in SUBSET Downloads, NEW f, f \in [D -> V]
  PROVE  f \in Partial(V)
  BY PartialMember

LEMMA PartialElim ==
  ASSUME NEW V, NEW f \in Partial(V)
  PROVE  /\ DOMAIN f \in SUBSET Downloads
         /\ f \in [DOMAIN f -> V]
         /\ \A d \in DOMAIN f : f[d] \in V
  BY PartialMember

LEMMA NothingIsPartial ==
  ASSUME NEW V
  PROVE  Nothing \in Partial(V) /\ DOMAIN Nothing = {}
  <1>1. Nothing \in [{} -> V]
    BY DEF Nothing
  <1>2. QED
    BY <1>1, PartialIntro

(* The daemon says what it has.                                            *)
LEMMA AnswerIsTrue ==
  ASSUME OutsideTyped, NEW D \in SUBSET Downloads
  PROVE  Answer(D) \in Answers /\ Heard(Answer(D)) /\ DOMAIN Answer(D) \subseteq D
  <1>1. \A d \in DOMAIN daemon : daemon[d] \in SUBSET Videos
    BY PartialElim DEF OutsideTyped
  <1>2. Answer(D) \in [D \cap DOMAIN daemon -> [done : SUBSET Videos, error : BOOLEAN]]
    BY <1>1 DEF Answer
  <1>3. Answer(D) \in Answers
    BY <1>2, PartialIntro DEF Answers
  <1>4. QED
    BY <1>3 DEF Answer, Heard

(* The torrents in an answer.                                              *)
LEMMA ToldIsTrue ==
  ASSUME NEW A \in Answers, Heard(A)
  PROVE  told(A) \in Partial(SUBSET Videos) /\ Knows(told(A)) /\ DOMAIN told(A) \subseteq DOMAIN A
  <1>1. /\ DOMAIN A \in SUBSET Downloads
        /\ \A d \in DOMAIN A : A[d] \in [done : SUBSET Videos, error : BOOLEAN]
    BY PartialElim DEF Answers
  <1> DEFINE D == {e \in DOMAIN A : ~A[e].error}
  <1>2. D \in SUBSET Downloads /\ told(A) \in [D -> SUBSET Videos]
    BY <1>1 DEF told
  <1>3. told(A) \in Partial(SUBSET Videos)
    BY <1>2, PartialIntro
  <1>4. QED
    BY <1>3 DEF told, Knows, Heard

(* The memory of torrents.                                                 *)
LEMMA RememberIsTrue ==
  ASSUME torrent \in Partial(SUBSET Videos), Knows(torrent),
         NEW A \in Answers, Heard(A), remember(A), UNCHANGED daemon
  PROVE  torrent' \in Partial(SUBSET Videos) /\ Knows(torrent)'
  <1>1. told(A) \in Partial(SUBSET Videos) /\ Knows(told(A))
    BY ToldIsTrue
  <1>2. /\ DOMAIN told(A) \in SUBSET Downloads
        /\ \A d \in DOMAIN told(A) : told(A)[d] \in SUBSET Videos
    BY <1>1, PartialElim
  <1>3. /\ DOMAIN torrent \in SUBSET Downloads
        /\ \A d \in DOMAIN torrent : torrent[d] \in SUBSET Videos
    BY PartialElim
  <1> DEFINE D == DOMAIN torrent \cup DOMAIN told(A)
  <1>4. D \in SUBSET Downloads /\ torrent' \in [D -> SUBSET Videos]
    BY <1>2, <1>3 DEF remember
  <1>5. torrent' \in Partial(SUBSET Videos)
    BY <1>4, PartialIntro
  <1>6. QED
    BY <1>1, <1>5 DEF remember, Knows

-----------------------------------------------------------------------------
(* The rows.                                                               *)

(* A transaction of processDownload, with rows that differ from those of   *)
(* the table by an error at most.                                          *)
LEMMA ProcessKeepsRows ==
  ASSUME RowsTyped, RowsInv, OutsideTyped,
         NEW rs \in [Downloads -> RowType],
         NEW T \in Partial(SUBSET Videos), Knows(T),
         \A d \in DOMAIN T : Exists(d),
         \A d \in Downloads :
            /\ rs[d].there = row[d].there
            /\ rs[d].state = row[d].state \/ (rs[d].state = "error" /\ Exists(d)),
         processDownloads(rs, T), UNCHANGED <<adds, daemon>>
  PROVE  RowsTyped' /\ RowsInv'
  <1> DEFINE I == importable(rs, T)
  <1>1. /\ DOMAIN T \in SUBSET Downloads
        /\ \A d \in DOMAIN T : T[d] \in SUBSET Videos
    BY PartialElim
  <1>2. I \in SUBSET Videos
    BY DEF importable
  <1>3. \A v \in I : /\ Source[v] \in DOMAIN T /\ video[v] = "pending"
                     /\ Source[v] \in DOMAIN daemon /\ v \in daemon[Source[v]]
    BY DEF importable, Knows
  <1>4. /\ video' = [v \in Videos |-> IF v \in I THEN "importing" ELSE video[v]]
        /\ ingests' = [v \in Videos |-> IF v \in I THEN ingests[v] + 1 ELSE ingests[v]]
        /\ row' = [d \in Downloads |->
                     IF d \in DOMAIN T
                       THEN [rs[d] EXCEPT !.state = deriveState(d, T[d], I), !.idle = 0]
                       ELSE rs[d]]
    BY DEF processDownloads
  <1> HIDE DEF I
  <1>5. \A d \in Downloads : deriveState(d, T[d], I) \in States
    BY DEF deriveState, States
  <1>6. \A d \in Downloads :
          /\ row'[d] \in RowType
          /\ row'[d].there = row[d].there
          /\ row'[d].state = IF d \in DOMAIN T THEN deriveState(d, T[d], I)
                                               ELSE rs[d].state
    <2> TAKE d \in Downloads
    <2>1. CASE d \in DOMAIN T
      <3>1. row'[d] = [rs[d] EXCEPT !.state = deriveState(d, T[d], I), !.idle = 0]
        BY <1>4, <2>1
      <3>2. rs[d] \in RowType /\ 0 \in Ticks
        BY DEF Ticks
      <3>3. QED
        BY <3>1, <3>2, <1>5, <2>1 DEF RowType
    <2>2. CASE d \notin DOMAIN T
      BY <1>4, <2>2
    <2>3. QED
      BY <2>1, <2>2
  <1>7. \A d \in Downloads : Exists(d)' <=> Exists(d)
    BY <1>6 DEF Exists
  <1>8. \A v \in Videos : /\ video'[v] = IF v \in I THEN "importing" ELSE video[v]
                          /\ ingests'[v] = IF v \in I THEN ingests[v] + 1 ELSE ingests[v]
                          /\ Source[v] \in Downloads
    BY <1>4
  <1>9. RowsTyped'
    <2>1. row' \in [Downloads -> RowType]
      BY <1>4, <1>6
    <2>2. video' \in [Videos -> {"none", "pending", "importing"}]
      BY <1>4 DEF RowsTyped
    <2>3. ingests' \in [Videos -> Nat]
      <3>1. \A v \in Videos : ingests[v] \in Nat /\ ingests[v] + 1 \in Nat
        BY DEF RowsTyped
      <3>2. QED
        BY <1>4, <3>1
    <2>4. \A v \in Videos : video'[v] # "none" => Exists(Source[v])'
      BY <1>3, <1>7, <1>8 DEF RowsTyped
    <2>5. QED
      BY <2>1, <2>2, <2>3, <2>4 DEF RowsTyped
  <1>10. Fresh'
    <2>1. ASSUME NEW d \in Downloads, row'[d].there = "no"
          PROVE  row'[d].state = "queued"
      BY <1>6, <2>1 DEF RowsInv, Fresh, Exists
    <2>2. ASSUME NEW v \in Videos, row'[Source[v]].there = "no"
          PROVE  ingests'[v] = 0
      BY <1>3, <1>6, <1>8, <2>2 DEF RowsInv, Fresh, Exists
    <2>3. QED
      BY <2>1, <2>2 DEF Fresh
  <1>11. IngestedOnceComplete'
    <2> SUFFICES ASSUME NEW v \in Videos
                 PROVE  /\ ingests'[v] <= 1
                        /\ video'[v] = "pending" => ingests'[v] = 0
                        /\ video'[v] = "importing" => ingests'[v] = 1
                        /\ ingests'[v] > 0 => /\ Source[v] \in DOMAIN daemon
                                              /\ v \in daemon[Source[v]]
      BY DEF IngestedOnceComplete
    <2>1. CASE v \in I
      BY <1>3, <1>8, <2>1 DEF RowsInv, IngestedOnceComplete
    <2>2. CASE v \notin I
      BY <1>8, <2>2 DEF RowsInv, IngestedOnceComplete
    <2>3. QED
      BY <2>1, <2>2
  <1>12. StateIsTrue'
    <2> SUFFICES ASSUME NEW d \in Downloads, Exists(d)'
                 PROVE  /\ row'[d].state = "imported" => pendingOf(d)' = {}
                        /\ row'[d].state = "downloaded" =>
                             /\ pendingOf(d)' # {}
                             /\ d \in DOMAIN daemon /\ pendingOf(d)' \subseteq daemon[d]
      BY DEF StateIsTrue
    <2>1. pendingOf(d)' = pendingOf(d) \ I
      BY <1>8 DEF pendingOf, FilesOf
    <2>2. CASE d \in DOMAIN T
      BY <1>6, <2>1, <2>2 DEF deriveState, Knows
    <2>3. CASE d \notin DOMAIN T
      <3>1. pendingOf(d)' = pendingOf(d)
        BY <1>3, <2>1, <2>3 DEF pendingOf, FilesOf
      <3>2. row'[d].state = row[d].state \/ row'[d].state = "error"
        BY <1>6, <2>3
      <3>3. QED
        BY <3>1, <3>2, <1>7 DEF RowsInv, StateIsTrue
    <2>4. QED
      BY <2>2, <2>3
  <1>13. QED
    BY <1>9, <1>10, <1>11, <1>12 DEF RowsInv

(* A row goes to the trash or comes back, or its timer begins anew.        *)
LEMMA RowAloneKeepsRows ==
  ASSUME RowsTyped, RowsInv, row' \in [Downloads -> RowType],
         \A d \in Downloads : /\ row'[d].state = row[d].state
                              /\ Exists(d)' <=> Exists(d)
                              /\ row'[d].there = "no" => row[d].there = "no",
         UNCHANGED <<video, ingests, daemon>>, adds' \subseteq Downloads
  PROVE  RowsTyped' /\ RowsInv'
  <1>1. \A d \in Downloads : pendingOf(d)' = pendingOf(d)
    BY DEF pendingOf, FilesOf
  <1>2. \A v \in Videos : Source[v] \in Downloads
    OBVIOUS
  <1>3. RowsTyped'
    BY <1>2 DEF RowsTyped
  <1>4. Fresh' /\ IngestedOnceComplete'
    BY <1>2 DEF RowsInv, Fresh, IngestedOnceComplete
  <1>5. StateIsTrue'
    BY <1>1 DEF RowsInv, StateIsTrue
  <1>6. QED
    BY <1>3, <1>4, <1>5 DEF RowsInv

-----------------------------------------------------------------------------
(* The add task and the poller.                                            *)

(* The daemon knows a torrent, or a file more, and forgets none.           *)
LEMMA DaemonGrows ==
  ASSUME IInv, daemon' \in Partial(SUBSET Videos),
         \A d \in DOMAIN daemon : d \in DOMAIN daemon' /\ daemon[d] \subseteq daemon'[d],
         UNCHANGED <<row, video, ingests, adds, poller, torrent, broken, touched, clicks, faults>>,
         adder' \in [Downloads -> [pc : {"idle", "get", "update", "return"},
                                   answer : Answers]],
         \A d \in Downloads : adder'[d].answer = adder[d].answer
  PROVE  IInv'
  <1>1. Typed'
    BY DEF IInv, Typed, RowsTyped, MemoryTyped, OutsideTyped, BoundsTyped, Exists
  <1>2. Truthful'
    BY DEF IInv, Truthful, Knows, Heard
  <1>3. RowsInv'
    BY DEF IInv, RowsInv, Fresh, IngestedOnceComplete, StateIsTrue, Exists,
           pendingOf, FilesOf
  <1>4. QED
    BY <1>1, <1>2, <1>3 DEF IInv

(* Something is remembered, or forgotten: the rest stays.                  *)
LEMMA MemoryKeepsIInv ==
  ASSUME IInv, MemoryTyped', Truthful', adds' \subseteq Downloads,
         faults' \in 0 .. MaxFaults,
         UNCHANGED <<row, video, ingests, outside, touched, clicks>>
  PROVE  IInv'
  <1>1. RowsTyped' /\ OutsideTyped' /\ BoundsTyped'
    BY DEF IInv, Typed, RowsTyped, OutsideTyped, BoundsTyped, Exists, outside
  <1>2. RowsInv'
    BY DEF IInv, RowsInv, Fresh, IngestedOnceComplete, StateIsTrue, Exists,
           pendingOf, FilesOf, outside
  <1>3. QED
    BY <1>1, <1>2 DEF IInv, Typed

(* An execution's steps.  What it was told is about its own download.      *)
LEMMA AddTorrentKeepsIInv ==
  ASSUME IInv, NEW d \in Downloads, AddTorrent(d)
  PROVE  IInv'
  <1> USE DEF AddTorrent, rows, bounds
  <1>1. DOMAIN daemon \in SUBSET Downloads /\ \A e \in DOMAIN daemon : daemon[e] \in SUBSET Videos
    BY PartialElim DEF IInv, Typed, OutsideTyped
  <1> DEFINE D == DOMAIN daemon \cup {d}
  <1>2. D \in SUBSET Downloads /\ daemon' \in [D -> SUBSET Videos]
    BY <1>1
  <1>3. daemon' \in Partial(SUBSET Videos)
    BY <1>2, PartialIntro
  <1>4. \A e \in DOMAIN daemon : e \in DOMAIN daemon' /\ daemon[e] \subseteq daemon'[e]
    OBVIOUS
  <1>5. /\ adder' \in [Downloads -> [pc : {"idle", "get", "update", "return"},
                                     answer : Answers]]
        /\ \A e \in Downloads : adder'[e].answer = adder[e].answer
    BY DEF IInv, Typed, MemoryTyped
  <1>6. QED
    BY <1>3, <1>4, <1>5, DaemonGrows

LEMMA FileCompletesKeepsIInv ==
  ASSUME IInv, NEW d \in Downloads, FileCompletes(d)
  PROVE  IInv'
  <1> USE DEF FileCompletes, rows, memory, bounds
  <1>1. DOMAIN daemon \in SUBSET Downloads /\ \A e \in DOMAIN daemon : daemon[e] \in SUBSET Videos
    BY PartialElim DEF IInv, Typed, OutsideTyped
  <1>2. PICK v \in FilesOf(d) : daemon' = [daemon EXCEPT ![d] = @ \cup {v}]
    OBVIOUS
  <1>3. v \in Videos
    BY DEF FilesOf
  <1>4. daemon \in [DOMAIN daemon -> SUBSET Videos]
    BY PartialElim DEF IInv, Typed, OutsideTyped
  <1>5. daemon' \in [DOMAIN daemon -> SUBSET Videos]
    BY <1>2, <1>3, <1>4
  <1>6. daemon' \in Partial(SUBSET Videos)
    BY <1>1, <1>5, PartialIntro
  <1>7. \A e \in DOMAIN daemon : e \in DOMAIN daemon' /\ daemon[e] \subseteq daemon'[e]
    BY <1>2, <1>4
  <1>8. QED
    BY <1>6, <1>7, DaemonGrows DEF IInv, Typed, MemoryTyped

(* An error of the daemon is nothing it knows.                             *)
LEMMA DaemonErrsKeepsIInv ==
  ASSUME IInv, NEW d \in Downloads, DaemonReports(d) \/ DaemonRecovers(d)
  PROVE  IInv'
  <1> USE DEF DaemonReports, DaemonRecovers, Fault, rows, memory, bounds
  <1>1. Typed'
    <2>1. broken' \subseteq Downloads
      BY DEF IInv, Typed, OutsideTyped
    <2>2. faults' \in 0 .. MaxFaults
      BY DEF IInv, Typed, BoundsTyped
    <2>3. UNCHANGED <<row, video, ingests, adds, adder, poller, torrent, daemon, touched, clicks>>
      OBVIOUS
    <2>4. QED
      BY <2>1, <2>2, <2>3
         DEF IInv, Typed, RowsTyped, MemoryTyped, OutsideTyped, BoundsTyped, Exists
  <1>2. Truthful' /\ RowsInv'
    BY DEF IInv, Truthful, Knows, Heard, RowsInv, Fresh, IngestedOnceComplete,
           StateIsTrue, Exists, pendingOf, FilesOf
  <1>3. QED
    BY <1>1, <1>2 DEF IInv

(* What is told is true, and what is forgotten does no harm.               *)
LEMMA AdderKeepsIInv ==
  ASSUME IInv, NEW d \in Downloads, AddAsks(d) \/ AddReturns(d) \/ KillAdd(d)
  PROVE  IInv'
  <1> USE DEF AddAsks, AddReturns, KillAdd, Fault, rows, bounds
  <1>1. /\ Answer({d}) \in Answers /\ Heard(Answer({d})) /\ DOMAIN Answer({d}) \subseteq {d}
        /\ Nothing \in Answers /\ DOMAIN Nothing = {}
    BY AnswerIsTrue, NothingIsPartial DEF IInv, Typed, Answers
  <1>2. \E a \in {Answer({d}), Nothing}, pc \in {"idle", "update"} :
           adder' = [adder EXCEPT ![d] = [pc |-> pc, answer |-> a]]
    BY DEF Idle
  <1>3. MemoryTyped'
    BY <1>1, <1>2 DEF IInv, Typed, MemoryTyped
  <1>4. Truthful'
    <2>1. UNCHANGED <<torrent, poller, daemon>>
      BY DEF outside
    <2>2. ASSUME NEW e \in Downloads
          PROVE  Heard(adder'[e].answer) /\ DOMAIN adder'[e].answer \subseteq {e}
      <3>1. CASE e # d
        BY <1>2, <3>1 DEF IInv, Typed, MemoryTyped, Truthful
      <3>2. CASE e = d
        <4>1. adder'[e].answer \in {Answer({d}), Nothing}
          BY <1>2, <3>2 DEF IInv, Typed, MemoryTyped
        <4>2. QED
          BY <1>1, <3>2, <4>1 DEF Heard
      <3>3. QED
        BY <3>1, <3>2
    <2>3. QED
      BY <2>1, <2>2 DEF IInv, Truthful, Knows, Heard
  <1>5. adds' \subseteq Downloads /\ faults' \in 0 .. MaxFaults
    BY DEF IInv, Typed, RowsTyped, BoundsTyped
  <1>6. QED
    BY <1>3, <1>4, <1>5, MemoryKeepsIInv

LEMMA PollerKeepsIInv ==
  ASSUME IInv, PollLists \/ PollAsks \/ PollFails
  PROVE  IInv'
  <1> USE DEF PollLists, PollAsks, PollFails, Fault, rows, bounds
  <1>1. /\ Answer(poller.asked) \in Answers /\ Heard(Answer(poller.asked))
        /\ Nothing \in Answers /\ DOMAIN Nothing = {}
        /\ active \in SUBSET Downloads
    BY AnswerIsTrue, NothingIsPartial DEF IInv, Typed, MemoryTyped, Answers, active
  <1>2. \E a \in {Answer(poller.asked), Nothing, poller.answer},
           D \in {{}, active}, pc \in {"sleep", "ask", "apply"} :
           poller' = [pc |-> pc, asked |-> D, answer |-> a]
    BY DEF Sleeping, IInv, Typed, MemoryTyped
  <1>3. MemoryTyped'
    BY <1>1, <1>2 DEF IInv, Typed, MemoryTyped
  <1>4. Truthful'
    BY <1>1, <1>2 DEF IInv, Truthful, Knows, Heard, outside
  <1>5. adds' \subseteq Downloads /\ faults' \in 0 .. MaxFaults
    BY DEF IInv, Typed, RowsTyped, BoundsTyped
  <1>6. QED
    BY <1>3, <1>4, <1>5, MemoryKeepsIInv

LEMMA CrashKeepsIInv ==
  ASSUME IInv, Crash
  PROVE  IInv'
  <1> USE DEF Crash, Fault, rows
  <1>1. /\ Nothing \in Answers /\ Nothing \in Partial(SUBSET Videos)
        /\ DOMAIN Nothing = {}
    BY NothingIsPartial DEF Answers
  <1>2. MemoryTyped'
    BY <1>1 DEF MemoryTyped, Idle, Sleeping
  <1>3. Truthful'
    BY <1>1 DEF Truthful, Knows, Heard, Idle, Sleeping
  <1>4. adds' \subseteq Downloads /\ faults' \in 0 .. MaxFaults
    BY DEF IInv, Typed, RowsTyped, BoundsTyped
  <1>5. QED
    BY <1>2, <1>3, <1>4, MemoryKeepsIInv

-----------------------------------------------------------------------------
(* The transactions that write what was told.                              *)

(* With rows that exist, for all that was told.                            *)
LEMMA UpdateKeepsRows ==
  ASSUME IInv, NEW A \in Answers, Heard(A), \A d \in DOMAIN A : Exists(d),
         updateDownloads(A), UNCHANGED <<adds, daemon>>
  PROVE  /\ RowsTyped' /\ RowsInv'
         /\ torrent' \in Partial(SUBSET Videos) /\ Knows(torrent)'
  <1>1. /\ told(A) \in Partial(SUBSET Videos) /\ Knows(told(A))
        /\ DOMAIN told(A) \subseteq DOMAIN A
    BY ToldIsTrue
  <1>2. ASSUME NEW d \in Downloads
        PROVE  /\ withErrors(A)[d] \in RowType
               /\ withErrors(A)[d].there = row[d].there
               /\ \/ withErrors(A)[d].state = row[d].state
                  \/ withErrors(A)[d].state = "error" /\ Exists(d)
    <2>1. row[d] \in RowType /\ "error" \in States /\ 0 \in Ticks
      BY DEF IInv, Typed, RowsTyped, States, Ticks
    <2>2. CASE d \in DOMAIN A \ DOMAIN told(A)
      <3>1. withErrors(A)[d] = [row[d] EXCEPT !.state = "error", !.idle = 0]
        BY <2>2 DEF withErrors
      <3>2. QED
        BY <2>1, <2>2, <3>1 DEF RowType
    <2>3. CASE d \notin DOMAIN A \ DOMAIN told(A)
      BY <2>1, <2>3 DEF withErrors
    <2>4. QED
      BY <2>2, <2>3
  <1>3. withErrors(A) \in [Downloads -> RowType]
    <2>1. withErrors(A) = [d \in Downloads |-> withErrors(A)[d]]
      BY DEF withErrors
    <2>2. QED
      BY <1>2, <2>1
  <1>4. RowsTyped' /\ RowsInv'
    BY <1>1, <1>2, <1>3, ProcessKeepsRows DEF IInv, Typed, updateDownloads
  <1>5. QED
    BY <1>4, RememberIsTrue DEF IInv, Typed, MemoryTyped, Truthful, updateDownloads

LEMMA AddCommitKeepsIInv ==
  ASSUME IInv, NEW d \in Downloads, AddCommit(d)
  PROVE  IInv'
  <1> USE DEF AddCommit
  <1> DEFINE A == adder[d].answer
  <1>1. A \in Answers /\ Heard(A) /\ DOMAIN A \subseteq {d}
    BY DEF IInv, Typed, MemoryTyped, Truthful
  <1>2. UNCHANGED <<adds, poller, daemon, broken, touched, clicks, faults>>
    BY DEF outside, bounds
  <1>3. /\ RowsTyped' /\ RowsInv'
        /\ torrent' \in Partial(SUBSET Videos) /\ Knows(torrent)'
    <2>1. CASE Exists(d)
      BY <1>1, <1>2, <2>1, UpdateKeepsRows
    <2>2. CASE ~Exists(d)
      <3>1. UNCHANGED <<row, video, ingests>> /\ remember(A)
        BY <2>2
      <3>2. RowsTyped' /\ RowsInv'
        BY <1>2, <3>1, RowAloneKeepsRows DEF IInv, Typed, RowsTyped, Exists
      <3>3. QED
        BY <1>1, <1>2, <3>1, <3>2, RememberIsTrue DEF IInv, Typed, MemoryTyped, Truthful
    <2>3. QED
      BY <2>1, <2>2
  <1>4. Nothing \in Answers /\ DOMAIN Nothing = {}
    BY NothingIsPartial DEF Answers
  <1>5. \E pc \in {"idle", "return"} :
          adder' = [adder EXCEPT ![d] = [pc |-> pc, answer |-> Nothing]]
    BY DEF Idle
  <1>6. adder' \in [Downloads -> [pc : {"idle", "get", "update", "return"},
                                  answer : Answers]]
    BY <1>4, <1>5 DEF IInv, Typed, MemoryTyped
  <1>7. ASSUME NEW e \in Downloads
        PROVE  Heard(adder'[e].answer) /\ DOMAIN adder'[e].answer \subseteq {e}
    <2>1. CASE e # d
      BY <1>5, <2>1 DEF IInv, Typed, MemoryTyped, Truthful
    <2>2. CASE e = d
      <3>1. adder'[e].answer = Nothing
        BY <1>5, <2>2 DEF IInv, Typed, MemoryTyped
      <3>2. QED
        BY <1>4, <3>1 DEF Heard
    <2>3. QED
      BY <2>1, <2>2
  <1>8. Typed'
    BY <1>2, <1>3, <1>6 DEF IInv, Typed, MemoryTyped, OutsideTyped, BoundsTyped
  <1>9. Truthful'
    BY <1>2, <1>3, <1>7 DEF IInv, Truthful, Heard
  <1>10. QED
    BY <1>3, <1>8, <1>9 DEF IInv

(* A transaction that is undone leaves the rows, and some of the memory.   *)
LEMMA PollAppliesKeepsIInv ==
  ASSUME IInv, PollApplies
  PROVE  IInv'
  <1> USE DEF PollApplies
  <1> DEFINE A == poller.answer
             found == {d \in DOMAIN A : Exists(d)}
  <1>1. A \in Answers /\ Heard(A)
    BY DEF IInv, Typed, MemoryTyped, Truthful
  <1>2. UNCHANGED <<adds, adder, daemon, broken, touched, clicks, faults>>
    BY DEF outside, bounds
  <1>3. /\ RowsTyped' /\ RowsInv'
        /\ torrent' \in Partial(SUBSET Videos) /\ Knows(torrent)'
    <2>1. CASE found = DOMAIN A
      <3>1. \A d \in DOMAIN A : Exists(d)
        BY <2>1
      <3>2. updateDownloads(A)
        BY <2>1
      <3>3. QED
        BY <1>1, <1>2, <3>1, <3>2, UpdateKeepsRows
    <2>2. CASE found # DOMAIN A
      <3>1. PICK D \in SUBSET found : remember(Restrict(A, D))
        BY <2>2
      <3>2. UNCHANGED <<row, video, ingests>>
        BY <2>2
      <3>3. RowsTyped' /\ RowsInv'
        BY <1>2, <3>2, RowAloneKeepsRows DEF IInv, Typed, RowsTyped, Exists
      <3>4. /\ DOMAIN A \in SUBSET Downloads
            /\ \A d \in DOMAIN A : A[d] \in [done : SUBSET Videos, error : BOOLEAN]
        BY <1>1, PartialElim DEF Answers
      <3>5. D \in SUBSET Downloads /\ D \subseteq DOMAIN A
        BY <3>4
      <3>6. Restrict(A, D) \in [D -> [done : SUBSET Videos, error : BOOLEAN]]
        BY <3>4, <3>5 DEF Restrict
      <3>7. Restrict(A, D) \in Answers
        BY <3>5, <3>6, PartialIntro DEF Answers
      <3>8. Heard(Restrict(A, D))
        BY <1>1, <3>5 DEF Heard, Restrict
      <3>9. QED
        BY <1>2, <3>1, <3>3, <3>7, <3>8, RememberIsTrue
           DEF IInv, Typed, MemoryTyped, Truthful
    <2>3. QED
      BY <2>1, <2>2
  <1>4. poller' = Sleeping /\ Nothing \in Answers /\ DOMAIN Nothing = {}
    BY NothingIsPartial DEF Answers
  <1>5. Typed'
    BY <1>2, <1>3, <1>4
       DEF IInv, Typed, MemoryTyped, OutsideTyped, BoundsTyped, Sleeping
  <1>6. Truthful'
    BY <1>2, <1>3, <1>4 DEF IInv, Truthful, Heard, Sleeping
  <1>7. QED
    BY <1>3, <1>5, <1>6 DEF IInv

-----------------------------------------------------------------------------
(* Editors, the auto-trash loop and time.                                  *)

(* They write rows only, and what else they touch is a bound.              *)
LEMMA RowsOnlyKeepsIInv ==
  ASSUME IInv, RowsTyped', RowsInv', BoundsTyped', UNCHANGED <<memory, outside>>
  PROVE  IInv'
  BY DEF IInv, Typed, MemoryTyped, OutsideTyped, Truthful, Knows, Heard,
         memory, outside

LEMMA BoundsStay ==
  ASSUME IInv, NEW d \in Downloads,
         \/ Click /\ (Touch(d) \/ UNCHANGED <<touched, faults>>)
         \/ Touch(d) /\ UNCHANGED clicks
         \/ UNCHANGED bounds
  PROVE  BoundsTyped'
  BY DEF IInv, Typed, BoundsTyped, Click, Touch, Ticks, bounds

(* The requests that leave the State of rows and files alone.              *)
LEMMA CurationKeepsIInv ==
  ASSUME IInv, NEW d \in Downloads,
         \/ TorrentAddedAgain(d) \/ Curate(d) \/ Restore(d) \/ RestoreWork(d)
         \/ \E there \in {"trashed", "cascaded"} : Trash(d, there)
         \/ AutoTrash(d)
  PROVE  IInv'
  <1>1. row[d] \in RowType /\ 0 \in Ticks
    BY DEF IInv, Typed, RowsTyped, Ticks
  <1>2. /\ row[d].there \in {"live", "trashed", "cascaded"}
        /\ \E there \in {"live", "trashed", "cascaded"}, idle \in {row[d].idle, 0} :
             row' = [row EXCEPT ![d].there = there, ![d].idle = idle]
    <2>1. CASE TorrentAddedAgain(d) \/ Restore(d)
      BY <2>1 DEF TorrentAddedAgain, Restore, restored
    <2>2. CASE Curate(d)
      <3>1. row' = [row EXCEPT ![d].there = "live", ![d].idle = 0]
        BY <1>1, <2>2 DEF Curate, RowType, IInv, Typed, RowsTyped
      <3>2. QED
        BY <2>2, <3>1 DEF Curate
    <2>3. ASSUME NEW there \in {"live", "trashed", "cascaded"},
                 row' = [row EXCEPT ![d].there = there]
          PROVE  row' = [row EXCEPT ![d].there = there, ![d].idle = row[d].idle]
      BY <1>1, <2>3 DEF RowType, IInv, Typed, RowsTyped
    <2>4. CASE RestoreWork(d)
      BY <2>3, <2>4 DEF RestoreWork
    <2>5. ASSUME NEW there \in {"trashed", "cascaded"}, Trash(d, there)
          PROVE  <1>2
      BY <2>3, <2>5 DEF Trash
    <2>6. CASE AutoTrash(d)
      BY <2>3, <2>6 DEF AutoTrash
    <2>7. QED
      BY <2>1, <2>2, <2>4, <2>5, <2>6
  <1>3. UNCHANGED <<video, ingests, adds, memory, outside>>
    BY DEF TorrentAddedAgain, Curate, Restore, RestoreWork, Trash, AutoTrash
  <1>4. PICK there \in {"live", "trashed", "cascaded"}, idle \in Ticks :
          row' = [row EXCEPT ![d].there = there, ![d].idle = idle]
    BY <1>1, <1>2 DEF RowType
  <1>5. row' \in [Downloads -> RowType]
    BY <1>1, <1>4 DEF RowType, IInv, Typed, RowsTyped
  <1>6. ASSUME NEW e \in Downloads
        PROVE  /\ row'[e].state = row[e].state
               /\ Exists(e)' <=> Exists(e)
               /\ row'[e].there = "no" => row[e].there = "no"
    BY <1>1, <1>2, <1>4 DEF RowType, IInv, Typed, RowsTyped, Exists
  <1>7. RowsTyped' /\ RowsInv'
    BY <1>3, <1>5, <1>6, RowAloneKeepsRows DEF IInv, Typed, RowsTyped, outside
  <1>8. BoundsTyped'
    BY BoundsStay DEF TorrentAddedAgain, Curate, Restore, RestoreWork, Trash, AutoTrash
  <1>9. QED
    BY <1>3, <1>7, <1>8, RowsOnlyKeepsIInv

(* The timers.                                                             *)
LEMMA TimePassesKeepsIInv ==
  ASSUME IInv, TimePasses
  PROVE  IInv'
  <1> USE DEF TimePasses
  <1>1. \A n \in Ticks : Older(n) \in Ticks
    BY DEF Ticks, Older
  <1>2. ASSUME NEW d \in Downloads
        PROVE  /\ row'[d] \in RowType
               /\ row'[d].state = row[d].state /\ row'[d].there = row[d].there
    <2>1. row[d] \in RowType
      BY DEF IInv, Typed, RowsTyped
    <2>2. row'[d] = row[d] \/ row'[d] = [row[d] EXCEPT !.idle = Older(row[d].idle)]
      OBVIOUS
    <2>3. QED
      BY <1>1, <2>1, <2>2 DEF RowType
  <1>3. row' \in [Downloads -> RowType]
    BY <1>2
  <1>4. UNCHANGED <<video, ingests, adds, daemon, memory, outside, clicks, faults>>
    BY DEF outside
  <1>5. RowsTyped' /\ RowsInv'
    BY <1>2, <1>3, <1>4, RowAloneKeepsRows DEF IInv, Typed, RowsTyped, Exists
  <1>6. BoundsTyped'
    <2>1. touched' \in [Downloads -> Ticks]
      BY <1>1 DEF IInv, Typed, BoundsTyped
    <2>2. QED
      BY <1>4, <2>1 DEF IInv, Typed, BoundsTyped
  <1>7. QED
    BY <1>4, <1>5, <1>6, RowsOnlyKeepsIInv

(* The switch, with what is remembered of the download.                    *)
LEMMA AutoImportKeepsIInv ==
  ASSUME IInv, NEW d \in Downloads, NEW auto \in BOOLEAN,
         DownloadAutoImportSet(d, auto)
  PROVE  IInv'
  <1> USE DEF DownloadAutoImportSet
  <1> DEFINE rs == [row EXCEPT ![d].auto = auto, ![d].idle = 0]
             D == {d} \cap DOMAIN torrent
             T == Restrict(torrent, D)
  <1>1. row[d] \in RowType /\ row \in [Downloads -> RowType] /\ 0 \in Ticks
    BY DEF IInv, Typed, RowsTyped, Ticks
  <1>2. rs \in [Downloads -> RowType]
    BY <1>1 DEF RowType
  <1>3. \A e \in Downloads : rs[e].there = row[e].there /\ rs[e].state = row[e].state
    BY <1>1 DEF RowType
  <1>4. \A e \in DOMAIN torrent : torrent[e] \in SUBSET Videos
    BY PartialElim DEF IInv, Typed, MemoryTyped
  <1>5. D \in SUBSET Downloads /\ T \in [D -> SUBSET Videos]
    BY <1>4 DEF Restrict
  <1>6. T \in Partial(SUBSET Videos) /\ DOMAIN T = D
    BY <1>5, PartialIntro
  <1>7. Knows(T)
    BY DEF IInv, Truthful, Knows, Restrict
  <1>8. \A e \in DOMAIN T : Exists(e)
    BY <1>6
  <1>9. processDownloads(rs, T) /\ UNCHANGED <<adds, daemon, memory, outside>>
    BY DEF outside
  <1> HIDE DEF rs, T, D
  <1>10. RowsTyped' /\ RowsInv'
    BY <1>2, <1>3, <1>6, <1>7, <1>8, <1>9, ProcessKeepsRows DEF IInv, Typed
  <1>11. BoundsTyped'
    BY BoundsStay
  <1>12. QED
    BY <1>9, <1>10, <1>11, RowsOnlyKeepsIInv

(* A download is added for the first time: its files have met no ingest.   *)
LEMMA CreateKeepsIInv ==
  ASSUME IInv, NEW d \in Downloads, DownloadCreate(d)
  PROVE  IInv'
  <1> USE DEF DownloadCreate
  <1>1. row[d] \in RowType /\ row \in [Downloads -> RowType]
    BY DEF IInv, Typed, RowsTyped
  <1>2. row' \in [Downloads -> RowType]
    BY <1>1 DEF RowType
  <1>3. /\ row'[d].there = "live" /\ row'[d].state = "queued"
        /\ \A e \in Downloads \ {d} : row'[e] = row[e]
    BY <1>1 DEF RowType, IInv, RowsInv, Fresh
  <1>4. \A v \in Videos : video'[v] = IF Source[v] = d THEN "pending" ELSE video[v]
    BY DEF FilesOf
  <1>5. UNCHANGED <<ingests, daemon, memory, outside>> /\ \A v \in Videos : Source[v] \in Downloads
    BY DEF outside
  <1>6. RowsTyped'
    BY <1>2, <1>3, <1>4, <1>5 DEF IInv, Typed, RowsTyped, Exists
  <1>7. Fresh' /\ IngestedOnceComplete'
    BY <1>3, <1>4, <1>5 DEF IInv, RowsInv, Fresh, IngestedOnceComplete
  <1>8. StateIsTrue'
    <2>1. \A e \in Downloads \ {d} : pendingOf(e)' = pendingOf(e)
      BY <1>4 DEF pendingOf, FilesOf
    <2>2. QED
      BY <1>3, <1>5, <2>1 DEF IInv, RowsInv, StateIsTrue, Exists
  <1>9. BoundsTyped'
    BY BoundsStay
  <1>10. QED
    BY <1>5, <1>6, <1>7, <1>8, <1>9, RowsOnlyKeepsIInv DEF RowsInv

(* A purged download has no files.                                         *)
LEMMA PurgeKeepsIInv ==
  ASSUME IInv, NEW d \in Downloads, Purge(d)
  PROVE  IInv'
  <1> USE DEF Purge
  <1>1. row \in [Downloads -> RowType] /\ 0 \in Ticks
    BY DEF IInv, Typed, RowsTyped, Ticks
  <1>2. row' \in [Downloads -> RowType]
    BY <1>1 DEF RowType, States
  <1>3. /\ row'[d].there = "purged" /\ row'[d].state = "queued"
        /\ \A e \in Downloads \ {d} : row'[e] = row[e]
    BY <1>1
  <1>4. \A v \in Videos : video'[v] = IF Source[v] = d THEN "none" ELSE video[v]
    BY DEF FilesOf, unlinked
  <1>5. UNCHANGED <<ingests, adds, daemon, memory, outside>> /\ \A v \in Videos : Source[v] \in Downloads
    BY DEF outside
  <1>6. RowsTyped'
    <2>1. video' \in [Videos -> {"none", "pending", "importing"}]
      BY DEF IInv, Typed, RowsTyped, unlinked
    <2>2. QED
      BY <1>2, <1>3, <1>4, <1>5, <2>1 DEF IInv, Typed, RowsTyped, Exists
  <1>7. Fresh' /\ IngestedOnceComplete'
    BY <1>3, <1>4, <1>5 DEF IInv, RowsInv, Fresh, IngestedOnceComplete
  <1>8. StateIsTrue'
    <2>1. \A e \in Downloads \ {d} : pendingOf(e)' = pendingOf(e)
      BY <1>4 DEF pendingOf, FilesOf
    <2>2. QED
      BY <1>3, <1>5, <2>1 DEF IInv, RowsInv, StateIsTrue, Exists
  <1>9. BoundsTyped'
    BY BoundsStay
  <1>10. QED
    BY <1>5, <1>6, <1>7, <1>8, <1>9, RowsOnlyKeepsIInv DEF RowsInv

-----------------------------------------------------------------------------
(* IInv is inductive.                                                      *)

LEMMA InitIInv == Init => IInv
  <1> SUFFICES ASSUME Init PROVE IInv
    OBVIOUS
  <1>1. PICK h \in Histories :
      /\ row = [d \in Downloads |->
                  IF d \in h.first
                    THEN [there |-> "live", state |-> "downloading", auto |-> TRUE, idle |-> 0]
                    ELSE [there |-> "no", state |-> "queued", auto |-> FALSE, idle |-> 0]]
      /\ video = [v \in Videos |-> IF Source[v] \in h.first THEN "pending" ELSE "none"]
      /\ ingests = [v \in Videos |-> 0]
      /\ adds = {}
      /\ adder = [d \in Downloads |-> Idle]
      /\ poller = Sleeping
      /\ torrent = Nothing
      /\ daemon = [d \in h.first |-> {}]
      /\ broken = {}
      /\ touched = [d \in Downloads |-> 0]
      /\ clicks = h.clicks
      /\ faults = h.faults
    BY DEF Init
  <1>2. h.first \in SUBSET Downloads /\ 0 \in Ticks
    BY DEF Ticks
  <1>3. RowsTyped
    BY <1>1, <1>2 DEF RowsTyped, RowType, States, Exists
  <1>4. /\ Nothing \in Answers /\ Nothing \in Partial(SUBSET Videos)
        /\ DOMAIN Nothing = {}
    BY NothingIsPartial DEF Answers
  <1>5. MemoryTyped
    BY <1>1, <1>4 DEF MemoryTyped, Idle, Sleeping
  <1>6. daemon \in Partial(SUBSET Videos)
    <2>1. daemon \in [h.first -> SUBSET Videos]
      BY <1>1
    <2>2. QED
      BY <1>2, <2>1, PartialIntro
  <1>7. OutsideTyped /\ BoundsTyped
    BY <1>1, <1>2, <1>6 DEF OutsideTyped, BoundsTyped
  <1>8. Truthful
    BY <1>1, <1>4 DEF Truthful, Knows, Heard, Idle, Sleeping
  <1>9. RowsInv
    <2>1. \A d \in Downloads : row[d].state \in {"downloading", "queued"}
      BY <1>1
    <2>2. \A d \in Downloads : row[d].there = "no" => row[d].state = "queued"
      BY <1>1
    <2>3. QED
      BY <1>1, <2>1, <2>2 DEF RowsInv, Fresh, IngestedOnceComplete, StateIsTrue
  <1>10. QED
    BY <1>3, <1>5, <1>7, <1>8, <1>9 DEF IInv, Typed

LEMMA NextIInv == IInv /\ [Next]_vars => IInv'
  <1> SUFFICES ASSUME IInv, [Next]_vars PROVE IInv'
    OBVIOUS
  <1>1. CASE Poll \/ PollFails \/ Crash \/ TimePasses
    BY <1>1, PollerKeepsIInv, PollAppliesKeepsIInv, CrashKeepsIInv,
       TimePassesKeepsIInv DEF Poll
  <1>2. ASSUME NEW d \in Downloads, Add(d) \/ KillAdd(d)
        PROVE  IInv'
    BY <1>2, AddTorrentKeepsIInv, AdderKeepsIInv, AddCommitKeepsIInv DEF Add
  <1>3. ASSUME NEW d \in Downloads, Editor(d) \/ AutoTrash(d)
        PROVE  IInv'
    BY <1>3, CreateKeepsIInv, CurationKeepsIInv, AutoImportKeepsIInv,
       PurgeKeepsIInv DEF Editor
  <1>4. ASSUME NEW d \in Downloads,
               FileCompletes(d) \/ DaemonReports(d) \/ DaemonRecovers(d)
        PROVE  IInv'
    BY <1>4, FileCompletesKeepsIInv, DaemonErrsKeepsIInv
  <1>5. CASE UNCHANGED vars
    <2>1. UNCHANGED <<row, video, ingests, adds, adder, poller, torrent, daemon,
                      broken, touched, clicks, faults>>
      BY <1>5 DEF vars, rows, memory, outside, bounds
    <2>2. Typed'
      BY <2>1 DEF IInv, Typed, RowsTyped, MemoryTyped, OutsideTyped, BoundsTyped, Exists
    <2>3. Truthful' /\ RowsInv'
      BY <2>1 DEF IInv, Truthful, Knows, Heard, RowsInv, Fresh,
                  IngestedOnceComplete, StateIsTrue, Exists, pendingOf, FilesOf
    <2>4. QED
      BY <2>2, <2>3 DEF IInv
  <1>6. QED
    BY <1>1, <1>2, <1>3, <1>4, <1>5 DEF Next

THEOREM Inductive == Spec => []IInv
  BY InitIInv, NextIInv, PTL DEF Spec

\* Every variable keeps its type, and no file has a row whose download has
\* none.
THEOREM TypeCorrect == Spec => []TypeOK
  <1>1. IInv => TypeOK
    BY DEF IInv, Typed, TypeOK, RowsTyped, MemoryTyped, OutsideTyped, BoundsTyped,
           RowType
  <1>2. QED
    BY <1>1, Inductive, PTL

\* A file is handed to the ingest at most once, and only when it is complete,
\* whoever finds it so and however old the answer.
THEOREM OneIngest == Spec => []IngestedOnceComplete
  <1>1. IInv => IngestedOnceComplete
    BY DEF IInv, RowsInv
  <1>2. QED
    BY <1>1, Inductive, PTL

\* The state of a download says what is left of its files.
THEOREM TrueStates == Spec => []StateIsTrue
  <1>1. IInv => StateIsTrue
    BY DEF IInv, RowsInv
  <1>2. QED
    BY <1>1, Inductive, PTL

-----------------------------------------------------------------------------
(* The auto-trash loop.                                                    *)

(* LastActivityAt is no earlier than what an editor last did.              *)
Timed ==
    \A d \in Downloads : /\ row[d].idle <= touched[d]
                         /\ row[d].there = "no" => row[d].idle = 0

LEMMA InitTimed == Init => Timed
  BY DEF Init, Timed

(* An update begins the period anew, or leaves a row as it was.            *)
LEMMA ProcessKeepsTimed ==
  ASSUME IInv, Timed, NEW rs \in [Downloads -> RowType], NEW T,
         \A d \in Downloads : /\ rs[d].there = row[d].there
                              /\ rs[d].idle \in {row[d].idle, 0},
         processDownloads(rs, T), touched' \in [Downloads -> Ticks],
         \A d \in Downloads : rs[d].idle <= touched'[d]
  PROVE  Timed'
  <1> SUFFICES ASSUME NEW d \in Downloads
               PROVE  /\ row'[d].idle <= touched'[d]
                      /\ row'[d].there = "no" => row'[d].idle = 0
    BY DEF Timed
  <1>1. rs[d] \in RowType /\ touched'[d] \in Ticks
    OBVIOUS
  <1>2. CASE d \in DOMAIN T
    <2>1. \E to : row'[d] = [rs[d] EXCEPT !.state = to, !.idle = 0]
      BY <1>2 DEF processDownloads
    <2>2. QED
      BY <1>1, <2>1 DEF RowType, Ticks
  <1>3. CASE d \notin DOMAIN T
    <2>1. row'[d] = rs[d]
      BY <1>3 DEF processDownloads
    <2>2. QED
      BY <2>1 DEF Timed
  <1>4. QED
    BY <1>2, <1>3

LEMMA UpdateKeepsTimed ==
  ASSUME IInv, Timed, NEW A, updateDownloads(A), UNCHANGED touched
  PROVE  Timed'
  <1>1. ASSUME NEW d \in Downloads
        PROVE  /\ withErrors(A)[d] \in RowType
               /\ withErrors(A)[d].there = row[d].there
               /\ withErrors(A)[d].idle \in {row[d].idle, 0}
    <2>1. row[d] \in RowType /\ "error" \in States /\ 0 \in Ticks
      BY DEF IInv, Typed, RowsTyped, States, Ticks
    <2>2. CASE d \in DOMAIN A \ DOMAIN told(A)
      <3>1. withErrors(A)[d] = [row[d] EXCEPT !.state = "error", !.idle = 0]
        BY <2>2 DEF withErrors
      <3>2. QED
        BY <2>1, <3>1 DEF RowType
    <2>3. CASE d \notin DOMAIN A \ DOMAIN told(A)
      BY <2>1, <2>3 DEF withErrors
    <2>4. QED
      BY <2>2, <2>3
  <1>2. withErrors(A) \in [Downloads -> RowType]
    <2>1. withErrors(A) = [d \in Downloads |-> withErrors(A)[d]]
      BY DEF withErrors
    <2>2. QED
      BY <1>1, <2>1
  <1>3. touched' \in [Downloads -> Ticks]
    BY DEF IInv, Typed, BoundsTyped
  <1>4. \A d \in Downloads : withErrors(A)[d].idle <= touched'[d]
    BY <1>1, <1>3 DEF Timed, Ticks
  <1>5. QED
    BY <1>1, <1>2, <1>3, <1>4, ProcessKeepsTimed DEF updateDownloads

(* Every row of an editor's.                                               *)
LEMMA EditorKeepsTimed ==
  ASSUME IInv, Timed, NEW d \in Downloads, Editor(d) \/ AutoTrash(d)
  PROVE  Timed'
  <1>1. /\ row \in [Downloads -> RowType] /\ row[d] \in RowType
        /\ touched \in [Downloads -> Ticks] /\ 0 \in Ticks
    BY DEF IInv, Typed, RowsTyped, BoundsTyped, Ticks
  <1>2. ASSUME NEW auto \in BOOLEAN, DownloadAutoImportSet(d, auto)
        PROVE  Timed'
    <2> DEFINE rs == [row EXCEPT ![d].auto = auto, ![d].idle = 0]
    <2>1. rs \in [Downloads -> RowType]
      BY <1>1 DEF RowType
    <2>2. \A e \in Downloads : /\ rs[e].there = row[e].there
                               /\ rs[e].idle = IF e = d THEN 0 ELSE row[e].idle
      BY <1>1 DEF RowType
    <2>3. touched' = [touched EXCEPT ![d] = 0]
      BY <1>2 DEF DownloadAutoImportSet, Touch
    <2>4. touched' \in [Downloads -> Ticks]
      BY <1>1, <2>3 DEF Ticks
    <2>5. \A e \in Downloads : rs[e].idle <= touched'[e]
      BY <1>1, <2>2, <2>3 DEF Timed
    <2>6. processDownloads(rs, Restrict(torrent, {d} \cap DOMAIN torrent))
      BY <1>2 DEF DownloadAutoImportSet
    <2> HIDE DEF rs
    <2>7. QED
      BY <2>1, <2>2, <2>4, <2>5, <2>6, ProcessKeepsTimed
  <1>3. CASE \/ DownloadCreate(d) \/ Purge(d)
             \/ TorrentAddedAgain(d) \/ Curate(d) \/ Restore(d)
    <2>1. /\ row'[d].idle = 0 /\ touched'[d] \in Ticks
          /\ \A e \in Downloads \ {d} : row'[e] = row[e] /\ touched'[e] = touched[e]
      BY <1>1, <1>3 DEF DownloadCreate, Purge, TorrentAddedAgain, Curate, Restore,
         restored, Touch, Timed, RowType, Ticks
    <2>2. QED
      BY <2>1 DEF Timed, Ticks
  <1>4. CASE RestoreWork(d) \/ AutoTrash(d) \/ \E there \in {"trashed", "cascaded"} : Trash(d, there)
    <2>1. /\ row'[d].idle = row[d].idle /\ row'[d].there # "no"
          /\ \A e \in Downloads \ {d} : row'[e] = row[e]
          /\ touched' = touched
      BY <1>1, <1>4 DEF RestoreWork, AutoTrash, Trash, RowType, bounds
    <2>2. QED
      BY <2>1 DEF Timed
  <1>5. QED
    BY <1>2, <1>3, <1>4 DEF Editor

LEMMA NextTimed == IInv /\ Timed /\ [Next]_vars => Timed'
  <1> SUFFICES ASSUME IInv, Timed, [Next]_vars PROVE Timed'
    OBVIOUS
  <1>1. CASE UNCHANGED <<row, touched>>
    BY <1>1 DEF Timed
  <1>2. CASE TimePasses
    <2> SUFFICES ASSUME NEW d \in Downloads
                 PROVE  /\ row'[d].idle <= touched'[d]
                        /\ row'[d].there = "no" => row'[d].idle = 0
      BY DEF Timed
    <2>1. row[d] \in RowType /\ touched[d] \in Ticks
      BY DEF IInv, Typed, RowsTyped, BoundsTyped
    <2>2. CASE Rests(d)
      <3>1. row'[d] = [row[d] EXCEPT !.idle = Older(row[d].idle)]
        BY <1>2, <2>2 DEF TimePasses
      <3>2. touched'[d] = Older(touched[d])
        BY <1>2, <2>2 DEF TimePasses
      <3>3. QED
        BY <2>1, <2>2, <3>1, <3>2 DEF Older, Timed, RowType, Ticks, Rests, Exists
    <2>3. CASE ~Rests(d)
      BY <1>2, <2>3 DEF TimePasses, Timed
    <2>4. QED
      BY <2>2, <2>3
  <1>3. CASE PollApplies
    <2>1. UNCHANGED touched
      BY <1>3 DEF PollApplies, bounds
    <2>2. UNCHANGED row \/ updateDownloads(poller.answer)
      BY <1>3 DEF PollApplies
    <2>3. QED
      BY <1>1, <2>1, <2>2, UpdateKeepsTimed
  <1>4. ASSUME NEW d \in Downloads, AddCommit(d)
        PROVE  Timed'
    <2>1. UNCHANGED touched
      BY <1>4 DEF AddCommit, bounds
    <2>2. UNCHANGED row \/ updateDownloads(adder[d].answer)
      BY <1>4 DEF AddCommit
    <2>3. QED
      BY <1>1, <2>1, <2>2, UpdateKeepsTimed
  <1>5. ASSUME NEW d \in Downloads,
               \/ AddTorrent(d) \/ AddAsks(d) \/ AddReturns(d) \/ KillAdd(d)
               \/ FileCompletes(d) \/ DaemonReports(d) \/ DaemonRecovers(d)
        PROVE  Timed'
    BY <1>1, <1>5 DEF AddTorrent, AddAsks, AddReturns, KillAdd, FileCompletes,
       DaemonReports, DaemonRecovers, Fault, rows, bounds
  <1>6. CASE PollLists \/ PollAsks \/ PollFails \/ Crash \/ UNCHANGED vars
    BY <1>1, <1>6 DEF PollLists, PollAsks, PollFails, Crash, Fault, vars, rows, bounds
  <1>7. QED
    BY <1>2, <1>3, <1>4, <1>5, <1>6, EditorKeepsTimed DEF Next, Poll, Add

THEOREM AlwaysTimed == Spec => []Timed
  BY Inductive, InitTimed, NextTimed, PTL DEF Spec

\* The loop takes nothing an editor has had to do with within the period, and
\* nothing that still waits for its import.
THEOREM AutoTrashIsCareful == Spec => AutoTrashSpares
  <1>1. ASSUME IInv, Timed, NEW d \in Downloads, AutoTrash(d)
        PROVE  /\ touched[d] = IdleTimeout
               /\ row[d].state = "error" \/ pendingOf(d) = {}
    <2>1. touched[d] \in Ticks /\ row[d].idle = IdleTimeout /\ row[d].idle <= touched[d]
      BY <1>1 DEF IInv, Typed, BoundsTyped, AutoTrash, Timed
    <2>2. Exists(d) /\ row[d].state \in {"imported", "error"}
      BY <1>1 DEF AutoTrash, Exists
    <2>3. row[d].state = "error" \/ pendingOf(d) = {}
      BY <1>1, <2>2 DEF IInv, RowsInv, StateIsTrue
    <2>4. QED
      BY <2>1, <2>3 DEF Ticks
  <1>2. IInv /\ Timed =>
          [\A d \in Downloads :
             AutoTrash(d) => /\ touched[d] = IdleTimeout
                             /\ row[d].state = "error" \/ pendingOf(d) = {}]_vars
    BY <1>1
  <1>3. QED
    BY <1>2, Inductive, AlwaysTimed, PTL DEF AutoTrashSpares
=============================================================================
