----------------------------- MODULE LibraryProof -----------------------------
(***************************************************************************)
(* Proofs about Library, for any rows, any number of them in the trash and *)
(* any first library.                                                      *)
(*                                                                         *)
(* The table Trash and the columns DeletedAt say the same because every    *)
(* cascade takes live rows only, and every restore and purge takes all the *)
(* rows of some roots.  Nothing is lost because a junction is there only   *)
(* while both of its rows are, in the trash or not.  A restored row has    *)
(* its parents because a row that was not trashed by itself shares the     *)
(* cascade of its parent, and because a root is above what it took, so     *)
(* four rounds of parents reach the top.                                   *)
(***************************************************************************)
EXTENDS LibraryProps, FiniteSetTheorems, TLAPS

(* A junction has its two rows.                                            *)
LinksHaveRows == \A l \in Links : link[l] # "none" => \A r \in Ends(l) : Exists(r)

(* Active is a column of a junction, and of one junction of a work at most. *)
ActiveHasLink == \A l \in active : link[l] # "none"
OneActive == \A h \in Holders : \A v, w \in ActiveOf(h) : v = w

(* The videos of a torrent come with its download.                         *)
NewTogether ==
    \A v \in Videos : Source[v] \in Downloads /\ row[Source[v]] = "new"
                       => row[v] = "new"

(* The inductive invariant.                                                *)
IInv ==
    /\ TypeOK /\ TrashMirrorsRows /\ LinksHaveRows /\ NothingLost
    /\ ActiveHasLink /\ OneActive /\ NewTogether

-----------------------------------------------------------------------------
(* The tables.                                                             *)

LEMMA Disjoint ==
  /\ Episodes \cap Videos = {} /\ Seasons \cap Holders = {}
  /\ Collections \cap Holders = {} /\ Downloads \cap Videos = {}
  /\ Downloads \cap (Editions \cup Seasons \cup Episodes) = {}
  /\ Works \cap (Editions \cup Seasons \cup Episodes \cup Videos \cup Downloads) = {}
  /\ Editions \cap (Seasons \cup Episodes \cup Videos \cup Collections) = {}
  /\ SeriesEditions \cap MovieEditions = {} /\ Seasons \cap (Episodes \cup Videos) = {}
  <1>1. \A i, j \in 1 .. 9 : i # j => Tables[i] \cap Tables[j] = {}
    BY LibraryAssumption DEF Tables
  <1> DEFINE T(i) == Tables[i]
  <1>2. /\ Tables[1] = Series /\ Tables[2] = Movies /\ Tables[3] = SeriesEditions
        /\ Tables[4] = MovieEditions /\ Tables[5] = Seasons /\ Tables[6] = Episodes
        /\ Tables[7] = Videos /\ Tables[8] = Downloads /\ Tables[9] = Collections
    BY DEF Tables
  <1>3. \A a, b \in {1, 2, 3, 4, 5, 6, 7, 8, 9} : a # b => Tables[a] \cap Tables[b] = {}
    BY <1>1
  <1>4. /\ Episodes \cap Videos = {} /\ Seasons \cap Episodes = {}
        /\ Seasons \cap MovieEditions = {} /\ Collections \cap Episodes = {}
        /\ Collections \cap MovieEditions = {} /\ Downloads \cap Videos = {}
        /\ Seasons \cap Videos = {} /\ SeriesEditions \cap MovieEditions = {}
    BY <1>2, <1>3
  <1>5. /\ Downloads \cap SeriesEditions = {} /\ Downloads \cap MovieEditions = {}
        /\ Downloads \cap Seasons = {} /\ Downloads \cap Episodes = {}
    BY <1>2, <1>3
  <1>6. \A W \in {Series, Movies} :
          /\ W \cap SeriesEditions = {} /\ W \cap MovieEditions = {}
          /\ W \cap Seasons = {} /\ W \cap Episodes = {}
          /\ W \cap Videos = {} /\ W \cap Downloads = {}
    BY <1>2, <1>3
  <1>7. \A D \in {SeriesEditions, MovieEditions} :
          /\ D \cap Seasons = {} /\ D \cap Episodes = {}
          /\ D \cap Videos = {} /\ D \cap Collections = {}
    BY <1>2, <1>3
  <1>8. QED
    BY <1>4, <1>5, <1>6, <1>7 DEF Holders, Works, Editions

LEMMA LinkEnds ==
  /\ \A l \in Links : l = <<l[1], l[2]>> /\ Ends(l) \subseteq Rows
  /\ Holders \X Videos \subseteq Links
  /\ Seasons \X Episodes \subseteq Links
  /\ Collections \X Works \subseteq Links
  BY DEF Links, Ends, Rows, Works, Editions, Holders

(* A junction of a work and a video is none of the other two kinds.        *)
LEMMA LinkKinds ==
  ASSUME NEW l \in Holders \X Videos
  PROVE  l[1] \in Holders /\ l[1] \notin Seasons \cup Collections
         /\ l[2] \in Videos /\ l[2] \notin Episodes \cup Works
  BY Disjoint DEF Works

LEMMA AboveAreRows ==
  ASSUME NEW r \in Rows
  PROVE  Above(r) \subseteq Rows
  <1>1. \A x \in DOMAIN Parent : Parent[x] \in Rows
    BY LibraryAssumption DEF Rows, Editions, Works
  <1>2. QED
    BY <1>1 DEF Above, Rows, Holders, Editions

LEMMA SourceIsRow ==
  \A v \in Videos : Source[v] \in Downloads => Source[v] \in Rows
  BY DEF Rows

-----------------------------------------------------------------------------
(* What the kinds of steps do to the rows and junctions.                   *)

(* Rows and junctions come into being.                                     *)
LEMMA CreateKeepsIInv ==
  ASSUME IInv, NEW S \in SUBSET Rows, NEW lk \in SUBSET Links,
         \A r \in S : row[r] = "new",
         \A l \in lk : Ends(l) \cap S # {} /\ \A r \in Ends(l) : r \in S \/ Exists(r),
         \A v \in S \cap Videos : Source[v] \in Downloads => Source[v] \in S,
         Create(S, lk), target' \in [Downloads -> Editions]
  PROVE  IInv'
  <1> USE DEF Create, videoVars
  <1>1. TypeOK'
    BY DEF IInv, TypeOK
  <1>2. \A r \in Rows : /\ row'[r] = IF r \in S THEN "live" ELSE row[r]
                        /\ Exists(r) => Exists(r)'
                        /\ r \in S => ~Exists(r)
    BY DEF IInv, TypeOK, Exists
  <1>3. \A l \in Links : link'[l] = IF l \in lk THEN "live" ELSE link[l]
    BY DEF IInv, TypeOK
  <1>4. TrashMirrorsRows'
    BY <1>2 DEF IInv, TrashMirrorsRows, Roots
  <1>5. \A l \in lk : link[l] = "none"
    BY <1>2, LinkEnds DEF IInv, TypeOK, LinksHaveRows
  <1>6. LinksHaveRows'
    BY <1>2, <1>3, LinkEnds DEF IInv, LinksHaveRows, Exists
  <1>7. NothingLost'
    BY <1>2, <1>3, LinkEnds DEF IInv, NothingLost
  <1>8. ActiveHasLink' /\ OneActive'
    <2>1. \A l \in active : l \in Links /\ l \notin lk
      BY <1>5, LinkEnds DEF IInv, TypeOK, ActiveHasLink
    <2>2. \A l \in active : link'[l] = link[l]
      BY <1>3, <2>1
    <2>3. \A h \in Holders : ActiveOf(h)' = ActiveOf(h)
      BY <2>2 DEF ActiveOf
    <2>4. QED
      BY <2>2, <2>3 DEF IInv, ActiveHasLink, OneActive
  <1>9. NewTogether'
    BY <1>2, SourceIsRow DEF IInv, NewTogether, Rows
  <1>10. QED
    BY <1>1, <1>4, <1>6, <1>7, <1>8, <1>9 DEF IInv

(* Junctions come and go by an editor's request.                           *)
LEMMA SetLinksKeepsIInv ==
  ASSUME IInv, NEW lk \in SUBSET Links, NEW to \in {"live", "none"},
         to = "live" => \A l \in lk : link[l] = "none" /\ \A r \in Ends(l) : Exists(r),
         SetLinks(lk, to)
  PROVE  IInv'
  <1> USE DEF SetLinks, videoVars
  <1>1. TypeOK'
    BY DEF IInv, TypeOK
  <1>2. \A l \in Links : link'[l] = IF l \in lk THEN to ELSE link[l]
    BY DEF IInv, TypeOK
  <1>3. TrashMirrorsRows' /\ NewTogether'
    BY DEF IInv, TrashMirrorsRows, Roots, NewTogether
  <1>4. LinksHaveRows' /\ NothingLost'
    BY <1>2 DEF IInv, LinksHaveRows, NothingLost, Exists
  <1>5. ActiveHasLink'
    BY <1>2, LinkEnds DEF IInv, TypeOK, ActiveHasLink
  <1>6. ASSUME NEW h \in Holders
        PROVE  ActiveOf(h)' \subseteq ActiveOf(h)
    <2>1. \A v \in Videos : <<h, v>> \in Links
      BY LinkEnds
    <2>2. QED
      BY <1>2, <2>1 DEF ActiveOf, IInv, ActiveHasLink
  <1>7. OneActive'
    BY <1>6 DEF IInv, OneActive
  <1>8. QED
    BY <1>1, <1>3, <1>4, <1>5, <1>7 DEF IInv

(* An episode moves: none of the junctions is a video's.                   *)
LEMMA MoveKeepsIInv ==
  ASSUME IInv, NEW e \in Episodes, NEW n \in Seasons, NEW m \in Seasons,
         EpisodeMove(e, n, m)
  PROVE  IInv'
  <1> USE DEF EpisodeMove, videoVars
  <1>1. /\ <<n, e>> \in Links /\ <<m, e>> \in Links /\ n \in Rows /\ m \in Rows
        /\ e \in Rows
    BY LinkEnds DEF Rows
  <1>2. link' \in [Links -> {"none", "live", "dead"}]
    BY DEF IInv, TypeOK, LinksAfterMove
  <1>3. \A l \in Links : \/ link'[l] = link[l] \/ link'[l] = "none"
                         \/ l = <<m, e>> /\ link'[l] = "live"
    BY DEF LinksAfterMove
  <1>4. TypeOK' /\ TrashMirrorsRows' /\ NewTogether'
    BY <1>2 DEF IInv, TypeOK, TrashMirrorsRows, Roots, NewTogether
  <1>5. Exists(e) /\ Exists(m)
    BY <1>1 DEF IInv, LinksHaveRows, Ends, Offered, Live, Exists
  <1>6. LinksHaveRows'
    BY <1>3, <1>5 DEF IInv, LinksHaveRows, Ends, Exists
  <1>7. NothingLost'
    BY <1>3 DEF IInv, NothingLost
  <1>8. \A l \in Holders \X Videos : l \in Links /\ link'[l] = link[l]
    BY LinkKinds, LinkEnds DEF LinksAfterMove
  <1>9. ActiveHasLink'
    BY <1>8 DEF IInv, TypeOK, ActiveHasLink
  <1>10. \A h \in Holders : ActiveOf(h)' = ActiveOf(h)
    BY <1>8 DEF ActiveOf
  <1>11. QED
    BY <1>4, <1>6, <1>7, <1>9, <1>10 DEF IInv, OneActive

(* A cascade takes its root and live rows.                                 *)
LEMMA CascadeIsLive ==
  ASSUME NEW x \in Rows, Live(x)
  PROVE  /\ x \in Cascade(x)
         /\ Cascade(x) \subseteq Rows
         /\ \A r \in Cascade(x) : Live(r)
  <1>1. /\ x \in Subtree(x) /\ Subtree(x) \subseteq Rows
        /\ \A r \in Subtree(x) : Live(r)
    BY DEF Subtree, LiveChildren
  <1>2. ASSUME NEW S
        PROVE  /\ OrphanEpisodes(S) \subseteq Rows /\ \A r \in OrphanEpisodes(S) : Live(r)
               /\ OrphanVideos(S) \subseteq Rows /\ \A r \in OrphanVideos(S) : Live(r)
    BY DEF OrphanEpisodes, OrphanVideos, Rows
  <1>3. QED
    BY <1>1, <1>2 DEF Cascade

(* Soft delete: what the cascade takes gets an entry and loses sight of    *)
(* its junctions.                                                          *)
LEMMA TrashKeepsIInv ==
  ASSUME IInv, NEW x \in Rows, Trash(x)
  PROVE  IInv'
  <1> USE DEF videoVars
  <1> DEFINE dead == Cascade(x)
  <1>1. /\ x \in dead /\ dead \subseteq Rows
        /\ \A r \in dead : row[r] = "live"
    BY CascadeIsLive DEF Trash, Live
  <1>2. /\ row' = [r \in Rows |-> IF r \in dead THEN "trashed" ELSE row[r]]
        /\ trash' = [r \in Rows |-> IF r \in dead THEN x ELSE trash[r]]
        /\ link' = [l \in Links |-> IF link[l] = "live" /\ Ends(l) \cap dead # {}
                                    THEN "dead" ELSE link[l]]
        /\ older' = older \cup (Roots \X {x})
        /\ UNCHANGED <<active, target, playable, jobs>>
    BY DEF Trash
  <1>3. default' \in SUBSET Editions
    BY DEF IInv, TypeOK, Trash, PassDefaultOn
  <1> HIDE DEF dead
  <1>4. TypeOK'
    BY <1>1, <1>2, <1>3 DEF IInv, TypeOK, Roots
  <1>5. TrashMirrorsRows'
    <2>1. \A r \in Rows : /\ row'[r] = IF r \in dead THEN "trashed" ELSE row[r]
                          /\ trash'[r] = IF r \in dead THEN x ELSE trash[r]
                          /\ r \in dead => trash[r] = NoRow
                          /\ trash[r] # NoRow => trash[r] \in Rows /\ trash[r] \notin dead
      BY <1>1, <1>2 DEF IInv, TypeOK, TrashMirrorsRows
    <2>2. x # NoRow /\ NoRow \notin Rows
      BY LibraryAssumption
    <2>3. Roots' = Roots \cup {x} /\ x \notin Roots
      BY <1>1, <2>1, <2>2 DEF Roots
    <2>4. \A r \in Rows : trash'[r] # NoRow <=> row'[r] = "trashed"
      BY <2>1, <2>2 DEF IInv, TrashMirrorsRows
    <2>5. ASSUME NEW r \in Rows, trash'[r] # NoRow
          PROVE  trash'[trash'[r]] = trash'[r]
      <3>1. CASE r \in dead
        BY <1>1, <2>1, <3>1
      <3>2. CASE r \notin dead
        <4>1. /\ trash'[r] = trash[r] /\ trash[r] \in Rows
              /\ trash[r] \notin dead /\ trash[trash[r]] = trash[r]
          BY <2>1, <2>5, <3>2 DEF IInv, TrashMirrorsRows
        <4>2. QED
          BY <2>1, <4>1
      <3>3. QED
        BY <3>1, <3>2
    <2>6. \A p \in older' : Ends(p) \subseteq Roots'
      BY <1>2, <2>3 DEF IInv, TrashMirrorsRows, Ends
    <2>7. \A p \in older : p[1] # x /\ p[2] # x
      BY <2>3 DEF IInv, TrashMirrorsRows, Ends
    <2>8. \A y, z \in Roots' : y # z => (<<y, z>> \in older' <=> <<z, y>> \notin older')
      BY <1>2, <2>3, <2>7 DEF IInv, TrashMirrorsRows
    <2>9. QED
      BY <2>4, <2>5, <2>6, <2>8 DEF TrashMirrorsRows
  <1>6. LinksHaveRows'
    BY <1>1, <1>2, LinkEnds DEF IInv, LinksHaveRows, Exists
  <1>7. NothingLost'
    BY <1>1, <1>2, LinkEnds DEF IInv, NothingLost
  <1>8. ActiveHasLink'
    BY <1>2, LinkEnds DEF IInv, TypeOK, ActiveHasLink
  <1>9. OneActive'
    <2>1. ASSUME NEW h \in Holders
          PROVE  ActiveOf(h)' \subseteq ActiveOf(h)
      <3>1. \A v \in Videos : <<h, v>> \in Links
        BY LinkEnds
      <3>2. QED
        BY <1>2, <3>1 DEF ActiveOf
    <2>2. QED
      BY <2>1 DEF IInv, OneActive
  <1>10. NewTogether'
    <2>1. \A r \in Rows : row'[r] = "new" <=> row[r] = "new"
      BY <1>1, <1>2
    <2>2. QED
      BY <2>1, SourceIsRow DEF IInv, NewTogether, Rows
  <1>11. QED
    BY <1>4, <1>5, <1>6, <1>7, <1>8, <1>9, <1>10 DEF IInv

(* Only roots are brought back, with what came into the trash with them.   *)
LEMMA RootsAreRoots ==
  ASSUME IInv, NEW x \in Roots
  PROVE  x \in RootsToRestore(x) /\ RootsToRestore(x) \subseteq Roots
  <1>1. ASSUME NEW S \in SUBSET Roots
        PROVE  WithParents(S) \in SUBSET Roots /\ S \subseteq WithParents(S)
    <2>1. \A p \in Rows : trash[p] # NoRow => trash[p] \in Roots
      BY DEF IInv, TypeOK, TrashMirrorsRows, Roots
    <2>2. UNION {Above(r) : r \in S} \subseteq Rows
      BY AboveAreRows DEF Roots
    <2>3. QED
      BY <2>1, <2>2 DEF WithParents
  <1>2. {x} \in SUBSET Roots
    OBVIOUS
  <1>3. WithParents({x}) \in SUBSET Roots /\ x \in WithParents({x})
    BY <1>1, <1>2
  <1>4. WithParents(WithParents({x})) \in SUBSET Roots /\ x \in WithParents(WithParents({x}))
    BY <1>1, <1>3
  <1>5. /\ WithParents(WithParents(WithParents({x}))) \in SUBSET Roots
        /\ x \in WithParents(WithParents(WithParents({x})))
    BY <1>1, <1>4
  <1>6. QED
    BY <1>1, <1>5 DEF RootsToRestore

LEMMA BringBackKeepsIInv ==
  ASSUME IInv, NEW x \in Rows, BringBack(x),
         target' \in [Downloads -> Editions],
         UNCHANGED <<active, playable, jobs>>
  PROVE  IInv'
  <1> DEFINE roots == RootsToRestore(x)
             back == InTrashOf(roots)
             again == RestoredLinks(back)
  <1>1. x \in Roots
    BY DEF BringBack, Roots
  <1>2. roots \subseteq Roots
    BY <1>1, RootsAreRoots
  <1>3. /\ row' = [r \in Rows |-> IF r \in back THEN "live" ELSE row[r]]
        /\ link' = [l \in Links |-> IF l \in again THEN "live" ELSE link[l]]
        /\ trash' = [r \in Rows |-> IF trash[r] \in roots THEN NoRow ELSE trash[r]]
        /\ older' = {p \in older : Ends(p) \cap roots = {}}
        /\ default' = default \ roots
    BY DEF BringBack, RowsAfter, LinksAfter
  <1>4. \A r \in Rows : r \in back <=> trash[r] \in roots
    BY DEF InTrashOf
  <1>5. \A l \in Links :
          l \in again <=> /\ link[l] = "dead"
                          /\ Ends(l) \cap back # {}
                          /\ \A r \in Ends(l) : row[r] = "live" \/ r \in back
    BY DEF RestoredLinks, Live
  <1>6. \A h \in Holders, v, w \in Videos :
          /\ <<h, v>> \in active /\ <<h, w>> \in active /\ v # w
          => ~(link'[<<h, v>>] = "live" /\ link'[<<h, w>>] = "live")
    <2>1. UniqueAfter(row', link')
      BY DEF BringBack, Restorable
    <2>2. QED
      BY <2>1 DEF UniqueAfter
  <1> HIDE DEF roots, back, again
  <1>7. TypeOK'
    BY <1>3 DEF IInv, TypeOK
  <1>8. TrashMirrorsRows'
    <2>1. \A r \in Rows : /\ row'[r] = IF trash[r] \in roots THEN "live" ELSE row[r]
                          /\ trash'[r] = IF trash[r] \in roots THEN NoRow ELSE trash[r]
      BY <1>3, <1>4
    <2>2. NoRow \notin roots /\ NoRow \notin Rows
      BY <1>2, LibraryAssumption DEF Roots
    <2>3. \A r \in Rows : trash'[r] # NoRow <=> row'[r] = "trashed"
      BY <2>1, <2>2 DEF IInv, TrashMirrorsRows
    <2>4. \A r \in Rows : trash'[r] # NoRow => trash'[trash'[r]] = trash'[r]
      BY <2>1, <2>2 DEF IInv, TypeOK, TrashMirrorsRows
    <2>5. Roots' = Roots \ roots
      BY <2>1, <2>2 DEF Roots
    <2>6. QED
      BY <1>3, <2>3, <2>4, <2>5 DEF IInv, TrashMirrorsRows, Ends
  <1>9. \A r \in back : row[r] = "trashed" /\ row'[r] = "live"
    <2>1. back \subseteq Rows /\ \A r \in back : trash[r] # NoRow
      BY <1>2, LibraryAssumption DEF back, InTrashOf, Roots
    <2>2. QED
      BY <1>3, <2>1 DEF IInv, TrashMirrorsRows
  <1>10. LinksHaveRows'
    BY <1>3, <1>5, LinkEnds DEF IInv, LinksHaveRows, Exists
  <1>11. NothingLost'
    <2> SUFFICES ASSUME NEW l \in Links, link'[l] = "dead"
                 PROVE  \E r \in Ends(l) : row'[r] = "trashed"
      BY DEF NothingLost
    <2>1. link[l] = "dead" /\ l \notin again
      BY <1>3
    <2>2. PICK r \in Ends(l) : row[r] = "trashed"
      BY <2>1 DEF IInv, NothingLost
    <2>3. CASE r \notin back
      BY <1>3, <2>2, <2>3, LinkEnds
    <2>4. CASE r \in back
      <3>1. PICK q \in Ends(l) : row[q] # "live" /\ q \notin back
        BY <1>5, <2>1, <2>4
      <3>2. row[q] = "trashed"
        BY <2>1, <3>1 DEF IInv, LinksHaveRows, Exists
      <3>3. QED
        BY <1>3, <3>1, <3>2, LinkEnds
    <2>5. QED
      BY <2>3, <2>4
  <1>12. ActiveHasLink'
    BY <1>3, <1>5, LinkEnds DEF IInv, TypeOK, ActiveHasLink
  <1>13. OneActive'
    BY <1>6 DEF OneActive, ActiveOf
  <1>14. NewTogether'
    BY <1>3, <1>9, SourceIsRow DEF IInv, NewTogether, Rows
  <1>15. QED
    BY <1>7, <1>8, <1>10, <1>11, <1>12, <1>13, <1>14 DEF IInv

(* Hard delete takes the junctions along.                                  *)
LEMMA HardDeleteKeepsIInv ==
  ASSUME IInv, NEW roots \in SUBSET Roots, HardDelete(roots)
  PROVE  IInv'
  <1> DEFINE gone == InTrashOf(roots)
  <1>1. /\ row' = [r \in Rows |-> IF r \in gone THEN "gone" ELSE row[r]]
        /\ trash' = [r \in Rows |-> IF r \in gone THEN NoRow ELSE trash[r]]
        /\ link' = [l \in Links |-> IF Ends(l) \cap gone # {} THEN "none" ELSE link[l]]
        /\ active' = {l \in active : Ends(l) \cap gone = {}}
        /\ default' = default \ gone
        /\ playable' = playable \ gone
        /\ jobs' = jobs \ gone
        /\ older' = {p \in older : Ends(p) \cap roots = {}}
        /\ UNCHANGED target
    BY DEF HardDelete
  <1>2. \A r \in Rows : r \in gone <=> trash[r] \in roots
    BY DEF InTrashOf
  <1> HIDE DEF gone
  <1>3. TypeOK'
    BY <1>1 DEF IInv, TypeOK
  <1>4. TrashMirrorsRows'
    <2>1. \A r \in Rows : /\ row'[r] = IF trash[r] \in roots THEN "gone" ELSE row[r]
                          /\ trash'[r] = IF trash[r] \in roots THEN NoRow ELSE trash[r]
      BY <1>1, <1>2
    <2>2. NoRow \notin roots /\ NoRow \notin Rows
      BY LibraryAssumption DEF Roots
    <2>3. \A r \in Rows : trash'[r] # NoRow <=> row'[r] = "trashed"
      BY <2>1, <2>2 DEF IInv, TrashMirrorsRows
    <2>4. \A r \in Rows : trash'[r] # NoRow => trash'[trash'[r]] = trash'[r]
      BY <2>1, <2>2 DEF IInv, TypeOK, TrashMirrorsRows
    <2>5. Roots' = Roots \ roots
      BY <2>1, <2>2 DEF Roots
    <2>6. QED
      BY <1>1, <2>3, <2>4, <2>5 DEF IInv, TrashMirrorsRows, Ends
  <1>5. LinksHaveRows' /\ NothingLost'
    BY <1>1, LinkEnds DEF IInv, LinksHaveRows, NothingLost, Exists
  <1>6. ActiveHasLink'
    BY <1>1, LinkEnds DEF IInv, TypeOK, ActiveHasLink
  <1>7. OneActive'
    <2>1. ASSUME NEW h \in Holders
          PROVE  ActiveOf(h)' \subseteq ActiveOf(h)
      <3>1. \A v \in Videos : <<h, v>> \in Links
        BY LinkEnds
      <3>2. QED
        BY <1>1, <3>1 DEF ActiveOf
    <2>2. QED
      BY <2>1 DEF IInv, OneActive
  <1>8. NewTogether'
    <2>1. \A r \in gone : row[r] = "trashed"
      <3>1. \A r \in gone : r \in Rows /\ trash[r] # NoRow
        BY LibraryAssumption DEF gone, InTrashOf, Roots
      <3>2. QED
        BY <3>1 DEF IInv, TrashMirrorsRows
    <2>2. \A r \in Rows : row'[r] = "new" <=> row[r] = "new"
      BY <1>1, <2>1
    <2>3. QED
      BY <2>2, SourceIsRow DEF IInv, NewTogether, Rows
  <1>9. QED
    BY <1>3, <1>4, <1>5, <1>6, <1>7, <1>8 DEF IInv

(* What happens to a video changes no row and no junction.                 *)
LEMMA VideoKeepsIInv ==
  ASSUME IInv, UNCHANGED <<row, trash, older, link, target>>,
         active' \in SUBSET (Holders \X Videos), default' \in SUBSET Editions,
         playable' \in SUBSET Videos, jobs' \in SUBSET Videos,
         \A l \in active' \ active : link[l] # "none",
         OneActive'
  PROVE  IInv'
  <1>1. TypeOK' /\ TrashMirrorsRows' /\ NewTogether'
    BY DEF IInv, TypeOK, TrashMirrorsRows, Roots, NewTogether
  <1>2. LinksHaveRows' /\ NothingLost' /\ ActiveHasLink'
    BY DEF IInv, LinksHaveRows, NothingLost, ActiveHasLink, Exists
  <1>3. QED
    BY <1>1, <1>2 DEF IInv

-----------------------------------------------------------------------------
(* Every action is one of these kinds.                                     *)

LEMMA OfferedExists ==
  ASSUME NEW r, Offered(r)
  PROVE  Exists(r)
  BY DEF Offered, Live, Exists

(* An end of a junction is one of its two rows.                            *)
LEMMA EndsOfPair ==
  ASSUME NEW a, NEW b
  PROVE  Ends(<<a, b>>) = {a, b}
  BY DEF Ends

LEMMA SeasonAddKeeps ==
  ASSUME IInv, NEW n \in Seasons, SeasonAdd(n)
  PROVE  IInv'
  <1>1. {n} \in SUBSET Rows /\ {n} \cap Videos = {}
    BY Disjoint DEF Rows
  <1>2. Create({n}, {}) /\ row[n] = "new" /\ target' = target
    BY DEF SeasonAdd
  <1>3. target' \in [Downloads -> Editions]
    BY <1>2 DEF IInv, TypeOK
  <1>4. QED
    BY <1>1, <1>2, <1>3, CreateKeepsIInv

LEMMA SeasonEpisodeCreateKeeps ==
  ASSUME IInv, NEW n \in Seasons, NEW e \in Episodes, SeasonEpisodeCreate(n, e)
  PROVE  IInv'
  <1> DEFINE lk == {<<n, e>>}
  <1>1. {e} \in SUBSET Rows /\ {e} \cap Videos = {} /\ lk \in SUBSET Links
    BY Disjoint, LinkEnds DEF Rows
  <1>2. Create({e}, lk) /\ row[e] = "new" /\ target' = target /\ Exists(n)
    BY OfferedExists DEF SeasonEpisodeCreate
  <1>3. target' \in [Downloads -> Editions]
    BY <1>2 DEF IInv, TypeOK
  <1>4. \A l \in lk : Ends(l) \cap {e} # {} /\ \A r \in Ends(l) : r \in {e} \/ Exists(r)
    BY <1>2, EndsOfPair
  <1> HIDE DEF lk
  <1>5. QED
    BY <1>1, <1>2, <1>3, <1>4, CreateKeepsIInv

LEMMA VideoUploadCreateKeeps ==
  ASSUME IInv, NEW v \in Videos, NEW h \in Holders, VideoUploadCreate(v, h)
  PROVE  IInv'
  <1> DEFINE lk == {<<h, v>>}
  <1>1. {v} \in SUBSET Rows /\ lk \in SUBSET Links
    BY LinkEnds DEF Rows
  <1>2. /\ Create({v}, lk) /\ row[v] = "new" /\ target' = target /\ Exists(h)
        /\ Source[v] \notin Downloads
    BY OfferedExists, LibraryAssumption DEF VideoUploadCreate, Rows
  <1>3. target' \in [Downloads -> Editions]
    BY <1>2 DEF IInv, TypeOK
  <1>4. \A l \in lk : Ends(l) \cap {v} # {} /\ \A r \in Ends(l) : r \in {v} \/ Exists(r)
    BY <1>2, EndsOfPair
  <1> HIDE DEF lk
  <1>5. QED
    BY <1>1, <1>2, <1>3, <1>4, CreateKeepsIInv

LEMMA DownloadCreateKeeps ==
  ASSUME IInv, NEW d \in Downloads, NEW ed \in Editions, DownloadCreate(d, ed)
  PROVE  IInv'
  <1> DEFINE S == {d} \cup {v \in Videos : Source[v] = d}
  <1>1. S \in SUBSET Rows /\ d \in Rows /\ d \notin Videos
    BY Disjoint DEF Rows
  <1>2. target' \in [Downloads -> Editions]
    BY DEF IInv, TypeOK, DownloadCreate
  <1>3. CASE row[d] = "new" /\ Create(S, {})
    <2>1. \A r \in S : row[r] = "new"
      BY <1>3 DEF IInv, NewTogether
    <2>2. \A v \in S \cap Videos : Source[v] \in Downloads => Source[v] \in S
      BY <1>1
    <2> HIDE DEF S
    <2>3. QED
      BY <1>1, <1>2, <1>3, <2>1, <2>2, CreateKeepsIInv
  <1>4. CASE BringBack(d) /\ UNCHANGED <<active, videoVars>>
    BY <1>1, <1>2, <1>4, BringBackKeepsIInv DEF videoVars
  <1>5. QED
    BY <1>3, <1>4 DEF DownloadCreate

LEMMA LinkActionsKeep ==
  ASSUME IInv,
         \/ \E n \in Seasons, e \in Episodes : \/ SeasonEpisodeAdd(n, e)
                                               \/ SeasonEpisodeRemove(n, e)
         \/ \E e \in Episodes, v \in Videos : Attach(e, v) \/ Detach(e, v)
         \/ \E c \in Collections, w \in Works : \/ CollectionAdd(c, w)
                                                \/ CollectionRemove(c, w)
  PROVE  IInv'
  <1>1. ASSUME NEW a, NEW b, <<a, b>> \in Links, SetLinks({<<a, b>>}, "none")
        PROVE  IInv'
    <2>1. {<<a, b>>} \in SUBSET Links /\ "none" # "live"
      BY <1>1
    <2>2. QED
      BY <1>1, <2>1, SetLinksKeepsIInv
  <1>2. ASSUME NEW a, NEW b, <<a, b>> \in Links, SetLinks({<<a, b>>}, "live"),
               link[<<a, b>>] = "none", Exists(a), Exists(b)
        PROVE  IInv'
    <2> DEFINE lk == {<<a, b>>}
    <2>1. lk \in SUBSET Links
      BY <1>2
    <2>2. \A l \in lk : link[l] = "none" /\ \A r \in Ends(l) : Exists(r)
      BY <1>2, EndsOfPair
    <2>3. SetLinks(lk, "live")
      BY <1>2
    <2> HIDE DEF lk
    <2>4. QED
      BY <2>1, <2>2, <2>3, SetLinksKeepsIInv
  <1>3. ASSUME NEW n \in Seasons, NEW e \in Episodes,
               SeasonEpisodeAdd(n, e) \/ SeasonEpisodeRemove(n, e)
        PROVE  IInv'
    BY <1>1, <1>2, <1>3, LinkEnds, OfferedExists
    DEF SeasonEpisodeAdd, SeasonEpisodeRemove, Live, Exists
  <1>4. ASSUME NEW e \in Episodes, NEW v \in Videos, Attach(e, v) \/ Detach(e, v)
        PROVE  IInv'
    BY <1>1, <1>2, <1>4, LinkEnds, OfferedExists DEF Attach, Detach, Holders
  <1>5. ASSUME NEW c \in Collections, NEW w \in Works,
               CollectionAdd(c, w) \/ CollectionRemove(c, w)
        PROVE  IInv'
    BY <1>1, <1>2, <1>5, LinkEnds, OfferedExists DEF CollectionAdd, CollectionRemove
  <1>6. QED
    BY <1>3, <1>4, <1>5

(* The index of active videos sees one more only where it saw none.        *)
LEMMA VideoActionsKeep ==
  ASSUME IInv,
         \/ \E v \in Videos : RecomputePlayable(v) \/ ReencodeVideo(v) \/ TaskReencode(v)
         \/ \E h \in Holders, v \in Videos : SetActive(h, v)
         \/ \E d \in MovieEditions : SetDefault(d)
  PROVE  IInv'
  <1> USE DEF videoVars
  <1>1. ASSUME NEW v \in Videos, RecomputePlayable(v)
        PROVE  IInv'
    <2>1. /\ UNCHANGED <<row, trash, older, link, default, target, jobs>>
          /\ playable' = playable \cup {v}
          /\ active' = active \cup (Promotes(v) \X {v})
      BY <1>1 DEF RecomputePlayable
    <2>2. \A h \in Promotes(v) : /\ h \in Holders /\ link[<<h, v>>] = "live"
                                 /\ ActiveOf(h) = {}
      BY DEF Promotes
    <2>3. ASSUME NEW h \in Holders
          PROVE  \A u, w \in ActiveOf(h)' : u = w
      <3>1. CASE h \in Promotes(v)
        <4>1. ActiveOf(h)' \subseteq ActiveOf(h) \cup {v}
          BY <2>1 DEF ActiveOf
        <4>2. QED
          BY <2>2, <3>1, <4>1
      <3>2. CASE h \notin Promotes(v)
        <4>1. ActiveOf(h)' = ActiveOf(h)
          BY <2>1, <3>2 DEF ActiveOf
        <4>2. QED
          BY <4>1 DEF IInv, OneActive
      <3>3. QED
        BY <3>1, <3>2
    <2>4. OneActive'
      BY <2>3 DEF OneActive
    <2>5. \A l \in active' \ active : link[l] # "none"
      BY <2>1, <2>2
    <2>6. active' \in SUBSET (Holders \X Videos)
      BY <2>1, <2>2 DEF IInv, TypeOK
    <2>7. default' \in SUBSET Editions /\ playable' \in SUBSET Videos /\ jobs' \in SUBSET Videos
      BY <2>1 DEF IInv, TypeOK
    <2>8. QED
      BY <2>1, <2>4, <2>5, <2>6, <2>7, VideoKeepsIInv
  <1>2. ASSUME NEW h \in Holders, NEW v \in Videos, SetActive(h, v)
        PROVE  IInv'
    <2>1. /\ UNCHANGED <<row, trash, older, link, default, target, playable, jobs>>
          /\ active' = (active \ ({h} \X ActiveOf(h))) \cup {<<h, v>>}
          /\ link[<<h, v>>] = "live"
      BY <1>2 DEF SetActive, PlayableOf
    <2>2. ActiveOf(h)' \subseteq {v}
      BY <2>1 DEF ActiveOf
    <2>3. ASSUME NEW g \in Holders, g # h
          PROVE  ActiveOf(g)' \subseteq ActiveOf(g)
      BY <2>1, <2>3 DEF ActiveOf
    <2>4. OneActive'
      BY <2>2, <2>3 DEF IInv, OneActive
    <2>5. \A l \in active' \ active : link[l] # "none"
      BY <2>1
    <2>6. active' \in SUBSET (Holders \X Videos)
      BY <2>1 DEF IInv, TypeOK
    <2>7. default' \in SUBSET Editions /\ playable' \in SUBSET Videos /\ jobs' \in SUBSET Videos
      BY <2>1 DEF IInv, TypeOK
    <2>8. QED
      BY <2>1, <2>4, <2>5, <2>6, <2>7, VideoKeepsIInv
  <1>3. ASSUME UNCHANGED <<row, trash, older, link, active, target>>,
               default' \in SUBSET Editions, playable' \in SUBSET Videos,
               jobs' \in SUBSET Videos
        PROVE  IInv'
    <2>1. OneActive' /\ active' \in SUBSET (Holders \X Videos) /\ active' \ active = {}
      BY <1>3 DEF IInv, TypeOK, OneActive, ActiveOf
    <2>2. QED
      BY <1>3, <2>1, VideoKeepsIInv
  <1>4. ASSUME NEW v \in Videos, ReencodeVideo(v) \/ TaskReencode(v)
        PROVE  IInv'
    BY <1>3, <1>4 DEF ReencodeVideo, TaskReencode, IInv, TypeOK
  <1>5. ASSUME NEW d \in MovieEditions, SetDefault(d)
        PROVE  IInv'
    BY <1>3, <1>5 DEF SetDefault, IInv, TypeOK, Editions
  <1>6. QED
    BY <1>1, <1>2, <1>4, <1>5

LEMMA NextIInv ==
  ASSUME IInv, [Next]_vars
  PROVE  IInv'
  <1>1. CASE TrashActions
    <2>1. ASSUME NEW x \in Rows, Trash(x) PROVE IInv'
      BY <2>1, TrashKeepsIInv
    <2>2. ASSUME NEW x \in Rows, Restore(x) PROVE IInv'
      <3>1. target' \in [Downloads -> Editions] /\ UNCHANGED <<active, playable, jobs>>
        BY <2>2 DEF Restore, videoVars, IInv, TypeOK
      <3>2. QED
        BY <2>2, <3>1, BringBackKeepsIInv DEF Restore
    <2>3. ASSUME NEW x \in Rows, Purge(x) PROVE IInv'
      <3>1. {x} \in SUBSET Roots /\ HardDelete({x})
        BY <2>3 DEF Purge, Roots
      <3>2. QED
        BY <3>1, HardDeleteKeepsIInv
    <2>4. ASSUME NEW old \in SUBSET Roots, PurgeTrashOnce(old) PROVE IInv'
      BY <2>4, HardDeleteKeepsIInv DEF PurgeTrashOnce
    <2>5. QED
      BY <1>1, <2>1, <2>2, <2>3, <2>4 DEF TrashActions
  <1>2. CASE VideoActions
    BY <1>2, VideoActionsKeep, VideoUploadCreateKeeps, LinkActionsKeep, DownloadCreateKeeps
    DEF VideoActions
  <1>3. CASE EditorActions
    BY <1>3, SeasonAddKeeps, SeasonEpisodeCreateKeeps, LinkActionsKeep, MoveKeepsIInv,
       VideoActionsKeep
    DEF EditorActions
  <1>4. CASE UNCHANGED vars
    BY <1>4 DEF vars, videoVars, IInv, TypeOK, TrashMirrorsRows, Roots, LinksHaveRows, Exists,
                NothingLost, ActiveHasLink, OneActive, ActiveOf, NewTogether
  <1>5. QED
    BY <1>1, <1>2, <1>3, <1>4 DEF Next

LEMMA InitIInv ==
  ASSUME Init
  PROVE  IInv
  <1>1. PICK f \in Firsts :
          /\ row = [r \in Rows |-> IF r \in f.rows THEN "live"
                                   ELSE IF r \in f.later THEN "new" ELSE "gone"]
          /\ trash = [r \in Rows |-> NoRow]
          /\ older = {}
          /\ link = [l \in Links |-> IF l \in f.links THEN "live" ELSE "none"]
          /\ active = {} /\ default = f.defaults /\ target = FirstTarget
          /\ playable = {} /\ jobs = {}
    BY DEF Init
  <1>2. /\ f.later \subseteq Rows \ f.rows /\ f.defaults \subseteq Editions
        /\ \A l \in f.links : {l[1], l[2]} \subseteq f.rows
        /\ \A v \in Videos : Source[v] \in f.later => v \in f.later
        /\ FirstTarget \in [Downloads -> Editions] /\ NoRow \notin Rows
        /\ f.rows \subseteq Rows
    BY LibraryAssumption
  <1>3. TypeOK
    BY <1>1, <1>2 DEF TypeOK
  <1>4. \A r \in Rows : /\ row[r] = IF r \in f.rows THEN "live"
                                    ELSE IF r \in f.later THEN "new" ELSE "gone"
                        /\ trash[r] = NoRow
    BY <1>1
  <1>5. Roots = {}
    BY <1>2, <1>4 DEF Roots
  <1>6. TrashMirrorsRows
    BY <1>1, <1>4, <1>5 DEF TrashMirrorsRows
  <1>7. LinksHaveRows /\ NothingLost
    BY <1>1, <1>2, <1>4 DEF LinksHaveRows, NothingLost, Exists, Ends
  <1>8. ActiveHasLink /\ OneActive
    BY <1>1 DEF ActiveHasLink, OneActive, ActiveOf
  <1>9. NewTogether
    BY <1>2, <1>4, SourceIsRow DEF NewTogether, Rows
  <1>10. QED
    BY <1>3, <1>6, <1>7, <1>8, <1>9 DEF IInv

-----------------------------------------------------------------------------
(* The theorems.                                                           *)

(* The inductive invariant holds in every library and stays.               *)
THEOREM Inductive == Spec => []IInv
  <1>1. Init => IInv
    BY InitIInv
  <1>2. IInv /\ [Next]_vars => IInv'
    BY NextIInv
  <1>3. QED
    BY <1>1, <1>2, PTL DEF Spec

(* Every variable keeps the type its declaration gives.                    *)
THEOREM TypeCorrect == Spec => []TypeOK
  <1>1. IInv => TypeOK
    BY DEF IInv
  <1>2. QED
    BY <1>1, Inductive, PTL

(* The table Trash and the columns DeletedAt never differ, through every   *)
(* cascade, restore and purge (trash.go).                                  *)
THEOREM TrashIsTrue == Spec => []TrashMirrorsRows
  <1>1. IInv => TrashMirrorsRows
    BY DEF IInv
  <1>2. QED
    BY <1>1, Inductive, PTL

(* A junction is hidden only while one of its rows is in the trash: what   *)
(* is restored in whatever order shows all its junctions again.            *)
THEOREM AllComesBack == Spec => []NothingLost
  <1>1. IInv => NothingLost
    BY DEF IInv
  <1>2. QED
    BY <1>1, Inductive, PTL

(* No work has two live active videos (active_video.go and the indexes).   *)
THEOREM OneIsActive == Spec => []OneActiveVideo
  <1>1. IInv => OneActiveVideo
    <2> SUFFICES ASSUME IInv, NEW h \in Holders
                 PROVE  Cardinality(ActiveOf(h)) <= 1
      BY DEF OneActiveVideo
    <2>1. CASE ActiveOf(h) = {}
      <3>1. Cardinality({}) = 0
        BY FS_EmptySet
      <3>2. QED
        BY <2>1, <3>1
    <2>2. CASE ActiveOf(h) # {}
      <3>1. PICK v \in ActiveOf(h) : TRUE
        BY <2>2
      <3>2. ActiveOf(h) = {v}
        BY <3>1 DEF IInv, OneActive
      <3>3. Cardinality({v}) = 1
        BY FS_Singleton
      <3>4. QED
        BY <3>2, <3>3
    <2>3. QED
      BY <2>1, <2>2
  <1>2. QED
    BY <1>1, Inductive, PTL

-----------------------------------------------------------------------------
(* The default edition.  It goes into the trash with its work only, so it  *)
(* is back when the work is.                                               *)

(* No page makes a trashed edition the default one.  MovieEditionSetDefault *)
(* does not look at DeletedAt: with a stale page the theorem below fails.  *)
FreshDefaults == StaleClicks \cap MovieEditions = {}

DefaultIsThere == \A d \in default : Live(d) \/ trash[d] = Parent[d]
DefaultOf(w, d) == d \in default /\ \A e \in default : Parent[e] = w <=> e = d
DefaultsStand ==
    /\ DefaultIsThere
    /\ \A w \in Works : Exists(w) => \E d \in default : DefaultOf(w, d)

(* The default editions stay, live or in the trash with their work.        *)
LEMMA SameDefaults ==
  ASSUME IInv, DefaultsStand, default' = default,
         \A d \in default : \/ Live(d)'
                            \/ trash'[d] = Parent[d]
                            \/ row'[d] = row[d] /\ trash'[d] = trash[d],
         \A w \in Works : Exists(w)' => Exists(w)
  PROVE  DefaultsStand'
  <1>1. DefaultIsThere'
    BY DEF DefaultsStand, DefaultIsThere, Live
  <1>2. QED
    BY <1>1 DEF DefaultsStand, DefaultOf

(* Of the editions, a cascade takes its root and those of its root.        *)
LEMMA CascadeEditions ==
  ASSUME NEW x \in Rows, NEW d \in Editions, d \in Cascade(x)
  PROVE  d = x \/ Parent[d] = x
  <1>1. d \in Subtree(x)
    BY Disjoint DEF Cascade, OrphanEpisodes, OrphanVideos
  <1>2. Refers(d) = Parent[d] /\ Parent[d] \in Works /\ Parent[d] # NoRow
    BY Disjoint, LibraryAssumption DEF Refers, Rows
  <1>3. \A w \in Works : Refers(w) = NoRow
    BY Disjoint, LibraryAssumption DEF Refers
  <1>4. \A w \in Works : w \in {x} \cup LiveChildren({x}) => w = x
    BY <1>3, LibraryAssumption DEF LiveChildren
  <1>5. QED
    BY <1>1, <1>2, <1>4 DEF Subtree, LiveChildren

LEMMA TrashKeepsDefaults ==
  ASSUME IInv, DefaultsStand, NEW x \in Rows, Trash(x)
  PROVE  DefaultsStand'
  <1> DEFINE dead == Cascade(x)
  <1>1. \A r \in Rows : /\ row'[r] = IF r \in dead THEN "trashed" ELSE row[r]
                        /\ trash'[r] = IF r \in dead THEN x ELSE trash[r]
    BY DEF Trash
  <1>2. \A r \in dead : r \in Rows /\ Live(r)
    BY CascadeIsLive DEF Trash
  <1>3. default \subseteq Editions /\ Editions \subseteq Rows
    BY DEF IInv, TypeOK, Rows
  <1>4. \A d \in default : d \in dead => d = x \/ Parent[d] = x
    BY <1>3, CascadeEditions
  <1>5. \A w \in Works : w \in Rows /\ (Exists(w)' => Exists(w))
    BY <1>1, <1>2 DEF Exists, Live, Rows
  <1> HIDE DEF dead
  <1>6. CASE x \notin default
    <2>1. default' = default
      BY <1>6 DEF Trash, PassDefaultOn
    <2>2. ASSUME NEW d \in default
          PROVE  \/ trash'[d] = Parent[d]
                 \/ row'[d] = row[d] /\ trash'[d] = trash[d]
      BY <1>1, <1>3, <1>4, <1>6
    <2>3. QED
      BY <1>5, <2>1, <2>2, SameDefaults
  <1>7. CASE x \in default
    <2>1. PICK d \in Editions \ {x} : /\ Parent[d] = Parent[x] /\ Live(d)
                                      /\ default' = (default \ {x}) \cup {d}
      BY <1>7 DEF Trash, PassDefaultOn
    <2>2. x \in Editions /\ \A e \in Editions : Parent[e] # x
      BY <1>3, <1>7, Disjoint, LibraryAssumption
    <2>3. \A e \in Editions \ {x} : row'[e] = row[e] /\ trash'[e] = trash[e]
      <3>1. \A e \in Editions \ {x} : e \notin dead
        BY <1>3, <2>2, CascadeEditions DEF dead
      <3>2. QED
        BY <1>1, <1>3, <3>1
    <2>4. DefaultIsThere'
      BY <1>3, <2>1, <2>3 DEF DefaultsStand, DefaultIsThere, Live
    <2>5. ASSUME NEW w \in Works, Exists(w)'
          PROVE  \E e \in default' : DefaultOf(w, e)'
      <3>1. PICK e \in default : DefaultOf(w, e)
        BY <1>5, <2>5 DEF DefaultsStand
      <3>2. CASE e = x
        BY <1>7, <2>1, <3>1, <3>2 DEF DefaultOf
      <3>3. CASE e # x
        BY <1>7, <2>1, <3>1, <3>3 DEF DefaultOf
      <3>4. QED
        BY <3>2, <3>3
    <2>6. QED
      BY <2>4, <2>5 DEF DefaultsStand
  <1>8. QED
    BY <1>6, <1>7

LEMMA BringBackKeepsDefaults ==
  ASSUME IInv, DefaultsStand, NEW x \in Rows, BringBack(x)
  PROVE  DefaultsStand'
  <1> DEFINE roots == RootsToRestore(x)
             back == InTrashOf(roots)
  <1>1. roots \subseteq Roots
    BY RootsAreRoots DEF BringBack, Roots
  <1>2. /\ row' = [r \in Rows |-> IF r \in back THEN "live" ELSE row[r]]
        /\ trash' = [r \in Rows |-> IF trash[r] \in roots THEN NoRow ELSE trash[r]]
        /\ default' = default \ roots
    BY DEF BringBack, RowsAfter
  <1>3. \A r \in Rows : r \in back <=> trash[r] \in roots
    BY DEF InTrashOf
  <1> HIDE DEF roots, back
  <1>4. default \subseteq Editions /\ Editions \subseteq Rows
    BY DEF IInv, TypeOK, Rows
  <1>5. \A d \in default : d \notin Roots
    <2>1. \A d \in Editions : Parent[d] # d
      BY Disjoint, LibraryAssumption
    <2>2. \A r \in Rows : Live(r) => trash[r] # r
      BY LibraryAssumption DEF IInv, TrashMirrorsRows, Live
    <2>3. QED
      BY <1>4, <2>1, <2>2 DEF DefaultsStand, DefaultIsThere, Roots
  <1>6. default' = default
    BY <1>1, <1>2, <1>5
  <1>7. \A r \in Rows :
          /\ r \in back => row'[r] = "live" /\ row[r] = "trashed"
          /\ r \notin back => row'[r] = row[r] /\ trash'[r] = trash[r]
    BY <1>1, <1>2, <1>3, LibraryAssumption DEF IInv, TrashMirrorsRows, Roots
  <1>8. ASSUME NEW d \in default
        PROVE  Live(d)' \/ (row'[d] = row[d] /\ trash'[d] = trash[d])
    <2>1. d \in Rows
      BY <1>4
    <2>2. row'[d] = "live" \/ (row'[d] = row[d] /\ trash'[d] = trash[d])
      BY <1>7, <2>1
    <2>3. QED
      BY <2>2 DEF Live
  <1>9. ASSUME NEW w \in Works, Exists(w)'
        PROVE  Exists(w)
    <2>1. w \in Rows
      BY DEF Rows
    <2>2. row[w] = "trashed" \/ row'[w] = row[w]
      BY <1>7, <2>1
    <2>3. QED
      BY <1>9, <2>2 DEF Exists
  <1>10. QED
    BY <1>6, <1>8, <1>9, SameDefaults

LEMMA HardDeleteKeepsDefaults ==
  ASSUME IInv, DefaultsStand, NEW roots \in SUBSET Roots, HardDelete(roots)
  PROVE  DefaultsStand'
  <1> DEFINE gone == InTrashOf(roots)
  <1>1. /\ row' = [r \in Rows |-> IF r \in gone THEN "gone" ELSE row[r]]
        /\ trash' = [r \in Rows |-> IF r \in gone THEN NoRow ELSE trash[r]]
        /\ default' = default \ gone
    BY DEF HardDelete
  <1>2. \A r \in Rows : r \in gone <=> trash[r] \in roots
    BY DEF InTrashOf
  <1> HIDE DEF gone
  <1>3. default \subseteq Editions /\ Editions \subseteq Rows /\ Works \subseteq Rows
    BY DEF IInv, TypeOK, Rows
  <1>4. DefaultIsThere'
    BY <1>1, <1>3 DEF DefaultsStand, DefaultIsThere, Live
  <1>5. ASSUME NEW w \in Works, Exists(w)'
        PROVE  \E d \in default' : DefaultOf(w, d)'
    <2>1. w \notin gone /\ Exists(w)
      BY <1>1, <1>3, <1>5 DEF Exists
    <2>2. PICK d \in default : DefaultOf(w, d)
      BY <2>1 DEF DefaultsStand
    <2>3. Parent[d] = w
      BY <2>2 DEF DefaultOf
    <2>4. d \notin gone
      <3>1. CASE Live(d)
        BY <1>2, <1>3, <3>1, LibraryAssumption DEF IInv, TrashMirrorsRows, Live, Roots
      <3>2. CASE trash[d] = w
        <4>1. trash[w] = w
          BY <1>3, <3>2, LibraryAssumption DEF IInv, TrashMirrorsRows
        <4>2. QED
          BY <1>2, <1>3, <2>1, <3>2, <4>1
      <3>3. QED
        BY <2>3, <3>1, <3>2 DEF DefaultsStand, DefaultIsThere
    <2>5. QED
      BY <1>1, <2>2, <2>4 DEF DefaultOf
  <1>6. QED
    BY <1>4, <1>5 DEF DefaultsStand

LEMMA CreateKeepsDefaults ==
  ASSUME IInv, DefaultsStand, NEW S \in SUBSET Rows, NEW lk, Create(S, lk),
         S \cap (Works \cup Editions) = {}
  PROVE  DefaultsStand'
  <1>1. /\ default' = default /\ trash' = trash
        /\ \A r \in Works \cup Editions : row'[r] = row[r]
    BY DEF Create, Rows
  <1>2. default \subseteq Editions
    BY DEF IInv, TypeOK
  <1>3. \A w \in Works : Exists(w)' => Exists(w)
    BY <1>1 DEF Exists
  <1>4. QED
    BY <1>1, <1>2, <1>3, SameDefaults

LEMMA SetDefaultKeepsDefaults ==
  ASSUME FreshDefaults, IInv, DefaultsStand, NEW d \in MovieEditions, SetDefault(d)
  PROVE  DefaultsStand'
  <1>1. PICK old \in default : Parent[old] = Parent[d]
                               /\ default' = (default \ {old}) \cup {d}
    BY DEF SetDefault
  <1>2. Live(d) /\ d \notin default /\ row' = row /\ trash' = trash
    BY DEF SetDefault, Offered, FreshDefaults
  <1>3. DefaultIsThere'
    BY <1>1, <1>2 DEF DefaultsStand, DefaultIsThere, Live
  <1>4. ASSUME NEW w \in Works, Exists(w)'
        PROVE  \E e \in default' : DefaultOf(w, e)'
    <2>1. PICK e \in default : DefaultOf(w, e)
      BY <1>2, <1>4 DEF DefaultsStand, Exists
    <2>2. CASE e = old
      BY <1>1, <2>1, <2>2 DEF DefaultOf
    <2>3. CASE e # old
      BY <1>1, <2>1, <2>3 DEF DefaultOf
    <2>4. QED
      BY <2>2, <2>3
  <1>5. QED
    BY <1>3, <1>4 DEF DefaultsStand

LEMMA NextDefaults ==
  ASSUME FreshDefaults, IInv, DefaultsStand, [Next]_vars
  PROVE  DefaultsStand'
  <1> USE DEF videoVars
  <1>1. ASSUME UNCHANGED <<row, trash, default>>
        PROVE  DefaultsStand'
    BY <1>1 DEF DefaultsStand, DefaultIsThere, DefaultOf, Live, Exists
  <1>2. CASE TrashActions
    <2>1. ASSUME NEW x \in Rows, Trash(x) PROVE DefaultsStand'
      BY <2>1, TrashKeepsDefaults
    <2>2. ASSUME NEW x \in Rows, Restore(x) PROVE DefaultsStand'
      BY <2>2, BringBackKeepsDefaults DEF Restore
    <2>3. ASSUME NEW x \in Rows, Purge(x) PROVE DefaultsStand'
      <3>1. {x} \in SUBSET Roots /\ HardDelete({x})
        BY <2>3 DEF Purge, Roots
      <3>2. QED
        BY <3>1, HardDeleteKeepsDefaults
    <2>4. ASSUME NEW old \in SUBSET Roots, PurgeTrashOnce(old) PROVE DefaultsStand'
      BY <2>4, HardDeleteKeepsDefaults DEF PurgeTrashOnce
    <2>5. QED
      BY <1>2, <2>1, <2>2, <2>3, <2>4 DEF TrashActions
  <1>3. CASE VideoActions
    <2>1. ASSUME NEW v \in Videos,
                 RecomputePlayable(v) \/ ReencodeVideo(v) \/ TaskReencode(v)
          PROVE  DefaultsStand'
      BY <1>1, <2>1 DEF RecomputePlayable, ReencodeVideo, TaskReencode
    <2>2. ASSUME NEW h \in Holders, NEW v \in Videos, SetActive(h, v)
          PROVE  DefaultsStand'
      BY <1>1, <2>2 DEF SetActive
    <2>3. ASSUME NEW h \in Holders, NEW v \in Videos, VideoUploadCreate(v, h)
          PROVE  DefaultsStand'
      <3>1. {v} \in SUBSET Rows /\ {v} \cap (Works \cup Editions) = {}
        BY Disjoint DEF Rows
      <3>2. Create({v}, {<<h, v>>})
        BY <2>3 DEF VideoUploadCreate
      <3>3. QED
        BY <3>1, <3>2, CreateKeepsDefaults
    <2>4. ASSUME NEW e \in Episodes, NEW v \in Videos, Attach(e, v) \/ Detach(e, v)
          PROVE  DefaultsStand'
      BY <1>1, <2>4 DEF Attach, Detach, SetLinks
    <2>5. ASSUME NEW d \in Downloads, NEW ed \in Editions, DownloadCreate(d, ed)
          PROVE  DefaultsStand'
      <3> DEFINE S == {d} \cup {v \in Videos : Source[v] = d}
      <3>1. S \in SUBSET Rows /\ S \cap (Works \cup Editions) = {}
        BY Disjoint DEF Rows
      <3>2. CASE Create(S, {})
        <4> HIDE DEF S
        <4>1. QED
          BY <3>1, <3>2, CreateKeepsDefaults
      <3>3. CASE BringBack(d)
        <4>1. d \in Rows
          BY DEF Rows
        <4>2. QED
          BY <3>3, <4>1, BringBackKeepsDefaults
      <3>4. QED
        BY <2>5, <3>2, <3>3 DEF DownloadCreate
    <2>6. QED
      BY <1>3, <2>1, <2>2, <2>3, <2>4, <2>5 DEF VideoActions
  <1>4. CASE EditorActions
    <2>1. ASSUME NEW n \in Seasons, SeasonAdd(n)
          PROVE  DefaultsStand'
      <3>1. {n} \in SUBSET Rows /\ {n} \cap (Works \cup Editions) = {}
        BY Disjoint DEF Rows
      <3>2. QED
        BY <2>1, <3>1, CreateKeepsDefaults DEF SeasonAdd
    <2>2. ASSUME NEW n \in Seasons, NEW e \in Episodes, SeasonEpisodeCreate(n, e)
          PROVE  DefaultsStand'
      <3>1. {e} \in SUBSET Rows /\ {e} \cap (Works \cup Editions) = {}
        BY Disjoint DEF Rows
      <3>2. Create({e}, {<<n, e>>})
        BY <2>2 DEF SeasonEpisodeCreate
      <3>3. QED
        BY <3>1, <3>2, CreateKeepsDefaults
    <2>3. ASSUME NEW n \in Seasons, NEW e \in Episodes,
                 SeasonEpisodeAdd(n, e) \/ SeasonEpisodeRemove(n, e)
          PROVE  DefaultsStand'
      BY <1>1, <2>3 DEF SeasonEpisodeAdd, SeasonEpisodeRemove, SetLinks
    <2>4. ASSUME NEW e \in Episodes, NEW n \in Seasons, NEW m \in Seasons,
                 EpisodeMove(e, n, m)
          PROVE  DefaultsStand'
      BY <1>1, <2>4 DEF EpisodeMove
    <2>5. ASSUME NEW c \in Collections, NEW w \in Works,
                 CollectionAdd(c, w) \/ CollectionRemove(c, w)
          PROVE  DefaultsStand'
      BY <1>1, <2>5 DEF CollectionAdd, CollectionRemove, SetLinks
    <2>6. QED
      BY <1>4, <2>1, <2>2, <2>3, <2>4, <2>5, SetDefaultKeepsDefaults DEF EditorActions
  <1>5. CASE UNCHANGED vars
    BY <1>1, <1>5 DEF vars
  <1>6. QED
    BY <1>2, <1>3, <1>4, <1>5 DEF Next

LEMMA InitDefaults ==
  ASSUME Init
  PROVE  DefaultsStand
  <1>1. PICK f \in Firsts :
          /\ row = [r \in Rows |-> IF r \in f.rows THEN "live"
                                   ELSE IF r \in f.later THEN "new" ELSE "gone"]
          /\ default = f.defaults
    BY DEF Init
  <1>2. f.defaults \subseteq Editions \cap f.rows /\ f.later \subseteq Rows \ f.rows
        /\ f.rows \subseteq Rows
    BY LibraryAssumption
  <1>3. DefaultIsThere
    BY <1>1, <1>2 DEF DefaultIsThere, Live
  <1>4. ASSUME NEW w \in Works, Exists(w)
        PROVE  \E d \in default : DefaultOf(w, d)
    <2>1. w \in f.rows
      BY <1>1, <1>4 DEF Exists, Rows
    <2>2. PICK d \in f.defaults : {e \in f.defaults : Parent[e] = w} = {d}
      BY <2>1, LibraryAssumption
    <2>3. \A e \in f.defaults : Parent[e] = w <=> e = d
      BY <2>2
    <2>4. QED
      BY <1>1, <2>3 DEF DefaultOf
  <1>5. QED
    BY <1>3, <1>4 DEF DefaultsStand

LEMMA OneOfThem ==
  ASSUME IInv, DefaultsStand
  PROVE  OneDefaultEdition
  <1> SUFFICES ASSUME NEW w \in Works, Live(w)
               PROVE  Cardinality({d \in default : Parent[d] = w /\ Live(d)}) = 1
    BY DEF OneDefaultEdition
  <1>1. PICK d \in default : DefaultOf(w, d)
    BY DEF DefaultsStand, Live, Exists
  <1>2. Live(d)
    <2>1. w \in Rows /\ d \in Rows /\ Parent[d] = w
      BY <1>1 DEF Rows, IInv, TypeOK, DefaultOf
    <2>2. trash[d] # w
      BY <2>1, LibraryAssumption DEF IInv, TrashMirrorsRows, Live
    <2>3. QED
      BY <2>1, <2>2 DEF DefaultsStand, DefaultIsThere
  <1>3. {e \in default : Parent[e] = w /\ Live(e)} = {d}
    BY <1>1, <1>2 DEF DefaultOf
  <1>4. Cardinality({d}) = 1
    BY FS_Singleton
  <1>5. QED
    BY <1>3, <1>4

(* Every live work has one live default edition, if no page makes a        *)
(* trashed edition the default (trash.go, movie_edition.go).               *)
THEOREM DefaultIsOne ==
  ASSUME FreshDefaults
  PROVE  Spec => []OneDefaultEdition
  <1>1. Init => IInv /\ DefaultsStand
    BY InitIInv, InitDefaults
  <1>2. (IInv /\ DefaultsStand) /\ [Next]_vars => (IInv /\ DefaultsStand)'
    BY NextIInv, NextDefaults
  <1>3. IInv /\ DefaultsStand => OneDefaultEdition
    BY OneOfThem
  <1>4. QED
    BY <1>1, <1>2, <1>3, PTL DEF Spec

-----------------------------------------------------------------------------
(* What single steps never do.                                             *)

(* The rows in S come into being, and no other changes.                    *)
Grows(S) ==
    /\ \A r \in S : /\ row[r] = "new" /\ r \notin Editions
                    /\ r \in Seasons => Exists(Parent[r])
    /\ row' = [r \in Rows |-> IF r \in S THEN "live" ELSE row[r]]
    /\ trash' = trash

(* The foreign keys let the rows of roots go.                              *)
Unreferenced(roots) ==
    \A r \in Rows : Exists(r) /\ Refers(r) \in InTrashOf(roots)
                       => r \in InTrashOf(roots)

LEMMA Kinds ==
  ASSUME IInv, [Next]_vars
  PROVE  \/ \E S \in SUBSET Rows : Grows(S)
         \/ \E x \in Rows : Trash(x) \/ BringBack(x)
         \/ \E roots \in SUBSET Roots : HardDelete(roots) /\ Unreferenced(roots)
  <1>1. ASSUME row' = row, trash' = trash
        PROVE  \E S \in SUBSET Rows : Grows(S)
    <2>1. row' = [r \in Rows |-> IF r \in {} THEN "live" ELSE row[r]]
      BY <1>1 DEF IInv, TypeOK
    <2>2. Grows({}) /\ {} \in SUBSET Rows
      BY <1>1, <2>1 DEF Grows
    <2>3. QED
      BY <2>2
  <1>2. ASSUME NEW S \in SUBSET Rows, NEW lk, Create(S, lk),
               \A r \in S : /\ row[r] = "new" /\ r \notin Editions
                            /\ r \in Seasons => Exists(Parent[r])
        PROVE  \E T \in SUBSET Rows : Grows(T)
    BY <1>2 DEF Grows, Create
  <1>3. CASE TrashActions
    <2>1. ASSUME NEW x \in Rows, Purge(x)
          PROVE  \E roots \in SUBSET Roots : HardDelete(roots) /\ Unreferenced(roots)
      <3>1. {x} \in SUBSET Roots /\ HardDelete({x})
        BY <2>1 DEF Purge, Roots
      <3>2. Unreferenced({x})
        BY <2>1 DEF Purge, Blocked, Unreferenced
      <3>3. QED
        BY <3>1, <3>2
    <2>2. ASSUME NEW old \in SUBSET Roots, PurgeTrashOnce(old)
          PROVE  \E roots \in SUBSET Roots : HardDelete(roots) /\ Unreferenced(roots)
      <3>1. Unreferenced(old)
        <4> SUFFICES ASSUME NEW r \in Rows, Exists(r), Refers(r) \in InTrashOf(old)
                     PROVE  r \in InTrashOf(old)
          BY DEF Unreferenced
        <4>1. PICK x \in old : Refers(r) \in InTrashOf({x})
          BY DEF InTrashOf
        <4> DEFINE before == InTrashOf({y \in old : <<x, y>> \in older})
        <4>2. ~Blocked(x, before)
          BY <2>2 DEF PurgeTrashOnce, LoopBlocked
        <4>3. r \in before \/ r \in InTrashOf({x})
          BY <4>1, <4>2 DEF Blocked
        <4>4. QED
          BY <4>3 DEF InTrashOf
      <3>2. QED
        BY <2>2, <3>1 DEF PurgeTrashOnce
    <2>3. QED
      BY <1>3, <2>1, <2>2 DEF TrashActions, Restore
  <1>4. CASE VideoActions
    <2>1. ASSUME NEW d \in Downloads, NEW ed \in Editions, DownloadCreate(d, ed)
          PROVE  (\E S \in SUBSET Rows : Grows(S)) \/ (\E x \in Rows : BringBack(x))
      <3> DEFINE S == {d} \cup {v \in Videos : Source[v] = d}
      <3>1. CASE row[d] = "new" /\ Create(S, {})
        <4>1. S \in SUBSET Rows /\ \A r \in S : r \notin Editions /\ r \notin Seasons
          BY Disjoint DEF Rows
        <4>2. \A r \in S : row[r] = "new"
          BY <3>1 DEF IInv, NewTogether
        <4>3. QED
          BY <1>2, <3>1, <4>1, <4>2
      <3>2. CASE BringBack(d)
        BY <3>2 DEF Rows
      <3>3. QED
        BY <2>1, <3>1, <3>2 DEF DownloadCreate
    <2>2. ASSUME NEW v \in Videos, NEW h \in Holders, VideoUploadCreate(v, h)
          PROVE  \E S \in SUBSET Rows : Grows(S)
      <3>1. {v} \in SUBSET Rows /\ v \notin Editions /\ v \notin Seasons
        BY Disjoint DEF Rows
      <3>2. QED
        BY <1>2, <2>2, <3>1 DEF VideoUploadCreate
    <2>3. ASSUME \/ \E v \in Videos : RecomputePlayable(v) \/ ReencodeVideo(v) \/ TaskReencode(v)
                 \/ \E h \in Holders, v \in Videos : SetActive(h, v)
                 \/ \E e \in Episodes, v \in Videos : Attach(e, v) \/ Detach(e, v)
          PROVE  row' = row /\ trash' = trash
      BY <2>3 DEF RecomputePlayable, ReencodeVideo, TaskReencode, SetActive, Attach, Detach,
         SetLinks
    <2>4. QED
      BY <1>1, <1>4, <2>1, <2>2, <2>3 DEF VideoActions
  <1>5. CASE EditorActions
    <2>1. ASSUME NEW n \in Seasons, SeasonAdd(n)
          PROVE  \E S \in SUBSET Rows : Grows(S)
      <3>1. {n} \in SUBSET Rows /\ n \notin Editions
        BY Disjoint DEF Rows
      <3>2. Exists(Parent[n]) /\ row[n] = "new" /\ Create({n}, {})
        BY <2>1, OfferedExists DEF SeasonAdd
      <3>3. QED
        BY <1>2, <3>1, <3>2
    <2>2. ASSUME NEW n \in Seasons, NEW e \in Episodes, SeasonEpisodeCreate(n, e)
          PROVE  \E S \in SUBSET Rows : Grows(S)
      <3>1. {e} \in SUBSET Rows /\ e \notin Editions /\ e \notin Seasons
        BY Disjoint DEF Rows
      <3>2. QED
        BY <1>2, <2>2, <3>1 DEF SeasonEpisodeCreate
    <2>3. ASSUME \/ \E n \in Seasons, e \in Episodes : SeasonEpisodeAdd(n, e)
                                                      \/ SeasonEpisodeRemove(n, e)
                 \/ \E e \in Episodes, n, m \in Seasons : EpisodeMove(e, n, m)
                 \/ \E d \in MovieEditions : SetDefault(d)
                 \/ \E c \in Collections, w \in Works : CollectionAdd(c, w)
                                                       \/ CollectionRemove(c, w)
          PROVE  row' = row /\ trash' = trash
      BY <2>3 DEF SeasonEpisodeAdd, SeasonEpisodeRemove, EpisodeMove, SetDefault,
         CollectionAdd, CollectionRemove, SetLinks
    <2>4. QED
      BY <1>1, <1>5, <2>1, <2>2, <2>3 DEF EditorActions
  <1>6. CASE UNCHANGED vars
    BY <1>1, <1>6 DEF vars
  <1>7. QED
    BY <1>3, <1>4, <1>5, <1>6 DEF Next

(* A cascade hides the junctions of what it takes, a restore shows those   *)
(* with both rows live.                                                    *)
LEMMA StepKeepsJunctions ==
  ASSUME IInv, [Next]_vars, NEW l \in Links, link'[l] = "live",
         \/ link[l] = "dead" /\ Roots' # Roots
         \/ \E r \in Ends(l) : Live(r) /\ row'[r] = "trashed",
         NEW q \in Ends(l)
  PROVE  row'[q] = "live"
  <1>1. Ends(l) \subseteq Rows
    BY LinkEnds
  <1>2. ASSUME NEW S \in SUBSET Rows, Grows(S) PROVE FALSE
    <2>1. Roots' = Roots
      BY <1>2 DEF Grows, Roots
    <2>2. \A r \in Rows : Live(r) => row'[r] # "trashed"
      BY <1>2 DEF Grows, Live
    <2>3. QED
      BY <1>1, <2>1, <2>2
  <1>3. ASSUME NEW x \in Rows, Trash(x) PROVE FALSE
    <2> DEFINE dead == Cascade(x)
    <2>1. /\ row' = [r \in Rows |-> IF r \in dead THEN "trashed" ELSE row[r]]
          /\ link' = [k \in Links |-> IF link[k] = "live" /\ Ends(k) \cap dead # {}
                                      THEN "dead" ELSE link[k]]
      BY <1>3 DEF Trash
    <2> HIDE DEF dead
    <2>2. link[l] = "live" /\ Ends(l) \cap dead = {}
      BY <2>1
    <2>3. QED
      BY <1>1, <2>1, <2>2 DEF Live
  <1>4. ASSUME NEW x \in Rows, BringBack(x) PROVE row'[q] = "live"
    <2> DEFINE back == InTrashOf(RootsToRestore(x))
               again == RestoredLinks(back)
    <2>1. /\ row' = [r \in Rows |-> IF r \in back THEN "live" ELSE row[r]]
          /\ link' = [k \in Links |-> IF k \in again THEN "live" ELSE link[k]]
      BY <1>4 DEF BringBack, RowsAfter, LinksAfter
    <2>2. l \in again => \A r \in Ends(l) : row[r] = "live" \/ r \in back
      BY DEF RestoredLinks, Live
    <2> HIDE DEF again, back
    <2>3. \A r \in Rows : Live(r) => row'[r] = "live"
      BY <2>1 DEF Live
    <2>4. l \in again
      BY <1>1, <2>1, <2>3
    <2>5. QED
      BY <1>1, <2>1, <2>2, <2>4
  <1>5. ASSUME NEW roots \in SUBSET Roots, HardDelete(roots) PROVE FALSE
    <2> DEFINE gone == InTrashOf(roots)
    <2>1. /\ row' = [r \in Rows |-> IF r \in gone THEN "gone" ELSE row[r]]
          /\ link' = [k \in Links |-> IF Ends(k) \cap gone # {} THEN "none" ELSE link[k]]
      BY <1>5 DEF HardDelete
    <2> HIDE DEF gone
    <2>2. link[l] = "live"
      BY <2>1
    <2>3. QED
      BY <1>1, <2>1, <2>2 DEF Live
  <1>6. QED
    BY <1>2, <1>3, <1>4, <1>5, Kinds

(* A cascade leaves no page with a junction to a row it took, and a        *)
(* restore revives none to a row that stays in the trash.                  *)
THEOREM JunctionsHaveEnds == Spec => NoDanglingJunction
  <1> DEFINE A == \A l \in Links :
                    /\ l[2] \notin Videos
                    /\ link'[l] = "live"
                    /\ \/ link[l] = "dead" /\ Roots' # Roots
                       \/ \E r \in Ends(l) : Live(r) /\ row'[r] = "trashed"
                    => \A r \in Ends(l) : row'[r] = "live"
  <1>1. IInv /\ [Next]_vars => A
    BY StepKeepsJunctions
  <1>2. Spec => [][A]_vars
    <2> HIDE DEF A
    <2>1. QED
      BY <1>1, Inductive, PTL DEF Spec
  <1>3. QED
    BY <1>2 DEF NoDanglingJunction

-----------------------------------------------------------------------------
(* What a cascade takes.                                                   *)

(* Editions of a work, seasons and downloads of an edition: by the columns *)
(* of the rows.                                                            *)
LEMMA RefersTo ==
  /\ \A r \in Works \cup Episodes \cup Videos : Refers(r) = NoRow
  /\ \A r \in Editions \cup Seasons : Refers(r) = Parent[r] /\ Parent[r] \in Rows
  /\ \A r \in Editions : Parent[r] \in Works
  /\ \A r \in Seasons : Parent[r] \in Editions
  /\ NoRow \notin Rows
  /\ DOMAIN Parent = Editions \cup Seasons
  <1>1. /\ DOMAIN Parent = Editions \cup Seasons /\ NoRow \notin Rows
        /\ \A r \in Editions : Parent[r] \in Works
        /\ \A r \in Seasons : Parent[r] \in SeriesEditions
    BY LibraryAssumption
  <1>2. QED
    BY <1>1, Disjoint DEF Refers, Editions, Rows

(* The tree below x: everything but x is in it with what it refers to, and *)
(* whatever is live and refers to a work or an edition in it is in it too. *)
LEMMA Trees ==
  ASSUME NEW x \in Rows, Live(x)
  PROVE  /\ \A r \in Subtree(x) \ {x} : /\ r \in Rows /\ Live(r)
                                       /\ Refers(r) \in Subtree(x)
         /\ \A r \in Editions \cup Seasons :
              Live(r) /\ Parent[r] \in Subtree(x) => r \in Subtree(x)
         /\ \A r \in Subtree(x) \cap Works : r = x
         /\ \A r \in Subtree(x) \cap Editions : x = r \/ x \in Works
         /\ \A r \in Subtree(x) \cap Seasons : x = r \/ x \in Editions \/ x \in Works
         /\ \A r \in Subtree(x) \cap (Episodes \cup Videos) : x = r
  <1> DEFINE below == {x} \cup LiveChildren({x})
             tree == Subtree(x)
  <1>1. \A r : r \in below <=> r = x \/ (r \in Rows /\ Live(r) /\ Refers(r) = x)
    BY DEF LiveChildren
  <1>2. \A r : r \in tree <=> r \in below \/ (r \in Rows /\ Live(r) /\ Refers(r) \in below)
    BY DEF Subtree, LiveChildren
  <1>3. NoRow \notin below
    BY <1>1, RefersTo
  <1> HIDE DEF below, tree
  <1>4. \A r \in tree \ {x} : r \in Rows /\ Live(r) /\ Refers(r) \in tree
    BY <1>1, <1>2
  <1>5. \A r \in tree \cap (Works \cup Episodes \cup Videos) : r = x
    BY <1>1, <1>2, <1>3, RefersTo
  <1>6. \A r \in below \cap Works : r = x
    BY <1>2, <1>5
  <1>7. \A r \in tree \cap Editions : r = x \/ (Parent[r] = x /\ x \in Works /\ r \in below)
    BY <1>1, <1>2, <1>6, RefersTo
  <1>8. \A r \in tree \cap Seasons : r = x \/ x \in Editions \/ x \in Works
    <2> SUFFICES ASSUME NEW r \in tree \cap Seasons, r # x
                 PROVE  x \in Editions \/ x \in Works
      OBVIOUS
    <2>1. Parent[r] \in Editions /\ Parent[r] \in tree
      BY <1>4, RefersTo
    <2>2. QED
      BY <1>7, <2>1
  <1>9. ASSUME NEW r \in Editions \cup Seasons, Live(r), Parent[r] \in tree
        PROVE  r \in tree
    <2>1. Parent[r] \in below
      <3>1. CASE r \in Editions
        BY <1>1, <1>5, <1>9, <3>1, RefersTo
      <3>2. CASE r \in Seasons
        BY <1>1, <1>7, <1>9, <3>2, RefersTo
      <3>3. QED
        BY <3>1, <3>2
    <2>2. r \in Rows /\ Refers(r) = Parent[r]
      BY RefersTo DEF Rows
    <2>3. QED
      BY <1>2, <1>9, <2>1, <2>2
  <1>10. QED
    BY <1>4, <1>5, <1>7, <1>8, <1>9 DEF tree

(* What shows an episode or a video that is reaped goes with it.           *)
LEMMA ReapedIsAlone ==
  ASSUME NEW x \in Rows, Live(x), NEW r \in (Episodes \cup Videos) \cap Cascade(x), r # x
  PROVE  /\ \A l \in Links : link[l] = "live" /\ l[2] = r => l[1] \in Cascade(x)
         /\ r \in Videos /\ Source[r] \in Downloads
              => Source[r] \in Cascade(x) \/ ~Live(Source[r])
  <1> DEFINE tree == Subtree(x)
             eps == tree \cup OrphanEpisodes(tree)
  <1>1. Cascade(x) = eps \cup OrphanVideos(eps)
    BY DEF Cascade
  <1>2. r \notin tree
    BY Trees
  <1>3. \A l \in Links : l[2] \in Episodes => l[1] \in Seasons /\ l = <<l[1], l[2]>>
    BY Disjoint DEF Links, Works, Holders
  <1>4. \A l \in Links : l[2] \in Videos => l[1] \in Holders /\ l = <<l[1], l[2]>>
    BY Disjoint DEF Links, Works, Holders
  <1> HIDE DEF tree
  <1>5. CASE r \in Episodes
    <2>1. r \notin OrphanVideos(eps) /\ r \notin Videos
      BY <1>5, Disjoint DEF OrphanVideos
    <2>2. r \in OrphanEpisodes(tree)
      BY <1>1, <1>2, <2>1
    <2>3. \A n \in Seasons \ tree : link[<<n, r>>] # "live"
      BY <2>2 DEF OrphanEpisodes
    <2>4. QED
      BY <1>1, <1>3, <1>5, <2>1, <2>3
  <1>6. CASE r \in Videos
    <2>1. r \notin OrphanEpisodes(tree)
      BY <1>6, Disjoint DEF OrphanEpisodes
    <2>2. r \in OrphanVideos(eps)
      BY <1>1, <1>2, <2>1
    <2> HIDE DEF eps
    <2>3. /\ \A h \in Holders \ eps : link[<<h, r>>] # "live"
          /\ ~(Source[r] \in Downloads \ eps /\ Live(Source[r]))
      BY <2>2 DEF OrphanVideos
    <2>4. \A l \in Links : link[l] = "live" /\ l[2] = r => l[1] \in Cascade(x)
      BY <1>1, <1>4, <1>6, <2>3
    <2>5. QED
      BY <1>1, <2>3, <2>4
  <1>7. QED
    BY <1>5, <1>6

LEMMA StepSpares ==
  ASSUME IInv, [Next]_vars, NEW r \in Episodes \cup Videos,
         Live(r), row'[r] = "trashed", trash'[r] # r
  PROVE  /\ \A l \in Links : link[l] = "live" /\ l[2] = r => row'[l[1]] = "trashed"
         /\ r \in Videos /\ Source[r] \in Downloads => row'[Source[r]] # "live"
  <1>1. r \in Rows
    BY DEF Rows
  <1>2. ASSUME NEW S \in SUBSET Rows, Grows(S) PROVE FALSE
    BY <1>1, <1>2 DEF Grows, Live
  <1>3. ASSUME NEW x \in Rows, BringBack(x) PROVE FALSE
    BY <1>1, <1>3 DEF BringBack, RowsAfter, Live
  <1>4. ASSUME NEW roots \in SUBSET Roots, HardDelete(roots) PROVE FALSE
    BY <1>1, <1>4 DEF HardDelete, Live
  <1>5. ASSUME NEW x \in Rows, Trash(x)
        PROVE  /\ \A l \in Links : link[l] = "live" /\ l[2] = r => row'[l[1]] = "trashed"
               /\ r \in Videos /\ Source[r] \in Downloads => row'[Source[r]] # "live"
    <2> DEFINE dead == Cascade(x)
    <2>1. /\ row' = [q \in Rows |-> IF q \in dead THEN "trashed" ELSE row[q]]
          /\ trash' = [q \in Rows |-> IF q \in dead THEN x ELSE trash[q]]
          /\ Live(x)
      BY <1>5 DEF Trash
    <2> HIDE DEF dead
    <2>2. r \in dead /\ r # x
      BY <1>1, <2>1 DEF Live
    <2>3. /\ \A l \in Links : link[l] = "live" /\ l[2] = r => l[1] \in dead
          /\ r \in Videos /\ Source[r] \in Downloads
               => Source[r] \in dead \/ ~Live(Source[r])
      BY <2>1, <2>2, ReapedIsAlone DEF dead
    <2>4. \A l \in Links : l[1] \in Rows
      BY LinkEnds DEF Ends
    <2>5. \A q \in Rows : row'[q] = IF q \in dead THEN "trashed" ELSE row[q]
      BY <2>1
    <2>6. r \in Videos /\ Source[r] \in Downloads => row'[Source[r]] # "live"
      BY <2>3, <2>5, SourceIsRow DEF Live
    <2>7. QED
      BY <2>3, <2>4, <2>5, <2>6
  <1>6. QED
    BY <1>2, <1>3, <1>4, <1>5, Kinds

(* A cascade reaps an episode or a video only together with all that shows *)
(* it, and with the download it came from.                                 *)
THEOREM SharedStays == Spec => SharedIsSpared
  <1> DEFINE A == \A r \in Episodes \cup Videos :
                    Live(r) /\ row'[r] = "trashed" /\ trash'[r] # r
                    => /\ \A l \in Links :
                            link[l] = "live" /\ l[2] = r => row'[l[1]] = "trashed"
                       /\ r \in Videos /\ Source[r] \in Downloads
                            => row'[Source[r]] # "live"
  <1>1. IInv /\ [Next]_vars => A
    BY StepSpares
  <1>2. Spec => [][A]_vars
    <2> HIDE DEF A
    <2>1. QED
      BY <1>1, Inductive, PTL DEF Spec
  <1>3. QED
    BY <1>2 DEF SharedIsSpared

-----------------------------------------------------------------------------
(* Parents.                                                                *)

(* What a cascade took by way of its parent is in the trash with it.       *)
CascadesAreWhole ==
    \A r \in Editions \cup Seasons :
        trash[r] \notin {NoRow, r} => trash[Parent[r]] = trash[r]

(* The root of a cascade is above what it took.                            *)
RootsAreAbove ==
    /\ \A r \in Works : trash[r] \in {NoRow, r}
    /\ \A r \in Editions : trash[r] \in {NoRow, r} \cup Works
    /\ \A r \in Seasons : trash[r] \in {NoRow, r} \cup Editions \cup Works
    /\ \A r \in Episodes : trash[r] \in {NoRow, r} \cup Seasons \cup Editions \cup Works

(* No row outlives its parent.                                             *)
ParentsExist == \A r \in Editions \cup Seasons : Exists(r) => Exists(Parent[r])

ParentsInv == CascadesAreWhole /\ RootsAreAbove /\ ParentsExist

LEMMA TrashKeepsParents ==
  ASSUME IInv, ParentsInv, NEW x \in Rows, Trash(x)
  PROVE  ParentsInv'
  <1> DEFINE tree == Subtree(x)
             dead == Cascade(x)
  <1>1. /\ Live(x)
        /\ row' = [r \in Rows |-> IF r \in dead THEN "trashed" ELSE row[r]]
        /\ trash' = [r \in Rows |-> IF r \in dead THEN x ELSE trash[r]]
    BY DEF Trash
  <1>2. /\ x \in dead /\ dead \subseteq Rows /\ \A r \in dead : Live(r) /\ trash[r] = NoRow
    BY <1>1, CascadeIsLive DEF IInv, TrashMirrorsRows, Live
  <1>3. /\ \A r \in Works \cup Editions \cup Seasons : r \in dead <=> r \in tree
        /\ tree \subseteq dead
        /\ \A r \in Episodes : r \in dead => r \in tree \/ tree \cap Seasons # {}
    BY Disjoint DEF Cascade, OrphanEpisodes, OrphanVideos
  <1>4. /\ \A r \in tree \ {x} : Refers(r) \in tree
        /\ \A r \in tree \cap Works : r = x
        /\ \A r \in tree \cap Editions : x = r \/ x \in Works
        /\ \A r \in tree \cap Seasons : x = r \/ x \in Editions \/ x \in Works
        /\ \A r \in tree \cap Episodes : x = r
    BY <1>1, Trees
  <1>5. \A r \in Rows : /\ row'[r] = IF r \in dead THEN "trashed" ELSE row[r]
                        /\ trash'[r] = IF r \in dead THEN x ELSE trash[r]
    BY <1>1
  <1> HIDE DEF tree, dead
  <1>6. CascadesAreWhole'
    <2> SUFFICES ASSUME NEW r \in Editions \cup Seasons, trash'[r] \notin {NoRow, r}
                 PROVE  trash'[Parent[r]] = trash'[r]
      BY DEF CascadesAreWhole
    <2>1. r \in Rows /\ Parent[r] \in Rows /\ Refers(r) = Parent[r]
      BY RefersTo DEF Rows
    <2>2. CASE r \in dead
      <3>1. r \in tree \ {x}
        BY <1>3, <1>5, <2>1, <2>2
      <3>2. Parent[r] \in dead
        BY <1>3, <1>4, <2>1, <3>1
      <3>3. QED
        BY <1>5, <2>1, <2>2, <3>2
    <2>3. CASE r \notin dead
      <3>1. trash'[r] = trash[r] /\ trash[Parent[r]] = trash[r] /\ trash[r] # NoRow
        BY <1>5, <2>1, <2>3 DEF ParentsInv, CascadesAreWhole
      <3>2. Parent[r] \notin dead
        BY <1>2, <3>1
      <3>3. QED
        BY <1>5, <2>1, <3>1, <3>2
    <2>4. QED
      BY <2>2, <2>3
  <1>7. RootsAreAbove'
    <2>1. \A r \in Works \cup Editions \cup Seasons \cup Episodes : r \in Rows
      BY DEF Rows
    <2>2. \A r \in Works : trash'[r] \in {NoRow, r}
      BY <1>3, <1>4, <1>5, <2>1 DEF ParentsInv, RootsAreAbove
    <2>3. \A r \in Editions : trash'[r] \in {NoRow, r} \cup Works
      BY <1>3, <1>4, <1>5, <2>1 DEF ParentsInv, RootsAreAbove
    <2>4. \A r \in Seasons : trash'[r] \in {NoRow, r} \cup Editions \cup Works
      BY <1>3, <1>4, <1>5, <2>1 DEF ParentsInv, RootsAreAbove
    <2>5. \A r \in Episodes : r \in dead =>
             x \in {r} \cup Seasons \cup Editions \cup Works
      BY <1>3, <1>4
    <2>6. \A r \in Episodes : trash'[r] \in {NoRow, r} \cup Seasons \cup Editions \cup Works
      BY <1>5, <2>1, <2>5 DEF ParentsInv, RootsAreAbove
    <2>7. QED
      BY <2>2, <2>3, <2>4, <2>6 DEF RootsAreAbove
  <1>8. \A r \in Rows : Exists(r)' <=> Exists(r)
    BY <1>2, <1>5 DEF Exists, Live
  <1>9. ParentsExist'
    BY <1>8, RefersTo DEF ParentsInv, ParentsExist, Rows
  <1>10. QED
    BY <1>6, <1>7, <1>9 DEF ParentsInv

(* Whole cascades leave the trash.                                         *)
LEMMA LeavingKeepsParents ==
  ASSUME IInv, ParentsInv, NEW roots \in SUBSET Roots,
         trash' = [r \in Rows |-> IF trash[r] \in roots THEN NoRow ELSE trash[r]]
  PROVE  CascadesAreWhole' /\ RootsAreAbove'
  <1>1. \A r \in Rows : trash'[r] = IF trash[r] \in roots THEN NoRow ELSE trash[r]
    OBVIOUS
  <1>2. \A r \in Works \cup Editions \cup Seasons \cup Episodes : r \in Rows
    BY DEF Rows
  <1>3. CascadesAreWhole'
    BY <1>1, <1>2, RefersTo DEF ParentsInv, CascadesAreWhole
  <1>4. RootsAreAbove'
    BY <1>1, <1>2 DEF ParentsInv, RootsAreAbove
  <1>5. QED
    BY <1>3, <1>4

LEMMA BringBackKeepsParents ==
  ASSUME IInv, ParentsInv, NEW x \in Rows, BringBack(x)
  PROVE  ParentsInv'
  <1> DEFINE roots == RootsToRestore(x)
  <1>1. roots \in SUBSET Roots
    BY RootsAreRoots DEF BringBack, Roots
  <1>2. /\ row' = [r \in Rows |-> IF r \in InTrashOf(roots) THEN "live" ELSE row[r]]
        /\ trash' = [r \in Rows |-> IF trash[r] \in roots THEN NoRow ELSE trash[r]]
    BY DEF BringBack, RowsAfter
  <1> HIDE DEF roots
  <1>3. \A r \in Rows : Exists(r)' <=> Exists(r)
    <2>1. \A r \in InTrashOf(roots) : row[r] = "trashed"
      BY <1>1, LibraryAssumption DEF InTrashOf, Roots, IInv, TrashMirrorsRows
    <2>2. QED
      BY <1>2, <2>1 DEF Exists
  <1>4. ParentsExist'
    BY <1>3, RefersTo DEF ParentsInv, ParentsExist, Rows
  <1>5. QED
    BY <1>1, <1>2, <1>4, LeavingKeepsParents DEF ParentsInv

LEMMA HardDeleteKeepsParents ==
  ASSUME IInv, ParentsInv, NEW roots \in SUBSET Roots, HardDelete(roots),
         Unreferenced(roots)
  PROVE  ParentsInv'
  <1> DEFINE gone == InTrashOf(roots)
  <1>1. /\ row' = [r \in Rows |-> IF r \in gone THEN "gone" ELSE row[r]]
        /\ trash' = [r \in Rows |-> IF r \in gone THEN NoRow ELSE trash[r]]
    BY DEF HardDelete
  <1>2. \A r \in Rows : r \in gone <=> trash[r] \in roots
    BY DEF InTrashOf
  <1>3. trash' = [r \in Rows |-> IF trash[r] \in roots THEN NoRow ELSE trash[r]]
    BY <1>1, <1>2
  <1>4. ParentsExist'
    <2>1. \A r \in Editions \cup Seasons :
             r \in Rows /\ Parent[r] \in Rows /\ Refers(r) = Parent[r]
      BY RefersTo DEF Rows
    <2>2. \A r \in Rows : Exists(r) /\ Refers(r) \in gone => r \in gone
      BY DEF Unreferenced
    <2> HIDE DEF gone
    <2>3. \A r \in Rows : Exists(r)' <=> Exists(r) /\ r \notin gone
      BY <1>1 DEF Exists
    <2>4. QED
      BY <2>1, <2>2, <2>3 DEF ParentsInv, ParentsExist
  <1>5. QED
    BY <1>3, <1>4, LeavingKeepsParents DEF ParentsInv

LEMMA NextParents ==
  ASSUME IInv, ParentsInv, [Next]_vars
  PROVE  ParentsInv'
  <1>1. ASSUME NEW S \in SUBSET Rows, Grows(S) PROVE ParentsInv'
    <2>1. /\ trash' = trash
          /\ \A r \in Rows : row'[r] = IF r \in S THEN "live" ELSE row[r]
          /\ \A r \in S : r \notin Editions /\ (r \in Seasons => Exists(Parent[r]))
      BY <1>1 DEF Grows
    <2>2. \A r \in Editions \cup Seasons : r \in Rows /\ Parent[r] \in Rows
      BY RefersTo DEF Rows
    <2>3. ParentsExist'
      BY <2>1, <2>2 DEF ParentsInv, ParentsExist, Exists
    <2>4. QED
      BY <2>1, <2>3 DEF ParentsInv, CascadesAreWhole, RootsAreAbove
  <1>2. QED
    BY <1>1, Kinds, TrashKeepsParents, BringBackKeepsParents, HardDeleteKeepsParents

LEMMA InitParents ==
  ASSUME Init
  PROVE  ParentsInv
  <1>1. PICK f \in Firsts :
          /\ row = [r \in Rows |-> IF r \in f.rows THEN "live"
                                   ELSE IF r \in f.later THEN "new" ELSE "gone"]
          /\ trash = [r \in Rows |-> NoRow]
    BY DEF Init
  <1>2. \A r \in Editions \cup Seasons :
          /\ r \in Rows /\ Parent[r] \in Rows
          /\ r \in f.rows => Parent[r] \in f.rows
    BY RefersTo, ParentsAssumption DEF Rows
  <1>3. ParentsExist
    BY <1>1, <1>2 DEF ParentsExist, Exists
  <1>4. CascadesAreWhole
    BY <1>1, <1>2 DEF CascadesAreWhole
  <1>5. RootsAreAbove
    BY <1>1 DEF RootsAreAbove, Rows
  <1>6. QED
    BY <1>3, <1>4, <1>5 DEF ParentsInv

(* One more round of parents: what is new is above what was new.           *)
LEMMA OneLevelUp ==
  ASSUME NEW S, NEW K, NEW L,
         \A r \in WithParents(S) \ S : r \in K,
         \A r \in K : \A p \in Above(r) : trash[p] \in L \cup {NoRow}
  PROVE  \A r \in WithParents(WithParents(S)) \ WithParents(S) : r \in L
  <1> DEFINE T == WithParents(S)
  <1>1. \A q : q \in WithParents(T) <=>
          q \in T \/ (q # NoRow /\ \E r \in T : \E p \in Above(r) : q = trash[p])
    BY DEF WithParents
  <1>2. \A r \in S : \A p \in Above(r) : trash[p] # NoRow => trash[p] \in T
    BY DEF WithParents
  <1> HIDE DEF T
  <1>3. QED
    BY <1>1, <1>2 DEF T

(* Four rounds reach the top.                                              *)
LEMMA RootsAreClosed ==
  ASSUME IInv, ParentsInv, NEW x \in Roots, NEW r \in Editions \cup Seasons,
         r \in RootsToRestore(x), trash[Parent[r]] # NoRow
  PROVE  trash[Parent[r]] \in RootsToRestore(x)
  <1> DEFINE K1 == Works \cup Editions \cup Seasons \cup Episodes
             K2 == Works \cup Editions \cup Seasons
             K3 == Works \cup Editions
             R1 == WithParents({x})
             R2 == WithParents(R1)
             R3 == WithParents(R2)
             R4 == WithParents(R3)
  <1>1. /\ \A q \in Works : Above(q) = {}
        /\ \A q \in Editions : \A p \in Above(q) : p \in Works
        /\ \A q \in Seasons : \A p \in Above(q) : p \in Editions
        /\ \A q \in Episodes : \A p \in Above(q) : p \in Seasons
        /\ \A q : \A p \in Above(q) : p \in K1
    BY RefersTo, Disjoint DEF Above, Holders, Editions
  <1>2. /\ \A q : \A p \in Above(q) : trash[p] \in K1 \cup {NoRow}
        /\ \A q \in K1 : \A p \in Above(q) : trash[p] \in K2 \cup {NoRow}
        /\ \A q \in K2 : \A p \in Above(q) : trash[p] \in K3 \cup {NoRow}
        /\ \A q \in K3 : \A p \in Above(q) : trash[p] \in Works \cup {NoRow}
    BY <1>1 DEF ParentsInv, RootsAreAbove
  <1>3. \A q \in R1 \ {x} : q \in K1
    BY <1>2 DEF WithParents
  <1> HIDE DEF K1, K2, K3
  <1>4. \A q \in R2 \ R1 : q \in K2
    BY <1>2, <1>3, OneLevelUp
  <1>5. \A q \in R3 \ R2 : q \in K3
    BY <1>2, <1>4, OneLevelUp
  <1>6. \A q \in R4 \ R3 : q \in Works
    BY <1>2, <1>5, OneLevelUp
  <1>7. r \in R3
    BY <1>6, Disjoint DEF RootsToRestore
  <1>8. Parent[r] \in Above(r)
    BY RefersTo DEF Above
  <1> HIDE DEF R3
  <1>9. trash[Parent[r]] \in R4
    BY <1>7, <1>8 DEF WithParents
  <1>10. QED
    BY <1>9 DEF RootsToRestore, R3

LEMMA StepKeepsParents ==
  ASSUME IInv, ParentsInv, [Next]_vars, NEW r \in Editions \cup Seasons,
         row'[r] = "live", row[r] # "new",
         row'[r] # row[r] \/ row'[Parent[r]] # row[Parent[r]]
  PROVE  row'[Parent[r]] = "live"
  <1> DEFINE p == Parent[r]
  <1>1. r \in Rows /\ p \in Rows /\ Refers(r) = p
    BY RefersTo DEF Rows
  <1>2. ASSUME NEW S \in SUBSET Rows, Grows(S) PROVE row'[p] = "live"
    BY <1>1, <1>2 DEF Grows
  <1>3. ASSUME NEW x \in Rows, Trash(x) PROVE FALSE
    <2> DEFINE dead == Cascade(x)
    <2>1. Live(x) /\ \A q \in Rows : row'[q] = IF q \in dead THEN "trashed" ELSE row[q]
      BY <1>3 DEF Trash
    <2>2. p \in dead /\ r \notin dead /\ Live(r)
      <3> HIDE DEF dead
      <3>1. QED
        BY <1>1, <2>1 DEF Live
    <2>3. p \in Subtree(x)
      BY <2>2, RefersTo, Disjoint DEF Cascade, OrphanEpisodes, OrphanVideos
    <2>4. r \in Subtree(x)
      BY <2>1, <2>2, <2>3, Trees
    <2>5. QED
      BY <2>2, <2>4 DEF Cascade
  <1>4. ASSUME NEW x \in Rows, BringBack(x) PROVE row'[p] = "live"
    <2> DEFINE roots == RootsToRestore(x)
    <2>1. x \in Roots
      BY <1>4 DEF BringBack, Roots
    <2>2. \A q \in Rows : row'[q] = IF trash[q] \in roots THEN "live" ELSE row[q]
      BY <1>4 DEF BringBack, RowsAfter, InTrashOf
    <2>3. trash[r] = r /\ r \in roots /\ trash[p] # NoRow => trash[p] \in roots
      BY <2>1, RootsAreClosed
    <2>4. NoRow \notin roots
      BY <2>1, RootsAreRoots, RefersTo DEF Roots
    <2> HIDE DEF roots
    <2>5. trash[p] \in roots => row'[p] = "live"
      BY <1>1, <2>2
    <2>6. CASE trash[r] \in roots /\ trash[r] # r
      <3>1. trash[p] = trash[r]
        BY <2>4, <2>6 DEF ParentsInv, CascadesAreWhole
      <3>2. QED
        BY <2>5, <2>6, <3>1
    <2>7. CASE trash[r] \in roots /\ trash[r] = r
      <3>1. CASE trash[p] = NoRow
        <4>1. row[r] = "trashed" /\ row[p] # "trashed"
          BY <1>1, <2>4, <2>7, <3>1 DEF IInv, TrashMirrorsRows
        <4>2. row[p] = "live"
          BY <4>1 DEF ParentsInv, ParentsExist, Exists
        <4>3. QED
          BY <1>1, <2>2, <4>2
      <3>2. CASE trash[p] # NoRow
        BY <2>3, <2>5, <2>7, <3>2
      <3>3. QED
        BY <3>1, <3>2
    <2>8. CASE trash[r] \notin roots
      BY <1>1, <2>2, <2>5, <2>8
    <2>9. QED
      BY <2>6, <2>7, <2>8
  <1>5. ASSUME NEW roots \in SUBSET Roots, HardDelete(roots), Unreferenced(roots)
        PROVE  FALSE
    <2> DEFINE gone == InTrashOf(roots)
    <2>1. \A q \in Rows : row'[q] = IF q \in gone THEN "gone" ELSE row[q]
      BY <1>5 DEF HardDelete
    <2>2. Exists(r) /\ p \in gone => r \in gone
      BY <1>1, <1>5 DEF Unreferenced
    <2> HIDE DEF gone
    <2>3. QED
      BY <1>1, <2>1, <2>2 DEF Exists
  <1>6. QED
    BY <1>2, <1>3, <1>4, <1>5, Kinds

(* Whatever is trashed and restored, no live row is left under a parent    *)
(* that went, and none comes back without its parent (ensureParentsLive).  *)
THEOREM ParentsAreThere == Spec => ParentsStayAbove
  <1> DEFINE A == \A r \in DOMAIN Parent :
                    /\ row'[r] = "live" /\ row[r] # "new"
                    /\ row'[r] # row[r] \/ row'[Parent[r]] # row[Parent[r]]
                    => row'[Parent[r]] = "live"
  <1>1. IInv /\ ParentsInv /\ [Next]_vars => A
    BY StepKeepsParents, RefersTo
  <1>2. Spec => [][A]_vars
    <2> HIDE DEF A
    <2>1. QED
      BY <1>1, InitParents, NextParents, Inductive, PTL DEF Spec
  <1>3. QED
    BY <1>2 DEF ParentsStayAbove
=============================================================================
