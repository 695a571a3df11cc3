----------------------------- MODULE SlugsProof -----------------------------
(***************************************************************************)
(* Proofs about Slugs, for any rows, titles and labels.                    *)
(*                                                                         *)
(* Owners and editions are two arguments.  A live owner has one row in the *)
(* table Slug that is not a tombstone, the one its column names, because   *)
(* no slug is chosen that another live owner has.  Editions of one work    *)
(* that are live, or that will be live again together with their work,     *)
(* have different slugs: one that is restored by itself looks for a new    *)
(* one, and none that is in the trash by itself is the default.            *)
(*                                                                         *)
(* An old address leads on as long as nobody claims it: every action keeps *)
(* what the address is read from, or gives the slug to another row.        *)
(***************************************************************************)
EXTENDS SlugsProps, WellFoundedInduction, SequenceTheorems, TLAPS

(* Requests name live rows only.  A title set on a trashed series claims a *)
(* name for it, a clone under a trashed movie makes a second default: with *)
(* a stale page the theorem AddressesStayTrue fails.                       *)
FreshPages == StaleClicks = {}

(* The table Trash and the columns DeletedAt agree; a cascade takes a work *)
(* with its editions.                                                      *)
TrashIsTrue ==
    \A r \in Rows :
        /\ row[r] = "trashed" <=> trash[r] # NoRow
        /\ trash[r] \in {NoRow, r} \cup (IF r \in Editions THEN {Parent[r]} ELSE {})
        /\ trash[r] # NoRow => trash[trash[r]] = trash[r]

(* An edition is not there without its work, nor live under a trashed one. *)
EditionsHaveWorks ==
    \A d \in Editions : /\ Live(d) => Live(Parent[d])
                        /\ Exists(d) => Exists(Parent[d])

(* Live, or to be live when its work is.                                   *)
With(d) == Live(d) \/ trash[d] = Parent[d]

EditionsDiffer ==
    \A d, e \in Editions :
        d # e /\ Parent[d] = Parent[e] /\ With(d) /\ With(e) => slug[d] # slug[e]

(* An edition trashed by itself has handed the empty slug on.              *)
TrashedIsNoDefault == \A d \in Editions : trash[d] = d => slug[d] # ""

(* The column names a row of the table, the only one of a live owner.      *)
ColumnIsName ==
    \A o \in Owners : Live(o) => /\ names[slug[o]] = o
                                 /\ slug[o] \in Slugs \ buried
NameIsColumn == \A s \in Named : s = slug[names[s]]
NamesWereTried == \A s \in Slugs : names[s] # NoRow => Tried(names[s], s)

(* What is said of rows, of editions and of owners.                        *)
RowsInv == TrashIsTrue /\ EditionsHaveWorks
EditionsInv == EditionsDiffer /\ TrashedIsNoDefault
NamesInv == ColumnIsName /\ NameIsColumn /\ NamesAreLive /\ NamesWereTried

(* The inductive invariant.                                                *)
IInv == TypeOK /\ RowsInv /\ EditionsInv /\ NamesInv

-----------------------------------------------------------------------------
(* The choice of a slug.                                                   *)

LEMMA Smallest ==
  ASSUME NEW T, T \subseteq Nat, T # {}
  PROVE  \E i \in T : \A j \in T : i <= j
  <1> DEFINE R == OpToRel(<, Nat)
  <1>1. PICK i \in T : \A j \in T : <<j, i>> \notin R
    BY NatLessThanWellFounded, WFMin
  <1>2. \A j \in T : ~(j < i)
    BY <1>1 DEF OpToRel
  <1>3. \A j \in T : j \in Nat
    OBVIOUS
  <1>4. QED
    BY <1>2, <1>3

(* A slug that is tried comes out, and a free one if there is one.         *)
LEMMA FoundSlug ==
  ASSUME NEW S, NEW tried \in Seq(S) \ {<<>>}, NEW taken
  PROVE  /\ FindSlug(tried, taken) \in S
         /\ \E i \in DOMAIN tried : FindSlug(tried, taken) = tried[i]
         /\ (\E i \in DOMAIN tried : tried[i] \notin taken)
              => FindSlug(tried, taken) \notin taken
  <1> DEFINE free == {i \in DOMAIN tried : tried[i] \notin taken}
             i0 == CHOOSE i \in free : \A j \in free : i <= j
  <1>1. /\ DOMAIN tried = 1 .. Len(tried) /\ Len(tried) \in Nat \ {0}
        /\ \A i \in DOMAIN tried : tried[i] \in S
    BY LenProperties, EmptySeq
  <1>2. CASE free = {}
    <2>1. FindSlug(tried, taken) = tried[Len(tried)]
      BY <1>2 DEF FindSlug
    <2>2. Len(tried) \in DOMAIN tried
      BY <1>1
    <2>3. QED
      BY <1>1, <1>2, <2>1, <2>2
  <1>3. CASE free # {}
    <2>1. FindSlug(tried, taken) = tried[i0]
      BY <1>3 DEF FindSlug
    <2>2. free \subseteq Nat
      BY <1>1
    <2>3. \E i \in free : \A j \in free : i <= j
      BY <1>3, <2>2, Smallest
    <2>4. i0 \in free
      BY <2>3
    <2>5. QED
      BY <1>1, <2>1, <2>4
  <1>4. QED
    BY <1>2, <1>3

LEMMA TriedTypes ==
  /\ \A o \in Owners, t \in Titles : TitleSlugs[<<o, t>>] \in Seq(Slugs) \ {<<>>}
  /\ \A lb \in Labels : LabelSlugs[lb] \in Seq(EditionSlugs \cup {""}) \ {<<>>}
  BY SlugsAssumption

(* The work of an edition is no edition, and no collection.                *)
LEMMA Disjoint ==
  /\ Works \cap Editions = {} /\ Collections \cap Editions = {}
  /\ NoRow \notin Owners /\ NoRow \notin Editions
  /\ \A d \in Editions : Parent[d] \in Works /\ Parent[d] \in Owners /\ Parent[d] # d
  <1>1. /\ Owners \cap Editions = {} /\ NoRow \notin Rows
        /\ Parent \in [Editions -> Works]
    BY SlugsAssumption
  <1>2. QED
    BY <1>1 DEF Rows, Owners

(* What a label gives is no slug of a live edition of the work.            *)
LEMMA FreeEditionSlug ==
  ASSUME TypeOK, NEW w \in Works, NEW lb \in Labels, NEW rw, NEW taken,
         taken \subseteq SlugsUsed(w, rw)
  PROVE  /\ FindSlug(LabelSlugs[lb], taken) \in EditionSlugs \cup {""}
         /\ FindSlug(LabelSlugs[lb], taken) \notin taken
  <1> DEFINE f == [d \in ChildrenOf(w) |-> slug[d]]
  <1>1. f \in [ChildrenOf(w) -> EditionSlugs \cup {""}]
    BY DEF TypeOK, ChildrenOf
  <1>2. PICK i \in DOMAIN LabelSlugs[lb] :
           \A d \in ChildrenOf(w) : f[d] # LabelSlugs[lb][i]
    BY <1>1, EnoughSlugs
  <1>3. \A d \in ChildrenOf(w) : slug[d] # LabelSlugs[lb][i]
    BY <1>2
  <1>4. LabelSlugs[lb][i] \notin taken
    BY <1>3 DEF SlugsUsed, EditionsOf, ChildrenOf
  <1>5. QED
    BY <1>2, <1>4, FoundSlug, TriedTypes

(* What a title gives is no name of another live owner.                    *)
LEMMA FreeOwnerSlug ==
  ASSUME TypeOK, NamesInv, NEW o \in Owners, NEW t \in Titles
  PROVE  /\ OwnerSlug(o, t) \in Slugs
         /\ Tried(o, OwnerSlug(o, t))
         /\ OwnerSlug(o, t) \notin Named \ Own(o)
  <1> DEFINE f == [p \in Owners \ {o} |->
                     IF Live(p) THEN slug[p] ELSE TitleSlugs[<<p, NoTitle>>][1]]
             tried == TitleSlugs[<<o, t>>]
  <1>1. \A p \in Owners : /\ 1 \in DOMAIN TitleSlugs[<<p, NoTitle>>]
                          /\ TitleSlugs[<<p, NoTitle>>][1] \in Slugs
    <2> SUFFICES ASSUME NEW p \in Owners
                 PROVE  /\ 1 \in DOMAIN TitleSlugs[<<p, NoTitle>>]
                        /\ TitleSlugs[<<p, NoTitle>>][1] \in Slugs
      OBVIOUS
    <2>1. NoTitle \in Titles
      BY SlugsAssumption
    <2>2. TitleSlugs[<<p, NoTitle>>] \in Seq(Slugs) \ {<<>>}
      BY <2>1, TriedTypes
    <2>3. QED
      BY <2>2, LenProperties, EmptySeq
  <1>2. ASSUME NEW p \in Owners \ {o}
        PROVE  f[p] \in Slugs /\ Tried(p, f[p])
    <2>1. CASE Live(p)
      <3>1. f[p] = slug[p] /\ slug[p] \in Slugs /\ names[slug[p]] = p
        BY <2>1 DEF NamesInv, ColumnIsName
      <3>2. QED
        BY <3>1, Disjoint DEF NamesInv, NamesWereTried
    <2>2. CASE ~Live(p)
      <3>1. NoTitle \in Titles
        BY SlugsAssumption
      <3>2. QED
        BY <1>1, <2>2, <3>1 DEF Tried
    <2>3. QED
      BY <2>1, <2>2
  <1>3. f \in [Owners \ {o} -> Slugs]
    BY <1>2
  <1>4. PICK i \in DOMAIN tried : \A p \in Owners \ {o} : f[p] # tried[i]
    <2> HIDE DEF f
    <2>1. \A p \in Owners \ {o} : Tried(p, f[p])
      BY <1>2
    <2>2. \A g \in [Owners \ {o} -> Slugs] :
             (\A p \in Owners \ {o} : Tried(p, g[p])) =>
                \E i \in DOMAIN tried : \A p \in Owners \ {o} : g[p] # tried[i]
      BY EnoughSlugs
    <2> HIDE DEF tried
    <2>3. QED
      BY <1>3, <2>1, <2>2
  <1>5. tried[i] \notin Named \ Own(o)
    <2> SUFFICES ASSUME tried[i] \in Named \ Own(o) PROVE FALSE
      OBVIOUS
    <2> DEFINE p == names[tried[i]]
    <2>1. p \in Owners /\ Live(p) /\ tried[i] = slug[p]
      BY DEF NamesInv, NamesAreLive, NameIsColumn, Named, TypeOK
    <2>2. CASE p = o
      BY <2>1, <2>2 DEF Own
    <2>3. CASE p # o
      BY <2>1, <2>3, <1>4
    <2>4. QED
      BY <2>2, <2>3
  <1>6. /\ FindSlug(tried, Named \ Own(o)) \in Slugs
        /\ FindSlug(tried, Named \ Own(o)) \notin Named \ Own(o)
        /\ \E j \in DOMAIN tried : FindSlug(tried, Named \ Own(o)) = tried[j]
    <2>1. tried \in Seq(Slugs) \ {<<>>}
      BY TriedTypes
    <2> HIDE DEF tried
    <2>2. QED
      BY <1>5, <2>1, FoundSlug
  <1>7. QED
    BY <1>6 DEF OwnerSlug, Tried

LEMMA TitleType ==
  ASSUME NEW tt \in [Titled -> Titles], NEW o \in Owners
  PROVE  TitleOf(o, tt) \in Titles
  <1> DEFINE defaults == {d \in Editions : /\ Parent[d] = o /\ Exists(d)
                                           /\ slug[d] = ""}
  <1>1. NoTitle \in Titles /\ \A d \in Editions : d \in MovieEditions <=> Parent[d] \in Movies
    BY SlugsAssumption
  <1>2. CASE o \notin Movies
    BY <1>2 DEF TitleOf, Titled, Owners, Works
  <1>3. CASE o \in Movies /\ defaults = {}
    BY <1>1, <1>3 DEF TitleOf
  <1>4. CASE o \in Movies /\ defaults # {}
    <2>1. (CHOOSE d \in defaults : TRUE) \in defaults
      BY <1>4
    <2>2. (CHOOSE d \in defaults : TRUE) \in Titled
      BY <1>1, <1>4, <2>1 DEF Titled
    <2>3. QED
      BY <1>4, <2>2 DEF TitleOf
  <1>5. QED
    BY <1>2, <1>3, <1>4

-----------------------------------------------------------------------------
(* The table Slug.                                                         *)

(* An owner takes a slug that nobody else has, and leaves its old one      *)
(* behind.                                                                 *)
LEMMA ClaimKeepsNames ==
  ASSUME TypeOK, NamesInv, NEW o \in Owners, NEW s \in Slugs, Tried(o, s),
         s \notin Named \ Own(o),
         names'[s] = o, s \notin buried',
         \A r \in Slugs \ {s} : /\ names'[r] = names[r]
                                /\ r \in buried' <=> r \in buried \/ names[r] = o,
         Live(o)', slug'[o] = s,
         \A p \in Owners \ {o} : slug'[p] = slug[p] /\ (Live(p)' <=> Live(p))
  PROVE  NamesInv'
  <1>1. \A r \in Slugs : names[r] # NoRow => names[r] \in Owners
    BY DEF TypeOK
  <1>2. ColumnIsName'
    <2> SUFFICES ASSUME NEW p \in Owners, Live(p)'
                 PROVE  names'[slug'[p]] = p /\ slug'[p] \in Slugs \ buried'
      BY DEF ColumnIsName
    <2>1. CASE p = o
      BY <2>1
    <2>2. CASE p # o
      <3>1. Live(p) /\ slug'[p] = slug[p]
        BY <2>2
      <3>2. names[slug[p]] = p /\ slug[p] \in Slugs \ buried
        BY <3>1 DEF NamesInv, ColumnIsName
      <3>3. slug[p] # s
        <4>1. slug[p] \in Named
          BY <3>2, Disjoint DEF Named
        <4>2. ASSUME slug[p] = s PROVE FALSE
          <5>1. s \in Own(o)
            BY <4>1, <4>2
          <5>2. Live(o) /\ slug[o] = s
            BY <5>1 DEF Own
          <5>3. names[s] = o
            BY <5>2 DEF NamesInv, ColumnIsName
          <5>4. QED
            BY <5>3, <4>2, <3>2, <2>2
        <4>3. QED
          BY <4>2
      <3>4. QED
        BY <2>2, <3>1, <3>2, <3>3
    <2>3. QED
      BY <2>1, <2>2
  <1>3. NameIsColumn'
    <2> SUFFICES ASSUME NEW r \in Slugs, names'[r] # NoRow, r \notin buried'
                 PROVE  r = slug'[names'[r]]
      BY DEF NameIsColumn, Named
    <2>1. CASE r = s
      BY <2>1
    <2>2. CASE r # s
      <3>1. names'[r] = names[r] /\ names[r] # o /\ r \notin buried
        BY <2>2
      <3>2. r = slug[names[r]] /\ names[r] \in Owners
        BY <3>1, <1>1 DEF NamesInv, NameIsColumn, Named
      <3>3. QED
        BY <3>1, <3>2
    <2>3. QED
      BY <2>1, <2>2
  <1>4. NamesAreLive'
    <2> SUFFICES ASSUME NEW r \in Slugs, names'[r] # NoRow
                 PROVE  row'[names'[r]] = "live"
      BY DEF NamesAreLive, Live
    <2>1. CASE r = s
      BY <2>1 DEF Live
    <2>2. CASE r # s
      BY <2>2, <1>1 DEF NamesInv, NamesAreLive, Live
    <2>3. QED
      BY <2>1, <2>2
  <1>5. NamesWereTried'
    BY DEF NamesInv, NamesWereTried, Tried
  <1>6. QED
    BY <1>2, <1>3, <1>4, <1>5 DEF NamesInv

(* slugMove, and the ensureSlug that calls it unless the slug is the same. *)
LEMMA SlugRowKeepsNames ==
  ASSUME TypeOK, NamesInv, NEW o \in Owners, NEW t \in Titles, NEW s,
         s = OwnerSlug(o, t), SlugRow(o, s), Live(o)', slug'[o] = s,
         \A p \in Owners \ {o} : slug'[p] = slug[p] /\ (Live(p)' <=> Live(p))
  PROVE  /\ NamesInv' /\ s \in Slugs
         /\ names' \in [Slugs -> Owners \cup {NoRow}] /\ buried' \subseteq Slugs
  <1>1. s \in Slugs /\ Tried(o, s) /\ s \notin Named \ Own(o)
    BY FreeOwnerSlug
  <1>2. /\ names'[s] = o /\ s \notin buried'
        /\ \A r \in Slugs \ {s} : /\ names'[r] = names[r]
                                  /\ r \in buried' <=> r \in buried \/ names[r] = o
    <2>1. CASE SlugMove(o, s)
      <3>1. /\ names' = [names EXCEPT ![s] = o]
            /\ buried' = (buried \cup {r \in Named : names[r] = o}) \ {s}
        BY <2>1 DEF SlugMove
      <3>2. \A r \in Slugs : r \in Named <=> names[r] # NoRow /\ r \notin buried
        BY DEF Named
      <3>3. names \in [Slugs -> Owners \cup {NoRow}] /\ o # NoRow /\ s \in Slugs
        BY <1>1, Disjoint DEF TypeOK
      <3>4. QED
        BY <3>1, <3>2, <3>3
    <2>2. CASE Live(o) /\ s = slug[o] /\ UNCHANGED <<names, buried>>
      <3>1. names[s] = o /\ s \notin buried
        BY <2>2 DEF NamesInv, ColumnIsName
      <3>2. \A r \in Slugs \ {s} : names[r] = o => r \in buried
        BY <2>2, Disjoint DEF NamesInv, NameIsColumn, Named
      <3>3. QED
        BY <2>2, <3>1, <3>2
    <2>3. QED
      BY <2>1, <2>2 DEF SlugRow
  <1>3. names' \in [Slugs -> Owners \cup {NoRow}] /\ buried' \subseteq Slugs
    BY <1>1 DEF SlugRow, SlugMove, TypeOK, Named
  <1>4. NamesInv'
    BY <1>1, <1>2, ClaimKeepsNames
  <1>5. QED
    BY <1>1, <1>3, <1>4

(* Nothing happens to live owners.                                         *)
LEMMA SameNames ==
  ASSUME TypeOK, NamesInv, UNCHANGED <<names, buried>>,
         \A p \in Owners : (Live(p)' <=> Live(p)) /\ (Live(p) => slug'[p] = slug[p])
  PROVE  NamesInv'
  <1>1. \A r \in Slugs : names[r] # NoRow => names[r] \in Owners
    BY DEF TypeOK
  <1>2. ColumnIsName'
    BY DEF NamesInv, ColumnIsName
  <1>3. NameIsColumn' /\ NamesAreLive'
    BY <1>1 DEF NamesInv, NameIsColumn, NamesAreLive, Named
  <1>4. NamesWereTried'
    BY DEF NamesInv, NamesWereTried, Tried
  <1>5. QED
    BY <1>2, <1>3, <1>4 DEF NamesInv

-----------------------------------------------------------------------------
(* The operations.                                                         *)

LEMMA InitIInv == Init => IInv
  <1> SUFFICES ASSUME Init PROVE IInv
    OBVIOUS
  <1>1. PICK l \in Libraries :
           row = [r \in Rows |-> IF r \in l THEN "new" ELSE "gone"]
    BY DEF Init
  <1>2. \A r \in Rows : row[r] \in {"new", "gone"}
    BY <1>1
  <1>3. NoRow \notin Rows /\ NoTitle \in Titles /\ DefaultLabel \in Labels
    BY SlugsAssumption
  <1>4. TypeOK
    <2>1. \A d \in Editions : d \in Rows
      BY DEF Rows
    <2>2. QED
      BY <1>1, <1>2, <1>3, <2>1 DEF Init, TypeOK
  <1>5. \A r \in Rows : ~Live(r) /\ ~Exists(r) /\ trash[r] = NoRow
    BY <1>2 DEF Init, Live, Exists
  <1>6. RowsInv
    BY <1>2, <1>5 DEF RowsInv, TrashIsTrue, EditionsHaveWorks, Rows, Owners
  <1>7. \A d \in Editions : d \in Rows /\ Parent[d] # NoRow /\ d # NoRow
    BY Disjoint DEF Rows
  <1>8. EditionsInv
    BY <1>5, <1>7 DEF EditionsInv, EditionsDiffer, TrashedIsNoDefault, With
  <1>9. NamesInv
    <2>1. \A s \in Slugs : names[s] = NoRow
      BY DEF Init
    <2>2. QED
      BY <1>5, <2>1 DEF NamesInv, ColumnIsName, NameIsColumn, NamesAreLive,
         NamesWereTried, Named, Rows
  <1>10. QED
    BY <1>4, <1>6, <1>8, <1>9 DEF IInv

(* The types, but for those of the slugs.                                  *)
LEMMA OldTypes ==
  ASSUME TypeOK
  PROVE  /\ row \in [Rows -> {"new", "live", "trashed", "gone"}]
         /\ trash \in [Rows -> Rows \cup {NoRow}]
         /\ title \in [Titled -> Titles]
         /\ label \in [Editions -> Labels]
         /\ names \in [Slugs -> Owners \cup {NoRow}]
         /\ buried \subseteq Slugs
         /\ tombs \in [Works \X EditionSlugs -> Editions \cup {NoRow}]
  BY DEF TypeOK

(* The siblings of an edition that is there are live or in the trash by    *)
(* themselves while its work is live, and under a row yet to be created    *)
(* there are none.                                                         *)
LEMMA Siblings ==
  ASSUME TypeOK, RowsInv, NEW d \in Editions
  PROVE  /\ Live(Parent[d]) => (With(d) <=> Live(d)) /\ trash[d] # Parent[d]
         /\ row[Parent[d]] \in {"new", "gone"} => ~With(d)
         /\ row[d] \in {"new", "gone"} => ~With(d)
  <1>1. Parent[d] \in Rows /\ d \in Rows /\ Parent[d] # NoRow
    BY Disjoint DEF Rows
  <1>2. trash[d] = Parent[d] => row[Parent[d]] = "trashed" /\ row[d] = "trashed"
    BY <1>1 DEF RowsInv, TrashIsTrue
  <1>3. Live(d) => Live(Parent[d])
    BY DEF RowsInv, EditionsHaveWorks
  <1>4. QED
    BY <1>2, <1>3 DEF With, Live

LEMMA WorkCreateKeepsIInv ==
  ASSUME IInv, NEW w \in Works, NEW d \in Editions, NEW t \in Titles,
         WorkCreate(w, d, t)
  PROVE  IInv'
  <1> DEFINE s == OwnerSlug(w, t)
             e == EditionSlug(d, DefaultLabel, row)
  <1>1. /\ w \in Owners /\ w \in Rows /\ d \in Rows /\ w # d /\ w \notin Editions
        /\ d \notin Owners
    BY Disjoint, SlugsAssumption, ZenonT(40) DEF Rows, Owners
  <1>2. s \in Slugs /\ Tried(w, s) /\ s \notin Named \ Own(w)
    BY <1>1, FreeOwnerSlug DEF IInv
  <1>3. e \in EditionSlugs \cup {""}
    <2>1. SlugsUsed(Parent[d], row) \ Own(d) \subseteq SlugsUsed(Parent[d], row)
      OBVIOUS
    <2>2. DefaultLabel \in Labels
      BY SlugsAssumption
    <2>3. QED
      BY <2>1, <2>2, Disjoint, FreeEditionSlug DEF IInv, EditionSlug
  <1>4. /\ row[w] = "new" /\ row[d] = "new" /\ Parent[d] = w
        /\ row' = [row EXCEPT ![w] = "live", ![d] = "live"]
        /\ slug' = [slug EXCEPT ![w] = s, ![d] = e]
        /\ names' = [names EXCEPT ![s] = w]
        /\ buried' = buried \ {s}
        /\ title' = [title EXCEPT ![IF w \in Movies THEN d ELSE w] = t]
        /\ label' = [label EXCEPT ![d] = DefaultLabel]
        /\ UNCHANGED <<trash, tombs>>
    BY DEF WorkCreate
  <1>5. TypeOK'
    <2>1. row' \in [Rows -> {"new", "live", "trashed", "gone"}]
      BY <1>4 DEF IInv, TypeOK
    <2>2. slug' \in [Rows -> Slugs \cup EditionSlugs \cup {""}]
      BY <1>2, <1>3, <1>4 DEF IInv, TypeOK
    <2>3. \A c \in Editions : slug'[c] \in EditionSlugs \cup {""}
      BY <1>1, <1>3, <1>4 DEF IInv, TypeOK, Rows
    <2>4. names' \in [Slugs -> Owners \cup {NoRow}] /\ buried' \subseteq Slugs
      BY <1>1, <1>2, <1>4 DEF IInv, TypeOK
    <2>5. title' \in [Titled -> Titles]
      BY <1>4 DEF IInv, TypeOK
    <2>6. label' \in [Editions -> Labels]
      BY <1>4, SlugsAssumption DEF IInv, TypeOK
    <2>7. QED
      BY <1>4, <2>1, <2>2, <2>3, <2>4, <2>5, <2>6 DEF IInv, TypeOK
  <1>6. \A r \in Rows : row'[r] = IF r \in {w, d} THEN "live" ELSE row[r]
    BY <1>1, <1>4 DEF IInv, TypeOK
  <1>7. RowsInv'
    <2>1. TrashIsTrue'
      <3>1. row[w] = "new" /\ row[d] = "new"
        BY <1>4
      <3>2. \A r \in Rows : row'[r] = "trashed" <=> row[r] = "trashed"
        BY <1>6, <3>1
      <3>3. QED
        BY <1>4, <3>2 DEF IInv, RowsInv, TrashIsTrue
    <2>2. EditionsHaveWorks'
      <3>1. \A c \in Editions : c \in Rows /\ Parent[c] \in Rows /\ c # w
        BY <1>1, Disjoint DEF Rows
      <3>2. QED
        BY <1>4, <1>6, <3>1 DEF IInv, RowsInv, EditionsHaveWorks, Live, Exists
    <2>3. QED
      BY <2>1, <2>2 DEF RowsInv
  <1>8. EditionsInv'
    <2>1. ASSUME NEW c \in Editions, c # d
          PROVE  /\ With(c)' <=> With(c)
                 /\ Parent[c] = w => ~With(c)
                 /\ slug'[c] = slug[c]
      <3>1. c \in Rows /\ c # w
        BY <1>1 DEF Rows
      <3>2. QED
        BY <1>4, <1>6, <2>1, <3>1, Siblings DEF IInv, TypeOK, With, Live
    <2>2. EditionsDiffer'
      BY <1>4, <2>1 DEF IInv, EditionsInv, EditionsDiffer
    <2>3. trash[d] = NoRow /\ d # NoRow
      BY <1>1, <1>4, Disjoint DEF IInv, RowsInv, TrashIsTrue
    <2>4. TrashedIsNoDefault'
      BY <1>4, <2>1, <2>3 DEF IInv, EditionsInv, TrashedIsNoDefault
    <2>5. QED
      BY <2>2, <2>4 DEF EditionsInv
  <1>9. NamesInv'
    <2>1. \A r \in Slugs : names[r] # w
      BY <1>1, <1>4, Disjoint DEF IInv, NamesInv, NamesAreLive, Live
    <2>2. \A p \in Owners \ {w} : slug'[p] = slug[p] /\ (Live(p)' <=> Live(p))
      BY <1>1, <1>4, <1>6 DEF IInv, TypeOK, Live, Rows
    <2>3. Live(w)' /\ slug'[w] = s
      BY <1>1, <1>4, <1>6 DEF IInv, TypeOK, Live
    <2>4. /\ names'[s] = w /\ s \notin buried'
          /\ \A r \in Slugs \ {s} : /\ names'[r] = names[r]
                                    /\ r \in buried' <=> r \in buried \/ names[r] = w
      BY <1>2, <1>4, <2>1 DEF IInv, TypeOK
    <2>5. QED
      BY <1>1, <1>2, <2>2, <2>3, <2>4, ClaimKeepsNames DEF IInv
  <1>10. QED
    BY <1>5, <1>7, <1>8, <1>9 DEF IInv

(* An operation that touches no edition.                                   *)
LEMMA SameEditions ==
  ASSUME TypeOK, RowsInv, EditionsInv, UNCHANGED trash,
         \A r \in Rows : row'[r] = row[r] \/ (row[r] = "new" /\ row'[r] = "live"),
         \A d \in Editions : row'[d] = row[d] /\ slug'[d] = slug[d]
  PROVE  RowsInv' /\ EditionsInv'
  <1>1. \A d \in Editions : d \in Rows /\ Parent[d] \in Rows
    BY Disjoint DEF Rows
  <1>2. TrashIsTrue'
    BY DEF RowsInv, TrashIsTrue
  <1>3. EditionsHaveWorks'
    BY <1>1 DEF RowsInv, EditionsHaveWorks, Live, Exists
  <1>4. EditionsInv'
    <2>1. \A d \in Editions : With(d)' <=> With(d)
      BY DEF With, Live
    <2>2. EditionsDiffer'
      BY <2>1 DEF EditionsInv, EditionsDiffer
    <2>3. QED
      BY <2>2 DEF EditionsInv, TrashedIsNoDefault
  <1>5. QED
    BY <1>2, <1>3, <1>4 DEF RowsInv

LEMMA CollectionCreateKeepsIInv ==
  ASSUME IInv, NEW c \in Collections, NEW t \in Titles, CollectionCreate(c, t)
  PROVE  IInv'
  <1> DEFINE s == OwnerSlug(c, t)
  <1>1. /\ c \in Owners /\ c \in Rows /\ c \notin Editions
        /\ \A d \in Editions : d \in Rows
    BY Disjoint DEF Rows, Owners
  <1>2. s \in Slugs /\ Tried(c, s) /\ s \notin Named \ Own(c)
    BY <1>1, FreeOwnerSlug DEF IInv
  <1>3. /\ row[c] = "new"
        /\ row' = [row EXCEPT ![c] = "live"]
        /\ slug' = [slug EXCEPT ![c] = s]
        /\ names' = [names EXCEPT ![s] = c]
        /\ buried' = buried \ {s}
        /\ title' = [title EXCEPT ![c] = t]
        /\ UNCHANGED <<trash, label, tombs>>
    BY DEF CollectionCreate
  <1>4. TypeOK'
    BY <1>1, <1>2, <1>3 DEF IInv, TypeOK
  <1>5. RowsInv' /\ EditionsInv'
    BY <1>1, <1>3, SameEditions DEF IInv, TypeOK
  <1>6. NamesInv'
    <2>1. \A r \in Slugs : names[r] # c
      BY <1>1, <1>3, Disjoint DEF IInv, NamesInv, NamesAreLive, Live
    <2>2. \A p \in Owners \ {c} : slug'[p] = slug[p] /\ (Live(p)' <=> Live(p))
      BY <1>1, <1>3 DEF IInv, TypeOK, Live, Rows
    <2>3. Live(c)' /\ slug'[c] = s
      BY <1>1, <1>3 DEF IInv, TypeOK, Live
    <2>4. /\ names'[s] = c /\ s \notin buried'
          /\ \A r \in Slugs \ {s} : /\ names'[r] = names[r]
                                    /\ r \in buried' <=> r \in buried \/ names[r] = c
      BY <1>2, <1>3, <2>1 DEF IInv, TypeOK
    <2>5. QED
      BY <1>1, <1>2, <2>2, <2>3, <2>4, ClaimKeepsNames DEF IInv
  <1>7. QED
    BY <1>4, <1>5, <1>6 DEF IInv

(* A copy is live beside its source.                                       *)
LEMMA EditionCloneKeepsIInv ==
  ASSUME IInv, FreshPages, NEW src \in Editions, NEW d \in Editions,
         EditionClone(src, d)
  PROVE  IInv'
  <1> DEFINE w == Parent[d]
             lb == CopyOf[label[src]]
             e == EditionSlug(d, lb, row)
  <1>1. /\ Live(src) /\ row[d] = "new" /\ Parent[src] = w /\ Live(w)
        /\ row' = [row EXCEPT ![d] = "live"]
        /\ slug' = [slug EXCEPT ![d] = e]
        /\ label' = [label EXCEPT ![d] = lb]
        /\ tombs' = [k \in DOMAIN tombs |->
                       IF k = <<w, e>> THEN NoRow ELSE tombs[k]]
        /\ title' = IF d \in MovieEditions THEN [title EXCEPT ![d] = title[src]]
                    ELSE title
        /\ UNCHANGED <<trash, names, buried>>
    BY DEF EditionClone, Offered, FreshPages, IInv, RowsInv, EditionsHaveWorks
  <1>2. lb \in Labels
    BY SlugsAssumption DEF IInv, TypeOK
  <1>3. Own(d) = {}
    BY <1>1 DEF Own, Live
  <1>4. e \in EditionSlugs \cup {""} /\ e \notin SlugsUsed(w, row)
    BY <1>2, <1>3, Disjoint, FreeEditionSlug DEF IInv, EditionSlug
  <1>5. \A c \in Editions : c \in Rows /\ c \notin Owners /\ Parent[c] \in Rows
    BY Disjoint, SlugsAssumption DEF Rows, Owners
  <1>6. TypeOK'
    <2>1. row' \in [Rows -> {"new", "live", "trashed", "gone"}]
      BY <1>1 DEF IInv, TypeOK
    <2>2. slug' \in [Rows -> Slugs \cup EditionSlugs \cup {""}]
      BY <1>1, <1>4 DEF IInv, TypeOK
    <2>3. \A c \in Editions : slug'[c] \in EditionSlugs \cup {""}
      BY <1>1, <1>4, <1>5 DEF IInv, TypeOK
    <2>4. title' \in [Titled -> Titles]
      <3>1. CASE d \in MovieEditions
        <4>1. src \in MovieEditions
          BY <1>1, <3>1, SlugsAssumption
        <4>2. title[src] \in Titles
          BY <4>1 DEF IInv, TypeOK, Titled
        <4>3. QED
          BY <1>1, <3>1, <4>2 DEF IInv, TypeOK
      <3>2. CASE d \notin MovieEditions
        BY <1>1, <3>2 DEF IInv, TypeOK
      <3>3. QED
        BY <3>1, <3>2
    <2>5. label' \in [Editions -> Labels]
      BY <1>1, <1>2 DEF IInv, TypeOK
    <2>6. tombs' \in [Works \X EditionSlugs -> Editions \cup {NoRow}]
      BY <1>1 DEF IInv, TypeOK
    <2>7. QED
      BY <1>1, <2>1, <2>2, <2>3, <2>4, <2>5, <2>6 DEF IInv, TypeOK
  <1>7. \A r \in Rows : row'[r] = IF r = d THEN "live" ELSE row[r]
    BY <1>1 DEF IInv, TypeOK
  <1>8. RowsInv'
    <2>1. \A r \in Rows : row'[r] = "trashed" <=> row[r] = "trashed"
      BY <1>1, <1>7
    <2>2. TrashIsTrue'
      BY <1>1, <2>1 DEF IInv, RowsInv, TrashIsTrue
    <2>3. \A c \in Editions : Parent[c] # d
      BY Disjoint
    <2>4. EditionsHaveWorks'
      BY <1>1, <1>5, <1>7, <2>3 DEF IInv, RowsInv, EditionsHaveWorks, Live, Exists
    <2>5. QED
      BY <2>2, <2>4 DEF RowsInv
  <1>9. EditionsInv'
    <2>1. ASSUME NEW c \in Editions, c # d
          PROVE  (With(c)' <=> With(c)) /\ slug'[c] = slug[c]
      BY <1>1, <1>5, <1>7, <2>1 DEF IInv, TypeOK, With, Live
    <2>2. ASSUME NEW c \in Editions, c # d, Parent[c] = w, With(c)
          PROVE  slug'[c] # slug'[d]
      <3>1. Live(c)
        BY <1>1, <2>2, Siblings DEF IInv
      <3>2. slug[c] \in SlugsUsed(w, row)
        BY <2>2, <3>1 DEF SlugsUsed, EditionsOf, Live
      <3>3. slug'[d] = e
        BY <1>1, <1>5 DEF IInv, TypeOK
      <3>4. QED
        BY <1>4, <2>1, <2>2, <3>2, <3>3
    <2>3. EditionsDiffer'
      BY <2>1, <2>2 DEF IInv, EditionsInv, EditionsDiffer
    <2>4. trash[d] = NoRow /\ d # NoRow
      BY <1>1, <1>5, Disjoint DEF IInv, RowsInv, TrashIsTrue
    <2>5. TrashedIsNoDefault'
      BY <1>1, <2>1, <2>4 DEF IInv, EditionsInv, TrashedIsNoDefault
    <2>6. QED
      BY <2>3, <2>5 DEF EditionsInv
  <1>10. NamesInv'
    <2>1. \A p \in Owners : p \in Rows /\ p # d
      BY <1>5 DEF Rows
    <2>2. QED
      BY <1>1, <1>7, <2>1, SameNames DEF IInv, TypeOK, Live
  <1>11. QED
    BY <1>6, <1>8, <1>9, <1>10 DEF IInv

(* A live owner gets another title, and with it another name.              *)
LEMMA RenameKeepsIInv ==
  ASSUME IInv, NEW o \in Owners, Live(o), NEW t \in Titles, NEW s,
         s = OwnerSlug(o, t), SlugRow(o, s), slug' = [slug EXCEPT ![o] = s],
         title' \in [Titled -> Titles], UNCHANGED <<row, trash, label, tombs>>
  PROVE  IInv'
  <1>1. /\ o \in Rows /\ o \notin Editions
        /\ \A d \in Editions : d \in Rows
    BY Disjoint DEF Rows, Owners
  <1>2. /\ slug'[o] = s
        /\ \A r \in Rows \ {o} : slug'[r] = slug[r]
    BY <1>1 DEF IInv, TypeOK
  <1>3. \A p \in Owners \ {o} : slug'[p] = slug[p] /\ (Live(p)' <=> Live(p))
    BY <1>2 DEF Rows, Live
  <1>4. Live(o)'
    BY DEF Live
  <1>5. /\ NamesInv' /\ s \in Slugs
        /\ names' \in [Slugs -> Owners \cup {NoRow}] /\ buried' \subseteq Slugs
    BY <1>2, <1>3, <1>4, SlugRowKeepsNames DEF IInv
  <1>6. TypeOK'
    BY <1>1, <1>2, <1>5 DEF IInv, TypeOK
  <1>7. RowsInv' /\ EditionsInv'
    <2>1. \A d \in Editions : row'[d] = row[d] /\ slug'[d] = slug[d]
      BY <1>1, <1>2
    <2>2. QED
      BY <2>1, SameEditions DEF IInv
  <1>8. QED
    BY <1>5, <1>6, <1>7 DEF IInv

LEMMA TitleSetKeepsIInv ==
  ASSUME IInv, FreshPages, NEW o \in Series \cup Collections, NEW t \in Titles,
         TitleSet(o, t)
  PROVE  IInv'
  <1>1. o \in Owners /\ Live(o)
    BY DEF TitleSet, Offered, FreshPages, Owners, Works
  <1>2. title' \in [Titled -> Titles]
    BY DEF TitleSet, IInv, TypeOK
  <1>3. QED
    BY <1>1, <1>2, RenameKeepsIInv DEF TitleSet

LEMMA MovieEditionTitleSetKeepsIInv ==
  ASSUME IInv, FreshPages, NEW d \in MovieEditions, NEW t \in Titles,
         MovieEditionTitleSet(d, t)
  PROVE  IInv'
  <1>1. d \in Editions /\ Live(d) /\ Parent[d] \in Owners /\ Live(Parent[d])
    BY Disjoint DEF MovieEditionTitleSet, Offered, FreshPages, Editions, IInv,
       RowsInv, EditionsHaveWorks
  <1>2. title' \in [Titled -> Titles]
    BY DEF MovieEditionTitleSet, IInv, TypeOK
  <1>3. CASE slug[d] = ""
    <2>1. TitleOf(Parent[d], title') \in Titles
      BY <1>1, <1>2, TitleType
    <2>2. QED
      BY <1>1, <1>2, <1>3, <2>1, RenameKeepsIInv DEF MovieEditionTitleSet
  <1>4. CASE slug[d] # ""
    <2>1. UNCHANGED <<row, trash, label, slug, names, buried, tombs>>
      BY <1>4 DEF MovieEditionTitleSet
    <2>2. TypeOK'
      BY <1>2, <2>1 DEF IInv, TypeOK
    <2>3. RowsInv' /\ EditionsInv'
      BY <2>1, SameEditions DEF IInv
    <2>4. NamesInv'
      BY <2>1, SameNames DEF IInv, Live
    <2>5. QED
      BY <2>2, <2>3, <2>4 DEF IInv
  <1>5. QED
    BY <1>3, <1>4

(* Only the slugs of editions, their labels and tombstones change.         *)
LEMMA SlugsOnlyKeepsIInv ==
  ASSUME IInv, label' \in [Editions -> Labels],
         tombs' \in [Works \X EditionSlugs -> Editions \cup {NoRow}],
         slug' \in [Rows -> Slugs \cup EditionSlugs \cup {""}],
         \A d \in Editions : slug'[d] \in EditionSlugs \cup {""},
         \A o \in Owners : slug'[o] = slug[o],
         EditionsInv', UNCHANGED <<row, trash, title, names, buried>>
  PROVE  IInv'
  <1>1. TypeOK'
    BY DEF IInv, TypeOK
  <1>2. RowsInv'
    BY DEF IInv, RowsInv, TrashIsTrue, EditionsHaveWorks, Live, Exists
  <1>3. NamesInv'
    BY SameNames DEF IInv, Live
  <1>4. QED
    BY <1>1, <1>2, <1>3 DEF IInv

LEMMA EntombedType ==
  ASSUME NEW tb \in [Works \X EditionSlugs -> Editions \cup {NoRow}],
         NEW d \in Editions, NEW s
  PROVE  Entombed(tb, d, s) \in [Works \X EditionSlugs -> Editions \cup {NoRow}]
  BY DEF Entombed

LEMMA EditionLabelSetKeepsIInv ==
  ASSUME IInv, FreshPages, NEW d \in Editions, NEW lb \in Labels,
         EditionLabelSet(d, lb)
  PROVE  IInv'
  <1> DEFINE w == Parent[d]
             s == EditionSlug(d, lb, row)
  <1>1. /\ Live(d) /\ Live(w)
        /\ slug' = [slug EXCEPT ![d] = s]
        /\ label' = [label EXCEPT ![d] = lb]
        /\ tombs' = EditionMoved(d, s)
        /\ UNCHANGED <<row, trash, title, names, buried>>
    BY DEF EditionLabelSet, Offered, FreshPages, IInv, RowsInv, EditionsHaveWorks
  <1>2. /\ s \in EditionSlugs \cup {""}
        /\ s \notin SlugsUsed(w, row) \ Own(d)
    <2>1. SlugsUsed(w, row) \ Own(d) \subseteq SlugsUsed(w, row)
      OBVIOUS
    <2>2. QED
      BY <2>1, Disjoint, FreeEditionSlug DEF IInv, EditionSlug
  <1>3. \A c \in Editions : c \in Rows /\ c \notin Owners
    BY SlugsAssumption DEF Rows
  <1>4. slug'[d] = s /\ \A r \in Rows \ {d} : slug'[r] = slug[r]
    BY <1>1, <1>3 DEF IInv, TypeOK
  <1>5. label' \in [Editions -> Labels]
    BY <1>1 DEF IInv, TypeOK
  <1>6. tombs' \in [Works \X EditionSlugs -> Editions \cup {NoRow}]
    BY <1>1, EntombedType DEF EditionMoved, IInv, TypeOK
  <1>7. /\ slug' \in [Rows -> Slugs \cup EditionSlugs \cup {""}]
        /\ \A c \in Editions : slug'[c] \in EditionSlugs \cup {""}
    BY <1>1, <1>2, <1>3 DEF IInv, TypeOK
  <1>8. \A o \in Owners : slug'[o] = slug[o]
    BY <1>3, <1>4 DEF Rows
  <1>9. EditionsInv'
    <2>1. \A c \in Editions : With(c)' <=> With(c)
      BY <1>1 DEF With, Live
    <2>2. ASSUME NEW c \in Editions, c # d, Parent[c] = w, With(c)
          PROVE  slug'[c] # slug'[d]
      <3>1. Live(c)
        BY <1>1, <2>2, Siblings DEF IInv
      <3>2. slug[c] \in SlugsUsed(w, row)
        BY <2>2, <3>1 DEF SlugsUsed, EditionsOf, Live
      <3>3. slug[c] # slug[d]
        BY <1>1, <2>2 DEF IInv, EditionsInv, EditionsDiffer, With
      <3>4. slug[c] \notin Own(d)
        BY <3>3 DEF Own
      <3>5. QED
        BY <1>2, <1>3, <1>4, <2>2, <3>2, <3>4
    <2>3. EditionsDiffer'
      <3>1. \A c, e \in Editions \ {d} :
              c # e /\ Parent[c] = Parent[e] /\ With(c) /\ With(e) => slug'[c] # slug'[e]
        BY <1>3, <1>4 DEF IInv, EditionsInv, EditionsDiffer
      <3>2. QED
        BY <2>1, <2>2, <3>1 DEF EditionsDiffer
    <2>4. trash[d] # d
      BY <1>1, <1>3, Disjoint DEF IInv, RowsInv, TrashIsTrue, Live
    <2>5. TrashedIsNoDefault'
      BY <1>1, <1>3, <1>4, <2>4 DEF IInv, EditionsInv, TrashedIsNoDefault
    <2>6. QED
      BY <2>3, <2>5 DEF EditionsInv
  <1>10. QED
    BY <1>1, <1>5, <1>6, <1>7, <1>8, <1>9, SlugsOnlyKeepsIInv

(* The default edition hands its slug to a live sibling: the slugs of the  *)
(* work stay different, and only the sibling has the empty one.            *)
LEMMA HandingOver ==
  ASSUME IInv, NEW old \in Editions, NEW d \in Editions, Live(old), Live(d),
         Parent[old] = Parent[d], slug[old] = "", slug[d] # ""
  PROVE  /\ Handed(old, d).slug \in [Rows -> Slugs \cup EditionSlugs \cup {""}]
         /\ \A c \in Editions : Handed(old, d).slug[c] \in EditionSlugs \cup {""}
         /\ \A r \in Rows \ {old, d} : Handed(old, d).slug[r] = slug[r]
         /\ Handed(old, d).slug[old] # ""
         /\ Handed(old, d).tombs \in [Works \X EditionSlugs -> Editions \cup {NoRow}]
         /\ \A c, e \in Editions :
              c # e /\ Parent[c] = Parent[e] /\ With(c) /\ With(e)
                => Handed(old, d).slug[c] # Handed(old, d).slug[e]
  <1> DEFINE w == Parent[old]
             used == SlugsUsed(w, row)
             s == FindSlug(LabelSlugs[label[old]], used)
             sl == [slug EXCEPT ![old] = s, ![d] = ""]
  <1>1. Handed(old, d).slug = sl
    BY DEF Handed
  <1>2. Handed(old, d).tombs = Entombed(Entombed(tombs, old, s), d, "")
    BY DEF Handed
  <1>3. s \in EditionSlugs \cup {""} /\ s \notin used
    <2>1. label[old] \in Labels
      BY DEF IInv, TypeOK
    <2>2. QED
      BY <2>1, Disjoint, FreeEditionSlug DEF IInv
  <1>4. \A c \in Editions : c \in Rows /\ (Live(c) /\ Parent[c] = w => slug[c] \in used)
    BY DEF Rows, SlugsUsed, EditionsOf, Live
  <1>5. s # ""
    BY <1>3, <1>4
  <1>6. old # d
    OBVIOUS
  <1>7. sl[old] = s /\ sl[d] = "" /\ \A r \in Rows \ {old, d} : sl[r] = slug[r]
    BY <1>4, <1>6 DEF IInv, TypeOK
  <1>8. /\ sl \in [Rows -> Slugs \cup EditionSlugs \cup {""}]
        /\ \A c \in Editions : sl[c] \in EditionSlugs \cup {""}
    <2>1. sl \in [Rows -> Slugs \cup EditionSlugs \cup {""}]
      BY <1>3 DEF IInv, TypeOK
    <2>2. QED
      BY <1>3, <1>4, <1>7, <2>1 DEF IInv, TypeOK
  <1>9. Entombed(Entombed(tombs, old, s), d, "")
          \in [Works \X EditionSlugs -> Editions \cup {NoRow}]
    BY EntombedType DEF IInv, TypeOK
  <1> HIDE DEF sl, s, used
  <1>10. ASSUME NEW c \in Editions, NEW e \in Editions, c # e,
                Parent[c] = Parent[e], With(c), With(e)
         PROVE  sl[c] # sl[e]
    <2>1. slug[c] # slug[e]
      BY <1>10 DEF IInv, EditionsInv, EditionsDiffer
    <2>2. CASE Parent[c] # w
      <3>1. c \notin {old, d} /\ e \notin {old, d}
        BY <1>10, <2>2
      <3>2. QED
        BY <1>4, <1>7, <2>1, <3>1
    <2>3. CASE Parent[c] = w
      <3>1. Live(w)
        BY DEF IInv, RowsInv, EditionsHaveWorks
      <3>2. Live(c) /\ Live(e)
        BY <1>10, <2>3, <3>1, Siblings DEF IInv
      <3>3. \A a \in {c, e} \ {old, d} : sl[a] \in used /\ sl[a] # ""
        <4> SUFFICES ASSUME NEW a \in {c, e} \ {old, d}
                     PROVE  sl[a] \in used /\ sl[a] # ""
          OBVIOUS
        <4>1. a \in Editions /\ Live(a) /\ Parent[a] = w /\ sl[a] = slug[a]
          BY <1>4, <1>7, <1>10, <2>3, <3>2
        <4>2. slug[a] # slug[old]
          BY <4>1 DEF IInv, EditionsInv, EditionsDiffer, With
        <4>3. QED
          BY <1>4, <4>1, <4>2
      <3>4. CASE c \in {old, d} /\ e \in {old, d}
        <4>1. sl[old] # sl[d]
          BY <1>5, <1>7
        <4>2. (c = old /\ e = d) \/ (c = d /\ e = old)
          BY <1>10, <3>4
        <4>3. QED
          BY <4>1, <4>2
      <3>5. CASE c \notin {old, d} /\ e \notin {old, d}
        <4>1. c \in Rows \ {old, d} /\ e \in Rows \ {old, d}
          BY <1>4, <3>5
        <4>2. sl[c] = slug[c] /\ sl[e] = slug[e]
          BY <1>7, <4>1
        <4>3. QED
          BY <2>1, <4>2
      <3>6. sl[old] \notin used /\ sl[d] = ""
        BY <1>3, <1>7
      <3>7. CASE c \in {old, d} /\ e \notin {old, d}
        BY <3>3, <3>6, <3>7
      <3>8. CASE c \notin {old, d} /\ e \in {old, d}
        BY <3>3, <3>6, <3>8
      <3>9. QED
        BY <3>4, <3>5, <3>7, <3>8
    <2>4. QED
      BY <2>2, <2>3
  <1>11. Handed(old, d).tombs \in [Works \X EditionSlugs -> Editions \cup {NoRow}]
    BY <1>2, <1>9 DEF s, used
  <1>12. QED
    BY <1>1, <1>5, <1>7, <1>8, <1>10, <1>11 DEF sl, s, used

LEMMA SetDefaultKeepsIInv ==
  ASSUME IInv, FreshPages, NEW d \in MovieEditions, MovieEditionSetDefault(d)
  PROVE  IInv'
  <1>1. d \in Editions /\ Live(d) /\ Live(Parent[d]) /\ slug[d] # ""
    BY DEF MovieEditionSetDefault, Offered, FreshPages, Editions, IInv, RowsInv,
       EditionsHaveWorks
  <1>2. PICK old \in MovieEditions :
          /\ Exists(old) /\ Parent[old] = Parent[d] /\ slug[old] = ""
          /\ slug' = Handed(old, d).slug
          /\ tombs' = Handed(old, d).tombs
    BY DEF MovieEditionSetDefault
  <1>3. UNCHANGED <<row, trash, title, label, names, buried>>
    BY DEF MovieEditionSetDefault
  <1>4. old \in Editions /\ old \in Rows /\ d \in Rows
    BY <1>1 DEF Editions, Rows
  <1>5. Live(old)
    <2>1. trash[old] # Parent[old]
      BY <1>1, <1>2, <1>4, Siblings DEF IInv
    <2>2. trash[old] # old
      BY <1>2, <1>4 DEF IInv, EditionsInv, TrashedIsNoDefault
    <2>3. trash[old] \in {NoRow, old, Parent[old]}
      BY <1>4 DEF IInv, RowsInv, TrashIsTrue
    <2>4. row[old] # "trashed"
      BY <1>4, <2>1, <2>2, <2>3 DEF IInv, RowsInv, TrashIsTrue
    <2>5. QED
      BY <1>2, <2>4 DEF Exists, Live
  <1>6. /\ slug' \in [Rows -> Slugs \cup EditionSlugs \cup {""}]
        /\ \A c \in Editions : slug'[c] \in EditionSlugs \cup {""}
        /\ \A r \in Rows \ {old, d} : slug'[r] = slug[r]
        /\ tombs' \in [Works \X EditionSlugs -> Editions \cup {NoRow}]
        /\ \A c, e \in Editions :
             c # e /\ Parent[c] = Parent[e] /\ With(c) /\ With(e)
               => slug'[c] # slug'[e]
    <2> DEFINE H == Handed(old, d)
    <2>1. /\ H.slug \in [Rows -> Slugs \cup EditionSlugs \cup {""}]
          /\ \A c \in Editions : H.slug[c] \in EditionSlugs \cup {""}
          /\ \A r \in Rows \ {old, d} : H.slug[r] = slug[r]
          /\ H.tombs \in [Works \X EditionSlugs -> Editions \cup {NoRow}]
          /\ \A c, e \in Editions :
               c # e /\ Parent[c] = Parent[e] /\ With(c) /\ With(e)
                 => H.slug[c] # H.slug[e]
      BY <1>1, <1>2, <1>4, <1>5, HandingOver
    <2>2. slug' = H.slug /\ tombs' = H.tombs
      BY <1>2
    <2> HIDE DEF H
    <2>3. QED
      BY <2>1, <2>2
  <1>7. \A o \in Owners : slug'[o] = slug[o]
    <2>1. \A o \in Owners : o \in Rows /\ o \notin Editions
      BY Disjoint DEF Rows, Owners
    <2>2. QED
      BY <1>1, <1>4, <1>6, <2>1
  <1>8. EditionsInv'
    <2>1. \A c \in Editions : With(c)' <=> With(c)
      BY <1>3 DEF With, Live
    <2>2. EditionsDiffer'
      BY <1>6, <2>1 DEF EditionsDiffer
    <2>3. trash[old] = NoRow /\ trash[d] = NoRow /\ old # NoRow /\ d # NoRow
      BY <1>1, <1>4, <1>5, Disjoint DEF IInv, RowsInv, TrashIsTrue, Live
    <2>4. TrashedIsNoDefault'
      <3>1. \A c \in Editions : trash'[c] = c => c \in Rows \ {old, d}
        BY <1>3, <2>3 DEF Rows
      <3>2. QED
        BY <1>3, <1>6, <3>1 DEF IInv, EditionsInv, TrashedIsNoDefault
    <2>5. QED
      BY <2>2, <2>4 DEF EditionsInv
  <1>9. label' \in [Editions -> Labels]
    BY <1>3 DEF IInv, TypeOK
  <1>10. QED
    BY <1>3, <1>6, <1>7, <1>8, <1>9, SlugsOnlyKeepsIInv

-----------------------------------------------------------------------------
(* Trash, restore and purge.                                               *)

(* Tombstones of the dead go.                                              *)
LEMMA WithoutType ==
  ASSUME NEW tb \in [Works \X EditionSlugs -> Editions \cup {NoRow}], NEW dead
  PROVE  Without(tb, dead) \in [Works \X EditionSlugs -> Editions \cup {NoRow}]
  BY DEF Without

LEMMA TrashOwnerKeepsIInv ==
  ASSUME IInv, NEW o \in Owners, TrashOwner(o)
  PROVE  IInv'
  <1> DEFINE dead == {o} \cup EditionsOf(o, row)
  <1>1. /\ Live(o)
        /\ row' = [r \in Rows |-> IF r \in dead THEN "trashed" ELSE row[r]]
        /\ trash' = [r \in Rows |-> IF r \in dead THEN o ELSE trash[r]]
        /\ tombs' = Without(tombs, dead)
        /\ names' = [s \in Slugs |-> IF names[s] = o THEN NoRow ELSE names[s]]
        /\ buried' = {s \in buried : names[s] # o}
        /\ UNCHANGED <<slug, title, label>>
    BY DEF TrashOwner, SoftDelete, SlugDelete, texts
  <1>2. /\ o \in Rows /\ o \notin Editions /\ o # NoRow
        /\ \A d \in Editions : /\ d \in Rows /\ Parent[d] \in Rows /\ Parent[d] \in Owners
                               /\ d \notin Owners /\ Parent[d] # NoRow
    BY Disjoint DEF Rows, Owners
  <1>3. /\ \A p \in Owners : p \in dead <=> p = o
        /\ \A d \in Editions : d \in dead <=> Parent[d] = o /\ Live(d)
        /\ \A r \in dead : Live(r) /\ trash[r] = NoRow
    <2>1. \A d \in Editions : d \in dead <=> Parent[d] = o /\ Live(d)
      BY <1>2 DEF EditionsOf, Live
    <2>2. \A r \in dead : Live(r) /\ r \in Rows
      BY <1>1, <1>2 DEF EditionsOf, Live
    <2>3. \A r \in dead : trash[r] = NoRow
      BY <2>2 DEF IInv, RowsInv, TrashIsTrue, Live
    <2>4. \A p \in Owners : p \in dead <=> p = o
      BY <1>2 DEF EditionsOf
    <2>5. QED
      BY <2>1, <2>2, <2>3, <2>4
  <1> HIDE DEF dead
  <1>4. \A r \in Rows : /\ row'[r] = IF r \in dead THEN "trashed" ELSE row[r]
                        /\ trash'[r] = IF r \in dead THEN o ELSE trash[r]
    BY <1>1
  <1>5. TypeOK'
    <2>1. row' \in [Rows -> {"new", "live", "trashed", "gone"}]
      BY <1>1 DEF IInv, TypeOK
    <2>2. trash' \in [Rows -> Rows \cup {NoRow}]
      BY <1>1, <1>2 DEF IInv, TypeOK
    <2>3. names' \in [Slugs -> Owners \cup {NoRow}] /\ buried' \subseteq Slugs
      BY <1>1 DEF IInv, TypeOK
    <2>4. tombs' \in [Works \X EditionSlugs -> Editions \cup {NoRow}]
      BY <1>1, WithoutType DEF IInv, TypeOK
    <2>5. QED
      BY <1>1, <2>1, <2>2, <2>3, <2>4 DEF IInv, TypeOK
  <1>6. RowsInv'
    <2>1. TrashIsTrue'
      <3> SUFFICES ASSUME NEW r \in Rows
                   PROVE  /\ row'[r] = "trashed" <=> trash'[r] # NoRow
                          /\ trash'[r] \in {NoRow, r} \cup
                               (IF r \in Editions THEN {Parent[r]} ELSE {})
                          /\ trash'[r] # NoRow => trash'[trash'[r]] = trash'[r]
        BY DEF TrashIsTrue
      <3>1. CASE r \in dead
        <4>1. trash'[r] = o /\ row'[r] = "trashed" /\ trash'[o] = o
          BY <1>2, <1>3, <1>4, <3>1
        <4>2. r = o \/ (r \in Editions /\ Parent[r] = o)
          BY <1>3, <3>1 DEF Rows
        <4>3. QED
          BY <1>2, <4>1, <4>2
      <3>2. CASE r \notin dead
        <4>1. row'[r] = row[r] /\ trash'[r] = trash[r]
          BY <1>4, <3>2
        <4>2. trash[r] # NoRow => trash[r] \in Rows /\ trash[trash[r]] = trash[r]
          BY DEF IInv, TypeOK, RowsInv, TrashIsTrue
        <4>3. trash[r] # NoRow => trash[r] \notin dead
          BY <1>3, <4>2
        <4>4. QED
          BY <1>4, <4>1, <4>2, <4>3 DEF IInv, RowsInv, TrashIsTrue
      <3>3. QED
        BY <3>1, <3>2
    <2>2. EditionsHaveWorks'
      <3> SUFFICES ASSUME NEW d \in Editions
                   PROVE  /\ row'[d] = "live" => row'[Parent[d]] = "live"
                          /\ row'[d] \in {"live", "trashed"}
                               => row'[Parent[d]] \in {"live", "trashed"}
        BY DEF EditionsHaveWorks, Live, Exists
      <3>1. /\ row[d] = "live" => row[Parent[d]] = "live"
            /\ row[d] \in {"live", "trashed"} => row[Parent[d]] \in {"live", "trashed"}
        BY DEF IInv, RowsInv, EditionsHaveWorks, Live, Exists
      <3>2. Parent[d] \in dead <=> Parent[d] = o
        BY <1>2, <1>3
      <3>3. QED
        BY <1>2, <1>3, <1>4, <3>1, <3>2 DEF Live
    <2>3. QED
      BY <2>1, <2>2 DEF RowsInv
  <1>7. EditionsInv'
    <2>1. ASSUME NEW d \in Editions
          PROVE  (With(d)' => With(d)) /\ (trash'[d] = d => trash[d] = d)
      <3>1. CASE d \in dead
        BY <1>2, <1>3, <3>1, <1>4 DEF With
      <3>2. CASE d \notin dead
        BY <1>2, <1>4, <3>2 DEF With, Live
      <3>3. QED
        BY <3>1, <3>2
    <2>2. EditionsDiffer'
      BY <1>1, <2>1 DEF IInv, EditionsInv, EditionsDiffer
    <2>3. TrashedIsNoDefault'
      BY <1>1, <2>1 DEF IInv, EditionsInv, TrashedIsNoDefault
    <2>4. QED
      BY <2>2, <2>3 DEF EditionsInv
  <1>8. NamesInv'
    <2>1. \A p \in Owners : row'[p] = "live" <=> row[p] = "live" /\ p # o
      BY <1>3, <1>4 DEF Rows
    <2>2. \A s \in Slugs : /\ names[s] # NoRow => names[s] \in Owners
                           /\ names'[s] = IF names[s] = o THEN NoRow ELSE names[s]
      BY <1>1 DEF IInv, TypeOK
    <2>3. ColumnIsName'
      BY <1>1, <2>1, <2>2 DEF IInv, NamesInv, ColumnIsName, Live
    <2>4. NameIsColumn'
      BY <1>1, <2>2 DEF IInv, NamesInv, NameIsColumn, Named
    <2>5. NamesAreLive'
      BY <2>1, <2>2 DEF IInv, NamesInv, NamesAreLive, Live
    <2>6. NamesWereTried'
      BY <2>2 DEF IInv, NamesInv, NamesWereTried, Tried
    <2>7. QED
      BY <2>3, <2>4, <2>5, <2>6 DEF NamesInv
  <1>9. QED
    BY <1>5, <1>6, <1>7, <1>8 DEF IInv

(* The slugs of an edition that goes, and the tombstones it leaves.        *)
LEMMA TrashEditionHands ==
  ASSUME IInv, NEW x \in Editions, TrashEdition(x)
  PROVE  /\ slug' \in [Rows -> Slugs \cup EditionSlugs \cup {""}]
         /\ \A c \in Editions : slug'[c] \in EditionSlugs \cup {""}
         /\ \A o \in Owners : slug'[o] = slug[o]
         /\ \A c \in Editions \ {x} : trash[c] = c => slug'[c] = slug[c]
         /\ slug'[x] # ""
         /\ tombs' \in [Works \X EditionSlugs -> Editions \cup {NoRow}]
         /\ \A c, e \in Editions :
              c # e /\ Parent[c] = Parent[e] /\ With(c) /\ With(e)
                => slug'[c] # slug'[e]
  <1>1. CASE slug[x] = ""
    <2>1. PICK d \in EditionsOf(Parent[x], row) :
            /\ slug[d] # ""
            /\ slug' = Handed(x, d).slug
            /\ tombs' = Without(Handed(x, d).tombs, {x})
      BY <1>1 DEF TrashEdition
    <2>2. d \in Editions /\ Live(d) /\ Parent[d] = Parent[x] /\ Live(x)
      BY DEF EditionsOf, Live, TrashEdition
    <2> DEFINE H == Handed(x, d)
    <2>3. /\ H.slug \in [Rows -> Slugs \cup EditionSlugs \cup {""}]
          /\ \A c \in Editions : H.slug[c] \in EditionSlugs \cup {""}
          /\ \A r \in Rows \ {x, d} : H.slug[r] = slug[r]
          /\ H.slug[x] # ""
          /\ H.tombs \in [Works \X EditionSlugs -> Editions \cup {NoRow}]
          /\ \A c, e \in Editions :
               c # e /\ Parent[c] = Parent[e] /\ With(c) /\ With(e)
                 => H.slug[c] # H.slug[e]
      BY <1>1, <2>1, <2>2, HandingOver
    <2>4. slug' = H.slug /\ tombs' = Without(H.tombs, {x})
      BY <2>1
    <2> HIDE DEF H
    <2>5. tombs' \in [Works \X EditionSlugs -> Editions \cup {NoRow}]
      BY <2>3, <2>4, WithoutType
    <2>6. \A o \in Owners : o \in Rows /\ o \notin Editions
      BY Disjoint DEF Rows, Owners
    <2>7. trash[d] # d
      BY <2>2, Disjoint DEF IInv, RowsInv, TrashIsTrue, Live, Rows
    <2>8. \A c \in Editions \ {x} : trash[c] = c => c \in Rows \ {x, d}
      BY <2>7 DEF Rows
    <2>9. QED
      BY <2>2, <2>3, <2>4, <2>5, <2>6, <2>8
  <1>2. CASE slug[x] # ""
    <2>1. slug' = slug /\ tombs' = Without(tombs, {x})
      BY <1>2 DEF TrashEdition
    <2>2. tombs' \in [Works \X EditionSlugs -> Editions \cup {NoRow}]
      BY <2>1, WithoutType DEF IInv, TypeOK
    <2>3. QED
      BY <1>2, <2>1, <2>2 DEF IInv, TypeOK, EditionsInv, EditionsDiffer
  <1>3. QED
    BY <1>1, <1>2

LEMMA TrashEditionKeepsIInv ==
  ASSUME IInv, NEW x \in Editions, TrashEdition(x)
  PROVE  IInv'
  <1>1. /\ Live(x)
        /\ row' = [r \in Rows |-> IF r \in {x} THEN "trashed" ELSE row[r]]
        /\ trash' = [r \in Rows |-> IF r \in {x} THEN x ELSE trash[r]]
        /\ UNCHANGED <<names, buried, title, label>>
    BY DEF TrashEdition, SoftDelete, texts
  <1>2. /\ x \in Rows /\ x \notin Owners /\ x # NoRow /\ Parent[x] # x
        /\ \A d \in Editions : d \in Rows /\ Parent[d] \in Rows /\ Parent[d] # x
    BY Disjoint DEF Rows, Owners
  <1>3. \A r \in Rows : /\ row'[r] = IF r = x THEN "trashed" ELSE row[r]
                        /\ trash'[r] = IF r = x THEN x ELSE trash[r]
    BY <1>1
  <1>4. trash[x] = NoRow /\ row[x] = "live"
    BY <1>1, <1>2 DEF IInv, RowsInv, TrashIsTrue, Live
  <1>5. TypeOK'
    <2>1. row' \in [Rows -> {"new", "live", "trashed", "gone"}]
      BY <1>1 DEF IInv, TypeOK
    <2>2. trash' \in [Rows -> Rows \cup {NoRow}]
      BY <1>1, <1>2 DEF IInv, TypeOK
    <2>3. QED
      BY <1>1, <2>1, <2>2, TrashEditionHands DEF IInv, TypeOK
  <1>6. RowsInv'
    <2>1. TrashIsTrue'
      <3> SUFFICES ASSUME NEW r \in Rows
                   PROVE  /\ row'[r] = "trashed" <=> trash'[r] # NoRow
                          /\ trash'[r] \in {NoRow, r} \cup
                               (IF r \in Editions THEN {Parent[r]} ELSE {})
                          /\ trash'[r] # NoRow => trash'[trash'[r]] = trash'[r]
        BY DEF TrashIsTrue
      <3>1. CASE r = x
        BY <1>2, <1>3, <3>1
      <3>2. CASE r # x
        <4>1. row'[r] = row[r] /\ trash'[r] = trash[r]
          BY <1>3, <3>2
        <4>2. trash[r] # NoRow => trash[r] \in Rows /\ trash[trash[r]] = trash[r]
          BY DEF IInv, TypeOK, RowsInv, TrashIsTrue
        <4>3. trash[r] # NoRow => trash[r] # x
          BY <1>2, <1>4, <4>2
        <4>4. QED
          BY <1>3, <4>1, <4>2, <4>3 DEF IInv, RowsInv, TrashIsTrue
      <3>3. QED
        BY <3>1, <3>2
    <2>2. EditionsHaveWorks'
      BY <1>2, <1>3, <1>4 DEF IInv, RowsInv, EditionsHaveWorks, Live, Exists
    <2>3. QED
      BY <2>1, <2>2 DEF RowsInv
  <1>7. EditionsInv'
    <2>1. \A d \in Editions : With(d)' => With(d) /\ d # x
      BY <1>2, <1>3 DEF With, Live
    <2>2. EditionsDiffer'
      BY <2>1, TrashEditionHands DEF EditionsDiffer
    <2>3. \A d \in Editions \ {x} : trash'[d] = d => trash[d] = d
      BY <1>2, <1>3
    <2>4. \A d \in Editions : trash[d] = d => slug[d] # ""
      BY DEF IInv, EditionsInv, TrashedIsNoDefault
    <2>5. /\ \A d \in Editions \ {x} : trash[d] = d => slug'[d] = slug[d]
          /\ slug'[x] # ""
      BY TrashEditionHands
    <2>6. TrashedIsNoDefault'
      BY <2>3, <2>4, <2>5 DEF TrashedIsNoDefault
    <2>7. QED
      BY <2>2, <2>6 DEF EditionsInv
  <1>8. NamesInv'
    <2>1. \A p \in Owners : (Live(p)' <=> Live(p)) /\ slug'[p] = slug[p]
      BY <1>2, <1>3, TrashEditionHands DEF Live, Rows
    <2>2. QED
      BY <1>1, <2>1, SameNames DEF IInv
  <1>9. QED
    BY <1>5, <1>6, <1>7, <1>8 DEF IInv

(* The roots of a restore, an edition with the work it is under.           *)
LEMMA RestoredRoots ==
  ASSUME IInv, NEW x \in Rows, trash[x] = x
  PROVE  /\ RootsOf(x) \subseteq Rows
         /\ \A r \in RootsOf(x) : trash[r] = r /\ ~Live(r)
         /\ x \in RootsOf(x)
         /\ x \in Owners => RootsOf(x) = {x}
         /\ x \in Editions =>
              /\ RootsOf(x) \cap Editions = {x}
              /\ \/ RootsOf(x) = {x, Parent[x]}
                 \/ RootsOf(x) = {x} /\ Live(Parent[x])
  <1>1. x # NoRow /\ row[x] = "trashed"
    BY SlugsAssumption DEF IInv, RowsInv, TrashIsTrue
  <1>2. CASE x \in Owners
    <2>1. x \notin Editions
      BY <1>2, Disjoint DEF Owners
    <2>2. RootsOf(x) = {x}
      BY <2>1 DEF RootsOf
    <2>3. QED
      BY <1>1, <1>2, <2>1, <2>2 DEF Live
  <1>3. CASE x \in Editions
    <2> DEFINE w == Parent[x]
    <2>1. w \in Owners /\ w \in Rows /\ w \notin Editions /\ w # NoRow /\ w # x
      BY <1>3, Disjoint DEF Rows, Owners
    <2>2. row[w] \in {"live", "trashed"}
      BY <1>1, <1>3 DEF IInv, RowsInv, EditionsHaveWorks, Exists
    <2>3. trash[w] \in {NoRow, w}
      BY <2>1 DEF IInv, RowsInv, TrashIsTrue
    <2>4. row[w] = "trashed" <=> trash[w] # NoRow
      BY <2>1 DEF IInv, RowsInv, TrashIsTrue
    <2>5. CASE trash[w] = NoRow
      <3>1. RootsOf(x) = {x}
        BY <1>3, <2>5 DEF RootsOf
      <3>2. Live(w)
        BY <2>2, <2>4, <2>5 DEF Live
      <3>3. x \notin Owners
        BY <1>3, Disjoint DEF Owners
      <3>4. QED
        BY <1>1, <1>3, <3>1, <3>2, <3>3 DEF Live
    <2>6. CASE trash[w] = w
      <3>1. RootsOf(x) = {x, w}
        BY <1>3, <2>1, <2>6 DEF RootsOf
      <3>2. row[w] = "trashed"
        BY <2>1, <2>4, <2>6
      <3>3. x \notin Owners
        BY <1>3, Disjoint DEF Owners
      <3>4. QED
        BY <1>1, <1>3, <2>1, <2>6, <3>1, <3>2, <3>3 DEF Live
    <2>7. QED
      BY <2>3, <2>5, <2>6
  <1>4. QED
    BY <1>2, <1>3 DEF Rows

(* The slugs after a restore: of the right kind, new ones for the roots    *)
(* and the old ones for the rest.                                          *)
LEMMA RestoredSlugs ==
  ASSUME IInv, NEW x \in Rows, trash[x] = x
  PROVE  /\ SlugsAfter(RootsOf(x)) \in [Rows -> Slugs \cup EditionSlugs \cup {""}]
         /\ \A d \in Editions : SlugsAfter(RootsOf(x))[d] \in EditionSlugs \cup {""}
         /\ \A r \in Rows \ RootsOf(x) : SlugsAfter(RootsOf(x))[r] = slug[r]
         /\ \A o \in Owners \cap RootsOf(x) :
              SlugsAfter(RootsOf(x))[o] = OwnerSlug(o, TitleOf(o, title))
         /\ x \in Editions =>
              SlugsAfter(RootsOf(x))[x]
                \notin SlugsUsed(Parent[x], RowsAfter(RootsOf(x) \cap Owners))
  <1> DEFINE R == RootsOf(x)
             sl == SlugsAfter(R)
             rw == RowsAfter(R \cap Owners)
  <1>1. /\ R \subseteq Rows /\ \A r \in R : ~Live(r)
        /\ x \in Editions => R \cap Editions = {x}
        /\ x \in Owners => R = {x}
    BY RestoredRoots
  <1>2. /\ Owners \cap Editions = {}
        /\ \A r \in Rows : r \in Owners \/ r \in Editions
    BY SlugsAssumption DEF Rows
  <1> HIDE DEF R
  <1>3. \A r \in Rows :
          sl[r] = IF r \notin R THEN slug[r]
                  ELSE IF r \in Owners THEN OwnerSlug(r, TitleOf(r, title))
                  ELSE EditionSlug(r, label[r], rw)
    BY DEF SlugsAfter
  <1>4. \A o \in Owners : OwnerSlug(o, TitleOf(o, title)) \in Slugs
    BY TitleType, FreeOwnerSlug DEF IInv, TypeOK
  <1>5. ASSUME NEW d \in Editions, d \in R
        PROVE  /\ EditionSlug(d, label[d], rw) \in EditionSlugs \cup {""}
               /\ EditionSlug(d, label[d], rw) \notin SlugsUsed(Parent[d], rw)
    <2>1. Own(d) = {}
      BY <1>1, <1>5 DEF Own
    <2>2. label[d] \in Labels
      BY DEF IInv, TypeOK
    <2>3. QED
      BY <2>1, <2>2, Disjoint, FreeEditionSlug DEF IInv, EditionSlug
  <1>6. \A d \in Editions : d \in Rows /\ slug[d] \in EditionSlugs \cup {""}
    BY DEF IInv, TypeOK, Rows
  <1>7. \A d \in Editions : sl[d] \in EditionSlugs \cup {""}
    BY <1>2, <1>3, <1>5, <1>6
  <1>8. \A r \in Rows : sl[r] \in Slugs \cup EditionSlugs \cup {""}
    BY <1>2, <1>3, <1>4, <1>7 DEF IInv, TypeOK
  <1>9. sl \in [Rows -> Slugs \cup EditionSlugs \cup {""}]
    BY <1>8 DEF SlugsAfter
  <1>10. \A o \in Owners \cap R : sl[o] = OwnerSlug(o, TitleOf(o, title))
    BY <1>1, <1>3
  <1>11. x \in Editions => x \in R /\ x \notin Owners
    BY <1>1, <1>2
  <1>12. x \in Editions => sl[x] \notin SlugsUsed(Parent[x], rw)
    BY <1>3, <1>5, <1>11
  <1>13. \A r \in Rows \ R : sl[r] = slug[r]
    BY <1>3
  <1>14. QED
    BY <1>7, <1>9, <1>10, <1>12, <1>13 DEF R

(* The editions that are live after a restore, or may be later, differ.    *)
LEMMA RestoredDiffer ==
  ASSUME IInv, NEW x \in Rows, trash[x] = x, NEW d \in Editions, NEW e \in Editions,
         d # e, Parent[d] = Parent[e],
         RowsAfter(RootsOf(x))[d] = "live" \/ trash[d] = Parent[d],
         RowsAfter(RootsOf(x))[e] = "live" \/ trash[e] = Parent[e]
  PROVE  SlugsAfter(RootsOf(x))[d] # SlugsAfter(RootsOf(x))[e]
  <1> DEFINE R == RootsOf(x)
             sl == SlugsAfter(R)
  <1>1. /\ R \subseteq Rows /\ \A r \in R : trash[r] = r
        /\ x \in Owners => R = {x}
        /\ x \in Editions => /\ R \cap Editions = {x}
                             /\ R = {x, Parent[x]} \/ Live(Parent[x])
    BY RestoredRoots
  <1>2. /\ \A r \in Rows : r \in Owners \/ r \in Editions
        /\ \A c \in Editions : /\ c \in Rows /\ c \notin Owners /\ Parent[c] \in Owners
                               /\ Parent[c] \notin Editions
        /\ NoRow \notin Rows
    BY Disjoint, SlugsAssumption DEF Rows
  <1>3. \A r \in Rows \ R : sl[r] = slug[r]
    BY RestoredSlugs
  <1>4. ASSUME NEW c \in Editions \ R,
               RowsAfter(R)[c] = "live" \/ trash[c] = Parent[c]
        PROVE  With(c)
    <2>1. trash[c] \in {NoRow, c, Parent[c]}
      BY DEF IInv, RowsInv, TrashIsTrue, Rows
    <2>2. trash[c] \in R => trash[c] = Parent[c]
      BY <1>1, <1>2, <2>1
    <2>3. RowsAfter(R)[c] = "live" => Live(c) \/ trash[c] \in R
      BY <1>2 DEF RowsAfter, Live
    <2>4. QED
      BY <1>4, <2>2, <2>3 DEF With
  <1>5. ASSUME NEW c \in Editions \ R, x \in Editions, Parent[c] = Parent[x], With(c)
        PROVE  sl[c] # sl[x]
    <2>1. RowsAfter(R \cap Owners)[c] = "live"
      <3>1. CASE Live(c)
        BY <1>2, <3>1 DEF RowsAfter, Live
      <3>2. CASE trash[c] = Parent[c] /\ ~Live(c)
        <4>1. ~Live(Parent[x])
          BY <1>5, <3>2, Siblings DEF IInv
        <4>2. Parent[c] \in R \cap Owners
          BY <1>1, <1>2, <1>5, <4>1
        <4>3. QED
          BY <1>2, <3>2, <4>2 DEF RowsAfter
      <3>3. QED
        BY <1>5, <3>1, <3>2 DEF With
    <2>2. slug[c] \in SlugsUsed(Parent[x], RowsAfter(R \cap Owners))
      BY <1>5, <2>1 DEF SlugsUsed, EditionsOf
    <2>3. sl[x] \notin SlugsUsed(Parent[x], RowsAfter(R \cap Owners))
      BY <1>5, RestoredSlugs
    <2>4. QED
      BY <1>2, <1>3, <2>2, <2>3
  <1>6. CASE d \notin R /\ e \notin R
    <2>1. With(d) /\ With(e)
      BY <1>4, <1>6
    <2>2. slug[d] # slug[e]
      BY <2>1 DEF IInv, EditionsInv, EditionsDiffer
    <2>3. QED
      BY <1>2, <1>3, <1>6, <2>2
  <1>7. CASE d \in R \/ e \in R
    <2>1. x \in Editions
      BY <1>1, <1>2, <1>7
    <2>2. (d = x /\ e \notin R) \/ (e = x /\ d \notin R)
      BY <1>1, <1>7, <2>1
    <2>3. QED
      BY <1>4, <1>5, <2>1, <2>2
  <1>8. QED
    BY <1>6, <1>7

LEMMA RestoreKeepsIInv ==
  ASSUME IInv, NEW x \in Rows, Restore(x)
  PROVE  IInv'
  <1> DEFINE R == RootsOf(x)
  <1>1. /\ trash[x] = x
        /\ row' = RowsAfter(R)
        /\ trash' = [r \in Rows |-> IF trash[r] \in R THEN NoRow ELSE trash[r]]
        /\ slug' = SlugsAfter(R)
        /\ IF R \cap Owners = {} THEN UNCHANGED <<names, buried>>
           ELSE \E o \in R \cap Owners : SlugRow(o, slug'[o])
        /\ tombs' = IF x \in Editions THEN EditionMoved(x, slug'[x]) ELSE tombs
        /\ UNCHANGED <<title, label>>
    BY DEF Restore, texts
  <1>2. /\ R \subseteq Rows /\ \A r \in R : trash[r] = r /\ ~Live(r)
        /\ x \in R
        /\ x \in Owners => R = {x}
        /\ x \in Editions => /\ R \cap Editions = {x}
                             /\ R = {x, Parent[x]} \/ Live(Parent[x])
                             /\ R = {x, Parent[x]} \/ R = {x}
    BY <1>1, RestoredRoots
  <1>3. /\ \A r \in Rows : r \in Owners \/ r \in Editions
        /\ \A p \in Owners : p \in Rows /\ p \notin Editions
        /\ \A c \in Editions : /\ c \in Rows /\ c \notin Owners /\ Parent[c] \in Owners
                               /\ Parent[c] \in Rows /\ Parent[c] # NoRow
        /\ NoRow \notin Rows
    BY Disjoint DEF Rows, Owners
  <1>4. \A r \in Rows :
          /\ row'[r] = IF trash[r] \in R THEN "live" ELSE row[r]
          /\ trash'[r] = IF trash[r] \in R THEN NoRow ELSE trash[r]
    BY <1>1 DEF RowsAfter
  <1>5. /\ \A r \in Rows \ R : slug'[r] = slug[r]
        /\ \A o \in Owners \cap R : slug'[o] = OwnerSlug(o, TitleOf(o, title))
    <2> DEFINE sl == SlugsAfter(R)
    <2>1. /\ \A r \in Rows \ R : sl[r] = slug[r]
          /\ \A o \in Owners \cap R : sl[o] = OwnerSlug(o, TitleOf(o, title))
      BY <1>1, RestoredSlugs
    <2>2. slug' = sl
      BY <1>1
    <2> HIDE DEF sl, R
    <2>3. QED
      BY <2>1, <2>2
  <1>6. \A r \in Rows :
          /\ row[r] = "trashed" <=> trash[r] # NoRow
          /\ trash[r] \in {NoRow, r} \cup (IF r \in Editions THEN {Parent[r]} ELSE {})
          /\ trash[r] # NoRow => trash[trash[r]] = trash[r]
    BY DEF IInv, RowsInv, TrashIsTrue
  <1> HIDE DEF R
  <1>7. RowsInv'
    <2>1. TrashIsTrue'
      <3> SUFFICES ASSUME NEW r \in Rows
                   PROVE  /\ row'[r] = "trashed" <=> trash'[r] # NoRow
                          /\ trash'[r] \in {NoRow, r} \cup
                               (IF r \in Editions THEN {Parent[r]} ELSE {})
                          /\ trash'[r] # NoRow => trash'[trash'[r]] = trash'[r]
        BY DEF TrashIsTrue
      <3>1. CASE trash[r] \in R
        BY <1>4, <3>1
      <3>2. CASE trash[r] \notin R
        <4>1. row'[r] = row[r] /\ trash'[r] = trash[r]
          BY <1>4, <3>2
        <4>2. trash[r] # NoRow => trash[r] \in Rows /\ trash[trash[r]] = trash[r]
          BY <1>6, OldTypes DEF IInv
        <4>3. QED
          BY <1>4, <1>6, <3>2, <4>1, <4>2
      <3>3. QED
        BY <3>1, <3>2
    <2>2. EditionsHaveWorks'
      <3> SUFFICES ASSUME NEW d \in Editions
                   PROVE  /\ row'[d] = "live" => row'[Parent[d]] = "live"
                          /\ row'[d] \in {"live", "trashed"}
                               => row'[Parent[d]] \in {"live", "trashed"}
        BY DEF EditionsHaveWorks, Live, Exists
      <3>1. /\ row[d] = "live" => row[Parent[d]] = "live"
            /\ row[d] \in {"live", "trashed"} => row[Parent[d]] \in {"live", "trashed"}
        BY DEF IInv, RowsInv, EditionsHaveWorks, Live, Exists
      <3>2. row[Parent[d]] = "live" => row'[Parent[d]] = "live"
        BY <1>3, <1>4
      <3>3. CASE trash[d] \in R
        <4>1. trash[d] = d \/ trash[d] = Parent[d]
          BY <1>2, <1>3, <1>6, <3>3
        <4>2. CASE trash[d] = Parent[d]
          <5>1. trash[Parent[d]] = Parent[d]
            BY <1>2, <3>3, <4>2
          <5>2. QED
            BY <1>3, <1>4, <3>3, <4>2, <5>1
        <4>3. CASE trash[d] = d
          <5>1. d = x
            BY <1>2, <1>3, <3>3, <4>3
          <5>2. CASE R = {x, Parent[x]}
            <6>1. trash[Parent[d]] \in R
              BY <1>2, <5>1, <5>2
            <6>2. QED
              BY <1>3, <1>4, <6>1
          <5>3. CASE Live(Parent[x])
            BY <3>2, <5>1, <5>3 DEF Live
          <5>4. QED
            BY <1>2, <5>1, <5>2, <5>3
        <4>4. QED
          BY <4>1, <4>2, <4>3
      <3>4. CASE trash[d] \notin R
        <4>1. row'[d] = row[d]
          BY <1>3, <1>4, <3>4
        <4>2. row'[Parent[d]] \in {row[Parent[d]], "live"}
          BY <1>3, <1>4
        <4>3. QED
          BY <3>1, <3>2, <4>1, <4>2
      <3>5. QED
        BY <3>3, <3>4
    <2>3. QED
      BY <2>1, <2>2 DEF RowsInv
  <1>8. EditionsInv'
    <2>1. ASSUME NEW d \in Editions, With(d)'
          PROVE  RowsAfter(R)[d] = "live" \/ trash[d] = Parent[d]
      <3>1. row'[d] = "live" \/ trash'[d] = Parent[d]
        BY <2>1 DEF With, Live
      <3>2. trash'[d] = Parent[d] => trash[d] = Parent[d]
        BY <1>3, <1>4
      <3>3. QED
        BY <1>1, <3>1, <3>2
    <2>2. ASSUME NEW d \in Editions, NEW e \in Editions, d # e, Parent[d] = Parent[e],
                 With(d)', With(e)'
          PROVE  slug'[d] # slug'[e]
      <3>1. /\ RowsAfter(R)[d] = "live" \/ trash[d] = Parent[d]
            /\ RowsAfter(R)[e] = "live" \/ trash[e] = Parent[e]
        BY <2>1, <2>2
      <3>2. SlugsAfter(R)[d] # SlugsAfter(R)[e]
        BY <1>1, <2>2, <3>1, RestoredDiffer DEF R
      <3>3. QED
        BY <1>1, <3>2
    <2>3. EditionsDiffer'
      BY <2>2 DEF EditionsDiffer
    <2>4. ASSUME NEW d \in Editions, trash'[d] = d
          PROVE  slug'[d] # ""
      <3>1. trash[d] = d /\ d \notin R
        BY <1>3, <1>4, <2>4
      <3>2. slug'[d] = slug[d]
        BY <1>3, <1>5, <3>1
      <3>3. QED
        <4>1. slug[d] # ""
          BY <3>1 DEF IInv, EditionsInv, TrashedIsNoDefault
        <4>2. QED
          BY <3>2, <4>1
    <2>5. TrashedIsNoDefault'
      BY <2>4 DEF TrashedIsNoDefault
    <2>6. QED
      BY <2>3, <2>5 DEF EditionsInv
  <1>9. \A p \in Owners : row'[p] = "live" <=> row[p] = "live" \/ p \in R
    <2>1. \A p \in Owners : trash[p] \in R <=> p \in R
      BY <1>2, <1>3, <1>6
    <2>2. QED
      BY <1>3, <1>4, <2>1
  <1>10. /\ NamesInv'
         /\ names' \in [Slugs -> Owners \cup {NoRow}] /\ buried' \subseteq Slugs
    <2>1. CASE R \cap Owners = {}
      <3>1. UNCHANGED <<names, buried>>
        BY <1>1, <2>1
      <3>2. \A p \in Owners : (Live(p)' <=> Live(p)) /\ slug'[p] = slug[p]
        BY <1>3, <1>5, <1>9, <2>1 DEF Live
      <3>3. NamesInv'
        BY <3>1, <3>2, SameNames DEF IInv
      <3>4. QED
        BY <3>1, <3>3, OldTypes DEF IInv
    <2>2. CASE R \cap Owners # {}
      <3>1. PICK o \in R \cap Owners : SlugRow(o, slug'[o])
        BY <1>1, <2>2
      <3>2. \A p \in Owners : p \in R => p = o
        BY <1>2, <1>3
      <3>3. slug'[o] = OwnerSlug(o, TitleOf(o, title)) /\ TitleOf(o, title) \in Titles
        BY <1>5, TitleType, OldTypes DEF IInv
      <3>4. Live(o)' /\ \A p \in Owners \ {o} : slug'[p] = slug[p] /\ (Live(p)' <=> Live(p))
        BY <1>3, <1>5, <1>9, <3>2 DEF Live
      <3>5. QED
        BY <3>1, <3>3, <3>4, SlugRowKeepsNames DEF IInv
    <2>3. QED
      BY <2>1, <2>2
  <1>11. TypeOK'
    <2>1. row' \in [Rows -> {"new", "live", "trashed", "gone"}]
      BY <1>1, OldTypes DEF IInv, RowsAfter
    <2>2. trash' \in [Rows -> Rows \cup {NoRow}]
      BY <1>1, OldTypes DEF IInv
    <2>3. tombs' \in [Works \X EditionSlugs -> Editions \cup {NoRow}]
      BY <1>1, EntombedType, OldTypes DEF IInv, EditionMoved
    <2>4. title' \in [Titled -> Titles] /\ label' \in [Editions -> Labels]
      BY <1>1, OldTypes DEF IInv
    <2>5. /\ slug' \in [Rows -> Slugs \cup EditionSlugs \cup {""}]
          /\ \A d \in Editions : slug'[d] \in EditionSlugs \cup {""}
      BY <1>1, RestoredSlugs DEF R
    <2>6. QED
      BY <1>10, <2>1, <2>2, <2>3, <2>4, <2>5 DEF TypeOK
  <1>12. QED
    BY <1>7, <1>8, <1>10, <1>11 DEF IInv

LEMMA PurgeKeepsIInv ==
  ASSUME IInv, NEW x \in Rows, Purge(x)
  PROVE  IInv'
  <1> DEFINE gone == InTrashOf({x})
  <1>1. /\ trash[x] = x
        /\ \A d \in Editions \ gone : Exists(d) => Parent[d] \notin gone
        /\ row' = [r \in Rows |-> IF r \in gone THEN "gone" ELSE row[r]]
        /\ trash' = [r \in Rows |-> IF r \in gone THEN NoRow ELSE trash[r]]
        /\ title' = [r \in Titled |-> IF r \in gone THEN NoTitle ELSE title[r]]
        /\ label' = [d \in Editions |-> IF d \in gone THEN DefaultLabel ELSE label[d]]
        /\ slug' = [r \in Rows |-> IF r \in gone THEN "" ELSE slug[r]]
        /\ UNCHANGED <<names, buried, tombs>>
    BY DEF Purge
  <1>2. /\ \A p \in Owners : p \in Rows /\ p \notin Editions
        /\ \A c \in Editions : c \in Rows /\ Parent[c] \in Rows /\ Parent[c] # NoRow
        /\ NoRow \notin Rows
    BY Disjoint DEF Rows, Owners
  <1>3. \A r \in Rows : r \in gone <=> trash[r] = x
    BY DEF InTrashOf
  <1> HIDE DEF gone
  <1>4. \A r \in Rows :
          /\ row[r] = "trashed" <=> trash[r] # NoRow
          /\ trash[r] \in {NoRow, r} \cup (IF r \in Editions THEN {Parent[r]} ELSE {})
          /\ trash[r] # NoRow => trash[r] \in Rows /\ trash[trash[r]] = trash[r]
    BY OldTypes DEF IInv, RowsInv, TrashIsTrue
  <1>5. \A r \in Rows :
          /\ row'[r] = IF r \in gone THEN "gone" ELSE row[r]
          /\ trash'[r] = IF r \in gone THEN NoRow ELSE trash[r]
          /\ r \in gone => row[r] = "trashed"
    BY <1>1, <1>2, <1>3, <1>4, ZenonT(40)
  <1>6. \A r \in Rows : r \notin gone => slug'[r] = slug[r]
    BY <1>1
  <1>7. TypeOK'
    <2>1. NoTitle \in Titles /\ DefaultLabel \in Labels
      BY SlugsAssumption
    <2>2. row' \in [Rows -> {"new", "live", "trashed", "gone"}]
      BY <1>1, OldTypes DEF IInv
    <2>3. trash' \in [Rows -> Rows \cup {NoRow}]
      BY <1>1, OldTypes DEF IInv
    <2>4. title' \in [Titled -> Titles]
      BY <1>1, <2>1, OldTypes DEF IInv
    <2>5. label' \in [Editions -> Labels]
      BY <1>1, <2>1, OldTypes DEF IInv
    <2>6. slug' \in [Rows -> Slugs \cup EditionSlugs \cup {""}]
      BY <1>1 DEF IInv, TypeOK
    <2>7. \A d \in Editions : slug'[d] \in EditionSlugs \cup {""}
      <3>1. \A d \in Editions : d \in Rows /\ slug[d] \in EditionSlugs \cup {""}
        BY <1>2 DEF IInv, TypeOK
      <3>2. \A d \in Editions : d \in gone => slug'[d] = ""
        BY <1>1, <3>1
      <3>3. QED
        BY <1>6, <3>1, <3>2
    <2>8. /\ names' \in [Slugs -> Owners \cup {NoRow}] /\ buried' \subseteq Slugs
          /\ tombs' \in [Works \X EditionSlugs -> Editions \cup {NoRow}]
      BY <1>1, OldTypes DEF IInv
    <2>9. QED
      BY <2>2, <2>3, <2>4, <2>5, <2>6, <2>7, <2>8 DEF TypeOK
  <1>8. RowsInv'
    <2>1. TrashIsTrue'
      BY <1>2, <1>3, <1>4, <1>5 DEF TrashIsTrue
    <2>2. EditionsHaveWorks'
      <3> SUFFICES ASSUME NEW d \in Editions
                   PROVE  /\ row'[d] = "live" => row'[Parent[d]] = "live"
                          /\ row'[d] \in {"live", "trashed"}
                               => row'[Parent[d]] \in {"live", "trashed"}
        BY DEF EditionsHaveWorks, Live, Exists
      <3>1. /\ row[d] = "live" => row[Parent[d]] = "live"
            /\ row[d] \in {"live", "trashed"} => row[Parent[d]] \in {"live", "trashed"}
        BY DEF IInv, RowsInv, EditionsHaveWorks, Live, Exists
      <3>2. d \notin gone /\ row[d] \in {"live", "trashed"} => Parent[d] \notin gone
        BY <1>1 DEF Exists
      <3>3. QED
        BY <1>2, <1>5, <3>1, <3>2
    <2>3. QED
      BY <2>1, <2>2 DEF RowsInv
  <1>9. EditionsInv'
    <2>1. ASSUME NEW d \in Editions, With(d)'
          PROVE  With(d) /\ slug'[d] = slug[d]
      <3>1. row'[d] = "live" \/ trash'[d] = Parent[d]
        BY <2>1 DEF With, Live
      <3>2. d \notin gone
        BY <1>2, <1>5, <3>1
      <3>3. QED
        BY <1>2, <1>5, <1>6, <3>1, <3>2 DEF With, Live
    <2>2. EditionsDiffer'
      BY <2>1 DEF IInv, EditionsInv, EditionsDiffer
    <2>3. \A d \in Editions : trash'[d] = d => trash[d] = d /\ slug'[d] = slug[d]
      BY <1>2, <1>5, <1>6
    <2>4. TrashedIsNoDefault'
      BY <2>3 DEF IInv, EditionsInv, TrashedIsNoDefault
    <2>5. QED
      BY <2>2, <2>4 DEF EditionsInv
  <1>10. NamesInv'
    <2>1. \A p \in Owners : (Live(p)' <=> Live(p)) /\ (Live(p) => slug'[p] = slug[p])
      BY <1>2, <1>5, <1>6 DEF Live
    <2>2. QED
      BY <1>1, <2>1, SameNames DEF IInv
  <1>11. QED
    BY <1>7, <1>8, <1>9, <1>10 DEF IInv

LEMMA NextIInv ==
  ASSUME FreshPages, IInv, [Next]_vars
  PROVE  IInv'
  <1>1. CASE \E w \in Works, d \in Editions, t \in Titles : WorkCreate(w, d, t)
    BY <1>1, WorkCreateKeepsIInv
  <1>2. CASE \E c \in Collections, t \in Titles : CollectionCreate(c, t)
    BY <1>2, CollectionCreateKeepsIInv
  <1>3. CASE \E src, d \in Editions : EditionClone(src, d)
    BY <1>3, EditionCloneKeepsIInv
  <1>4. CASE \E o \in Series \cup Collections, t \in Titles : TitleSet(o, t)
    BY <1>4, TitleSetKeepsIInv
  <1>5. CASE \E d \in MovieEditions, t \in Titles : MovieEditionTitleSet(d, t)
    BY <1>5, MovieEditionTitleSetKeepsIInv
  <1>6. CASE \E d \in Editions, lb \in Labels : EditionLabelSet(d, lb)
    BY <1>6, EditionLabelSetKeepsIInv
  <1>7. CASE \E d \in MovieEditions : MovieEditionSetDefault(d)
    BY <1>7, SetDefaultKeepsIInv
  <1>8. CASE \E o \in Owners : TrashOwner(o)
    BY <1>8, TrashOwnerKeepsIInv
  <1>9. CASE \E x \in Editions : TrashEdition(x)
    BY <1>9, TrashEditionKeepsIInv
  <1>10. CASE \E x \in Rows : Restore(x) \/ Purge(x)
    BY <1>10, RestoreKeepsIInv, PurgeKeepsIInv
  <1>11. CASE UNCHANGED vars
    <2>1. UNCHANGED <<row, trash, title, label, slug, names, buried, tombs>>
      BY <1>11 DEF vars
    <2>2. TypeOK' /\ RowsInv'
      BY <2>1 DEF IInv, TypeOK, RowsInv, TrashIsTrue, EditionsHaveWorks, Live, Exists
    <2>3. EditionsInv'
      BY <2>1 DEF IInv, EditionsInv, EditionsDiffer, TrashedIsNoDefault, With, Live
    <2>4. NamesInv'
      BY <2>1, SameNames DEF IInv, Live
    <2>5. QED
      BY <2>2, <2>3, <2>4 DEF IInv
  <1>12. QED
    BY <1>1, <1>2, <1>3, <1>4, <1>5, <1>6, <1>7, <1>8, <1>9, <1>10, <1>11 DEF Next

(* As long as requests name live rows, the invariant holds after every     *)
(* operation.                                                              *)
THEOREM Inductive ==
  ASSUME FreshPages
  PROVE  Spec => []IInv
  <1>1. IInv /\ [Next]_vars => IInv'
    BY NextIInv
  <1>2. QED
    BY <1>1, InitIInv, PTL DEF Spec

(* Every variable keeps its type.                                          *)
THEOREM TypeCorrect ==
  ASSUME FreshPages
  PROVE  Spec => []TypeOK
  <1>1. IInv => TypeOK
    BY DEF IInv
  <1>2. QED
    BY <1>1, Inductive, PTL

-----------------------------------------------------------------------------
(* What the invariant says of addresses.                                   *)

(* A live owner has one name.                                              *)
LEMMA OneName ==
  ASSUME IInv, NEW o \in Owners, Live(o)
  PROVE  {r \in Named : names[r] = o} = {slug[o]} /\ names[slug[o]] = o
  <1>1. names[slug[o]] = o /\ slug[o] \in Slugs \ buried /\ o # NoRow
    BY Disjoint DEF IInv, NamesInv, ColumnIsName
  <1>2. slug[o] \in Named
    BY <1>1 DEF Named
  <1>3. \A r \in Named : names[r] = o => r = slug[o]
    BY DEF IInv, NamesInv, NameIsColumn
  <1>4. QED
    BY <1>1, <1>2, <1>3

LEMMA HomeOfCollection ==
  ASSUME IInv, NEW x \in Collections, Live(x)
  PROVE  \E p \in SlugPath(x) : SlugPath(x) = {p} /\ SlugResolve(p) = x
  <1> DEFINE p == <<slug[x], "">>
  <1>1. x \in Owners /\ x \notin Editions
    BY Disjoint DEF Owners
  <1>2. {r \in Named : names[r] = x} = {slug[x]} /\ names[slug[x]] = x
    BY <1>1, OneName
  <1>3. SlugPath(x) = {<<s, "">> : s \in {r \in Named : names[r] = x}}
    BY <1>1 DEF SlugPath
  <1>4. SlugPath(x) = {p}
    BY <1>2, <1>3
  <1>5. p[1] = slug[x] /\ p[2] = ""
    OBVIOUS
  <1> HIDE DEF p
  <1>6. SlugResolve(p) = x
    BY <1>2, <1>5 DEF SlugResolve
  <1>7. QED
    BY <1>4, <1>6

LEMMA HomeOfEdition ==
  ASSUME IInv, NEW x \in Editions, Live(x)
  PROVE  \E p \in SlugPath(x) : SlugPath(x) = {p} /\ SlugResolve(p) = x
  <1> DEFINE o == Parent[x]
             p == <<slug[o], slug[x]>>
  <1>1. o \in Works /\ o \in Owners /\ o \notin Collections /\ Live(o)
    <2>1. Collections \cap Works = {}
      BY SlugsAssumption
    <2>2. QED
      BY <2>1, Disjoint DEF IInv, RowsInv, EditionsHaveWorks
  <1>2. {r \in Named : names[r] = o} = {slug[o]} /\ names[slug[o]] = o
    BY <1>1, OneName
  <1>3. SlugPath(x) = {<<s, slug[x]>> : s \in {r \in Named : names[r] = o}}
    BY DEF SlugPath
  <1>4. SlugPath(x) = {p}
    BY <1>2, <1>3
  <1>5. p[1] = slug[o] /\ p[2] = slug[x]
    OBVIOUS
  <1>6. EditionAt(o, slug[x]) = x
    <2> DEFINE at == {d \in EditionsOf(o, row) : slug[d] = slug[x]}
    <2>1. x \in at
      BY DEF EditionsOf, Live
    <2>2. \A d \in at : d = x
      BY DEF EditionsOf, IInv, EditionsInv, EditionsDiffer, With, Live
    <2>3. at = {x}
      BY <2>1, <2>2
    <2>4. (CHOOSE d \in at : TRUE) = x
      BY <2>3
    <2>5. QED
      BY <2>1, <2>4 DEF EditionAt
  <1> HIDE DEF p, o
  <1>7. SlugResolve(p) = x
    <2>1. names[p[1]] = o /\ (o \in Series \/ (o \in Movies /\ Live(o)))
      BY <1>1, <1>2, <1>5 DEF Works
    <2>2. SlugResolve(p) = EditionAt(o, p[2])
      BY <1>1, <2>1 DEF SlugResolve
    <2>3. QED
      BY <1>5, <1>6, <2>2
  <1>8. QED
    BY <1>4, <1>7

(* Owners that are live after a restore have different slugs.              *)
LEMMA RestoredOwnersDiffer ==
  ASSUME IInv, NEW x \in Rows, trash[x] = x, NEW p \in Owners, NEW q \in Owners,
         p # q, RowsAfter(RootsOf(x))[p] = "live", RowsAfter(RootsOf(x))[q] = "live"
  PROVE  SlugsAfter(RootsOf(x))[p] # SlugsAfter(RootsOf(x))[q]
  <1> DEFINE R == RootsOf(x)
             sl == SlugsAfter(R)
  <1>1. /\ \A r \in R : trash[r] = r /\ ~Live(r)
        /\ x \in Owners => R = {x}
        /\ x \in Editions => R = {x, Parent[x]} \/ R = {x}
        /\ \A r \in Rows \ R : sl[r] = slug[r]
        /\ \A r \in Owners \cap R : sl[r] = OwnerSlug(r, TitleOf(r, title))
    BY RestoredRoots, RestoredSlugs
  <1>2. /\ \A r \in Owners : r \in Rows /\ r \notin Editions /\ r # NoRow
        /\ x \in Owners \/ x \in Editions
    BY Disjoint DEF Rows, Owners
  <1> HIDE DEF sl
  <1>3. ASSUME NEW r \in Owners, RowsAfter(R)[r] = "live", r \notin R
        PROVE  sl[r] = slug[r] /\ names[slug[r]] = r /\ slug[r] \in Named
    <2>1. trash[r] \in {NoRow, r} /\ NoRow \notin R
      <3>1. trash[r] \in {NoRow, r}
        BY <1>2 DEF IInv, RowsInv, TrashIsTrue
      <3>2. NoRow \notin R
        BY RestoredRoots, Disjoint DEF Rows
      <3>3. QED
        BY <3>1, <3>2
    <2>2. Live(r)
      BY <1>2, <1>3, <2>1 DEF RowsAfter, Live
    <2>3. names[slug[r]] = r /\ slug[r] \in Slugs \ buried
      BY <2>2 DEF IInv, NamesInv, ColumnIsName
    <2>4. QED
      BY <1>1, <1>2, <1>3, <2>3 DEF Named
  <1>4. ASSUME NEW r \in Owners, r \in R
        PROVE  sl[r] \notin Named
    <2>1. TitleOf(r, title) \in Titles
      BY TitleType, OldTypes DEF IInv
    <2>2. OwnerSlug(r, TitleOf(r, title)) \notin Named \ Own(r)
      BY <2>1, FreeOwnerSlug DEF IInv
    <2>3. Own(r) = {}
      BY <1>1, <1>4 DEF Own
    <2>4. QED
      BY <1>1, <1>4, <2>2, <2>3
  <1>5. ~(p \in R /\ q \in R)
    BY <1>1, <1>2
  <1> HIDE DEF R
  <1>6. sl[p] # sl[q]
    <2>1. CASE p \in R
      BY <1>3, <1>4, <1>5, <2>1 DEF R
    <2>2. CASE q \in R
      BY <1>3, <1>4, <1>5, <2>2 DEF R
    <2>3. CASE p \notin R /\ q \notin R
      BY <1>3, <2>3 DEF R
    <2>4. QED
      BY <2>1, <2>2, <2>3
  <1>7. QED
    BY <1>6 DEF sl, R

LEMMA FitsAgain ==
  ASSUME IInv, NEW x \in Rows, trash[x] = x
  PROVE  Restorable(x)
  <1> DEFINE rw == RowsAfter(RootsOf(x))
             sl == SlugsAfter(RootsOf(x))
  <1>1. ASSUME NEW d \in {r \in Rows : rw[r] = "live"},
               NEW e \in {r \in Rows : rw[r] = "live"}, d # e, sl[d] = sl[e]
        PROVE  IF d \in Editions /\ e \in Editions THEN Parent[d] # Parent[e]
               ELSE \A T \in {Movies, Series, Collections} : ~({d, e} \subseteq T)
    <2>1. CASE d \in Editions /\ e \in Editions
      BY <1>1, <2>1, RestoredDiffer
    <2>2. CASE ~(d \in Editions /\ e \in Editions)
      <3>1. ~(d \in Owners /\ e \in Owners)
        BY <1>1, RestoredOwnersDiffer
      <3>2. \A T \in {Movies, Series, Collections} : T \subseteq Owners
        BY DEF Owners, Works
      <3>3. QED
        BY <2>2, <3>1, <3>2
    <2>3. QED
      BY <2>1, <2>2
  <1> HIDE DEF rw, sl
  <1>2. UniqueSlugs(rw, sl)
    BY <1>1 DEF UniqueSlugs
  <1>3. QED
    BY <1>2 DEF Restorable, rw, sl

(* As long as requests name live rows, every page has one address, which   *)
(* leads to it, nothing that is not there holds a name, and everything in  *)
(* the trash can come back (model/slug.go, model/trash.go).                *)
THEOREM AddressesStayTrue ==
  ASSUME FreshPages
  PROVE  Spec => []AddressesAreTrue
  <1>1. IInv => AddressesAreTrue
    <2> SUFFICES ASSUME IInv PROVE AddressesAreTrue
      OBVIOUS
    <2>1. AddressLeadsHome
      BY HomeOfCollection, HomeOfEdition DEF AddressLeadsHome, Pages
    <2>2. NamesAreLive
      BY DEF IInv, NamesInv
    <2>3. TrashFits
      BY FitsAgain DEF TrashFits
    <2>4. QED
      BY <2>1, <2>2, <2>3 DEF AddressesAreTrue
  <1>2. QED
    BY <1>1, Inductive, PTL

-----------------------------------------------------------------------------
(* Old addresses.  A step keeps what an address is read from, or gives the *)
(* slug to somebody else.                                                  *)

(* The second part of an address, and one that is not left out.            *)
EditionParts == EditionSlugs \cup {""}
Suffixed(e) == e # ""

LEMMA SuffixedParts ==
  /\ \A e \in EditionParts : Suffixed(e) <=> e \in EditionSlugs
  /\ \A e \in EditionSlugs : e \in EditionParts
  <1>1. "" \notin EditionSlugs
    BY SlugsAssumption
  <1>2. QED
    BY <1>1 DEF EditionParts, Suffixed

(* An edition of w takes e, if only on its way to the trash.               *)
Claimed(w, e) ==
    \E y \in Editions : Parent[y] = w /\ slug'[y] = e /\ (Live(y)' \/ slug[y] # e)

NamesKept ==
    \A s \in Slugs : \/ names'[s] = names[s]
                     \/ s \notin buried' \/ row'[names[s]] # "live"

TombsKept ==
    \A w \in Works, e \in EditionSlugs, x \in Editions :
        /\ tombs[<<w, e>>] = x /\ Live(x)'
        /\ \A d \in Editions : Parent[d] = w /\ Live(d) => slug[d] # e
        => tombs'[<<w, e>>] = x \/ Claimed(w, e)

SlugsKept ==
    \A x \in Editions : Live(x) /\ Live(x)' =>
        \/ slug'[x] = slug[x]
        \/ Suffixed(slug[x]) /\ tombs'[<<Parent[x], slug[x]>>] = x
        \/ Claimed(Parent[x], slug[x])

AddressesKept == NamesKept /\ TombsKept /\ SlugsKept

LEMMA SameNamesKept ==
  ASSUME UNCHANGED <<names, buried>>
  PROVE  NamesKept
  BY DEF NamesKept

LEMMA SlugRowKept ==
  ASSUME TypeOK, NEW o, NEW s, SlugRow(o, s)
  PROVE  NamesKept
  <1>1. CASE SlugMove(o, s)
    BY <1>1, OldTypes DEF SlugMove, NamesKept
  <1>2. CASE UNCHANGED <<names, buried>>
    BY <1>2, SameNamesKept
  <1>3. QED
    BY <1>1, <1>2 DEF SlugRow

(* Where the tombstones stand and the live editions have their slugs,      *)
(* nothing is to be shown.                                                 *)
LEMMA SameTombsKept ==
  ASSUME UNCHANGED tombs,
         \A x \in Editions : Live(x) => slug'[x] = slug[x]
  PROVE  TombsKept /\ SlugsKept
  BY DEF TombsKept, SlugsKept

(* The address of an edition is read from a live work; it is found again,  *)
(* or another edition has it.                                              *)
FoundAgain(w, e, x) ==
    \/ EditionAt(w, e)' = x
    \/ \E y \in Editions \ {x} : /\ Parent[y] = Parent[x] /\ slug'[y] = e
                                 /\ Live(y)' \/ slug[y] # e

LEMMA EditionFoundAgain ==
  ASSUME IInv, IInv', AddressesKept, NEW w \in Works, NEW e \in EditionParts,
         NEW x \in Editions, x = EditionAt(w, e), row'[x] = "live"
  PROVE  Parent[x] = w /\ Live(x) /\ FoundAgain(w, e, x)
  <1> DEFINE at == {d \in EditionsOf(w, row) : slug[d] = e}
             atNext == {d \in EditionsOf(w, row') : slug'[d] = e}
  <1>1. /\ \A d \in Editions : d \in at <=> Parent[d] = w /\ Live(d) /\ slug[d] = e
        /\ \A d \in Editions : d \in atNext <=> Parent[d] = w /\ Live(d)' /\ slug'[d] = e
        /\ \A d \in at \cup atNext : d \in Editions
    BY DEF EditionsOf, Live
  <1>2. EditionAt(w, e) = IF at # {} THEN CHOOSE d \in at : TRUE
                          ELSE IF Suffixed(e) /\ tombs[<<w, e>>] \in EditionsOf(w, row)
                          THEN tombs[<<w, e>>] ELSE NoRow
    BY DEF EditionAt, Suffixed
  <1>3. EditionAt(w, e)' = IF atNext # {} THEN CHOOSE d \in atNext : TRUE
                           ELSE IF Suffixed(e) /\ tombs'[<<w, e>>] \in EditionsOf(w, row')
                           THEN tombs'[<<w, e>>] ELSE NoRow
    BY DEF EditionAt, Suffixed
  <1>4. NoRow \notin Editions /\ x # NoRow /\ Live(x)'
    BY Disjoint DEF Live
  <1> HIDE DEF at, atNext
  <1>5. x \in at \/ (at = {} /\ Suffixed(e) /\ tombs[<<w, e>>] = x /\ x \in EditionsOf(w, row))
    <2>1. CASE at # {}
      BY <1>2, <2>1
    <2>2. CASE at = {}
      BY <1>2, <1>4, <2>2
    <2>3. QED
      BY <2>1, <2>2
  <1>6. Parent[x] = w /\ Live(x)
    BY <1>1, <1>5 DEF EditionsOf, Live
  <1>7. \A d \in atNext, c \in atNext : d = c
    BY <1>1 DEF IInv, EditionsInv, EditionsDiffer, With
  <1>8. CASE \E y \in atNext : y # x
    BY <1>1, <1>6, <1>8 DEF FoundAgain
  <1>9. CASE x \in atNext
    <2>1. atNext = {x}
      BY <1>7, <1>9
    <2>2. QED
      BY <1>3, <1>6, <2>1 DEF FoundAgain
  <1>10. CASE Claimed(w, e)
    BY <1>1, <1>4, <1>6, <1>9, <1>10 DEF Claimed, FoundAgain
  <1>11. CASE atNext = {} /\ Suffixed(e) /\ tombs'[<<w, e>>] = x
    <2>1. x \in EditionsOf(w, row')
      BY <1>4, <1>6 DEF EditionsOf, Live
    <2>2. QED
      BY <1>3, <1>6, <1>11, <2>1 DEF FoundAgain
  <1>12. x \in at => slug'[x] = e \/ (Suffixed(e) /\ tombs'[<<w, e>>] = x) \/ Claimed(w, e)
    BY <1>1, <1>4, <1>6 DEF AddressesKept, SlugsKept
  <1>13. x \notin at => Suffixed(e) /\ (tombs'[<<w, e>>] = x \/ Claimed(w, e))
    <2> SUFFICES ASSUME x \notin at
                 PROVE  Suffixed(e) /\ (tombs'[<<w, e>>] = x \/ Claimed(w, e))
      OBVIOUS
    <2>1. at = {} /\ Suffixed(e) /\ e \in EditionSlugs /\ tombs[<<w, e>>] = x
      BY <1>5, SuffixedParts
    <2>2. \A d \in Editions : Parent[d] = w /\ Live(d) => slug[d] # e
      BY <1>1, <2>1
    <2>3. QED
      BY <1>4, <2>1, <2>2 DEF AddressesKept, TombsKept
  <1>14. slug'[x] = e => x \in atNext
    BY <1>1, <1>4, <1>6
  <1>15. QED
    BY <1>6, <1>8, <1>9, <1>10, <1>11, <1>12, <1>13, <1>14

(* One edition takes another slug, or a new one its first; what was kept   *)
(* at the slug it takes is given up.                                       *)
LEMMA MoveKept ==
  ASSUME NEW d \in Editions, NEW s, slug'[d] = s, Live(d)', slug[d] \in EditionParts,
         \A x \in Editions \ {d} : Live(x) => slug'[x] = slug[x],
         \A w \in Works, e \in EditionSlugs :
            tombs'[<<w, e>>] = IF w = Parent[d] /\ e = slug[d] /\ Live(d) THEN d
                               ELSE IF w = Parent[d] /\ e = s THEN NoRow
                               ELSE tombs[<<w, e>>],
         Live(d) => s = slug[d] \/ Suffixed(slug[d])
  PROVE  TombsKept /\ SlugsKept
  <1>1. TombsKept
    <2> SUFFICES ASSUME NEW w \in Works, NEW e \in EditionSlugs, NEW x \in Editions,
                        tombs[<<w, e>>] = x, Live(x)',
                        \A c \in Editions : Parent[c] = w /\ Live(c) => slug[c] # e
                 PROVE  tombs'[<<w, e>>] = x \/ Claimed(w, e)
      BY DEF TombsKept
    <2>1. ~(w = Parent[d] /\ e = slug[d] /\ Live(d))
      OBVIOUS
    <2>2. CASE w = Parent[d] /\ e = s
      BY <2>2 DEF Claimed
    <2>3. CASE ~(w = Parent[d] /\ e = s)
      BY <2>1, <2>3
    <2>4. QED
      BY <2>2, <2>3
  <1>2. SlugsKept
    <2> SUFFICES ASSUME NEW x \in Editions, Live(x), Live(x)'
                 PROVE  \/ slug'[x] = slug[x]
                        \/ Suffixed(slug[x]) /\ tombs'[<<Parent[x], slug[x]>>] = x
                        \/ Claimed(Parent[x], slug[x])
      BY DEF SlugsKept
    <2>1. CASE x # d
      BY <2>1
    <2>2. CASE x = d /\ Suffixed(slug[d])
      <3>1. slug[d] \in EditionSlugs /\ Parent[d] \in Works
        BY <2>2, SuffixedParts, Disjoint
      <3>2. QED
        BY <2>2, <3>1
    <2>3. CASE x = d /\ ~Suffixed(slug[d])
      BY <2>3
    <2>4. QED
      BY <2>1, <2>2, <2>3
  <1>3. QED
    BY <1>1, <1>2

LEMMA EntombedAt ==
  ASSUME NEW tb \in [Works \X EditionSlugs -> Editions \cup {NoRow}],
         NEW d \in Editions, NEW s, NEW w \in Works, NEW e \in EditionSlugs
  PROVE  Entombed(tb, d, s)[<<w, e>>] =
           IF w = Parent[d] /\ e = slug[d] /\ Live(d) THEN d
           ELSE IF w = Parent[d] /\ e = s THEN NoRow ELSE tb[<<w, e>>]
  BY DEF Entombed

(* A label tries the empty slug first: a default edition that is given     *)
(* another label keeps it.                                                 *)
LEMMA DefaultStays ==
  ASSUME TypeOK, NEW d \in Editions, NEW lb \in Labels, Live(d), ~Suffixed(slug[d]),
         \A c \in EditionsOf(Parent[d], row) : slug[c] = slug[d] => c = d
  PROVE  EditionSlug(d, lb, row) = slug[d]
  <1> DEFINE tried == LabelSlugs[lb]
             taken == SlugsUsed(Parent[d], row) \ Own(d)
             free == {i \in DOMAIN tried : tried[i] \notin taken}
  <1>1. tried[1] = slug[d]
    BY SlugsAssumption DEF Suffixed
  <1>2. slug[d] \notin taken
    BY DEF Own
  <1>3. tried \in Seq(EditionParts) \ {<<>>}
    BY TriedTypes DEF EditionParts
  <1>4. 1 \in DOMAIN tried /\ DOMAIN tried = 1 .. Len(tried) /\ Len(tried) \in Nat
    BY <1>3, LenProperties, EmptySeq
  <1> HIDE DEF tried, taken
  <1>5. 1 \in free /\ \A i \in free : i \in Nat /\ 1 <= i
    BY <1>1, <1>2, <1>4
  <1>6. (CHOOSE i \in free : \A j \in free : i <= j) = 1
    BY <1>5
  <1>7. FindSlug(tried, taken) = slug[d]
    BY <1>1, <1>5, <1>6 DEF FindSlug
  <1>8. QED
    BY <1>7 DEF EditionSlug, tried, taken

LEMMA EditionLabelSetKept ==
  ASSUME IInv, FreshPages, NEW d \in Editions, NEW lb \in Labels,
         EditionLabelSet(d, lb)
  PROVE  AddressesKept
  <1> DEFINE s == EditionSlug(d, lb, row)
  <1>1. /\ Live(d)
        /\ slug' = [slug EXCEPT ![d] = s]
        /\ tombs' = EditionMoved(d, s)
        /\ UNCHANGED <<row, names, buried>>
    BY DEF EditionLabelSet, Offered, FreshPages
  <1>2. d \in Rows /\ \A x \in Editions : x \in Rows
    BY DEF Rows
  <1>3. slug \in [Rows -> Slugs \cup EditionParts] /\ slug[d] \in EditionParts
    BY DEF IInv, TypeOK, EditionParts
  <1> HIDE DEF s
  <1>4. slug'[d] = s /\ \A x \in Editions \ {d} : slug'[x] = slug[x]
    BY <1>1, <1>2, <1>3
  <1>5. NamesKept
    BY <1>1, SameNamesKept
  <1>6. CASE s = slug[d]
    <2>1. tombs' = tombs /\ \A x \in Editions : slug'[x] = slug[x]
      BY <1>1, <1>4, <1>6 DEF EditionMoved
    <2>2. QED
      BY <1>5, <2>1, SameTombsKept DEF AddressesKept
  <1>7. CASE s # slug[d]
    <2>1. tombs' = Entombed(tombs, d, s)
      BY <1>1, <1>7 DEF EditionMoved
    <2>2. tombs \in [Works \X EditionSlugs -> Editions \cup {NoRow}]
      BY OldTypes DEF IInv
    <2>3. \A w \in Works, e \in EditionSlugs :
            tombs'[<<w, e>>] = IF w = Parent[d] /\ e = slug[d] /\ Live(d) THEN d
                               ELSE IF w = Parent[d] /\ e = s THEN NoRow
                               ELSE tombs[<<w, e>>]
      BY <2>1, <2>2 DEF Entombed
    <2>4. Suffixed(slug[d])
      <3>1. \A c \in EditionsOf(Parent[d], row) : slug[c] = slug[d] => c = d
        BY <1>1 DEF EditionsOf, IInv, EditionsInv, EditionsDiffer, With, Live
      <3>2. QED
        BY <1>1, <1>7, <3>1, DefaultStays DEF s, IInv
    <2>5. Live(d)'
      BY <1>1 DEF Live
    <2>6. TombsKept /\ SlugsKept
      BY <1>3, <1>4, <2>3, <2>4, <2>5, MoveKept
    <2>7. QED
      BY <1>5, <2>6 DEF AddressesKept
  <1>8. QED
    BY <1>6, <1>7

LEMMA EditionCloneKept ==
  ASSUME IInv, NEW src \in Editions, NEW d \in Editions, EditionClone(src, d)
  PROVE  AddressesKept
  <1> DEFINE s == EditionSlug(d, CopyOf[label[src]], row)
  <1>1. /\ row[d] = "new"
        /\ row' = [row EXCEPT ![d] = "live"]
        /\ slug' = [slug EXCEPT ![d] = s]
        /\ tombs' = [k \in DOMAIN tombs |->
                       IF k = <<Parent[d], s>> THEN NoRow ELSE tombs[k]]
        /\ UNCHANGED <<names, buried>>
    BY DEF EditionClone
  <1>2. d \in Rows /\ \A x \in Editions : x \in Rows
    BY DEF Rows
  <1>3. slug \in [Rows -> Slugs \cup EditionParts] /\ slug[d] \in EditionParts
    BY DEF IInv, TypeOK, EditionParts
  <1>4. tombs \in [Works \X EditionSlugs -> Editions \cup {NoRow}]
        /\ row \in [Rows -> {"new", "live", "trashed", "gone"}]
    BY OldTypes DEF IInv
  <1> HIDE DEF s
  <1>5. slug'[d] = s /\ \A x \in Editions \ {d} : slug'[x] = slug[x]
    BY <1>1, <1>2, <1>3
  <1>6. Live(d)' /\ ~Live(d)
    BY <1>1, <1>2, <1>4 DEF Live
  <1>7. \A w \in Works, e \in EditionSlugs :
          tombs'[<<w, e>>] = IF w = Parent[d] /\ e = slug[d] /\ Live(d) THEN d
                             ELSE IF w = Parent[d] /\ e = s THEN NoRow
                             ELSE tombs[<<w, e>>]
    BY <1>1, <1>4, <1>6
  <1>8. TombsKept /\ SlugsKept
    BY <1>3, <1>5, <1>6, <1>7, MoveKept
  <1>9. QED
    BY <1>1, <1>8, SameNamesKept DEF AddressesKept

(* A default edition hands over: the slug of the new default leads to it,  *)
(* the one that the old default is given is claimed.                       *)
LEMMA HandedKept ==
  ASSUME IInv, NEW old \in Editions, NEW d \in Editions, Live(old), Live(d), Live(d)',
         Parent[old] = Parent[d], ~Suffixed(slug[old]), Suffixed(slug[d]),
         slug' = Handed(old, d).slug,
         \A k \in Works \X EditionSlugs, x \in Editions :
            Handed(old, d).tombs[k] = x /\ Live(x)' => tombs'[k] = x
  PROVE  TombsKept /\ SlugsKept
  <1> DEFINE w0 == Parent[old]
             s == FindSlug(LabelSlugs[label[old]], SlugsUsed(w0, row))
             tb == Entombed(tombs, old, s)
             H == Handed(old, d).tombs
  <1>1. slug' = [slug EXCEPT ![old] = s, ![d] = slug[old]] /\ H = Entombed(tb, d, slug[old])
    BY DEF Handed, Suffixed
  <1>2. tb \in [Works \X EditionSlugs -> Editions \cup {NoRow}]
    BY EntombedType, OldTypes DEF IInv
  <1>3. old \in Rows /\ d \in Rows /\ old # d
    BY DEF Rows
  <1>4. /\ slug \in [Rows -> Slugs \cup EditionParts]
        /\ slug[old] \in EditionParts /\ slug[d] \in EditionParts
    BY DEF IInv, TypeOK, EditionParts
  <1>5. slug[d] \in EditionSlugs /\ slug[old] \notin EditionSlugs /\ Parent[d] \in Works
    BY <1>4, SuffixedParts, Disjoint
  <1> HIDE DEF H
  <1>6. ASSUME NEW w \in Works, NEW e \in EditionSlugs
        PROVE  H[<<w, e>>] = IF w = w0 /\ e = slug[d] THEN d
                             ELSE IF w = w0 /\ e = s THEN NoRow
                             ELSE tombs[<<w, e>>]
    <2>1. H[<<w, e>>] = IF w = w0 /\ e = slug[d] THEN d ELSE tb[<<w, e>>]
      BY <1>1, <1>2, <1>5 DEF Entombed
    <2>2. tb[<<w, e>>] = IF w = w0 /\ e = s THEN NoRow ELSE tombs[<<w, e>>]
      BY <1>5, EntombedAt, OldTypes DEF IInv
    <2>3. QED
      BY <2>1, <2>2
  <1> HIDE DEF s, tb
  <1>7. /\ slug'[old] = s /\ slug'[d] = slug[old]
        /\ \A x \in Editions \ {old, d} : slug'[x] = slug[x]
    BY <1>1, <1>3, <1>4 DEF Rows
  <1>8. TombsKept
    <2> SUFFICES ASSUME NEW w \in Works, NEW e \in EditionSlugs, NEW x \in Editions,
                        tombs[<<w, e>>] = x, Live(x)',
                        \A c \in Editions : Parent[c] = w /\ Live(c) => slug[c] # e
                 PROVE  tombs'[<<w, e>>] = x \/ Claimed(w, e)
      BY DEF TombsKept
    <2>1. CASE w = w0 /\ e = s
      BY <1>5, <1>7, <2>1 DEF Claimed
    <2>2. CASE ~(w = w0 /\ e = s)
      <3>1. ~(w = w0 /\ e = slug[d])
        OBVIOUS
      <3>2. H[<<w, e>>] = x
        BY <1>6, <2>2, <3>1
      <3>3. QED
        BY <3>2 DEF H
    <2>3. QED
      BY <2>1, <2>2
  <1>9. SlugsKept
    <2> SUFFICES ASSUME NEW x \in Editions, Live(x), Live(x)'
                 PROVE  \/ slug'[x] = slug[x]
                        \/ Suffixed(slug[x]) /\ tombs'[<<Parent[x], slug[x]>>] = x
                        \/ Claimed(Parent[x], slug[x])
      BY DEF SlugsKept
    <2>1. CASE x \notin {old, d}
      BY <1>7, <2>1
    <2>2. CASE x = old
      BY <1>7, <2>2 DEF Claimed
    <2>3. CASE x = d
      <3>1. H[<<Parent[d], slug[d]>>] = d
        BY <1>5, <1>6
      <3>2. <<Parent[d], slug[d]>> \in Works \X EditionSlugs
        BY <1>5
      <3>3. tombs'[<<Parent[d], slug[d]>>] = d
        BY <3>1, <3>2 DEF H
      <3>4. QED
        BY <2>3, <3>3
    <2>4. QED
      BY <2>1, <2>2, <2>3
  <1>10. QED
    BY <1>8, <1>9

(* A second default is never in the trash by itself: what hands over on a  *)
(* request is live.                                                        *)
LEMMA DefaultIsLive ==
  ASSUME IInv, NEW old \in Editions, Exists(old), Live(Parent[old]), ~Suffixed(slug[old])
  PROVE  Live(old)
  <1>1. old \in Rows
    BY DEF Rows
  <1>2. trash[old] # Parent[old]
    BY Siblings DEF IInv
  <1>3. trash[old] # old
    BY DEF IInv, EditionsInv, TrashedIsNoDefault, Suffixed
  <1>4. trash[old] \in {NoRow, old, Parent[old]}
    BY <1>1 DEF IInv, RowsInv, TrashIsTrue
  <1>5. row[old] # "trashed"
    BY <1>1, <1>2, <1>3, <1>4 DEF IInv, RowsInv, TrashIsTrue
  <1>6. QED
    BY <1>5 DEF Exists, Live

LEMMA SetDefaultKept ==
  ASSUME IInv, FreshPages, NEW d \in MovieEditions, MovieEditionSetDefault(d)
  PROVE  AddressesKept
  <1>1. /\ d \in Editions /\ Live(d) /\ Live(Parent[d]) /\ Suffixed(slug[d])
        /\ UNCHANGED <<row, names, buried>>
    BY DEF MovieEditionSetDefault, Offered, FreshPages, Editions, IInv, RowsInv,
       EditionsHaveWorks, Suffixed
  <1>2. PICK old \in MovieEditions :
          /\ Exists(old) /\ Parent[old] = Parent[d] /\ ~Suffixed(slug[old])
          /\ slug' = Handed(old, d).slug
          /\ tombs' = Handed(old, d).tombs
    BY DEF MovieEditionSetDefault, Suffixed
  <1>3. old \in Editions
    BY DEF Editions
  <1>4. Live(old)
    BY <1>1, <1>2, <1>3, DefaultIsLive
  <1>5. Live(d)'
    BY <1>1 DEF Live
  <1>6. TombsKept /\ SlugsKept
    BY <1>1, <1>2, <1>3, <1>4, <1>5, HandedKept
  <1>7. QED
    BY <1>1, <1>6, SameNamesKept DEF AddressesKept

(* Tombstones that lead to the trash go, the others stay.                  *)
LEMMA WithoutAt ==
  ASSUME NEW tb \in [Works \X EditionSlugs -> Editions \cup {NoRow}], NEW dead,
         NEW k \in Works \X EditionSlugs, tb[k] \notin dead
  PROVE  Without(tb, dead)[k] = tb[k]
  BY DEF Without

LEMMA TrashEditionKept ==
  ASSUME IInv, NEW x \in Editions, TrashEdition(x)
  PROVE  AddressesKept
  <1>1. /\ Live(x)
        /\ row' = [r \in Rows |-> IF r \in {x} THEN "trashed" ELSE row[r]]
        /\ UNCHANGED <<names, buried>>
    BY DEF TrashEdition, SoftDelete
  <1>2. /\ x \in Rows /\ ~Live(x)'
        /\ \A c \in Editions \ {x} : Live(c)' <=> Live(c)
    BY <1>1 DEF Live, Rows
  <1>3. CASE ~Suffixed(slug[x])
    <2>1. PICK d \in EditionsOf(Parent[x], row) :
            /\ Suffixed(slug[d])
            /\ slug' = Handed(x, d).slug
            /\ tombs' = Without(Handed(x, d).tombs, {x})
      BY <1>3 DEF TrashEdition, Suffixed
    <2>2. d \in Editions /\ Live(d) /\ Parent[d] = Parent[x] /\ d # x
      BY <1>3, <2>1 DEF EditionsOf, Live
    <2>3. Handed(x, d).tombs \in [Works \X EditionSlugs -> Editions \cup {NoRow}]
      BY EntombedType, OldTypes, <2>2 DEF Handed, IInv
    <2> DEFINE H == Handed(x, d).tombs
    <2> HIDE DEF H
    <2>4. \A k \in Works \X EditionSlugs, y \in Editions : H[k] = y /\ Live(y)' => tombs'[k] = y
      BY <1>2, <2>1, <2>3, WithoutAt, ZenonT(40) DEF H
    <2>5. TombsKept /\ SlugsKept
      BY <1>1, <1>2, <1>3, <2>1, <2>2, <2>4, HandedKept DEF H
    <2>6. QED
      BY <1>1, <2>5, SameNamesKept DEF AddressesKept
  <1>4. CASE Suffixed(slug[x])
    <2>1. slug' = slug /\ tombs' = Without(tombs, {x})
      BY <1>4 DEF TrashEdition, Suffixed
    <2>2. \A w \in Works, e \in EditionSlugs, y \in Editions :
            tombs[<<w, e>>] = y /\ Live(y)' => tombs'[<<w, e>>] = y
      BY <1>2, <2>1, WithoutAt, OldTypes DEF IInv
    <2>3. TombsKept /\ SlugsKept
      BY <2>1, <2>2 DEF TombsKept, SlugsKept
    <2>4. QED
      BY <1>1, <2>3, SameNamesKept DEF AddressesKept
  <1>5. QED
    BY <1>3, <1>4

LEMMA TrashOwnerKept ==
  ASSUME IInv, NEW o \in Owners, TrashOwner(o)
  PROVE  AddressesKept
  <1> DEFINE dead == {o} \cup EditionsOf(o, row)
  <1>1. /\ row' = [r \in Rows |-> IF r \in dead THEN "trashed" ELSE row[r]]
        /\ tombs' = Without(tombs, dead)
        /\ names' = [s \in Slugs |-> IF names[s] = o THEN NoRow ELSE names[s]]
        /\ slug' = slug
    BY DEF TrashOwner, SoftDelete, SlugDelete
  <1>2. o \in dead /\ \A r \in Rows : r \in dead => ~Live(r)'
    BY <1>1 DEF Live
  <1> HIDE DEF dead
  <1>3. NamesKept
    <2>1. o \in Rows
      BY DEF Rows
    <2>2. row'[o] # "live"
      BY <1>2, <2>1 DEF Live
    <2>3. QED
      BY <1>1, <2>2 DEF NamesKept
  <1>4. \A w \in Works, e \in EditionSlugs, y \in Editions :
          tombs[<<w, e>>] = y /\ Live(y)' => tombs'[<<w, e>>] = y
    BY <1>1, <1>2, WithoutAt, OldTypes DEF IInv, Rows
  <1>5. TombsKept /\ SlugsKept
    BY <1>1, <1>4 DEF TombsKept, SlugsKept
  <1>6. QED
    BY <1>3, <1>5 DEF AddressesKept

LEMMA RestoreKept ==
  ASSUME IInv, NEW x \in Rows, Restore(x)
  PROVE  AddressesKept
  <1> DEFINE R == RootsOf(x)
  <1>1. /\ trash[x] = x
        /\ row' = RowsAfter(R)
        /\ slug' = SlugsAfter(R)
        /\ IF R \cap Owners = {} THEN UNCHANGED <<names, buried>>
           ELSE \E o \in R \cap Owners : SlugRow(o, slug'[o])
        /\ tombs' = IF x \in Editions THEN EditionMoved(x, slug'[x]) ELSE tombs
    BY DEF Restore
  <1>2. /\ \A r \in R : ~Live(r)
        /\ x \in R
        /\ x \in Owners => R = {x}
        /\ x \in Editions => R \cap Editions = {x}
    BY <1>1, RestoredRoots
  <1>3. \A r \in Rows \ R : slug'[r] = slug[r]
    <2> DEFINE sl == SlugsAfter(R)
    <2>1. \A r \in Rows \ R : sl[r] = slug[r]
      BY <1>1, RestoredSlugs
    <2>2. slug' = sl
      BY <1>1
    <2> HIDE DEF sl, R
    <2>3. QED
      BY <2>1, <2>2
  <1>4. Live(x)'
    BY <1>1, <1>2 DEF RowsAfter, Live
  <1> HIDE DEF R
  <1>5. NamesKept
    BY <1>1, SlugRowKept, SameNamesKept DEF IInv
  <1>6. \A c \in Editions : c \in Rows /\ (Live(c) => slug'[c] = slug[c])
    BY <1>2, <1>3 DEF Rows
  <1>7. CASE x \notin Editions \/ slug'[x] = slug[x]
    <2>1. tombs' = tombs
      BY <1>1, <1>7 DEF EditionMoved
    <2>2. QED
      BY <1>5, <1>6, <2>1, SameTombsKept DEF AddressesKept
  <1>8. CASE x \in Editions /\ slug'[x] # slug[x]
    <2> DEFINE s == slug'[x]
    <2>1. tombs' = Entombed(tombs, x, s)
      BY <1>1, <1>8 DEF EditionMoved
    <2>2. \A w \in Works, e \in EditionSlugs :
            tombs'[<<w, e>>] = IF w = Parent[x] /\ e = slug[x] /\ Live(x) THEN x
                               ELSE IF w = Parent[x] /\ e = s THEN NoRow
                               ELSE tombs[<<w, e>>]
      BY <1>8, <2>1, OldTypes DEF IInv, Entombed
    <2>3. slug[x] \in EditionParts
      BY <1>8 DEF IInv, TypeOK, EditionParts
    <2>4. TombsKept /\ SlugsKept
      BY <1>2, <1>4, <1>6, <1>8, <2>2, <2>3, MoveKept
    <2>5. QED
      BY <1>5, <2>4 DEF AddressesKept
  <1>9. QED
    BY <1>7, <1>8

LEMMA NextKept ==
  ASSUME FreshPages, IInv, [Next]_vars
  PROVE  AddressesKept
  <1> USE OldTypes DEF IInv
  <1>1. CASE \E w \in Works, d \in Editions, t \in Titles : WorkCreate(w, d, t)
    <2>1. PICK w \in Works, d \in Editions, t \in Titles : WorkCreate(w, d, t)
      BY <1>1
    <2>2. /\ row[d] = "new" /\ tombs' = tombs
          /\ names' = [names EXCEPT ![OwnerSlug(w, t)] = w]
          /\ buried' = buried \ {OwnerSlug(w, t)}
          /\ slug' = [slug EXCEPT ![w] = OwnerSlug(w, t),
                                  ![d] = EditionSlug(d, DefaultLabel, row)]
      BY <2>1 DEF WorkCreate
    <2>3. slug \in [Rows -> Slugs \cup EditionParts]
      BY DEF TypeOK, EditionParts
    <2>4. \A c \in Editions : Live(c) => c # d /\ c # w /\ c \in Rows
      BY <2>2, Disjoint DEF Live, Rows
    <2>5. \A c \in Editions : Live(c) => slug'[c] = slug[c]
      BY <2>2, <2>3, <2>4
    <2>6. NamesKept
      BY <2>2 DEF NamesKept
    <2>7. QED
      BY <2>2, <2>5, <2>6, SameTombsKept DEF AddressesKept
  <1>2. CASE \E c \in Collections, t \in Titles : CollectionCreate(c, t)
    <2>1. PICK c \in Collections, t \in Titles : CollectionCreate(c, t)
      BY <1>2
    <2>2. /\ tombs' = tombs
          /\ names' = [names EXCEPT ![OwnerSlug(c, t)] = c]
          /\ buried' = buried \ {OwnerSlug(c, t)}
          /\ slug' = [slug EXCEPT ![c] = OwnerSlug(c, t)]
      BY <2>1 DEF CollectionCreate
    <2>3. slug \in [Rows -> Slugs \cup EditionParts]
      BY DEF TypeOK, EditionParts
    <2>4. \A d \in Editions : d # c /\ d \in Rows
      BY Disjoint DEF Rows
    <2>5. \A d \in Editions : slug'[d] = slug[d]
      BY <2>2, <2>3, <2>4
    <2>6. NamesKept
      BY <2>2 DEF NamesKept
    <2>7. QED
      BY <2>2, <2>5, <2>6, SameTombsKept DEF AddressesKept
  <1>3. CASE \E src, d \in Editions : EditionClone(src, d)
    BY <1>3, EditionCloneKept
  <1>4. ASSUME NEW o \in Owners, NEW s, SlugRow(o, s),
               slug' = [slug EXCEPT ![o] = s], UNCHANGED tombs
        PROVE  AddressesKept
    <2>1. slug \in [Rows -> Slugs \cup EditionParts]
      BY DEF TypeOK, EditionParts
    <2>2. \A d \in Editions : d # o /\ d \in Rows
      BY Disjoint DEF Rows, Owners
    <2>3. \A d \in Editions : slug'[d] = slug[d]
      BY <1>4, <2>1, <2>2
    <2>4. NamesKept
      BY <1>4, SlugRowKept
    <2>5. QED
      BY <1>4, <2>3, <2>4, SameTombsKept DEF AddressesKept
  <1>5. CASE \E o \in Series \cup Collections, t \in Titles : TitleSet(o, t)
    BY <1>4, <1>5 DEF TitleSet, Owners, Works
  <1>6. CASE \E d \in MovieEditions, t \in Titles : MovieEditionTitleSet(d, t)
    <2>1. PICK d \in MovieEditions, t \in Titles : MovieEditionTitleSet(d, t)
      BY <1>6
    <2>2. Parent[d] \in Owners
      BY Disjoint DEF Editions
    <2>3. CASE ~Suffixed(slug[d])
      BY <1>4, <2>1, <2>2, <2>3 DEF MovieEditionTitleSet, Suffixed
    <2>4. CASE Suffixed(slug[d])
      <3>1. UNCHANGED <<slug, names, buried, tombs>>
        BY <2>1, <2>4 DEF MovieEditionTitleSet, Suffixed
      <3>2. QED
        BY <3>1, SameNamesKept, SameTombsKept DEF AddressesKept
    <2>5. QED
      BY <2>3, <2>4
  <1>7. CASE \E d \in Editions, lb \in Labels : EditionLabelSet(d, lb)
    BY <1>7, EditionLabelSetKept
  <1>8. CASE \E d \in MovieEditions : MovieEditionSetDefault(d)
    BY <1>8, SetDefaultKept
  <1>9. CASE \E o \in Owners : TrashOwner(o)
    BY <1>9, TrashOwnerKept
  <1>10. CASE \E x \in Editions : TrashEdition(x)
    BY <1>10, TrashEditionKept
  <1>11. CASE \E x \in Rows : Restore(x)
    BY <1>11, RestoreKept
  <1>12. CASE \E x \in Rows : Purge(x)
    <2>1. PICK x \in Rows : Purge(x)
      BY <1>12
    <2> DEFINE gone == InTrashOf({x})
    <2>2. UNCHANGED <<names, buried, tombs>>
      BY <2>1 DEF Purge
    <2>3. \A r \in Rows : r \notin gone => slug'[r] = slug[r]
      BY <2>1 DEF Purge
    <2>4. \A c \in Editions : Live(c) => c \in Rows /\ c \notin gone
      <3>1. trash[x] = x /\ x # NoRow
        BY <2>1, SlugsAssumption DEF Purge
      <3>2. QED
        BY <3>1 DEF RowsInv, TrashIsTrue, InTrashOf, Live, Rows
    <2>5. QED
      BY <2>2, <2>3, <2>4, SameNamesKept, SameTombsKept DEF AddressesKept
  <1>13. CASE UNCHANGED vars
    BY <1>13, SameNamesKept, SameTombsKept DEF vars, AddressesKept
  <1>14. QED
    BY <1>1, <1>2, <1>3, <1>5, <1>6, <1>7, <1>8, <1>9, <1>10, <1>11, <1>12, <1>13
    DEF Next

(* Requests naming live rows only, an address that led to a page leads to  *)
(* it as long as the page is there, unless another owner or edition has    *)
(* taken the slug (model/slug.go, movieEditionSlugMove).                   *)
THEOREM OldAddressesGoOn ==
  ASSUME FreshPages
  PROVE  Spec => OldAddressesLead
  <1> DEFINE Lead ==
        \A s \in {n \in Slugs : names[n] # NoRow}, e \in EditionSlugs \cup {""} :
           LET x == SlugResolve(<<s, e>>) IN
           x # NoRow /\ x \in Pages' =>
              \/ SlugResolve(<<s, e>>)' = x
              \/ names'[s] # names[s] /\ s \notin buried'
              \/ \E y \in Editions \ {x} :
                    /\ Parent[y] = Parent[x]
                    /\ slug'[y] = e
                    /\ (y \in Pages') \/ slug[y] # e
  <1>1. ASSUME IInv, [Next]_vars
        PROVE  Lead
    <2> SUFFICES ASSUME NEW s \in Slugs, names[s] # NoRow,
                        NEW e \in EditionParts,
                        SlugResolve(<<s, e>>) # NoRow, SlugResolve(<<s, e>>) \in Pages'
                 PROVE  \/ SlugResolve(<<s, e>>)' = SlugResolve(<<s, e>>)
                        \/ names'[s] # names[s] /\ s \notin buried'
                        \/ \E y \in Editions \ {SlugResolve(<<s, e>>)} :
                              /\ Parent[y] = Parent[SlugResolve(<<s, e>>)]
                              /\ slug'[y] = e
                              /\ (y \in Pages') \/ slug[y] # e
      BY DEF EditionParts
    <2> PICK x : x = SlugResolve(<<s, e>>)
      OBVIOUS
    <2> PICK o \in Owners : o = names[s]
      BY <1>1, OldTypes DEF IInv
    <2>1. AddressesKept /\ IInv'
      BY <1>1, NextKept, NextIInv
    <2>2. Live(o)
      BY <1>1 DEF IInv, NamesInv, NamesAreLive
    <2>3. \A y \in Editions : y \in Pages' <=> Live(y)'
      BY DEF Pages
    <2>4. CASE o \in Collections
      <3>1. x = o /\ ~Suffixed(e)
        BY <2>4 DEF SlugResolve, Suffixed
      <3>2. Live(o)'
        BY <3>1 DEF Pages
      <3>3. names'[s] = o \/ (names'[s] # names[s] /\ s \notin buried')
        BY <2>1, <3>2 DEF AddressesKept, NamesKept, Live
      <3>4. names'[s] = o => SlugResolve(<<s, e>>)' = o
        BY <2>4, <3>1, <3>2 DEF SlugResolve, Suffixed
      <3>5. QED
        BY <3>1, <3>3, <3>4
    <2>5. CASE o \notin Collections
      <3>1. o \in Works /\ o \notin Collections /\ (o \in Series \/ o \in Movies)
        BY <2>2, <2>5 DEF Owners, Works
      <3>2. x = EditionAt(o, e)
        BY <2>2, <3>1 DEF SlugResolve
      <3>3. x \in Editions
        <4>1. EditionAt(o, e) \in Editions \cup {NoRow}
          BY OldTypes, SuffixedParts DEF EditionAt, EditionsOf
        <4>2. QED
          BY <3>2, <4>1
      <3>4. row'[x] = "live"
        BY <3>3 DEF Pages, Live
      <3>5. Parent[x] = o /\ FoundAgain(o, e, x)
        BY <1>1, <2>1, <3>1, <3>2, <3>3, <3>4, EditionFoundAgain
      <3>6. Live(o)'
        <4>1. EditionsHaveWorks'
          BY <2>1 DEF IInv, RowsInv
        <4>2. QED
          BY <3>3, <3>4, <3>5, <4>1 DEF EditionsHaveWorks, Live
      <3>7. names'[s] = o \/ (names'[s] # names[s] /\ s \notin buried')
        BY <2>1, <3>6 DEF AddressesKept, NamesKept, Live
      <3>8. names'[s] = o => SlugResolve(<<s, e>>)' = EditionAt(o, e)'
        BY <3>1, <3>6 DEF SlugResolve
      <3>9. QED
        BY <2>3, <3>5, <3>7, <3>8 DEF FoundAgain
    <2>6. QED
      BY <2>4, <2>5
  <1>2. IInv /\ [Next]_vars => [Lead]_vars
    BY <1>1
  <1>3. QED
    BY <1>2, Inductive, PTL DEF Spec, OldAddressesLead
=============================================================================
