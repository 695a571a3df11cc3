-------------------------------- MODULE Slugs --------------------------------
(***************************************************************************)
(* The addresses of the library: /movie[/edition], /series[/edition] and   *)
(* /collection (model/slug.go).  The first part is looked up in the table  *)
(* Slug, which all kinds of owners share; the second is the column Slug of *)
(* the editions of one work.  What was given up by a rename stays behind   *)
(* as a tombstone, in Slug or in EditionSlugTombstone, and leads to its    *)
(* old holder until somebody claims it.                                    *)
(*                                                                         *)
(* Every operation is one write transaction.  Abstracted: a title or a     *)
(* label is the list of slugs that are tried for it, in order, the         *)
(* reserved ones left out; a release date is a part of the title; rows     *)
(* below an edition, and so the last part of an episode's address, are     *)
(* left out.                                                               *)
(***************************************************************************)
EXTENDS Integers, Sequences, FiniteSets

CONSTANTS
    Movies, Series, Collections, SeriesEditions, MovieEditions,  \* row IDs
    Parent,         \* MovieID or SeriesID of an edition
    NoRow,          \* NULL
    Slugs, EditionSlugs,    \* of the first part and of the second
    Titles,
    TitlesOf,       \* those a row is given
    NoTitle,        \* the empty one
    Labels,
    DefaultLabel,   \* of the first edition of a work
    CopyOf,         \* "Copy of " and the label
    TitleSlugs,     \* of an owner and a title: the slugs tried.  The last
                    \* one of a movie or series holds its ID
    LabelSlugs,     \* of a label: the slugs tried, "" first
    Libraries,      \* the rows that are created
    StaleClicks     \* the rows a request may name though they are trashed

Works == Movies \cup Series
Owners == Works \cup Collections
Editions == SeriesEditions \cup MovieEditions
Rows == Owners \cup Editions
Titled == Series \cup Collections \cup MovieEditions

ASSUME SlugsAssumption ==
    /\ Owners \cap Editions = {} /\ Collections \cap Works = {}
    /\ Movies \cap Series = {} /\ SeriesEditions \cap MovieEditions = {}
    /\ NoRow \notin Rows
    /\ Parent \in [Editions -> Works]
    /\ \A d \in Editions : d \in MovieEditions <=> Parent[d] \in Movies
    /\ NoTitle \in Titles
    /\ TitlesOf \in [Titled -> SUBSET Titles]
    /\ Libraries \subseteq SUBSET Rows
    /\ DefaultLabel \in Labels /\ CopyOf \in [Labels -> Labels]
    /\ "" \notin EditionSlugs
    /\ TitleSlugs \in [Owners \X Titles -> Seq(Slugs) \ {<<>>}]
    /\ LabelSlugs \in [Labels -> Seq(EditionSlugs \cup {""}) \ {<<>>}]
    /\ \A lb \in Labels : LabelSlugs[lb][1] = ""
    /\ StaleClicks \subseteq Rows

\* s is tried for some title of o.
Tried(o, s) == \E t \in Titles : \E i \in DOMAIN TitleSlugs[<<o, t>>] :
                  TitleSlugs[<<o, t>>][i] = s
ChildrenOf(w) == {d \in Editions : Parent[d] = w}

\* Whatever slugs the others have, one that is tried is free: it holds an ID,
\* or a number that goes on.
ASSUME EnoughSlugs ==
    /\ \A o \in Owners, t \in Titles : \A f \in [Owners \ {o} -> Slugs] :
         (\A p \in Owners \ {o} : Tried(p, f[p])) =>
            \E i \in DOMAIN TitleSlugs[<<o, t>>] :
               \A p \in Owners \ {o} : f[p] # TitleSlugs[<<o, t>>][i]
    /\ \A w \in Works, lb \in Labels :
         \A f \in [ChildrenOf(w) -> EditionSlugs \cup {""}] :
            \E i \in DOMAIN LabelSlugs[lb] :
               \A d \in ChildrenOf(w) : f[d] # LabelSlugs[lb][i]

VARIABLES
    row,        \* "new", "live", "trashed" or "gone"
    trash,      \* the root of the cascade that took a trashed row
    title,      \* Title and ReleaseDate
    label,      \* Label of an edition
    slug,       \* column Slug; "" marks the default edition
    names,      \* table Slug: Target
    buried,     \* table Slug: the rows with Tombstone = 1
    tombs       \* table EditionSlugTombstone: TargetID

vars == <<row, trash, title, label, slug, names, buried, tombs>>
texts == <<title, label>>

Init ==
    /\ \E l \in Libraries : row = [r \in Rows |-> IF r \in l THEN "new" ELSE "gone"]
    /\ trash = [r \in Rows |-> NoRow]
    /\ title = [r \in Titled |-> NoTitle]
    /\ label = [d \in Editions |-> DefaultLabel]
    /\ slug = [r \in Rows |-> ""]
    /\ names = [s \in Slugs |-> NoRow]
    /\ buried = {}
    /\ tombs = [k \in Works \X EditionSlugs |-> NoRow]

Live(r) == row[r] = "live"
Exists(r) == row[r] \in {"live", "trashed"}
Offered(r) == Live(r) \/ (r \in StaleClicks /\ row[r] = "trashed")
InTrashOf(roots) == {r \in Rows : trash[r] \in roots}
EditionsOf(w, rw) == {d \in Editions : Parent[d] = w /\ rw[d] = "live"}
-----------------------------------------------------------------------------
(***************************************************************************)
(* The choice of a slug.                                                   *)
(***************************************************************************)
\* movieFindSlug, generateSeriesSlug, collectionFindSlug and their siblings
\* for editions: the first that is free, or the last resort.
FindSlug(tried, taken) ==
    LET free == {i \in DOMAIN tried : tried[i] \notin taken}
    IN  IF free = {} THEN tried[Len(tried)]
        ELSE tried[CHOOSE i \in free : \A j \in free : i <= j]

\* SlugExists; a tombstone reserves nothing.
Named == {s \in Slugs : names[s] # NoRow /\ s \notin buried}
\* MovieEditionSlugExists, SeriesEditionSlugExists.
SlugsUsed(w, rw) == {slug[d] : d \in EditionsOf(w, rw)}
\* A live row keeps its slug from the others only.
Own(r) == IF Live(r) THEN {slug[r]} ELSE {}

\* The title of a movie is that of its default edition, live or trashed.
TitleOf(o, tt) ==
    IF o \notin Movies THEN tt[o]
    ELSE LET defaults == {d \in Editions : /\ Parent[d] = o /\ Exists(d)
                                           /\ slug[d] = ""}
         IN  IF defaults = {} THEN NoTitle
             ELSE tt[CHOOSE d \in defaults : TRUE]

OwnerSlug(o, t) == FindSlug(TitleSlugs[<<o, t>>], Named \ Own(o))
EditionSlug(d, lb, rw) ==
    FindSlug(LabelSlugs[lb], SlugsUsed(Parent[d], rw) \ Own(d))

\* slugMove.
SlugMove(o, s) ==
    /\ buried' = (buried \cup {r \in Named : names[r] = o}) \ {s}
    /\ names' = [names EXCEPT ![s] = o]

\* Slip: a restore that finds its old slug free leaves the table as it was.
SlugRowIfMoved(o, s) ==
    IF s # slug[o] THEN SlugMove(o, s) ELSE UNCHANGED <<names, buried>>

\* movieEnsureSlug, seriesEnsureSlug, collectionEnsureSlug.
SlugRow(o, s) ==
    IF ~Live(o) \/ s # slug[o] THEN SlugMove(o, s)
    ELSE UNCHANGED <<names, buried>>

\* Slip: the row of o only.
SlugDeleteLive(o) ==
    /\ names' = [s \in Slugs |-> IF names[s] = o /\ s \notin buried THEN NoRow
                                ELSE names[s]]
    /\ buried' = buried

\* SlugDelete: the row of o and its tombstones.
SlugDelete(o) ==
    /\ names' = [s \in Slugs |-> IF names[s] = o THEN NoRow ELSE names[s]]
    /\ buried' = {s \in buried : names[s] # o}

\* Slip: the old slug is forgotten.
OnlyClaimed(tb, d, s) ==
    [k \in DOMAIN tb |-> IF k = <<Parent[d], s>> THEN NoRow ELSE tb[k]]

\* movieEditionSlugMove, seriesEditionSlugMove: the tombstones in tb once d
\* has gone from its slug to s.
Entombed(tb, d, s) ==
    [k \in DOMAIN tb |->
       IF k = <<Parent[d], slug[d]>> /\ Live(d) THEN d
       ELSE IF k = <<Parent[d], s>> THEN NoRow ELSE tb[k]]
EditionMoved(d, s) == IF s = slug[d] THEN tombs ELSE Entombed(tombs, d, s)
-----------------------------------------------------------------------------
\* MovieCreate, movieCreateByTMDBID, seriesCreateByTVmazeID: a work with its
\* first edition.
WorkCreate(w, d, t) ==
    /\ t \in TitlesOf[IF w \in Movies THEN d ELSE w]
    /\ row[w] = "new" /\ row[d] = "new" /\ Parent[d] = w
    /\ LET s == OwnerSlug(w, t) IN
         /\ slug' = [slug EXCEPT ![w] = s,
                                 ![d] = EditionSlug(d, DefaultLabel, row)]
         /\ names' = [names EXCEPT ![s] = w]
         /\ buried' = buried \ {s}
    /\ row' = [row EXCEPT ![w] = "live", ![d] = "live"]
    /\ title' = [title EXCEPT ![IF w \in Movies THEN d ELSE w] = t]
    /\ label' = [label EXCEPT ![d] = DefaultLabel]
    /\ UNCHANGED <<trash, tombs>>

CollectionCreate(c, t) ==
    /\ t \in TitlesOf[c]
    /\ row[c] = "new"
    /\ LET s == OwnerSlug(c, t) IN
         /\ slug' = [slug EXCEPT ![c] = s]
         /\ names' = [names EXCEPT ![s] = c]
         /\ buried' = buried \ {s}
    /\ row' = [row EXCEPT ![c] = "live"]
    /\ title' = [title EXCEPT ![c] = t]
    /\ UNCHANGED <<trash, label, tombs>>

\* MovieEditionClone, SeriesEditionClone.
EditionClone(src, d) ==
    /\ Offered(src)
    /\ row[d] = "new" /\ Parent[d] = Parent[src]
    /\ LET lb == CopyOf[label[src]]
           s  == EditionSlug(d, lb, row) IN
         /\ slug' = [slug EXCEPT ![d] = s]
         /\ tombs' = [k \in DOMAIN tombs |->
                        IF k = <<Parent[d], s>> THEN NoRow ELSE tombs[k]]
         /\ label' = [label EXCEPT ![d] = lb]
    /\ row' = [row EXCEPT ![d] = "live"]
    /\ title' = IF d \in MovieEditions THEN [title EXCEPT ![d] = title[src]]
                ELSE title
    /\ UNCHANGED <<trash, names, buried>>

\* SeriesTitleSet, CollectionTitleSet.
TitleSet(o, t) ==
    /\ Offered(o) /\ t \in TitlesOf[o]
    /\ title' = [title EXCEPT ![o] = t]
    /\ LET s == OwnerSlug(o, t) IN
         /\ slug' = [slug EXCEPT ![o] = s]
         /\ SlugRow(o, s)
    /\ UNCHANGED <<row, trash, label, tombs>>

\* MovieEditionTitleSet, MovieEditionReleaseDateSet: the movie goes by the
\* title of its default edition.
MovieEditionTitleSet(d, t) ==
    /\ Offered(d) /\ t \in TitlesOf[d]
    /\ title' = [title EXCEPT ![d] = t]
    /\ LET mo == Parent[d]
           s  == OwnerSlug(mo, TitleOf(mo, title')) IN
         IF slug[d] = ""
         THEN slug' = [slug EXCEPT ![mo] = s] /\ SlugRow(mo, s)
         ELSE UNCHANGED <<slug, names, buried>>
    /\ UNCHANGED <<row, trash, label, tombs>>

\* MovieEditionLabelSet, SeriesEditionLabelSet.
EditionLabelSet(d, lb) ==
    /\ Offered(d)
    /\ label' = [label EXCEPT ![d] = lb]
    /\ LET s == EditionSlug(d, lb, row) IN
         /\ slug' = [slug EXCEPT ![d] = s]
         /\ tombs' = EditionMoved(d, s)
    /\ UNCHANGED <<row, trash, title, names, buried>>

\* The default edition old hands "" to d: their slugs and the tombstones.
Handed(old, d) ==
    LET s == FindSlug(LabelSlugs[label[old]], SlugsUsed(Parent[old], row))
    IN  [slug |-> [slug EXCEPT ![old] = s, ![d] = ""],
         tombs |-> Entombed(Entombed(tombs, old, s), d, "")]

MovieEditionSetDefault(d) ==
    /\ Offered(d) /\ slug[d] # ""
    /\ \E old \in MovieEditions :
         /\ Exists(old) /\ Parent[old] = Parent[d] /\ slug[old] = ""
         /\ slug' = Handed(old, d).slug
         /\ tombs' = Handed(old, d).tombs
    /\ UNCHANGED <<row, trash, title, label, names, buried>>
-----------------------------------------------------------------------------
(***************************************************************************)
(* Trash, restore and purge, as far as addresses go.                       *)
(***************************************************************************)
SoftDelete(x, dead) ==
    /\ row' = [r \in Rows |-> IF r \in dead THEN "trashed" ELSE row[r]]
    /\ trash' = [r \in Rows |-> IF r \in dead THEN x ELSE trash[r]]

\* EditionSlugTombstoneDeleteByTarget.
Without(tb, dead) ==
    [k \in DOMAIN tb |-> IF tb[k] \in dead THEN NoRow ELSE tb[k]]

\* trashMovie, trashSeries, trashCollection; SlugDelete takes the
\* tombstones along.
TrashOwner(o) ==
    /\ Live(o)
    /\ LET dead == {o} \cup EditionsOf(o, row) IN
         /\ SoftDelete(o, dead)
         /\ tombs' = Without(tombs, dead)
    /\ SlugDelete(o)
    /\ UNCHANGED <<slug, texts>>

\* trashMovieEdition, trashSeriesEdition of a root: a default edition hands
\* over first, and without a live sibling the request fails.
TrashEdition(x) ==
    /\ Live(x)
    /\ IF slug[x] = ""
       THEN \E d \in EditionsOf(Parent[x], row) :
              /\ slug[d] # ""
              /\ slug' = Handed(x, d).slug
              /\ tombs' = Without(Handed(x, d).tombs, {x})
       ELSE slug' = slug /\ tombs' = Without(tombs, {x})
    /\ SoftDelete(x, {x})
    /\ UNCHANGED <<names, buried, texts>>

RowsAfter(roots) ==
    [r \in Rows |-> IF trash[r] \in roots THEN "live" ELSE row[r]]

\* The root x and, for an edition, the trashed work it is under.
RootsOf(x) == {x} \cup (IF x \in Editions THEN {trash[Parent[x]]} \ {NoRow} ELSE {})

\* Slip: the roots keep what they had, too.
SlugsAsLeft(roots) == slug

\* The slugs after restoreRoot of the roots, the work first: only they look
\* for a slug, the rest of a cascade keeps what it had.
SlugsAfter(roots) ==
    [r \in Rows |->
       IF r \notin roots THEN slug[r]
       ELSE IF r \in Owners THEN OwnerSlug(r, TitleOf(r, title))
       ELSE EditionSlug(r, label[r], RowsAfter(roots \cap Owners))]

\* UQ_MovieEdition_MovieID_Slug and its siblings.
UniqueSlugs(rw, sl) ==
    \A d, e \in {r \in Rows : rw[r] = "live"} :
       d # e /\ sl[d] = sl[e] =>
          IF d \in Editions /\ e \in Editions THEN Parent[d] # Parent[e]
          ELSE \A T \in {Movies, Series, Collections} : ~({d, e} \subseteq T)

Restorable(x) == UniqueSlugs(RowsAfter(RootsOf(x)), SlugsAfter(RootsOf(x)))

Restore(x) ==
    LET roots == RootsOf(x) IN
    /\ trash[x] = x
    /\ Restorable(x)
    /\ row' = RowsAfter(roots)
    /\ trash' = [r \in Rows |-> IF trash[r] \in roots THEN NoRow ELSE trash[r]]
    /\ slug' = SlugsAfter(roots)
    /\ IF roots \cap Owners = {} THEN UNCHANGED <<names, buried>>
       ELSE \E o \in roots \cap Owners : SlugRow(o, slug'[o])
    /\ tombs' = IF x \in Editions THEN EditionMoved(x, slug'[x]) ELSE tombs
    /\ UNCHANGED texts

\* A work waits for its editions that were trashed before it.
Purge(x) ==
    LET gone == InTrashOf({x}) IN
    /\ trash[x] = x
    /\ \A d \in Editions \ gone : Exists(d) => Parent[d] \notin gone
    /\ row' = [r \in Rows |-> IF r \in gone THEN "gone" ELSE row[r]]
    /\ trash' = [r \in Rows |-> IF r \in gone THEN NoRow ELSE trash[r]]
    /\ title' = [r \in Titled |-> IF r \in gone THEN NoTitle ELSE title[r]]
    /\ label' = [d \in Editions |-> IF d \in gone THEN DefaultLabel ELSE label[d]]
    /\ slug' = [r \in Rows |-> IF r \in gone THEN "" ELSE slug[r]]
    /\ UNCHANGED <<names, buried, tombs>>
-----------------------------------------------------------------------------
Next ==
    \/ \E w \in Works, d \in Editions, t \in Titles : WorkCreate(w, d, t)
    \/ \E c \in Collections, t \in Titles : CollectionCreate(c, t)
    \/ \E src, d \in Editions : EditionClone(src, d)
    \/ \E o \in Series \cup Collections, t \in Titles : TitleSet(o, t)
    \/ \E d \in MovieEditions, t \in Titles : MovieEditionTitleSet(d, t)
    \/ \E d \in Editions, lb \in Labels : EditionLabelSet(d, lb)
    \/ \E d \in MovieEditions : MovieEditionSetDefault(d)
    \/ \E o \in Owners : TrashOwner(o)
    \/ \E x \in Editions : TrashEdition(x)
    \/ \E x \in Rows : Restore(x) \/ Purge(x)

Spec == Init /\ [][Next]_vars
-----------------------------------------------------------------------------
(***************************************************************************)
(* SlugResolve and SlugPath.                                               *)
(***************************************************************************)
\* The edition of w at e: a live one before a tombstone's.
EditionAt(w, e) ==
    LET at == {d \in EditionsOf(w, row) : slug[d] = e}
    IN  IF at # {} THEN CHOOSE d \in at : TRUE
        ELSE IF e # "" /\ tombs[<<w, e>>] \in EditionsOf(w, row)
        THEN tombs[<<w, e>>] ELSE NoRow

SlugResolve(path) ==
    LET o == names[path[1]]
    IN  IF o \in Collections
        THEN IF Live(o) /\ path[2] = "" THEN o ELSE NoRow
        ELSE IF o \in Series \/ (o \in Movies /\ Live(o))
        THEN EditionAt(o, path[2]) ELSE NoRow

\* slugForTarget, then the slug of the edition.
SlugPath(x) ==
    LET o == IF x \in Editions THEN Parent[x] ELSE x
    IN  {<<s, IF x \in Editions THEN slug[x] ELSE "">> :
           s \in {r \in Named : names[r] = o}}
=============================================================================
