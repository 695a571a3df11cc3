------------------------------- MODULE Library -------------------------------
(***************************************************************************)
(* The media library of model/: the rows of series, movies, editions,      *)
(* seasons, episodes, videos, downloads and collections, the junction rows *)
(* between them, the trash (trash.go: soft delete with cascade, restore,   *)
(* purge) and the choice of the video a work plays (active_video.go).      *)
(* Every operation is one write transaction (model.go, WithTxRW: a single  *)
(* writer), so it is one action; an operation that returns an error is     *)
(* rolled back, so its action is not enabled.                              *)
(*                                                                         *)
(* Abstracted: titles, slugs (but for "", which marks the default          *)
(* edition), the order of episodes in a season, times (but for what was    *)
(* trashed before what).  A row ID is never used twice: a purged row stays *)
(* gone.                                                                   *)
(***************************************************************************)
EXTENDS Integers, FiniteSets, FiniteSetsExt

CONSTANTS
    Series, Movies, SeriesEditions, MovieEditions, Seasons, Episodes,
    Videos, Downloads, Collections,     \* row IDs, by table
    Parent,         \* SeriesID, MovieID or EditionID of an edition or season
    Source,         \* [Videos -> Downloads \cup {NoRow}]: Video.InfoHash
    Number,         \* [Seasons -> Nat]: Season.Number, and its SortKey
    NoRow,          \* NULL
    Firsts,         \* the initial libraries: the rows each has, the rows it
                    \* may yet have, its junction rows, its default editions
    FirstTarget,    \* the edition each download is for
    Encodable,      \* the videos whose files ever complete
    MaxRoots,       \* bound on the directly trashed rows at one time
    StaleClicks     \* the rows a request may name though another editor has
                    \* just trashed them: its page is not drawn again yet

Works == Series \cup Movies
Editions == SeriesEditions \cup MovieEditions
Holders == Episodes \cup MovieEditions       \* what a video is attached to
Rows == Works \cup Editions \cup Seasons \cup Episodes
            \cup Videos \cup Downloads \cup Collections
\* SeasonEpisode, EpisodeVideo and MovieVideo, CollectionMovie and -Series.
Links == (Seasons \X Episodes) \cup (Holders \X Videos)
            \cup (Collections \X Works)

Tables == <<Series, Movies, SeriesEditions, MovieEditions, Seasons, Episodes,
            Videos, Downloads, Collections>>

ASSUME LibraryAssumption ==
    /\ \A i, j \in DOMAIN Tables : i # j => Tables[i] \cap Tables[j] = {}
    /\ Parent \in [Editions \cup Seasons -> Works \cup SeriesEditions]
    /\ \A d \in Editions : Parent[d] \in Works
    /\ \A n \in Seasons : Parent[n] \in SeriesEditions
    /\ Source \in [Videos -> Downloads \cup {NoRow}]
    /\ Number \in [Seasons -> Nat]
    /\ NoRow \notin Rows
    /\ \A f \in Firsts :
         /\ f.rows \subseteq Rows
         /\ f.later \subseteq Rows \ f.rows
         /\ f.links \subseteq Links
         /\ \A l \in f.links : {l[1], l[2]} \subseteq f.rows
         /\ f.defaults \subseteq Editions \cap f.rows
         /\ \A w \in Works \cap f.rows :
              \E d \in f.defaults : {e \in f.defaults : Parent[e] = w} = {d}
         /\ \A v \in Videos : Source[v] \in f.later => v \in f.later
    /\ FirstTarget \in [Downloads -> Editions]
    /\ Encodable \subseteq Videos
    /\ MaxRoots \in Nat
    /\ StaleClicks \subseteq Rows

\* The initial libraries keep the foreign keys MovieID, SeriesID, EditionID.
ASSUME ParentsAssumption ==
    \A f \in Firsts : \A r \in f.rows \cap DOMAIN Parent : Parent[r] \in f.rows

VARIABLES
    row,        \* "new", "live", "trashed" (DeletedAt set) or "gone"
    trash,      \* table Trash: the root of the cascade (CascadeOf, or the
                \* row itself when it was trashed directly); NoRow: no entry
    older,      \* the directly trashed rows by age (Trash.DeletedAt): the
                \* first of a pair was trashed before the second
    link,       \* junction rows: "none", "live" or "dead" (DeletedAt set)
    active,     \* the junctions with Active = 1, live or dead
    default,    \* the editions with Slug = ''
    target,     \* MovieEditionID or SeriesEditionID of a download
    playable,   \* the videos with Playable = 1
    jobs        \* the videos with a reencode task

vars == <<row, trash, older, link, active, default, target, playable, jobs>>
videoVars == <<playable, jobs>>

Init ==
    \E f \in Firsts :
      /\ row = [r \in Rows |-> IF r \in f.rows THEN "live"
                              ELSE IF r \in f.later THEN "new" ELSE "gone"]
      /\ trash = [r \in Rows |-> NoRow]
      /\ older = {}
      /\ link = [l \in Links |-> IF l \in f.links THEN "live" ELSE "none"]
      /\ active = {}
      /\ default = f.defaults
      /\ target = FirstTarget
      /\ playable = {}
      /\ jobs = {}

Live(r) == row[r] = "live"
Exists(r) == row[r] \in {"live", "trashed"}
\* The rows a page offers: the trashed ones only to a stale click.
Offered(r) == Live(r) \/ (r \in StaleClicks /\ row[r] = "trashed")
\* The rows whose foreign key names r cannot outlive r.
Refers(r) == IF r \in Downloads THEN target[r]
             ELSE IF r \in DOMAIN Parent THEN Parent[r] ELSE NoRow
Ends(l) == {l[1], l[2]}
Roots == {r \in Rows : trash[r] = r}
-----------------------------------------------------------------------------
(***************************************************************************)
(* The active video of a work.                                             *)
(***************************************************************************)
\* EpisodeVideoCountPlayable and MovieVideoCountPlayable count these.
PlayableOf(h) ==
    {v \in playable : link[<<h, v>>] = "live" /\ Live(v)}

\* The junctions of h that the unique index UQ_EpisodeVideo_Active or
\* UQ_MovieVideo_Active sees.
ActiveOf(h) ==
    {v \in Videos : link[<<h, v>>] = "live" /\ <<h, v>> \in active}

\* guardActiveVideo returns ErrActiveVideoLocked.
ActiveVideoLocked(v) ==
    \E h \in Holders : /\ v \in ActiveOf(h)
                       /\ Cardinality(PlayableOf(h)) > 1

PromoteAlways(v) ==
    IF Live(v) THEN {h \in Holders : link[<<h, v>>] = "live"} ELSE {}
\* The works whose junction EpisodeVideoActivePromote updates.
Promotes(v) ==
    IF Live(v)
    THEN {h \in Holders : link[<<h, v>>] = "live" /\ ActiveOf(h) = {}}
    ELSE {}

\* An encode task of v finishes and isPlayableMV holds.  The task runs on
\* when its video is trashed.
RecomputePlayable(v) ==
    /\ Exists(v) /\ v \in Encodable
    /\ playable' = playable \cup {v}
    /\ active' = active \cup (Promotes(v) \X {v})
    /\ UNCHANGED <<row, trash, older, link, default, target, jobs>>

SetActiveOnly(h, v) ==
    /\ v \in PlayableOf(h)
    /\ active' = active \cup {<<h, v>>}
    /\ UNCHANGED <<row, trash, older, link, default, target, videoVars>>
\* EpisodeVideoSetActive, MovieVideoSetActive: every live junction of the
\* work is cleared first.
SetActive(h, v) ==
    /\ v \in PlayableOf(h)
    /\ active' = (active \ ({h} \X ActiveOf(h))) \cup {<<h, v>>}
    /\ UNCHANGED <<row, trash, older, link, default, target, videoVars>>

\* ReencodeVideo, ReimportVideo (whose task ends by queueing a reencode).
ReencodeVideo(v) ==
    /\ Offered(v) /\ v \in Encodable
    /\ ~ActiveVideoLocked(v)
    /\ jobs' = jobs \cup {v}
    /\ UNCHANGED <<row, trash, older, link, active, default, target, playable>>

\* taskReencode: the renditions are torn down, Playable is cleared, Active
\* stays.  The guard is not looked at again.
TaskReencode(v) ==
    /\ v \in jobs
    /\ Exists(v)
    /\ jobs' = jobs \ {v}
    /\ playable' = playable \ {v}
    /\ UNCHANGED <<row, trash, older, link, active, default, target>>
-----------------------------------------------------------------------------
(***************************************************************************)
(* Trash: soft delete and its cascade.                                     *)
(***************************************************************************)
\* Trash rows with ID or CascadeOf among the roots.
InTrashOf(roots) == {r \in Rows : trash[r] \in roots}

LiveChildren(S) == {r \in Rows : Live(r) /\ Refers(r) \in S}

\* x and the live rows below it: editions of a work, seasons and downloads
\* of an edition.
Subtree(x) == LET below == {x} \cup LiveChildren({x})
              IN  below \cup LiveChildren(below)

EpisodesOfSeasons(S) ==
    {e \in Episodes \ S : Live(e) /\ \E n \in S \cap Seasons :
                                        link[<<n, e>>] = "live"}
\* EpisodeListOrphans, once the junctions of the seasons in S are dead.
OrphanEpisodes(S) ==
    IF S \cap Seasons = {} THEN {}
    ELSE {e \in Episodes \ S : Live(e) /\ \A n \in Seasons \ S :
                                            link[<<n, e>>] # "live"}

OrphanVideosByEpisode(S) ==
    IF S \cap (Episodes \cup MovieEditions \cup Downloads) = {} THEN {}
    ELSE {v \in Videos \ S : Live(v) /\ \A h \in Episodes \ S :
                                            link[<<h, v>>] # "live"}
\* VideoListOrphans, once the junctions of the holders in S are dead.
OrphanVideos(S) ==
    IF S \cap (Episodes \cup MovieEditions \cup Downloads) = {} THEN {}
    ELSE {v \in Videos \ S :
            /\ Live(v)
            /\ \A h \in Holders \ S : link[<<h, v>>] # "live"
            /\ ~(Source[v] \in Downloads \ S /\ Live(Source[v]))}

\* Everything that Trash(x) soft-deletes.
Cascade(x) == LET tree == Subtree(x)
                  eps  == tree \cup OrphanEpisodes(tree)
              IN  eps \cup OrphanVideos(eps)

\* renumberSeason reads every episode of the season with EpisodeGet, which
\* finds live rows only.
CanRenumber(n, lk, rw) ==
    \A e \in Episodes : lk[<<n, e>>] = "live" => rw[e] = "live"

KeepDefault(x) == default' = default
\* A default edition trashed by itself hands Slug = '' to a live sibling;
\* without one the request fails.
PassDefaultOn(x) ==
    IF x \in default
    THEN \E d \in Editions \ {x} :
           /\ Parent[d] = Parent[x] /\ Live(d)
           /\ default' = (default \ {x}) \cup {d}
    ELSE default' = default

\* Episodes are shown, and trashed, in their seasons.
Shown(x) == x \in Episodes \ StaleClicks =>
              \E n \in Seasons : Live(n) /\ link[<<n, x>>] = "live"

Trash(x) ==
    /\ Cardinality(Roots) < MaxRoots
    /\ Live(x) /\ Shown(x)
    /\ x \in Videos => ~ActiveVideoLocked(x)
    /\ x \in Movies => \E d \in default : Parent[d] = x
    /\ PassDefaultOn(x)
    /\ LET dead == Cascade(x) IN
         /\ row' = [r \in Rows |-> IF r \in dead THEN "trashed" ELSE row[r]]
         /\ trash' = [r \in Rows |-> IF r \in dead THEN x ELSE trash[r]]
         /\ link' = [l \in Links |->
                       IF link[l] = "live" /\ Ends(l) \cap dead # {}
                       THEN "dead" ELSE link[l]]
    /\ older' = older \cup (Roots \X {x})
    /\ x \in Episodes => \A n \in Seasons :
         link[<<n, x>>] = "live" => CanRenumber(n, link', row')
    /\ UNCHANGED <<active, target, videoVars>>
-----------------------------------------------------------------------------
(***************************************************************************)
(* Restore: ensureLive, ensureParentsLive, restoreRoot.                    *)
(***************************************************************************)
\* The structural parents of a row, junctions of any state included.
Above(r) ==
    IF r \in DOMAIN Parent THEN {Parent[r]}
    ELSE IF r \in Episodes THEN {n \in Seasons : link[<<n, r>>] # "none"}
    ELSE IF r \in Videos THEN {h \in Holders : link[<<h, r>>] # "none"}
    ELSE {}

OnlyRoot(x) == {x}
WithParents(S) == S \cup ({trash[p] : p \in UNION {Above(r) : r \in S}}
                            \ {NoRow})
\* The cascades ensureLive(x) brings back.  A chain of parents is at most
\* video, episode, season, edition, work.
RootsToRestore(x) ==
    WithParents(WithParents(WithParents(WithParents({x}))))

LinksOfBoth(back) ==
    {l \in Links : link[l] = "dead" /\ Ends(l) \subseteq back}
LinksOfEither(back) ==
    {l \in Links : link[l] = "dead" /\ Ends(l) \cap back # {}}
\* SeasonEpisodeRestoreByCascade and its siblings.
RestoredLinks(back) ==
    {l \in Links : /\ link[l] = "dead"
                   /\ Ends(l) \cap back # {}
                   /\ \A r \in Ends(l) : Live(r) \/ r \in back}

\* The partial unique indexes of Season and of the junctions with Active.
UniqueAfter(rw, lk) ==
    /\ \A n, m \in Seasons :
         n # m /\ Parent[n] = Parent[m] /\ Number[n] = Number[m]
         => ~(rw[n] = "live" /\ rw[m] = "live")
    /\ \A k, l \in active :
         k # l /\ k[1] = l[1] => ~(lk[k] = "live" /\ lk[l] = "live")

RowsOfRootsOnly(back) ==
    [r \in Rows |-> IF r \in back /\ trash[r] = r THEN "live" ELSE row[r]]
RowsAfter(back) ==
    [r \in Rows |-> IF r \in back THEN "live" ELSE row[r]]
LinksAfter(back) ==
    LET again == RestoredLinks(back)
    IN  [l \in Links |-> IF l \in again THEN "live" ELSE link[l]]

\* ensureLive(x) commits.
Restorable(x) ==
    LET back == InTrashOf(RootsToRestore(x))
    IN  UniqueAfter(RowsAfter(back), LinksAfter(back))

BringBack(x) ==
    LET roots == RootsToRestore(x)
        back  == InTrashOf(roots) IN
    /\ trash[x] = x
    /\ Restorable(x)
    /\ row' = RowsAfter(back)
    /\ link' = LinksAfter(back)
    /\ trash' = [r \in Rows |-> IF trash[r] \in roots THEN NoRow ELSE trash[r]]
    /\ older' = {p \in older : Ends(p) \cap roots = {}}
    /\ default' = default \ roots        \* EnsureSlug picks a slug from the label
    /\ \A e \in roots \cap Episodes, n \in Seasons :
         link[<<n, e>>] = "dead" /\ row'[n] = "live"
           => CanRenumber(n, link', row')

Restore(x) ==
    /\ BringBack(x)
    /\ UNCHANGED <<active, target, videoVars>>
-----------------------------------------------------------------------------
(***************************************************************************)
(* Purge: hard delete, by an editor or by the hourly loop.                 *)
(***************************************************************************)
\* A foreign key stops Purge(x), the rows in gone being deleted already: a
\* row outside the cascade refers to one inside it, or a download of the
\* cascade, which is deleted last, to its edition.
Blocked(x, gone) ==
    \E r \in Rows \ gone :
        /\ Exists(r)
        /\ Refers(r) \in InTrashOf({x})
        /\ r \in InTrashOf({x}) => r \in Downloads

HardDelete(roots) ==
    LET gone == InTrashOf(roots) IN
    /\ row' = [r \in Rows |-> IF r \in gone THEN "gone" ELSE row[r]]
    /\ trash' = [r \in Rows |-> IF r \in gone THEN NoRow ELSE trash[r]]
    /\ link' = [l \in Links |-> IF Ends(l) \cap gone # {} THEN "none"
                                ELSE link[l]]
    /\ active' = {l \in active : Ends(l) \cap gone = {}}
    /\ default' = default \ gone
    /\ playable' = playable \ gone
    /\ jobs' = jobs \ gone
    /\ older' = {p \in older : Ends(p) \cap roots = {}}
    /\ UNCHANGED target

Purge(x) ==
    /\ trash[x] = x
    /\ ~Blocked(x, {})
    /\ HardDelete({x})

\* trashPurge: the roots in old are past trashRetention, and with them every
\* root that was trashed before; one transaction purges them, the youngest
\* first (TrashRootsBefore is answered from Idx_Trash_DirectDeletedAt).
LoopBlocked(old) ==
    \E x \in old : Blocked(x, InTrashOf({y \in old : <<x, y>> \in older}))

PurgeTrashOnce(old) ==
    /\ old # {}
    /\ \A p \in older : p[2] \in old => p[1] \in old
    /\ ~LoopBlocked(old)
    /\ HardDelete(old)
-----------------------------------------------------------------------------
(***************************************************************************)
(* The editors.                                                            *)
(***************************************************************************)
Create(S, lk) ==
    /\ row' = [r \in Rows |-> IF r \in S THEN "live" ELSE row[r]]
    /\ link' = [l \in Links |-> IF l \in lk THEN "live" ELSE link[l]]
    /\ UNCHANGED <<trash, older, active, default, videoVars>>

SetLinks(lk, to) ==
    /\ link' = [l \in Links |-> IF l \in lk THEN to ELSE link[l]]
    /\ active' = IF to = "none" THEN active \ lk ELSE active
    /\ UNCHANGED <<row, trash, older, default, target, videoVars>>

LiveSeasons(d) == {n \in Seasons : Live(n) /\ Parent[n] = d}
NextNumber(d) == 1 + FoldSet(LAMBDA n, a : IF Number[n] > a THEN Number[n]
                                           ELSE a, 0, LiveSeasons(d))

\* SeasonAdd numbers after the live seasons; it does not look at the edition.
SeasonAdd(n) ==
    /\ row[n] = "new"
    /\ Offered(Parent[n])
    /\ Number[n] = NextNumber(Parent[n])
    /\ Create({n}, {}) /\ UNCHANGED target

SeasonEpisodeCreate(n, e) ==
    /\ Offered(n)
    /\ row[e] = "new"
    /\ Create({e}, {<<n, e>>}) /\ UNCHANGED target

SeasonEpisodeAdd(n, e) ==
    /\ Offered(n)
    /\ Live(e)
    /\ link[<<n, e>>] = "none"      \* else the primary key conflicts
    /\ SetLinks({<<n, e>>}, "live")
    /\ CanRenumber(n, link', row)

SeasonEpisodeRemove(n, e) ==
    /\ Offered(n)
    /\ link[<<n, e>>] = "live"
    /\ SetLinks({<<n, e>>}, "none")
    /\ CanRenumber(n, link', row)

\* SeasonEpisodeDeleteBySeasonID deletes every junction of the target
\* season, trashed episodes' too; only the live ones are inserted again.
LinksAfterMove(e, n, m) ==
    [l \in Links |->
       IF l = <<m, e>> THEN "live"
       ELSE IF l = <<n, e>> THEN "none"
       ELSE IF l[1] = m /\ link[l] = "dead" THEN "none" ELSE link[l]]

EpisodeMove(e, n, m) ==
    /\ Offered(n) /\ Offered(m)
    /\ Parent[n] = Parent[m]
    /\ link[<<n, e>>] = "live"
    /\ n # m => link[<<m, e>>] # "live"     \* else the key is inserted twice
    /\ link' = LinksAfterMove(e, n, m)
    /\ CanRenumber(n, link', row) /\ CanRenumber(m, link', row)
    /\ UNCHANGED <<row, trash, older, active, default, target, videoVars>>

\* VideoUploadCreate of bytes no live video has.
VideoUploadCreate(v, h) ==
    /\ row[v] = "new" /\ Source[v] = NoRow
    /\ Offered(h)
    /\ Create({v}, {<<h, v>>}) /\ UNCHANGED target

\* EpisodeVideoSet, from the page of the download, which lists the trashed
\* videos of a live download too (VideoListByInfoHash).
Attach(e, v) ==
    /\ Source[v] \in Downloads /\ Offered(Source[v])
    /\ Exists(v)
    /\ Offered(e)
    /\ link[<<e, v>>] = "none"      \* INSERT OR IGNORE
    /\ SetLinks({<<e, v>>}, "live")

Detach(e, v) ==
    /\ Source[v] \in Downloads /\ Offered(Source[v])
    /\ Exists(v)
    /\ link[<<e, v>>] # "none"
    /\ SetLinks({<<e, v>>}, "none")

\* A torrent is added to an edition.  A trashed one is restored instead and
\* aimed at the edition.
DownloadCreate(d, ed) ==
    /\ Offered(ed)
    /\ target' = [target EXCEPT ![d] = ed]
    /\ \/ /\ row[d] = "new"
          /\ Create({d} \cup {v \in Videos : Source[v] = d}, {})
       \/ /\ row[d] = "trashed"
          /\ BringBack(d)
          /\ UNCHANGED <<active, videoVars>>

\* MovieEditionSetDefault.
SetDefault(d) ==
    /\ Offered(d)
    /\ d \notin default
    /\ \E old \in default : /\ Parent[old] = Parent[d]
                            /\ default' = (default \ {old}) \cup {d}
    /\ UNCHANGED <<row, trash, older, link, active, target, videoVars>>

CollectionAdd(c, w) ==
    /\ Offered(c) /\ Offered(w)
    /\ link[<<c, w>>] = "none"
    /\ SetLinks({<<c, w>>}, "live")

CollectionRemove(c, w) ==
    /\ Offered(c)
    /\ link[<<c, w>>] # "none"
    /\ SetLinks({<<c, w>>}, "none")
-----------------------------------------------------------------------------
TrashActions ==
    \/ \E x \in Rows : Trash(x) \/ Restore(x) \/ Purge(x)
    \/ \E old \in SUBSET Roots : PurgeTrashOnce(old)

VideoActions ==
    \/ \E v \in Videos : \/ RecomputePlayable(v)
                         \/ ReencodeVideo(v)
                         \/ TaskReencode(v)
    \/ \E h \in Holders, v \in Videos : \/ SetActive(h, v)
                                        \/ VideoUploadCreate(v, h)
    \/ \E e \in Episodes, v \in Videos : Attach(e, v) \/ Detach(e, v)
    \/ \E d \in Downloads, ed \in Editions : DownloadCreate(d, ed)

EditorActions ==
    \/ \E n \in Seasons : SeasonAdd(n)
    \/ \E n \in Seasons, e \in Episodes : \/ SeasonEpisodeCreate(n, e)
                                          \/ SeasonEpisodeAdd(n, e)
                                          \/ SeasonEpisodeRemove(n, e)
    \/ \E e \in Episodes, n, m \in Seasons : EpisodeMove(e, n, m)
    \/ \E d \in MovieEditions : SetDefault(d)
    \/ \E c \in Collections, w \in Works : \/ CollectionAdd(c, w)
                                           \/ CollectionRemove(c, w)

Next == TrashActions \/ VideoActions \/ EditorActions

Spec == Init /\ [][Next]_vars
=============================================================================
