----------------------------- MODULE LibraryProps -----------------------------
(***************************************************************************)
(* What the media library of Library.tla promises, or is said to promise.  *)
(***************************************************************************)
EXTENDS Library

\* Every variable has the type its declaration gives.
TypeOK ==
    /\ row \in [Rows -> {"new", "live", "trashed", "gone"}]
    /\ trash \in [Rows -> Rows \cup {NoRow}]
    /\ older \in SUBSET (Rows \X Rows)
    /\ link \in [Links -> {"none", "live", "dead"}]
    /\ active \in SUBSET (Holders \X Videos)
    /\ default \in SUBSET Editions
    /\ target \in [Downloads -> Editions]
    /\ playable \in SUBSET Videos
    /\ jobs \in SUBSET Videos

\* The Trash table mirrors the DeletedAt columns, two records of one fact
\* that every cascade writes row by row: a row has an entry exactly when it
\* is soft-deleted, an entry leads to a root that was trashed directly, and
\* no two roots are of one age.
TrashMirrorsRows ==
    /\ \A r \in Rows : trash[r] # NoRow <=> row[r] = "trashed"
    /\ \A r \in Rows : trash[r] # NoRow => trash[trash[r]] = trash[r]
    /\ \A p \in older : Ends(p) \subseteq Roots
    /\ \A x, y \in Roots : x # y => (<<x, y>> \in older <=> <<y, x>> \notin older)

\* Nothing is lost on the way back from the trash: a junction stays
\* soft-deleted only as long as one of its ends is in the trash, so when
\* everything has been restored every junction shows again, in whatever
\* order the items were trashed and restored.
NothingLost ==
    \A l \in Links : link[l] = "dead" => \E r \in Ends(l) : row[r] = "trashed"

\* Every live work has exactly one live default edition, the one its page
\* shows, whatever editions were trashed and restored.
OneDefaultEdition ==
    \A w \in Works : Live(w) =>
        Cardinality({d \in default : Parent[d] = w /\ Live(d)}) = 1

\* No work has two live active videos.  The unique indexes would refuse the
\* second: promotion, SetActive and the junction changes never run into
\* them.  (Restore does: see TrashCanBeRestored.)
OneActiveVideo ==
    \A h \in Holders : Cardinality(ActiveOf(h)) <= 1

\* A cascade leaves no page with a junction to a row it took, and a restore
\* revives no junction whose other end is still in the trash.  (Attach may
\* name a trashed video: the links of videos are left out.)
NoDanglingJunction ==
    [][\A l \in Links :
          /\ l[2] \notin Videos
          /\ link'[l] = "live"
          /\ \/ link[l] = "dead" /\ Roots' # Roots
             \/ \E r \in Ends(l) : Live(r) /\ row'[r] = "trashed"
          => \A r \in Ends(l) : row'[r] = "live"]_vars

\* Trashing takes everything below along, and restoring pulls the ancestors
\* up: neither leaves a live row under a trashed parent.
ParentsStayAbove ==
    [][\A r \in DOMAIN Parent :
          /\ row'[r] = "live" /\ row[r] # "new"
          /\ row'[r] # row[r] \/ row'[Parent[r]] # row[Parent[r]]
          => row'[Parent[r]] = "live"]_vars

\* A cascade reaps an episode or a video only when it takes every season or
\* work that still shows it, and the download whose file the video is: what
\* another edition shares is spared, and so is what may yet be attached.
SharedIsSpared ==
    [][\A r \in Episodes \cup Videos :
          Live(r) /\ row'[r] = "trashed" /\ trash'[r] # r
          => /\ \A l \in Links :
                  link[l] = "live" /\ l[2] = r => row'[l[1]] = "trashed"
             /\ r \in Videos /\ Source[r] \in Downloads
                  => row'[Source[r]] # "live"]_vars

-----------------------------------------------------------------------------
(***************************************************************************)
(* Statements of the comments that the code does not keep.                 *)
(***************************************************************************)
\* "Purge hard-deletes a trashed item and all rows in its cascade subtree"
\* (model/trash.go): every item the trash page lists can be purged.
TrashCanBePurged ==
    \A r \in Rows : trash[r] = r => ~Blocked(r, {})

\* "Restore un-trashes a directly-trashed item" (model/trash.go): every item
\* the trash page lists can be restored.
TrashCanBeRestored ==
    \A r \in Rows : trash[r] = r => Restorable(r)

\* "Restore un-trashes a directly-trashed item, restoring any trashed
\* structural ancestors first so it's reachable" (model/trash.go): the
\* episode is in a live season again.
RestoreReaches ==
    [][\A e \in Episodes :
          trash[e] = e /\ row'[e] = "live"
          => \E n \in Seasons : row'[n] = "live" /\ link'[<<n, e>>] = "live"]_vars
=============================================================================
