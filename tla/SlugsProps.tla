------------------------------ MODULE SlugsProps ------------------------------
(***************************************************************************)
(* What the addresses of Slugs.tla promise.                                *)
(***************************************************************************)
EXTENDS Slugs

\* Every variable keeps its type.
TypeOK ==
    /\ row \in [Rows -> {"new", "live", "trashed", "gone"}]
    /\ trash \in [Rows -> Rows \cup {NoRow}]
    /\ title \in [Titled -> Titles]
    /\ label \in [Editions -> Labels]
    /\ slug \in [Rows -> Slugs \cup EditionSlugs \cup {""}]
    /\ \A d \in Editions : slug[d] \in EditionSlugs \cup {""}
    /\ names \in [Slugs -> Owners \cup {NoRow}]
    /\ buried \subseteq Slugs
    /\ tombs \in [Works \X EditionSlugs -> Editions \cup {NoRow}]

\* What can be visited: the live editions and collections.
Pages == {x \in Editions \cup Collections : Live(x)}

\* Every page has one address, and it leads back to the page: the table
\* Slug, the columns Slug and the tombstones, which are written by every
\* operation in turn, agree, whatever was renamed, trashed and restored.
AddressLeadsHome ==
    \A x \in Pages : \E p \in SlugPath(x) : /\ SlugPath(x) = {p}
                                            /\ SlugResolve(p) = x

\* Nothing that is not there holds a name: a slug is not kept from others
\* by a row in the trash, nor for ever by one that was purged.
NamesAreLive == \A s \in Slugs : names[s] # NoRow => Live(names[s])

\* What is in the trash can come back: the slugs it still holds, and those
\* it is given, never run into the unique indexes.
TrashFits == \A x \in Rows : trash[x] = x => Restorable(x)

\* The addresses of the library are true, after every sequence of renames,
\* trashing and restores: the three above, which lean on one another.
AddressesAreTrue == AddressLeadsHome /\ NamesAreLive /\ TrashFits

\* "Slugs resolve through tombstones" (model/slug.go): an address that led
\* to a page leads to it as long as the page is there, unless another one
\* has taken the slug: an owner that of the work, an edition of the work
\* that of the edition, if only on its way to the trash.
OldAddressesLead ==
    [][\A s \in {n \in Slugs : names[n] # NoRow}, e \in EditionSlugs \cup {""} :
         LET x == SlugResolve(<<s, e>>) IN
         x # NoRow /\ x \in Pages' =>
            \/ SlugResolve(<<s, e>>)' = x
            \/ names'[s] # names[s] /\ s \notin buried'
            \/ \E y \in Editions \ {x} :
                  /\ Parent[y] = Parent[x]
                  /\ slug'[y] = e
                  /\ (y \in Pages') \/ slug[y] # e]_vars
=============================================================================
