------------------------------ MODULE MCLibrary ------------------------------
(***************************************************************************)
(* Small libraries for TLC, each with some of the rows: a series with one  *)
(* edition, seasons, episodes, a video and its download; and a movie with  *)
(* two editions, videos and a collection.                                  *)
(***************************************************************************)
EXTENDS LibraryProps

CONSTANTS s1, d1, n1, n2, n3, e1, e2, v0, l1, c1, m1, a1, a2, v1, v2

MCParent == [x \in Editions \cup Seasons |->
               IF x = d1 THEN s1 ELSE IF x \in {a1, a2} THEN m1 ELSE d1]
MCSource == [x \in Videos |-> IF x = v0 /\ l1 \in Downloads THEN l1 ELSE NoRow]
\* n2 takes the number of n1, n3 is a later season.
MCNumber == [x \in Seasons |-> IF x = n3 THEN 2 ELSE 1]
MCTarget == [x \in Downloads |-> d1]
SeriesRows == Rows \ {m1, a1, a2, v1, v2, c1}
MCClicks == SeriesRows

AnEpisode == {<<n1, e1>>, <<e1, v0>>}
Library(rows, links, defaults) ==
    [rows |-> rows \cap Rows, links |-> links, defaults |-> defaults,
     later |-> (IF s1 \in rows THEN SeriesRows ELSE Rows \ SeriesRows) \ rows]

\* One season with one episode; e2 and n3 or n2 are yet to come.
OneSeason == Library({s1, d1, n1, e1, v0, l1}, AnEpisode, {d1})
TwoEpisodes == Library({s1, d1, n1, e1, e2, v0, l1}, AnEpisode \cup {<<n1, e2>>}, {d1})
\* a1 is the default edition; both show v2; v1 is yet to be uploaded.
OneMovie == Library({m1, a1, a2, v2, c1},
                    {<<a1, v2>>, <<a2, v2>>, <<c1, m1>>}, {a1})

SeriesAndMovie == {OneSeason, OneMovie}
OnlySeries == {OneSeason}
=============================================================================
