------------------------------- MODULE MCSlugs -------------------------------
(***************************************************************************)
(* Two libraries.  A movie with three editions, whose labels may be equal; *)
(* and a movie with two editions beside a collection, which may have one   *)
(* title, or none.  A series goes the way of the movie, with the title in  *)
(* a column of its own, like the collection.                               *)
(***************************************************************************)
EXTENDS SlugsProps, TLC

CONSTANTS m1, a1, a2, a3, m2, b1, b2, c1

MCParent == [d \in Editions |-> IF d \in {a1, a2, a3} THEN m1 ELSE m2]
MCLibraries == {{m1, a1, a2, a3}, {m2, b1, b2, c1}}
MCTitles == {"", "Up"}
MCTitlesOf == [r \in Titled |-> IF r \in {a1, a2, a3} THEN {"Up"} ELSE MCTitles]
MCLabels == {"Default Edition", "Copy"}
MCCopyOf == [lb \in MCLabels |-> "Copy"]
MCTitleSlugs ==
    [k \in Owners \X MCTitles |->
       CASE k = <<m1, "">> -> <<"mo1">>
         [] k = <<m2, "">> -> <<"mo2">>
         [] k = <<c1, "">> -> <<"collection">>
         [] k = <<m1, "Up">> -> <<"up", "up-mo1">>
         [] k = <<m2, "Up">> -> <<"up", "up-mo2">>
         [] k = <<c1, "Up">> -> <<"up", "up-2">>]
MCLabelSlugs ==
    [lb \in MCLabels |->
       IF lb = "Copy" THEN <<"", "copy", "copy-2", "copy-3">>
       ELSE <<"", "default-edition", "default-edition-2", "default-edition-3">>]
MCSlugs == {"mo1", "mo2", "collection", "up", "up-2", "up-mo1", "up-mo2"}
MCEditionSlugs == {MCLabelSlugs[lb][i] : lb \in MCLabels, i \in 2..4}
Symmetry == Permutations({a1, a2, a3}) \cup Permutations({b1, b2})
=============================================================================
