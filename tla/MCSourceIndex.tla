----------------------------- MODULE MCSourceIndex -----------------------------
(* Two TOCs, one of them twice in a list; the second may be missing at first, and *)
(* a patch of it brings a name the first lists too and a guid for the second time. *)
(* Either process leaves files for the other; one of them asks for the index.     *)
EXTENDS SourceIndex, TLC

CONSTANTS a, b, p1, p2, g1, g2, w1, w2

MCListed == a :> <<{1}>> @@ b :> <<{2}, {1, 3}>>
MCLists == {<<a>>, <<a, b, a>>}
MCGuid == <<g1, g2, g1>>
Symmetry == Permutations({w1, w2})
=============================================================================
