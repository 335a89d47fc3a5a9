------------------------------ MODULE MCReadSide ------------------------------
(* A mesh call and a texture call, a call on another level that looks its mesh up *)
(* itself, and a thread of another pool.  "denied" cannot be opened: the mesh     *)
(* "tower" needs it too, the texture "paint" has its second chunk elsewhere.  The *)
(* default limit is taken up by the rest of the process, so the first reader of   *)
(* any pool raises it; two handles fit then, for three threads that read.         *)
EXTENDS ReadSide, TLC

Alike == Permutations(Workers)

MCLevelOf == [a |-> "dumbo", x |-> NoLevel, s |-> "abbasid"]
MCItemsOf == [a |-> {"crate", "tower"}, x |-> {"paint"}, s |-> {"crate", "tower"}]
MCPlaced == [abbasid |-> {"crate"}, dumbo |-> {"crate", "tower"}]
MCPlan == [crate |-> <<"base">>, tower |-> <<"base", "denied">>, paint |-> <<"denied", "base">>]
=============================================================================
