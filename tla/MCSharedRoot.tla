----------------------------- MODULE MCSharedRoot -----------------------------
(***************************************************************************)
(* SharedRoot under the uses the game's players keep to, and under all.    *)
(***************************************************************************)
EXTENDS SharedRoot

CareUses == {OneBuilds, TakingTurns}
FreeUses == {Together}
=============================================================================
