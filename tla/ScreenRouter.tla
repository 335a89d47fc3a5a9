------------------------------ MODULE ScreenRouter ------------------------------
(***************************************************************************)
(* The stack of front-end screens (ui_runtime/screen_router.cpp), as the   *)
(* viewer's worker calls it: `ok' is what the last call returned.  The     *)
(* path must be listed and its document come from a ScreenSource, which    *)
(* may fail.  Focus, explicit state, tabs and the policy's Back are not    *)
(* used by these routes and left out.                                      *)
(***************************************************************************)
EXTENDS Sequences, SequencesExt

VARIABLES stack, ok

Init == stack = <<>> /\ ok = TRUE

Succeeds(s) == stack' = s /\ ok' = TRUE
Fails == ok' = FALSE /\ UNCHANGED stack

\* load_frame succeeds or not.
Push(p) == Succeeds(Append(stack, p)) \/ Fails

Replaced(p) == IF stack = <<>> THEN <<p>> ELSE Append(Front(stack), p)
Replace(p) == Succeeds(Replaced(p)) \/ Fails

Pop == IF Len(stack) > 1 THEN Succeeds(Front(stack)) ELSE Fails
=============================================================================
