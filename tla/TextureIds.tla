------------------------------ MODULE TextureIds ------------------------------
(***************************************************************************)
(* SyntheticTextureIds of viewer/synthetic_texture_ids.h: an id for every  *)
(* CPU-made texture, derived from its identity's hash, the next free one   *)
(* when two hashes meet.  Ids count down from kFirst and wrap at kLast;    *)
(* here they are the distances 0..Span-1 from kFirst.  Each call is one    *)
(* step, as it runs under the registry's mutex.                            *)
(***************************************************************************)
EXTENDS Integers

CONSTANTS Keys, Span, Hash

\* The ids span a range and a hash is one of them: what the theorems assume.
SpanAssumption == Span \in Nat \ {0} /\ Hash \in [Keys -> 0..Span - 1]

VARIABLES ids,      \* key -> id
          owners    \* id -> key

vars == <<ids, owners>>
Ids == 0..Span - 1

TypeOK ==
    /\ DOMAIN ids \subseteq Keys /\ ids \in [DOMAIN ids -> Ids]
    /\ DOMAIN owners \subseteq Ids /\ owners \in [DOMAIN owners -> Keys]

Init == ids = [k \in {} |-> 0] /\ owners = [i \in {} |-> 0]

\* The candidate d steps after the one the hash gives.
Candidate(k, d) == (Hash[k] + d) % Span

\* The walk ends at the first candidate nobody owns.
Probed(k, d) ==
    /\ Candidate(k, d) \notin DOMAIN owners
    /\ \A e \in 0..d - 1 : Candidate(k, e) \in DOMAIN owners

With(f, x, y) == [z \in DOMAIN f \cup {x} |-> IF z = x THEN y ELSE f[z]]

New(k) == k \notin DOMAIN ids

IdFor(k) ==
    /\ New(k)
    /\ \E d \in Ids :
         /\ Probed(k, d)
         /\ ids' = With(ids, k, Candidate(k, d))
         /\ owners' = With(owners, Candidate(k, d), k)

Next == \E k \in Keys : IdFor(k)

Spec == Init /\ [][Next]_vars

-----------------------------------------------------------------------------
\* 18, "without ever aliasing two keys": both directions are one and the same
\* relation, so no two textures have one id.
NeverAliased ==
    /\ \A k \in DOMAIN ids : ids[k] \in DOMAIN owners /\ owners[ids[k]] = k
    /\ \A i \in DOMAIN owners : owners[i] \in DOMAIN ids /\ ids[owners[i]] = i

\* An id once given is its texture's for good, whatever comes after: the GPU cache
\* may still hold the earlier view.
IdsKept == [][\A k \in DOMAIN ids : k \in DOMAIN ids' /\ ids'[k] = ids[k]]_vars
=============================================================================
