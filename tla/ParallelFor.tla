------------------------------ MODULE ParallelFor ------------------------------
(***************************************************************************)
(* parallel_for of terrain_mesh.cpp and of decal_draws.cpp: the caller and *)
(* its threads claim indices from one atomic counter until it has passed   *)
(* count, and the caller joins the threads.                                *)
(***************************************************************************)
EXTENDS Integers

CONSTANTS Count,
          Threads,     \* the threads made, beside the caller
          Caller

\* What the theorems assume.
ForAssumption == Count \in Nat /\ Caller \notin Threads

VARIABLES next,        \* the atomic counter
          pc,          \* per runner: "off" before its start, "claim", "in", "out"
          mine,        \* the index it claimed last
          runs,        \* how often each index was run
          returned     \* parallel_for returned

vars == <<next, pc, mine, runs, returned>>
Runners == Threads \cup {Caller}
Indices == 0..Count - 1

TypeOK ==
    /\ next \in Nat /\ runs \in [Indices -> Nat] /\ returned \in BOOLEAN
    /\ pc \in [Runners -> {"off", "claim", "in", "out"}] /\ mine \in [Runners -> Nat]
    /\ \A w \in Runners : pc[w] = "in" => mine[w] \in Indices

Init ==
    /\ next = 0 /\ pc = [w \in Runners |-> "off"] /\ mine = [w \in Runners |-> 0]
    /\ runs = [i \in Indices |-> 0] /\ returned = FALSE

\* The caller makes the threads one by one and then runs with them.
Spawn(w) ==
    /\ pc[w] = "off"
    /\ w = Caller => \A t \in Threads : pc[t] # "off"
    /\ pc' = [pc EXCEPT ![w] = "claim"]
    /\ UNCHANGED <<next, mine, runs, returned>>

\* One fetch-and-add.
Advanced == next + 1
InRange == next < Count

Claim(w) ==
    /\ pc[w] = "claim"
    /\ pc' = [pc EXCEPT ![w] = IF InRange THEN "in" ELSE "out"]
    /\ mine' = [mine EXCEPT ![w] = next] /\ next' = Advanced
    /\ UNCHANGED <<runs, returned>>

\* fn(i), and back to the counter.
Run(w) ==
    /\ pc[w] = "in" /\ mine[w] \in Indices
    /\ runs' = [runs EXCEPT ![mine[w]] = @ + 1]
    /\ pc' = [pc EXCEPT ![w] = "claim"]
    /\ UNCHANGED <<next, mine, returned>>

Joined == \A w \in Runners : pc[w] = "out"

Return ==
    /\ ~returned /\ Joined /\ returned' = TRUE
    /\ UNCHANGED <<next, pc, mine, runs>>

Next == Return \/ \E w \in Runners : Spawn(w) \/ Claim(w) \/ Run(w)

Spec == Init /\ [][Next]_vars

-----------------------------------------------------------------------------
\* No index is run by two runners, or twice by one: they write what belongs to it
\* without a lock.
RunOnce == \A i \in Indices : runs[i] <= 1

\* When parallel_for returns every index has been run and nobody is in one: the
\* caller's locals may go.
AllRunAtReturn == returned =>
    /\ \A i \in Indices : runs[i] = 1
    /\ \A w \in Runners : pc[w] = "out"
=============================================================================
