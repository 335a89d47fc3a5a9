---------------------------- MODULE ArchiveHandles ----------------------------
(***************************************************************************)
(* The archive handles of cas.cpp.  Each thread keeps a handle per archive *)
(* until it ends; the C runtime's stdio slots are one limited supply for   *)
(* all of them, raised when it runs out.  A reader names archives in the   *)
(* order it tries them: a mesh needs all of its pieces, a texture the      *)
(* first of its chunks that gives bytes.                                   *)
(***************************************************************************)
EXTENDS Naturals, Sequences, FiniteSets

CONSTANTS Threads, Archives,
          Gone,          \* archives that are missing or denied
          DefaultSlots, RaisedSlots

VARIABLES limit,     \* _getmaxstdio
          open,      \* the archives each thread holds a handle of
          nulls,     \* those it remembers as not to be opened
          left,      \* the archives each thread has still to read, <<>> between records
          all,       \* whether it needs all of them
          retrying,  \* it was refused a slot and raised the limit
          served     \* the archive its record came from, or "none"

vars == <<limit, open, nulls, left, all, retrying, served>>

Init ==
    /\ limit = DefaultSlots
    /\ open = [t \in Threads |-> {}] /\ nulls = [t \in Threads |-> {}]
    /\ left = [t \in Threads |-> <<>>] /\ all = [t \in Threads |-> FALSE]
    /\ retrying = [t \in Threads |-> FALSE] /\ served = [t \in Threads |-> "none"]

Handles == {h \in Threads \X Archives : h[2] \in open[h[1]]}
SlotsUsed == Cardinality(Handles)
SlotFree == SlotsUsed < limit

Begin(t, archives, needed) ==
    /\ left[t] = <<>>
    /\ left' = [left EXCEPT ![t] = archives] /\ all' = [all EXCEPT ![t] = needed]
    /\ UNCHANGED <<limit, open, nulls, retrying, served>>

\* The read gives bytes: enough, unless all are needed.
Serves(t) ==
    /\ served' = [served EXCEPT ![t] = Head(left[t])]
    /\ left' = [left EXCEPT ![t] = IF all[t] THEN Tail(@) ELSE <<>>]
    /\ retrying' = [retrying EXCEPT ![t] = FALSE] /\ UNCHANGED all
\* The read gives none: the next is tried, unless all are needed.
Passes(t) ==
    /\ left' = [left EXCEPT ![t] = IF all[t] THEN <<>> ELSE Tail(@)]
    /\ served' = [served EXCEPT ![t] = "none"]
    /\ retrying' = [retrying EXCEPT ![t] = FALSE] /\ UNCHANGED all

\* The record is handed on.
Ends(t) ==
    /\ left[t] = <<>> /\ served' = [served EXCEPT ![t] = "none"]
    /\ UNCHANGED <<limit, open, nulls, left, all, retrying>>

Known(t) ==
    /\ left[t] # <<>> /\ ~retrying[t]
    /\ \/ Head(left[t]) \in open[t] /\ Serves(t)
       \/ Head(left[t]) \in nulls[t] /\ Passes(t)
    /\ UNCHANGED <<limit, open, nulls>>

\* fopen with a slot: a handle, or an archive that really cannot be opened.
Opens(t) ==
    LET a == Head(left[t])
    IN /\ SlotFree
       /\ IF a \in Gone
            THEN nulls' = [nulls EXCEPT ![t] = @ \cup {a}] /\ Passes(t) /\ UNCHANGED open
            ELSE open' = [open EXCEPT ![t] = @ \cup {a}] /\ Serves(t) /\ UNCHANGED nulls
       /\ UNCHANGED limit

Unopened(t) == left[t] # <<>> /\ Head(left[t]) \notin open[t] \cup nulls[t]

Open(t) == Unopened(t) /\ ~retrying[t] /\ Opens(t)

\* EMFILE: the limit is raised before the second attempt.
Raise == IF limit < RaisedSlots THEN RaisedSlots ELSE limit
Refused(t) ==
    /\ Unopened(t) /\ ~retrying[t] /\ ~SlotFree
    /\ limit' = Raise /\ retrying' = [retrying EXCEPT ![t] = TRUE]
    /\ UNCHANGED <<open, nulls, left, all, served>>

Retry(t) == Unopened(t) /\ retrying[t] /\ Opens(t)

\* EMFILE again: the read fails, nothing is remembered, and the next read tries again.
AfterRefusal_Missing(t) == [nulls EXCEPT ![t] = @ \cup {Head(left[t])}]
AfterRefusal(t) == nulls
RefusedAgain(t) ==
    /\ Unopened(t) /\ retrying[t] /\ ~SlotFree
    /\ nulls' = AfterRefusal(t)
    /\ Passes(t) /\ UNCHANGED <<limit, open>>

\* A thread of another pool ends, its handles are closed, and one like it begins.
Exit(t) ==
    /\ left[t] = <<>> /\ open' = [open EXCEPT ![t] = {}] /\ nulls' = [nulls EXCEPT ![t] = {}]
    /\ UNCHANGED <<limit, left, all, retrying, served>>

\* A read in progress.
Read(t) == Known(t) \/ Open(t) \/ Refused(t) \/ Retry(t) \/ RefusedAgain(t)
=============================================================================
