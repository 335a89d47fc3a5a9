-------------------------- MODULE SelfTestBuild_proofs --------------------------
(***************************************************************************)
(* The build that runs levels at once, for any levels and layers, pool     *)
(* size and number of builds, with failures, cancels and restarts at any   *)
(* step: what is marked complete is served, and what is installed was      *)
(* marked.  The tasks share one store, so the strengthening says of each   *)
(* task what the store owes it: the layers behind it are known to the      *)
(* store, and what the store knows is durable before the task marks.       *)
(***************************************************************************)
EXTENDS SelfTestBuild, FiniteSetTheorems, TLAPS

Owners == {"off", "submit", "wait", "flush", "verdict"}
States == {"idle", "running", "cancelling", "failed", "done"}

Typed ==
    /\ durable \subseteq Layers /\ known \subseteq Layers
    /\ complete \subseteq Levels /\ installed \subseteq Levels /\ lost \subseteq Levels
    /\ broken \in BOOLEAN /\ cancel \in BOOLEAN /\ failed \in BOOLEAN
    /\ owner \in Owners /\ state \in States
    /\ task \in [Levels -> Inside \cup {"none", "queued", "over"}]
    /\ at \in [Levels -> Layers]

\* Nothing is lost to the store's handle that is on disk.
DurableKnown == durable \subseteq known

\* The layers a task has put behind it are stored and have their packs.
Behind(l, i) == i \in known /\ <<l, i>> \in packs
TasksKeepUp ==
    \A l \in Levels :
        /\ task[l] \in {"none", "queued"} => at[l] = 1
        /\ task[l] \in {"layer", "finish"} => \A i \in 1..at[l] - 1 : Behind(l, i)
        /\ task[l] = "finish" => at[l] \in known
        /\ task[l] \in {"flush", "mark"} => \A i \in Layers : Behind(l, i)
        /\ task[l] = "mark" => Layers \subseteq durable

\* A level whose task is over is complete, or somebody knows why it is not.
OverIsTold ==
    /\ \A l \in Levels : task[l] = "over" => failed \/ l \in complete \cup lost
    /\ owner \in {"flush", "verdict"} => \A l \in Levels : task[l] = "over"

IInv ==
    /\ Typed
    /\ DurableKnown
    /\ TasksKeepUp
    /\ OverIsTold
    /\ CompleteIsServed
    /\ InstallMeansComplete

-----------------------------------------------------------------------------
USE BuildAssumption DEF Inside, Owners, States, disk, store

\* The layers are numbered from 1, and there is one.
LEMMA Numbers ==
    /\ Cardinality(Layers) \in Nat /\ 1 \in Layers /\ Cardinality(Layers) \in Layers
    /\ \A i : i \in Layers <=> i \in Nat /\ 1 <= i /\ i <= Cardinality(Layers)
  <1>1. Cardinality(Layers) \in Nat
        BY FS_CardinalityType
  <1>2. \A i : i \in Layers <=> i \in 1..Cardinality(Layers)
        OBVIOUS
  <1> QED BY <1>1, <1>2

LEMMA Initially == Init => IInv
  <1> USE Numbers DEF Init, NoTasks
  <1> QED BY DEF IInv, Typed, DurableKnown, TasksKeepUp, OverIsTold, CompleteIsServed,
                 InstallMeansComplete

\* A build starts over: no task owes anything yet.
LEMMA StartStep == ASSUME IInv, Start PROVE IInv'
  <1> USE Numbers DEF Start, NewTasks
  <1>1. Typed' /\ DurableKnown' /\ OverIsTold'
        BY DEF IInv, Typed, DurableKnown, OverIsTold
  <1>2. TasksKeepUp'
        BY DEF TasksKeepUp
  <1>3. CompleteIsServed' /\ InstallMeansComplete'
        BY DEF IInv, CompleteIsServed, InstallMeansComplete
  <1> QED BY <1>1, <1>2, <1>3 DEF IInv

LEMMA CancelStep == ASSUME IInv, Cancel PROVE IInv'
  BY DEF Cancel, IInv, Typed, DurableKnown, TasksKeepUp, Behind, OverIsTold, CompleteIsServed,
         InstallMeansComplete

\* The store is opened again as it is on disk, so it knows what is durable.
LEMMA RestartStep == ASSUME IInv, Restart PROVE IInv'
  <1> USE Numbers DEF Restart, NewTasks
  <1>1. Typed' /\ DurableKnown' /\ OverIsTold'
        BY DEF IInv, Typed, DurableKnown, OverIsTold
  <1>2. TasksKeepUp'
        BY DEF TasksKeepUp
  <1>3. CompleteIsServed' /\ InstallMeansComplete'
        BY DEF IInv, CompleteIsServed, InstallMeansComplete
  <1> QED BY <1>1, <1>2, <1>3 DEF IInv

\* Submitting, waiting, the last flush and the verdict.
LEMMA OwnerStep == ASSUME IInv, Owner PROVE IInv'
  <1>1. ASSUME NEW l \in Levels, Look(l) PROVE IInv'
    <2> USE <1>1 DEF Look
    <2>1. Typed' /\ DurableKnown' /\ TasksKeepUp'
          BY DEF IInv, Typed, DurableKnown, TasksKeepUp, Behind
    <2>2. OverIsTold'
          BY DEF IInv, Typed, OverIsTold
    <2>3. CompleteIsServed' /\ InstallMeansComplete'
          BY DEF IInv, CompleteIsServed, InstallMeansComplete
    <2> QED BY <2>1, <2>2, <2>3 DEF IInv
  <1>2. CASE Submitted
        BY <1>2 DEF Submitted, IInv, Typed, DurableKnown, TasksKeepUp, Behind, OverIsTold,
                    CompleteIsServed, InstallMeansComplete
  <1>3. CASE AllOver
        BY <1>3 DEF AllOver, Waited, IInv, Typed, DurableKnown, TasksKeepUp, Behind, OverIsTold,
                    CompleteIsServed, InstallMeansComplete
  <1>4. CASE LastFlush
    <2> USE <1>4 DEF LastFlush, FlushFails, WriteFails
    <2>1. Typed' /\ DurableKnown' /\ durable \subseteq durable'
          BY DEF IInv, Typed, DurableKnown
    <2>2. TasksKeepUp' /\ OverIsTold'
          BY <2>1 DEF IInv, TasksKeepUp, Behind, OverIsTold
    <2>3. CompleteIsServed' /\ InstallMeansComplete'
          BY <2>1 DEF IInv, CompleteIsServed, InstallMeansComplete
    <2> QED BY <2>1, <2>2, <2>3 DEF IInv
  <1>5. CASE Verdict
    <2> USE <1>5 DEF Verdict, Says
    <2>1. Typed' /\ DurableKnown' /\ TasksKeepUp' /\ OverIsTold' /\ CompleteIsServed'
          BY DEF IInv, Typed, DurableKnown, TasksKeepUp, Behind, OverIsTold, CompleteIsServed
    <2>2. ~failed => complete \cup lost = Levels
          BY DEF IInv, Typed, OverIsTold
    <2>3. InstallMeansComplete'
          BY <2>2 DEF IInv, InstallMeansComplete
    <2> QED BY <2>1, <2>3 DEF IInv
  <1> QED BY <1>1, <1>2, <1>3, <1>4, <1>5 DEF Owner

-----------------------------------------------------------------------------
\* A task that ends without having marked its level has said so; what the others are
\* owed is untouched.
LEMMA EndsStep ==
    ASSUME IInv, NEW l \in Levels, task[l] \in Inside \cup {"queued"},
           task' = [task EXCEPT ![l] = "over"], failed' \/ l \in lost', failed => failed',
           failed' \in BOOLEAN, broken' \in BOOLEAN, lost \subseteq lost', lost' \subseteq Levels,
           durable \subseteq durable', durable' \subseteq durable \cup known,
           UNCHANGED <<packs, complete, installed, known, owner, at, cancel, state>>
    PROVE  IInv'
  <1>1. Typed' /\ DurableKnown'
        BY DEF IInv, Typed, DurableKnown
  <1>2. TasksKeepUp'
        BY DEF IInv, Typed, TasksKeepUp, Behind
  <1>3. OverIsTold'
        BY DEF IInv, Typed, OverIsTold
  <1>4. CompleteIsServed' /\ InstallMeansComplete'
        BY DEF IInv, Typed, CompleteIsServed, InstallMeansComplete
  <1> QED BY <1>1, <1>2, <1>3, <1>4 DEF IInv

LEMMA TakeStep == ASSUME IInv, NEW l \in Levels, Take(l) PROVE IInv'
  <1> USE Numbers DEF Take, Admits
  <1>1. CASE cancel
        BY <1>1, EndsStep DEF GivesUp, IInv, Typed
  <1>2. CASE ~cancel
    <2> USE <1>2
    <2>1. Typed' /\ DurableKnown' /\ OverIsTold'
          BY DEF IInv, Typed, DurableKnown, OverIsTold
    <2>2. TasksKeepUp'
          BY DEF IInv, Typed, TasksKeepUp, Behind
    <2>3. CompleteIsServed' /\ InstallMeansComplete'
          BY DEF IInv, CompleteIsServed, InstallMeansComplete
    <2> QED BY <2>1, <2>2, <2>3 DEF IInv
  <1> QED BY <1>1, <1>2

\* Records go into the shared store: it only comes to know more.
LEMMA ProduceStep == ASSUME IInv, NEW l \in Levels, Produce(l) PROVE IInv'
  <1>1. /\ task[l] = "layer" /\ task' = [task EXCEPT ![l] = "finish"]
        /\ known' = known \cup {at[l]}
        /\ durable \subseteq durable' /\ durable' \subseteq known' \cup durable
        /\ UNCHANGED <<packs, complete, installed, broken, owner, at, cancel, failed, state,
                       failures, builds, lost>>
        BY DEF Produce
  <1>2. at[l] \in Layers
        BY DEF IInv, Typed
  <1>3. Typed' /\ DurableKnown'
        BY <1>1, <1>2 DEF IInv, Typed, DurableKnown
  <1>4. TasksKeepUp'
        BY <1>1 DEF IInv, Typed, TasksKeepUp, Behind
  <1>5. OverIsTold'
        BY <1>1 DEF IInv, Typed, OverIsTold
  <1>6. CompleteIsServed' /\ InstallMeansComplete'
        BY <1>1 DEF IInv, CompleteIsServed, InstallMeansComplete
  <1> QED BY <1>3, <1>4, <1>5, <1>6 DEF IInv

\* The last pack published, every layer is behind the task.
LEMMA FinishStep == ASSUME IInv, NEW l \in Levels, Finish(l) PROVE IInv'
  <1>1. /\ task[l] = "finish" /\ packs' = packs \cup {<<l, at[l]>>}
        /\ UNCHANGED <<durable, complete, installed, known, broken, owner, cancel, failed, state,
                       failures, builds, lost>>
        BY DEF Finish
  <1>2. /\ at[l] \in Layers /\ at[l] \in Nat /\ at[l] \in known
        /\ \A i \in 1..at[l] - 1 : Behind(l, i)
        BY <1>1, Numbers DEF IInv, Typed, TasksKeepUp
  <1>3. \A i \in 1..at[l] : Behind(l, i)'
        BY <1>1, <1>2 DEF Behind
  <1>4. \A m, i : Behind(m, i) => Behind(m, i)'
        BY <1>1 DEF Behind
  <1>5. CASE at[l] = Cardinality(Layers)
    <2>1. task' = [task EXCEPT ![l] = "flush"] /\ at' = at
          BY <1>5 DEF Finish
    <2>2. \A i \in Layers : Behind(l, i)'
          BY <1>3, <1>5
    <2>3. Typed'
          BY <1>1, <2>1 DEF IInv, Typed
    <2>4. TasksKeepUp'
          BY <1>1, <1>4, <2>1, <2>2 DEF IInv, Typed, TasksKeepUp
    <2>5. OverIsTold'
          BY <1>1, <2>1 DEF IInv, Typed, OverIsTold
    <2> QED BY <1>1, <2>3, <2>4, <2>5 DEF IInv, DurableKnown, CompleteIsServed, InstallMeansComplete
  <1>6. CASE at[l] # Cardinality(Layers)
    <2>1. task' = [task EXCEPT ![l] = "layer"] /\ at' = [at EXCEPT ![l] = at[l] + 1]
          BY <1>6 DEF Finish
    <2>2. at[l] + 1 \in Layers
          BY <1>2, <1>6, Numbers
    <2>3. Typed' /\ at'[l] = at[l] + 1
          BY <1>1, <2>1, <2>2 DEF IInv, Typed
    <2>4. \A i \in 1..at'[l] - 1 : Behind(l, i)'
          BY <1>2, <1>3, <2>3
    <2>5. TasksKeepUp'
          BY <1>1, <1>4, <2>1, <2>4 DEF IInv, Typed, TasksKeepUp
    <2>6. OverIsTold'
          BY <1>1, <2>1 DEF IInv, Typed, OverIsTold
    <2> QED BY <1>1, <2>3, <2>5, <2>6 DEF IInv, DurableKnown, CompleteIsServed, InstallMeansComplete
  <1> QED BY <1>5, <1>6

\* One flush makes durable what every task has stored, its own layers among it.
LEMMA FlushStep == ASSUME IInv, NEW l \in Levels, Flush(l) PROVE IInv'
  <1>1. /\ task[l] = "flush" /\ task' = [task EXCEPT ![l] = "mark"]
        /\ durable' = durable \cup known
        /\ UNCHANGED <<packs, complete, installed, known, broken, owner, at, cancel, failed, state,
                       failures, builds, lost>>
        BY DEF Flush, AfterLayers
  <1>2. Layers \subseteq durable'
        BY <1>1 DEF IInv, TasksKeepUp, Behind
  <1>3. Typed' /\ DurableKnown'
        BY <1>1 DEF IInv, Typed, DurableKnown
  <1>4. TasksKeepUp'
        BY <1>1, <1>2 DEF IInv, Typed, TasksKeepUp, Behind
  <1>5. OverIsTold'
        BY <1>1 DEF IInv, Typed, OverIsTold
  <1>6. CompleteIsServed' /\ InstallMeansComplete'
        BY <1>1 DEF IInv, CompleteIsServed, InstallMeansComplete
  <1> QED BY <1>3, <1>4, <1>5, <1>6 DEF IInv

LEMMA MarkStep == ASSUME IInv, NEW l \in Levels, Mark(l) PROVE IInv'
  <1>1. /\ task[l] = "mark" /\ task' = [task EXCEPT ![l] = "over"]
        /\ complete' = complete \cup {l}
        /\ UNCHANGED <<packs, durable, installed, known, broken, owner, at, cancel, failed, state,
                       failures, builds, lost>>
        BY DEF Mark
  <1>2. Layers \subseteq durable /\ \A i \in Layers : <<l, i>> \in packs
        BY <1>1 DEF IInv, TasksKeepUp, Behind
  <1>3. Typed' /\ DurableKnown'
        BY <1>1 DEF IInv, Typed, DurableKnown
  <1>4. TasksKeepUp'
        BY <1>1 DEF IInv, Typed, TasksKeepUp, Behind
  <1>5. OverIsTold'
        BY <1>1 DEF IInv, Typed, OverIsTold
  <1>6. CompleteIsServed'
        BY <1>1, <1>2 DEF IInv, CompleteIsServed
  <1>7. InstallMeansComplete'
        BY <1>1 DEF IInv, InstallMeansComplete
  <1> QED BY <1>3, <1>4, <1>5, <1>6, <1>7 DEF IInv

LEMMA TaskStep == ASSUME IInv, NEW l \in Levels, Task(l) \/ TaskThrows(l) PROVE IInv'
  <1>1. CASE StopsForCancel(l)
        BY <1>1, EndsStep DEF StopsForCancel, GivesUp, IInv, Typed
  <1>2. CASE TaskFails(l)
    <2>1. broken' \in BOOLEAN /\ durable \subseteq durable' /\ durable' \subseteq durable \cup known
          BY <1>2 DEF TaskFails, FlushFails, WriteFails, IInv, Typed
    <2> QED BY <1>2, <2>1, EndsStep DEF TaskFails, GivesUp, IInv, Typed
  <1>3. CASE TaskThrows(l)
        BY <1>3, EndsStep DEF TaskThrows, IInv, Typed
  <1> QED BY <1>1, <1>2, <1>3, TakeStep, ProduceStep, FinishStep, FlushStep, MarkStep DEF Task

LEMMA Step == IInv /\ [Next]_vars => IInv'
  <1> SUFFICES ASSUME IInv, [Next]_vars PROVE IInv'
      OBVIOUS
  <1>1. CASE UNCHANGED vars
        BY <1>1 DEF vars, IInv, Typed, DurableKnown, TasksKeepUp, Behind, OverIsTold,
                    CompleteIsServed, InstallMeansComplete
  <1>2. CASE Next
        BY <1>2, StartStep, CancelStep, OwnerStep, RestartStep, TaskStep DEF Next
  <1> QED BY <1>1, <1>2

\* What the store owes to every task of every level, whatever the others do.
THEOREM Inductive == Spec => []IInv
  <1> QED BY Initially, Step, PTL DEF Spec

\* A level marked complete has its packs and its shared records on disk, for any number
\* of levels built side by side, whichever of them flushed, failed or broke the store
\* they share (build_map's flush before write_map_complete, cache_api.cpp:218).
THEOREM ServedCorrect == Spec => []CompleteIsServed
  <1>1. IInv => CompleteIsServed
        BY DEF IInv
  <1> QED BY <1>1, Inductive, PTL

\* install-complete.json and Done come only after every level was marked, but for
\* levels whose task ended in an exception (run's verdict, cache_api.cpp:324-333).
THEOREM InstallCorrect == Spec => []InstallMeansComplete
  <1>1. IInv => InstallMeansComplete
        BY DEF IInv
  <1> QED BY <1>1, Inductive, PTL
=============================================================================
