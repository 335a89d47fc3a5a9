----------------------------- MODULE SelfTestBuild -----------------------------
(***************************************************************************)
(* The build that runs levels at once (bf6_precache::run and build_map in  *)
(* cache_api.cpp): one pool task per level, every task writes the packs of *)
(* its layers and puts records into the one shared store, which any of     *)
(* them may flush or break for all.                                        *)
(*                                                                         *)
(* The pool is module ThreadPool's, the store is module DurableStore's; a  *)
(* call of the store holds its mutex throughout and is one action here.    *)
(***************************************************************************)
EXTENDS Naturals, FiniteSets

CONSTANTS Levels,
          Layers,      \* 1..n
          Threads,     \* size of the pool
          MaxFailures, MaxBuilds   \* bounds

ASSUME BuildAssumption ==
    /\ IsFiniteSet(Layers) /\ Layers # {} /\ Layers = 1..Cardinality(Layers)
    /\ Threads \in Nat \ {0}

VARIABLES packs,      \* <<level, layer>>: published packs of a level
          durable,    \* layers whose shared records every later process finds
          complete,   \* levels with a complete.json
          installed,  \* the levels install-complete.json names
          known, broken,   \* the store's handle
          owner,      \* the build thread: "off", "submit", "wait", "flush", "verdict"
          task,       \* level -> where its task is
          at,         \* level -> the layer it builds
          cancel, failed, state,
          failures, builds,  \* history: real failures, builds started
          lost               \* history: levels whose task ended in an exception

disk  == <<packs, durable, complete, installed>>
store == <<known, broken>>
vars  == <<disk, store, owner, task, at, cancel, failed, state, failures, builds, lost>>

NoTasks == /\ task = [l \in Levels |-> "none"] /\ at = [l \in Levels |-> 1]
NewTasks == /\ task' = [l \in Levels |-> "none"] /\ at' = [l \in Levels |-> 1]

Init ==
    /\ packs = {} /\ durable = {} /\ complete = {} /\ installed = {}
    /\ known = {} /\ broken = FALSE
    /\ owner = "off" /\ NoTasks
    /\ cancel = FALSE /\ failed = FALSE /\ state = "idle"
    /\ failures = 0 /\ builds = 0 /\ lost = {}

Start ==
    /\ owner = "off" /\ builds < MaxBuilds
    /\ owner' = "submit" /\ NewTasks
    /\ cancel' = FALSE /\ failed' = FALSE /\ state' = "running"
    /\ builds' = builds + 1 /\ failures' = 0
    /\ UNCHANGED <<disk, store, lost>>

Cancel ==
    /\ owner # "off" /\ ~cancel
    /\ cancel' = TRUE
    /\ state' = "cancelling"
    /\ UNCHANGED <<disk, store, owner, task, at, failed, failures, builds, lost>>

\* run: a complete level is not built again; the others are queued.
Look(l) ==
    /\ owner = "submit" /\ task[l] = "none"
    /\ task' = [task EXCEPT ![l] = IF l \in complete THEN "over" ELSE "queued"]
    /\ UNCHANGED <<disk, store, owner, at, cancel, failed, state, failures, builds, lost>>

Submitted ==
    /\ owner = "submit" /\ \A l \in Levels : task[l] # "none"
    /\ owner' = "wait"
    /\ UNCHANGED <<disk, store, task, at, cancel, failed, state, failures, builds, lost>>

-----------------------------------------------------------------------------
Inside == {"layer", "finish", "flush", "mark"}
Running == {l \in Levels : task[l] \in Inside}

GivesUp(l) ==
    /\ task' = [task EXCEPT ![l] = "over"]
    /\ failed' = TRUE

\* A worker takes the task; a cancelled build only ends it.
Admits(l) == task[l] = "queued" /\ Cardinality(Running) < Threads

Take(l) ==
    /\ Admits(l)
    /\ IF cancel THEN GivesUp(l)
       ELSE task' = [task EXCEPT ![l] = "layer"] /\ UNCHANGED failed
    /\ UNCHANGED <<disk, store, owner, at, cancel, state, failures, builds, lost>>

\* A layer: its records into the shared store, unless the store is broken.  A
\* cancel is seen before a layer and between its records.
Produce(l) ==
    /\ task[l] = "layer" /\ (~broken \/ at[l] \in known)
    /\ known' = known \cup {at[l]}
    /\ durable' \in {durable} \cup (IF broken THEN {} ELSE {durable \cup known'})
    /\ task' = [task EXCEPT ![l] = "finish"]
    /\ UNCHANGED <<packs, complete, installed, broken, owner, at, cancel, failed, state, failures, builds, lost>>

StopsForCancel(l) ==
    /\ task[l] \in {"layer", "finish"} /\ cancel
    /\ GivesUp(l)
    /\ UNCHANGED <<disk, store, owner, at, cancel, state, failures, builds, lost>>

\* The pack of the layer is published.
Finish(l) ==
    /\ task[l] = "finish"
    /\ packs' = packs \cup {<<l, at[l]>>}
    /\ IF at[l] = Cardinality(Layers)
         THEN task' = [task EXCEPT ![l] = "flush"] /\ at' = at
         ELSE task' = [task EXCEPT ![l] = "layer"] /\ at' = [at EXCEPT ![l] = @ + 1]
    /\ UNCHANGED <<durable, complete, installed, store, owner, cancel, failed, state, failures, builds, lost>>

AfterLayers_Unflushed == TRUE
AfterLayers == ~broken /\ durable' = durable \cup known

Flush(l) ==
    /\ task[l] = "flush"
    /\ AfterLayers /\ durable' \in {durable, durable \cup known}
    /\ task' = [task EXCEPT ![l] = "mark"]
    /\ UNCHANGED <<packs, complete, installed, store, owner, at, cancel, failed, state, failures, builds, lost>>

\* write_map_complete.
Mark(l) ==
    /\ task[l] = "mark"
    /\ complete' = complete \cup {l}
    /\ task' = [task EXCEPT ![l] = "over"]
    /\ UNCHANGED <<packs, durable, installed, store, owner, at, cancel, failed, state, failures, builds, lost>>

\* A failed publication breaks the handle for good (pack.cpp:236), and the data may
\* be in place all the same.
WriteFails ==
    /\ durable' \in {durable} \cup (IF broken THEN {} ELSE {durable \cup known})
    /\ failures' = IF failures < MaxFailures THEN failures + 1 ELSE failures
FlushFails == WriteFails /\ broken' = TRUE

\* Any write of the task may fail.  A failed flush breaks the store for all; a record
\* that cannot be put may.
TaskFails(l) ==
    /\ task[l] \in Inside /\ (failures < MaxFailures \/ (broken /\ task[l] \in {"layer", "flush"}))
    /\ GivesUp(l)
    /\ CASE task[l] = "layer" -> WriteFails /\ broken' \in {broken, TRUE}
         [] task[l] = "flush" -> FlushFails
         [] OTHER -> WriteFails /\ UNCHANGED broken
    /\ UNCHANGED <<packs, complete, installed, known, owner, at, cancel, state, builds, lost>>

\* thread_pool.h:65: an exception ends the task and nobody hears of it.
TaskThrows(l) ==
    /\ task[l] \in Inside
    /\ task' = [task EXCEPT ![l] = "over"] /\ lost' = lost \cup {l}
    /\ UNCHANGED <<disk, store, owner, at, cancel, failed, state, failures, builds>>

Task(l) ==
    \/ Take(l) \/ Produce(l) \/ StopsForCancel(l) \/ Finish(l)
    \/ Flush(l) \/ Mark(l) \/ TaskFails(l)

-----------------------------------------------------------------------------
\* pool.wait(), the last flush, the verdict: a cancel comes before a failure.
Waited_ForOne == \E l \in Levels : task[l] = "over"
Waited == \A l \in Levels : task[l] = "over"

AllOver ==
    /\ owner = "wait" /\ Waited
    /\ owner' = "flush"
    /\ UNCHANGED <<disk, store, task, at, cancel, failed, state, failures, builds, lost>>

LastFlush ==
    /\ owner = "flush" /\ owner' = "verdict"
    /\ \/ ~broken /\ durable' = durable \cup known /\ UNCHANGED <<failed, failures>>
            /\ UNCHANGED broken
       \/ /\ broken \/ failures < MaxFailures
          /\ FlushFails /\ failed' = TRUE
    /\ UNCHANGED <<packs, complete, installed, known, task, at, cancel, state, builds, lost>>

Says == IF cancel THEN "idle" ELSE IF failed THEN "failed" ELSE "done"

Verdict ==
    /\ owner = "verdict" /\ owner' = "off"
    /\ \/ /\ Says = "done" /\ state' = "done" /\ installed' = Levels /\ UNCHANGED failures
       \/ /\ Says = "done" /\ failures < MaxFailures
          /\ state' = "failed" /\ failures' = failures + 1 /\ UNCHANGED installed
       \/ Says # "done" /\ state' = Says /\ UNCHANGED <<installed, failures>>
    /\ UNCHANGED <<packs, durable, complete, store, task, at, cancel, failed, builds, lost>>

\* The handle is closed when no build runs, or the process dies at any step;
\* the next one opens the store as it is on disk.
Restart ==
    /\ owner' = "off" /\ NewTasks
    /\ known' = durable /\ broken' = FALSE
    /\ cancel' = FALSE /\ failed' = FALSE /\ state' = "idle" /\ failures' = 0
    /\ UNCHANGED <<disk, builds, lost>>

Owner == Submitted \/ AllOver \/ LastFlush \/ Verdict \/ \E l \in Levels : Look(l)

Next ==
    \/ Start \/ Cancel \/ Owner \/ Restart
    \/ \E l \in Levels : Task(l) \/ TaskThrows(l)

Spec == Init /\ [][Next]_vars

-----------------------------------------------------------------------------
\* A level that is marked complete has its packs and every shared record they
\* name where the next process finds them, whichever task of whichever level
\* stored, flushed or broke what they share.
CompleteIsServed ==
    complete # {} => Layers \subseteq durable /\ complete \X Layers \subseteq packs

\* cache_store.h:63, "Marks the whole install complete (every requested map plus
\* shared data)": and no build says Done otherwise, except for levels whose task
\* ended in an exception, which the verdict does not hear of.
InstallMeansComplete == (installed # {} \/ state = "done") => complete \cup lost = Levels
=============================================================================
