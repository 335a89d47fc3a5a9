------------------------------ MODULE BuildControl ------------------------------
(***************************************************************************)
(* The control of a cache build through its C API: bf6_precache_build_*    *)
(* of cache_api.cpp, called by an owner thread that starts, waits for and  *)
(* closes, and by other threads that may only cancel, against the worker   *)
(* thread that run() is.  They share two atomic flags (cancel, running),   *)
(* the locked state of Progress, and the std::thread object, which         *)
(* terminates the process when it is assigned or destroyed while joinable. *)
(*                                                                         *)
(* What building a level does is PrecacheBuild; here it works or not.      *)
(***************************************************************************)
EXTENDS Naturals, Sequences, FiniteSets

CONSTANTS Levels,      \* level names a build may be asked for
          Cancellers   \* threads other than the owner that may cancel

ASSUME ControlAssumption == IsFiniteSet(Levels) /\ "owner" \notin Cancellers

VARIABLES cancel, running,  \* the atomic flags
    shown,       \* state_ of Progress
    levels,      \* the levels of the last started build
    complete,    \* on disk: levels with a complete.json
    listed,      \* on disk: the levels install-complete.json lists
    thread,      \* the std::thread object: "none", or "live"/"exited", both joinable
    work,        \* next step of the worker
    todo,        \* levels the worker has not come to
    failed,      \* some level failed
    owner,       \* what the owner is doing
    cancelling,  \* callers inside bf6_precache_build_cancel, and how far
    waited,      \* what the last bf6_precache_build_wait returned
    asked        \* history: a cancel was called since the worker was spawned

build  == <<levels, complete, listed, todo, failed>>
vars   == <<cancel, running, shown, build, thread, work, owner, cancelling, waited, asked>>

Callers == Cancellers \cup {"owner"}
States  == {"idle", "running", "cancelling", "done", "failed"}
Final   == {"idle", "done", "failed"}

\* The worker writes the cache, or is about to.
Writing == {"begin", "loop", "build", "verdict", "install"}

TypeOK ==
    /\ cancel \in BOOLEAN /\ running \in BOOLEAN /\ failed \in BOOLEAN /\ asked \in BOOLEAN
    /\ shown \in States
    /\ levels \subseteq Levels /\ complete \subseteq Levels /\ listed \subseteq Levels
    /\ todo \subseteq levels
    /\ thread \in {"none", "live", "exited"}
    /\ work \in Writing \cup {"none", "lower"}
    /\ owner \in {"free", "join", "reset", "clear", "raise", "show", "spawn",
                  "waiting", "snapshot", "closing", "closed"}
    /\ cancelling \in [Callers -> {"no", "flagged", "showing"}]
    /\ waited \in States
    /\ thread = "live" <=> work # "none"

Init ==
    /\ cancel = FALSE /\ running = FALSE /\ shown = "idle"
    /\ levels = {} /\ complete = {} /\ listed = {} /\ todo = {} /\ failed = FALSE
    /\ thread = "none" /\ work = "none"
    /\ owner = "free" /\ cancelling = [c \in Callers |-> "no"]
    /\ waited = "idle" /\ asked = FALSE

Calls(c) == cancelling[c] # "no"
OwnerMay(s) == owner = s /\ ~Calls("owner")

-----------------------------------------------------------------------------
\* bf6_precache_build_start; refused while running (it then changes nothing).

BeginStart ==
    /\ OwnerMay("free") /\ ~running
    /\ owner' = "join"
    /\ UNCHANGED <<cancel, running, shown, build, thread, work, cancelling, waited, asked>>

\* worker.join() when joinable: returns once the thread has exited.
Joined_Detached == thread' = "none"
Joined_AnyThread == thread = "exited" /\ thread' = "none"
Joined == thread # "live" /\ thread' = "none"

\* The order in which a start sets things up once the old thread is joined.
AfterStep_ClearLast(step) ==
    CASE step = "reset" -> "raise" [] step = "raise" -> "show" [] step = "show" -> "spawn"
      [] step = "spawn" -> "clear" [] step = "clear" -> "free"
AfterStep(step) ==
    CASE step = "reset" -> "clear" [] step = "clear" -> "raise" [] step = "raise" -> "show"
      [] step = "show" -> "spawn" [] step = "spawn" -> "free"

JoinOld ==
    /\ owner = "join" /\ Joined
    /\ owner' = "reset"
    /\ UNCHANGED <<cancel, running, shown, build, work, cancelling, waited, asked>>

\* Arguments refused after the join: -1 or -2.
Refused ==
    /\ owner = "reset"
    /\ owner' = "free"
    /\ UNCHANGED <<cancel, running, shown, build, thread, work, cancelling, waited, asked>>

\* The list is replaced and Progress::reset puts the state back to Idle.
Reset ==
    /\ owner = "reset"
    /\ \E ls \in SUBSET Levels \ {{}} : levels' = ls /\ todo' = ls
    /\ failed' = FALSE /\ shown' = "idle"
    /\ owner' = AfterStep("reset")
    /\ UNCHANGED <<cancel, running, complete, listed, thread, work, cancelling, waited, asked>>

Clear ==
    /\ owner = "clear"
    /\ cancel' = FALSE
    /\ owner' = AfterStep("clear")
    /\ UNCHANGED <<running, shown, build, thread, work, cancelling, waited, asked>>

Raise ==
    /\ owner = "raise"
    /\ running' = TRUE
    /\ owner' = AfterStep("raise")
    /\ UNCHANGED <<cancel, shown, build, thread, work, cancelling, waited, asked>>

Show ==
    /\ owner = "show"
    /\ shown' = "running"
    /\ owner' = AfterStep("show")
    /\ UNCHANGED <<cancel, running, build, thread, work, cancelling, waited, asked>>

Spawn ==
    /\ owner = "spawn"
    /\ thread' = "live" /\ work' = "begin"
    /\ owner' = AfterStep("spawn") /\ asked' = FALSE
    /\ UNCHANGED <<cancel, running, shown, build, cancelling, waited>>

-----------------------------------------------------------------------------
\* bf6_precache_build_cancel: set the flag, read running, show Cancelling.
CancelFlag(c) ==
    /\ cancelling[c] = "no" /\ owner \notin {"closing", "closed"}
    /\ c = "owner" => owner = "free"
    /\ cancel' = TRUE /\ asked' = TRUE
    /\ cancelling' = [cancelling EXCEPT ![c] = "flagged"]
    /\ UNCHANGED <<running, shown, build, thread, work, owner, waited>>

CancelTest(c) ==
    /\ cancelling[c] = "flagged"
    /\ cancelling' = [cancelling EXCEPT ![c] = IF running THEN "showing" ELSE "no"]
    /\ UNCHANGED <<cancel, running, shown, build, thread, work, owner, waited, asked>>

CancelShow(c) ==
    /\ cancelling[c] = "showing"
    /\ shown' = "cancelling"
    /\ cancelling' = [cancelling EXCEPT ![c] = "no"]
    /\ UNCHANGED <<cancel, running, build, thread, work, owner, waited, asked>>

-----------------------------------------------------------------------------
\* bf6_precache_build_wait: join, then the state of a snapshot.
BeginWait ==
    /\ OwnerMay("free")
    /\ owner' = "waiting"
    /\ UNCHANGED <<cancel, running, shown, build, thread, work, cancelling, waited, asked>>

WaitJoin ==
    /\ owner = "waiting" /\ Joined
    /\ owner' = "snapshot"
    /\ UNCHANGED <<cancel, running, shown, build, work, cancelling, waited, asked>>

WaitSnapshot ==
    /\ owner = "snapshot"
    /\ waited' = shown
    /\ owner' = "free"
    /\ UNCHANGED <<cancel, running, shown, build, thread, work, cancelling, asked>>

\* bf6_precache_close: nobody may be inside another call.
BeginClose ==
    /\ owner = "free" /\ \A c \in Callers : ~Calls(c)
    /\ cancel' = TRUE
    /\ owner' = "closing"
    /\ UNCHANGED <<running, shown, build, thread, work, cancelling, waited, asked>>

CloseJoin ==
    /\ owner = "closing" /\ Joined
    /\ owner' = "closed"
    /\ UNCHANGED <<cancel, running, shown, build, work, cancelling, waited, asked>>

-----------------------------------------------------------------------------
\* run(): the state, the levels, the verdict, and the flag lowered last.
WorkerBegins ==
    /\ work = "begin"
    /\ work' = "loop" /\ shown' = "running"
    /\ UNCHANGED <<cancel, running, build, thread, owner, cancelling, waited, asked>>

\* Stop at the cancel flag; else skip a complete level, or build it.
LoopEnds == cancel \/ todo = {}

NextLevel ==
    /\ work = "loop"
    /\ \/ LoopEnds /\ work' = "verdict" /\ UNCHANGED todo
       \/ ~LoopEnds /\ \E l \in todo :
            IF l \in complete THEN todo' = todo \ {l} /\ UNCHANGED work
                              ELSE work' = "build" /\ UNCHANGED todo
    /\ UNCHANGED <<cancel, running, shown, levels, complete, listed, failed,
                   thread, owner, cancelling, waited, asked>>

BuildLevel ==
    /\ work = "build"
    /\ work' = "loop"
    /\ \E l \in todo \ complete :
         /\ todo' = todo \ {l}
         /\ \/ complete' = complete \cup {l} /\ UNCHANGED failed
            \/ failed' = TRUE /\ UNCHANGED complete
    /\ UNCHANGED <<cancel, running, shown, levels, listed,
                   thread, owner, cancelling, waited, asked>>

\* The state a build ends in, "install" when install-complete.json is due.
Verdict_FailureLost == IF cancel THEN "idle" ELSE "install"
Verdict == IF cancel THEN "idle" ELSE IF failed THEN "failed" ELSE "install"

WorkerConcludes ==
    /\ work = "verdict"
    /\ IF Verdict = "install" THEN work' = "install" /\ UNCHANGED shown
                              ELSE work' = "lower" /\ shown' = Verdict
    /\ UNCHANGED <<cancel, running, build, thread, owner, cancelling, waited, asked>>

WorkerInstalls ==
    /\ work = "install" /\ work' = "lower"
    /\ \/ listed' = levels /\ shown' = "done"
       \/ shown' = "failed" /\ UNCHANGED listed
    /\ UNCHANGED <<cancel, running, levels, complete, todo, failed,
                   thread, owner, cancelling, waited, asked>>

Lowered_Forgotten == running
Lowered == FALSE

WorkerExits ==
    /\ work = "lower"
    /\ running' = Lowered
    /\ work' = "none" /\ thread' = "exited"
    /\ UNCHANGED <<cancel, shown, build, owner, cancelling, waited, asked>>

-----------------------------------------------------------------------------
Worker == WorkerBegins \/ NextLevel \/ BuildLevel \/ WorkerConcludes
              \/ WorkerInstalls \/ WorkerExits

\* A call that has begun goes on; a new one begins only if somebody calls.
OwnerGoesOn == JoinOld \/ Refused \/ Reset \/ Clear \/ Raise \/ Show \/ Spawn
                   \/ WaitJoin \/ WaitSnapshot \/ CloseJoin
CancelGoesOn(c) == CancelTest(c) \/ CancelShow(c)

Next ==
    \/ Worker \/ OwnerGoesOn
    \/ BeginStart \/ BeginWait \/ BeginClose
    \/ \E c \in Callers : CancelFlag(c) \/ CancelGoesOn(c)

Spec == Init /\ [][Next]_vars

\* The operating system schedules the worker and whoever is inside a call.
FairSpec ==
    /\ Spec
    /\ WF_vars(Worker) /\ WF_vars(OwnerGoesOn)
    /\ \A c \in Callers : WF_vars(CancelGoesOn(c))

-----------------------------------------------------------------------------
\* While the owner rebuilds the list, the layers and the progress, none of which
\* has a lock against the worker, no worker is there; and the thread object is
\* not joinable when it is assigned or destroyed, which would end the process.
WorkerAlone ==
    owner \in {"reset", "clear", "raise", "show", "spawn", "closed"}
        => thread = "none" /\ work = "none"

\* The running flag covers every moment the worker may still write the cache,
\* and once the worker is gone it locks nobody out of the next build.
RunningCovers ==
    /\ work \in Writing => running
    /\ thread = "exited" => ~running

\* Done is shown only over a whole build: every level of the list complete and
\* listed, also after cancelled, failed and shorter builds in between.
DoneIsWhole == shown = "done" => levels \subseteq complete /\ levels \subseteq listed

\* A cancel of the current build is never lost, by whatever thread and however
\* early it came: once the worker exists, no level is begun after a cancel, so
\* the build stops "after the current unit" (bf6_core.h:7280).
StopsAfterUnit == [][work # "build" /\ work' = "build" => ~asked]_vars

\* A build comes to an end and the next one can be started.
RunningEnds == running ~> ~running

\* The calls that wait for the worker return.
CallsReturn ==
    /\ owner = "waiting" ~> owner = "free"
    /\ owner = "closing" ~> owner = "closed"

\* bf6_core.h:7282, "Blocks until the current build ends; returns the final
\* bf6_precache_state": the answer of a wait is never a state of a build that
\* is still going on.
WaitIsFinal == waited \in Final
=============================================================================
