----------------------------- MODULE PrecacheBuild -----------------------------
(***************************************************************************)
(* A build of the up-front cache: run_game() of cache_api.cpp driving      *)
(* build_game_level() of game_layers.cpp over the shared store, with the   *)
(* completion files of cache_store.cpp.                                    *)
(*                                                                         *)
(* One worker thread walks the levels; the textures of a level are read by *)
(* the tasks of a pool; somebody may ask it to cancel at any moment; the   *)
(* process may die at any moment, and a later session goes on over the     *)
(* files that survive.  The store is used through the promise of           *)
(* DurableStore, which ContentStore implements.  The installation does not *)
(* change: that would be another cache key.                                *)
(***************************************************************************)
EXTENDS Naturals, Sequences, FiniteSets

CONSTANTS Order,       \* the levels of a build, in the order given
          Meshes,      \* shared keys of mesh references
          Textures,    \* shared keys of texture references
          MeshesOf,    \* meshes placed in each level
          TexturesOf,  \* textures named by each mesh reference
          Unreadable,  \* meshes and textures the game reader cannot produce
          PoolThreads  \* texture tasks that run at a time

Levels == {Order[i] : i \in DOMAIN Order}
Keys   == Meshes \cup Textures
Packs  == {"placements", "terrain"}

ASSUME BuildAssumption ==
    /\ Order \in Seq(Levels)
    /\ MeshesOf \in [Levels -> SUBSET Meshes]
    /\ TexturesOf \in [Meshes -> SUBSET Textures]
    /\ Meshes \cap Textures = {}
    /\ Unreadable \subseteq Keys
    /\ PoolThreads \in Nat \ {0}

VARIABLES up, known, durable, broken, reply,  \* the shared store
    packs,       \* on disk: <<level, pack>> with a published index
    complete,    \* on disk: levels with a complete.json
    installed,   \* on disk: install-complete.json lists every level
    pc,          \* next step of the worker, "off" when there is none
    todo,        \* levels not looked at yet, Head(todo) being built
    jobs,        \* meshes of the level not visited yet
    names,       \* texture_names collected by the level
    queued,      \* textures whose task has not started
    started,     \* textures whose task passed its cancel test
    texFailed,   \* a texture task could not store its record
    cancel,      \* the cancel flag
    failed,      \* some level, or the run, failed
    outcome,     \* the state the run reports last
    error,       \* history: this build met a failure of its own
    interrupted  \* history: some level was left before it was complete

store  == <<up, known, durable, broken, reply>>
disk   == <<packs, complete, installed>>
level  == <<jobs, names, queued, started, texFailed>>
run    == <<pc, todo, failed, outcome>>
seen   == <<error, interrupted>>
vars   == <<store, disk, level, run, cancel, seen>>

S == INSTANCE DurableStore

Outcomes == {"none", "running", "idle", "failed", "done"}
WorkerPC == {"off", "next", "placing", "meshes", "meshPut", "textures", "texPut",
             "terrain", "flush", "flushed", "mark", "last", "lastFlushed", "verdict", "install"}

\* Steps of the worker outside any level.
Between == {"off", "next", "last", "lastFlushed", "verdict", "install"}

\* The variables have their types; a level is being built only while one is
\* left to do, and only textures it named have tasks.
TypeOK ==
    /\ S!TypeOK
    /\ packs \subseteq Levels \X Packs /\ complete \subseteq Levels
    /\ installed \in BOOLEAN
    /\ pc \in WorkerPC /\ todo \in Seq(Levels)
    /\ jobs \subseteq Meshes /\ names \subseteq Textures
    /\ queued \subseteq names /\ started \subseteq names
    /\ cancel \in BOOLEAN /\ texFailed \in BOOLEAN /\ failed \in BOOLEAN
    /\ outcome \in Outcomes
    /\ error \in BOOLEAN /\ interrupted \in BOOLEAN
    /\ pc \notin Between => todo # <<>>

NoLevel == jobs' = {} /\ names' = {} /\ queued' = {} /\ started' = {} /\ texFailed' = FALSE

Init ==
    /\ S!Init
    /\ packs = {} /\ complete = {} /\ installed = FALSE
    /\ pc = "off" /\ todo = <<>> /\ failed = FALSE /\ outcome = "none"
    /\ jobs = {} /\ names = {} /\ queued = {} /\ started = {} /\ texFailed = FALSE
    /\ cancel = FALSE /\ error = FALSE /\ interrupted = FALSE

-----------------------------------------------------------------------------
\* bf6_precache_open.
OpenCache == S!Open /\ UNCHANGED <<disk, level, run, cancel, seen>>

\* bf6_precache_build_start with the same levels each time.
Start ==
    /\ up /\ pc = "off"
    /\ pc' = "next" /\ todo' = Order /\ failed' = FALSE /\ outcome' = "running"
    /\ cancel' = FALSE /\ error' = FALSE
    /\ UNCHANGED <<store, disk, level, interrupted>>

\* bf6_precache_build_cancel.
Cancel ==
    /\ outcome = "running" /\ ~cancel
    /\ cancel' = TRUE
    /\ UNCHANGED <<store, disk, level, run, seen>>

\* The process dies, at any step; or the cache is closed between builds.
Stop ==
    /\ S!Stop
    /\ pc' = "off" /\ todo' = <<>> /\ failed' = FALSE /\ outcome' = "none"
    /\ NoLevel
    /\ cancel' = FALSE
    /\ error' = FALSE
    /\ interrupted' = (interrupted \/ pc \notin Between)
    /\ UNCHANGED disk

-----------------------------------------------------------------------------
\* A level is given up, and the run goes on with the next one.
AfterAbandon_Retry == todo
AfterAbandon == Tail(todo)

\* cancelled tells whether it was the cancel flag that ended the level.
Abandon(cancelled) ==
    /\ pc' = "next" /\ todo' = AfterAbandon /\ failed' = TRUE
    /\ NoLevel
    /\ interrupted' = TRUE
    /\ error' = (error \/ ~cancelled)
    /\ UNCHANGED outcome

\* A step that failed for a reason of its own, and changed nothing else.
StepFails(at) ==
    /\ pc = at
    /\ Abandon(FALSE)
    /\ UNCHANGED <<store, disk, cancel>>

Move(from, to) ==
    /\ pc = from
    /\ pc' = to
    /\ UNCHANGED <<todo, failed, outcome>>

\* run_game, the head of the loop over the levels.
SkipTest(l) == l \in complete

LeaveLoop ==
    /\ cancel \/ todo = <<>>
    /\ Move("next", "last")
    /\ UNCHANGED <<store, disk, level, cancel, seen>>

SkipLevel ==
    /\ pc = "next" /\ ~cancel /\ todo # <<>> /\ SkipTest(Head(todo))
    /\ todo' = Tail(todo)
    /\ UNCHANGED <<store, disk, level, cancel, seen, pc, failed, outcome>>

\* bf6_open failed: the whole run ends.
OpenGameFails ==
    /\ pc = "next" /\ ~cancel /\ todo # <<>> /\ ~SkipTest(Head(todo))
    /\ pc' = "last" /\ failed' = TRUE /\ error' = TRUE
    /\ UNCHANGED <<store, disk, level, cancel, todo, outcome, interrupted>>

\* build_game_level up to the placements pack, whose older index is removed
\* before the new one is renamed into place.
OpenLevel ==
    /\ ~cancel /\ todo # <<>> /\ ~SkipTest(Head(todo))
    /\ Move("next", "placing")
    /\ packs' = packs \ {<<Head(todo), "placements">>}
    /\ UNCHANGED <<store, complete, installed, level, cancel, seen>>

PublishPlacements ==
    /\ Move("placing", "meshes")
    /\ packs' = packs \cup {<<Head(todo), "placements">>}
    /\ jobs' = MeshesOf[Head(todo)] /\ names' = {}
    /\ UNCHANGED <<store, complete, installed, queued, started, texFailed, cancel, seen>>

-----------------------------------------------------------------------------
\* One call of shared.put as its caller sees it begin.
PutCall(k) == S!PutKnown(k) \/ S!PutNew(k) \/ S!Fail

\* The store works on a call that has not answered yet.
StoreStep ==
    /\ reply \in S!Calls
    /\ S!Publish \/ S!Answer \/ S!Fail
    /\ UNCHANGED <<disk, level, run, cancel, seen>>

\* The mesh loop.  A mesh the store already has is passed over, its texture
\* names with it; one the reader cannot produce is counted and passed over.
PassOver(m) == m \in known \/ m \in Unreadable

PassMesh(m) ==
    /\ pc = "meshes" /\ ~cancel /\ m \in jobs
    /\ PassOver(m)
    /\ jobs' = jobs \ {m}
    /\ UNCHANGED <<store, disk, run, cancel, seen, names, queued, started, texFailed>>

NamesWith_Forgotten(m) == names
NamesWith(m) == names \cup TexturesOf[m]

StoreMesh(m) ==
    /\ ~cancel /\ m \in jobs /\ ~PassOver(m)
    /\ Move("meshes", "meshPut")
    /\ names' = NamesWith(m)
    /\ jobs' = jobs \ {m}
    /\ PutCall(m)
    /\ UNCHANGED <<disk, cancel, seen, queued, started, texFailed>>

MeshStored ==
    /\ reply = "stored"
    /\ Move("meshPut", "meshes")
    /\ UNCHANGED <<store, disk, level, cancel, seen>>

MeshCancelled ==
    /\ pc = "meshes" /\ cancel /\ jobs # {}
    /\ Abandon(TRUE)
    /\ UNCHANGED <<store, disk, cancel>>

\* The tasks: one for each collected texture the store does not have yet.
PendingTextures == names \ known

MeshesDone ==
    /\ jobs = {}
    /\ Move("meshes", "textures")
    /\ queued' = PendingTextures
    /\ UNCHANGED <<store, disk, jobs, names, started, texFailed, cancel, seen>>

-----------------------------------------------------------------------------
Tasking == pc \in {"textures", "texPut"}

\* A texture task begins: it returns at once after a cancel or a failure.
StartTask(t) ==
    /\ Tasking /\ t \in queued /\ Cardinality(started) < PoolThreads
    /\ queued' = queued \ {t}
    /\ started' = IF cancel \/ texFailed THEN started ELSE started \cup {t}
    /\ UNCHANGED <<store, disk, run, cancel, seen, jobs, names, texFailed>>

\* The reader cannot produce the texture: counted, and passed over.
PassTexture(t) ==
    /\ Tasking /\ t \in started \cap Unreadable
    /\ started' = started \ {t}
    /\ UNCHANGED <<store, disk, run, cancel, seen, jobs, names, queued, texFailed>>

\* The task stores its record; the store serves one call at a time.
StoreTexture(t) ==
    /\ t \in started \ Unreadable
    /\ Move("textures", "texPut")
    /\ started' = started \ {t}
    /\ PutCall(t)
    /\ UNCHANGED <<disk, cancel, seen, jobs, names, queued, texFailed>>

TextureStored ==
    /\ reply \in S!Replies
    /\ Move("texPut", "textures")
    /\ texFailed' = (texFailed \/ reply = "failed")
    /\ error' = (error \/ reply = "failed")
    /\ UNCHANGED <<store, disk, jobs, names, queued, started, cancel, interrupted>>

\* pool.wait() has returned.
TasksDone == pc = "textures" /\ queued = {} /\ started = {}

TexturesAbandoned ==
    /\ TasksDone /\ (texFailed \/ cancel)
    /\ Abandon(~texFailed)
    /\ UNCHANGED <<store, disk, cancel>>

TexturesDone ==
    /\ TasksDone /\ ~texFailed /\ ~cancel
    /\ Move("textures", "terrain")
    /\ packs' = packs \ {<<Head(todo), "terrain">>}
    /\ UNCHANGED <<store, complete, installed, level, cancel, seen>>

PublishTerrain ==
    /\ Move("terrain", "flush")
    /\ packs' = packs \cup {<<Head(todo), "terrain">>}
    /\ UNCHANGED <<store, complete, installed, level, cancel, seen>>

\* run_game after build_game_level: flush the store, then mark the level.
FlushCall == S!Flush \/ S!Fail

FlushLevel ==
    /\ Move("flush", "flushed")
    /\ FlushCall
    /\ UNCHANGED <<disk, level, cancel, seen>>

FlushOk_Ignored == reply \in S!Replies
FlushOk == reply = "flushed"

LevelFlushed ==
    /\ FlushOk
    /\ Move("flushed", "mark")
    /\ UNCHANGED <<store, disk, level, cancel, seen>>

\* A put or a flush of the level answered false.
CallFailed ==
    /\ pc \in {"meshPut", "flushed"} /\ reply = "failed"
    /\ Abandon(FALSE)
    /\ UNCHANGED <<store, disk, cancel>>

MarkComplete ==
    /\ pc = "mark"
    /\ complete' = complete \cup {Head(todo)}
    /\ pc' = "next" /\ todo' = Tail(todo)
    /\ NoLevel
    /\ UNCHANGED <<store, packs, installed, cancel, seen, failed, outcome>>

-----------------------------------------------------------------------------
\* run_game after the loop.
FlushLast ==
    /\ Move("last", "lastFlushed")
    /\ FlushCall
    /\ UNCHANGED <<disk, level, cancel, seen>>

LastFlushed ==
    /\ pc = "lastFlushed" /\ reply \in S!Replies
    /\ pc' = "verdict"
    /\ failed' = (failed \/ reply = "failed")
    /\ error' = (error \/ reply = "failed")
    /\ UNCHANGED <<store, disk, level, cancel, todo, outcome, interrupted>>

Verdict_FailedFirst ==
    IF failed THEN "failed" ELSE IF cancel THEN "idle" ELSE "install"
Verdict_Optimistic ==
    IF cancel THEN "idle" ELSE "install"
Verdict ==
    IF cancel THEN "idle" ELSE IF failed THEN "failed" ELSE "install"

Conclude ==
    /\ pc = "verdict"
    /\ IF Verdict = "install"
         THEN pc' = "install" /\ outcome' = outcome
         ELSE pc' = "off" /\ outcome' = Verdict
    /\ UNCHANGED <<store, disk, level, cancel, seen, todo, failed>>

MarkInstalled ==
    /\ pc = "install"
    /\ pc' = "off" /\ outcome' = "done"
    /\ installed' = TRUE
    /\ UNCHANGED <<store, packs, complete, level, cancel, seen, todo, failed>>

MarkInstalledFails ==
    /\ pc = "install"
    /\ pc' = "off" /\ outcome' = "failed" /\ error' = TRUE
    /\ UNCHANGED <<store, disk, level, cancel, todo, failed, interrupted>>

Work ==
    \/ StoreStep
    \/ LeaveLoop \/ SkipLevel \/ OpenGameFails \/ OpenLevel \/ PublishPlacements
    \/ \E m \in Meshes : PassMesh(m) \/ StoreMesh(m)
    \/ MeshStored \/ MeshCancelled \/ MeshesDone
    \/ \E t \in Textures : StartTask(t) \/ PassTexture(t) \/ StoreTexture(t)
    \/ TextureStored \/ TexturesAbandoned \/ TexturesDone \/ PublishTerrain
    \/ FlushLevel \/ LevelFlushed \/ CallFailed \/ MarkComplete
    \/ \E at \in {"placing", "terrain", "mark"} : StepFails(at)
    \/ FlushLast \/ LastFlushed \/ Conclude \/ MarkInstalled \/ MarkInstalledFails

Next == OpenCache \/ Start \/ Cancel \/ Stop \/ Work

Spec == Init /\ [][Next]_vars

\* The worker and the tasks of its pool are scheduled; nobody has to open the
\* cache, start a build or cancel one.
FairSpec == Spec /\ WF_vars(Work)

-----------------------------------------------------------------------------
Readable(keys) == keys \ Unreadable

\* A level with a complete.json has, whatever failed or crashed before, both
\* its packs and every mesh its placements refer to: "Written last,
\* atomically, after every layer file of the map is durable."
MapUsable ==
    \A l \in complete :
        /\ {l} \X Packs \subseteq packs
        /\ Readable(MeshesOf[l]) \subseteq durable

\* install-complete.json is never there without every complete.json, also
\* after a crash between any two of them.
InstallMeansComplete == installed => Levels \subseteq complete

\* A cancelled build ends without failing (precache_test.cpp:170): the levels
\* the cancel cut short do not count as errors.
CancelIsNoFailure == outcome = "failed" => error

TexturesOfLevel(l) == UNION {TexturesOf[m] : m \in Readable(MeshesOf[l])}
TexturesStored == \A l \in complete : Readable(TexturesOfLevel(l)) \subseteq durable

\* As long as no level was ever left half-built, a complete level has all its
\* textures, those named by meshes that an earlier level stored included.
TexturesIfUninterrupted == ~interrupted => TexturesStored

\* docs/PRECACHE.md:5, "after it finishes any map opens without touching the
\* game files": after a build reported done, no complete level lacks a texture
\* its meshes name.
DoneHasTextures == outcome = "done" => TexturesStored

\* A build that was started comes to an end, cancelled or not, whatever fails.
BuildEnds == outcome = "running" ~> outcome # "running"
=============================================================================
