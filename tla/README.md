# A verification development for BF6_High_Poly_Core

TLA+ models of the concurrent and persistent parts of this repository, the TLC
runs that check them, and proofs that TLAPS checks. Paths are relative to the
repository's root; `cache/` below is `src/cache/`, and a bare `source.cpp`,
`cas.cpp` or `oodle.cpp` is in `src/`.

## 1. The system and its parts

The core is a C++ library that reads an installed game and serves decoded
resources to editors (Godot, Unreal) and to a viewer. Most of it is decoding:
sequential functions from archive bytes to records. What keeps state, runs
threads, or survives a crash is the following.

| Component | State it keeps | Operations | What is hard |
|---|---|---|---|
| Worker pool, `cache/thread_pool.h` | queue, count of unfinished tasks, stop flag | submit, wait, run, destroy | notifications after an unlock, spurious wake-ups, tasks that submit, a destructor that drains |
| Pack files and shared store, `cache/pack.*` | segment files on disk; which segment holds each key; the open segment | open, put, contains, get, flush (roll) | crash or failure between file operations; two processes on one folder |
| Builds, `cache/game_layers.cpp`, `run_game`, `run` and `build_map` of `cache/cache_api.cpp` | the level list, a level's meshes and texture tasks, the levels under way | build a level, flush, mark it complete, verdict | completion files ahead of the data; cancel against failure; resume; levels that break each other's store |
| Build control, C API in `cache/cache_api.cpp` | `cancel`, `running`, the worker's `std::thread`, the shown state | start, cancel, wait, close, ready, progress | flags read and written in several steps by several threads |
| Reading calls, `cache/cache_api.cpp` | the read pool, its batch lock, the mesh index of one level | mesh_surfaces, texture_chunks, mesh_texture_names | one pool, one index and one codec for calls of several levels |
| Completion files and roots, `cache/cache_store.cpp` | `complete.json`, `install-complete.json`, `root.json` | atomic write, readiness tests, sweep of stale roots | another process in a root being swept |
| Progress, `cache/progress.cpp` | state, fractions per map and layer | reset, layer, map_done, snapshot | several threads write it |
| Mount and name tables, `source.cpp`, `mount_table.h` | overlay tables over mapped snapshots; snapshot chains on disk; partition index | mount, save, load, evict, sweep, index | stale keys, eviction by other processes, cancelled index |
| Archives, `cas.cpp`, `oodle.cpp` | open handles per thread, the loaded codec | read, decompress | a limited supply of handles; a library loaded under different locks |
| UI runtime, `ui_runtime/` | screen stack, focus, movies | push, replace, pop, dispatch | requests that overlap transitions |
| Viewer, `viewer/` | request queues, what is presented, texture ids | request, worker loop, present | render thread and worker number, queue, route and present in separate steps |

They interact as follows. An editor calls the C API. `build_start` spawns the
worker thread; the worker builds the levels through the readers of the core;
the textures of a level, or in the self-test build the levels, are tasks of a
pool; what levels share goes into the one store, everything else into packs of
the level; the store is flushed before a level's `complete.json` is written, and
`install-complete.json` comes after the last level. Any thread may cancel. A
later session, or another editor, opens the same folder and either reads it or
goes on with what is missing. Reading, a call puts its items on the one read
pool; a task looks its mesh up, loads the codec if nobody has, and reads
archives through handles of its thread. The readers stand on a `Source`, which
mounts the game's tables of contents from snapshots that earlier processes
left. The viewer asks its worker for screens and presents what comes back if it
is still wanted.

Decoders, expression machines and the simulations are not candidates: they are
sequential, and their subject is bytes and floating point. `PROJECT.json` lists
every component with its status, and, under `hazards`, what in this code is
hard to test, line by line, with the properties that cover it.

## 2. Modules

| Module | Models | Checked by |
|---|---|---|
| `ThreadPool` | `cache/thread_pool.h` | `threadpool`; `ThreadPool_proofs` |
| `DurableStore` | what the shared store promises (abstract) | what `FolderImplements` of `shared_root` maps to, part of `PrecacheBuild` |
| `ContentStore` | `cache/pack.*` | part of `SharedRoot`, `shared_root`; `ContentStore_proofs` |
| `SharedRoot` | two `ContentStore` handles over one folder | `shared_root`, `shared_root_writers`; `ContentStore_proofs` |
| `PrecacheBuild` | `run_game`, `build_game_level`, the completion files, over `DurableStore` | `precache_build`, `precache_build_resume`; `PrecacheBuild_proofs` |
| `BuildControl` | the API's threads against the worker | `build_control`, `build_control_wait`; `BuildControl_proofs` |
| `SelfTestBuild` | `run` and `build_map`: levels built at once | `self_test_build`; `SelfTestBuild_proofs` |
| `ReaderBatches` | the reading calls, the read pool, `index_for` | `read_side` |
| `ArchiveHandles` | the handles of `cas.cpp` | `read_side` |
| `OodleLoader` | `oodle_open` | `read_side` |
| `ReadSide` | the three composed | `read_side`; `ReadSide_proofs` |
| `MountSnapshot` | `mount_tocs`, `mount_ebx_owner` and the snapshot files | part of `SourceIndex` |
| `SourceIndex` | the partition index over `MountSnapshot` | `source_index`, `source_index_refused`; `SourceIndex_proofs` |
| `ScreenRouter` | the stack of `ui_runtime/screen_router.cpp` | part of `FrontendRoutes` |
| `FrontendRoutes` | screen requests between render thread and worker | `frontend_routes`; `Viewer_proofs` |
| `TextureIds` | `viewer/synthetic_texture_ids.h` | `Viewer_proofs` |
| `ParallelFor` | `parallel_for` of `terrain_mesh.cpp` and `decal_draws.cpp` | `ThreadPool_proofs` |

`MC...` modules give the constants that a `.cfg` cannot write.

### ThreadPool

An action is one block of the code that runs with `mutex_` held, or one call
made without it. `submit` is `Submit` (publish under the lock) followed by
`Notify` (`notify_one` after the unlock), `run` is `Take` / `Leave` / `Sleep`,
then `Return` (the task ends) and `CountOff`. Being asleep on a condition
variable is a `pc`; `Spurious` wakes any sleeper. The submitter may be the owner
or a running task. `status` is history.

### DurableStore and ContentStore

`DurableStore` says in five variables what callers rely on: a key is `known` at
once and `durable` after a publication; an answer `flushed` means every known
key is durable; a broken handle never answers well again; a stop forgets only
what is not durable. `ContentStore` has the files: `data` and `idx` give the
records of each segment file (`{}`: no file). A call is one action because it
holds `mutex_`, except that a publication (`roll`, `finish`) is a chain of
steps, `finish` -> `data` -> `index` -> `reopen`, at each of which an operation
may fail or the process die (`Stop`). `remove()`'s ignored error is the second
choice of `RemoveIndex`. The refinement maps `known` to the keys with a segment,
`durable` to the keys in segments that an `open` reaches by counting up from 0,
and `broken` to a writer that is set but unusable.

Record bytes, names and checksums are abstracted: a reader can read a record if
the data file it holds open has it. Temporaries left by a crash are not state,
because `begin` truncates them.

### SharedRoot

Two handles over the same `data` and `idx`: process A has the variables of
`ContentStore`, which the module extends, process B those of an instance of it.
`use` says which processes build, the other only opens, reads and closes, and
whether the player closes one editor before opening the other; `MCSharedRoot`
picks which uses a run starts from. `Folder` maps both together to `DurableStore`:
what is durable is a matter of the files, what is known and answered is that of
the process at work. Two writers that have the same-numbered segment open at once
would also share its temporaries; that overlap is left out (`OneSegment`).

### PrecacheBuild

One build loop over `Order`, with `complete`, `installed` and `packs` as the
files that survive. `pc` follows `run_game` and, inside a level,
`build_game_level`: placements pack, mesh loop, texture tasks, terrain pack;
then the flush, `complete.json`, and after the loop the last flush, the verdict
and `install-complete.json`. Every call that can answer false has a failing
step; `Stop` kills the process anywhere. The shared store is `DurableStore`, so
a `put` or a `flush` takes as many steps as the store needs and may fail; what
`shared_root` checks and `ContentStore_proofs` proves is that the real store
allows no more than that. Texture tasks are bounded by `PoolThreads` at a time,
which is what `ThreadPool` provides, and a `put` by a task holds the store's
lock. Meshes are visited in any order (the code's order is one of them). What
the game readers return is external: a record, or nothing for `Unreadable`.
`error` and `interrupted` are history.

### BuildControl

The atomic accesses of `bf6_precache_build_start`, `_cancel`, `_wait`, `_close`
and of the worker, one action for each access of a shared flag, of the locked
progress state, or of the `std::thread` object. `cancelling[c]` is how far a
caller is inside `_cancel`. One thread (`owner`) starts, waits and closes, as
the API requires of a handle that is freed by close; any thread cancels. The
list of levels changes from build to build. Building a level is one step that
works or fails.

### SelfTestBuild

`run` submits one task per level that is not complete, waits and concludes;
`build_map` is a task's path through the layers, `layer` (the records, into the
store), `finish` (the pack), then `flush` and `mark`. At most `Threads` tasks
are inside. A call of the store holds its mutex and is one step; what it did to
the disk is as loose as `DurableStore` allows (`durable'` may have grown or
not). A record that cannot be put may break the store for all, a flush that fails
does (`FlushFails`), the last one of `run` included. `TaskThrows` is the exception that `thread_pool.h:65` swallows; `lost` remembers its level.

### ReaderBatches, ArchiveHandles, OodleLoader, ReadSide

`ReaderBatches` has the calls: a batch takes `batch_mutex` (`Enter`), gets or
makes the pool, submits its items and returns when nothing is on the pool; a
single call looks meshes up on its own thread. `LookUp` is `index_for` and the
`find`, one hold of `index_mutex`; reading a level's placements may fail.
`ArchiveHandles` opens archives one by one for a thread that wants them in an
order: all of them for a mesh, the first that works for a texture. `SlotsUsed`
is the C runtime's count; `Refused`, `Retry` and `RefusedAgain` are the EMFILE
path, and `AfterRefusal` what is remembered of it: nothing. `OodleLoader` is `oodle_open` statement by statement, since its callers
hold different locks or none. `ReadSide` puts them together: a texture call
opens the codec before its batch, a mesh task inside its item under the lock of
`bf6_meshset_surfaces_reference`, a thread of another pool as a mount does. The
answers are traced back to the key that was read.

### MountSnapshot and SourceIndex

A stamp is a TOC, its version and what of it was mounted; a key is the sequence of
the stamps itself (the code hashes them). The four tables of a `Source` are one
mapping from names to stamps, layers below an overlay, first mount wins
(`FirstWinning`). `mount_tocs` runs through `stamp` (one file after another),
`load`, `mount` (stamp, then read, per TOC), `write`, `rename`, `sweep` (one list;
per chain a check, then its files one at a time), `cap` and `evict`, and at each
step other processes, a cancel, an exit or a patch may come in. `ReadNext` has the
outcomes of a read: the file is missing; it is read; it is refused, and the TOC not
mounted; or bundles of it are passed over and the TOC mounted without their names.
`Refused` is any open or read of a file that is there and fails in passing, of a
TOC, a bundle, a snapshot or an index; `faults` counts them. A removal may fail for
a file somebody has mapped. `OwnerRead`, `OwnerAdd` and `OwnerFails` are
`mount_ebx_owner`, which adds one name and stamps it after the read. `whole` is
history: no read that a process's tables, a snapshot or an index rests on was
refused.

The list of a chain's files is taken with the check of its stamps, where the code
lists the directory once more: a file that comes in between may be removed in the
code and stays in the model. Any file may be removed at any time by the cap, so
nothing rests on it.

`SourceIndex` adds the partition index: `Ask` finds it built, on disk, or starts
a read, in which each of several threads claims the next slot, reads a header,
and puts the guid in its slot, or nothing when there is no guid or the archive could
not be opened (`ReadHeader`); `Publish` folds the slots in archive order and
stores the index. The index lives under the tables' key in the same directory,
where sweep and cap find it. `Grew` is `tables_grew`.

### FrontendRoutes and ScreenRouter

A request takes its number under one lock (`Navigate`, `Back`, `BootRoute`),
replaces the queue under another (`Queue`), and raises the pending flag
(`Flag`). The worker takes it, routes it through `ScreenRouter` and answers: a
payload, or, when refused, the end of the transition. The render thread notices
a payload and presents it if its number is the latest.

### TextureIds and ParallelFor

`IdFor` is the walk of `id_for` to the first id nobody owns, from the hash of
the key and around the end of the span; it runs under the registry's mutex, so
it is one step. `ParallelFor` has the atomic counter, the threads that start
late or never get an index, and the join. Both are proved, not run.

## 3. Runs

Bounds are named constants. Each run explores its whole state space.

| Run | Bounds | Distinct states | Shows |
|---|---|---|---|
| `threadpool` | 2 workers, 3 tasks | 5,671 | counts, wake-ups, waits and the destructor, safety and liveness |
| `shared_root` | 4 keys, 2 keys fill a segment, 3 segments; one builder and one reader, or two builders in turns | 40,823 | the store's invariants over sessions of both, `DurableStore` implemented by the folder, a reader never disturbed |
| `shared_root_writers` | 3 keys, 2 segments, two builders at once | violation | a published pack is replaced |
| `precache_build` | 2 levels, 3 meshes, 3 textures, 2 tasks at a time | 108,689 | completion files, cancel, resume, termination |
| `precache_build_resume` | same | violation | a resumed level lacks textures |
| `build_control` | 2 levels, 2 calling threads | 72,310 | flags, thread object, shown state |
| `build_control_wait` | 2 levels, one calling thread | violation | wait returns Cancelling |
| `self_test_build` | 3 levels of 2 layers, 2 workers, 1 failure, 2 builds | 3.2 million | complete levels are served, Done is whole |
| `read_side` | a mesh batch of 2, a texture batch, a single call, 2 workers, 1 other thread, 0 slots raised to 2 | 4.8 million | one batch at a time, answers of the right level, codec loaded, archives given up only when full |
| `source_index` | 2 processes, one of which asks for the index; 2 Sources begun; 2 TOCs of which one may be missing and is patched, 3 names, 2 stamps, 2 reading threads, 1 cancelled read, 1 refusal, 2 files kept | 8.7 million | tables, snapshots and index are those of the installed files |
| `source_index_refused` | same | violation | tables that lack what was refused are stored as whole |
| `frontend_routes` | 2 screens, 5 requests | 302,763 | Back finds a screen, every latest request settles |

Why the bounds are enough. Two workers and three tasks give a sleeper, a busy
worker and a queued task at once, and a task that submits another; the
invariants are proved for every number of both. Two keys per segment and three
segments give a full roll, a flush of a part-filled segment, a pending segment
after published ones, and a reopening with any number of each, by the same process
or the other; the invariants are proved for every number. Two levels that share a mesh, where the first
names a mesh and the second a texture the reader cannot produce, give each
level a record it must store, one it finds stored and one it must pass over. In
`build_control` a build of one level can follow one of two, and the other way
round, with a cancel of either still under way. In `self_test_build` three
levels on two workers leave one queued while one breaks the store and another
goes on, and the second build finds what the first left. In `read_side` the
mesh batch and the single call ask for different levels with a mesh in common; no
slot is free at first, so whichever threads read first are refused side by side and
raise the limit, after which two handles fit for three threads that read; and one
archive can never be opened. In `source_index` a list repeats a TOC, and a patch brings a
name the other TOC lists too and a guid another partition has, both of which only
the order of mounting decides; with two files kept, the cap evicts. Two Sources are
begun, in one process after a restart or in two side by side: one leaves files that
the other loads, sweeps, evicts or replaces. One refusal hits any one open or read
of either. In `frontend_routes` a Back, the
request it follows, a later one and the worker's own are all under way; five
requests are the fewest with which a Back can be accepted over a stack of one
(section 4), and four leave that out.

`CHECK_DEADLOCK FALSE` stands where the system may rest: after close nothing may
be called (`build_control`), all processes have ended or mounted everything
(`source_index`), the user has made the last request (`frontend_routes`).

What the runs leave out, and why. In `source_index` a mount step of one process
is not placed inside an index read of another: they touch no common state but
the files, which a read looks at only when it begins and ends. In `read_side`
submitting does not throw and all calls name one game directory. Some properties
name what they do not speak of, because the code lets it go wrong there (section 4
has each case): `InstallMeansComplete` of `self_test_build` a level whose task threw
(`lost`); `RouteSettles` requests of the user made before the worker's first one is
queued (`early`); `BackFindsScreen` a Back after a navigation has overtaken another
request (`overtaken`); the properties of `source_index` what rests on a refused read
(`whole`), and `IndexIsExpected` also a cancelled read. Of tables and snapshots the code's
comments promise it without `whole`: `source_index_refused` shows that it fails.

### Properties worth a word

- `NoLostWakeup`, `WaiterNotForgotten`: the two ways a condition variable fails;
  they are what the liveness properties of the pool rest on.
- `FlushedIsDurable`: after a failed roll the keys of the lost segment are still
  in `where_`. Nothing goes wrong only because `writing_` stays set over a
  closed writer, so that every later flush fails. The mutant that resets it
  breaks the property.
- `MapUsable`: `complete.json` is "Written last, atomically, after every layer
  file of the map is durable" (`cache_store.h:60`), also over crashes, shared
  meshes and resumed levels. `CompleteIsServed` is the same for levels built at
  once, where the flush of one level must not vouch for records another has
  just broken.
- `TexturesIfUninterrupted`: the part of "a complete level has its textures" that
  does hold; the rest is the first finding.
- `CancelIsNoFailure`: a build cancelled without any failure of its own ends
  Idle, though every level it cut short counted as failed.
- `WorkerAlone`: `build_start` touches the layers, the list and the progress
  without a lock, and assigns a `std::thread` that may be joinable.
- `StopsAfterUnit`: no cancel is lost, however early in a build and from
  whichever thread it comes.
- `AnswerIsOwn`: the index is of one level at a time and calls of two levels
  take it from each other between two items of one batch.
- `ReadersHaveCodec`: callers without a common lock load the library side by
  side, each through the globals of the others; all the same no thread reads
  without the entry point, since all loads of one directory end alike.
- `TablesAreDirect`, `WholeSnapshots`: the snapshot key is made of stamps
  taken before the files are read. A patch in between leaves another sequence
  of stamps, which is tested before the save. A name added by `mount_ebx_owner`
  keeps its process from using snapshots, since it lies in the overlay.
- `GivenUpWhenFull`: a thread remembers the archives it could not open. Were a
  refusal for want of a slot remembered too, as it once was (the comment at
  `cas.cpp:236`), the archive would be passed over when slots are free again.
- `FolderImplements`: one promise for all sessions of both processes, the crashed
  ones included; the answer to a flush is what the other process later finds.
- `BackFindsScreen`: Back is judged by the depth shown and popped from the
  worker's stack. They agree while no navigation overtakes another request;
  `overtaken` remembers that one has, until a screen is shown again.
- `IndexIsExpected`: an index outlives a mount that replaces the tables by a
  snapshot with the same names, and must not outlive one that adds to them.

### Fairness

`ThreadPool`: each worker's own steps, each notification that is due, and the
owner once it is inside a call are weakly fair (the system schedules runnable
threads); tasks end; nobody has to submit, wait or destroy. Spurious wake-ups
are not fair. `PrecacheBuild`: the worker and its tasks go on (one `WF`): each
call of the core ends, well or badly; nobody has to open, start or cancel.
`BuildControl`: the worker goes on, and so does a call that has begun.
`FrontendRoutes`: the worker makes its first request and goes on, a request that
has begun is queued, and the render thread looks for a screen each frame; the
user does not have to ask for anything. The other specifications state none.

## 4. What was found

By a run:

1. **A resumed level can be completed without its textures**
   (`precache_build_resume`, `cache/game_layers.cpp:202`). Texture names are
   collected only from meshes read anew; a level cut short after its meshes were
   stored finds them known the next time and collects nothing.
2. **`bf6_precache_build_wait` can return Cancelling** (`build_control_wait`,
   `cache/cache_api.cpp:752`). `cancel` tests `running` and then shows
   Cancelling, in two steps; the worker ends in between.
3. **Two processes that build in the shared folder replace each other's
   segments** (`shared_root_writers`, `cache/pack.cpp:111`), because the number of
   the next segment is read once, at open.
4. **A refused read is stored as a healthy mount** (`source_index_refused`,
   `source.cpp:191`). The stamp is added before the file is read and says nothing of
   how the read ended; a bundle that cannot be read is passed over (`:217-223`) and
   its TOC mounted. The tables that lack it are saved under the key of a mount that
   lacks nothing, although the comment at `source.cpp:187` counts failed attempts
   among what a key determines.

Seen while modelling, and no run of this project:

- Done is shown just before `running` is lowered (`cache/cache_api.cpp:293`), so
  `bf6_precache_ready` may answer 0 to a caller that has just seen Done.
- A level whose task throws is counted off by the pool and by nobody else
  (`thread_pool.h:65`): the self-test build says Done without it.
- A header whose archive cannot be opened for the moment (`source.cpp:529`, the
  refusals of `cas.cpp:252` included) leaves an empty slot, like a partition that
  has no guid. The index with the hole answers until the tables grow, and is stored
  (`source.cpp:651`) for later processes. `StoredIsWhole` without `whole` fails so.
- `mount_ebx_owner` stamps the TOC after it has read it (`source.cpp:298`), where
  `mount_toc` stamps first: of a patch in between the sequence has the new stamp and
  the tables the old entry. Nothing is stored under it, as the overlay is not empty.
- The sweep takes a chain for stale when its first layer is missing, which is
  also so while another process still writes it, or when the cap evicted it; the
  comment at `source.cpp:1536-1540` says such chains stay. Only time is lost.
- `armory_partition_index` stores its index whether the read was cancelled or
  not (`source.cpp:762`), where `partition_index` looks (`source.cpp:651`).
- A cancelled `partition_index` marks itself built (`source.cpp:600`) and
  serves the partial index until the tables grow.
- `sweep_stale` removes roots another process may have open
  (`cache/cache_store.cpp:285`), file by file.
- If `submit` throws inside a batch (`cache/cache_api.cpp:494`), the call unwinds
  while its tasks refer to its locals.
- `oodle_open` stores its globals before it tests them (`oodle.cpp:28`): with
  two game directories, one call's failure could clear another's success.
- `load_costs` keeps an empty table when the read fails (`budget.cpp:65`), where
  `load_catalogue` of `spatial_export.cpp` keeps nothing.
- The pending flag is raised after the request is queued
  (`viewer/bf6viewer.cpp:6503`); a worker that refuses the request in between
  leaves it raised, and every Back is consumed until another screen comes.
- A request is numbered under one lock and queued under another
  (`viewer/bf6viewer.cpp:6491-6501`). The worker's own first request can take the
  lower number, and be queued last, over one of the user's: the user's is cleared,
  and the first one's screen is stale when it comes, so no screen is shown until the
  user asks again.
- A routed screen that a later request made stale is dropped while the stack
  keeps it (`viewer/bf6viewer.cpp:24646`): if the later one is refused, Back pops
  a screen nobody saw. It also works the other way: the screen dropped may be
  that of a `replace` or of a Back, so that depth 2 is shown over a stack of one.
  Back is then accepted (`:6513`), refused by the router (`:24430`), and again,
  until another screen is shown. Without `~overtaken`, `BackFindsScreen` fails so.
- `g_quit` is stored and notified without the lock of the waiting worker
  (`viewer/bf6viewer.cpp:31153`), once: the join at exit may wait for ever.

## 5. Proofs

All theorems are for any values of the constants allowed by the modules'
assumptions. tlapm checks each module from nothing in about a minute or less.

`ThreadPool_proofs` proves `Invariance`: the conjunction of `TypeOK`,
`CountExact`, `NoLostWakeup`, `WaiterNotForgotten` and `DrainedAtJoin`,
strengthened by facts that relate the queue to the tasks' history (a task is in
the queue exactly once when it is `queued`, and held by exactly one worker when
it is running or counted). The invariants need that: `outstanding_` is a
cardinality, and it changes by one only if no task is queued twice. `WaitSound`
follows as an action property. Assumptions: `Tasks` is finite, there is a
worker, the owner is not one.

`ContentStore_proofs` proves `Invariance` for `IInv`, which adds to the runs'
invariants where each step of a publication stands: the segment to write is the
first without an index (or with the removed one), the keys of `where_` below it
are exactly the published ones, those at it are the pending rows, and a handle
whose writer is unusable stays so. From it follow the five safety invariants,
`KeptOnDisk`, and `Refinement`: `Spec => Abs!Spec` (initial states map to initial
states, and each step to a step of `DurableStore` or a stutter; only
`RenameIndex` publishes, all other file steps stutter). Assumptions: `Keys` is
finite, the bounds are natural numbers.

`PrecacheBuild_proofs` proves `Invariance` for an `IInv` that follows the data of
the level being built. A complete level says its meshes are durable, but a step
of the mesh loop says only that the store knows them; so `IInv` carries "every
readable mesh the loop has passed is known" from phase to phase
(`MeshesKnown`), "flushed means known is durable" across the flush
(`StoreSound`), and "the packs of the open level are published, and the level is
not complete" (`LevelOpen`), which together make `MapUsable` hold at the moment
`complete.json` is written. `LevelsLeft` is the same idea for the list: in a run
that has not failed every level is complete or still to do. `Blamed` traces each
failure to an error or a cancel. `TexturesKnown` says, while no level was left
half-built, that the textures of known meshes are known or about to be; its
guard is what the first finding breaks. The store enters only by the promise of
`DurableStore` (`PutFacts`, `FlushFacts`, `StoreFacts`). Assumptions: those of
`BuildAssumption` on the shape of the tables; no finiteness.

`BuildControl_proofs` proves `Invariance` for an `IInv` that ties the flags to the
owner's and the worker's steps: the running flag is up from the moment a start
raised it (`Raised`), a cancel of the current build stays visible to its worker
(`AskedKept`), and the levels of the list not complete yet are those the worker
has still to come to (`RestKnown`). `WorkerAlone`, `RunningCovers` and
`DoneIsWhole` are conjuncts of it, and the action property `StopsAfterUnit`
follows from it.

The second half of `ContentStore_proofs` is about `SharedRoot`. With one builder
(`use = OneBuilds`) a step of the folder is a step of the builder's store or one of
the reader, which leaves the builder's variables alone; so the folder implements
the specification of a store used alone (`BuilderIsStore`), and, since `Folder` is
then that store's own mapping, `DurableStore` (`FolderCorrect`). `ReaderServed` needs `View`: the
segments below the reader's `segment_` are published, and are as it read them; what
it knows is in one of them. A builder's step keeps that because it changes the data
or the index only of the segment it has open, which has no index before
(`PublishedStay`, also the reason of `PackWrittenOnce`). The reader does not satisfy
`IInv` of its own: segments are published behind its back. Two processes that build
in turns implement the specification of one store (`TurnsAreSessions`): the handle
in turn has the members of the one that is open, and a closed handle those of one
never opened. That this carries over what is proved of the one store is plain, but
the three properties themselves are proved for `OneBuilds` only, because tlapm does
not cite the theorems of an instance; for turns they are checked by TLC.

`SelfTestBuild_proofs` proves `IInv`, which says of each task what the store owes
it: the layers it has put behind it are known and have their packs
(`TasksKeepUp`), and before `mark` every layer is durable. A broken store makes no
step of another task succeed, so nothing is owed for what was lost. `OverIsTold`
says of a task that is over that its level is complete, lost, or the build has
failed; the verdict reads no more than that. Assumptions: the layers are
numbered from 1, there is one, and they are finitely many.

`ReadSide_proofs` proves an invariant with one part per component: `CallInv` (what
is on the pool is the holder's of `batch_mutex`, and the holder has not returned;
the index has the keys of its level), `LoaderInv` (what each line of `oodle_open`
may rely on while any number of threads are inside it), `HandleInv` (handles in use
are within the limit, and a retry comes after the raise; what a thread remembers as
not to be opened is really gone), and `Crossing` for what
they owe each other: a batch of textures has the codec when it is entered, a worker
reads for the record it looked up. The safety invariants are conjuncts, or follow;
`GivenUpWhenFull` is an action property. `ReadAssumption` says what the shape of
the constants must be: threads and archives are finitely many, callers are not
threads of a pool, plans are sequences of archives.

`Viewer_proofs` proves `Pipeline`, from which `BackSafe` follows. The invariant
follows a pop from the render thread to the worker: what is ahead of it was asked
for earlier, what is behind it later (`PopInOrder`); unless a navigation has
overtaken, it is the last request, the flag is up or about to be, and the stack has
a screen to spare (`PopHeld`), and the stack is less deep than what is shown only
while the screen that will show it is on its way with nothing behind (`LagHeld`).
Trying to prove the property without `overtaken` is what led to the counterexample
in section 4. The same module proves of the texture ids (`TextureIds`, as an
instance over variables of its own) that the type and `NeverAliased` are inductive,
since the walk ends only at an id nobody owns, and `IdsKept`; that the walk ends
while there are fewer keys than ids needs a cardinality argument over the walk and
is not proved.

`ThreadPool_proofs` ends with the other way the code spreads work over threads,
`ParallelFor`, as an instance: `RunOnce` and `AllRunAtReturn`, from an invariant that
says of each index below the counter whether it has been run or who is in it, and
of a runner that is out that the counter had passed the count.

`SourceIndex_proofs` proves one invariant for mounting and index together, since
their files share a directory. It rests on this: a stamp is never ahead of its TOC
(`Past`), so stamps that are those of the installed files now were so in every
state since they were taken, and everything the invariant says is said under that
condition (`Now`), and of what no refused read is behind (`whole`). `TablesSound`:
the tables of a process are `Direct` of the stamps whose TOCs it has read, in
whatever phase it is. `MappingSound`: what lies below a snapshot to be loaded or
saved is `Direct` of the parent's stamps; hence what is written, and what is loaded
on top, is right. `FilesSound`: a file holds what its key says, on top of the tables
of its parent, temporary files included, so a rename or a removal by anybody does no
harm, one file at a time or many. `ReadSound`: a claimed partition has been read or
its worker holds it, a worker that is out holds none and, unless the read was
cancelled, has seen the end of the list. The lemmas are about tables in layers
(`LayeredAppend`, `FirstWins`, `DirectAppend`) and about the members of a set of
numbers in their order (`InOrder`, `FoldIsExpected`), by well-founded induction over
subsets. No bound on refusals is assumed, only that `MaxFaults` is a number: any
open or read may be refused, and `whole` says what then is not claimed.
Assumptions: a TOC lists finitely many names, which are numbered from 1; `"stored"`
and `"pidx"` name no process; there is a worker.

The type of each component is a conjunct of its invariant; the runs check only what
could be false for other reasons.

Left to TLC: everything under fairness (liveness is out of the prover's reach),
`SharedRoot` with two builders in turns, and of course what the violation runs
refute.

## 6. Not modelled

- Record bytes, checksums and names, free disk space as a quantity (a write just
  may fail), and `fsync` (the code does not call it; a crash is a crash of the
  process, not of the machine).
- Decoders, expression machines, simulations, rendering, layout and the control
  runtime: most of the repository's lines. They transform data, in one thread
  and largely in floating point or over proprietary formats, and keep no state
  between calls whose order could be wrong; a model would repeat the program.
  The share of lines the models stand for is small for this reason.
- Progress rows and fractions: floating point that is shown and decides nothing.
- `root.json`, `sweep_stale` and the stamped file caches of `budget.cpp` and
  `spatial_export.cpp`; the armory index; the hash layers and name strings of
  `MountTable`.
- The viewer's other queues (weapons, scenes, icons, studio) and the boot movie,
  whose clock is the audio device.

## 7. Plan

1. Proofs: that the walk of `TextureIds` ends while ids are left, and the properties
   of `SharedRoot` for builders in turns from `TurnsAreSessions`.
2. `SelfTestBuild` and `PrecacheBuild` over `ContentStore` itself, through
   `Refinement`.
3. The cache roots with two processes of different contents, and the job worker
   of the viewer with its four queues.
