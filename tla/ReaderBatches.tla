----------------------------- MODULE ReaderBatches -----------------------------
(***************************************************************************)
(* The reading calls of cache_api.cpp on one open cache.                   *)
(* bf6_precache_mesh_surfaces and bf6_precache_texture_chunks hold         *)
(* batch_mutex while their tasks are on the one persistent pool, because   *)
(* the pool's wait waits for every task there is; the tasks refer to the   *)
(* locals of the call.  A mesh is looked up in the index of one level,     *)
(* replaced under index_mutex when another level is asked for.             *)
(* bf6_precache_mesh_texture_names looks meshes up on its own thread, with *)
(* no batch.  The pool is taken as ThreadPool shows it; what a task reads  *)
(* after the look-up is ReadSide's.                                        *)
(***************************************************************************)
EXTENDS Naturals, Sequences, FiniteSets

CONSTANTS Callers,       \* threads that call for a batch
          Singles,       \* threads that look meshes up themselves
          Workers, Levels,
          LevelOf,       \* the level each of them asks for, NoLevel for textures
          ItemsOf,       \* the meshes or textures it asks for
          Placed,        \* the meshes each level's placements name
          LoadFails      \* reading a level's placements may fail

NoLevel == ""
Nobody == "nobody"
Askers == Callers \cup Singles
Executors == Workers \cup Singles

VARIABLES call,       \* "idle", "entered", "submitting", "waiting", "done", "failed"
          batch,      \* the holder of batch_mutex
          pool,       \* the persistent pool is there
          unsent,     \* items of each call still to submit or to look up
          queue,      \* tasks on the pool
          busy,       \* what each executor is on, or Idle
          index,      \* [level, keys]: index_level and mesh_index
          answer      \* per call and item: a key, or why there is none

callVars == <<call, batch, pool, unsent, queue, busy, index, answer>>

Task(a, i) == [for |-> a, item |-> i, key |-> <<>>]
Idle == Task(Nobody, "")
Key(l, m) == <<l, m>>
Unasked == <<"unasked">>
Nothing == <<"nothing">>
Unread == <<"unread">>
NoIndex == [level |-> NoLevel, keys |-> {}]

CallInit ==
    /\ call = [c \in Callers |-> "idle"] /\ batch = Nobody /\ pool = FALSE
    /\ unsent = ItemsOf /\ queue = <<>>
    /\ busy = [e \in Executors |-> Idle] /\ index = NoIndex
    /\ answer = [a \in Askers |-> [i \in ItemsOf[a] |-> Unasked]]

-----------------------------------------------------------------------------
Free_Always == TRUE
Free == batch = Nobody

Enter(c) ==
    /\ call[c] = "idle" /\ Free
    /\ call' = [call EXCEPT ![c] = "entered"] /\ batch' = c
    /\ UNCHANGED <<pool, unsent, queue, busy, index, answer>>

MakesPool(c) ==
    /\ call[c] = "entered" /\ pool' = TRUE
    /\ call' = [call EXCEPT ![c] = "submitting"]
    /\ UNCHANGED <<batch, unsent, queue, busy, index, answer>>

\* The threads cannot be made: the exception releases the mutex, the call answers -1.
MakesNone(c) ==
    /\ call[c] = "entered" /\ ~pool
    /\ call' = [call EXCEPT ![c] = "failed"] /\ batch' = Nobody
    /\ UNCHANGED <<pool, unsent, queue, busy, index, answer>>

Submit(c) ==
    /\ call[c] = "submitting"
    /\ \E i \in unsent[c] :
         /\ unsent' = [unsent EXCEPT ![c] = @ \ {i}]
         /\ queue' = Append(queue, Task(c, i))
    /\ UNCHANGED <<call, batch, pool, busy, index, answer>>

AllSent(c) ==
    /\ call[c] = "submitting" /\ unsent[c] = {}
    /\ call' = [call EXCEPT ![c] = "waiting"]
    /\ UNCHANGED <<batch, pool, unsent, queue, busy, index, answer>>

Outstanding == Len(queue) + Cardinality({w \in Workers : busy[w] # Idle})

\* The guard's end is the release.
Return(c) ==
    /\ call[c] = "waiting" /\ Outstanding = 0
    /\ call' = [call EXCEPT ![c] = "done"] /\ batch' = Nobody
    /\ UNCHANGED <<pool, unsent, queue, busy, index, answer>>

-----------------------------------------------------------------------------
Take(w) ==
    /\ pool /\ busy[w] = Idle /\ queue # <<>>
    /\ busy' = [busy EXCEPT ![w] = Head(queue)] /\ queue' = Tail(queue)
    /\ UNCHANGED <<call, batch, pool, unsent, index, answer>>

\* The next mesh of a call that does its own looking up.
Ask(s) ==
    /\ busy[s] = Idle
    /\ \E i \in unsent[s] :
         /\ unsent' = [unsent EXCEPT ![s] = @ \ {i}]
         /\ busy' = [busy EXCEPT ![s] = Task(s, i)]
    /\ UNCHANGED <<call, batch, pool, queue, index, answer>>

\* An item that ends with this answer; the pool counts its task off.
Ends(e, a) ==
    /\ answer' = [answer EXCEPT ![busy[e].for][busy[e].item] = a]
    /\ busy' = [busy EXCEPT ![e] = Idle]
    /\ UNCHANGED <<call, batch, pool, unsent, queue>>

\* What it reads next.
Found(e, k) ==
    /\ busy' = [busy EXCEPT ![e].key = k]
    /\ UNCHANGED <<call, batch, pool, unsent, queue, answer>>

ForMesh(e) == LevelOf[busy[e].for] # NoLevel

Loaded(l) == [level |-> l, keys |-> {Key(l, m) : m \in Placed[l]}]

Current_Any(l) == index.level # NoLevel
Current(l) == index.level = l

\* index_for and the look-up, in one hold of index_mutex.
LookUp(e) ==
    /\ busy[e] # Idle /\ busy[e].key = <<>> /\ ForMesh(e)
    /\ LET l == LevelOf[busy[e].for]
           now == IF Current(l) THEN index ELSE Loaded(l)
           found == {k \in now.keys : k[2] = busy[e].item}
       IN \/ /\ index' = now
             /\ IF found = {} THEN Ends(e, Nothing) ELSE Found(e, CHOOSE k \in found : TRUE)
          \/ /\ LoadFails /\ ~Current(l)
             /\ index' = NoIndex /\ Ends(e, Nothing)

\* A texture's record is named by the texture alone.
Named(e) ==
    /\ busy[e] # Idle /\ busy[e].key = <<>> /\ ~ForMesh(e)
    /\ Found(e, Key(NoLevel, busy[e].item)) /\ UNCHANGED index

CallStep ==
    \/ \E c \in Callers : Submit(c) \/ AllSent(c) \/ Return(c)
    \/ \E w \in Workers : Take(w) \/ Named(w)
    \/ \E s \in Singles : Ask(s)
    \/ \E e \in Executors : LookUp(e)
=============================================================================
