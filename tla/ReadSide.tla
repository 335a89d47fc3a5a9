-------------------------------- MODULE ReadSide --------------------------------
(***************************************************************************)
(* Reading an open cache: the batches of ReaderBatches, whose tasks load   *)
(* the codec (OodleLoader) and read archives (ArchiveHandles), beside      *)
(* threads of other pools that read the same archives.                     *)
(***************************************************************************)
EXTENDS ReaderBatches

CONSTANTS Others,        \* threads of other pools, each with its own handles
          Plan,          \* the archives each item names
          OtherReads,    \* and those the other threads read
          Archives, Gone, DefaultSlots, RaisedSlots

VARIABLES limit, open, nulls, left, all, retrying, served,
          library, pc, g_oodle, g_decompress, looked, result,
          stage          \* of each reading thread: "idle", "opening", "reading"

Threads == Workers \cup Others
Items == UNION {ItemsOf[a] : a \in Askers}

ASSUME ReadAssumption ==
    /\ IsFiniteSet(Threads) /\ IsFiniteSet(Archives)
    /\ Callers \cap Threads = {} /\ Singles \cap Workers = {} /\ Nobody \notin Askers
    /\ ItemsOf \in [Askers -> SUBSET Items] /\ Plan \in [Items -> Seq(Archives)]
    /\ OtherReads \subseteq Archives
    /\ DefaultSlots \in Nat /\ RaisedSlots \in Nat /\ DefaultSlots <= RaisedSlots
\* mesh_surfaces_reference takes its own mutex; texture_chunks and a mount none.
LockOf == [t \in Threads \cup Callers |-> IF t \in Workers THEN "oodle_mutex" ELSE "none"]

H == INSTANCE ArchiveHandles
L == INSTANCE OodleLoader WITH Threads <- Threads \cup Callers

handles == <<limit, open, nulls, left, all, retrying, served>>
loader == <<library, pc, g_oodle, g_decompress, looked, result>>
vars == <<callVars, handles, loader, stage>>

Init == CallInit /\ H!Init /\ L!Init /\ stage = [t \in Threads |-> "idle"]

-----------------------------------------------------------------------------
\* A texture call opens the codec before it takes the batch, and gives up without.
NeedsCodec(c) == LevelOf[c] = NoLevel /\ call[c] = "idle"

OpenCodec(c) ==
    /\ NeedsCodec(c) /\ result[c] = "none" /\ L!Open(c)
    /\ UNCHANGED <<callVars, handles, stage>>

NoCodec(c) ==
    /\ NeedsCodec(c) /\ result[c] = "false"
    /\ call' = [call EXCEPT ![c] = "failed"]
    /\ UNCHANGED <<batch, pool, unsent, queue, busy, index, answer, handles, loader, stage>>

EnterBatch(c) ==
    /\ NeedsCodec(c) => result[c] = "true"
    /\ Enter(c) /\ UNCHANGED <<handles, loader, stage>>

\* readers() raises the limit, then makes the threads, which may fail.
GetReaders(c) ==
    /\ MakesPool(c) \/ MakesNone(c)
    /\ limit' = IF pool THEN limit ELSE H!Raise
    /\ UNCHANGED <<open, nulls, left, all, retrying, served, loader, stage>>

\* A call that looks its meshes up itself takes the record and no bytes.
TakesRecord(s) ==
    /\ busy[s].key # <<>> /\ Ends(s, busy[s].key)
    /\ UNCHANGED <<index, handles, loader, stage>>

-----------------------------------------------------------------------------
At(t, s) == stage[t] = s /\ left[t] = <<>> /\ pc[t] = "out"
Goes(t, s) == stage' = [stage EXCEPT ![t] = s]
HasRecord(w) == busy[w].key # <<>>

\* mesh_surfaces_reference, and a mount, open the codec first.
Opens(t) ==
    /\ At(t, "idle") /\ Goes(t, "opening")
    /\ t \in Workers => HasRecord(t) /\ ForMesh(t)
    /\ L!Open(t) /\ UNCHANGED <<callVars, handles>>

Begins(w) ==
    /\ HasRecord(w) /\ Goes(w, "reading")
    /\ IF ForMesh(w) THEN At(w, "opening") /\ result[w] = "true" ELSE At(w, "idle")
    /\ H!Begin(w, Plan[busy[w].item], ForMesh(w)) /\ L!Used(w)
    /\ UNCHANGED callVars

OtherBegins(o) ==
    /\ At(o, "opening") /\ result[o] = "true" /\ Goes(o, "reading")
    /\ \E a \in OtherReads : H!Begin(o, <<a>>, TRUE)
    /\ L!Used(o) /\ UNCHANGED callVars

GivesUp(t) ==
    /\ At(t, "opening") /\ result[t] = "false" /\ Goes(t, "idle") /\ L!Used(t)
    /\ IF t \in Workers THEN Ends(t, Unread) /\ UNCHANGED index ELSE UNCHANGED callVars
    /\ UNCHANGED handles

Finishes(t) ==
    /\ At(t, "reading") /\ Goes(t, "idle") /\ H!Ends(t)
    /\ IF t \in Workers
         THEN Ends(t, IF served[t] = "none" THEN Unread ELSE busy[t].key) /\ UNCHANGED index
         ELSE UNCHANGED callVars
    /\ UNCHANGED loader

Codec(t) == L!Run(t) /\ UNCHANGED <<callVars, handles, stage>>
Reads(t) == H!Read(t) /\ UNCHANGED <<callVars, loader, stage>>
Exits(o) == At(o, "idle") /\ H!Exit(o) /\ UNCHANGED <<callVars, loader, stage>>

Next ==
    \/ CallStep /\ UNCHANGED <<handles, loader, stage>>
    \/ \E c \in Callers :
          OpenCodec(c) \/ NoCodec(c) \/ EnterBatch(c) \/ GetReaders(c) \/ Codec(c)
    \/ \E s \in Singles : TakesRecord(s)
    \/ \E w \in Workers : Begins(w)
    \/ \E o \in Others : OtherBegins(o) \/ Exits(o)
    \/ \E t \in Threads : Opens(t) \/ GivesUp(t) \/ Finishes(t) \/ Codec(t) \/ Reads(t)

Spec == Init /\ [][Next]_vars

-----------------------------------------------------------------------------
Tasks == {queue[i].for : i \in DOMAIN queue} \cup ({busy[w].for : w \in Workers} \ {Nobody})

\* cache_api.cpp:119, "one batch on the pool at a time (wait() is pool-wide)": a task
\* on the pool is the holder's, whose locals it refers to.
OneBatchAtATime == Tasks \subseteq {batch}

\* What a call is given for an item is the record its own level places, whatever
\* levels other calls ask for before, between and meanwhile.
AnswerIsOwn ==
    \A a \in Askers : \A i \in ItemsOf[a] :
        answer[a][i] \notin {Unasked, Nothing, Unread} => answer[a][i] = Key(LevelOf[a], i)

\* cas.cpp:236, "OUT OF STDIO SLOTS IS NOT A MISSING ARCHIVE": an archive that is there
\* is passed over only in a read made with every slot of the raised limit in use,
\* whoever raised it; in particular not for a refusal of an earlier read.
GivenUpWhenFull ==
    [][\A t \in Threads :
          left[t] # <<>> /\ Head(left[t]) \notin Gone /\ left'[t] # left[t]
            /\ served'[t] # Head(left[t]) => H!SlotsUsed = RaisedSlots]_vars

\* oodle.h:18, "Idempotent; safe to call repeatedly": a thread that reads finds the
\* codec's entry point, however its load was interleaved with the others'.
ReadersHaveCodec == \A t \in Threads : left[t] # <<>> => g_decompress # L!Null
=============================================================================
