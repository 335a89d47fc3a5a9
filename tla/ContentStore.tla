----------------------------- MODULE ContentStore -----------------------------
(***************************************************************************)
(* The shared content-addressed store of the precache: ContentStore over   *)
(* PackWriter and PackReader, src/src/cache/pack.h and pack.cpp.           *)
(*                                                                         *)
(* The folder holds numbered segments, each a data file and an index file; *)
(* a file is the set of records in it and {} is "no file" (the code never  *)
(* publishes an empty pack).  Every method runs under mutex_, so one call  *)
(* is one action, except for publication: its file operations are separate *)
(* steps, and the process may die or an operation may fail at each of      *)
(* them.  The temporaries a crash leaves behind are not state: begin()     *)
(* truncates them.                                                         *)
(***************************************************************************)
EXTENDS Naturals, FiniteSets

CONSTANTS Keys,         \* content keys
          MaxSegments,  \* bound on the number of segments ever written
          SegmentKeys   \* records that fill a segment (kSegmentBytes)

ASSUME StoreAssumption ==
    /\ IsFiniteSet(Keys)
    /\ MaxSegments \in Nat /\ SegmentKeys \in Nat

VARIABLES data,     \* segment-<n>.pack
          idx,      \* segment-<n>.idx
          up,       \* a process holds this store open
          where,    \* where_: segment of each known key
          readers,  \* readers_: what each open reader can read, {} for none
          segment,  \* segment_: the segment to write next
          writing,  \* writing_
          wopen,    \* writer_.open_
          bad,      \* writer_.out_ has failed
          rows,     \* writer_.rows_ and seen_: records of the open segment
          pc,       \* "idle", or the next step of a publication
          reply     \* the call under way, or the answer of the last one

disk == <<data, idx>>
mem  == <<up, where, readers, segment, writing, wopen, bad, rows, pc, reply>>
vars == <<data, idx, up, where, readers, segment, writing, wopen, bad, rows, pc, reply>>

Segments == 0..(MaxSegments - 1)
Nowhere  == MaxSegments      \* where_ has no entry
None     == [n \in Segments |-> {}]

Calls   == {"putting", "flushing"}
Replies == {"none", "stored", "flushed", "failed"}

\* The folder and the handle's members have their types; a segment number
\* never passes the bound by more than the one that is next.
TypeOK ==
    /\ data \in [Segments -> SUBSET Keys]
    /\ idx \in [Segments -> SUBSET Keys]
    /\ up \in BOOLEAN
    /\ where \in [Keys -> 0..MaxSegments]
    /\ readers \in [Segments -> SUBSET Keys]
    /\ segment \in 0..MaxSegments
    /\ writing \in BOOLEAN /\ wopen \in BOOLEAN /\ bad \in BOOLEAN
    /\ rows \in SUBSET Keys
    /\ pc \in {"idle", "finish", "data", "index", "reopen"}
    /\ reply \in Calls \cup Replies

-----------------------------------------------------------------------------
\* A handle that does not exist: its members as the constructor leaves them.
Closed ==
    /\ up' = FALSE
    /\ where' = [k \in Keys |-> Nowhere] /\ readers' = None /\ segment' = 0
    /\ writing' = FALSE /\ wopen' = FALSE /\ bad' = FALSE /\ rows' = {}
    /\ pc' = "idle" /\ reply' = "none"

Init ==
    /\ data = None /\ idx = None
    /\ up = FALSE
    /\ where = [k \in Keys |-> Nowhere] /\ readers = None /\ segment = 0
    /\ writing = FALSE /\ wopen = FALSE /\ bad = FALSE /\ rows = {}
    /\ pc = "idle" /\ reply = "none"

\* open scans 0, 1, ... and stops at the first segment without an index.
FirstFree(n) ==
    /\ n \in 0..MaxSegments
    /\ \A m \in Segments : m < n => idx[m] # {}
    /\ n \in Segments => idx[n] = {}

\* PackReader::open refuses an index without data, or one that exceeds it.
Opens(n) == data[n] # {} /\ Cardinality(idx[n]) <= Cardinality(data[n])

\* where_.emplace keeps the first segment that holds the key.
Found(k, n, free) ==
    \/ n < free /\ k \in idx[n] /\ \A m \in Segments : m < n => k \notin idx[m]
    \/ n = Nowhere /\ \A m \in Segments : m < free => k \notin idx[m]

\* open: segment_ = n + 1 for the last segment n that was read.
NextSegment_Last(free) == IF free = 0 THEN 0 ELSE free - 1
NextSegment(free)      == free

\* open: fails, leaving no handle, when a reader does.
Open ==
    /\ ~up
    /\ \E free \in 0..MaxSegments :
          /\ FirstFree(free)
          /\ \A n \in Segments : n < free => Opens(n)
          /\ where' = [k \in Keys |-> CHOOSE n \in 0..MaxSegments : Found(k, n, free)]
          /\ readers' = [n \in Segments |-> IF n < free THEN data[n] ELSE {}]
          /\ segment' = NextSegment(free)
    /\ up' = TRUE
    /\ UNCHANGED <<data, idx, writing, wopen, bad, rows, pc, reply>>

\* The handle goes away: deleted, or its process dies at any step.
Stop ==
    /\ up
    /\ Closed
    /\ UNCHANGED disk

-----------------------------------------------------------------------------
Idle == up /\ pc = "idle"

\* put of a key the store already has: nothing is written.
PutKnown(k) ==
    /\ Idle /\ where[k] # Nowhere
    /\ reply' = "stored"
    /\ UNCHANGED <<data, idx, up, where, readers, segment, writing, wopen, bad, rows, pc>>

\* put: where_.count(key) == 0.
IsNew_Always(k) == TRUE
IsNew(k) == where[k] = Nowhere

\* put, writer_.begin: a new segment is started before its first record.  It
\* fails without side effects on the handle.
PutBeginFails(k) ==
    /\ Idle /\ IsNew(k) /\ ~writing
    /\ reply' = "failed"
    /\ UNCHANGED <<data, idx, up, where, readers, segment, writing, wopen, bad, rows, pc>>

\* The writer as add() finds it: just begun, or as earlier calls left it.
CanAdd  == ~writing \/ (wopen /\ ~bad)
RowsNow == IF writing THEN rows ELSE {}

\* put, writer_.add: the key enters where_ after the record is written.  A full
\* segment is published before put returns.
PutAdd(k) ==
    /\ Idle /\ IsNew(k)
    /\ segment < MaxSegments /\ CanAdd
    /\ writing' = TRUE /\ wopen' = TRUE /\ bad' = FALSE
    /\ rows' = RowsNow \cup {k}
    /\ where' = [where EXCEPT ![k] = segment]
    /\ IF Cardinality(rows') >= SegmentKeys
         THEN pc' = "finish" /\ reply' = "putting"
         ELSE pc' = pc /\ reply' = "stored"
    /\ UNCHANGED <<data, idx, up, readers, segment>>

\* put, writer_.add fails: the stream goes bad, or the writer was unusable.
AddFails_KeyKept(k) ==
    /\ writing' = TRUE /\ wopen' = (~writing \/ wopen) /\ bad' = (bad \/ wopen') /\ rows' = RowsNow
    /\ where' = [where EXCEPT ![k] = segment]
AddFails(k) ==
    /\ writing' = TRUE /\ wopen' = (~writing \/ wopen) /\ bad' = (bad \/ wopen') /\ rows' = RowsNow
    /\ where' = where

PutAddFails(k) ==
    /\ Idle /\ IsNew(k)
    /\ segment < MaxSegments
    /\ AddFails(k)
    /\ reply' = "failed"
    /\ UNCHANGED <<data, idx, up, readers, segment, pc>>

\* flush: nothing to do, or publish the open segment.
Flush ==
    /\ Idle
    /\ IF writing THEN pc' = "finish" /\ reply' = "flushing"
                  ELSE pc' = pc /\ reply' = "flushed"
    /\ UNCHANGED <<data, idx, up, where, readers, segment, writing, wopen, bad, rows>>

-----------------------------------------------------------------------------
\* finish: the stream, the index file or a rename failed (or the pack was not
\* open).  abandon() closes the writer; roll returns with writing_ still set,
\* so this handle never publishes again.
AfterFailure_Unwedged == writing' = FALSE
AfterFailure == writing' = writing

FinishFails ==
    /\ pc \in {"finish", "data", "index"}
    /\ pc' = "idle" /\ reply' = "failed" /\ wopen' = FALSE
    /\ AfterFailure
    /\ UNCHANGED <<data, idx, up, where, readers, segment, bad, rows>>

\* finish: both temporaries are written; an older index of this name is
\* removed, and an error of remove() is ignored.
RemoveIndex ==
    /\ pc = "finish" /\ wopen /\ ~bad
    /\ idx' \in {[idx EXCEPT ![segment] = {}], idx}
    /\ pc' = "data"
    /\ UNCHANGED <<data, up, where, readers, segment, writing, wopen, bad, rows, reply>>

\* finish: rename the data file, then the index file.
FirstRename_Index == idx' = [idx EXCEPT ![segment] = rows] /\ data' = data
FirstRename == data' = [data EXCEPT ![segment] = rows] /\ idx' = idx

RenameData ==
    /\ pc = "data"
    /\ FirstRename
    /\ pc' = "index"
    /\ UNCHANGED <<up, where, readers, segment, writing, wopen, bad, rows, reply>>

RenameIndex ==
    /\ pc = "index"
    /\ idx' = [idx EXCEPT ![segment] = rows]
    /\ wopen' = FALSE
    /\ pc' = "reopen"
    /\ UNCHANGED <<data, up, where, readers, segment, writing, bad, rows, reply>>

\* roll: reopen the published segment for reading and move to the next one.
AfterRoll_Same == segment' = segment
AfterRoll == segment' = segment + 1

Reopen ==
    /\ pc = "reopen" /\ Opens(segment)
    /\ readers' = [readers EXCEPT ![segment] = data[segment]]
    /\ AfterRoll
    /\ writing' = FALSE
    /\ pc' = "idle"
    /\ reply' = IF reply = "putting" THEN "stored" ELSE "flushed"
    /\ UNCHANGED <<data, idx, up, where, wopen, bad, rows>>

ReopenFails ==
    /\ pc = "reopen"
    /\ pc' = "idle" /\ reply' = "failed"
    /\ UNCHANGED <<data, idx, up, where, readers, segment, writing, wopen, bad, rows>>

\* get: from the open segment, or from the reader of the key's segment.
Readable_NoPending(k) ==
    where[k] < segment /\ k \in readers[where[k]]
Readable(k) ==
    IF writing /\ where[k] = segment
      THEN wopen /\ k \in rows
      ELSE where[k] < segment /\ k \in readers[where[k]]

Publication ==
    RemoveIndex \/ RenameData \/ RenameIndex \/ Reopen \/ FinishFails \/ ReopenFails

Put(k) == PutKnown(k) \/ PutBeginFails(k) \/ PutAdd(k) \/ PutAddFails(k)

Next ==
    \/ Open \/ Stop \/ Flush \/ Publication
    \/ \E k \in Keys : Put(k)

Spec == Init /\ [][Next]_vars

-----------------------------------------------------------------------------
Known == {k \in Keys : where[k] # Nowhere}

\* The segments the next open() will read, and the keys it will find in them.
Reached(n) == \A m \in Segments : m <= n => idx[m] # {}
Durable == {k \in Keys : \E n \in Segments : Reached(n) /\ k \in idx[n]}

\* The handle's writer is unusable: no put or flush can succeed any more.
Broken == writing /\ (~wopen \/ bad) /\ pc # "reopen"

\* A flush that returned true has put every key this handle knows where the
\* next process finds it, however many publications failed before.
FlushedIsDurable == reply = "flushed" => Known \subseteq Durable

\* Readers never see a half-written pack: at every step of a publication, and
\* after a crash at any of them, an index names only records its data has.
IndexMatchesData == \A n \in Segments : idx[n] \subseteq data[n]

\* Each unique payload is written once, over any number of sessions.
StoredOnce == \A m, n \in Segments : m # n => idx[m] \cap idx[n] = {}

\* get() finds every key contains() reports, pending or published, unless a
\* write error has been reported to this handle before.
ReadBack == pc = "idle" /\ ~Broken => \A k \in Known : Readable(k)

\* Nothing durable is ever lost: no publication, failed or crashed, disturbs
\* the segments before it.
KeptOnDisk == [][Durable \subseteq Durable']_vars

\* The store of files implements the promise of DurableStore.
Abs == INSTANCE DurableStore WITH known <- Known, durable <- Durable, broken <- Broken
Implements == Abs!Spec
=============================================================================
