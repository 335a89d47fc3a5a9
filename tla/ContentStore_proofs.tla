-------------------------- MODULE ContentStore_proofs --------------------------
(***************************************************************************)
(* The content store for any set of keys, any number of segments and any   *)
(* segment size.  The strengthening says what the folder looks like (the   *)
(* segments with an index are an initial run of numbers) and how a handle  *)
(* mirrors it (where_ agrees with the indexes below segment_, and above    *)
(* them knows exactly the records of the writer).  The second half is of   *)
(* two handles over one folder.                                            *)
(***************************************************************************)
EXTENDS SharedRoot, FiniteSetTheorems, TLAPS

\* The indexes on disk have no gap before them.
NoGap == \A m, n \in Segments : m < n /\ idx[n] # {} => idx[m] # {}

\* A handle that is not open has the members the constructor gives it.
ClosedIsFresh ==
    ~up => /\ where = [k \in Keys |-> Nowhere] /\ segment = 0 /\ rows = {}
           /\ ~writing /\ ~wopen /\ ~bad /\ pc = "idle" /\ reply = "none"

\* Segments below segment_ are published, those above are not, and segment_
\* itself is only while it has been published and not reopened.
SegmentsMatch ==
    up => /\ \A n \in Segments : n < segment => idx[n] # {} /\ readers[n] = data[n]
          /\ \A n \in Segments : n > segment => idx[n] = {}
          /\ segment \in Segments /\ idx[segment] # {} =>
                 writing /\ ~wopen /\ idx[segment] = rows /\ data[segment] = rows

\* where_ is the union of the published indexes and the writer's records.
WhereMatches ==
    up => /\ \A k \in Keys, n \in Segments : n < segment => (where[k] = n <=> k \in idx[n])
          /\ \A k \in Keys, n \in Segments : n > segment => where[k] # n
          /\ \A k \in Keys : segment \in Segments =>
                 (where[k] = segment <=> writing /\ k \in rows)

\* What each step of a publication relies on.
WriterMatches ==
    /\ wopen => writing
    /\ writing => segment \in Segments
    /\ writing /\ wopen /\ ~bad => rows # {}
    /\ pc # "idle" => writing
    /\ pc \in {"data", "index"} => wopen /\ ~bad
    /\ pc = "index" => data[segment] = rows
    /\ pc = "reopen" => ~wopen /\ rows # {} /\ idx[segment] = rows
    /\ pc = "idle" <=> reply \in Replies
    /\ reply = "flushed" => ~writing

IInv ==
    /\ TypeOK
    /\ IndexMatchesData
    /\ StoredOnce
    /\ NoGap
    /\ ClosedIsFresh
    /\ SegmentsMatch
    /\ WhereMatches
    /\ WriterMatches

-----------------------------------------------------------------------------
USE StoreAssumption DEF Segments, Nowhere, Calls, Replies

LEMMA NoneType == None \in [Segments -> SUBSET Keys] /\ \A n \in Segments : None[n] = {}
  BY DEF None

LEMMA Initially == Init => IInv
  <1> SUFFICES ASSUME Init PROVE IInv
      OBVIOUS
  <1> USE NoneType DEF Init
  <1>1. TypeOK
    <2>1. up \in BOOLEAN /\ writing \in BOOLEAN /\ wopen \in BOOLEAN /\ bad \in BOOLEAN
          OBVIOUS
    <2>2. where \in [Keys -> 0..MaxSegments] /\ segment \in 0..MaxSegments
          OBVIOUS
    <2> QED BY <2>1, <2>2 DEF TypeOK
  <1>2. IndexMatchesData /\ StoredOnce /\ NoGap
        BY DEF IndexMatchesData, StoredOnce, NoGap
  <1>3. ClosedIsFresh /\ SegmentsMatch /\ WhereMatches /\ WriterMatches
        BY DEF ClosedIsFresh, SegmentsMatch, WhereMatches, WriterMatches
  <1> QED BY <1>1, <1>2, <1>3 DEF IInv

\* open() rebuilds where_ from the indexes: each stored key is found once.
LEMMA OpenStep == IInv /\ Open => IInv'
  <1> SUFFICES ASSUME IInv, Open PROVE IInv'
      OBVIOUS
  <1> USE DEF IInv
  <1>1. PICK free \in 0..MaxSegments :
          /\ FirstFree(free)
          /\ where' = [k \in Keys |-> CHOOSE n \in 0..MaxSegments : Found(k, n, free)]
          /\ readers' = [n \in Segments |-> IF n < free THEN data[n] ELSE {}]
          /\ segment' = free
        BY DEF Open, NextSegment
  <1>2. /\ ~up /\ up' /\ data' = data /\ idx' = idx /\ rows' = {}
        /\ ~writing' /\ ~wopen' /\ ~bad' /\ pc' = "idle" /\ reply' = "none"
        BY DEF Open, ClosedIsFresh
  <1>3. /\ \A n \in Segments : n < free => idx[n] # {}
        /\ \A n \in Segments : n >= free => idx[n] = {}
        BY <1>1 DEF FirstFree, NoGap
  <1>4. ASSUME NEW k \in Keys
        PROVE  /\ where'[k] \in 0..MaxSegments
               /\ \A n \in Segments : n < free => (where'[k] = n <=> k \in idx[n])
               /\ \A n \in Segments : n >= free => where'[k] # n
    <2>1. where'[k] = CHOOSE n \in 0..MaxSegments : Found(k, n, free)
          BY <1>1
    <2>2. CASE \E n \in Segments : n < free /\ k \in idx[n]
      <3>1. PICK n \in Segments : n < free /\ k \in idx[n]
            BY <2>2
      <3>2. \A m \in Segments : m # n => k \notin idx[m]
            BY <3>1 DEF StoredOnce
      <3>3. \A m \in 0..MaxSegments : Found(k, m, free) <=> m = n
            BY <3>1, <3>2 DEF Found
      <3>4. where'[k] = n
            BY <2>1, <3>1, <3>3
      <3> QED BY <3>1, <3>2, <3>4
    <2>3. CASE \A n \in Segments : n < free => k \notin idx[n]
      <3>1. \A m \in 0..MaxSegments : Found(k, m, free) <=> m = MaxSegments
            BY <2>3 DEF Found
      <3>2. where'[k] = MaxSegments
            BY <2>1, <3>1
      <3> QED BY <2>3, <3>2
    <2> QED BY <2>2, <2>3
  <1>5. TypeOK'
    <2>1. where' \in [Keys -> 0..MaxSegments]
          BY <1>1, <1>4
    <2>2. readers' \in [Segments -> SUBSET Keys]
          BY <1>1 DEF TypeOK
    <2>3. /\ up' \in BOOLEAN /\ writing' \in BOOLEAN
          /\ wopen' \in BOOLEAN /\ bad' \in BOOLEAN
          BY DEF Open, TypeOK
    <2> QED BY <1>1, <1>2, <2>1, <2>2, <2>3 DEF TypeOK
  <1>6. IndexMatchesData' /\ StoredOnce' /\ NoGap' /\ ClosedIsFresh'
        BY <1>2 DEF IndexMatchesData, StoredOnce, NoGap, ClosedIsFresh
  <1>7. SegmentsMatch'
        BY <1>1, <1>2, <1>3 DEF SegmentsMatch
  <1>8. WhereMatches'
        BY <1>1, <1>2, <1>4 DEF WhereMatches
  <1>9. WriterMatches'
        BY <1>2 DEF WriterMatches
  <1> QED BY <1>5, <1>6, <1>7, <1>8, <1>9

LEMMA StopStep == IInv /\ Stop => IInv'
  <1> SUFFICES ASSUME IInv, Stop PROVE IInv'
      OBVIOUS
  <1> USE NoneType DEF IInv, Stop, Closed, disk
  <1>1. TypeOK'
    <2>1. /\ up' \in BOOLEAN /\ writing' \in BOOLEAN
          /\ wopen' \in BOOLEAN /\ bad' \in BOOLEAN
          OBVIOUS
    <2>2. where' \in [Keys -> 0..MaxSegments] /\ segment' \in 0..MaxSegments
          OBVIOUS
    <2> QED BY <2>1, <2>2 DEF TypeOK
  <1>2. IndexMatchesData' /\ StoredOnce' /\ NoGap'
        BY DEF IndexMatchesData, StoredOnce, NoGap
  <1>3. ClosedIsFresh' /\ SegmentsMatch' /\ WhereMatches' /\ WriterMatches'
        BY DEF ClosedIsFresh, SegmentsMatch, WhereMatches, WriterMatches
  <1> QED BY <1>1, <1>2, <1>3

\* Steps that leave the folder alone and keep where_ and the writer's records.
LEMMA QuietStep ==
    ASSUME IInv, TypeOK', WriterMatches', ClosedIsFresh',
           UNCHANGED <<data, idx, up, where, readers, segment, rows, writing>>,
           wopen' => wopen
    PROVE  IInv'
  <1>1. IndexMatchesData' /\ StoredOnce' /\ NoGap'
        BY DEF IInv, IndexMatchesData, StoredOnce, NoGap
  <1>2. SegmentsMatch' /\ WhereMatches'
        BY DEF IInv, SegmentsMatch, WhereMatches
  <1> QED BY <1>1, <1>2 DEF IInv

LEMMA QuietSteps ==
    ASSUME IInv,
           \/ \E k \in Keys : PutKnown(k) \/ PutBeginFails(k)
           \/ Flush \/ FinishFails \/ ReopenFails
    PROVE  IInv'
  <1> USE DEF IInv
  <1>1. ASSUME NEW k \in Keys, PutKnown(k) \/ PutBeginFails(k) PROVE IInv'
    <2>1. TypeOK' /\ WriterMatches' /\ ClosedIsFresh'
          BY <1>1 DEF PutKnown, PutBeginFails, Idle, TypeOK, WriterMatches, ClosedIsFresh
    <2> QED BY <1>1, <2>1, QuietStep DEF PutKnown, PutBeginFails
  <1>2. CASE Flush
    <2>1. TypeOK' /\ WriterMatches' /\ ClosedIsFresh'
          BY <1>2 DEF Flush, Idle, TypeOK, WriterMatches, ClosedIsFresh
    <2> QED BY <1>2, <2>1, QuietStep DEF Flush
  <1>3. CASE FinishFails
    <2>1. TypeOK' /\ WriterMatches' /\ ClosedIsFresh'
          BY <1>3 DEF FinishFails, AfterFailure, TypeOK, WriterMatches, ClosedIsFresh
    <2> QED BY <1>3, <2>1, QuietStep DEF FinishFails, AfterFailure
  <1>4. CASE ReopenFails
    <2>1. TypeOK' /\ WriterMatches' /\ ClosedIsFresh'
          BY <1>4 DEF ReopenFails, TypeOK, WriterMatches, ClosedIsFresh
    <2> QED BY <1>4, <2>1, QuietStep DEF ReopenFails
  <1> QED BY <1>1, <1>2, <1>3, <1>4

\* put writes into the open segment, or starts one that is not published yet.
LEMMA PutAddStep == ASSUME IInv, NEW k \in Keys, PutAdd(k) PROVE IInv'
  <1> USE DEF IInv
  <1>1. /\ up /\ pc = "idle" /\ where[k] = MaxSegments
        /\ segment \in Segments /\ idx[segment] = {}
        /\ UNCHANGED <<data, idx, up, readers, segment>>
        BY DEF PutAdd, Idle, IsNew, CanAdd, SegmentsMatch, TypeOK
  <1>2. /\ writing' = TRUE /\ wopen' = TRUE /\ bad' = FALSE
        /\ where' = [where EXCEPT ![k] = segment]
        /\ rows' = RowsNow \cup {k} /\ RowsNow \subseteq Keys
        BY DEF PutAdd, RowsNow, TypeOK
  <1>3. \/ pc' = "finish" /\ reply' = "putting"
        \/ pc' = "idle" /\ reply' = "stored"
        BY <1>1 DEF PutAdd
  <1>4. TypeOK'
        BY <1>1, <1>2, <1>3 DEF TypeOK
  <1>5. IndexMatchesData' /\ StoredOnce' /\ NoGap' /\ ClosedIsFresh'
        BY <1>1 DEF IndexMatchesData, StoredOnce, NoGap, ClosedIsFresh
  <1>6. SegmentsMatch'
        BY <1>1, <1>2 DEF SegmentsMatch
  <1>7. WhereMatches'
        BY <1>1, <1>2 DEF WhereMatches, TypeOK, RowsNow
  <1>8. WriterMatches'
        BY <1>1, <1>2, <1>3 DEF WriterMatches
  <1> QED BY <1>4, <1>5, <1>6, <1>7, <1>8

LEMMA PutAddFailsStep == ASSUME IInv, NEW k \in Keys, PutAddFails(k) PROVE IInv'
  <1> USE DEF IInv
  <1>1. /\ up /\ pc = "idle" /\ segment \in Segments
        /\ UNCHANGED <<data, idx, up, where, readers, segment, pc>>
        /\ writing' = TRUE /\ rows' = RowsNow /\ reply' = "failed"
        /\ wopen' = (~writing \/ wopen) /\ bad' = (bad \/ wopen')
        BY DEF PutAddFails, AddFails, Idle, TypeOK
  <1>2. idx[segment] # {} => writing /\ ~wopen
        BY <1>1 DEF SegmentsMatch
  <1>3. TypeOK'
        BY <1>1 DEF TypeOK, RowsNow
  <1>4. IndexMatchesData' /\ StoredOnce' /\ NoGap' /\ ClosedIsFresh'
        BY <1>1 DEF IndexMatchesData, StoredOnce, NoGap, ClosedIsFresh
  <1>5. SegmentsMatch'
        BY <1>1, <1>2 DEF SegmentsMatch, RowsNow
  <1>6. WhereMatches'
        BY <1>1 DEF WhereMatches, RowsNow
  <1>7. WriterMatches'
        BY <1>1 DEF WriterMatches
  <1> QED BY <1>3, <1>4, <1>5, <1>6, <1>7

\* The segment being published has no older index: nothing is removed.
LEMMA RemoveIndexStep == ASSUME IInv, RemoveIndex PROVE IInv' /\ idx' = idx
  <1> USE DEF IInv
  <1>1. /\ up /\ writing /\ wopen /\ ~bad /\ segment \in Segments /\ idx[segment] = {}
        BY DEF RemoveIndex, WriterMatches, ClosedIsFresh, SegmentsMatch
  <1>2. idx' = idx
        BY <1>1 DEF RemoveIndex, TypeOK
  <1>3. TypeOK' /\ WriterMatches' /\ ClosedIsFresh'
        BY <1>1, <1>2 DEF RemoveIndex, TypeOK, WriterMatches, ClosedIsFresh
  <1> QED BY <1>2, <1>3, QuietStep DEF RemoveIndex

\* The data file of an unpublished segment may be replaced freely.
LEMMA RenameDataStep == ASSUME IInv, RenameData PROVE IInv'
  <1> USE DEF IInv
  <1>1. /\ up /\ writing /\ wopen /\ ~bad /\ segment \in Segments /\ idx[segment] = {}
        BY DEF RenameData, WriterMatches, ClosedIsFresh, SegmentsMatch
  <1>2. /\ data' = [data EXCEPT ![segment] = rows] /\ pc' = "index"
        /\ UNCHANGED <<idx, up, where, readers, segment, writing, wopen, bad, rows, reply>>
        BY DEF RenameData, FirstRename
  <1>3. TypeOK'
        BY <1>2 DEF TypeOK
  <1>4. IndexMatchesData'
        BY <1>1, <1>2 DEF IndexMatchesData, TypeOK
  <1>5. StoredOnce' /\ NoGap' /\ ClosedIsFresh' /\ WhereMatches'
        BY <1>1, <1>2 DEF StoredOnce, NoGap, ClosedIsFresh, WhereMatches
  <1>6. SegmentsMatch'
        BY <1>1, <1>2 DEF SegmentsMatch, TypeOK
  <1>7. WriterMatches'
        BY <1>1, <1>2 DEF WriterMatches, TypeOK, RenameData
  <1> QED BY <1>3, <1>4, <1>5, <1>6, <1>7

\* The new index lists the records of its data file, none of which is stored
\* anywhere else, and follows the indexes before it.
LEMMA RenameIndexStep == ASSUME IInv, RenameIndex PROVE IInv'
  <1> USE DEF IInv
  <1>1. /\ up /\ writing /\ wopen /\ ~bad /\ segment \in Segments /\ idx[segment] = {}
        /\ data[segment] = rows /\ rows # {}
        BY DEF RenameIndex, WriterMatches, ClosedIsFresh, SegmentsMatch
  <1>2. /\ idx' = [idx EXCEPT ![segment] = rows] /\ pc' = "reopen" /\ wopen' = FALSE
        /\ UNCHANGED <<data, up, where, readers, segment, writing, bad, rows, reply>>
        BY DEF RenameIndex
  <1>3. TypeOK'
        BY <1>2 DEF TypeOK
  <1>4. IndexMatchesData'
        BY <1>1, <1>2 DEF IndexMatchesData, TypeOK
  <1>5. \A n \in Segments : n # segment => idx[n] \cap rows = {}
        BY <1>1 DEF WhereMatches, SegmentsMatch, TypeOK
  <1>6. StoredOnce'
        BY <1>2, <1>5 DEF StoredOnce, TypeOK
  <1>7. NoGap' /\ ClosedIsFresh'
        BY <1>1, <1>2 DEF NoGap, ClosedIsFresh, SegmentsMatch, TypeOK
  <1>8. SegmentsMatch'
        BY <1>1, <1>2 DEF SegmentsMatch, TypeOK
  <1>9. WhereMatches'
        BY <1>1, <1>2 DEF WhereMatches, TypeOK
  <1>10. WriterMatches'
         BY <1>1, <1>2 DEF WriterMatches, TypeOK, RenameIndex
  <1> QED BY <1>3, <1>4, <1>6, <1>7, <1>8, <1>9, <1>10

LEMMA ReopenStep == ASSUME IInv, Reopen PROVE IInv'
  <1> USE DEF IInv
  <1>1. /\ up /\ writing /\ segment \in Segments /\ ~wopen
        /\ idx[segment] = rows /\ rows # {} /\ reply \in Calls
        BY DEF Reopen, WriterMatches, ClosedIsFresh, TypeOK
  <1>2. /\ segment' = segment + 1 /\ writing' = FALSE /\ pc' = "idle"
        /\ reply' \in {"stored", "flushed"}
        /\ readers' = [readers EXCEPT ![segment] = data[segment]]
        /\ UNCHANGED <<data, idx, up, where, wopen, bad, rows>>
        BY DEF Reopen, AfterRoll
  <1>3. TypeOK'
    <2>1. writing' \in BOOLEAN
          BY <1>2
    <2>2. segment' \in 0..MaxSegments
          BY <1>1, <1>2
    <2> QED BY <1>1, <1>2, <2>1, <2>2 DEF TypeOK
  <1>4. IndexMatchesData' /\ StoredOnce' /\ NoGap' /\ ClosedIsFresh'
        BY <1>1, <1>2 DEF IndexMatchesData, StoredOnce, NoGap, ClosedIsFresh
  <1>5. SegmentsMatch'
        BY <1>1, <1>2 DEF SegmentsMatch, TypeOK
  <1>6. WhereMatches'
        BY <1>1, <1>2 DEF WhereMatches, TypeOK
  <1>7. WriterMatches'
        BY <1>1, <1>2 DEF WriterMatches
  <1> QED BY <1>3, <1>4, <1>5, <1>6, <1>7

LEMMA NextStep == IInv /\ [Next]_vars => IInv'
  <1> SUFFICES ASSUME IInv, [Next]_vars PROVE IInv'
      OBVIOUS
  <1>1. CASE UNCHANGED vars
        BY <1>1 DEF vars, IInv, TypeOK, IndexMatchesData, StoredOnce, NoGap, ClosedIsFresh,
                    SegmentsMatch, WhereMatches, WriterMatches
  <1>2. CASE Next
        BY <1>2, OpenStep, StopStep, QuietSteps, PutAddStep, PutAddFailsStep, RemoveIndexStep,
           RenameDataStep, RenameIndexStep, ReopenStep
        DEF Next, Put, Publication
  <1> QED BY <1>1, <1>2

-----------------------------------------------------------------------------
\* What every open() finds, and what an open handle knows of it.
LEMMA DurableIsIndexed == NoGap => Durable = {k \in Keys : \E n \in Segments : k \in idx[n]}
  <1>1. ASSUME NoGap, NEW n \in Segments, idx[n] # {} PROVE Reached(n)
    <2>1. ASSUME NEW m \in Segments, m <= n PROVE idx[m] # {}
      <3>1. m = n \/ m < n
            BY <2>1
      <3> QED BY <1>1, <3>1 DEF NoGap
    <2> QED BY <2>1 DEF Reached
  <1>2. ASSUME NoGap, NEW n \in Segments, NEW k \in idx[n] PROVE Reached(n)
    <2>1. idx[n] # {}
          OBVIOUS
    <2> QED BY <1>1, <1>2, <2>1
  <1> QED BY <1>2 DEF Durable

LEMMA KnownIsDurableOrPending ==
    ASSUME IInv, up
    PROVE  Known = Durable \cup (IF writing THEN rows ELSE {})
  <1> USE DEF IInv
  <1>1. ASSUME NEW k \in Keys, where[k] # MaxSegments
        PROVE  k \in Durable \/ (writing /\ k \in rows)
    <2>1. where[k] \in Segments /\ segment \in 0..MaxSegments
          BY <1>1 DEF TypeOK
    <2>2. where[k] < segment => k \in idx[where[k]]
          BY <2>1 DEF WhereMatches
    <2>3. ~(where[k] > segment)
          BY <2>1 DEF WhereMatches
    <2>4. where[k] = segment => writing /\ k \in rows
          BY <2>1 DEF WhereMatches
    <2> QED BY <2>1, <2>2, <2>3, <2>4, DurableIsIndexed
  <1>2. ASSUME NEW k \in Keys, NEW n \in Segments, k \in idx[n]
        PROVE  where[k] # MaxSegments
    <2>1. segment \in 0..MaxSegments /\ idx[n] # {}
          BY <1>2 DEF TypeOK
    <2>2. CASE n < segment
          BY <1>2, <2>2 DEF WhereMatches
    <2>3. CASE n = segment
          BY <1>2, <2>1, <2>3 DEF WhereMatches, SegmentsMatch
    <2>4. ~(n > segment)
          BY <1>2, <2>1 DEF SegmentsMatch
    <2> QED BY <2>1, <2>2, <2>3, <2>4
  <1>3. ASSUME NEW k \in Keys, writing, k \in rows
        PROVE  where[k] # MaxSegments
        BY <1>3 DEF WhereMatches, WriterMatches
  <1> QED BY <1>1, <1>2, <1>3, DurableIsIndexed DEF Known, TypeOK

\* Every reachable state of a store of any size satisfies the strengthening.
THEOREM Invariance == Spec => []IInv
  BY Initially, NextStep, PTL DEF Spec

\* The folder and the handle are well typed.
THEOREM TypeCorrect == Spec => []TypeOK
  BY Invariance, PTL DEF IInv

\* No index ever names a record its data file does not hold.
THEOREM IndexCorrect == Spec => []IndexMatchesData
  BY Invariance, PTL DEF IInv

\* Over any number of sessions each key is stored in at most one segment.
THEOREM OnceCorrect == Spec => []StoredOnce
  BY Invariance, PTL DEF IInv

\* When flush() has answered true, every known key is durable.
THEOREM FlushCorrect == Spec => []FlushedIsDurable
  <1>1. IInv => FlushedIsDurable
    <2> SUFFICES ASSUME IInv, reply = "flushed" PROVE Known \subseteq Durable
        BY DEF FlushedIsDurable
    <2>1. up /\ ~writing
          BY DEF IInv, ClosedIsFresh, WriterMatches
    <2> QED BY <2>1, KnownIsDurableOrPending
  <1> QED BY Invariance, <1>1, PTL

\* Every pending or published key can be read back from an unbroken handle.
THEOREM ReadCorrect == Spec => []ReadBack
  <1>1. IInv => ReadBack
    <2> SUFFICES ASSUME IInv, pc = "idle", ~Broken, NEW k \in Keys, where[k] # MaxSegments
                 PROVE  Readable(k)
        BY DEF ReadBack, Known
    <2> USE DEF IInv
    <2>1. up /\ where[k] \in Segments /\ segment \in 0..MaxSegments
          BY DEF ClosedIsFresh, TypeOK
    <2>2. CASE where[k] = segment
          BY <2>1, <2>2 DEF WhereMatches, Broken, Readable
    <2>3. CASE where[k] < segment
      <3>1. k \in idx[where[k]] /\ readers[where[k]] = data[where[k]]
            BY <2>1, <2>3 DEF WhereMatches, SegmentsMatch
      <3> QED BY <2>1, <2>3, <3>1 DEF Readable, IndexMatchesData
    <2>4. ~(where[k] > segment)
          BY <2>1 DEF WhereMatches
    <2> QED BY <2>1, <2>2, <2>3, <2>4
  <1> QED BY Invariance, <1>1, PTL

-----------------------------------------------------------------------------
\* The only step that changes what is durable adds the records of the writer.
LEMMA DurableStep ==
    ASSUME IInv, [Next]_vars
    PROVE  Durable' = IF RenameIndex THEN Durable \cup rows ELSE Durable
  <1>1. CASE RenameIndex
    <2>1. /\ segment \in Segments /\ idx[segment] = {} /\ up
          /\ idx' = [idx EXCEPT ![segment] = rows]
          BY <1>1 DEF RenameIndex, IInv, WriterMatches, ClosedIsFresh, SegmentsMatch
    <2>2. NoGap /\ NoGap'
          BY NextStep DEF IInv
    <2>3. (NoGap => Durable = {k \in Keys : \E n \in Segments : k \in idx[n]})'
          BY DurableIsIndexed, PTL
    <2>4. \A n \in Segments : idx'[n] = IF n = segment THEN rows ELSE idx[n]
          BY <2>1 DEF IInv, TypeOK
    <2>5. rows \subseteq Keys
          BY DEF IInv, TypeOK
    <2> QED BY <1>1, <2>1, <2>2, <2>3, <2>4, <2>5, DurableIsIndexed
  <1>2. CASE ~RenameIndex
    <2>1. idx' = idx
          BY <1>2, RemoveIndexStep
          DEF Next, Put, Publication, Open, Stop, disk, Flush, PutKnown, PutBeginFails, PutAdd,
              PutAddFails, FinishFails, RenameData, FirstRename, Reopen, ReopenFails, vars
    <2> QED BY <1>2, <2>1 DEF Durable, Reached
  <1> QED BY <1>1, <1>2

\* Nothing durable is ever lost.
THEOREM KeepCorrect == Spec => KeptOnDisk
  <1>1. IInv /\ [Next]_vars => [Durable \subseteq Durable']_vars
        BY DurableStep
  <1> QED BY Invariance, <1>1, PTL DEF Spec, KeptOnDisk

-----------------------------------------------------------------------------
\* Every step of the store of files is a step of DurableStore, or none: the
\* rename of the index is Publish, and the steps before it are invisible.
LEMMA StepImplements ==
    ASSUME IInv, IInv', [Next]_vars
    PROVE  [Abs!Next]_(Abs!vars)
  <1> USE DEF Abs!Idle, Abs!Calls, Abs!Replies
  <1>1. Durable' = IF RenameIndex THEN Durable \cup rows ELSE Durable
        BY DurableStep
  <1>2. up => Known = Durable \cup (IF writing THEN rows ELSE {})
        BY KnownIsDurableOrPending
  <1>3. up' => Known' = Durable' \cup (IF writing' THEN rows' ELSE {})
    <2>1. (IInv /\ up => Known = Durable \cup (IF writing THEN rows ELSE {}))'
          BY KnownIsDurableOrPending, PTL
    <2> QED BY <2>1
  <1>4. /\ pc = "idle" <=> reply \in Replies
        /\ pc # "idle" => writing /\ up /\ reply \in Calls
        /\ writing \in BOOLEAN /\ wopen \in BOOLEAN /\ bad \in BOOLEAN /\ Broken \in BOOLEAN
        BY DEF IInv, WriterMatches, ClosedIsFresh, TypeOK, Broken
  <1>5. ASSUME where' = where PROVE Known' = Known
        BY <1>5 DEF Known
  <1>6. CASE Open
    <2>1. pc # "reopen" /\ ~up /\ ~writing' /\ up' /\ reply' = "none" /\ ~RenameIndex /\ ~Broken'
          BY <1>6 DEF Open, IInv, ClosedIsFresh, Broken, RenameIndex
    <2>2. Known' = Durable /\ Durable' = Durable
          BY <1>1, <1>3, <2>1
    <2>3. up' = TRUE /\ Broken' = FALSE
          BY <1>6, <2>1 DEF Open, Broken
    <2> QED BY <2>1, <2>2, <2>3 DEF Abs!Next, Abs!Open
  <1>7. CASE Stop
    <2>1. /\ up /\ up' = FALSE /\ Broken' = FALSE /\ reply' = "none" /\ Known' = {}
          /\ idx' = idx
          BY <1>7 DEF Stop, Closed, Broken, Known, disk
    <2>2. Durable' = Durable
          BY <2>1 DEF Durable, Reached
    <2> QED BY <2>1, <2>2 DEF Abs!Next, Abs!Stop
  <1>8. ASSUME NEW k \in Keys, PutKnown(k) PROVE Abs!PutKnown(k)
    <2>1. ~RenameIndex /\ Broken' = Broken /\ k \in Known /\ up /\ reply \in Replies
          BY <1>4, <1>8 DEF PutKnown, Idle, RenameIndex, Broken, Known
    <2> QED BY <1>1, <1>5, <1>8, <2>1 DEF PutKnown, Abs!PutKnown
  <1>9. ASSUME NEW k \in Keys, PutBeginFails(k) PROVE Abs!Fail
    <2>1. ~RenameIndex /\ Broken' = Broken
          BY <1>9 DEF PutBeginFails, Idle, RenameIndex, Broken
    <2> QED BY <1>1, <1>5, <1>9, <2>1 DEF PutBeginFails, Idle, Abs!Fail
  <1>10. ASSUME NEW k \in Keys, PutAdd(k) PROVE Abs!PutNew(k)
    <2>1. /\ ~RenameIndex /\ Broken = FALSE /\ Broken' = FALSE /\ up /\ reply \in Replies
          /\ up' = up /\ reply' \in {"stored", "putting"} /\ where[k] = MaxSegments
          BY <1>4, <1>10 DEF PutAdd, CanAdd, Idle, IsNew, RenameIndex, Broken
    <2>2. segment \in Segments /\ where' = [where EXCEPT ![k] = segment]
          BY <1>10 DEF PutAdd, IInv, TypeOK
    <2>3. k \notin Known /\ Known' = Known \cup {k}
          BY <2>1, <2>2 DEF Known, IInv, TypeOK
    <2> QED BY <1>1, <2>1, <2>3 DEF Abs!PutNew
  <1>11. ASSUME NEW k \in Keys, PutAddFails(k) PROVE Abs!Fail
    <2>1. /\ ~RenameIndex /\ up /\ up' = up /\ reply' = "failed" /\ where' = where
          /\ writing' = TRUE /\ pc' = "idle" /\ wopen' = (~writing \/ wopen)
          /\ bad' = (bad \/ wopen')
          BY <1>11 DEF PutAddFails, AddFails, Idle, RenameIndex
    <2>2. Broken' = TRUE
          BY <2>1 DEF Broken
    <2> QED BY <1>1, <1>5, <2>1, <2>2 DEF Abs!Fail
  <1>12. CASE Flush
    <2>1. ~RenameIndex /\ up /\ up' = up /\ where' = where /\ reply \in Replies
          BY <1>4, <1>12 DEF Flush, Idle, RenameIndex
    <2>2. Broken' = Broken
          BY <1>12 DEF Flush, Idle, Broken
    <2>3. reply' = "flushing" \/ (reply' = "flushed" /\ ~writing)
          BY <1>12 DEF Flush
    <2>4. ~writing => Known \subseteq Durable /\ ~Broken
          BY <1>2, <2>1 DEF Broken
    <2> QED BY <1>1, <1>5, <2>1, <2>2, <2>3, <2>4 DEF Abs!Next, Abs!Flush
  <1>13. CASE RemoveIndex \/ RenameData
    <2>1. /\ ~RenameIndex /\ where' = where /\ Broken' = Broken /\ up' = up /\ reply' = reply
          BY <1>13 DEF RemoveIndex, RenameData, RenameIndex, Broken
    <2> QED BY <1>1, <1>5, <2>1 DEF Abs!vars
  <1>14. CASE RenameIndex
    <2>1. /\ up /\ writing /\ reply \in Calls
          /\ where' = where /\ up' = up /\ reply' = reply
          BY <1>4, <1>14 DEF RenameIndex
    <2>2. Broken = FALSE /\ Broken' = FALSE
          BY <1>14 DEF RenameIndex, Broken, IInv, WriterMatches
    <2>3. Durable' = Durable \cup Known
          BY <1>1, <1>2, <1>14, <2>1
    <2> QED BY <1>5, <2>1, <2>2, <2>3 DEF Abs!Next, Abs!Publish
  <1>15. CASE Reopen
    <2>1. /\ up /\ up' = up /\ reply \in Calls /\ where' = where /\ writing' = FALSE
          /\ reply' = IF reply = "putting" THEN "stored" ELSE "flushed"
          /\ ~RenameIndex
          BY <1>4, <1>15 DEF Reopen, RenameIndex
    <2>2. Broken = FALSE /\ Broken' = FALSE
          BY <1>15 DEF Reopen, Broken
    <2>3. Known' = Durable' /\ Durable' = Durable /\ Known' = Known
          BY <1>1, <1>3, <1>5, <2>1
    <2> QED BY <2>1, <2>2, <2>3 DEF Abs!Next, Abs!Answer
  <1>16. CASE FinishFails \/ ReopenFails
    <2>1. /\ up /\ up' = up /\ where' = where /\ reply' = "failed" /\ ~RenameIndex
          BY <1>4, <1>16 DEF FinishFails, ReopenFails, RenameIndex
    <2>2. Broken' = TRUE
          BY <1>4, <1>16 DEF FinishFails, AfterFailure, ReopenFails, Broken, IInv, WriterMatches
    <2> QED BY <1>1, <1>5, <2>1, <2>2 DEF Abs!Next, Abs!Fail
  <1>17. CASE UNCHANGED vars
    <2>1. Known' = Known /\ Durable' = Durable /\ Broken' = Broken /\ up' = up /\ reply' = reply
          BY <1>17 DEF vars, Known, Durable, Reached, Broken
    <2> QED BY <2>1 DEF Abs!vars
  <1> QED BY <1>6, <1>7, <1>8, <1>9, <1>10, <1>11, <1>12, <1>13, <1>14, <1>15, <1>16, <1>17
          DEF Next, Put, Publication, Abs!Next

\* The store of files, with failures and crashes at every step of publication,
\* keeps the promise of DurableStore.
THEOREM Refinement == Spec => Implements
  <1>1. Init => Abs!Init
        BY NoneType DEF Init, Abs!Init, Known, Durable, Broken
  <1>2. IInv /\ IInv' /\ [Next]_vars => [Abs!Next]_(Abs!vars)
        BY StepImplements
  <1> QED BY Invariance, <1>1, <1>2, PTL DEF Spec, Implements, Abs!Spec

-----------------------------------------------------------------------------
(***************************************************************************)
(* Two handles over one folder, module SharedRoot.  One process builds and *)
(* another reads: the builder alone is the store above, whose invariant    *)
(* holds of it unchanged; the reader is served because its handle is a     *)
(* view of segments that are published, and no step of the builder touches *)
(* a published segment.  Two processes that build in turns are one handle  *)
(* whose sessions follow one another.                                      *)
(***************************************************************************)
\* The second process has no writer: the constructor's members never change.
NoWriter == ~writingB /\ ~wopenB /\ ~badB /\ rowsB = {} /\ pcB = "idle" /\ replyB = "none"

\* The segments it has open are published and still as it read them.
OpenSegments ==
    /\ segmentB \in 0..MaxSegments
    /\ \A n \in Segments : n < segmentB => idx[n] # {} /\ readersB[n] = data[n]

\* What it knows is in one of them.
ViewMatches ==
    \A k \in Keys : \/ whereB[k] = Nowhere
                    \/ /\ whereB[k] \in Segments /\ whereB[k] < segmentB
                       /\ k \in idx[whereB[k]]

View == NoWriter /\ OpenSegments /\ ViewMatches

ReaderInv == use = OneBuilds /\ IInv /\ View

-----------------------------------------------------------------------------
USE StoreAssumption DEF Segments, Nowhere, Calls, Replies, B!Segments, B!Nowhere

\* What a step of the builder does to the folder: it publishes the segment it
\* has open, or writes its data, and that segment has no index before.
LEMMA PublishedStay ==
    ASSUME IInv, Next
    PROVE  \A n \in Segments : idx[n] # {} => idx'[n] = idx[n] /\ data'[n] = data[n]
  <1> USE DEF IInv
  <1>1. CASE RenameData
    <2>1. segment \in Segments /\ idx[segment] = {} /\ idx' = idx
          BY <1>1 DEF RenameData, FirstRename, WriterMatches, ClosedIsFresh, SegmentsMatch
    <2>2. data' = [data EXCEPT ![segment] = rows]
          BY <1>1 DEF RenameData, FirstRename
    <2> QED BY <2>1, <2>2 DEF TypeOK
  <1>2. CASE RenameIndex
    <2>1. segment \in Segments /\ idx[segment] = {} /\ data' = data
          BY <1>2 DEF RenameIndex, WriterMatches, ClosedIsFresh, SegmentsMatch
    <2>2. idx' = [idx EXCEPT ![segment] = rows]
          BY <1>2 DEF RenameIndex
    <2> QED BY <2>1, <2>2 DEF TypeOK
  <1>3. CASE ~RenameData /\ ~RenameIndex
    <2>1. idx' = idx
          BY <1>3, RemoveIndexStep
          DEF Next, Put, Publication, Open, Stop, disk, Flush, PutKnown, PutBeginFails, PutAdd,
              PutAddFails, FinishFails, Reopen, ReopenFails
    <2>2. data' = data
          BY <1>3
          DEF Next, Put, Publication, Open, Stop, disk, Flush, PutKnown, PutBeginFails, PutAdd,
              PutAddFails, RemoveIndex, FinishFails, Reopen, ReopenFails
    <2> QED BY <2>1, <2>2
  <1> QED BY <1>1, <1>2, <1>3

\* With one builder a step is one of the store of the builder, or one of the
\* reader that leaves it alone.
LEMMA RootStep ==
    ASSUME use = OneBuilds, [RootNext]_rootVars
    PROVE  /\ use' = OneBuilds
           /\ \/ Next /\ UNCHANGED memB
              \/ (B!Open \/ B!Stop) /\ UNCHANGED vars
              \/ UNCHANGED vars /\ UNCHANGED memB
  <1>1. OneBuilds.writers = {"A"}
        BY DEF OneBuilds
  <1>2. CASE UNCHANGED rootVars
        BY <1>2 DEF rootVars
  <1>3. CASE RootNext
    <2>1. use' = use
          BY <1>3 DEF RootNext
    <2>2. CASE StepA /\ UNCHANGED memB
      <3>1. Next
            BY <1>1, <2>2 DEF StepA
      <3> QED BY <2>1, <2>2, <3>1
    <2>3. CASE StepB /\ UNCHANGED mem
      <3>1. B!Open \/ B!Stop
            BY <1>1, <2>3 DEF StepB
      <3>2. UNCHANGED disk
            BY <3>1 DEF B!Open, B!Stop, B!disk, disk
      <3>3. UNCHANGED vars
            BY <2>3, <3>2 DEF mem, disk, vars
      <3> QED BY <2>1, <3>1, <3>3
    <2> QED BY <1>3, <2>2, <2>3 DEF RootNext
  <1> QED BY <1>2, <1>3

\* A builder's step leaves the reader what it has.
LEMMA BuilderStep == ASSUME ReaderInv, Next, UNCHANGED memB PROVE IInv' /\ View'
  <1>1. IInv'
        BY NextStep DEF ReaderInv
  <1>2. \A n \in Segments : idx[n] # {} => idx'[n] = idx[n] /\ data'[n] = data[n]
        BY PublishedStay DEF ReaderInv
  <1>3. UNCHANGED <<upB, whereB, readersB, segmentB, writingB, wopenB, badB, rowsB, pcB, replyB>>
        BY DEF memB
  <1>4. NoWriter'
        BY <1>3 DEF ReaderInv, View, NoWriter
  <1>5. OpenSegments'
        BY <1>2, <1>3 DEF ReaderInv, View, OpenSegments
  <1>6. ViewMatches'
    <2> SUFFICES ASSUME NEW k \in Keys, whereB[k] # Nowhere
                 PROVE  whereB[k] \in Segments /\ whereB[k] < segmentB /\ k \in idx'[whereB[k]]
        BY <1>3 DEF ViewMatches
    <2> QED BY <1>2 DEF ReaderInv, View, ViewMatches
  <1> QED BY <1>1, <1>4, <1>5, <1>6 DEF View

\* open() of the reader, while a publication may be at any of its steps.
LEMMA ReaderOpens == ASSUME ReaderInv, B!Open, UNCHANGED vars PROVE View'
  <1> USE DEF ReaderInv, IInv, View
  <1>1. PICK free \in 0..MaxSegments :
          /\ B!FirstFree(free)
          /\ whereB' = [k \in Keys |-> CHOOSE n \in 0..MaxSegments : B!Found(k, n, free)]
          /\ readersB' = [n \in Segments |-> IF n < free THEN data[n] ELSE {}]
          /\ segmentB' = free
        BY DEF B!Open, B!NextSegment
  <1>2. UNCHANGED <<data, idx>>
        BY DEF vars
  <1>3. NoWriter'
        BY DEF B!Open, NoWriter
  <1>4. OpenSegments'
        BY <1>1, <1>2 DEF OpenSegments, B!FirstFree
  <1>5. ASSUME NEW k \in Keys
        PROVE  \/ whereB'[k] = Nowhere
               \/ /\ whereB'[k] \in Segments /\ whereB'[k] < free
                  /\ k \in idx[whereB'[k]]
    <2>1. whereB'[k] = CHOOSE n \in 0..MaxSegments : B!Found(k, n, free)
          BY <1>1
    <2>2. CASE \E n \in Segments : n < free /\ k \in idx[n]
      <3>1. PICK n \in Segments : n < free /\ k \in idx[n]
            BY <2>2
      <3>2. \A m \in Segments : m # n => k \notin idx[m]
            BY <3>1 DEF StoredOnce
      <3>3. B!Found(k, n, free)
            BY <3>1, <3>2 DEF B!Found
      <3>4. B!Found(k, whereB'[k], free) /\ whereB'[k] \in 0..MaxSegments
            BY <2>1, <3>3
      <3> QED BY <3>4 DEF B!Found
    <2>3. CASE \A n \in Segments : n < free => k \notin idx[n]
      <3>1. B!Found(k, MaxSegments, free)
            BY <2>3 DEF B!Found
      <3>2. B!Found(k, whereB'[k], free) /\ whereB'[k] \in 0..MaxSegments
            BY <2>1, <3>1
      <3> QED BY <3>2 DEF B!Found
    <2> QED BY <2>2, <2>3
  <1>6. ViewMatches'
        BY <1>1, <1>2, <1>5 DEF ViewMatches
  <1> QED BY <1>3, <1>4, <1>6

LEMMA ReaderStops == ASSUME ReaderInv, B!Stop, UNCHANGED vars PROVE View'
  <1>1. NoWriter'
        BY DEF B!Stop, B!Closed, NoWriter
  <1>2. OpenSegments' /\ ViewMatches'
        BY DEF B!Stop, B!Closed, OpenSegments, ViewMatches
  <1> QED BY <1>1, <1>2 DEF View

LEMMA RootInitially == RootInit /\ use = OneBuilds => ReaderInv
  <1> SUFFICES ASSUME RootInit, use = OneBuilds PROVE ReaderInv
      OBVIOUS
  <1>1. IInv
        BY Initially DEF RootInit
  <1>2. View
        BY DEF RootInit, B!Init, View, NoWriter, OpenSegments, ViewMatches
  <1> QED BY <1>1, <1>2 DEF ReaderInv

LEMMA RootNextStep == ReaderInv /\ [RootNext]_rootVars => ReaderInv'
  <1> SUFFICES ASSUME ReaderInv, [RootNext]_rootVars PROVE ReaderInv'
      OBVIOUS
  <1>1. use' = OneBuilds
        BY RootStep DEF ReaderInv
  <1>2. CASE Next /\ UNCHANGED memB
        BY <1>1, <1>2, BuilderStep DEF ReaderInv
  <1>3. ASSUME UNCHANGED vars PROVE IInv'
        BY <1>3, NextStep DEF ReaderInv
  <1>4. CASE (B!Open \/ B!Stop) /\ UNCHANGED vars
        BY <1>1, <1>3, <1>4, ReaderOpens, ReaderStops DEF ReaderInv
  <1>5. CASE UNCHANGED vars /\ UNCHANGED memB
    <2>1. View'
          BY <1>5 DEF vars, memB, ReaderInv, View, NoWriter, OpenSegments, ViewMatches
    <2> QED BY <1>1, <1>3, <1>5, <2>1 DEF ReaderInv
  <1> QED BY <1>2, <1>4, <1>5, RootStep DEF ReaderInv

\* Every state of a folder with one builder and one reader satisfies both the
\* invariant of the store and that of the reader's view of it.
THEOREM SharedInductive == RootSpec /\ use = OneBuilds => []ReaderInv
  BY RootInitially, RootNextStep, PTL DEF RootSpec

\* While one editor builds, the other finds every record of the cache it
\* opened (ContentStore::get after ContentStore::open, pack.cpp).
THEOREM ServedCorrect == RootSpec /\ use = OneBuilds => []ReaderServed
  <1>1. ReaderInv => ReaderServed
    <2> SUFFICES ASSUME ReaderInv, NEW k \in B!Known PROVE B!Readable(k)
        BY DEF ReaderServed, B!ReadBack
    <2> USE DEF ReaderInv, IInv, View
    <2>1. k \in Keys /\ whereB[k] \in Segments /\ whereB[k] < segmentB /\ k \in idx[whereB[k]]
          BY DEF B!Known, ViewMatches
    <2>2. k \in readersB[whereB[k]]
          BY <2>1 DEF OpenSegments, IndexMatchesData
    <2> QED BY <2>1, <2>2 DEF B!Readable, NoWriter
  <1> QED BY SharedInductive, <1>1, PTL

\* A reader changes nothing for the builder: beside any reader the builder's
\* store is the store of module ContentStore, with all that is proved of it.
THEOREM BuilderIsStore == RootSpec /\ use = OneBuilds => Spec
  <1>1. RootInit => Init
        BY DEF RootInit
  <1>2. ReaderInv /\ [RootNext]_rootVars => [Next]_vars
        BY RootStep DEF ReaderInv
  <1> QED BY SharedInductive, <1>1, <1>2, PTL DEF RootSpec, Spec

\* While one editor builds, the folder keeps the promise of DurableStore, whatever
\* the other does: the one at work is the builder, whose store refines it.
THEOREM FolderCorrect == RootSpec /\ use = OneBuilds => FolderImplements
  <1> DEFINE One == use = OneBuilds /\ up \in BOOLEAN
  <1>1. ReaderInv => One
        BY DEF ReaderInv, IInv, TypeOK
  <1>2. ASSUME One, Abs!Init PROVE Folder!Init
        BY <1>2 DEF Abs!Init, Folder!Init, InTurnB, OneBuilds
  <1>3. ASSUME One, One', [Abs!Next]_(Abs!vars) PROVE [Folder!Next]_(Folder!vars)
    <2>1. ~InTurnB /\ ~InTurnB' /\ up \in BOOLEAN /\ up' \in BOOLEAN
          BY <1>3 DEF InTurnB, OneBuilds
    <2> USE <2>1
    <2>2. ASSUME Abs!Open PROVE Folder!Open
          BY <2>2 DEF Abs!Open, Folder!Open
    <2>3. ASSUME Abs!Flush PROVE Folder!Flush
          BY <2>3 DEF Abs!Flush, Folder!Flush, Abs!Idle, Folder!Idle, Abs!Replies, Folder!Replies
    <2>4. ASSUME Abs!Publish PROVE Folder!Publish
          BY <2>4 DEF Abs!Publish, Folder!Publish, Abs!Calls, Folder!Calls
    <2>5. ASSUME Abs!Answer PROVE Folder!Answer
          BY <2>5 DEF Abs!Answer, Folder!Answer, Abs!Calls, Folder!Calls
    <2>6. ASSUME Abs!Fail PROVE Folder!Fail
          BY <2>6 DEF Abs!Fail, Folder!Fail
    <2>7. ASSUME Abs!Stop PROVE Folder!Stop
          BY <2>7 DEF Abs!Stop, Folder!Stop
    <2>8. ASSUME NEW k \in Keys, Abs!PutKnown(k) PROVE Folder!PutKnown(k)
          BY <2>8 DEF Abs!PutKnown, Folder!PutKnown, Abs!Idle, Folder!Idle, Abs!Replies,
                      Folder!Replies
    <2>9. ASSUME NEW k \in Keys, Abs!PutNew(k) PROVE Folder!PutNew(k)
          BY <2>9 DEF Abs!PutNew, Folder!PutNew, Abs!Idle, Folder!Idle, Abs!Replies,
                      Folder!Replies
    <2>10. CASE UNCHANGED Abs!vars
          BY <2>10 DEF Abs!vars, Folder!vars
    <2> QED BY <1>3, <2>2, <2>3, <2>4, <2>5, <2>6, <2>7, <2>8, <2>9, <2>10
            DEF Abs!Next, Folder!Next
  <1> QED BY SharedInductive, BuilderIsStore, Refinement, <1>1, <1>2, <1>3, PTL
          DEF Implements, Abs!Spec, FolderImplements, Folder!Spec

\* With one builder no step of either process changes or removes an index that
\* has been published (pack.h, "A pack is written once").
THEOREM PacksWrittenOnce == RootSpec /\ use = OneBuilds => PackWrittenOnce
  <1>1. ReaderInv /\ [RootNext]_rootVars
          => [\A n \in DOMAIN idx : idx[n] # {} => idx'[n] = idx[n]]_rootVars
    <2> SUFFICES ASSUME ReaderInv, [RootNext]_rootVars, NEW n \in DOMAIN idx, idx[n] # {}
                 PROVE  idx'[n] = idx[n]
        OBVIOUS
    <2>1. n \in Segments
          BY DEF ReaderInv, IInv, TypeOK
    <2> QED BY <2>1, RootStep, PublishedStay DEF ReaderInv, vars
  <1> QED BY SharedInductive, <1>1, PTL DEF RootSpec, PackWrittenOnce
-----------------------------------------------------------------------------
\* The handle of the process whose turn it is; before anyone's, the one A has.
Turn(a, b) == IF upB THEN b ELSE a

T == INSTANCE ContentStore WITH
    up <- up \/ upB, where <- Turn(where, whereB), readers <- Turn(readers, readersB),
    segment <- Turn(segment, segmentB), writing <- Turn(writing, writingB),
    wopen <- Turn(wopen, wopenB), bad <- Turn(bad, badB), rows <- Turn(rows, rowsB),
    pc <- Turn(pc, pcB), reply <- Turn(reply, replyB)

FreshMem == <<FALSE, [k \in Keys |-> Nowhere], None, 0, FALSE, FALSE, FALSE, {}, "idle", "none">>

TurnsInv ==
    /\ use = TakingTurns
    /\ up \in BOOLEAN /\ upB \in BOOLEAN /\ ~(up /\ upB)
    /\ ~up  => mem = FreshMem
    /\ ~upB => memB = FreshMem

LEMMA InitiallyFresh == RootInit /\ use = TakingTurns => TurnsInv
  BY DEF RootInit, Init, B!Init, TurnsInv, mem, memB, FreshMem, None, B!None

\* A handle opens once, and only an open one does anything else.
LEMMA ClosedOpens == ASSUME mem = FreshMem, Next PROVE up'
  BY DEF mem, FreshMem, Next, Open, Stop, Flush, Idle, Publication, RemoveIndex, RenameData,
     RenameIndex, Reopen, FinishFails, ReopenFails, Put, PutKnown, PutBeginFails, PutAdd,
     PutAddFails

LEMMA ClosedOpensB == ASSUME memB = FreshMem, B!Next PROVE upB'
  BY DEF memB, FreshMem, B!Next, B!Open, B!Stop, B!Flush, B!Idle, B!Publication, B!RemoveIndex,
     B!RenameData, B!RenameIndex, B!Reopen, B!FinishFails, B!ReopenFails, B!Put, B!PutKnown,
     B!PutBeginFails, B!PutAdd, B!PutAddFails

\* A handle that ends has the members of one that never was.
LEMMA Endings ==
    ASSUME up \in BOOLEAN, ~up => mem = FreshMem, Next
    PROVE  up' \in BOOLEAN /\ (~up' => mem' = FreshMem)
  <1>1. CASE Stop
        BY <1>1 DEF Stop, Closed, mem, FreshMem
  <1>2. CASE Open
        BY <1>2 DEF Open
  <1>3. CASE Flush \/ Publication \/ \E k \in Keys : Put(k)
    <2>1. up' = up /\ up
          BY <1>3 DEF mem, FreshMem, Flush, Idle, Publication, RemoveIndex, RenameData,
             RenameIndex, Reopen, FinishFails, ReopenFails, Put, PutKnown, PutBeginFails, PutAdd,
             PutAddFails
    <2> QED BY <2>1
  <1> QED BY <1>1, <1>2, <1>3 DEF Next

LEMMA EndingsB ==
    ASSUME upB \in BOOLEAN, ~upB => memB = FreshMem, B!Next
    PROVE  upB' \in BOOLEAN /\ (~upB' => memB' = FreshMem)
  <1>1. CASE B!Stop
        BY <1>1 DEF B!Stop, B!Closed, B!None, None, memB, FreshMem
  <1>2. CASE B!Open
        BY <1>2 DEF B!Open
  <1>3. CASE B!Flush \/ B!Publication \/ \E k \in Keys : B!Put(k)
    <2>1. upB' = upB /\ upB
          BY <1>3 DEF memB, FreshMem, B!Flush, B!Idle, B!Publication, B!RemoveIndex, B!RenameData,
             B!RenameIndex, B!Reopen, B!FinishFails, B!ReopenFails, B!Put, B!PutKnown,
             B!PutBeginFails, B!PutAdd, B!PutAddFails
    <2> QED BY <2>1
  <1> QED BY <1>1, <1>2, <1>3 DEF B!Next

\* What the process in turn does is what the one handle of ContentStore does.
LEMMA AsA == ASSUME ~upB, ~upB', up \in BOOLEAN, up' \in BOOLEAN, Next PROVE T!Next
  <1> USE DEF Turn, T!Segments, T!Nowhere, T!disk, disk
  <1>1. ASSUME Open PROVE T!Open
        BY <1>1 DEF Open, T!Open, FirstFree, T!FirstFree, Opens, T!Opens, Found, T!Found,
           NextSegment, T!NextSegment, Cardinality, T!Cardinality
  <1>2. ASSUME Stop PROVE T!Stop
        BY <1>2 DEF Stop, Closed, T!Stop, T!Closed, None, T!None
  <1>3. ASSUME Flush PROVE T!Flush
        BY <1>3 DEF Flush, Idle, T!Flush, T!Idle
  <1>4. ASSUME RemoveIndex PROVE T!RemoveIndex
        BY <1>4 DEF RemoveIndex, T!RemoveIndex
  <1>5. ASSUME RenameData PROVE T!RenameData
        BY <1>5 DEF RenameData, FirstRename, T!RenameData, T!FirstRename
  <1>6. ASSUME RenameIndex PROVE T!RenameIndex
        BY <1>6 DEF RenameIndex, T!RenameIndex
  <1>7. ASSUME Reopen PROVE T!Reopen
        BY <1>7 DEF Reopen, AfterRoll, Opens, T!Reopen, T!AfterRoll, T!Opens, Cardinality,
           T!Cardinality
  <1>8. ASSUME FinishFails PROVE T!FinishFails
        BY <1>8 DEF FinishFails, AfterFailure, T!FinishFails, T!AfterFailure
  <1>9. ASSUME ReopenFails PROVE T!ReopenFails
        BY <1>9 DEF ReopenFails, T!ReopenFails
  <1>10. ASSUME NEW k \in Keys, Put(k) PROVE T!Put(k)
    <2>1. PutKnown(k) => T!PutKnown(k)
          BY DEF PutKnown, Idle, T!PutKnown, T!Idle
    <2>2. PutBeginFails(k) => T!PutBeginFails(k)
          BY DEF PutBeginFails, Idle, IsNew, T!PutBeginFails, T!Idle, T!IsNew
    <2>3. PutAdd(k) => T!PutAdd(k)
          BY DEF PutAdd, Idle, IsNew, CanAdd, RowsNow, T!PutAdd, T!Idle, T!IsNew, T!CanAdd,
             T!RowsNow, Cardinality, T!Cardinality
    <2>4. PutAddFails(k) => T!PutAddFails(k)
          BY DEF PutAddFails, Idle, IsNew, AddFails, RowsNow, T!PutAddFails, T!Idle, T!IsNew,
             T!AddFails, T!RowsNow
    <2> QED BY <1>10, <2>1, <2>2, <2>3, <2>4 DEF Put, T!Put
  <1> QED BY <1>1, <1>2, <1>3, <1>4, <1>5, <1>6, <1>7, <1>8, <1>9, <1>10
          DEF Next, Publication, T!Next, T!Publication

\* Beside a closed A the handle in turn is the one of B, open or not.
IsB ==
    /\ Turn(where, whereB) = whereB /\ Turn(readers, readersB) = readersB
    /\ Turn(segment, segmentB) = segmentB /\ Turn(writing, writingB) = writingB
    /\ Turn(wopen, wopenB) = wopenB /\ Turn(bad, badB) = badB /\ Turn(rows, rowsB) = rowsB
    /\ Turn(pc, pcB) = pcB /\ Turn(reply, replyB) = replyB

LEMMA BesideClosed == mem = FreshMem /\ (~upB => memB = FreshMem) => IsB
  BY DEF mem, memB, FreshMem, IsB, Turn

LEMMA AsB ==
    ASSUME ~up, ~up', upB \in BOOLEAN, upB' \in BOOLEAN, IsB, IsB', B!Next
    PROVE  T!Next
  <1> USE DEF IsB, T!Segments, T!Nowhere, T!disk, B!disk
  <1>1. ASSUME B!Open PROVE T!Open
        BY <1>1 DEF B!Open, T!Open, B!FirstFree, T!FirstFree, B!Opens, T!Opens, B!Found, T!Found,
           B!NextSegment, T!NextSegment, B!Cardinality, T!Cardinality
  <1>2. ASSUME B!Stop PROVE T!Stop
        BY <1>2 DEF B!Stop, B!Closed, T!Stop, T!Closed, B!None, T!None
  <1>3. ASSUME B!Flush PROVE T!Flush
        BY <1>3 DEF B!Flush, B!Idle, T!Flush, T!Idle
  <1>4. ASSUME B!RemoveIndex PROVE T!RemoveIndex
        BY <1>4 DEF B!RemoveIndex, T!RemoveIndex
  <1>5. ASSUME B!RenameData PROVE T!RenameData
        BY <1>5 DEF B!RenameData, B!FirstRename, T!RenameData, T!FirstRename
  <1>6. ASSUME B!RenameIndex PROVE T!RenameIndex
        BY <1>6 DEF B!RenameIndex, T!RenameIndex
  <1>7. ASSUME B!Reopen PROVE T!Reopen
        BY <1>7 DEF B!Reopen, B!AfterRoll, B!Opens, T!Reopen, T!AfterRoll, T!Opens, B!Cardinality,
           T!Cardinality
  <1>8. ASSUME B!FinishFails PROVE T!FinishFails
        BY <1>8 DEF B!FinishFails, B!AfterFailure, T!FinishFails, T!AfterFailure
  <1>9. ASSUME B!ReopenFails PROVE T!ReopenFails
        BY <1>9 DEF B!ReopenFails, T!ReopenFails
  <1>10. ASSUME NEW k \in Keys, B!Put(k) PROVE T!Put(k)
    <2>1. B!PutKnown(k) => T!PutKnown(k)
          BY DEF B!PutKnown, B!Idle, T!PutKnown, T!Idle
    <2>2. B!PutBeginFails(k) => T!PutBeginFails(k)
          BY DEF B!PutBeginFails, B!Idle, B!IsNew, T!PutBeginFails, T!Idle, T!IsNew
    <2>3. B!PutAdd(k) => T!PutAdd(k)
          BY DEF B!PutAdd, B!Idle, B!IsNew, B!CanAdd, B!RowsNow, T!PutAdd, T!Idle, T!IsNew,
             T!CanAdd, T!RowsNow, B!Cardinality, T!Cardinality
    <2>4. B!PutAddFails(k) => T!PutAddFails(k)
          BY DEF B!PutAddFails, B!Idle, B!IsNew, B!AddFails, B!RowsNow, T!PutAddFails, T!Idle,
             T!IsNew, T!AddFails, T!RowsNow
    <2> QED BY <1>10, <2>1, <2>2, <2>3, <2>4 DEF B!Put, T!Put
  <1> QED BY <1>1, <1>2, <1>3, <1>4, <1>5, <1>6, <1>7, <1>8, <1>9, <1>10
          DEF B!Next, B!Publication, T!Next, T!Publication

LEMMA TurnStep ==
    ASSUME TurnsInv, [RootNext]_rootVars
    PROVE  TurnsInv' /\ [T!Next]_(T!vars)
  <1> USE DEF TurnsInv
  <1>0. TakingTurns.writers = {"A", "B"} /\ TakingTurns.turns = TRUE
        BY DEF TakingTurns
  <1>1. CASE UNCHANGED rootVars
    <2>1. UNCHANGED <<use, mem, memB, vars, up, upB>>
          BY <1>1 DEF rootVars, vars, mem, memB
    <2>2. TurnsInv'
          BY <2>1 DEF FreshMem
    <2>3. UNCHANGED T!vars
          BY <2>1 DEF vars, memB, T!vars, Turn
    <2> QED BY <2>2, <2>3
  <1>2. ASSUME StepA, UNCHANGED memB, InTurn, use' = use PROVE TurnsInv' /\ T!Next
    <2>1. Next /\ ~(up' /\ upB') /\ upB' = upB
          BY <1>0, <1>2 DEF StepA, InTurn, memB
    <2>2. ~upB
          BY <2>1, ClosedOpens
    <2>3. up' \in BOOLEAN /\ (~up' => mem' = FreshMem)
          BY <2>1, Endings
    <2>4. TurnsInv'
          BY <1>2, <2>1, <2>2, <2>3 DEF FreshMem
    <2> QED BY <2>1, <2>2, <2>3, <2>4, AsA
  <1>3. ASSUME StepB, UNCHANGED mem, InTurn, use' = use PROVE TurnsInv' /\ T!Next
    <2>1. B!Next /\ ~(up' /\ upB') /\ up' = up
          BY <1>0, <1>3 DEF StepB, InTurn, mem
    <2>2. ~up
          BY <2>1, ClosedOpensB
    <2>3. upB' \in BOOLEAN /\ (~upB' => memB' = FreshMem)
          BY <2>1, EndingsB
    <2>4. TurnsInv'
          BY <1>3, <2>1, <2>2, <2>3 DEF FreshMem
    <2>5. IsB
          BY <2>2, BesideClosed
    <2>6. (mem = FreshMem /\ (~upB => memB = FreshMem) => IsB)'
          BY BesideClosed, PTL
    <2>7. IsB'
          BY <1>3, <2>2, <2>3, <2>6 DEF FreshMem
    <2> QED BY <2>1, <2>2, <2>3, <2>4, <2>5, <2>7, AsB
  <1>4. CASE RootNext
        BY <1>2, <1>3, <1>4 DEF RootNext
  <1> QED BY <1>1, <1>4

\* Two editors that build in turns are the sessions, one after another, of the
\* one store of module ContentStore, however their sessions end.
THEOREM TurnsAreSessions == RootSpec /\ use = TakingTurns => T!Spec
  <1>1. RootInit => T!Init
        BY DEF RootInit, Init, B!Init, T!Init, None, T!None, B!None, Turn, T!Segments, T!Nowhere
  <1> QED BY InitiallyFresh, TurnStep, <1>1, PTL DEF RootSpec, T!Spec
=============================================================================
