----------------------------- MODULE ReadSide_proofs -----------------------------
(***************************************************************************)
(* Reading an open cache, for any callers, pool threads, levels, items and *)
(* archives and any number of stdio slots.  The invariant has a part for   *)
(* each of the three components, which its own steps keep, and one for     *)
(* what they owe each other: a worker reads for the record it looked up,   *)
(* and the codec is there before anything is read.                         *)
(***************************************************************************)
EXTENDS ReadSide, FiniteSetTheorems, SequenceTheorems, TLAPS

Calls == {"idle", "entered", "submitting", "waiting", "done", "failed"}
Records == {<<>>} \cup {Key(LevelOf[a], i) : a \in Askers, i \in Items}
Given == [for : Callers, item : Items, key : {<<>>}]
Slots == {Idle} \cup [for : Askers, item : Items, key : Records]

CallTypes ==
    /\ call \in [Callers -> Calls] /\ batch \in Callers \cup {Nobody} /\ pool \in BOOLEAN
    /\ unsent \in [Askers -> SUBSET Items] /\ queue \in Seq(Given)
    /\ busy \in [Executors -> Slots]
    /\ DOMAIN answer = Askers /\ \A a \in Askers : DOMAIN answer[a] = ItemsOf[a]

Active(c) == call[c] \in {"entered", "submitting", "waiting"}

\* What is on the pool is the holder's, and the holder has not returned.
Held ==
    /\ \A c \in Callers : Active(c) <=> batch = c
    /\ \A i \in DOMAIN queue : queue[i].for = batch /\ call[batch] \in {"submitting", "waiting"}
    /\ \A w \in Workers : busy[w] # Idle =>
           busy[w].for = batch /\ call[batch] \in {"submitting", "waiting"}

\* The index has the records of its own level, and a look-up gave the asker's.
IndexOwn == \A k \in index.keys : k = Key(index.level, k[2])
FoundOwn == \A e \in Executors : busy[e].key # <<>> =>
                busy[e].key = Key(LevelOf[busy[e].for], busy[e].item)

CallInv == CallTypes /\ Held /\ IndexOwn /\ FoundOwn /\ AnswerIsOwn

\* With the right library the handle and the entry point are there once a thread has
\* come past the load of each; with another there never is an entry point.
Runs == Threads \cup Callers
LoaderInv ==
    /\ pc \in [Runs -> {"out", "load", "test", "look", "store", "check"}]
    /\ looked \in [Runs -> {"entry", L!Null}] /\ result \in [Runs -> {"none", "true", "false"}]
    /\ \A t \in Runs : result[t] = "true" => g_decompress # L!Null
    /\ library = "good" =>
         \A t \in Runs :
            /\ pc[t] \in {"test", "look", "store", "check"} => g_oodle # L!Null
            /\ pc[t] = "store" => looked[t] = "entry"
            /\ pc[t] = "check" => g_decompress # L!Null
    /\ library # "good" => g_decompress = L!Null /\ \A t \in Runs : looked[t] = L!Null

HandleInv ==
    /\ limit \in {DefaultSlots, RaisedSlots}
    /\ open \in [Threads -> SUBSET Archives] /\ left \in [Threads -> Seq(Archives)]
    /\ DOMAIN served = Threads /\ retrying \in [Threads -> BOOLEAN]
    /\ nulls \in [Threads -> SUBSET Gone]
    /\ H!SlotsUsed <= limit
    /\ \A t \in Threads : retrying[t] => limit = RaisedSlots

\* Between the components.
HasCodec == g_decompress # L!Null
Crossing ==
    /\ stage \in [Threads -> {"idle", "opening", "reading"}]
    /\ \A w \in Workers : stage[w] # "idle" => HasRecord(w)
    /\ \A c \in Callers : LevelOf[c] = NoLevel /\ Active(c) => HasCodec
    /\ ReadersHaveCodec

IInv == CallInv /\ LoaderInv /\ HandleInv /\ Crossing

-----------------------------------------------------------------------------
USE ReadAssumption

\* The loader alone: a step of oodle_open keeps its invariant, and the entry point
\* once found is never lost.
LEMMA LoaderStep ==
    ASSUME LoaderInv, NEW t \in Runs, L!Open(t) \/ L!Run(t) \/ L!Used(t)
    PROVE  LoaderInv' /\ (HasCodec => HasCodec')
  <1> USE DEF Runs, L!Null, LoaderInv, HasCodec, L!Answer, L!Goto
  <1>1. CASE L!Open(t)
        BY <1>1 DEF L!Open, L!Loaded
  <1>2. CASE L!Load(t)
        BY <1>2 DEF L!Load
  <1>3. CASE L!Test(t)
        BY <1>3 DEF L!Test
  <1>4. CASE L!Look(t)
        BY <1>4 DEF L!Look
  <1>5. CASE L!Store(t)
        BY <1>5 DEF L!Store
  <1>6. CASE L!Check(t)
        BY <1>6 DEF L!Check
  <1>7. CASE L!Used(t)
        BY <1>7 DEF L!Used
  <1> QED BY <1>1, <1>2, <1>3, <1>4, <1>5, <1>6, <1>7 DEF L!Run

-----------------------------------------------------------------------------
\* The pairs of a thread and an archive it has a handle of are finitely many, so
\* fewer pairs take no more slots, and a pair more takes at most one more.
LEMMA FewerTakeNoMore ==
    ASSUME NEW S, IsFiniteSet(S), NEW R, R \subseteq S
    PROVE  Cardinality(R) \in Nat /\ Cardinality(S) \in Nat /\ Cardinality(R) <= Cardinality(S)
  <1>1. IsFiniteSet(R) /\ Cardinality(R) <= Cardinality(S)
        BY FS_Subset, Zenon
  <1> QED BY <1>1, FS_CardinalityType

LEMMA OneMoreTakesOne ==
    ASSUME NEW S, IsFiniteSet(S), NEW x, NEW R, R \subseteq S \cup {x}
    PROVE  Cardinality(R) \in Nat /\ Cardinality(S) \in Nat /\ Cardinality(R) <= Cardinality(S) + 1
  <1>1. /\ IsFiniteSet(S \cup {x})
        /\ Cardinality(S \cup {x}) =
             IF x \in S THEN Cardinality(S) ELSE Cardinality(S) + 1
        BY FS_AddElement, Zenon
  <1>2. Cardinality(S) \in Nat
        BY FS_CardinalityType
  <1>3. Cardinality(R) \in Nat /\ Cardinality(R) <= Cardinality(S \cup {x})
        BY <1>1, FewerTakeNoMore, Zenon
  <1> QED BY <1>1, <1>2, <1>3

\* The instance's Cardinality is the one the library's theorems are about.
LEMMA SameCount == \A S : H!Cardinality(S) = Cardinality(S)
  BY DEF H!Cardinality, Cardinality

LEMMA HandlesFinite ==
    /\ IsFiniteSet(H!Handles) /\ H!SlotsUsed = Cardinality(H!Handles) /\ H!SlotsUsed \in Nat
    /\ IsFiniteSet(H!Handles') /\ H!SlotsUsed' = Cardinality(H!Handles') /\ H!SlotsUsed' \in Nat
  <1>1. IsFiniteSet(Threads \X Archives)
        BY FS_Product
  <1>2. H!Handles \subseteq Threads \X Archives /\ H!Handles' \subseteq Threads \X Archives
        BY DEF H!Handles
  <1>3. IsFiniteSet(H!Handles) /\ IsFiniteSet(H!Handles')
        BY <1>1, <1>2, FS_Subset, Zenon
  <1>4. Cardinality(H!Handles) \in Nat /\ Cardinality(H!Handles') \in Nat
        BY <1>3, FS_CardinalityType
  <1>5. H!SlotsUsed = Cardinality(H!Handles) /\ H!SlotsUsed' = Cardinality(H!Handles')
        BY SameCount DEF H!SlotsUsed
  <1> QED BY <1>3, <1>4, <1>5

LEMMA OneMoreHandle ==
    ASSUME HandleInv, NEW t \in Threads, NEW a, open' = [open EXCEPT ![t] = @ \cup {a}]
    PROVE  H!SlotsUsed' <= H!SlotsUsed + 1
  <1>1. H!Handles' \subseteq H!Handles \cup {<<t, a>>}
        BY DEF HandleInv, H!Handles
  <1> QED BY <1>1, HandlesFinite, OneMoreTakesOne, Zenon

\* Raising never lowers, and ends at the raised limit.
LEMMA RaiseFacts ==
    ASSUME limit \in {DefaultSlots, RaisedSlots} PROVE H!Raise = RaisedSlots /\ H!Raise >= limit
  BY DEF H!Raise

\* What is left of a record's archives is a shorter list of them.
LEMMA LeftFacts ==
    ASSUME HandleInv, NEW t \in Threads, left[t] # <<>>, H!Serves(t) \/ H!Passes(t)
    PROVE  /\ left' \in [Threads -> Seq(Archives)]
           /\ DOMAIN served' = Threads /\ retrying' \in [Threads -> BOOLEAN]
           /\ \A u \in Threads : /\ retrying'[u] => retrying[u]
                                 /\ left'[u] # <<>> => left[u] # <<>>
  <1>1. Tail(left[t]) \in Seq(Archives) /\ <<>> \in Seq(Archives)
        BY DEF HandleInv
  <1>2. /\ left \in [Threads -> Seq(Archives)] /\ DOMAIN served = Threads
        /\ retrying \in [Threads -> BOOLEAN]
        BY DEF HandleInv
  <1>3. CASE H!Serves(t)
        BY <1>1, <1>2, <1>3 DEF H!Serves
  <1>4. CASE H!Passes(t)
        BY <1>1, <1>2, <1>4 DEF H!Passes
  <1> QED BY <1>3, <1>4

LEMMA ReadStep ==
    ASSUME HandleInv, NEW t \in Threads, H!Read(t)
    PROVE  HandleInv' /\ \A u \in Threads : left'[u] # <<>> => left[u] # <<>>
  <1> USE DEF HandleInv
  <1>1. CASE H!Known(t)
    <2>1. H!SlotsUsed' = H!SlotsUsed
          BY <1>1 DEF H!Known, H!SlotsUsed, H!Handles
    <2> QED BY <1>1, <2>1, LeftFacts DEF H!Known
  <1>2. CASE left[t] # <<>> /\ H!Opens(t)
    <2>1. UNCHANGED limit /\ H!SlotsUsed < limit
          BY <1>2 DEF H!Opens, H!SlotFree
    <2>2. CASE Head(left[t]) \in Gone
      <3>1. H!Passes(t) /\ UNCHANGED open
            BY <1>2, <2>2 DEF H!Opens
      <3>2. H!SlotsUsed' = H!SlotsUsed
            BY <3>1 DEF H!SlotsUsed, H!Handles
      <3>3. nulls' \in [Threads -> SUBSET Gone]
        <4>1. nulls' = [nulls EXCEPT ![t] = @ \cup {Head(left[t])}]
              BY <1>2, <2>2 DEF H!Opens
        <4> HIDE DEF HandleInv
        <4>2. nulls \in [Threads -> SUBSET Gone]
              BY DEF HandleInv
        <4> QED BY <2>2, <4>1, <4>2
      <3> QED BY <1>2, <2>1, <3>1, <3>2, <3>3, LeftFacts
    <2>3. CASE Head(left[t]) \notin Gone
      <3>1. H!Serves(t) /\ open' = [open EXCEPT ![t] = @ \cup {Head(left[t])}]
            BY <1>2, <2>3 DEF H!Opens
      <3>2. Head(left[t]) \in Archives
            BY <1>2
      <3>3. H!SlotsUsed' <= H!SlotsUsed + 1
            BY <3>1, OneMoreHandle, Zenon
      <3>4. limit \in Nat /\ H!SlotsUsed' <= limit'
            BY <2>1, <3>3, HandlesFinite
      <3>5. UNCHANGED nulls
            BY <1>2, <2>3 DEF H!Opens
      <3> QED BY <1>2, <2>1, <3>1, <3>2, <3>4, <3>5, LeftFacts
    <2> QED BY <2>2, <2>3
  <1>3. CASE H!Refused(t)
    <2>1. H!SlotsUsed' = H!SlotsUsed
          BY <1>3 DEF H!Refused, H!SlotsUsed, H!Handles
    <2>2. limit' = RaisedSlots /\ limit' >= limit
          BY <1>3, RaiseFacts DEF H!Refused
    <2> QED BY <1>3, <2>1, <2>2, HandlesFinite DEF H!Refused
  <1>4. CASE H!RefusedAgain(t)
    <2>1. H!SlotsUsed' = H!SlotsUsed
          BY <1>4 DEF H!RefusedAgain, H!SlotsUsed, H!Handles
    <2> QED BY <1>4, <2>1, LeftFacts DEF H!RefusedAgain, H!AfterRefusal, H!Unopened
  <1> QED BY <1>1, <1>2, <1>3, <1>4 DEF H!Read, H!Open, H!Retry, H!Unopened

\* The steps around a read.
LEMMA AroundStep ==
    ASSUME HandleInv, NEW t \in Threads,
           \/ \E s \in Seq(Archives), b \in BOOLEAN : H!Begin(t, s, b)
           \/ H!Ends(t)
           \/ H!Exit(t)
    PROVE  HandleInv' /\ \A u \in Threads \ {t} : left'[u] = left[u]
  <1> USE DEF HandleInv
  <1>1. ASSUME NEW s \in Seq(Archives), NEW b \in BOOLEAN, H!Begin(t, s, b)
        PROVE  HandleInv' /\ \A u \in Threads \ {t} : left'[u] = left[u]
    <2>1. H!SlotsUsed' = H!SlotsUsed
          BY <1>1 DEF H!Begin, H!SlotsUsed, H!Handles
    <2> QED BY <1>1, <2>1 DEF H!Begin
  <1>2. CASE H!Ends(t)
    <2>1. H!SlotsUsed' = H!SlotsUsed
          BY <1>2 DEF H!Ends, H!SlotsUsed, H!Handles
    <2> QED BY <1>2, <2>1 DEF H!Ends
  <1>3. CASE H!Exit(t)
    <2>1. H!Handles' \subseteq H!Handles
          BY <1>3 DEF H!Exit, H!Handles
    <2>2. H!SlotsUsed' <= H!SlotsUsed
          BY <2>1, HandlesFinite, FewerTakeNoMore, Zenon
    <2> QED BY <1>3, <2>2, HandlesFinite DEF H!Exit
  <1> QED BY <1>1, <1>2, <1>3

-----------------------------------------------------------------------------
\* Nobody else is in a batch while nobody holds it, and then nothing is on the pool.
LEMMA NoTasks ==
    ASSUME CallTypes, Held, batch \notin Callers \/ call[batch] \notin {"submitting", "waiting"}
    PROVE  queue = <<>> /\ \A w \in Workers : busy[w] = Idle
  <1>1. ASSUME NEW i \in DOMAIN queue PROVE FALSE
    <2>1. queue[i] \in Given
          BY DEF CallTypes
    <2>2. queue[i].for \in Callers
          BY <2>1 DEF Given
    <2>3. queue[i].for = batch /\ call[batch] \in {"submitting", "waiting"}
          BY DEF Held
    <2> QED BY <2>2, <2>3
  <1>2. queue \in Seq(Given) /\ DOMAIN queue = 1..Len(queue) /\ Len(queue) \in Nat
        BY DEF CallTypes
  <1>3. queue = <<>>
    <2>1. Len(queue) # 0 => 1 \in DOMAIN queue
          BY <1>2
    <2>2. Len(queue) = 0
          BY <1>1, <2>1
    <2> QED BY <1>2, <2>2, EmptySeq
  <1>4. ASSUME NEW w \in Workers, busy[w] # Idle PROVE FALSE
    <2>1. busy[w] \in Slots
          BY DEF CallTypes, Executors
    <2>2. busy[w].for \in Askers
          BY <1>4, <2>1 DEF Slots
    <2> QED BY <1>4, <2>2 DEF CallTypes, Held
  <1> QED BY <1>3, <1>4

\* No worker loses its record and no call comes into a batch.
Stays ==
    /\ \A w \in Workers : HasRecord(w) => HasRecord(w)'
    /\ \A c \in Callers : Active(c)' => Active(c)

\* A caller takes the batch when nobody has it, makes the pool or fails to.
LEMMA EnterStep ==
    ASSUME CallInv, NEW c \in Callers, Enter(c)
    PROVE  CallInv' /\ (\A w \in Workers : HasRecord(w) => HasRecord(w)')
           /\ \A d \in Callers \ {c} : Active(d)' => Active(d)
  <1> USE DEF Enter, Free, CallInv
  <1>1. queue = <<>> /\ \A w \in Workers : busy[w] = Idle
        BY NoTasks DEF Askers
  <1>2. CallTypes'
        BY DEF CallTypes, Calls
  <1>3. Held'
        BY <1>1 DEF Held, CallTypes, Active, Askers
  <1>4. IndexOwn' /\ FoundOwn' /\ AnswerIsOwn'
        BY DEF IndexOwn, FoundOwn, AnswerIsOwn
  <1> QED BY <1>2, <1>3, <1>4 DEF HasRecord, CallTypes, Active

LEMMA PoolStep ==
    ASSUME CallInv, NEW c \in Callers, MakesPool(c) \/ MakesNone(c)
    PROVE  CallInv' /\ Stays
  <1> USE DEF MakesPool, MakesNone, CallInv
  <1>1. batch = c /\ queue = <<>> /\ \A w \in Workers : busy[w] = Idle
        BY NoTasks DEF Held, Active
  <1>2. CallTypes'
        BY DEF CallTypes, Calls
  <1>3. Held'
        BY <1>1 DEF Held, CallTypes, Active, Askers
  <1>4. IndexOwn' /\ FoundOwn' /\ AnswerIsOwn'
        BY DEF IndexOwn, FoundOwn, AnswerIsOwn
  <1> QED BY <1>2, <1>3, <1>4 DEF Stays, HasRecord, CallTypes, Active

LEMMA SubmitStep ==
    ASSUME CallInv, NEW c \in Callers, Submit(c) PROVE CallInv' /\ Stays
  <1> USE DEF CallInv
  <1>1. PICK i \in unsent[c] : /\ unsent' = [unsent EXCEPT ![c] = @ \ {i}]
                               /\ queue' = Append(queue, Task(c, i))
        BY DEF Submit
  <1>2. /\ call[c] = "submitting" /\ batch = c
        /\ UNCHANGED <<call, batch, pool, busy, index, answer>>
        BY DEF Submit, Held, Active
  <1>3. Task(c, i) \in Given /\ Task(c, i).for = c
        BY <1>1 DEF CallTypes, Task, Given, Askers
  <1>4. queue \in Seq(Given)
        BY DEF CallTypes
  <1>5. /\ queue' \in Seq(Given)
        /\ \A j \in DOMAIN queue' :
              (j \in DOMAIN queue /\ queue'[j] = queue[j]) \/ queue'[j] = Task(c, i)
        BY <1>1, <1>3, <1>4, AppendProperties
  <1>6. CallTypes'
        BY <1>1, <1>2, <1>5 DEF CallTypes, Askers
  <1>7. Held'
        BY <1>2, <1>3, <1>5 DEF Held, Active
  <1>8. IndexOwn' /\ FoundOwn' /\ AnswerIsOwn'
        BY <1>2 DEF IndexOwn, FoundOwn, AnswerIsOwn
  <1> QED BY <1>2, <1>6, <1>7, <1>8 DEF Stays, HasRecord, Active

LEMMA SentStep ==
    ASSUME CallInv, NEW c \in Callers, AllSent(c) PROVE CallInv' /\ Stays
  <1> USE DEF AllSent, CallInv
  <1>1. CallTypes'
        BY DEF CallTypes, Calls
  <1>2. Held'
        BY DEF Held, CallTypes, Active
  <1>3. IndexOwn' /\ FoundOwn' /\ AnswerIsOwn'
        BY DEF IndexOwn, FoundOwn, AnswerIsOwn
  <1> QED BY <1>1, <1>2, <1>3 DEF Stays, HasRecord, CallTypes, Active

\* The holder returns only when the pool has nothing left: wait() is pool-wide.
LEMMA ReturnStep ==
    ASSUME CallInv, NEW c \in Callers, Return(c) PROVE CallInv' /\ Stays
  <1> USE DEF Return, CallInv
  <1>1. IsFiniteSet({w \in Workers : busy[w] # Idle})
    <2>1. Workers \subseteq Threads
          BY DEF Threads
    <2> QED BY <2>1, FS_Subset
  <1>2. Cardinality({w \in Workers : busy[w] # Idle}) \in Nat /\ Len(queue) \in Nat
        BY <1>1, FS_CardinalityType DEF CallTypes
  <1>3. Cardinality({w \in Workers : busy[w] # Idle}) = 0 /\ Len(queue) = 0
        BY <1>2 DEF Outstanding
  <1>4. queue = <<>> /\ \A w \in Workers : busy[w] = Idle
    <2>1. {w \in Workers : busy[w] # Idle} = {}
          BY <1>1, <1>3, FS_EmptySet
    <2>2. queue \in Seq(Given)
          BY DEF CallTypes
    <2>3. queue = <<>>
          BY <1>3, <2>2, EmptySeq
    <2> QED BY <2>1, <2>3
  <1>5. CallTypes'
        BY DEF CallTypes, Calls
  <1>6. Held'
        BY <1>4 DEF Held, CallTypes, Active, Askers
  <1>7. IndexOwn' /\ FoundOwn' /\ AnswerIsOwn'
        BY DEF IndexOwn, FoundOwn, AnswerIsOwn
  <1> QED BY <1>5, <1>6, <1>7 DEF Stays, HasRecord, CallTypes, Active

\* A task passes from the queue to a worker; it is the holder's in both places.
LEMMA TakeStep ==
    ASSUME CallInv, NEW w \in Workers, Take(w) PROVE CallInv' /\ Stays
  <1> USE DEF CallInv
  <1>1. /\ busy[w] = Idle /\ queue # <<>>
        /\ busy' = [busy EXCEPT ![w] = Head(queue)] /\ queue' = Tail(queue)
        /\ UNCHANGED <<call, batch, pool, unsent, index, answer>>
        BY DEF Take
  <1>2. queue \in Seq(Given) /\ w \in Executors /\ 1 \in DOMAIN queue /\ Head(queue) = queue[1]
        BY <1>1 DEF CallTypes, Executors
  <1>3. /\ Head(queue) \in Given /\ Tail(queue) \in Seq(Given)
        /\ \A i \in DOMAIN Tail(queue) : i + 1 \in DOMAIN queue /\ Tail(queue)[i] = queue[i + 1]
        BY <1>1, <1>2
  <1>4. Head(queue) \in Slots /\ Head(queue).key = <<>>
        BY <1>3 DEF Given, Slots, Records, Askers
  <1>5. CallTypes'
        BY <1>1, <1>2, <1>3, <1>4 DEF CallTypes
  <1>6. \A e \in Executors : busy'[e] = IF e = w THEN Head(queue) ELSE busy[e]
        BY <1>1 DEF CallTypes
  <1>7. Held'
        BY <1>1, <1>2, <1>3, <1>6 DEF Held, Active, Executors
  <1>8. IndexOwn' /\ FoundOwn' /\ AnswerIsOwn'
        BY <1>1, <1>4, <1>6 DEF IndexOwn, FoundOwn, AnswerIsOwn
  <1>9. Idle.key = <<>>
        BY DEF Idle, Task
  <1> QED BY <1>1, <1>5, <1>6, <1>7, <1>8, <1>9 DEF Stays, HasRecord, Active, Executors

LEMMA AskStep ==
    ASSUME CallInv, NEW s \in Singles, Ask(s) PROVE CallInv' /\ Stays
  <1> USE DEF CallInv
  <1>1. PICK i \in unsent[s] : /\ unsent' = [unsent EXCEPT ![s] = @ \ {i}]
                               /\ busy' = [busy EXCEPT ![s] = Task(s, i)]
        BY DEF Ask
  <1>2. UNCHANGED <<call, batch, pool, queue, index, answer>>
        BY DEF Ask
  <1>3. s \in Askers /\ s \in Executors /\ s \notin Workers
        BY DEF Askers, Executors
  <1>4. Task(s, i) \in Slots /\ Task(s, i).key = <<>>
        BY <1>1, <1>3 DEF CallTypes, Task, Slots, Records
  <1>5. CallTypes'
        BY <1>1, <1>2, <1>3, <1>4 DEF CallTypes
  <1>6. \A e \in Executors : busy'[e] = IF e = s THEN Task(s, i) ELSE busy[e]
        BY <1>1 DEF CallTypes
  <1>7. Held'
        BY <1>2, <1>3, <1>6 DEF Held, Active, Executors
  <1>8. IndexOwn' /\ FoundOwn' /\ AnswerIsOwn'
        BY <1>2, <1>4, <1>6 DEF IndexOwn, FoundOwn, AnswerIsOwn
  <1> QED BY <1>2, <1>3, <1>5, <1>6, <1>7, <1>8 DEF Stays, HasRecord, Active, Executors

-----------------------------------------------------------------------------
\* An item ends with no answer or with the record that was found for it.
LEMMA EndsStep ==
    ASSUME CallInv, NEW e \in Executors, NEW a, Ends(e, a),
           a \in {Nothing, Unread} \/ (busy[e].key # <<>> /\ a = busy[e].key)
    PROVE  /\ CallTypes' /\ Held' /\ FoundOwn' /\ AnswerIsOwn'
           /\ \A w \in Workers \ {e} : HasRecord(w) => HasRecord(w)'
           /\ \A c \in Callers : Active(c)' => Active(c)
  <1> USE DEF CallInv
  <1> DEFINE f == busy[e].for
             i == busy[e].item
  <1>1. /\ answer' = [answer EXCEPT ![f] = [answer[f] EXCEPT ![i] = a]]
        /\ busy' = [busy EXCEPT ![e] = Idle]
        /\ UNCHANGED <<call, batch, pool, unsent, queue>>
        BY DEF Ends
  <1>2. Idle \in Slots /\ Idle.key = <<>>
        BY DEF Slots, Idle, Task
  <1>3. \A d \in Executors : busy'[d] = IF d = e THEN Idle ELSE busy[d]
        BY <1>1 DEF CallTypes
  <1>4. /\ DOMAIN answer' = Askers /\ \A b \in Askers : DOMAIN answer'[b] = ItemsOf[b]
        /\ \A b \in Askers : \A j \in ItemsOf[b] :
              answer'[b][j] = IF b = f /\ j = i THEN a ELSE answer[b][j]
        BY <1>1 DEF CallTypes
  <1>5. CallTypes'
        BY <1>1, <1>2, <1>4 DEF CallTypes
  <1>6. Held'
        BY <1>1, <1>3 DEF Held, Active, Executors
  <1>7. FoundOwn'
        BY <1>2, <1>3 DEF FoundOwn
  <1>8. a \notin {Unasked, Nothing, Unread} => a = Key(LevelOf[f], i)
        BY DEF FoundOwn
  <1>9. AnswerIsOwn'
        BY <1>4, <1>8 DEF AnswerIsOwn
  <1> QED BY <1>1, <1>3, <1>5, <1>6, <1>7, <1>9 DEF HasRecord, Active, Executors

\* An item's record is found: that of the level its own call asked for.
LEMMA FoundStep ==
    ASSUME CallInv, NEW e \in Executors, busy[e] # Idle, busy[e].key = <<>>,
           Found(e, Key(LevelOf[busy[e].for], busy[e].item))
    PROVE  CallTypes' /\ Held' /\ FoundOwn' /\ AnswerIsOwn' /\ Stays
  <1> USE DEF CallInv
  <1> DEFINE k == Key(LevelOf[busy[e].for], busy[e].item)
             r == [busy[e] EXCEPT !.key = k]
  <1>1. /\ busy' = [busy EXCEPT ![e] = r]
        /\ UNCHANGED <<call, batch, pool, unsent, queue, answer>>
        BY DEF Found
  <1>2. busy[e] \in [for : Askers, item : Items, key : Records]
        BY DEF CallTypes, Slots
  <1>3. k \in Records
        BY <1>2 DEF Records
  <1> HIDE DEF k
  <1>4. /\ r \in [for : Askers, item : Items, key : Records]
        /\ r.for = busy[e].for /\ r.item = busy[e].item /\ r.key = k
        BY <1>2, <1>3
  <1> HIDE DEF r
  <1>5. \A d \in Executors : busy'[d] = IF d = e THEN r ELSE busy[d]
        BY <1>1 DEF CallTypes
  <1>6. CallTypes'
        BY <1>1, <1>4 DEF CallTypes, Slots
  <1>7. Held'
        BY <1>1, <1>4, <1>5 DEF Held, Active, Executors
  <1>8. FoundOwn'
        BY <1>4, <1>5 DEF FoundOwn, k
  <1>9. AnswerIsOwn'
        BY <1>1 DEF AnswerIsOwn
  <1>10. \A w \in Workers : HasRecord(w) => HasRecord(w)'
    <2>1. \A w \in Workers : HasRecord(w) => w # e
          BY DEF HasRecord
    <2> QED BY <1>5, <2>1 DEF HasRecord, Executors
  <1> QED BY <1>1, <1>6, <1>7, <1>8, <1>9, <1>10 DEF Stays, Active

LEMMA NamedStep ==
    ASSUME CallInv, NEW w \in Workers, Named(w) PROVE CallInv' /\ Stays
  <1>1. /\ w \in Executors /\ busy[w] # Idle /\ busy[w].key = <<>> /\ UNCHANGED index
        /\ Found(w, Key(LevelOf[busy[w].for], busy[w].item))
        BY DEF Named, ForMesh, Executors
  <1>2. CallTypes' /\ Held' /\ FoundOwn' /\ AnswerIsOwn' /\ Stays
        BY <1>1, FoundStep
  <1> QED BY <1>1, <1>2 DEF CallInv, IndexOwn

\* The look-up replaces the index by one of its own level, if it is of another: what it
\* finds there is the record of that level.
LEMMA LookStep ==
    ASSUME CallInv, NEW e \in Executors, LookUp(e) PROVE CallInv' /\ Stays
  <1> DEFINE l == LevelOf[busy[e].for]
             now == IF Current(l) THEN index ELSE Loaded(l)
             found == {k \in now.keys : k[2] = busy[e].item}
  <1>1. busy[e] # Idle /\ busy[e].key = <<>>
        BY DEF LookUp
  <1>2. \A k \in now.keys : k = Key(l, k[2])
    <2>1. CASE Current(l)
          BY <2>1 DEF Current, CallInv, IndexOwn
    <2>2. CASE ~Current(l)
          BY <2>2 DEF Loaded, Key
    <2> QED BY <2>1, <2>2
  <1>3. now.level = l
        BY DEF Current, Loaded
  <1>4. NoIndex.keys = {}
        BY DEF NoIndex
  <1>5. index' \in {now, NoIndex} => IndexOwn'
        BY <1>2, <1>3, <1>4 DEF IndexOwn
  <1>6. \A w \in Workers : HasRecord(w) => w # e
        BY <1>1 DEF HasRecord
  <1>7. CASE Ends(e, Nothing) /\ index' \in {now, NoIndex}
        BY <1>5, <1>6, <1>7, EndsStep DEF CallInv, Stays
  <1>8. CASE index' = now /\ found # {} /\ Found(e, CHOOSE k \in found : TRUE)
    <2>1. (CHOOSE k \in found : TRUE) \in found
          BY <1>8
    <2>2. (CHOOSE k \in found : TRUE) = Key(l, busy[e].item)
          BY <1>2, <2>1
    <2>3. Found(e, Key(l, busy[e].item))
          BY <1>8, <2>2
    <2> QED BY <1>1, <1>5, <1>8, <2>3, FoundStep DEF CallInv
  <1> QED BY <1>7, <1>8 DEF LookUp

LEMMA CallsKeep == ASSUME CallInv, CallStep PROVE CallInv' /\ Stays
  BY SubmitStep, SentStep, ReturnStep, TakeStep, NamedStep, AskStep, LookStep DEF CallStep

-----------------------------------------------------------------------------
LEMMA Initially == Init => IInv
  <1> SUFFICES ASSUME Init PROVE IInv
      OBVIOUS
  <1> USE DEF Init
  <1>1. CallInv
    <2> USE DEF CallInit
    <2>1. Idle.key = <<>> /\ Idle.for = Nobody /\ Idle \in Slots /\ NoIndex.keys = {}
          BY DEF Idle, Task, Slots, NoIndex
    <2>2. <<>> \in Seq(Given)
          BY EmptySeq
    <2>3. CallTypes
          BY <2>1, <2>2 DEF CallTypes, Calls
    <2>4. Held /\ IndexOwn /\ FoundOwn /\ AnswerIsOwn
          BY <2>1 DEF Held, Active, IndexOwn, FoundOwn, AnswerIsOwn, Executors, Askers
    <2> QED BY <2>3, <2>4 DEF CallInv
  <1>2. LoaderInv
        BY DEF L!Init, LoaderInv, Runs
  <1>3. HandleInv
    <2>1. H!Handles = {}
          BY DEF H!Init, H!Handles
    <2>2. H!SlotsUsed = 0
          BY <2>1, HandlesFinite, FS_EmptySet
    <2> QED BY <2>2 DEF H!Init, HandleInv
  <1>4. Crossing
    <2>1. \A c \in Callers : ~Active(c)
          BY DEF CallInit, Active
    <2>2. \A t \in Threads : left[t] = <<>>
          BY DEF H!Init
    <2>3. /\ stage \in [Threads -> {"idle", "opening", "reading"}]
          /\ \A w \in Workers : stage[w] = "idle"
          BY DEF Threads
    <2> QED BY <2>1, <2>2, <2>3 DEF Crossing, ReadersHaveCodec
  <1> QED BY <1>1, <1>2, <1>3, <1>4 DEF IInv

\* What passes from a step of one component to what it owes the others.
LEMMA CrossingKept ==
    ASSUME IInv,
           \A w \in Workers : stage'[w] # "idle" => HasRecord(w)',
           stage' \in [Threads -> {"idle", "opening", "reading"}],
           HasCodec => HasCodec',
           \A c \in Callers : LevelOf[c] = NoLevel /\ Active(c)' => Active(c) \/ HasCodec,
           \A t \in Threads : left'[t] # <<>> => left[t] # <<>> \/ HasCodec
    PROVE  Crossing'
  <1>1. HasCodec => g_decompress' # L!Null
        BY DEF HasCodec
  <1> QED BY <1>1 DEF IInv, Crossing, ReadersHaveCodec, HasCodec

LEMMA CallCrossing ==
    ASSUME IInv, CallInv', Stays, UNCHANGED <<left, g_decompress, stage>>
    PROVE  Crossing'
  <1>1. HasCodec => HasCodec'
        BY DEF HasCodec
  <1> QED BY <1>1, CrossingKept DEF IInv, Crossing, Stays

LEMMA LoaderKept == ASSUME LoaderInv, UNCHANGED loader PROVE LoaderInv' /\ (HasCodec => HasCodec')
  BY DEF LoaderInv, loader, HasCodec

LEMMA HandlesKept == ASSUME HandleInv, UNCHANGED handles PROVE HandleInv' /\ UNCHANGED left
  <1>1. UNCHANGED <<limit, open, nulls, left, all, retrying, served>>
        BY DEF handles
  <1>2. H!SlotsUsed' = H!SlotsUsed
        BY <1>1 DEF H!SlotsUsed, H!Handles
  <1> QED BY <1>1, <1>2 DEF HandleInv

LEMMA CallsKept ==
    ASSUME CallInv, UNCHANGED callVars
    PROVE  CallInv' /\ Stays
  BY DEF callVars, CallInv, CallTypes, Held, Active, IndexOwn, FoundOwn, AnswerIsOwn,
         Stays, HasRecord

-----------------------------------------------------------------------------
\* The steps of a call, and of a thread inside oodle_open.
LEMMA BatchStep ==
    ASSUME IInv, UNCHANGED stage,
           \/ CallStep /\ UNCHANGED <<handles, loader>>
           \/ \E c \in Callers : NoCodec(c) \/ EnterBatch(c) \/ GetReaders(c)
           \/ \E s \in Singles : TakesRecord(s)
    PROVE  IInv'
  <1> USE DEF IInv
  <1>1. CASE CallStep /\ UNCHANGED <<handles, loader>>
    <2>1. CallInv' /\ Stays
          BY <1>1, CallsKeep
    <2>2. HandleInv' /\ LoaderInv' /\ UNCHANGED <<left, g_decompress>>
          BY <1>1, HandlesKept, LoaderKept DEF loader
    <2> QED BY <2>1, <2>2, CallCrossing
  <1>2. ASSUME NEW c \in Callers, NoCodec(c) PROVE IInv'
    <2>1. /\ call[c] = "idle" /\ call' = [call EXCEPT ![c] = "failed"]
          /\ UNCHANGED <<batch, pool, unsent, queue, busy, index, answer>>
          /\ UNCHANGED handles /\ UNCHANGED loader
          BY <1>2 DEF NoCodec, NeedsCodec
    <2>2. CallTypes'
          BY <2>1 DEF CallInv, CallTypes, Calls
    <2>3. Held'
          BY <2>1 DEF CallInv, CallTypes, Held, Active, Askers
    <2>4. CallInv' /\ Stays
          BY <2>1, <2>2, <2>3
          DEF CallInv, CallTypes, IndexOwn, FoundOwn, AnswerIsOwn, Stays, HasRecord, Active
    <2>5. HandleInv' /\ LoaderInv' /\ UNCHANGED <<left, g_decompress>>
          BY <2>1, HandlesKept, LoaderKept DEF loader
    <2> QED BY <2>4, <2>5, CallCrossing
  <1>3. ASSUME NEW c \in Callers, EnterBatch(c) PROVE IInv'
    <2>1. /\ Enter(c) /\ UNCHANGED handles /\ UNCHANGED loader
          /\ call[c] = "idle" /\ (LevelOf[c] = NoLevel => result[c] = "true")
          BY <1>3 DEF EnterBatch, NeedsCodec, Enter
    <2>2. /\ CallInv' /\ \A w \in Workers : HasRecord(w) => HasRecord(w)'
          /\ \A d \in Callers \ {c} : Active(d)' => Active(d)
          BY <2>1, EnterStep
    <2>3. HandleInv' /\ LoaderInv' /\ UNCHANGED <<left, g_decompress>> /\ (HasCodec => HasCodec')
          BY <2>1, HandlesKept, LoaderKept DEF loader
    <2>4. LevelOf[c] = NoLevel => HasCodec
          BY <2>1 DEF LoaderInv, Runs, HasCodec
    <2>5. \A d \in Callers : LevelOf[d] = NoLevel /\ Active(d)' => Active(d) \/ HasCodec
          BY <2>2, <2>4
    <2>6. Crossing'
          BY <2>2, <2>3, <2>5, CrossingKept DEF Crossing
    <2> QED BY <2>2, <2>3, <2>6
  <1>4. ASSUME NEW c \in Callers, GetReaders(c) PROVE IInv'
    <2>1. /\ MakesPool(c) \/ MakesNone(c)
          /\ limit' \in {limit, H!Raise} /\ UNCHANGED loader
          /\ UNCHANGED <<open, nulls, left, all, retrying, served>>
          BY <1>4 DEF GetReaders
    <2>2. CallInv' /\ Stays
          BY <2>1, PoolStep
    <2>3. H!SlotsUsed' = H!SlotsUsed
          BY <2>1 DEF H!SlotsUsed, H!Handles
    <2>4. /\ limit' \in {DefaultSlots, RaisedSlots} /\ limit' >= limit
          /\ limit = RaisedSlots => limit' = RaisedSlots
          BY <2>1, RaiseFacts DEF HandleInv
    <2>5. HandleInv'
          BY <2>1, <2>3, <2>4, HandlesFinite DEF HandleInv
    <2>6. LoaderInv' /\ UNCHANGED g_decompress
          BY <2>1, LoaderKept DEF loader
    <2> QED BY <2>1, <2>2, <2>5, <2>6, CallCrossing
  <1>5. ASSUME NEW s \in Singles, TakesRecord(s) PROVE IInv'
    <2>1. /\ busy[s].key # <<>> /\ Ends(s, busy[s].key) /\ UNCHANGED index
          /\ UNCHANGED handles /\ UNCHANGED loader
          BY <1>5 DEF TakesRecord
    <2>2. s \in Executors /\ s \notin Workers
          BY DEF Executors
    <2>3. /\ CallTypes' /\ Held' /\ FoundOwn' /\ AnswerIsOwn'
          /\ \A w \in Workers \ {s} : HasRecord(w) => HasRecord(w)'
          /\ \A c \in Callers : Active(c)' => Active(c)
          BY <2>1, <2>2, EndsStep
    <2>4. CallInv' /\ Stays
          BY <2>1, <2>2, <2>3 DEF CallInv, IndexOwn, Stays
    <2>5. HandleInv' /\ LoaderInv' /\ UNCHANGED <<left, g_decompress>>
          BY <2>1, HandlesKept, LoaderKept DEF loader
    <2> QED BY <2>4, <2>5, CallCrossing
  <1> QED BY <1>1, <1>2, <1>3, <1>4, <1>5

LEMMA CodecStep ==
    ASSUME IInv, NEW t \in Runs, L!Open(t) \/ L!Run(t),
           UNCHANGED callVars, UNCHANGED handles,
           stage' \in [Threads -> {"idle", "opening", "reading"}],
           \A w \in Workers : stage'[w] # "idle" => HasRecord(w)
    PROVE  IInv'
  <1> USE DEF IInv
  <1>1. LoaderInv' /\ (HasCodec => HasCodec')
        BY LoaderStep
  <1>2. CallInv' /\ Stays /\ HandleInv' /\ UNCHANGED left
        BY CallsKept, HandlesKept
  <1>3. Crossing'
        BY <1>1, <1>2, CrossingKept DEF Stays
  <1> QED BY <1>1, <1>2, <1>3

-----------------------------------------------------------------------------
\* A worker begins to read for the record it found.  For a mesh its own oodle_open has
\* answered yes; for a texture its batch's had, before the batch was taken.
LEMMA BeginsStep == ASSUME IInv, NEW w \in Workers, Begins(w) PROVE IInv'
  <1> USE DEF IInv
  <1>1. /\ HasRecord(w) /\ stage' = [stage EXCEPT ![w] = "reading"]
        /\ ForMesh(w) => result[w] = "true"
        /\ H!Begin(w, Plan[busy[w].item], ForMesh(w)) /\ L!Used(w) /\ UNCHANGED callVars
        BY DEF Begins, Goes
  <1>2. w \in Threads /\ w \in Runs /\ w \in Executors
        BY DEF Threads, Runs, Executors
  <1>3. busy[w] \in Slots /\ busy[w] # Idle
    <2>1. Idle.key = <<>>
          BY DEF Idle, Task
    <2> QED BY <1>1, <1>2, <2>1 DEF CallInv, CallTypes, HasRecord
  <1>4. busy[w].item \in Items /\ busy[w].for \in Callers /\ Active(busy[w].for)
    <2>1. busy[w] \in [for : Askers, item : Items, key : Records]
          BY <1>3 DEF Slots
    <2>2. busy[w].item \in Items /\ busy[w].for \in Askers
          BY <2>1
    <2>3. /\ busy[w].for = batch /\ call[batch] \in {"submitting", "waiting"}
          /\ batch \in Callers \cup {Nobody}
          BY <1>3 DEF CallInv, CallTypes, Held
    <2> QED BY <2>2, <2>3 DEF Active
  <1>5. HasCodec
    <2>1. CASE ForMesh(w)
          BY <1>1, <1>2, <2>1 DEF LoaderInv, HasCodec
    <2>2. CASE ~ForMesh(w)
          BY <1>4, <2>2 DEF ForMesh, Crossing
    <2> QED BY <2>1, <2>2
  <1>6. Plan[busy[w].item] \in Seq(Archives) /\ ForMesh(w) \in BOOLEAN
        BY <1>4 DEF ForMesh
  <1>7. HandleInv'
        BY <1>1, <1>2, <1>6, AroundStep
  <1>8. LoaderInv' /\ (HasCodec => HasCodec')
        BY <1>1, <1>2, LoaderStep
  <1>9. CallInv' /\ Stays
        BY <1>1, CallsKept
  <1>10. Crossing'
    <2>1. /\ stage' \in [Threads -> {"idle", "opening", "reading"}]
          /\ \A v \in Workers : stage'[v] # "idle" => HasRecord(v)'
          BY <1>1, <1>2, <1>9 DEF Crossing, Stays, Threads
    <2> QED BY <1>5, <1>8, <1>9, <2>1, CrossingKept DEF Stays
  <1> QED BY <1>7, <1>8, <1>9, <1>10

\* A thread of another pool begins, with an answer of its own.
LEMMA OtherStep == ASSUME IInv, NEW o \in Others, OtherBegins(o) \/ Exits(o) PROVE IInv'
  <1> USE DEF IInv
  <1>1. o \in Threads /\ o \in Runs
        BY DEF Threads, Runs
  <1>2. CASE OtherBegins(o)
    <2>1. PICK a \in OtherReads : H!Begin(o, <<a>>, TRUE)
          BY <1>2 DEF OtherBegins
    <2>2. /\ At(o, "opening") /\ result[o] = "true" /\ stage' = [stage EXCEPT ![o] = "reading"]
          /\ L!Used(o) /\ UNCHANGED callVars
          BY <1>2 DEF OtherBegins, Goes
    <2>3. HasCodec
          BY <1>1, <2>2 DEF LoaderInv, HasCodec
    <2>4. <<a>> \in Seq(Archives)
          OBVIOUS
    <2>5. HandleInv'
          BY <1>1, <2>1, <2>4, AroundStep
    <2>6. LoaderInv' /\ (HasCodec => HasCodec')
          BY <1>1, <2>2, LoaderStep
    <2>7. CallInv' /\ Stays
          BY <2>2, CallsKept
    <2>8. /\ stage' \in [Threads -> {"idle", "opening", "reading"}]
          /\ stage[o] # "idle" /\ \A v \in Workers : stage'[v] # "idle" => stage[v] # "idle"
          BY <1>1, <2>2 DEF Crossing, Threads, At
    <2>9. Crossing'
          BY <2>3, <2>6, <2>7, <2>8, CrossingKept DEF Crossing, Stays
    <2> QED BY <2>5, <2>6, <2>7, <2>9
  <1>3. CASE Exits(o)
    <2>1. H!Exit(o) /\ UNCHANGED callVars /\ UNCHANGED loader /\ UNCHANGED stage
          BY <1>3 DEF Exits
    <2>2. HandleInv' /\ UNCHANGED left
          BY <1>1, <2>1, AroundStep DEF H!Exit
    <2>3. LoaderInv' /\ UNCHANGED g_decompress
          BY <2>1, LoaderKept DEF loader
    <2>4. CallInv' /\ Stays
          BY <2>1, CallsKept
    <2> QED BY <2>1, <2>2, <2>3, <2>4, CallCrossing
  <1> QED BY <1>2, <1>3

\* A thread is done with a record, or gives it up for want of the codec.
LEMMA FinishStep == ASSUME IInv, NEW t \in Threads, Finishes(t) \/ GivesUp(t) PROVE IInv'
  <1> USE DEF IInv
  <1>1. /\ stage[t] # "idle" /\ stage' = [stage EXCEPT ![t] = "idle"]
        /\ IF t \in Workers
             THEN /\ UNCHANGED index
                  /\ \E a : Ends(t, a) /\ a \in {Unread, busy[t].key}
             ELSE UNCHANGED callVars
        BY DEF Finishes, GivesUp, At, Goes
  <1>2. HandleInv' /\ UNCHANGED left
    <2>1. CASE Finishes(t)
          BY <2>1, AroundStep DEF Finishes, H!Ends
    <2>2. CASE GivesUp(t)
          BY <2>2, HandlesKept DEF GivesUp
    <2> QED BY <2>1, <2>2
  <1>3. LoaderInv' /\ (HasCodec => HasCodec')
    <2>1. t \in Runs
          BY DEF Runs
    <2> QED BY <2>1, LoaderStep, LoaderKept DEF Finishes, GivesUp
  <1>4. /\ CallInv' /\ \A w \in Workers \ {t} : HasRecord(w) => HasRecord(w)'
        /\ \A c \in Callers : Active(c)' => Active(c)
    <2>1. CASE t \in Workers
      <3>1. PICK a : Ends(t, a) /\ a \in {Unread, busy[t].key}
            BY <1>1, <2>1
      <3>2. HasRecord(t) /\ t \in Executors
            BY <1>1, <2>1 DEF Crossing, Executors
      <3>3. /\ CallTypes' /\ Held' /\ FoundOwn' /\ AnswerIsOwn'
            /\ \A w \in Workers \ {t} : HasRecord(w) => HasRecord(w)'
            /\ \A c \in Callers : Active(c)' => Active(c)
            BY <3>1, <3>2, EndsStep DEF HasRecord
      <3> QED BY <1>1, <2>1, <3>3 DEF CallInv, IndexOwn
    <2>2. CASE t \notin Workers
          BY <1>1, <2>2, CallsKept DEF Stays
    <2> QED BY <2>1, <2>2
  <1>5. /\ stage' \in [Threads -> {"idle", "opening", "reading"}]
        /\ \A w \in Workers : stage'[w] # "idle" => w # t /\ stage[w] # "idle"
        BY <1>1 DEF Crossing, Threads
  <1>6. \A w \in Workers : stage'[w] # "idle" => HasRecord(w)'
        BY <1>4, <1>5 DEF Crossing
  <1>7. Crossing'
        BY <1>2, <1>3, <1>4, <1>5, <1>6, CrossingKept
  <1> QED BY <1>2, <1>3, <1>4, <1>7

LEMMA ReadsStep == ASSUME IInv, NEW t \in Threads, Reads(t) PROVE IInv'
  <1> USE DEF IInv
  <1>1. H!Read(t) /\ UNCHANGED callVars /\ UNCHANGED loader /\ UNCHANGED stage
        BY DEF Reads
  <1>2. HandleInv' /\ \A u \in Threads : left'[u] # <<>> => left[u] # <<>>
        BY <1>1, ReadStep
  <1>3. LoaderInv' /\ (HasCodec => HasCodec') /\ CallInv' /\ Stays
        BY <1>1, LoaderKept, CallsKept
  <1>4. Crossing'
        BY <1>1, <1>2, <1>3, CrossingKept DEF Crossing, Stays
  <1> QED BY <1>2, <1>3, <1>4

LEMMA Step == IInv /\ [Next]_vars => IInv'
  <1> SUFFICES ASSUME IInv, [Next]_vars PROVE IInv'
      OBVIOUS
  <1>1. CASE UNCHANGED vars
    <2>1. UNCHANGED callVars /\ UNCHANGED handles /\ UNCHANGED loader /\ UNCHANGED stage
          BY <1>1 DEF vars
    <2>2. CallInv' /\ Stays /\ LoaderInv' /\ HandleInv' /\ UNCHANGED <<left, g_decompress>>
          BY <2>1, CallsKept, LoaderKept, HandlesKept DEF IInv, loader
    <2> QED BY <2>1, <2>2, CallCrossing DEF IInv
  <1>2. ASSUME NEW t \in Runs, \/ OpenCodec(t) /\ t \in Callers
                               \/ Opens(t) /\ t \in Threads
                               \/ Codec(t)
        PROVE  IInv'
    <2>1. L!Open(t) \/ L!Run(t)
          BY <1>2 DEF OpenCodec, Opens, Codec
    <2>2. UNCHANGED callVars /\ UNCHANGED handles
          BY <1>2 DEF OpenCodec, Opens, Codec
    <2>3. /\ stage' \in [Threads -> {"idle", "opening", "reading"}]
          /\ \A w \in Workers : stage'[w] # "idle" => HasRecord(w)
      <3>1. CASE UNCHANGED stage
            BY <3>1 DEF IInv, Crossing
      <3>2. CASE Opens(t) /\ t \in Threads
            BY <3>2 DEF Opens, Goes, IInv, Crossing, Threads
      <3> QED BY <1>2, <3>1, <3>2 DEF OpenCodec, Codec
    <2> QED BY <2>1, <2>2, <2>3, CodecStep
  <1>3. CASE CallStep /\ UNCHANGED <<handles, loader, stage>>
    <2>1. UNCHANGED stage /\ UNCHANGED <<handles, loader>>
          BY <1>3
    <2> QED BY <1>3, <2>1, BatchStep
  <1>4. ASSUME NEW c \in Callers, NoCodec(c) \/ EnterBatch(c) \/ GetReaders(c) PROVE IInv'
    <2>1. UNCHANGED stage
          BY <1>4 DEF NoCodec, EnterBatch, GetReaders
    <2> QED BY <1>4, <2>1, BatchStep
  <1>5. ASSUME NEW s \in Singles, TakesRecord(s) PROVE IInv'
    <2>1. UNCHANGED stage
          BY <1>5 DEF TakesRecord
    <2> QED BY <1>5, <2>1, BatchStep
  <1>6. \A t \in Threads \cup Callers : t \in Runs
        BY DEF Runs
  <1> QED BY <1>1, <1>2, <1>3, <1>4, <1>5, <1>6, BeginsStep, OtherStep, FinishStep, ReadsStep
          DEF Next

\* The four parts together.
THEOREM Inductive == Spec => []IInv
  <1> QED BY Initially, Step, PTL DEF Spec

\* Every task on the pool is the one's who holds batch_mutex: wait(), which waits for
\* all there are, waits for its own, and none refers to the locals of a call that has
\* returned (bf6_precache_mesh_surfaces, bf6_precache_texture_chunks).
THEOREM BatchCorrect == Spec => []OneBatchAtATime
  <1>1. IInv => OneBatchAtATime
    <2> SUFFICES ASSUME IInv, NEW f \in Tasks PROVE f = batch
        BY DEF OneBatchAtATime
    <2>1. CASE \E i \in DOMAIN queue : f = queue[i].for
          BY <2>1 DEF IInv, CallInv, Held
    <2>2. CASE f # Nobody /\ \E w \in Workers : f = busy[w].for
      <3>1. Idle.for = Nobody
            BY DEF Idle, Task
      <3> QED BY <2>2, <3>1 DEF IInv, CallInv, Held
    <2> QED BY <2>1, <2>2 DEF Tasks
  <1> QED BY <1>1, Inductive, PTL

\* A call is answered with the records of the level it asked for, however the level of
\* the one index is switched by other calls (index_for and the look-up in one hold of
\* index_mutex).
THEOREM AnswerCorrect == Spec => []AnswerIsOwn
  <1>1. IInv => AnswerIsOwn
        BY DEF IInv, CallInv
  <1> QED BY <1>1, Inductive, PTL

\* No thread reads before the codec's entry point is there, for any number of threads
\* that load it side by side over its two globals, and none takes it away from one that
\* does (oodle_open).
THEOREM CodecCorrect == Spec => []ReadersHaveCodec
  <1>1. IInv => ReadersHaveCodec
        BY DEF IInv, Crossing
  <1> QED BY <1>1, Inductive, PTL

-----------------------------------------------------------------------------
\* A read that gives up on an archive that is there: the thread remembers none such
\* as missing, so it has been refused, and now.
LEMMA GivesUpFull ==
    ASSUME HandleInv, NEW t \in Threads, H!Read(t), left[t] # <<>>, Head(left[t]) \notin Gone,
           left'[t] # left[t], served'[t] # Head(left[t])
    PROVE  H!SlotsUsed = RaisedSlots
  <1>1. ~H!Known(t)
    <2>1. Head(left[t]) \notin nulls[t]
          BY DEF HandleInv
    <2> QED BY <2>1 DEF H!Known, H!Serves, HandleInv
  <1>2. ~H!Opens(t)
        BY DEF H!Opens, H!Serves, HandleInv
  <1>3. ~H!Refused(t)
        BY DEF H!Refused
  <1>4. H!RefusedAgain(t)
        BY <1>1, <1>2, <1>3 DEF H!Read, H!Open, H!Retry
  <1>5. retrying[t] /\ ~(H!SlotsUsed < limit)
        BY <1>4 DEF H!RefusedAgain, H!SlotFree
  <1> QED BY <1>5, HandlesFinite DEF HandleInv

\* Only a thread's own reading changes what it has still to read.
LEMMA OthersLeave ==
    ASSUME HandleInv, Next, NEW t \in Threads, left[t] # <<>>, left'[t] # left[t]
    PROVE  H!Read(t)
  <1>1. CASE UNCHANGED handles
        BY <1>1 DEF handles
  <1>2. ASSUME NEW c \in Callers, GetReaders(c) PROVE H!Read(t)
        BY <1>2 DEF GetReaders
  <1>3. ASSUME NEW u \in Threads,
               (\E s, b : H!Begin(u, s, b)) \/ H!Ends(u) \/ H!Exit(u) \/ H!Read(u)
        PROVE  H!Read(t)
    <2>1. CASE u = t
          BY <1>3, <2>1 DEF H!Begin, H!Ends, H!Exit
    <2>2. CASE u # t
          BY <1>3, <2>2 DEF HandleInv, H!Begin, H!Ends, H!Exit, H!Read, H!Known, H!Open, H!Opens,
                            H!Refused, H!Retry, H!RefusedAgain, H!Serves, H!Passes
    <2> QED BY <2>1, <2>2
  <1> QED
    <2>1. ASSUME NEW w \in Workers, Begins(w) PROVE H!Read(t)
          BY <1>3, <2>1 DEF Begins, Threads
    <2>2. ASSUME NEW o \in Others, OtherBegins(o) \/ Exits(o) PROVE H!Read(t)
          BY <1>3, <2>2 DEF OtherBegins, Exits, Threads
    <2>3. ASSUME NEW u \in Threads, Opens(u) \/ GivesUp(u) \/ Finishes(u) \/ Codec(u) \/ Reads(u)
          PROVE  H!Read(t)
          BY <1>1, <1>3, <2>3 DEF Opens, GivesUp, Finishes, Codec, Reads
    <2>4. ASSUME NEW c \in Callers, OpenCodec(c) \/ NoCodec(c) \/ EnterBatch(c) \/ Codec(c)
          PROVE  H!Read(t)
          BY <1>1, <2>4 DEF OpenCodec, NoCodec, EnterBatch, Codec
    <2>5. ASSUME NEW s \in Singles, TakesRecord(s) PROVE H!Read(t)
          BY <1>1, <2>5 DEF TakesRecord
    <2> QED BY <1>1, <1>2, <2>1, <2>2, <2>3, <2>4, <2>5 DEF Next

\* An archive that is there is passed over only in a read made with every slot of the
\* raised limit in use, whichever thread raised it and whichever threads hold the
\* handles: no thread remembers a refusal as a missing archive (cas.cpp:236).
THEOREM GivenUpCorrect == Spec => GivenUpWhenFull
  <1>1. IInv /\ [Next]_vars =>
          [\A t \in Threads :
              left[t] # <<>> /\ Head(left[t]) \notin Gone /\ left'[t] # left[t]
                /\ served'[t] # Head(left[t]) => H!SlotsUsed = RaisedSlots]_vars
    <2> SUFFICES ASSUME IInv, Next, NEW t \in Threads,
                        left[t] # <<>>, Head(left[t]) \notin Gone, left'[t] # left[t],
                        served'[t] # Head(left[t])
                 PROVE  H!SlotsUsed = RaisedSlots
        OBVIOUS
    <2>1. H!Read(t)
          BY OthersLeave DEF IInv
    <2> QED BY <2>1, GivesUpFull DEF IInv
  <1> QED BY <1>1, Inductive, PTL DEF Spec, GivenUpWhenFull
=============================================================================
