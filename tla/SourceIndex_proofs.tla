--------------------------- MODULE SourceIndex_proofs ---------------------------
(***************************************************************************)
(* Mounting with snapshots, and the partition index, for any processes,    *)
(* TOCs and versions of them, lists, names, guids, workers and bounds.     *)
(* Any open or read may be refused; what was saved without an answer is    *)
(* marked in the history (whole), and nothing is said of it.               *)
(*                                                                         *)
(* The argument: a stamp is never ahead of its TOC, so stamps that are     *)
(* current now were current at every step since they were taken.  Of such  *)
(* stamps a process' tables are those of a mount with no snapshot, what is *)
(* below a snapshot is the tables of its parent's stamps, and a file holds *)
(* what its key says.  A read of the index counts claimed partitions: each *)
(* is read or held by a worker, and none is held once every worker is out. *)
(***************************************************************************)
EXTENDS SourceIndex, FiniteSetTheorems, SequenceTheorems, WellFoundedInduction, TLAPS

LEMMA FunctionIsSeq ==
    ASSUME NEW n \in Nat, NEW S, NEW f \in [1..n -> S]
    PROVE  f \in Seq(S) /\ Len(f) = n
  OBVIOUS

LEMMA LeastMember ==
    ASSUME NEW S, S \subseteq Nat, S # {}
    PROVE  Min(S) \in S /\ \A x \in S : Min(S) <= x
  <1>1. PICK x \in S : \A y \in S : ~(<<y, x>> \in OpToRel(<, Nat))
        BY WFMin, NatLessThanWellFounded
  <1>2. ASSUME NEW y \in S, ~(x <= y) PROVE FALSE
    <2>1. x \in Nat /\ y \in Nat /\ y < x
          BY <1>2
    <2>2. <<y, x>> \in OpToRel(<, Nat)
          BY <2>1 DEF OpToRel
    <2> QED BY <1>1, <2>2
  <1> QED BY <1>2 DEF Min

\* A finite set of numbers has one enumeration in their order.
Increasing(q, S) ==
    /\ q \in [1..Cardinality(S) -> S]
    /\ \A i, j \in 1..Cardinality(S) : i < j => q[i] < q[j]

LEMMA SomeOrder ==
    ASSUME NEW S, S \subseteq Nat, IsFiniteSet(S)
    PROVE  \E q : Increasing(q, S)
  <1> DEFINE Bad == {T \in FiniteSubsetsOf(S) : ~\E q : Increasing(q, T)}
  <1>1. SUFFICES ASSUME Bad # {} PROVE FALSE
    <2>1. S \in FiniteSubsetsOf(S)
          BY DEF FiniteSubsetsOf
    <2> QED BY <2>1
  <1> DEFINE R == StrictSubsetOrdering(S)
  <1>2. IsWellFoundedOn(R, FiniteSubsetsOf(S))
        BY FS_StrictSubsetOrderingWellFounded
  <1>3. Bad \subseteq FiniteSubsetsOf(S)
        OBVIOUS
  <1>4. PICK T \in Bad : \A U \in Bad : ~(<<U, T>> \in R)
    <2> HIDE DEF Bad, R
    <2> QED BY <1>1, <1>2, <1>3, WFMin
  <1>5. T \subseteq S /\ IsFiniteSet(T) /\ T \subseteq Nat /\ ~\E q : Increasing(q, T)
        BY DEF FiniteSubsetsOf
  <1>6. T # {}
    <2>1. SUFFICES ASSUME T = {} PROVE Increasing(<<>>, T)
          BY <1>5
    <2>2. Cardinality(T) = 0
          BY <2>1, FS_EmptySet
    <2> QED BY <2>1, <2>2 DEF Increasing
  <1> DEFINE m == Min(T)
             U == T \ {m}
             n == Cardinality(T)
  <1>7. m \in T /\ \A x \in T : m <= x
        BY <1>5, <1>6, LeastMember
  <1>8. IsFiniteSet(U) /\ Cardinality(U) = n - 1 /\ n \in Nat \ {0} /\ Cardinality(U) \in Nat
    <2> HIDE DEF m
    <2>1. IsFiniteSet(U) /\ Cardinality(U) = IF m \in T THEN n - 1 ELSE n
          BY <1>5, FS_RemoveElement
    <2>2. n \in Nat /\ n # 0 /\ Cardinality(U) \in Nat
          BY <1>5, <1>6, <2>1, FS_CardinalityType, FS_EmptySet
    <2> QED BY <1>7, <2>1, <2>2
  <1>9. <<U, T>> \in R /\ U \in FiniteSubsetsOf(S)
    <2>1. U \subseteq S /\ U \subseteq T /\ U # T
          BY <1>5, <1>7
    <2> QED BY <1>5, <1>8, <2>1 DEF FiniteSubsetsOf, StrictSubsetOrdering
  <1>10. PICK q : Increasing(q, U)
         BY <1>4, <1>9
  <1> DEFINE r == [i \in 1..n |-> IF i = 1 THEN m ELSE q[i - 1]]
  <1>11. \A i \in 2..n : q[i - 1] \in U
    <2>1. q \in [1..(n - 1) -> U] /\ n \in Nat
          BY <1>8, <1>10 DEF Increasing
    <2> HIDE DEF n, U, m
    <2>2. SUFFICES ASSUME NEW i \in 2..n PROVE q[i - 1] \in U
          OBVIOUS
    <2>3. i - 1 \in 1..(n - 1)
          BY <2>1
    <2> QED BY <2>1, <2>3
  <1>12. r \in [1..n -> T]
         BY <1>7, <1>11
  <1>13. ASSUME NEW i \in 1..n, NEW j \in 1..n, i < j PROVE r[i] < r[j]
    <2>1. CASE i = 1
      <3>1. r[i] = m /\ r[j] = q[j - 1] /\ q[j - 1] \in U
            BY <1>8, <1>11, <1>13, <2>1
      <3>2. m <= q[j - 1] /\ m # q[j - 1] /\ m \in Nat /\ q[j - 1] \in Nat
            BY <1>5, <1>7, <3>1
      <3> QED BY <3>1, <3>2
    <2>2. CASE i # 1
      <3>1. i - 1 \in 1..n - 1 /\ j - 1 \in 1..n - 1 /\ i - 1 < j - 1
            BY <1>8, <1>13, <2>2
      <3>2. q[i - 1] < q[j - 1]
            BY <1>8, <1>10, <3>1 DEF Increasing
      <3> QED BY <1>8, <1>13, <2>2, <3>2
    <2> QED BY <2>1, <2>2
  <1>14. Increasing(r, T)
         BY <1>12, <1>13 DEF Increasing
  <1> QED BY <1>5, <1>14

LEMMA InOrder ==
    ASSUME NEW S, S \subseteq Nat, IsFiniteSet(S)
    PROVE  /\ Increasing(Ordered(S), S)
           /\ Cardinality(S) \in Nat /\ DOMAIN Ordered(S) = 1..Cardinality(S)
           /\ \A x \in S : \E i \in DOMAIN Ordered(S) : Ordered(S)[i] = x
  <1> DEFINE q == Ordered(S)
             n == Cardinality(S)
  <1>1. n \in Nat
        BY FS_CardinalityType
  <1>2. Increasing(q, S)
        BY SomeOrder DEF Ordered, Increasing
  <1>3. q \in [1..n -> S]
        BY <1>2 DEF Increasing
  <1>4. \A i, j \in 1..n : q[i] = q[j] => i = j
    <2> SUFFICES ASSUME NEW i \in 1..n, NEW j \in 1..n, q[i] = q[j] PROVE i = j
        OBVIOUS
    <2>1. q[i] \in Nat /\ q[j] \in Nat
          BY <1>3
    <2>2. ~(i < j) /\ ~(j < i)
          BY <1>2, <2>1 DEF Increasing
    <2> QED BY <1>1, <2>2
  <1>5. q \in Injection(1..n, S)
        BY <1>3, <1>4 DEF Injection, IsInjective
  <1>6. Cardinality(1..n) = n
        BY <1>1, FS_Interval
  <1>7. q \in Surjection(1..n, S)
    <2> HIDE DEF q
    <2> QED BY <1>5, <1>6, FS_Injection
  <1>8. \A x \in S : \E i \in 1..n : q[i] = x
        BY <1>7 DEF Surjection
  <1> QED BY <1>1, <1>2, <1>3, <1>8

-----------------------------------------------------------------------------
\* Sequences, and tables layered over one another.
Stamps == {st \in Tocs \X Nat \X Nat : st[2] <= Len(Listed[st[1]])}
IsTable(f) == f = [x \in DOMAIN f |-> f[x]]
Begins(q, r) == Len(q) <= Len(r) /\ \A i \in 1..Len(q) : q[i] = r[i]
InMount(seq) == {seq[i][1] : i \in {j \in DOMAIN seq : seq[j][2] # 0 /\ seq[j][3] = All}}

LEMMA SeqFacts ==
    ASSUME NEW S, NEW q \in Seq(S)
    PROVE  Len(q) \in Nat /\ DOMAIN q = 1..Len(q) /\ \A i \in 1..Len(q) : q[i] \in S
  BY LenProperties, ElementOfSeq

LEMMA AppendFacts ==
    ASSUME NEW S, NEW q \in Seq(S), NEW e
    PROVE  /\ Append(q, e) \in Seq(S \cup {e})
           /\ Len(Append(q, e)) = Len(q) + 1 /\ DOMAIN Append(q, e) = 1..(Len(q) + 1)
           /\ \A i \in 1..Len(q) : Append(q, e)[i] = q[i]
           /\ Append(q, e)[Len(q) + 1] = e
  <1> DEFINE r == Append(q, e)
  <1>1. q \in Seq(S \cup {e}) /\ Len(q) \in Nat
        BY SeqMonotonic, SeqFacts
  <1>2. /\ r \in Seq(S \cup {e}) /\ Len(r) = Len(q) + 1
        /\ \A i \in 1..Len(q) : r[i] = q[i]
        /\ r[Len(q) + 1] = e
        BY <1>1, AppendProperties
  <1>3. DOMAIN r = 1..(Len(q) + 1)
        BY <1>2, SeqFacts
  <1> QED BY <1>2, <1>3

LEMMA AppendEnds ==
    ASSUME NEW S, NEW q \in Seq(S), NEW e
    PROVE  Front(Append(q, e)) = q /\ Last(Append(q, e)) = e
  <1> DEFINE r == Append(q, e)
             n == Len(q)
  <1>1. n \in Nat /\ \A i \in 1..n : q[i] \in S
        BY SeqFacts
  <1>2. Len(r) = n + 1 /\ (\A i \in 1..n : r[i] = q[i]) /\ r[n + 1] = e
        BY AppendFacts
  <1> HIDE DEF r, n
  <1>3. Last(r) = e
        BY <1>2 DEF Last
  <1>4. Front(r) = SubSeq(r, 1, n)
        BY <1>1, <1>2 DEF Front
  <1>5. /\ SubSeq(r, 1, n) \in Seq(S)
        /\ Len(SubSeq(r, 1, n)) = IF 1 <= n THEN n - 1 + 1 ELSE 0
        /\ \A i \in 1..(n - 1 + 1) : SubSeq(r, 1, n)[i] = r[1 + i - 1]
    <2>1. \A i \in 1..n : r[i] \in S
          BY <1>1, <1>2
    <2> QED BY <1>1, <2>1, SubSeqProperties
  <1>6. Len(SubSeq(r, 1, n)) = n /\ \A i \in 1..n : SubSeq(r, 1, n)[i] = q[i]
        BY <1>1, <1>2, <1>5
  <1>7. SubSeq(r, 1, n) = q
        BY <1>5, <1>6, SeqEqual DEF n
  <1> QED BY <1>3, <1>4, <1>7 DEF r

\* A table more is a layer below the others.
LEMMA LayeredAppend ==
    ASSUME NEW S, NEW tabs \in Seq(S), NEW tab
    PROVE  Layered(Append(tabs, tab)) = Over(Layered(tabs), tab)
  <1> DEFINE r == Append(tabs, tab)
             n == Len(tabs)
  <1>1. /\ n \in Nat /\ DOMAIN tabs = 1..n /\ DOMAIN r = 1..(n + 1)
        /\ \A i \in 1..n : r[i] = tabs[i]
        /\ r[n + 1] = tab
        BY SeqFacts, AppendFacts
  <1> HIDE DEF r, n
  <1>2. UNION {DOMAIN r[i] : i \in DOMAIN r}
          = (UNION {DOMAIN tabs[i] : i \in DOMAIN tabs}) \cup DOMAIN tab
    <2>1. 1..(n + 1) = 1..n \cup {n + 1}
          BY <1>1
    <2> QED BY <1>1, <2>1
  <1>3. DOMAIN Layered(tabs) = UNION {DOMAIN tabs[i] : i \in DOMAIN tabs}
        BY DEF Layered
  <1>4. ASSUME NEW x \in UNION {DOMAIN tabs[i] : i \in DOMAIN tabs}
        PROVE  r[FirstWith(r, x)][x] = tabs[FirstWith(tabs, x)][x]
    <2> DEFINE A == {i \in DOMAIN tabs : x \in DOMAIN tabs[i]}
               B == {i \in DOMAIN r : x \in DOMAIN r[i]}
    <2>1. A \subseteq Nat /\ A # {} /\ B \subseteq Nat /\ A \subseteq B
          /\ \A i \in B \ A : i = n + 1
          BY <1>1, <1>4
    <2>2. Min(A) \in A /\ (\A y \in A : Min(A) <= y)
          BY <2>1, LeastMember
    <2>3. Min(B) \in B /\ (\A y \in B : Min(B) <= y)
      <3>1. B # {} /\ B \subseteq Nat
            BY <2>1
      <3> HIDE DEF A, B
      <3> QED BY <3>1, LeastMember
    <2>4. Min(A) = Min(B)
      <3>1. Min(A) \in 1..n
            BY <1>1, <2>2
      <3>2. Min(B) <= Min(A) /\ Min(B) \in Nat
            BY <2>1, <2>2, <2>3
      <3>3. Min(B) \in A
        <4> HIDE DEF A, B
        <4> QED BY <1>1, <2>1, <2>3, <3>1, <3>2
      <3> HIDE DEF A, B
      <3> QED BY <2>1, <2>2, <3>1, <3>2, <3>3
    <2>5. Min(A) \in 1..n
          BY <1>1, <2>2
    <2> QED BY <1>1, <2>4, <2>5 DEF FirstWith
  <1>5. ASSUME NEW x \in DOMAIN tab, x \notin UNION {DOMAIN tabs[i] : i \in DOMAIN tabs}
        PROVE  r[FirstWith(r, x)][x] = tab[x]
    <2>1. {i \in DOMAIN r : x \in DOMAIN r[i]} = {n + 1}
      <3>1. \A i \in 1..n : x \notin DOMAIN r[i]
            BY <1>1, <1>5
      <3>2. \A i \in 1..(n + 1) : i \in 1..n \/ i = n + 1
            BY <1>1
      <3>3. n + 1 \in 1..(n + 1)
            BY <1>1
      <3> QED BY <1>1, <1>5, <3>1, <3>2, <3>3
    <2>2. FirstWith(r, x) = n + 1
          BY <1>1, <2>1, LeastMember DEF FirstWith
    <2> QED BY <1>1, <2>2
  <1>6. Layered(r) = Over(Layered(tabs), tab)
    <2> DEFINE D == UNION {DOMAIN tabs[i] : i \in DOMAIN tabs}
    <2>1. Layered(r) = [x \in D \cup DOMAIN tab |-> r[FirstWith(r, x)][x]]
          BY <1>2 DEF Layered
    <2>2. Over(Layered(tabs), tab)
            = [x \in D \cup DOMAIN tab |-> IF x \in D THEN Layered(tabs)[x] ELSE tab[x]]
          BY <1>3 DEF Over
    <2>3. \A x \in D : Layered(tabs)[x] = tabs[FirstWith(tabs, x)][x]
          BY DEF Layered
    <2>4. \A x \in D \cup DOMAIN tab :
            r[FirstWith(r, x)][x] = IF x \in D THEN Layered(tabs)[x] ELSE tab[x]
          BY <1>4, <1>5, <2>3
    <2> HIDE DEF D
    <2> QED BY <2>1, <2>2, <2>4
  <1> QED BY <1>6 DEF r

LEMMA LayeredIsTable == ASSUME NEW x PROVE IsTable(Layered(x))
  <1> DEFINE D == UNION {DOMAIN x[i] : i \in DOMAIN x}
             V(n) == x[FirstWith(x, n)][n]
  <1>1. Layered(x) = [n \in D |-> V(n)]
        BY DEF Layered
  <1> HIDE DEF D, V
  <1> QED BY <1>1 DEF IsTable

LEMMA OverIsTable == ASSUME NEW x, NEW y PROVE IsTable(Over(x, y))
  BY DEF Over, IsTable

LEMMA EmptyIsTable == IsTable(Empty) /\ DOMAIN Empty = {}
  BY DEF Empty, IsTable

LEMMA OverNone ==
    ASSUME NEW x, IsTable(x), NEW y, DOMAIN y = {}
    PROVE  Over(x, y) = x
  <1>1. Over(x, y) = [n \in DOMAIN x |-> x[n]]
        BY DEF Over
  <1> QED BY <1>1 DEF IsTable

LEMMA NoneOver ==
    ASSUME NEW x, DOMAIN x = {}, NEW y, IsTable(y)
    PROVE  Over(x, y) = y
  <1>1. Over(x, y) = [n \in DOMAIN y |-> y[n]]
        BY DEF Over
  <1> QED BY <1>1 DEF IsTable

\* The names of a TOC that no table has yet go on top of the overlay.
LEMMA FirstWins ==
    ASSUME NEW x, NEW y, NEW z
    PROVE  Over(x, Over(y, Restrict(z, DOMAIN z \ DOMAIN Over(x, y)))) = Over(Over(x, y), z)
  BY DEF Over, Restrict

LEMMA MappingAlone ==
    ASSUME NEW s, NEW y, DOMAIN y = {}
    PROVE  Over(Mapping(s), y) = Mapping(s)
  <1> DEFINE tabs == [i \in DOMAIN s.layers |-> s.layers[i].tab]
  <1>1. Mapping(s) = Layered(tabs)
        BY DEF Mapping
  <1> HIDE DEF tabs
  <1>2. IsTable(Mapping(s))
        BY <1>1, LayeredIsTable
  <1> QED BY <1>2, OverNone

LEMMA LayersAppend ==
    ASSUME NEW S, NEW q \in Seq(S), NEW l
    PROVE  /\ Append(q, l) \in Seq(ToSet(Append(q, l)))
           /\ Layered([i \in DOMAIN Append(q, l) |-> Append(q, l)[i].tab])
                = Over(Layered([i \in DOMAIN q |-> q[i].tab]), l.tab)
  <1> DEFINE r == Append(q, l)
             n == Len(q)
             tabs == [i \in 1..n |-> q[i].tab]
             T == {q[i].tab : i \in 1..n}
  <1>1. /\ n \in Nat /\ DOMAIN q = 1..n /\ DOMAIN r = 1..(n + 1) /\ Len(r) = n + 1
        /\ \A i \in 1..n : r[i] = q[i]
        /\ r[n + 1] = l /\ r \in Seq(S \cup {l})
        BY SeqFacts, AppendFacts
  <1> HIDE DEF r, n
  <1>2. r \in Seq(ToSet(r))
    <2>1. \A i \in 1..(n + 1) : r[i] \in ToSet(r)
          BY <1>1 DEF ToSet
    <2>2. r \in [1..(n + 1) -> S \cup {l}]
          BY <1>1, LenProperties
    <2>3. r \in [1..(n + 1) -> ToSet(r)]
          BY <2>1, <2>2
    <2> QED BY <1>1, <2>3, FunctionIsSeq
  <1>3. tabs \in Seq(T) /\ Len(tabs) = n
    <2>1. tabs \in [1..n -> T]
          OBVIOUS
    <2> HIDE DEF tabs, T
    <2> QED BY <1>1, <2>1, FunctionIsSeq
  <1>4. /\ Append(tabs, l.tab) \in Seq(T \cup {l.tab})
        /\ Len(Append(tabs, l.tab)) = n + 1
        /\ \A i \in 1..n : Append(tabs, l.tab)[i] = tabs[i]
        /\ Append(tabs, l.tab)[n + 1] = l.tab
    <2> HIDE DEF tabs, T
    <2> QED BY <1>3, AppendFacts
  <1>5. [i \in 1..(n + 1) |-> r[i].tab] = Append(tabs, l.tab)
    <2> DEFINE u == [i \in 1..(n + 1) |-> r[i].tab]
    <2>1. \A i \in 1..(n + 1) : i \in 1..n \/ i = n + 1
          BY <1>1
    <2>2. u \in [1..(n + 1) -> T \cup {l.tab}]
          BY <1>1, <2>1
    <2>3. u \in Seq(T \cup {l.tab}) /\ Len(u) = n + 1
      <3> HIDE DEF u, T
      <3> QED BY <1>1, <2>2, FunctionIsSeq
    <2>4. \A i \in 1..(n + 1) : u[i] = Append(tabs, l.tab)[i]
          BY <1>1, <1>4, <2>1
    <2> HIDE DEF u, tabs, T
    <2>5. u = Append(tabs, l.tab)
          BY <1>4, <2>3, <2>4, SeqEqual
    <2> QED BY <2>5 DEF u
  <1>6. Layered(Append(tabs, l.tab)) = Over(Layered(tabs), l.tab)
    <2> HIDE DEF tabs, T
    <2> QED BY <1>3, LayeredAppend
  <1>7. Layered([i \in DOMAIN r |-> r[i].tab]) = Over(Layered([i \in DOMAIN q |-> q[i].tab]), l.tab)
        BY <1>1, <1>5, <1>6
  <1> QED BY <1>2, <1>7 DEF r

-----------------------------------------------------------------------------
\* What a mount with no snapshot gives, one TOC after the other.
LEMMA DirectEmpty == Direct(<<>>) = Empty /\ InMount(<<>>) = {}
  <1>1. DOMAIN <<>> = {}
        OBVIOUS
  <1>2. InMount(<<>>) = {}
        BY <1>1 DEF InMount
  <1>3. DOMAIN Direct(<<>>) = {} /\ IsTable(Direct(<<>>))
    <2> DEFINE tabs == [i \in {} |-> Entry(<<>>[i])]
    <2>1. Direct(<<>>) = Layered(tabs) /\ DOMAIN tabs = {}
          BY <1>1 DEF Direct
    <2> HIDE DEF tabs
    <2>2. IsTable(Layered(tabs))
          BY LayeredIsTable
    <2>3. DOMAIN Layered(tabs) = {}
          BY <2>1 DEF Layered
    <2> QED BY <2>1, <2>2, <2>3
  <1> QED BY <1>2, <1>3 DEF IsTable, Empty

LEMMA DirectAppend ==
    ASSUME NEW seq \in Seq(Stamps), NEW st \in Stamps
    PROVE  /\ Direct(Append(seq, st)) = Over(Direct(seq), Entry(st))
           /\ InMount(Append(seq, st)) = InMount(seq) \cup (IF st[2] = 0 \/ st[3] # All THEN {} ELSE {st[1]})
  <1> DEFINE r == Append(seq, st)
             n == Len(seq)
             tabs == [i \in 1..n |-> Entry(seq[i])]
             T == {Entry(x) : x \in Stamps}
  <1>1. /\ n \in Nat /\ DOMAIN seq = 1..n /\ DOMAIN r = 1..(n + 1)
        /\ \A i \in 1..n : r[i] = seq[i] /\ seq[i] \in Stamps
        /\ r[n + 1] = st
        BY SeqFacts, AppendFacts
  <1> HIDE DEF r, n
  <1>2. \A i \in 1..(n + 1) : i \in 1..n \/ i = n + 1
        BY <1>1
  <1>3. InMount(r) = InMount(seq) \cup (IF st[2] = 0 \/ st[3] # All THEN {} ELSE {st[1]})
    <2>1. n + 1 \in 1..(n + 1) /\ 1..n \subseteq 1..(n + 1)
          BY <1>1
    <2> QED BY <1>1, <1>2, <2>1 DEF InMount
  <1>4. tabs \in Seq(T) /\ Len(tabs) = n
    <2>1. tabs \in [1..n -> T]
          BY <1>1
    <2> HIDE DEF tabs, T
    <2> QED BY <1>1, <2>1, FunctionIsSeq
  <1>5. [i \in 1..(n + 1) |-> Entry(r[i])] = Append(tabs, Entry(st))
    <2> DEFINE u == [i \in 1..(n + 1) |-> Entry(r[i])]
               v == Append(tabs, Entry(st))
    <2>1. u \in [1..(n + 1) -> T]
          BY <1>1, <1>2
    <2>2. u \in Seq(T) /\ Len(u) = n + 1
      <3> HIDE DEF u, T
      <3> QED BY <1>1, <2>1, FunctionIsSeq
    <2>3. Entry(st) \in T
          OBVIOUS
    <2>4. v \in Seq(T) /\ Len(v) = n + 1 /\ (\A i \in 1..n : v[i] = tabs[i]) /\ v[n + 1] = Entry(st)
      <3> HIDE DEF tabs, T
      <3> QED BY <1>4, <2>3, AppendProperties
    <2>5. \A i \in 1..(n + 1) : u[i] = v[i]
      <3> HIDE DEF v
      <3> QED BY <1>1, <1>2, <2>4
    <2>6. u = v
      <3> HIDE DEF u, v, tabs, T
      <3> QED BY <2>2, <2>4, <2>5, SeqEqual
    <2> QED BY <2>6
  <1>6. Layered(Append(tabs, Entry(st))) = Over(Layered(tabs), Entry(st))
    <2> HIDE DEF tabs, T
    <2> QED BY <1>4, LayeredAppend
  <1>7. Direct(r) = Over(Direct(seq), Entry(st))
        BY <1>1, <1>5, <1>6 DEF Direct
  <1> QED BY <1>3, <1>7 DEF r

\* Each name of it comes from a TOC of the sequence; there are finitely many.
LEMMA DirectNames ==
    ASSUME NEW seq \in Seq(Stamps)
    PROVE  /\ \A n \in DOMAIN Direct(seq) : \E i \in DOMAIN seq : Direct(seq)[n] = seq[i]
           /\ DOMAIN Direct(seq) \subseteq Nat /\ IsFiniteSet(DOMAIN Direct(seq))
  <1> DEFINE tabs == [i \in DOMAIN seq |-> Entry(seq[i])]
             k == Len(seq)
             D == UNION {DOMAIN tabs[i] : i \in DOMAIN tabs}
  <1>1. k \in Nat /\ DOMAIN seq = 1..k /\ DOMAIN tabs = 1..k /\ \A i \in 1..k : seq[i] \in Stamps
        BY SeqFacts
  <1>2. Direct(seq) = Layered(tabs) /\ DOMAIN Direct(seq) = D
        BY DEF Direct, Layered
  <1>3. ASSUME NEW st \in Stamps
        PROVE  DOMAIN Entry(st) \subseteq Nat /\ IsFiniteSet(DOMAIN Entry(st))
    <2>1. CASE st[2] = 0
      <3>1. DOMAIN Entry(st) = {}
            BY <2>1 DEF Entry, Names
      <3> QED BY <3>1, FS_EmptySet
    <2>2. CASE st[2] # 0 /\ st[3] # All
      <3>1. DOMAIN Entry(st) = {st[3]} /\ st[3] \in Nat
            BY <2>2 DEF Entry, Names, Stamps
      <3> QED BY <3>1, FS_Singleton
    <2>3. CASE st[2] # 0 /\ st[3] = All
      <3>1. DOMAIN Entry(st) = Listed[st[1]][st[2]] /\ st[1] \in Tocs /\ st[2] \in Nat
            /\ st[2] <= Len(Listed[st[1]])
            BY <2>3 DEF Entry, Names, Stamps
      <3>2. Listed[st[1]] \in Seq(SUBSET (Nat \ {0}))
            BY <3>1, SnapshotAssumption DEF SnapshotAssumption
      <3>3. st[2] \in DOMAIN Listed[st[1]] /\ Listed[st[1]][st[2]] \in SUBSET (Nat \ {0})
        <4>1. Len(Listed[st[1]]) \in Nat /\ st[2] \in 1..Len(Listed[st[1]])
              BY <2>3, <3>1, <3>2, SeqFacts
        <4> QED BY <3>2, <4>1, SeqFacts
      <3> QED BY <3>1, <3>3, SnapshotAssumption DEF SnapshotAssumption
    <2> QED BY <2>1, <2>2, <2>3
  <1>4. ASSUME NEW i \in 1..k PROVE DOMAIN tabs[i] \subseteq Nat /\ IsFiniteSet(DOMAIN tabs[i])
    <2>1. tabs[i] = Entry(seq[i]) /\ seq[i] \in Stamps
          BY <1>1
    <2> QED BY <1>3, <2>1
  <1>5. D \subseteq Nat
        BY <1>1, <1>4
  <1>6. IsFiniteSet(D)
    <2> DEFINE P == {DOMAIN tabs[i] : i \in 1..k}
    <2>1. IsFiniteSet(1..k)
          BY <1>1, FS_Interval
    <2>2. IsFiniteSet(P)
      <3> DEFINE f == [i \in 1..k |-> DOMAIN tabs[i]]
      <3>1. f \in Surjection(1..k, P)
            BY DEF Surjection
      <3> HIDE DEF f, P
      <3> QED BY <2>1, <3>1, FS_Surjection
    <2>3. \A T \in P : IsFiniteSet(T)
          BY <1>4
    <2>4. IsFiniteSet(UNION P)
      <3> HIDE DEF P
      <3> QED BY <2>2, <2>3, FS_UNION
    <2> QED BY <1>1, <2>4
  <1>7. ASSUME NEW n \in D PROVE \E i \in DOMAIN seq : Direct(seq)[n] = seq[i]
    <2> DEFINE A == {i \in 1..k : n \in DOMAIN tabs[i]}
    <2>1. A \subseteq Nat /\ A # {}
          BY <1>1, <1>7
    <2>2. Min(A) \in A
      <3> HIDE DEF A
      <3> QED BY <2>1, LeastMember
    <2>3. Direct(seq)[n] = tabs[Min(A)][n]
          BY <1>1, <1>2, <1>7 DEF Layered, FirstWith
    <2>4. Min(A) \in 1..k /\ tabs[Min(A)] = Entry(seq[Min(A)]) /\ n \in DOMAIN Entry(seq[Min(A)])
      <3>1. Min(A) \in 1..k /\ n \in DOMAIN tabs[Min(A)]
        <4> HIDE DEF tabs
        <4> QED BY <2>2
      <3> QED BY <1>1, <3>1
    <2>5. tabs[Min(A)][n] = seq[Min(A)]
          BY <2>4 DEF Entry
    <2> QED BY <1>1, <2>3, <2>4, <2>5
  <1> QED BY <1>2, <1>5, <1>6, <1>7

LEMMA UnmountedIsSeq ==
    ASSUME NEW list \in Seq(Tocs), NEW mounted
    PROVE  Unmounted(list, mounted) \in Seq(Tocs)
  <1> DEFINE S == {i \in DOMAIN list : /\ list[i] \notin mounted
                                       /\ \A j \in 1..(i - 1) : list[j] # list[i]}
             n == Cardinality(S)
  <1>1. Len(list) \in Nat /\ DOMAIN list = 1..Len(list) /\ \A i \in 1..Len(list) : list[i] \in Tocs
        BY SeqFacts
  <1>2. S \subseteq Nat /\ IsFiniteSet(S) /\ \A i \in S : list[i] \in Tocs
    <2>1. IsFiniteSet(1..Len(list))
          BY <1>1, FS_Interval
    <2> QED BY <1>1, <2>1, FS_Subset
  <1>3. Ordered(S) \in [1..n -> S] /\ n \in Nat /\ DOMAIN Ordered(S) = 1..n
    <2> HIDE DEF S
    <2> QED BY <1>2, InOrder DEF Increasing
  <1>4. Unmounted(list, mounted) = [i \in 1..n |-> list[Ordered(S)[i]]]
        BY <1>3 DEF Unmounted
  <1>5. Unmounted(list, mounted) \in [1..n -> Tocs]
    <2> HIDE DEF S, n
    <2> QED BY <1>2, <1>3, <1>4
  <1> QED BY <1>3, <1>5, FunctionIsSeq

-----------------------------------------------------------------------------
\* The inductive invariant, over versions v of the TOCs.
Past(v, seq) == \A i \in DOMAIN seq : seq[i][2] <= v[seq[i][1]]
Now(v, seq)  == \A i \in DOMAIN seq : seq[i][2] = v[seq[i][1]]

\* The stamps of a process whose TOCs are in its tables: a stamp comes first.
Taken(s) == IF s.pc = "read" THEN Front(s.seq) ELSE s.seq

SourceTyped(v, s) ==
    /\ DOMAIN s = {"pc", "layers", "overlay", "seq", "mounted", "base", "whole",
                   "use", "left", "parent", "key", "bases", "chain", "seen", "total"}
    /\ s.layers \in Seq(ToSet(s.layers)) /\ IsTable(s.overlay) /\ s.left \in Seq(Tocs)
    /\ s.seq \in Seq(Stamps) /\ s.parent \in Seq(Stamps) /\ s.key \in Seq(Stamps)
    /\ Past(v, s.seq) /\ Past(v, s.key) /\ Begins(s.parent, s.key)

\* All that the process was told is of the files its stamps are of.
Good(v, s) == s.whole /\ Now(v, Taken(s))
TablesSound(v, s) ==
    Good(v, s) => Tables(s) = Direct(Taken(s)) /\ s.mounted = InMount(Taken(s))

\* What a snapshot to be loaded or saved goes on top of, and where it is saved.
MappingSound(v, s) == s.whole /\ s.use /\ Now(v, s.parent) => Mapping(s) = Direct(s.parent)

Saving == {"write", "rename", "sweep", "check", "remove", "cap", "evict"}
PhaseSound(s) ==
    /\ s.pc \in {"stamp", "load"} => s.use /\ s.seq = s.parent /\ DOMAIN s.overlay = {}
    /\ s.pc = "stamp" => Len(s.key) < Len(s.parent) + Len(s.left)
    /\ s.pc \in Saving => s.use /\ s.seq = s.key
    /\ s.pc = "read" => /\ s.left # <<>> /\ s.seq # <<>>
                        /\ Last(s.seq)[1] = Head(s.left) /\ Last(s.seq)[3] = All
    /\ s.pc = "owner" => s.key # <<>> /\ Head(s.key)[3] # All

SourceSound(v, s) ==
    SourceTyped(v, s) /\ TablesSound(v, s) /\ MappingSound(v, s) /\ PhaseSound(s)

FileSound(v, f, c) ==
    /\ f[2] \in Seq(Stamps) /\ Past(v, f[2])
    /\ f[3] # "pidx" => IsTable(c.tab)
    /\ f[3] # "pidx" /\ c.whole /\ Now(v, f[2]) =>
         Over(Direct(c.parent), c.tab) = Direct(f[2]) /\ c.mounted = InMount(f[2])
    /\ f[3] = "pidx" /\ c.whole /\ Now(v, f[2]) => c.map = Expected(DOMAIN Direct(f[2]))

Typed ==
    /\ version \in [Tocs -> Nat] /\ \A t \in Tocs : version[t] <= Len(Listed[t])
    /\ DOMAIN proc = Procs /\ DOMAIN index = Askers /\ DOMAIN read = Askers

SourcesSound == \A p \in Procs : SourceSound(version, proc[p])
FilesSound   == \A f \in DOMAIN files : FileSound(version, f, files[f])

ReadTyped(r) ==
    /\ DOMAIN r = {"order", "next", "found", "at", "out"}
    /\ r.at \in [Workers -> Nat] /\ r.out \subseteq Workers /\ r.next \in Nat \ {0}

\* A worker that is out holds no partition.  Unless one was told to stop, a claimed
\* partition is read or its worker holds it, and one that is out saw the list's end.
ReadSound(s, x, r) ==
    LET n == Cardinality(DOMAIN Direct(s.seq))
    IN  /\ r.order = Ordered(DOMAIN Direct(s.seq)) /\ DOMAIN r.found = 1..n
        /\ x.whole /\ ~x.cancelled => \A i \in 1..n : i < r.next =>
             r.found[i] = Guid[r.order[i]] \/ \E w \in Workers : r.at[w] = i
        /\ \A w \in r.out : r.at[w] = NoSlot
        /\ r.out # {} /\ ~x.cancelled => n < r.next

AskSound(v, s, x, r) ==
    /\ DOMAIN x = {"built", "cancelled", "whole", "map"}
    /\ r # NoRead => s.pc = "idle" /\ x.built /\ ReadTyped(r)
                     /\ (s.whole /\ Now(v, s.seq) => ReadSound(s, x, r))
    /\ r = NoRead /\ x.built /\ x.whole /\ ~x.cancelled /\ Good(v, s)
         => x.map = Expected(DOMAIN Direct(Taken(s)))

AsksSound == \A p \in Askers : AskSound(version, proc[p], index[p], read[p])

IInv == Typed /\ SourcesSound /\ FilesSound /\ AsksSound

-----------------------------------------------------------------------------
\* What the invariant says of a process survives a step of it.
LEMMA NowBack ==
    ASSUME NEW v \in [Tocs -> Nat], NEW w \in [Tocs -> Nat], \A t \in Tocs : v[t] <= w[t],
           NEW seq \in Seq(Stamps), Past(v, seq)
    PROVE  Past(w, seq) /\ (Now(w, seq) => Now(v, seq))
  <1>1. DOMAIN seq = 1..Len(seq) /\ \A i \in 1..Len(seq) : seq[i] \in Stamps
        BY SeqFacts
  <1>2. ASSUME NEW i \in DOMAIN seq
        PROVE  /\ seq[i][2] <= v[seq[i][1]] /\ v[seq[i][1]] <= w[seq[i][1]]
               /\ seq[i][2] \in Nat /\ v[seq[i][1]] \in Nat /\ w[seq[i][1]] \in Nat
    <2>1. seq[i] \in Tocs \X Nat \X Nat
          BY <1>1 DEF Stamps
    <2> QED BY <2>1 DEF Past
  <1>3. Past(w, seq)
        BY <1>2 DEF Past
  <1>4. ASSUME Now(w, seq) PROVE Now(v, seq)
    <2>1. ASSUME NEW i \in DOMAIN seq PROVE seq[i][2] = v[seq[i][1]]
      <3>1. seq[i][2] = w[seq[i][1]]
            BY <1>4 DEF Now
      <3> QED BY <1>2, <3>1
    <2> QED BY <2>1 DEF Now
  <1> QED BY <1>3, <1>4

LEMMA NowOfBegin ==
    ASSUME NEW v, NEW q \in Seq(Stamps), NEW r \in Seq(Stamps), Begins(q, r), Now(v, r)
    PROVE  Now(v, q)
  <1>1. DOMAIN q = 1..Len(q) /\ DOMAIN r = 1..Len(r) /\ Len(q) \in Nat /\ Len(r) \in Nat
        BY SeqFacts
  <1> QED BY <1>1 DEF Begins, Now

LEMMA NowAppend ==
    ASSUME NEW v, NEW seq \in Seq(Stamps), NEW st \in Stamps
    PROVE  /\ Now(v, Append(seq, st)) <=> Now(v, seq) /\ st[2] = v[st[1]]
           /\ Past(v, Append(seq, st)) <=> Past(v, seq) /\ st[2] <= v[st[1]]
           /\ Append(seq, st) \in Seq(Stamps)
  <1> DEFINE r == Append(seq, st)
             n == Len(seq)
  <1>1. /\ n \in Nat /\ DOMAIN seq = 1..n /\ DOMAIN r = 1..(n + 1)
        /\ \A i \in 1..n : r[i] = seq[i]
        /\ r[n + 1] = st
        BY SeqFacts, AppendFacts
  <1>2. r \in Seq(Stamps)
        BY AppendProperties
  <1> HIDE DEF r, n
  <1>3. (\A i \in 1..(n + 1) : i \in 1..n \/ i = n + 1) /\ n + 1 \in 1..(n + 1)
        /\ 1..n \subseteq 1..(n + 1)
        BY <1>1
  <1>4. Now(v, r) <=> Now(v, seq) /\ st[2] = v[st[1]]
        BY <1>1, <1>3 DEF Now
  <1>5. Past(v, r) <=> Past(v, seq) /\ st[2] <= v[st[1]]
        BY <1>1, <1>3 DEF Past
  <1> QED BY <1>2, <1>4, <1>5 DEF r

\* A patch only adds to the versions.
LEMMA SourceStays ==
    ASSUME NEW v \in [Tocs -> Nat], NEW w \in [Tocs -> Nat], \A t \in Tocs : v[t] <= w[t],
           NEW s, SourceSound(v, s)
    PROVE  /\ SourceSound(w, s) /\ Taken(s) \in Seq(Stamps)
           /\ Past(v, Taken(s)) /\ (Now(w, Taken(s)) => Now(v, Taken(s)))
  <1>1. /\ s.seq \in Seq(Stamps) /\ s.parent \in Seq(Stamps) /\ s.key \in Seq(Stamps)
        /\ Past(v, s.seq) /\ Past(v, s.key) /\ Begins(s.parent, s.key)
        BY DEF SourceSound, SourceTyped
  <1>2. Past(v, s.parent)
    <2>1. /\ DOMAIN s.parent = 1..Len(s.parent) /\ DOMAIN s.key = 1..Len(s.key)
          /\ Len(s.parent) \in Nat /\ Len(s.key) \in Nat
          BY <1>1, SeqFacts
    <2> QED BY <1>1, <2>1 DEF Begins, Past
  <1>3. Taken(s) \in Seq(Stamps) /\ Past(v, Taken(s))
    <2>1. CASE s.pc # "read"
          BY <1>1, <2>1 DEF Taken
    <2>2. CASE s.pc = "read"
      <3>1. s.seq # <<>>
            BY <2>2 DEF SourceSound, PhaseSound
      <3>2. PICK q \in Seq(Stamps), st \in Stamps : s.seq = Append(q, st)
            BY <1>1, <3>1, SequenceEmptyOrAppend
      <3>3. Taken(s) = q
        <4>1. Front(Append(q, st)) = q
              BY AppendEnds
        <4> QED BY <2>2, <3>2, <4>1 DEF Taken
      <3> QED BY <1>1, <3>2, <3>3, NowAppend
    <2> QED BY <2>1, <2>2
  <1>4. /\ Past(w, s.seq) /\ Past(w, s.key)
        /\ Now(w, Taken(s)) => Now(v, Taken(s))
        /\ Now(w, s.parent) => Now(v, s.parent)
        BY <1>1, <1>2, <1>3, NowBack
  <1>5. SourceTyped(w, s)
        BY <1>4 DEF SourceSound, SourceTyped
  <1>6. TablesSound(w, s) /\ MappingSound(w, s)
        BY <1>4 DEF SourceSound, TablesSound, MappingSound, Good
  <1> QED BY <1>3, <1>4, <1>5, <1>6 DEF SourceSound

LEMMA FreshSound ==
    ASSUME NEW v
    PROVE  SourceSound(v, Fresh) /\ Taken(Fresh) = <<>>
  <1>1. <<>> \in Seq(Stamps) /\ <<>> \in Seq(Tocs) /\ DOMAIN <<>> = {} /\ Len(<<>>) = 0
        /\ \A S : <<>> \in Seq(S)
        BY EmptySeq
  <1>2. SourceTyped(v, Fresh)
    <2>1. DOMAIN Fresh = {"pc", "layers", "overlay", "seq", "mounted", "base", "whole",
                          "use", "left", "parent", "key", "bases", "chain", "seen", "total"}
          BY DEF Fresh
    <2>2. /\ Fresh.layers = <<>> /\ Fresh.overlay = Empty /\ Fresh.left = <<>>
          /\ Fresh.seq = <<>> /\ Fresh.parent = <<>> /\ Fresh.key = <<>>
          BY DEF Fresh
    <2>3. IsTable(Empty) /\ Past(v, <<>>) /\ Begins(<<>>, <<>>) /\ <<>> \in Seq(ToSet(<<>>))
      <3>1. IsTable(Empty)
            BY DEF IsTable, Empty
      <3>2. Past(v, <<>>) /\ Begins(<<>>, <<>>)
            BY <1>1 DEF Past, Begins
      <3>3. <<>> \in Seq(ToSet(<<>>))
            BY EmptySeq
      <3> QED BY <3>1, <3>2, <3>3
    <2> QED BY <1>1, <2>1, <2>2, <2>3 DEF SourceTyped
  <1>3. Mapping(Fresh) = Empty
    <2> DEFINE tabs == [i \in DOMAIN Fresh.layers |-> Fresh.layers[i].tab]
    <2>1. DOMAIN tabs = {}
          BY <1>1 DEF Fresh
    <2>2. Mapping(Fresh) = Layered(tabs)
          BY DEF Mapping
    <2> HIDE DEF tabs
    <2>3. IsTable(Layered(tabs))
          BY LayeredIsTable
    <2>4. DOMAIN Layered(tabs) = {}
          BY <2>1 DEF Layered
    <2> QED BY <2>2, <2>3, <2>4 DEF IsTable, Empty
  <1>4. Tables(Fresh) = Empty
    <2>1. Tables(Fresh) = Over(Empty, Empty)
          BY <1>3 DEF Tables, Fresh
    <2>2. Over(Empty, Empty) = Empty
          BY EmptyIsTable, OverNone
    <2> QED BY <2>1, <2>2
  <1>5. Taken(Fresh) = <<>>
        BY DEF Taken, Fresh
  <1>6. TablesSound(v, Fresh)
    <2>1. Fresh.mounted = {}
          BY DEF Fresh
    <2> QED BY <1>4, <1>5, <2>1, DirectEmpty DEF TablesSound
  <1>7. MappingSound(v, Fresh) /\ PhaseSound(Fresh)
        BY DEF MappingSound, PhaseSound, Saving, Fresh
  <1> QED BY <1>2, <1>5, <1>6, <1>7 DEF SourceSound

\* A step that only moves the process on, or ends the mount.
SameTables(s, t) ==
    /\ DOMAIN t = DOMAIN s /\ t.layers = s.layers /\ t.overlay = s.overlay /\ t.seq = s.seq
    /\ t.mounted = s.mounted /\ t.whole = s.whole

LEMMA Moved ==
    ASSUME NEW v, NEW s, NEW t, SourceSound(v, s), SameTables(s, t), s.pc # "read",
           t.pc \notin {"read", "load", "stamp", "owner"}, t.pc \in Saving => t.use /\ t.seq = t.key,
           t.left \in Seq(Tocs),
           \/ t.parent = s.parent /\ t.key = s.key /\ t.use = s.use
           \/ t.parent = <<>> /\ t.key = <<>> /\ ~t.use
    PROVE  SourceSound(v, t) /\ Taken(t) = Taken(s)
  <1>1. Mapping(t) = Mapping(s)
        BY DEF Mapping, SameTables
  <1>2. Tables(t) = Tables(s)
        BY <1>1 DEF Tables, SameTables
  <1>3. Taken(t) = Taken(s)
        BY DEF Taken, SameTables
  <1>4. TablesSound(v, t)
        BY <1>2, <1>3 DEF SourceSound, TablesSound, SameTables, Good
  <1>5. SourceTyped(v, t) /\ MappingSound(v, t)
    <2>1. CASE t.parent = s.parent /\ t.key = s.key /\ t.use = s.use
          BY <1>1, <2>1 DEF SourceSound, SourceTyped, MappingSound, SameTables
    <2>2. CASE t.parent = <<>> /\ t.key = <<>> /\ ~t.use
      <3>1. <<>> \in Seq(Stamps) /\ Past(v, <<>>) /\ Begins(<<>>, <<>>)
            BY EmptySeq DEF Past, Begins
      <3> QED BY <2>2, <3>1 DEF SourceSound, SourceTyped, MappingSound, SameTables
    <2> QED BY <2>1, <2>2
  <1>6. PhaseSound(t)
        BY DEF PhaseSound
  <1> QED BY <1>3, <1>4, <1>5, <1>6 DEF SourceSound

LEMMA ReturnedSound ==
    ASSUME NEW v, NEW s, SourceSound(v, s), s.pc # "read"
    PROVE  /\ SourceSound(v, Returned(s)) /\ Taken(Returned(s)) = Taken(s)
           /\ SameTables(s, Returned(s)) /\ Returned(s).pc = "idle" /\ ~Returned(s).use
           /\ Returned(s).parent = <<>> /\ Returned(s).left = <<>>
  <1> DEFINE t == Returned(s)
  <1>1. /\ DOMAIN s = {"pc", "layers", "overlay", "seq", "mounted", "base", "whole",
                       "use", "left", "parent", "key", "bases", "chain", "seen", "total"}
        BY DEF SourceSound, SourceTyped
  <1>2. /\ DOMAIN t = DOMAIN s /\ t.pc = "idle" /\ ~t.use /\ t.left = <<>> /\ t.parent = <<>>
        /\ t.key = <<>> /\ t.layers = s.layers /\ t.overlay = s.overlay /\ t.seq = s.seq
        /\ t.mounted = s.mounted /\ t.whole = s.whole
        BY <1>1 DEF Returned
  <1> HIDE DEF t
  <1>3. t.left \in Seq(Tocs) /\ SameTables(s, t) /\ t.pc \notin Saving
        BY <1>2, EmptySeq DEF SameTables, Saving
  <1> QED BY <1>2, <1>3, Moved DEF t

\* A snapshot taken for the tables below it.
LEMMA WithLayerSound ==
    ASSUME NEW v, NEW s, SourceSound(v, s), s.pc # "read", s.use,
           NEW f \in DOMAIN files, FileSound(v, f, files[f]), f[2] = s.key, f[3] # "pidx",
           files[f].parent = s.parent
    PROVE  /\ SourceSound(v, WithLayer(s, f))
           /\ WithLayer(s, f).layers # s.layers
  <1> DEFINE l == [from |-> f, tab |-> files[f].tab]
             t == WithLayer(s, f)
  <1>1. /\ DOMAIN s = {"pc", "layers", "overlay", "seq", "mounted", "base", "whole",
                       "use", "left", "parent", "key", "bases", "chain", "seen", "total"}
        /\ s.layers \in Seq(ToSet(s.layers)) /\ s.parent \in Seq(Stamps)
        /\ s.key \in Seq(Stamps) /\ Past(v, s.key) /\ Begins(s.parent, s.key)
        BY DEF SourceSound, SourceTyped
  <1>2. /\ DOMAIN t = DOMAIN s /\ t.pc = "idle" /\ ~t.use /\ t.left = <<>> /\ t.parent = <<>>
        /\ t.key = <<>> /\ t.layers = Append(s.layers, l) /\ t.overlay = Empty
        /\ t.seq = s.key /\ t.mounted = files[f].mounted
        BY <1>1 DEF WithLayer, Returned
  <1>2a. t.whole = (s.whole /\ files[f].whole)
        BY <1>1 DEF WithLayer, Returned
  <1> HIDE DEF t
  <1>3. /\ t.layers \in Seq(ToSet(t.layers))
        /\ Mapping(t) = Over(Mapping(s), files[f].tab)
    <2>1. l.tab = files[f].tab
          OBVIOUS
    <2> HIDE DEF l
    <2>2. s.layers \in Seq(ToSet(s.layers)) /\ t.layers = Append(s.layers, l)
          BY <1>1, <1>2
    <2>3. /\ t.layers \in Seq(ToSet(t.layers))
          /\ Layered([i \in DOMAIN t.layers |-> t.layers[i].tab])
               = Over(Layered([i \in DOMAIN s.layers |-> s.layers[i].tab]), l.tab)
          BY <2>2, LayersAppend
    <2> QED BY <2>1, <2>3 DEF Mapping
  <1>4. Tables(t) = Over(Mapping(s), files[f].tab)
    <2>1. Over(Mapping(t), Empty) = Mapping(t)
      <3>1. DOMAIN Empty = {}
            BY DEF Empty
      <3> QED BY <3>1, MappingAlone
    <2> QED BY <1>2, <1>3, <2>1 DEF Tables
  <1>5. Taken(t) = s.key
        BY <1>2 DEF Taken
  <1>6. TablesSound(v, t)
    <2> SUFFICES ASSUME s.whole, files[f].whole, Now(v, s.key)
                 PROVE  Tables(t) = Direct(s.key) /\ t.mounted = InMount(s.key)
        BY <1>2a, <1>5 DEF TablesSound, Good
    <2>1. Now(v, s.parent)
          BY <1>1, NowOfBegin
    <2>2. Mapping(s) = Direct(s.parent)
          BY <2>1 DEF SourceSound, MappingSound
    <2>3. Over(Direct(s.parent), files[f].tab) = Direct(s.key)
          /\ files[f].mounted = InMount(s.key)
          BY DEF FileSound
    <2> QED BY <1>2, <1>4, <2>2, <2>3
  <1>7. SourceTyped(v, t)
    <2>1. <<>> \in Seq(Tocs) /\ <<>> \in Seq(Stamps) /\ Past(v, <<>>) /\ Begins(<<>>, <<>>)
      <3>1. DOMAIN <<>> = {} /\ Len(<<>>) = 0
            BY EmptySeq
      <3>2. <<>> \in Seq(Tocs) /\ <<>> \in Seq(Stamps)
            BY EmptySeq
      <3> QED BY <3>1, <3>2 DEF Past, Begins
    <2>2. IsTable(Empty)
          BY DEF IsTable, Empty
    <2> QED BY <1>1, <1>2, <1>3, <2>1, <2>2 DEF SourceTyped
  <1>8. MappingSound(v, t) /\ PhaseSound(t)
        BY <1>2 DEF MappingSound, PhaseSound, Saving
  <1>9. t.layers # s.layers
    <2>1. Len(t.layers) = Len(s.layers) + 1 /\ Len(s.layers) \in Nat
          BY <1>1, <1>2, SeqFacts, AppendFacts
    <2> QED BY <2>1
  <1> QED BY <1>2, <1>6, <1>7, <1>8, <1>9 DEF SourceSound, t

-----------------------------------------------------------------------------
\* Every step of a mount keeps the process sound, and changes what was taken only
\* by adding to it or by a layer.
MountStep(p) ==
    /\ version' = version /\ proc' = [proc EXCEPT ![p] = proc'[p]]
    /\ SourceSound(version, proc'[p])
    /\ proc'[p].layers # proc[p].layers
       \/ (Good(version, proc'[p]) => Good(version, proc[p]))

LEMMA StampIsStamp ==
    ASSUME Typed, NEW t \in Tocs
    PROVE  /\ Stamp(t) \in Stamps /\ Stamp(t) = <<t, version[t], All>>
           /\ Stamp(t)[1] = t /\ Stamp(t)[2] = version[t] /\ Stamp(t)[3] = All
  BY DEF Typed, Stamp, Stamps, All

LEMMA MountTocsSound ==
    ASSUME Typed, SourcesSound, NEW p \in Procs, NEW list \in Lists, MountTocs(p, list)
    PROVE  MountStep(p)
  <1> DEFINE s == proc[p]
             t == proc'[p]
             todo == Unmounted(list, s.mounted)
  <1>1. SourceSound(version, s) /\ s.pc = "idle" /\ DOMAIN proc = Procs
        BY DEF SourcesSound, Typed, MountTocs
  <1>2. /\ DOMAIN s = {"pc", "layers", "overlay", "seq", "mounted", "base", "whole",
                       "use", "left", "parent", "key", "bases", "chain", "seen", "total"}
        /\ s.seq \in Seq(Stamps) /\ Past(version, s.seq)
        BY <1>1 DEF SourceSound, SourceTyped
  <1>3. /\ proc' = [proc EXCEPT ![p].pc = IF MayUse(s) THEN "stamp" ELSE "mount",
                      ![p].use = MayUse(s), ![p].left = todo,
                      ![p].parent = s.seq, ![p].key = s.seq]
        /\ version' = version /\ todo # <<>>
        BY DEF MountTocs
  <1>4. todo \in Seq(Tocs)
    <2>1. list \in Seq(Tocs)
          BY SnapshotAssumption DEF SnapshotAssumption
    <2> QED BY <2>1, UnmountedIsSeq
  <1> HIDE DEF todo
  <1>5. Len(s.seq) \in Nat /\ Len(todo) \in Nat /\ Len(todo) # 0
        BY <1>2, <1>3, <1>4, SeqFacts, EmptySeq
  <1>6. Begins(s.seq, s.seq)
        BY <1>5 DEF Begins
  <1>7. /\ DOMAIN t = DOMAIN s /\ t.pc = (IF MayUse(s) THEN "stamp" ELSE "mount")
        /\ t.use = MayUse(s) /\ t.left = todo /\ t.parent = s.seq /\ t.key = s.seq
        /\ t.layers = s.layers /\ t.overlay = s.overlay /\ t.seq = s.seq /\ t.mounted = s.mounted
        /\ t.whole = s.whole /\ proc' = [proc EXCEPT ![p] = t]
        BY <1>1, <1>2, <1>3
  <1> HIDE DEF s, t
  <1>8. Mapping(t) = Mapping(s)
        BY <1>7 DEF Mapping
  <1>9. Tables(t) = Tables(s)
        BY <1>7, <1>8 DEF Tables
  <1>10. Taken(t) = s.seq /\ Taken(s) = s.seq
         BY <1>1, <1>7 DEF Taken
  <1>11. TablesSound(version, t) /\ (Good(version, t) => Good(version, s))
         BY <1>1, <1>7, <1>9, <1>10 DEF SourceSound, TablesSound, Good
  <1>12. SourceTyped(version, t)
         BY <1>1, <1>4, <1>6, <1>7 DEF SourceSound, SourceTyped
  <1>13. MappingSound(version, t)
    <2> SUFFICES ASSUME MayUse(s), s.whole, Now(version, s.seq) PROVE Mapping(s) = Direct(s.seq)
        BY <1>7, <1>8 DEF MappingSound
    <2>1. Tables(s) = Direct(s.seq)
          BY <1>1, <1>10 DEF SourceSound, TablesSound, Good
    <2>2. Over(Mapping(s), s.overlay) = Mapping(s)
          BY MappingAlone DEF MayUse
    <2> QED BY <2>1, <2>2 DEF Tables
  <1>14. PhaseSound(t)
    <2>1. Len(t.key) < Len(t.parent) + Len(t.left)
          BY <1>5, <1>7
    <2> QED BY <1>7, <2>1 DEF PhaseSound, Saving, MayUse
  <1> QED BY <1>3, <1>7, <1>11, <1>12, <1>13, <1>14 DEF MountStep, SourceSound, s, t

LEMMA Goes ==
    ASSUME Typed, SourcesSound, NEW p \in Procs, NEW t, version' = version,
           proc' = [proc EXCEPT ![p] = t], SourceSound(version, t),
           t.layers # proc[p].layers
             \/ (Good(version, t) => Good(version, proc[p]))
    PROVE  MountStep(p)
  <1>1. proc'[p] = t
        BY DEF Typed
  <1> QED BY <1>1 DEF MountStep

\* The steps that change nothing of the tables.
LEMMA Onward ==
    ASSUME Typed, SourcesSound, NEW p \in Procs, NEW t, version' = version,
           proc' = [proc EXCEPT ![p] = t],
           DOMAIN t = DOMAIN proc[p],
           \A x \in DOMAIN t \ {"pc", "bases", "chain", "seen", "total"} : t[x] = proc[p][x],
           proc[p].pc # "read", t.pc \notin {"read", "load", "stamp", "owner"},
           t.pc \in Saving => t.use /\ t.seq = t.key
    PROVE  MountStep(p)
  <1> DEFINE s == proc[p]
  <1>1. SourceSound(version, s)
        BY DEF SourcesSound
  <1>2. /\ DOMAIN s = {"pc", "layers", "overlay", "seq", "mounted", "base", "whole",
                       "use", "left", "parent", "key", "bases", "chain", "seen", "total"}
        /\ s.left \in Seq(Tocs)
        BY <1>1 DEF SourceSound, SourceTyped
  <1>3. /\ t.layers = s.layers /\ t.overlay = s.overlay /\ t.seq = s.seq
        /\ t.mounted = s.mounted /\ t.left = s.left /\ t.parent = s.parent /\ t.key = s.key
        /\ t.use = s.use /\ t.whole = s.whole
        BY <1>2
  <1> HIDE DEF s
  <1>4. SourceSound(version, t) /\ Taken(t) = Taken(s)
    <2>1. SameTables(s, t)
          BY <1>3 DEF SameTables, s
    <2> QED BY <1>1, <1>2, <1>3, <2>1, Moved DEF s
  <1>5. Good(version, t) => Good(version, s)
        BY <1>3, <1>4 DEF Good
  <1> QED BY <1>4, <1>5, Goes DEF s

LEMMA Returns ==
    ASSUME Typed, SourcesSound, NEW p \in Procs, version' = version, Return(p),
           proc[p].pc # "read"
    PROVE  MountStep(p)
  <1>1. SourceSound(version, proc[p])
        BY DEF SourcesSound
  <1>2. proc' = [proc EXCEPT ![p] = Returned(proc[p])]
        BY DEF Return
  <1>3. /\ SourceSound(version, Returned(proc[p]))
        /\ Good(version, Returned(proc[p])) => Good(version, proc[p])
        BY <1>1, ReturnedSound DEF SameTables, Good
  <1> QED BY <1>2, <1>3, Goes

LEMMA GoesTo ==
    ASSUME Typed, SourcesSound, NEW p \in Procs, NEW pc, version' = version, Goto(p, pc),
           proc[p].pc # "read", pc \notin {"read", "load", "stamp", "owner"},
           pc \in Saving => proc[p].use /\ proc[p].seq = proc[p].key
    PROVE  MountStep(p)
  <1> DEFINE t == [proc[p] EXCEPT !.pc = pc]
  <1>1. /\ DOMAIN proc[p] = {"pc", "layers", "overlay", "seq", "mounted", "base", "whole",
                             "use", "left", "parent", "key", "bases", "chain", "seen", "total"}
        BY DEF SourcesSound, SourceSound, SourceTyped
  <1>2. DOMAIN t = DOMAIN proc[p] /\ t.pc = pc
        /\ \A x \in DOMAIN t \ {"pc", "bases", "chain", "seen", "total"} : t[x] = proc[p][x]
        BY <1>1
  <1>3. proc' = [proc EXCEPT ![p] = t]
        BY DEF Goto
  <1>4. pc \in Saving => t.use /\ t.seq = t.key
        BY <1>1
  <1> HIDE DEF t
  <1> QED BY <1>2, <1>3, <1>4, Onward

\* One stamp more of the key; nothing is mounted yet.
LEMMA StampKeySound ==
    ASSUME Typed, SourcesSound, NEW p \in Procs, StampKey(p)
    PROVE  MountStep(p)
  <1> DEFINE s == proc[p]
             i == Len(s.key) - Len(s.parent) + 1
             st == Stamp(s.left[i])
             t == [s EXCEPT !.key = Append(@, st),
                            !.pc = IF i = Len(s.left) THEN "load" ELSE "stamp"]
  <1>1. SourceSound(version, s) /\ s.pc = "stamp" /\ version' = version
        BY DEF SourcesSound, StampKey
  <1>2. /\ DOMAIN s = {"pc", "layers", "overlay", "seq", "mounted", "base", "whole",
                       "use", "left", "parent", "key", "bases", "chain", "seen", "total"}
        /\ s.key \in Seq(Stamps) /\ s.parent \in Seq(Stamps) /\ s.left \in Seq(Tocs)
        /\ Past(version, s.key) /\ Begins(s.parent, s.key)
        /\ s.use /\ s.seq = s.parent /\ DOMAIN s.overlay = {}
        /\ Len(s.key) < Len(s.parent) + Len(s.left)
        BY <1>1 DEF SourceSound, SourceTyped, PhaseSound
  <1>3. proc' = [proc EXCEPT ![p] = t]
        BY DEF StampKey
  <1>4. /\ Len(s.key) \in Nat /\ Len(s.parent) \in Nat /\ Len(s.left) \in Nat
        /\ Len(s.parent) <= Len(s.key) /\ i \in 1..Len(s.left)
    <2>1. /\ Len(s.key) \in Nat /\ Len(s.parent) \in Nat /\ Len(s.left) \in Nat
          /\ Len(s.parent) <= Len(s.key)
          BY <1>2, SeqFacts DEF Begins
    <2> HIDE DEF s
    <2> QED BY <1>2, <2>1
  <1>5. st \in Stamps /\ st[2] = version[st[1]] /\ version[st[1]] \in Nat
    <2>1. s.left[i] \in Tocs
      <3> HIDE DEF s, i
      <3> QED BY <1>2, <1>4, SeqFacts
    <2>2. version[s.left[i]] \in Nat
          BY <2>1 DEF Typed
    <2> HIDE DEF s, i
    <2> QED BY <2>1, <2>2, StampIsStamp
  <1> HIDE DEF st
  <1>6. /\ DOMAIN t = DOMAIN s /\ t.pc = (IF i = Len(s.left) THEN "load" ELSE "stamp")
        /\ t.key = Append(s.key, st) /\ t.seq = s.seq
        /\ t.layers = s.layers /\ t.overlay = s.overlay /\ t.mounted = s.mounted
        /\ t.left = s.left /\ t.parent = s.parent /\ t.use = s.use /\ t.whole = s.whole
        BY <1>2
  <1> HIDE DEF s, t
  <1>7. /\ t.key \in Seq(Stamps) /\ Past(version, t.key) /\ Len(t.key) = Len(s.key) + 1
        /\ Begins(t.parent, t.key)
    <2>1. t.key \in Seq(Stamps) /\ Past(version, t.key)
          BY <1>2, <1>5, <1>6, NowAppend
    <2>2. Len(t.key) = Len(s.key) + 1 /\ \A k \in 1..Len(s.key) : t.key[k] = s.key[k]
          BY <1>2, <1>6, AppendFacts
    <2> QED BY <1>2, <1>4, <1>6, <2>1, <2>2 DEF Begins
  <1>8. Taken(t) = Taken(s) /\ Mapping(t) = Mapping(s)
        BY <1>1, <1>6 DEF Taken, Mapping
  <1>9. Tables(t) = Tables(s)
        BY <1>6, <1>8 DEF Tables
  <1>10. SourceTyped(version, t)
         BY <1>1, <1>6, <1>7 DEF SourceSound, SourceTyped
  <1>11. /\ TablesSound(version, t) /\ MappingSound(version, t)
         /\ Good(version, t) => Good(version, s)
         BY <1>1, <1>6, <1>8, <1>9 DEF SourceSound, TablesSound, MappingSound, Good
  <1>12. PhaseSound(t)
    <2>1. ASSUME t.pc = "stamp" PROVE Len(t.key) < Len(t.parent) + Len(t.left)
      <3>1. i # Len(s.left)
            BY <1>6, <2>1
      <3>2. Len(t.key) = Len(s.key) + 1 /\ t.parent = s.parent /\ t.left = s.left
            BY <1>6, <1>7
      <3>3. \A k, m, n \in Nat : k - m + 1 \in 1..n /\ k - m + 1 # n => k + 1 < m + n
            OBVIOUS
      <3>4. Len(s.key) + 1 < Len(s.parent) + Len(s.left)
            BY <1>4, <3>1, <3>3
      <3> QED BY <3>2, <3>4
    <2> QED BY <1>2, <1>6, <2>1 DEF PhaseSound, Saving
  <1> QED BY <1>1, <1>3, <1>10, <1>11, <1>12, Goes DEF SourceSound, s

LEMMA StampNextSound ==
    ASSUME Typed, SourcesSound, NEW p \in Procs, StampNext(p)
    PROVE  MountStep(p)
  <1> DEFINE s == proc[p]
             st == Stamp(Head(s.left))
             t == [s EXCEPT !.pc = "read", !.seq = Append(@, st)]
  <1>1. SourceSound(version, s) /\ s.pc = "mount" /\ s.left # <<>> /\ version' = version
        BY DEF SourcesSound, StampNext
  <1>2. /\ DOMAIN s = {"pc", "layers", "overlay", "seq", "mounted", "base", "whole",
                       "use", "left", "parent", "key", "bases", "chain", "seen", "total"}
        /\ s.seq \in Seq(Stamps) /\ Past(version, s.seq) /\ s.left \in Seq(Tocs)
        BY <1>1 DEF SourceSound, SourceTyped
  <1>3. proc' = [proc EXCEPT ![p] = t]
        BY DEF StampNext
  <1>4. /\ st \in Stamps /\ st[1] = Head(s.left) /\ st[2] = version[st[1]] /\ st[3] = All
        /\ version[st[1]] \in Nat
    <2>1. Head(s.left) \in Tocs
          BY <1>1, <1>2, HeadTailProperties
    <2>2. version[Head(s.left)] \in Nat
          BY <2>1 DEF Typed
    <2> HIDE DEF s
    <2> QED BY <2>1, <2>2, StampIsStamp
  <1> HIDE DEF st
  <1>5. /\ DOMAIN t = DOMAIN s /\ t.pc = "read" /\ t.seq = Append(s.seq, st)
        /\ t.layers = s.layers /\ t.overlay = s.overlay /\ t.mounted = s.mounted
        /\ t.left = s.left /\ t.parent = s.parent /\ t.key = s.key /\ t.use = s.use
        /\ t.whole = s.whole
        BY <1>2
  <1> HIDE DEF s, t
  <1>6. t.seq \in Seq(Stamps) /\ Past(version, t.seq)
        BY <1>2, <1>4, <1>5, NowAppend
  <1>7. Taken(t) = s.seq /\ Taken(s) = s.seq
    <2>1. Front(Append(s.seq, st)) = s.seq
          BY <1>2, AppendEnds
    <2> QED BY <1>1, <1>5, <2>1 DEF Taken
  <1>8. Mapping(t) = Mapping(s)
        BY <1>5 DEF Mapping
  <1>9. Tables(t) = Tables(s)
        BY <1>5, <1>8 DEF Tables
  <1>10. SourceTyped(version, t)
         BY <1>1, <1>5, <1>6 DEF SourceSound, SourceTyped
  <1>11. /\ TablesSound(version, t) /\ MappingSound(version, t)
         /\ Good(version, t) => Good(version, s)
         BY <1>1, <1>5, <1>7, <1>8, <1>9 DEF SourceSound, TablesSound, MappingSound, Good
  <1>12. PhaseSound(t)
    <2>1. t.seq # <<>> /\ Last(t.seq) = st
      <3>1. Append(s.seq, st) # <<>>
            BY <1>2, <1>4, AppendProperties
      <3>2. Last(Append(s.seq, st)) = st
            BY <1>2, AppendEnds
      <3> QED BY <1>5, <3>1, <3>2
    <2> QED BY <1>1, <1>4, <1>5, <2>1 DEF PhaseSound, Saving
  <1> QED BY <1>1, <1>3, <1>10, <1>11, <1>12, Goes DEF SourceSound, s

\* The TOC just stamped is read.  Its file may have been replaced since the stamp was
\* taken; then the stamps are not those of the files, and never will be again.
ReadTo(s, t) ==
    LET toc == Head(s.left) IN
    /\ DOMAIN t = DOMAIN s /\ t.pc = "mount" /\ t.left = Tail(s.left) /\ t.layers = s.layers
    /\ t.seq = s.seq /\ t.parent = s.parent /\ t.key = s.key /\ t.use = s.use
    /\ \/ /\ version[toc] = 0 /\ t.overlay = s.overlay
          /\ t.mounted = s.mounted /\ t.whole = s.whole
       \/ /\ version[toc] # 0 /\ t.overlay = FirstWinning(s, Entry(Stamp(toc)))
          /\ t.mounted = s.mounted \cup {toc} /\ t.whole = s.whole
       \/ IsTable(t.overlay) /\ ~t.whole

LEMMA ReadNextCases ==
    ASSUME Typed, SourcesSound, NEW p \in Procs, ReadNext(p)
    PROVE  \E t : proc' = [proc EXCEPT ![p] = t] /\ ReadTo(proc[p], t)
  <1> DEFINE s == proc[p]
             toc == Head(s.left)
             all == Entry(Stamp(toc))
             With(o) == [s EXCEPT !.overlay = o, !.mounted = @ \cup {toc}]
             After(r) == [r EXCEPT !.pc = "mount", !.left = Tail(@)]
  <1>1. /\ DOMAIN s = {"pc", "layers", "overlay", "seq", "mounted", "base", "whole",
                       "use", "left", "parent", "key", "bases", "chain", "seen", "total"}
        /\ IsTable(s.overlay)
        BY DEF SourcesSound, SourceSound, SourceTyped
  <1>2. CASE version[toc] = 0 /\ proc' = [proc EXCEPT ![p] = After(s)]
    <2>1. ReadTo(s, After(s))
          BY <1>1, <1>2 DEF ReadTo
    <2> QED BY <1>2, <2>1
  <1>3. CASE /\ version[toc] # 0
             /\ proc' = [proc EXCEPT ![p] = After(With(FirstWinning(s, all)))]
    <2> DEFINE o == FirstWinning(s, all)
    <2>1. o = FirstWinning(s, Entry(Stamp(Head(s.left))))
          OBVIOUS
    <2> HIDE DEF o
    <2>2. ReadTo(s, After(With(o)))
          BY <1>1, <1>3, <2>1 DEF ReadTo
    <2> QED BY <1>3, <2>2 DEF o
  <1>4. CASE proc' = [proc EXCEPT ![p] = After([s EXCEPT !.whole = FALSE])]
    <2>1. ReadTo(s, After([s EXCEPT !.whole = FALSE]))
          BY <1>1 DEF ReadTo
    <2> QED BY <1>4, <2>1
  <1>5. ASSUME NEW got,
               proc' = [proc EXCEPT ![p] =
                          After([With(FirstWinning(s, Restrict(all, got))) EXCEPT !.whole = FALSE])]
        PROVE  \E t : proc' = [proc EXCEPT ![p] = t] /\ ReadTo(s, t)
    <2> DEFINE o == FirstWinning(s, Restrict(all, got))
               u == [With(o) EXCEPT !.whole = FALSE]
    <2>1. IsTable(o)
          BY OverIsTable DEF FirstWinning
    <2> HIDE DEF o
    <2>2. ReadTo(s, After(u))
          BY <1>1, <2>1 DEF ReadTo
    <2> QED BY <1>5, <2>2 DEF o
  <1> QED BY <1>2, <1>3, <1>4, <1>5 DEF ReadNext

LEMMA ReadNextSound ==
    ASSUME Typed, SourcesSound, NEW p \in Procs, ReadNext(p)
    PROVE  MountStep(p)
  <1> DEFINE s == proc[p]
             toc == Head(s.left)
             more == FirstWinning(s, Entry(Stamp(toc)))
  <1>1. SourceSound(version, s) /\ s.pc = "read" /\ version' = version
        BY DEF SourcesSound, ReadNext
  <1>2. /\ s.seq \in Seq(Stamps) /\ Past(version, s.seq) /\ s.left \in Seq(Tocs)
        /\ s.left # <<>> /\ s.seq # <<>>
        /\ Last(s.seq)[1] = Head(s.left) /\ Last(s.seq)[3] = All
        BY <1>1 DEF SourceSound, SourceTyped, PhaseSound
  <1>3. PICK t : proc' = [proc EXCEPT ![p] = t] /\ ReadTo(s, t)
        BY ReadNextCases
  <1>3a. /\ DOMAIN t = DOMAIN s
             /\ t.pc = "mount" /\ t.left = Tail(s.left) /\ t.layers = s.layers
             /\ t.seq = s.seq /\ t.parent = s.parent /\ t.key = s.key /\ t.use = s.use
             /\ \/ /\ version[toc] = 0 /\ t.overlay = s.overlay
                   /\ t.mounted = s.mounted /\ t.whole = s.whole
                \/ /\ version[toc] # 0 /\ t.overlay = more
                   /\ t.mounted = s.mounted \cup {toc} /\ t.whole = s.whole
                \/ IsTable(t.overlay) /\ ~t.whole
        BY <1>3 DEF ReadTo
  <1>4. toc \in Tocs /\ Tail(s.left) \in Seq(Tocs)
    <2> HIDE DEF s
    <2> QED BY <1>2, HeadTailProperties
  <1>5. PICK q \in Seq(Stamps), st \in Stamps : s.seq = Append(q, st)
    <2> HIDE DEF s
    <2> QED BY <1>2, SequenceEmptyOrAppend
  <1>6. Taken(s) = q /\ st[1] = toc /\ st[3] = All
    <2>1. Front(Append(q, st)) = q /\ Last(Append(q, st)) = st
          BY <1>5, AppendEnds
    <2> QED BY <1>1, <1>2, <1>5, <2>1 DEF Taken
  <1>7. Mapping(t) = Mapping(s)
        BY <1>3a DEF Mapping
  <1>8. IsTable(t.overlay)
    <2>1. IsTable(s.overlay)
          BY <1>1 DEF SourceSound, SourceTyped
    <2>2. IsTable(more)
          BY OverIsTable DEF FirstWinning
    <2> HIDE DEF more
    <2> QED BY <1>3a, <2>1, <2>2
  <1>9. Taken(t) = s.seq
        BY <1>3a DEF Taken
  <1>10. TablesSound(version, t) /\ (Good(version, t) => Good(version, s))
    <2> SUFFICES ASSUME t.whole, Now(version, s.seq)
                 PROVE  /\ Tables(t) = Direct(s.seq) /\ t.mounted = InMount(s.seq)
                        /\ s.whole /\ Now(version, q)
        BY <1>6, <1>9 DEF TablesSound, Good
    <2>1. Now(version, q) /\ st[2] = version[toc]
      <3>1. Now(version, Append(q, st))
            BY <1>5
      <3>2. Now(version, q) /\ st[2] = version[st[1]]
            BY <3>1, NowAppend
      <3> QED BY <1>6, <3>2
    <2>2. st = Stamp(toc)
      <3>1. st = <<st[1], st[2], st[3]>>
            BY DEF Stamps
      <3> QED BY <1>6, <2>1, <3>1 DEF Stamp
    <2>3. s.whole
          BY <1>3a
    <2>4. Tables(s) = Direct(q) /\ s.mounted = InMount(q)
          BY <1>1, <1>6, <2>1, <2>3 DEF SourceSound, TablesSound, Good
    <2>5. /\ Direct(s.seq) = Over(Direct(q), Entry(st))
          /\ InMount(s.seq) = InMount(q) \cup (IF st[2] = 0 THEN {} ELSE {st[1]})
          BY <1>5, <1>6, DirectAppend
    <2>6. CASE version[toc] # 0
      <3>1. t.overlay = more /\ t.mounted = s.mounted \cup {toc}
            BY <1>3a, <2>6
      <3>2. Over(Mapping(s), more) = Over(Over(Mapping(s), s.overlay), Entry(Stamp(toc)))
            BY FirstWins DEF FirstWinning, Tables
      <3>3. Tables(t) = Over(Tables(s), Entry(st))
            BY <1>7, <2>2, <3>1, <3>2 DEF Tables
      <3> HIDE DEF more, s, toc
      <3> QED BY <1>6, <2>1, <2>3, <2>4, <2>5, <2>6, <3>1, <3>3
    <2>7. CASE version[toc] = 0
      <3>1. DOMAIN Entry(st) = {}
            BY <2>1, <2>7 DEF Entry, Names
      <3>2. Over(Direct(q), Entry(st)) = Direct(q)
        <4>1. IsTable(Direct(q))
              BY LayeredIsTable DEF Direct
        <4> QED BY <3>1, <4>1, OverNone
      <3>3. t.overlay = s.overlay /\ t.mounted = s.mounted
            BY <1>3a, <2>7
      <3>4. Tables(t) = Tables(s)
            BY <1>7, <3>3 DEF Tables
      <3> HIDE DEF more, s, toc
      <3> QED BY <2>1, <2>3, <2>4, <2>5, <2>7, <3>2, <3>3, <3>4
    <2> QED BY <2>6, <2>7
  <1> HIDE DEF s, toc, more
  <1>11. SourceTyped(version, t)
         BY <1>1, <1>3a, <1>4, <1>8 DEF SourceSound, SourceTyped
  <1>12. MappingSound(version, t)
         BY <1>1, <1>3a, <1>7 DEF SourceSound, MappingSound
  <1>13. PhaseSound(t)
         BY <1>3a DEF PhaseSound, Saving
  <1> QED BY <1>1, <1>3, <1>10, <1>11, <1>12, <1>13, Goes DEF SourceSound, s

LEMMA LoadSound ==
    ASSUME Typed, SourcesSound, FilesSound, NEW p \in Procs, NEW f, f = Path(proc[p]),
           Serves(proc[p], f), proc[p].pc # "read", proc[p].use, version' = version,
           proc' = [proc EXCEPT ![p] = WithLayer(proc[p], f)]
    PROVE  MountStep(p)
  <1> DEFINE s == proc[p]
  <1>1. SourceSound(version, s)
        BY DEF SourcesSound
  <1>2. f \in DOMAIN files /\ files[f].parent = s.parent /\ FileSound(version, f, files[f])
        BY DEF Serves, FilesSound
  <1>3. f[2] = s.key /\ f[3] # "pidx"
        BY DEF Path, Stored
  <1>4. SourceSound(version, WithLayer(s, f)) /\ WithLayer(s, f).layers # s.layers
        BY <1>1, <1>2, <1>3, WithLayerSound
  <1> QED BY <1>4, Goes

LEMMA LoadStep == ASSUME Typed, SourcesSound, FilesSound, NEW p \in Procs, Load(p)
                  PROVE  MountStep(p)
  <1>1. proc[p].pc = "load" /\ version' = version
        BY DEF Load
  <1>2. proc[p].use
        BY <1>1 DEF SourcesSound, SourceSound, PhaseSound
  <1>3. CASE /\ Serves(proc[p], Path(proc[p]))
             /\ proc' = [proc EXCEPT ![p] = WithLayer(proc[p], Path(proc[p]))]
        BY <1>1, <1>2, <1>3, LoadSound
  <1>4. CASE Goto(p, "mount")
        BY <1>1, <1>4, GoesTo DEF Saving
  <1> QED BY <1>3, <1>4 DEF Load

LEMMA ReopenSound == ASSUME Typed, SourcesSound, FilesSound, NEW p \in Procs, Reopen(p)
                     PROVE  MountStep(p)
  <1>1. proc[p].pc = "evict" /\ version' = version
        BY DEF Reopen
  <1>2. proc[p].use
        BY <1>1 DEF SourcesSound, SourceSound, PhaseSound, Saving
  <1>3. CASE /\ Serves(proc[p], Path(proc[p]))
             /\ proc' = [proc EXCEPT ![p] = WithLayer(proc[p], Path(proc[p]))]
        BY <1>1, <1>2, <1>3, LoadSound
  <1>4. CASE Return(p)
        BY <1>1, <1>4, Returns
  <1> QED BY <1>3, <1>4 DEF Reopen

\* The steps of a save, the sweep and the cap leave the process where it was.
LEMMA SavingSound ==
    ASSUME Typed, SourcesSound, NEW p \in Procs,
           \/ MountsDone(p) \/ WriteTemp(p) \/ Rename(p) \/ SweepList(p) \/ SweepCheck(p)
           \/ SweepRemove(p) \/ CapList(p) \/ Evict(p)
    PROVE  MountStep(p)
  <1> DEFINE s == proc[p]
  <1>1. /\ DOMAIN s = {"pc", "layers", "overlay", "seq", "mounted", "base", "whole",
                       "use", "left", "parent", "key", "bases", "chain", "seen", "total"}
        /\ s.pc \in Saving => s.use /\ s.seq = s.key
        BY DEF SourcesSound, SourceSound, SourceTyped, PhaseSound
  <1>2. CASE MountsDone(p)
    <2>1. s.pc = "mount" /\ version' = version
          BY <1>2 DEF MountsDone
    <2>2. CASE s.use /\ Cardinality(DOMAIN s.overlay) >= Big /\ s.seq = s.key
      <3>1. Goto(p, "write")
            BY <1>2, <2>2 DEF MountsDone
      <3> QED BY <2>1, <2>2, <3>1, GoesTo
    <2>3. CASE ~(s.use /\ Cardinality(DOMAIN s.overlay) >= Big /\ s.seq = s.key)
      <3>1. Return(p)
            BY <1>2, <2>3 DEF MountsDone
      <3> QED BY <2>1, <3>1, Returns
    <2> QED BY <2>2, <2>3
  <1>3. CASE WriteTemp(p)
    <2>1. s.pc = "write" /\ version' = version /\ (Goto(p, "rename") \/ Return(p))
          BY <1>3 DEF WriteTemp
    <2>2. s.use /\ s.seq = s.key
          BY <1>1, <2>1 DEF Saving
    <2> QED BY <2>1, <2>2, GoesTo, Returns
  <1>4. CASE Rename(p)
    <2>1. s.pc = "rename" /\ version' = version /\ Goto(p, AfterRename(s))
          BY <1>4 DEF Rename
    <2>2. s.use /\ s.seq = s.key /\ AfterRename(s) \notin {"read", "load", "stamp", "owner"}
          BY <1>1, <2>1 DEF Saving, AfterRename
    <2> QED BY <2>1, <2>2, GoesTo
  <1>5. ASSUME NEW pc, NEW pc2 \in Saving, NEW t, s.pc = pc, pc \in Saving, version' = version,
               proc' = [proc EXCEPT ![p] = t], DOMAIN t = DOMAIN s, t.pc = pc2,
               \A x \in DOMAIN t \ {"pc", "bases", "chain", "seen", "total"} : t[x] = s[x]
        PROVE  MountStep(p)
    <2>1. t.use /\ t.seq = t.key
          BY <1>1, <1>5
    <2>2. s.pc # "read" /\ t.pc \notin {"read", "load", "stamp", "owner"}
          BY <1>5 DEF Saving
    <2> QED BY <1>5, <2>1, <2>2, Onward
  <1>6. CASE SweepList(p)
    <2> DEFINE t == [s EXCEPT !.pc = "check", !.bases = {f[1] : f \in DOMAIN files} \ {Base(s)}]
    <2>1. s.pc = "sweep" /\ version' = version /\ proc' = [proc EXCEPT ![p] = t]
          BY <1>6 DEF SweepList
    <2>2. DOMAIN t = DOMAIN s /\ t.pc = "check"
          /\ \A x \in DOMAIN t \ {"pc", "bases", "chain", "seen", "total"} : t[x] = s[x]
          BY <1>1
    <2> HIDE DEF t, s
    <2> QED BY <1>5, <2>1, <2>2 DEF Saving
  <1>7. CASE SweepCheck(p)
    <2>1. s.pc = "check" /\ version' = version
          BY <1>7 DEF SweepCheck
    <2>2. CASE Goto(p, "cap")
      <3>1. s.use /\ s.seq = s.key
            BY <1>1, <2>1 DEF Saving
      <3> QED BY <2>1, <2>2, <3>1, GoesTo
    <2>3. CASE ~Goto(p, "cap")
      <3> DEFINE C(b, stale) == IF stale THEN {f \in DOMAIN files : f[1] = b} ELSE {}
                 Then(c) == IF c = {} THEN "check" ELSE "remove"
      <3>1. PICK b \in s.bases, stale \in BOOLEAN :
              proc' = [proc EXCEPT ![p].pc = Then(C(b, stale)), ![p].bases = @ \ {b},
                                   ![p].chain = C(b, stale)]
            BY <1>7, <2>3 DEF SweepCheck
      <3> DEFINE chain == C(b, stale)
                 pc2 == Then(chain)
                 t == [s EXCEPT !.pc = pc2, !.bases = @ \ {b}, !.chain = chain]
      <3> HIDE DEF C
      <3>2. proc' = [proc EXCEPT ![p] = t]
            BY <3>1
      <3>3. DOMAIN t = DOMAIN s /\ t.pc = pc2 /\ pc2 \in Saving
            /\ \A x \in DOMAIN t \ {"pc", "bases", "chain", "seen", "total"} : t[x] = s[x]
            BY <1>1 DEF Saving
      <3> HIDE DEF t, s
      <3> QED BY <1>5, <2>1, <3>2, <3>3 DEF Saving
    <2> QED BY <2>2, <2>3
  <1>8. CASE SweepRemove(p)
    <2> DEFINE Then(f) == IF s.chain = {f} THEN "check" ELSE "remove"
    <2>1. PICK f \in s.chain : proc' = [proc EXCEPT ![p].chain = @ \ {f}, ![p].pc = Then(f)]
          BY <1>8 DEF SweepRemove
    <2> DEFINE pc2 == Then(f)
               t == [s EXCEPT !.chain = @ \ {f}, !.pc = pc2]
    <2>2. s.pc = "remove" /\ version' = version /\ proc' = [proc EXCEPT ![p] = t]
          BY <1>8, <2>1 DEF SweepRemove
    <2>3. DOMAIN t = DOMAIN s /\ t.pc = pc2 /\ pc2 \in Saving
          /\ \A x \in DOMAIN t \ {"pc", "bases", "chain", "seen", "total"} : t[x] = s[x]
          BY <1>1 DEF Saving
    <2> HIDE DEF t, s
    <2> QED BY <1>5, <2>2, <2>3 DEF Saving
  <1>9. CASE CapList(p)
    <2> DEFINE t == [s EXCEPT !.pc = "evict", !.total = Len(used), !.seen = used]
    <2>1. s.pc = "cap" /\ version' = version /\ proc' = [proc EXCEPT ![p] = t]
          BY <1>9 DEF CapList
    <2>2. DOMAIN t = DOMAIN s /\ t.pc = "evict"
          /\ \A x \in DOMAIN t \ {"pc", "bases", "chain", "seen", "total"} : t[x] = s[x]
          BY <1>1
    <2> HIDE DEF t, s
    <2> QED BY <1>5, <2>1, <2>2 DEF Saving
  <1>10. CASE Evict(p)
    <2>1. PICK done \in SUBSET {Head(s.seen)} :
            proc' = [proc EXCEPT ![p].seen = Tail(@), ![p].total = @ - Cardinality(done)]
          BY <1>10 DEF Evict
    <2> DEFINE t == [s EXCEPT !.seen = Tail(@), !.total = @ - Cardinality(done)]
    <2>2. s.pc = "evict" /\ version' = version /\ proc' = [proc EXCEPT ![p] = t]
          BY <1>10, <2>1 DEF Evict
    <2>3. DOMAIN t = DOMAIN s /\ t.pc = "evict"
          /\ \A x \in DOMAIN t \ {"pc", "bases", "chain", "seen", "total"} : t[x] = s[x]
          BY <1>1, <2>2
    <2> HIDE DEF t, s
    <2> QED BY <1>5, <2>2, <2>3 DEF Saving
  <1> QED BY <1>2, <1>3, <1>4, <1>6, <1>7, <1>8, <1>9, <1>10

\* A name of one bundle: the TOC was read before it is stamped, and may be another.
LEMMA OwnerReadSound ==
    ASSUME Typed, SourcesSound, NEW p \in Procs, NEW t \in Tocs, NEW n \in Names(Stamp(t)),
           OwnerRead(p, t, n)
    PROVE  MountStep(p)
  <1> DEFINE s == proc[p]
             st == <<t, version[t], n>>
             r == Returned(s)
             u == [r EXCEPT !.pc = "owner", !.key = <<st>>]
  <1>1. SourceSound(version, s) /\ s.pc = "idle" /\ version' = version
        BY DEF SourcesSound, OwnerRead
  <1>2. proc' = [proc EXCEPT ![p] = u]
        BY DEF OwnerRead
  <1>3. /\ DOMAIN s = {"pc", "layers", "overlay", "seq", "mounted", "base", "whole",
                       "use", "left", "parent", "key", "bases", "chain", "seen", "total"}
        BY <1>1 DEF SourceSound, SourceTyped
  <1>4. /\ SourceSound(version, r) /\ SameTables(s, r) /\ Taken(r) = Taken(s)
        /\ r.pc = "idle" /\ ~r.use /\ r.parent = <<>>
        BY <1>1, ReturnedSound
  <1>5. /\ DOMAIN u = DOMAIN r /\ u.pc = "owner" /\ u.key = <<st>> /\ ~u.use
        /\ u.parent = <<>> /\ u.left = r.left /\ u.layers = r.layers
        /\ u.overlay = r.overlay /\ u.seq = r.seq /\ u.mounted = r.mounted
        /\ u.whole = r.whole
        BY <1>3, <1>4 DEF SameTables
  <1>6. st \in Stamps /\ st[2] = version[st[1]] /\ st[3] # All
    <2>1. n \in Nat \ {0} /\ version[t] \in Nat /\ version[t] <= Len(Listed[t])
      <3>1. n \in Listed[t][version[t]] /\ version[t] # 0
            BY DEF Names, Stamp
      <3>2. Listed[t] \in Seq(SUBSET (Nat \ {0}))
            BY SnapshotAssumption DEF SnapshotAssumption
      <3>3. version[t] \in Nat /\ version[t] <= Len(Listed[t])
            BY DEF Typed
      <3>4. Listed[t][version[t]] \in SUBSET (Nat \ {0})
        <4>1. version[t] \in 1..Len(Listed[t])
              BY <3>1, <3>2, <3>3, SeqFacts
        <4> QED BY <3>2, <4>1, SeqFacts
      <3> QED BY <3>1, <3>3, <3>4
    <2> QED BY <2>1 DEF Stamps, All
  <1> HIDE DEF s, r, u, st
  <1>7. /\ <<st>> \in Seq(Stamps) /\ Past(version, <<st>>) /\ Head(<<st>>) = st
        /\ <<st>> # <<>> /\ Begins(<<>>, <<st>>)
    <2>1. <<st>> \in Seq(Stamps) /\ DOMAIN <<st>> = {1} /\ <<st>>[1] = st /\ Len(<<st>>) = 1
          BY <1>6
    <2>2. version[st[1]] \in Nat
          BY <1>6 DEF Typed, Stamps
    <2>3. Past(version, <<st>>)
          BY <1>6, <2>1, <2>2 DEF Past
    <2>4. Begins(<<>>, <<st>>)
          BY <2>1, EmptySeq DEF Begins
    <2> QED BY <2>1, <2>3, <2>4
  <1>8. Mapping(u) = Mapping(r) /\ Taken(u) = Taken(r)
        BY <1>4, <1>5 DEF Mapping, Taken
  <1>9. Tables(u) = Tables(r)
        BY <1>5, <1>8 DEF Tables
  <1>10. SourceTyped(version, u)
         BY <1>4, <1>5, <1>7 DEF SourceSound, SourceTyped
  <1>11. /\ TablesSound(version, u) /\ MappingSound(version, u)
         /\ Good(version, u) => Good(version, s)
         BY <1>4, <1>5, <1>8, <1>9
            DEF SourceSound, TablesSound, MappingSound, Good, SameTables
  <1>12. PhaseSound(u)
         BY <1>5, <1>6, <1>7 DEF PhaseSound, Saving
  <1> QED BY <1>1, <1>2, <1>10, <1>11, <1>12, Goes DEF SourceSound, s

LEMMA OwnerAddSound ==
    ASSUME Typed, SourcesSound, NEW p \in Procs, OwnerAdd(p)
    PROVE  MountStep(p)
  <1> DEFINE s == proc[p]
             st == Head(s.key)
             now == <<st[1], version[st[1]], st[3]>>
             more == FirstWinning(s, Entry(st))
             r == Returned(s)
             u == [r EXCEPT !.overlay = more, !.seq = Append(@, now), !.whole = @ /\ st = now]
  <1>1. SourceSound(version, s) /\ s.pc = "owner" /\ version' = version
        BY DEF SourcesSound, OwnerAdd
  <1>2. proc' = [proc EXCEPT ![p] = u]
        BY DEF OwnerAdd
  <1>3. /\ DOMAIN s = {"pc", "layers", "overlay", "seq", "mounted", "base", "whole",
                       "use", "left", "parent", "key", "bases", "chain", "seen", "total"}
        /\ s.seq \in Seq(Stamps) /\ Past(version, s.seq) /\ s.key \in Seq(Stamps)
        /\ s.key # <<>> /\ st[3] # All
        BY <1>1 DEF SourceSound, SourceTyped, PhaseSound
  <1>4. /\ SourceSound(version, r) /\ SameTables(s, r) /\ Taken(r) = Taken(s)
        /\ r.pc = "idle" /\ ~r.use /\ r.parent = <<>>
        BY <1>1, ReturnedSound
  <1>5. st \in Stamps /\ now \in Stamps /\ version[st[1]] \in Nat
    <2>1. st \in Stamps
      <3> HIDE DEF s
      <3> QED BY <1>3, HeadTailProperties
    <2> HIDE DEF st
    <2>2. st[1] \in Tocs /\ st[3] \in Nat
          BY <2>1 DEF Stamps
    <2> QED BY <2>1, <2>2 DEF Typed, Stamps
  <1>6. now[1] = st[1] /\ now[2] = version[now[1]] /\ now[3] # All
        BY <1>3
  <1> HIDE DEF more, now
  <1>7. /\ DOMAIN u = DOMAIN r /\ u.pc = "idle" /\ u.key = r.key /\ ~u.use
        /\ u.parent = <<>> /\ u.left = r.left /\ u.layers = r.layers
        /\ u.overlay = more /\ u.seq = Append(s.seq, now) /\ u.mounted = s.mounted
        /\ u.whole = (s.whole /\ st = now)
        BY <1>3, <1>4 DEF SameTables
  <1>8. IsTable(u.overlay)
    <2>1. IsTable(more)
          BY OverIsTable DEF more, FirstWinning
    <2> QED BY <1>7, <2>1
  <1>9. more = FirstWinning(s, Entry(st)) /\ s.pc # "read"
        BY <1>1 DEF more
  <1> HIDE DEF s, r, u, st
  <1>10. Mapping(u) = Mapping(s) /\ Taken(u) = Append(s.seq, now) /\ Taken(s) = s.seq
         BY <1>4, <1>7, <1>9 DEF Mapping, Taken, SameTables
  <1>11. Append(s.seq, now) \in Seq(Stamps) /\ Past(version, Append(s.seq, now))
         BY <1>3, <1>5, <1>6, NowAppend
  <1>12. TablesSound(version, u) /\ (Good(version, u) => Good(version, s))
    <2> SUFFICES ASSUME s.whole, st = now, Now(version, Append(s.seq, now))
                 PROVE  /\ Tables(u) = Direct(Append(s.seq, now))
                        /\ u.mounted = InMount(Append(s.seq, now))
                        /\ Now(version, s.seq)
        BY <1>7, <1>10 DEF TablesSound, Good
    <2>1. Now(version, s.seq)
          BY <1>3, <1>5, NowAppend
    <2>2. Tables(s) = Direct(s.seq) /\ s.mounted = InMount(s.seq)
          BY <1>1, <1>10, <2>1 DEF SourceSound, TablesSound, Good
    <2>3. /\ Direct(Append(s.seq, now)) = Over(Direct(s.seq), Entry(now))
          /\ InMount(Append(s.seq, now)) = InMount(s.seq)
      <3>1. /\ Direct(Append(s.seq, now)) = Over(Direct(s.seq), Entry(now))
            /\ InMount(Append(s.seq, now))
                 = InMount(s.seq) \cup (IF now[2] = 0 \/ now[3] # All THEN {} ELSE {now[1]})
            BY <1>3, <1>5, DirectAppend
      <3> QED BY <1>6, <3>1
    <2>4. Over(Mapping(s), more) = Over(Over(Mapping(s), s.overlay), Entry(st))
          BY <1>9, FirstWins DEF FirstWinning, Tables
    <2>5. Tables(u) = Over(Tables(s), Entry(now))
          BY <1>7, <1>10, <2>4 DEF Tables
    <2> QED BY <1>7, <2>1, <2>2, <2>3, <2>5
  <1>13. SourceTyped(version, u)
         BY <1>4, <1>7, <1>8, <1>11 DEF SourceSound, SourceTyped, SameTables
  <1>14. MappingSound(version, u) /\ PhaseSound(u)
         BY <1>7 DEF MappingSound, PhaseSound, Saving
  <1> QED BY <1>1, <1>2, <1>12, <1>13, <1>14, Goes DEF SourceSound, s

LEMMA MountsSound ==
    ASSUME Typed, SourcesSound, FilesSound, NEW p \in Procs,
           \/ Step(p) \/ CancelMount(p) \/ \E list \in Lists : MountTocs(p, list)
           \/ \E t \in Tocs : \E n \in Names(Stamp(t)) : OwnerRead(p, t, n)
    PROVE  MountStep(p)
  <1>1. CASE CancelMount(p)
    <2>1. Return(p) /\ version' = version /\ proc[p].pc # "read"
          BY <1>1 DEF CancelMount
    <2> QED BY <2>1, Returns
  <1>2. CASE \E list \in Lists : MountTocs(p, list)
        BY <1>2, MountTocsSound
  <1>3. CASE \E t \in Tocs : \E n \in Names(Stamp(t)) : OwnerRead(p, t, n)
        BY <1>3, OwnerReadSound
  <1>4. CASE OwnerFails(p)
    <2>1. Return(p) /\ version' = version /\ proc[p].pc # "read"
          BY <1>4 DEF OwnerFails
    <2> QED BY <2>1, Returns
  <1>5. CASE Step(p) /\ ~OwnerFails(p)
        BY <1>5, LoadStep, StampKeySound, StampNextSound, ReadNextSound, SavingSound,
           ReopenSound, OwnerAddSound DEF Step
  <1> QED BY <1>1, <1>2, <1>3, <1>4, <1>5

-----------------------------------------------------------------------------
\* The files: one that stays says what it said, a new one is what its writer holds.
LEMMA FilesStay ==
    ASSUME FilesSound, version' = version,
           \A f \in DOMAIN files' :
               \/ f \in DOMAIN files /\ files'[f] = files[f]
               \/ FileSound(version, f, files'[f])
    PROVE  FilesSound'
  <1>1. ASSUME NEW f \in DOMAIN files' PROVE FileSound(version, f, files'[f])
        BY DEF FilesSound
  <1> QED BY <1>1 DEF FilesSound, FileSound, Past, Now

LEMMA DropSound ==
    ASSUME FilesSound, version' = version, NEW S, Drop(S)
    PROVE  FilesSound'
  <1>1. \A f \in DOMAIN files' : f \in DOMAIN files /\ files'[f] = files[f]
        BY DEF Drop
  <1> QED BY <1>1, FilesStay

LEMMA WriteTempFiles ==
    ASSUME Typed, SourcesSound, FilesSound, NEW p \in Procs, WriteTemp(p)
    PROVE  FilesSound'
  <1> DEFINE s == proc[p]
             c == [parent |-> s.parent, tab |-> s.overlay, mounted |-> s.mounted,
                   whole |-> s.whole]
  <1>1. SourceSound(version, s) /\ s.pc = "write" /\ version' = version
        BY DEF SourcesSound, WriteTemp
  <1>2. s.use /\ s.seq = s.key /\ Taken(s) = s.key
        BY <1>1 DEF SourceSound, PhaseSound, Saving, Taken
  <1>3. /\ s.key \in Seq(Stamps) /\ s.parent \in Seq(Stamps) /\ Past(version, s.key)
        /\ Begins(s.parent, s.key) /\ IsTable(s.overlay)
        BY <1>1 DEF SourceSound, SourceTyped
  <1>4. FileSound(version, Temp(p), c)
    <2>1. Temp(p)[2] = s.key /\ Temp(p)[3] # "pidx"
          BY IndexAssumption DEF Temp, IndexAssumption
    <2>2. ASSUME s.whole, Now(version, s.key)
          PROVE  Over(Direct(s.parent), s.overlay) = Direct(s.key) /\ s.mounted = InMount(s.key)
      <3>1. Now(version, s.parent)
            BY <1>3, <2>2, NowOfBegin
      <3>2. Mapping(s) = Direct(s.parent)
            BY <1>1, <1>2, <2>2, <3>1 DEF SourceSound, MappingSound
      <3>3. Tables(s) = Direct(s.key) /\ s.mounted = InMount(s.key)
            BY <1>1, <1>2, <2>2 DEF SourceSound, TablesSound, Good
      <3> QED BY <3>2, <3>3 DEF Tables
    <2>3. /\ c.parent = s.parent /\ c.tab = s.overlay /\ c.mounted = s.mounted
          /\ c.whole = s.whole
          OBVIOUS
    <2> HIDE DEF c
    <2> QED BY <1>3, <2>1, <2>2, <2>3 DEF FileSound
  <1> HIDE DEF c
  <1>5. CASE UNCHANGED files
        BY <1>1, <1>5, FilesStay
  <1>6. CASE files' = [f \in DOMAIN files \cup {Temp(p)} |->
                         IF f # Temp(p) THEN files[f] ELSE c]
    <2>1. \A f \in DOMAIN files' : \/ f \in DOMAIN files /\ files'[f] = files[f]
                                   \/ f = Temp(p) /\ files'[f] = c
          BY <1>6
    <2> QED BY <1>1, <1>4, <2>1, FilesStay
  <1> QED BY <1>5, <1>6 DEF WriteTemp, c

LEMMA RenameFiles ==
    ASSUME Typed, FilesSound, NEW p \in Procs, Rename(p)
    PROVE  FilesSound'
  <1> DEFINE t == Temp(p)
             f == Path(proc[p])
  <1>1. version' = version
        BY DEF Rename
  <1>2. t[2] = f[2] /\ t[3] # "pidx" /\ f[3] # "pidx"
        BY IndexAssumption DEF Temp, Path, Stored, IndexAssumption
  <1>3. CASE Drop({t})
        BY <1>1, <1>3, DropSound
  <1>4. CASE /\ t \in DOMAIN files
             /\ files' = [g \in (DOMAIN files \cup {f}) \ {t} |->
                            IF g = f THEN files[t] ELSE files[g]]
    <2>1. FileSound(version, t, files[t])
          BY <1>4 DEF FilesSound
    <2>2. FileSound(version, f, files[t])
          BY <1>2, <2>1 DEF FileSound
    <2>3. \A g \in DOMAIN files' : \/ g \in DOMAIN files /\ files'[g] = files[g]
                                   \/ g = f /\ files'[g] = files[t]
          BY <1>4
    <2> QED BY <1>1, <2>2, <2>3, FilesStay
  <1> QED BY <1>3, <1>4 DEF Rename

LEMMA MountsFiles ==
    ASSUME Typed, SourcesSound, FilesSound, NEW p \in Procs,
           \/ Step(p) \/ CancelMount(p) \/ \E list \in Lists : MountTocs(p, list)
           \/ \E t \in Tocs : \E n \in Names(Stamp(t)) : OwnerRead(p, t, n)
    PROVE  FilesSound'
  <1>1. CASE WriteTemp(p)
        BY <1>1, WriteTempFiles
  <1>2. CASE Rename(p)
        BY <1>2, RenameFiles
  <1>3. CASE SweepRemove(p)
        BY <1>3, DropSound DEF SweepRemove
  <1>4. CASE Evict(p)
        BY <1>4, DropSound DEF Evict
  <1>5. CASE ~WriteTemp(p) /\ ~Rename(p) /\ ~SweepRemove(p) /\ ~Evict(p)
    <2>1. files' = files /\ version' = version
          BY <1>5 DEF Step, CancelMount, MountTocs, StampKey, Load, StampNext, ReadNext,
                      MountsDone, SweepList, SweepCheck, CapList, Reopen,
                      OwnerRead, OwnerAdd, OwnerFails
    <2> QED BY <2>1, FilesStay
  <1> QED BY <1>1, <1>2, <1>3, <1>4, <1>5

-----------------------------------------------------------------------------
\* The slots of a whole read, folded in order, are the index of the tables.
LEMMA FoldIsExpected ==
    ASSUME NEW D, D \subseteq Nat, IsFiniteSet(D), NEW r, r.order = Ordered(D),
           DOMAIN r.found = 1..Cardinality(D),
           \A i \in 1..Cardinality(D) : r.found[i] = Guid[r.order[i]]
    PROVE  Folded(r) = Expected(D)
  <1> DEFINE n == Cardinality(D)
             q == Ordered(D)
  <1>1. /\ n \in Nat /\ DOMAIN q = 1..n /\ \A i \in 1..n : q[i] \in D
        /\ \A i, j \in 1..n : i < j => q[i] < q[j]
        /\ \A x \in D : \E i \in 1..n : q[i] = x
    <2>1. Increasing(q, D)
          BY InOrder
    <2>2. n \in Nat /\ DOMAIN q = 1..n /\ \A x \in D : \E i \in DOMAIN q : q[i] = x
          BY InOrder
    <2>3. q \in [1..n -> D] /\ \A i, j \in 1..n : i < j => q[i] < q[j]
          BY <2>1 DEF Increasing
    <2> HIDE DEF n, q
    <2> QED BY <2>2, <2>3
  <1> HIDE DEF n, q
  <1>2. DOMAIN r.found = 1..n /\ r.order = q /\ \A i \in 1..n : r.found[i] = Guid[q[i]]
        BY DEF n, q
  <1>3. ToSet(r.found) = {Guid[x] : x \in D}
    <2>1. \A i \in DOMAIN r.found : r.found[i] \in {Guid[x] : x \in D}
          BY <1>1, <1>2
    <2>2. ASSUME NEW x \in D PROVE \E i \in DOMAIN r.found : r.found[i] = Guid[x]
      <3>1. PICK i \in 1..n : q[i] = x
            BY <1>1
      <3>2. i \in DOMAIN r.found /\ r.found[i] = Guid[x]
            BY <1>2, <3>1
      <3> QED BY <3>2
    <2> QED BY <2>1, <2>2 DEF ToSet
  <1>4. ASSUME NEW g \in ToSet(r.found)
        PROVE  r.order[Min({i \in DOMAIN r.found : r.found[i] = g})] = Min({x \in D : Guid[x] = g})
    <2> DEFINE A == {i \in DOMAIN r.found : r.found[i] = g}
               B == {x \in D : Guid[x] = g}
               a == Min(A)
               b == Min(B)
    <2>1. A \subseteq Nat /\ A # {} /\ B \subseteq Nat /\ B # {}
      <3>1. PICK i \in DOMAIN r.found : r.found[i] = g
            BY <1>4 DEF ToSet
      <3>2. PICK x \in D : Guid[x] = g
            BY <1>3, <1>4
      <3>3. i \in A /\ x \in B
            BY <3>1, <3>2
      <3>4. A \subseteq 1..n /\ B \subseteq D
            BY <1>2
      <3> HIDE DEF A, B
      <3> QED BY <1>1, <3>3, <3>4
    <2>2. a \in A /\ \A i \in A : a <= i
      <3> HIDE DEF A, B
      <3> QED BY <2>1, LeastMember
    <2>3. b \in B /\ \A x \in B : b <= x
      <3> HIDE DEF A, B
      <3> QED BY <2>1, LeastMember
    <2>4. a \in 1..n /\ q[a] \in B
      <3> HIDE DEF a, b
      <3> QED BY <1>1, <1>2, <2>2
    <2>5. PICK j \in A : q[j] = b
      <3> HIDE DEF a, b
      <3>1. b \in D /\ Guid[b] = g
            BY <2>3
      <3>2. PICK j \in 1..n : q[j] = b
            BY <1>1, <3>1
      <3>3. j \in A
            BY <1>2, <3>1, <3>2
      <3> QED BY <3>2, <3>3
    <2>6. a <= j /\ j \in 1..n /\ q[a] \in Nat /\ q[j] \in Nat /\ b <= q[a]
      <3> HIDE DEF a, b
      <3> QED BY <1>2, <2>1, <2>2, <2>3, <2>4, <2>5
    <2>7. q[a] <= q[j]
      <3> HIDE DEF a, b, A, B
      <3>1. a = j \/ a < j
            BY <1>1, <2>4, <2>6
      <3> QED BY <1>1, <2>4, <2>6, <3>1
    <2>8. q[a] = b
      <3> HIDE DEF a, b, A, B
      <3>1. q[j] = b
            BY <2>5
      <3> QED BY <2>6, <2>7, <3>1
    <2> QED BY <1>2, <2>8
  <1> QED BY <1>3, <1>4 DEF Folded, Expected

\* The steps of one process leave the others' reads alone.
LEMMA OthersAsk ==
    ASSUME Typed, AsksSound, NEW p \in Askers, version' = version, proc' = proc,
           \A q \in Askers \ {p} : index'[q] = index[q] /\ read'[q] = read[q],
           AskSound(version, proc[p], index'[p], read'[p])
    PROVE  AsksSound'
  <1>1. ASSUME NEW q \in Askers PROVE AskSound(version', proc'[q], index'[q], read'[q])
    <2>1. CASE q = p
          BY <2>1
    <2>2. CASE q # p
      <3>1. AskSound(version, proc[q], index[q], read[q])
            BY DEF AsksSound
      <3> QED BY <2>2, <3>1
    <2> QED BY <2>1, <2>2
  <1> QED BY <1>1 DEF AsksSound

LEMMA AskerIsSound ==
    ASSUME SourcesSound, NEW p \in Askers, proc[p].pc = "idle"
    PROVE  /\ SourceSound(version, proc[p]) /\ Taken(proc[p]) = proc[p].seq
           /\ proc[p].seq \in Seq(Stamps) /\ Past(version, proc[p].seq)
           /\ DOMAIN Direct(proc[p].seq) \subseteq Nat
           /\ IsFiniteSet(DOMAIN Direct(proc[p].seq))
           /\ proc[p].whole /\ Now(version, proc[p].seq) => Tables(proc[p]) = Direct(proc[p].seq)
  <1>1. SourceSound(version, proc[p])
        BY IndexAssumption DEF SourcesSound, IndexAssumption
  <1>2. Taken(proc[p]) = proc[p].seq
        BY DEF Taken
  <1>3. proc[p].seq \in Seq(Stamps) /\ Past(version, proc[p].seq)
        BY <1>1 DEF SourceSound, SourceTyped
  <1>4. /\ DOMAIN Direct(proc[p].seq) \subseteq Nat
        /\ IsFiniteSet(DOMAIN Direct(proc[p].seq))
        BY <1>3, DirectNames
  <1>5. proc[p].whole /\ Now(version, proc[p].seq) => Tables(proc[p]) = Direct(proc[p].seq)
        BY <1>1, <1>2 DEF SourceSound, TablesSound, Good
  <1> QED BY <1>1, <1>2, <1>3, <1>4, <1>5

LEMMA AskFound ==
    ASSUME Typed, SourcesSound, FilesSound, AsksSound, NEW p \in Askers, Ask(p),
           index' = [index EXCEPT ![p] = [built |-> TRUE, cancelled |-> FALSE,
                                          whole |-> files[Side(proc[p])].whole,
                                          map |-> files[Side(proc[p])].map]],
           Side(proc[p]) \in DOMAIN files, UNCHANGED read
    PROVE  AsksSound'
  <1> DEFINE s == proc[p]
             x == [built |-> TRUE, cancelled |-> FALSE, whole |-> files[Side(s)].whole,
                   map |-> files[Side(s)].map]
  <1>1. s.pc = "idle" /\ ~index[p].built /\ version' = version /\ proc' = proc
        BY DEF Ask
  <1>2. read[p] = NoRead
        BY <1>1 DEF AsksSound, AskSound
  <1>3. FileSound(version, Side(s), files[Side(s)])
        BY DEF FilesSound
  <1>4. files[Side(s)].whole /\ Now(version, s.seq)
          => files[Side(s)].map = Expected(DOMAIN Direct(s.seq))
        BY <1>3 DEF FileSound, Side
  <1>5. Taken(s) = s.seq
        BY <1>1 DEF Taken
  <1>6. /\ DOMAIN x = {"built", "cancelled", "whole", "map"} /\ x.map = files[Side(s)].map
        /\ x.whole = files[Side(s)].whole
        OBVIOUS
  <1>7. index'[p] = x /\ read'[p] = NoRead
        /\ \A q \in Askers \ {p} : index'[q] = index[q] /\ read'[q] = read[q]
        BY <1>2 DEF Typed
  <1> HIDE DEF x
  <1>8. AskSound(version, s, x, NoRead)
        BY <1>4, <1>5, <1>6 DEF AskSound, Good
  <1> QED BY <1>1, <1>7, <1>8, OthersAsk

LEMMA AskReads ==
    ASSUME Typed, SourcesSound, FilesSound, AsksSound, NEW p \in Askers, Ask(p),
           index' = [index EXCEPT ![p].built = TRUE],
           read' = [read EXCEPT ![p] = [order |-> Partitions(proc[p]), next |-> 1,
                        found |-> [i \in DOMAIN Partitions(proc[p]) |-> NoGuid],
                        at |-> [w \in Workers |-> NoSlot], out |-> {}]]
    PROVE  AsksSound'
  <1> DEFINE s == proc[p]
             x == index'[p]
             r == read'[p]
             D == DOMAIN Direct(s.seq)
  <1>1. s.pc = "idle" /\ version' = version /\ proc' = proc
        BY DEF Ask
  <1>2. DOMAIN index[p] = {"built", "cancelled", "whole", "map"}
        BY DEF AsksSound, AskSound
  <1>3. x.built /\ DOMAIN x = {"built", "cancelled", "whole", "map"}
        BY <1>2 DEF Typed
  <1>4. /\ DOMAIN r = {"order", "next", "found", "at", "out"}
        /\ r.order = Partitions(s) /\ r.next = 1 /\ r.at = [w \in Workers |-> NoSlot]
        /\ r.out = {} /\ DOMAIN r.found = DOMAIN Partitions(s)
        BY DEF Typed
  <1>5. r # NoRead
    <2>1. DOMAIN r.at = Workers /\ Workers # {}
          BY <1>4, IndexAssumption DEF IndexAssumption
    <2>2. DOMAIN NoRead.at = {}
          BY DEF NoRead
    <2> QED BY <2>1, <2>2
  <1>6. \A q \in Askers \ {p} : index'[q] = index[q] /\ read'[q] = read[q]
        BY DEF Typed
  <1> HIDE DEF x, r
  <1>7. ReadTyped(r)
        BY <1>4 DEF ReadTyped, NoSlot
  <1>8. ASSUME s.whole, Now(version, s.seq) PROVE ReadSound(s, x, r)
    <2>1. Tables(s) = Direct(s.seq) /\ D \subseteq Nat /\ IsFiniteSet(D)
          BY <1>1, <1>8, AskerIsSound
    <2>2. r.order = Ordered(D)
          BY <1>4, <2>1 DEF Partitions
    <2>3. DOMAIN Ordered(D) = 1..Cardinality(D) /\ Cardinality(D) \in Nat
          BY <2>1, InOrder
    <2>4. DOMAIN r.found = 1..Cardinality(D)
          BY <1>4, <2>2, <2>3
    <2> HIDE DEF s
    <2> QED BY <1>4, <2>2, <2>3, <2>4 DEF ReadSound
  <1>9. AskSound(version, s, x, r)
        BY <1>1, <1>3, <1>5, <1>7, <1>8 DEF AskSound
  <1> QED BY <1>1, <1>6, <1>9, OthersAsk DEF x, r

LEMMA ClaimSound ==
    ASSUME Typed, SourcesSound, AsksSound, NEW p \in Askers, NEW w \in Workers, Claim(p, w)
    PROVE  AsksSound'
  <1> DEFINE s == proc[p]
             x == index[p]
             r == read[p]
             y == index'[p]
             u == read'[p]
             i == r.next
             D == DOMAIN Direct(s.seq)
             n == Cardinality(D)
  <1>1. version' = version /\ proc' = proc /\ r # NoRead
        BY DEF Claim, vars, Reading
  <1>2. /\ s.pc = "idle" /\ x.built /\ DOMAIN x = {"built", "cancelled", "whole", "map"} /\ ReadTyped(r)
        /\ s.whole /\ Now(version, s.seq) => ReadSound(s, x, r)
        BY <1>1 DEF AsksSound, AskSound
  <1>3. w \notin r.out /\ r.at[w] = NoSlot
        BY DEF Claim, Free
  <1>4. /\ r.at \in [Workers -> Nat] /\ r.out \subseteq Workers /\ i \in Nat \ {0}
        /\ DOMAIN r = {"order", "next", "found", "at", "out"}
        BY <1>2 DEF ReadTyped
  <1>5. \/ /\ i <= Len(r.order) /\ y = x
           /\ u = [r EXCEPT !.next = i + 1, !.at[w] = i]
        \/ /\ i > Len(r.order) /\ y = x
           /\ u = [r EXCEPT !.next = i + 1, !.out = @ \cup {w}]
        \/ /\ y = [x EXCEPT !.cancelled = TRUE]
           /\ u = [r EXCEPT !.next = i + 1, !.out = @ \cup {w}]
        BY DEF Claim, Typed
  <1>6. \A q \in Askers \ {p} : index'[q] = index[q] /\ read'[q] = read[q]
        BY DEF Claim, Typed
  <1> HIDE DEF x, r, y, u, i
  <1>7. /\ DOMAIN u = DOMAIN r /\ u.order = r.order /\ u.found = r.found /\ u.next = i + 1
        /\ DOMAIN y = DOMAIN x /\ y.built
        /\ \/ /\ i <= Len(r.order) /\ y = x /\ u.out = r.out /\ u.at = [r.at EXCEPT ![w] = i]
           \/ /\ (y = x /\ i > Len(r.order)) \/ y.cancelled
              /\ u.out = r.out \cup {w} /\ u.at = r.at
    <2>1. CASE /\ i <= Len(r.order) /\ y = x
               /\ u = [r EXCEPT !.next = i + 1, !.at[w] = i]
          BY <1>2, <1>4, <2>1
    <2>2. CASE /\ i > Len(r.order) /\ y = x
               /\ u = [r EXCEPT !.next = i + 1, !.out = @ \cup {w}]
          BY <1>2, <1>4, <2>2
    <2>3. CASE /\ y = [x EXCEPT !.cancelled = TRUE]
               /\ u = [r EXCEPT !.next = i + 1, !.out = @ \cup {w}]
          BY <1>2, <1>4, <2>3
    <2> QED BY <1>5, <2>1, <2>2, <2>3
  <1>8. u # NoRead
    <2>1. i + 1 # 1 /\ NoRead.next = 1
          BY <1>4 DEF NoRead
    <2> QED BY <1>7, <2>1
  <1>9. ReadTyped(u)
        BY <1>4, <1>7 DEF ReadTyped
  <1>10. ASSUME s.whole, Now(version, s.seq) PROVE ReadSound(s, y, u)
    <2>1. D \subseteq Nat /\ IsFiniteSet(D)
          BY <1>2, AskerIsSound
    <2>2. n \in Nat /\ DOMAIN Ordered(D) = 1..n /\ Increasing(Ordered(D), D)
          BY <2>1, InOrder
    <2>3. Len(Ordered(D)) = n
      <3>1. Ordered(D) \in [1..n -> D]
            BY <2>2 DEF Increasing
      <3> HIDE DEF D, n
      <3> QED BY <2>2, <3>1, FunctionIsSeq
    <2> HIDE DEF s
    <2>4. /\ r.order = Ordered(D) /\ DOMAIN r.found = 1..n
          /\ x.whole /\ ~x.cancelled => \A k \in 1..n : k < i =>
               r.found[k] = Guid[r.order[k]] \/ \E q \in Workers : r.at[q] = k
          /\ \A q \in r.out : r.at[q] = NoSlot
          /\ r.out # {} /\ ~x.cancelled => n < i
          BY <1>2, <1>10 DEF ReadSound, i
    <2> HIDE DEF n, D
    <2>5. \A q \in u.out : u.at[q] = NoSlot
          BY <1>3, <1>4, <1>7, <2>4
    <2>6. u.out # {} /\ ~y.cancelled => n < i + 1
          BY <1>4, <1>7, <2>2, <2>3, <2>4
    <2>7. ASSUME y.whole, ~y.cancelled, NEW k \in 1..n, k < i + 1
          PROVE  u.found[k] = Guid[u.order[k]] \/ \E q \in Workers : u.at[q] = k
      <3>1. y = x /\ k \in Nat \ {0}
            BY <1>7, <2>2, <2>7
      <3>2. CASE k = i
        <4>1. i <= Len(r.order)
              BY <2>2, <2>3, <2>4, <3>2
        <4>2. u.at = [r.at EXCEPT ![w] = i]
              BY <1>4, <1>7, <2>2, <2>3, <2>4, <2>7, <4>1
        <4>3. u.at[w] = k
              BY <1>4, <3>2, <4>2
        <4> QED BY <4>3
      <3>3. CASE k # i
        <4>1. k < i
              BY <1>4, <2>7, <3>1, <3>3
        <4>2. CASE r.found[k] = Guid[r.order[k]]
              BY <1>7, <4>2
        <4>3. CASE \E q \in Workers : r.at[q] = k
          <5>1. PICK q \in Workers : r.at[q] = k
                BY <4>3
          <5>2. q # w
                BY <1>3, <3>1, <5>1 DEF NoSlot
          <5>3. u.at[q] = k
                BY <1>4, <1>7, <5>1, <5>2
          <5> QED BY <5>3
        <4> QED BY <2>4, <2>7, <3>1, <4>1, <4>2, <4>3
      <3> QED BY <3>2, <3>3
    <2> QED BY <1>7, <2>4, <2>5, <2>6, <2>7 DEF ReadSound, n, D
  <1>11. AskSound(version, s, y, u)
         BY <1>2, <1>7, <1>8, <1>9, <1>10 DEF AskSound
  <1> QED BY <1>1, <1>6, <1>11, OthersAsk DEF y, u

\* The bytes read are those the stamps are of, as long as the stamps are current.
LEMMA ReadHeaderSound ==
    ASSUME Typed, SourcesSound, AsksSound, NEW p \in Askers, NEW w \in Workers,
           ReadHeader(p, w)
    PROVE  AsksSound'
  <1> DEFINE s == proc[p]
             x == index[p]
             r == read[p]
             y == index'[p]
             u == read'[p]
             i == r.at[w]
             D == DOMAIN Direct(s.seq)
             n == Cardinality(D)
  <1>1. version' = version /\ proc' = proc /\ r # NoRead /\ i \in DOMAIN r.order
        BY DEF ReadHeader, Reading, Slot
  <1>2. /\ s.pc = "idle" /\ x.built /\ DOMAIN x = {"built", "cancelled", "whole", "map"} /\ ReadTyped(r)
        /\ s.whole /\ Now(version, s.seq) => ReadSound(s, x, r)
        BY <1>1 DEF AsksSound, AskSound
  <1>3. /\ r.at \in [Workers -> Nat] /\ r.out \subseteq Workers /\ r.next \in Nat \ {0}
        /\ DOMAIN r = {"order", "next", "found", "at", "out"}
        BY <1>2 DEF ReadTyped
  <1>4. PICK g :
          /\ read' = [read EXCEPT ![p].found[i] = g, ![p].at[w] = NoSlot]
          /\ \/ g = GuidAt(p, r.order[i]) /\ index' = index
             \/ index' = [index EXCEPT ![p].whole = FALSE]
        BY DEF ReadHeader, Slot
  <1>4a. /\ u = [r EXCEPT !.found[i] = g, !.at[w] = NoSlot]
         /\ \A q \in Askers \ {p} : index'[q] = index[q] /\ read'[q] = read[q]
        BY <1>1, <1>4 DEF Typed
  <1>4b. /\ DOMAIN y = DOMAIN x /\ y.built = x.built /\ y.cancelled = x.cancelled
         /\ y.whole => x.whole /\ g = GuidAt(p, r.order[i])
    <2> HIDE DEF i
    <2>1. CASE g = GuidAt(p, r.order[i]) /\ index' = index
          BY <2>1
    <2>2. CASE index' = [index EXCEPT ![p].whole = FALSE]
      <3>1. y = [x EXCEPT !.whole = FALSE]
            BY <2>2 DEF Typed
      <3> HIDE DEF x, y, r
      <3> QED BY <1>2, <3>1
    <2> QED BY <1>4, <2>1, <2>2
  <1> HIDE DEF i, u, y
  <1>5. /\ DOMAIN u = DOMAIN r /\ u.order = r.order /\ u.next = r.next /\ u.out = r.out
        /\ u.found = [r.found EXCEPT ![i] = g] /\ u.at = [r.at EXCEPT ![w] = NoSlot]
        BY <1>3, <1>4a
  <1>6. u # NoRead
    <2>1. DOMAIN u.at = Workers /\ Workers # {}
          BY <1>3, <1>5, IndexAssumption DEF IndexAssumption
    <2>2. DOMAIN NoRead.at = {}
          BY DEF NoRead
    <2> QED BY <2>1, <2>2
  <1>7. ReadTyped(u)
        BY <1>3, <1>5 DEF ReadTyped, NoSlot
  <1>8. ASSUME s.whole, Now(version, s.seq) PROVE ReadSound(s, y, u)
    <2>1. D \subseteq Nat /\ IsFiniteSet(D) /\ s.seq \in Seq(Stamps) /\ Tables(s) = Direct(s.seq)
          BY <1>2, <1>8, AskerIsSound
    <2>2. n \in Nat /\ DOMAIN Ordered(D) = 1..n /\ Increasing(Ordered(D), D)
          BY <2>1, InOrder
    <2>3. /\ r.order = Ordered(D) /\ DOMAIN r.found = 1..n
          /\ x.whole /\ ~x.cancelled => \A k \in 1..n : k < r.next =>
               r.found[k] = Guid[r.order[k]] \/ \E q \in Workers : r.at[q] = k
          /\ \A q \in r.out : r.at[q] = NoSlot
          /\ r.out # {} /\ ~x.cancelled => n < r.next
          BY <1>2, <1>8 DEF ReadSound
    <2>4. i \in 1..n /\ r.order[i] \in D
          BY <1>1, <2>2, <2>3 DEF Increasing, i
    <2>5. ASSUME y.whole PROVE g = Guid[r.order[i]]
      <3> DEFINE m == r.order[i]
      <3>1. PICK j \in DOMAIN s.seq : Direct(s.seq)[m] = s.seq[j]
        <4> HIDE DEF m, s
        <4> QED BY <2>1, <2>4, DirectNames DEF m
      <3>2. Tables(s)[m] = s.seq[j] /\ s.seq[j][2] = version[s.seq[j][1]]
            BY <1>8, <2>1, <3>1 DEF Now
      <3> HIDE DEF m
      <3>3. g = Guid[m]
            BY <1>4b, <2>5, <3>2 DEF GuidAt, m
      <3> QED BY <3>3 DEF m
    <2> HIDE DEF s, r, x, n, D
    <2>6. DOMAIN u.found = 1..n /\ (y.whole => u.found[i] = Guid[u.order[i]])
          BY <1>5, <2>3, <2>4, <2>5
    <2>7. \A q \in u.out : u.at[q] = NoSlot
          BY <1>3, <1>5, <2>3
    <2>8. ASSUME y.whole, ~y.cancelled, NEW k \in 1..n, k < u.next
          PROVE  u.found[k] = Guid[u.order[k]] \/ \E q \in Workers : u.at[q] = k
      <3>1. CASE k = i
            BY <2>6, <2>8, <3>1
      <3>2. CASE k # i /\ r.found[k] = Guid[r.order[k]]
            BY <1>5, <2>3, <3>2
      <3>3. CASE k # i /\ \E q \in Workers : r.at[q] = k
        <4>1. PICK q \in Workers : r.at[q] = k
              BY <3>3
        <4>2. q # w
              BY <3>3, <4>1 DEF i
        <4>3. u.at[q] = k
              BY <1>3, <1>5, <4>1, <4>2
        <4> QED BY <4>3
      <3> QED BY <1>4b, <1>5, <2>3, <2>8, <3>1, <3>2, <3>3
    <2> QED BY <1>4b, <1>5, <2>3, <2>6, <2>7, <2>8 DEF ReadSound, n, D
  <1>9. AskSound(version, s, y, u)
        BY <1>1, <1>2, <1>4b, <1>6, <1>7, <1>8 DEF AskSound
  <1> QED BY <1>1, <1>4a, <1>9, OthersAsk DEF u, y

\* A whole read, and nothing else, becomes the index in memory or in a file.
LEMMA WholeRead ==
    ASSUME SourcesSound, AsksSound, NEW p \in Askers, Reading(p), read[p].out = Workers,
           index[p].whole, ~index[p].cancelled, proc[p].whole, Now(version, proc[p].seq)
    PROVE  Folded(read[p]) = Expected(DOMAIN Direct(proc[p].seq))
  <1> DEFINE s == proc[p]
             r == read[p]
             D == DOMAIN Direct(s.seq)
             n == Cardinality(D)
  <1>1. s.pc = "idle" /\ ReadTyped(r) /\ ReadSound(s, index[p], r)
        BY DEF AsksSound, AskSound, Reading
  <1>2. D \subseteq Nat /\ IsFiniteSet(D)
        BY <1>1, AskerIsSound
  <1>3. n \in Nat
        BY <1>2, FS_CardinalityType
  <1>4. /\ r.order = Ordered(D) /\ DOMAIN r.found = 1..n
        /\ \A k \in 1..n : k < r.next =>
             r.found[k] = Guid[r.order[k]] \/ \E q \in Workers : r.at[q] = k
        /\ \A q \in r.out : r.at[q] = NoSlot
        /\ n < r.next /\ r.next \in Nat
    <2>1. r.out # {}
          BY IndexAssumption DEF IndexAssumption
    <2> QED BY <1>1, <2>1 DEF ReadSound, ReadTyped
  <1>5. \A k \in 1..n : r.found[k] = Guid[r.order[k]]
    <2> SUFFICES ASSUME NEW k \in 1..n PROVE r.found[k] = Guid[r.order[k]]
        OBVIOUS
    <2> HIDE DEF r, D, n
    <2>1. k < r.next /\ k # 0
          BY <1>3, <1>4
    <2>2. \A q \in Workers : r.at[q] # k
          BY <1>4, <2>1 DEF NoSlot, r
    <2> QED BY <1>4, <2>1, <2>2
  <1> HIDE DEF r, s
  <1> QED BY <1>2, <1>4, <1>5, FoldIsExpected DEF r, s

LEMMA PublishSound ==
    ASSUME Typed, SourcesSound, FilesSound, AsksSound, NEW p \in Askers, Publish(p)
    PROVE  AsksSound' /\ FilesSound'
  <1> DEFINE s == proc[p]
             r == read[p]
             x == index'[p]
             f == Side(s)
             c == [map |-> Folded(r), count |-> Len(r.order),
                   whole |-> index[p].whole /\ s.whole]
  <1>1. version' = version /\ proc' = proc /\ Reading(p) /\ r.out = Workers
        BY DEF Publish
  <1>2. s.pc = "idle" /\ DOMAIN index[p] = {"built", "cancelled", "whole", "map"}
        BY <1>1 DEF AsksSound, AskSound, Reading
  <1>3. /\ DOMAIN x = {"built", "cancelled", "whole", "map"} /\ x.map = Folded(r)
        /\ x.cancelled = index[p].cancelled /\ x.whole = index[p].whole
        /\ read'[p] = NoRead
        /\ \A q \in Askers \ {p} : index'[q] = index[q] /\ read'[q] = read[q]
        BY <1>2 DEF Publish, Typed
  <1>4. s.seq \in Seq(Stamps) /\ Past(version, s.seq) /\ Taken(s) = s.seq
        BY <1>2, AskerIsSound
  <1>5. index[p].whole /\ ~index[p].cancelled /\ s.whole /\ Now(version, s.seq)
          => Folded(r) = Expected(DOMAIN Direct(s.seq))
        BY <1>1, WholeRead
  <1>6. AskSound(version, s, x, NoRead)
    <2> HIDE DEF s, r, x
    <2> QED BY <1>3, <1>4, <1>5 DEF AskSound, Good
  <1>7. AsksSound'
        BY <1>1, <1>3, <1>6, OthersAsk
  <1>8. CASE UNCHANGED files
        BY <1>1, <1>7, <1>8, FilesStay
  <1>9. CASE /\ Saves(p)
             /\ files' = [g \in DOMAIN files \cup {f} |-> IF g # f THEN files[g] ELSE c]
    <2>1. f[2] = s.seq /\ f[3] = "pidx" /\ c.map = Folded(r)
          BY DEF Side
    <2>1a. c.whole => index[p].whole /\ s.whole
          OBVIOUS
    <2>2. ~index[p].cancelled
          BY <1>9 DEF Saves
    <2> HIDE DEF f, c, s
    <2>3. FileSound(version, f, c)
          BY <1>4, <1>5, <2>1, <2>1a, <2>2 DEF FileSound
    <2>4. \A g \in DOMAIN files' : \/ g \in DOMAIN files /\ files'[g] = files[g]
                                   \/ g = f /\ files'[g] = c
          BY <1>9
    <2> QED BY <1>1, <1>7, <2>3, <2>4, FilesStay
  <1> QED BY <1>8, <1>9 DEF Publish

-----------------------------------------------------------------------------
\* A mount drops the index unless its tables are the ones it was made of.
LEMMA MountsKeep ==
    ASSUME IInv, NEW p \in Procs, Mounts(p)
    PROVE  IInv'
  <1> USE DEF IInv
  <1>1. MountStep(p) /\ FilesSound'
        BY MountsSound, MountsFiles DEF Mounts
  <1>2. /\ version' = version /\ proc' = [proc EXCEPT ![p] = proc'[p]]
        /\ SourceSound(version, proc'[p]) /\ DOMAIN proc' = Procs
        /\ \A q \in Procs \ {p} : proc'[q] = proc[q]
    <2>1. version' = version /\ proc' = [proc EXCEPT ![p] = proc'[p]]
          /\ SourceSound(version, proc'[p])
          BY <1>1 DEF MountStep
    <2> QED BY <2>1 DEF Typed
  <1>3. /\ index' = [q \in Askers |-> IF q = p /\ Grew(p) THEN NoIndex ELSE index[q]]
        /\ read' = read /\ \A q \in Askers : read[q] = NoRead
        BY DEF Mounts, Reading
  <1>4. Typed'
        BY <1>2, <1>3 DEF Typed
  <1>5. ASSUME NEW q \in Procs PROVE SourceSound(version', proc'[q])
    <2>1. CASE q = p
          BY <1>2, <2>1
    <2>2. CASE q # p
          BY <1>2, <2>2 DEF SourcesSound
    <2> QED BY <2>1, <2>2
  <1>6. ASSUME NEW q \in Askers PROVE AskSound(version', proc'[q], index'[q], read'[q])
    <2>1. /\ q \in Procs /\ read'[q] = NoRead /\ read[q] = NoRead
          /\ AskSound(version, proc[q], index[q], read[q])
          BY <1>3, IndexAssumption DEF AsksSound, IndexAssumption
    <2>2. CASE q # p
          BY <1>2, <1>3, <2>1, <2>2
    <2>3. CASE q = p /\ Grew(p)
      <3>1. index'[q] = NoIndex
            BY <1>3, <2>3
      <3>2. DOMAIN NoIndex = {"built", "cancelled", "whole", "map"} /\ ~NoIndex.built
            BY DEF NoIndex
      <3> QED BY <2>1, <3>1, <3>2 DEF AskSound
    <2>4. CASE q = p /\ ~Grew(p)
      <3> DEFINE s == proc[p]
                 t == proc'[p]
                 x == index[p]
      <3>1. index'[q] = x /\ t.layers = s.layers /\ DOMAIN Tables(t) = DOMAIN Tables(s)
            BY <1>3, <2>4 DEF Grew
      <3>2. Good(version, t) => Good(version, s)
            BY <1>1, <3>1 DEF MountStep
      <3>3. Good(version, t) => Tables(t) = Direct(Taken(t))
            BY <1>2 DEF SourceSound, TablesSound
      <3>4. Good(version, s) => Tables(s) = Direct(Taken(s))
            BY DEF SourcesSound, SourceSound, TablesSound
      <3>5. AskSound(version, s, x, NoRead)
            BY <2>1, <2>4
      <3> HIDE DEF s, t, x
      <3>6. AskSound(version, t, x, NoRead)
            BY <3>1, <3>2, <3>3, <3>4, <3>5 DEF AskSound
      <3> QED BY <1>2, <2>1, <2>4, <3>1, <3>6 DEF t
    <2> QED BY <2>2, <2>3, <2>4
  <1> QED BY <1>1, <1>4, <1>5, <1>6 DEF SourcesSound, AsksSound

LEMMA RestartsKeep ==
    ASSUME IInv, NEW p \in Procs, Restarts(p)
    PROVE  IInv'
  <1> USE DEF IInv
  <1>1. /\ version' = version /\ files' = files /\ proc' = [proc EXCEPT ![p] = Fresh]
        /\ index' = [q \in Askers |-> IF q = p THEN NoIndex ELSE index[q]]
        /\ read' = [q \in Askers |-> IF q = p THEN NoRead ELSE read[q]]
        BY DEF Restarts, Restart
  <1>2. Typed'
        BY <1>1 DEF Typed
  <1>3. FilesSound'
        BY <1>1, FilesStay
  <1>4. ASSUME NEW q \in Procs PROVE SourceSound(version', proc'[q])
    <2>1. CASE q = p
          BY <1>1, <2>1, FreshSound DEF Typed
    <2>2. CASE q # p
          BY <1>1, <2>2 DEF SourcesSound, Typed
    <2> QED BY <2>1, <2>2
  <1>5. ASSUME NEW q \in Askers PROVE AskSound(version', proc'[q], index'[q], read'[q])
    <2>1. q \in Procs /\ AskSound(version, proc[q], index[q], read[q])
          BY IndexAssumption DEF AsksSound, IndexAssumption
    <2>2. CASE q # p
          BY <1>1, <2>1, <2>2 DEF Typed
    <2>3. CASE q = p
      <3>1. index'[q] = NoIndex /\ read'[q] = NoRead
            BY <1>1, <2>3
      <3>2. DOMAIN NoIndex = {"built", "cancelled", "whole", "map"} /\ ~NoIndex.built
            BY DEF NoIndex
      <3> QED BY <3>1, <3>2 DEF AskSound
    <2> QED BY <2>2, <2>3
  <1> QED BY <1>2, <1>3, <1>4, <1>5 DEF SourcesSound, AsksSound

\* A patch makes stamps outdated, never current.
LEMMA PatchesKeep ==
    ASSUME IInv, NEW t \in Tocs, Patches(t)
    PROVE  IInv'
  <1> USE DEF IInv
  <1>1. /\ version[t] < Len(Listed[t]) /\ version' = [version EXCEPT ![t] = @ + 1]
        /\ files' = files /\ proc' = proc /\ index' = index /\ read' = read
        BY DEF Patches, Patch, indexVars
  <1>2. Listed[t] \in Seq(SUBSET (Nat \ {0}))
        BY SnapshotAssumption DEF SnapshotAssumption
  <1>3. Len(Listed[t]) \in Nat
        BY <1>2, SeqFacts
  <1>4. /\ version \in [Tocs -> Nat] /\ version' \in [Tocs -> Nat]
        /\ \A u \in Tocs : version[u] <= version'[u] /\ version'[u] <= Len(Listed[u])
    <2>1. version \in [Tocs -> Nat] /\ \A u \in Tocs : version[u] <= Len(Listed[u])
          BY DEF Typed
    <2>2. version[t] + 1 <= Len(Listed[t])
          BY <1>1, <1>3, <2>1
    <2> QED BY <1>1, <2>1, <2>2
  <1>5. Typed'
        BY <1>1, <1>4 DEF Typed
  <1>6. ASSUME NEW q \in Procs
        PROVE  /\ SourceSound(version', proc[q])
               /\ Now(version', Taken(proc[q])) => Now(version, Taken(proc[q]))
    <2>1. SourceSound(version, proc[q])
          BY DEF SourcesSound
    <2> QED BY <1>4, <2>1, SourceStays
  <1>7. ASSUME NEW f \in DOMAIN files PROVE FileSound(version', f, files[f])
    <2>1. FileSound(version, f, files[f])
          BY DEF FilesSound
    <2>2. f[2] \in Seq(Stamps) /\ Past(version, f[2])
          BY <2>1 DEF FileSound
    <2>3. Past(version', f[2]) /\ (Now(version', f[2]) => Now(version, f[2]))
          BY <1>4, <2>2, NowBack
    <2> QED BY <2>1, <2>3 DEF FileSound
  <1>8. ASSUME NEW q \in Askers PROVE AskSound(version', proc[q], index[q], read[q])
    <2>1. q \in Procs /\ AskSound(version, proc[q], index[q], read[q])
          BY IndexAssumption DEF AsksSound, IndexAssumption
    <2>2. Now(version', Taken(proc[q])) => Now(version, Taken(proc[q]))
          BY <1>6, <2>1
    <2>3. proc[q].pc = "idle" => Taken(proc[q]) = proc[q].seq
          BY DEF Taken
    <2> QED BY <2>1, <2>2, <2>3 DEF AskSound, Good
  <1> QED BY <1>1, <1>5, <1>6, <1>7, <1>8 DEF SourcesSound, FilesSound, AsksSound

LEMMA IndexStepKeeps ==
    ASSUME IInv, NEW p \in Askers, IndexStep(p)
    PROVE  IInv'
  <1> USE DEF IInv
  <1>1. version' = version /\ proc' = proc
        BY DEF IndexStep, Ask, Publish, Claim, ReadHeader, vars
  <1>2. SourcesSound'
        BY <1>1 DEF SourcesSound
  <1>3. Typed'
    <2>1. DOMAIN index' = Askers /\ DOMAIN read' = Askers
          BY DEF IndexStep, Ask, Publish, Claim, ReadHeader, Typed
    <2> QED BY <1>1, <2>1 DEF Typed
  <1>4. CASE Ask(p)
    <2>1. files' = files
          BY <1>4 DEF Ask
    <2>2. FilesSound'
          BY <1>1, <2>1, FilesStay
    <2>3. CASE /\ Side(proc[p]) \in DOMAIN files /\ UNCHANGED read
               /\ index' = [index EXCEPT ![p] = [built |-> TRUE, cancelled |-> FALSE,
                               whole |-> files[Side(proc[p])].whole,
                               map |-> files[Side(proc[p])].map]]
          BY <1>2, <1>3, <1>4, <2>2, <2>3, AskFound
    <2>4. CASE /\ index' = [index EXCEPT ![p].built = TRUE]
               /\ read' = [read EXCEPT ![p] = [order |-> Partitions(proc[p]), next |-> 1,
                               found |-> [i \in DOMAIN Partitions(proc[p]) |-> NoGuid],
                               at |-> [w \in Workers |-> NoSlot], out |-> {}]]
          BY <1>2, <1>3, <1>4, <2>2, <2>4, AskReads
    <2> QED BY <1>4, <2>3, <2>4 DEF Ask, Found
  <1>5. CASE Publish(p)
        BY <1>2, <1>3, <1>5, PublishSound
  <1>6. CASE \E w \in Workers : Claim(p, w) \/ ReadHeader(p, w)
    <2>1. files' = files
          BY <1>6 DEF Claim, ReadHeader, vars
    <2>2. FilesSound'
          BY <1>1, <2>1, FilesStay
    <2>3. AsksSound'
          BY <1>6, ClaimSound, ReadHeaderSound
    <2> QED BY <1>2, <1>3, <2>2, <2>3
  <1> QED BY <1>4, <1>5, <1>6 DEF IndexStep

-----------------------------------------------------------------------------
LEMMA IndexInitSound == IndexInit => IInv
  <1> SUFFICES ASSUME IndexInit PROVE IInv
      OBVIOUS
  <1>1. /\ version \in [Tocs -> 0..1] /\ DOMAIN files = {} /\ proc = [p \in Procs |-> Fresh]
        /\ index = [p \in Askers |-> NoIndex] /\ read = [p \in Askers |-> NoRead]
        BY DEF IndexInit, Init
  <1>2. ASSUME NEW t \in Tocs PROVE Len(Listed[t]) \in Nat \ {0}
    <2>1. Listed[t] \in Seq(SUBSET (Nat \ {0})) /\ Listed[t] # <<>>
          BY SnapshotAssumption DEF SnapshotAssumption
    <2> QED BY <2>1, EmptySeq
  <1>3. Typed
    <2>1. ASSUME NEW t \in Tocs PROVE version[t] \in Nat /\ version[t] <= Len(Listed[t])
          BY <1>1, <1>2
    <2> QED BY <1>1, <2>1 DEF Typed
  <1>4. SourcesSound
        BY <1>1, FreshSound DEF SourcesSound
  <1>5. FilesSound
        BY <1>1 DEF FilesSound
  <1>6. AsksSound
    <2>1. DOMAIN NoIndex = {"built", "cancelled", "whole", "map"} /\ ~NoIndex.built
          BY DEF NoIndex
    <2>2. \A v, s : AskSound(v, s, NoIndex, NoRead)
          BY <2>1 DEF AskSound
    <2> QED BY <1>1, <2>2 DEF AsksSound
  <1> QED BY <1>3, <1>4, <1>5, <1>6 DEF IInv

LEMMA IndexNextKeeps ==
    ASSUME IInv, [IndexNext]_<<vars, indexVars>>
    PROVE  IInv'
  <1>1. CASE IndexNext
    <2>1. CASE \E p \in Procs : Mounts(p) \/ Restarts(p)
          BY <2>1, MountsKeep, RestartsKeep
    <2>2. CASE \E p \in Askers : IndexStep(p)
          BY <2>2, IndexStepKeeps
    <2>3. CASE \E t \in Tocs : Patches(t)
          BY <2>3, PatchesKeep
    <2> QED BY <1>1, <2>1, <2>2, <2>3 DEF IndexNext
  <1>2. CASE UNCHANGED <<vars, indexVars>>
    <2>1. version' = version /\ files' = files /\ proc' = proc /\ index' = index /\ read' = read
          BY <1>2 DEF vars, indexVars
    <2> QED BY <2>1 DEF IInv, Typed, SourcesSound, FilesSound, AsksSound
  <1> QED BY <1>1, <1>2

\* In every state what the processes, the snapshot files and the partition indexes
\* hold is what their stamps say, wherever every read behind it was answered.
THEOREM SourceInvariant == IndexSpec => []IInv
  BY IndexInitSound, IndexNextKeeps, PTL DEF IndexSpec

LEMMA CurrentIsNow == \A seq : Current(seq) <=> Now(version, seq)
  BY DEF Current, Now

\* Whatever a process loaded, saved or was cancelled in, and however often the game
\* was patched meanwhile: a Source whose stamps are current, and whose reads were
\* answered, has the tables, and the set of mounted TOCs, of a mount with no
\* snapshot (Source::mount_tocs).
THEOREM TablesDirect == IndexSpec => []TablesAreDirect
  <1>1. IInv => TablesAreDirect
    <2> SUFFICES ASSUME IInv, NEW p \in Procs, proc[p].pc = "idle", proc[p].whole,
                        Current(proc[p].seq)
                 PROVE  Tables(proc[p]) = Direct(proc[p].seq)
                        /\ proc[p].mounted = InMount(proc[p].seq)
        BY DEF TablesAreDirect, InMount
    <2>1. SourceSound(version, proc[p])
          BY DEF IInv, SourcesSound
    <2>2. Taken(proc[p]) = proc[p].seq
          BY DEF Taken
    <2>3. Now(version, Taken(proc[p]))
          BY <2>2, CurrentIsNow
    <2> QED BY <2>1, <2>2, <2>3 DEF SourceSound, TablesSound, Good
  <1> QED BY <1>1, SourceInvariant, PTL

\* A stored first layer found under current stamps holds the tables those files
\* give, whoever wrote, renamed, swept or evicted it (source.cpp, save_snapshot),
\* unless a read of the mount it was saved from was refused.
THEOREM SnapshotsWhole == IndexSpec => []WholeSnapshots
  <1>1. IInv => WholeSnapshots
    <2> SUFFICES ASSUME IInv, NEW f \in DOMAIN files, f[3] = Stored, files[f].parent = <<>>,
                        files[f].whole, Current(f[2])
                 PROVE  files[f].tab = Direct(f[2])
        BY DEF WholeSnapshots
    <2>1. FileSound(version, f, files[f]) /\ f[3] # "pidx"
          BY DEF IInv, FilesSound, Stored
    <2>2. IsTable(files[f].tab)
          BY <2>1 DEF FileSound
    <2>3. Now(version, f[2])
          BY CurrentIsNow
    <2>4. Over(Direct(<<>>), files[f].tab) = Direct(f[2])
          BY <2>1, <2>3 DEF FileSound
    <2>5. DOMAIN Direct(<<>>) = {}
          BY DirectEmpty, EmptyIsTable
    <2> QED BY <2>2, <2>4, <2>5, NoneOver
  <1> QED BY <1>1, SourceInvariant, PTL

\* The index a process answers with is that of its tables, however the threads of the
\* read interleaved and whatever was stored, swept or mounted before (source.cpp,
\* partition_index), unless the read was cancelled, a file was refused to it, or the
\* game patched under it.
THEOREM IndexExpected == IndexSpec => []IndexIsExpected
  <1>1. IInv => IndexIsExpected
    <2> SUFFICES ASSUME IInv, NEW p \in Askers, proc[p].pc = "idle", index[p].built,
                        index[p].whole, ~Reading(p), ~index[p].cancelled, proc[p].whole,
                        Current(proc[p].seq)
                 PROVE  index[p].map = Expected(DOMAIN Tables(proc[p]))
        BY DEF IndexIsExpected
    <2>1. Now(version, proc[p].seq)
          BY CurrentIsNow
    <2>2. Taken(proc[p]) = proc[p].seq /\ Tables(proc[p]) = Direct(proc[p].seq)
          BY <2>1, AskerIsSound DEF IInv
    <2>3. read[p] = NoRead
          BY DEF Reading
    <2>4. AskSound(version, proc[p], index[p], read[p])
          BY DEF IInv, AsksSound
    <2> QED BY <2>1, <2>2, <2>3, <2>4 DEF AskSound, Good
  <1> QED BY <1>1, SourceInvariant, PTL

\* An index file found under current stamps, of tables and headers all of which could
\* be read, is the whole index of the tables those files give: what a cancelled read
\* found is never in one.
THEOREM StoredWhole == IndexSpec => []StoredIsWhole
  <1>1. IInv => StoredIsWhole
    <2> SUFFICES ASSUME IInv, NEW f \in DOMAIN files, f[3] = "pidx", files[f].whole,
                        Current(f[2])
                 PROVE  files[f].map = Expected(DOMAIN Direct(f[2]))
        BY DEF StoredIsWhole
    <2>1. FileSound(version, f, files[f])
          BY DEF IInv, FilesSound
    <2>2. Now(version, f[2])
          BY CurrentIsNow
    <2> QED BY <2>1, <2>2 DEF FileSound
  <1> QED BY <1>1, SourceInvariant, PTL
=============================================================================
