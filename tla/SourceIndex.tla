------------------------------ MODULE SourceIndex ------------------------------
(***************************************************************************)
(* The partition index of a Source over its mounted tables (source.cpp,    *)
(* partition_index): one header of every partition is read by several      *)
(* threads, the results are folded in archive order, and the index is kept *)
(* in memory until the tables grow, and in the snapshot directory, under   *)
(* the key of the tables, where sweep and cap of module MountSnapshot find *)
(* it too.  A partition is a name of the tables; names are numbered in the *)
(* order their bytes lie in the archives.                                  *)
(***************************************************************************)
EXTENDS MountSnapshot

CONSTANTS Guid,         \* the guid of each partition, NoGuid when it has none
          NoGuid,
          Askers,       \* the processes that ask for the index
          Workers,
          Every,        \* progress is reported every so many claims, 512
          MaxCancels    \* bound

ASSUME IndexAssumption ==
    /\ Every \in Nat \ {0} /\ NoGuid \notin Nat
    /\ Askers \subseteq Procs /\ "pidx" \notin Procs /\ Workers # {}

VARIABLES index,    \* per asker: [built, cancelled, whole, map]; whole is history:
              \* every header asked for was read
          read,     \* per asker: the read in progress, or NoRead
          cancels

indexVars == <<index, read, cancels>>

NoIndex == [built |-> FALSE, cancelled |-> FALSE, whole |-> TRUE, map |-> [g \in {} |-> 0]]
NoRead  == [order |-> <<>>, next |-> 1, found |-> <<>>, at |-> <<>>, out |-> {}]
NoSlot  == 0

IndexInit ==
    /\ Init
    /\ index = [p \in Askers |-> NoIndex] /\ read = [p \in Askers |-> NoRead]
    /\ cancels = 0

Reading(p) == p \in Askers /\ read[p] # NoRead

-----------------------------------------------------------------------------
\* A mount of a process that is in no read; tables_grew when a table grew or a
\* snapshot replaced the tables.
Grew_Loaded(p) == proc'[p].layers # proc[p].layers
Grew(p) ==
    \/ proc'[p].layers # proc[p].layers
    \/ DOMAIN Tables(proc'[p]) # DOMAIN Tables(proc[p])

\* The steps of another process neither disturb a read nor see it before it ends;
\* they come before or after it.
Mounts(p) ==
    /\ \A q \in Askers : ~Reading(q)
    /\ \/ Step(p) \/ CancelMount(p) \/ \E list \in Lists : MountTocs(p, list)
       \/ \E t \in Tocs : \E n \in Names(Stamp(t)) : OwnerRead(p, t, n)
    /\ index' = [q \in Askers |-> IF q = p /\ Grew(p) THEN NoIndex ELSE index[q]]
    /\ UNCHANGED <<read, cancels>>

Restarts(p) ==
    /\ Restart(p)
    /\ index' = [q \in Askers |-> IF q = p THEN NoIndex ELSE index[q]]
    /\ read' = [q \in Askers |-> IF q = p THEN NoRead ELSE read[q]]
    /\ UNCHANGED cancels

Patches(t) == Patch(t) /\ UNCHANGED indexVars

-----------------------------------------------------------------------------
\* The index file of these tables, when each of them is a snapshot layer.
Side(s) == <<s.base, s.seq, "pidx">>
HasSide(s) == s.layers # <<>> /\ DOMAIN s.overlay = {}

Partitions(s) == Ordered(DOMAIN Tables(s))

\* partition_index: nothing to do, the file, or a read of every partition, when the
\* file is not there, is of other tables, or its open is refused.
Found(s) == /\ HasSide(s) /\ Side(s) \in DOMAIN files
            /\ files[Side(s)].count = Cardinality(DOMAIN Tables(s))

Ask(p) ==
    LET s == proc[p] f == Side(s) order == Partitions(s)
    IN  /\ s.pc = "idle" /\ ~index[p].built
        /\ \/ /\ Found(s) /\ UNCHANGED faults
              /\ index' = [index EXCEPT ![p] = [built |-> TRUE, cancelled |-> FALSE,
                              whole |-> files[f].whole, map |-> files[f].map]]
              /\ used' = Touched(f) /\ UNCHANGED read
           \/ /\ IF Found(s) THEN Refused ELSE UNCHANGED faults
              /\ index' = [index EXCEPT ![p].built = TRUE]
              /\ read' = [read EXCEPT ![p] = [order |-> order, next |-> 1,
                              found |-> [i \in DOMAIN order |-> NoGuid],
                              at |-> [w \in Workers |-> NoSlot], out |-> {}]]
              /\ UNCHANGED used
        /\ UNCHANGED <<version, files, proc, starts, cancels>>

\* read_partition_guids: a worker claims the next slot; at some slots it reports
\* progress and may be told to stop.
Free(p, w) == w \notin read[p].out /\ read[p].at[w] = NoSlot

Claim(p, w) ==
    LET i == read[p].next IN
    /\ Reading(p) /\ Free(p, w)
    /\ \/ /\ i <= Len(read[p].order)
          /\ read' = [read EXCEPT ![p].next = i + 1, ![p].at[w] = i]
          /\ UNCHANGED <<index, cancels>>
       \/ /\ i > Len(read[p].order)
          /\ read' = [read EXCEPT ![p].next = i + 1, ![p].out = @ \cup {w}]
          /\ UNCHANGED <<index, cancels>>
       \/ /\ i <= Len(read[p].order) /\ (i - 1) % Every = 0 /\ cancels < MaxCancels
          /\ read' = [read EXCEPT ![p].next = i + 1, ![p].out = @ \cup {w}]
          /\ index' = [index EXCEPT ![p].cancelled = TRUE] /\ cancels' = cancels + 1
    /\ UNCHANGED vars

\* The bytes are read where the tables say they lie: nothing is found there once
\* the archive is another.
GuidAt(p, n) ==
    LET stamp == Tables(proc[p])[n]
    IN  IF version[stamp[1]] = stamp[2] THEN Guid[n] ELSE NoGuid

Slot(p, w) == read[p].at[w]

\* No guid either when the archive cannot be opened; nobody is told.
ReadHeader(p, w) ==
    LET i == Slot(p, w)
        Read(guid) == read' = [read EXCEPT ![p].found[i] = guid, ![p].at[w] = NoSlot]
    IN  /\ Reading(p) /\ i \in DOMAIN read[p].order
        /\ \/ Read(GuidAt(p, read[p].order[i])) /\ UNCHANGED <<index, faults>>
           \/ Read(NoGuid) /\ Refused /\ index' = [index EXCEPT ![p].whole = FALSE]
        /\ UNCHANGED <<version, files, used, proc, starts, cancels>>

\* After the join: the slots in order, the first name of a guid wins.
Folded(r) ==
    [g \in ToSet(r.found) \ {NoGuid} |-> r.order[Min({i \in DOMAIN r.found : r.found[i] = g})]]

Saves_EvenCancelled(p) == HasSide(proc[p])
Saves(p) == HasSide(proc[p]) /\ ~index[p].cancelled

\* The index is kept, and stored unless there is nothing to store it for or it
\* cannot be written.
Publish(p) ==
    LET r == read[p] f == Side(proc[p]) IN
    /\ Reading(p) /\ r.out = Workers
    /\ index' = [index EXCEPT ![p].map = Folded(r)]
    /\ read' = [read EXCEPT ![p] = NoRead]
    /\ \/ /\ Saves(p)
          /\ files' = [g \in DOMAIN files \cup {f} |-> IF g # f THEN files[g]
                         ELSE [map |-> Folded(r), count |-> Len(r.order),
                               whole |-> index[p].whole /\ proc[p].whole]]
          /\ used' = Touched(f)
       \/ UNCHANGED <<files, used>>
    /\ UNCHANGED <<version, proc, starts, faults, cancels>>

IndexStep(p) ==
    \/ Ask(p) \/ Publish(p) \/ \E w \in Workers : Claim(p, w) \/ ReadHeader(p, w)

IndexNext ==
    \/ \E p \in Procs : Mounts(p) \/ Restarts(p)
    \/ \E p \in Askers : IndexStep(p)
    \/ \E t \in Tocs : Patches(t)

IndexSpec == IndexInit /\ [][IndexNext]_<<vars, indexVars>>

-----------------------------------------------------------------------------
\* source.h:128, "First name wins, so the result is stable across runs": each
\* guid of the tables, with the first partition in archive order that has it.
Expected(names) ==
    [g \in {Guid[n] : n \in names} \ {NoGuid} |-> Min({n \in names : Guid[n] = g})]

\* The index a process answers with is the one of the tables it has now, however
\* its threads interleaved, whatever it or another process stored, swept or
\* mounted before, unless the read was cancelled, a file was refused to it, or the
\* game patched under it.
IndexIsExpected ==
    \A p \in Askers : LET s == proc[p] c == index[p] IN
        c.built /\ c.whole /\ ~c.cancelled /\ ~Reading(p)
          /\ s.pc = "idle" /\ s.whole /\ Current(s.seq)
          => c.map = Expected(DOMAIN Tables(s))

\* A stored index with the stamps of the installed files, of tables and headers
\* all of which could be read, is the whole index of the tables those files give:
\* cancelled and outdated ones are never found.
StoredIsWhole ==
    \A f \in DOMAIN files : f[3] = "pidx" /\ files[f].whole /\ Current(f[2])
        => files[f].map = Expected(DOMAIN Direct(f[2]))
=============================================================================
