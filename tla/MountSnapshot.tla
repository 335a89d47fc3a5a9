----------------------------- MODULE MountSnapshot -----------------------------
(***************************************************************************)
(* Mounting lists of tables of contents (TOCs) with stored snapshots       *)
(* (Source::mount_tocs and what it calls), by several processes over one   *)
(* snapshot directory while the game is patched.                           *)
(*                                                                         *)
(* A stamp is <<TOC, version, name>>: the version is 0 when there is no    *)
(* such file, the name is All but for one that mount_ebx_owner added.  The *)
(* hash that keys a snapshot is the sequence of the stamps itself.  The    *)
(* four tables of a Source are one, and a layer is the file it came from.  *)
(* Module SourceIndex has the next-state relation.                         *)
(***************************************************************************)
EXTENDS Naturals, Sequences, FiniteSets, FiniteSetsExt, SequencesExt

CONSTANTS Procs, Tocs,
          Listed,      \* the names each version of a TOC lists, from version 1
          Lists,       \* the lists of TOCs a process asks for
          MaxLayers,   \* 4 in the code
          Big,         \* names worth a file, 20000 in the code
          Cap,         \* files kept, 2 GiB in the code
          Absent,      \* TOCs that may be missing at first
          MaxSeq, MaxStarts,   \* bounds: stamps of a process, processes begun,
          MaxFaults            \* opens and reads that are refused in passing

ASSUME SnapshotAssumption ==
    /\ Listed \in [Tocs -> Seq(SUBSET (Nat \ {0})) \ {<<>>}] /\ Lists \subseteq Seq(Tocs)
    /\ \A t \in Tocs : \A v \in DOMAIN Listed[t] : IsFiniteSet(Listed[t][v])
    /\ "stored" \notin Procs
    /\ MaxLayers \in Nat /\ Big \in Nat /\ Cap \in Nat /\ MaxFaults \in Nat

VARIABLES version,   \* of each TOC, as it now is
          files,     \* snapshot files: <<base, key, writer>> -> contents
          used,      \* the files by last use, oldest first
          proc,      \* each process, see Fresh
          starts,
          faults     \* opens and reads that were refused, so far

vars == <<version, files, used, proc, starts, faults>>

Empty == [n \in {} |-> <<>>]
Over(table, more) == [n \in DOMAIN table \cup DOMAIN more |->
                         IF n \in DOMAIN table THEN table[n] ELSE more[n]]
\* Of several tables the first that has a name decides.
FirstWith(tabs, n) == Min({i \in DOMAIN tabs : n \in DOMAIN tabs[i]})
Layered(tabs) == [n \in UNION {DOMAIN tabs[i] : i \in DOMAIN tabs} |-> tabs[FirstWith(tabs, n)][n]]
All == 0
Names(stamp) == IF stamp[2] = 0 THEN {}
                ELSE IF stamp[3] = All THEN Listed[stamp[1]][stamp[2]] ELSE {stamp[3]}
Entry(stamp) == [n \in Names(stamp) |-> stamp]

\* A Source, and where it is in mount_tocs or mount_ebx_owner.  whole is history:
\* every read its stamps stand for was answered in full, from the file as stamped.
Fresh == [pc |-> "idle", layers |-> <<>>, overlay |-> Empty, seq |-> <<>>,
          mounted |-> {}, base |-> <<>>, whole |-> TRUE,
          use |-> FALSE, left |-> <<>>, parent |-> <<>>, key |-> <<>>,
          bases |-> {}, chain |-> {}, seen |-> <<>>, total |-> 0]
Returned(s) == [s EXCEPT !.pc = "idle", !.use = FALSE, !.left = <<>>, !.parent = <<>>,
                         !.key = <<>>, !.bases = {}, !.chain = {}, !.seen = <<>>, !.total = 0]

Init ==
    /\ version \in {v \in [Tocs -> 0..1] : \A t \in Tocs : v[t] = 1 \/ t \in Absent}
    /\ files = [f \in {} |-> {}] /\ used = <<>>
    /\ proc = [p \in Procs |-> Fresh] /\ starts = 0 /\ faults = 0

Stored == "stored"     \* the writer of a file renamed into place
Base(s)  == IF s.base = <<>> THEN s.key ELSE s.base
Path(s)  == <<Base(s), s.key, Stored>>
Temp(p)  == <<Base(proc[p]), proc[p].key, p>>
Mapped(f) == \E p \in Procs : \E i \in DOMAIN proc[p].layers : proc[p].layers[i].from = f

\* The tables of a process: its mapped layers, then its overlay.
Mapping(s) == Layered([i \in DOMAIN s.layers |-> s.layers[i].tab])
Tables(s)  == Over(Mapping(s), s.overlay)

Goto(p, pc) == proc' = [proc EXCEPT ![p].pc = pc]
Return(p)   == proc' = [proc EXCEPT ![p] = Returned(@)]
Without(q, S) == SelectSeq(q, LAMBDA f : f \notin S)
Drop(S) == files' = [f \in DOMAIN files \ S |-> files[f]] /\ used' = Without(used, S)
Touched(f) == Append(Without(used, {f}), f)

\* An open or a read of a file that is there is refused: no descriptor is left, or
\* another program holds it.
Refused == faults < MaxFaults /\ faults' = faults + 1

\* A removal of a file that some process has mapped may fail.
Removes(S, done) == done \subseteq S /\ {f \in S : ~Mapped(f)} \subseteq done

-----------------------------------------------------------------------------
\* mount_tocs: what of the list is not mounted, and whether snapshots serve.
MayUse(s) == DOMAIN s.overlay = {} /\ Len(s.layers) < MaxLayers

\* The members of a set of numbers in their order.
Ordered(S) ==
    CHOOSE q \in [1..Cardinality(S) -> S] : \A i, j \in DOMAIN q : i < j => q[i] < q[j]
\* A TOC twice in one list mounts once.
Unmounted(list, mounted) ==
    LET at == Ordered({i \in DOMAIN list : /\ list[i] \notin mounted
                                           /\ \A j \in 1..(i - 1) : list[j] # list[i]})
    IN  [i \in DOMAIN at |-> list[at[i]]]

Stamp_Identity(t) == <<t, 1, All>>
Stamp(t) == <<t, version[t], All>>

Counted(s) == /\ s = Fresh => starts < MaxStarts
             /\ starts' = IF s = Fresh THEN starts + 1 ELSE starts

MountTocs(p, list) ==
    LET s == proc[p] todo == Unmounted(list, s.mounted)
    IN  /\ s.pc = "idle" /\ todo # <<>> /\ Len(s.seq) + Len(todo) <= MaxSeq
        /\ proc' = [proc EXCEPT ![p].pc = IF MayUse(s) THEN "stamp" ELSE "mount",
                      ![p].use = MayUse(s), ![p].left = todo,
                      ![p].parent = s.seq, ![p].key = s.seq]
        /\ Counted(s)
        /\ UNCHANGED <<version, files, used, faults>>

\* The key the mounts would leave, from one file after another.
StampKey(p) ==
    LET s == proc[p] i == Len(s.key) - Len(s.parent) + 1
    IN  /\ s.pc = "stamp"
        /\ proc' = [proc EXCEPT ![p].key = Append(@, Stamp(s.left[i])),
                                ![p].pc = IF i = Len(s.left) THEN "load" ELSE "stamp"]
        /\ UNCHANGED <<version, files, used, starts, faults>>

\* load_snapshot: the file for the key, if its parent is this process's tables.
Serves(s, f) == f \in DOMAIN files /\ files[f].parent = s.parent

WithLayer(s, f) ==
    [Returned(s) EXCEPT !.overlay = Empty, !.seq = s.key, !.base = Base(s),
                        !.layers = Append(@, [from |-> f, tab |-> files[f].tab]),
                        !.mounted = files[f].mounted, !.whole = @ /\ files[f].whole]

\* The file is not there, or its open is refused.
Misses(s, f) == IF Serves(s, f) THEN Refused ELSE UNCHANGED faults

Load(p) ==
    LET s == proc[p] f == Path(s)
    IN  /\ s.pc = "load"
        /\ \/ /\ Serves(s, f) /\ UNCHANGED faults
              /\ proc' = [proc EXCEPT ![p] = WithLayer(s, f)]
              /\ used' = Touched(f)
           \/ Misses(s, f) /\ Goto(p, "mount") /\ UNCHANGED used
        /\ UNCHANGED <<version, files, starts>>

\* The progress callback cancels: before the load, or before a TOC.
CancelMount(p) ==
    /\ proc[p].pc = "load" \/ (proc[p].pc = "mount" /\ proc[p].left # <<>>)
    /\ Return(p)
    /\ UNCHANGED <<version, files, used, starts, faults>>

\* mount_toc: the stamp is added, then the file is read.
StampNext(p) ==
    LET s == proc[p]
    IN  /\ s.pc = "mount" /\ s.left # <<>>
        /\ proc' = [proc EXCEPT ![p].pc = "read", ![p].seq = Append(@, Stamp(Head(s.left)))]
        /\ UNCHANGED <<version, files, used, starts, faults>>

\* insert_if_absent, of every name of a TOC or of part of them.
FirstWinning_Last(s, table) == Over(table, s.overlay)
FirstWinning(s, table) ==
    Over(s.overlay, Restrict(table, DOMAIN table \ DOMAIN Tables(s)))

\* A bundle whose segments or metadata cannot be read is passed over, and the TOC
\* is mounted without it; a TOC that cannot be read is not mounted.
ReadNext(p) ==
    LET s == proc[p]
        t == Head(s.left)
        all == Entry(Stamp(t))
        After(r) == proc' = [proc EXCEPT ![p] = [r EXCEPT !.pc = "mount", !.left = Tail(@)]]
        With(table) == [s EXCEPT !.overlay = FirstWinning(s, table), !.mounted = @ \cup {t}]
    IN  /\ s.pc = "read"
        /\ \/ version[t] = 0 /\ After(s) /\ UNCHANGED faults
           \/ version[t] # 0 /\ After(With(all)) /\ UNCHANGED faults
           \/ version[t] # 0 /\ Refused /\ After([s EXCEPT !.whole = FALSE])
           \/ /\ version[t] # 0 /\ Refused
              /\ \E got \in SUBSET DOMAIN all \ {DOMAIN all} :
                   After([With(Restrict(all, got)) EXCEPT !.whole = FALSE])
        /\ UNCHANGED <<version, files, used, starts>>

MountsDone(p) ==
    LET s == proc[p]
        worth == s.use /\ Cardinality(DOMAIN s.overlay) >= Big /\ s.seq = s.key
    IN  /\ s.pc = "mount" /\ s.left = <<>>
        /\ IF worth THEN Goto(p, "write") ELSE Return(p)
        /\ UNCHANGED <<version, files, used, starts, faults>>

-----------------------------------------------------------------------------
\* save_snapshot: a temporary file, renamed over the path.  It may not be
\* written; the rename fails where the target is mapped, or the file is gone.
WriteTemp(p) ==
    LET s == proc[p]
    IN  /\ s.pc = "write"
        /\ \/ /\ files' = [f \in DOMAIN files \cup {Temp(p)} |-> IF f # Temp(p) THEN files[f]
                             ELSE [parent |-> s.parent, tab |-> s.overlay, mounted |-> s.mounted,
                                   whole |-> s.whole]]
              /\ used' = Touched(Temp(p))
              /\ Goto(p, "rename")
           \/ Return(p) /\ UNCHANGED <<files, used>>
        /\ UNCHANGED <<version, starts, faults>>

AfterRename(s) == IF s.base = <<>> THEN "sweep" ELSE "cap"

Rename(p) ==
    LET s == proc[p] f == Path(s) IN
    /\ s.pc = "rename"
    /\ \/ /\ Temp(p) \in DOMAIN files
          /\ files' = [g \in (DOMAIN files \cup {f}) \ {Temp(p)} |->
                         IF g = f THEN files[Temp(p)] ELSE files[g]]
          /\ used' = Without(Touched(f), {Temp(p)})
       \/ (Temp(p) \notin DOMAIN files \/ Mapped(f)) /\ Drop({Temp(p)})
    /\ Goto(p, AfterRename(s))
    /\ UNCHANGED <<version, starts, faults>>

\* sweep_stale_chains: the other bases, each by the stamps of its first layer.
SweepList(p) ==
    /\ proc[p].pc = "sweep"
    /\ proc' = [proc EXCEPT ![p].pc = "check",
                            ![p].bases = {f[1] : f \in DOMAIN files} \ {Base(proc[p])}]
    /\ UNCHANGED <<version, files, used, starts, faults>>

FirstLayer(b) == <<b, b, Stored>>
OwnStamps(f) == {f[2][i] : i \in (Len(files[f].parent) + 1)..Len(f[2])}
Stale(b) == \/ FirstLayer(b) \notin DOMAIN files
            \/ \E st \in OwnStamps(FirstLayer(b)) : st # Stamp(st[1])

\* A chain whose first layer cannot be opened counts as stale.
SweepCheck(p) ==
    LET s == proc[p] IN
    /\ s.pc = "check"
    /\ \/ s.bases = {} /\ Goto(p, "cap") /\ UNCHANGED faults
       \/ \E b \in s.bases, stale \in BOOLEAN :
            LET chain == IF stale THEN {f \in DOMAIN files : f[1] = b} ELSE {}
            IN  /\ IF stale = Stale(b) THEN UNCHANGED faults ELSE stale /\ Refused
                /\ proc' = [proc EXCEPT ![p].pc = IF chain = {} THEN "check" ELSE "remove",
                                        ![p].bases = @ \ {b}, ![p].chain = chain]
    /\ UNCHANGED <<version, files, used, starts>>

\* The files of the chain go one at a time.
SweepRemove(p) ==
    LET s == proc[p] IN
    /\ s.pc = "remove"
    /\ \E f \in s.chain : \E done \in SUBSET {f} :
         /\ Removes({f} \cap DOMAIN files, done) /\ Drop(done)
         /\ proc' = [proc EXCEPT ![p].chain = @ \ {f},
                                 ![p].pc = IF s.chain = {f} THEN "check" ELSE "remove"]
    /\ UNCHANGED <<version, starts, faults>>

\* enforce_snapshot_cap: from one listing, the least recently used first, never
\* the file just saved.
CapList(p) ==
    /\ proc[p].pc = "cap"
    /\ proc' = [proc EXCEPT ![p].pc = "evict", ![p].total = Len(used), ![p].seen = used]
    /\ UNCHANGED <<version, files, used, starts, faults>>

Evict(p) ==
    LET s == proc[p] f == Head(s.seen) IN
    /\ s.pc = "evict" /\ s.total > Cap /\ s.seen # <<>>
    /\ \E done \in SUBSET {f} :
         /\ IF f = Path(s) THEN done = {} ELSE Removes({f} \cap DOMAIN files, done)
         /\ Drop(done)
         /\ proc' = [proc EXCEPT ![p].seen = Tail(@), ![p].total = @ - Cardinality(done)]
    /\ UNCHANGED <<version, starts, faults>>

\* Read back what was saved; the heap tables stay when that fails.
Reopen(p) ==
    LET s == proc[p] IN
    /\ s.pc = "evict" /\ (s.total <= Cap \/ s.seen = <<>>)
    /\ \/ Serves(s, Path(s)) /\ proc' = [proc EXCEPT ![p] = WithLayer(s, Path(s))]
          /\ UNCHANGED faults
       \/ Misses(s, Path(s)) /\ Return(p)
    /\ UNCHANGED <<version, files, used, starts>>

-----------------------------------------------------------------------------
\* mount_ebx_owner: one name of one bundle, which the tables lack.  Unlike a mount
\* it reads the TOC first and stamps it when the bundle has been read, too.
OwnerRead(p, t, n) ==
    LET s == proc[p] IN
    /\ s.pc = "idle" /\ n \in Names(Stamp(t)) \ DOMAIN Tables(s) /\ Len(s.seq) < MaxSeq
    /\ proc' = [proc EXCEPT ![p] = [Returned(@) EXCEPT !.pc = "owner",
                                                      !.key = <<<<t, version[t], n>>>>]]
    /\ Counted(s)
    /\ UNCHANGED <<version, files, used, faults>>

OwnerAdd(p) ==
    LET s == proc[p]
        st == Head(s.key)
        now == <<st[1], version[st[1]], st[3]>>
    IN  /\ s.pc = "owner"
        /\ proc' = [proc EXCEPT ![p] = [Returned(s) EXCEPT
                        !.overlay = FirstWinning(s, Entry(st)), !.seq = Append(@, now),
                        !.whole = @ /\ st = now]]
        /\ UNCHANGED <<version, files, used, starts, faults>>

\* The bundle cannot be read: nothing changes.
OwnerFails(p) ==
    /\ proc[p].pc = "owner"
    /\ Return(p)
    /\ UNCHANGED <<version, files, used, starts, faults>>

-----------------------------------------------------------------------------
\* The game is patched: a TOC is replaced, appears, and its stamp is new.
Patch(t) ==
    /\ version[t] < Len(Listed[t])
    /\ version' = [version EXCEPT ![t] = @ + 1]
    /\ UNCHANGED <<files, used, proc, starts, faults>>

\* A process ends, anywhere; another may start in its place.
Restart(p) ==
    /\ proc[p] # Fresh /\ starts < MaxStarts
    /\ proc' = [proc EXCEPT ![p] = Fresh]
    /\ UNCHANGED <<version, files, used, starts, faults>>

Step(p) ==
    \/ StampKey(p) \/ Load(p) \/ StampNext(p) \/ ReadNext(p) \/ MountsDone(p)
    \/ WriteTemp(p) \/ Rename(p) \/ SweepList(p) \/ SweepCheck(p) \/ SweepRemove(p)
    \/ CapList(p) \/ Evict(p) \/ Reopen(p)
    \/ OwnerAdd(p) \/ OwnerFails(p)

-----------------------------------------------------------------------------
\* What mounting a sequence of stamps gives with no snapshot at all.
Direct(seq) == Layered([i \in DOMAIN seq |-> Entry(seq[i])])
Current(seq) == \A i \in DOMAIN seq : seq[i][2] = version[seq[i][1]]

\* A process whose stamps are those of the installed files, and all of whose reads
\* were answered, has, whatever it loaded, saved or was cancelled in, the tables a
\* mount of those files gives, and knows which TOCs are in them.
TablesAreDirect ==
    \A p \in Procs : LET s == proc[p] IN
        s.pc = "idle" /\ s.whole /\ Current(s.seq)
          => /\ Tables(s) = Direct(s.seq)
             /\ s.mounted = {s.seq[i][1] : i \in {j \in DOMAIN s.seq : s.seq[j][2] # 0
                                                                     /\ s.seq[j][3] = All}}

\* A stored first layer with the stamps of the installed files holds the tables a
\* mount of those files gives, unless a read of the mount it was saved from was
\* refused.
WholeSnapshots ==
    \A f \in DOMAIN files : /\ f[3] = Stored /\ files[f].parent = <<>>
                             /\ files[f].whole /\ Current(f[2])
        => files[f].tab = Direct(f[2])

\* source.cpp:187, "Every attempt is part of the mount sequence, a failed one
\* included: the same sequence always leaves the same tables, which is what makes a
\* snapshot of them reusable": the same of every stored first layer.
SnapshotsAreReusable ==
    \A f \in DOMAIN files : f[3] = Stored /\ files[f].parent = <<>> /\ Current(f[2])
        => files[f].tab = Direct(f[2])
=============================================================================
