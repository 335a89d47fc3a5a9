------------------------------ MODULE SharedRoot ------------------------------
(***************************************************************************)
(* Two processes, each with its own ContentStore, over one cache folder:   *)
(* the folder is per user and both editors open it (docs/PRECACHE.md).     *)
(* Nothing in the code locks the folder.  Process A has the handle that    *)
(* module ContentStore describes, process B another of its kind.           *)
(*                                                                         *)
(* Two writers that have a segment of the same number open at once would   *)
(* share its temporaries as well; that overlap is left out (OneSegment),   *)
(* so the writing sessions explored here follow one another.               *)
(***************************************************************************)
EXTENDS ContentStore

CONSTANT Uses    \* the ways the two editors may be used together

ASSUME RootAssumption == Uses \subseteq [writers : SUBSET {"A", "B"}, turns : BOOLEAN]

\* The three ways: one editor builds and the other reads meanwhile; both
\* build, one at a time; both build and nothing keeps them apart.
OneBuilds   == [writers |-> {"A"}, turns |-> FALSE]
TakingTurns == [writers |-> {"A", "B"}, turns |-> TRUE]
Together    == [writers |-> {"A", "B"}, turns |-> FALSE]

VARIABLES
    use,         \* which processes build; whether they run one at a time
    upB, whereB, readersB, segmentB, writingB, wopenB, badB, rowsB, pcB, replyB

memB     == <<upB, whereB, readersB, segmentB, writingB, wopenB, badB, rowsB, pcB, replyB>>
rootVars == <<use, vars, memB>>

B == INSTANCE ContentStore WITH
    up <- upB, where <- whereB, readers <- readersB, segment <- segmentB,
    writing <- writingB, wopen <- wopenB, bad <- badB,
    rows <- rowsB, pc <- pcB, reply <- replyB

RootInit == Init /\ B!Init /\ use \in Uses

\* A process that only reads opens the store and closes it; get() changes
\* nothing.  One that builds also puts and flushes.
StepA == IF "A" \in use.writers THEN Next ELSE Open \/ Stop
StepB == IF "B" \in use.writers THEN B!Next ELSE B!Open \/ B!Stop

OneSegment == ~(writing' /\ writingB')
InTurn     == use.turns => ~(up' /\ upB')

RootNext ==
    /\ \/ StepA /\ UNCHANGED memB
       \/ StepB /\ UNCHANGED mem
    /\ OneSegment /\ InTurn
    /\ UNCHANGED use

RootSpec == RootInit /\ [][RootNext]_rootVars

-----------------------------------------------------------------------------
\* pack.h:8, "A pack is written once and published by renaming both files": no
\* step of any process changes or removes a published index.
PackWrittenOnce == [][\A n \in DOMAIN idx : idx[n] # {} => idx'[n] = idx[n]]_rootVars

\* A reader finds every record of the cache it opened, whatever the builder
\* does meanwhile: publishes, fails, or dies between two renames.
ReaderServed == B!ReadBack

\* Whichever process is the builder, and over its own sessions and the other's, the
\* folder keeps the promise of DurableStore: the one at work in turn is A while A
\* builds alone, else the one that is open.
InTurnB == use.turns /\ upB
Folder == INSTANCE DurableStore WITH
    up      <- up \/ InTurnB,
    known   <- IF InTurnB THEN B!Known ELSE Known,
    durable <- Durable,
    broken  <- IF InTurnB THEN B!Broken ELSE Broken,
    reply   <- IF InTurnB THEN replyB ELSE reply
FolderImplements == Folder!Spec
=============================================================================
