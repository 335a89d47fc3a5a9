-------------------------- MODULE BuildControl_proofs --------------------------
(***************************************************************************)
(* The safety properties of BuildControl, for any levels and any number of *)
(* cancelling threads.                                                     *)
(***************************************************************************)
EXTENDS BuildControl, TLAPS

\* What the worker still has to do: as long as nothing failed, the levels of the
\* list that are not complete are those it has not come to; it turns to the
\* verdict early only for a cancel, and to the installation only when done.
RestKnown ==
    /\ ~failed => levels \subseteq complete \cup todo
    /\ work = "verdict" => cancel \/ todo = {}
    /\ work = "install" => levels \subseteq complete

\* The running flag is up from the moment a start raised it.
Raised == owner \in {"show", "spawn"} => running

\* A cancel of the current build is still visible to its worker.
AskedKept == asked /\ thread = "live" => cancel

IInv ==
    /\ TypeOK
    /\ WorkerAlone
    /\ RunningCovers
    /\ Raised
    /\ AskedKept
    /\ RestKnown
    /\ DoneIsWhole

-----------------------------------------------------------------------------
USE DEF Callers, States, Writing

LEMMA Initially == Init => IInv
  <1> SUFFICES ASSUME Init PROVE IInv
      OBVIOUS
  <1> USE DEF Init
  <1>1. TypeOK
    <2>1. cancel \in BOOLEAN /\ running \in BOOLEAN /\ failed \in BOOLEAN /\ asked \in BOOLEAN
          OBVIOUS
    <2>2. cancelling \in [Callers -> {"no", "flagged", "showing"}]
          OBVIOUS
    <2> QED BY <2>1, <2>2 DEF TypeOK
  <1>2. WorkerAlone /\ RunningCovers /\ Raised /\ AskedKept
        BY DEF WorkerAlone, RunningCovers, Raised, AskedKept
  <1>3. RestKnown /\ DoneIsWhole
        BY DEF RestKnown, DoneIsWhole
  <1> QED BY <1>1, <1>2, <1>3 DEF IInv

\* The steps of a start after the join, which only WorkerAlone lets be safe.
Setup == Refused \/ Reset \/ Clear \/ Raise \/ Show

\* The steps of the calls that neither start a worker nor touch the build.
Calling == BeginStart \/ BeginWait \/ WaitSnapshot \/ BeginClose
              \/ \E c \in Callers : CancelFlag(c) \/ CancelGoesOn(c)

\* Every step is one of the start's, a join, the spawn, another call's, or one
\* of the worker's.
LEMMA Steps ==
    Next => Setup \/ JoinOld \/ WaitJoin \/ CloseJoin \/ Spawn \/ Calling \/ Worker
  BY DEF Next, OwnerGoesOn, Setup, Calling
-----------------------------------------------------------------------------
\* The properties other than the types.
Rest == WorkerAlone /\ RunningCovers /\ Raised /\ AskedKept /\ RestKnown /\ DoneIsWhole

USE DEF build, vars, OwnerMay, Calls

LEMMA SetupStep == IInv /\ Setup => IInv'
  <1> SUFFICES ASSUME IInv, Setup PROVE TypeOK' /\ Rest'
      BY DEF IInv, Rest
  <1> USE DEF IInv, Rest, WorkerAlone, RunningCovers, Raised, AskedKept, RestKnown, DoneIsWhole
  <1>1. CASE Refused
    <2>1. TypeOK'
          BY <1>1 DEF Refused, TypeOK
    <2> QED BY <1>1, <2>1 DEF Refused, TypeOK
  <1>2. CASE Reset
    <2>1. PICK ls \in SUBSET Levels \ {{}} : levels' = ls /\ todo' = ls
          BY <1>2 DEF Reset
    <2>2. TypeOK'
          BY <1>2, <2>1 DEF Reset, AfterStep, TypeOK
    <2> QED BY <1>2, <2>1, <2>2 DEF Reset, AfterStep, TypeOK
  <1>3. CASE Clear
    <2>1. TypeOK'
          BY <1>3 DEF Clear, AfterStep, TypeOK
    <2> QED BY <1>3, <2>1 DEF Clear, AfterStep, TypeOK
  <1>4. CASE Raise
    <2>1. TypeOK'
          BY <1>4 DEF Raise, AfterStep, TypeOK
    <2> QED BY <1>4, <2>1 DEF Raise, AfterStep, TypeOK
  <1>5. CASE Show
    <2>1. TypeOK'
          BY <1>5 DEF Show, AfterStep, TypeOK
    <2> QED BY <1>5, <2>1 DEF Show, AfterStep, TypeOK
  <1> QED BY <1>1, <1>2, <1>3, <1>4, <1>5 DEF Setup

LEMMA JoinStep == IInv /\ (JoinOld \/ WaitJoin \/ CloseJoin) => IInv'
  <1> SUFFICES ASSUME IInv, JoinOld \/ WaitJoin \/ CloseJoin PROVE TypeOK' /\ Rest'
      BY DEF IInv, Rest
  <1>1. TypeOK'
        BY DEF IInv, TypeOK, JoinOld, WaitJoin, CloseJoin, Joined
  <1>2. WorkerAlone' /\ RunningCovers' /\ Raised' /\ AskedKept'
        BY DEF IInv, TypeOK, WorkerAlone, RunningCovers, Raised, AskedKept,
               JoinOld, WaitJoin, CloseJoin, Joined
  <1>3. RestKnown' /\ DoneIsWhole'
        BY DEF IInv, RestKnown, DoneIsWhole, JoinOld, WaitJoin, CloseJoin
  <1> QED BY <1>1, <1>2, <1>3 DEF Rest

LEMMA SpawnStep == IInv /\ Spawn => IInv'
  <1> SUFFICES ASSUME IInv, Spawn PROVE TypeOK' /\ Rest'
      BY DEF IInv, Rest
  <1> USE DEF IInv, Spawn, AfterStep
  <1>1. TypeOK'
    <2>1. asked' \in BOOLEAN
          OBVIOUS
    <2> QED BY <2>1 DEF TypeOK
  <1>2. WorkerAlone' /\ RunningCovers' /\ Raised' /\ AskedKept'
        BY DEF TypeOK, WorkerAlone, RunningCovers, Raised, AskedKept
  <1>3. RestKnown' /\ DoneIsWhole'
        BY DEF RestKnown, DoneIsWhole
  <1> QED BY <1>1, <1>2, <1>3 DEF Rest

\* A call that is not a start changes no more than the cancel flag, the shown
\* state, and how far the callers are.
LEMMA CallingStep == IInv /\ Calling => IInv'
  <1> SUFFICES ASSUME IInv, Calling PROVE TypeOK' /\ Rest'
      BY DEF IInv, Rest
  <1> USE DEF IInv, Rest, WorkerAlone, RunningCovers, Raised, AskedKept, RestKnown, DoneIsWhole
  <1>1. CASE BeginStart
        BY <1>1 DEF BeginStart, TypeOK
  <1>2. CASE BeginWait
        BY <1>2 DEF BeginWait, TypeOK
  <1>3. CASE WaitSnapshot
        BY <1>3 DEF WaitSnapshot, TypeOK
  <1>4. CASE BeginClose
    <2>1. cancel' \in BOOLEAN
          BY <1>4 DEF BeginClose
    <2> QED BY <1>4, <2>1 DEF BeginClose, TypeOK
  <1>5. ASSUME NEW c \in Callers, CancelFlag(c) PROVE TypeOK' /\ Rest'
    <2>1. cancel' \in BOOLEAN /\ asked' \in BOOLEAN
          BY <1>5 DEF CancelFlag
    <2>2. TypeOK'
          BY <1>5, <2>1 DEF CancelFlag, TypeOK
    <2> QED BY <1>5, <2>2 DEF CancelFlag
  <1>6. ASSUME NEW c \in Callers, CancelGoesOn(c) PROVE TypeOK' /\ Rest'
    <2>1. TypeOK'
          BY <1>6 DEF CancelGoesOn, CancelTest, CancelShow, TypeOK
    <2> QED BY <1>6, <2>1 DEF CancelGoesOn, CancelTest, CancelShow
  <1> QED BY <1>1, <1>2, <1>3, <1>4, <1>5, <1>6 DEF Calling

LEMMA WorkerStep == IInv /\ Worker => IInv'
  <1> SUFFICES ASSUME IInv, Worker PROVE TypeOK' /\ Rest'
      BY DEF IInv, Rest
  <1> USE DEF IInv, Rest, WorkerAlone, RunningCovers, Raised, AskedKept, RestKnown, DoneIsWhole
  <1>1. CASE WorkerBegins
        BY <1>1 DEF WorkerBegins, TypeOK
  <1>2. CASE NextLevel
    <2>1. TypeOK'
          BY <1>2 DEF NextLevel, TypeOK
    <2>2. todo' = todo \/ \E l \in complete : todo' = todo \ {l}
          BY <1>2 DEF NextLevel
    <2>3. RestKnown'
          BY <1>2, <2>2 DEF NextLevel, LoopEnds
    <2> QED BY <1>2, <2>1, <2>3 DEF NextLevel, TypeOK
  <1>3. CASE BuildLevel
    <2>1. PICK l \in todo \ complete :
            /\ todo' = todo \ {l}
            /\ \/ complete' = complete \cup {l} /\ UNCHANGED failed
               \/ failed' = TRUE /\ UNCHANGED complete
          BY <1>3 DEF BuildLevel
    <2>2. TypeOK'
      <3>1. failed' \in BOOLEAN
            BY <2>1 DEF TypeOK
      <3> QED BY <1>3, <2>1, <3>1 DEF BuildLevel, TypeOK
    <2>3. RestKnown' /\ DoneIsWhole'
          BY <1>3, <2>1 DEF BuildLevel, TypeOK
    <2> QED BY <1>3, <2>2, <2>3 DEF BuildLevel, TypeOK
  <1>4. CASE WorkerConcludes
    <2>1. TypeOK'
          BY <1>4 DEF WorkerConcludes, Verdict, TypeOK
    <2>2. RestKnown' /\ DoneIsWhole'
          BY <1>4 DEF WorkerConcludes, Verdict, TypeOK
    <2> QED BY <1>4, <2>1, <2>2 DEF WorkerConcludes, Verdict, TypeOK
  <1>5. CASE WorkerInstalls
    <2>1. TypeOK'
          BY <1>5 DEF WorkerInstalls, TypeOK
    <2> QED BY <1>5, <2>1 DEF WorkerInstalls, TypeOK
  <1>6. CASE WorkerExits
    <2>1. running' \in BOOLEAN
          BY <1>6 DEF WorkerExits, Lowered
    <2>2. TypeOK'
          BY <1>6, <2>1 DEF WorkerExits, TypeOK
    <2> QED BY <1>6, <2>2 DEF WorkerExits, Lowered, TypeOK
  <1> QED BY <1>1, <1>2, <1>3, <1>4, <1>5, <1>6 DEF Worker

LEMMA StutterStep == IInv /\ UNCHANGED vars => IInv'
  BY DEF IInv, TypeOK, WorkerAlone, RunningCovers, Raised, AskedKept, RestKnown, DoneIsWhole

-----------------------------------------------------------------------------
\* The strengthened invariant holds in every reachable state.
THEOREM Invariance == Spec => []IInv
  <1>1. IInv /\ [Next]_vars => IInv'
        BY Steps, SetupStep, JoinStep, SpawnStep, CallingStep, WorkerStep, StutterStep
  <1> QED BY Initially, <1>1, PTL DEF Spec

\* TypeOK for any levels and cancellers.
THEOREM TypeCorrect == Spec => []TypeOK
  <1>1. IInv => TypeOK
        BY DEF IInv
  <1> QED BY Invariance, <1>1, PTL

\* No start touches the unlocked state, or the thread object, beside a worker.
THEOREM AloneCorrect == Spec => []WorkerAlone
  <1>1. IInv => WorkerAlone
        BY DEF IInv
  <1> QED BY Invariance, <1>1, PTL

\* running covers the worker's writes and ends with it.
THEOREM RunningCorrect == Spec => []RunningCovers
  <1>1. IInv => RunningCovers
        BY DEF IInv
  <1> QED BY Invariance, <1>1, PTL

\* Done is never shown over less than the whole list.
THEOREM DoneCorrect == Spec => []DoneIsWhole
  <1>1. IInv => DoneIsWhole
        BY DEF IInv
  <1> QED BY Invariance, <1>1, PTL

\* After a cancel of the current build no level is begun.
THEOREM CancelCorrect == Spec => StopsAfterUnit
  <1>1. IInv /\ [Next]_vars => [work # "build" /\ work' = "build" => ~asked]_vars
    <2> SUFFICES ASSUME IInv, Next, work # "build", work' = "build" PROVE ~asked
        OBVIOUS
    <2>1. NextLevel
          BY DEF Next, OwnerGoesOn, Worker, JoinOld, Refused, Reset, Clear, Raise, Show, Spawn,
                 WaitJoin, WaitSnapshot, CloseJoin, BeginStart, BeginWait, BeginClose,
                 CancelFlag, CancelGoesOn, CancelTest, CancelShow,
                 WorkerBegins, BuildLevel, WorkerConcludes, WorkerInstalls, WorkerExits
    <2>2. ~cancel /\ work = "loop"
          BY <2>1 DEF NextLevel, LoopEnds
    <2> QED BY <2>2 DEF IInv, TypeOK, AskedKept
  <1> QED BY Invariance, <1>1, PTL DEF Spec, StopsAfterUnit
=============================================================================
