----------------------------- MODULE FrontendRoutes -----------------------------
(***************************************************************************)
(* Navigation between front-end screens in the viewer: a request is        *)
(* numbered and queued by the render thread, routed by the worker through  *)
(* module ScreenRouter, and its screen presented by the render thread, if  *)
(* no later request was made.  The worker itself makes the first request,  *)
(* at a moment when the render thread already may.  (Requests:             *)
(* bf6viewer.cpp:6486-6517; worker: 24359-24447; render: 24638-24707.)     *)
(***************************************************************************)
EXTENDS Naturals, Sequences, SequencesExt

CONSTANTS Paths, None, Boot,   \* Boot: the screen the worker asks for
          MaxRequests          \* bound

Places == {"queue", "flag"}
Requests ==
    [at : Places, op : {"push", "replace"}, path : Paths, number : Nat]
      \cup [at : Places, op : {"pop"}, path : {None}, number : Nat]
Payloads == [path : Paths, depth : Nat, number : Nat]

ASSUME RouteAssumption == Boot \in Paths /\ None \notin Paths \cup Requests \cup Payloads

VARIABLES stack, ok,                      \* the router's
          latest,                         \* g_runtimeUiLatestRequest
          asking,                         \* per thread: the request it is making
          queue,                          \* g_runtimeUiRequests
          pending,                        \* g_runtimeUiNavigationPending
          payload, screenPending,         \* a routed screen on its way
          active, depth,                  \* what is presented
          worker, job,
          settled,                        \* history: latest number applied or refused
          early,                          \* history: latest number taken while a user and
                                        \* the worker's first request may have raced
          overtaken                       \* history: since a screen was presented, one was
                                        \* asked for while another request was under way

vars == <<stack, ok, latest, asking, queue, pending, payload, screenPending,
          active, depth, worker, job, settled, early, overtaken>>
routing == <<stack, ok>>
view    == <<active, depth, settled, overtaken>>

Router == INSTANCE ScreenRouter

Threads == {"render", "worker"}
NotAsking == [at |-> "no"]

Init ==
    /\ Router!Init
    /\ latest = 0 /\ asking = [t \in Threads |-> NotAsking] /\ queue = None /\ pending = FALSE
    /\ payload = None /\ screenPending = FALSE
    /\ active = None /\ depth = 0 /\ settled = 0
    /\ worker = "boot" /\ job = None /\ early = 0 /\ overtaken = FALSE

\* A request is queued, being routed, or its screen on the way back.
UnderWay == queue # None \/ worker \in {"routing", "answer"} \/ payload # None

Asks(t, op, path) ==
    /\ asking[t] = NotAsking /\ latest < MaxRequests
    /\ latest' = latest + 1
    /\ asking' = [asking EXCEPT ![t] =
                    [at |-> "queue", op |-> op, path |-> path, number |-> latest + 1]]
    /\ overtaken' = (overtaken \/ (op # "pop" /\ UnderWay))

ByUser == early' = IF worker \in {"boot", "booting"} THEN latest + 1 ELSE early

Navigate(op, path) ==
    /\ Asks("render", op, path) /\ ByUser
    /\ UNCHANGED <<routing, queue, pending, payload, screenPending, active, depth, settled, worker, job>>

\* RequestRuntimeUiBack: while a transition is pending Back is consumed.
BackAllowed_Unguarded == depth > 1
BackAllowed == ~pending /\ depth > 1

Back ==
    /\ BackAllowed
    /\ Asks("render", "pop", None) /\ ByUser
    /\ UNCHANGED <<routing, queue, pending, payload, screenPending, active, depth, settled, worker, job>>

BootRoute ==
    /\ worker = "boot" /\ worker' = "booting"
    /\ Asks("worker", "replace", Boot)
    /\ early' = IF early > 0 THEN latest + 1 ELSE 0
    /\ UNCHANGED <<routing, queue, pending, payload, screenPending, active, depth, settled, job>>

QueueOf_Oldest(r) == IF queue = None THEN r ELSE queue
QueueOf(r) == r

\* The number, the queue and the flag are written one after the other.
Queue(t) ==
    /\ asking[t].at = "queue"
    /\ queue' = QueueOf(asking[t])
    /\ asking' = [asking EXCEPT ![t].at = "flag"]
    /\ UNCHANGED <<routing, latest, pending, payload, screenPending, view, worker, job, early>>

Flag(t) ==
    /\ asking[t].at = "flag"
    /\ pending' = TRUE /\ asking' = [asking EXCEPT ![t] = NotAsking]
    /\ worker' = IF t = "worker" THEN "idle" ELSE worker
    /\ UNCHANGED <<routing, latest, queue, payload, screenPending, view, job, early>>

-----------------------------------------------------------------------------
Take ==
    /\ worker = "idle" /\ queue # None
    /\ worker' = "routing" /\ job' = queue /\ queue' = None
    /\ UNCHANGED <<routing, latest, asking, pending, payload, screenPending, view, early>>

Call == \/ job.op = "push" /\ Router!Push(job.path)
        \/ job.op = "replace" /\ Router!Replace(job.path)
        \/ job.op = "pop" /\ Router!Pop

Routes ==
    /\ worker = "routing" /\ worker' = "answer"
    /\ Call
    /\ UNCHANGED <<latest, asking, queue, pending, payload, screenPending, view, job, early>>

EndsTransition == job.number = latest

\* A routed screen is handed over; a refusal ends the transition, unless a later
\* request is under way.
Answer ==
    /\ worker = "answer" /\ worker' = "idle" /\ job' = None
    /\ IF ok
         THEN /\ payload' = [path |-> Last(stack), depth |-> Len(stack), number |-> job.number]
              /\ screenPending' = TRUE
              /\ UNCHANGED <<pending, settled>>
         ELSE /\ pending' = (pending /\ ~EndsTransition)
              /\ settled' = IF EndsTransition THEN latest ELSE settled
              /\ UNCHANGED <<payload, screenPending>>
    /\ UNCHANGED <<routing, latest, asking, queue, active, depth, early, overtaken>>

\* The render thread is not inside a request of its own.
Notice ==
    /\ asking["render"] = NotAsking /\ screenPending
    /\ screenPending' = FALSE /\ asking' = [asking EXCEPT !["render"] = [at |-> "present"]]
    /\ UNCHANGED <<routing, latest, queue, pending, payload, view, worker, job, early>>

Presents == payload # None /\ payload.number = latest

Present ==
    /\ asking["render"].at = "present"
    /\ asking' = [asking EXCEPT !["render"] = NotAsking]
    /\ IF Presents
         THEN /\ active' = payload.path /\ depth' = payload.depth
              /\ pending' = FALSE /\ settled' = payload.number /\ overtaken' = FALSE
         ELSE UNCHANGED <<pending, view>>
    /\ payload' = None
    /\ UNCHANGED <<routing, latest, queue, screenPending, worker, job, early>>

User == Back \/ BootRoute \/ \E p \in Paths, op \in {"push", "replace"} : Navigate(op, p)
Work == (\E t \in Threads : Queue(t) \/ Flag(t)) \/ Take \/ Routes \/ Answer \/ Notice \/ Present

Next == User \/ Work
Spec == Init /\ [][Next]_vars
FairSpec == Spec /\ WF_vars(BootRoute)
    /\ \A t \in Threads : WF_vars(Queue(t)) /\ WF_vars(Flag(t))
    /\ WF_vars(Take) /\ WF_vars(Routes) /\ WF_vars(Answer) /\ WF_vars(Notice) /\ WF_vars(Present)

-----------------------------------------------------------------------------
\* A Back that was accepted finds a screen under the current one when the worker
\* gets to it, whatever was routed or refused in between and whichever thread asked,
\* unless a navigation has overtaken another request since a screen was last shown:
\* the screen of the one overtaken is dropped, and if the other is refused, Back is
\* judged by a depth the stack no longer has.
BackFindsScreen == worker = "routing" /\ job.op = "pop" /\ ~overtaken => Len(stack) > 1

\* Every request is presented or refused in the end, or there is a later one.  Not so
\* where a user's request runs beside the worker's first: the two may be numbered and
\* queued in opposite orders, and the one queued then passes for a superseded one.
RouteSettles ==
    \A n \in 1..MaxRequests : latest = n ~> (settled = n \/ latest # n \/ n <= early)
=============================================================================
