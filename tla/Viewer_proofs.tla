----------------------------- MODULE Viewer_proofs -----------------------------
(***************************************************************************)
(* Back finds a screen, for any screens and any number of requests.  The   *)
(* strengthening follows a pop through the pipeline from the render thread *)
(* to the worker and back: what is ahead of it was asked for earlier, what *)
(* is behind it later, and unless something has overtaken, it is the last  *)
(* request there is, with the flag up or about to be.                      *)
(*                                                                         *)
(* At the end, the viewer's registry of texture ids, an instance T over    *)
(* variables of its own: well typed, never aliasing, never changing an id, *)
(* for any set of keys, any span and any hash.                             *)
(***************************************************************************)
EXTENDS FrontendRoutes, SequenceTheorems, TLAPS

Shown == [at |-> "present"]
Stages == {"boot", "booting", "idle", "routing", "answer"}

Typed ==
    /\ stack \in Seq(Paths) /\ ok \in BOOLEAN
    /\ latest \in Nat /\ depth \in Nat /\ pending \in BOOLEAN /\ overtaken \in BOOLEAN
    /\ asking \in [Threads -> Requests \cup {NotAsking, Shown}]
    /\ queue \in Requests \cup {None} /\ job \in Requests \cup {None}
    /\ payload \in Payloads \cup {None}
    /\ worker \in Stages
    /\ worker \in {"routing", "answer"} => job \in Requests
    /\ worker = "answer" /\ ok => stack # <<>>

\* Where a request is until it is answered, and a screen until it is presented.
Asking == asking["render"] \in Requests
Asked  == Asking /\ asking["render"].at = "queue"
Queued == queue # None
Taken  == worker \in {"routing", "answer"}
Coming == payload # None

\* Until the worker has queued its own request it routes nothing.
Booting ==
    /\ worker \in {"boot", "booting"} =>
         /\ stack = <<>> /\ depth = 0 /\ ~Coming
         /\ Queued => queue.op # "pop"
         /\ Asking => asking["render"].op # "pop"
    /\ worker = "booting" => asking["worker"] \in Requests /\ asking["worker"].op # "pop"
    /\ worker # "booting" => asking["worker"] = NotAsking

\* No number has not been given yet.
Numbered ==
    /\ \A t \in Threads : asking[t] \in Requests => asking[t].number <= latest
    /\ Queued => queue.number <= latest
    /\ Taken => job.number <= latest
    /\ Coming => payload.number <= latest

\* All that is ahead of a pop was asked for earlier, all that is behind it later.
PopInOrder ==
    /\ Asked /\ asking["render"].op = "pop" =>
         /\ Queued => queue.number < asking["render"].number
         /\ Taken => job.number < asking["render"].number
         /\ Coming => payload.number < asking["render"].number
    /\ Queued /\ queue.op = "pop" =>
         /\ Asked => queue.number < asking["render"].number
         /\ Taken => job.number < queue.number
         /\ Coming => payload.number < queue.number
    /\ Taken /\ job.op = "pop" =>
         /\ Asked => job.number < asking["render"].number
         /\ Queued => job.number < queue.number
         /\ Coming => payload.number < job.number

\* The screen of the last request knows no more of the stack than there is.
PayloadFits == Coming /\ payload.number = latest => payload.depth <= Len(stack)

\* A pop still to be routed that nothing has overtaken.
PopHolds(r) == r.number = latest /\ Len(stack) > 1 /\ (pending \/ Asking)

PopHeld ==
    ~overtaken =>
        /\ Asked /\ asking["render"].op = "pop" => PopHolds(asking["render"])
        /\ Queued /\ queue.op = "pop" => PopHolds(queue)
        /\ worker = "routing" /\ job.op = "pop" => PopHolds(job)

\* The stack is less deep than what is presented only with the screen of the last
\* request on its way and nothing behind it.
LagHeld ==
    ~overtaken /\ Len(stack) < depth =>
        /\ pending \/ Asking
        /\ ~Asked /\ ~Queued
        /\ \/ /\ worker = "answer" /\ ok /\ job.number = latest
              /\ Coming => payload.number < latest
           \/ ~Taken /\ Coming /\ payload.number = latest

IInv ==
    /\ Typed
    /\ Booting
    /\ Numbered
    /\ PopInOrder
    /\ PayloadFits
    /\ PopHeld
    /\ LagHeld

Rest == Booting /\ Numbered /\ PopInOrder /\ PayloadFits /\ PopHeld /\ LagHeld

-----------------------------------------------------------------------------
USE RouteAssumption DEF Threads, Stages

\* Records of different shapes, which only their fields tell apart.
LEMMA Shapes ==
    /\ NotAsking \notin Requests /\ Shown \notin Requests /\ Shown # NotAsking
    /\ NotAsking.at = "no" /\ Shown.at = "present"
    /\ \A r \in Requests : /\ r # None /\ r # NotAsking /\ r # Shown
                           /\ r.number \in Nat /\ r.at \in Places
                           /\ r.op = "pop" \/ (r.op \in {"push", "replace"} /\ r.path \in Paths)
    /\ \A p \in Payloads : p # None /\ p.number \in Nat /\ p.depth \in Nat
  BY DEF NotAsking, Shown, Requests, Payloads, Places

LEMMA Initially == Init => IInv
  <1> SUFFICES ASSUME Init PROVE IInv
      OBVIOUS
  <1> USE Shapes DEF Init
  <1>1. stack = <<>> /\ ok = TRUE /\ stack \in Seq(Paths) /\ Len(stack) = 0
        BY DEF Router!Init
  <1>2. Typed
        BY <1>1 DEF Typed
  <1>3. Booting /\ Numbered /\ PopInOrder
        BY <1>1 DEF Booting, Numbered, PopInOrder, Asked, Asking, Queued, Taken, Coming
  <1>4. PayloadFits /\ PopHeld /\ LagHeld
        BY <1>1 DEF PayloadFits, PopHeld, LagHeld, Asked, Asking, Queued, Taken, Coming
  <1> QED BY <1>2, <1>3, <1>4 DEF IInv

LEMMA PrefixFacts ==
    ASSUME NEW s \in Seq(Paths), NEW n \in Nat, \A i \in 1..n : s[i] \in Paths
    PROVE  SubSeq(s, 1, n) \in Seq(Paths) /\ Len(SubSeq(s, 1, n)) = n
  <1>1. SubSeq(s, 1, n) \in Seq(Paths)
        BY SubSeqProperties, SMT
  <1>2. Len(SubSeq(s, 1, n)) = n
        BY SubSeqProperties, SMT
  <1> QED BY <1>1, <1>2

LEMMA FrontFacts ==
    ASSUME NEW s \in Seq(Paths), s # <<>>
    PROVE  Router!Front(s) \in Seq(Paths) /\ Len(Router!Front(s)) = Len(s) - 1 /\ Len(s) > 0
  <1>1. Len(s) - 1 \in Nat /\ Len(s) > 0 /\ \A i \in 1..Len(s) - 1 : s[i] \in Paths
        BY EmptySeq, ElementOfSeq
  <1> QED BY <1>1, PrefixFacts, Zenon DEF Router!Front

LEMMA Returned ==
    /\ \A s : Router!Succeeds(s) => ok' \in BOOLEAN /\ ok' /\ stack' = s
    /\ Router!Fails => ok' \in BOOLEAN /\ ~ok' /\ stack' = stack
  BY Zenon DEF Router!Succeeds, Router!Fails

\* What a call of the router does to the stack.
LEMMA CallFacts ==
    ASSUME Typed, worker = "routing", Call
    PROVE  /\ stack' \in Seq(Paths) /\ ok' \in BOOLEAN /\ (ok' => stack' # <<>>)
           /\ job.op # "pop" => Len(stack') >= Len(stack)
           /\ job.op = "pop" /\ Len(stack) > 1 => ok' /\ Len(stack') = Len(stack) - 1
           /\ job.op = "pop" /\ Len(stack) <= 1 => stack' = stack
  <1>1. /\ stack \in Seq(Paths) /\ Len(stack) \in Nat /\ job \in Requests
        /\ job.op = "pop" \/ (job.op \in {"push", "replace"} /\ job.path \in Paths)
        BY Shapes DEF Typed
  <1>2. CASE job.op = "push"
    <2> DEFINE next == Append(stack, job.path)
    <2>1. Router!Succeeds(next) \/ Router!Fails
          BY <1>2 DEF Call, Router!Push
    <2>2. next \in Seq(Paths) /\ next # <<>> /\ Len(next) = Len(stack) + 1
          BY <1>1, <1>2, AppendProperties
    <2> HIDE DEF next
    <2> QED BY <1>1, <1>2, <2>1, <2>2, Returned
  <1>3. CASE job.op = "replace"
    <2> DEFINE next == Router!Replaced(job.path)
    <2>1. Router!Succeeds(next) \/ Router!Fails
          BY <1>3 DEF Call, Router!Replace
    <2>2. next \in Seq(Paths) /\ next # <<>> /\ Len(next) >= Len(stack)
      <3>1. CASE stack = <<>>
        <4>1. next = <<job.path>> /\ Len(stack) = 0
              BY <3>1 DEF Router!Replaced
        <4> QED BY <1>1, <1>3, <4>1
      <3>2. CASE stack # <<>>
        <4>1. next = Append(Router!Front(stack), job.path)
              BY <3>2 DEF Router!Replaced
        <4>2. Router!Front(stack) \in Seq(Paths) /\ Len(Router!Front(stack)) = Len(stack) - 1
              BY <1>1, <3>2, FrontFacts
        <4> QED BY <1>1, <1>3, <4>1, <4>2, AppendProperties
      <3> QED BY <3>1, <3>2
    <2> HIDE DEF next
    <2> QED BY <1>1, <1>3, <2>1, <2>2, Returned
  <1>4. CASE job.op = "pop"
    <2>1. Router!Pop
          BY <1>4 DEF Call
    <2>2. CASE Len(stack) > 1
      <3>1. Router!Succeeds(Router!Front(stack))
            BY <2>1, <2>2 DEF Router!Pop
      <3>2. Router!Front(stack) \in Seq(Paths) /\ Len(Router!Front(stack)) = Len(stack) - 1
            BY <1>1, <2>2, EmptySeq, FrontFacts
      <3>3. Router!Front(stack) # <<>>
            BY <1>1, <2>2, <3>2, EmptySeq
      <3> QED BY <1>1, <1>4, <2>2, <3>1, <3>2, <3>3, Returned
    <2>3. CASE Len(stack) <= 1
      <3>1. Router!Fails
            BY <1>1, <2>1, <2>3 DEF Router!Pop
      <3> QED BY <1>1, <1>4, <2>3, <3>1, Returned
    <2> QED BY <1>1, <2>2, <2>3
  <1> QED BY <1>1, <1>2, <1>3, <1>4

-----------------------------------------------------------------------------
USE DEF Asking, Asked, Queued, Taken, Coming, routing, view

\* A request that is not a Back, of the render thread or the starting worker.
LEMMA NavigateStep ==
    ASSUME IInv, NEW p \in Paths, NEW op \in {"push", "replace"}, Navigate(op, p)
    PROVE  IInv'
  <1> DEFINE r == [at |-> "queue", op |-> op, path |-> p, number |-> latest + 1]
  <1>1. /\ asking["render"] = NotAsking /\ latest' = latest + 1
        /\ asking' = [asking EXCEPT !["render"] = r]
        /\ overtaken' = (overtaken \/ UnderWay)
        /\ UNCHANGED <<stack, ok, queue, pending, payload, screenPending, active, depth, settled,
                       worker, job>>
        BY DEF Navigate, Asks
  <1>2. Typed /\ latest \in Nat /\ r \in Requests /\ r.number = latest + 1 /\ r.op # "pop"
        BY DEF IInv, Typed, Requests, Places
  <1>3. Typed'
        BY <1>1, <1>2 DEF Typed
  <1>4. asking'["render"] = r /\ asking'["worker"] = asking["worker"]
        BY <1>1, <1>2 DEF Typed
  <1> USE Shapes
  <1>5. Booting'
        BY <1>1, <1>2, <1>4 DEF IInv, Booting
  <1>6. Numbered'
        BY <1>1, <1>2, <1>4 DEF IInv, Typed, Numbered
  <1>7. PopInOrder'
        BY <1>1, <1>2, <1>4 DEF IInv, Typed, Numbered, PopInOrder
  <1>8. PayloadFits'
        BY <1>1, <1>2, <1>4 DEF IInv, Typed, Numbered, PayloadFits
  <1>9. PopHeld' /\ LagHeld'
        BY <1>1, <1>2, <1>4 DEF IInv, Typed, PopHeld, PopHolds, LagHeld, UnderWay
  <1> QED BY <1>3, <1>5, <1>6, <1>7, <1>8, <1>9 DEF IInv

\* The render thread asks Back: nothing was pending, so the stack is as deep as what
\* is presented, and nothing else is under way that a pop could meet.
LEMMA BackStep == ASSUME IInv, Back PROVE IInv'
  <1> DEFINE r == [at |-> "queue", op |-> "pop", path |-> None, number |-> latest + 1]
  <1>1. /\ asking["render"] = NotAsking /\ latest' = latest + 1 /\ ~pending /\ depth > 1
        /\ asking' = [asking EXCEPT !["render"] = r]
        /\ UNCHANGED <<stack, ok, queue, pending, payload, screenPending, active, depth, settled,
                       worker, job>>
        BY DEF Back, BackAllowed, Asks
  <1>2. (overtaken' <=> overtaken) /\ overtaken' \in BOOLEAN
        BY DEF Back, Asks, IInv, Typed
  <1>3. Typed /\ latest \in Nat /\ r \in Requests /\ r.number = latest + 1 /\ r.op = "pop"
        BY DEF IInv, Typed, Requests, Places
  <1>4. Typed'
        BY <1>1, <1>2, <1>3 DEF Typed
  <1>5. asking'["render"] = r /\ asking'["worker"] = asking["worker"]
        BY <1>1, <1>3 DEF Typed
  <1>6. worker \notin {"boot", "booting"}
        BY <1>1 DEF IInv, Booting
  <1> USE Shapes
  <1>7. Booting'
        BY <1>1, <1>5, <1>6 DEF IInv, Booting
  <1>8. Numbered'
        BY <1>1, <1>3, <1>5 DEF IInv, Typed, Numbered
  <1>9. PopInOrder'
        BY <1>1, <1>3, <1>5 DEF IInv, Typed, Numbered, PopInOrder
  <1>10. PayloadFits'
        BY <1>1, <1>3, <1>5 DEF IInv, Typed, Numbered, PayloadFits
  <1>11. ~overtaken => Len(stack) >= depth
        BY <1>1, <1>3 DEF IInv, Typed, LagHeld
  <1>12. PopHeld' /\ LagHeld'
        BY <1>1, <1>2, <1>3, <1>5, <1>11 DEF IInv, Typed, PopHeld, PopHolds, LagHeld
  <1> QED BY <1>4, <1>7, <1>8, <1>9, <1>10, <1>12 DEF IInv

\* The worker's own request: nothing has been routed yet.
LEMMA BootStep == ASSUME IInv, BootRoute PROVE IInv'
  <1> DEFINE r == [at |-> "queue", op |-> "replace", path |-> Boot, number |-> latest + 1]
  <1>1. /\ asking["worker"] = NotAsking /\ latest' = latest + 1
        /\ worker = "boot" /\ worker' = "booting"
        /\ asking' = [asking EXCEPT !["worker"] = r]
        /\ overtaken' = (overtaken \/ UnderWay)
        /\ UNCHANGED <<stack, ok, queue, pending, payload, screenPending, active, depth, settled, job>>
        BY DEF BootRoute, Asks
  <1>2. Typed /\ latest \in Nat /\ r \in Requests /\ r.number = latest + 1 /\ r.op # "pop"
        BY DEF IInv, Typed, Requests, Places
  <1>3. Typed'
        BY <1>1, <1>2 DEF Typed
  <1>4. asking'["worker"] = r /\ asking'["render"] = asking["render"]
        BY <1>1, <1>2 DEF Typed
  <1> USE Shapes
  <1>5. Booting'
        BY <1>1, <1>2, <1>4 DEF IInv, Booting
  <1>6. Numbered'
        BY <1>1, <1>2, <1>4 DEF IInv, Typed, Numbered
  <1>7. PopInOrder'
        BY <1>1, <1>2, <1>4 DEF IInv, PopInOrder, Booting
  <1>8. stack = <<>> /\ depth = 0 /\ ~Coming /\ Len(stack) = 0
        BY <1>1, EmptySeq DEF IInv, Booting
  <1>9. PayloadFits' /\ PopHeld' /\ LagHeld'
        BY <1>1, <1>2, <1>4, <1>8 DEF IInv, Booting, PayloadFits, PopHeld, LagHeld
  <1> QED BY <1>3, <1>5, <1>6, <1>7, <1>9 DEF IInv

\* A request is handed to the worker; a later one takes its place in the queue.
LEMMA QueueStep == ASSUME IInv, NEW t \in Threads, Queue(t) PROVE IInv'
  <1> USE Shapes
  <1> DEFINE r == [asking[t] EXCEPT !.at = "flag"]
  <1>1. /\ asking[t].at = "queue" /\ queue' = asking[t]
        /\ asking' = [asking EXCEPT ![t] = r]
        /\ UNCHANGED <<stack, ok, latest, pending, payload, screenPending, active, depth, settled,
                       overtaken, worker, job>>
        BY DEF Queue, QueueOf
  <1>2. Typed /\ asking[t] \in Requests
        BY <1>1 DEF IInv, Typed
  <1>3. r \in Requests /\ r.at = "flag" /\ r.op = asking[t].op /\ r.number = asking[t].number
        BY <1>2 DEF Requests, Places
  <1>4. /\ asking'[t] = r
        /\ \A u \in Threads \ {t} : asking'[u] = asking[u]
        BY <1>1, <1>2 DEF Typed
  <1>5. Typed'
        BY <1>1, <1>2, <1>3 DEF Typed
  <1>6. CASE t = "render"
    <2>1. Booting' /\ Numbered'
          BY <1>1, <1>2, <1>3, <1>4, <1>6 DEF IInv, Booting, Numbered
    <2>2. PopInOrder' /\ PayloadFits'
          BY <1>1, <1>2, <1>3, <1>4, <1>6 DEF IInv, PopInOrder, PayloadFits
    <2>3. PopHeld' /\ LagHeld'
          BY <1>1, <1>2, <1>3, <1>4, <1>6 DEF IInv, PopHeld, PopHolds, LagHeld
    <2> QED BY <1>5, <2>1, <2>2, <2>3 DEF IInv
  <1>7. CASE t = "worker"
    <2>1. worker = "booting" /\ asking[t].op # "pop" /\ depth = 0 /\ ~Coming /\ Len(stack) = 0
          BY <1>2, <1>7, EmptySeq DEF IInv, Booting
    <2>2. Booting' /\ Numbered'
          BY <1>1, <1>2, <1>3, <1>4, <1>7, <2>1 DEF IInv, Booting, Numbered
    <2>3. PopInOrder' /\ PayloadFits' /\ PopHeld' /\ LagHeld'
          BY <1>1, <1>2, <1>4, <1>7, <2>1
          DEF IInv, Booting, PopInOrder, PayloadFits, PopHeld, LagHeld
    <2> QED BY <1>5, <2>2, <2>3 DEF IInv
  <1> QED BY <1>6, <1>7

\* The transition is marked as pending: from here on that keeps Back away.
LEMMA FlagStep == ASSUME IInv, NEW t \in Threads, Flag(t) PROVE IInv'
  <1> USE Shapes
  <1>1. /\ asking[t].at = "flag" /\ pending' = TRUE
        /\ asking' = [asking EXCEPT ![t] = NotAsking]
        /\ worker' = IF t = "worker" THEN "idle" ELSE worker
        /\ UNCHANGED <<stack, ok, latest, queue, payload, screenPending, active, depth, settled,
                       overtaken, job>>
        BY DEF Flag
  <1>2. Typed /\ asking[t] \in Requests
        BY <1>1 DEF IInv, Typed
  <1>3. /\ asking'[t] = NotAsking
        /\ \A u \in Threads \ {t} : asking'[u] = asking[u]
        BY <1>1, <1>2 DEF Typed
  <1>4. Typed'
        BY <1>1, <1>2 DEF Typed
  <1>5. ~(Asked /\ t = "render")
        BY <1>1
  <1>6. t = "worker" => worker = "booting"
        BY <1>2 DEF IInv, Booting
  <1>7. Booting' /\ Numbered'
        BY <1>1, <1>2, <1>3, <1>6 DEF IInv, Booting, Numbered
  <1>8. PopInOrder' /\ PayloadFits'
        BY <1>1, <1>3, <1>6 DEF IInv, PopInOrder, PayloadFits
  <1>9. PopHeld' /\ LagHeld'
        BY <1>1, <1>3, <1>5, <1>6 DEF IInv, PopHeld, PopHolds, LagHeld
  <1> QED BY <1>4, <1>7, <1>8, <1>9 DEF IInv

LEMMA TakeStep == ASSUME IInv, Take PROVE IInv'
  <1> USE Shapes
  <1>1. /\ worker = "idle" /\ worker' = "routing" /\ queue # None /\ job' = queue /\ queue' = None
        /\ UNCHANGED <<stack, ok, latest, asking, pending, payload, screenPending, active, depth,
                       settled, overtaken>>
        BY DEF Take
  <1>2. Typed' /\ Booting' /\ Numbered'
        BY <1>1 DEF IInv, Typed, Booting, Numbered
  <1>3. PopInOrder' /\ PayloadFits'
        BY <1>1 DEF IInv, PopInOrder, PayloadFits
  <1>4. PopHeld' /\ LagHeld'
        BY <1>1 DEF IInv, PopHeld, PopHolds, LagHeld
  <1> QED BY <1>2, <1>3, <1>4 DEF IInv

\* The router is called: the only call that makes the stack less deep is a pop that
\* is the last request there is, and nothing is behind it.
LEMMA RoutesStep == ASSUME IInv, Routes PROVE IInv'
  <1> USE Shapes
  <1>1. /\ worker = "routing" /\ worker' = "answer" /\ Call
        /\ UNCHANGED <<latest, asking, queue, pending, payload, screenPending, active, depth,
                       settled, overtaken, job>>
        BY DEF Routes
  <1>2. Typed
        BY DEF IInv
  <1>3. /\ stack' \in Seq(Paths) /\ ok' \in BOOLEAN /\ (ok' => stack' # <<>>)
        /\ job.op # "pop" => Len(stack') >= Len(stack)
        /\ job.op = "pop" /\ Len(stack) > 1 => ok' /\ Len(stack') = Len(stack) - 1
        BY <1>1, <1>2, CallFacts
  <1>4. Len(stack) \in Nat /\ Len(stack') \in Nat
        BY <1>2, <1>3 DEF Typed
  <1>5. Typed' /\ Booting' /\ Numbered'
        BY <1>1, <1>2, <1>3 DEF IInv, Typed, Booting, Numbered
  <1>6. PopInOrder'
        BY <1>1 DEF IInv, PopInOrder
  <1>7. CASE job.op # "pop"
    <2>1. PayloadFits'
          BY <1>1, <1>2, <1>3, <1>4, <1>7 DEF IInv, Typed, PayloadFits
    <2>2. PopHeld'
          BY <1>1, <1>3, <1>4, <1>7 DEF IInv, PopHeld, PopHolds
    <2>3. ~overtaken => Len(stack) >= depth
          BY <1>1, <1>2, <1>4 DEF IInv, Typed, LagHeld
    <2>4. LagHeld'
          BY <1>1, <1>2, <1>3, <1>4, <1>7, <2>3 DEF Typed, LagHeld
    <2> QED BY <1>5, <1>6, <2>1, <2>2, <2>4 DEF IInv
  <1>8. CASE job.op = "pop"
    <2>1. job.number <= latest /\ job.number \in Nat /\ latest \in Nat
          BY <1>1, <1>2 DEF IInv, Typed, Numbered
    <2>2. Coming => payload.number < latest
          BY <1>1, <1>2, <1>8, <2>1 DEF IInv, Typed, PopInOrder
    <2>3. job.number = latest => ~Asked /\ ~Queued
          BY <1>1, <1>2, <1>8, <2>1 DEF IInv, Typed, PopInOrder, Numbered
    <2>4. ~overtaken => PopHolds(job)
          BY <1>1, <1>8 DEF IInv, PopHeld
    <2>5. PayloadFits'
          BY <1>1, <1>2, <2>1, <2>2 DEF Typed, PayloadFits
    <2>6. PopHeld'
          BY <1>1, <2>3, <2>4 DEF PopHeld, PopHolds
    <2>7. LagHeld'
          BY <1>1, <1>3, <1>8, <2>2, <2>3, <2>4 DEF LagHeld, PopHolds
    <2> QED BY <1>5, <1>6, <2>5, <2>6, <2>7 DEF IInv
  <1> QED BY <1>7, <1>8

\* What the worker answers: a screen, or the end of the transition.
LEMMA AnswerStep == ASSUME IInv, Answer PROVE IInv'
  <1> USE Shapes
  <1>1. /\ worker = "answer" /\ worker' = "idle" /\ job' = None
        /\ UNCHANGED <<stack, ok, latest, asking, queue, active, depth, overtaken>>
        BY DEF Answer
  <1>2. Typed /\ job \in Requests /\ job.number \in Nat /\ latest \in Nat /\ ok \in BOOLEAN
        BY <1>1 DEF IInv, Typed
  <1>3. CASE ok
    <2> DEFINE p == [path |-> Last(stack), depth |-> Len(stack), number |-> job.number]
    <2>1. payload' = p /\ UNCHANGED <<pending, settled>>
          BY <1>3 DEF Answer
    <2>2. stack \in Seq(Paths) /\ Len(stack) \in Nat /\ Len(stack) > 0
          BY <1>1, <1>2, <1>3, EmptySeq DEF Typed
    <2>3. Last(stack) \in Paths
          BY <2>2, ElementOfSeq DEF Last
    <2>4. p \in Payloads /\ p.number = job.number /\ p.depth = Len(stack)
          BY <1>2, <2>2, <2>3 DEF Payloads
    <2> HIDE DEF p
    <2>5. Typed' /\ Booting' /\ Numbered'
          BY <1>1, <1>2, <2>1, <2>4 DEF IInv, Typed, Booting, Numbered
    <2>6. PopInOrder' /\ PayloadFits'
          BY <1>1, <1>2, <2>1, <2>2, <2>4 DEF IInv, Typed, PopInOrder, PayloadFits
    <2>7. PopHeld' /\ LagHeld'
          BY <1>1, <1>2, <2>1, <2>4 DEF IInv, PopHeld, PopHolds, LagHeld
    <2> QED BY <2>5, <2>6, <2>7 DEF IInv
  <1>4. CASE ~ok
    <2>1. /\ UNCHANGED payload /\ pending' \in BOOLEAN
          /\ pending /\ job.number # latest => pending'
          BY <1>2, <1>4 DEF Answer, EndsTransition, Typed
    <2>2. Typed' /\ Booting' /\ Numbered'
          BY <1>1, <1>2, <2>1 DEF IInv, Typed, Booting, Numbered
    <2>3. PopInOrder' /\ PayloadFits'
          BY <1>1, <2>1 DEF IInv, PopInOrder, PayloadFits
    <2>4. Queued /\ queue.op = "pop" /\ queue.number = latest => job.number # latest
          BY <1>1, <1>2 DEF IInv, PopInOrder
    <2>5. PopHeld' /\ LagHeld'
          BY <1>1, <1>4, <2>1, <2>4 DEF IInv, PopHeld, PopHolds, LagHeld
    <2> QED BY <2>2, <2>3, <2>5 DEF IInv
  <1> QED BY <1>3, <1>4

LEMMA NoticeStep == ASSUME IInv, Notice PROVE IInv'
  <1> USE Shapes
  <1>1. /\ asking["render"] = NotAsking /\ asking' = [asking EXCEPT !["render"] = Shown]
        /\ UNCHANGED <<stack, ok, latest, queue, pending, payload, active, depth, settled,
                       overtaken, worker, job>>
        BY DEF Notice, Shown
  <1>2. Typed /\ Typed'
        BY <1>1 DEF IInv, Typed
  <1>3. asking'["render"] = Shown /\ asking'["worker"] = asking["worker"]
        BY <1>1, <1>2 DEF Typed
  <1>4. Booting' /\ Numbered'
        BY <1>1, <1>3 DEF IInv, Booting, Numbered
  <1>5. PopInOrder' /\ PayloadFits'
        BY <1>1, <1>3 DEF IInv, PopInOrder, PayloadFits
  <1>6. PopHeld' /\ LagHeld'
        BY <1>1, <1>3 DEF IInv, PopHeld, PopHolds, LagHeld
  <1> QED BY <1>2, <1>4, <1>5, <1>6 DEF IInv

\* The screen of the last request is shown: no pop is under way then, and the stack is
\* at least as deep as the screen says.
LEMMA PresentStep == ASSUME IInv, Present PROVE IInv'
  <1> USE Shapes
  <1>1. /\ asking["render"].at = "present" /\ asking' = [asking EXCEPT !["render"] = NotAsking]
        /\ payload' = None
        /\ UNCHANGED <<stack, ok, latest, queue, screenPending, worker, job>>
        BY DEF Present
  <1>2. Typed /\ ~Asking
        BY <1>1 DEF IInv, Typed, Places
  <1>3. asking'["render"] = NotAsking /\ asking'["worker"] = asking["worker"]
        BY <1>1, <1>2 DEF Typed
  <1>4. CASE Presents
    <2>1. /\ payload \in Payloads /\ Coming /\ payload.number = latest
          /\ depth' = payload.depth /\ pending' = FALSE /\ overtaken' = FALSE
          BY <1>2, <1>4 DEF Present, Presents, Typed
    <2>2. Len(stack) >= payload.depth /\ Len(stack) \in Nat
          BY <1>2, <2>1 DEF IInv, PayloadFits, Typed
    <2>3. (Queued => queue.op # "pop") /\ (Taken => job.op # "pop")
          BY <1>2, <2>1 DEF IInv, Typed, PopInOrder, Numbered
    <2>4. Typed' /\ Booting' /\ Numbered'
          BY <1>1, <1>2, <1>3, <2>1 DEF IInv, Typed, Booting, Numbered
    <2>5. PopInOrder' /\ PayloadFits'
          BY <1>1, <1>3, <2>3 DEF PopInOrder, PayloadFits
    <2>6. PopHeld'
          BY <1>1, <1>3, <2>3 DEF PopHeld
    <2>7. LagHeld'
          BY <1>1, <2>1, <2>2 DEF LagHeld
    <2> QED BY <2>4, <2>5, <2>6, <2>7 DEF IInv
  <1>5. CASE ~Presents
    <2>1. UNCHANGED <<pending, active, depth, settled, overtaken>>
          BY <1>5 DEF Present
    <2>2. ~(Coming /\ payload.number = latest)
          BY <1>5 DEF Presents
    <2>3. Typed' /\ Booting' /\ Numbered'
          BY <1>1, <1>2, <1>3, <2>1 DEF IInv, Typed, Booting, Numbered
    <2>4. PopInOrder' /\ PayloadFits'
          BY <1>1, <1>2, <1>3, <2>1 DEF IInv, PopInOrder, PayloadFits
    <2>5. PopHeld' /\ LagHeld'
          BY <1>1, <1>2, <1>3, <2>1, <2>2 DEF IInv, PopHeld, PopHolds, LagHeld
    <2> QED BY <2>3, <2>4, <2>5 DEF IInv
  <1> QED BY <1>4, <1>5

LEMMA Step == IInv /\ [Next]_vars => IInv'
  <1> SUFFICES ASSUME IInv, [Next]_vars PROVE IInv'
      OBVIOUS
  <1>1. CASE UNCHANGED vars
    <2>1. UNCHANGED <<stack, ok, latest, asking, queue, pending, payload, depth, overtaken,
                      worker, job>>
          BY <1>1 DEF vars
    <2> QED BY <2>1 DEF IInv, Typed, Booting, Numbered, PopInOrder, PayloadFits, PopHeld,
                        PopHolds, LagHeld
  <1>2. CASE User
        BY <1>2, BackStep, BootStep, NavigateStep DEF User
  <1>3. CASE Work
        BY <1>3, QueueStep, FlagStep, TakeStep, RoutesStep, AnswerStep, NoticeStep, PresentStep
        DEF Work
  <1> QED BY <1>1, <1>2, <1>3 DEF Next

\* Every request keeps its place in the pipeline, and what is presented is no deeper
\* than the stack but while a pop is on its way back.
THEOREM Pipeline == Spec => []IInv
  <1>1. Init => IInv
        BY Initially
  <1> QED BY <1>1, Step, PTL DEF Spec

\* An accepted Back is never answered with an empty stack, for any screens and any
\* number of requests in any interleaving, unless a navigation overtook another
\* request on the way (the worker's pop, bf6viewer.cpp:24429).
THEOREM BackSafe == Spec => []BackFindsScreen
  <1>1. IInv => BackFindsScreen
        BY DEF IInv, PopHeld, PopHolds, BackFindsScreen
  <1> QED BY <1>1, Pipeline, PTL

-----------------------------------------------------------------------------
CONSTANTS Keys, Span, Hash
VARIABLES ids, owners

T == INSTANCE TextureIds

\* Where the walk looks is an id, whatever the hash.
LEMMA CandidateIsId ==
    ASSUME T!SpanAssumption, NEW k \in Keys, NEW d \in T!Ids
    PROVE  T!Candidate(k, d) \in T!Ids
<1>1. Hash[k] + d \in Nat
  BY DEF T!SpanAssumption, T!Ids
<1> QED
  BY <1>1, SMT DEF T!SpanAssumption, T!Candidate, T!Ids

\* The registry's types: ids within the span and names among the keys, for the
\* pairs id_for adds one at a time.
THEOREM IdTypes == ASSUME T!SpanAssumption PROVE T!Spec => []T!TypeOK
<1>1. T!Init => T!TypeOK
  BY DEF T!Init, T!TypeOK
<1>2. T!TypeOK /\ [T!Next]_T!vars => T!TypeOK'
  <2> SUFFICES ASSUME T!TypeOK, [T!Next]_T!vars PROVE T!TypeOK'
    OBVIOUS
  <2>1. ASSUME NEW k \in Keys, T!IdFor(k) PROVE T!TypeOK'
    <3>1. PICK d \in T!Ids : /\ ids' = T!With(ids, k, T!Candidate(k, d))
                             /\ owners' = T!With(owners, T!Candidate(k, d), k)
      BY <2>1 DEF T!IdFor
    <3>2. T!Candidate(k, d) \in T!Ids
      BY CandidateIsId
    <3>3. DOMAIN ids' \subseteq Keys /\ ids' \in [DOMAIN ids' -> T!Ids]
      BY <3>1, <3>2 DEF T!TypeOK, T!With
    <3>4. DOMAIN owners' \subseteq T!Ids /\ owners' \in [DOMAIN owners' -> Keys]
      BY <3>1, <3>2 DEF T!TypeOK, T!With
    <3> QED
      BY <3>3, <3>4 DEF T!TypeOK
  <2>2. CASE UNCHANGED T!vars
    BY <2>2 DEF T!vars, T!TypeOK
  <2> QED
    BY <2>1, <2>2 DEF T!Next
<1> QED
  BY <1>1, <1>2, PTL DEF T!Spec

\* No two textures share an id: the walk ends at an id nobody owns, so the new pair
\* meets no other in either direction.
THEOREM NoAlias == T!Spec => []T!NeverAliased
<1>1. T!Init => T!NeverAliased
  BY DEF T!Init, T!NeverAliased
<1>2. T!NeverAliased /\ [T!Next]_T!vars => T!NeverAliased'
  <2> SUFFICES ASSUME T!NeverAliased, [T!Next]_T!vars PROVE T!NeverAliased'
    OBVIOUS
  <2>1. ASSUME NEW k \in Keys, T!IdFor(k) PROVE T!NeverAliased'
    <3>1. PICK d \in T!Ids : /\ T!Probed(k, d)
                             /\ ids' = T!With(ids, k, T!Candidate(k, d))
                             /\ owners' = T!With(owners, T!Candidate(k, d), k)
      BY <2>1 DEF T!IdFor
    <3> DEFINE c == T!Candidate(k, d)
    <3>2. k \notin DOMAIN ids /\ c \notin DOMAIN owners
      BY <2>1, <3>1 DEF T!IdFor, T!New, T!Probed
    <3>3. /\ DOMAIN ids' = DOMAIN ids \cup {k} /\ ids'[k] = c
          /\ \A z \in DOMAIN ids : ids'[z] = ids[z]
      BY <3>1, <3>2 DEF T!With
    <3>4. /\ DOMAIN owners' = DOMAIN owners \cup {c} /\ owners'[c] = k
          /\ \A z \in DOMAIN owners : owners'[z] = owners[z]
      BY <3>1, <3>2 DEF T!With
    <3> QED
      BY <3>2, <3>3, <3>4 DEF T!NeverAliased
  <2>2. CASE UNCHANGED T!vars
    BY <2>2 DEF T!vars, T!NeverAliased
  <2> QED
    BY <2>1, <2>2 DEF T!Next
<1> QED
  BY <1>1, <1>2, PTL DEF T!Spec

\* An id is its texture's for good: only a key without one is given one.
THEOREM IdsStay == T!Spec => T!IdsKept
<1>1. [T!Next]_T!vars => [\A k \in DOMAIN ids : k \in DOMAIN ids' /\ ids'[k] = ids[k]]_T!vars
  <2> SUFFICES ASSUME NEW k \in Keys, T!IdFor(k)
                PROVE  \A z \in DOMAIN ids : z \in DOMAIN ids' /\ ids'[z] = ids[z]
    BY DEF T!Next
  <2>1. PICK d \in T!Ids : ids' = T!With(ids, k, T!Candidate(k, d))
    BY DEF T!IdFor
  <2>2. k \notin DOMAIN ids
    BY DEF T!IdFor, T!New
  <2> QED
    BY <2>1, <2>2 DEF T!With
<1> QED
  BY <1>1, PTL DEF T!Spec, T!IdsKept
=============================================================================
