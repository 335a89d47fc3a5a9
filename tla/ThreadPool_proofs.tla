--------------------------- MODULE ThreadPool_proofs ---------------------------
(***************************************************************************)
(* The worker pool for any number of workers and tasks.  IInv strengthens  *)
(* the safety properties of ThreadPool until it is inductive: the queue    *)
(* and the workers together hold every unfinished task exactly once, and   *)
(* a worker leaves only a pool that is being destroyed.                    *)
(***************************************************************************)
EXTENDS ThreadPool, FiniteSetTheorems, TLAPS

Busy(w) == pc[w] \in {"run", "count"}

\* The queue holds exactly the tasks whose status is "queued", each once.
QueueHoldsQueued ==
    /\ \A i \in 1..Len(queue) : status[queue[i]] = "queued"
    /\ \A i, j \in 1..Len(queue) : queue[i] = queue[j] => i = j
    /\ \A t \in Tasks : status[t] = "queued" => \E i \in 1..Len(queue) : queue[i] = t

\* The busy workers hold exactly the tasks that were taken and not finished.
WorkersHoldTaken ==
    /\ \A w \in Workers : pc[w] = "run" => status[job[w]] = "running"
    /\ \A w \in Workers : pc[w] = "count" => status[job[w]] = "returned"
    /\ \A v, w \in Workers : Busy(v) /\ Busy(w) /\ job[v] = job[w] => v = w
    /\ \A t \in Tasks : status[t] \in {"running", "returned"} =>
           \E w \in Workers : Busy(w) /\ job[w] = t

\* Workers leave only after the destructor has begun, and it ends after them.
Shutdown ==
    /\ stopping <=> pc[Owner] \in {"stop", "join", "gone"}
    /\ \A w \in Workers : pc[w] = "gone" => stopping
    /\ pc[Owner] = "gone" => \A w \in Workers : pc[w] = "gone"

IInv ==
    /\ TypeOK
    /\ QueueHoldsQueued
    /\ WorkersHoldTaken
    /\ Shutdown
    /\ CountExact
    /\ NoLostWakeup
    /\ WaiterNotForgotten

-----------------------------------------------------------------------------
USE PoolAssumption DEF Threads, WorkerPC, OwnerPC, TaskStatus

\* Every state component keeps its type, whatever a step does.
LEMMA TypeStep == TypeOK /\ QueueHoldsQueued /\ WorkersHoldTaken /\ CountExact /\ [Next]_vars
                  => TypeOK'
  <1> SUFFICES ASSUME TypeOK, CountExact, WorkersHoldTaken, [Next]_vars PROVE TypeOK'
      OBVIOUS
  <1>1. CASE UNCHANGED vars
        BY <1>1 DEF TypeOK, vars
  <1>2. ASSUME NEW x \in Threads, NEW t \in Tasks, Submit(x, t) PROVE TypeOK'
        BY <1>2 DEF TypeOK, Submit, MaySubmit, Publish
  <1>3. ASSUME NEW x \in Threads, Notify(x) PROVE TypeOK'
        BY <1>3 DEF TypeOK, Notify, WakeOne, Sleepers
  <1>4. ASSUME NEW x \in Threads, Spurious(x) PROVE TypeOK'
        BY <1>4 DEF TypeOK, Spurious
  <1>5. ASSUME NEW w \in Workers, Take(w) PROVE TypeOK'
        BY <1>5 DEF TypeOK, Take
  <1>6. ASSUME NEW w \in Workers, Leave(w) \/ Sleep(w) \/ Return(w) PROVE TypeOK'
        BY <1>6 DEF TypeOK, Leave, LeaveTest, Sleep, Return
  <1>7. ASSUME NEW w \in Workers, CountOff(w) PROVE TypeOK'
    <2>1. job[w] \in Live
          BY <1>7 DEF TypeOK, CountOff, WorkersHoldTaken, Live
    <2>2. IsFiniteSet(Live) /\ Live # {}
          BY <2>1, FS_Subset DEF Live
    <2>3. outstanding \in Nat \ {0}
          BY <2>2, FS_EmptySet, FS_CardinalityType DEF CountExact, TypeOK
    <2> QED BY <1>7, <2>3 DEF TypeOK, CountOff, OwnerAfter
  <1>8. CASE WaitCall \/ WaitBlock \/ WaitReturn \/ Destroy \/ Join
    <2>1. PICK from \in OwnerPC, to \in OwnerPC :
            OwnerMove(from, to) /\ stopping' \in BOOLEAN
          BY <1>8 DEF TypeOK, WaitCall, WaitBlock, WaitReturn, Destroy, Join
    <2>2. pc' = [pc EXCEPT ![Owner] = to]
          BY <2>1 DEF OwnerMove
    <2> QED BY <2>1, <2>2 DEF TypeOK, OwnerMove
  <1>9. CASE NotifyAll
        BY <1>9 DEF TypeOK, NotifyAll, AllAwake
  <1>10. CASE Finished
        BY <1>10 DEF TypeOK, Finished, vars
  <1> QED BY <1>1, <1>2, <1>3, <1>4, <1>5, <1>6, <1>7, <1>8, <1>9, <1>10 DEF Next, Work

\* Only submit and Take change the queue, and they move one task at its ends.
LEMMA QueueStep == IInv /\ [Next]_vars => QueueHoldsQueued'
  <1> SUFFICES ASSUME IInv, [Next]_vars PROVE QueueHoldsQueued'
      OBVIOUS
  <1> USE DEF IInv
  <1>1. CASE UNCHANGED <<queue, status>>
        BY <1>1 DEF QueueHoldsQueued
  <1>2. ASSUME NEW x \in Threads, NEW t \in Tasks, Submit(x, t) PROVE QueueHoldsQueued'
    <2>1. /\ queue' = Append(queue, t) /\ status[t] = "new"
          /\ status' = [status EXCEPT ![t] = "queued"]
          BY <1>2 DEF Submit, Publish
    <2>2. /\ Len(queue') = Len(queue) + 1 /\ queue'[Len(queue) + 1] = t
          /\ \A i \in 1..Len(queue) : queue'[i] = queue[i] /\ queue[i] \in Tasks
          BY <2>1 DEF TypeOK
    <2> QED BY <2>1, <2>2 DEF QueueHoldsQueued, TypeOK
  <1>3. ASSUME NEW w \in Workers, Take(w) PROVE QueueHoldsQueued'
    <2>1. /\ queue # <<>> /\ queue' = Tail(queue)
          /\ status' = [status EXCEPT ![Head(queue)] = "running"]
          BY <1>3 DEF Take
    <2>2. /\ Len(queue) \in Nat \ {0} /\ Len(queue') = Len(queue) - 1
          /\ \A i \in 1..Len(queue') : queue'[i] = queue[i + 1]
          /\ Head(queue) = queue[1]
          /\ \A i \in 1..Len(queue) : queue[i] \in Tasks
          BY <2>1 DEF TypeOK
    <2>3. \A i \in 1..Len(queue') : status'[queue'[i]] = "queued"
          BY <2>1, <2>2 DEF QueueHoldsQueued, TypeOK
    <2>4. \A i, j \in 1..Len(queue') : queue'[i] = queue'[j] => i = j
          BY <2>1, <2>2 DEF QueueHoldsQueued, TypeOK
    <2>5. ASSUME NEW t \in Tasks, status'[t] = "queued"
          PROVE \E i \in 1..Len(queue') : queue'[i] = t
      <3>1. status[t] = "queued" /\ t # queue[1]
            BY <2>1, <2>2, <2>5 DEF TypeOK
      <3>2. PICK k \in 1..Len(queue) : queue[k] = t
            BY <3>1 DEF QueueHoldsQueued
      <3>3. k - 1 \in 1..Len(queue') /\ queue'[k - 1] = t
            BY <2>2, <3>1, <3>2
      <3> QED BY <3>3
    <2> QED BY <2>3, <2>4, <2>5 DEF QueueHoldsQueued
  <1>4. ASSUME NEW w \in Workers, Return(w) \/ CountOff(w) PROVE QueueHoldsQueued'
    <2>1. /\ status[job[w]] \in {"running", "returned"} /\ queue' = queue
          /\ \/ status' = [status EXCEPT ![job[w]] = "returned"]
             \/ status' = [status EXCEPT ![job[w]] = "done"]
          BY <1>4 DEF Return, CountOff, WorkersHoldTaken, TypeOK
    <2>2. \A i \in 1..Len(queue) : queue[i] \in Tasks
          BY DEF TypeOK
    <2> QED BY <2>1, <2>2 DEF QueueHoldsQueued, TypeOK
  <1> QED BY <1>1, <1>2, <1>3, <1>4
          DEF Next, Work, Notify, Spurious, Leave, Sleep, WaitCall, WaitBlock, WaitReturn,
              Destroy, NotifyAll, Join, OwnerMove, Finished, vars

\* A worker's step changes its own task only, and takes one nobody else has.
LEMMA WorkersStep == IInv /\ [Next]_vars => WorkersHoldTaken'
  <1> SUFFICES ASSUME IInv, [Next]_vars PROVE WorkersHoldTaken'
      OBVIOUS
  <1> USE DEF IInv, Busy
  <1>1. CASE UNCHANGED vars
        BY <1>1 DEF WorkersHoldTaken, vars
  <1>2. ASSUME NEW x \in Threads, NEW t \in Tasks, Submit(x, t) PROVE WorkersHoldTaken'
    <2>1. /\ status[t] = "new" /\ status' = [status EXCEPT ![t] = "queued"]
          /\ pc' = pc /\ job' = job
          BY <1>2 DEF Submit
    <2> QED BY <2>1 DEF WorkersHoldTaken, TypeOK
  <1>3. ASSUME NEW w \in Workers, Take(w) PROVE WorkersHoldTaken'
    <2> DEFINE t == Head(queue)
    <2>1. /\ t \in Tasks /\ status[t] = "queued"
          /\ status' = [status EXCEPT ![t] = "running"]
          /\ job' = [job EXCEPT ![w] = t]
          /\ pc[w] = "check" /\ pc' = [pc EXCEPT ![w] = "run"]
          BY <1>3 DEF Take, TypeOK, QueueHoldsQueued
    <2>2. \A v \in Workers : Busy(v) => job[v] \in Tasks /\ job[v] # t
          BY <2>1 DEF WorkersHoldTaken, TypeOK
    <2> HIDE DEF t
    <2> QED BY <2>1, <2>2 DEF WorkersHoldTaken, TypeOK
  <1>4. ASSUME NEW w \in Workers, Return(w) PROVE WorkersHoldTaken'
    <2>1. /\ pc[w] = "run" /\ pc' = [pc EXCEPT ![w] = "count"] /\ job' = job
          /\ status' = [status EXCEPT ![job[w]] = "returned"]
          /\ job[w] \in Tasks
          BY <1>4 DEF Return, TypeOK
    <2> QED BY <2>1 DEF WorkersHoldTaken, TypeOK
  <1>5. ASSUME NEW w \in Workers, CountOff(w) PROVE WorkersHoldTaken'
    <2>1. /\ pc[w] = "count" /\ job' = job /\ job[w] \in Tasks
          /\ status' = [status EXCEPT ![job[w]] = "done"]
          /\ \A v \in Workers : pc'[v] = IF v = w THEN "check" ELSE pc[v]
          BY <1>5 DEF CountOff, TypeOK
    <2> QED BY <2>1 DEF WorkersHoldTaken, TypeOK
  <1>6. ASSUME /\ job' = job /\ status' = status
               /\ \A w \in Workers : pc'[w] # pc[w] => pc[w] \in {"check", "asleep"}
               /\ \A w \in Workers : pc'[w] # pc[w] => pc'[w] \notin {"run", "count"}
        PROVE  WorkersHoldTaken'
        BY <1>6 DEF WorkersHoldTaken
  <1>7. ASSUME NEW x \in Threads, Notify(x) \/ Spurious(x) PROVE WorkersHoldTaken'
        BY <1>6, <1>7 DEF Notify, WakeOne, Sleepers, Spurious, TypeOK
  <1>8. ASSUME NEW w \in Workers, Leave(w) \/ Sleep(w) PROVE WorkersHoldTaken'
        BY <1>6, <1>8 DEF Leave, Sleep, TypeOK
  <1>9. CASE WaitCall \/ WaitBlock \/ WaitReturn \/ Destroy \/ Join
    <2>1. PICK from, to : OwnerMove(from, to)
          BY <1>9 DEF WaitCall, WaitBlock, WaitReturn, Destroy, Join
    <2> QED BY <1>6, <2>1 DEF OwnerMove, TypeOK
  <1>10. CASE NotifyAll
         BY <1>6, <1>10 DEF NotifyAll, AllAwake, TypeOK
  <1> QED BY <1>1, <1>2, <1>3, <1>4, <1>5, <1>7, <1>8, <1>9, <1>10
          DEF Next, Work, Finished

\* The counter follows the set of unfinished tasks: submit adds one to it,
\* counting off removes one, and no other step changes it.
LEMMA CountStep == IInv /\ [Next]_vars => CountExact'
  <1> SUFFICES ASSUME IInv, [Next]_vars PROVE CountExact'
      OBVIOUS
  <1> USE DEF IInv
  <1>1. IsFiniteSet(Live) /\ Cardinality(Live) = outstanding /\ outstanding \in Nat
        BY FS_Subset DEF Live, CountExact, TypeOK
  <1>2. ASSUME Live' = Live, outstanding' = outstanding PROVE CountExact'
        BY <1>1, <1>2 DEF CountExact
  <1>3. ASSUME NEW x \in Threads, NEW t \in Tasks, Submit(x, t) PROVE CountExact'
    <2>1. /\ status[t] = "new" /\ status' = [status EXCEPT ![t] = "queued"]
          /\ outstanding' = outstanding + 1
          BY <1>3 DEF Submit, Publish
    <2>2. t \notin Live /\ Live' = Live \cup {t}
          BY <2>1 DEF Live, TypeOK
    <2> QED BY <1>1, <2>1, <2>2, FS_AddElement DEF CountExact
  <1>4. ASSUME NEW w \in Workers, CountOff(w) PROVE CountExact'
    <2>1. /\ job[w] \in Live /\ outstanding' = outstanding - 1
          /\ status' = [status EXCEPT ![job[w]] = "done"]
          BY <1>4 DEF CountOff, WorkersHoldTaken, TypeOK, Live
    <2>2. Live' = Live \ {job[w]}
          BY <2>1 DEF Live, TypeOK
    <2> QED BY <1>1, <2>1, <2>2, FS_RemoveElement DEF CountExact
  <1>5. ASSUME NEW w \in Workers, Take(w) PROVE CountExact'
    <2>1. /\ Head(queue) \in Tasks /\ status[Head(queue)] = "queued"
          /\ status' = [status EXCEPT ![Head(queue)] = "running"]
          /\ outstanding' = outstanding
          BY <1>5 DEF Take, QueueHoldsQueued, TypeOK
    <2>2. Live' = Live
          BY <2>1 DEF Live, TypeOK
    <2> QED BY <1>2, <2>1, <2>2
  <1>6. ASSUME NEW w \in Workers, Return(w) PROVE CountExact'
    <2>1. /\ job[w] \in Tasks /\ status[job[w]] = "running"
          /\ status' = [status EXCEPT ![job[w]] = "returned"]
          /\ outstanding' = outstanding
          BY <1>6 DEF Return, WorkersHoldTaken, TypeOK
    <2>2. Live' = Live
          BY <2>1 DEF Live, TypeOK
    <2> QED BY <1>2, <2>1, <2>2
  <1>7. CASE UNCHANGED <<outstanding, status>>
        BY <1>2, <1>7 DEF Live
  <1> QED BY <1>3, <1>4, <1>5, <1>6, <1>7
          DEF Next, Work, Notify, Spurious, Leave, Sleep, WaitCall, WaitBlock, WaitReturn,
              Destroy, NotifyAll, Join, OwnerMove, Finished, vars

\* The owner's own moves leave every worker where it is.
LEMMA OwnerMoves ==
    ASSUME TypeOK, NEW from, NEW to, OwnerMove(from, to)
    PROVE  /\ pc[Owner] = from /\ pc'[Owner] = to
           /\ \A w \in Workers : pc'[w] = pc[w]
           /\ UNCHANGED <<queue, outstanding, job, notifying, status>>
  BY DEF OwnerMove, TypeOK

\* Nobody leaves before the destructor, and it joins everybody.
LEMMA ShutdownStep == IInv /\ [Next]_vars => Shutdown'
  <1> SUFFICES ASSUME TypeOK, Shutdown, [Next]_vars PROVE Shutdown'
      BY DEF IInv
  <1>1. CASE UNCHANGED vars
        BY <1>1 DEF Shutdown, vars
  <1>2. ASSUME NEW x \in Threads, NEW t \in Tasks, Submit(x, t) PROVE Shutdown'
        BY <1>2 DEF Shutdown, Submit
  <1>3. ASSUME NEW x \in Threads, Notify(x) \/ Spurious(x) PROVE Shutdown'
        BY <1>3 DEF Shutdown, TypeOK, Notify, WakeOne, Sleepers, Spurious
  <1>4. ASSUME NEW w \in Workers, Work(w) PROVE Shutdown'
    <2>1. /\ stopping' = stopping /\ pc[w] # "gone"
          /\ pc'[w] = "gone" => stopping
          /\ \A v \in Workers \ {w} : pc'[v] = pc[v]
          /\ pc'[Owner] = pc[Owner] \/ (pc[Owner] = "asleep" /\ pc'[Owner] = "wait")
          BY <1>4 DEF TypeOK, Work, Take, Leave, LeaveTest, Sleep, Return, CountOff, OwnerAfter
    <2> QED BY <2>1 DEF Shutdown
  <1>5. CASE WaitCall
        BY <1>5, OwnerMoves DEF WaitCall, Shutdown
  <1>6. CASE WaitBlock
        BY <1>6, OwnerMoves DEF WaitBlock, Shutdown
  <1>7. CASE WaitReturn
        BY <1>7, OwnerMoves DEF WaitReturn, Shutdown
  <1>8. CASE Destroy
        BY <1>8, OwnerMoves DEF Destroy, Shutdown
  <1>9. CASE Join
        BY <1>9, OwnerMoves DEF Join, Shutdown
  <1>10. CASE NotifyAll
         BY <1>10 DEF NotifyAll, AllAwake, Shutdown, TypeOK
  <1>11. CASE Finished
         BY <1>1, <1>11 DEF Finished
  <1> QED BY <1>1, <1>2, <1>3, <1>4, <1>5, <1>6, <1>7, <1>8, <1>9, <1>10, <1>11 DEF Next

\* A worker falls asleep only on an empty queue, and the task that ends the
\* emptiness brings a notification with it.
LEMMA WakeupStep == IInv /\ [Next]_vars => NoLostWakeup'
  <1> SUFFICES ASSUME IInv, [Next]_vars PROVE NoLostWakeup'
      OBVIOUS
  <1> DEFINE Awake(w) == pc[w] \in {"check", "run", "count"}
  <1> USE DEF IInv, Sleepers
  <1>1. CASE UNCHANGED vars
        BY <1>1 DEF NoLostWakeup, vars
  <1>2. ASSUME NEW x \in Threads, NEW t \in Tasks, Submit(x, t) PROVE NoLostWakeup'
    <2>1. pc' = pc /\ notifying' # {}
          BY <1>2 DEF Submit
    <2>2. \E w \in Workers : pc[w] # "gone"
          BY <1>2 DEF Submit, MaySubmit, Shutdown
    <2> QED BY <2>1, <2>2 DEF NoLostWakeup, TypeOK
  <1>3. ASSUME NEW x \in Threads, Notify(x) PROVE NoLostWakeup'
    <2>1. CASE Sleepers = {}
          BY <1>3, <2>1 DEF NoLostWakeup, Notify, WakeOne
    <2>2. CASE Sleepers # {}
      <3>1. PICK w \in Workers : pc' = [pc EXCEPT ![w] = "check"]
            BY <1>3, <2>2 DEF Notify, WakeOne
      <3>2. Awake(w)'
            BY <3>1 DEF TypeOK
      <3> QED BY <3>2 DEF NoLostWakeup
    <2> QED BY <2>1, <2>2
  <1>4. ASSUME NEW w \in Workers, Take(w) \/ Return(w) \/ CountOff(w) PROVE NoLostWakeup'
    <2>1. Awake(w)'
          BY <1>4 DEF Take, Return, CountOff, TypeOK
    <2> QED BY <2>1 DEF NoLostWakeup
  <1>5. ASSUME NEW w \in Workers, Leave(w) \/ Sleep(w) PROVE NoLostWakeup'
        BY <1>5 DEF NoLostWakeup, Leave, LeaveTest, Sleep
  <1>6. ASSUME NEW x \in Threads, Spurious(x) PROVE NoLostWakeup'
    <2>1. CASE x = Owner
          BY <1>6, <2>1 DEF NoLostWakeup, Spurious, TypeOK
    <2>2. CASE x \in Workers
      <3>1. Awake(x)'
            BY <1>6, <2>2 DEF Spurious, TypeOK
      <3> QED BY <2>2, <3>1 DEF NoLostWakeup
    <2> QED BY <2>1, <2>2
  <1>7. CASE WaitCall \/ WaitBlock \/ WaitReturn \/ Destroy \/ Join
    <2>1. PICK from, to : OwnerMove(from, to)
          BY <1>7 DEF WaitCall, WaitBlock, WaitReturn, Destroy, Join
    <2>2. /\ \A w \in Workers : pc'[w] = pc[w]
          /\ queue' = queue /\ notifying' = notifying
          BY <2>1, OwnerMoves
    <2> QED BY <2>2 DEF NoLostWakeup
  <1>8. CASE NotifyAll
    <2>1. /\ queue' = queue
          /\ \A w \in Workers : pc'[w] = IF pc[w] = "asleep" THEN "check" ELSE pc[w]
          BY <1>8 DEF NotifyAll, AllAwake
    <2> QED BY <2>1 DEF NoLostWakeup
  <1>9. CASE Finished
        BY <1>1, <1>9 DEF Finished
  <1> QED BY <1>1, <1>2, <1>3, <1>4, <1>5, <1>6, <1>7, <1>8, <1>9 DEF Next, Work

\* The worker that brings the counter to zero wakes the owner in that step.
LEMMA WaiterStep == IInv /\ [Next]_vars => WaiterNotForgotten'
  <1> SUFFICES ASSUME TypeOK, WaiterNotForgotten, [Next]_vars PROVE WaiterNotForgotten'
      BY DEF IInv
  <1>1. ASSUME pc'[Owner] = "asleep" => pc[Owner] = "asleep", outstanding' = outstanding
        PROVE  WaiterNotForgotten'
        BY <1>1 DEF WaiterNotForgotten
  <1>2. ASSUME NEW x \in Threads, NEW t \in Tasks, Submit(x, t) PROVE WaiterNotForgotten'
        BY <1>2 DEF Submit, Publish, WaiterNotForgotten, TypeOK
  <1>3. ASSUME NEW x \in Threads, Notify(x) \/ Spurious(x) PROVE WaiterNotForgotten'
        BY <1>1, <1>3 DEF Notify, WakeOne, Sleepers, Spurious, TypeOK
  <1>4. ASSUME NEW w \in Workers, CountOff(w) PROVE WaiterNotForgotten'
        BY <1>4 DEF CountOff, OwnerAfter, TypeOK, WaiterNotForgotten
  <1>5. ASSUME NEW w \in Workers, Take(w) \/ Leave(w) \/ Sleep(w) \/ Return(w)
        PROVE  WaiterNotForgotten'
        BY <1>1, <1>5 DEF Take, Leave, Sleep, Return, TypeOK
  <1>6. CASE WaitBlock
        BY <1>6, OwnerMoves DEF WaitBlock, WaitOver, WaiterNotForgotten
  <1>7. CASE WaitCall \/ WaitReturn \/ Destroy \/ Join
        BY <1>1, <1>7, OwnerMoves DEF WaitCall, WaitReturn, Destroy, Join
  <1>8. CASE NotifyAll \/ Finished \/ UNCHANGED vars
        BY <1>1, <1>8 DEF NotifyAll, Finished, vars, TypeOK
  <1> QED BY <1>2, <1>3, <1>4, <1>5, <1>6, <1>7, <1>8 DEF Next, Work

-----------------------------------------------------------------------------
LEMMA Initially == Init => IInv
  <1> SUFFICES ASSUME Init PROVE IInv
      OBVIOUS
  <1> USE DEF Init
  <1>0. pc[Owner] = "idle" /\ \A w \in Workers : pc[w] = "check"
        OBVIOUS
  <1>1. TypeOK
    <2>1. queue \in Seq(Tasks) /\ outstanding \in Nat
          OBVIOUS
    <2>4. stopping \in BOOLEAN
          OBVIOUS
    <2>2. pc \in [Threads -> WorkerPC \cup OwnerPC] /\ notifying \subseteq Threads
          OBVIOUS
    <2>3. job \in [Workers -> Tasks \cup {Owner}] /\ status \in [Tasks -> TaskStatus]
          OBVIOUS
    <2> QED BY <1>0, <2>1, <2>2, <2>3, <2>4 DEF TypeOK
  <1>2. Shutdown /\ NoLostWakeup /\ WaiterNotForgotten
        BY <1>0 DEF Shutdown, NoLostWakeup, WaiterNotForgotten
  <1>3. QueueHoldsQueued /\ WorkersHoldTaken
        BY <1>0 DEF QueueHoldsQueued, WorkersHoldTaken, Busy
  <1>4. CountExact
    <2>1. Live = {}
          BY DEF Live
    <2> QED BY <2>1, FS_EmptySet DEF CountExact
  <1> QED BY <1>1, <1>2, <1>3, <1>4 DEF IInv

\* IInv holds in every reachable state of a pool of any size.
THEOREM Invariance == Spec => []IInv
  <1>1. IInv /\ [Next]_vars => IInv'
        BY TypeStep, QueueStep, WorkersStep, ShutdownStep, CountStep, WakeupStep, WaiterStep
        DEF IInv
  <1> QED BY Initially, <1>1, PTL DEF Spec

\* The state of the pool is well typed; outstanding_ never wraps below zero.
THEOREM TypeCorrect == Spec => []TypeOK
  BY Invariance, PTL DEF IInv

\* outstanding_ is the number of unfinished tasks, nested ones included.
THEOREM CountCorrect == Spec => []CountExact
  BY Invariance, PTL DEF IInv

\* No queued task is left to a pool that is asleep or gone.
THEOREM WakeupCorrect == Spec => []NoLostWakeup
  BY Invariance, PTL DEF IInv

\* An owner asleep in wait() still has a task to wait for.
THEOREM WaiterCorrect == Spec => []WaiterNotForgotten
  BY Invariance, PTL DEF IInv

\* When the destructor has joined every worker, every submitted task is done.
THEOREM DrainCorrect == Spec => []DrainedAtJoin
  <1>1. IInv => DrainedAtJoin
    <2> SUFFICES ASSUME IInv, pc[Owner] = "gone", NEW t \in Tasks
                 PROVE  status[t] \in {"new", "done"}
        BY DEF DrainedAtJoin
    <2>1. \A w \in Workers : pc[w] = "gone"
          BY DEF IInv, Shutdown
    <2>2. queue = <<>>
          BY <2>1 DEF IInv, NoLostWakeup, Sleepers
    <2>3. status[t] # "queued"
          BY <2>2 DEF IInv, QueueHoldsQueued
    <2>4. status[t] \notin {"running", "returned"}
          BY <2>1 DEF IInv, WorkersHoldTaken, Busy
    <2> QED BY <2>3, <2>4 DEF IInv, TypeOK
  <1> QED BY Invariance, <1>1, PTL

\* wait() returns only when every task submitted so far has finished.
THEOREM WaitCorrect == Spec => WaitSound
  <1>1. IInv /\ [Next]_vars =>
          [pc[Owner] = "wait" /\ pc'[Owner] = "idle"
             => \A t \in Tasks : status[t] \in {"new", "done"}]_vars
    <2> SUFFICES ASSUME IInv, Next, pc[Owner] = "wait", pc'[Owner] = "idle"
                 PROVE  \A t \in Tasks : status[t] \in {"new", "done"}
        OBVIOUS
    <2>1. outstanding = 0
      <3>1. ~(\E x \in Threads, t \in Tasks : Submit(x, t)) /\ ~NotifyAll /\ ~Finished
            BY DEF Submit, NotifyAll, Finished, vars
      <3>2. ASSUME NEW x \in Threads PROVE ~Notify(x) /\ ~Spurious(x)
            BY DEF Notify, WakeOne, Sleepers, Spurious, IInv, TypeOK
      <3>3. ASSUME NEW w \in Workers PROVE ~Work(w)
            BY DEF Work, Take, Leave, Sleep, Return, CountOff, OwnerAfter, IInv, TypeOK
      <3>4. ~WaitCall /\ ~WaitBlock /\ ~Destroy /\ ~Join
            BY OwnerMoves DEF WaitCall, WaitBlock, Destroy, Join, IInv
      <3> QED BY <3>1, <3>2, <3>3, <3>4 DEF Next, WaitReturn, WaitOver
    <2>2. Live = {}
          BY <2>1, FS_Subset, FS_EmptySet DEF IInv, CountExact, Live
    <2> QED BY <2>2 DEF Live, IInv, TypeOK
  <1> QED BY Invariance, <1>1, PTL DEF Spec, WaitSound


-----------------------------------------------------------------------------
(***************************************************************************)
(* parallel_for, the other way work is spread over threads, an instance    *)
(* over variables of its own.  For every count and any threads it runs     *)
(* each index once and returns when all have been run: an index is either  *)
(* still to claim, or in the hands of one runner, or has been run once.    *)
(***************************************************************************)
CONSTANTS Count, Helpers, Caller
VARIABLES counter, at, mine, runs, returned

F == INSTANCE ParallelFor WITH Threads <- Helpers, next <- counter, pc <- at

Claimed ==
    \A w \in F!Runners : at[w] = "in" => mine[w] < counter /\ runs[mine[w]] = 0
Apart ==
    \A v, w \in F!Runners : v # w /\ at[v] = "in" /\ at[w] = "in" => mine[v] # mine[w]
Unclaimed ==
    \A i \in F!Indices : i >= counter => runs[i] = 0
Covered ==
    \A i \in F!Indices : i < counter =>
        runs[i] = 1 \/ \E w \in F!Runners : at[w] = "in" /\ mine[w] = i
Leaving ==
    /\ \A w \in F!Runners : at[w] = "out" => counter >= Count
    /\ returned => \A w \in F!Runners : at[w] = "out"

ForInv == F!TypeOK /\ Claimed /\ Apart /\ Unclaimed /\ Covered /\ Leaving /\ F!RunOnce

LEMMA ForInit == ASSUME F!ForAssumption PROVE F!Init => ForInv
<1> SUFFICES ASSUME F!Init PROVE ForInv
  OBVIOUS
<1> USE DEF F!ForAssumption, F!Init
<1>1. F!TypeOK
  BY DEF F!TypeOK
<1>2. Claimed /\ Apart /\ Leaving
  BY DEF Claimed, Apart, Leaving
<1>3. Unclaimed /\ F!RunOnce
  BY DEF Unclaimed, F!RunOnce
<1>4. Covered
  BY DEF Covered, F!Indices
<1> QED
  BY <1>1, <1>2, <1>3, <1>4 DEF ForInv

\* A started runner holds nothing.
LEMMA SpawnStep ==
    ASSUME F!ForAssumption, ForInv, NEW w \in F!Runners, F!Spawn(w) PROVE ForInv'
BY DEF F!ForAssumption, F!Spawn, ForInv, F!TypeOK, Claimed, Apart, Unclaimed, Covered, Leaving,
       F!RunOnce, F!Indices

\* A claim takes the first unclaimed index, which no other runner holds.
LEMMA ClaimStep ==
    ASSUME F!ForAssumption, ForInv, NEW w \in F!Runners, F!Claim(w) PROVE ForInv'
<1> USE DEF F!ForAssumption, F!Claim, F!Advanced, F!InRange
<1> counter \in Nat /\ F!Indices = 0..Count - 1 /\ Count \in Nat
  BY DEF ForInv, F!TypeOK, F!Indices
<1>1. F!TypeOK'
  BY DEF ForInv, F!TypeOK
<1>2. Claimed'
  BY DEF ForInv, F!TypeOK, Claimed, Unclaimed
<1>3. Apart'
  BY DEF ForInv, F!TypeOK, Claimed, Apart
<1>4. Unclaimed'
  BY DEF ForInv, F!TypeOK, Unclaimed
<1>5. Covered'
  <2> SUFFICES ASSUME NEW i \in F!Indices, i < counter'
                PROVE  runs'[i] = 1 \/ \E v \in F!Runners : at'[v] = "in" /\ mine'[v] = i
    BY DEF Covered
  <2>1. CASE i = counter
    BY <2>1 DEF ForInv, F!TypeOK
  <2>2. CASE i # counter
    BY <2>2 DEF ForInv, F!TypeOK, Covered
  <2> QED
    BY <2>1, <2>2
<1>6. Leaving'
  BY DEF ForInv, F!TypeOK, Leaving
<1>7. F!RunOnce'
  BY DEF ForInv, F!RunOnce
<1> QED
  BY <1>1, <1>2, <1>3, <1>4, <1>5, <1>6, <1>7 DEF ForInv

\* A run counts the index its runner alone held, for the first time.
LEMMA RunStep ==
    ASSUME F!ForAssumption, ForInv, NEW w \in F!Runners, F!Run(w) PROVE ForInv'
<1> USE DEF F!ForAssumption, F!Run
<1>1. mine[w] \in F!Indices /\ runs[mine[w]] = 0 /\ mine[w] < counter
  BY DEF ForInv, Claimed
<1>2. F!TypeOK'
  BY DEF ForInv, F!TypeOK
<1>3. Claimed'
  BY <1>1 DEF ForInv, F!TypeOK, Claimed, Apart
<1>4. Apart'
  BY DEF ForInv, F!TypeOK, Apart
<1>5. Unclaimed'
  BY <1>1 DEF ForInv, F!TypeOK, Unclaimed, F!Indices
<1>6. Covered'
  BY <1>1 DEF ForInv, F!TypeOK, Covered
<1>7. Leaving'
  BY DEF ForInv, F!TypeOK, Leaving
<1>8. F!RunOnce'
  BY <1>1 DEF ForInv, F!TypeOK, F!RunOnce
<1> QED
  BY <1>2, <1>3, <1>4, <1>5, <1>6, <1>7, <1>8 DEF ForInv

LEMMA ReturnStep == ASSUME ForInv, F!Return PROVE ForInv'
BY DEF F!Return, F!Joined, ForInv, F!TypeOK, Claimed, Apart, Unclaimed, Covered, Leaving, F!RunOnce

\* The strengthening every theorem below rests on.
THEOREM ForInductive == ASSUME F!ForAssumption PROVE F!Spec => []ForInv
<1>1. ForInv /\ [F!Next]_F!vars => ForInv'
  <2>1. ForInv /\ UNCHANGED F!vars => ForInv'
    BY DEF F!vars, ForInv, F!TypeOK, Claimed, Apart, Unclaimed, Covered, Leaving, F!RunOnce
  <2> QED
    BY <2>1, SpawnStep, ClaimStep, RunStep, ReturnStep DEF F!Next
<1> QED
  BY <1>1, ForInit, PTL DEF F!Spec

\* parallel_for's state keeps its types: a runner is only inside an index there is.
THEOREM ForTypes == ASSUME F!ForAssumption PROVE F!Spec => []F!TypeOK
<1>1. ForInv => F!TypeOK
  BY DEF ForInv
<1> QED
  BY <1>1, ForInductive, PTL

\* No index is run twice, whatever the threads do.
THEOREM EachRunOnce == ASSUME F!ForAssumption PROVE F!Spec => []F!RunOnce
<1>1. ForInv => F!RunOnce
  BY DEF ForInv
<1> QED
  BY <1>1, ForInductive, PTL

\* At the return every index has been run: all runners left, so the counter passed
\* count, and nobody holds an index.
THEOREM ReturnIsComplete == ASSUME F!ForAssumption PROVE F!Spec => []F!AllRunAtReturn
<1>1. ForInv => F!AllRunAtReturn
  <2> SUFFICES ASSUME ForInv, returned
                PROVE  /\ \A i \in F!Indices : runs[i] = 1
                       /\ \A w \in F!Runners : at[w] = "out"
    BY DEF F!AllRunAtReturn
  <2>1. \A w \in F!Runners : at[w] = "out"
    BY DEF ForInv, Leaving
  <2>2. counter >= Count
    BY <2>1 DEF ForInv, Leaving, F!Runners
  <2>3. \A i \in F!Indices : i < counter
    BY <2>2 DEF F!ForAssumption, ForInv, F!TypeOK, F!Indices
  <2> QED
    BY <2>1, <2>3 DEF ForInv, Covered
<1> QED
  BY <1>1, ForInductive, PTL
=============================================================================
