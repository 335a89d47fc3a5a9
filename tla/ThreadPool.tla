------------------------------ MODULE ThreadPool ------------------------------
(***************************************************************************)
(* The worker pool of the up-front cache: src/src/cache/thread_pool.h.     *)
(*                                                                         *)
(* One action is one block of the code that runs with mutex_ held, or one  *)
(* call made outside it: a notification that follows an unlock is a step   *)
(* of its own, so that every order of "publish the work" and "wake a       *)
(* sleeper" is explored.  Sleeping on a condition variable is the set of   *)
(* threads whose pc is "asleep"; any sleeper may also wake spuriously.     *)
(***************************************************************************)
EXTENDS Naturals, Sequences, FiniteSets

CONSTANTS Workers,  \* the threads started by the constructor
          Tasks,    \* every task that will ever be submitted (a bound)
          Owner     \* the thread that owns the pool: submits, waits, destroys

ASSUME PoolAssumption ==
    /\ IsFiniteSet(Tasks)
    /\ Workers # {}
    /\ Owner \notin Workers

VARIABLES queue,        \* queue_: submitted and not yet taken
          outstanding,  \* outstanding_: submitted and not yet counted off
          stopping,     \* stopping_, set by the destructor
          pc,           \* where each thread is
          job,          \* the task a worker last took
          notifying,    \* threads between the unlock and notify_one of submit
          status        \* history of each task, read by the properties only

vars == <<queue, outstanding, stopping, pc, job, notifying, status>>

Threads == Workers \cup {Owner}

WorkerPC == {"check", "asleep", "run", "count", "gone"}
OwnerPC  == {"idle", "wait", "asleep", "stop", "join", "gone"}
TaskStatus == {"new", "queued", "running", "returned", "done"}

\* The program's variables have their types; in particular a worker inside a
\* task holds one, and the unsigned counter outstanding_ never wraps below 0.
TypeOK ==
    /\ queue \in Seq(Tasks)
    /\ outstanding \in Nat
    /\ stopping \in BOOLEAN
    /\ pc \in [Threads -> WorkerPC \cup OwnerPC]
    /\ \A w \in Workers : pc[w] \in WorkerPC
    /\ pc[Owner] \in OwnerPC
    /\ job \in [Workers -> Tasks \cup {Owner}]
    /\ \A w \in Workers : pc[w] \in {"run", "count"} => job[w] \in Tasks
    /\ notifying \subseteq Threads
    /\ status \in [Tasks -> TaskStatus]

-----------------------------------------------------------------------------
Init ==
    /\ queue = <<>>
    /\ outstanding = 0
    /\ stopping = FALSE
    /\ pc = [x \in Threads |-> IF x = Owner THEN "idle" ELSE "check"]
    /\ job = [w \in Workers |-> Owner]
    /\ notifying = {}
    /\ status = [t \in Tasks |-> "new"]

Sleepers == {w \in Workers : pc[w] = "asleep"}

\* A thread that may call submit: the owner between calls, or a worker inside
\* a task ("tasks may submit further tasks").
MaySubmit(x) ==
    /\ x \notin notifying
    /\ \/ x = Owner /\ pc[x] = "idle"
       \/ x \in Workers /\ pc[x] = "run"

\* submit, the assignments under the lock.
Publish_Uncounted(t) == queue' = Append(queue, t) /\ outstanding' = outstanding
Publish(t)           == queue' = Append(queue, t) /\ outstanding' = outstanding + 1

Submit(x, t) ==
    /\ MaySubmit(x)
    /\ status[t] = "new"
    /\ Publish(t)
    /\ notifying' = notifying \cup {x}
    /\ status' = [status EXCEPT ![t] = "queued"]
    /\ UNCHANGED <<stopping, pc, job>>

\* The effect of one notify_one: any single sleeper wakes, if there is one.
WakeOne_Nobody == pc' = pc
WakeOne ==
    IF Sleepers = {} THEN pc' = pc
    ELSE \E w \in Sleepers : pc' = [pc EXCEPT ![w] = "check"]

\* submit, wake_.notify_one() after the unlock.
Notify(x) ==
    /\ x \in notifying
    /\ WakeOne
    /\ notifying' = notifying \ {x}
    /\ UNCHANGED <<queue, outstanding, stopping, job, status>>

-----------------------------------------------------------------------------
\* run: the wait predicate holds and there is a task to take.
Take(w) ==
    /\ pc[w] = "check"
    /\ queue # <<>>
    /\ job' = [job EXCEPT ![w] = Head(queue)]
    /\ queue' = Tail(queue)
    /\ pc' = [pc EXCEPT ![w] = "run"]
    /\ status' = [status EXCEPT ![Head(queue)] = "running"]
    /\ UNCHANGED <<outstanding, stopping, notifying>>

\* run: a worker leaves only when stopping and with nothing queued.
LeaveTest_Undrained == stopping
LeaveTest == stopping /\ queue = <<>>

Leave(w) ==
    /\ pc[w] = "check"
    /\ LeaveTest
    /\ pc' = [pc EXCEPT ![w] = "gone"]
    /\ UNCHANGED <<queue, outstanding, stopping, job, notifying, status>>

\* run: wake_.wait blocks.
Sleep(w) ==
    /\ pc[w] = "check"
    /\ ~stopping /\ queue = <<>>
    /\ pc' = [pc EXCEPT ![w] = "asleep"]
    /\ UNCHANGED <<queue, outstanding, stopping, job, notifying, status>>

\* The task returns or throws: run() swallows every exception.
Return(w) ==
    /\ pc[w] = "run" /\ w \notin notifying
    /\ pc' = [pc EXCEPT ![w] = "count"]
    /\ status' = [status EXCEPT ![job[w]] = "returned"]
    /\ UNCHANGED <<queue, outstanding, stopping, job, notifying>>

\* idle_.notify_all() by the worker that counted the last task off.
OwnerAfter_Silent(n) == pc[Owner]
OwnerAfter(n) == IF n = 0 /\ pc[Owner] = "asleep" THEN "wait" ELSE pc[Owner]

\* run: count the task off, and wake a waiting owner on the last one.
CountOff(w) ==
    /\ pc[w] = "count"
    /\ outstanding' = outstanding - 1
    /\ pc' = [pc EXCEPT ![w] = "check", ![Owner] = OwnerAfter(outstanding - 1)]
    /\ status' = [status EXCEPT ![job[w]] = "done"]
    /\ UNCHANGED <<queue, stopping, job, notifying>>

\* A condition variable may wake any sleeper without a notification.
Spurious(x) ==
    /\ pc[x] = "asleep"
    /\ pc' = [pc EXCEPT ![x] = IF x = Owner THEN "wait" ELSE "check"]
    /\ UNCHANGED <<queue, outstanding, stopping, job, notifying, status>>

-----------------------------------------------------------------------------
OwnerMove(from, to) ==
    /\ Owner \notin notifying
    /\ pc[Owner] = from
    /\ pc' = [pc EXCEPT ![Owner] = to]
    /\ UNCHANGED <<queue, outstanding, job, notifying, status>>

\* wait: called, then either blocks or returns.
WaitOver_QueueOnly == queue = <<>>
WaitOver == outstanding = 0

WaitCall   == OwnerMove("idle", "wait") /\ UNCHANGED stopping
WaitBlock  == ~WaitOver /\ OwnerMove("wait", "asleep") /\ UNCHANGED stopping
WaitReturn == WaitOver /\ OwnerMove("wait", "idle") /\ UNCHANGED stopping

\* ~ThreadPool: set stopping_, notify_all after the unlock, join every worker.
Destroy == OwnerMove("idle", "stop") /\ stopping' = TRUE

AllAwake_ButNot(w) == pc[w]
AllAwake(w) == IF pc[w] = "asleep" THEN "check" ELSE pc[w]

NotifyAll ==
    /\ pc[Owner] = "stop"
    /\ pc' = [x \in Threads |-> IF x = Owner THEN "join" ELSE AllAwake(x)]
    /\ UNCHANGED <<queue, outstanding, stopping, job, notifying, status>>

Join ==
    /\ \A w \in Workers : pc[w] = "gone"
    /\ OwnerMove("join", "gone") /\ UNCHANGED stopping

\* The pool is gone: the only state in which nothing happens any more.
Finished == pc[Owner] = "gone" /\ UNCHANGED vars

Work(w) == Take(w) \/ Leave(w) \/ Sleep(w) \/ Return(w) \/ CountOff(w)

Next ==
    \/ \E x \in Threads : (\E t \in Tasks : Submit(x, t)) \/ Notify(x) \/ Spurious(x)
    \/ \E w \in Workers : Work(w)
    \/ WaitCall \/ WaitBlock \/ WaitReturn
    \/ Destroy \/ NotifyAll \/ Join
    \/ Finished

Spec == Init /\ [][Next]_vars

\* Every thread the scheduler keeps running makes its next step: tasks end
\* (none of the code's tasks blocks on another task), and the owner finishes a
\* wait or a destructor it has begun.  Nobody is obliged to submit, to call
\* wait or to destroy the pool, and no spurious wakeup is relied on.
Fairness ==
    /\ \A w \in Workers : WF_vars(Work(w))
    /\ \A x \in Threads : WF_vars(Notify(x))
    /\ WF_vars(WaitBlock \/ WaitReturn) /\ WF_vars(NotifyAll) /\ WF_vars(Join)

FairSpec == Spec /\ Fairness

-----------------------------------------------------------------------------
\* The tasks submitted and not yet counted off.
Live == {t \in Tasks : status[t] \in {"queued", "running", "returned"}}

\* outstanding_ counts exactly the tasks submitted and not counted off, nested
\* ones included (submit counts a child before its parent is counted off).
CountExact == outstanding = Cardinality(Live)

\* A queued task never meets a pool that is entirely asleep or gone: some
\* thread is awake to find it, or a notification for it is still due.
NoLostWakeup ==
    queue # <<>> =>
        \/ \E w \in Workers : pc[w] \in {"check", "run", "count"}
        \/ notifying # {} /\ Sleepers # {}

\* An owner blocked in wait() has something left to wait for, so the
\* notification of the last task cannot already have been spent.
WaiterNotForgotten == pc[Owner] = "asleep" => outstanding # 0

\* The destructor returns only after every submitted task has run.
DrainedAtJoin ==
    pc[Owner] = "gone" => \A t \in Tasks : status[t] \in {"new", "done"}

\* wait() returns only when every task submitted so far has finished, those
\* submitted by other tasks included.
WaitSound ==
    [][pc[Owner] = "wait" /\ pc'[Owner] = "idle"
        => \A t \in Tasks : status[t] \in {"new", "done"}]_vars

\* Every submitted task is run, whoever submitted it and whether or not the
\* pool is being destroyed meanwhile.
EveryTaskRuns == \A t \in Tasks : status[t] = "queued" ~> status[t] = "done"

\* A call of wait() returns.
WaitReturns == pc[Owner] \in {"wait", "asleep"} ~> pc[Owner] = "idle"

\* The destructor returns: every worker, asleep or not, is made to leave.
DestroyReturns == stopping ~> pc[Owner] = "gone"
=============================================================================
