------------------------------ MODULE TaskQueue ------------------------------
(***************************************************************************)
(* class TaskQueue (executor.h): the deque of one executor thread, guarded *)
(* by a mutex and a condition variable, with the blocking calls push and   *)
(* pop, the non-blocking try_push and try_pop, and done().                 *)
(*                                                                         *)
(* One action is one step between two synchronisation points: taking the   *)
(* mutex, the statements under it together with the unlock, and the        *)
(* notification that follows.  done_ is read outside the mutex by push and *)
(* try_push, so that read is a step of its own.  A consumer is a worker in *)
(* Executor::get_task: one round of try_pop, then pop on this queue.       *)
(***************************************************************************)
EXTENDS Naturals, Sequences, FiniteSets, Functions

CONSTANTS Tasks,        (* the closures handed to Executor::push           *)
          Producers,    (* threads inside Executor::push                   *)
          Consumers,    (* threads inside Executor::run                    *)
          Closers,      (* threads inside Executor::stop                   *)
          NoTask,       (* an empty std::function                          *)
          NoThread,     (* the mutex is free                               *)
          MaxSpurious   (* bound: spurious wake-ups of the condition variable *)

Threads == Producers \union Consumers \union Closers

ASSUME TaskQueueAssumption ==
  /\ NoTask \notin Tasks
  /\ NoThread \notin Threads
  /\ IsFiniteSet(Threads)
  /\ Producers \intersect Consumers = {}
  /\ Producers \intersect Closers = {}
  /\ Consumers \intersect Closers = {}
  /\ MaxSpurious \in Nat

VARIABLES q,        (* std::deque<Task> q                                  *)
          m,        (* the thread that holds std::mutex m, or NoThread     *)
          done,     (* done_                                               *)
          pc,       (* where each thread is; "waiting" is inside cv.wait   *)
          arg,      (* the task a thread pushes, or took out               *)
          busy,     (* the consumer's atomic_bool, cleared by run_task     *)
          enq,      (* history: the tasks that entered q, in order         *)
          taken,    (* history: the tasks that left q, in order            *)
          dropped,  (* history: the tasks push discarded                   *)
          spurious  (* spurious wake-ups so far                            *)

vars == <<q, m, done, pc, arg, busy, enq, taken, dropped, spurious>>

Init ==
  /\ q = <<>>
  /\ m = NoThread
  /\ done = FALSE
  /\ pc = [x \in Threads |-> "idle"]
  /\ arg = [x \in Threads |-> NoTask]
  /\ busy = [c \in Consumers |-> FALSE]
  /\ enq = <<>>
  /\ taken = <<>>
  /\ dropped = {}
  /\ spurious = 0

(* Tasks no thread has begun to push, or whose try_push gave them back.    *)
Fresh == {t \in Tasks : /\ t \notin Range(enq) \union dropped
                        /\ \A p \in Producers : arg[p] # t}

Waiters == {c \in Consumers : pc[c] = "waiting"}

GoTo(x, from, to) ==
  /\ pc[x] = from
  /\ pc' = [pc EXCEPT ![x] = to]

(* What the calls do to the members; a definition named after a mistake,    *)
(* here and below, is the variant the mutant runs put in the place of the   *)
(* one that follows it.                                                     *)
EnqueuedAtFront(t) == <<t>> \o q
Enqueued(t) == Append(q, t)

Popped == Tail(q)

NeverRaised(c) == busy
Raised(c) == [busy EXCEPT ![c] = TRUE]

CanTakeOnceClosed == q # <<>>
CanTake == q # <<>> /\ ~done

(* The notification that follows the unlock.                               *)
EmplaceAndReturn == "idle"
AfterEmplace == "notify_one"

SetDoneAndReturn == "closed"
AfterSetDone == "notify_all"

Acquire(x) == m = NoThread /\ m' = x
Release(x) == m = x /\ m' = NoThread

-----------------------------------------------------------------------------
(* push and try_push.  Both look at done_ before they take the mutex.      *)

TryPushCall(p, t) ==
  /\ ~done
  /\ t \in Fresh
  /\ GoTo(p, "idle", "try_push")
  /\ arg' = [arg EXCEPT ![p] = t]
  /\ UNCHANGED <<q, m, done, busy, enq, taken, dropped, spurious>>

TryPushLock(p) ==
  /\ Acquire(p)
  /\ GoTo(p, "try_push", "emplace")
  /\ UNCHANGED <<q, done, arg, busy, enq, taken, dropped, spurious>>

(* The task is moved out of the argument before the lock is tried.         *)
TryPushMovesFirst(p) ==
  /\ m # NoThread
  /\ GoTo(p, "try_push", "push")
  /\ arg' = [arg EXCEPT ![p] = NoTask]
  /\ UNCHANGED <<q, m, done, busy, enq, taken, dropped, spurious>>

(* The mutex is taken: try_push returns false and the caller keeps its task. *)
TryPushFail(p) ==
  /\ m # NoThread
  /\ GoTo(p, "try_push", "idle")
  /\ arg' = [arg EXCEPT ![p] = NoTask]
  /\ UNCHANGED <<q, m, done, busy, enq, taken, dropped, spurious>>

PushCall(p, t) ==
  /\ ~done
  /\ t \in Fresh
  /\ GoTo(p, "idle", "push")
  /\ arg' = [arg EXCEPT ![p] = t]
  /\ UNCHANGED <<q, m, done, busy, enq, taken, dropped, spurious>>

(* After done() a push returns without keeping the task.                   *)
PushDrop(p, t) ==
  /\ done
  /\ pc[p] = "idle"
  /\ t \in Fresh
  /\ dropped' = dropped \union {t}
  /\ UNCHANGED <<q, m, done, pc, arg, busy, enq, taken, spurious>>

PushLock(p) ==
  /\ Acquire(p)
  /\ GoTo(p, "push", "emplace")
  /\ UNCHANGED <<q, done, arg, busy, enq, taken, dropped, spurious>>

Emplace(p) ==
  /\ Release(p)
  /\ GoTo(p, "emplace", AfterEmplace)
  /\ q' = Enqueued(arg[p])
  /\ enq' = Append(enq, arg[p])
  /\ arg' = [arg EXCEPT ![p] = NoTask]
  /\ UNCHANGED <<done, busy, taken, dropped, spurious>>

(* cv.notify_one() after the unlock: some waiter, if there is one.         *)
NotifyOne(p) ==
  /\ pc[p] = "notify_one"
  /\ \/ \E c \in Waiters : pc' = [pc EXCEPT ![p] = "idle", ![c] = "woken"]
     \/ Waiters = {} /\ pc' = [pc EXCEPT ![p] = "idle"]
  /\ UNCHANGED <<q, m, done, arg, busy, enq, taken, dropped, spurious>>

-----------------------------------------------------------------------------
(* try_pop, then pop (Executor::get_task).                                 *)

TryPopLock(c) ==
  /\ Acquire(c)
  /\ GoTo(c, "idle", "try_test")
  /\ UNCHANGED <<q, done, arg, busy, enq, taken, dropped, spurious>>

TryPopContended(c) ==
  /\ m # NoThread
  /\ GoTo(c, "idle", "pop")
  /\ UNCHANGED <<q, m, done, arg, busy, enq, taken, dropped, spurious>>

TryPopNothing(c) ==
  /\ ~CanTake
  /\ Release(c)
  /\ GoTo(c, "try_test", "pop")
  /\ UNCHANGED <<q, done, arg, busy, enq, taken, dropped, spurious>>

PopLock(c) ==
  /\ Acquire(c)
  /\ \/ GoTo(c, "pop", "test")
     \/ GoTo(c, "woken", "test")
  /\ UNCHANGED <<q, done, arg, busy, enq, taken, dropped, spurious>>

(* while (q.empty() && !done_) cv.wait(lock)                               *)
PopWait(c) ==
  /\ q = <<>> /\ ~done
  /\ Release(c)
  /\ GoTo(c, "test", "waiting")
  /\ UNCHANGED <<q, done, arg, busy, enq, taken, dropped, spurious>>

SpuriousWakeup(c) ==
  /\ spurious < MaxSpurious
  /\ GoTo(c, "waiting", "woken")
  /\ spurious' = spurious + 1
  /\ UNCHANGED <<q, m, done, arg, busy, enq, taken, dropped>>

(* pop returns false: the worker leaves Executor::run.                     *)
PopClosed(c) ==
  /\ done
  /\ Release(c)
  /\ GoTo(c, "test", "left")
  /\ UNCHANGED <<q, done, arg, busy, enq, taken, dropped, spurious>>

(* t = std::move(q.front()); busy = true; q.pop_front(): the task is still  *)
(* counted in q when busy rises, which matters to Executor::wait: it reads  *)
(* empty() and busy without the mutex.                                      *)
TakeFront(c) ==
  /\ CanTake
  /\ m = c
  /\ pc[c] \in {"try_test", "test"}
  /\ pc' = [pc EXCEPT ![c] = "pop_front"]
  /\ arg' = [arg EXCEPT ![c] = Head(q)]
  /\ busy' = Raised(c)
  /\ UNCHANGED <<q, m, done, enq, taken, dropped, spurious>>

PopFront(c) ==
  /\ Release(c)
  /\ GoTo(c, "pop_front", "running")
  /\ q' = Popped
  /\ taken' = Append(taken, Head(q))
  /\ UNCHANGED <<done, arg, busy, enq, dropped, spurious>>

(* Executor::run_task: t(); thr.busy = false                               *)
FinishTask(c) ==
  /\ GoTo(c, "running", "idle")
  /\ arg' = [arg EXCEPT ![c] = NoTask]
  /\ busy' = [busy EXCEPT ![c] = FALSE]
  /\ UNCHANGED <<q, m, done, enq, taken, dropped, spurious>>

-----------------------------------------------------------------------------
(* done()                                                                  *)

DoneLock(d) ==
  /\ Acquire(d)
  /\ GoTo(d, "idle", "set_done")
  /\ UNCHANGED <<q, done, arg, busy, enq, taken, dropped, spurious>>

SetDone(d) ==
  /\ Release(d)
  /\ GoTo(d, "set_done", AfterSetDone)
  /\ done' = TRUE
  /\ UNCHANGED <<q, arg, busy, enq, taken, dropped, spurious>>

NotifyAll(d) ==
  /\ pc[d] = "notify_all"
  /\ pc' = [x \in Threads |-> CASE x = d -> "closed"
                                [] x \in Waiters -> "woken"
                                [] OTHER -> pc[x]]
  /\ UNCHANGED <<q, m, done, arg, busy, enq, taken, dropped, spurious>>

-----------------------------------------------------------------------------
(* The rest of a call once a producer has made it.                         *)
Producing(p) ==
  TryPushLock(p) \/ TryPushFail(p) \/ PushLock(p) \/ Emplace(p) \/ NotifyOne(p)

(* A worker calls get_task again and again until the queue is closed.      *)
Consuming(c) ==
  \/ TryPopLock(c) \/ TryPopContended(c) \/ TryPopNothing(c)
  \/ PopLock(c) \/ PopWait(c) \/ PopClosed(c)
  \/ TakeFront(c) \/ PopFront(c) \/ FinishTask(c)

Closing(d) == SetDone(d) \/ NotifyAll(d)

Next ==
  \/ \E p \in Producers, t \in Tasks : TryPushCall(p, t) \/ PushCall(p, t) \/ PushDrop(p, t)
  \/ \E p \in Producers : Producing(p)
  \/ \E c \in Consumers : Consuming(c) \/ SpuriousWakeup(c)
  \/ \E d \in Closers : DoneLock(d) \/ Closing(d)

Spec == Init /\ [][Next]_vars

(* Every thread inside a call goes on when it can; nobody has to call push *)
(* or done, and a spurious wake-up never has to happen.                    *)
Fairness ==
  /\ \A p \in Producers : WF_vars(Producing(p))
  /\ \A c \in Consumers : WF_vars(Consuming(c))
  /\ \A d \in Closers : WF_vars(Closing(d))

FairSpec == Spec /\ Fairness

-----------------------------------------------------------------------------
Labels == {"idle",
           "try_push", "push", "emplace", "notify_one",        (* producers *)
           "try_test", "pop", "test", "waiting", "woken",      (* consumers *)
           "pop_front", "running", "left",
           "set_done", "notify_all", "closed"}                 (* closers   *)

(* The state is well formed; in particular no empty function ever gets     *)
(* into the queue, although try_push is given the task by rvalue.          *)
TypeOK ==
  /\ q \in Seq(Tasks)
  /\ m \in Threads \union {NoThread}
  /\ done \in BOOLEAN
  /\ pc \in [Threads -> Labels]
  /\ arg \in [Threads -> Tasks \union {NoTask}]
  /\ busy \in [Consumers -> BOOLEAN]
  /\ enq \in Seq(Tasks)
  /\ taken \in Seq(Tasks)
  /\ dropped \in SUBSET Tasks
  /\ spurious \in 0..MaxSpurious

(* Tasks leave in the order they entered and none is lost or repeated on   *)
(* the way, whichever of push, try_push, pop and try_pop are mixed.        *)
FIFO == enq = taken \o q

(* A task enters the queue once and is neither discarded and kept, nor     *)
(* handed to two consumers.                                                *)
EachTaskOnce ==
  /\ \A i, j \in DOMAIN enq : enq[i] = enq[j] => i = j
  /\ Range(enq) \intersect dropped = {}
  /\ \A c, d \in Consumers :
       arg[c] = arg[d] /\ arg[c] # NoTask => c = d

(* No wake-up is lost: while the queue is open, every queued task that a   *)
(* blocked consumer could take has a notification on its way or a consumer *)
(* already woken for it.  notify_one comes after the unlock, so other      *)
(* consumers may take the task in between.                                 *)
Pending == {x \in Threads : pc[x] \in {"notify_one", "woken"}}
InTest == {c \in Consumers : pc[c] \in {"test", "try_test", "pop_front"}}
NoLostWakeup ==
  ~done /\ Waiters # {} => Len(q) <= Cardinality(Pending) + Cardinality(InTest)

(* After the close nobody stays blocked without a notify_all to come.      *)
NoWaiterAfterDone ==
  done /\ Waiters # {} => \E d \in Closers : pc[d] = "notify_all"

(* Executor::wait reads empty() and then busy without the mutex: when it   *)
(* finds the queue empty and no consumer busy, no task is left or running. *)
IdleMeansIdle ==
  q = <<>> /\ (\A c \in Consumers : ~busy[c])
    => \A c \in Consumers : arg[c] = NoTask

(* No task is taken out once done() has set the flag.                      *)
NothingTakenAfterDone == [][done => taken' = taken]_vars

(* Once the queue is closed every worker gets out of it.                   *)
DoneReleasesConsumers == done ~> \A c \in Consumers : pc[c] = "left"

(* A queued task is taken, unless the queue is closed before.              *)
EveryTaskTaken ==
  \A t \in Tasks : t \in Range(q) ~> t \in Range(taken) \/ done

(* The code implements the atomic queue.                                   *)
Abstract == INSTANCE AtomicTaskQueue
  WITH pending <- q,
       closed <- done,
       hand <- [c \in Consumers |-> IF pc[c] = "running" THEN arg[c] ELSE NoTask],
       accepted <- Range(enq)

ImplementsAtomicQueue == Abstract!Spec
=============================================================================
