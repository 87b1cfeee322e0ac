----------------------------- MODULE SharedState -----------------------------
(***************************************************************************)
(* SharedState and Future of executor.h: the result of one pushed task,     *)
(* from the worker that executes it to the clients that get() it and to     *)
(* the continuations that then() attaches.                                  *)
(*                                                                          *)
(* set is an atomic flag that the worker raises without the mutex; the      *)
(* mutex m guards only the callbacks.  cv is notified without the mutex,    *)
(* so a getter relies on its wait being timed.                              *)
(***************************************************************************)
EXTENDS Naturals, Sequences, FiniteSets, Functions

CONSTANTS Getters,        (* client threads in Future::get                 *)
          Thenners,       (* threads in Future::then; each attaches one    *)
                          (* continuation, named after it                  *)
          Worker,         (* the thread that executes the task             *)
          NoThread        (* m is free                                     *)

Threads == Getters \union Thenners \union {Worker}

ASSUME SharedStateAssumption ==
  /\ Getters \intersect Thenners = {}
  /\ Worker \notin Getters \union Thenners
  /\ NoThread \notin Threads

VARIABLES written,    (* data or eptr holds the outcome of the task        *)
          set,        (* the atomic flag                                   *)
          m,          (* the thread that holds the mutex                   *)
          callbacks,  (* the continuations then() left for notice()        *)
          running,    (* the callback notice() has reached                 *)
          pushed,     (* how often each continuation went to the executor  *)
          future,     (* the Future object that then() was called on lives *)
          stopped,    (* the executor has been stopped                     *)
          pc,
          seen        (* what each getter found in data: history           *)

vars == <<written, set, m, callbacks, running, pushed, future, stopped, pc, seen>>

Init ==
  /\ written = FALSE
  /\ set = FALSE
  /\ m = NoThread
  /\ callbacks = <<>>
  /\ running = 1
  /\ pushed = [h \in Thenners |-> 0]
  /\ future = [h \in Thenners |-> TRUE]
  /\ stopped = FALSE
  /\ pc = [x \in Threads |-> "start"]
  /\ seen = [g \in Getters |-> "nothing"]

GoTo(x, from, to) ==
  /\ pc[x] = from
  /\ pc' = [pc EXCEPT ![x] = to]

Acquire(x) == m = NoThread /\ m' = x
Release(x) == m = x /\ m' = NoThread

-----------------------------------------------------------------------------
(* PackagedTask::operator(): the outcome first, then the flag.              *)
ExecuteFlagFirst ==
  \/ /\ pc[Worker] = "start" /\ ~set
     /\ set' = TRUE
     /\ UNCHANGED <<written, m, callbacks, running, pushed, future, stopped, pc, seen>>
  \/ /\ set
     /\ GoTo(Worker, "start", "set")
     /\ written' = TRUE
     /\ UNCHANGED <<set, m, callbacks, running, pushed, future, stopped, seen>>

Execute ==
  /\ GoTo(Worker, "start", "set")
  /\ written' = TRUE
  /\ UNCHANGED <<set, m, callbacks, running, pushed, future, stopped, seen>>

(* setExecuted(): the compare-exchange, which succeeds once.               *)
SetExecuted ==
  /\ GoTo(Worker, "set", "notify")
  /\ set' = TRUE
  /\ UNCHANGED <<written, m, callbacks, running, pushed, future, stopped, seen>>

(* notice(): cv.notify_all() without the mutex; only threads that are      *)
(* asleep already hear it.                                                 *)
NotifyAll ==
  /\ pc[Worker] = "notify"
  /\ pc' = [x \in Threads |-> CASE x = Worker -> "lock"
                                [] pc[x] = "asleep" -> "woken"
                                [] OTHER -> pc[x]]
  /\ UNCHANGED <<written, set, m, callbacks, running, pushed, future, stopped, seen>>

NoticeLock ==
  /\ Acquire(Worker)
  /\ GoTo(Worker, "lock", "callbacks")
  /\ UNCHANGED <<written, set, callbacks, running, pushed, future, stopped, seen>>

(* One callback: state->e.push(pt), through the Future it was attached to. *)
RunCallback ==
  /\ pc[Worker] = "callbacks"
  /\ running <= Len(callbacks)
  /\ pushed' = [pushed EXCEPT ![callbacks[running]] = @ + 1]
  /\ running' = running + 1
  /\ UNCHANGED <<written, set, m, callbacks, future, stopped, pc, seen>>

NoticeUnlock ==
  /\ running > Len(callbacks)
  /\ Release(Worker)
  /\ GoTo(Worker, "callbacks", "clear")
  /\ UNCHANGED <<written, set, callbacks, running, pushed, future, stopped, seen>>

(* callbacks.clear(), after the unlock.                                    *)
Clear ==
  /\ GoTo(Worker, "clear", "end")
  /\ callbacks' = <<>>
  /\ UNCHANGED <<written, set, m, running, pushed, future, stopped, seen>>

-----------------------------------------------------------------------------
(* Future::then                                                             *)

(* The first look at set, without the mutex.                               *)
FallThrough == "lock"
ReturnFuture == "attached"

ThenSet(h) ==
  /\ set
  /\ GoTo(h, "start", ReturnFuture)
  /\ pushed' = [pushed EXCEPT ![h] = @ + 1]
  /\ UNCHANGED <<written, set, m, callbacks, running, future, stopped, seen>>

LockNext == "lock"

ThenUnset(h) ==
  /\ ~set
  /\ GoTo(h, "start", LockNext)
  /\ UNCHANGED <<written, set, m, callbacks, running, pushed, future, stopped, seen>>

ThenLock(h) ==
  /\ Acquire(h)
  /\ GoTo(h, "lock", "test")
  /\ UNCHANGED <<written, set, callbacks, running, pushed, future, stopped, seen>>

(* The second look, under the mutex.                                       *)
NeverSet == FALSE
SetMeanwhile == set

ThenPush(h) ==
  /\ SetMeanwhile
  /\ Release(h)
  /\ GoTo(h, "test", "attached")
  /\ pushed' = [pushed EXCEPT ![h] = @ + 1]
  /\ UNCHANGED <<written, set, callbacks, running, future, stopped, seen>>

ThenAttach(h) ==
  /\ ~SetMeanwhile
  /\ GoTo(h, "test", "push_back")
  /\ UNCHANGED <<written, set, m, callbacks, running, pushed, future, stopped, seen>>

ThenPushBack(h) ==
  /\ Release(h)
  /\ GoTo(h, "push_back", "attached")
  /\ callbacks' = Append(callbacks, h)
  /\ UNCHANGED <<written, set, running, pushed, future, stopped, seen>>

(* The caller lets go of the Future it called then() on, as                *)
(* e.push(...).then(...) does at the end of the expression.                *)
Forget(h) ==
  /\ pc[h] = "attached"
  /\ future[h]
  /\ future' = [future EXCEPT ![h] = FALSE]
  /\ UNCHANGED <<written, set, m, callbacks, running, pushed, stopped, pc, seen>>

-----------------------------------------------------------------------------
(* Future::get of a thread outside the executor: SharedState::wait, then    *)
(* the data.                                                                *)

(* while (!set && !e.stopped())                                            *)
GetTest(g) ==
  /\ pc[g] = "start"
  /\ pc' = [pc EXCEPT ![g] = IF set \/ stopped THEN "read" ELSE "lock"]
  /\ UNCHANGED <<written, set, m, callbacks, running, pushed, future, stopped, seen>>

GetLock(g) ==
  /\ Acquire(g)
  /\ \/ GoTo(g, "lock", "test")
     \/ GoTo(g, "woken", "test")
     \/ GoTo(g, "timed_out", "expired")
  /\ UNCHANGED <<written, set, callbacks, running, pushed, future, stopped, seen>>

(* cv.wait_for(lk, delay, set): the predicate, which finds the flag down,  *)
(* ...                                                                     *)
GetPredicate(g) ==
  /\ ~set
  /\ GoTo(g, "test", "blocking")
  /\ UNCHANGED <<written, set, m, callbacks, running, pushed, future, stopped, seen>>

(* ... then the sleep, without another look: the flag and the notification *)
(* take no mutex, so both may have come in between.                        *)
GetSleep(g) ==
  /\ Release(g)
  /\ GoTo(g, "blocking", "asleep")
  /\ UNCHANGED <<written, set, callbacks, running, pushed, future, stopped, seen>>

(* The predicate finds the flag up, or the time is over.                   *)
GetAwake(g) ==
  /\ \/ set /\ GoTo(g, "test", "start")
     \/ GoTo(g, "expired", "start")
  /\ Release(g)
  /\ UNCHANGED <<written, set, callbacks, running, pushed, future, stopped, seen>>

(* wait() without a time, of which the stop of the executor makes an end.  *)
UntimedWait == IF stopped THEN {"asleep"} ELSE {}
TimedWait == {"asleep"}

GetTimeout(g) ==
  /\ pc[g] \in TimedWait
  /\ pc' = [pc EXCEPT ![g] = "timed_out"]
  /\ UNCHANGED <<written, set, m, callbacks, running, pushed, future, stopped, seen>>

(* return std::move(state->data), or the exception                         *)
GetRead(g) ==
  /\ GoTo(g, "read", "end")
  /\ seen' = [seen EXCEPT ![g] = IF written THEN "outcome" ELSE "default"]
  /\ UNCHANGED <<written, set, m, callbacks, running, pushed, future, stopped>>

(* Executor::stop by some thread; the task may then never be executed.     *)
Stop ==
  /\ stopped' = TRUE
  /\ UNCHANGED <<written, set, m, callbacks, running, pushed, future, pc, seen>>

-----------------------------------------------------------------------------
Working == SetExecuted \/ NotifyAll \/ NoticeLock \/ RunCallback \/ NoticeUnlock \/ Clear
Attaching(h) == ThenSet(h) \/ ThenUnset(h) \/ ThenLock(h) \/ ThenPush(h) \/ ThenAttach(h)
                \/ ThenPushBack(h)
Getting(g) == GetTest(g) \/ GetLock(g) \/ GetPredicate(g) \/ GetSleep(g) \/ GetAwake(g)
              \/ GetTimeout(g) \/ GetRead(g)

Next ==
  \/ Execute \/ Working \/ Stop
  \/ \E h \in Thenners : Attaching(h) \/ Forget(h)
  \/ \E g \in Getters : Getting(g)

Spec == Init /\ [][Next]_vars

(* A task that has begun goes on, calls return, and a timed wait times     *)
(* out; nothing forces the executor to start the task or to be stopped.    *)
FairSpec ==
  /\ Spec
  /\ WF_vars(Working)
  /\ \A h \in Thenners : WF_vars(Attaching(h))
  /\ \A g \in Getters : WF_vars(Getting(g))

-----------------------------------------------------------------------------
Holding == {"callbacks", "test", "blocking", "push_back", "expired"}

(* The state is well formed and the mutex belongs to the thread inside a   *)
(* critical section: every way out of then() and wait() lets go of it.     *)
TypeOK ==
  /\ written \in BOOLEAN /\ set \in BOOLEAN /\ stopped \in BOOLEAN
  /\ m \in Threads \union {NoThread}
  /\ \A x \in Threads : m = x <=> pc[x] \in Holding
  /\ callbacks \in Seq(Thenners)
  /\ running \in Nat \ {0}
  /\ pushed \in [Thenners -> Nat]
  /\ future \in [Thenners -> BOOLEAN]
  /\ pc \in [Threads -> {"start", "set", "notify", "lock", "callbacks", "clear", "end",
                         "test", "blocking", "push_back", "attached",
                         "asleep", "woken", "timed_out", "expired", "read"}]
  /\ seen \in [Getters -> {"nothing", "outcome", "default"}]

(* Nobody acts on the future before the outcome is there: get() returns it  *)
(* unless the executor was stopped, and continuations start after it.       *)
(* (Every variable has its type, and the mutex its owner.)                  *)
OutcomeFirst ==
  /\ TypeOK
  /\ \A g \in Getters : seen[g] = "default" => stopped
  /\ \A h \in Thenners : pushed[h] > 0 => written

(* A continuation goes to the executor once, whether then() finds the       *)
(* future set before the lock, under it, or leaves it to notice(); and when *)
(* notice() clears the callbacks, without the mutex, all of them have been  *)
(* run and nobody may be adding one.                                       *)
ContinuationOnce ==
  /\ \A h \in Thenners : pushed[h] <= 1
  /\ pc[Worker] = "clear" => /\ running > Len(callbacks)
                             /\ \A h \in Thenners : pc[h] # "push_back"

(* No continuation is lost between the flag and the callbacks.             *)
ContinuationPushed ==
  \A h \in Thenners : set /\ pc[h] = "attached" ~> pushed[h] = 1

(* Every get() returns once the future is set or the executor stopped,     *)
(* although set and notify_all() take no mutex, so that both may come      *)
(* between a getter's look at set and its sleep, which nobody then wakes.  *)
GettersReturn == set \/ stopped ~> \A g \in Getters : pc[g] = "end"

(* A callback that then() left uses the Future it was attached to (it      *)
(* captures this): that Future is still there.                             *)
CallbackFutureLives ==
  pc[Worker] = "callbacks" /\ running <= Len(callbacks) => future[callbacks[running]]
=============================================================================
