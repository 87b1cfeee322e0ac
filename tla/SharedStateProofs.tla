-------------------------- MODULE SharedStateProofs --------------------------
(***************************************************************************)
(* Theorems about SharedState for any number of getters and continuations.  *)
(* They rest on one inductive invariant, FutureInv.                         *)
(***************************************************************************)
EXTENDS SharedState, SequenceTheorems, TLAPS

(* Where each kind of thread may be.                                        *)
RoleInv ==
  /\ pc[Worker] \in {"start", "set", "notify", "lock", "callbacks", "clear", "end"}
  /\ \A h \in Thenners : pc[h] \in {"start", "lock", "test", "push_back", "attached"}
  /\ \A g \in Getters : pc[g] \in {"start", "lock", "test", "blocking", "asleep", "woken",
                                   "timed_out", "expired", "read", "end"}

(* The flag follows the outcome, and a getter reads after the flag or a stop.*)
FlagInv ==
  /\ pc[Worker] # "start" => written
  /\ set <=> pc[Worker] \notin {"start", "set"}
  /\ \A g \in Getters : pc[g] = "read" => set \/ stopped
  /\ \A g \in Getters : seen[g] = "default" => stopped

(* A continuation is still its caller's, or left to notice() in one place,  *)
(* or pushed; notice() has pushed those before running, and once it has had *)
(* the mutex nobody adds any.                                               *)
CallbackInv ==
  /\ \A h \in Thenners : pushed[h] \in {0, 1} /\ (pushed[h] = 1 => set)
  /\ \A h \in Thenners : pc[h] # "attached" =>
       pushed[h] = 0 /\ \A i \in 1..Len(callbacks) : callbacks[i] # h
  /\ \A i, j \in 1..Len(callbacks) : callbacks[i] = callbacks[j] => i = j
  /\ \A i \in 1..Len(callbacks) : running <= i => pushed[callbacks[i]] = 0
  /\ pc[Worker] \in {"start", "set", "notify", "lock"} => running = 1
  /\ pc[Worker] \in {"callbacks", "clear", "end"} => \A h \in Thenners : pc[h] # "push_back"
  /\ pc[Worker] = "clear" => running > Len(callbacks)

FutureInv == TypeOK /\ RoleInv /\ FlagInv /\ CallbackInv

-----------------------------------------------------------------------------
(* Nobody has come yet.                                                     *)
LEMMA InitInv == Init => FutureInv
<1> SUFFICES ASSUME Init PROVE FutureInv
  OBVIOUS
<1> USE DEF Init, Threads
<1>1. TypeOK
  <2>1. callbacks \in Seq(Thenners)
    OBVIOUS
  <2>2. \A x \in Threads : m = x <=> pc[x] \in Holding
    BY SharedStateAssumption DEF Holding
  <2>3. pushed \in [Thenners -> Nat] /\ future \in [Thenners -> BOOLEAN]
    OBVIOUS
  <2>4. seen \in [Getters -> {"nothing", "outcome", "default"}]
    OBVIOUS
  <2>5. pc \in [Threads -> {"start", "set", "notify", "lock", "callbacks", "clear", "end",
                           "test", "blocking", "push_back", "attached",
                           "asleep", "woken", "timed_out", "expired", "read"}]
    OBVIOUS
  <2>6. written \in BOOLEAN /\ set \in BOOLEAN /\ stopped \in BOOLEAN
    OBVIOUS
  <2>7. running \in Nat \ {0} /\ m \in Threads \union {NoThread}
    OBVIOUS
  <2> QED BY <2>1, <2>2, <2>3, <2>4, <2>5, <2>6, <2>7 DEF TypeOK
<1>2. RoleInv /\ FlagInv
  BY DEF RoleInv, FlagInv
<1>3. CallbackInv
  BY DEF CallbackInv
<1> QED BY <1>1, <1>2, <1>3 DEF FutureInv

(* The steps of a getter leave the continuations and the worker alone.      *)
LEMMA GettingInv ==
  ASSUME FutureInv, NEW g \in Getters, Getting(g)
  PROVE  FutureInv'
<1>1. /\ UNCHANGED <<written, set, callbacks, running, pushed, future, stopped>>
      /\ \A x \in Threads : x # g => pc'[x] = pc[x]
  BY DEF FutureInv, TypeOK, Threads, Getting, GetTest, GetLock, GetPredicate, GetSleep, GetAwake, GetTimeout,
     GetRead, GoTo, Acquire, Release
<1>2. pc'[Worker] = pc[Worker] /\ \A h \in Thenners : pc'[h] = pc[h]
  BY <1>1, SharedStateAssumption DEF Threads
<1>3. TypeOK'
  <2> USE DEF Getting, GetTest, GetLock, GetPredicate, GetSleep, GetAwake, GetTimeout, TimedWait, GetRead, GoTo
  <2>1. pc' \in [Threads -> {"start", "set", "notify", "lock", "callbacks", "clear", "end",
                            "test", "blocking", "push_back", "attached",
                            "asleep", "woken", "timed_out", "expired", "read"}]
    BY DEF FutureInv, TypeOK
  <2>2. seen' \in [Getters -> {"nothing", "outcome", "default"}]
    BY DEF FutureInv, TypeOK
  <2>3. m' \in Threads \union {NoThread} /\ \A x \in Threads : m' = x <=> pc'[x] \in Holding
    <3>1. /\ g \in Threads /\ NoThread \notin Threads
          /\ pc \in [Threads -> {"start", "set", "notify", "lock", "callbacks", "clear", "end",
                                 "test", "blocking", "push_back", "attached",
                                 "asleep", "woken", "timed_out", "expired", "read"}]
          /\ m \in Threads \union {NoThread} /\ \A x \in Threads : m = x <=> pc[x] \in Holding
      BY SharedStateAssumption DEF FutureInv, TypeOK, Threads
    <3>2. CASE GetTest(g) \/ GetPredicate(g) \/ GetTimeout(g) \/ GetRead(g)
      BY <1>1, <3>1, <3>2 DEF Holding
    <3>3. CASE GetLock(g)
      BY <1>1, <3>1, <3>3 DEF Holding, Acquire
    <3>4. CASE GetSleep(g) \/ GetAwake(g)
      BY <1>1, <3>1, <3>4 DEF Holding, Release
    <3> QED BY <3>2, <3>3, <3>4
  <2> QED BY <1>1, <2>1, <2>2, <2>3 DEF FutureInv, TypeOK
<1>4. RoleInv'
  BY <1>2 DEF FutureInv, TypeOK, RoleInv, Threads, Getting, GetTest, GetLock,
     GetPredicate, GetSleep, GetAwake, GetTimeout, TimedWait, GetRead, GoTo, Acquire, Release
<1>5. FlagInv'
  BY <1>1, <1>2 DEF FutureInv, TypeOK, FlagInv, Threads, Getting, GetTest, GetLock,
     GetPredicate, GetSleep, GetAwake, GetTimeout, TimedWait, GetRead, GoTo, Acquire, Release
<1>6. CallbackInv'
  BY <1>1, <1>2 DEF FutureInv, CallbackInv
<1> QED BY <1>3, <1>4, <1>5, <1>6 DEF FutureInv

(* The steps of then().                                                     *)
LEMMA AttachingInv ==
  ASSUME FutureInv, NEW h \in Thenners, Attaching(h)
  PROVE  FutureInv'
<1>1. /\ UNCHANGED <<written, set, running, future, stopped, seen>>
      /\ \A x \in Threads : x # h => pc'[x] = pc[x]
  BY DEF FutureInv, TypeOK, Threads, Attaching, ThenSet, ThenUnset, ThenLock, ThenPush,
     ThenAttach, ThenPushBack, GoTo, Acquire, Release
<1>2. pc'[Worker] = pc[Worker] /\ \A g \in Getters : pc'[g] = pc[g]
  BY <1>1, SharedStateAssumption DEF Threads
<1>3. TypeOK'
  <2> USE DEF Attaching, ThenSet, ThenUnset, ThenLock, ThenPush, ThenAttach, ThenPushBack, GoTo,
              ReturnFuture, LockNext
  <2>1. callbacks' \in Seq(Thenners)
    <3>1. callbacks \in Seq(Thenners) /\ Append(callbacks, h) \in Seq(Thenners)
      BY AppendProperties DEF FutureInv, TypeOK
    <3>2. callbacks' = callbacks \/ callbacks' = Append(callbacks, h)
      OBVIOUS
    <3> QED BY <3>1, <3>2
  <2>2. m' \in Threads \union {NoThread} /\ \A x \in Threads : m' = x <=> pc'[x] \in Holding
    BY SharedStateAssumption DEF FutureInv, TypeOK, Threads, Holding, Acquire, Release
  <2>3. pushed' \in [Thenners -> Nat]
    BY DEF FutureInv, TypeOK
  <2>4. pc' \in [Threads -> {"start", "set", "notify", "lock", "callbacks", "clear", "end",
                            "test", "blocking", "push_back", "attached",
                            "asleep", "woken", "timed_out", "expired", "read"}]
    BY DEF FutureInv, TypeOK
  <2> QED BY <1>1, <2>1, <2>2, <2>3, <2>4 DEF FutureInv, TypeOK
<1>4. RoleInv'
  BY <1>2 DEF FutureInv, TypeOK, RoleInv, Threads, Attaching, ThenSet,
     ThenUnset, ThenLock, ThenPush, ThenAttach, ThenPushBack, GoTo, ReturnFuture, LockNext
<1>5. FlagInv'
  BY <1>1, <1>2 DEF FutureInv, FlagInv
<1>6. CallbackInv'
  <2>1. CASE ThenSet(h) \/ ThenPush(h)
    <3>1. /\ set /\ UNCHANGED <<set, callbacks, running>>
          /\ pc[h] # "attached" /\ pc' = [pc EXCEPT ![h] = "attached"]
          /\ pushed' = [pushed EXCEPT ![h] = @ + 1]
      BY <2>1 DEF ThenSet, ThenPush, SetMeanwhile, GoTo, Release, ReturnFuture
    <3>2. \A d \in Thenners : d # h => pc'[d] = pc[d] /\ pushed'[d] = pushed[d]
      BY <3>1 DEF FutureInv, TypeOK, Threads
    <3>3. pc'[h] = "attached" /\ pushed[h] = 0 /\ pushed'[h] = 1
      BY <3>1 DEF FutureInv, TypeOK, CallbackInv, Threads
    <3>4. \A i \in 1..Len(callbacks) : callbacks[i] # h /\ callbacks[i] \in Thenners
      BY <3>1 DEF FutureInv, TypeOK, CallbackInv
    <3> QED BY <1>2, <3>1, <3>2, <3>3, <3>4 DEF FutureInv, CallbackInv
  <2>2. CASE ThenUnset(h) \/ ThenLock(h) \/ ThenAttach(h)
    BY <1>2, <2>2 DEF FutureInv, TypeOK, FlagInv, CallbackInv, Threads, ThenUnset, ThenLock, ThenAttach,
       SetMeanwhile, GoTo, Acquire, LockNext
  <2>3. CASE ThenPushBack(h)
    BY <1>2, <2>3 DEF FutureInv, TypeOK, CallbackInv, Threads, ThenPushBack, GoTo, Release
  <2> QED BY <2>1, <2>2, <2>3 DEF Attaching
<1> QED BY <1>3, <1>4, <1>5, <1>6 DEF FutureInv

(* A counter that goes up stays a number.                                   *)
LEMMA OneMore ==
  ASSUME NEW S, NEW f \in [S -> Nat], NEW k
  PROVE  [f EXCEPT ![k] = @ + 1] \in [S -> Nat]
<1>1. CASE k \in S
  BY <1>1
<1>2. CASE k \notin S
  <2>1. [f EXCEPT ![k] = @ + 1] = f
    BY <1>2
  <2> QED BY <2>1
<1> QED BY <1>1, <1>2

(* The steps of the worker, from the end of the task to callbacks.clear().  *)
LEMMA WorkingInv ==
  ASSUME FutureInv, Execute \/ Working
  PROVE  FutureInv'
<1> USE DEF Execute, Working, SetExecuted, NotifyAll, NoticeLock, RunCallback, NoticeUnlock,
            Clear, GoTo
<1>1. TypeOK'
  <2>1. callbacks' \in Seq(Thenners) /\ running' \in Nat \ {0}
    <3>1. callbacks \in Seq(Thenners) /\ <<>> \in Seq(Thenners)
      BY EmptySeq DEF FutureInv, TypeOK
    <3>2. callbacks' = callbacks \/ callbacks' = <<>>
      OBVIOUS
    <3>3. running' = running \/ running' = running + 1
      OBVIOUS
    <3>4. running \in Nat \ {0}
      BY DEF FutureInv, TypeOK
    <3>5. running + 1 \in Nat \ {0}
      BY <3>4
    <3> QED BY <3>1, <3>2, <3>3, <3>4, <3>5
  <2>2. m' \in Threads \union {NoThread} /\ \A x \in Threads : m' = x <=> pc'[x] \in Holding
    BY SharedStateAssumption DEF FutureInv, TypeOK, RoleInv, Threads, Holding, Acquire, Release
  <2>3. pushed' \in [Thenners -> Nat]
    <3>1. pushed \in [Thenners -> Nat]
      BY DEF FutureInv, TypeOK
    <3>2. CASE RunCallback
      BY <3>1, <3>2, OneMore
    <3>3. CASE ~RunCallback
      <4>1. pushed' = pushed
        BY <3>3
      <4> QED BY <3>1, <4>1
    <3> QED BY <3>2, <3>3
  <2>4. pc' \in [Threads -> {"start", "set", "notify", "lock", "callbacks", "clear", "end",
                            "test", "blocking", "push_back", "attached",
                            "asleep", "woken", "timed_out", "expired", "read"}]
    BY DEF FutureInv, TypeOK
  <2>5. /\ UNCHANGED <<future, stopped, seen>>
        /\ written' \in BOOLEAN /\ set' \in BOOLEAN
    BY DEF FutureInv, TypeOK
  <2> QED BY <2>1, <2>2, <2>3, <2>4, <2>5 DEF FutureInv, TypeOK
<1>2. RoleInv'
  <2>1. /\ Worker \in Threads /\ Worker \notin Thenners /\ Worker \notin Getters
        /\ Thenners \subseteq Threads /\ Getters \subseteq Threads
    BY SharedStateAssumption DEF Threads
  <2>2. CASE NotifyAll
    BY <2>1, <2>2 DEF FutureInv, TypeOK, RoleInv
  <2>3. CASE ~NotifyAll
    <3>1. \A x \in Threads : x # Worker => pc'[x] = pc[x]
      BY <2>3 DEF FutureInv, TypeOK
    <3>2. pc'[Worker] \in {"start", "set", "notify", "lock", "callbacks", "clear", "end"}
      BY <2>1, <2>3 DEF FutureInv, TypeOK, RoleInv
    <3> QED BY <2>1, <3>1, <3>2 DEF FutureInv, RoleInv
  <2> QED BY <2>2, <2>3
<1>3. FlagInv'
  BY SharedStateAssumption DEF FutureInv, TypeOK, RoleInv, FlagInv, Threads
<1>4. CallbackInv'
  <2>1. CASE Execute \/ SetExecuted \/ NotifyAll
    <3>1. UNCHANGED <<callbacks, running, pushed>> /\ (set => set')
      BY <2>1
    <3>2. \A h \in Thenners : pc'[h] = pc[h]
      BY <2>1, SharedStateAssumption DEF FutureInv, TypeOK, RoleInv, Threads
    <3>3. running = 1 /\ pc'[Worker] \notin {"callbacks", "clear", "end"}
      BY <2>1, SharedStateAssumption DEF FutureInv, TypeOK, CallbackInv, Threads
    <3> QED BY <3>1, <3>2, <3>3 DEF FutureInv, CallbackInv
  <2>2. CASE NoticeLock
    BY <2>2, SharedStateAssumption DEF FutureInv, TypeOK, CallbackInv, Threads, Acquire, Holding
  <2>3. CASE RunCallback
    BY <2>3, SharedStateAssumption DEF FutureInv, TypeOK, FlagInv, CallbackInv, Threads
  <2>4. CASE NoticeUnlock \/ Clear
    BY <2>4, SharedStateAssumption DEF FutureInv, TypeOK, CallbackInv, Threads
  <2> QED BY <2>1, <2>2, <2>3, <2>4
<1> QED BY <1>1, <1>2, <1>3, <1>4 DEF FutureInv

(* The steps of the caller and of who stops the executor touch nothing here.*)
LEMMA OthersInv ==
  ASSUME FutureInv, Stop \/ (\E h \in Thenners : Forget(h)) \/ UNCHANGED vars
  PROVE  FutureInv'
<1>1. /\ UNCHANGED <<written, set, m, callbacks, running, pushed, pc, seen>>
      /\ stopped' \in BOOLEAN
      /\ stopped => stopped'
      /\ future' \in [Thenners -> BOOLEAN]
  BY DEF FutureInv, TypeOK, Stop, Forget, vars
<1>2. TypeOK'
  <2>1. written' \in BOOLEAN /\ set' \in BOOLEAN
    BY <1>1 DEF FutureInv, TypeOK
  <2>2. /\ m' \in Threads \union {NoThread}
        /\ \A x \in Threads : m' = x <=> pc'[x] \in Holding
        /\ callbacks' \in Seq(Thenners)
        /\ running' \in Nat \ {0}
        /\ pushed' \in [Thenners -> Nat]
        /\ pc' \in [Threads -> {"start", "set", "notify", "lock", "callbacks", "clear", "end",
                               "test", "blocking", "push_back", "attached",
                               "asleep", "woken", "timed_out", "expired", "read"}]
        /\ seen' \in [Getters -> {"nothing", "outcome", "default"}]
    BY <1>1 DEF FutureInv, TypeOK
  <2> QED BY <1>1, <2>1, <2>2 DEF TypeOK
<1>3. RoleInv'
  BY <1>1 DEF FutureInv, RoleInv
<1>4. FlagInv' /\ CallbackInv'
  BY <1>1 DEF FutureInv, FlagInv, CallbackInv
<1> QED BY <1>2, <1>3, <1>4 DEF FutureInv

LEMMA NextInv == FutureInv /\ [Next]_vars => FutureInv'
  BY GettingInv, AttachingInv, WorkingInv, OthersInv DEF Next

(* The invariant holds in every reachable state (executor.h:158-310).       *)
THEOREM FutureAlways == Spec => []FutureInv
  BY InitInv, NextInv, PTL DEF Spec

(* Nobody acts on a future before its outcome is there, however many get it *)
(* and continue it (executor.h:291-303, 629-682).                           *)
THEOREM OutcomeAlwaysFirst == Spec => []OutcomeFirst
<1>1. FutureInv => OutcomeFirst
  BY DEF FutureInv, FlagInv, CallbackInv, OutcomeFirst
<1> QED BY <1>1, FutureAlways, PTL

(* A continuation is pushed once at most, and none is added while notice()  *)
(* clears them (executor.h:199-216, 668-682).                               *)
THEOREM ContinuationsOnce == Spec => []ContinuationOnce
<1>1. FutureInv => ContinuationOnce
  BY DEF FutureInv, CallbackInv, ContinuationOnce
<1> QED BY <1>1, FutureAlways, PTL
=============================================================================
