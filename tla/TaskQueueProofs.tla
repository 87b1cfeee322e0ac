--------------------------- MODULE TaskQueueProofs ---------------------------
(***************************************************************************)
(* Theorems about TaskQueue for any number of producers, workers, closing  *)
(* threads and tasks.  All of them rest on one inductive invariant, IInv.  *)
(***************************************************************************)
EXTENDS TaskQueue, SequenceTheorems, FiniteSetTheorems, TLAPS

(* The labels at which a thread holds the mutex.                           *)
Holding == {"emplace", "try_test", "test", "pop_front", "set_done"}

(* Each thread runs the calls of its role.                                 *)
RoleInv ==
  /\ \A p \in Producers :
       pc[p] \in {"idle", "try_push", "push", "emplace", "notify_one"}
  /\ \A c \in Consumers :
       pc[c] \in {"idle", "try_test", "pop", "woken", "test", "waiting",
                  "pop_front", "running", "left"}
  /\ \A d \in Closers : pc[d] \in {"idle", "set_done", "notify_all", "closed"}

(* The mutex belongs to the one thread inside a critical section.          *)
LockInv == \A x \in Threads : m = x <=> pc[x] \in Holding

(* Who has a task in hand, and which one a consumer is taking out.         *)
ArgInv ==
  /\ \A p \in Producers :
       arg[p] # NoTask <=> pc[p] \in {"try_push", "push", "emplace"}
  /\ \A c \in Consumers :
       arg[c] # NoTask <=> pc[c] \in {"pop_front", "running"}
  /\ \A c \in Consumers :
       pc[c] = "pop_front" => q # <<>> /\ ~done /\ arg[c] = Head(q)

(* busy covers the whole time a consumer has a task.                       *)
BusyInv == \A c \in Consumers : busy[c] <=> pc[c] \in {"pop_front", "running"}

IInv == TypeOK /\ RoleInv /\ LockInv /\ ArgInv /\ BusyInv

-----------------------------------------------------------------------------
(* The initial state satisfies the invariant.                              *)
LEMMA InitInv == Init => IInv
<1> SUFFICES ASSUME Init PROVE IInv
  OBVIOUS
<1> USE TaskQueueAssumption DEF Init, Threads
<1>1. TypeOK
  <2>1. q \in Seq(Tasks) /\ enq \in Seq(Tasks) /\ taken \in Seq(Tasks)
    OBVIOUS
  <2>2. pc \in [Threads -> Labels]
    BY DEF Labels
  <2>3. arg \in [Threads -> Tasks \union {NoTask}]
    OBVIOUS
  <2>4. busy \in [Consumers -> BOOLEAN]
    OBVIOUS
  <2>5. m \in Threads \union {NoThread} /\ done \in BOOLEAN /\ dropped \in SUBSET Tasks
    OBVIOUS
  <2>6. spurious \in 0..MaxSpurious
    OBVIOUS
  <2> QED BY <2>1, <2>2, <2>3, <2>4, <2>5, <2>6 DEF TypeOK
<1>2. RoleInv
  BY DEF RoleInv
<1>3. LockInv
  BY DEF LockInv, Holding
<1>4. ArgInv
  BY DEF ArgInv
<1>5. BusyInv
  BY DEF BusyInv
<1> QED BY <1>1, <1>2, <1>3, <1>4, <1>5 DEF IInv

(* Every step preserves it: one case per operation step.                   *)
LEMMA NextInv == IInv /\ [Next]_vars => IInv'
<1> SUFFICES ASSUME IInv, [Next]_vars PROVE IInv'
  OBVIOUS
<1> USE TaskQueueAssumption
    DEF IInv, TypeOK, RoleInv, LockInv, ArgInv, BusyInv, Holding, Labels, Threads, GoTo
<1>1. ASSUME NEW p \in Producers, NEW t \in Tasks, TryPushCall(p, t) PROVE IInv'
  <2>1. TypeOK'
    BY <1>1 DEF TryPushCall
  <2>2. RoleInv'
    BY <1>1 DEF TryPushCall
  <2>3. LockInv'
    BY <1>1 DEF TryPushCall
  <2>4. ArgInv'
    BY <1>1 DEF TryPushCall
  <2>5. BusyInv'
    BY <1>1 DEF TryPushCall
  <2> QED BY <2>1, <2>2, <2>3, <2>4, <2>5
<1>2. ASSUME NEW p \in Producers, NEW t \in Tasks, PushCall(p, t) PROVE IInv'
  <2>1. TypeOK'
    BY <1>2 DEF PushCall
  <2>2. RoleInv'
    BY <1>2 DEF PushCall
  <2>3. LockInv'
    BY <1>2 DEF PushCall
  <2>4. ArgInv'
    BY <1>2 DEF PushCall
  <2>5. BusyInv'
    BY <1>2 DEF PushCall
  <2> QED BY <2>1, <2>2, <2>3, <2>4, <2>5
<1>3. ASSUME NEW p \in Producers, NEW t \in Tasks, PushDrop(p, t) PROVE IInv'
  BY <1>3 DEF PushDrop
<1>4. ASSUME NEW p \in Producers, TryPushLock(p) PROVE IInv'
  BY <1>4 DEF TryPushLock, Acquire
<1>5. ASSUME NEW p \in Producers, TryPushFail(p) PROVE IInv'
  BY <1>5 DEF TryPushFail
<1>6. ASSUME NEW p \in Producers, PushLock(p) PROVE IInv'
  BY <1>6 DEF PushLock, Acquire
<1>7. ASSUME NEW p \in Producers, Emplace(p) PROVE IInv'
  BY <1>7 DEF Emplace, Release, Enqueued, AfterEmplace
<1>8. ASSUME NEW p \in Producers, NotifyOne(p) PROVE IInv'
  <2>1. ASSUME NEW c \in Waiters, pc' = [pc EXCEPT ![p] = "idle", ![c] = "woken"]
        PROVE  IInv'
    <3>1. TypeOK'
      BY <1>8, <2>1 DEF NotifyOne, Waiters
    <3>2. RoleInv'
      BY <1>8, <2>1 DEF NotifyOne, Waiters
    <3>3. LockInv'
      BY <1>8, <2>1 DEF NotifyOne, Waiters
    <3>4. ArgInv'
      BY <1>8, <2>1 DEF NotifyOne, Waiters
    <3>5. BusyInv'
      BY <1>8, <2>1 DEF NotifyOne, Waiters
    <3> QED BY <3>1, <3>2, <3>3, <3>4, <3>5
  <2>2. CASE pc' = [pc EXCEPT ![p] = "idle"]
    BY <1>8, <2>2 DEF NotifyOne
  <2> QED BY <1>8, <2>1, <2>2 DEF NotifyOne
<1>9. ASSUME NEW c \in Consumers, TryPopLock(c) PROVE IInv'
  BY <1>9 DEF TryPopLock, Acquire
<1>10. ASSUME NEW c \in Consumers, TryPopContended(c) PROVE IInv'
  BY <1>10 DEF TryPopContended
<1>11. ASSUME NEW c \in Consumers, TryPopNothing(c) PROVE IInv'
  BY <1>11 DEF TryPopNothing, Release, CanTake
<1>12. ASSUME NEW c \in Consumers, PopLock(c) PROVE IInv'
  <2>1. TypeOK'
    BY <1>12 DEF PopLock, Acquire
  <2>2. RoleInv'
    BY <1>12 DEF PopLock, Acquire
  <2>3. LockInv'
    BY <1>12 DEF PopLock, Acquire
  <2>4. ArgInv'
    <3>1. /\ pc[c] \in {"pop", "woken"} /\ pc' = [pc EXCEPT ![c] = "test"]
          /\ UNCHANGED <<q, done, arg>>
      BY <1>12 DEF PopLock
    <3>2. c \notin Producers /\ pc'[c] = "test" /\ \A x \in Threads : x # c => pc'[x] = pc[x]
      BY <3>1
    <3> QED BY <3>1, <3>2
  <2>5. BusyInv'
    BY <1>12 DEF PopLock, Acquire
  <2> QED BY <2>1, <2>2, <2>3, <2>4, <2>5
<1>13. ASSUME NEW c \in Consumers, PopWait(c) PROVE IInv'
  BY <1>13 DEF PopWait, Release
<1>14. ASSUME NEW c \in Consumers, PopClosed(c) PROVE IInv'
  BY <1>14 DEF PopClosed, Release
<1>15. ASSUME NEW c \in Consumers, TakeFront(c) PROVE IInv'
  BY <1>15 DEF TakeFront, CanTake, Raised
<1>16. ASSUME NEW c \in Consumers, PopFront(c) PROVE IInv'
  BY <1>16 DEF PopFront, Release, Popped
<1>17. ASSUME NEW c \in Consumers, FinishTask(c) PROVE IInv'
  BY <1>17 DEF FinishTask
<1>18. ASSUME NEW c \in Consumers, SpuriousWakeup(c) PROVE IInv'
  BY <1>18 DEF SpuriousWakeup
<1>19. ASSUME NEW d \in Closers, DoneLock(d) PROVE IInv'
  BY <1>19 DEF DoneLock, Acquire
<1>20. ASSUME NEW d \in Closers, SetDone(d) PROVE IInv'
  BY <1>20 DEF SetDone, Release, AfterSetDone
<1>21. ASSUME NEW d \in Closers, NotifyAll(d) PROVE IInv'
  BY <1>21 DEF NotifyAll, Waiters
<1>22. CASE UNCHANGED vars
  BY <1>22 DEF vars
<1> QED
  BY <1>1, <1>2, <1>3, <1>4, <1>5, <1>6, <1>7, <1>8, <1>9, <1>10, <1>11, <1>12, <1>13, <1>14, <1>15, <1>16, <1>17, <1>18, <1>19, <1>20, <1>21, <1>22
     DEF Next, Producing, Consuming, Closing

(* The state is well formed in every behaviour of the queue.               *)
THEOREM TypeCorrect == Spec => []TypeOK
<1>1. IInv => TypeOK
  BY DEF IInv
<1> QED BY InitInv, NextInv, <1>1, PTL DEF Spec

(* Executor::wait, which reads the queue and then busy without the mutex,  *)
(* never overlooks a task that is between the queue and its execution.     *)
THEOREM IdleQueueIsIdle == Spec => []IdleMeansIdle
<1>1. IInv => IdleMeansIdle
  BY DEF IInv, IdleMeansIdle, BusyInv, ArgInv
<1> QED BY InitInv, NextInv, <1>1, PTL DEF Spec

(* Once done() has set the flag no task leaves the queue any more.         *)
THEOREM ClosedForGood == Spec => NothingTakenAfterDone
<1>1. IInv /\ [Next]_vars => [done => taken' = taken]_vars
  <2> SUFFICES ASSUME IInv, [Next]_vars, done PROVE taken' = taken
    OBVIOUS
  <2>1. ASSUME NEW c \in Consumers, PopFront(c) PROVE FALSE
    BY <2>1 DEF IInv, ArgInv, PopFront, GoTo
  <2> QED
    BY <2>1 DEF Next, vars, Producing, Consuming, Closing, TryPushCall, PushCall,
         PushDrop, TryPushLock, TryPushFail, PushLock, Emplace, NotifyOne,
         TryPopLock, TryPopContended, TryPopNothing, PopLock, PopWait, PopClosed,
         TakeFront, FinishTask, SpuriousWakeup, DoneLock, SetDone, NotifyAll
<1> QED BY InitInv, NextInv, <1>1, PTL DEF Spec, NothingTakenAfterDone

-----------------------------------------------------------------------------
(* Only Emplace and PopFront move tasks.                                   *)
LEMMA QueueMoves ==
  ASSUME [Next]_vars,
         \A p \in Producers : ~Emplace(p),
         \A c \in Consumers : ~PopFront(c)
  PROVE  UNCHANGED <<q, enq, taken>>
  BY DEF Next, vars, Producing, Consuming, Closing,
         TryPushCall, PushCall, PushDrop, TryPushLock, TryPushFail, PushLock,
         NotifyOne, TryPopLock, TryPopContended, TryPopNothing, PopLock, PopWait,
         PopClosed, TakeFront, FinishTask, SpuriousWakeup, DoneLock, SetDone, NotifyAll

(* What the two of them do to the queue and to the history.                *)
LEMMA EmplaceMoves ==
  ASSUME IInv, NEW p \in Producers, Emplace(p)
  PROVE  /\ arg[p] \in Tasks
         /\ q' = Append(q, arg[p])
         /\ enq' = Append(enq, arg[p])
         /\ UNCHANGED <<taken, dropped>>
  BY TaskQueueAssumption
     DEF IInv, TypeOK, ArgInv, Emplace, Enqueued, GoTo, Threads

LEMMA PopFrontMoves ==
  ASSUME IInv, NEW c \in Consumers, PopFront(c)
  PROVE  /\ q # <<>> /\ ~done /\ arg[c] = Head(q)
         /\ q' = Tail(q)
         /\ taken' = Append(taken, Head(q))
         /\ UNCHANGED <<enq, dropped>>
  BY DEF IInv, ArgInv, PopFront, Popped, GoTo

LEMMA FIFOStep == IInv /\ FIFO /\ [Next]_vars => FIFO'
<1> SUFFICES ASSUME IInv, FIFO, [Next]_vars PROVE FIFO'
  OBVIOUS
<1>0. q \in Seq(Tasks) /\ enq \in Seq(Tasks) /\ taken \in Seq(Tasks)
  BY DEF IInv, TypeOK
<1>1. ASSUME NEW p \in Producers, Emplace(p) PROVE FIFO'
  <2>1. Append(taken \o q, arg[p]) = taken \o Append(q, arg[p])
    BY <1>0, <1>1, EmplaceMoves, AppendIsConcat, ConcatAssociative, ConcatProperties
  <2> QED BY <1>1, <2>1, EmplaceMoves DEF FIFO
<1>2. ASSUME NEW c \in Consumers, PopFront(c) PROVE FIFO'
  <2>1. q = <<Head(q)>> \o Tail(q)
    BY <1>0, <1>2, PopFrontMoves
  <2>2. Head(q) \in Tasks /\ Tail(q) \in Seq(Tasks) /\ <<Head(q)>> \in Seq(Tasks)
    BY <1>0, <1>2, PopFrontMoves, HeadTailProperties
  <2>3. taken \o (<<Head(q)>> \o Tail(q)) = (taken \o <<Head(q)>>) \o Tail(q)
    BY <1>0, <2>2, ConcatAssociative
  <2>4. taken \o q = Append(taken, Head(q)) \o Tail(q)
    BY <1>0, <2>1, <2>2, <2>3, AppendIsConcat
  <2> QED BY <1>2, <2>4, PopFrontMoves DEF FIFO
<1>3. CASE UNCHANGED <<q, enq, taken>>
  BY <1>3 DEF FIFO
<1> QED BY <1>1, <1>2, <1>3, QueueMoves

(* Tasks leave in the order in which they entered.                         *)
THEOREM QueueIsFIFO == Spec => []FIFO
<1>1. Init => FIFO
  BY DEF Init, FIFO
<1> QED BY InitInv, NextInv, FIFOStep, <1>1, PTL DEF Spec

(* No worker stays blocked in pop after done() has finished.               *)
THEOREM WaitersAreReleased == Spec => []NoWaiterAfterDone
<1>1. Init => NoWaiterAfterDone
  BY DEF Init, NoWaiterAfterDone
<1>2. IInv /\ NoWaiterAfterDone /\ [Next]_vars => NoWaiterAfterDone'
  <2> SUFFICES ASSUME IInv, NoWaiterAfterDone, Next PROVE NoWaiterAfterDone'
    BY DEF vars, NoWaiterAfterDone, Waiters
  <2> USE TaskQueueAssumption
      DEF IInv, TypeOK, RoleInv, NoWaiterAfterDone, Waiters, Threads, GoTo
  <2>1. ASSUME NEW p \in Producers, NEW t \in Tasks,
               TryPushCall(p, t) \/ PushCall(p, t) \/ PushDrop(p, t)
        PROVE  NoWaiterAfterDone'
    BY <2>1 DEF TryPushCall, PushCall, PushDrop
  <2>2. ASSUME NEW p \in Producers, Producing(p) PROVE NoWaiterAfterDone'
    <3>1. CASE TryPushLock(p) \/ TryPushFail(p) \/ PushLock(p) \/ Emplace(p)
      <4>1. /\ done' = done
            /\ \E l \in {"emplace", "idle", "notify_one"} : pc' = [pc EXCEPT ![p] = l]
        BY <3>1 DEF TryPushLock, TryPushFail, PushLock, Emplace, AfterEmplace
      <4>2. \A x \in Consumers \union Closers : pc'[x] = pc[x]
        BY <4>1
      <4> QED BY <4>1, <4>2
    <3>2. ASSUME NEW c \in Waiters, NotifyOne(p),
                 pc' = [pc EXCEPT ![p] = "idle", ![c] = "woken"]
          PROVE  NoWaiterAfterDone'
      BY <3>2 DEF NotifyOne
    <3>3. CASE NotifyOne(p) /\ pc' = [pc EXCEPT ![p] = "idle"]
      BY <3>3 DEF NotifyOne
    <3> QED BY <2>2, <3>1, <3>2, <3>3 DEF Producing, NotifyOne
  <2>3. ASSUME NEW c \in Consumers, Consuming(c) \/ SpuriousWakeup(c)
        PROVE  NoWaiterAfterDone'
    <3>1. CASE \/ TryPopLock(c) \/ TryPopContended(c) \/ TryPopNothing(c)
               \/ PopLock(c) \/ PopWait(c) \/ PopClosed(c)
      <4>1. /\ done' = done /\ (pc'[c] = "waiting" => ~done \/ pc[c] = "waiting")
            /\ \E l \in Labels : pc' = [pc EXCEPT ![c] = l]
        BY <3>1 DEF TryPopLock, TryPopContended, TryPopNothing, PopLock, PopWait, PopClosed, Labels
      <4>2. \A x \in Threads : x # c => pc'[x] = pc[x]
        BY <4>1
      <4> QED BY <4>1, <4>2
    <3>2. CASE TakeFront(c) \/ PopFront(c) \/ FinishTask(c) \/ SpuriousWakeup(c)
      BY <3>2 DEF TakeFront, PopFront, FinishTask, SpuriousWakeup
    <3> QED BY <2>3, <3>1, <3>2 DEF Consuming
  <2>4. ASSUME NEW d \in Closers, DoneLock(d) \/ Closing(d) PROVE NoWaiterAfterDone'
    <3>1. CASE DoneLock(d)
      BY <3>1 DEF DoneLock
    <3>2. CASE SetDone(d)
      BY <3>2 DEF SetDone, AfterSetDone
    <3>3. CASE NotifyAll(d)
      <4>1. \A c \in Consumers : pc'[c] # "waiting"
        BY <3>3 DEF NotifyAll
      <4> QED BY <4>1
    <3> QED BY <2>4, <3>1, <3>2, <3>3 DEF Closing
  <2> QED BY <2>1, <2>2, <2>3, <2>4 DEF Next
<1> QED BY InitInv, NextInv, <1>1, <1>2, PTL DEF Spec

-----------------------------------------------------------------------------
(* The strengthening EachTaskOnce needs: a task in a producer's hands is   *)
(* new to the queue and nobody else's, and a running task has left it.     *)
OnceInv ==
  /\ \A i, j \in 1..Len(enq) : enq[i] = enq[j] => i = j
  /\ Range(enq) \intersect dropped = {}
  /\ \A p \in Producers : arg[p] # NoTask => arg[p] \notin Range(enq) \union dropped
  /\ \A p, r \in Producers : arg[p] = arg[r] /\ arg[p] # NoTask => p = r
  /\ \A c \in Consumers : pc[c] = "running" => arg[c] \in Range(taken)
  /\ \A c, d \in Consumers : arg[c] = arg[d] /\ arg[c] # NoTask => c = d

(* The tasks of an appended sequence.                                      *)
LEMMA RangeAppend ==
  ASSUME NEW S, NEW s \in Seq(S), NEW e \in S
  PROVE  Range(Append(s, e)) = Range(s) \union {e}
<1>1. Append(s, e) \in Seq(S) /\ Len(Append(s, e)) = Len(s) + 1
  BY AppendProperties
<1>2. Range(Append(s, e)) = {Append(s, e)[i] : i \in 1..Len(s) + 1}
  BY <1>1, RangeEquality
<1>3. Range(s) = {s[i] : i \in 1..Len(s)}
  BY RangeEquality
<1>4. /\ \A i \in 1..Len(s) : Append(s, e)[i] = s[i]
      /\ Append(s, e)[Len(s) + 1] = e
      /\ Len(s) \in Nat
  BY AppendProperties, LenProperties
<1>5. \A i \in 1..Len(s) + 1 : i \in 1..Len(s) \/ i = Len(s) + 1
  BY <1>4
<1>6. 1..Len(s) \subseteq 1..Len(s) + 1 /\ Len(s) + 1 \in 1..Len(s) + 1
  BY <1>4
<1>7. Range(Append(s, e)) \subseteq Range(s) \union {e}
  BY <1>2, <1>3, <1>4, <1>5
<1>8. Range(s) \union {e} \subseteq Range(Append(s, e))
  BY <1>2, <1>3, <1>4, <1>6
<1> QED BY <1>7, <1>8

(* The task at the front has not left the queue yet.                       *)
LEMMA HeadNotTaken ==
  ASSUME IInv, FIFO, OnceInv, q # <<>>
  PROVE  Head(q) \notin Range(taken)
<1>1. q \in Seq(Tasks) /\ taken \in Seq(Tasks)
  BY DEF IInv, TypeOK
<1>2. Len(q) \in Nat \ {0} /\ Len(taken) \in Nat /\ Head(q) = q[1]
  BY <1>1, EmptySeq, LenProperties
<1>3. /\ Len(enq) = Len(taken) + Len(q)
      /\ \A i \in 1..Len(taken) : enq[i] = taken[i]
      /\ enq[Len(taken) + 1] = q[1]
  BY <1>1, <1>2, ConcatProperties DEF FIFO
<1>4. ASSUME NEW i \in 1..Len(taken), taken[i] = Head(q) PROVE FALSE
  <2>1. i \in 1..Len(enq) /\ Len(taken) + 1 \in 1..Len(enq) /\ i # Len(taken) + 1
    BY <1>2, <1>3
  <2>2. enq[i] = enq[Len(taken) + 1]
    BY <1>2, <1>3, <1>4
  <2> QED BY <2>1, <2>2 DEF OnceInv
<1> QED BY <1>1, <1>4, RangeEquality

LEMMA OnceStep == IInv /\ FIFO /\ OnceInv /\ [Next]_vars => OnceInv'
<1> SUFFICES ASSUME IInv, FIFO, OnceInv, [Next]_vars PROVE OnceInv'
  OBVIOUS
<1> USE TaskQueueAssumption
<1>0. /\ q \in Seq(Tasks) /\ enq \in Seq(Tasks) /\ taken \in Seq(Tasks)
      /\ arg \in [Threads -> Tasks \union {NoTask}]
      /\ pc \in [Threads -> Labels]
  BY DEF IInv, TypeOK
<1>1. ASSUME NEW p \in Producers, NEW t \in Tasks, TryPushCall(p, t) \/ PushCall(p, t)
      PROVE  OnceInv'
  <2>1. /\ arg' = [arg EXCEPT ![p] = t]
        /\ \E l \in {"try_push", "push"} : pc' = [pc EXCEPT ![p] = l]
        /\ UNCHANGED <<enq, taken, dropped>>
        /\ t \notin Range(enq) \union dropped
        /\ \A r \in Producers : arg[r] # t
    BY <1>1 DEF TryPushCall, PushCall, Fresh, GoTo
  <2>2. /\ arg'[p] = t /\ \A x \in Threads : x # p => arg'[x] = arg[x]
        /\ \A c \in Consumers : pc'[c] = pc[c] /\ arg'[c] = arg[c]
    BY <1>0, <2>1 DEF Threads
  <2> QED BY <2>1, <2>2 DEF OnceInv, Threads
<1>2. ASSUME NEW p \in Producers, NEW t \in Tasks, PushDrop(p, t) PROVE OnceInv'
  BY <1>0, <1>2 DEF OnceInv, PushDrop, Fresh
<1>3. ASSUME NEW p \in Producers, TryPushFail(p) PROVE OnceInv'
  BY <1>0, <1>3 DEF OnceInv, TryPushFail, GoTo, Threads
<1>4. ASSUME NEW p \in Producers, Emplace(p) PROVE OnceInv'
  <2>1. arg[p] \in Tasks /\ arg[p] # NoTask
    BY <1>4, EmplaceMoves
  <2>2. Range(enq') = Range(enq) \union {arg[p]}
    <3>1. enq' = Append(enq, arg[p])
      BY <1>4, EmplaceMoves
    <3> QED BY <1>0, <2>1, <3>1, RangeAppend
  <2>3. /\ pc' = [pc EXCEPT ![p] = "notify_one"]
        /\ arg' = [arg EXCEPT ![p] = NoTask]
        /\ UNCHANGED <<taken, dropped>>
    BY <1>4 DEF Emplace, GoTo, AfterEmplace
  <2>4. \A i, j \in 1..Len(enq') : enq'[i] = enq'[j] => i = j
    <3>1. /\ Len(enq') = Len(enq) + 1
          /\ \A i \in 1..Len(enq) : enq'[i] = enq[i]
          /\ enq'[Len(enq) + 1] = arg[p]
          /\ Len(enq) \in Nat
      <4>1. enq' = Append(enq, arg[p])
        BY <1>4, EmplaceMoves
      <4> QED BY <1>0, <2>1, <4>1, AppendProperties, LenProperties
    <3>2. \A i \in 1..Len(enq) : enq[i] # arg[p]
      BY <1>0, <2>1, RangeEquality DEF OnceInv
    <3> QED BY <3>1, <3>2 DEF OnceInv
  <2> QED BY <1>0, <2>1, <2>2, <2>3, <2>4 DEF OnceInv, Threads
<1>5. ASSUME NEW c \in Consumers, TakeFront(c) PROVE OnceInv'
  <2>1. /\ q # <<>> /\ Head(q) \in Tasks /\ Head(q) \notin Range(taken)
        /\ arg' = [arg EXCEPT ![c] = Head(q)]
        /\ pc' = [pc EXCEPT ![c] = "pop_front"]
        /\ UNCHANGED <<enq, taken, dropped>>
    BY <1>0, <1>5, HeadNotTaken, HeadTailProperties DEF TakeFront, CanTake
  <2>2. \A d \in Consumers : d # c => arg[d] # Head(q)
    <3>1. \A d \in Consumers : d # c => pc[d] # "pop_front"
      BY <1>0, <1>5 DEF IInv, LockInv, TakeFront, Holding, Threads
    <3>2. \A d \in Consumers : pc[d] = "running" => arg[d] # Head(q)
      BY <2>1 DEF OnceInv
    <3> QED BY <2>1, <3>1, <3>2 DEF IInv, ArgInv
  <2>3. /\ \A p \in Producers : arg'[p] = arg[p]
        /\ arg'[c] = Head(q)
        /\ \A d \in Consumers : d # c => arg'[d] = arg[d]
        /\ \A d \in Consumers : pc'[d] = "running" => d # c /\ pc[d] = "running"
    BY <1>0, <2>1 DEF Threads
  <2>4. \A d, e \in Consumers : arg'[d] = arg'[e] /\ arg'[d] # NoTask => d = e
    BY <2>2, <2>3 DEF OnceInv
  <2>5. /\ \A i, j \in 1..Len(enq') : enq'[i] = enq'[j] => i = j
        /\ Range(enq') \intersect dropped' = {}
    BY <2>1 DEF OnceInv
  <2>6. /\ \A p \in Producers : arg'[p] # NoTask => arg'[p] \notin Range(enq') \union dropped'
        /\ \A p, r \in Producers : arg'[p] = arg'[r] /\ arg'[p] # NoTask => p = r
    BY <2>1, <2>3 DEF OnceInv
  <2>7. \A d \in Consumers : pc'[d] = "running" => arg'[d] \in Range(taken')
    BY <2>1, <2>3 DEF OnceInv
  <2> QED BY <2>4, <2>5, <2>6, <2>7 DEF OnceInv
<1>6. ASSUME NEW c \in Consumers, PopFront(c) PROVE OnceInv'
  <2>1. Head(q) \in Tasks /\ Range(taken') = Range(taken) \union {Head(q)}
    <3>1. q # <<>> /\ taken' = Append(taken, Head(q))
      BY <1>6, PopFrontMoves
    <3>2. Head(q) \in Tasks
      BY <1>0, <3>1, HeadTailProperties
    <3> QED BY <1>0, <3>1, <3>2, RangeAppend
  <2>2. /\ pc' = [pc EXCEPT ![c] = "running"]
        /\ arg[c] = Head(q)
        /\ UNCHANGED <<enq, arg, dropped>>
    BY <1>6, PopFrontMoves DEF PopFront, GoTo
  <2> QED BY <1>0, <2>1, <2>2 DEF OnceInv, Threads
<1>7. ASSUME NEW c \in Consumers, FinishTask(c) PROVE OnceInv'
  BY <1>0, <1>7 DEF OnceInv, FinishTask, GoTo, Threads
<1>8. ASSUME NEW p \in Producers, TryPushLock(p) \/ PushLock(p) \/ NotifyOne(p)
      PROVE  OnceInv'
  <2>1. UNCHANGED <<enq, taken, dropped, arg>>
    BY <1>8 DEF TryPushLock, PushLock, NotifyOne
  <2>2. \A c \in Consumers : pc'[c] = "running" => pc[c] = "running"
    <3>1. CASE TryPushLock(p) \/ PushLock(p)
      BY <1>0, <3>1 DEF TryPushLock, PushLock, GoTo, Threads
    <3>2. CASE NotifyOne(p)
      <4>1. ASSUME NEW c \in Waiters, pc' = [pc EXCEPT ![p] = "idle", ![c] = "woken"]
            PROVE  \A d \in Consumers : pc'[d] = "running" => pc[d] = "running"
        BY <1>0, <4>1 DEF Waiters, Threads
      <4>2. CASE pc' = [pc EXCEPT ![p] = "idle"]
        BY <1>0, <4>2 DEF Threads
      <4> QED BY <3>2, <4>1, <4>2 DEF NotifyOne
    <3> QED BY <1>8, <3>1, <3>2
  <2> QED BY <2>1, <2>2 DEF OnceInv
<1>9. ASSUME NEW c \in Consumers,
             \/ TryPopLock(c) \/ TryPopContended(c) \/ TryPopNothing(c) \/ PopLock(c)
             \/ PopWait(c) \/ PopClosed(c) \/ SpuriousWakeup(c)
      PROVE  OnceInv'
  <2>1. UNCHANGED <<enq, taken, dropped, arg>>
    BY <1>9 DEF TryPopLock, TryPopContended, TryPopNothing, PopLock, PopWait,
         PopClosed, SpuriousWakeup
  <2>2. \A d \in Consumers : pc'[d] = "running" => pc[d] = "running"
    BY <1>0, <1>9 DEF TryPopLock, TryPopContended, TryPopNothing, PopLock, PopWait,
         PopClosed, SpuriousWakeup, GoTo, Threads
  <2> QED BY <2>1, <2>2 DEF OnceInv
<1>10. ASSUME NEW d \in Closers, DoneLock(d) \/ SetDone(d) \/ NotifyAll(d)
       PROVE  OnceInv'
  <2>1. UNCHANGED <<enq, taken, dropped, arg>>
    BY <1>10 DEF DoneLock, SetDone, NotifyAll
  <2>2. \A c \in Consumers : pc'[c] = "running" => pc[c] = "running"
    <3>1. CASE DoneLock(d) \/ SetDone(d)
      BY <1>0, <3>1 DEF DoneLock, SetDone, AfterSetDone, GoTo, Threads
    <3>2. CASE NotifyAll(d)
      BY <1>0, <3>2 DEF NotifyAll, Threads
    <3> QED BY <1>10, <3>1, <3>2
  <2> QED BY <2>1, <2>2 DEF OnceInv
<1>11. CASE UNCHANGED vars
  BY <1>11 DEF vars, OnceInv
<1> QED
  BY <1>1, <1>2, <1>3, <1>4, <1>5, <1>6, <1>7, <1>8, <1>9, <1>10, <1>11
     DEF Next, Producing, Consuming, Closing

(* No task is queued twice, kept after being discarded, or handed to two   *)
(* workers.                                                                *)
THEOREM TasksAreHandedOnce == Spec => []EachTaskOnce
<1>1. Init => FIFO /\ OnceInv
  <2> SUFFICES ASSUME Init PROVE FIFO /\ OnceInv
    OBVIOUS
  <2>1. FIFO
    BY DEF Init, FIFO
  <2>2. Len(enq) = 0 /\ Range(enq) = {}
    BY DEF Init, Range
  <2>3. OnceInv
    BY <2>2 DEF Init, OnceInv, Threads
  <2> QED BY <2>1, <2>3
<1>2. IInv /\ FIFO /\ OnceInv => EachTaskOnce
  <2> SUFFICES ASSUME IInv, OnceInv PROVE EachTaskOnce
    OBVIOUS
  <2>1. DOMAIN enq = 1..Len(enq)
    BY LenProperties DEF IInv, TypeOK
  <2> QED BY <2>1 DEF OnceInv, EachTaskOnce
<1> QED BY InitInv, NextInv, QueueIsFIFO, OnceStep, <1>1, <1>2, PTL DEF Spec

-----------------------------------------------------------------------------
(* The task a consumer has been handed, as ImplementsAtomicQueue maps it.  *)
Hand == [c \in Consumers |-> IF pc[c] = "running" THEN arg[c] ELSE NoTask]

(* The locks and notifications implement the queue with atomic operations: *)
(* whoever uses a TaskQueue may reason about AtomicTaskQueue instead.      *)
THEOREM QueueIsAtomic == Spec => ImplementsAtomicQueue
<1> DEFINE IAll == IInv /\ FIFO /\ OnceInv
<1>1. Init => IAll
  <2> SUFFICES ASSUME Init PROVE IAll
    OBVIOUS
  <2>1. FIFO
    BY DEF Init, FIFO
  <2>2. Len(enq) = 0 /\ Range(enq) = {}
    BY DEF Init, Range
  <2>3. OnceInv
    BY <2>2 DEF Init, OnceInv, Threads
  <2> QED BY <2>1, <2>3, InitInv
<1>2. Init => Abstract!Init
  BY DEF Init, Abstract!Init, Range, Threads
<1>3. IAll /\ [Next]_vars => [Abstract!Next]_(Abstract!vars)
  <2> SUFFICES ASSUME IInv, FIFO, OnceInv, [Next]_vars
               PROVE  Abstract!Next \/ UNCHANGED Abstract!vars
    OBVIOUS
  <2> USE TaskQueueAssumption
  <2>0. /\ arg \in [Threads -> Tasks \union {NoTask}]
        /\ pc \in [Threads -> Labels]
        /\ q \in Seq(Tasks) /\ enq \in Seq(Tasks)
    BY DEF IInv, TypeOK
  <2>1. ASSUME NEW p \in Producers, Emplace(p) PROVE Abstract!Accept(arg[p])
    <3>1. arg[p] \in Tasks /\ arg[p] \notin Range(enq)
      BY <2>1, EmplaceMoves DEF OnceInv
    <3>2. Range(enq') = Range(enq) \union {arg[p]}
      <4>1. enq' = Append(enq, arg[p])
        BY <2>1, EmplaceMoves
      <4> QED BY <2>0, <3>1, <4>1, RangeAppend
    <3>3. UNCHANGED <<done, Hand>>
      BY <2>0, <2>1 DEF Emplace, AfterEmplace, GoTo, Hand, Threads
    <3> QED BY <2>1, <3>1, <3>2, <3>3, EmplaceMoves DEF Abstract!Accept, Hand
  <2>2. ASSUME NEW c \in Consumers, PopFront(c) PROVE Abstract!Hand(c)
    <3>1. Hand' = [Hand EXCEPT ![c] = Head(q)] /\ Hand[c] = NoTask
      BY <2>0, <2>2, PopFrontMoves DEF PopFront, GoTo, Hand, Threads
    <3>2. UNCHANGED <<done, Range(enq)>>
      BY <2>2 DEF PopFront
    <3> QED BY <2>2, <3>1, <3>2, PopFrontMoves DEF Abstract!Hand, Hand
  <2>3. ASSUME NEW c \in Consumers, FinishTask(c) PROVE Abstract!Finish(c)
    <3>1. Hand' = [Hand EXCEPT ![c] = NoTask] /\ Hand[c] # NoTask
      BY <2>0, <2>3 DEF FinishTask, GoTo, Hand, Threads, IInv, ArgInv
    <3> QED BY <2>3, <3>1 DEF Abstract!Finish, Hand, FinishTask
  <2>4. ASSUME NEW d \in Closers, SetDone(d) PROVE Abstract!Close
    <3>1. UNCHANGED Hand
      BY <2>0, <2>4 DEF SetDone, AfterSetDone, GoTo, Hand, Threads
    <3> QED BY <2>4, <3>1 DEF Abstract!Close, Hand, SetDone
  <2>5. ASSUME NEW p \in Producers, NEW t \in Tasks,
               TryPushCall(p, t) \/ PushCall(p, t) \/ PushDrop(p, t)
        PROVE  UNCHANGED <<q, done, Hand, enq>>
    BY <2>0, <2>5 DEF TryPushCall, PushCall, PushDrop, GoTo, Hand, Threads
  <2>6. ASSUME NEW p \in Producers, TryPushLock(p) \/ TryPushFail(p) \/ PushLock(p)
        PROVE  UNCHANGED <<q, done, Hand, enq>>
    BY <2>0, <2>6 DEF TryPushLock, TryPushFail, PushLock, GoTo, Hand, Threads
  <2>7. ASSUME NEW p \in Producers, NotifyOne(p) PROVE UNCHANGED <<q, done, Hand, enq>>
    <3>1. ASSUME NEW c \in Waiters, pc' = [pc EXCEPT ![p] = "idle", ![c] = "woken"]
          PROVE  UNCHANGED Hand
      BY <2>0, <2>7, <3>1 DEF NotifyOne, Waiters, Hand, Threads
    <3>2. ASSUME pc' = [pc EXCEPT ![p] = "idle"] PROVE UNCHANGED Hand
      BY <2>0, <2>7, <3>2 DEF NotifyOne, Hand, Threads
    <3> QED BY <2>7, <3>1, <3>2 DEF NotifyOne
  <2>8. ASSUME NEW c \in Consumers,
               \/ TryPopLock(c) \/ TryPopContended(c) \/ TryPopNothing(c) \/ PopLock(c)
               \/ PopWait(c) \/ PopClosed(c) \/ SpuriousWakeup(c) \/ TakeFront(c)
        PROVE  UNCHANGED <<q, done, Hand, enq>>
    BY <2>0, <2>8 DEF TryPopLock, TryPopContended, TryPopNothing, PopLock, PopWait,
         PopClosed, SpuriousWakeup, TakeFront, GoTo, Hand, Threads
  <2>9. ASSUME NEW d \in Closers, DoneLock(d) \/ NotifyAll(d)
        PROVE  UNCHANGED <<q, done, Hand, enq>>
    BY <2>0, <2>9 DEF DoneLock, NotifyAll, Waiters, GoTo, Hand, Threads
  <2>10. CASE UNCHANGED vars
    BY <2>10 DEF vars, Hand, Abstract!vars
  <2>11. UNCHANGED <<q, done, Hand, enq>> => UNCHANGED Abstract!vars
    BY DEF Abstract!vars, Hand
  <2> QED
    BY <2>1, <2>2, <2>3, <2>4, <2>5, <2>6, <2>7, <2>8, <2>9, <2>10, <2>11, EmplaceMoves
       DEF Next, Producing, Consuming, Closing, Abstract!Next
<1>4. IAll /\ [Next]_vars => IAll'
  <2>1. IInv /\ FIFO /\ [Next]_vars => FIFO'
    BY FIFOStep
  <2> QED BY <2>1, NextInv, OnceStep
<1> QED
  BY <1>1, <1>2, <1>3, <1>4, PTL DEF Spec, ImplementsAtomicQueue, Abstract!Spec

-----------------------------------------------------------------------------
(* Counting the threads at a set of labels.                                *)
LEMMA ThreadCount ==
  ASSUME NEW S, S \subseteq Threads
  PROVE  /\ IsFiniteSet(S) /\ Cardinality(S) \in Nat
         /\ \A x \in Threads \ S : Cardinality(S \union {x}) = Cardinality(S) + 1
         /\ \A x \in S : Cardinality(S \ {x}) = Cardinality(S) - 1
<1>1. IsFiniteSet(S)
  BY TaskQueueAssumption, FS_Subset
<1>2. Cardinality(S) \in Nat
  BY <1>1, FS_CardinalityType
<1>3. \A x \in Threads \ S : Cardinality(S \union {x}) = Cardinality(S) + 1
  BY <1>1, FS_AddElement
<1>4. \A x \in S : Cardinality(S \ {x}) = Cardinality(S) - 1
  BY <1>1, FS_RemoveElement
<1> QED BY <1>1, <1>2, <1>3, <1>4

LEMMA PendingInTest ==
  /\ Pending \subseteq Threads /\ InTest \subseteq Threads
  /\ Pending' \subseteq Threads /\ InTest' \subseteq Threads
  BY DEF Pending, InTest, Threads

(* A notification may be consumed by a worker that finds the queue already *)
(* drained, but never while a task it was sent for waits with a blocked    *)
(* worker.                                                                 *)
LEMMA WakeupStep == IInv /\ NoLostWakeup /\ [Next]_vars => NoLostWakeup'
<1> SUFFICES ASSUME IInv, NoLostWakeup, [Next]_vars, ~done', Waiters' # {}
             PROVE  Len(q') <= Cardinality(Pending') + Cardinality(InTest')
  BY DEF NoLostWakeup
<1> USE TaskQueueAssumption
<1> DEFINE Enough == Len(q') <= Cardinality(Pending') + Cardinality(InTest')
<1>0. /\ pc \in [Threads -> Labels] /\ q \in Seq(Tasks) /\ Len(q) \in Nat
      /\ Cardinality(Pending) \in Nat /\ Cardinality(InTest) \in Nat
      /\ Cardinality(Pending') \in Nat /\ Cardinality(InTest') \in Nat
  BY PendingInTest, ThreadCount, LenProperties DEF IInv, TypeOK
(* Steps that add no waiter and leave the queue and the counts alone.      *)
<1>1. ASSUME UNCHANGED <<q, done>>, Waiters' \subseteq Waiters,
             Pending' = Pending, InTest' = InTest
      PROVE  Enough
  BY <1>1 DEF NoLostWakeup
<1>2. ASSUME NEW p \in Producers, NEW t \in Tasks,
             TryPushCall(p, t) \/ PushCall(p, t) \/ PushDrop(p, t)
      PROVE  Enough
  BY <1>0, <1>1, <1>2
     DEF TryPushCall, PushCall, PushDrop, GoTo, Waiters, Pending, InTest, Threads
<1>3. ASSUME NEW p \in Producers, TryPushLock(p) \/ TryPushFail(p) \/ PushLock(p)
      PROVE  Enough
  BY <1>0, <1>1, <1>3
     DEF TryPushLock, TryPushFail, PushLock, GoTo, Waiters, Pending, InTest, Threads
<1>4. ASSUME NEW p \in Producers, Emplace(p) PROVE Enough
  <2>1. /\ Waiters' = Waiters /\ InTest' = InTest /\ done' = done
        /\ Pending' = Pending \union {p} /\ p \in Threads \ Pending
    BY <1>0, <1>4 DEF Emplace, AfterEmplace, GoTo, Waiters, Pending, InTest, Threads
  <2>2. Len(q') = Len(q) + 1
    BY <1>0, <1>4, EmplaceMoves, AppendProperties
  <2>3. Cardinality(Pending') = Cardinality(Pending) + 1
    BY <2>1, PendingInTest, ThreadCount
  <2> QED BY <1>0, <2>1, <2>2, <2>3 DEF NoLostWakeup
<1>5. ASSUME NEW p \in Producers, NotifyOne(p) PROVE Enough
  <2>1. ASSUME NEW c \in Waiters, pc' = [pc EXCEPT ![p] = "idle", ![c] = "woken"]
        PROVE  Enough
    <3>1. /\ Waiters' \subseteq Waiters /\ InTest' = InTest
          /\ Pending' = (Pending \ {p}) \union {c}
          /\ p \in Pending /\ c \in Threads \ Pending /\ c # p
      BY <1>0, <1>5, <2>1 DEF NotifyOne, Waiters, Pending, InTest, Threads
    <3>2. Cardinality(Pending \ {p}) = Cardinality(Pending) - 1
      BY <3>1, PendingInTest, ThreadCount
    <3>3. Cardinality(Pending') = Cardinality(Pending \ {p}) + 1
      BY <3>1, PendingInTest, ThreadCount
    <3>4. UNCHANGED <<q, done>>
      BY <1>5 DEF NotifyOne
    <3> QED BY <1>0, <3>1, <3>2, <3>3, <3>4 DEF NoLostWakeup
  <2>2. ASSUME Waiters = {}, pc' = [pc EXCEPT ![p] = "idle"] PROVE FALSE
    BY <1>0, <2>2 DEF Waiters, Threads
  <2> QED BY <1>5, <2>1, <2>2 DEF NotifyOne
<1>6. ASSUME NEW c \in Consumers, TryPopLock(c) PROVE Enough
  <2>1. /\ Waiters' \subseteq Waiters /\ Pending' = Pending /\ UNCHANGED <<q, done>>
        /\ InTest' = InTest \union {c} /\ c \in Threads \ InTest
    BY <1>0, <1>6 DEF TryPopLock, GoTo, Waiters, Pending, InTest, Threads
  <2>2. Cardinality(InTest') = Cardinality(InTest) + 1
    BY <2>1, PendingInTest, ThreadCount
  <2> QED BY <1>0, <2>1, <2>2 DEF NoLostWakeup
<1>7. ASSUME NEW c \in Consumers, TryPopContended(c) \/ TakeFront(c) \/ FinishTask(c)
      PROVE  Enough
  BY <1>0, <1>1, <1>7
     DEF TryPopContended, TakeFront, FinishTask, GoTo, Waiters, Pending, InTest, Threads
(* Steps that leave the queue empty, or are taken after the close.         *)
<1>8. ASSUME NEW c \in Consumers, TryPopNothing(c) \/ PopWait(c) PROVE Enough
  <2>1. q' = <<>>
    BY <1>8 DEF TryPopNothing, PopWait, CanTake
  <2> QED BY <1>0, <2>1
<1>9. ASSUME NEW c \in Consumers, PopClosed(c) PROVE FALSE
  BY <1>9 DEF PopClosed
<1>10. ASSUME NEW c \in Consumers, PopLock(c) PROVE Enough
  <2>1. /\ Waiters' \subseteq Waiters /\ UNCHANGED <<q, done>>
        /\ InTest' = InTest \union {c} /\ c \in Threads \ InTest
        /\ Pending' = Pending \/ (c \in Pending /\ Pending' = Pending \ {c})
    BY <1>0, <1>10 DEF PopLock, GoTo, Waiters, Pending, InTest, Threads
  <2>2. Cardinality(InTest') = Cardinality(InTest) + 1
    BY <2>1, PendingInTest, ThreadCount
  <2>3. Cardinality(Pending') >= Cardinality(Pending) - 1
    BY <1>0, <2>1, PendingInTest, ThreadCount
  <2> QED BY <1>0, <2>1, <2>2, <2>3 DEF NoLostWakeup
<1>11. ASSUME NEW c \in Consumers, SpuriousWakeup(c) PROVE Enough
  <2>1. /\ Waiters' \subseteq Waiters /\ InTest' = InTest /\ UNCHANGED <<q, done>>
        /\ Pending' = Pending \union {c} /\ c \in Threads \ Pending
        /\ Waiters # {}
    BY <1>0, <1>11 DEF SpuriousWakeup, GoTo, Waiters, Pending, InTest, Threads
  <2>2. Cardinality(Pending') = Cardinality(Pending) + 1
    BY <2>1, PendingInTest, ThreadCount
  <2> QED BY <1>0, <2>1, <2>2 DEF NoLostWakeup
<1>12. ASSUME NEW c \in Consumers, PopFront(c) PROVE Enough
  <2>1. /\ Waiters' = Waiters /\ Pending' = Pending /\ done' = done
        /\ InTest' = InTest \ {c} /\ c \in InTest
    BY <1>0, <1>12 DEF PopFront, GoTo, Waiters, Pending, InTest, Threads
  <2>2. Len(q') = Len(q) - 1
    BY <1>0, <1>12, PopFrontMoves, HeadTailProperties
  <2>3. Cardinality(InTest') = Cardinality(InTest) - 1
    BY <2>1, PendingInTest, ThreadCount
  <2> QED BY <1>0, <2>1, <2>2, <2>3 DEF NoLostWakeup
<1>13. ASSUME NEW d \in Closers, DoneLock(d) PROVE Enough
  BY <1>0, <1>1, <1>13 DEF DoneLock, GoTo, Waiters, Pending, InTest, Threads
<1>14. ASSUME NEW d \in Closers, SetDone(d) \/ NotifyAll(d) PROVE FALSE
  <2>1. CASE SetDone(d)
    BY <2>1 DEF SetDone
  <2>2. CASE NotifyAll(d)
    BY <2>2 DEF NotifyAll, Waiters, Threads
  <2> QED BY <1>14, <2>1, <2>2
<1>15. CASE UNCHANGED vars
  BY <1>1, <1>15 DEF vars, Waiters, Pending, InTest
<1> QED
  BY <1>2, <1>3, <1>4, <1>5, <1>6, <1>7, <1>8, <1>9, <1>10, <1>11, <1>12, <1>13,
     <1>14, <1>15
     DEF Next, Producing, Consuming, Closing

(* No wake-up is lost although notify_one comes after the unlock.          *)
THEOREM WakeupsAreKept == Spec => []NoLostWakeup
<1>1. Init => NoLostWakeup
  BY DEF Init, NoLostWakeup, Waiters, Threads
<1> QED BY InitInv, NextInv, WakeupStep, <1>1, PTL DEF Spec

=============================================================================
