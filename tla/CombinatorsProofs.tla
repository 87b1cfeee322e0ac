-------------------------- MODULE CombinatorsProofs --------------------------
(***************************************************************************)
(* Theorems about Combinators for any number of futures and callers and any *)
(* requests.  They rest on one inductive invariant, WhenInv.                *)
(***************************************************************************)
EXTENDS Combinators, FiniteSetTheorems, TLAPS

LeafStates == {"task", "notice", "callbacks", "index", "clear", "end"}
CallerStates == {"first", "lock", "second", "register", "unlock", "returned", "end"}
Left == [caller : Callers, index : Nat \ {0}]
Indices(c) == 1..Count(c)

StateInv ==
  /\ request \in Requests
  /\ set \in [Leaves -> BOOLEAN]
  /\ m \in [Leaves -> Leaves \union Callers \union {NoThread}]
  /\ callbacks \in [Leaves -> Seq(Left)]
  /\ running \in [Leaves -> Nat \ {0}]
  /\ counter \in [Callers -> Nat]
  /\ whenSet \in [Callers -> BOOLEAN]
  /\ data \in [Callers -> Nat \union {NoIndex}]
  /\ pc \in [Leaves \union Callers -> LeafStates \union CallerStates]
  /\ \A l \in Leaves : pc[l] \in LeafStates
  /\ \A c \in Callers : pc[c] \in CallerStates
  /\ k \in [Callers -> Nat \ {0}]
  /\ \A c \in Callers : k[c] <= Count(c) + 1
  /\ got \in [Callers -> Seq(Nat \union {NoIndex})]
  /\ \A c \in Callers : Len(got[c]) <= 1

(* A mutex is held by its own thread while that runs the callbacks, and by  *)
(* a caller for the futures it has locked and not yet unlocked.             *)
Holds(c, i) ==
  \/ pc[c] = "lock" /\ i < k[c]
  \/ pc[c] \in {"second", "register"}
  \/ pc[c] = "unlock" /\ k[c] <= i

MutexInv ==
  /\ \A l \in Leaves : m[l] \in Leaves <=> pc[l] \in {"callbacks", "index"}
  /\ \A l \in Leaves : m[l] \in Leaves => m[l] = l
  /\ \A c \in Callers : \A i \in Indices(c) : m[Futures(c)[i]] = c <=> Holds(c, i)
  /\ \A l \in Leaves, c \in Callers : m[l] = c => l \in Named(c)

(* A future is set from the end of its task on; a caller of whenAll has     *)
(* seen the futures it has passed set.                                      *)
SetInv ==
  /\ \A l \in Leaves : pc[l] # "task" => set[l]
  /\ \A c \in Callers : Looking(c) /\ Kind(c) = "all" =>
       \A i \in Indices(c) : i < k[c] => set[Futures(c)[i]]

(* A caller leaves one callback with each future, when it has the locks.    *)
LeftBy(b, l) ==
  /\ b.index \in Indices(b.caller)
  /\ Futures(b.caller)[b.index] = l
  /\ \/ pc[b.caller] = "register" /\ b.index < k[b.caller]
     \/ pc[b.caller] \in {"unlock", "returned", "end"}

CallbackInv == \A l \in Leaves :
  /\ \A j \in 1..Len(callbacks[l]) : LeftBy(callbacks[l][j], l)
  /\ \A i, j \in 1..Len(callbacks[l]) :
       callbacks[l][i].caller = callbacks[l][j].caller => i = j

(* A whenAll has counted no more than the callbacks that have run.          *)
Spent(c) == {i \in Indices(c) :
  LET l == Futures(c)[i] IN
  \/ pc[l] \in {"clear", "end"}
  \/ \E j \in 1..Len(callbacks[l]) : j < running[l] /\ callbacks[l][j].caller = c}

CountInv ==
  /\ \A l \in Leaves : pc[l] = "task" => running[l] = 1
  /\ \A c \in Callers : counter[c] <= Cardinality(Spent(c))

AllInv == \A c \in Callers : Kind(c) = "all" /\ whenSet[c] =>
  \A i \in Indices(c) : set[Futures(c)[i]]

(* One future has been first for a whenAny, and its index comes from there  *)
(* or from the caller, never from both.                                     *)
IndexInv ==
  /\ \A c \in Callers : pc[c] \in {"first", "lock", "second"} => data[c] = NoIndex
  /\ \A c \in Callers : data[c] # NoIndex =>
       whenSet[c] /\ data[c] \in Indices(c) /\ set[Futures(c)[data[c]]]
  /\ \A l \in Leaves : pc[l] = "index" =>
       /\ running[l] <= Len(callbacks[l])
       /\ whenSet[Callback(l).caller]
       /\ data[Callback(l).caller] = NoIndex
  /\ \A l, o \in Leaves : pc[l] = "index" /\ pc[o] = "index"
       /\ Callback(l).caller = Callback(o).caller => l = o

WhenInv == StateInv /\ MutexInv /\ SetInv /\ CallbackInv /\ CountInv /\ AllInv /\ IndexInv

-----------------------------------------------------------------------------
(* What the requests are: a caller names each future once.                  *)
LEMMA RequestFacts ==
  ASSUME request \in Requests, NEW c \in Callers
  PROVE  /\ Futures(c) \in Seq(Leaves) /\ Count(c) \in Nat
         /\ Kind(c) \in {"all", "any"}
         /\ \A i \in Indices(c) : Futures(c)[i] \in Leaves
         /\ \A i, j \in Indices(c) : Futures(c)[i] = Futures(c)[j] => i = j
         /\ Named(c) = {Futures(c)[i] : i \in Indices(c)}
<1>1. request[c] \in [kind : {"all", "any"}, futures : Seq(Leaves)]
  BY CombinatorsAssumption
<1>2. IsInjective(Futures(c))
  BY CombinatorsAssumption DEF Futures
<1>3. Futures(c) \in Seq(Leaves) /\ Kind(c) \in {"all", "any"}
  BY <1>1 DEF Futures, Kind
<1>4. Count(c) \in Nat /\ DOMAIN Futures(c) = Indices(c)
  BY <1>3 DEF Count, Indices
<1>5. \A i \in Indices(c) : Futures(c)[i] \in Leaves
  BY <1>3 DEF Count, Indices
<1>6. \A i, j \in Indices(c) : Futures(c)[i] = Futures(c)[j] => i = j
  BY <1>2, <1>4 DEF IsInjective
<1>7. Named(c) = {Futures(c)[i] : i \in Indices(c)}
  BY <1>4 DEF Named, Range
<1> QED  BY <1>3, <1>4, <1>5, <1>6, <1>7

(* Everything is where it started: nobody holds, has left or has counted.   *)
LEMMA InitInv == Init => WhenInv
<1> SUFFICES ASSUME Init PROVE WhenInv
  OBVIOUS
<1>1. StateInv
  <2>1. \A c \in Callers : Count(c) \in Nat
    BY RequestFacts DEF Init
  <2>2. pc \in [Leaves \union Callers -> LeafStates \union CallerStates]
    BY DEF Init, LeafStates, CallerStates
  <2>3. /\ \A l \in Leaves : pc[l] = "task"
        /\ \A c \in Callers : pc[c] = "first"
    BY CombinatorsAssumption DEF Init
  <2>4. m \in [Leaves -> Leaves \union Callers \union {NoThread}]
    BY DEF Init
  <2>5. callbacks \in [Leaves -> Seq(Left)] /\ got \in [Callers -> Seq(Nat \union {NoIndex})]
    BY DEF Init
  <2>6. whenSet \in [Callers -> BOOLEAN] /\ set \in [Leaves -> BOOLEAN]
    BY DEF Init
  <2> QED  BY <2>1, <2>2, <2>3, <2>4, <2>5, <2>6 DEF Init, StateInv, LeafStates, CallerStates
<1>2. /\ \A l \in Leaves : pc[l] = "task" /\ m[l] = NoThread /\ callbacks[l] = <<>>
      /\ \A c \in Callers : pc[c] = "first" /\ k[c] = 1 /\ data[c] = NoIndex /\ counter[c] = 0
      /\ \A c \in Callers : whenSet[c] = (Count(c) = 0)
  BY CombinatorsAssumption DEF Init
<1>3. request \in Requests
  BY DEF Init
<1>4. MutexInv
  BY <1>2, <1>3, RequestFacts, CombinatorsAssumption DEF MutexInv, Holds
<1>5. SetInv
  <2>0. \A c \in Callers : Count(c) \in Nat
    BY <1>3, RequestFacts
  <2>1. \A c \in Callers : \A i \in Indices(c) : ~(i < 1)
    BY <2>0 DEF Indices
  <2> QED  BY <1>2, <2>1 DEF SetInv
<1>6. CallbackInv
  BY <1>2 DEF CallbackInv
<1>7. CountInv
  <2> SUFFICES ASSUME NEW c \in Callers PROVE 0 <= Cardinality(Spent(c))
    BY <1>2 DEF Init, CountInv
  <2>0. Count(c) \in Nat
    BY <1>3, RequestFacts
  <2>1. IsFiniteSet(Indices(c))
    BY <2>0, FS_Interval DEF Indices
  <2>2. IsFiniteSet(Spent(c))
    BY <2>1, FS_Subset DEF Spent
  <2> QED  BY <2>2, FS_CardinalityType
<1>8. AllInv
  <2>1. \A c \in Callers : whenSet[c] => Count(c) = 0
    BY <1>2
  <2>2. \A c \in Callers : Count(c) = 0 => Indices(c) = {}
    BY DEF Indices
  <2> QED  BY <2>1, <2>2 DEF AllInv
<1>9. IndexInv
  BY <1>2 DEF IndexInv
<1> QED  BY <1>1, <1>4, <1>5, <1>6, <1>7, <1>8, <1>9 DEF WhenInv

-----------------------------------------------------------------------------
(* The values of the state, action by action.                              *)

(* A thread's callback is one of those left with its future.               *)
LEMMA CallbackFacts ==
  ASSUME StateInv, CallbackInv, NEW l \in Leaves, running[l] <= Len(callbacks[l])
  PROVE  /\ Callback(l) \in Left
         /\ Callback(l).caller \in Callers
         /\ Callback(l).index \in Nat \ {0}
         /\ running[l] \in 1..Len(callbacks[l])
         /\ LeftBy(Callback(l), l)
<1>1. running[l] \in 1..Len(callbacks[l]) /\ callbacks[l] \in Seq(Left)
  BY DEF StateInv
<1>2. Callback(l) \in Left
  BY <1>1 DEF Callback
<1>3. LeftBy(Callback(l), l)
  BY <1>1 DEF Callback, CallbackInv
<1> QED  BY <1>1, <1>2, <1>3 DEF Left

LEMMA LeafFacts ==
  ASSUME StateInv, NEW c \in Callers, More(c)
  PROVE  /\ k[c] \in Indices(c) /\ Leaf(c) \in Leaves /\ Leaf(c) \in Named(c)
         /\ Leaf(c) = Futures(c)[k[c]]
<1>1. Count(c) \in Nat /\ k[c] \in Nat \ {0}
  BY RequestFacts DEF StateInv
<1>2. k[c] \in Indices(c)
  BY <1>1 DEF More, Indices
<1> QED  BY <1>2, RequestFacts DEF Leaf, StateInv

(* What a step of a future's thread, and of a caller, leaves as it was.    *)
LEMMA RunningFrame ==
  ASSUME StateInv, NEW l \in Leaves, Running(l)
  PROVE  /\ request' = request /\ UNCHANGED k /\ pc' = [pc EXCEPT ![l] = pc'[l]]
         /\ pc \in [Leaves \union Callers -> LeafStates \union CallerStates]
         /\ \A c \in Callers : pc'[c] = pc[c]
         /\ \A c \in Callers : Futures(c)' = Futures(c) /\ Indices(c)' = Indices(c)
                               /\ Named(c)' = Named(c) /\ Kind(c)' = Kind(c)
         /\ \A c \in Callers : \A i \in Indices(c) : Futures(c)[i] \in Leaves
<1>1. /\ request' = request /\ pc' = [pc EXCEPT ![l] = pc'[l]] /\ UNCHANGED k
      /\ pc \in [Leaves \union Callers -> LeafStates \union CallerStates]
  BY DEF Running, SetExecuted, NoticeLock, CountOne, SetAny, StoreIndex, NotFirst, NoticeUnlock,
         Clear, GoTo, shared, StateInv
<1>2. \A c \in Callers : pc'[c] = pc[c]
  BY <1>1, CombinatorsAssumption
<1>3. \A c \in Callers : Futures(c)' = Futures(c) /\ Indices(c)' = Indices(c)
                         /\ Named(c)' = Named(c) /\ Kind(c)' = Kind(c)
  BY <1>1 DEF Futures, Indices, Count, Named, Kind
<1>4. \A c \in Callers : \A i \in Indices(c) : Futures(c)[i] \in Leaves
  BY RequestFacts DEF StateInv
<1> QED  BY <1>1, <1>2, <1>3, <1>4

LEMMA CombiningFrame ==
  ASSUME StateInv, NEW c \in Callers, Combining(c)
  PROVE  /\ request' = request /\ UNCHANGED <<set, running, counter>>
         /\ pc' = [pc EXCEPT ![c] = pc'[c]] /\ k' = [k EXCEPT ![c] = k'[c]]
         /\ pc \in [Leaves \union Callers -> LeafStates \union CallerStates]
         /\ k \in [Callers -> Nat \ {0}]
         /\ \A l \in Leaves : pc'[l] = pc[l]
         /\ \A d \in Callers : Futures(d)' = Futures(d) /\ Indices(d)' = Indices(d)
                               /\ Named(d)' = Named(d) /\ Kind(d)' = Kind(d)
         /\ \A d \in Callers : \A i \in Indices(d) : Futures(d)[i] \in Leaves
<1>1. /\ request' = request /\ UNCHANGED <<set, running, counter>>
      /\ pc' = [pc EXCEPT ![c] = pc'[c]] /\ k' = [k EXCEPT ![c] = k'[c]]
      /\ pc \in [Leaves \union Callers -> LeafStates \union CallerStates]
      /\ k \in [Callers -> Nat \ {0}]
  BY DEF Combining, LookOn, AllUnset, AllSet, AnySet, AnyUnset, LockOne, AllLocked, Register,
         Registered, UnlockOne, ReturnFuture, GetCombined, GoTo, shared, NextPhase, Settled, Step,
         StateInv
<1>2. \A l \in Leaves : pc'[l] = pc[l]
  BY <1>1, CombinatorsAssumption
<1>3. \A d \in Callers : Futures(d)' = Futures(d) /\ Indices(d)' = Indices(d)
                         /\ Named(d)' = Named(d) /\ Kind(d)' = Kind(d)
  BY <1>1 DEF Futures, Indices, Count, Named, Kind
<1>4. \A d \in Callers : \A i \in Indices(d) : Futures(d)[i] \in Leaves
  BY RequestFacts DEF StateInv
<1> QED  BY <1>1, <1>2, <1>3, <1>4

LEMMA RunningState ==
  ASSUME StateInv, CallbackInv, IndexInv, NEW l \in Leaves, Running(l)
  PROVE  StateInv'
<1> USE CombinatorsAssumption DEF StateInv
<1>1. CASE SetExecuted(l)
  BY <1>1 DEF SetExecuted, GoTo, LeafStates, CallerStates, Count, Futures
<1>2. CASE NoticeLock(l)
  BY <1>2 DEF NoticeLock, GoTo, LeafStates, CallerStates, Count, Futures
<1>3. CASE CountOne(l)
  <2>1. Callback(l).caller \in Callers
    BY <1>3, CallbackFacts DEF CountOne, Calling
  <2> DEFINE c == Callback(l).caller
             now == counter[c] = LastOne(c)
  <2>2. whenSet' = [whenSet EXCEPT ![c] = @ \/ now]
    BY <1>3 DEF CountOne
  <2>3. (whenSet[c] \/ now) \in BOOLEAN
    OBVIOUS
  <2>4. whenSet' \in [Callers -> BOOLEAN]
    BY <2>2, <2>3
  <2>5. /\ counter' = [counter EXCEPT ![c] = @ + 1]
        /\ running' = [running EXCEPT ![l] = @ + 1]
        /\ UNCHANGED <<request, set, m, callbacks, data, pc, k, got>>
    BY <1>3 DEF CountOne
  <2> HIDE DEF c
  <2>6. c \in Callers
    BY <2>1 DEF c
  <2>7. /\ counter' \in [Callers -> Nat]
        /\ running' \in [Leaves -> Nat \ {0}]
    BY <2>5, <2>6
  <2> QED  BY <2>4, <2>5, <2>7 DEF Count, Futures
<1>4. CASE SetAny(l)
  <2>1. Callback(l).caller \in Callers
    BY <1>4, CallbackFacts DEF SetAny, Calling
  <2> QED  BY <1>4, <2>1 DEF SetAny, shared, GoTo, LeafStates, CallerStates, Count, Futures
<1>5. CASE StoreIndex(l)
  <2>1. Callback(l).caller \in Callers /\ Callback(l).index \in Nat
    BY <1>5, CallbackFacts DEF StoreIndex, GoTo, IndexInv
  <2>2. data' \in [Callers -> Nat \union {NoIndex}] /\ running' \in [Leaves -> Nat \ {0}]
    BY <1>5, <2>1 DEF StoreIndex
  <2>3. pc' = [pc EXCEPT ![l] = "callbacks"]
        /\ UNCHANGED <<request, set, m, callbacks, counter, whenSet, k, got>>
    BY <1>5 DEF StoreIndex, GoTo
  <2>4. /\ pc' \in [Leaves \union Callers -> LeafStates \union CallerStates]
        /\ \A h \in Leaves : pc'[h] \in LeafStates
        /\ \A c \in Callers : pc'[c] = pc[c]
    BY <2>3 DEF LeafStates
  <2> QED  BY <2>2, <2>3, <2>4 DEF Count, Futures
<1>6. CASE NotFirst(l)
  BY <1>6 DEF NotFirst, Count, Futures
<1>7. CASE NoticeUnlock(l)
  BY <1>7 DEF NoticeUnlock, GoTo, LeafStates, CallerStates, Count, Futures
<1>8. CASE Clear(l)
  BY <1>8 DEF Clear, GoTo, LeafStates, CallerStates, Count, Futures
<1> QED  BY <1>1, <1>2, <1>3, <1>4, <1>5, <1>6, <1>7, <1>8 DEF Running

LEMMA CombiningState ==
  ASSUME StateInv, NEW c \in Callers, Combining(c)
  PROVE  StateInv'
<1> USE CombinatorsAssumption
<1>0. /\ Count(c) \in Nat /\ k[c] \in Nat \ {0} /\ k[c] <= Count(c) + 1
      /\ pc[c] \in CallerStates /\ pc \in [Leaves \union Callers -> LeafStates \union CallerStates]
      /\ k \in [Callers -> Nat \ {0}]
  BY RequestFacts DEF StateInv
<1>1. pc'[c] \in CallerStates /\ k'[c] \in Nat \ {0} /\ k'[c] <= Count(c) + 1
  <2>1. CASE LookOn(c) \/ LockOne(c) \/ Register(c) \/ UnlockOne(c)
    <3>1. pc' = pc /\ k' = [k EXCEPT ![c] = @ + 1] /\ k[c] <= Count(c)
      BY <2>1 DEF LookOn, LockOne, Register, UnlockOne, Step, More
    <3> QED  BY <1>0, <3>1
  <2>2. CASE \/ AllUnset(c) \/ AllSet(c) \/ AnySet(c) \/ AnyUnset(c) \/ AllLocked(c)
             \/ Registered(c)
    <3>1. k' = [k EXCEPT ![c] = 1] /\ \E s \in CallerStates : pc' = [pc EXCEPT ![c] = s]
      BY <2>2 DEF AllUnset, AllSet, AnySet, AnyUnset, AllLocked, Registered, NextPhase, Settled,
                  GoTo, SecondLook, CallerStates
    <3> QED  BY <1>0, <3>1
  <2>3. CASE ReturnFuture(c) \/ GetCombined(c)
    <3>1. k' = k /\ \E s \in CallerStates : pc' = [pc EXCEPT ![c] = s]
      BY <2>3 DEF ReturnFuture, GetCombined, shared, GoTo, CallerStates
    <3> QED  BY <1>0, <3>1
  <2> QED  BY <2>1, <2>2, <2>3 DEF Combining
<1>2. /\ pc' \in [Leaves \union Callers -> LeafStates \union CallerStates]
      /\ \A l \in Leaves : pc'[l] \in LeafStates
      /\ \A d \in Callers : pc'[d] \in CallerStates
      /\ k' \in [Callers -> Nat \ {0}]
      /\ \A d \in Callers : k'[d] <= Count(d)' + 1
  <2>1. /\ pc' = [pc EXCEPT ![c] = pc'[c]] /\ k' = [k EXCEPT ![c] = k'[c]]
        /\ \A d \in Callers : Count(d)' = Count(d)
    BY CombiningFrame DEF Count
  <2>2. /\ \A l \in Leaves : pc'[l] = pc[l]
        /\ \A d \in Callers \ {c} : pc'[d] = pc[d] /\ k'[d] = k[d]
    BY <1>0, <2>1
  <2>3. /\ \A l \in Leaves : pc[l] \in LeafStates
        /\ \A d \in Callers : pc[d] \in CallerStates /\ k[d] <= Count(d) + 1
    BY DEF StateInv
  <2>4. /\ pc' \in [Leaves \union Callers -> LeafStates \union CallerStates]
        /\ k' \in [Callers -> Nat \ {0}]
    BY <1>0, <1>1, <2>1
  <2> QED  BY <1>1, <2>1, <2>2, <2>3, <2>4
<1>3. m' \in [Leaves -> Leaves \union Callers \union {NoThread}]
  <2>1. m \in [Leaves -> Leaves \union Callers \union {NoThread}]
    BY DEF StateInv
  <2>2. m' = m \/ \E l \in Leaves, x \in {c, NoThread} : m' = [m EXCEPT ![l] = x]
    BY LeafFacts DEF Combining, LookOn, AllUnset, AllSet, AnySet, AnyUnset, LockOne, AllLocked,
       Register, Registered, UnlockOne, ReturnFuture, GetCombined, shared
  <2> QED  BY <2>1, <2>2
<1>4. callbacks' \in [Leaves -> Seq(Left)]
  <2>1. callbacks \in [Leaves -> Seq(Left)]
    BY DEF StateInv
  <2>2. CASE Register(c)
    <3>1. [caller |-> c, index |-> Index(c)] \in Left
      BY <1>0 DEF Index, Left
    <3> QED  BY <2>1, <2>2, <3>1, LeafFacts DEF Register
  <2>3. CASE ~Register(c)
    <3>1. callbacks' = callbacks
      BY <2>3 DEF Combining, LookOn, AllUnset, AllSet, AnySet, AnyUnset, LockOne, AllLocked,
         Registered, UnlockOne, ReturnFuture, GetCombined, shared
    <3> QED  BY <2>1, <3>1
  <2> QED  BY <2>2, <2>3
<1>5. whenSet' \in [Callers -> BOOLEAN] /\ data' \in [Callers -> Nat \union {NoIndex}]
  <2>1. whenSet \in [Callers -> BOOLEAN] /\ data \in [Callers -> Nat \union {NoIndex}]
    BY DEF StateInv
  <2>2. \/ UNCHANGED <<whenSet, data>>
        \/ \E i \in Nat \union {NoIndex} : /\ whenSet' = [whenSet EXCEPT ![c] = TRUE]
                                           /\ data' = [data EXCEPT ![c] = i]
    BY <1>0 DEF Combining, LookOn, AllUnset, AllSet, AnySet, AnyUnset, LockOne, AllLocked,
       Register, Registered, UnlockOne, ReturnFuture, GetCombined, shared, Settled
  <2> QED  BY <2>1, <2>2
<1>6. got' \in [Callers -> Seq(Nat \union {NoIndex})] /\ \A d \in Callers : Len(got'[d]) <= 1
  <2>1. /\ got \in [Callers -> Seq(Nat \union {NoIndex})]
        /\ \A d \in Callers : Len(got[d]) <= 1
        /\ data[c] \in Nat \union {NoIndex}
    BY DEF StateInv
  <2>2. <<data[c]>> \in Seq(Nat \union {NoIndex}) /\ Len(<<data[c]>>) = 1
    BY <2>1
  <2>3. PICK s \in Seq(Nat \union {NoIndex}) : s = <<data[c]>> /\ Len(s) = 1
    BY <2>2
  <2>4. got' = got \/ got' = [got EXCEPT ![c] = s]
    BY <2>3 DEF Combining, LookOn, AllUnset, AllSet, AnySet, AnyUnset, LockOne, AllLocked,
       Register, Registered, UnlockOne, ReturnFuture, GetCombined, shared
  <2>5. CASE got' = got
    BY <2>1, <2>5
  <2>6. CASE got' = [got EXCEPT ![c] = s]
    <3>1. \A d \in Callers : got'[d] = IF d = c THEN s ELSE got[d]
      BY <2>1, <2>6
    <3>2. got' \in [Callers -> Seq(Nat \union {NoIndex})]
      BY <2>1, <2>6
    <3>3. ASSUME NEW d \in Callers PROVE Len(got'[d]) <= 1
      <4>1. CASE d = c
        <5>1. got'[d] = s
          BY <3>1, <4>1
        <5>2. Len(s) = 1
          BY <2>3
        <5> QED  BY <5>1, <5>2
      <4>2. CASE d # c
        BY <2>1, <3>1, <4>2
      <4> QED  BY <4>1, <4>2
    <3> QED  BY <3>2, <3>3
  <2> QED  BY <2>4, <2>5, <2>6
<1>7. UNCHANGED <<request, set, running, counter>>
  BY DEF Combining, LookOn, AllUnset, AllSet, AnySet, AnyUnset, LockOne, AllLocked,
     Register, Registered, UnlockOne, ReturnFuture, GetCombined, shared
<1> QED  BY <1>2, <1>3, <1>4, <1>5, <1>6, <1>7 DEF StateInv

-----------------------------------------------------------------------------
(* The mutexes, action by action.                                          *)

Inside == {"callbacks", "index"}

LEMMA MutexKept ==
  ASSUME MutexInv, m' = m, request' = request,
         \A l \in Leaves : pc'[l] \in Inside <=> pc[l] \in Inside,
         \A c \in Callers : \A i \in Indices(c) : Holds(c, i)' <=> Holds(c, i)
  PROVE  MutexInv'
<1>1. \A c \in Callers : Futures(c)' = Futures(c) /\ Indices(c)' = Indices(c)
                         /\ Named(c)' = Named(c)
  BY DEF Futures, Indices, Count, Named
<1> QED  BY <1>1 DEF MutexInv, Inside

LEMMA RunningMutex ==
  ASSUME StateInv, MutexInv, NEW l \in Leaves, Running(l)
  PROVE  MutexInv'
<1> USE CombinatorsAssumption
<1>0. /\ request' = request /\ UNCHANGED k /\ pc' = [pc EXCEPT ![l] = pc'[l]]
      /\ pc \in [Leaves \union Callers -> LeafStates \union CallerStates]
      /\ \A c \in Callers : pc'[c] = pc[c]
  BY RunningFrame
<1>2. \A c \in Callers : \A i \in Indices(c) : Holds(c, i)' <=> Holds(c, i)
  BY <1>0 DEF Holds
<1>3. \A c \in Callers : Futures(c)' = Futures(c) /\ Indices(c)' = Indices(c)
                         /\ Named(c)' = Named(c)
  BY RunningFrame
<1>4. \A c \in Callers : \A i \in Indices(c) : Futures(c)[i] \in Leaves
  BY RunningFrame
<1>5. CASE NoticeLock(l)
  <2>1. m' = [m EXCEPT ![l] = l] /\ m[l] = NoThread /\ pc'[l] = "callbacks"
        /\ pc' = [pc EXCEPT ![l] = "callbacks"]
    BY <1>0, <1>5 DEF NoticeLock, GoTo
  <2>2. m \in [Leaves -> Leaves \union Callers \union {NoThread}]
    BY DEF StateInv
  <2>3. \A o \in Leaves : /\ m'[o] \in Leaves <=> pc'[o] \in Inside
                          /\ m'[o] \in Leaves => m'[o] = o
    BY <1>0, <2>1, <2>2 DEF MutexInv, Inside
  <2>4. \A c \in Callers : \A i \in Indices(c) : m'[Futures(c)[i]] = c <=> Holds(c, i)
    BY <1>4, <2>1, <2>2 DEF MutexInv
  <2>5. \A o \in Leaves, c \in Callers : m'[o] = c => o \in Named(c)
    BY <2>1, <2>2 DEF MutexInv
  <2> QED  BY <1>2, <1>3, <2>3, <2>4, <2>5 DEF MutexInv, Inside
<1>6. CASE NoticeUnlock(l)
  <2>1. m' = [m EXCEPT ![l] = NoThread] /\ pc[l] = "callbacks"
        /\ pc' = [pc EXCEPT ![l] = "clear"]
    BY <1>0, <1>6 DEF NoticeUnlock, GoTo
  <2>2. m \in [Leaves -> Leaves \union Callers \union {NoThread}]
    BY DEF StateInv
  <2>3. m[l] = l
    BY <2>1 DEF MutexInv
  <2>4. \A o \in Leaves : /\ m'[o] \in Leaves <=> pc'[o] \in Inside
                          /\ m'[o] \in Leaves => m'[o] = o
    BY <1>0, <2>1, <2>2 DEF MutexInv, Inside
  <2>5. \A c \in Callers : \A i \in Indices(c) : m'[Futures(c)[i]] = c <=> Holds(c, i)
    BY <1>4, <2>1, <2>2, <2>3 DEF MutexInv
  <2>6. \A o \in Leaves, c \in Callers : m'[o] = c => o \in Named(c)
    BY <2>1, <2>2 DEF MutexInv
  <2> QED  BY <1>2, <1>3, <2>4, <2>5, <2>6 DEF MutexInv, Inside
<1>7. CASE SetExecuted(l) \/ CountOne(l) \/ SetAny(l) \/ StoreIndex(l) \/ NotFirst(l) \/ Clear(l)
  <2>1. m' = m
    BY <1>7 DEF SetExecuted, CountOne, SetAny, StoreIndex, NotFirst, Clear, shared
  <2>2. \A o \in Leaves : pc'[o] \in Inside <=> pc[o] \in Inside
    BY <1>0, <1>7 DEF SetExecuted, CountOne, SetAny, StoreIndex, NotFirst, Clear, Calling, GoTo,
                       Inside
  <2> QED  BY <1>0, <1>2, <2>1, <2>2, MutexKept
<1> QED  BY <1>5, <1>6, <1>7 DEF Running

LEMMA CombiningMutex ==
  ASSUME StateInv, MutexInv, NEW c \in Callers, Combining(c)
  PROVE  MutexInv'
<1> USE CombinatorsAssumption
<1>0. /\ request' = request
      /\ pc' = [pc EXCEPT ![c] = pc'[c]] /\ k' = [k EXCEPT ![c] = k'[c]]
      /\ pc \in [Leaves \union Callers -> LeafStates \union CallerStates]
      /\ k \in [Callers -> Nat \ {0}]
      /\ m \in [Leaves -> Leaves \union Callers \union {NoThread}]
  BY CombiningFrame DEF StateInv
<1>1. \A l \in Leaves : pc'[l] = pc[l]
  BY CombiningFrame
<1>2. \A d \in Callers : d # c => \A i \in Indices(d) : Holds(d, i)' <=> Holds(d, i)
  BY <1>0 DEF Holds
<1>3. \A d \in Callers : Futures(d)' = Futures(d) /\ Indices(d)' = Indices(d)
                         /\ Named(d)' = Named(d)
  BY CombiningFrame
<1>4. \A d \in Callers : \A i \in Indices(d) : Futures(d)[i] \in Leaves
  BY CombiningFrame
<1>5. /\ Count(c) \in Nat
      /\ \A i \in Indices(c) : i \in Nat /\ 1 <= i /\ i <= Count(c)
      /\ \A i, j \in Indices(c) : Futures(c)[i] = Futures(c)[j] => i = j
      /\ k[c] \in Nat
  BY <1>0, RequestFacts DEF StateInv, Indices
<1>6. CASE LockOne(c)
  <2>1. /\ pc[c] = "lock" /\ pc' = pc /\ k'[c] = k[c] + 1
        /\ m[Leaf(c)] = NoThread /\ m' = [m EXCEPT ![Leaf(c)] = c]
        /\ k[c] \in Indices(c) /\ Leaf(c) \in Leaves /\ Leaf(c) \in Named(c)
        /\ Leaf(c) = Futures(c)[k[c]]
    BY <1>0, <1>6, LeafFacts DEF LockOne, Step
  <2>2. \A o \in Leaves : /\ m'[o] \in Leaves <=> pc'[o] \in Inside
                          /\ m'[o] \in Leaves => m'[o] = o
    BY <1>0, <2>1 DEF MutexInv, Inside
  <2>3. \A d \in Callers : d # c => \A i \in Indices(d) : m'[Futures(d)[i]] = d <=> Holds(d, i)
    BY <1>0, <1>4, <2>1 DEF MutexInv
  <2>4. \A i \in Indices(c) : m'[Futures(c)[i]] = c <=> Holds(c, i)'
    <3> SUFFICES ASSUME NEW i \in Indices(c) PROVE m'[Futures(c)[i]] = c <=> Holds(c, i)'
      OBVIOUS
    <3>1. Holds(c, i)' <=> i < k[c] + 1
      BY <2>1 DEF Holds
    <3>2. m[Futures(c)[i]] = c <=> i < k[c]
      BY <2>1 DEF MutexInv, Holds
    <3>3. CASE i = k[c]
      BY <1>0, <1>5, <2>1, <3>1, <3>3
    <3>4. CASE i # k[c]
      <4>1. m'[Futures(c)[i]] = m[Futures(c)[i]]
        BY <1>0, <1>4, <1>5, <2>1, <3>4
      <4> QED  BY <1>5, <3>1, <3>2, <3>4, <4>1
    <3> QED  BY <3>3, <3>4
  <2>5. \A o \in Leaves, d \in Callers : m'[o] = d => o \in Named(d)
    BY <1>0, <2>1 DEF MutexInv
  <2> QED  BY <1>2, <1>3, <2>2, <2>3, <2>4, <2>5 DEF MutexInv, Inside
<1>7. CASE UnlockOne(c)
  <2>1. /\ pc[c] = "unlock" /\ pc' = pc /\ k'[c] = k[c] + 1
        /\ m' = [m EXCEPT ![Leaf(c)] = NoThread]
        /\ k[c] \in Indices(c) /\ Leaf(c) \in Leaves /\ Leaf(c) \in Named(c)
        /\ Leaf(c) = Futures(c)[k[c]]
    BY <1>0, <1>7, LeafFacts DEF UnlockOne, Step
  <2>2. m[Leaf(c)] = c
    BY <1>5, <2>1 DEF MutexInv, Holds
  <2>3. \A o \in Leaves : /\ m'[o] \in Leaves <=> pc'[o] \in Inside
                          /\ m'[o] \in Leaves => m'[o] = o
    BY <1>0, <2>1, <2>2 DEF MutexInv, Inside
  <2>4. \A d \in Callers : d # c => \A i \in Indices(d) : m'[Futures(d)[i]] = d <=> Holds(d, i)
    BY <1>0, <1>4, <2>1, <2>2 DEF MutexInv
  <2>5. \A i \in Indices(c) : m'[Futures(c)[i]] = c <=> Holds(c, i)'
    <3> SUFFICES ASSUME NEW i \in Indices(c) PROVE m'[Futures(c)[i]] = c <=> Holds(c, i)'
      OBVIOUS
    <3>1. Holds(c, i)' <=> k[c] + 1 <= i
      BY <2>1 DEF Holds
    <3>2. m[Futures(c)[i]] = c <=> k[c] <= i
      BY <2>1 DEF MutexInv, Holds
    <3>3. CASE i = k[c]
      BY <1>0, <1>5, <2>1, <3>1, <3>3
    <3>4. CASE i # k[c]
      <4>1. m'[Futures(c)[i]] = m[Futures(c)[i]]
        BY <1>0, <1>4, <1>5, <2>1, <3>4
      <4> QED  BY <1>5, <3>1, <3>2, <3>4, <4>1
    <3> QED  BY <3>3, <3>4
  <2>6. \A o \in Leaves, d \in Callers : m'[o] = d => o \in Named(d)
    BY <1>0, <2>1 DEF MutexInv
  <2> QED  BY <1>2, <1>3, <2>3, <2>4, <2>5, <2>6 DEF MutexInv, Inside
<1>8. CASE ~LockOne(c) /\ ~UnlockOne(c)
  <2>1. m' = m
    BY <1>8 DEF Combining, LookOn, AllUnset, AllSet, AnySet, AnyUnset, AllLocked, Register,
                Registered, ReturnFuture, GetCombined, shared
  <2>2. \A i \in Indices(c) : Holds(c, i)' <=> Holds(c, i)
    <3>1. CASE LookOn(c) \/ Register(c) \/ GetCombined(c)
      BY <1>0, <3>1 DEF LookOn, Register, GetCombined, GoTo, Looking, Step, Holds
    <3>2. CASE AllUnset(c) \/ AnyUnset(c)
      BY <1>0, <1>5, <3>2 DEF AllUnset, AnyUnset, NextPhase, Looking, Holds
    <3>3. CASE AllSet(c) \/ AnySet(c)
      BY <1>0, <1>5, <3>3 DEF AllSet, AnySet, Settled, Looking, Holds
    <3>4. CASE AllLocked(c) \/ Registered(c) \/ ReturnFuture(c)
      BY <1>0, <1>5, <3>4 DEF AllLocked, SecondLook, Registered, ReturnFuture, AllUnlocked, GoTo,
                              More, Holds
    <3> QED  BY <1>8, <3>1, <3>2, <3>3, <3>4 DEF Combining
  <2> QED  BY <1>0, <1>1, <1>2, <2>1, <2>2, MutexKept
<1> QED  BY <1>6, <1>7, <1>8

-----------------------------------------------------------------------------
(* The flags of the futures, and what a caller has seen of them.           *)

LEMMA RunningSet ==
  ASSUME StateInv, SetInv, NEW l \in Leaves, Running(l)
  PROVE  SetInv' /\ \A o \in Leaves : set[o] => set'[o]
<1>1. /\ set \in [Leaves -> BOOLEAN]
      /\ set' = set \/ (pc[l] = "task" /\ set' = [set EXCEPT ![l] = TRUE])
      /\ pc[l] = "task" => set' = [set EXCEPT ![l] = TRUE]
  BY DEF Running, SetExecuted, NoticeLock, CountOne, SetAny, StoreIndex, NotFirst, NoticeUnlock,
         Clear, Calling, GoTo, shared, StateInv
<1>2. \A o \in Leaves : set[o] => set'[o]
  BY <1>1
<1>3. \A o \in Leaves : pc'[o] # "task" => set'[o]
  <2>1. \A o \in Leaves : o # l => pc'[o] = pc[o]
    BY RunningFrame
  <2> QED  BY <1>1, <1>2, <2>1 DEF SetInv
<1>4. \A c \in Callers : Looking(c)' = Looking(c)
  BY RunningFrame DEF Looking
<1> QED  BY <1>2, <1>3, <1>4, RunningFrame DEF SetInv

LEMMA CombiningSet ==
  ASSUME StateInv, SetInv, NEW c \in Callers, Combining(c)
  PROVE  SetInv'
<1>1. set' = set /\ \A l \in Leaves : pc'[l] = pc[l]
  BY CombiningFrame
<1>2. \A d \in Callers : d # c => pc'[d] = pc[d] /\ k'[d] = k[d]
  BY CombiningFrame
<1>3. Looking(c)' => LookOn(c) \/ k'[c] = 1
  BY CombiningFrame DEF Combining, AllUnset, AllSet, AnySet, AnyUnset, LockOne, AllLocked,
     Register, Registered, UnlockOne, ReturnFuture, GetCombined, GoTo, NextPhase, Settled,
     AllUnlocked, Looking
<1>4. \A i \in Indices(c) : i \in Nat /\ 1 <= i
  BY RequestFacts DEF StateInv, Indices
<1>5. CASE LookOn(c)
  <2>1. k[c] \in Indices(c) /\ Leaf(c) = Futures(c)[k[c]] /\ k[c] \in Nat
    BY <1>5, LeafFacts DEF LookOn, StateInv
  <2>2. Kind(c) = "all" => set[Leaf(c)]
    BY <1>5 DEF LookOn
  <2>3. Looking(c) /\ k'[c] = k[c] + 1
    BY <1>5, CombiningFrame DEF LookOn, Step
  <2>4. Kind(c) = "all" => \A i \in Indices(c) : i < k'[c] => set[Futures(c)[i]]
    BY <1>4, <2>1, <2>2, <2>3 DEF SetInv
  <2> QED  BY <1>1, <1>2, <2>4, CombiningFrame DEF SetInv, Looking
<1>6. CASE ~LookOn(c)
  <2>1. Looking(c)' => \A i \in Indices(c) : ~(i < k'[c])
    BY <1>3, <1>4, <1>6
  <2> QED  BY <1>1, <1>2, <2>1, CombiningFrame DEF SetInv, Looking
<1> QED  BY <1>5, <1>6

-----------------------------------------------------------------------------
(* The callbacks: one of each caller, left under the locks.                *)

LEMMA RunningCallbacks ==
  ASSUME StateInv, CallbackInv, NEW l \in Leaves, Running(l)
  PROVE  CallbackInv'
<1>1. /\ callbacks' = callbacks \/ callbacks' = [callbacks EXCEPT ![l] = <<>>]
      /\ callbacks \in [Leaves -> Seq(Left)]
  BY DEF Running, SetExecuted, NoticeLock, CountOne, SetAny, StoreIndex, NotFirst, NoticeUnlock,
         Clear, shared, StateInv
<1>2. \A b \in Left, o \in Leaves : LeftBy(b, o) => LeftBy(b, o)'
  BY RunningFrame DEF LeftBy, Left
<1>3. \A o \in Leaves : \A j \in 1..Len(callbacks[o]) : callbacks[o][j] \in Left
  BY <1>1
<1>4. \A o \in Leaves : callbacks'[o] = callbacks[o] \/ callbacks'[o] = <<>>
  BY <1>1
<1> QED  BY <1>2, <1>3, <1>4 DEF CallbackInv

LEMMA CombiningCallbacks ==
  ASSUME StateInv, CallbackInv, NEW c \in Callers, Combining(c)
  PROVE  CallbackInv'
<1>0. callbacks \in [Leaves -> Seq(Left)] /\ Count(c) \in Nat
  BY RequestFacts DEF StateInv
<1>1. ASSUME NEW b \in Left, NEW o \in Leaves, LeftBy(b, o) PROVE LeftBy(b, o)'
  <2>1. /\ b.caller \in Callers /\ b.index \in Nat
        /\ \A d \in Callers : d # c => pc'[d] = pc[d] /\ k'[d] = k[d]
    BY CombiningFrame DEF Left
  <2>2. pc[c] = "register" => (pc'[c] = "register" /\ k'[c] >= k[c]) \/ pc'[c] = "unlock"
    BY CombiningFrame DEF Combining, LookOn, AllUnset, AllSet, AnySet, AnyUnset, LockOne,
       AllLocked, Register, Registered, UnlockOne, ReturnFuture, GetCombined, GoTo, AllUnlocked,
       Looking, Step, StateInv
  <2>3. pc[c] \in {"unlock", "returned", "end"} => pc'[c] \in {"unlock", "returned", "end"}
    BY CombiningFrame DEF Combining, LookOn, AllUnset, AllSet, AnySet, AnyUnset, LockOne,
       AllLocked, Register, Registered, UnlockOne, ReturnFuture, GetCombined, GoTo, AllUnlocked,
       Looking
  <2>4. k[c] \in Nat /\ k'[c] \in Nat
    BY CombiningState DEF StateInv
  <2> QED  BY <1>1, <2>1, <2>2, <2>3, <2>4, CombiningFrame DEF LeftBy
<1>2. \A o \in Leaves : \A j \in 1..Len(callbacks[o]) : callbacks[o][j] \in Left
  BY <1>0
<1>3. CASE ~Register(c)
  <2>1. callbacks' = callbacks
    BY <1>3 DEF Combining, LookOn, AllUnset, AllSet, AnySet, AnyUnset, LockOne, AllLocked,
                Registered, UnlockOne, ReturnFuture, GetCombined, shared
  <2> QED  BY <1>1, <1>2, <2>1 DEF CallbackInv
<1>4. CASE Register(c)
  <2>1. PICK l \in Leaves, i \in Nat : l = Leaf(c) /\ i = k[c]
    BY <1>4, LeafFacts DEF Register, StateInv
  <2>2. PICK b \in Left : b = [caller |-> c, index |-> i]
    BY <1>4, <2>1 DEF Left, StateInv
  <2>3. PICK s \in Seq(Left) : s = callbacks[l]
    BY <1>0
  <2>4. i \in Indices(c) /\ l = Futures(c)[i] /\ b.caller = c /\ b.index = i
    BY <1>4, <2>1, <2>2, LeafFacts DEF Register
  <2>5. callbacks' = [callbacks EXCEPT ![l] = Append(s, b)]
    BY <1>0, <1>4, <2>1, <2>2, <2>3 DEF Register, Index
  <2>6. pc[c] = "register" /\ pc'[c] = "register" /\ k'[c] = i + 1
    BY <1>4, <2>1, CombiningFrame DEF Register, Step
  <2>7. LeftBy(b, l)'
    BY <2>4, <2>6, CombiningFrame DEF LeftBy
  <2>8. \A j \in 1..Len(s) : s[j].caller # c
    <3> SUFFICES ASSUME NEW j \in 1..Len(s), s[j].caller = c PROVE FALSE
      OBVIOUS
    <3>1. LeftBy(s[j], l)
      BY <2>3 DEF CallbackInv
    <3>2. s[j].index \in Indices(c) /\ Futures(c)[s[j].index] = l /\ s[j].index < i
      BY <2>1, <2>6, <3>1 DEF LeftBy
    <3>3. s[j].index = i
      BY <2>4, <3>2, RequestFacts DEF StateInv
    <3>4. i \in Nat
      BY <2>4 DEF Indices
    <3> QED  BY <3>2, <3>3, <3>4
  <2>9. /\ Append(s, b) \in Seq(Left) /\ Len(Append(s, b)) = Len(s) + 1 /\ Len(s) \in Nat
        /\ \A j \in 1..Len(s) : Append(s, b)[j] = s[j]
        /\ Append(s, b)[Len(s) + 1] = b
    OBVIOUS
  <2>10. \A j \in 1..Len(s) + 1 : j = Len(s) + 1 \/ j \in 1..Len(s)
    BY <2>9
  <2>11. callbacks'[l] = Append(s, b) /\ \A o \in Leaves : o # l => callbacks'[o] = callbacks[o]
    BY <1>0, <2>5
  <2>12. \A j \in 1..Len(s) : s[j] \in Left /\ LeftBy(s[j], l)
    BY <1>2, <2>3 DEF CallbackInv
  <2>13. (\A j \in 1..Len(callbacks[l]) : LeftBy(callbacks[l][j], l))'
    <3> SUFFICES ASSUME NEW j \in 1..Len(s) + 1 PROVE LeftBy(Append(s, b)[j], l)'
      BY <2>9, <2>11 DEF LeftBy
    <3>1. CASE j \in 1..Len(s)
      BY <1>1, <2>9, <2>12, <3>1
    <3>2. CASE j = Len(s) + 1
      BY <2>7, <2>9, <3>2
    <3> QED  BY <2>10, <3>1, <3>2
  <2>14. \A u, v \in 1..Len(callbacks'[l]) :
          callbacks'[l][u].caller = callbacks'[l][v].caller => u = v
    <3> SUFFICES ASSUME NEW u \in 1..Len(s) + 1, NEW v \in 1..Len(s) + 1,
                        Append(s, b)[u].caller = Append(s, b)[v].caller
                 PROVE  u = v
      BY <2>9, <2>11
    <3>1. \A x, y \in 1..Len(s) : s[x].caller = s[y].caller => x = y
      BY <2>3 DEF CallbackInv
    <3> QED  BY <2>4, <2>8, <2>9, <2>10, <3>1
  <2>15. \A o \in Leaves : o # l =>
           /\ (\A j \in 1..Len(callbacks[o]) : LeftBy(callbacks[o][j], o))'
           /\ \A u, v \in 1..Len(callbacks'[o]) :
                callbacks'[o][u].caller = callbacks'[o][v].caller => u = v
    <3> SUFFICES ASSUME NEW o \in Leaves, o # l
                 PROVE  /\ (\A j \in 1..Len(callbacks[o]) : LeftBy(callbacks[o][j], o))'
                        /\ \A u, v \in 1..Len(callbacks'[o]) :
                             callbacks'[o][u].caller = callbacks'[o][v].caller => u = v
      OBVIOUS
    <3>1. PICK t \in Seq(Left) : t = callbacks[o]
      BY <1>0
    <3>2. callbacks'[o] = t
      BY <2>11, <3>1
    <3>3. \A j \in 1..Len(t) : LeftBy(t[j], o)'
      BY <1>1, <1>2, <3>1 DEF CallbackInv
    <3>4. \A u, v \in 1..Len(t) : t[u].caller = t[v].caller => u = v
      BY <3>1 DEF CallbackInv
    <3> QED  BY <3>2, <3>3, <3>4 DEF LeftBy
  <2> QED  BY <2>13, <2>14, <2>15 DEF CallbackInv
<1> QED  BY <1>3, <1>4

-----------------------------------------------------------------------------
(* The count of a whenAll against the callbacks that have run.             *)

(* What has been left stays until it is cleared, and what has run has run. *)
Forward == \A l \in Leaves :
  /\ pc[l] \in {"clear", "end"} => pc'[l] \in {"clear", "end"}
  /\ running[l] <= running'[l]
  /\ \/ pc'[l] = "end"
     \/ /\ Len(callbacks[l]) <= Len(callbacks'[l])
        /\ \A j \in 1..Len(callbacks[l]) : callbacks'[l][j] = callbacks[l][j]

LEMMA RunningForward ==
  ASSUME StateInv, NEW l \in Leaves, Running(l)
  PROVE  Forward
<1>1. /\ callbacks \in [Leaves -> Seq(Left)] /\ running \in [Leaves -> Nat \ {0}]
      /\ \A o \in Leaves : o # l => pc'[o] = pc[o]
  BY RunningFrame DEF StateInv
<1>2. /\ running' = running \/ running' = [running EXCEPT ![l] = @ + 1]
      /\ callbacks' = callbacks \/ (pc'[l] = "end" /\ callbacks' = [callbacks EXCEPT ![l] = <<>>])
      /\ pc[l] \in {"clear", "end"} => pc'[l] \in {"clear", "end"}
  BY RunningFrame DEF Running, SetExecuted, NoticeLock, CountOne, SetAny, StoreIndex, NotFirst,
     NoticeUnlock, Clear, Calling, GoTo, shared
<1>3. \A o \in Leaves : running[o] <= running'[o]
  BY <1>1, <1>2
<1>4. \A o \in Leaves : pc'[o] = "end" \/ callbacks'[o] = callbacks[o]
  BY <1>1, <1>2
<1>5. \A o \in Leaves : pc[o] \in {"clear", "end"} => pc'[o] \in {"clear", "end"}
  BY <1>1, <1>2
<1>6. \A o \in Leaves : Len(callbacks[o]) <= Len(callbacks[o])
  BY <1>1
<1> QED  BY <1>3, <1>4, <1>5, <1>6 DEF Forward

LEMMA CombiningForward ==
  ASSUME StateInv, NEW c \in Callers, Combining(c)
  PROVE  Forward
<1>1. /\ callbacks \in [Leaves -> Seq(Left)] /\ running \in [Leaves -> Nat \ {0}]
      /\ running' = running /\ \A l \in Leaves : pc'[l] = pc[l]
  BY CombiningFrame DEF StateInv
<1>2. CASE ~Register(c)
  <2>1. callbacks' = callbacks
    BY <1>2 DEF Combining, LookOn, AllUnset, AllSet, AnySet, AnyUnset, LockOne, AllLocked,
                Registered, UnlockOne, ReturnFuture, GetCombined, shared
  <2> QED  BY <1>1, <2>1 DEF Forward
<1>3. CASE Register(c)
  <2>1. PICK o \in Leaves : o = Leaf(c)
    BY <1>3, LeafFacts DEF Register
  <2>2. PICK b \in Left : b = [caller |-> c, index |-> Index(c)]
    BY DEF Left, Index, StateInv
  <2>3. callbacks' = [callbacks EXCEPT ![o] = Append(@, b)]
    BY <1>3, <2>1, <2>2 DEF Register
  <2> QED  BY <1>1, <2>3 DEF Forward
<1> QED  BY <1>2, <1>3

LEMMA SpentFinite ==
  ASSUME StateInv, NEW c \in Callers
  PROVE  /\ IsFiniteSet(Indices(c)) /\ Cardinality(Indices(c)) = Count(c)
         /\ IsFiniteSet(Spent(c)) /\ Cardinality(Spent(c)) \in Nat
         /\ Cardinality(Spent(c)) = Count(c) => Spent(c) = Indices(c)
         /\ Cardinality(Spent(c)) <= Count(c)
<1>1. Count(c) \in Nat
  BY RequestFacts DEF StateInv
<1>2. IsFiniteSet(Indices(c)) /\ Cardinality(Indices(c)) = Count(c)
  BY <1>1, FS_Interval DEF Indices
<1>3. Spent(c) \subseteq Indices(c)
  BY DEF Spent
<1> QED  BY <1>2, <1>3, FS_Subset, FS_CardinalityType

LEMMA SpentGrows ==
  ASSUME StateInv, StateInv', Forward, request' = request, NEW c \in Callers
  PROVE  Spent(c) \subseteq Spent(c)'
<1>1. Futures(c)' = Futures(c) /\ Indices(c)' = Indices(c)
  BY DEF Futures, Indices, Count
<1>2. SUFFICES ASSUME NEW i \in Indices(c), i \in Spent(c) PROVE i \in Spent(c)'
  BY DEF Spent
<1>3. PICK l \in Leaves : l = Futures(c)[i]
  BY RequestFacts DEF StateInv
<1>4. /\ callbacks[l] \in Seq(Left) /\ running[l] \in Nat
      /\ callbacks'[l] \in Seq(Left) /\ running'[l] \in Nat
  BY DEF StateInv
<1>5. CASE pc[l] \in {"clear", "end"} \/ pc'[l] = "end"
  <2>1. pc'[l] \in {"clear", "end"}
    BY <1>5 DEF Forward
  <2> QED  BY <1>1, <1>3, <2>1 DEF Spent
<1>6. CASE pc[l] \notin {"clear", "end"} /\ pc'[l] # "end"
  <2>1. PICK j \in 1..Len(callbacks[l]) : j < running[l] /\ callbacks[l][j].caller = c
    BY <1>2, <1>3, <1>6 DEF Spent
  <2>2. Len(callbacks[l]) <= Len(callbacks'[l]) /\ callbacks'[l][j] = callbacks[l][j]
        /\ running[l] <= running'[l]
    BY <1>6 DEF Forward
  <2> QED  BY <1>1, <1>3, <1>4, <2>1, <2>2 DEF Spent
<1> QED  BY <1>5, <1>6

LEMMA CountStep ==
  ASSUME StateInv, StateInv', CallbackInv, CountInv, Forward, request' = request,
         UNCHANGED counter, \A l \in Leaves : pc'[l] = "task" => running'[l] = 1
  PROVE  CountInv'
<1> SUFFICES ASSUME NEW c \in Callers PROVE counter[c] <= Cardinality(Spent(c)')
  BY DEF CountInv
<1>1. IsFiniteSet(Spent(c)') /\ Cardinality(Spent(c)') \in Nat
  <2>1. Spent(c)' \subseteq Indices(c)
    BY DEF Spent, Indices, Count, Futures
  <2> QED  BY <2>1, SpentFinite, FS_Subset, FS_CardinalityType
<1>2. Cardinality(Spent(c)) <= Cardinality(Spent(c)')
  BY <1>1, SpentGrows, FS_Subset
<1>3. /\ counter[c] \in Nat /\ counter[c] <= Cardinality(Spent(c))
      /\ Cardinality(Spent(c)) \in Nat
  BY SpentFinite DEF CountInv, StateInv
<1> QED  BY <1>1, <1>2, <1>3

LEMMA RunningCount ==
  ASSUME StateInv, StateInv', CallbackInv, CountInv, SetInv, IndexInv, NEW l \in Leaves, Running(l)
  PROVE  CountInv'
<1>1. /\ Forward /\ request' = request
      /\ \A o \in Leaves : pc'[o] = "task" => running'[o] = 1
  <2>1. \A o \in Leaves : o # l => pc'[o] = pc[o] /\ running'[o] = running[o]
    BY RunningFrame DEF Running, SetExecuted, NoticeLock, CountOne, SetAny, StoreIndex, NotFirst,
       NoticeUnlock, Clear, Calling, GoTo, shared, StateInv
  <2>2. pc'[l] # "task"
    BY RunningFrame DEF Running, SetExecuted, NoticeLock, CountOne, SetAny, StoreIndex, NotFirst,
       NoticeUnlock, Clear, Calling, GoTo, shared
  <2> QED  BY <2>1, <2>2, RunningForward, RunningFrame DEF CountInv
<1>2. CASE ~CountOne(l)
  <2>1. UNCHANGED counter
    BY <1>2 DEF Running, SetExecuted, NoticeLock, SetAny, StoreIndex, NotFirst, NoticeUnlock,
                Clear, shared
  <2> QED  BY <1>1, <2>1, CountStep
<1>3. CASE CountOne(l)
  <2>1. PICK c \in Callers, i \in Nat, j \in Nat :
          c = Callback(l).caller /\ i = Callback(l).index /\ j = running[l]
    BY <1>3, CallbackFacts DEF CountOne, Calling, StateInv
  <2>2. /\ j \in 1..Len(callbacks[l]) /\ callbacks[l][j].caller = c
        /\ i \in Indices(c) /\ Futures(c)[i] = l
    BY <1>3, <2>1, CallbackFacts DEF CountOne, Calling, LeftBy, Callback
  <2>3. /\ counter' = [counter EXCEPT ![c] = @ + 1] /\ running' = [running EXCEPT ![l] = @ + 1]
        /\ callbacks' = callbacks /\ pc[l] = "callbacks"
    BY <1>3, <2>1 DEF CountOne, Calling
  <2>4. i \notin Spent(c)
    <3> SUFFICES ASSUME i \in Spent(c) PROVE FALSE
      OBVIOUS
    <3>1. PICK u \in 1..Len(callbacks[l]) : u < running[l] /\ callbacks[l][u].caller = c
      BY <2>2, <2>3 DEF Spent
    <3> QED  BY <2>1, <2>2, <3>1 DEF CallbackInv
  <2>5. i \in Spent(c)'
    <3>1. running'[l] = j + 1
      BY <2>1, <2>3 DEF StateInv
    <3>2. Indices(c)' = Indices(c) /\ Futures(c)' = Futures(c)
      BY RunningFrame
    <3> QED  BY <2>1, <2>2, <2>3, <3>1, <3>2 DEF Spent
  <2>6. Spent(c) \union {i} \subseteq Spent(c)' /\ IsFiniteSet(Spent(c)')
    <3>1. Spent(c)' \subseteq Indices(c)
      BY RunningFrame DEF Spent
    <3> QED  BY <1>1, <2>5, <3>1, SpentGrows, SpentFinite, FS_Subset
  <2>7. Cardinality(Spent(c)) + 1 <= Cardinality(Spent(c)')
    <3>1. Cardinality(Spent(c) \union {i}) = Cardinality(Spent(c)) + 1
      BY <2>4, SpentFinite, FS_AddElement
    <3> QED  BY <2>6, <3>1, FS_Subset
  <2>8. counter'[c] <= Cardinality(Spent(c)')
    <3>1. counter[c] \in Nat /\ counter'[c] = counter[c] + 1
      BY <2>3 DEF StateInv
    <3>2. Cardinality(Spent(c)) \in Nat /\ Cardinality(Spent(c)') \in Nat
      BY <2>6, SpentFinite, FS_CardinalityType
    <3> QED  BY <2>7, <3>1, <3>2 DEF CountInv
  <2>9. ASSUME NEW d \in Callers, d # c PROVE counter'[d] <= Cardinality(Spent(d)')
    <3>1. counter'[d] = counter[d] /\ counter[d] \in Nat
      BY <2>3, <2>9 DEF StateInv
    <3>2. Spent(d)' \subseteq Indices(d)
      BY RunningFrame DEF Spent
    <3>3. IsFiniteSet(Spent(d)') /\ Cardinality(Spent(d)') \in Nat
      BY <3>2, SpentFinite, FS_Subset, FS_CardinalityType
    <3>4. Cardinality(Spent(d)) <= Cardinality(Spent(d)')
      BY <1>1, <3>3, SpentGrows, FS_Subset
    <3> QED  BY <3>1, <3>3, <3>4, SpentFinite DEF CountInv
  <2> QED  BY <1>1, <2>8, <2>9 DEF CountInv
<1> QED  BY <1>2, <1>3

LEMMA CombiningCount ==
  ASSUME StateInv, StateInv', CallbackInv, CountInv, NEW c \in Callers, Combining(c)
  PROVE  CountInv'
<1>1. \A l \in Leaves : pc'[l] = "task" => running'[l] = 1
  BY CombiningFrame DEF CountInv
<1> QED  BY <1>1, CombiningForward, CombiningFrame, CountStep

-----------------------------------------------------------------------------
(* The flags of the combined futures of whenAll.                           *)

LEMMA RunningAll ==
  ASSUME StateInv, StateInv', CallbackInv, SetInv, SetInv', CountInv', AllInv, IndexInv,
         NEW l \in Leaves, Running(l), \A o \in Leaves : set[o] => set'[o]
  PROVE  AllInv'
<1>0. \A c \in Callers : /\ Kind(c)' = Kind(c) /\ Indices(c)' = Indices(c)
                         /\ Futures(c)' = Futures(c)
                         /\ \A i \in Indices(c) : Futures(c)[i] \in Leaves
  BY RunningFrame
<1>1. CASE CountOne(l)
  <2>1. PICK c \in Callers : c = Callback(l).caller
    BY <1>1, CallbackFacts DEF CountOne, Calling
  <2>2. /\ whenSet' = [whenSet EXCEPT ![c] = @ \/ counter[c] = LastOne(c)]
        /\ counter' = [counter EXCEPT ![c] = @ + 1]
    BY <1>1, <2>1 DEF CountOne
  <2>3. \A d \in Callers : d # c => whenSet'[d] = whenSet[d]
    BY <2>2 DEF StateInv
  <2>4. whenSet'[c] => whenSet[c] \/ counter[c] = Count(c) - 1
    BY <2>2 DEF StateInv, LastOne
  <2>5. counter[c] = Count(c) - 1 => \A i \in Indices(c) : set'[Futures(c)[i]]
    <3> SUFFICES ASSUME counter[c] = Count(c) - 1, NEW i \in Indices(c) PROVE set'[Futures(c)[i]]
      OBVIOUS
    <3>1. Count(c) \in Nat
      BY RequestFacts DEF StateInv
    <3>2. counter'[c] = Count(c)
      BY <2>2, <3>1 DEF StateInv
    <3>3. Spent(c)' \subseteq Indices(c)
      BY RunningFrame DEF Spent
    <3>4. Cardinality(Spent(c)') = Count(c)
      <4>1. Cardinality(Spent(c)') <= Count(c) /\ Cardinality(Spent(c)') \in Nat
        BY <3>3, SpentFinite, FS_Subset, FS_CardinalityType
      <4> QED  BY <3>1, <3>2, <4>1 DEF CountInv
    <3>5. i \in Spent(c)'
      BY <3>3, <3>4, SpentFinite, FS_Subset
    <3>6. PICK o \in Leaves : o = Futures(c)[i]
      BY <1>0
    <3>7. pc'[o] # "task"
      BY <1>0, <3>5, <3>6 DEF Spent, CountInv
    <3> QED  BY <3>6, <3>7 DEF SetInv
  <2> QED  BY <1>0, <2>3, <2>4, <2>5 DEF AllInv
<1>2. CASE SetAny(l)
  <2>1. PICK c \in Callers : c = Callback(l).caller
    BY <1>2, CallbackFacts DEF SetAny, Calling
  <2>2. whenSet' = [whenSet EXCEPT ![c] = TRUE] /\ Kind(c) = "any"
    BY <1>2, <2>1 DEF SetAny, Calling, Callback
  <2>3. \A d \in Callers : d # c => whenSet'[d] = whenSet[d]
    BY <2>2 DEF StateInv
  <2> QED  BY <1>0, <2>2, <2>3 DEF AllInv
<1>3. CASE ~CountOne(l) /\ ~SetAny(l)
  <2>1. whenSet' = whenSet
    BY <1>3 DEF Running, SetExecuted, NoticeLock, StoreIndex, NotFirst, NoticeUnlock, Clear
  <2> QED  BY <1>0, <2>1 DEF AllInv
<1> QED  BY <1>1, <1>2, <1>3

LEMMA CombiningAll ==
  ASSUME StateInv, SetInv, AllInv, NEW c \in Callers, Combining(c)
  PROVE  AllInv'
<1>0. set' = set /\ \A d \in Callers : Kind(d)' = Kind(d) /\ Indices(d)' = Indices(d)
                                       /\ Futures(d)' = Futures(d)
  BY CombiningFrame
<1>1. CASE AllSet(c)
  <2>1. whenSet' = [whenSet EXCEPT ![c] = TRUE] /\ Looking(c) /\ ~More(c) /\ Kind(c) = "all"
    BY <1>1 DEF AllSet, Settled
  <2>2. Count(c) \in Nat /\ k[c] \in Nat
    BY RequestFacts DEF StateInv
  <2>3. \A i \in Indices(c) : i < k[c]
    BY <2>1, <2>2 DEF Indices, More
  <2> QED  BY <1>0, <2>1, <2>3 DEF AllInv, SetInv, StateInv
<1>2. CASE AnySet(c)
  <2>1. whenSet' = [whenSet EXCEPT ![c] = TRUE] /\ Kind(c) = "any"
    BY <1>2 DEF AnySet, Settled
  <2> QED  BY <1>0, <2>1 DEF AllInv, StateInv
<1>3. CASE ~AllSet(c) /\ ~AnySet(c)
  <2>1. whenSet' = whenSet
    BY <1>3 DEF Combining, LookOn, AllUnset, AnyUnset, LockOne, AllLocked, Register, Registered,
                UnlockOne, ReturnFuture, GetCombined
  <2> QED  BY <1>0, <2>1 DEF AllInv
<1> QED  BY <1>1, <1>2, <1>3

-----------------------------------------------------------------------------
(* The index of a whenAny.                                                 *)

(* A thread between the flag and the index stays with its callback.        *)
LEMMA IndexStays ==
  ASSUME StateInv, Forward, NEW l \in Leaves, pc[l] = "index", pc'[l] = "index",
         running'[l] = running[l], running[l] <= Len(callbacks[l])
  PROVE  Callback(l)' = Callback(l) /\ running'[l] <= Len(callbacks'[l])
<1>1. callbacks[l] \in Seq(Left) /\ running[l] \in Nat \ {0}
  BY DEF StateInv
<1>2. running[l] \in 1..Len(callbacks[l])
  BY <1>1
<1>3. /\ Len(callbacks[l]) <= Len(callbacks'[l])
      /\ \A j \in 1..Len(callbacks[l]) : callbacks'[l][j] = callbacks[l][j]
  BY DEF Forward
<1>4. callbacks'[l][running[l]] = callbacks[l][running[l]]
  BY <1>2, <1>3
<1> QED  BY <1>1, <1>3, <1>4 DEF Callback

(* A step that changes neither what is written nor who is in between.      *)
LEMMA IndexKept ==
  ASSUME StateInv, IndexInv, Forward, UNCHANGED <<request, data, running>>,
         \A l \in Leaves : set[l] => set'[l],
         \A c \in Callers : whenSet[c] => whenSet'[c],
         \A l \in Leaves : pc'[l] = "index" => pc[l] = "index",
         \A c \in Callers : pc'[c] \in {"first", "lock", "second"}
                            => pc[c] \in {"first", "lock", "second"},
         \A l \in Leaves : running[l] <= Len(callbacks[l]) => Callback(l).caller \in Callers
  PROVE  IndexInv'
<1>1. \A c \in Callers : Futures(c)' = Futures(c) /\ Indices(c)' = Indices(c)
  BY DEF Futures, Indices, Count
<1>2. \A c \in Callers : \A i \in Indices(c) : Futures(c)[i] \in Leaves
  BY RequestFacts DEF StateInv
<1>3. \A l \in Leaves : pc'[l] = "index" =>
        Callback(l)' = Callback(l) /\ running'[l] <= Len(callbacks'[l])
  BY IndexStays DEF IndexInv
<1>4. \A c \in Callers : pc'[c] \in {"first", "lock", "second"} => data'[c] = NoIndex
  BY DEF IndexInv
<1>5. \A c \in Callers : data'[c] # NoIndex =>
        whenSet'[c] /\ data'[c] \in Indices(c) /\ set'[Futures(c)[data'[c]]]
  BY <1>2 DEF IndexInv
<1>6. \A l \in Leaves : pc'[l] = "index" =>
        whenSet'[Callback(l).caller] /\ data'[Callback(l).caller] = NoIndex
  BY DEF IndexInv
<1>7. \A l, o \in Leaves : pc'[l] = "index" /\ pc'[o] = "index"
        /\ Callback(l).caller = Callback(o).caller => l = o
  BY DEF IndexInv
<1> QED  BY <1>1, <1>3, <1>4, <1>5, <1>6, <1>7 DEF IndexInv

LEMMA RunningIndex ==
  ASSUME StateInv, CallbackInv, SetInv, IndexInv, NEW l \in Leaves, Running(l),
         \A o \in Leaves : set[o] => set'[o]
  PROVE  /\ IndexInv'
         /\ \A c \in Callers : data[c] # NoIndex => data'[c] = data[c]
<1>0. /\ Forward /\ request' = request
      /\ \A c \in Callers : pc'[c] = pc[c] /\ Futures(c)' = Futures(c) /\ Indices(c)' = Indices(c)
      /\ \A o \in Leaves : o # l => pc'[o] = pc[o]
  BY RunningForward, RunningFrame
<1>1. \A o \in Leaves : running[o] <= Len(callbacks[o]) => Callback(o).caller \in Callers
  BY CallbackFacts
<1>2. \A c \in Callers : \A i \in Indices(c) : Futures(c)[i] \in Leaves
  BY RequestFacts DEF StateInv
<1>3. CASE SetExecuted(l) \/ NoticeLock(l) \/ NoticeUnlock(l) \/ Clear(l)
  <2>1. UNCHANGED <<data, running, whenSet>> /\ pc'[l] # "index"
    BY <1>3, RunningFrame DEF SetExecuted, NoticeLock, NoticeUnlock, Clear, GoTo
  <2> QED  BY <1>0, <1>1, <2>1, IndexKept
<1>4. CASE CountOne(l) \/ NotFirst(l)
  <2>1. /\ pc[l] = "callbacks" /\ pc' = pc /\ data' = data /\ callbacks' = callbacks
        /\ running' = [running EXCEPT ![l] = @ + 1] /\ set' = set
    BY <1>4 DEF CountOne, NotFirst, Calling
  <2>2. \A c \in Callers : whenSet[c] => whenSet'[c]
    BY <1>4 DEF CountOne, NotFirst, StateInv
  <2>3. \A o \in Leaves : pc[o] = "index" => Callback(o)' = Callback(o) /\ running'[o] = running[o]
    BY <2>1 DEF Callback, StateInv
  <2>4. \A o \in Leaves : pc'[o] = "index" =>
          running'[o] <= Len(callbacks'[o]) /\ whenSet'[Callback(o).caller]
          /\ data'[Callback(o).caller] = NoIndex
    BY <1>1, <2>1, <2>2, <2>3 DEF IndexInv
  <2>5. \A o, u \in Leaves : pc'[o] = "index" /\ pc'[u] = "index"
          /\ Callback(o).caller = Callback(u).caller => o = u
    BY <2>1 DEF IndexInv
  <2>6. \A c \in Callers : data'[c] # NoIndex =>
          whenSet'[c] /\ data'[c] \in Indices(c) /\ set'[Futures(c)[data'[c]]]
    BY <2>1, <2>2 DEF IndexInv
  <2> QED  BY <1>0, <2>1, <2>3, <2>4, <2>5, <2>6 DEF IndexInv
<1>5. CASE SetAny(l)
  <2>1. PICK c \in Callers : c = Callback(l).caller
    BY <1>5, CallbackFacts DEF SetAny, Calling
  <2>2. /\ whenSet' = [whenSet EXCEPT ![c] = TRUE] /\ ~whenSet[c]
        /\ UNCHANGED <<data, set, running, callbacks>> /\ running[l] <= Len(callbacks[l])
    BY <1>5, <2>1 DEF SetAny, First, Calling, shared
  <2>3. /\ \A d \in Callers : whenSet[d] => whenSet'[d]
        /\ whenSet'[c]
    BY <2>2 DEF StateInv
  <2>4. data[c] = NoIndex
    BY <2>2 DEF IndexInv
  <2>5. \A o \in Leaves : Callback(o)' = Callback(o)
    BY <2>2 DEF Callback
  <2>6. \A o \in Leaves : pc'[o] = "index" =>
          running'[o] <= Len(callbacks'[o]) /\ whenSet'[Callback(o).caller]
          /\ data'[Callback(o).caller] = NoIndex
    BY <1>0, <1>1, <2>1, <2>2, <2>3, <2>4 DEF IndexInv
  <2>7. \A o \in Leaves : o # l /\ pc'[o] = "index" => Callback(o).caller # c
    BY <1>0, <2>2 DEF IndexInv
  <2>8. \A o, u \in Leaves : pc'[o] = "index" /\ pc'[u] = "index"
          /\ Callback(o).caller = Callback(u).caller => o = u
    BY <1>0, <2>1, <2>7 DEF IndexInv
  <2>9. \A d \in Callers : data'[d] # NoIndex =>
          whenSet'[d] /\ data'[d] \in Indices(d) /\ set'[Futures(d)[data'[d]]]
    BY <2>2, <2>3 DEF IndexInv
  <2> QED  BY <1>0, <2>2, <2>5, <2>6, <2>8, <2>9 DEF IndexInv
<1>6. CASE StoreIndex(l)
  <2>1. pc[l] = "index" /\ pc'[l] = "callbacks" /\ running[l] <= Len(callbacks[l])
    BY <1>6, RunningFrame DEF StoreIndex, GoTo, IndexInv
  <2>2. PICK c \in Callers, i \in Nat : c = Callback(l).caller /\ i = Callback(l).index
    BY <2>1, CallbackFacts
  <2>3. /\ i \in Indices(c) /\ Futures(c)[i] = l
        /\ pc[c] \notin {"first", "lock", "second"}
    BY <2>1, <2>2, CallbackFacts DEF LeftBy
  <2>4. /\ data' = [data EXCEPT ![c] = i] /\ running' = [running EXCEPT ![l] = @ + 1]
        /\ UNCHANGED <<set, whenSet, callbacks>>
    BY <1>6, <2>2 DEF StoreIndex
  <2>5. /\ data'[c] = i /\ data[c] = NoIndex /\ whenSet[c]
        /\ \A d \in Callers : d # c => data'[d] = data[d]
    BY <2>1, <2>2, <2>4 DEF IndexInv, StateInv
  <2>6. \A o \in Leaves : o # l => Callback(o)' = Callback(o) /\ running'[o] = running[o]
    BY <2>4 DEF Callback, StateInv
  <2>7. \A o \in Leaves : pc'[o] = "index" => o # l /\ pc[o] = "index" /\ Callback(o).caller # c
    BY <1>0, <2>1, <2>2 DEF IndexInv
  <2>8. \A o \in Leaves : pc'[o] = "index" =>
          running'[o] <= Len(callbacks'[o]) /\ whenSet'[Callback(o).caller]
          /\ data'[Callback(o).caller] = NoIndex
    BY <1>1, <2>4, <2>5, <2>6, <2>7 DEF IndexInv
  <2>9. \A o, u \in Leaves : pc'[o] = "index" /\ pc'[u] = "index"
          /\ Callback(o).caller = Callback(u).caller => o = u
    BY <2>7 DEF IndexInv
  <2>10. set[l]
    BY <2>1 DEF SetInv
  <2>11. \A d \in Callers : data'[d] # NoIndex =>
           whenSet'[d] /\ data'[d] \in Indices(d) /\ set'[Futures(d)[data'[d]]]
    BY <2>3, <2>4, <2>5, <2>10 DEF IndexInv
  <2>12. \A d \in Callers : pc'[d] \in {"first", "lock", "second"} => data'[d] = NoIndex
    BY <1>0, <2>3, <2>5 DEF IndexInv
  <2> QED  BY <1>0, <2>5, <2>6, <2>7, <2>8, <2>9, <2>11, <2>12 DEF IndexInv
<1> QED  BY <1>3, <1>4, <1>5, <1>6 DEF Running, CountOne, NotFirst, SetAny, SetExecuted, NoticeLock,
            NoticeUnlock, Clear, shared

LEMMA CombiningIndex ==
  ASSUME StateInv, CallbackInv, SetInv, IndexInv, NEW c \in Callers, Combining(c)
  PROVE  /\ IndexInv'
         /\ \A d \in Callers : data[d] # NoIndex => data'[d] = data[d]
<1>0. /\ Forward /\ UNCHANGED <<request, set, running>>
      /\ \A l \in Leaves : pc'[l] = pc[l]
      /\ \A d \in Callers : d # c => pc'[d] = pc[d]
      /\ \A d \in Callers : Futures(d)' = Futures(d) /\ Indices(d)' = Indices(d)
  BY CombiningForward, CombiningFrame
<1>1. \A l \in Leaves : running[l] <= Len(callbacks[l]) => Callback(l).caller \in Callers
  BY CallbackFacts
<1>2. CASE AllSet(c) \/ AnySet(c)
  <2>1. /\ Looking(c) /\ whenSet' = [whenSet EXCEPT ![c] = TRUE] /\ callbacks' = callbacks
        /\ pc'[c] \in {"returned", "unlock"}
    BY <1>2, CombiningFrame DEF AllSet, AnySet, Settled, shared
  <2>2. /\ \A d \in Callers : whenSet[d] => whenSet'[d]
        /\ whenSet'[c]
    BY <2>1 DEF StateInv
  <2>3. /\ \A d \in Callers : d # c => data'[d] = data[d]
        /\ data'[c] # NoIndex => data'[c] \in Indices(c) /\ set[Futures(c)[data'[c]]]
    <3>1. CASE AllSet(c)
      BY <3>1 DEF AllSet, Settled, StateInv
    <3>2. CASE AnySet(c)
      <4>1. k[c] \in Indices(c) /\ set[Futures(c)[k[c]]] /\ data' = [data EXCEPT ![c] = k[c]]
        BY <3>2, LeafFacts DEF AnySet, Settled
      <4> QED  BY <4>1 DEF StateInv
    <3> QED  BY <1>2, <3>1, <3>2
  <2>4. data[c] = NoIndex
    BY <2>1 DEF Looking, IndexInv
  <2>5. \A l \in Leaves : pc[l] = "index" => Callback(l).caller # c
    BY <2>1, CallbackFacts DEF IndexInv, LeftBy, Looking
  <2>6. \A l \in Leaves : Callback(l)' = Callback(l)
    BY <1>0, <2>1 DEF Callback
  <2>7. \A l \in Leaves : pc'[l] = "index" =>
          running'[l] <= Len(callbacks'[l]) /\ whenSet'[Callback(l).caller]
          /\ data'[Callback(l).caller] = NoIndex
    BY <1>0, <1>1, <2>1, <2>2, <2>3, <2>5 DEF IndexInv
  <2>8. \A l, o \in Leaves : pc'[l] = "index" /\ pc'[o] = "index"
          /\ Callback(l).caller = Callback(o).caller => l = o
    BY <1>0 DEF IndexInv
  <2>9. \A d \in Callers : data'[d] # NoIndex =>
          whenSet'[d] /\ data'[d] \in Indices(d) /\ set'[Futures(d)[data'[d]]]
    BY <1>0, <2>2, <2>3 DEF IndexInv
  <2>10. \A d \in Callers : pc'[d] \in {"first", "lock", "second"} => data'[d] = NoIndex
    BY <1>0, <2>1, <2>3 DEF IndexInv
  <2> QED  BY <1>0, <2>3, <2>4, <2>6, <2>7, <2>8, <2>9, <2>10 DEF IndexInv
<1>3. CASE ~AllSet(c) /\ ~AnySet(c)
  <2>1. UNCHANGED <<data, whenSet>>
    BY <1>3 DEF Combining, LookOn, AllUnset, AnyUnset, LockOne, AllLocked, Register, Registered,
                UnlockOne, ReturnFuture, GetCombined
  <2>2. pc'[c] \in {"first", "lock", "second"} => pc[c] \in {"first", "lock", "second"}
    BY <1>3, CombiningFrame DEF Combining, LookOn, AllUnset, AnyUnset, LockOne, AllLocked,
       Register, Registered, UnlockOne, ReturnFuture, GetCombined, GoTo, NextPhase, Looking,
       AllUnlocked
  <2>3. \A d \in Callers : pc'[d] \in {"first", "lock", "second"}
                           => pc[d] \in {"first", "lock", "second"}
    BY <1>0, <2>2
  <2> QED  BY <1>0, <1>1, <2>1, <2>3, IndexKept
<1> QED  BY <1>2, <1>3

-----------------------------------------------------------------------------
(* Every step keeps the invariant, and what a whenAny got.                 *)

Written == \A c \in Callers : data[c] # NoIndex => data'[c] = data[c]

LEMMA NextInv == WhenInv /\ [Next]_vars => WhenInv' /\ Written
<1> SUFFICES ASSUME WhenInv, [Next]_vars PROVE WhenInv' /\ Written
  OBVIOUS
<1> USE DEF WhenInv
<1>1. ASSUME NEW l \in Leaves, Running(l) PROVE WhenInv' /\ Written
  <2>1. StateInv'
    BY <1>1, RunningState
  <2>2. MutexInv'
    BY <1>1, RunningMutex
  <2>3. SetInv' /\ \A o \in Leaves : set[o] => set'[o]
    BY <1>1, RunningSet
  <2>4. CallbackInv'
    BY <1>1, RunningCallbacks
  <2>5. CountInv'
    BY <1>1, <2>1, RunningCount
  <2>6. AllInv'
    BY <1>1, <2>1, <2>3, <2>5, RunningAll
  <2>7. IndexInv' /\ Written
    BY <1>1, <2>3, RunningIndex DEF Written
  <2> QED  BY <2>1, <2>2, <2>3, <2>4, <2>5, <2>6, <2>7
<1>2. ASSUME NEW c \in Callers, Combining(c) PROVE WhenInv' /\ Written
  <2>1. StateInv'
    BY <1>2, CombiningState
  <2>2. MutexInv'
    BY <1>2, CombiningMutex
  <2>3. SetInv'
    BY <1>2, CombiningSet
  <2>4. CallbackInv'
    BY <1>2, CombiningCallbacks
  <2>5. CountInv'
    BY <1>2, <2>1, CombiningCount
  <2>6. AllInv'
    BY <1>2, CombiningAll
  <2>7. IndexInv' /\ Written
    BY <1>2, CombiningIndex DEF Written
  <2> QED  BY <2>1, <2>2, <2>3, <2>4, <2>5, <2>6, <2>7
<1>3. CASE UNCHANGED vars
  <2> USE <1>3 DEF vars
  <2>1. \A c \in Callers : Count(c)' = Count(c) /\ Futures(c)' = Futures(c) /\ Kind(c)' = Kind(c)
          /\ Indices(c)' = Indices(c) /\ Named(c)' = Named(c) /\ Looking(c)' = Looking(c)
    BY DEF Count, Futures, Kind, Indices, Named, Looking
  <2>2. StateInv'
    BY <2>1 DEF StateInv
  <2>3. MutexInv'
    BY <2>1 DEF MutexInv, Holds
  <2>4. SetInv'
    BY <2>1 DEF SetInv
  <2>5. CallbackInv'
    <3>1. \A b, l : LeftBy(b, l)' <=> LeftBy(b, l)
      BY DEF LeftBy, Indices, Count, Futures
    <3>2. \A l \in Leaves : \A j \in 1..Len(callbacks[l]) : LeftBy(callbacks[l][j], l)'
      BY <3>1 DEF CallbackInv
    <3> QED  BY <3>2 DEF CallbackInv
  <2>6. CountInv'
    BY DEF CountInv, Spent, Indices, Count, Futures
  <2>7. AllInv'
    BY <2>1 DEF AllInv
  <2>8. IndexInv'
    BY DEF IndexInv, Callback, Indices, Count, Futures
  <2> QED  BY <2>2, <2>3, <2>4, <2>5, <2>6, <2>7, <2>8 DEF Written
<1> QED  BY <1>1, <1>2, <1>3 DEF Next

-----------------------------------------------------------------------------
(* The invariant in the words of Combinators: who holds a mutex, Held and    *)
(* TypeOK, is MutexInv.                                                    *)
LEMMA HeldMeans ==
  ASSUME StateInv, NEW c \in Callers, NEW l \in Leaves
  PROVE  l \in Held(c) <=> \E i \in Indices(c) : Futures(c)[i] = l /\ Holds(c, i)
<1>1. Count(c) \in Nat /\ k[c] \in Nat \ {0} /\ k[c] <= Count(c) + 1 /\ pc[c] \in CallerStates
  BY RequestFacts DEF StateInv
<1>2. CASE pc[c] = "lock"
  <2>1. Held(c) = {Futures(c)[i] : i \in 1..k[c] - 1}
    BY <1>2 DEF Held
  <2>2. \A i \in Indices(c) : Holds(c, i) <=> i < k[c]
    BY <1>2 DEF Holds
  <2> QED  BY <1>1, <2>1, <2>2 DEF Indices
<1>3. CASE pc[c] = "unlock"
  <2>1. Held(c) = {Futures(c)[i] : i \in k[c]..Count(c)}
    BY <1>3 DEF Held
  <2>2. \A i \in Indices(c) : Holds(c, i) <=> k[c] <= i
    BY <1>3 DEF Holds
  <2> QED  BY <1>1, <2>1, <2>2 DEF Indices
<1>4. CASE pc[c] \in {"second", "register"}
  <2>1. Held(c) = {Futures(c)[i] : i \in 1..Count(c)}
    BY <1>4 DEF Held
  <2> QED  BY <1>4, <2>1 DEF Indices, Holds
<1>5. CASE pc[c] \notin {"lock", "unlock", "second", "register"}
  <2>1. Held(c) = {}
    BY <1>5 DEF Held
  <2> QED  BY <1>5, <2>1 DEF Holds
<1> QED  BY <1>2, <1>3, <1>4, <1>5

LEMMA InvTypeOK == WhenInv => TypeOK
<1> SUFFICES ASSUME WhenInv PROVE TypeOK
  OBVIOUS
<1> USE DEF WhenInv
<1>1. ASSUME NEW l \in Leaves
      PROVE  m[l] = IF pc[l] \in {"callbacks", "index"} THEN l
                    ELSE IF \E c \in Callers : l \in Held(c)
                         THEN CHOOSE c \in Callers : l \in Held(c)
                         ELSE NoThread
  <2>1. \A c \in Callers : l \in Held(c) <=> m[l] = c
    <3> SUFFICES ASSUME NEW c \in Callers PROVE l \in Held(c) <=> m[l] = c
      OBVIOUS
    <3>1. m[l] = c => \E i \in Indices(c) : Futures(c)[i] = l
      <4>1. m[l] = c => l \in Named(c)
        BY DEF MutexInv
      <4>2. Named(c) = {Futures(c)[i] : i \in Indices(c)}
        BY RequestFacts DEF StateInv
      <4> QED  BY <4>1, <4>2
    <3>2. \A i \in Indices(c) : m[Futures(c)[i]] = c <=> Holds(c, i)
      BY DEF MutexInv
    <3> QED  BY <3>1, <3>2, HeldMeans
  <2>2. CASE pc[l] \in {"callbacks", "index"}
    BY <2>2 DEF MutexInv
  <2>3. CASE pc[l] \notin {"callbacks", "index"} /\ \E c \in Callers : l \in Held(c)
    <3>1. PICK d \in Callers : d = CHOOSE c \in Callers : l \in Held(c)
      BY <2>3
    <3>2. l \in Held(d)
      BY <2>3, <3>1
    <3> QED  BY <2>1, <2>3, <3>1, <3>2
  <2>4. CASE pc[l] \notin {"callbacks", "index"} /\ ~\E c \in Callers : l \in Held(c)
    <3>1. m[l] \notin Callers /\ m[l] \notin Leaves
      BY <2>1, <2>4 DEF MutexInv
    <3>2. m[l] = NoThread
      BY <3>1 DEF StateInv
    <3> QED  BY <2>4, <3>2
  <2> QED  BY <2>2, <2>3, <2>4
<1>2. \A l \in Leaves : callbacks[l] \in Seq([caller : Callers, index : Nat \ {0}])
  BY DEF StateInv, Left
<1> QED  BY <1>1, <1>2 DEF StateInv, TypeOK

(* The invariant holds throughout.                                         *)
THEOREM Always == Spec => []WhenInv
<1>1. Init => WhenInv
  BY InitInv
<1>2. WhenInv /\ [Next]_vars => WhenInv'
  BY NextInv
<1> QED  BY <1>1, <1>2, PTL DEF Spec

(* The combined future of a whenAll is set only when all its futures are,   *)
(* with any number of futures, callers and callbacks still to run, and the  *)
(* mutexes are where the code has locked them.                              *)
THEOREM AllSetMeansAll == Spec => []AllMeansAll
<1>1. WhenInv => AllMeansAll
  <2> SUFFICES ASSUME WhenInv PROVE AllMeansAll
    OBVIOUS
  <2>1. TypeOK
    BY InvTypeOK
  <2>2. \A c \in Callers : Kind(c) = "all" /\ whenSet[c] => \A l \in Named(c) : set[l]
    BY RequestFacts DEF WhenInv, AllInv, StateInv
  <2> QED  BY <2>1, <2>2 DEF AllMeansAll
<1> QED  BY <1>1, Always, PTL

(* The index of a whenAny is that of a future that is set, and is never     *)
(* overwritten, whoever writes it: the caller or a callback.                *)
THEOREM IndexOfTheFirst == Spec => AnyMeansAny
<1>1. WhenInv => \A c \in Callers : Kind(c) = "any" /\ data[c] # NoIndex
                   => data[c] \in 1..Count(c) /\ set[Futures(c)[data[c]]]
  BY DEF WhenInv, IndexInv, Indices
<1>2. WhenInv /\ [Next]_vars =>
        [\A c \in Callers : data[c] # NoIndex => data'[c] = data[c]]_data
  BY NextInv DEF Written
<1> QED  BY <1>1, <1>2, Always, PTL DEF Spec, AnyMeansAny
=============================================================================
