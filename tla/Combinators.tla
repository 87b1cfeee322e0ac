----------------------------- MODULE Combinators -----------------------------
(***************************************************************************)
(* whenAll and whenAny of executor.h, and the waitAll and waitAny that get  *)
(* their result: a caller looks at each future's flag, locks all the        *)
(* futures in the order it was given, looks again, and leaves a callback    *)
(* with each, while the tasks behind the futures finish one by one.         *)
(*                                                                         *)
(* The vector and the variadic versions do the same.  What notice() does    *)
(* for one future is module SharedState; here it runs the callbacks the     *)
(* combinators leave.                                                       *)
(***************************************************************************)
EXTENDS Naturals, Sequences, FiniteSets, Functions

CONSTANTS Leaves,     (* the futures, each with the thread that sets it    *)
          Callers,    (* the threads that combine them                     *)
          Requests,   (* what the callers may ask for: [caller -> [kind,   *)
                      (* futures]], "all" or "any" of futures in an order  *)
          NoThread,   (* a mutex is free                                   *)
          NoIndex     (* data has not been written                         *)

ASSUME CombinatorsAssumption ==
  /\ Leaves \intersect Callers = {} /\ NoThread \notin Leaves \union Callers
  /\ NoIndex \notin Nat
  /\ Requests \subseteq [Callers -> [kind : {"all", "any"}, futures : Seq(Leaves)]]
  /\ \A r \in Requests, c \in Callers : IsInjective(r[c].futures)

VARIABLES request,    (* what they ask for: it never changes               *)
          set,        (* the atomic flag of each future                    *)
          m,          (* who holds the mutex of each future                *)
          callbacks,  (* what the callers left with each future            *)
          running,    (* the callback notice() has reached                 *)
          counter,    (* ac: the callbacks of a whenAll that have run      *)
          whenSet,    (* the flag of each caller's combined future         *)
          data,       (* and its data, the index of a whenAny              *)
          pc,
          k,          (* where a caller is in its futures                  *)
          got         (* what the combined future's get() returned         *)

vars == <<request, set, m, callbacks, running, counter, whenSet, data, pc, k, got>>
shared == <<request, set, m, callbacks, running, counter>>

Kind(c) == request[c].kind
Futures(c) == request[c].futures
Count(c) == Len(Futures(c))
Named(c) == Range(Futures(c))

Init ==
  /\ request \in Requests
  /\ set = [l \in Leaves |-> FALSE]
  /\ m = [l \in Leaves |-> NoThread]
  /\ callbacks = [l \in Leaves |-> <<>>]
  /\ running = [l \in Leaves |-> 1]
  /\ counter = [c \in Callers |-> 0]
  /\ whenSet = [c \in Callers |-> Count(c) = 0]
  /\ data = [c \in Callers |-> NoIndex]
  /\ pc = [x \in Leaves \union Callers |-> IF x \in Leaves THEN "task" ELSE "first"]
  /\ k = [c \in Callers |-> 1]
  /\ got = [c \in Callers |-> <<>>]

GoTo(x, from, to) ==
  /\ pc[x] = from
  /\ pc' = [pc EXCEPT ![x] = to]

-----------------------------------------------------------------------------
(* The thread of a future: setExecuted() and notice().                     *)

SetExecuted(l) ==
  /\ GoTo(l, "task", "notice")
  /\ set' = [set EXCEPT ![l] = TRUE]
  /\ UNCHANGED <<request, m, callbacks, running, counter, whenSet, data, k, got>>

NoticeLock(l) ==
  /\ m[l] = NoThread
  /\ m' = [m EXCEPT ![l] = l]
  /\ GoTo(l, "notice", "callbacks")
  /\ UNCHANGED <<request, set, callbacks, running, counter, whenSet, data, k, got>>

Calling(l, kind) ==
  /\ pc[l] = "callbacks"
  /\ running[l] <= Len(callbacks[l])
  /\ Kind(callbacks[l][running[l]].caller) = kind

Callback(l) == callbacks[l][running[l]]

(* whenAll: if the counter was at max, s->setExecuted().                   *)
OneTooEarly(c) == Count(c) - 2
OneTooLate(c) == Count(c)
LastOne(c) == Count(c) - 1

CountOne(l) == LET c == Callback(l).caller IN
  /\ Calling(l, "all")
  /\ counter' = [counter EXCEPT ![c] = @ + 1]
  /\ whenSet' = [whenSet EXCEPT ![c] = @ \/ counter[c] = LastOne(c)]
  /\ running' = [running EXCEPT ![l] = @ + 1]
  /\ UNCHANGED <<request, set, m, callbacks, data, pc, k, got>>

(* whenAny: if (s->setExecuted()) s->data = i, the flag before the data.   *)
AlwaysFirst(c) == TRUE
First(c) == ~whenSet[c]

SetAny(l) == LET c == Callback(l).caller IN
  /\ Calling(l, "any")
  /\ First(c)
  /\ whenSet' = [whenSet EXCEPT ![c] = TRUE]
  /\ GoTo(l, "callbacks", "index")
  /\ UNCHANGED <<shared, data, k, got>>

StoreIndex(l) == LET c == Callback(l).caller IN
  /\ GoTo(l, "index", "callbacks")
  /\ data' = [data EXCEPT ![c] = Callback(l).index]
  /\ running' = [running EXCEPT ![l] = @ + 1]
  /\ UNCHANGED <<request, set, m, callbacks, counter, whenSet, k, got>>

NotFirst(l) == LET c == Callback(l).caller IN
  /\ Calling(l, "any")
  /\ ~First(c)
  /\ running' = [running EXCEPT ![l] = @ + 1]
  /\ UNCHANGED <<request, set, m, callbacks, counter, whenSet, data, pc, k, got>>

NoticeUnlock(l) ==
  /\ running[l] > Len(callbacks[l])
  /\ GoTo(l, "callbacks", "clear")
  /\ m' = [m EXCEPT ![l] = NoThread]
  /\ UNCHANGED <<request, set, callbacks, running, counter, whenSet, data, k, got>>

Clear(l) ==
  /\ GoTo(l, "clear", "end")
  /\ callbacks' = [callbacks EXCEPT ![l] = <<>>]
  /\ UNCHANGED <<request, set, m, running, counter, whenSet, data, k, got>>

-----------------------------------------------------------------------------
(* A caller: a look without the locks, one future at a time, then the       *)
(* locks, a second look, the callbacks and the unlocks.                     *)

(* A whenAny that locks from the last to the first.                        *)
LastFirst(c) == Futures(c)[IF pc[c] = "lock" /\ Kind(c) = "any" THEN Count(c) + 1 - k[c]
                           ELSE k[c]]
Leaf(c) == Futures(c)[k[c]]
More(c) == k[c] <= Count(c)
Step(c) == k' = [k EXCEPT ![c] = @ + 1]

NextPhase(c) ==
  /\ pc' = [pc EXCEPT ![c] = IF @ = "first" THEN "lock" ELSE "register"]
  /\ k' = [k EXCEPT ![c] = 1]

(* s->data = i; s->set = true; the future is returned as it is.            *)
Settled(c, i) ==
  /\ whenSet' = [whenSet EXCEPT ![c] = TRUE]
  /\ data' = [data EXCEPT ![c] = i]
  /\ pc' = [pc EXCEPT ![c] = IF @ = "first" THEN "returned" ELSE "unlock"]
  /\ k' = [k EXCEPT ![c] = 1]

Looking(c) == pc[c] \in {"first", "second"}

(* whenAll goes on at a future that is set, whenAny at one that is not.    *)
LookOn(c) ==
  /\ Looking(c) /\ More(c)
  /\ set[Leaf(c)] <=> Kind(c) = "all"
  /\ Step(c)
  /\ UNCHANGED <<shared, whenSet, data, pc, got>>

AllUnset(c) ==
  /\ Looking(c) /\ More(c) /\ Kind(c) = "all"
  /\ ~set[Leaf(c)]
  /\ NextPhase(c)
  /\ UNCHANGED <<shared, whenSet, data, got>>

AllSet(c) ==
  /\ Looking(c) /\ ~More(c) /\ Kind(c) = "all"
  /\ Settled(c, NoIndex)
  /\ UNCHANGED <<shared, got>>

AnySet(c) ==
  /\ Looking(c) /\ More(c) /\ Kind(c) = "any"
  /\ set[Leaf(c)]
  /\ Settled(c, k[c])
  /\ UNCHANGED <<shared, got>>

AnyUnset(c) ==
  /\ Looking(c) /\ ~More(c) /\ Kind(c) = "any"
  /\ NextPhase(c)
  /\ UNCHANGED <<shared, whenSet, data, got>>

LockOne(c) ==
  /\ pc[c] = "lock" /\ More(c)
  /\ m[Leaf(c)] = NoThread
  /\ m' = [m EXCEPT ![Leaf(c)] = c]
  /\ Step(c)
  /\ UNCHANGED <<request, set, callbacks, running, counter, whenSet, data, pc, got>>

SkipSecondLook == "register"
SecondLook == "second"

AllLocked(c) ==
  /\ ~More(c)
  /\ GoTo(c, "lock", SecondLook)
  /\ k' = [k EXCEPT ![c] = 1]
  /\ UNCHANGED <<shared, whenSet, data, got>>

(* i = i++: indices count from 1 here.                                    *)
IncrementedFirst(c) == k[c] + 1
Index(c) == k[c]

Register(c) ==
  /\ pc[c] = "register" /\ More(c)
  /\ callbacks' = [callbacks EXCEPT ![Leaf(c)] = Append(@, [caller |-> c, index |-> Index(c)])]
  /\ Step(c)
  /\ UNCHANGED <<request, set, m, running, counter, whenSet, data, pc, got>>

Registered(c) ==
  /\ ~More(c)
  /\ GoTo(c, "register", "unlock")
  /\ k' = [k EXCEPT ![c] = 1]
  /\ UNCHANGED <<shared, whenSet, data, got>>

UnlockOne(c) ==
  /\ pc[c] = "unlock" /\ More(c)
  /\ m' = [m EXCEPT ![Leaf(c)] = NoThread]
  /\ Step(c)
  /\ UNCHANGED <<request, set, callbacks, running, counter, whenSet, data, pc, got>>

AllUnlocked(c) == pc[c] = "unlock" /\ ~More(c)

ReturnFuture(c) ==
  /\ AllUnlocked(c)
  /\ pc' = [pc EXCEPT ![c] = "returned"]
  /\ UNCHANGED <<shared, whenSet, data, k, got>>

(* waitAll, waitAny: get() on the combined future.                         *)
GetCombined(c) ==
  /\ whenSet[c]
  /\ GoTo(c, "returned", "end")
  /\ got' = [got EXCEPT ![c] = <<data[c]>>]
  /\ UNCHANGED <<shared, whenSet, data, k>>

-----------------------------------------------------------------------------
Running(l) == SetExecuted(l) \/ NoticeLock(l) \/ CountOne(l) \/ SetAny(l) \/ StoreIndex(l)
              \/ NotFirst(l) \/ NoticeUnlock(l) \/ Clear(l)
Combining(c) == LookOn(c) \/ AllUnset(c) \/ AllSet(c) \/ AnySet(c) \/ AnyUnset(c)
                \/ LockOne(c) \/ AllLocked(c) \/ Register(c) \/ Registered(c)
                \/ UnlockOne(c) \/ ReturnFuture(c) \/ GetCombined(c)

Next ==
  \/ \E l \in Leaves : Running(l)
  \/ \E c \in Callers : Combining(c)

Spec == Init /\ [][Next]_vars

(* The tasks are executed and every thread goes on when it can; a mutex is *)
(* taken a bounded number of times, so nobody starves for one.             *)
FairSpec ==
  /\ Spec
  /\ \A l \in Leaves : WF_vars(Running(l))
  /\ \A c \in Callers : WF_vars(Combining(c))

-----------------------------------------------------------------------------
(* The futures whose mutex a caller holds: it locks and unlocks in order.  *)
Held(c) == {Futures(c)[i] : i \in CASE pc[c] = "lock"   -> 1..k[c] - 1
                                    [] pc[c] = "unlock" -> k[c]..Count(c)
                                    [] pc[c] \in {"second", "register"} -> 1..Count(c)
                                    [] OTHER -> {}}

(* The state is well formed, and a mutex is held by whom the code says.    *)
TypeOK ==
  /\ request \in Requests
  /\ set \in [Leaves -> BOOLEAN]
  /\ \A l \in Leaves :
       m[l] = IF pc[l] \in {"callbacks", "index"} THEN l
              ELSE IF \E c \in Callers : l \in Held(c)
                   THEN CHOOSE c \in Callers : l \in Held(c)
                   ELSE NoThread
  /\ \A l \in Leaves : callbacks[l] \in Seq([caller : Callers, index : Nat \ {0}])
  /\ running \in [Leaves -> Nat \ {0}]
  /\ counter \in [Callers -> Nat]
  /\ whenSet \in [Callers -> BOOLEAN]
  /\ data \in [Callers -> Nat \union {NoIndex}]
  /\ k \in [Callers -> Nat \ {0}]
  /\ \A c \in Callers : got[c] \in Seq(Nat \union {NoIndex}) /\ Len(got[c]) <= 1

(* The future of a whenAll is set only when all the futures are, although   *)
(* its counter counts callbacks, which come and go at different moments.    *)
(* (Every variable has its type, and every mutex its owner.)                *)
AllMeansAll ==
  /\ TypeOK
  /\ \A c \in Callers : Kind(c) = "all" /\ whenSet[c] => \A l \in Named(c) : set[l]

(* The index of a whenAny is that of a future that is set, and later        *)
(* futures do not overwrite it.                                             *)
AnyMeansAny ==
  /\ [](\A c \in Callers : Kind(c) = "any" /\ data[c] # NoIndex
           => data[c] \in 1..Count(c) /\ set[Futures(c)[data[c]]])
  /\ [][\A c \in Callers : data[c] # NoIndex => data'[c] = data[c]]_data

(* Some order of all the futures agrees with the order of every request.    *)
InOneOrder ==
  \E place \in [Leaves -> 1..Cardinality(Leaves)] :
    \A c \in Callers : \A i, j \in 1..Count(c) :
      i < j => place[Futures(c)[i]] < place[Futures(c)[j]]

(* whenAll and whenAny return if their requests name the futures in one     *)
(* order: they lock in the order of the request, and two callers in         *)
(* opposite orders may wait for each other for good.                        *)
CallersReturn ==
  InOneOrder => \A c \in Callers : <>(pc[c] \in {"returned", "end"})

(* A whenAny completes when one of its futures does; not so if others have  *)
(* locked that future and each other out, so under the same condition.      *)
AnyCompletes ==
  InOneOrder => \A c \in Callers : Kind(c) = "any" =>
    (\E l \in Named(c) : set[l]) /\ pc[c] = "returned" ~> whenSet[c]

(* A whenAll completes if it registered before the first future was set,    *)
(* under the same condition.                                                *)
InTime(c) ==
  /\ pc[c] = "returned"
  /\ \A l \in Named(c) : ~set[l]
AllCompletesInTime ==
  InOneOrder => \A c \in Callers : Kind(c) = "all" => (InTime(c) ~> whenSet[c])

(* A whenAll completes whenever it is called.                              *)
AllCompletes == \A c \in Callers : Kind(c) = "all" => <>whenSet[c]

(* The get() of a whenAny returns the index of a finished future.          *)
AnyIndexGot == \A c \in Callers : Kind(c) = "any" /\ got[c] # <<>> => got[c] # <<NoIndex>>
=============================================================================
