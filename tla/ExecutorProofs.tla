--------------------------- MODULE ExecutorProofs ---------------------------
(***************************************************************************)
(* Theorems about Executor for any number of workers, clients and tasks and *)
(* any programs.  They rest on one inductive invariant, PoolInv; what is    *)
(* said of wait() rests on a second one, FlatInv, for flat programs: one    *)
(* client waits, and no task does.                                         *)
(***************************************************************************)
EXTENDS Executor, FiniteSetTheorems, TLAPS

Labels == {"call", "executed", "push_lock", "push_test", "enqueue", "getting",
           "try_run_one", "stopping", "wait_other", "wait_unlock", "wait_empty", "wait_busy"}
Bodies == Tasks \union Clients
FrameType == [body : Bodies, ip : Nat \ {0}, k : 1..N + 1, at : Labels]
Stacks == [Threads -> Seq(FrameType)]
Depth(x) == 1..Len(stack[x])

StateInv ==
  /\ program \in Programs
  /\ q \in [Workers -> Seq(Tasks)]
  /\ done \in [Workers -> BOOLEAN]
  /\ busy \in [Workers -> BOOLEAN]
  /\ stopped \in BOOLEAN
  /\ mwait \in Threads \union {NoThread}
  /\ waiting \in Policies \union {"Running"}
  /\ loop \in [Workers -> {"test", "steal", "pop", "check", "left"}]
  /\ hand \in [Workers -> Tasks \union {NoTask}]
  /\ stack \in Stacks
  /\ set \subseteq Tasks /\ lost \subseteq Tasks /\ refused \subseteq Tasks

(* A thread of the pool runs tasks, a client its own program; what is being *)
(* pushed is named by the program.                                          *)
WellFormed(x, f) ==
  /\ f.body \in Tasks \/ (f.body = x /\ x \in Clients)
  /\ x \in Workers => f.body \in Tasks
  /\ f.at \in {"push_lock", "push_test", "enqueue"} => f.ip \in PushesOf(program, f.body)

CallInv == \A x \in Threads : \A i \in Depth(x) : WellFormed(x, stack[x][i])

-----------------------------------------------------------------------------
(* The constants and the programs.                                         *)
LEMMA PoolSize == N \in Nat \ {0} /\ 1 \in 1..N + 1 /\ Workers \intersect Clients = {}
BY ExecutorAssumption

LEMMA ProgramFacts ==
  ASSUME program \in Programs, NEW b \in Bodies, NEW i \in 1..Len(program[b])
  PROVE  /\ program[b] \in Seq(Calls) /\ program[b][i] \in Calls
         /\ program[b][i].op = "push" =>
              program[b][i].task \in Tasks /\ i \in PushesOf(program, b)
         /\ program[b][i].op = "wait" => program[b][i].policy \in Policies
<1>1. program \in [Bodies -> Seq(Calls)]
  BY ExecutorAssumption DEF Bodies
<1>2. program[b] \in Seq(Calls) /\ program[b][i] \in Calls
  BY <1>1
<1>3. Range(Join) = {Wait("BlockIncoming"), Stop, [op |-> "join_threads"]}
  BY DEF Range, Join
<1>4. \A c \in Calls : /\ c.op = "push" => c.task \in Tasks
                       /\ c.op = "wait" => c.policy \in Policies
  BY <1>3 DEF Calls, Push, Get, Wait, Stop, Policies
<1> QED  BY <1>2, <1>4 DEF PushesOf

-----------------------------------------------------------------------------
(* The stacks: the top of one is replaced, a body entered or left.         *)

TopIs(x, f) ==
  /\ stack' \in Stacks
  /\ \A y \in Threads : Len(stack'[y]) = Len(stack[y])
  /\ stack'[x][1] = f
  /\ \A y \in Threads : \A i \in Depth(y) : y # x \/ i # 1 => stack'[y][i] = stack[y][i]

LEMMA FrameFacts ==
  ASSUME stack \in Stacks, NEW x \in Threads, NEW i \in Depth(x)
  PROVE  stack[x][i] \in FrameType
BY DEF Stacks, Depth

LEMMA TopFacts ==
  ASSUME stack \in Stacks, NEW x \in Threads, Active(x)
  PROVE  Top(x) = stack[x][1] /\ Top(x) \in FrameType /\ 1 \in Depth(x)
BY DEF Top, Active, Stacks, Depth

LEMMA SetTopFacts ==
  ASSUME stack \in Stacks, NEW x \in Threads, Active(x), NEW f \in FrameType, SetTop(x, f)
  PROVE  TopIs(x, f)
BY DEF SetTop, Active, Stacks, TopIs, Depth

LEMMA GoToFacts ==
  ASSUME stack \in Stacks, NEW x \in Threads, Active(x), NEW l \in Labels, GoTo(x, l)
  PROVE  \E f \in FrameType : /\ TopIs(x, f) /\ f.at = l
                              /\ f.body = Top(x).body /\ f.ip = Top(x).ip
<1>1. PICK f \in FrameType : f = [Top(x) EXCEPT !.at = l]
  BY TopFacts DEF FrameType
<1>2. f.at = l /\ f.body = Top(x).body /\ f.ip = Top(x).ip
  BY <1>1, TopFacts DEF FrameType
<1> QED  BY <1>1, <1>2, SetTopFacts DEF GoTo

LEMMA ReturnFacts ==
  ASSUME stack \in Stacks, NEW x \in Threads, Active(x), Return(x)
  PROVE  \E f \in FrameType : /\ TopIs(x, f) /\ f.at = "call"
                              /\ f.body = Top(x).body /\ f.ip = Top(x).ip + 1
<1>1. PICK f \in FrameType : f = [Frame(Top(x).body) EXCEPT !.ip = Top(x).ip + 1]
  <2>1. PICK b \in Bodies, n \in Nat \ {0} : b = Top(x).body /\ n = Top(x).ip + 1
    BY TopFacts DEF FrameType
  <2>2. [Frame(b) EXCEPT !.ip = n] = [body |-> b, ip |-> n, at |-> "call", k |-> 1]
    BY DEF Frame
  <2> QED  BY <2>1, <2>2, PoolSize DEF FrameType, Labels
<1>2. f.at = "call" /\ f.body = Top(x).body /\ f.ip = Top(x).ip + 1
  BY <1>1, TopFacts DEF FrameType, Frame
<1> QED  BY <1>1, <1>2, SetTopFacts DEF Return

LEMMA NextQueueFacts ==
  ASSUME stack \in Stacks, NEW x \in Threads, Active(x), Top(x).k <= N, NextQueue(x)
  PROVE  \E f \in FrameType : /\ TopIs(x, f) /\ f.at = Top(x).at
                              /\ f.body = Top(x).body /\ f.ip = Top(x).ip
<1>1. PICK f \in FrameType : f = [Top(x) EXCEPT !.k = @ + 1]
  <2>1. Top(x).k \in 1..N + 1 /\ Top(x).k + 1 \in 1..N + 1
    BY TopFacts, PoolSize DEF FrameType
  <2> QED  BY <2>1, TopFacts DEF FrameType
<1>2. f.at = Top(x).at /\ f.body = Top(x).body /\ f.ip = Top(x).ip
  BY <1>1, TopFacts DEF FrameType
<1> QED  BY <1>1, <1>2, SetTopFacts DEF NextQueue

LEMMA ThrowFacts ==
  ASSUME StateInv, NEW x \in Threads, Calling(x, "push"), Throw(x)
  PROVE  \E f \in FrameType : /\ TopIs(x, f) /\ f.at = "call"
                              /\ f.body = Top(x).body /\ f.ip > Top(x).ip
<1>0. stack \in Stacks /\ Active(x) /\ Top(x).at = "call" /\ ~Over(x)
  BY DEF StateInv, Calling, At
<1>1. CASE x \in Clients
  <2>1. PICK f \in FrameType : /\ TopIs(x, f) /\ f.at = "call"
                               /\ f.body = Top(x).body /\ f.ip = Top(x).ip + 1
    BY <1>0, <1>1, ReturnFacts DEF Throw
  <2> QED  BY <1>0, <2>1, TopFacts DEF FrameType
<1>2. CASE x \notin Clients
  <2>0. /\ Top(x).ip \in Nat \ {0} /\ Top(x).body \in Bodies
        /\ Len(program[Top(x).body]) \in Nat /\ Top(x).ip <= Len(program[Top(x).body])
    <3>1. program \in [Bodies -> Seq(Calls)]
      BY ExecutorAssumption DEF StateInv, Bodies
    <3>2. Top(x).body \in Bodies /\ Top(x).ip \in Nat \ {0}
      BY <1>0, TopFacts DEF FrameType
    <3> QED  BY <1>0, <3>1, <3>2 DEF Over
  <2>1. PICK f \in FrameType : f = [Top(x) EXCEPT !.ip = Len(program[Top(x).body]) + 1]
    <3>1. PICK t \in FrameType, n \in Nat \ {0} :
            t = Top(x) /\ n = Len(program[Top(x).body]) + 1
      BY <1>0, <2>0, TopFacts
    <3>2. [t EXCEPT !.ip = n] \in FrameType
      BY DEF FrameType
    <3> QED  BY <3>1, <3>2
  <2>2. f.at = "call" /\ f.body = Top(x).body /\ f.ip > Top(x).ip
    BY <1>0, <2>0, <2>1, TopFacts DEF FrameType
  <2> QED  BY <1>0, <1>2, <2>1, <2>2, SetTopFacts DEF Throw
<1> QED  BY <1>1, <1>2

LEMMA FreeFacts ==
  ASSUME stack \in Stacks, NEW x \in Threads, Active(x),
         SetTop(x, [Top(x) EXCEPT !.at = "wait_busy", !.k = 1])
  PROVE  \E f \in FrameType : /\ TopIs(x, f) /\ f.at = "wait_busy"
                              /\ f.body = Top(x).body /\ f.ip = Top(x).ip
<1>1. PICK f \in FrameType : f = [Top(x) EXCEPT !.at = "wait_busy", !.k = 1]
  <2>1. Top(x) \in FrameType
    BY TopFacts
  <2> QED  BY <2>1, PoolSize DEF FrameType, Labels
<1>2. f.at = "wait_busy" /\ f.body = Top(x).body /\ f.ip = Top(x).ip
  BY <1>1, TopFacts DEF FrameType
<1> QED  BY <1>1, <1>2, SetTopFacts

(* A body is entered above the others; one that helps is "getting" then.    *)
Above(x, b) ==
  /\ stack' \in Stacks
  /\ \A y \in Threads : y # x => stack'[y] = stack[y]
  /\ Len(stack'[x]) = Len(stack[x]) + 1
  /\ stack'[x][1] = Frame(b)
  /\ \A i \in Depth(x) :
       /\ stack'[x][i + 1].body = stack[x][i].body
       /\ stack'[x][i + 1].ip = stack[x][i].ip
       /\ \/ stack'[x][i + 1].at = stack[x][i].at
          \/ i = 1 /\ stack[x][i].at = "try_run_one" /\ stack'[x][i + 1].at = "getting"

LEMMA EnterFacts ==
  ASSUME stack \in Stacks, NEW x \in Threads, NEW b \in Tasks, Enter(x, b)
  PROVE  Above(x, b)
<1>1. Frame(b) \in FrameType
  BY PoolSize DEF Frame, FrameType, Bodies, Labels
<1>2. PICK f \in FrameType, s \in Seq(FrameType) : f = Frame(b) /\ s = stack[x]
  BY <1>1 DEF Stacks
<1>3. stack' = [stack EXCEPT ![x] = <<f>> \o s]
  BY <1>2 DEF Enter
<1>4. /\ <<f>> \o s \in Seq(FrameType) /\ Len(<<f>> \o s) = Len(s) + 1
      /\ (<<f>> \o s)[1] = f /\ \A i \in 1..Len(s) : (<<f>> \o s)[i + 1] = s[i]
  OBVIOUS
<1> QED  BY <1>2, <1>3, <1>4 DEF Above, Stacks, Depth

LEMMA LeaveFacts ==
  ASSUME stack \in Stacks, NEW x \in Threads, Active(x), stack' = [stack EXCEPT ![x] = Tail(@)]
  PROVE  /\ stack' \in Stacks
         /\ \A y \in Threads : y # x => stack'[y] = stack[y]
         /\ Len(stack'[x]) = Len(stack[x]) - 1
         /\ \A i \in 1..Len(stack'[x]) : stack'[x][i] = stack[x][i + 1] /\ i + 1 \in Depth(x)
<1>1. PICK s \in Seq(FrameType) : s = stack[x] /\ s # <<>>
  BY DEF Stacks, Active
<1>2. /\ Tail(s) \in Seq(FrameType) /\ Len(Tail(s)) = Len(s) - 1
      /\ \A i \in 1..Len(Tail(s)) : Tail(s)[i] = s[i + 1] /\ i + 1 \in 1..Len(s)
  BY <1>1
<1> QED  BY <1>1, <1>2 DEF Stacks, Depth

LEMMA HelpFacts ==
  ASSUME stack \in Stacks, NEW x \in Threads, At(x, "try_run_one"), NEW b \in Tasks,
         stack' = [stack EXCEPT ![x] = <<Frame(b), [Top(x) EXCEPT !.at = "getting"]>> \o Tail(@)]
  PROVE  Above(x, b)
<1>1. PICK f \in FrameType, g \in FrameType, s \in Seq(FrameType) :
        f = Frame(b) /\ g = [Top(x) EXCEPT !.at = "getting"] /\ s = stack[x]
  <2>1. Frame(b) \in FrameType
    BY PoolSize DEF Frame, FrameType, Bodies, Labels
  <2>2. [Top(x) EXCEPT !.at = "getting"] \in FrameType
    BY TopFacts DEF At, FrameType, Labels
  <2> QED  BY <2>1, <2>2 DEF Stacks
<1>2. s # <<>> /\ s[1] = Top(x) /\ s[1].at = "try_run_one" /\ s[1] \in FrameType
  BY <1>1, TopFacts DEF At, Active
<1>3. g.body = s[1].body /\ g.ip = s[1].ip /\ g.at = "getting"
  BY <1>1, <1>2 DEF FrameType
<1>4. stack' = [stack EXCEPT ![x] = <<f, g>> \o Tail(s)]
  BY <1>1
<1>5. /\ <<f, g>> \o Tail(s) \in Seq(FrameType) /\ Len(<<f, g>> \o Tail(s)) = Len(s) + 1
      /\ (<<f, g>> \o Tail(s))[1] = f /\ (<<f, g>> \o Tail(s))[2] = g
      /\ \A i \in 2..Len(s) : (<<f, g>> \o Tail(s))[i + 1] = s[i]
  BY <1>2
<1>6. \A i \in 1..Len(s) : i = 1 \/ i \in 2..Len(s)
  OBVIOUS
<1>7. stack'[x] = <<f, g>> \o Tail(s) /\ stack' \in Stacks
      /\ \A y \in Threads : y # x => stack'[y] = stack[y]
  BY <1>4, <1>5 DEF Stacks
<1>8. ASSUME NEW i \in 1..Len(s)
      PROVE  /\ stack'[x][i + 1].body = s[i].body /\ stack'[x][i + 1].ip = s[i].ip
             /\ \/ stack'[x][i + 1].at = s[i].at
                \/ i = 1 /\ s[i].at = "try_run_one" /\ stack'[x][i + 1].at = "getting"
  <2>1. CASE i = 1
    <3>1. stack'[x][i + 1] = g
      BY <1>5, <1>7, <2>1
    <3> QED  BY <1>2, <1>3, <2>1, <3>1
  <2>2. CASE i \in 2..Len(s)
    BY <1>5, <1>7, <2>2
  <2> QED  BY <1>6, <2>1, <2>2
<1>9. Len(stack'[x]) = Len(stack[x]) + 1 /\ stack'[x][1] = Frame(b)
  BY <1>1, <1>5, <1>7
<1>10. s = stack[x] /\ Depth(x) = 1..Len(s)
  BY <1>1 DEF Depth
<1>11. \A i \in Depth(x) :
         /\ stack'[x][i + 1].body = stack[x][i].body
         /\ stack'[x][i + 1].ip = stack[x][i].ip
         /\ \/ stack'[x][i + 1].at = stack[x][i].at
            \/ i = 1 /\ stack[x][i].at = "try_run_one" /\ stack'[x][i + 1].at = "getting"
  <2> SUFFICES ASSUME NEW i \in Depth(x)
               PROVE  /\ stack'[x][i + 1].body = stack[x][i].body
                      /\ stack'[x][i + 1].ip = stack[x][i].ip
                      /\ \/ stack'[x][i + 1].at = stack[x][i].at
                         \/ i = 1 /\ stack[x][i].at = "try_run_one" /\ stack'[x][i + 1].at = "getting"
    OBVIOUS
  <2>1. i \in 1..Len(s) /\ stack[x][i] = s[i]
    BY <1>10
  <2>2. /\ stack'[x][i + 1].body = s[i].body /\ stack'[x][i + 1].ip = s[i].ip
        /\ \/ stack'[x][i + 1].at = s[i].at
           \/ i = 1 /\ s[i].at = "try_run_one" /\ stack'[x][i + 1].at = "getting"
    BY <1>8, <2>1
  <2> QED  BY <2>1, <2>2
<1> QED  BY <1>7, <1>9, <1>11 DEF Above

-----------------------------------------------------------------------------
(* What every call does to the stack: the body on top goes on.             *)

PushLabels == {"push_lock", "push_test", "enqueue"}

Goes(x, f) ==
  /\ TopIs(x, f)
  /\ f.body = Top(x).body /\ f.ip >= Top(x).ip
  /\ f.at # "executed" /\ Top(x).at # "executed"
  /\ f.at \in PushLabels =>
       f.ip = Top(x).ip /\ (Top(x).at \in PushLabels \/ Calling(x, "push"))

LEMMA CallGoes ==
  ASSUME StateInv, NEW x \in Threads, CallStep(x)
  PROVE  Active(x) /\ \E f \in FrameType : Goes(x, f)
<1> USE DEF StateInv, Goes, PushLabels, Labels
<1>0. \A y \in Threads : Active(y) => Top(y) \in FrameType /\ Top(y).ip \in Nat
  BY TopFacts DEF FrameType
<1>1. CASE \/ PushBlocked(x) \/ PushAdmitted(x) \/ PushLock(x) \/ PushUnlock(x)
  <2>1. /\ Active(x) /\ Top(x).at # "executed"
        /\ Top(x).at \in PushLabels \/ Calling(x, "push")
        /\ \E l \in Labels : GoTo(x, l) /\ l # "executed"
    BY <1>1 DEF PushBlocked, PushAdmitted, PushLock, PushUnlock, Calling, At
  <2>2. PICK l \in Labels, f \in FrameType :
          l # "executed" /\ TopIs(x, f) /\ f.at = l /\ f.body = Top(x).body /\ f.ip = Top(x).ip
    BY <2>1, GoToFacts
  <2>3. Goes(x, f)
    BY <1>0, <2>1, <2>2
  <2> QED  BY <2>1, <2>3
<1>2. CASE \/ GetWait(x) \/ StopFlag(x) \/ WaitLock(x) \/ WaitOther(x) \/ WaitOtherLock(x)
  <2>1. /\ Active(x) /\ Top(x).at # "executed"
        /\ \E l \in Labels : GoTo(x, l) /\ l # "executed" /\ l \notin PushLabels
    BY <1>2 DEF GetWait, StopFlag, WaitLock, WaitOther, WaitOtherLock, Calling, At
  <2>2. PICK l \in Labels, f \in FrameType :
          /\ l # "executed" /\ l \notin PushLabels
          /\ TopIs(x, f) /\ f.at = l /\ f.body = Top(x).body /\ f.ip = Top(x).ip
    BY <2>1, GoToFacts
  <2>3. Goes(x, f)
    BY <1>0, <2>1, <2>2
  <2> QED  BY <2>1, <2>3
<1>3. CASE \/ \E v \in Workers : Enqueue(x, v) \/ EnqueueClosed(x, v)
           \/ GetReturn(x) \/ StopReturn(x) \/ JoinThreads(x) \/ WaitOtherReturn(x) \/ WaitReturn(x)
  <2>1. Active(x) /\ Top(x).at # "executed" /\ Return(x)
    BY <1>3 DEF Enqueue, EnqueueClosed, GetReturn, StopReturn, JoinThreads, WaitOtherReturn,
                WaitReturn, Calling, At
  <2>2. PICK f \in FrameType :
          TopIs(x, f) /\ f.at = "call" /\ f.body = Top(x).body /\ f.ip = Top(x).ip + 1
    BY <2>1, ReturnFacts
  <2>3. Goes(x, f)
    BY <1>0, <2>1, <2>2
  <2> QED  BY <2>1, <2>3
<1>4. CASE StopQueue(x) \/ WaitEmpty(x) \/ WaitIdle(x)
  <2>1. /\ Active(x) /\ Top(x).at \in {"stopping", "wait_empty", "wait_busy"}
        /\ Top(x).k <= N /\ NextQueue(x)
    BY <1>4 DEF StopQueue, LastQueue, WaitEmpty, WaitIdle, At
  <2>2. PICK f \in FrameType :
          TopIs(x, f) /\ f.at = Top(x).at /\ f.body = Top(x).body /\ f.ip = Top(x).ip
    BY <2>1, NextQueueFacts
  <2>3. Goes(x, f)
    BY <1>0, <2>1, <2>2
  <2> QED  BY <2>1, <2>3
<1>5. CASE PushRefused(x)
  <2>1. Active(x) /\ Top(x).at = "call" /\ Throw(x) /\ Calling(x, "push")
    BY <1>5 DEF PushRefused, Calling, At
  <2>2. PICK f \in FrameType :
          TopIs(x, f) /\ f.at = "call" /\ f.body = Top(x).body /\ f.ip > Top(x).ip
    BY <2>1, ThrowFacts
  <2>3. Goes(x, f)
    BY <1>0, <2>1, <2>2 DEF FrameType
  <2> QED  BY <2>1, <2>3
<1>6. CASE WaitFree(x)
  <2>1. /\ Active(x) /\ Top(x).at = "wait_empty"
        /\ SetTop(x, [Top(x) EXCEPT !.at = "wait_busy", !.k = 1])
    BY <1>6 DEF WaitFree, At
  <2>2. PICK f \in FrameType :
          TopIs(x, f) /\ f.at = "wait_busy" /\ f.body = Top(x).body /\ f.ip = Top(x).ip
    BY <2>1, FreeFacts
  <2>3. Goes(x, f)
    BY <1>0, <2>1, <2>2
  <2> QED  BY <2>1, <2>3
<1> QED  BY <1>1, <1>2, <1>3, <1>4, <1>5, <1>6 DEF CallStep

(* The worker's own steps either leave the stacks alone, go on, enter a     *)
(* body taken from a hand or a queue, or leave one.                        *)
LEMMA WorkerStays ==
  ASSUME NEW w \in Workers, NEW v \in Workers,
         \/ LoopTest(w) \/ StealNothing(w) \/ Pop(w) \/ PopClosed(w) \/ CheckStopped(w)
         \/ Steal(w, v)
  PROVE  stack' = stack
BY DEF LoopTest, StealNothing, Pop, PopClosed, CheckStopped, Steal

LEMMA WorkerGoes ==
  ASSUME StateInv, NEW w \in Workers, SetExecuted(w) \/ GetPoll(w) \/ HelpNothing(w)
  PROVE  /\ Active(w)
         /\ \E f \in FrameType : /\ TopIs(w, f) /\ f.body = Top(w).body /\ f.ip = Top(w).ip
                                 /\ f.at = "executed" <=> SetExecuted(w)
                                 /\ Top(w).at \in {"call", "getting", "try_run_one"}
                                 /\ f.at \in {"executed", "getting", "try_run_one"}
<1> USE DEF StateInv, Threads
<1>1. CASE SetExecuted(w)
  <2>1. Active(w) /\ Top(w).at = "call" /\ GoTo(w, "executed")
    BY <1>1 DEF SetExecuted, At
  <2>2. PICK f \in FrameType : /\ TopIs(w, f) /\ f.at = "executed"
                               /\ f.body = Top(w).body /\ f.ip = Top(w).ip
    BY <2>1, GoToFacts DEF Labels
  <2> QED  BY <1>1, <2>1, <2>2
<1>2. CASE GetPoll(w)
  <2>1. Active(w) /\ Top(w).at = "getting" /\ GoTo(w, "try_run_one") /\ ~SetExecuted(w)
    BY <1>2 DEF GetPoll, At, SetExecuted
  <2> QED  BY <2>1, GoToFacts DEF Labels
<1>3. CASE HelpNothing(w)
  <2>1. Active(w) /\ Top(w).at = "try_run_one" /\ GoTo(w, "getting") /\ ~SetExecuted(w)
    BY <1>3 DEF HelpNothing, At, SetExecuted
  <2> QED  BY <2>1, GoToFacts DEF Labels
<1> QED  BY <1>1, <1>2, <1>3

(* A task taken from a queue.                                              *)
LEMMA TakenFacts ==
  ASSUME StateInv, NEW w \in Workers, NEW v \in Workers, TakenFrom(w, v)
  PROVE  /\ Head(q[v]) \in Tasks /\ q[v] # <<>> /\ q[v] \in Seq(Tasks)
         /\ q' = [q EXCEPT ![v] = Tail(q[v])] /\ q' \in [Workers -> Seq(Tasks)]
         /\ busy' \in [Workers -> BOOLEAN] /\ ~done[v]
BY DEF StateInv, TakenFrom, Popped, Raised

LEMMA WorkerEnters ==
  ASSUME StateInv, NEW w \in Workers, NEW v \in Workers
  PROVE  /\ Run(w) => hand[w] \in Tasks /\ Above(w, hand[w])
         /\ Help(w, v) \/ WaitHelp(w, v) => Head(q[v]) \in Tasks /\ Above(w, Head(q[v])) /\ Active(w)
<1> USE DEF StateInv, Threads
<1>1. ASSUME Run(w) PROVE hand[w] \in Tasks /\ Above(w, hand[w])
  <2>1. hand[w] \in Tasks /\ Enter(w, hand[w])
    BY <1>1 DEF Run
  <2> QED  BY <2>1, EnterFacts
<1>2. ASSUME Help(w, v) PROVE Head(q[v]) \in Tasks /\ Above(w, Head(q[v])) /\ Active(w)
  <2>1. Head(q[v]) \in Tasks /\ At(w, "try_run_one")
    BY <1>2, TakenFacts DEF Help
  <2> QED  BY <1>2, <2>1, HelpFacts DEF Help, At
<1>3. ASSUME WaitHelp(w, v) PROVE Head(q[v]) \in Tasks /\ Above(w, Head(q[v])) /\ Active(w)
  <2>1. Head(q[v]) \in Tasks /\ Enter(w, Head(q[v])) /\ Active(w)
    BY <1>3, TakenFacts DEF WaitHelp, At
  <2> QED  BY <2>1, EnterFacts
<1> QED  BY <1>1, <1>2, <1>3

-----------------------------------------------------------------------------
(* The values of the state, action by action.                              *)

LEMMA CallState ==
  ASSUME StateInv, CallInv, NEW x \in Threads, CallStep(x)
  PROVE  StateInv'
<1> USE DEF StateInv
<1>1. program' = program /\ stack' \in Stacks /\ Active(x)
  BY CallGoes DEF CallStep, Goes, TopIs
<1>2. CASE \/ PushBlocked(x) \/ PushAdmitted(x) \/ PushLock(x) \/ PushUnlock(x)
           \/ GetReturn(x) \/ GetWait(x) \/ StopFlag(x) \/ StopReturn(x) \/ JoinThreads(x)
           \/ WaitOther(x) \/ WaitOtherLock(x) \/ WaitOtherReturn(x)
           \/ WaitEmpty(x) \/ WaitIdle(x) \/ WaitReturn(x)
  BY <1>1, <1>2 DEF PushBlocked, PushAdmitted, PushLock, PushUnlock, GetReturn, GetWait, StopFlag,
     FlagRaised, StopReturn, JoinThreads, WaitOther, WaitOtherLock, WaitOtherReturn, WaitEmpty,
     WaitIdle, WaitReturn, BackToRunning
<1>3. ASSUME Calling(x, "push") \/ At(x, "enqueue") PROVE Call(x).task \in Tasks
  <2>1. /\ Top(x).body \in Bodies /\ Top(x).ip \in PushesOf(program, Top(x).body)
    <3>1. Top(x) \in FrameType /\ Top(x) = stack[x][1] /\ 1 \in Depth(x)
      BY <1>1, TopFacts
    <3>2. CASE At(x, "enqueue")
      BY <3>1, <3>2 DEF At, CallInv, WellFormed, FrameType
    <3>3. CASE Calling(x, "push")
      <4>1. Top(x).ip \in 1..Len(program[Top(x).body])
        <5>1. program \in [Bodies -> Seq(Calls)]
          BY ExecutorAssumption DEF Bodies
        <5>2. Top(x).body \in Bodies /\ Top(x).ip \in Nat \ {0}
          BY <3>1 DEF FrameType
        <5> QED  BY <3>3, <5>1, <5>2 DEF Calling, Over
      <4> QED  BY <3>1, <3>3, <4>1 DEF Calling, Call, PushesOf, FrameType
    <3> QED  BY <1>3, <3>2, <3>3
  <2> QED  BY <2>1, ProgramFacts DEF PushesOf, Call
<1>4. CASE PushRefused(x)
  BY <1>1, <1>3, <1>4 DEF PushRefused
<1>5. CASE \E v \in Workers : Enqueue(x, v)
  <2>1. PICK v \in Workers, t \in Tasks : Enqueue(x, v) /\ t = Call(x).task
    BY <1>3, <1>5 DEF Enqueue
  <2>2. q' = [q EXCEPT ![v] = Append(q[v], t)]
    BY <2>1 DEF Enqueue
  <2> QED  BY <1>1, <2>1, <2>2 DEF Enqueue
<1>6. CASE \E v \in Workers : EnqueueClosed(x, v)
  BY <1>1, <1>3, <1>6 DEF EnqueueClosed
<1>7. CASE StopQueue(x)
  BY <1>1, <1>7 DEF StopQueue
<1>8. CASE WaitLock(x)
  <2>1. Call(x).policy \in Policies
    <3>1. Top(x) \in FrameType
      BY <1>1, TopFacts
    <3>2. Top(x).ip \in 1..Len(program[Top(x).body])
      <4>1. program \in [Bodies -> Seq(Calls)]
        BY ExecutorAssumption DEF Bodies
      <4>2. Top(x).body \in Bodies /\ Top(x).ip \in Nat \ {0}
        BY <3>1 DEF FrameType
      <4> QED  BY <1>8, <4>1, <4>2 DEF WaitLock, Calling, Over
    <3> QED  BY <1>8, <3>1, <3>2, ProgramFacts DEF WaitLock, Calling, Call, FrameType
  <2> QED  BY <1>1, <1>8, <2>1 DEF WaitLock, LockOwner
<1>9. CASE WaitFree(x)
  <2>1. [w \in Workers |-> busy[w] /\ w # x] \in [Workers -> BOOLEAN]
    OBVIOUS
  <2> QED  BY <1>1, <1>9, <2>1 DEF WaitFree
<1> QED  BY <1>2, <1>4, <1>5, <1>6, <1>7, <1>8, <1>9 DEF CallStep

LEMMA WorkerState ==
  ASSUME StateInv, CallInv, NEW w \in Workers, WorkerStep(w)
  PROVE  StateInv'
<1> USE DEF StateInv
<1>0. program' = program /\ w \in Threads
  BY DEF WorkerStep, Threads
<1>1. CASE LoopTest(w) \/ StealNothing(w) \/ PopClosed(w)
  BY <1>0, <1>1 DEF LoopTest, StealNothing, PopClosed
<1>2. CASE CheckStopped(w)
  BY <1>0, <1>2 DEF CheckStopped
<1>3. ASSUME NEW v \in Workers, Steal(w, v) PROVE StateInv'
  BY <1>0, <1>3, TakenFacts DEF Steal
<1>4. CASE Pop(w)
  BY <1>0, <1>4, TakenFacts DEF Pop
<1>5. CASE Run(w)
  <2>1. stack' \in Stacks
    BY <1>5, WorkerEnters DEF Above
  <2> QED  BY <1>0, <1>5, <2>1 DEF Run
<1>6. CASE GetPoll(w) \/ HelpNothing(w)
  <2>1. stack' \in Stacks
    BY <1>6, WorkerGoes DEF TopIs
  <2> QED  BY <1>0, <1>6, <2>1 DEF GetPoll, HelpNothing
<1>7. ASSUME NEW v \in Workers, Help(w, v) \/ WaitHelp(w, v) PROVE StateInv'
  <2>1. stack' \in Stacks /\ TakenFrom(w, v)
    BY <1>7, WorkerEnters DEF Above, Help, WaitHelp
  <2> QED  BY <1>0, <1>7, <2>1, TakenFacts DEF Help, WaitHelp
<1>8. CASE EndTask(w)
  <2>1. stack' \in Stacks
    BY <1>0, <1>8, LeaveFacts DEF EndTask, At
  <2> QED  BY <1>0, <1>8, <2>1 DEF EndTask
<1>9. CASE SetExecuted(w)
  <2>1. stack' \in Stacks /\ Active(w)
    BY <1>9, WorkerGoes DEF TopIs
  <2>2. Top(w).body \in Tasks
    BY <1>0, <2>1, TopFacts DEF CallInv, WellFormed
  <2> QED  BY <1>0, <1>9, <2>1, <2>2 DEF SetExecuted, Executed
<1> QED  BY <1>1, <1>2, <1>3, <1>4, <1>5, <1>6, <1>7, <1>8, <1>9 DEF WorkerStep

-----------------------------------------------------------------------------
(* The bodies stay well formed.                                            *)

LEMMA CallCalls ==
  ASSUME StateInv, CallInv, NEW x \in Threads, CallStep(x)
  PROVE  CallInv'
<1>1. program' = program /\ Active(x)
  BY CallGoes DEF CallStep
<1>2. PICK f \in FrameType : Goes(x, f)
  BY CallGoes
<1>3. Top(x) = stack[x][1] /\ Top(x) \in FrameType /\ 1 \in Depth(x) /\ WellFormed(x, Top(x))
  BY <1>1, TopFacts DEF CallInv, StateInv
<1>4. WellFormed(x, f)
  <2>1. Calling(x, "push") => Top(x).ip \in PushesOf(program, Top(x).body)
    <3>1. program \in [Bodies -> Seq(Calls)]
      BY ExecutorAssumption DEF StateInv, Bodies
    <3>2. Top(x).body \in Bodies /\ Top(x).ip \in Nat \ {0}
      BY <1>3 DEF FrameType
    <3> QED  BY <3>1, <3>2 DEF Calling, Over, Call, PushesOf
  <2> QED  BY <1>2, <1>3, <2>1 DEF WellFormed, Goes, PushLabels
<1>5. ASSUME NEW y \in Threads, NEW i \in Depth(y), y # x \/ i # 1
      PROVE  WellFormed(y, stack[y][i])
  BY DEF CallInv
<1>6. \A y \in Threads, g \in FrameType : WellFormed(y, g) => WellFormed(y, g)'
  BY <1>1 DEF WellFormed
<1>7. \A y \in Threads : Depth(y)' = Depth(y)
  BY <1>2 DEF Goes, TopIs, Depth
<1>8. ASSUME NEW y \in Threads, NEW i \in Depth(y) PROVE WellFormed(y, stack[y][i])'
  <2>1. PICK g \in FrameType : g = stack'[y][i] /\ WellFormed(y, g)
    <3>1. CASE y = x /\ i = 1
      BY <1>2, <1>4, <3>1 DEF Goes, TopIs
    <3>2. CASE y # x \/ i # 1
      <4>1. stack'[y][i] = stack[y][i]
        BY <1>2, <3>2 DEF Goes, TopIs
      <4>2. stack[y][i] \in FrameType
        BY FrameFacts DEF StateInv
      <4> QED  BY <1>5, <3>2, <4>1, <4>2
    <3> QED  BY <3>1, <3>2
  <2> QED  BY <1>6, <2>1 DEF WellFormed
<1> QED  BY <1>7, <1>8 DEF CallInv

(* What a worker does besides its calls: each body it leaves alone is where *)
(* it was or one place higher or lower, at the same label.                  *)
OwnLabels == {"call", "executed", "getting", "try_run_one"}
Same(f, g) == f.body = g.body /\ f.ip = g.ip

LEMMA WorkerKeeps ==
  ASSUME StateInv, NEW w \in Workers, WorkerStep(w), NEW y \in Threads
  PROVE  \E d \in {-1, 0, 1} : \A i \in 1..Len(stack'[y]) :
           \/ i = 1 /\ d = -1 /\ \E b \in Tasks : stack'[y][i] = Frame(b)
           \/ /\ i + d \in Depth(y) /\ Same(stack'[y][i], stack[y][i + d])
              /\ \/ stack'[y][i].at = stack[y][i + d].at
                 \/ stack'[y][i].at \in OwnLabels /\ stack[y][i + d].at \in OwnLabels
<1> USE DEF Depth, Same, OwnLabels
<1>0. stack \in Stacks /\ w \in Threads /\ \A z \in Threads : Len(stack[z]) \in Nat
  BY DEF StateInv, Threads, Stacks
<1>1. CASE stack'[y] = stack[y]
  BY <1>0, <1>1
<1>2. CASE \/ LoopTest(w) \/ StealNothing(w) \/ Pop(w) \/ PopClosed(w) \/ CheckStopped(w)
           \/ \E v \in Workers : Steal(w, v)
  <2>1. stack' = stack
    BY <1>2, WorkerStays
  <2> QED  BY <1>1, <2>1
<1>3. CASE SetExecuted(w) \/ GetPoll(w) \/ HelpNothing(w)
  <2>1. PICK f \in FrameType : /\ TopIs(w, f) /\ f.body = Top(w).body /\ f.ip = Top(w).ip
                               /\ Top(w).at \in OwnLabels /\ f.at \in OwnLabels /\ Active(w)
    BY <1>3, WorkerGoes
  <2>2. Top(w) = stack[w][1]
    BY <1>0, <2>1, TopFacts
  <2>3. Len(stack'[y]) = Len(stack[y])
    BY <2>1 DEF TopIs
  <2>4. ASSUME NEW i \in 1..Len(stack'[y])
        PROVE  /\ Same(stack'[y][i], stack[y][i])
               /\ \/ stack'[y][i].at = stack[y][i].at
                  \/ stack'[y][i].at \in OwnLabels /\ stack[y][i].at \in OwnLabels
    <3>1. CASE y = w /\ i = 1
      <4>1. stack'[y][i] = f
        BY <2>1, <3>1 DEF TopIs
      <4> QED  BY <2>1, <2>2, <3>1, <4>1
    <3>2. CASE y # w \/ i # 1
      <4>1. stack'[y][i] = stack[y][i]
        BY <2>1, <2>3, <3>2 DEF TopIs
      <4> QED  BY <4>1
    <3> QED  BY <3>1, <3>2
  <2>5. \A i \in 1..Len(stack'[y]) : i + 0 = i /\ i + 0 \in Depth(y)
    BY <1>0, <2>3
  <2>6. \A i \in 1..Len(stack'[y]) :
           /\ i + 0 \in Depth(y) /\ Same(stack'[y][i], stack[y][i + 0])
           /\ \/ stack'[y][i].at = stack[y][i + 0].at
              \/ stack'[y][i].at \in OwnLabels /\ stack[y][i + 0].at \in OwnLabels
    BY <2>4, <2>5
  <2> QED  BY <2>6
<1>4. ASSUME NEW b \in Tasks, Above(w, b), y = w
      PROVE  \A i \in 1..Len(stack'[y]) :
               \/ i = 1 /\ stack'[y][i] = Frame(b)
               \/ /\ i + (-1) \in Depth(y) /\ Same(stack'[y][i], stack[y][i + (-1)])
                  /\ \/ stack'[y][i].at = stack[y][i + (-1)].at
                     \/ stack'[y][i].at \in OwnLabels /\ stack[y][i + (-1)].at \in OwnLabels
  <2> SUFFICES ASSUME NEW i \in 1..Len(stack'[y]), i # 1
               PROVE  /\ i + (-1) \in Depth(y) /\ Same(stack'[y][i], stack[y][i + (-1)])
                      /\ \/ stack'[y][i].at = stack[y][i + (-1)].at
                         \/ stack'[y][i].at \in OwnLabels /\ stack[y][i + (-1)].at \in OwnLabels
    BY <1>4 DEF Above
  <2>1. PICK j \in Int : j = i + (-1)
    OBVIOUS
  <2>2. j \in Depth(y) /\ i = j + 1
    BY <1>0, <1>4, <2>1 DEF Above
  <2> QED  BY <1>4, <2>1, <2>2 DEF Above
<1>5. CASE Run(w) \/ \E v \in Workers : Help(w, v) \/ WaitHelp(w, v)
  <2>1. PICK b \in Tasks : Above(w, b)
    BY <1>5, WorkerEnters
  <2>2. CASE y = w
    <3> HIDE DEF Depth, Same, OwnLabels
    <3>1. \A i \in 1..Len(stack'[y]) :
            \/ i = 1 /\ stack'[y][i] = Frame(b)
            \/ /\ i + (-1) \in Depth(y) /\ Same(stack'[y][i], stack[y][i + (-1)])
               /\ \/ stack'[y][i].at = stack[y][i + (-1)].at
                  \/ stack'[y][i].at \in OwnLabels /\ stack[y][i + (-1)].at \in OwnLabels
      BY <1>4, <2>1, <2>2
    <3> QED  BY <3>1
  <2>3. CASE y # w
    BY <1>1, <2>1, <2>3 DEF Above
  <2> QED  BY <2>2, <2>3
<1>6. CASE EndTask(w)
  <2>1. Active(w) /\ stack' = [stack EXCEPT ![w] = Tail(@)]
    BY <1>6 DEF EndTask, At
  <2>2. CASE y = w
    <3>1. \A i \in 1..Len(stack'[y]) : i + 1 \in Depth(y) /\ stack'[y][i] = stack[y][i + 1]
      BY <1>0, <2>1, <2>2, LeaveFacts
    <3> HIDE DEF Depth, OwnLabels
    <3> QED  BY <3>1
  <2>3. CASE y # w
    BY <1>0, <1>1, <2>1, <2>3, LeaveFacts
  <2> QED  BY <2>2, <2>3
<1> QED  BY <1>2, <1>3, <1>5, <1>6 DEF WorkerStep

LEMMA WorkerCalls ==
  ASSUME StateInv, CallInv, NEW w \in Workers, WorkerStep(w)
  PROVE  CallInv'
<1>1. program' = program
  BY DEF WorkerStep
<1>2. ASSUME NEW y \in Threads, NEW i \in 1..Len(stack'[y])
      PROVE  WellFormed(y, stack[y][i])'
  <2>1. PICK g : g = stack'[y][i]
    OBVIOUS
  <2>2. WellFormed(y, g)
    <3>1. CASE \E b \in Tasks : g = Frame(b)
      BY <3>1 DEF WellFormed, Frame
    <3>2. CASE \E j \in Depth(y) : /\ Same(g, stack[y][j])
                                   /\ g.at = stack[y][j].at \/ g.at \in OwnLabels
      <4>1. PICK j \in Depth(y) : Same(g, stack[y][j]) /\ (g.at = stack[y][j].at \/ g.at \in OwnLabels)
        BY <3>2
      <4> QED  BY <4>1 DEF CallInv, WellFormed, Same, OwnLabels
    <3> QED  BY <2>1, <3>1, <3>2, WorkerKeeps
  <2> QED  BY <1>1, <2>1, <2>2 DEF WellFormed
<1> QED  BY <1>2 DEF CallInv, Depth

LEMMA InitInv ==
  ASSUME Init
  PROVE  StateInv /\ CallInv
<1>1. \A c \in Clients : Frame(c) \in FrameType
  BY PoolSize DEF Frame, FrameType, Bodies, Labels
<1>0. \A x \in Threads : stack[x] = IF x \in Clients THEN <<Frame(x)>> ELSE <<>>
  BY DEF Init
<1>2. stack \in Stacks
  <2>1. \A x \in Threads : (IF x \in Clients THEN <<Frame(x)>> ELSE <<>>) \in Seq(FrameType)
    BY <1>1
  <2> QED  BY <2>1 DEF Init, Stacks
<1>3. StateInv
  <2>1. q \in [Workers -> Seq(Tasks)]
    <3>1. q = [w \in Workers |-> <<>>] /\ <<>> \in Seq(Tasks)
      BY DEF Init
    <3> QED  BY <3>1
  <2>2. /\ done \in [Workers -> BOOLEAN] /\ busy \in [Workers -> BOOLEAN]
        /\ loop \in [Workers -> {"test", "steal", "pop", "check", "left"}]
        /\ hand \in [Workers -> Tasks \union {NoTask}]
    BY DEF Init
  <2>3. /\ program \in Programs /\ stopped \in BOOLEAN /\ mwait \in Threads \union {NoThread}
        /\ waiting \in Policies \union {"Running"}
        /\ set \subseteq Tasks /\ lost \subseteq Tasks /\ refused \subseteq Tasks
    BY DEF Init
  <2> QED  BY <1>2, <2>1, <2>2, <2>3 DEF StateInv
<1>4. ASSUME NEW x \in Threads, NEW i \in Depth(x)
      PROVE  x \in Clients /\ x \notin Workers /\ i = 1 /\ stack[x][i] = Frame(x)
  <2>1. PICK f : f = Frame(x)
    OBVIOUS
  <2>2. CASE x \in Clients
    <3>1. stack[x] = <<f>> /\ Depth(x) = 1..1
      BY <1>0, <2>1, <2>2 DEF Depth
    <3> QED  BY <2>1, <2>2, <3>1, PoolSize
  <2>3. CASE x \notin Clients
    <3>1. stack[x] = <<>> /\ Depth(x) = 1..0
      BY <1>0, <2>3 DEF Depth
    <3> QED  BY <3>1
  <2> QED  BY <2>2, <2>3
<1>5. \A x \in Threads : \A i \in Depth(x) : WellFormed(x, stack[x][i])
  <2> TAKE x \in Threads
  <2> TAKE i \in Depth(x)
  <2>1. PICK f : f = stack[x][i]
    OBVIOUS
  <2>2. f.body = x /\ f.at = "call" /\ x \in Clients /\ x \notin Workers
    <3>1. f = [body |-> x, ip |-> 1, at |-> "call", k |-> 1]
      BY <1>4, <2>1 DEF Frame
    <3> QED  BY <1>4, <3>1
  <2>3. WellFormed(x, f)
    BY <2>2 DEF WellFormed
  <2> QED  BY <2>1, <2>3
<1>6. CallInv
  BY <1>5 DEF CallInv
<1> QED  BY <1>3, <1>6

-----------------------------------------------------------------------------
(* m_wait: who is at one of these labels holds it, and no thread is there   *)
(* twice.  waiting_ is other than Running only while a wait holds it.       *)
Hold == {"push_test", "wait_unlock", "wait_empty", "wait_busy"}
Quiet == {"push_test", "wait_unlock"}

LockInv ==
  /\ \A x \in Threads : \A i \in Depth(x) : stack[x][i].at \in Hold => mwait = x
  /\ \A x \in Threads : \A i, j \in Depth(x) :
       stack[x][i].at \in Hold /\ stack[x][j].at \in Hold => i = j
  /\ \A x \in Threads : \A i \in Depth(x) : stack[x][i].at \in Quiet => waiting = "Running"
  /\ mwait = NoThread => waiting = "Running"

(* stop() raises the flag before it closes a queue; only a worker that got  *)
(* nothing from its closed queue, or is leaving, has no task to run.        *)
StopInv ==
  /\ \A v \in Workers : done[v] => stopped
  /\ \A x \in Threads : \A i \in Depth(x) : stack[x][i].at = "stopping" => stopped
  /\ \A w \in Workers : loop[w] = "check" /\ hand[w] = NoTask => stopped
  /\ \A w \in Workers : hand[w] # NoTask => loop[w] = "check"

(* What a call does with m_wait, waiting_ and the label of the body on top. *)
Acquires(x, f) ==
  /\ mwait = NoThread /\ mwait' = x /\ Top(x).at \notin Hold
  /\ f.at \in Quiet => waiting' = waiting
Releases(x, f) ==
  /\ Top(x).at \in Hold /\ f.at \notin Hold /\ mwait' = NoThread
  /\ waiting' = "Running" \/ (waiting' = waiting /\ Top(x).at \in Quiet)
KeepsLock(x, f) ==
  /\ mwait' = mwait /\ waiting' = waiting /\ f.at \notin Quiet
  /\ f.at \in Hold => Top(x).at \in Hold

LEMMA CallLock ==
  ASSUME StateInv, NEW x \in Threads, CallStep(x), NEW f \in FrameType, Goes(x, f)
  PROVE  Acquires(x, f) \/ Releases(x, f) \/ KeepsLock(x, f)
<1> USE DEF Hold, Quiet
<1>0. Active(x) /\ stack \in Stacks /\ stack'[x][1] = f
  BY CallGoes DEF Goes, TopIs, StateInv
<1>1. ASSUME NEW l \in Labels, GoTo(x, l) PROVE f.at = l
  <2>1. PICK g \in FrameType : TopIs(x, g) /\ g.at = l
    BY <1>0, <1>1, GoToFacts
  <2> QED  BY <1>0, <2>1 DEF TopIs
<1>2. ASSUME Return(x) PROVE f.at = "call"
  <2>1. PICK g \in FrameType : TopIs(x, g) /\ g.at = "call"
    BY <1>0, <1>2, ReturnFacts
  <2> QED  BY <1>0, <2>1 DEF TopIs
<1>3. ASSUME Top(x).k <= N, NextQueue(x) PROVE f.at = Top(x).at
  <2>1. PICK g \in FrameType : TopIs(x, g) /\ g.at = Top(x).at
    BY <1>0, <1>3, NextQueueFacts
  <2> QED  BY <1>0, <2>1 DEF TopIs
<1>4. CASE PushLock(x) \/ WaitLock(x) \/ WaitOtherLock(x)
  BY <1>1, <1>4 DEF PushLock, WaitLock, WaitOtherLock, LockOwner, Acquires, At, Calling, Labels
<1>5. CASE PushUnlock(x)
  BY <1>1, <1>5 DEF PushUnlock, Releases, At, Labels
<1>6. CASE WaitOtherReturn(x) \/ WaitReturn(x)
  BY <1>2, <1>6 DEF WaitOtherReturn, WaitReturn, BackToRunning, Releases, At
<1>7. CASE PushBlocked(x) \/ PushAdmitted(x) \/ GetWait(x) \/ StopFlag(x) \/ WaitOther(x)
  BY <1>1, <1>7 DEF PushBlocked, PushAdmitted, GetWait, StopFlag, WaitOther, KeepsLock, Labels
<1>8. CASE \/ GetReturn(x) \/ StopReturn(x) \/ JoinThreads(x)
           \/ \E v \in Workers : Enqueue(x, v) \/ EnqueueClosed(x, v)
  BY <1>2, <1>8 DEF Enqueue, EnqueueClosed, GetReturn, StopReturn, JoinThreads, KeepsLock
<1>9. CASE StopQueue(x) \/ WaitEmpty(x) \/ WaitIdle(x)
  BY <1>3, <1>9 DEF StopQueue, LastQueue, WaitEmpty, WaitIdle, KeepsLock, At
<1>10. CASE PushRefused(x)
  <2>1. PICK g \in FrameType : TopIs(x, g) /\ g.at = "call"
    BY <1>10, ThrowFacts DEF PushRefused
  <2> QED  BY <1>0, <1>10, <2>1 DEF TopIs, PushRefused, KeepsLock
<1>11. CASE WaitFree(x)
  <2>1. PICK g \in FrameType : TopIs(x, g) /\ g.at = "wait_busy"
    BY <1>0, <1>11, FreeFacts DEF WaitFree
  <2> QED  BY <1>0, <1>11, <2>1 DEF TopIs, WaitFree, KeepsLock, At
<1> QED  BY <1>4, <1>5, <1>6, <1>7, <1>8, <1>9, <1>10, <1>11 DEF CallStep

LEMMA CallKeepsLock ==
  ASSUME StateInv, LockInv, NEW x \in Threads, CallStep(x)
  PROVE  LockInv'
<1>1. PICK f \in FrameType : Goes(x, f)
  BY CallGoes
<1>2. Top(x) = stack[x][1] /\ 1 \in Depth(x)
  BY CallGoes, TopFacts DEF StateInv
<1>3. /\ stack'[x][1] = f
      /\ \A y \in Threads : Depth(y)' = Depth(y)
      /\ \A y \in Threads : \A i \in Depth(y) : y # x \/ i # 1 => stack'[y][i] = stack[y][i]
  BY <1>1 DEF Goes, TopIs, Depth
<1>4. \A y \in Threads : y # NoThread
  BY ExecutorAssumption
<1>5. CASE Acquires(x, f)
  <2>1. \A y \in Threads : \A i \in Depth(y) : stack[y][i].at \notin Hold
    BY <1>4, <1>5 DEF Acquires, LockInv
  <2>2. \A y \in Threads : \A i \in Depth(y) : stack'[y][i].at \in Hold => y = x /\ i = 1
    BY <1>3, <2>1
  <2>3. Quiet \subseteq Hold
    BY DEF Quiet, Hold
  <2> QED  BY <1>3, <1>4, <1>5, <2>2, <2>3 DEF Acquires, LockInv
<1>6. CASE Releases(x, f)
  <2>1. waiting' = "Running" /\ mwait = x /\ mwait' = NoThread /\ f.at \notin Hold
    BY <1>2, <1>6 DEF Releases, LockInv
  <2>2. \A y \in Threads : \A i \in Depth(y) : stack[y][i].at \in Hold => y = x /\ i = 1
    BY <1>2, <1>6, <2>1 DEF Releases, LockInv
  <2>3. \A y \in Threads : \A i \in Depth(y) : stack'[y][i].at \notin Hold
    BY <1>3, <2>1, <2>2
  <2> QED  BY <1>3, <2>1, <2>3 DEF LockInv
<1>7. CASE KeepsLock(x, f)
  <2>1. \A y \in Threads : \A i \in Depth(y) :
          stack'[y][i].at \in Hold => stack[y][i].at \in Hold
    BY <1>2, <1>3, <1>7 DEF KeepsLock
  <2>2. \A y \in Threads : \A i \in Depth(y) :
          stack'[y][i].at \in Quiet => stack[y][i].at \in Quiet
    BY <1>2, <1>3, <1>7 DEF KeepsLock
  <2>3. mwait' = mwait /\ waiting' = waiting
    BY <1>7 DEF KeepsLock
  <2> QED  BY <1>3, <2>1, <2>2, <2>3 DEF LockInv
<1> QED  BY <1>1, <1>5, <1>6, <1>7, CallLock

LEMMA WorkerKeepsLock ==
  ASSUME StateInv, LockInv, NEW w \in Workers, WorkerStep(w)
  PROVE  LockInv'
<1>1. mwait' = mwait /\ waiting' = waiting
  BY DEF WorkerStep, LoopTest, StealNothing, Pop, PopClosed, CheckStopped, Run, SetExecuted,
         EndTask, GetPoll, HelpNothing, Steal, Help, WaitHelp
<1>2. Hold \intersect OwnLabels = {} /\ Quiet \subseteq Hold /\ \A b \in Tasks : Frame(b).at \notin Hold
  BY DEF Hold, OwnLabels, Quiet, Frame
<1>3. ASSUME NEW y \in Threads
      PROVE  \E d \in {-1, 0, 1} : \A i \in Depth(y)' :
               stack'[y][i].at \in Hold => /\ i + d \in Depth(y)
                                           /\ stack'[y][i].at = stack[y][i + d].at
  <2>1. PICK d \in {-1, 0, 1} : \A i \in 1..Len(stack'[y]) :
           \/ i = 1 /\ d = -1 /\ \E b \in Tasks : stack'[y][i] = Frame(b)
           \/ /\ i + d \in Depth(y) /\ Same(stack'[y][i], stack[y][i + d])
              /\ \/ stack'[y][i].at = stack[y][i + d].at
                 \/ stack'[y][i].at \in OwnLabels /\ stack[y][i + d].at \in OwnLabels
    BY WorkerKeeps
  <2>2. \A i \in 1..Len(stack'[y]) :
               stack'[y][i].at \in Hold => /\ i + d \in Depth(y)
                                           /\ stack'[y][i].at = stack[y][i + d].at
    BY <1>2, <2>1
  <2> QED  BY <2>2 DEF Depth
<1>4. ASSUME NEW y \in Threads
      PROVE  /\ \A i \in Depth(y)' : stack'[y][i].at \in Hold => mwait = y
             /\ \A i, j \in Depth(y)' :
                  stack'[y][i].at \in Hold /\ stack'[y][j].at \in Hold => i = j
             /\ \A i \in Depth(y)' : stack'[y][i].at \in Quiet => waiting = "Running"
  <2>1. PICK d \in {-1, 0, 1} : \A i \in Depth(y)' :
               stack'[y][i].at \in Hold => /\ i + d \in Depth(y)
                                           /\ stack'[y][i].at = stack[y][i + d].at
    BY <1>3
  <2>2. \A i, j \in Depth(y)' : i + d = j + d => i = j
    BY DEF Depth
  <2>3. \A i, j \in Depth(y)' : stack'[y][i].at \in Hold /\ stack'[y][j].at \in Hold => i + d = j + d
    BY <2>1 DEF LockInv
  <2> QED  BY <1>2, <2>1, <2>2, <2>3 DEF LockInv
<1>5. mwait' = NoThread => waiting' = "Running"
  BY <1>1 DEF LockInv
<1> QED  BY <1>1, <1>4, <1>5 DEF LockInv

-----------------------------------------------------------------------------
(* The flag and the queues.                                                *)
LEMMA CallKeepsStop ==
  ASSUME StateInv, StopInv, NEW x \in Threads, CallStep(x)
  PROVE  StopInv'
<1>1. PICK f \in FrameType : Goes(x, f)
  BY CallGoes
<1>2. Active(x) /\ stack \in Stacks /\ Top(x) = stack[x][1] /\ 1 \in Depth(x)
  BY CallGoes, TopFacts DEF StateInv
<1>3. /\ stack'[x][1] = f
      /\ \A y \in Threads : Depth(y)' = Depth(y)
      /\ \A y \in Threads : \A i \in Depth(y) : y # x \/ i # 1 => stack'[y][i] = stack[y][i]
  BY <1>1 DEF Goes, TopIs, Depth
<1>4. ASSUME NEW l \in Labels, GoTo(x, l) PROVE f.at = l
  <2>1. PICK g \in FrameType : TopIs(x, g) /\ g.at = l
    BY <1>2, <1>4, GoToFacts
  <2> QED  BY <1>3, <2>1 DEF TopIs
<1>5. ASSUME Return(x) PROVE f.at = "call"
  <2>1. PICK g \in FrameType : TopIs(x, g) /\ g.at = "call"
    BY <1>2, <1>5, ReturnFacts
  <2> QED  BY <1>3, <2>1 DEF TopIs
<1>6. ASSUME Top(x).k <= N, NextQueue(x) PROVE f.at = Top(x).at
  <2>1. PICK g \in FrameType : TopIs(x, g) /\ g.at = Top(x).at
    BY <1>2, <1>6, NextQueueFacts
  <2> QED  BY <1>3, <2>1 DEF TopIs
<1>7. loop' = loop /\ hand' = hand /\ (stopped => stopped')
  BY DEF CallStep, PushRefused, PushBlocked, PushAdmitted, PushLock, PushUnlock, Enqueue,
     EnqueueClosed, GetReturn, GetWait, StopFlag, FlagRaised, StopQueue, StopReturn, JoinThreads,
     WaitLock, WaitOther, WaitOtherLock, WaitOtherReturn, WaitEmpty, WaitFree, WaitIdle, WaitReturn
<1>8. f.at = "stopping" => stopped'
  <2>1. CASE StopFlag(x)
    BY <2>1 DEF StopFlag, FlagRaised
  <2>2. CASE StopQueue(x)
    BY <1>2, <1>7, <2>2 DEF StopQueue, At, StopInv
  <2>3. CASE \/ PushBlocked(x) \/ PushAdmitted(x) \/ GetWait(x) \/ WaitOther(x) \/ PushLock(x)
             \/ WaitLock(x) \/ WaitOtherLock(x) \/ PushUnlock(x)
    BY <1>4, <2>3 DEF PushBlocked, PushAdmitted, GetWait, WaitOther, PushLock, WaitLock,
       WaitOtherLock, PushUnlock, Labels
  <2>4. CASE \/ GetReturn(x) \/ StopReturn(x) \/ JoinThreads(x) \/ WaitOtherReturn(x) \/ WaitReturn(x)
             \/ \E v \in Workers : Enqueue(x, v) \/ EnqueueClosed(x, v)
    BY <1>5, <2>4 DEF Enqueue, EnqueueClosed, GetReturn, StopReturn, JoinThreads,
       WaitOtherReturn, WaitReturn
  <2>5. CASE WaitEmpty(x) \/ WaitIdle(x)
    BY <1>6, <2>5 DEF WaitEmpty, WaitIdle, At
  <2>6. CASE PushRefused(x)
    <3>1. PICK g \in FrameType : TopIs(x, g) /\ g.at = "call"
      BY <2>6, ThrowFacts DEF PushRefused
    <3> QED  BY <1>3, <3>1 DEF TopIs
  <2>7. CASE WaitFree(x)
    <3>1. PICK g \in FrameType : TopIs(x, g) /\ g.at = "wait_busy"
      BY <1>2, <2>7, FreeFacts DEF WaitFree
    <3> QED  BY <1>3, <3>1 DEF TopIs
  <2> QED  BY <2>1, <2>2, <2>3, <2>4, <2>5, <2>6, <2>7 DEF CallStep
<1>9. \A v \in Workers : done'[v] => stopped'
  <2>1. CASE StopQueue(x)
    BY <1>2, <1>7, <2>1 DEF StopQueue, At, StopInv
  <2>2. CASE ~StopQueue(x)
    <3>1. done' = done
      BY <2>2 DEF CallStep, PushRefused, PushBlocked, PushAdmitted, PushLock, PushUnlock, Enqueue,
         EnqueueClosed, GetReturn, GetWait, StopFlag, StopReturn, JoinThreads,
         WaitLock, WaitOther, WaitOtherLock, WaitOtherReturn, WaitEmpty, WaitFree, WaitIdle, WaitReturn
    <3> QED  BY <1>7, <3>1 DEF StopInv
  <2> QED  BY <2>1, <2>2
<1>10. \A y \in Threads : \A i \in Depth(y) : stack'[y][i].at = "stopping" => stopped'
  BY <1>3, <1>7, <1>8 DEF StopInv
<1> QED  BY <1>3, <1>7, <1>9, <1>10 DEF StopInv

LEMMA WorkerKeepsStop ==
  ASSUME StateInv, StopInv, NEW w \in Workers, WorkerStep(w)
  PROVE  StopInv'
<1>1. stopped' = stopped /\ done' = done
  BY DEF WorkerStep, LoopTest, StealNothing, Pop, PopClosed, CheckStopped, Run, SetExecuted,
         EndTask, GetPoll, HelpNothing, Steal, Help, WaitHelp
<1>2. ASSUME NEW y \in Threads, NEW i \in 1..Len(stack'[y]), stack'[y][i].at = "stopping"
      PROVE  stopped
  <2>1. "stopping" \notin OwnLabels /\ \A b \in Tasks : Frame(b).at # "stopping"
    BY DEF OwnLabels, Frame
  <2>2. \E j \in Depth(y) : stack'[y][i].at = stack[y][j].at
    BY <1>2, <2>1, WorkerKeeps
  <2> QED  BY <1>2, <2>2 DEF StopInv
<1>3. \A v \in Workers : /\ loop'[v] = "check" /\ hand'[v] = NoTask => stopped
                         /\ hand'[v] # NoTask => loop'[v] = "check"
  <2>1. CASE LoopTest(w) \/ StealNothing(w) \/ PopClosed(w) \/ CheckStopped(w) \/ Run(w)
    BY <2>1 DEF StopInv, StateInv, LoopTest, StealNothing, PopClosed, CheckStopped, Run
  <2>2. ASSUME NEW v \in Workers, Steal(w, v) \/ (Pop(w) /\ v = w)
        PROVE  hand' = [hand EXCEPT ![w] = Head(q[v])] /\ loop' = [loop EXCEPT ![w] = "check"]
               /\ Head(q[v]) # NoTask
    <3>1. Head(q[v]) \in Tasks
      BY <2>2, TakenFacts DEF Steal, Pop
    <3> QED  BY <2>2, <3>1, ExecutorAssumption DEF Steal, Pop
  <2>3. CASE Pop(w) \/ \E v \in Workers : Steal(w, v)
    <3>1. PICK v \in Workers : /\ hand' = [hand EXCEPT ![w] = Head(q[v])]
                               /\ loop' = [loop EXCEPT ![w] = "check"] /\ Head(q[v]) # NoTask
      BY <2>2, <2>3
    <3> QED  BY <3>1 DEF StopInv, StateInv
  <2>4. CASE \/ SetExecuted(w) \/ EndTask(w) \/ GetPoll(w) \/ HelpNothing(w)
             \/ \E v \in Workers : Help(w, v) \/ WaitHelp(w, v)
    BY <2>4 DEF StopInv, StateInv, SetExecuted, EndTask, GetPoll, HelpNothing, Help, WaitHelp
  <2>5. \/ LoopTest(w) \/ StealNothing(w) \/ PopClosed(w) \/ CheckStopped(w) \/ Run(w)
        \/ Pop(w) \/ \E v \in Workers : Steal(w, v)
        \/ SetExecuted(w) \/ EndTask(w) \/ GetPoll(w) \/ HelpNothing(w)
        \/ \E v \in Workers : Help(w, v) \/ WaitHelp(w, v)
    BY DEF WorkerStep
  <2> QED  BY <2>1, <2>3, <2>4, <2>5
<1>4. \A y \in Threads : \A i \in 1..Len(stack'[y]) : stack'[y][i].at = "stopping" => stopped'
  BY <1>1, <1>2
<1>5. \A v \in Workers : done'[v] => stopped'
  BY <1>1 DEF StopInv
<1>6. \A v \in Workers : loop'[v] = "check" /\ hand'[v] = NoTask => stopped'
  BY <1>1, <1>3
<1>7. \A v \in Workers : hand'[v] # NoTask => loop'[v] = "check"
  BY <1>3
<1> QED  BY <1>4, <1>5, <1>6, <1>7 DEF StopInv, Depth

-----------------------------------------------------------------------------
(* Where each task is: in a queue, in the hand of a worker, on a stack, or  *)
(* at its end -- in one of them, and there once.                           *)
Queued == {t \in Tasks : \E v \in Workers : \E i \in 1..Len(q[v]) : q[v][i] = t}
Handed == {t \in Tasks : \E w \in Workers : hand[w] = t}
Stacked == {b \in Bodies : \E x \in Threads : \E i \in Depth(x) : stack[x][i].body = b}
Known == Queued \union Handed \union Stacked \union set \union lost \union refused

PlaceInv ==
  /\ Queued \intersect Handed = {} /\ Stacked \intersect (Queued \union Handed) = {}
  /\ (set \union lost \union refused) \intersect (Queued \union Handed) = {}
  /\ (lost \union refused) \intersect Stacked = {}
  /\ set \intersect lost = {} /\ set \intersect refused = {} /\ lost \intersect refused = {}

QueueOnce == \A u, v \in Workers : \A i \in 1..Len(q[u]), j \in 1..Len(q[v]) :
  q[u][i] = q[v][j] => u = v /\ i = j
HandOnce == \A u, v \in Workers : hand[u] = hand[v] /\ hand[u] # NoTask => u = v
StackOnce == \A x, y \in Threads : \A i \in Depth(x), j \in Depth(y) :
  stack[x][i].body = stack[y][j].body => x = y /\ i = j

(* A body on a stack is over when its future is set.                       *)
EndInv == \A x \in Threads : \A i \in Depth(x) :
  stack[x][i].at = "executed" <=> stack[x][i].body \in set

(* The one call that pushes a task lies behind whoever makes it.            *)
Passed(b, i) ==
  \/ b \in set
  \/ \E x \in Threads : \E j \in Depth(x) : stack[x][j].body = b /\ stack[x][j].ip > i
PassedInv == \A b \in Bodies : \A i \in PushesOf(program, b) :
  program[b][i].task \in Known => Passed(b, i)

OnceInv == PlaceInv /\ QueueOnce /\ HandOnce /\ StackOnce /\ EndInv /\ PassedInv

(* A queue gets a task at its end, or gives one from its front.            *)
LEMMA QueueGets ==
  ASSUME StateInv, QueueOnce, NEW v \in Workers, NEW t \in Tasks \ Queued,
         q' = [q EXCEPT ![v] = Append(q[v], t)]
  PROVE  Queued' = Queued \union {t} /\ QueueOnce'
<1>1. PICK s \in Seq(Tasks) : s = q[v]
  BY DEF StateInv
<1>2. /\ Len(Append(s, t)) = Len(s) + 1 /\ Append(s, t)[Len(s) + 1] = t /\ Len(s) \in Nat
      /\ \A i \in 1..Len(s) : Append(s, t)[i] = s[i]
      /\ \A i \in 1..Len(s) + 1 : i \in 1..Len(s) \/ i = Len(s) + 1
  OBVIOUS
<1>3. \A u \in Workers : q'[u] = IF u = v THEN Append(s, t) ELSE q[u]
  BY <1>1 DEF StateInv
<1>4. ASSUME NEW u \in Workers, NEW i \in 1..Len(q'[u])
      PROVE  \/ u = v /\ i = Len(s) + 1 /\ q'[u][i] = t
             \/ i \in 1..Len(q[u]) /\ q'[u][i] = q[u][i]
  BY <1>1, <1>2, <1>3
<1>5. \A u \in Workers : \A i \in 1..Len(q[u]) : q[u][i] \in Tasks /\ q[u][i] # t
  BY DEF Queued, StateInv
<1>6. QueueOnce'
  <2>1. \A u, w \in Workers : \A i \in 1..Len(q'[u]), j \in 1..Len(q'[w]) :
          q'[u][i] = q'[w][j] => u = w /\ i = j
    BY <1>4, <1>5 DEF QueueOnce
  <2> QED  BY <2>1 DEF QueueOnce
<1>7. \A u \in Workers : \A i \in 1..Len(q[u]) : i \in 1..Len(q'[u]) /\ q'[u][i] = q[u][i]
  BY <1>1, <1>2, <1>3
<1>8. Len(s) + 1 \in 1..Len(q'[v]) /\ q'[v][Len(s) + 1] = t
  <2>1. q'[v] = Append(s, t)
    BY <1>3
  <2>2. PICK a : a = Append(s, t)
    OBVIOUS
  <2>3. Len(a) = Len(s) + 1 /\ a[Len(s) + 1] = t
    BY <1>2, <2>2
  <2>4. Len(s) + 1 \in 1..Len(a)
    BY <1>2, <2>3
  <2> QED  BY <2>1, <2>2, <2>3, <2>4
<1>9. \A r \in Tasks : (\E u \in Workers : \E i \in 1..Len(q'[u]) : q'[u][i] = r)
                       <=> (r = t \/ \E u \in Workers : \E i \in 1..Len(q[u]) : q[u][i] = r)
  BY <1>4, <1>7, <1>8
<1>10. Queued' = Queued \union {t}
  BY <1>9 DEF Queued
<1> QED  BY <1>6, <1>10

LEMMA QueueGives ==
  ASSUME StateInv, QueueOnce, NEW v \in Workers, q[v] # <<>>,
         q' = [q EXCEPT ![v] = Tail(q[v])]
  PROVE  Queued' = Queued \ {Head(q[v])} /\ QueueOnce' /\ Head(q[v]) \in Queued
<1>1. PICK s \in Seq(Tasks), r \in Seq(Tasks) : s = q[v] /\ s # <<>> /\ r = Tail(s)
  <2>1. PICK s \in Seq(Tasks) : s = q[v] /\ s # <<>>
    BY DEF StateInv
  <2>2. Tail(s) \in Seq(Tasks)
    BY <2>1
  <2> QED  BY <2>1, <2>2
<1>2. /\ Head(s) = s[1] /\ 1 \in 1..Len(s) /\ Head(s) \in Tasks
      /\ \A i \in 1..Len(r) : i + 1 \in 1..Len(s) /\ r[i] = s[i + 1]
      /\ \A i \in 1..Len(s) : i = 1 \/ \E j \in 1..Len(r) : i = j + 1
  <2>1. Len(s) \in Nat \ {0} /\ Len(r) = Len(s) - 1
    BY <1>1
  <2>2. \A i \in 1..Len(s) : i = 1 \/ (i - 1 \in 1..Len(r) /\ i = (i - 1) + 1)
    BY <2>1
  <2> QED  BY <1>1, <2>1, <2>2
<1>3. \A u \in Workers : q'[u] = IF u = v THEN r ELSE q[u]
  BY <1>1 DEF StateInv
<1>4. \A i \in 1..Len(r) : i + 1 # 1
  OBVIOUS
<1>5. \A i, j \in 1..Len(r) : i + 1 = j + 1 => i = j
  OBVIOUS
<1>6. \A u \in Workers : \A i \in 1..Len(q'[u]) :
        \/ u = v /\ i \in 1..Len(r) /\ q'[u][i] = q[u][i + 1] /\ i + 1 \in 1..Len(q[u])
        \/ u # v /\ i \in 1..Len(q[u]) /\ q'[u][i] = q[u][i]
  <2> SUFFICES ASSUME NEW u \in Workers, NEW i \in 1..Len(q'[u])
               PROVE  \/ u = v /\ i \in 1..Len(r) /\ q'[u][i] = q[u][i + 1] /\ i + 1 \in 1..Len(q[u])
                      \/ u # v /\ i \in 1..Len(q[u]) /\ q'[u][i] = q[u][i]
    OBVIOUS
  <2>1. CASE u = v
    <3>1. q'[u] = r /\ q[u] = s
      BY <1>1, <1>3, <2>1
    <3> QED  BY <1>2, <2>1, <3>1
  <2>2. CASE u # v
    BY <1>3, <2>2
  <2> QED  BY <2>1, <2>2
<1>7. QueueOnce'
  <2>1. ASSUME NEW u \in Workers, NEW w \in Workers, NEW i \in 1..Len(q'[u]),
               NEW j \in 1..Len(q'[w]), q'[u][i] = q'[w][j]
        PROVE  u = w /\ i = j
    BY <1>5, <1>6, <2>1 DEF QueueOnce
  <2> QED  BY <2>1 DEF QueueOnce
<1>8. 1 \in 1..Len(q[v]) /\ q[v][1] = Head(s)
  BY <1>1, <1>2
<1>9. ASSUME NEW t \in Tasks
      PROVE  (\E u \in Workers : \E i \in 1..Len(q'[u]) : q'[u][i] = t)
               <=> (t # Head(s) /\ \E u \in Workers : \E i \in 1..Len(q[u]) : q[u][i] = t)
  <2>1. ASSUME NEW u \in Workers, NEW i \in 1..Len(q'[u])
        PROVE  q'[u][i] # Head(s) /\ \E j \in 1..Len(q[u]) : q[u][j] = q'[u][i]
    BY <1>4, <1>6, <1>8 DEF QueueOnce
  <2>2. ASSUME NEW u \in Workers, NEW i \in 1..Len(q[u]), q[u][i] # Head(s)
        PROVE  \E j \in 1..Len(q'[u]) : q'[u][j] = q[u][i]
    <3>1. CASE u = v
      <4>1. PICK j \in 1..Len(r) : i = j + 1
        <5>1. i \in 1..Len(s) /\ s[i] # s[1]
          BY <1>1, <1>2, <2>2, <3>1
        <5> QED  BY <1>2, <5>1
      <4>2. q'[u] = r /\ r[j] = s[i] /\ s[i] = q[u][i]
        BY <1>1, <1>2, <1>3, <3>1, <4>1
      <4> QED  BY <4>2
    <3>2. CASE u # v
      BY <1>3, <3>2
    <3> QED  BY <3>1, <3>2
  <2>3. ASSUME \E u \in Workers : \E i \in 1..Len(q'[u]) : q'[u][i] = t
        PROVE  t # Head(s) /\ \E u \in Workers : \E i \in 1..Len(q[u]) : q[u][i] = t
    <3>1. PICK u \in Workers : \E i \in 1..Len(q'[u]) : q'[u][i] = t
      BY <2>3
    <3>2. PICK i \in 1..Len(q'[u]) : q'[u][i] = t
      BY <3>1
    <3>3. q'[u][i] # Head(s) /\ \E j \in 1..Len(q[u]) : q[u][j] = q'[u][i]
      BY <2>1
    <3> QED  BY <3>2, <3>3
  <2>4. ASSUME t # Head(s), NEW u \in Workers, NEW i \in 1..Len(q[u]), q[u][i] = t
        PROVE  \E z \in Workers : \E j \in 1..Len(q'[z]) : q'[z][j] = t
    BY <2>2, <2>4
  <2> QED  BY <2>3, <2>4
<1>10. Queued' = Queued \ {Head(s)}
  BY <1>9 DEF Queued
<1>11. Head(s) \in Queued
  BY <1>2, <1>8 DEF Queued
<1> QED  BY <1>1, <1>7, <1>10, <1>11

LEMMA HandGets ==
  ASSUME StateInv, HandOnce, NEW w \in Workers, hand[w] = NoTask, NEW t \in Tasks \ Handed,
         hand' = [hand EXCEPT ![w] = t]
  PROVE  Handed' = Handed \union {t} /\ HandOnce'
<1>1. NoTask \notin Tasks
  BY ExecutorAssumption
<1>2. \A v \in Workers : hand'[v] = IF v = w THEN t ELSE hand[v]
  BY DEF StateInv
<1>3. HandOnce'
  BY <1>1, <1>2 DEF HandOnce, Handed
<1>4. \A r \in Tasks : (\E v \in Workers : hand'[v] = r)
                         <=> (r = t \/ \E v \in Workers : hand[v] = r)
  BY <1>1, <1>2
<1> QED  BY <1>3, <1>4 DEF Handed

LEMMA HandGives ==
  ASSUME StateInv, HandOnce, NEW w \in Workers, hand' = [hand EXCEPT ![w] = NoTask]
  PROVE  Handed' = Handed \ {hand[w]} /\ HandOnce' /\ hand[w] \in Handed \union {NoTask}
<1>1. NoTask \notin Tasks
  BY ExecutorAssumption
<1>2. \A v \in Workers : hand'[v] = IF v = w THEN NoTask ELSE hand[v]
  BY DEF StateInv
<1>3. HandOnce'
  BY <1>1, <1>2 DEF HandOnce
<1>4. \A r \in Tasks : (\E v \in Workers : hand'[v] = r)
                         <=> (r # hand[w] /\ \E v \in Workers : hand[v] = r)
  BY <1>1, <1>2 DEF HandOnce
<1>5. hand[w] \in Handed \union {NoTask}
  BY DEF Handed, StateInv
<1> QED  BY <1>3, <1>4, <1>5 DEF Handed

(* The bodies on the stacks: one goes on, is entered, or left.             *)
LEMMA BodyGoes ==
  ASSUME StateInv, StackOnce, NEW x \in Threads, Active(x), NEW f \in FrameType,
         TopIs(x, f), f.body = Top(x).body, f.ip >= Top(x).ip
  PROVE  /\ Stacked' = Stacked /\ StackOnce'
         /\ \A y \in Threads : \A i \in Depth(y) : i \in Depth(y)'
              /\ stack'[y][i].body = stack[y][i].body /\ stack'[y][i].ip >= stack[y][i].ip
<1>1. Top(x) = stack[x][1] /\ 1 \in Depth(x)
  BY TopFacts DEF StateInv
<1>2. \A y \in Threads : Depth(y)' = Depth(y)
  BY DEF TopIs, Depth
<1>3. ASSUME NEW y \in Threads, NEW i \in Depth(y)
      PROVE  stack'[y][i].body = stack[y][i].body /\ stack'[y][i].ip >= stack[y][i].ip
  <2>1. CASE y = x /\ i = 1
    BY <1>1, <2>1 DEF TopIs
  <2>2. CASE y # x \/ i # 1
    <3>1. stack'[y][i] = stack[y][i]
      BY <2>2 DEF TopIs
    <3>2. stack[y][i].ip \in Nat
      BY FrameFacts DEF FrameType, StateInv
    <3> QED  BY <3>1, <3>2
  <2> QED  BY <2>1, <2>2
<1>4. StackOnce'
  <2>1. \A y, z \in Threads : \A i \in Depth(y), j \in Depth(z) :
          stack'[y][i].body = stack'[z][j].body => y = z /\ i = j
    BY <1>3 DEF StackOnce
  <2> QED  BY <1>2, <2>1 DEF StackOnce
<1>5. Stacked' = Stacked
  <2>1. \A b \in Bodies : (\E y \in Threads : \E i \in Depth(y) : stack'[y][i].body = b)
                         <=> (\E y \in Threads : \E i \in Depth(y) : stack[y][i].body = b)
    BY <1>3
  <2>2. Stacked' = {b \in Bodies : \E y \in Threads : \E i \in Depth(y) : stack'[y][i].body = b}
    BY <1>2 DEF Stacked
  <2> QED  BY <2>1, <2>2 DEF Stacked
<1> QED  BY <1>2, <1>3, <1>4, <1>5

LEMMA BodyEntered ==
  ASSUME StateInv, StackOnce, NEW x \in Threads, NEW b \in Tasks \ Stacked, Above(x, b)
  PROVE  /\ Stacked' = Stacked \union {b} /\ StackOnce'
         /\ \A y \in Threads : \A i \in Depth(y) : \E j \in 1..Len(stack'[y]) :
              stack'[y][j].body = stack[y][i].body /\ stack'[y][j].ip = stack[y][i].ip
         /\ \A y \in Threads : \A j \in 1..Len(stack'[y]) :
              \/ stack'[y][j] = Frame(b)
              \/ \E i \in Depth(y) :
                   /\ stack'[y][j].body = stack[y][i].body
                   /\ stack'[y][j].at = "executed" <=> stack[y][i].at = "executed"
<1>0. \A y \in Threads : Len(stack[y]) \in Nat
  BY DEF StateInv, Stacks
<1>1. 1..Len(stack'[x]) = 1..Len(stack[x]) + 1 /\ \A y \in Threads : y # x => 1..Len(stack'[y]) = Depth(y)
  BY DEF Above, Depth
<1>2. ASSUME NEW i \in 1..Len(stack'[x])
      PROVE  i = 1 \/ \E j \in Depth(x) : i = j + 1
  <2>1. i = 1 \/ (i - 1 \in Depth(x) /\ i = (i - 1) + 1)
    BY <1>0, <1>1 DEF Depth
  <2> QED  BY <2>1
<1>3. \A i \in Depth(x) : i + 1 \in 1..Len(stack'[x]) /\ i + 1 # 1
  BY <1>0, <1>1 DEF Depth
<1>4. Frame(b).body = b /\ Frame(b).at # "executed"
  BY DEF Frame
<1>5. 1 \in 1..Len(stack'[x]) /\ stack'[x][1] = Frame(b)
  BY <1>0, <1>1 DEF Above
<1>6. \A i \in Depth(x) : /\ stack'[x][i + 1].body = stack[x][i].body
                          /\ stack'[x][i + 1].ip = stack[x][i].ip
                          /\ stack'[x][i + 1].at = "executed" <=> stack[x][i].at = "executed"
  BY DEF Above
<1>7. \A y \in Threads : y # x => stack'[y] = stack[y]
  BY DEF Above
<1>8. \A y \in Threads : \A i \in Depth(y) : stack[y][i].body # b /\ stack[y][i].body \in Bodies
  <2>1. \A y \in Threads : \A i \in Depth(y) : stack[y][i].body \in Bodies
    BY FrameFacts DEF StateInv, FrameType
  <2> QED  BY <2>1 DEF Stacked, Depth
<1>9. ASSUME NEW y \in Threads, NEW i \in 1..Len(stack'[y])
      PROVE  \/ y = x /\ i = 1 /\ stack'[y][i] = Frame(b)
             \/ y = x /\ \E j \in Depth(y) :
                  /\ i = j + 1 /\ stack'[y][i].body = stack[y][j].body
                  /\ stack'[y][i].at = "executed" <=> stack[y][j].at = "executed"
             \/ y # x /\ i \in Depth(y) /\ stack'[y][i] = stack[y][i]
  <2>1. CASE y = x
    <3>1. CASE i = 1
      BY <1>5, <2>1, <3>1
    <3>2. CASE \E j \in Depth(x) : i = j + 1
      <4>1. PICK j \in Depth(x) : i = j + 1
        BY <3>2
      <4>2. PICK g, r : g = stack'[x][j + 1] /\ r = stack[x][j]
        OBVIOUS
      <4>3. g.body = r.body /\ (g.at = "executed" <=> r.at = "executed")
        BY <1>6, <4>1, <4>2
      <4>4. stack'[y][i] = g /\ stack[y][j] = r /\ j \in Depth(y)
        BY <2>1, <4>1, <4>2
      <4> QED  BY <2>1, <4>1, <4>3, <4>4
    <3> QED  BY <1>2, <2>1, <3>1, <3>2
  <2>2. CASE y # x
    BY <1>1, <1>7, <2>2
  <2> QED  BY <2>1, <2>2
<1>10. ASSUME NEW y \in Threads, NEW i \in Depth(y)
       PROVE  \E j \in 1..Len(stack'[y]) :
                stack'[y][j].body = stack[y][i].body /\ stack'[y][j].ip = stack[y][i].ip
  <2>1. CASE y = x
    <3>1. PICK j \in 1..Len(stack'[x]) : j = i + 1
      BY <1>3, <2>1
    <3>2. stack'[x][j].body = stack[x][i].body /\ stack'[x][j].ip = stack[x][i].ip
      BY <1>6, <2>1, <3>1
    <3> QED  BY <2>1, <3>1, <3>2
  <2>2. CASE y # x
    BY <1>1, <1>7, <2>2
  <2> QED  BY <2>1, <2>2
<1>11. StackOnce'
  <2>1. ASSUME NEW y \in Threads, NEW z \in Threads, NEW i \in 1..Len(stack'[y]), NEW j \in 1..Len(stack'[z]),
               stack'[y][i].body = stack'[z][j].body
        PROVE  y = z /\ i = j
    <3>1. ASSUME NEW v \in Threads, NEW k \in 1..Len(stack'[v]), ~(v = x /\ k = 1)
          PROVE  \E l \in Depth(v) : /\ stack'[v][k].body = stack[v][l].body
                                     /\ stack'[v][k].body # b
                                     /\ k = IF v = x THEN l + 1 ELSE l
      BY <1>8, <1>9, <3>1
    <3>2. ASSUME NEW v \in Threads, NEW k \in 1..Len(stack'[v]), v = x, k = 1
          PROVE  stack'[v][k].body = b
      BY <1>4, <1>5, <3>2
    <3>3. CASE y = x /\ i = 1
      BY <2>1, <3>1, <3>2, <3>3
    <3>4. CASE z = x /\ j = 1
      BY <2>1, <3>1, <3>2, <3>4
    <3>5. CASE ~(y = x /\ i = 1) /\ ~(z = x /\ j = 1)
      <4>1. PICK k \in Depth(y) : /\ stack'[y][i].body = stack[y][k].body
                                  /\ i = IF y = x THEN k + 1 ELSE k
        BY <3>1, <3>5
      <4>2. PICK l \in Depth(z) : /\ stack'[z][j].body = stack[z][l].body
                                  /\ j = IF z = x THEN l + 1 ELSE l
        BY <3>1, <3>5
      <4>3. stack[y][k].body = stack[z][l].body
        BY <2>1, <4>1, <4>2
      <4>4. y = z /\ k = l
        BY <4>3 DEF StackOnce
      <4> QED  BY <4>1, <4>2, <4>4
    <3> QED  BY <3>3, <3>4, <3>5
  <2> QED  BY <2>1 DEF StackOnce, Depth
<1>12. Stacked' = Stacked \union {b}
  <2>1. ASSUME NEW c \in Bodies
        PROVE  (\E y \in Threads : \E i \in 1..Len(stack'[y]) : stack'[y][i].body = c)
                 <=> (c = b \/ \E y \in Threads : \E i \in Depth(y) : stack[y][i].body = c)
    <3>1. ASSUME NEW y \in Threads, NEW i \in 1..Len(stack'[y]), stack'[y][i].body = c
          PROVE  c = b \/ \E z \in Threads : \E j \in Depth(z) : stack[z][j].body = c
      BY <1>4, <1>9, <3>1
    <3>2. ASSUME NEW y \in Threads, NEW i \in Depth(y), stack[y][i].body = c
          PROVE  \E z \in Threads : \E j \in 1..Len(stack'[z]) : stack'[z][j].body = c
      BY <1>10, <3>2
    <3>3. ASSUME c = b
          PROVE  \E z \in Threads : \E j \in 1..Len(stack'[z]) : stack'[z][j].body = c
      BY <1>4, <1>5, <3>3
    <3> QED  BY <3>1, <3>2, <3>3
  <2>2. b \in Bodies
    BY DEF Bodies
  <2>3. \A c \in Bodies : c \in Stacked' <=> (c = b \/ c \in Stacked)
    BY <2>1 DEF Stacked, Depth
  <2>4. Stacked \subseteq Bodies /\ Stacked' \subseteq Bodies
    BY DEF Stacked
  <2> QED  BY <2>2, <2>3, <2>4
<1> QED  BY <1>9, <1>10, <1>11, <1>12

LEMMA BodyLeft ==
  ASSUME StateInv, StackOnce, NEW x \in Threads, Active(x), stack' = [stack EXCEPT ![x] = Tail(@)]
  PROVE  /\ Stacked' = Stacked \ {Top(x).body} /\ StackOnce'
         /\ \A y \in Threads : \A i \in Depth(y) : \/ stack[y][i].body = Top(x).body
                                                   \/ \E j \in 1..Len(stack'[y]) : stack'[y][j] = stack[y][i]
         /\ \A y \in Threads : \A j \in 1..Len(stack'[y]) : \E i \in Depth(y) :
              stack'[y][j] = stack[y][i]
<1>0. \A y \in Threads : Len(stack[y]) \in Nat
  BY DEF StateInv, Stacks
<1>1. Top(x) = stack[x][1] /\ 1 \in Depth(x)
  BY TopFacts DEF StateInv
<1>2. /\ \A y \in Threads : y # x => stack'[y] = stack[y]
      /\ Len(stack'[x]) = Len(stack[x]) - 1
      /\ \A i \in 1..Len(stack'[x]) : stack'[x][i] = stack[x][i + 1] /\ i + 1 \in Depth(x)
  BY LeaveFacts DEF StateInv
<1>3. ASSUME NEW i \in Depth(x)
      PROVE  i = 1 \/ \E j \in 1..Len(stack'[x]) : i = j + 1
  <2>1. i = 1 \/ (i - 1 \in 1..Len(stack'[x]) /\ i = (i - 1) + 1)
    BY <1>0, <1>2 DEF Depth
  <2> QED  BY <2>1
<1>4. \A i, j \in 1..Len(stack'[x]) : i + 1 # 1 /\ (i + 1 = j + 1 => i = j)
  BY DEF Depth
<1>5. ASSUME NEW y \in Threads, NEW i \in 1..Len(stack'[y])
      PROVE  \/ y = x /\ i + 1 \in Depth(y) /\ stack'[y][i] = stack[y][i + 1]
             \/ y # x /\ i \in Depth(y) /\ stack'[y][i] = stack[y][i]
  BY <1>2 DEF Depth
<1>6. ASSUME NEW y \in Threads, NEW i \in Depth(y)
      PROVE  \/ y = x /\ i = 1
             \/ \E j \in 1..Len(stack'[y]) : stack'[y][j] = stack[y][i]
  <2>1. CASE y = x
    <3>1. CASE i = 1
      BY <2>1, <3>1
    <3>2. CASE i # 1
      <4>1. PICK j \in 1..Len(stack'[x]) : i = j + 1
        BY <1>3, <2>1, <3>2
      <4>2. stack'[x][j] = stack[x][i]
        BY <1>2, <4>1
      <4> QED  BY <2>1, <4>2
    <3> QED  BY <3>1, <3>2
  <2>2. CASE y # x
    BY <1>2, <2>2 DEF Depth
  <2> QED  BY <2>1, <2>2
<1>7. StackOnce'
  <2>1. ASSUME NEW y \in Threads, NEW z \in Threads, NEW i \in 1..Len(stack'[y]), NEW j \in 1..Len(stack'[z]),
               stack'[y][i].body = stack'[z][j].body
        PROVE  y = z /\ i = j
    BY <1>4, <1>5, <2>1 DEF StackOnce, Depth
  <2> QED  BY <2>1 DEF StackOnce, Depth
<1>8. ASSUME NEW y \in Threads, NEW i \in 1..Len(stack'[y])
      PROVE  /\ stack'[y][i].body # Top(x).body
             /\ \E j \in Depth(y) : stack'[y][i] = stack[y][j]
  BY <1>1, <1>4, <1>5 DEF StackOnce, Depth
<1>9. Stacked' = Stacked \ {Top(x).body}
  <2>1. ASSUME NEW c \in Bodies
        PROVE  (\E y \in Threads : \E i \in 1..Len(stack'[y]) : stack'[y][i].body = c)
                 <=> (c # Top(x).body /\ \E y \in Threads : \E i \in Depth(y) : stack[y][i].body = c)
    <3>1. ASSUME NEW y \in Threads, NEW i \in 1..Len(stack'[y]), stack'[y][i].body = c
          PROVE  c # Top(x).body /\ \E z \in Threads : \E j \in Depth(z) : stack[z][j].body = c
      <4>1. PICK j \in Depth(y) : stack'[y][i] = stack[y][j]
        BY <1>8
      <4>2. c # Top(x).body /\ stack[y][j].body = c
        BY <1>8, <3>1, <4>1
      <4> QED  BY <4>2
    <3>2. ASSUME c # Top(x).body, NEW y \in Threads, NEW i \in Depth(y), stack[y][i].body = c
          PROVE  \E z \in Threads : \E j \in 1..Len(stack'[z]) : stack'[z][j].body = c
      <4>1. ~(y = x /\ i = 1)
        BY <1>1, <3>2
      <4>2. PICK j \in 1..Len(stack'[y]) : stack'[y][j] = stack[y][i]
        BY <1>6, <4>1
      <4> QED  BY <3>2, <4>2
    <3> QED  BY <3>1, <3>2
  <2> QED  BY <2>1 DEF Stacked, Depth
<1> QED  BY <1>1, <1>6, <1>7, <1>8, <1>9

-----------------------------------------------------------------------------
(* The task a thread is about to push is nowhere yet.                      *)
LEMMA OnlyCall ==
  ASSUME program \in Programs, NEW a \in Bodies, NEW b \in Bodies,
         NEW i \in PushesOf(program, a), NEW j \in PushesOf(program, b),
         program[a][i].task = program[b][j].task
  PROVE  a = b /\ i = j
<1>1. program[a][i] = program[b][j]
  <2>1. /\ program[a][i] \in Calls /\ program[b][j] \in Calls
        /\ program[a][i].op = "push" /\ program[b][j].op = "push"
    BY ProgramFacts DEF PushesOf
  <2>2. Range(Join) = {Wait("BlockIncoming"), Stop, [op |-> "join_threads"]}
    BY DEF Range, Join
  <2>3. \A c \in Calls : c.op = "push" => \E t \in Tasks : c = Push(t) /\ c.task = t
    BY <2>2 DEF Calls, Push, Get, Wait, Stop
  <2> QED  BY <2>1, <2>3
<1> QED  BY <1>1, ExecutorAssumption DEF Bodies

LEMMA NewTask ==
  ASSUME StateInv, CallInv, OnceInv, NEW x \in Threads, Calling(x, "push") \/ At(x, "enqueue")
  PROVE  /\ Active(x) /\ Top(x).body \in Bodies /\ Top(x).at # "executed"
         /\ Top(x).ip \in PushesOf(program, Top(x).body)
         /\ Call(x) = program[Top(x).body][Top(x).ip]
         /\ Call(x).task \in Tasks /\ Call(x).task \notin Known
<1>1. /\ Active(x) /\ Top(x).at # "executed" /\ Call(x) = program[Top(x).body][Top(x).ip]
  BY DEF Calling, At, Call
<1>2. Top(x) \in FrameType /\ Top(x) = stack[x][1] /\ 1 \in Depth(x)
  BY <1>1, TopFacts DEF StateInv
<1>3. Top(x).body \in Bodies /\ Top(x).ip \in Nat \ {0}
  BY <1>2 DEF FrameType
<1>4. Top(x).ip \in PushesOf(program, Top(x).body)
  <2>1. CASE At(x, "enqueue")
    BY <1>2, <2>1 DEF At, CallInv, WellFormed
  <2>2. CASE Calling(x, "push")
    <3>1. program \in [Bodies -> Seq(Calls)]
      BY ExecutorAssumption DEF StateInv, Bodies
    <3> QED  BY <1>3, <2>2, <3>1 DEF Calling, Over, Call, PushesOf
  <2> QED  BY <2>1, <2>2
<1>5. Call(x).task \in Tasks
  BY <1>1, <1>3, <1>4, ProgramFacts DEF StateInv, PushesOf
<1>6. Call(x).task \notin Known
  <2> SUFFICES ASSUME Call(x).task \in Known PROVE FALSE
    OBVIOUS
  <2>1. Passed(Top(x).body, Top(x).ip)
    BY <1>1, <1>3, <1>4 DEF OnceInv, PassedInv
  <2>2. Top(x).body \notin set
    BY <1>1, <1>2 DEF OnceInv, EndInv
  <2>3. PICK y \in Threads : \E j \in Depth(y) :
          stack[y][j].body = Top(x).body /\ stack[y][j].ip > Top(x).ip
    BY <2>1, <2>2 DEF Passed
  <2>4. PICK j \in Depth(y) : stack[y][j].body = Top(x).body /\ stack[y][j].ip > Top(x).ip
    BY <2>3
  <2>5. y = x /\ j = 1
    BY <1>2, <2>4 DEF OnceInv, StackOnce
  <2> QED  BY <1>2, <1>3, <2>4, <2>5
<1> QED  BY <1>1, <1>3, <1>4, <1>5, <1>6

(* What has been passed stays so, and a new task has just been passed.      *)
BodiesKept ==
  /\ program' = program /\ set \subseteq set'
  /\ \A y \in Threads : \A i \in Depth(y) :
       \/ stack[y][i].body \in set'
       \/ \E j \in 1..Len(stack'[y]) : /\ stack'[y][j].body = stack[y][i].body
                                       /\ stack'[y][j].ip >= stack[y][i].ip
                                       /\ stack'[y][j].ip \in Nat
Passing(T) == \A b \in Bodies : \A i \in PushesOf(program, b) :
  program[b][i].task \in T => Passed(b, i)'

LEMMA PassedKept ==
  ASSUME StateInv, PassedInv, BodiesKept, NEW T, Known' \subseteq Known \union T, Passing(T)
  PROVE  PassedInv'
<1>1. ASSUME NEW b \in Bodies, NEW n \in Nat, Passed(b, n)
      PROVE  Passed(b, n)'
  <2>1. CASE b \in set
    BY <2>1 DEF Passed, BodiesKept
  <2>2. CASE b \notin set
    <3>1. PICK y \in Threads : \E i \in Depth(y) : stack[y][i].body = b /\ stack[y][i].ip > n
      BY <1>1, <2>2 DEF Passed
    <3>2. PICK i \in Depth(y) : stack[y][i].body = b /\ stack[y][i].ip > n
      BY <3>1
    <3>3. CASE b \in set'
      BY <3>3 DEF Passed
    <3>4. CASE b \notin set'
      <4>1. PICK j \in 1..Len(stack'[y]) : /\ stack'[y][j].body = b /\ stack'[y][j].ip \in Nat
                                           /\ stack'[y][j].ip >= stack[y][i].ip
        BY <3>2, <3>4 DEF BodiesKept
      <4>2. stack[y][i].ip \in Nat
        BY FrameFacts DEF StateInv, FrameType
      <4>3. stack'[y][j].ip > n
        BY <3>2, <4>1, <4>2
      <4> QED  BY <4>1, <4>3 DEF Passed, Depth
    <3> QED  BY <3>3, <3>4
  <2> QED  BY <2>1, <2>2
<1>2. \A b \in Bodies : \A i \in PushesOf(program, b) : i \in Nat
  BY DEF PushesOf
<1>3. \A b \in Bodies : \A i \in PushesOf(program, b) :
        program[b][i].task \in Known' => Passed(b, i)'
  BY <1>1, <1>2 DEF PassedInv, Passing
<1> QED  BY <1>3 DEF PassedInv, BodiesKept

(* A body goes on.                                                         *)
LEMMA GoesOn ==
  ASSUME StateInv, StackOnce, program' = program, set \subseteq set',
         NEW x \in Threads, Active(x), NEW f \in FrameType,
         TopIs(x, f), f.body = Top(x).body, f.ip >= Top(x).ip
  PROVE  Stacked' = Stacked /\ StackOnce' /\ BodiesKept
<1>1. /\ Stacked' = Stacked /\ StackOnce'
      /\ \A y \in Threads : \A i \in Depth(y) : /\ i \in Depth(y)'
            /\ stack'[y][i].body = stack[y][i].body /\ stack'[y][i].ip >= stack[y][i].ip
  BY BodyGoes
<1>2. \A y \in Threads : 1..Len(stack'[y]) = Depth(y)
  BY DEF TopIs, Depth
<1>3. \A y \in Threads : \A i \in Depth(y) : stack'[y][i].ip \in Nat
  <2>1. \A y \in Threads : \A i \in 1..Len(stack'[y]) : stack'[y][i] \in FrameType
    BY DEF TopIs, Stacks
  <2> QED  BY <1>2, <2>1 DEF FrameType
<1> QED  BY <1>1, <1>2, <1>3 DEF BodiesKept

LEMMA GoesOnUnset ==
  ASSUME StateInv, EndInv, set' = set, NEW x \in Threads, Active(x), NEW f \in FrameType,
         TopIs(x, f), f.body = Top(x).body, f.at # "executed", Top(x).at # "executed"
  PROVE  EndInv'
<1>1. Top(x) = stack[x][1] /\ 1 \in Depth(x)
  BY TopFacts DEF StateInv
<1>2. \A y \in Threads : Depth(y)' = Depth(y)
  BY DEF TopIs, Depth
<1>3. \A y \in Threads : \A i \in Depth(y) :
        /\ stack'[y][i].at = "executed" <=> stack[y][i].at = "executed"
        /\ stack'[y][i].body = stack[y][i].body
  BY <1>1 DEF TopIs
<1> QED  BY <1>2, <1>3 DEF EndInv

(* No task changes its place.                                              *)
LEMMA SilentOnce ==
  ASSUME StateInv, OnceInv, program' = program, NEW x \in Threads, Active(x), NEW f \in FrameType,
         TopIs(x, f), f.body = Top(x).body, f.ip >= Top(x).ip,
         f.at # "executed", Top(x).at # "executed",
         q' = q, hand' = hand, set' = set, lost' = lost, refused' = refused
  PROVE  OnceInv' /\ Queued' = Queued /\ Handed' = Handed /\ Stacked' = Stacked
<1>1. Queued' = Queued /\ Handed' = Handed /\ QueueOnce' /\ HandOnce'
  BY DEF Queued, Handed, OnceInv, QueueOnce, HandOnce
<1>2. Stacked' = Stacked /\ StackOnce' /\ BodiesKept
  BY GoesOn DEF OnceInv
<1>3. PlaceInv' /\ Known' = Known
  BY <1>1, <1>2 DEF OnceInv, PlaceInv, Known
<1>4. EndInv'
  BY GoesOnUnset DEF OnceInv
<1>5. PassedInv'
  <2>1. Passing({})
    BY DEF Passing
  <2>2. PassedInv /\ Known' \subseteq Known \union {}
    BY <1>3 DEF OnceInv
  <2> QED  BY <1>2, <2>1, <2>2, PassedKept
<1> QED  BY <1>1, <1>2, <1>3, <1>4, <1>5 DEF OnceInv

(* A new task is queued, discarded or refused.                             *)
PushMoves(t) ==
  /\ Handed' = Handed /\ Stacked' = Stacked /\ set' = set
  /\ \/ Queued' = Queued \union {t} /\ lost' = lost /\ refused' = refused
     \/ Queued' = Queued /\ lost' = lost \union {t} /\ refused' = refused /\ stopped
     \/ Queued' = Queued /\ lost' = lost /\ refused' = refused \union {t}

LEMMA PushOnce ==
  ASSUME StateInv, CallInv, StopInv, OnceInv, NEW x \in Threads, program' = program,
         PushRefused(x) \/ \E v \in Workers : Enqueue(x, v) \/ EnqueueClosed(x, v)
  PROVE  OnceInv' /\ \E t \in Tasks \ Known : PushMoves(t)
<1>1. Calling(x, "push") \/ At(x, "enqueue")
  BY DEF PushRefused, Enqueue, EnqueueClosed
<1>2. PICK t \in Tasks \ Known : t = Call(x).task
  BY <1>1, NewTask
<1>3. /\ Active(x) /\ Top(x).body \in Bodies /\ Top(x).at # "executed"
      /\ Top(x).ip \in PushesOf(program, Top(x).body)
      /\ Call(x) = program[Top(x).body][Top(x).ip]
  BY <1>1, NewTask
<1>4. PICK f \in FrameType : /\ TopIs(x, f) /\ f.at = "call"
                             /\ f.body = Top(x).body /\ f.ip > Top(x).ip
  <2>1. CASE PushRefused(x)
    BY <2>1, ThrowFacts DEF PushRefused
  <2>2. CASE \E v \in Workers : Enqueue(x, v) \/ EnqueueClosed(x, v)
    <3>1. Return(x)
      BY <2>2 DEF Enqueue, EnqueueClosed
    <3>2. PICK f \in FrameType : /\ TopIs(x, f) /\ f.at = "call"
                                 /\ f.body = Top(x).body /\ f.ip = Top(x).ip + 1
      BY <1>3, <3>1, ReturnFacts DEF StateInv
    <3>3. f.ip > Top(x).ip
      BY <1>3, <3>2 DEF PushesOf
    <3> QED  BY <3>2, <3>3
  <2> QED  BY <2>1, <2>2
<1>5. set' = set /\ hand' = hand
  BY DEF PushRefused, Enqueue, EnqueueClosed
<1>6. Stacked' = Stacked /\ StackOnce' /\ BodiesKept
  <2>1. f.ip >= Top(x).ip
    BY <1>3, <1>4 DEF PushesOf, FrameType
  <2> QED  BY <1>3, <1>4, <1>5, <2>1, GoesOn DEF OnceInv
<1>7. EndInv'
  BY <1>3, <1>4, <1>5, GoesOnUnset DEF OnceInv
<1>8. Handed' = Handed /\ HandOnce'
  BY <1>5 DEF Handed, OnceInv, HandOnce
<1>9. QueueOnce' /\ PushMoves(t)
  <2>1. CASE PushRefused(x)
    <3>1. q' = q /\ lost' = lost /\ refused' = refused \union {t}
      BY <1>2, <2>1 DEF PushRefused
    <3>2. Queued' = Queued /\ QueueOnce'
      BY <3>1 DEF Queued, OnceInv, QueueOnce
    <3> QED  BY <1>5, <1>6, <1>8, <3>1, <3>2 DEF PushMoves
  <2>2. ASSUME NEW v \in Workers, Enqueue(x, v) PROVE QueueOnce' /\ PushMoves(t)
    <3>1. q' = [q EXCEPT ![v] = Append(q[v], t)] /\ lost' = lost /\ refused' = refused
      BY <1>2, <2>2 DEF Enqueue
    <3>2. Queued' = Queued \union {t} /\ QueueOnce'
      BY <3>1, QueueGets DEF OnceInv, Known
    <3> QED  BY <1>5, <1>6, <1>8, <3>1, <3>2 DEF PushMoves
  <2>3. ASSUME NEW v \in Workers, EnqueueClosed(x, v) PROVE QueueOnce' /\ PushMoves(t)
    <3>1. q' = q /\ lost' = lost \union {t} /\ refused' = refused /\ stopped
      BY <1>2, <2>3 DEF EnqueueClosed, StopInv
    <3>2. Queued' = Queued /\ QueueOnce'
      BY <3>1 DEF Queued, OnceInv, QueueOnce
    <3> QED  BY <1>5, <1>6, <1>8, <3>1, <3>2 DEF PushMoves
  <2> QED  BY <2>1, <2>2, <2>3
<1>10. PlaceInv' /\ Known' \subseteq Known \union {t}
  BY <1>9 DEF PushMoves, OnceInv, PlaceInv, Known
<1>11. PassedInv'
  <2>1. ASSUME NEW b \in Bodies, NEW i \in PushesOf(program, b), program[b][i].task = t
        PROVE  Passed(b, i)'
    <3>1. b = Top(x).body /\ i = Top(x).ip
      BY <1>2, <1>3, <2>1, OnlyCall DEF StateInv
    <3>2. 1 \in Depth(x)' /\ stack'[x][1] = f
      <4>1. 1 \in Depth(x)
        BY <1>3, TopFacts DEF StateInv
      <4> QED  BY <1>4, <4>1 DEF TopIs, Depth
    <3> QED  BY <1>4, <3>1, <3>2 DEF Passed
  <2>2. Passing({t})
    BY <2>1 DEF Passing
  <2> QED  BY <1>6, <1>10, <2>2, PassedKept DEF OnceInv
<1> QED  BY <1>6, <1>7, <1>8, <1>9, <1>10, <1>11 DEF OnceInv

(* Every other call.                                                       *)
LEMMA CallOnce ==
  ASSUME StateInv, CallInv, OnceInv, NEW x \in Threads, CallStep(x), ~PushRefused(x),
         \A v \in Workers : ~Enqueue(x, v) /\ ~EnqueueClosed(x, v)
  PROVE  /\ OnceInv' /\ Queued' = Queued /\ Handed' = Handed /\ Stacked' = Stacked
         /\ UNCHANGED <<set, lost, refused>>
<1>1. UNCHANGED <<program, q, hand, set, lost, refused>>
  BY DEF CallStep, PushBlocked, PushAdmitted, PushLock, PushUnlock, GetReturn, GetWait, StopFlag,
     StopQueue, StopReturn, JoinThreads, WaitLock, WaitOther, WaitOtherLock, WaitOtherReturn,
     WaitEmpty, WaitFree, WaitIdle, WaitReturn
<1>2. PICK f \in FrameType : Goes(x, f) /\ Active(x)
  BY CallGoes
<1> QED  BY <1>1, <1>2, SilentOnce DEF Goes

(* A worker takes a task from a queue into its hand, ...                   *)
LEMMA TakeOnce ==
  ASSUME StateInv, StopInv, OnceInv, NEW w \in Workers, NEW v \in Workers, program' = program,
         Steal(w, v) \/ (Pop(w) /\ v = w)
  PROVE  /\ OnceInv' /\ UNCHANGED <<set, lost, refused>> /\ Stacked' = Stacked
         /\ \E t \in Queued : Queued' = Queued \ {t} /\ Handed' = Handed \union {t}
<1>1. /\ TakenFrom(w, v) /\ hand' = [hand EXCEPT ![w] = Head(q[v])]
      /\ UNCHANGED <<stack, set, lost, refused>> /\ loop[w] # "check"
  BY DEF Steal, Pop
<1>2. /\ Head(q[v]) \in Tasks /\ q[v] # <<>> /\ q' = [q EXCEPT ![v] = Tail(q[v])]
  BY <1>1, TakenFacts
<1>3. Queued' = Queued \ {Head(q[v])} /\ QueueOnce' /\ Head(q[v]) \in Queued
  BY <1>2, QueueGives DEF OnceInv
<1>4. PICK t \in Queued : t = Head(q[v])
  BY <1>3
<1>5. Handed' = Handed \union {t} /\ HandOnce'
  <2>1. hand[w] = NoTask
    BY <1>1 DEF StopInv
  <2>2. t \in Tasks \ Handed
    BY <1>4 DEF OnceInv, PlaceInv, Queued
  <2> QED  BY <1>1, <1>4, <2>1, <2>2, HandGets DEF OnceInv
<1>6. Stacked' = Stacked /\ StackOnce' /\ EndInv'
  BY <1>1 DEF Stacked, OnceInv, StackOnce, EndInv, Depth
<1>7. PlaceInv' /\ Known' = Known
  BY <1>1, <1>3, <1>4, <1>5, <1>6 DEF OnceInv, PlaceInv, Known
<1>8. PassedInv'
  BY <1>1, <1>7 DEF OnceInv, PassedInv, Passed, Depth
<1> QED  BY <1>1, <1>3, <1>4, <1>5, <1>6, <1>7, <1>8 DEF OnceInv

(* ... discards it, ...                                                    *)
LEMMA DropOnce ==
  ASSUME StateInv, OnceInv, NEW w \in Workers, program' = program, CheckStopped(w)
  PROVE  /\ OnceInv' /\ UNCHANGED <<set, refused>> /\ Stacked' = Stacked /\ Queued' = Queued
         /\ \E T \in SUBSET Handed : /\ Handed' = Handed \ T /\ lost' = lost \union T
                                     /\ \A r, u \in T : r = u
<1>1. /\ hand' = [hand EXCEPT ![w] = NoTask] /\ lost' = lost \union ({hand[w]} \ {NoTask})
      /\ UNCHANGED <<stack, set, refused, q>>
  BY DEF CheckStopped
<1>2. Handed' = Handed \ {hand[w]} /\ HandOnce' /\ hand[w] \in Handed \union {NoTask}
  BY <1>1, HandGives DEF OnceInv
<1>3. PICK T : T = {hand[w]} \ {NoTask}
  OBVIOUS
<1>4. NoTask \notin Handed
  BY ExecutorAssumption DEF Handed
<1>5. T \in SUBSET Handed /\ Handed' = Handed \ T /\ lost' = lost \union T /\ \A r, u \in T : r = u
  BY <1>1, <1>2, <1>3, <1>4
<1>6. Stacked' = Stacked /\ StackOnce' /\ EndInv' /\ Queued' = Queued /\ QueueOnce'
  BY <1>1 DEF Stacked, OnceInv, StackOnce, EndInv, Depth, Queued, QueueOnce
<1>7. PlaceInv' /\ Known' = Known
  BY <1>1, <1>5, <1>6 DEF OnceInv, PlaceInv, Known
<1>8. PassedInv'
  BY <1>1, <1>7 DEF OnceInv, PassedInv, Passed, Depth
<1> QED  BY <1>1, <1>2, <1>5, <1>6, <1>7, <1>8 DEF OnceInv

(* ... or enters it.                                                       *)
LEMMA EnterParts ==
  ASSUME StateInv, OnceInv, NEW x \in Threads, NEW t \in (Queued \union Handed), Above(x, t),
         UNCHANGED <<program, set>>
  PROVE  Stacked' = Stacked \union {t} /\ StackOnce' /\ EndInv' /\ BodiesKept
<1>1. t \in Tasks \ Stacked /\ t \notin set
  BY DEF Queued, Handed, OnceInv, PlaceInv
<1>2. /\ Stacked' = Stacked \union {t} /\ StackOnce'
      /\ \A y \in Threads : \A i \in Depth(y) : \E j \in 1..Len(stack'[y]) :
           stack'[y][j].body = stack[y][i].body /\ stack'[y][j].ip = stack[y][i].ip
      /\ \A y \in Threads : \A j \in 1..Len(stack'[y]) :
           \/ stack'[y][j] = Frame(t)
           \/ \E i \in Depth(y) :
                /\ stack'[y][j].body = stack[y][i].body
                /\ stack'[y][j].at = "executed" <=> stack[y][i].at = "executed"
  BY <1>1, BodyEntered DEF OnceInv
<1>3. EndInv'
  <2>1. Frame(t).body = t /\ Frame(t).at # "executed"
    BY DEF Frame
  <2>2. ASSUME NEW y \in Threads, NEW j \in 1..Len(stack'[y])
        PROVE  stack'[y][j].at = "executed" <=> stack'[y][j].body \in set
    <3>1. CASE stack'[y][j] = Frame(t)
      BY <1>1, <2>1, <3>1
    <3>2. CASE \E i \in Depth(y) :
                 /\ stack'[y][j].body = stack[y][i].body
                 /\ stack'[y][j].at = "executed" <=> stack[y][i].at = "executed"
      BY <3>2 DEF OnceInv, EndInv
    <3> QED  BY <1>2, <3>1, <3>2
  <2> QED  BY <2>2 DEF EndInv, Depth
<1>4. BodiesKept
  <2>1. \A y \in Threads : \A i \in Depth(y) : stack[y][i].ip \in Nat
    BY FrameFacts DEF StateInv, FrameType
  <2>2. \A y \in Threads : \A i \in Depth(y) : \E j \in 1..Len(stack'[y]) :
          /\ stack'[y][j].body = stack[y][i].body
          /\ stack'[y][j].ip >= stack[y][i].ip /\ stack'[y][j].ip \in Nat
    BY <1>2, <2>1
  <2> QED  BY <2>2 DEF BodiesKept
<1> QED  BY <1>2, <1>3, <1>4

EnterMoves(t) ==
  /\ UNCHANGED <<set, lost, refused>> /\ Stacked' = Stacked \union {t}
  /\ Queued' = Queued \ {t} /\ Handed' = Handed \ {t}

LEMMA EnterOnce ==
  ASSUME StateInv, OnceInv, NEW w \in Workers, NEW v \in Workers, program' = program,
         Run(w) \/ Help(w, v) \/ WaitHelp(w, v)
  PROVE  OnceInv' /\ \E t \in Queued \union Handed : EnterMoves(t)
<1>0. w \in Threads
  BY DEF Threads
<1>1. PICK t \in Queued \union Handed :
        Above(w, t) /\ Queued' = Queued \ {t} /\ Handed' = Handed \ {t} /\ QueueOnce' /\ HandOnce'
  <2>1. CASE Run(w)
    <3>1. hand[w] \in Tasks /\ Above(w, hand[w])
      BY <2>1, WorkerEnters
    <3>2. hand' = [hand EXCEPT ![w] = NoTask] /\ q' = q
      BY <2>1 DEF Run
    <3>3. Handed' = Handed \ {hand[w]} /\ HandOnce' /\ hand[w] \in Handed
      BY <3>1, <3>2, HandGives, ExecutorAssumption DEF OnceInv
    <3>4. Queued' = Queued /\ QueueOnce' /\ hand[w] \notin Queued
      BY <3>2, <3>3 DEF Queued, QueueOnce, OnceInv, PlaceInv
    <3> QED  BY <3>1, <3>3, <3>4
  <2>2. CASE Help(w, v) \/ WaitHelp(w, v)
    <3>1. Above(w, Head(q[v])) /\ TakenFrom(w, v) /\ hand' = hand
      BY <2>2, WorkerEnters DEF Help, WaitHelp
    <3>2. q[v] # <<>> /\ q' = [q EXCEPT ![v] = Tail(q[v])]
      BY <3>1, TakenFacts
    <3>3. Queued' = Queued \ {Head(q[v])} /\ QueueOnce' /\ Head(q[v]) \in Queued
      BY <3>2, QueueGives DEF OnceInv
    <3>4. Handed' = Handed /\ HandOnce' /\ Head(q[v]) \notin Handed
      BY <3>1, <3>3 DEF Handed, HandOnce, OnceInv, PlaceInv
    <3> QED  BY <3>1, <3>3, <3>4
  <2> QED  BY <2>1, <2>2
<1>2. UNCHANGED <<set, lost, refused>>
  BY DEF Run, Help, WaitHelp
<1>3. Stacked' = Stacked \union {t} /\ StackOnce' /\ EndInv' /\ BodiesKept
  BY <1>0, <1>1, <1>2, EnterParts
<1>4. PlaceInv' /\ Known' = Known
  BY <1>1, <1>2, <1>3 DEF OnceInv, PlaceInv, Known
<1>5. PassedInv'
  <2>1. Passing({})
    BY DEF Passing
  <2>2. PassedInv /\ Known' \subseteq Known \union {}
    BY <1>4 DEF OnceInv
  <2> QED  BY <1>3, <2>1, <2>2, PassedKept
<1> QED  BY <1>1, <1>2, <1>3, <1>4, <1>5 DEF OnceInv, EnterMoves

(* A task ends, and leaves the stack.                                      *)
LEMMA ExecutedOnce ==
  ASSUME StateInv, CallInv, OnceInv, NEW w \in Workers, program' = program, SetExecuted(w)
  PROVE  /\ OnceInv' /\ UNCHANGED <<lost, refused>>
         /\ Queued' = Queued /\ Handed' = Handed /\ Stacked' = Stacked
         /\ \E t \in (Stacked \intersect Tasks) \ set : set' = set \union {t}
<1>0. w \in Threads
  BY DEF Threads
<1>1. /\ Active(w) /\ Top(w).at = "call"
      /\ set' = set \union {Top(w).body} /\ UNCHANGED <<q, hand, lost, refused>>
  BY DEF SetExecuted, At, Executed
<1>2. PICK f \in FrameType : /\ TopIs(w, f) /\ f.body = Top(w).body /\ f.ip = Top(w).ip
                             /\ f.at = "executed"
  BY WorkerGoes
<1>3. Top(w) = stack[w][1] /\ 1 \in Depth(w) /\ Top(w) \in FrameType
  BY <1>0, <1>1, TopFacts DEF StateInv
<1>4. PICK t \in (Stacked \intersect Tasks) \ set : t = Top(w).body
  <2>1. Top(w).body \in Tasks
    BY <1>0, <1>3 DEF CallInv, WellFormed
  <2>2. Top(w).body \notin set
    BY <1>0, <1>1, <1>3 DEF OnceInv, EndInv
  <2>3. Top(w).body \in Stacked
    BY <1>0, <1>3 DEF Stacked, FrameType
  <2> QED  BY <2>1, <2>2, <2>3
<1>5. Queued' = Queued /\ Handed' = Handed /\ QueueOnce' /\ HandOnce'
  BY <1>1 DEF Queued, Handed, OnceInv, QueueOnce, HandOnce
<1>6. Stacked' = Stacked /\ StackOnce' /\ BodiesKept
  <2>1. f.ip >= Top(w).ip
    BY <1>2, <1>3 DEF FrameType
  <2> QED  BY <1>0, <1>1, <1>2, <2>1, GoesOn DEF OnceInv
<1>7. EndInv'
  <2>1. \A y \in Threads : Depth(y)' = Depth(y)
    BY <1>2 DEF TopIs, Depth
  <2>2. ASSUME NEW y \in Threads, NEW i \in Depth(y)
        PROVE  stack'[y][i].at = "executed" <=> stack'[y][i].body \in set'
    <3>1. CASE y = w /\ i = 1
      BY <1>1, <1>2, <3>1 DEF TopIs
    <3>2. CASE y # w \/ i # 1
      <4>1. stack'[y][i] = stack[y][i]
        BY <1>2, <3>2 DEF TopIs
      <4>2. stack[y][i].body # Top(w).body
        BY <1>0, <1>3, <3>2 DEF OnceInv, StackOnce
      <4>3. stack[y][i].at = "executed" <=> stack[y][i].body \in set
        BY DEF OnceInv, EndInv
      <4> QED  BY <1>1, <4>1, <4>2, <4>3
    <3> QED  BY <3>1, <3>2
  <2> QED  BY <2>1, <2>2 DEF EndInv
<1>8. PlaceInv' /\ Known' = Known
  BY <1>1, <1>4, <1>5, <1>6 DEF OnceInv, PlaceInv, Known
<1>9. PassedInv'
  <2>1. Passing({})
    BY DEF Passing
  <2>2. PassedInv /\ Known' \subseteq Known \union {}
    BY <1>8 DEF OnceInv
  <2> QED  BY <1>6, <2>1, <2>2, PassedKept
<1> QED  BY <1>1, <1>4, <1>5, <1>6, <1>7, <1>8, <1>9 DEF OnceInv

LEMMA EndOnce ==
  ASSUME StateInv, OnceInv, NEW w \in Workers, program' = program, EndTask(w)
  PROVE  /\ OnceInv' /\ UNCHANGED <<set, lost, refused>>
         /\ Queued' = Queued /\ Handed' = Handed
         /\ \E t \in set : Stacked' = Stacked \ {t}
<1>0. w \in Threads
  BY DEF Threads
<1>1. /\ Active(w) /\ Top(w).at = "executed" /\ stack' = [stack EXCEPT ![w] = Tail(@)]
      /\ UNCHANGED <<q, hand, set, lost, refused>>
  BY DEF EndTask, At
<1>2. Top(w) = stack[w][1] /\ 1 \in Depth(w)
  BY <1>0, <1>1, TopFacts DEF StateInv
<1>3. Top(w).body \in set
  BY <1>0, <1>1, <1>2 DEF OnceInv, EndInv
<1>4. /\ Stacked' = Stacked \ {Top(w).body} /\ StackOnce'
      /\ \A y \in Threads : \A i \in Depth(y) :
           \/ stack[y][i].body = Top(w).body
           \/ \E j \in 1..Len(stack'[y]) : stack'[y][j] = stack[y][i]
      /\ \A y \in Threads : \A j \in 1..Len(stack'[y]) : \E i \in Depth(y) :
           stack'[y][j] = stack[y][i]
  BY <1>0, <1>1, BodyLeft DEF OnceInv
<1>5. Queued' = Queued /\ Handed' = Handed /\ QueueOnce' /\ HandOnce'
  BY <1>1 DEF Queued, Handed, OnceInv, QueueOnce, HandOnce
<1>6. EndInv'
  <2>1. \A y \in Threads : \A j \in 1..Len(stack'[y]) :
          stack'[y][j].at = "executed" <=> stack'[y][j].body \in set
    BY <1>4 DEF OnceInv, EndInv
  <2> QED  BY <1>1, <2>1 DEF EndInv, Depth
<1>7. BodiesKept
  <2>1. \A y \in Threads : \A i \in Depth(y) : stack[y][i].ip \in Nat
    BY FrameFacts DEF StateInv, FrameType
  <2>2. \A y \in Threads : \A i \in Depth(y) :
           \/ stack[y][i].body \in set
           \/ \E j \in 1..Len(stack'[y]) :
                /\ stack'[y][j].body = stack[y][i].body
                /\ stack'[y][j].ip >= stack[y][i].ip /\ stack'[y][j].ip \in Nat
    BY <1>3, <1>4, <2>1
  <2> QED  BY <1>1, <2>2 DEF BodiesKept
<1>8. PlaceInv' /\ Known' = Known
  BY <1>1, <1>3, <1>4, <1>5 DEF OnceInv, PlaceInv, Known
<1>9. PassedInv'
  <2>1. Passing({})
    BY DEF Passing
  <2>2. PassedInv /\ Known' \subseteq Known \union {}
    BY <1>8 DEF OnceInv
  <2> QED  BY <1>7, <2>1, <2>2, PassedKept
<1> QED  BY <1>1, <1>3, <1>4, <1>5, <1>6, <1>8, <1>9 DEF OnceInv

(* Nothing moves at all.                                                   *)
LEMMA IdleOnce ==
  ASSUME OnceInv, UNCHANGED <<program, q, hand, stack, set, lost, refused>>
  PROVE  /\ OnceInv' /\ Queued' = Queued /\ Handed' = Handed /\ Stacked' = Stacked
         /\ UNCHANGED <<set, lost, refused>>
<1>1. Queued' = Queued /\ Handed' = Handed /\ Stacked' = Stacked
  BY DEF Queued, Handed, Stacked, Depth
<1>2. QueueOnce' /\ HandOnce' /\ StackOnce' /\ EndInv'
  BY DEF OnceInv, QueueOnce, HandOnce, StackOnce, EndInv, Depth
<1>3. PlaceInv' /\ PassedInv'
  BY <1>1 DEF OnceInv, PlaceInv, PassedInv, Passed, Known, Depth
<1> QED  BY <1>1, <1>2, <1>3 DEF OnceInv

LEMMA PollOnce ==
  ASSUME StateInv, OnceInv, NEW w \in Workers, program' = program, GetPoll(w) \/ HelpNothing(w)
  PROVE  /\ OnceInv' /\ Queued' = Queued /\ Handed' = Handed /\ Stacked' = Stacked
         /\ UNCHANGED <<set, lost, refused>>
<1>1. UNCHANGED <<q, hand, set, lost, refused>> /\ w \in Threads
  BY DEF GetPoll, HelpNothing, Threads
<1>2. ~SetExecuted(w)
  BY DEF GetPoll, HelpNothing, SetExecuted, At
<1>3. PICK f \in FrameType :
        /\ Active(w) /\ TopIs(w, f) /\ f.body = Top(w).body /\ f.ip = Top(w).ip
        /\ f.at # "executed" /\ Top(w).at # "executed"
  BY <1>2, WorkerGoes
<1>4. f.ip >= Top(w).ip
  BY <1>3 DEF FrameType
<1> QED  BY <1>1, <1>3, <1>4, SilentOnce

LEMMA InitOnce ==
  ASSUME Init
  PROVE  OnceInv /\ Known \intersect Tasks = {}
<1>0. StateInv /\ CallInv
  BY InitInv
<1>1. /\ q = [w \in Workers |-> <<>>] /\ hand = [w \in Workers |-> NoTask]
      /\ set = {} /\ lost = {} /\ refused = {}
  BY DEF Init
<1>2. Queued = {} /\ QueueOnce
  <2>1. \A v \in Workers : \A i \in 1..Len(q[v]) : FALSE
    <3>1. \A v \in Workers : q[v] = <<>>
      BY <1>1
    <3>2. Len(<<>>) = 0 /\ \A i \in 1..0 : FALSE
      OBVIOUS
    <3> QED  BY <3>1, <3>2
  <2> QED  BY <2>1 DEF Queued, QueueOnce
<1>3. Handed = {} /\ HandOnce
  BY <1>1, ExecutorAssumption DEF Handed, HandOnce
<1>4. ASSUME NEW x \in Threads, NEW i \in Depth(x)
      PROVE  x \in Clients /\ i = 1 /\ stack[x][i].body = x /\ stack[x][i].at = "call"
  <2>1. stack[x] = IF x \in Clients THEN <<Frame(x)>> ELSE <<>>
    BY DEF Init
  <2>2. CASE x \in Clients
    <3>1. PICK f : f = Frame(x)
      OBVIOUS
    <3>2. stack[x] = <<f>> /\ i \in 1..1
      BY <2>1, <2>2, <3>1 DEF Depth
    <3>3. f.body = x /\ f.at = "call"
      BY <3>1 DEF Frame
    <3> QED  BY <2>2, <3>2, <3>3
  <2>3. CASE x \notin Clients
    <3>1. i \in 1..0
      BY <2>1, <2>3 DEF Depth
    <3> QED  BY <3>1
  <2> QED  BY <2>2, <2>3
<1>5. StackOnce /\ EndInv /\ Stacked \subseteq Clients
  BY <1>1, <1>4 DEF StackOnce, EndInv, Stacked
<1>6. Stacked \intersect Tasks = {}
  BY <1>5, ExecutorAssumption
<1>7. PlaceInv
  BY <1>1, <1>2, <1>3 DEF PlaceInv
<1>8. Known \intersect Tasks = {}
  BY <1>1, <1>2, <1>3, <1>6 DEF Known
<1>9. PassedInv
  <2>1. \A b \in Bodies : \A i \in PushesOf(program, b) : program[b][i].task \in Tasks
    BY <1>0, ProgramFacts DEF PushesOf, StateInv
  <2> QED  BY <1>8, <2>1 DEF PassedInv
<1> QED  BY <1>2, <1>3, <1>5, <1>7, <1>8, <1>9 DEF OnceInv

-----------------------------------------------------------------------------
(* The inductive invariant.                                                *)
PoolInv == StateInv /\ CallInv /\ LockInv /\ StopInv /\ OnceInv

LEMMA InitPool == Init => PoolInv
<1> SUFFICES ASSUME Init PROVE PoolInv
  OBVIOUS
<1>1. StateInv /\ CallInv /\ OnceInv
  BY InitInv, InitOnce
<1>2. \A x \in Threads : \A i \in Depth(x) : stack[x][i].at = "call"
  <2> SUFFICES ASSUME NEW x \in Threads, NEW i \in Depth(x) PROVE stack[x][i].at = "call"
    OBVIOUS
  <2>1. stack[x] = IF x \in Clients THEN <<Frame(x)>> ELSE <<>>
    BY DEF Init
  <2>2. PICK f : f = Frame(x) /\ f.at = "call"
    <3>1. Frame(x).at = "call"
      BY DEF Frame
    <3> QED  BY <3>1
  <2>3. CASE x \in Clients
    <3>1. stack[x] = <<f>> /\ i \in 1..1
      BY <2>1, <2>2, <2>3 DEF Depth
    <3> QED  BY <2>2, <3>1
  <2>4. CASE x \notin Clients
    <3>1. i \in 1..0
      BY <2>1, <2>4 DEF Depth
    <3> QED  BY <3>1
  <2> QED  BY <2>3, <2>4
<1>3. LockInv
  BY <1>2 DEF Init, LockInv, Hold, Quiet
<1>4. StopInv
  BY <1>2 DEF Init, StopInv
<1> QED  BY <1>1, <1>3, <1>4 DEF PoolInv

LEMMA OnceStep ==
  ASSUME PoolInv, Next
  PROVE  OnceInv'
<1> USE DEF PoolInv
<1>1. ASSUME NEW x \in Threads, CallStep(x) PROVE OnceInv'
  <2>1. CASE PushRefused(x) \/ \E v \in Workers : Enqueue(x, v) \/ EnqueueClosed(x, v)
    BY <1>1, <2>1, PushOnce DEF CallStep
  <2>2. CASE ~(PushRefused(x) \/ \E v \in Workers : Enqueue(x, v) \/ EnqueueClosed(x, v))
    BY <1>1, <2>2, CallOnce
  <2> QED  BY <2>1, <2>2
<1>2. ASSUME NEW w \in Workers, WorkerStep(w) PROVE OnceInv'
  <2>0. program' = program
    BY <1>2 DEF WorkerStep
  <2>1. CASE LoopTest(w) \/ StealNothing(w) \/ PopClosed(w)
    BY <2>0, <2>1, IdleOnce DEF LoopTest, StealNothing, PopClosed
  <2>2. CASE GetPoll(w) \/ HelpNothing(w)
    BY <2>0, <2>2, PollOnce
  <2>3. CASE Pop(w) \/ \E v \in Workers : Steal(w, v)
    BY <2>0, <2>3, TakeOnce
  <2>4. CASE CheckStopped(w)
    BY <2>0, <2>4, DropOnce
  <2>5. CASE Run(w) \/ \E v \in Workers : Help(w, v) \/ WaitHelp(w, v)
    BY <2>0, <2>5, EnterOnce
  <2>6. CASE SetExecuted(w)
    BY <2>0, <2>6, ExecutedOnce
  <2>7. CASE EndTask(w)
    BY <2>0, <2>7, EndOnce
  <2> QED  BY <1>2, <2>1, <2>2, <2>3, <2>4, <2>5, <2>6, <2>7 DEF WorkerStep
<1> QED  BY <1>1, <1>2 DEF Next

LEMMA NextPool == PoolInv /\ [Next]_vars => PoolInv'
<1> SUFFICES ASSUME PoolInv, [Next]_vars PROVE PoolInv'
  OBVIOUS
<1>1. CASE Next
  <2>1. StateInv' /\ CallInv' /\ LockInv' /\ StopInv'
    <3>1. ASSUME NEW x \in Threads, CallStep(x) PROVE StateInv' /\ CallInv' /\ LockInv' /\ StopInv'
      BY <3>1, CallState, CallCalls, CallKeepsLock, CallKeepsStop DEF PoolInv
    <3>2. ASSUME NEW w \in Workers, WorkerStep(w) PROVE StateInv' /\ CallInv' /\ LockInv' /\ StopInv'
      BY <3>2, WorkerState, WorkerCalls, WorkerKeepsLock, WorkerKeepsStop DEF PoolInv
    <3> QED  BY <1>1, <3>1, <3>2 DEF Next
  <2> QED  BY <1>1, <2>1, OnceStep DEF PoolInv
<1>2. CASE UNCHANGED vars
  <2> USE <1>2 DEF PoolInv, vars
  <2>1. StateInv' /\ CallInv'
    BY DEF StateInv, CallInv, WellFormed, Depth
  <2>2. LockInv' /\ StopInv'
    BY DEF LockInv, StopInv, Depth
  <2>3. OnceInv'
    BY IdleOnce
  <2> QED  BY <2>1, <2>2, <2>3
<1> QED  BY <1>1, <1>2

(* The invariant always holds, whatever pushes, steals, helps, waits and    *)
(* stops at a time.                                                        *)
THEOREM PoolAlways == Spec => []PoolInv
BY InitPool, NextPool, PTL DEF Spec

(* Every variable keeps its type.                                          *)
THEOREM TypeCorrect == Spec => []TypeOK
<1>1. PoolInv => TypeOK
  BY DEF PoolInv, StateInv, TypeOK, Stacks, FrameType, Bodies, Labels
<1> QED  BY <1>1, PoolAlways, PTL

(* A push that gets m_wait finds the executor running: its condition        *)
(* variable never sleeps (executor.h:599-604).                             *)
THEOREM PushNeverWaits == Spec => []PushNeverSleeps
<1>1. PoolInv => PushNeverSleeps
  <2> SUFFICES ASSUME PoolInv, NEW x \in Threads, At(x, "push_test") PROVE waiting = "Running"
    BY DEF PushNeverSleeps
  <2>1. Top(x) = stack[x][1] /\ 1 \in Depth(x) /\ Top(x).at = "push_test"
    BY TopFacts DEF At, PoolInv, StateInv
  <2> QED  BY <2>1 DEF PoolInv, LockInv, Quiet
<1> QED  BY <1>1, PoolAlways, PTL

(* A worker that has no task after get_task() is about to leave: run_task() *)
(* never calls an empty function.                                          *)
THEOREM NothingEmptyRuns == Spec => []NeverRunsEmpty
<1>1. PoolInv => NeverRunsEmpty
  BY DEF PoolInv, StopInv, NeverRunsEmpty
<1> QED  BY <1>1, PoolAlways, PTL

-----------------------------------------------------------------------------
(* The places of a task, as the run counts them.                           *)
LEMMA AtMostOne ==
  ASSUME NEW S, \A r, u \in S : r = u
  PROVE  IF S = {} THEN Cardinality(S) = 0 ELSE Cardinality(S) = 1
<1>1. S = {} \/ \E r : S = {r}
  OBVIOUS
<1> QED  BY <1>1, FS_EmptySet, FS_Singleton

LEMMA QueuePlacesAre ==
  ASSUME StateInv, QueueOnce, NEW t \in Tasks
  PROVE  /\ QueuePlaces(t) # {} <=> t \in Queued
         /\ \A r, u \in QueuePlaces(t) : r = u
<1>1. \A v \in Workers : DOMAIN q[v] = 1..Len(q[v])
  BY DEF StateInv
<1>2. \A r : r \in QueuePlaces(t) <=> \E v \in Workers : \E i \in 1..Len(q[v]) :
                                        r = <<v, i>> /\ q[v][i] = t
  BY <1>1 DEF QueuePlaces
<1>3. QueuePlaces(t) # {} <=> t \in Queued
  BY <1>2 DEF Queued
<1>4. \A r, u \in QueuePlaces(t) : r = u
  BY <1>2 DEF QueueOnce
<1> QED  BY <1>3, <1>4

LEMMA HandPlacesAre ==
  ASSUME StateInv, HandOnce, NEW t \in Tasks
  PROVE  /\ HandPlaces(t) # {} <=> t \in Handed
         /\ \A r, u \in HandPlaces(t) : r = u
BY ExecutorAssumption DEF HandPlaces, Handed, HandOnce

LEMMA StackPlacesAre ==
  ASSUME StateInv, StackOnce, EndInv, NEW t \in Tasks
  PROVE  /\ StackPlaces(t) # {} <=> t \in Stacked \ set
         /\ \A r, u \in StackPlaces(t) : r = u
<1>1. \A x \in Threads : DOMAIN stack[x] = Depth(x)
  BY DEF StateInv, Stacks, Depth
<1>2. \A r : r \in StackPlaces(t) <=>
               \E x \in Threads : \E i \in Depth(x) :
                 r = <<x, i>> /\ stack[x][i].body = t /\ stack[x][i].at # "executed"
  BY <1>1 DEF StackPlaces
<1>3. t \in Stacked <=> \E x \in Threads : \E i \in Depth(x) : stack[x][i].body = t
  BY DEF Stacked, Bodies
<1>4. StackPlaces(t) # {} <=> t \in Stacked \ set
  BY <1>2, <1>3 DEF EndInv
<1>5. \A r, u \in StackPlaces(t) : r = u
  BY <1>2 DEF StackOnce
<1> QED  BY <1>4, <1>5

LEMMA EndPlacesAre ==
  ASSUME PlaceInv, NEW t \in Tasks
  PROVE  /\ EndPlaces(t) # {} <=> t \in set \union lost \union refused
         /\ \A r, u \in EndPlaces(t) : r = u
<1>1. \A r : r \in EndPlaces(t) <=> \/ r = <<"set", set>> /\ t \in set
                                    \/ r = <<"lost", lost>> /\ t \in lost
                                    \/ r = <<"refused", refused>> /\ t \in refused
  BY DEF EndPlaces
<1>2. EndPlaces(t) # {} <=> t \in set \union lost \union refused
  BY <1>1
<1> QED  BY <1>1, <1>2 DEF PlaceInv

(* Stealing, helping and the two ways of pushing never run a task twice:    *)
(* it is at one position of one queue, in one worker's hand, on one stack,  *)
(* or at its end (executor.h:350-470, 536-610).                            *)
THEOREM TasksInOnePlace == Spec => []InOnePlace
<1>1. PoolInv => InOnePlace
  <2> SUFFICES ASSUME PoolInv, NEW t \in Tasks
               PROVE  Cardinality(QueuePlaces(t)) + Cardinality(HandPlaces(t))
                        + Cardinality(StackPlaces(t)) + Cardinality(EndPlaces(t)) <= 1
    BY DEF InOnePlace, PoolInv, StateInv, TypeOK, Stacks, FrameType, Bodies, Labels
  <2>1. /\ QueuePlaces(t) # {} <=> t \in Queued
        /\ HandPlaces(t) # {} <=> t \in Handed
        /\ StackPlaces(t) # {} <=> t \in Stacked \ set
        /\ EndPlaces(t) # {} <=> t \in set \union lost \union refused
    BY QueuePlacesAre, HandPlacesAre, StackPlacesAre, EndPlacesAre DEF PoolInv, OnceInv
  <2>2. /\ Cardinality(QueuePlaces(t)) = IF t \in Queued THEN 1 ELSE 0
        /\ Cardinality(HandPlaces(t)) = IF t \in Handed THEN 1 ELSE 0
        /\ Cardinality(StackPlaces(t)) = IF t \in Stacked \ set THEN 1 ELSE 0
        /\ Cardinality(EndPlaces(t)) = IF t \in set \union lost \union refused THEN 1 ELSE 0
    <3>1. Cardinality(QueuePlaces(t)) = IF t \in Queued THEN 1 ELSE 0
      BY <2>1, QueuePlacesAre, AtMostOne DEF PoolInv, OnceInv
    <3>2. Cardinality(HandPlaces(t)) = IF t \in Handed THEN 1 ELSE 0
      BY <2>1, HandPlacesAre, AtMostOne DEF PoolInv, OnceInv
    <3>3. Cardinality(StackPlaces(t)) = IF t \in Stacked \ set THEN 1 ELSE 0
      BY <2>1, StackPlacesAre, AtMostOne DEF PoolInv, OnceInv
    <3>4. Cardinality(EndPlaces(t)) = IF t \in set \union lost \union refused THEN 1 ELSE 0
      BY <2>1, EndPlacesAre, AtMostOne DEF PoolInv, OnceInv
    <3> QED  BY <3>1, <3>2, <3>3, <3>4
  <2>3. /\ t \in Queued => t \notin Handed \union Stacked \union set \union lost \union refused
        /\ t \in Handed => t \notin Stacked \union set \union lost \union refused
        /\ t \in Stacked \ set => t \notin set \union lost \union refused
    BY DEF PoolInv, OnceInv, PlaceInv
  <2> QED  BY <2>2, <2>3
<1> QED  BY <1>1, PoolAlways, PTL

-----------------------------------------------------------------------------
(* The pool keeps its promise.                                             *)
StatusIs == \A t \in Tasks :
  Status(t) = IF t \in set THEN "done"
              ELSE IF t \in lost THEN "lost"
              ELSE IF t \in refused THEN "refused"
              ELSE IF t \in Stacked THEN "running"
              ELSE IF t \in Queued \union Handed THEN "queued" ELSE "new"

LEMMA StatusFacts == PoolInv => StatusIs
<1> SUFFICES ASSUME PoolInv, NEW t \in Tasks
             PROVE  Status(t) = IF t \in set THEN "done"
                                ELSE IF t \in lost THEN "lost"
                                ELSE IF t \in refused THEN "refused"
                                ELSE IF t \in Stacked THEN "running"
                                ELSE IF t \in Queued \union Handed THEN "queued" ELSE "new"
  BY DEF StatusIs
<1>1. /\ QueuePlaces(t) # {} <=> t \in Queued
      /\ HandPlaces(t) # {} <=> t \in Handed
      /\ StackPlaces(t) # {} <=> t \in Stacked \ set
  BY QueuePlacesAre, HandPlacesAre, StackPlacesAre DEF PoolInv, OnceInv
<1>2. QueuePlaces(t) \union HandPlaces(t) # {} <=> t \in Queued \union Handed
  BY <1>1
<1>3. CASE t \in set
  <2>1. /\ t \notin lost /\ t \notin refused /\ StackPlaces(t) = {}
        /\ QueuePlaces(t) \union HandPlaces(t) = {}
    BY <1>1, <1>2, <1>3 DEF PoolInv, OnceInv, PlaceInv
  <2> QED  BY <1>3, <2>1 DEF Status
<1>4. CASE t \notin set
  <2>1. PICK running, queued \in BOOLEAN : /\ running = (StackPlaces(t) # {})
                                           /\ queued = (QueuePlaces(t) \union HandPlaces(t) # {})
    OBVIOUS
  <2>2. Status(t) = CASE t \in set -> "done"
                      [] t \in lost -> "lost"
                      [] t \in refused -> "refused"
                      [] running -> "running"
                      [] queued -> "queued"
                      [] OTHER -> "new"
    BY <2>1 DEF Status
  <2>3. running = (t \in Stacked) /\ queued = (t \in Queued \union Handed)
    BY <1>1, <1>2, <1>4, <2>1
  <2> QED  BY <1>4, <2>2, <2>3 DEF PoolInv, OnceInv, PlaceInv
<1> QED  BY <1>3, <1>4


Phase == [t \in Tasks |-> Status(t)]

(* A step that moves one task changes the phase of that one.               *)
SamePlaces(r) ==
  /\ (r \in set <=> r \in set') /\ (r \in lost <=> r \in lost') /\ (r \in refused <=> r \in refused')
  /\ (r \in Stacked <=> r \in Stacked')
  /\ (r \in Queued \union Handed <=> r \in Queued' \union Handed')

LEMMA PhaseMoves ==
  ASSUME StatusIs, StatusIs', NEW t \in Tasks, \A r \in Tasks \ {t} : SamePlaces(r)
  PROVE  Phase' = [Phase EXCEPT ![t] = Status(t)'] /\ Phase[t] = Status(t)
<1>1. \A r \in Tasks \ {t} : Status(r)' = Status(r)
  BY DEF StatusIs, SamePlaces
<1> QED  BY <1>1 DEF Phase

LEMMA PhaseStays ==
  ASSUME StatusIs, StatusIs', \A r \in Tasks : SamePlaces(r)
  PROVE  Phase' = Phase
<1>1. \A r \in Tasks : Status(r)' = Status(r)
  BY DEF StatusIs, SamePlaces
<1> QED  BY <1>1 DEF Phase

LEMMA CallPromise ==
  ASSUME PoolInv, StatusIs, StatusIs', NEW x \in Threads, CallStep(x)
  PROVE  Promise!Next \/ UNCHANGED Promise!vars
<1> USE DEF PoolInv
<1>1. CASE PushRefused(x) \/ \E v \in Workers : Enqueue(x, v) \/ EnqueueClosed(x, v)
  <2>1. PICK t \in Tasks \ Known : PushMoves(t)
    BY <1>1, PushOnce DEF CallStep
  <2>2. Phase' = [Phase EXCEPT ![t] = Status(t)'] /\ Phase[t] = Status(t)
    <3>1. \A r \in Tasks \ {t} : SamePlaces(r)
      BY <2>1 DEF PushMoves, SamePlaces
    <3> QED  BY <3>1, PhaseMoves
  <2>3. Status(t) = "new"
    BY DEF StatusIs, Known
  <2>4. stopped' = stopped
    BY <1>1 DEF PushRefused, Enqueue, EnqueueClosed
  <2>5. t \notin Known
    OBVIOUS
  <2>6. \/ Status(t)' = "queued" \/ Status(t)' = "refused" \/ (Status(t)' = "lost" /\ stopped)
    BY <2>1, <2>5 DEF StatusIs, PushMoves, Known
  <2> QED  BY <2>2, <2>3, <2>4, <2>6 DEF Promise!Next, Promise!Submit, Promise!Refuse, Promise!GiveUp,
             Promise!Become, Phase
<1>2. CASE ~(PushRefused(x) \/ \E v \in Workers : Enqueue(x, v) \/ EnqueueClosed(x, v))
  <2>1. /\ Queued' = Queued /\ Handed' = Handed /\ Stacked' = Stacked
        /\ UNCHANGED <<set, lost, refused>>
    BY <1>2, CallOnce
  <2>2. Phase' = Phase
    BY <2>1, PhaseStays DEF SamePlaces
  <2>3. stopped' = stopped \/ stopped' = TRUE
    BY <1>2 DEF CallStep, PushBlocked, PushAdmitted, PushLock, PushUnlock, GetReturn, GetWait,
       StopFlag, FlagRaised, StopQueue, StopReturn, JoinThreads, WaitLock, WaitOther, WaitOtherLock,
       WaitOtherReturn, WaitEmpty, WaitFree, WaitIdle, WaitReturn
  <2> QED  BY <2>2, <2>3 DEF Promise!Next, Promise!Stop, Promise!vars, Phase
<1> QED  BY <1>1, <1>2

LEMMA WorkerPromise ==
  ASSUME PoolInv, StatusIs, StatusIs', NEW w \in Workers, WorkerStep(w)
  PROVE  Promise!Next \/ UNCHANGED Promise!vars
<1> USE DEF PoolInv
<1>0. program' = program /\ stopped' = stopped
  BY DEF WorkerStep, LoopTest, StealNothing, Pop, PopClosed, CheckStopped, Run, SetExecuted,
         EndTask, GetPoll, HelpNothing, Steal, Help, WaitHelp
<1>1. ASSUME Phase' = Phase PROVE UNCHANGED Promise!vars
  BY <1>0, <1>1 DEF Promise!vars, Phase
<1>2. CASE LoopTest(w) \/ StealNothing(w) \/ PopClosed(w) \/ GetPoll(w) \/ HelpNothing(w)
  <2>1. /\ Queued' = Queued /\ Handed' = Handed /\ Stacked' = Stacked
        /\ UNCHANGED <<set, lost, refused>>
    BY <1>0, <1>2, IdleOnce, PollOnce DEF LoopTest, StealNothing, PopClosed
  <2>2. Phase' = Phase
    BY <2>1, PhaseStays DEF SamePlaces
  <2> QED  BY <1>1, <2>2
<1>3. CASE Pop(w) \/ \E v \in Workers : Steal(w, v)
  <2>1. PICK t \in Queued : /\ UNCHANGED <<set, lost, refused>> /\ Stacked' = Stacked
                            /\ Queued' = Queued \ {t} /\ Handed' = Handed \union {t}
    BY <1>0, <1>3, TakeOnce
  <2>2. Phase' = Phase
    BY <2>1, PhaseStays DEF SamePlaces
  <2> QED  BY <1>1, <2>2
<1>4. CASE CheckStopped(w)
  <2>1. PICK T \in SUBSET Handed :
          /\ UNCHANGED <<set, refused>> /\ Stacked' = Stacked /\ Queued' = Queued
          /\ Handed' = Handed \ T /\ lost' = lost \union T /\ \A r, u \in T : r = u
    BY <1>0, <1>4, DropOnce
  <2>2. CASE T = {}
    <3>1. Phase' = Phase
      BY <2>1, <2>2, PhaseStays DEF SamePlaces
    <3> QED  BY <1>1, <3>1
  <2>3. CASE T # {}
    <3>1. PICK t \in Tasks : T = {t} /\ t \in Handed
      BY <2>1, <2>3 DEF Handed
    <3>2. Phase' = [Phase EXCEPT ![t] = Status(t)'] /\ Phase[t] = Status(t)
      <4>1. \A r \in Tasks \ {t} : SamePlaces(r)
        BY <2>1, <3>1 DEF SamePlaces
      <4> QED  BY <4>1, PhaseMoves
    <3>3. Status(t) = "queued" /\ Status(t)' = "lost" /\ stopped
      BY <1>4, <2>1, <3>1 DEF StatusIs, OnceInv, PlaceInv, CheckStopped
    <3> QED  BY <1>0, <3>2, <3>3 DEF Promise!Next, Promise!GiveUp, Promise!Become, Phase
  <2> QED  BY <2>2, <2>3
<1>5. CASE Run(w) \/ \E v \in Workers : Help(w, v) \/ WaitHelp(w, v)
  <2>1. PICK t \in Queued \union Handed : EnterMoves(t)
    BY <1>0, <1>5, EnterOnce
  <2>2. t \in Tasks
    BY DEF Queued, Handed
  <2>3. Phase' = [Phase EXCEPT ![t] = Status(t)'] /\ Phase[t] = Status(t)
    <3>1. \A r \in Tasks \ {t} : SamePlaces(r)
      BY <2>1 DEF EnterMoves, SamePlaces
    <3> QED  BY <2>2, <3>1, PhaseMoves
  <2>4. Status(t) = "queued" /\ Status(t)' = "running"
    BY <2>1, <2>2 DEF StatusIs, OnceInv, PlaceInv, EnterMoves
  <2> QED  BY <1>0, <2>2, <2>3, <2>4 DEF Promise!Next, Promise!Start, Promise!Become, Phase
<1>6. CASE SetExecuted(w)
  <2>1. PICK t \in (Stacked \intersect Tasks) \ set :
          /\ UNCHANGED <<lost, refused>> /\ set' = set \union {t}
          /\ Queued' = Queued /\ Handed' = Handed /\ Stacked' = Stacked
    BY <1>0, <1>6, ExecutedOnce
  <2>2. Phase' = [Phase EXCEPT ![t] = Status(t)'] /\ Phase[t] = Status(t)
    <3>1. \A r \in Tasks \ {t} : SamePlaces(r)
      BY <2>1 DEF SamePlaces
    <3> QED  BY <3>1, PhaseMoves
  <2>3. Status(t) = "running" /\ Status(t)' = "done"
    BY <2>1 DEF StatusIs, OnceInv, PlaceInv
  <2> QED  BY <1>0, <2>2, <2>3 DEF Promise!Next, Promise!Finish, Promise!Become, Phase
<1>7. CASE EndTask(w)
  <2>1. PICK t \in set : /\ UNCHANGED <<set, lost, refused>> /\ Stacked' = Stacked \ {t}
                         /\ Queued' = Queued /\ Handed' = Handed
    BY <1>0, <1>7, EndOnce
  <2>2. t \in Tasks
    BY DEF StateInv
  <2>3. Phase' = [Phase EXCEPT ![t] = Status(t)'] /\ Phase[t] = Status(t)
    <3>1. \A r \in Tasks \ {t} : SamePlaces(r)
      BY <2>1 DEF SamePlaces
    <3> QED  BY <2>2, <3>1, PhaseMoves
  <2>4. Status(t) = "done" /\ Status(t)' = "done"
    BY <2>1, <2>2 DEF StatusIs
  <2>5. Phase' = Phase
    BY <2>3, <2>4 DEF Phase
  <2> QED  BY <1>1, <2>5
<1> QED  BY <1>2, <1>3, <1>4, <1>5, <1>6, <1>7 DEF WorkerStep

(* A task is new, queued, running and done, or given up after a stop, or    *)
(* refused: whichever threads push, steal, help, wait and stop at a time.   *)
THEOREM PoolKeepsPromise == Spec => ImplementsTaskPool
<1>1. Init => Promise!Init
  <2> SUFFICES ASSUME Init PROVE Promise!Init
    OBVIOUS
  <2>1. StatusIs /\ PoolInv
    BY InitPool, StatusFacts
  <2>2. \A t \in Tasks : Status(t) = "new"
    BY <2>1, InitOnce DEF StatusIs, Known
  <2> QED  BY <2>2 DEF Init, Promise!Init
<1>2. PoolInv /\ StatusIs /\ StatusIs' /\ [Next]_vars => [Promise!Next]_(Promise!vars)
  <2> SUFFICES ASSUME PoolInv, StatusIs, StatusIs', [Next]_vars
               PROVE  Promise!Next \/ UNCHANGED Promise!vars
    OBVIOUS
  <2>1. CASE Next
    BY <2>1, CallPromise, WorkerPromise DEF Next
  <2>2. CASE UNCHANGED vars
    <3>1. /\ Queued' = Queued /\ Handed' = Handed /\ Stacked' = Stacked
          /\ UNCHANGED <<set, lost, refused, stopped>>
      BY <2>2, IdleOnce DEF vars, PoolInv
    <3>2. Phase' = Phase
      BY <3>1, PhaseStays DEF SamePlaces
    <3> QED  BY <3>1, <3>2 DEF Promise!vars, Phase
  <2> QED  BY <2>1, <2>2
<1> QED  BY <1>1, <1>2, StatusFacts, PoolAlways, PTL DEF Spec, ImplementsTaskPool, Promise!Spec

-----------------------------------------------------------------------------
(* A program in which no task waits inside the pool, one client at most    *)
(* waits for the pool, and it waits again after a wait that blocks what    *)
(* comes in only if all pushes are its own.                                *)
Flat(p) ==
  /\ \A t \in Tasks : \A i \in 1..Len(p[t]) : p[t][i].op \notin {"get", "wait"}
  /\ \A c, d \in Clients : \A i \in 1..Len(p[c]), j \in 1..Len(p[d]) :
       p[c][i].op = "wait" /\ p[d][j].op = "wait"
         => /\ c = d
            /\ i < j /\ p[c][i].policy = "BlockIncoming"
                 => \A b \in Bodies \ {c} : PushesOf(p, b) = {}

First(x) == stack[x][1]
CallOf(f) == program[f.body][f.ip]
Mine(c) == {program[c][i].task : i \in {j \in PushesOf(program, c) : j < First(c).ip}}

(* A client executes its own program only.                                 *)
ClientInv == \A c \in Clients :
  Len(stack[c]) = 1 /\ First(c).body = c /\ (First(c).at = "call" => First(c).k = 1)

(* A worker has one task at a time, and is busy while it has.               *)
WorkerInv == \A w \in Workers :
  /\ Len(stack[w]) \in {0, 1}
  /\ Len(stack[w]) = 1 => /\ loop[w] = "test"
                          /\ First(w).at \in PushLabels \union {"call", "executed", "stopping"}
  /\ Len(stack[w]) = 1 \/ hand[w] # NoTask => busy[w]

(* Inside a call the body is at that call; no wait meets another.           *)
OpIs(f) ==
  /\ f.at \notin {"wait_other", "wait_unlock"}
  /\ f.at \in {"wait_empty", "wait_busy"} =>
       f.ip \in 1..Len(program[f.body]) /\ CallOf(f).op = "wait"
  /\ f.at = "stopping" => CallOf(f).op = "stop"
  /\ f.at = "getting" => CallOf(f).op = "get"
OpInv == \A x \in Threads : Len(stack[x]) = 1 => OpIs(First(x))

HolderInv == mwait # NoThread => Len(stack[mwait]) = 1 /\ First(mwait).at \in Hold

(* Pushes are blocked once a wait that blocks them has begun.              *)
BlockBegun == \E d \in Clients : \E i \in 1..Len(program[d]) :
  /\ program[d][i] = Wait("BlockIncoming")
  /\ i < First(d).ip \/ (i = First(d).ip /\ First(d).at # "call")
BlockInv ==
  /\ waiting = "BlockIncoming" => BlockBegun
  /\ \A x \in Threads :
       Len(stack[x]) = 1 /\ First(x).at \in {"push_lock", "push_test"} => BlockBegun

LostInv == lost # {} => stopped
MineInv == \A c \in Clients : Mine(c) \subseteq Known

(* What a wait has seen: the queues it has passed hold no task of its       *)
(* client, and then the threads it has passed have none either.            *)
QueueFree(c, v) == \A i \in 1..Len(q[v]) : q[v][i] \notin Mine(c)
WorkerFree(c, w) ==
  hand[w] \notin Mine(c) /\ (Len(stack[w]) = 1 => First(w).body \notin Mine(c))
SeenInv == \A c \in Clients : ~stopped =>
  /\ First(c).at = "wait_empty" => \A v \in Workers : v < First(c).k => QueueFree(c, v)
  /\ First(c).at = "wait_busy" =>
       \A v \in Workers : QueueFree(c, v) /\ (v < First(c).k => WorkerFree(c, v))
WaitedInv == \A c \in Clients :
  ~stopped /\ First(c).at = "call" /\ First(c).ip > 1 /\ program[c][First(c).ip - 1].op = "wait"
    => Mine(c) \subseteq set \union refused

FlatInv ==
  /\ ClientInv /\ WorkerInv /\ OpInv /\ HolderInv /\ BlockInv
  /\ LostInv /\ MineInv /\ SeenInv /\ WaitedInv

Shaped == ClientInv /\ WorkerInv /\ OpInv

(* A call that is not over is one of the program.                          *)
LEMMA CallRange ==
  ASSUME StateInv, NEW x \in Threads, Active(x), ~Over(x)
  PROVE  Top(x).ip \in 1..Len(program[Top(x).body])
<1>1. program \in [Bodies -> Seq(Calls)]
  BY ExecutorAssumption DEF StateInv, Bodies
<1>2. Top(x) \in FrameType
  BY TopFacts DEF StateInv
<1> QED  BY <1>1, <1>2 DEF Over, FrameType

LEMMA FlatTop ==
  ASSUME StateInv, ClientInv, WorkerInv, NEW x \in Threads
  PROVE  /\ Len(stack[x]) \in {0, 1} /\ (Active(x) <=> Len(stack[x]) = 1)
         /\ x \in Clients => Len(stack[x]) = 1
         /\ Len(stack[x]) = 1 => /\ Top(x) = First(x) /\ First(x) \in FrameType
                                 /\ 1 \in Depth(x)
<1>1. stack[x] \in Seq(FrameType)
  BY DEF StateInv, Stacks
<1>2. Len(stack[x]) \in {0, 1} /\ (x \in Clients => Len(stack[x]) = 1)
  BY DEF ClientInv, WorkerInv, Threads
<1>3. Active(x) <=> Len(stack[x]) = 1
  BY <1>1, <1>2 DEF Active
<1>4. ASSUME Len(stack[x]) = 1
      PROVE  Top(x) = First(x) /\ First(x) \in FrameType /\ 1 \in Depth(x)
  BY <1>3, <1>4, TopFacts DEF First, StateInv
<1> QED  BY <1>2, <1>3, <1>4 DEF First

(* The stacks after a call: one body has gone on.                          *)
LEMMA TopMoves ==
  ASSUME NEW x \in Threads, NEW f \in FrameType, TopIs(x, f), NEW y \in Threads
  PROVE  /\ Len(stack[y])' = Len(stack[y]) /\ First(x)' = f
         /\ y # x /\ Len(stack[y]) = 1 => First(y)' = First(y)
<1>1. Len(stack[y]) = 1 => 1 \in Depth(y)
  BY DEF Depth
<1> QED  BY <1>1 DEF TopIs, First

(* What a call does to the body that makes it.                             *)
Begins(g, f) ==
  /\ g.at = "call" /\ g.ip \in 1..Len(program[g.body]) /\ f.ip = g.ip /\ f.k = g.k
  /\ \/ CallOf(g).op = "push" /\ f.at \in {"push_lock", "enqueue"}
     \/ CallOf(g).op = "get" /\ f.at = "getting"
     \/ CallOf(g).op = "stop" /\ f.at = "stopping"
     \/ CallOf(g).op = "wait" /\ f.at = "wait_empty"
GoesThrough(g, f) ==
  /\ f.ip = g.ip
  /\ \/ g.at = "push_lock" /\ f.at = "push_test"
     \/ g.at = "push_test" /\ f.at = "enqueue"
     \/ g.at \in {"stopping", "wait_empty", "wait_busy"} /\ f.at = g.at
     \/ g.at = "wait_empty" /\ f.at = "wait_busy"
Ends(x, g, f) ==
  /\ f.at = "call"
  /\ (f.ip = g.ip + 1 /\ f.k = 1) \/ (x \in Workers /\ f.ip > g.ip)
  /\ \/ g.at \in {"enqueue", "getting", "stopping", "wait_busy"}
     \/ /\ g.at = "call" /\ g.ip \in 1..Len(program[g.body])
        /\ CallOf(g).op \in {"push", "get", "join_threads"}
CallMove(x, f) ==
  /\ TopIs(x, f) /\ f.body = First(x).body
  /\ Begins(First(x), f) \/ GoesThrough(First(x), f) \/ Ends(x, First(x), f)

LEMMA GoesTo ==
  ASSUME stack \in Stacks, NEW x \in Threads, Active(x), NEW l \in Labels, GoTo(x, l)
  PROVE  \E f \in FrameType : /\ TopIs(x, f) /\ f.at = l
                              /\ f.body = Top(x).body /\ f.ip = Top(x).ip /\ f.k = Top(x).k
<1>1. PICK f \in FrameType : f = [Top(x) EXCEPT !.at = l]
  BY TopFacts DEF FrameType
<1>2. f.at = l /\ f.body = Top(x).body /\ f.ip = Top(x).ip /\ f.k = Top(x).k
  BY <1>1, TopFacts DEF FrameType
<1> QED  BY <1>1, <1>2, SetTopFacts DEF GoTo

LEMMA ReturnsTo ==
  ASSUME stack \in Stacks, NEW x \in Threads, Active(x), Return(x)
  PROVE  \E f \in FrameType : /\ TopIs(x, f) /\ f.at = "call" /\ f.k = 1
                              /\ f.body = Top(x).body /\ f.ip = Top(x).ip + 1
<1>1. PICK f \in FrameType : f = [Frame(Top(x).body) EXCEPT !.ip = Top(x).ip + 1] /\ f.k = 1
  <2>1. PICK b \in Bodies, n \in Nat \ {0} : b = Top(x).body /\ n = Top(x).ip + 1
    BY TopFacts DEF FrameType
  <2>2. [Frame(b) EXCEPT !.ip = n] = [body |-> b, ip |-> n, at |-> "call", k |-> 1]
    BY DEF Frame
  <2> QED  BY <2>1, <2>2, PoolSize DEF FrameType, Labels
<1>2. f.at = "call" /\ f.body = Top(x).body /\ f.ip = Top(x).ip + 1
  BY <1>1, TopFacts DEF FrameType, Frame
<1> QED  BY <1>1, <1>2, SetTopFacts DEF Return

LEMMA NextQueueIs ==
  ASSUME stack \in Stacks, NEW x \in Threads, Active(x), Top(x).k <= N, NextQueue(x)
  PROVE  \E f \in FrameType : /\ TopIs(x, f) /\ f.at = Top(x).at /\ f.k = Top(x).k + 1
                              /\ f.body = Top(x).body /\ f.ip = Top(x).ip
<1>1. PICK f \in FrameType : f = [Top(x) EXCEPT !.k = @ + 1]
  <2>1. Top(x).k \in 1..N + 1 /\ Top(x).k + 1 \in 1..N + 1
    BY TopFacts, PoolSize DEF FrameType
  <2> QED  BY <2>1, TopFacts DEF FrameType
<1>2. f.at = Top(x).at /\ f.body = Top(x).body /\ f.ip = Top(x).ip /\ f.k = Top(x).k + 1
  BY <1>1, TopFacts DEF FrameType
<1> QED  BY <1>1, <1>2, SetTopFacts DEF NextQueue

(* A wait finds m_wait free: whoever holds it either waits too, or has been *)
(* blocked by an earlier wait.                                             *)
LEMMA NoOther ==
  ASSUME PoolInv, Flat(program), Shaped, HolderInv, BlockInv, NEW x \in Threads
  PROVE  ~WaitOther(x) /\ ~WaitOtherLock(x) /\ ~WaitOtherReturn(x)
<1> USE DEF PoolInv, Shaped
<1>0. \A y \in Threads : Active(y) =>
        /\ Len(stack[y]) = 1 /\ Top(y) = First(y) /\ First(y) \in FrameType /\ OpIs(First(y))
  BY FlatTop DEF OpInv
<1>1. ~WaitOtherLock(x) /\ ~WaitOtherReturn(x)
  BY <1>0 DEF WaitOtherLock, WaitOtherReturn, At, OpIs
<1>2. SUFFICES ASSUME WaitOther(x) PROVE FALSE
  BY <1>1
<1>3. /\ Active(x) /\ First(x).at = "call" /\ CallOf(First(x)).op = "wait" /\ mwait # NoThread
      /\ First(x).ip \in 1..Len(program[First(x).body])
  <2>1. /\ Active(x) /\ Top(x).at = "call" /\ ~Over(x) /\ Call(x).op = "wait" /\ mwait # NoThread
    BY <1>2 DEF WaitOther, Calling, At
  <2>2. Top(x) = First(x) /\ First(x) \in FrameType
    BY <1>0, <2>1
  <2>3. First(x).ip \in 1..Len(program[First(x).body])
    BY <2>1, <2>2, CallRange DEF Calling, At
  <2> QED  BY <2>1, <2>2, <2>3 DEF Call, CallOf
<1>4. x \in Clients /\ First(x).body = x
  <2>1. First(x).body \notin Tasks
    BY <1>3 DEF Flat, CallOf
  <2>2. x \in Clients
    BY <1>0, <1>3, <2>1 DEF CallInv, WellFormed, First, Depth
  <2> QED  BY <2>2 DEF ClientInv
<1>5. mwait \in Threads /\ Active(mwait) /\ First(mwait).at \in Hold /\ OpIs(First(mwait))
  <2>1. mwait \in Threads
    BY <1>3 DEF StateInv
  <2>2. Len(stack[mwait]) = 1 /\ First(mwait).at \in Hold
    BY <1>3 DEF HolderInv
  <2> QED  BY <1>0, <2>1, <2>2, FlatTop
<1>6. CASE First(mwait).at \in {"wait_empty", "wait_busy"}
  <2>1. /\ CallOf(First(mwait)).op = "wait" /\ First(mwait).ip \in 1..Len(program[First(mwait).body])
    BY <1>5, <1>6 DEF OpIs
  <2>2. First(mwait).body \notin Tasks
    BY <2>1 DEF Flat, CallOf
  <2>3. mwait \in Clients /\ First(mwait).body = mwait
    <3>1. mwait \in Clients
      BY <1>0, <1>5, <2>2 DEF CallInv, WellFormed, First, Depth
    <3> QED  BY <3>1 DEF ClientInv
  <2>4. mwait = x
    BY <1>3, <1>4, <2>1, <2>3 DEF Flat, CallOf
  <2> QED  BY <1>3, <1>6, <2>4
<1>7. CASE First(mwait).at = "push_test"
  <2>1. BlockBegun
    BY <1>0, <1>5, <1>7 DEF BlockInv
  <2>0. PICK d \in Clients : \E i \in 1..Len(program[d]) :
          /\ program[d][i] = Wait("BlockIncoming")
          /\ i < First(d).ip \/ (i = First(d).ip /\ First(d).at # "call")
    BY <2>1 DEF BlockBegun
  <2>2. PICK i \in 1..Len(program[d]) :
          /\ program[d][i] = Wait("BlockIncoming")
          /\ i < First(d).ip \/ (i = First(d).ip /\ First(d).at # "call")
    BY <2>0
  <2>3. program[d][i].op = "wait" /\ program[d][i].policy = "BlockIncoming"
    BY <2>2 DEF Wait
  <2>4. program[x][First(x).ip].op = "wait" /\ First(x).ip \in 1..Len(program[x])
    BY <1>3, <1>4 DEF CallOf
  <2>5. d = x /\ (i < First(x).ip => \A b \in Bodies \ {x} : PushesOf(program, b) = {})
    BY <1>4, <2>3, <2>4 DEF Flat
  <2>6. First(mwait).ip \in PushesOf(program, First(mwait).body) /\ First(mwait).body \in Bodies
    <3>1. 1 \in Depth(mwait) /\ First(mwait) \in FrameType
      BY <1>0, <1>5 DEF Depth
    <3> QED  BY <1>5, <1>7, <3>1 DEF CallInv, WellFormed, First, FrameType
  <2>7. First(mwait).body # x
    <3>1. SUFFICES ASSUME First(mwait).body = x PROVE FALSE
      OBVIOUS
    <3>2. mwait = x
      BY <1>0, <1>4, <1>5, <3>1, ExecutorAssumption DEF CallInv, WellFormed, First, Depth
    <3> QED  BY <1>3, <1>7, <3>2
  <2>8. ~(i < First(x).ip)
    BY <2>5, <2>6, <2>7
  <2> QED  BY <1>3, <2>2, <2>5, <2>8
<1> QED  BY <1>5, <1>6, <1>7 DEF Hold, OpIs

LEMMA CallMoves ==
  ASSUME PoolInv, Flat(program), Shaped, HolderInv, BlockInv, NEW x \in Threads, CallStep(x)
  PROVE  /\ program' = program /\ Len(stack[x]) = 1 /\ Active(x)
         /\ Top(x) = First(x) /\ First(x) \in FrameType
         /\ \E f \in FrameType : CallMove(x, f)
<1> USE DEF PoolInv, Shaped
<1>0. stack \in Stacks
  BY DEF StateInv
<1>9. program' = program
  BY DEF CallStep
<1>1. /\ Active(x) /\ Len(stack[x]) = 1 /\ Top(x) = First(x) /\ First(x) \in FrameType
  BY CallGoes, FlatTop
<1> SUFFICES \E f \in FrameType : CallMove(x, f)
  BY <1>1, <1>9
<1>2. ASSUME NEW o, Calling(x, o)
      PROVE  /\ First(x).at = "call" /\ CallOf(First(x)).op = o
             /\ First(x).ip \in 1..Len(program[First(x).body])
  BY <1>1, <1>2, CallRange DEF Calling, At, Call, CallOf
<1>3. CASE PushBlocked(x) \/ PushAdmitted(x) \/ GetWait(x) \/ StopFlag(x) \/ WaitLock(x)
  <2>1. PICK l \in Labels :
          /\ GoTo(x, l)
          /\ \/ Calling(x, "push") /\ l \in {"push_lock", "enqueue"}
             \/ Calling(x, "get") /\ l = "getting"
             \/ Calling(x, "stop") /\ l = "stopping"
             \/ Calling(x, "wait") /\ l = "wait_empty"
    BY <1>3 DEF PushBlocked, PushAdmitted, GetWait, StopFlag, WaitLock, Labels
  <2>2. PICK f \in FrameType : /\ TopIs(x, f) /\ f.at = l
                               /\ f.body = Top(x).body /\ f.ip = Top(x).ip /\ f.k = Top(x).k
    BY <1>0, <1>1, <2>1, GoesTo
  <2>3. Begins(First(x), f)
    BY <1>1, <1>2, <2>1, <2>2 DEF Begins
  <2>4. CallMove(x, f)
    BY <1>1, <2>2, <2>3 DEF CallMove
  <2> QED  BY <2>4
<1>4. CASE PushLock(x) \/ PushUnlock(x)
  <2>1. PICK l \in Labels :
          /\ GoTo(x, l)
          /\ \/ First(x).at = "push_lock" /\ l = "push_test"
             \/ First(x).at = "push_test" /\ l = "enqueue"
    BY <1>1, <1>4 DEF PushLock, PushUnlock, At, Labels
  <2>2. PICK f \in FrameType : /\ TopIs(x, f) /\ f.at = l
                               /\ f.body = Top(x).body /\ f.ip = Top(x).ip
    BY <1>0, <1>1, <2>1, GoesTo
  <2>3. GoesThrough(First(x), f)
    BY <1>1, <2>1, <2>2 DEF GoesThrough
  <2>4. CallMove(x, f)
    BY <1>1, <2>2, <2>3 DEF CallMove
  <2> QED  BY <2>4
<1>5. CASE StopQueue(x) \/ WaitEmpty(x) \/ WaitIdle(x)
  <2>1. /\ First(x).at \in {"stopping", "wait_empty", "wait_busy"}
        /\ Top(x).k <= N /\ NextQueue(x)
    BY <1>1, <1>5 DEF StopQueue, LastQueue, WaitEmpty, WaitIdle, At
  <2>2. PICK f \in FrameType : /\ TopIs(x, f) /\ f.at = Top(x).at
                               /\ f.body = Top(x).body /\ f.ip = Top(x).ip
    BY <1>0, <1>1, <2>1, NextQueueIs
  <2>3. GoesThrough(First(x), f)
    BY <1>1, <2>1, <2>2 DEF GoesThrough
  <2>4. CallMove(x, f)
    BY <1>1, <2>2, <2>3 DEF CallMove
  <2> QED  BY <2>4
<1>6. CASE WaitFree(x)
  <2>1. First(x).at = "wait_empty" /\ SetTop(x, [Top(x) EXCEPT !.at = "wait_busy", !.k = 1])
    BY <1>1, <1>6 DEF WaitFree, At
  <2>2. PICK f \in FrameType : /\ TopIs(x, f) /\ f.at = "wait_busy"
                               /\ f.body = Top(x).body /\ f.ip = Top(x).ip
    BY <1>0, <1>1, <2>1, FreeFacts
  <2>3. GoesThrough(First(x), f)
    BY <1>1, <2>1, <2>2 DEF GoesThrough
  <2>4. CallMove(x, f)
    BY <1>1, <2>2, <2>3 DEF CallMove
  <2> QED  BY <2>4
<1>7. CASE \/ \E v \in Workers : Enqueue(x, v) \/ EnqueueClosed(x, v)
           \/ GetReturn(x) \/ StopReturn(x) \/ JoinThreads(x) \/ WaitReturn(x)
  <2>1. /\ Return(x)
        /\ \/ First(x).at \in {"enqueue", "getting", "stopping", "wait_busy"}
           \/ Calling(x, "get") \/ Calling(x, "join_threads")
    BY <1>1, <1>7 DEF Enqueue, EnqueueClosed, GetReturn, StopReturn, JoinThreads, WaitReturn, At
  <2>2. PICK f \in FrameType : /\ TopIs(x, f) /\ f.at = "call" /\ f.k = 1
                               /\ f.body = Top(x).body /\ f.ip = Top(x).ip + 1
    BY <1>0, <1>1, <2>1, ReturnsTo
  <2>3. Ends(x, First(x), f)
    BY <1>1, <1>2, <2>1, <2>2 DEF Ends
  <2>4. CallMove(x, f)
    BY <1>1, <2>2, <2>3 DEF CallMove
  <2> QED  BY <2>4
<1>8. CASE PushRefused(x)
  <2>1. Calling(x, "push") /\ Throw(x)
    BY <1>8 DEF PushRefused
  <2>2. CASE x \in Clients
    <3>1. PICK f \in FrameType : /\ TopIs(x, f) /\ f.at = "call" /\ f.k = 1
                                 /\ f.body = Top(x).body /\ f.ip = Top(x).ip + 1
      BY <1>0, <1>1, <2>1, <2>2, ReturnsTo DEF Throw
    <3>2. Ends(x, First(x), f)
      BY <1>1, <1>2, <2>1, <3>1 DEF Ends
    <3>3. CallMove(x, f)
      BY <1>1, <3>1, <3>2 DEF CallMove
    <3> QED  BY <3>3
  <2>3. CASE x \notin Clients
    <3>1. PICK f \in FrameType : /\ TopIs(x, f) /\ f.at = "call"
                                 /\ f.body = Top(x).body /\ f.ip > Top(x).ip
      BY <2>1, ThrowFacts
    <3>2. x \in Workers
      BY <2>3 DEF Threads
    <3>3. Ends(x, First(x), f)
      BY <1>1, <1>2, <2>1, <3>1, <3>2 DEF Ends
    <3>4. CallMove(x, f)
      BY <1>1, <3>1, <3>3 DEF CallMove
    <3> QED  BY <3>4
  <2> QED  BY <2>2, <2>3
<1> QED  BY <1>1, <1>3, <1>4, <1>5, <1>6, <1>7, <1>8, NoOther DEF CallStep

(* The shape of the stacks after a call: the label and the position of one  *)
(* body have changed.                                                      *)
LEMMA CallShape ==
  ASSUME PoolInv, Flat(program), Shaped, HolderInv, BlockInv, NEW x \in Threads, CallStep(x),
         NEW f \in FrameType, CallMove(x, f)
  PROVE  Shaped'
<1> USE DEF PoolInv, Shaped
<1>1. /\ program' = program /\ Len(stack[x]) = 1 /\ First(x) \in FrameType /\ OpIs(First(x))
  BY CallMoves DEF OpInv
<1>2. \A y \in Threads : Len(stack[y])' = Len(stack[y])
  BY TopMoves DEF CallMove
<1>3. First(x)' = f /\ \A y \in Threads \ {x} : Len(stack[y]) = 1 => First(y)' = First(y)
  BY TopMoves DEF CallMove
<1>4. First(x).at \in {"push_lock", "push_test", "enqueue"} => CallOf(First(x)).op = "push"
  <2>1. WellFormed(x, First(x)) /\ First(x).body \in Bodies
    BY <1>1, FlatTop DEF CallInv, First, FrameType
  <2> QED  BY <2>1 DEF WellFormed, PushesOf, CallOf
<1>5. f.body = First(x).body
  BY DEF CallMove
<1>6. ClientInv'
  <2> SUFFICES ASSUME NEW c \in Clients
               PROVE  (Len(stack[c]) = 1 /\ First(c).body = c /\ (First(c).at = "call" => First(c).k = 1))'
    BY DEF ClientInv
  <2>0. c \in Threads
    BY DEF Threads
  <2>1. CASE c = x
    <3>1. f.at = "call" => f.k = 1
      BY <2>1, PoolSize DEF CallMove, Begins, GoesThrough, Ends
    <3> QED  BY <1>2, <1>3, <1>5, <2>0, <2>1, <3>1 DEF ClientInv
  <2>2. CASE c # x
    BY <1>2, <1>3, <2>0, <2>2 DEF ClientInv
  <2> QED  BY <2>1, <2>2
<1>7. ASSUME x \in Workers
      PROVE  f.at \in PushLabels \union {"call", "executed", "stopping"}
  <2>1. First(x).body \in Tasks
    BY <1>1, <1>7, FlatTop DEF CallInv, WellFormed, First
  <2>2. First(x).at \in PushLabels \union {"call", "executed", "stopping"}
    BY <1>1, <1>7 DEF WorkerInv
  <2>3. CASE Begins(First(x), f)
    BY <2>1, <2>3 DEF Begins, Flat, CallOf, PushLabels
  <2>4. CASE GoesThrough(First(x), f)
    BY <2>2, <2>4 DEF GoesThrough, PushLabels
  <2>5. CASE Ends(x, First(x), f)
    BY <2>5 DEF Ends
  <2> QED  BY <2>3, <2>4, <2>5 DEF CallMove
<1>8. WorkerInv'
  <2>1. UNCHANGED <<loop, hand>> /\ \A w \in Workers : busy[w] => busy'[w]
    <3>1. CASE WaitFree(x)
      <4>1. x \notin Workers
        <5>1. x \in Workers => First(x).at # "wait_empty"
          BY <1>1 DEF WorkerInv, PushLabels
        <5> QED  BY <3>1, <5>1, CallMoves DEF WaitFree, At
      <4> QED  BY <3>1, <4>1 DEF WaitFree
    <3>2. CASE ~WaitFree(x)
      BY <3>2 DEF CallStep, PushRefused, PushBlocked, PushAdmitted, PushLock, PushUnlock, Enqueue,
         EnqueueClosed, GetReturn, GetWait, StopFlag, StopQueue, StopReturn, JoinThreads,
         WaitLock, WaitOther, WaitOtherLock, WaitOtherReturn, WaitEmpty, WaitIdle, WaitReturn
    <3> QED  BY <3>1, <3>2
  <2> SUFFICES ASSUME NEW w \in Workers
               PROVE  (/\ Len(stack[w]) \in {0, 1}
                       /\ Len(stack[w]) = 1 => /\ loop[w] = "test"
                                               /\ First(w).at \in PushLabels \union {"call", "executed", "stopping"}
                       /\ Len(stack[w]) = 1 \/ hand[w] # NoTask => busy[w])'
    BY DEF WorkerInv
  <2>2. w \in Threads
    BY DEF Threads
  <2>3. Len(stack[w])' = 1 => First(w).at' \in PushLabels \union {"call", "executed", "stopping"}
    BY <1>2, <1>3, <1>7, <2>2 DEF WorkerInv
  <2> QED  BY <1>2, <2>1, <2>2, <2>3 DEF WorkerInv
<1>9. OpInv'
  <2>1. OpIs(f)
    BY <1>1, <1>4, <1>5 DEF CallMove, Begins, GoesThrough, Ends, OpIs, CallOf
  <2> SUFFICES ASSUME NEW y \in Threads, Len(stack[y])' = 1 PROVE OpIs(First(y))'
    BY DEF OpInv
  <2>2. PICK g : g = First(y)' /\ OpIs(g)
    BY <1>2, <1>3, <2>1 DEF OpInv
  <2> QED  BY <1>1, <2>2 DEF OpIs, CallOf
<1> QED  BY <1>6, <1>8, <1>9

(* A worker steals, takes, runs and ends tasks, and no more.               *)
LEMMA WorkerIs ==
  ASSUME PoolInv, Shaped, NEW w \in Workers, WorkerStep(w)
  PROVE  /\ program' = program /\ w \in Threads
         /\ \/ LoopTest(w) \/ StealNothing(w) \/ Pop(w) \/ PopClosed(w) \/ CheckStopped(w)
            \/ Run(w) \/ SetExecuted(w) \/ EndTask(w) \/ \E v \in Workers : Steal(w, v)
<1> USE DEF PoolInv, Shaped
<1>1. program' = program /\ w \in Threads
  BY DEF WorkerStep, Threads
<1>2. ~At(w, "getting") /\ ~At(w, "try_run_one") /\ ~At(w, "wait_empty")
  BY <1>1, FlatTop DEF At, WorkerInv, PushLabels
<1>3. ~GetPoll(w) /\ ~HelpNothing(w) /\ \A v \in Workers : ~Help(w, v) /\ ~WaitHelp(w, v)
  BY <1>2 DEF GetPoll, HelpNothing, Help, WaitHelp
<1> QED  BY <1>1, <1>3 DEF WorkerStep

(* The stack of a worker: its task enters it, is executed and leaves it.    *)
LEMMA WorkerMoves ==
  ASSUME PoolInv, Shaped, NEW w \in Workers, WorkerStep(w)
  PROVE  /\ \A y \in Threads \ {w} : stack'[y] = stack[y]
         /\ \/ stack'[w] = stack[w] /\ ~Run(w) /\ ~SetExecuted(w) /\ ~EndTask(w)
            \/ Run(w) /\ Len(stack[w]) = 0 /\ Len(stack'[w]) = 1 /\ stack'[w][1] = Frame(hand[w])
            \/ /\ SetExecuted(w) /\ Len(stack[w]) = 1 /\ Len(stack'[w]) = 1
               /\ stack'[w][1].at = "executed" /\ stack'[w][1].body = First(w).body
            \/ EndTask(w) /\ Len(stack[w]) = 1 /\ Len(stack'[w]) = 0
<1> USE DEF PoolInv, Shaped
<1>0. stack \in Stacks /\ w \in Threads /\ Len(stack[w]) \in {0, 1}
  BY WorkerIs, FlatTop DEF StateInv
<1>1. CASE \/ LoopTest(w) \/ StealNothing(w) \/ Pop(w) \/ PopClosed(w) \/ CheckStopped(w)
           \/ \E v \in Workers : Steal(w, v)
  <2>1. stack' = stack
    BY <1>1, WorkerStays
  <2>2. ~SetExecuted(w) /\ ~EndTask(w) /\ ~Run(w)
    <3>1. loop[w] = "test" => ~Active(w)
      BY <1>1 DEF LoopTest, StealNothing, Pop, PopClosed, CheckStopped, Steal
    <3>2. ~Active(w)
      BY <1>0, <3>1, FlatTop DEF WorkerInv
    <3>3. ~SetExecuted(w) /\ ~EndTask(w)
      BY <3>2 DEF SetExecuted, EndTask, At
    <3>4. ~Run(w)
      BY <1>1 DEF LoopTest, StealNothing, Pop, PopClosed, CheckStopped, Steal, Run
    <3> QED  BY <3>3, <3>4
  <2> QED  BY <2>1, <2>2
<1>2. CASE Run(w)
  <2>1. Above(w, hand[w])
    BY <1>2, WorkerEnters
  <2>2. Len(stack[w]) = 0
    BY <1>0, <1>2 DEF Run, WorkerInv
  <2>3. \A y \in Threads \ {w} : stack'[y] = stack[y]
    BY <2>1 DEF Above
  <2>4. Len(stack'[w]) = 1 /\ stack'[w][1] = Frame(hand[w])
    BY <2>1, <2>2 DEF Above
  <2> QED  BY <1>2, <2>2, <2>3, <2>4
<1>3. CASE SetExecuted(w)
  <2>1. Active(w) /\ Top(w).at = "call" /\ GoTo(w, "executed")
    BY <1>3 DEF SetExecuted, At
  <2>2. PICK f \in FrameType : TopIs(w, f) /\ f.at = "executed" /\ f.body = Top(w).body
    BY <1>0, <2>1, GoToFacts DEF Labels
  <2>3. Len(stack[w]) = 1 /\ Top(w) = First(w)
    BY <1>0, <2>1, FlatTop
  <2>4. Len(stack'[w]) = 1 /\ stack'[w][1] = f
    BY <1>0, <2>2, <2>3 DEF TopIs
  <2>5. \A y \in Threads \ {w} : stack'[y] = stack[y]
    BY <1>3 DEF SetExecuted, GoTo, SetTop, Stacks, StateInv
  <2> QED  BY <1>3, <2>2, <2>3, <2>4, <2>5
<1>4. CASE EndTask(w)
  <2>1. Active(w) /\ stack' = [stack EXCEPT ![w] = Tail(@)]
    BY <1>4 DEF EndTask, At
  <2>2. Len(stack[w]) = 1
    BY <1>0, <2>1, FlatTop
  <2>3. /\ Len(stack'[w]) = Len(stack[w]) - 1
        /\ \A y \in Threads : y # w => stack'[y] = stack[y]
    BY <1>0, <2>1, LeaveFacts
  <2>4. Len(stack'[w]) = 0
    BY <2>2, <2>3
  <2>5. \A y \in Threads \ {w} : stack'[y] = stack[y]
    BY <2>3
  <2> QED  BY <1>4, <2>2, <2>4, <2>5
<1> QED  BY <1>1, <1>2, <1>3, <1>4, WorkerIs

LEMMA WorkerShape ==
  ASSUME PoolInv, Shaped, NEW w \in Workers, WorkerStep(w)
  PROVE  Shaped'
<1> USE DEF PoolInv, Shaped
<1>0. w \in Threads /\ program' = program /\ w \notin Clients
  BY WorkerIs, PoolSize
<1>1. ClientInv'
  <2>1. \A c \in Clients : c \in Threads \ {w}
    BY <1>0 DEF Threads
  <2>2. \A c \in Clients : stack'[c] = stack[c]
    BY <2>1, WorkerMoves
  <2> QED  BY <2>2 DEF ClientInv, First
<1>2. OpInv'
  <2> SUFFICES ASSUME NEW y \in Threads, Len(stack'[y]) = 1 PROVE OpIs(First(y))'
    BY DEF OpInv
  <2>1. PICK g : g = stack'[y][1]
    OBVIOUS
  <2>2. OpIs(g)
    <3>1. CASE stack'[y] = stack[y]
      BY <2>1, <3>1 DEF OpInv, First
    <3>2. CASE g.at \in {"call", "executed"}
      BY <3>2 DEF OpIs
    <3>3. Frame(hand[w]).at = "call"
      BY DEF Frame
    <3>4. stack'[y] # stack[y] => y = w /\ g.at \in {"call", "executed"}
      BY <2>1, <3>3, WorkerMoves
    <3> QED  BY <3>1, <3>2, <3>4
  <2> QED  BY <1>0, <2>1, <2>2 DEF OpIs, CallOf, First
<1>3. ASSUME NEW v \in Workers, v # w
      PROVE  UNCHANGED <<stack[v], loop[v], hand[v], busy[v]>>
  <2>1. stack'[v] = stack[v]
    BY <1>3, WorkerMoves DEF Threads
  <2>2. UNCHANGED <<loop[v], hand[v], busy[v]>>
    BY <1>3, WorkerIs DEF LoopTest, StealNothing, Pop, PopClosed, CheckStopped, Run, SetExecuted,
       EndTask, Steal, TakenFrom, Raised, StateInv
  <2> QED  BY <2>1, <2>2
<1>4. /\ Len(stack'[w]) \in {0, 1}
      /\ Len(stack'[w]) = 1 => /\ loop'[w] = "test"
                               /\ stack'[w][1].at \in PushLabels \union {"call", "executed", "stopping"}
      /\ Len(stack'[w]) = 1 \/ hand'[w] # NoTask => busy'[w]
  <2>0. /\ Len(stack[w]) \in {0, 1} /\ (Len(stack[w]) = 1 \/ hand[w] # NoTask => busy[w])
        /\ Len(stack[w]) = 1 => /\ loop[w] = "test"
                                /\ stack[w][1].at \in PushLabels \union {"call", "executed", "stopping"}
    BY DEF WorkerInv, First
  <2>1. CASE LoopTest(w)
    <3>1. Len(stack[w]) = 0
      BY <1>0, <2>1, FlatTop DEF LoopTest
    <3>2. stack' = stack /\ hand' = hand /\ busy' = busy
      BY <2>1 DEF LoopTest
    <3> QED  BY <2>0, <3>1, <3>2
  <2>2. CASE StealNothing(w) \/ PopClosed(w)
    <3>1. Len(stack[w]) = 0 /\ stack' = stack /\ hand' = hand /\ busy' = busy
      BY <2>0, <2>2 DEF StealNothing, PopClosed
    <3> QED  BY <2>0, <3>1
  <2>3. CASE Pop(w) \/ \E v \in Workers : Steal(w, v)
    <3>1. Len(stack[w]) = 0 /\ stack' = stack
      BY <2>0, <2>3 DEF Pop, Steal
    <3>2. busy'[w]
      BY <2>3 DEF Pop, Steal, TakenFrom, Raised, StateInv
    <3> QED  BY <2>0, <3>1, <3>2
  <2>4. CASE CheckStopped(w)
    <3>1. Len(stack[w]) = 0 /\ stack' = stack /\ hand'[w] = NoTask
      BY <2>0, <2>4 DEF CheckStopped, StateInv
    <3> QED  BY <2>0, <3>1
  <2>5. CASE Run(w)
    <3>1. hand[w] # NoTask /\ busy' = busy /\ loop'[w] = "test"
      BY <2>5 DEF Run, StateInv
    <3>2. Len(stack[w]) # 1
      BY <2>0, <2>5 DEF Run
    <3>3. Len(stack'[w]) = 1 /\ stack'[w][1] = Frame(hand[w])
      BY <2>5, <3>2, WorkerMoves
    <3>4. Frame(hand[w]).at = "call"
      BY DEF Frame
    <3> QED  BY <2>0, <3>1, <3>3, <3>4
  <2>6. CASE SetExecuted(w)
    <3>1. UNCHANGED <<loop, hand, busy>>
      BY <2>6 DEF SetExecuted
    <3>2. Len(stack[w]) = 1 /\ Len(stack'[w]) = 1 /\ stack'[w][1].at = "executed"
      <4>1. ~Run(w) /\ ~EndTask(w)
        BY <2>0, <2>6 DEF SetExecuted, EndTask, Run, At, Active
      <4> QED  BY <2>6, <4>1, WorkerMoves
    <3> QED  BY <2>0, <3>1, <3>2
  <2>7. CASE EndTask(w)
    <3>1. loop' = loop /\ hand' = hand
      BY <2>7 DEF EndTask
    <3>2. Len(stack[w]) = 1 /\ Len(stack'[w]) = 0
      <4>1. ~Run(w) /\ ~SetExecuted(w)
        BY <2>0, <2>7, FlatTop, <1>0 DEF SetExecuted, EndTask, Run, At
      <4> QED  BY <2>7, <4>1, WorkerMoves
    <3>3. hand[w] = NoTask
      BY <2>0, <3>2 DEF StopInv
    <3> QED  BY <3>1, <3>2, <3>3
  <2> QED  BY <2>1, <2>2, <2>3, <2>4, <2>5, <2>6, <2>7, WorkerIs
<1>5. WorkerInv'
  <2> SUFFICES ASSUME NEW v \in Workers
               PROVE  /\ Len(stack'[v]) \in {0, 1}
                      /\ Len(stack'[v]) = 1 => /\ loop'[v] = "test"
                                               /\ stack'[v][1].at \in PushLabels \union {"call", "executed", "stopping"}
                      /\ Len(stack'[v]) = 1 \/ hand'[v] # NoTask => busy'[v]
    BY DEF WorkerInv, First
  <2>1. CASE v = w
    BY <1>4, <2>1
  <2>2. CASE v # w
    BY <1>3, <2>2 DEF WorkerInv, First
  <2> QED  BY <2>1, <2>2
<1> QED  BY <1>1, <1>2, <1>5

(* The holder of m_wait is at a label of one who holds it.                  *)
LEMMA CallHolder ==
  ASSUME PoolInv, Flat(program), Shaped, HolderInv, BlockInv, NEW x \in Threads, CallStep(x),
         NEW f \in FrameType, CallMove(x, f)
  PROVE  HolderInv'
<1> USE DEF PoolInv, Shaped
<1>0. /\ stack \in Stacks /\ Active(x) /\ Top(x) = First(x) /\ First(x) \in FrameType
      /\ Len(stack[x]) = 1 /\ TopIs(x, f) /\ OpIs(First(x))
  BY CallMoves DEF CallMove, StateInv, OpInv
<1>1. /\ \A y \in Threads : Len(stack[y])' = Len(stack[y])
      /\ First(x)' = f /\ \A y \in Threads \ {x} : Len(stack[y]) = 1 => First(y)' = First(y)
  BY <1>0, TopMoves
<1>2. CASE PushLock(x)
  <2>1. First(x).at = "push_lock" /\ mwait' = x
    BY <1>0, <1>2 DEF PushLock, At
  <2>2. f.at = "push_test"
    BY <2>1 DEF CallMove, Begins, GoesThrough, Ends
  <2> QED  BY <1>0, <1>1, <2>1, <2>2 DEF HolderInv, Hold
<1>3. CASE WaitLock(x)
  <2>1. First(x).at = "call" /\ CallOf(First(x)).op = "wait" /\ mwait' = x
    BY <1>0, <1>3 DEF WaitLock, Calling, At, Call, CallOf, LockOwner
  <2>2. f.at = "wait_empty"
    BY <2>1 DEF CallMove, Begins, GoesThrough, Ends
  <2> QED  BY <1>0, <1>1, <2>1, <2>2 DEF HolderInv, Hold
<1>4. CASE PushUnlock(x) \/ WaitReturn(x)
  BY <1>4 DEF PushUnlock, WaitReturn, HolderInv
<1>5. CASE WaitEmpty(x) \/ WaitIdle(x) \/ WaitFree(x)
  <2>1. First(x).at \in {"wait_empty", "wait_busy"} /\ mwait' = mwait
    BY <1>0, <1>5 DEF WaitEmpty, WaitIdle, WaitFree, At
  <2>2. f.at \in Hold
    <3>1. CASE WaitEmpty(x) \/ WaitIdle(x)
      <4>1. PICK g \in FrameType : TopIs(x, g) /\ g.at = First(x).at
        BY <1>0, <3>1, NextQueueIs DEF WaitEmpty, WaitIdle
      <4> QED  BY <1>0, <2>1, <4>1 DEF TopIs, Hold
    <3>2. CASE WaitFree(x)
      <4>1. PICK g \in FrameType : TopIs(x, g) /\ g.at = "wait_busy"
        BY <1>0, <3>2, FreeFacts DEF WaitFree
      <4> QED  BY <1>0, <4>1 DEF TopIs, Hold
    <3> QED  BY <1>5, <3>1, <3>2
  <2>3. mwait \in Threads \union {NoThread}
    BY DEF StateInv
  <2> QED  BY <1>0, <1>1, <2>1, <2>2, <2>3 DEF HolderInv
<1>6. CASE ~(\/ PushLock(x) \/ WaitLock(x) \/ PushUnlock(x) \/ WaitReturn(x)
             \/ WaitEmpty(x) \/ WaitIdle(x) \/ WaitFree(x))
  <2>1. mwait' = mwait
    BY <1>6, NoOther DEF CallStep, PushRefused, PushBlocked, PushAdmitted, Enqueue, EnqueueClosed,
       GetReturn, GetWait, StopFlag, StopQueue, StopReturn, JoinThreads
  <2>2. First(x).at \notin Hold
    <3>1. \/ First(x).at \in {"call", "enqueue", "getting", "stopping"}
      BY <1>0, <1>6, NoOther DEF CallStep, PushRefused, PushBlocked, PushAdmitted, Enqueue,
         EnqueueClosed, GetReturn, GetWait, StopFlag, StopQueue, StopReturn, JoinThreads,
         Calling, At
    <3> QED  BY <3>1 DEF Hold
  <2>3. mwait \in Threads \union {NoThread}
    BY DEF StateInv
  <2> QED  BY <1>1, <2>1, <2>2, <2>3 DEF HolderInv
<1> QED  BY <1>2, <1>3, <1>4, <1>5, <1>6

(* A wait that blocks pushes goes on or is over for good.                   *)
LEMMA BlockStays ==
  ASSUME PoolInv, Flat(program), Shaped, HolderInv, BlockInv, NEW x \in Threads, CallStep(x),
         NEW f \in FrameType, CallMove(x, f), BlockBegun
  PROVE  BlockBegun'
<1> USE DEF PoolInv, Shaped
<1>1. PICK d \in Clients : \E i \in 1..Len(program[d]) :
        /\ program[d][i] = Wait("BlockIncoming")
        /\ i < First(d).ip \/ (i = First(d).ip /\ First(d).at # "call")
  BY DEF BlockBegun
<1>2. PICK i \in 1..Len(program[d]) :
        /\ program[d][i] = Wait("BlockIncoming")
        /\ i < First(d).ip \/ (i = First(d).ip /\ First(d).at # "call")
  BY <1>1
<1>3. d \in Threads /\ Len(stack[d]) = 1
  BY DEF Threads, ClientInv
<1>4. PICK g : g = First(d)' /\ (i < g.ip \/ (i = g.ip /\ g.at # "call"))
  <2>1. CASE d = x
    <3>1. First(d)' = f
      BY <1>3, <2>1, TopMoves DEF CallMove
    <3>2. First(x).ip \in Nat /\ f.ip \in Nat /\ i \in Nat
      BY CallMoves DEF FrameType
    <3>3. i < f.ip \/ (i = f.ip /\ f.at # "call")
      <4>1. CASE Begins(First(x), f)
        BY <1>2, <2>1, <3>2, <4>1 DEF Begins
      <4>2. CASE GoesThrough(First(x), f)
        BY <1>2, <2>1, <3>2, <4>2 DEF GoesThrough
      <4>3. CASE Ends(x, First(x), f)
        <5>1. f.ip > First(x).ip
          BY <3>2, <4>3 DEF Ends
        <5> QED  BY <1>2, <2>1, <3>2, <5>1
      <4> QED  BY <4>1, <4>2, <4>3 DEF CallMove
    <3> QED  BY <3>1, <3>3
  <2>2. CASE d # x
    <3>1. First(d)' = First(d)
      BY <1>3, <2>2, TopMoves DEF CallMove
    <3> QED  BY <1>2, <3>1
  <2> QED  BY <2>1, <2>2
<1>5. program' = program
  BY CallMoves
<1>6. \E j \in 1..Len(program'[d]) :
        /\ program'[d][j] = Wait("BlockIncoming")
        /\ j < First(d)'.ip \/ (j = First(d)'.ip /\ First(d)'.at # "call")
  BY <1>2, <1>4, <1>5
<1> QED  BY <1>6 DEF BlockBegun, Wait

LEMMA CallBlock ==
  ASSUME PoolInv, Flat(program), Shaped, HolderInv, BlockInv, NEW x \in Threads, CallStep(x),
         NEW f \in FrameType, CallMove(x, f)
  PROVE  BlockInv'
<1> USE DEF PoolInv, Shaped
<1>0. /\ stack \in Stacks /\ Active(x) /\ Top(x) = First(x) /\ First(x) \in FrameType
      /\ Len(stack[x]) = 1 /\ TopIs(x, f) /\ program' = program
  BY CallMoves DEF CallMove, StateInv
<1>1. /\ \A y \in Threads : Len(stack[y])' = Len(stack[y])
      /\ First(x)' = f /\ \A y \in Threads \ {x} : Len(stack[y]) = 1 => First(y)' = First(y)
  BY <1>0, TopMoves
<1>2. CASE WaitLock(x) /\ Call(x).policy = "BlockIncoming"
  <2>1. /\ First(x).at = "call" /\ CallOf(First(x)).op = "wait"
        /\ CallOf(First(x)).policy = "BlockIncoming"
        /\ First(x).ip \in 1..Len(program[First(x).body])
    BY <1>0, <1>2, CallRange DEF WaitLock, Calling, At, Call, CallOf
  <2>2. First(x).body = x /\ x \in Clients
    <3>1. First(x).body \notin Tasks
      BY <2>1 DEF Flat, CallOf
    <3> QED  BY <1>0, <3>1, FlatTop DEF CallInv, WellFormed, First
  <2>3. program[x][First(x).ip] = Wait("BlockIncoming")
    <3>1. program[x][First(x).ip] \in Calls
      BY <2>1, <2>2, ProgramFacts DEF StateInv, Bodies
    <3>2. \A c \in Calls : c.op = "wait" /\ c.policy = "BlockIncoming" => c = Wait("BlockIncoming")
      <4>1. Range(Join) = {Wait("BlockIncoming"), Stop, [op |-> "join_threads"]}
        BY DEF Range, Join
      <4> QED  BY <4>1 DEF Calls, Push, Get, Wait, Stop
    <3> QED  BY <2>1, <2>2, <3>1, <3>2 DEF CallOf
  <2>4. f.at = "wait_empty" /\ f.ip = First(x).ip
    BY <2>1 DEF CallMove, Begins, GoesThrough, Ends
  <2>5. BlockBegun'
    <3>1. \E j \in 1..Len(program'[x]) :
            /\ program'[x][j] = Wait("BlockIncoming")
            /\ j < First(x)'.ip \/ (j = First(x)'.ip /\ First(x)'.at # "call")
      BY <1>0, <1>1, <2>1, <2>2, <2>3, <2>4
    <3> QED  BY <2>2, <3>1 DEF BlockBegun, Wait
  <2> QED  BY <2>5 DEF BlockInv
<1>3. CASE ~(WaitLock(x) /\ Call(x).policy = "BlockIncoming")
  <2>1. waiting' = "BlockIncoming" => BlockBegun
    <3>1. waiting' = "BlockIncoming" => waiting' = waiting
      BY <1>3, NoOther DEF CallStep, PushRefused, PushBlocked, PushAdmitted, PushLock, PushUnlock,
         Enqueue, EnqueueClosed, GetReturn, GetWait, StopFlag, StopQueue, StopReturn, JoinThreads,
         WaitLock, WaitEmpty, WaitFree, WaitIdle, WaitReturn, BackToRunning
    <3> QED  BY <3>1 DEF BlockInv
  <2>2. f.at = "push_test" => BlockBegun
    <3>1. f.at = "push_test" => First(x).at = "push_lock"
      BY DEF CallMove, Begins, GoesThrough, Ends
    <3> QED  BY <1>0, <3>1 DEF BlockInv
  <2>3. ASSUME f.at = "push_lock" PROVE BlockBegun
    <3>1. First(x).at = "call" /\ CallOf(First(x)).op = "push"
      BY <2>3 DEF CallMove, Begins, GoesThrough, Ends
    <3>2. At(x, "call") /\ Call(x).op = "push"
      BY <1>0, <3>1 DEF At, Call, CallOf
    <3>3. PushRefused(x) \/ PushBlocked(x) \/ PushAdmitted(x)
      BY <3>2 DEF CallStep, PushLock, PushUnlock, Enqueue, EnqueueClosed, GetReturn, GetWait,
         StopFlag, StopQueue, StopReturn, JoinThreads, WaitLock, WaitOther, WaitOtherLock,
         WaitOtherReturn, WaitEmpty, WaitFree, WaitIdle, WaitReturn, Calling, At
    <3>4. ~PushRefused(x)
      <4>1. ASSUME PushRefused(x) PROVE FALSE
        <5>1. PICK g \in FrameType : TopIs(x, g) /\ g.at = "call"
          BY <4>1, ThrowFacts DEF PushRefused
        <5> QED  BY <1>0, <2>3, <5>1 DEF TopIs
      <4> QED  BY <4>1
    <3>5. ~PushAdmitted(x)
      <4>1. ASSUME PushAdmitted(x) PROVE FALSE
        <5>1. PICK g \in FrameType : TopIs(x, g) /\ g.at = "enqueue"
          BY <1>0, <4>1, GoesTo DEF PushAdmitted, Labels
        <5> QED  BY <1>0, <2>3, <5>1 DEF TopIs
      <4> QED  BY <4>1
    <3> QED  BY <3>3, <3>4, <3>5 DEF PushBlocked, BlockInv
  <2>4. \A y \in Threads : (Len(stack[y]) = 1 /\ First(y).at \in {"push_lock", "push_test"})'
                             => BlockBegun
    BY <1>1, <2>2, <2>3 DEF BlockInv
  <2> QED  BY <2>1, <2>4, BlockStays DEF BlockInv
<1> QED  BY <1>2, <1>3

LEMMA WorkerHolder ==
  ASSUME PoolInv, Shaped, HolderInv, BlockInv, NEW w \in Workers, WorkerStep(w)
  PROVE  HolderInv' /\ BlockInv'
<1> USE DEF PoolInv, Shaped
<1>0. program' = program /\ w \in Threads /\ w \notin Clients /\ mwait' = mwait /\ waiting' = waiting
  BY WorkerIs, PoolSize DEF LoopTest, StealNothing, Pop, PopClosed, CheckStopped, Run, SetExecuted,
     EndTask, Steal
<1>1. \A y \in Threads \ {w} : stack'[y] = stack[y]
  BY WorkerMoves
<1>2. stack'[w] = stack[w] \/ Len(stack'[w]) = 0
        \/ (Len(stack'[w]) = 1 /\ stack'[w][1].at \in {"call", "executed"})
  <2>1. Frame(hand[w]).at = "call"
    BY DEF Frame
  <2> QED  BY <2>1, WorkerMoves
<1>3. HolderInv'
  <2>1. CASE mwait = w
    <3>1. Len(stack[w]) = 1 /\ First(w).at = "push_test"
      <4>1. w # NoThread
        BY <1>0, ExecutorAssumption
      <4> QED  BY <2>1, <4>1 DEF HolderInv, WorkerInv, Hold, PushLabels
    <3>2. ~Run(w) /\ ~SetExecuted(w) /\ ~EndTask(w)
      <4>1. loop[w] = "test"
        BY <3>1 DEF WorkerInv
      <4>2. Top(w) = First(w)
        BY <1>0, <3>1, FlatTop
      <4> QED  BY <3>1, <4>1, <4>2 DEF Run, SetExecuted, EndTask, At
    <3>3. stack'[w] = stack[w]
      BY <3>2, WorkerMoves
    <3> QED  BY <1>0, <2>1, <3>3 DEF HolderInv, First
  <2>2. CASE mwait # w
    <3>1. mwait = NoThread \/ mwait \in Threads \ {w}
      BY <2>2 DEF StateInv
    <3> QED  BY <1>0, <1>1, <3>1 DEF HolderInv, First
  <2> QED  BY <2>1, <2>2
<1>4. BlockBegun => BlockBegun'
  <2>1. \A d \in Clients : First(d)' = First(d)
    BY <1>0, <1>1 DEF First, Threads
  <2> QED  BY <1>0, <2>1 DEF BlockBegun, Wait
<1>5. \A y \in Threads : Len(stack'[y]) = 1 /\ stack'[y][1].at \in {"push_lock", "push_test"}
                           => BlockBegun
  <2> SUFFICES ASSUME NEW y \in Threads, Len(stack'[y]) = 1,
                      stack'[y][1].at \in {"push_lock", "push_test"}
               PROVE  BlockBegun
    OBVIOUS
  <2>1. stack'[y] = stack[y]
    BY <1>1, <1>2
  <2> QED  BY <2>1 DEF BlockInv, First
<1>6. BlockInv'
  BY <1>0, <1>4, <1>5 DEF BlockInv, First
<1> QED  BY <1>3, <1>6

(* A task that is known stays so, and what is lost is lost to a stop.       *)
LEMMA CallKnown ==
  ASSUME PoolInv, LostInv, NEW x \in Threads, CallStep(x)
  PROVE  /\ Known \subseteq Known' /\ LostInv' /\ (stopped => stopped')
         /\ set \subseteq set' /\ refused \subseteq refused'
<1> USE DEF PoolInv
<1>1. stopped => stopped'
  BY DEF CallStep, PushRefused, PushBlocked, PushAdmitted, PushLock, PushUnlock, Enqueue,
     EnqueueClosed, GetReturn, GetWait, StopFlag, FlagRaised, StopQueue, StopReturn, JoinThreads,
     WaitLock, WaitOther, WaitOtherLock, WaitOtherReturn, WaitEmpty, WaitFree, WaitIdle, WaitReturn
<1>2. CASE PushRefused(x) \/ \E v \in Workers : Enqueue(x, v) \/ EnqueueClosed(x, v)
  <2>0. program' = program
    BY DEF CallStep
  <2>1. PICK t \in Tasks \ Known : PushMoves(t)
    BY <1>2, <2>0, PushOnce
  <2> QED  BY <1>1, <2>1 DEF PushMoves, Known, LostInv
<1>3. CASE ~(PushRefused(x) \/ \E v \in Workers : Enqueue(x, v) \/ EnqueueClosed(x, v))
  <2>1. /\ Queued' = Queued /\ Handed' = Handed /\ Stacked' = Stacked
        /\ UNCHANGED <<set, lost, refused>>
    BY <1>3, CallOnce
  <2> QED  BY <1>1, <2>1 DEF Known, LostInv
<1> QED  BY <1>2, <1>3

LEMMA WorkerKnown ==
  ASSUME PoolInv, Shaped, LostInv, NEW w \in Workers, WorkerStep(w)
  PROVE  /\ Known \subseteq Known' /\ LostInv' /\ stopped' = stopped
         /\ set \subseteq set' /\ refused \subseteq refused'
<1> USE DEF PoolInv
<1>0. program' = program /\ stopped' = stopped
  BY WorkerIs DEF LoopTest, StealNothing, Pop, PopClosed, CheckStopped, Run, SetExecuted,
     EndTask, Steal
<1>1. CASE LoopTest(w) \/ StealNothing(w) \/ PopClosed(w)
  <2>1. /\ Queued' = Queued /\ Handed' = Handed /\ Stacked' = Stacked
        /\ UNCHANGED <<set, lost, refused>>
    BY <1>0, <1>1, IdleOnce DEF LoopTest, StealNothing, PopClosed
  <2> QED  BY <1>0, <2>1 DEF Known, LostInv
<1>2. CASE Pop(w) \/ \E v \in Workers : Steal(w, v)
  <2>1. /\ UNCHANGED <<set, lost, refused>> /\ Stacked' = Stacked
        /\ \E t \in Queued : Queued' = Queued \ {t} /\ Handed' = Handed \union {t}
    BY <1>0, <1>2, TakeOnce
  <2> QED  BY <1>0, <2>1 DEF Known, LostInv
<1>3. CASE CheckStopped(w)
  <2>1. /\ UNCHANGED <<set, refused>> /\ Stacked' = Stacked /\ Queued' = Queued
        /\ \E T \in SUBSET Handed : Handed' = Handed \ T /\ lost' = lost \union T
    BY <1>0, <1>3, DropOnce
  <2>2. stopped
    BY <1>3 DEF CheckStopped
  <2> QED  BY <1>0, <2>1, <2>2 DEF Known, LostInv
<1>4. CASE Run(w)
  <2>1. PICK t \in Queued \union Handed : EnterMoves(t)
    BY <1>0, <1>4, EnterOnce
  <2> QED  BY <1>0, <2>1 DEF EnterMoves, Known, LostInv
<1>5. CASE SetExecuted(w)
  <2>1. /\ UNCHANGED <<lost, refused>>
        /\ Queued' = Queued /\ Handed' = Handed /\ Stacked' = Stacked
        /\ \E t \in (Stacked \intersect Tasks) \ set : set' = set \union {t}
    BY <1>0, <1>5, ExecutedOnce
  <2> QED  BY <1>0, <2>1 DEF Known, LostInv
<1>6. CASE EndTask(w)
  <2>1. /\ UNCHANGED <<set, lost, refused>>
        /\ Queued' = Queued /\ Handed' = Handed
        /\ \E t \in set : Stacked' = Stacked \ {t}
    BY <1>0, <1>6, EndOnce
  <2> QED  BY <1>0, <2>1 DEF Known, LostInv
<1> QED  BY <1>1, <1>2, <1>3, <1>4, <1>5, <1>6, WorkerIs

(* What a client has pushed is known from the return of the push.          *)
LEMMA Pushed ==
  ASSUME PoolInv, NEW x \in Threads,
         PushRefused(x) \/ \E v \in Workers : Enqueue(x, v) \/ EnqueueClosed(x, v)
  PROVE  Call(x).task \in Known'
<1> USE DEF PoolInv
<1>1. CASE PushRefused(x)
  BY <1>1 DEF PushRefused, Known
<1>2. CASE \E v \in Workers : EnqueueClosed(x, v)
  BY <1>2 DEF EnqueueClosed, Known
<1>3. ASSUME NEW v \in Workers, Enqueue(x, v) PROVE Call(x).task \in Known'
  <2>1. PICK t \in Tasks : t = Call(x).task /\ t \notin Known
    BY <1>3, NewTask DEF Enqueue
  <2>2. t \in Tasks \ Queued /\ q' = [q EXCEPT ![v] = Append(q[v], t)]
    BY <1>3, <2>1 DEF Enqueue, Known
  <2>3. Queued' = Queued \union {t}
    BY <2>2, QueueGets DEF OnceInv
  <2> QED  BY <2>1, <2>3 DEF Known
<1> QED  BY <1>1, <1>2, <1>3

(* Which tasks a client has pushed changes with its own calls only, and a   *)
(* call that is no push leaves them.                                       *)
LEMMA MineMoves ==
  ASSUME PoolInv, Flat(program), Shaped, HolderInv, BlockInv, NEW x \in Threads, CallStep(x),
         NEW f \in FrameType, CallMove(x, f), NEW c \in Clients
  PROVE  /\ c # x => Mine(c)' = Mine(c) /\ First(c)' = First(c)
         /\ f.ip = First(c).ip /\ c = x => Mine(c)' = Mine(c)
         /\ c = x => Mine(c)' \subseteq Mine(c) \union {program[c][i].task :
                                     i \in {j \in PushesOf(program, c) : j = First(c).ip}}
<1> USE DEF PoolInv, Shaped
<1>1. c \in Threads /\ Len(stack[c]) = 1 /\ program' = program
  BY CallMoves DEF ClientInv, Threads
<1>2. c # x => First(c)' = First(c)
  BY <1>1, TopMoves DEF CallMove
<1>3. c = x => First(c)' = f
  BY <1>1, TopMoves DEF CallMove
<1>4. ASSUME First(c)'.ip = First(c).ip PROVE Mine(c)' = Mine(c)
  BY <1>1, <1>4 DEF Mine, PushesOf
<1>5. ASSUME c = x
      PROVE  Mine(c)' \subseteq Mine(c) \union {program[c][i].task :
                                     i \in {j \in PushesOf(program, c) : j = First(c).ip}}
  <2>1. f.ip \in {First(c).ip, First(c).ip + 1} /\ First(c).ip \in Nat
    <3>1. x \notin Workers
      BY <1>5, PoolSize
    <3>2. First(c).ip \in Nat
      BY <1>5, CallMoves DEF FrameType
    <3> QED  BY <1>5, <3>1, <3>2 DEF CallMove, Begins, GoesThrough, Ends
  <2>2. \A j \in PushesOf(program, c) : j < f.ip => j < First(c).ip \/ j = First(c).ip
    <3>1. PushesOf(program, c) \subseteq Nat
      BY DEF PushesOf
    <3> QED  BY <2>1, <3>1
  <2>3. Mine(c)' = {program[c][i].task : i \in {j \in PushesOf(program, c) : j < f.ip}}
    BY <1>1, <1>3, <1>5 DEF Mine, PushesOf
  <2> QED  BY <2>2, <2>3 DEF Mine
<1> QED  BY <1>2, <1>3, <1>4, <1>5

LEMMA CallMine ==
  ASSUME PoolInv, Flat(program), Shaped, HolderInv, BlockInv, LostInv, MineInv,
         NEW x \in Threads, CallStep(x), NEW f \in FrameType, CallMove(x, f)
  PROVE  MineInv'
<1> USE DEF PoolInv, Shaped
<1>1. Known \subseteq Known' /\ program' = program
  BY CallKnown, CallMoves
<1> SUFFICES ASSUME NEW c \in Clients PROVE Mine(c)' \subseteq Known'
  BY DEF MineInv
<1>2. CASE c # x \/ f.ip = First(c).ip
  BY <1>1, <1>2, MineMoves DEF MineInv
<1>3. CASE c = x /\ f.ip # First(c).ip
  <2>1. /\ Active(x) /\ Top(x) = First(x) /\ First(x).body = x /\ First(x) \in FrameType
        /\ OpIs(First(x))
    BY <1>3, CallMoves DEF ClientInv, OpInv
  <2>2. Ends(x, First(x), f)
    BY <1>3 DEF CallMove, Begins, GoesThrough
  <2>3. ASSUME First(x).ip \in PushesOf(program, x)
        PROVE  PushRefused(x) \/ \E v \in Workers : Enqueue(x, v) \/ EnqueueClosed(x, v)
    <3>1. CallOf(First(x)).op = "push"
      BY <2>1, <2>3 DEF PushesOf, CallOf
    <3>2. First(x).at = "enqueue" \/ First(x).at = "call"
      BY <2>1, <2>2, <3>1 DEF Ends, OpIs
    <3>3. CASE First(x).at = "enqueue"
      BY <2>1, <3>3 DEF CallStep, PushRefused, PushBlocked, PushAdmitted, PushLock, PushUnlock,
         GetReturn, GetWait, StopFlag, StopQueue, StopReturn, JoinThreads, WaitLock, WaitOther,
         WaitOtherLock, WaitOtherReturn, WaitEmpty, WaitFree, WaitIdle, WaitReturn, Calling, At
    <3>4. CASE First(x).at = "call"
      <4>1. At(x, "call") /\ Call(x).op = "push"
        BY <2>1, <3>1, <3>4 DEF At, Call, CallOf
      <4>2. PushRefused(x) \/ PushBlocked(x) \/ PushAdmitted(x)
        BY <4>1 DEF CallStep, PushLock, PushUnlock, Enqueue, EnqueueClosed, GetReturn, GetWait,
           StopFlag, StopQueue, StopReturn, JoinThreads, WaitLock, WaitOther, WaitOtherLock,
           WaitOtherReturn, WaitEmpty, WaitFree, WaitIdle, WaitReturn, Calling, At
      <4>3. ASSUME PushBlocked(x) \/ PushAdmitted(x) PROVE FALSE
        <5>1. PICK l \in Labels : GoTo(x, l) /\ l # "call"
          BY <4>3 DEF PushBlocked, PushAdmitted, Labels
        <5>2. PICK g \in FrameType : TopIs(x, g) /\ g.at = l
          BY <2>1, <5>1, GoesTo DEF StateInv
        <5>3. g = f
          BY <5>2 DEF CallMove, TopIs
        <5> QED  BY <2>2, <5>1, <5>2, <5>3 DEF Ends
      <4> QED  BY <4>2, <4>3
    <3> QED  BY <3>2, <3>3, <3>4
  <2>4. First(x).ip \in PushesOf(program, x) => program[x][First(x).ip].task \in Known'
    BY <2>1, <2>3, Pushed DEF Call
  <2>5. Mine(c)' \subseteq Mine(c) \union {program[c][i].task :
                               i \in {j \in PushesOf(program, c) : j = First(c).ip}}
    BY <1>3, MineMoves
  <2>6. Mine(c) \subseteq Known'
    BY <1>1 DEF MineInv
  <2> QED  BY <1>3, <2>4, <2>5, <2>6
<1> QED  BY <1>2, <1>3

LEMMA WorkerMine ==
  ASSUME PoolInv, Shaped, LostInv, MineInv, NEW w \in Workers, WorkerStep(w)
  PROVE  MineInv' /\ \A c \in Clients : Mine(c)' = Mine(c) /\ First(c)' = First(c)
<1>1. program' = program /\ \A c \in Clients : c \in Threads \ {w}
  BY WorkerIs, PoolSize DEF Threads
<1>2. \A c \in Clients : Mine(c)' = Mine(c) /\ First(c)' = First(c)
  BY <1>1, WorkerMoves DEF Mine, First, PushesOf
<1>3. Known \subseteq Known'
  BY WorkerKnown
<1> QED  BY <1>2, <1>3 DEF MineInv

LEMMA FreesTo ==
  ASSUME stack \in Stacks, NEW x \in Threads, Active(x),
         SetTop(x, [Top(x) EXCEPT !.at = "wait_busy", !.k = 1])
  PROVE  \E f \in FrameType : TopIs(x, f) /\ f.at = "wait_busy" /\ f.k = 1
<1>1. PICK f \in FrameType : f = [Top(x) EXCEPT !.at = "wait_busy", !.k = 1]
  <2>1. Top(x) \in FrameType
    BY TopFacts
  <2> QED  BY <2>1, PoolSize DEF FrameType, Labels
<1>2. f.at = "wait_busy" /\ f.k = 1
  BY <1>1, TopFacts DEF FrameType
<1> QED  BY <1>1, <1>2, SetTopFacts

LEMMA MineTasks ==
  ASSUME StateInv, NEW c \in Clients
  PROVE  Mine(c) \subseteq Tasks /\ NoTask \notin Mine(c) /\ c \notin Mine(c)
<1>1. \A i \in PushesOf(program, c) : program[c][i].task \in Tasks
  BY ProgramFacts DEF PushesOf, StateInv, Bodies
<1> QED  BY <1>1, ExecutorAssumption DEF Mine

(* Another thread's call queues nothing that a waiting client has pushed.   *)
LEMMA OthersSeen ==
  ASSUME PoolInv, Flat(program), Shaped, HolderInv, BlockInv, LostInv, MineInv,
         NEW x \in Threads, CallStep(x), NEW f \in FrameType, CallMove(x, f),
         NEW c \in Clients, c # x, NEW v \in Workers
  PROVE  /\ QueueFree(c, v) => QueueFree(c, v)'
         /\ WorkerFree(c, v) => WorkerFree(c, v)'
<1> USE DEF PoolInv, Shaped
<1>1. Mine(c)' = Mine(c) /\ Mine(c) \subseteq Known
  BY MineMoves DEF MineInv
<1>2. ASSUME QueueFree(c, v) PROVE QueueFree(c, v)'
  <2>1. CASE \E u \in Workers : Enqueue(x, u)
    <3>1. PICK u \in Workers : Enqueue(x, u)
      BY <2>1
    <3>2. PICK t \in Tasks : t = Call(x).task /\ t \notin Known
      BY <3>1, NewTask DEF Enqueue
    <3>3. q' = [q EXCEPT ![u] = Append(q[u], t)] /\ t \notin Mine(c)
      BY <1>1, <3>1, <3>2 DEF Enqueue
    <3>4. PICK s \in Seq(Tasks) : s = q[v]
      BY DEF StateInv
    <3>5. q'[v] = s \/ q'[v] = Append(s, t)
      BY <3>3, <3>4 DEF StateInv
    <3>6. \A i \in 1..Len(Append(s, t)) : Append(s, t)[i] = t \/ (i \in 1..Len(s) /\ Append(s, t)[i] = s[i])
      OBVIOUS
    <3>7. \A i \in 1..Len(s) : s[i] \notin Mine(c)
      BY <1>2, <3>4 DEF QueueFree
    <3>8. \A i \in 1..Len(q'[v]) : q'[v][i] \notin Mine(c)
      <4>1. CASE q'[v] = s
        BY <3>7, <4>1
      <4>2. CASE q'[v] = Append(s, t)
        BY <3>3, <3>6, <3>7, <4>2
      <4> QED  BY <3>5, <4>1, <4>2
    <3> QED  BY <1>1, <3>8 DEF QueueFree
  <2>2. CASE ~\E u \in Workers : Enqueue(x, u)
    <3>1. q' = q
      BY <2>2 DEF CallStep, PushRefused, PushBlocked, PushAdmitted, PushLock, PushUnlock,
         EnqueueClosed, GetReturn, GetWait, StopFlag, StopQueue, StopReturn, JoinThreads,
         WaitLock, WaitOther, WaitOtherLock, WaitOtherReturn, WaitEmpty, WaitFree, WaitIdle,
         WaitReturn
    <3> QED  BY <1>1, <1>2, <3>1 DEF QueueFree
  <2> QED  BY <2>1, <2>2
<1>3. ASSUME WorkerFree(c, v) PROVE WorkerFree(c, v)'
  <2>1. hand' = hand
    BY DEF CallStep, PushRefused, PushBlocked, PushAdmitted, PushLock, PushUnlock, Enqueue,
       EnqueueClosed, GetReturn, GetWait, StopFlag, StopQueue, StopReturn, JoinThreads,
       WaitLock, WaitOther, WaitOtherLock, WaitOtherReturn, WaitEmpty, WaitFree, WaitIdle,
       WaitReturn
  <2>2. v \in Threads
    BY DEF Threads
  <2>3. Len(stack[v])' = Len(stack[v]) /\ (Len(stack[v]) = 1 => First(v)'.body = First(v).body)
    BY <2>2, TopMoves DEF CallMove
  <2> QED  BY <1>1, <1>3, <2>1, <2>3 DEF WorkerFree
<1> QED  BY <1>2, <1>3

(* The waiting client itself: it goes from queue to queue, then from thread *)
(* to thread.                                                              *)
LEMMA OwnSeen ==
  ASSUME PoolInv, Flat(program), Shaped, HolderInv, BlockInv, LostInv, MineInv, SeenInv,
         NEW x \in Clients, CallStep(x), NEW f \in FrameType, CallMove(x, f), ~stopped
  PROVE  /\ f.at = "wait_empty" => \A v \in Workers : v < f.k => QueueFree(x, v)
         /\ f.at = "wait_busy" =>
              \A v \in Workers : QueueFree(x, v) /\ (v < f.k => WorkerFree(x, v))
<1> USE DEF PoolInv, Shaped
<1>0. /\ x \in Threads /\ stack \in Stacks /\ Active(x) /\ Top(x) = First(x)
      /\ First(x) \in FrameType /\ TopIs(x, f) /\ OpIs(First(x)) /\ Len(stack[x]) = 1
  <2>1. x \in Threads
    BY DEF Threads
  <2> QED  BY <2>1, CallMoves DEF CallMove, StateInv, OpInv
<1>1. \A g \in FrameType : TopIs(x, g) => g = f
  BY <1>0 DEF TopIs
<1>2. CASE WaitLock(x)
  <2>1. PICK g \in FrameType : TopIs(x, g) /\ g.at = "wait_empty" /\ g.k = First(x).k
    BY <1>0, <1>2, GoesTo DEF WaitLock, Labels
  <2>2. First(x).k = 1
    BY <1>0, <1>2 DEF WaitLock, Calling, At, ClientInv
  <2> QED  BY <1>1, <2>1, <2>2 DEF Workers
<1>3. CASE WaitEmpty(x)
  <2>1. /\ First(x).at = "wait_empty" /\ First(x).k \in Workers /\ q[First(x).k] = <<>>
    BY <1>0, <1>3 DEF WaitEmpty, QueueSeenEmpty, At, FrameType, Workers
  <2>2. PICK g \in FrameType : TopIs(x, g) /\ g.at = "wait_empty" /\ g.k = First(x).k + 1
    BY <1>0, <1>3, <2>1, NextQueueIs DEF WaitEmpty
  <2>3. QueueFree(x, First(x).k)
    BY <2>1 DEF QueueFree
  <2>4. \A v \in Workers : v < First(x).k + 1 => v < First(x).k \/ v = First(x).k
    BY <2>1, PoolSize DEF Workers
  <2> QED  BY <1>1, <2>1, <2>2, <2>3, <2>4 DEF SeenInv
<1>4. CASE WaitFree(x)
  <2>1. First(x).at = "wait_empty" /\ \A v \in Workers : v < First(x).k
    BY <1>0, <1>4, PoolSize DEF WaitFree, At, FrameType, Workers
  <2>2. PICK g \in FrameType : TopIs(x, g) /\ g.at = "wait_busy" /\ g.k = 1
    BY <1>0, <1>4, FreesTo DEF WaitFree
  <2>3. \A v \in Workers : ~(v < 1)
    BY PoolSize DEF Workers
  <2> QED  BY <1>1, <2>1, <2>2, <2>3 DEF SeenInv
<1>5. CASE WaitIdle(x)
  <2>1. /\ First(x).at = "wait_busy" /\ First(x).k \in Workers /\ ~busy[First(x).k]
    BY <1>0, <1>5 DEF WaitIdle, SeenIdle, At, FrameType, Workers
  <2>2. PICK g \in FrameType : TopIs(x, g) /\ g.at = "wait_busy" /\ g.k = First(x).k + 1
    BY <1>0, <1>5, <2>1, NextQueueIs DEF WaitIdle
  <2>3. WorkerFree(x, First(x).k)
    <3>1. hand[First(x).k] = NoTask /\ Len(stack[First(x).k]) # 1
      BY <2>1 DEF WorkerInv
    <3> QED  BY <3>1, MineTasks DEF WorkerFree
  <2>4. \A v \in Workers : v < First(x).k + 1 => v < First(x).k \/ v = First(x).k
    BY <2>1, PoolSize DEF Workers
  <2> QED  BY <1>1, <2>1, <2>2, <2>3, <2>4 DEF SeenInv
<1>6. ASSUME f.at \in {"wait_empty", "wait_busy"}
      PROVE  WaitLock(x) \/ WaitEmpty(x) \/ WaitFree(x) \/ WaitIdle(x)
  <2>1. \/ First(x).at = "call" /\ CallOf(First(x)).op = "wait"
        \/ First(x).at \in {"wait_empty", "wait_busy"}
    BY <1>6 DEF CallMove, Begins, GoesThrough, Ends
  <2>2. \/ At(x, "call") /\ Call(x).op = "wait"
        \/ At(x, "wait_empty") \/ At(x, "wait_busy")
    BY <1>0, <2>1 DEF At, Call, CallOf
  <2>3. WaitLock(x) \/ WaitEmpty(x) \/ WaitFree(x) \/ WaitIdle(x) \/ WaitReturn(x)
    BY <1>0, <2>2, NoOther DEF CallStep, PushRefused, PushBlocked, PushAdmitted, PushLock,
       PushUnlock, Enqueue, EnqueueClosed, GetReturn, GetWait, StopFlag, StopQueue, StopReturn,
       JoinThreads, Calling, At
  <2>4. ASSUME WaitReturn(x) PROVE FALSE
    <3>1. PICK g \in FrameType : TopIs(x, g) /\ g.at = "call"
      BY <1>0, <2>4, ReturnsTo DEF WaitReturn
    <3> QED  BY <1>1, <1>6, <3>1
  <2> QED  BY <2>3, <2>4
<1> QED  BY <1>2, <1>3, <1>4, <1>5, <1>6

LEMMA CallSeen ==
  ASSUME PoolInv, Flat(program), Shaped, HolderInv, BlockInv, LostInv, MineInv, SeenInv,
         NEW x \in Threads, CallStep(x), NEW f \in FrameType, CallMove(x, f)
  PROVE  SeenInv'
<1> SUFFICES ASSUME NEW c \in Clients, ~stopped'
             PROVE  /\ First(c)'.at = "wait_empty" =>
                         \A v \in Workers : v < First(c)'.k => QueueFree(c, v)'
                    /\ First(c)'.at = "wait_busy" =>
                         \A v \in Workers : QueueFree(c, v)' /\ (v < First(c)'.k => WorkerFree(c, v)')
  BY DEF SeenInv
<1>0. ~stopped
  BY CallKnown
<1>1. CASE c # x
  <2>1. First(c)' = First(c)
    BY <1>1, MineMoves
  <2> QED  BY <1>0, <1>1, <2>1, OthersSeen DEF SeenInv
<1>2. CASE c = x
  <2>1. First(c)' = f
    BY <1>2, TopMoves DEF CallMove
  <2>2. /\ f.at = "wait_empty" => \A v \in Workers : v < f.k => QueueFree(x, v)
        /\ f.at = "wait_busy" =>
              \A v \in Workers : QueueFree(x, v) /\ (v < f.k => WorkerFree(x, v))
    BY <1>0, <1>2, OwnSeen
  <2>3. ASSUME f.at \in {"wait_empty", "wait_busy"}
        PROVE  q' = q /\ hand' = hand /\ Mine(c)' = Mine(c)
    <3>1. f.ip = First(x).ip
      BY <2>3 DEF CallMove, Begins, GoesThrough, Ends
    <3>2. hand' = hand
      BY DEF CallStep, PushRefused, PushBlocked, PushAdmitted, PushLock, PushUnlock, Enqueue,
         EnqueueClosed, GetReturn, GetWait, StopFlag, StopQueue, StopReturn, JoinThreads,
         WaitLock, WaitOther, WaitOtherLock, WaitOtherReturn, WaitEmpty, WaitFree, WaitIdle,
         WaitReturn
    <3>3. \A u \in Workers : ~Enqueue(x, u)
      <4>1. ASSUME NEW u \in Workers, Enqueue(x, u) PROVE FALSE
        <5>1. First(x).at = "enqueue"
          BY <4>1, CallMoves DEF Enqueue, At
        <5> QED  BY <2>3, <5>1 DEF CallMove, Begins, GoesThrough, Ends
      <4> QED  BY <4>1
    <3>4. q' = q
      BY <3>3 DEF CallStep, PushRefused, PushBlocked, PushAdmitted, PushLock, PushUnlock,
         EnqueueClosed, GetReturn, GetWait, StopFlag, StopQueue, StopReturn, JoinThreads,
         WaitLock, WaitOther, WaitOtherLock, WaitOtherReturn, WaitEmpty, WaitFree, WaitIdle,
         WaitReturn
    <3> QED  BY <1>2, <3>1, <3>2, <3>4, MineMoves
  <2>4. \A v \in Workers : v \in Threads /\ v # x
    BY <1>2, PoolSize DEF Threads
  <2>5. \A v \in Workers : stack'[v] = stack[v] \/ Len(stack'[v]) # 1
                             \/ (Len(stack[v]) = 1 /\ First(v)' = First(v))
    BY <2>4, TopMoves DEF CallMove
  <2>6. ASSUME f.at \in {"wait_empty", "wait_busy"}, NEW v \in Workers
        PROVE  /\ QueueFree(x, v) => QueueFree(c, v)'
               /\ WorkerFree(x, v) => WorkerFree(c, v)'
    BY <1>2, <2>3, <2>5, <2>6 DEF QueueFree, WorkerFree, First
  <2> QED  BY <2>1, <2>2, <2>6
<1> QED  BY <1>1, <1>2

(* When a wait returns, what its client has pushed is nowhere on its way.   *)
LEMMA AllDone ==
  ASSUME PoolInv, Shaped, LostInv, MineInv, NEW c \in Clients, ~stopped,
         \A v \in Workers : QueueFree(c, v) /\ WorkerFree(c, v)
  PROVE  Mine(c) \subseteq set \union refused
<1> USE DEF PoolInv, Shaped
<1> SUFFICES ASSUME NEW t \in Mine(c) PROVE t \in set \union refused
  OBVIOUS
<1>1. t \in Known /\ t \in Tasks /\ lost = {}
  BY MineTasks DEF MineInv, LostInv
<1>2. t \notin Queued /\ t \notin Handed
  BY DEF Queued, Handed, QueueFree, WorkerFree
<1>3. t \notin Stacked
  <2>1. ASSUME NEW y \in Threads, NEW i \in Depth(y), stack[y][i].body = t PROVE FALSE
    <3>0. PICK n \in {0, 1} : n = Len(stack[y])
      BY FlatTop
    <3>1. i = 1 /\ Len(stack[y]) = 1
      <4>1. i \in 1..n
        BY <3>0 DEF Depth
      <4>2. n = 1 /\ i = 1
        BY <4>1
      <4> QED  BY <3>0, <4>2
    <3>2. CASE y \in Workers
      BY <2>1, <3>1, <3>2 DEF WorkerFree, First
    <3>3. CASE y \in Clients
      BY <1>1, <2>1, <3>1, <3>3, ExecutorAssumption DEF ClientInv, First
    <3> QED  BY <3>2, <3>3 DEF Threads
  <2> QED  BY <2>1 DEF Stacked
<1> QED  BY <1>1, <1>2, <1>3 DEF Known

LEMMA CallWaited ==
  ASSUME PoolInv, Flat(program), Shaped, HolderInv, BlockInv, LostInv, MineInv, SeenInv, WaitedInv,
         NEW x \in Threads, CallStep(x), NEW f \in FrameType, CallMove(x, f)
  PROVE  WaitedInv'
<1> USE DEF PoolInv, Shaped
<1>0. program' = program /\ (stopped => stopped') /\ set \subseteq set' /\ refused \subseteq refused'
  BY CallMoves, CallKnown
<1> SUFFICES ASSUME NEW c \in Clients, ~stopped', First(c)'.at = "call", First(c)'.ip > 1,
                    program[c][First(c)'.ip - 1].op = "wait"
             PROVE  Mine(c)' \subseteq set' \union refused'
  BY <1>0 DEF WaitedInv
<1>1. CASE c # x
  <2>1. First(c)' = First(c) /\ Mine(c)' = Mine(c)
    BY <1>1, MineMoves
  <2> QED  BY <1>0, <2>1 DEF WaitedInv
<1>2. CASE c = x
  <2>0. /\ Active(x) /\ Top(x) = First(x) /\ First(x).body = x /\ First(x) \in FrameType
        /\ OpIs(First(x)) /\ WellFormed(x, First(x)) /\ TopIs(x, f) /\ stack \in Stacks
    BY <1>2, CallMoves, FlatTop DEF ClientInv, OpInv, CallInv, First, CallMove, StateInv
  <2>1. First(c)' = f
    BY <1>2, TopMoves DEF CallMove
  <2>2. Ends(x, First(x), f)
    BY <2>1 DEF CallMove, Begins, GoesThrough, Ends, OpIs
  <2>3. f.ip = First(x).ip + 1 /\ f.ip - 1 = First(x).ip
    <3>1. x \notin Workers
      BY <1>2, PoolSize
    <3> QED  BY <2>0, <2>2, <3>1 DEF Ends, FrameType
  <2>4. CallOf(First(x)).op = "wait"
    BY <1>2, <2>0, <2>1, <2>3 DEF CallOf
  <2>5. First(x).at = "wait_busy"
    BY <2>0, <2>2, <2>4 DEF Ends, OpIs, WellFormed, PushesOf, CallOf
  <2>6. WaitReturn(x)
    <3>1. At(x, "wait_busy")
      BY <2>0, <2>5 DEF At
    <3>2. WaitIdle(x) \/ WaitReturn(x)
      BY <3>1, NoOther DEF CallStep, PushRefused, PushBlocked, PushAdmitted, PushLock, PushUnlock,
         Enqueue, EnqueueClosed, GetReturn, GetWait, StopFlag, StopQueue, StopReturn, JoinThreads,
         WaitLock, WaitEmpty, WaitFree, Calling, At
    <3>3. ASSUME WaitIdle(x) PROVE FALSE
      <4>1. PICK g \in FrameType : TopIs(x, g) /\ g.at = "wait_busy"
        BY <2>0, <2>5, <3>3, NextQueueIs DEF WaitIdle
      <4> QED  BY <2>0, <2>2, <4>1 DEF TopIs, Ends
    <3> QED  BY <3>2, <3>3
  <2>7. \A v \in Workers : v < First(x).k
    BY <2>0, <2>6, PoolSize DEF WaitReturn, FrameType, Workers
  <2>8. Mine(c) \subseteq set \union refused
    BY <1>0, <1>2, <2>5, <2>7, AllDone DEF SeenInv
  <2>9. Mine(c)' \subseteq Mine(c)
    <3>1. First(x).ip \notin PushesOf(program, x)
      BY <2>0, <2>4 DEF PushesOf, CallOf
    <3>2. Mine(c)' \subseteq Mine(c) \union {program[c][i].task :
                                     i \in {j \in PushesOf(program, c) : j = First(c).ip}}
      BY <1>2, MineMoves
    <3> QED  BY <1>2, <3>1, <3>2
  <2> QED  BY <1>0, <2>8, <2>9
<1> QED  BY <1>1, <1>2

(* A worker takes tasks from the queues, and none that a client waits for   *)
(* once that client has found them empty.                                  *)
LEMMA WorkerSeen ==
  ASSUME PoolInv, Shaped, LostInv, MineInv, SeenInv, WaitedInv, NEW w \in Workers, WorkerStep(w)
  PROVE  SeenInv' /\ WaitedInv'
<1> USE DEF PoolInv, Shaped
<1>0. /\ program' = program /\ stopped' = stopped /\ w \in Threads
      /\ set \subseteq set' /\ refused \subseteq refused'
      /\ \A c \in Clients : Mine(c)' = Mine(c) /\ First(c)' = First(c)
  BY WorkerIs, WorkerKnown, WorkerMine
<1>1. ASSUME NEW v \in Workers, NEW i \in 1..Len(q'[v])
      PROVE  \E j \in 1..Len(q[v]) : q'[v][i] = q[v][j]
  <2>1. CASE \E u \in Workers : TakenFrom(w, u)
    <3>1. PICK u \in Workers : TakenFrom(w, u)
      BY <2>1
    <3>2. q[u] # <<>> /\ q' = [q EXCEPT ![u] = Tail(q[u])] /\ q[v] \in Seq(Tasks)
      BY <3>1, TakenFacts DEF StateInv
    <3>3. q'[v] = q[v] \/ (q[v] # <<>> /\ q'[v] = Tail(q[v]))
      BY <3>2 DEF StateInv
    <3>4. PICK s \in Seq(Tasks) : s = q[v]
      BY <3>2
    <3>5. CASE q[v] # <<>> /\ q'[v] = Tail(q[v])
      <4>1. i \in 1..Len(Tail(s)) /\ s # <<>>
        BY <3>4, <3>5
      <4>2. i + 1 \in 1..Len(s) /\ Tail(s)[i] = s[i + 1]
        BY <4>1
      <4> QED  BY <3>4, <3>5, <4>2
    <3>6. CASE q'[v] = q[v]
      BY <3>6
    <3> QED  BY <3>3, <3>5, <3>6
  <2>2. CASE ~\E u \in Workers : TakenFrom(w, u)
    <3>1. q' = q
      BY <2>2, WorkerIs DEF LoopTest, StealNothing, Pop, PopClosed, CheckStopped, Run,
         SetExecuted, EndTask, Steal
    <3> QED  BY <3>1
  <2> QED  BY <2>1, <2>2
<1>2. ASSUME NEW c \in Clients, NEW v \in Workers, QueueFree(c, v)
      PROVE  QueueFree(c, v)'
  BY <1>0, <1>1, <1>2 DEF QueueFree
<1>3. ASSUME NEW c \in Clients, NEW v \in Workers, \A u \in Workers : QueueFree(c, u), WorkerFree(c, v)
      PROVE  WorkerFree(c, v)'
  <2>1. hand'[v] \notin Mine(c)
    <3>1. CASE \E u \in Workers : TakenFrom(w, u) /\ hand' = [hand EXCEPT ![w] = Head(q[u])]
      <4>1. PICK u \in Workers : TakenFrom(w, u) /\ hand' = [hand EXCEPT ![w] = Head(q[u])]
        BY <3>1
      <4>2. PICK s \in Seq(Tasks) : s = q[u] /\ s # <<>>
        BY <4>1, TakenFacts
      <4>3. Head(s) = s[1] /\ 1 \in 1..Len(s)
        BY <4>2
      <4>4. Head(q[u]) \notin Mine(c)
        BY <1>3, <4>2, <4>3 DEF QueueFree
      <4> QED  BY <1>3, <4>1, <4>4 DEF WorkerFree, StateInv
    <3>2. CASE hand' = hand \/ hand' = [hand EXCEPT ![w] = NoTask]
      BY <1>3, <3>2, MineTasks DEF WorkerFree, StateInv
    <3>3. \/ \E u \in Workers : TakenFrom(w, u) /\ hand' = [hand EXCEPT ![w] = Head(q[u])]
          \/ hand' = hand \/ hand' = [hand EXCEPT ![w] = NoTask]
      BY WorkerIs DEF LoopTest, StealNothing, Pop, PopClosed, CheckStopped, Run, SetExecuted,
         EndTask, Steal
    <3> QED  BY <3>1, <3>2, <3>3
  <2>2. Len(stack'[v]) = 1 => stack'[v][1].body \notin Mine(c)
    <3>1. v \in Threads /\ Frame(hand[w]).body = hand[w]
      BY DEF Threads, Frame
    <3>2. CASE stack'[v] = stack[v]
      BY <1>3, <3>2 DEF WorkerFree, First
    <3>3. CASE v = w /\ stack'[v] # stack[v]
      BY <1>3, <3>1, <3>3, WorkerMoves DEF WorkerFree
    <3> QED  BY <3>1, <3>2, <3>3, WorkerMoves
  <2> QED  BY <1>0, <2>1, <2>2 DEF WorkerFree, First
<1>4. SeenInv'
  <2> SUFFICES ASSUME NEW c \in Clients, ~stopped
               PROVE  /\ First(c).at = "wait_empty" =>
                           \A v \in Workers : v < First(c).k => QueueFree(c, v)'
                      /\ First(c).at = "wait_busy" =>
                           \A v \in Workers : QueueFree(c, v)' /\ (v < First(c).k => WorkerFree(c, v)')
    BY <1>0 DEF SeenInv
  <2> QED  BY <1>2, <1>3 DEF SeenInv
<1>5. WaitedInv'
  BY <1>0 DEF WaitedInv
<1> QED  BY <1>4, <1>5

LEMMA InitFlat == Init => FlatInv
<1> SUFFICES ASSUME Init PROVE FlatInv
  OBVIOUS
<1>1. \A c \in Clients : Len(stack[c]) = 1 /\ First(c) = Frame(c)
  <2> SUFFICES ASSUME NEW c \in Clients PROVE Len(stack[c]) = 1 /\ First(c) = Frame(c)
    OBVIOUS
  <2>1. PICK f : f = Frame(c)
    OBVIOUS
  <2>2. stack[c] = <<f>>
    BY <2>1 DEF Init, Threads
  <2> QED  BY <2>1, <2>2 DEF First
<1>2. \A w \in Workers : Len(stack[w]) = 0
  BY PoolSize DEF Init, Threads
<1>3. \A c \in Clients : Frame(c).body = c /\ Frame(c).at = "call" /\ Frame(c).ip = 1 /\ Frame(c).k = 1
  BY DEF Frame
<1>4. \A c \in Clients : Mine(c) = {}
  <2>1. \A c \in Clients : \A j \in PushesOf(program, c) : ~(j < 1)
    BY DEF PushesOf
  <2> QED  BY <1>1, <1>3, <2>1 DEF Mine
<1>5. ClientInv
  BY <1>1, <1>3 DEF ClientInv
<1>6. WorkerInv
  BY <1>2 DEF Init, WorkerInv
<1>7. OpInv
  <2>1. \A x \in Threads : Len(stack[x]) = 1 => First(x).at = "call"
    BY <1>1, <1>2, <1>3 DEF Threads
  <2> QED  BY <2>1 DEF OpInv, OpIs
<1>8. HolderInv /\ BlockInv
  <2>1. \A x \in Threads : Len(stack[x]) = 1 => First(x).at = "call"
    BY <1>1, <1>2, <1>3 DEF Threads
  <2> QED  BY <2>1 DEF Init, HolderInv, BlockInv
<1>9. LostInv /\ MineInv
  BY <1>4 DEF Init, LostInv, MineInv
<1>10. SeenInv /\ WaitedInv
  BY <1>1, <1>3 DEF SeenInv, WaitedInv
<1> QED  BY <1>5, <1>6, <1>7, <1>8, <1>9, <1>10 DEF FlatInv

LEMMA NextFlat == PoolInv /\ Flat(program) /\ FlatInv /\ [Next]_vars => FlatInv' /\ program' = program
<1> SUFFICES ASSUME PoolInv, Flat(program), FlatInv, [Next]_vars
             PROVE  FlatInv' /\ program' = program
  OBVIOUS
<1>0. Shaped /\ HolderInv /\ BlockInv /\ LostInv /\ MineInv /\ SeenInv /\ WaitedInv
  BY DEF FlatInv, Shaped
<1>1. ASSUME NEW x \in Threads, CallStep(x) PROVE FlatInv' /\ program' = program
  <2>1. PICK f \in FrameType : CallMove(x, f)
    BY <1>0, <1>1, CallMoves
  <2>2. Shaped' /\ HolderInv' /\ BlockInv'
    BY <1>0, <1>1, <2>1, CallShape, CallHolder, CallBlock
  <2>3. LostInv' /\ MineInv'
    BY <1>0, <1>1, <2>1, CallKnown, CallMine
  <2>4. SeenInv' /\ WaitedInv'
    BY <1>0, <1>1, <2>1, CallSeen, CallWaited
  <2>5. program' = program
    BY <1>1 DEF CallStep
  <2> QED  BY <2>2, <2>3, <2>4, <2>5 DEF FlatInv, Shaped
<1>2. ASSUME NEW w \in Workers, WorkerStep(w) PROVE FlatInv' /\ program' = program
  <2>1. Shaped' /\ HolderInv' /\ BlockInv'
    BY <1>0, <1>2, WorkerShape, WorkerHolder
  <2>2. LostInv' /\ MineInv'
    BY <1>0, <1>2, WorkerKnown, WorkerMine
  <2>3. SeenInv' /\ WaitedInv'
    BY <1>0, <1>2, WorkerSeen
  <2>4. program' = program
    BY <1>2 DEF WorkerStep
  <2> QED  BY <2>1, <2>2, <2>3, <2>4 DEF FlatInv, Shaped
<1>3. CASE UNCHANGED vars
  <2> USE <1>3 DEF vars
  <2>1. ClientInv' /\ WorkerInv' /\ OpInv'
    BY <1>0 DEF Shaped, ClientInv, WorkerInv, OpInv, OpIs, CallOf, First
  <2>2. HolderInv' /\ BlockInv' /\ LostInv'
    BY <1>0 DEF HolderInv, BlockInv, BlockBegun, LostInv, First, Wait
  <2>3. Known' = Known /\ \A c \in Clients : Mine(c)' = Mine(c)
    BY DEF Known, Queued, Handed, Stacked, Depth, Mine, First, PushesOf
  <2>4. MineInv'
    BY <1>0, <2>3 DEF MineInv
  <2>5. SeenInv'
    BY <1>0, <2>3 DEF SeenInv, QueueFree, WorkerFree, First
  <2>6. WaitedInv'
    BY <1>0, <2>3 DEF WaitedInv, First
  <2> QED  BY <2>1, <2>2, <2>4, <2>5, <2>6 DEF FlatInv
<1> QED  BY <1>1, <1>2, <1>3 DEF Next

(* Under a flat program wait() is a barrier (executor.h:441-487): what a    *)
(* client has pushed before has been executed or refused when it returns,   *)
(* unless the pool was stopped.  Without flatness it is none: a nested task *)
(* lowers the busy flag of the one beneath it (560), and a wait that finds  *)
(* m_wait taken, by another wait or by a push that had been blocked,        *)
(* returns without a look at the queues (443-447).                         *)
THEOREM WaitIsBarrier == Spec => [](Flat(program) => WaitMeansDone)
<1> DEFINE Always == PoolInv /\ (Flat(program) => FlatInv)
<1>1. Init => Always
  BY InitPool, InitFlat
<1>2. Always /\ [Next]_vars => Always'
  <2> SUFFICES ASSUME Always, [Next]_vars PROVE Always'
    OBVIOUS
  <2>1. program' = program
    BY DEF Next, CallStep, WorkerStep, vars
  <2>2. Flat(program)' => Flat(program)
    BY <2>1 DEF Flat
  <2> QED  BY <2>2, NextPool, NextFlat
<1>3. Always => (Flat(program) => WaitMeansDone)
  <2> SUFFICES ASSUME PoolInv, FlatInv PROVE WaitMeansDone
    OBVIOUS
  <2>1. \A c \in Clients : Top(c) = First(c)
    BY FlatTop DEF FlatInv, PoolInv, ClientInv, Threads
  <2>2. \A c \in Clients : \A i \in PushesOf(program, c) :
          i < First(c).ip => program[c][i].task \in Mine(c)
    BY DEF Mine
  <2> SUFFICES ASSUME NEW c \in Clients, Top(c).at = "call", Top(c).ip > 1,
                      program[c][Top(c).ip - 1].op = "wait", ~stopped,
                      NEW i \in PushesOf(program, c), i < Top(c).ip
               PROVE  program[c][i].task \in set \union refused
    BY DEF WaitMeansDone
  <2>3. Mine(c) \subseteq set \union refused
    BY <2>1 DEF FlatInv, WaitedInv
  <2> QED  BY <2>1, <2>2, <2>3
<1> QED  BY <1>1, <1>2, <1>3, PTL DEF Spec
=============================================================================
