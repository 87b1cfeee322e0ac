------------------------------ MODULE Executor ------------------------------
(***************************************************************************)
(* struct Executor (executor.h): a pool of threads with one TaskQueue each, *)
(* work stealing, nested execution of queued tasks by a thread that waits   *)
(* inside a task (Future::get, Executor::wait), and the shutdown protocol   *)
(* wait / stop / join.                                                      *)
(*                                                                          *)
(* The operations of a TaskQueue are atomic here, which module TaskQueue    *)
(* justifies.  What a task or a client thread does with the executor is a   *)
(* sequence of calls, its program; each thread keeps a stack of the bodies  *)
(* it is executing, the innermost first.                                    *)
(***************************************************************************)
EXTENDS Naturals, Sequences, FiniteSets, Functions

CONSTANTS N,          (* nThreads                                          *)
          Clients,    (* threads outside the pool                          *)
          Tasks,      (* the closures they push                            *)
          Programs,   (* what the tasks and the clients may be written to  *)
                      (* do: the calls each of them makes                  *)
          NoTask,     (* an empty std::function                            *)
          NoThread    (* nobody holds m_wait                               *)

Workers == 1..N
Threads == Workers \union Clients
Policies == {"AllowIncoming", "BlockIncoming", "RejectIncoming"}

(* The calls a body can make on the executor.  join() is three of them.    *)
Push(t) == [op |-> "push", task |-> t]
Get(t)  == [op |-> "get", task |-> t]
Wait(p) == [op |-> "wait", policy |-> p]
Stop    == [op |-> "stop"]
Join    == <<Wait("BlockIncoming"), Stop, [op |-> "join_threads"]>>

Calls == {Push(t) : t \in Tasks} \union {Get(t) : t \in Tasks}
         \union {Wait(p) : p \in Policies} \union Range(Join)

PushesOf(p, b) == {i \in 1..Len(p[b]) : p[b][i].op = "push"}

(* Each task is pushed from one place; no thread of the pool joins it.     *)
ASSUME ExecutorAssumption ==
  /\ N \in Nat \ {0}
  /\ NoTask \notin Tasks /\ NoThread \notin Threads
  /\ Tasks \intersect Clients = {} /\ Workers \intersect Clients = {}
  /\ \A p \in Programs :
       /\ p \in [Tasks \union Clients -> Seq(Calls)]
       /\ \A a, b \in Tasks \union Clients : \A i \in PushesOf(p, a), j \in PushesOf(p, b) :
            p[a][i] = p[b][j] => a = b /\ i = j
       /\ \A t \in Tasks : [op |-> "join_threads"] \notin Range(p[t])

VARIABLES program,   (* the program of this run: it never changes          *)
          q,         (* thread_pool[i].q                                   *)
          done,      (* thread_pool[i].q.done_                             *)
          busy,      (* thread_pool[i].busy                                *)
          stopped,   (* stopped_                                           *)
          mwait,     (* the thread that holds m_wait, or NoThread          *)
          waiting,   (* waiting_                                           *)
          loop,      (* where each worker is in run()                      *)
          hand,      (* the task get_task returned to it                   *)
          stack,     (* the bodies each thread is executing                *)
          set,       (* the tasks whose future is set                      *)
          lost,      (* history: tasks discarded                           *)
          refused    (* history: tasks push threw an exception for         *)

vars == <<program, q, done, busy, stopped, mwait, waiting, loop, hand, stack, set, lost, refused>>

Frame(b) == [body |-> b, ip |-> 1, at |-> "call", k |-> 1]

Init ==
  /\ program \in Programs
  /\ q = [w \in Workers |-> <<>>]
  /\ done = [w \in Workers |-> FALSE]
  /\ busy = [w \in Workers |-> FALSE]
  /\ stopped = FALSE
  /\ mwait = NoThread
  /\ waiting = "Running"
  /\ loop = [w \in Workers |-> "test"]
  /\ hand = [w \in Workers |-> NoTask]
  /\ stack = [x \in Threads |-> IF x \in Clients THEN <<Frame(x)>> ELSE <<>>]
  /\ set = {}
  /\ lost = {}
  /\ refused = {}

(* The innermost body of a thread, and the call it is at.                  *)
Active(x) == stack[x] # <<>>
Top(x) == Head(stack[x])
Over(x) == Top(x).ip > Len(program[Top(x).body])
Call(x) == program[Top(x).body][Top(x).ip]

At(x, l) == Active(x) /\ Top(x).at = l
Calling(x, op) == At(x, "call") /\ ~Over(x) /\ Call(x).op = op

SetTop(x, f) == stack' = [stack EXCEPT ![x][1] = f]
GoTo(x, l) == SetTop(x, [Top(x) EXCEPT !.at = l])
Return(x) == SetTop(x, [Frame(Top(x).body) EXCEPT !.ip = Top(x).ip + 1])
NextQueue(x) == SetTop(x, [Top(x) EXCEPT !.k = @ + 1])
(* An exception leaves the body of a task; a client thread catches it.      *)
Throw(x) == IF x \in Clients THEN Return(x)
            ELSE SetTop(x, [Top(x) EXCEPT !.ip = Len(program[Top(x).body]) + 1])
Enter(x, b) == stack' = [stack EXCEPT ![x] = <<Frame(b)>> \o @]

(* try_pop and pop by worker w on the queue of v.  (Here and below, a       *)
(* definition named after a mistake is the variant the mutant runs put in   *)
(* the place of the one that follows it.)                                   *)
NeverPopped(v) == q[v]
Popped(v) == Tail(q[v])

NeverRaised(w) == busy
Raised(w) == [busy EXCEPT ![w] = TRUE]

TakenFrom(w, v) ==
  /\ q[v] # <<>> /\ ~done[v]
  /\ q' = [q EXCEPT ![v] = Popped(v)]
  /\ busy' = Raised(w)

-----------------------------------------------------------------------------
(* run(): while (!stopped_) if (!run_task()) break;                         *)

LoopTest(w) ==
  /\ ~Active(w)
  /\ loop[w] = "test"
  /\ loop' = [loop EXCEPT ![w] = IF stopped THEN "left" ELSE "steal"]
  /\ UNCHANGED <<q, done, busy, stopped, mwait, waiting, hand, stack, set, lost, refused>>

(* try_pop(i): its own queue first, then the others, 4N attempts.          *)
Steal(w, v) ==
  /\ loop[w] = "steal"
  /\ TakenFrom(w, v)
  /\ hand' = [hand EXCEPT ![w] = Head(q[v])]
  /\ loop' = [loop EXCEPT ![w] = "check"]
  /\ UNCHANGED <<done, stopped, mwait, waiting, stack, set, lost, refused>>

(* Every attempt found a queue empty, closed or locked by another thread.  *)
StealNothing(w) ==
  /\ loop[w] = "steal"
  /\ loop' = [loop EXCEPT ![w] = "pop"]
  /\ UNCHANGED <<q, done, busy, stopped, mwait, waiting, hand, stack, set, lost, refused>>

(* thr.q.pop: from now on the worker looks at its own queue only.          *)
Pop(w) ==
  /\ loop[w] = "pop"
  /\ TakenFrom(w, w)
  /\ hand' = [hand EXCEPT ![w] = Head(q[w])]
  /\ loop' = [loop EXCEPT ![w] = "check"]
  /\ UNCHANGED <<done, stopped, mwait, waiting, stack, set, lost, refused>>

PopClosed(w) ==
  /\ loop[w] = "pop"
  /\ done[w]
  /\ loop' = [loop EXCEPT ![w] = "check"]
  /\ UNCHANGED <<q, done, busy, stopped, mwait, waiting, hand, stack, set, lost, refused>>

(* The double check: the task taken out is dropped, and busy stays up.     *)
CheckStopped(w) ==
  /\ loop[w] = "check"
  /\ stopped
  /\ loop' = [loop EXCEPT ![w] = "left"]
  /\ hand' = [hand EXCEPT ![w] = NoTask]
  /\ lost' = lost \union ({hand[w]} \ {NoTask})
  /\ UNCHANGED <<q, done, busy, stopped, mwait, waiting, stack, set, refused>>

Run(w) ==
  /\ loop[w] = "check"
  /\ ~stopped
  /\ hand[w] # NoTask
  /\ Enter(w, hand[w])
  /\ hand' = [hand EXCEPT ![w] = NoTask]
  /\ loop' = [loop EXCEPT ![w] = "test"]
  /\ UNCHANGED <<q, done, busy, stopped, mwait, waiting, set, lost, refused>>

(* The body has returned or thrown: setExecuted(), then busy = false.      *)
NotExecuted(t) == set
Executed(t) == set \union {t}

SetExecuted(w) ==
  /\ At(w, "call") /\ Over(w)
  /\ set' = Executed(Top(w).body)
  /\ GoTo(w, "executed")
  /\ UNCHANGED <<q, done, busy, stopped, mwait, waiting, loop, hand, lost, refused>>

EndTask(w) ==
  /\ At(w, "executed")
  /\ busy' = [busy EXCEPT ![w] = FALSE]
  /\ stack' = [stack EXCEPT ![w] = Tail(@)]
  /\ UNCHANGED <<q, done, stopped, mwait, waiting, loop, hand, set, lost, refused>>

-----------------------------------------------------------------------------
(* push(Task &&).  waiting_ is read before m_wait is taken and the task is  *)
(* queued after it is released; the two reads of waiting_ are one step here *)
(* (a change between them acts as a push a moment earlier or later).        *)

PushRefused(x) ==
  /\ Calling(x, "push")
  /\ waiting = "RejectIncoming"
  /\ refused' = refused \union {Call(x).task}
  /\ Throw(x)
  /\ UNCHANGED <<q, done, busy, stopped, mwait, waiting, loop, hand, set, lost>>

PushBlocked(x) ==
  /\ Calling(x, "push")
  /\ waiting = "BlockIncoming"
  /\ GoTo(x, "push_lock")
  /\ UNCHANGED <<q, done, busy, stopped, mwait, waiting, loop, hand, set, lost, refused>>

PushAdmitted(x) ==
  /\ Calling(x, "push")
  /\ waiting \in {"Running", "AllowIncoming"}
  /\ GoTo(x, "enqueue")
  /\ UNCHANGED <<q, done, busy, stopped, mwait, waiting, loop, hand, set, lost, refused>>

PushLock(x) ==
  /\ At(x, "push_lock")
  /\ mwait = NoThread
  /\ mwait' = x
  /\ GoTo(x, "push_test")
  /\ UNCHANGED <<q, done, busy, stopped, waiting, loop, hand, set, lost, refused>>

(* cv_wait.wait(lk, waiting_ == Running): PushNeverSleeps says that the    *)
(* predicate always holds here, so the condition variable never blocks.    *)
PushUnlock(x) ==
  /\ At(x, "push_test")
  /\ waiting = "Running"
  /\ mwait' = NoThread
  /\ GoTo(x, "enqueue")
  /\ UNCHANGED <<q, done, busy, stopped, waiting, loop, hand, set, lost, refused>>

(* index++, then try_push round the queues and push to the first of them:  *)
(* any open queue, since a try_push that meets a locked one moves on.      *)
Enqueue(x, v) ==
  /\ At(x, "enqueue")
  /\ ~done[v]
  /\ q' = [q EXCEPT ![v] = Append(@, Call(x).task)]
  /\ Return(x)
  /\ UNCHANGED <<done, busy, stopped, mwait, waiting, loop, hand, set, lost, refused>>

(* All try_push failed and the queue of the last resort is closed.         *)
EnqueueClosed(x, v) ==
  /\ At(x, "enqueue")
  /\ done[v]
  /\ lost' = lost \union {Call(x).task}
  /\ Return(x)
  /\ UNCHANGED <<q, done, busy, stopped, mwait, waiting, loop, hand, set, refused>>

-----------------------------------------------------------------------------
(* Future::get, i.e. SharedState::wait on the future of a task.             *)

GetReturn(x) ==
  /\ Calling(x, "get") \/ At(x, "getting")
  /\ Call(x).task \in set \/ (At(x, "getting") /\ stopped)
  /\ Return(x)
  /\ UNCHANGED <<q, done, busy, stopped, mwait, waiting, loop, hand, set, lost, refused>>

GetWait(x) ==
  /\ Calling(x, "get")
  /\ Call(x).task \notin set
  /\ GoTo(x, "getting")
  /\ UNCHANGED <<q, done, busy, stopped, mwait, waiting, loop, hand, set, lost, refused>>

(* A worker goes on with the executor's business: the loop test ...        *)
GetPoll(w) ==
  /\ At(w, "getting")
  /\ Call(w).task \notin set /\ ~stopped
  /\ GoTo(w, "try_run_one")
  /\ UNCHANGED <<q, done, busy, stopped, mwait, waiting, loop, hand, set, lost, refused>>

(* ... then try_run_one(): another task runs on top of this one, ...        *)
Help(w, v) ==
  /\ At(w, "try_run_one")
  /\ TakenFrom(w, v)
  /\ stack' = [stack EXCEPT ![w] = <<Frame(Head(q[v])), [Top(w) EXCEPT !.at = "getting"]>> \o Tail(@)]
  /\ UNCHANGED <<done, stopped, mwait, waiting, loop, hand, set, lost, refused>>

(* ... or nothing was found, and it sleeps on the future for a while.      *)
HelpNothing(w) ==
  /\ At(w, "try_run_one")
  /\ \A v \in Workers : q[v] = <<>> \/ done[v]
  /\ GoTo(w, "getting")
  /\ UNCHANGED <<q, done, busy, stopped, mwait, waiting, loop, hand, set, lost, refused>>

-----------------------------------------------------------------------------
(* stop(): the flag, then the queues one after the other.                   *)

FlagForgotten == stopped
FlagRaised == TRUE

LastQueue == N

StopFlag(x) ==
  /\ Calling(x, "stop")
  /\ stopped' = FlagRaised
  /\ GoTo(x, "stopping")
  /\ UNCHANGED <<q, done, busy, mwait, waiting, loop, hand, set, lost, refused>>

StopQueue(x) ==
  /\ At(x, "stopping")
  /\ Top(x).k <= LastQueue
  /\ done' = [done EXCEPT ![Top(x).k] = TRUE]
  /\ NextQueue(x)
  /\ UNCHANGED <<q, busy, stopped, mwait, waiting, loop, hand, set, lost, refused>>

StopReturn(x) ==
  /\ At(x, "stopping")
  /\ Top(x).k > LastQueue
  /\ Return(x)
  /\ UNCHANGED <<q, done, busy, stopped, mwait, waiting, loop, hand, set, lost, refused>>

(* The last part of join(): the threads have left run().                   *)
JoinThreads(x) ==
  /\ Calling(x, "join_threads")
  /\ \A w \in Workers : loop[w] = "left"
  /\ Return(x)
  /\ UNCHANGED <<q, done, busy, stopped, mwait, waiting, loop, hand, set, lost, refused>>

-----------------------------------------------------------------------------
(* wait(p)                                                                  *)

TemporaryLock(x) == NoThread
LockOwner(x) == x

WaitLock(x) ==
  /\ Calling(x, "wait")
  /\ mwait = NoThread
  /\ mwait' = LockOwner(x)
  /\ waiting' = Call(x).policy
  /\ GoTo(x, "wait_empty")
  /\ UNCHANGED <<q, done, busy, stopped, loop, hand, set, lost, refused>>

(* m_wait is taken: wait for it, and for nothing else.                     *)
WaitOther(x) ==
  /\ Calling(x, "wait")
  /\ mwait # NoThread
  /\ GoTo(x, "wait_other")
  /\ UNCHANGED <<q, done, busy, stopped, mwait, waiting, loop, hand, set, lost, refused>>

WaitOtherLock(x) ==
  /\ At(x, "wait_other")
  /\ mwait = NoThread
  /\ mwait' = x
  /\ GoTo(x, "wait_unlock")
  /\ UNCHANGED <<q, done, busy, stopped, waiting, loop, hand, set, lost, refused>>

WaitOtherReturn(x) ==
  /\ At(x, "wait_unlock")
  /\ mwait' = NoThread
  /\ Return(x)
  /\ UNCHANGED <<q, done, busy, stopped, waiting, loop, hand, set, lost, refused>>

(* The queues are looked at one after the other, without their mutex.      *)
QueueSeenEmpty(x) == q[Top(x).k] = <<>> \/ stopped
WaitEmpty(x) ==
  /\ At(x, "wait_empty")
  /\ Top(x).k <= N /\ QueueSeenEmpty(x)
  /\ NextQueue(x)
  /\ UNCHANGED <<q, done, busy, stopped, mwait, waiting, loop, hand, set, lost, refused>>

(* A worker that waits runs the queued tasks itself.                       *)
WaitHelp(w, v) ==
  /\ At(w, "wait_empty")
  /\ Top(w).k <= N /\ ~QueueSeenEmpty(w)
  /\ TakenFrom(w, v)
  /\ Enter(w, Head(q[v]))
  /\ UNCHANGED <<done, stopped, mwait, waiting, loop, hand, set, lost, refused>>

(* "free self": the task that waits does not count as busy.                *)
WaitFree(x) ==
  /\ At(x, "wait_empty")
  /\ Top(x).k > N
  /\ busy' = [w \in Workers |-> busy[w] /\ w # x]
  /\ SetTop(x, [Top(x) EXCEPT !.at = "wait_busy", !.k = 1])
  /\ UNCHANGED <<q, done, stopped, mwait, waiting, loop, hand, set, lost, refused>>

SeenIdle(x) == ~busy[Top(x).k] \/ stopped
WaitIdle(x) ==
  /\ At(x, "wait_busy")
  /\ Top(x).k <= N /\ SeenIdle(x)
  /\ NextQueue(x)
  /\ UNCHANGED <<q, done, busy, stopped, mwait, waiting, loop, hand, set, lost, refused>>

StillWaiting == waiting
BackToRunning == "Running"

WaitReturn(x) ==
  /\ At(x, "wait_busy")
  /\ Top(x).k > N
  /\ waiting' = BackToRunning
  /\ mwait' = NoThread
  /\ Return(x)
  /\ UNCHANGED <<q, done, busy, stopped, loop, hand, set, lost, refused>>

-----------------------------------------------------------------------------
(* A call made by any thread.                                              *)
CallStep(x) ==
  /\ UNCHANGED program
  /\ \/ PushRefused(x) \/ PushBlocked(x) \/ PushAdmitted(x) \/ PushLock(x) \/ PushUnlock(x)
     \/ \E v \in Workers : Enqueue(x, v) \/ EnqueueClosed(x, v)
     \/ GetReturn(x) \/ GetWait(x)
     \/ StopFlag(x) \/ StopQueue(x) \/ StopReturn(x) \/ JoinThreads(x)
     \/ WaitLock(x) \/ WaitOther(x) \/ WaitOtherLock(x) \/ WaitOtherReturn(x)
     \/ WaitEmpty(x) \/ WaitFree(x) \/ WaitIdle(x) \/ WaitReturn(x)

(* What a thread of the pool does besides.                                 *)
WorkerStep(w) ==
  /\ UNCHANGED program
  /\ \/ LoopTest(w) \/ StealNothing(w) \/ Pop(w) \/ PopClosed(w) \/ CheckStopped(w) \/ Run(w)
     \/ SetExecuted(w) \/ EndTask(w)
     \/ GetPoll(w) \/ HelpNothing(w)
     \/ \E v \in Workers : Steal(w, v) \/ Help(w, v) \/ WaitHelp(w, v)

Next ==
  \/ \E x \in Threads : CallStep(x)
  \/ \E w \in Workers : WorkerStep(w)

Spec == Init /\ [][Next]_vars

(* Every thread goes on whenever it can.                                   *)
FairSpec ==
  /\ Spec
  /\ \A c \in Clients : WF_vars(CallStep(c))
  /\ \A w \in Workers : WF_vars(CallStep(w) \/ WorkerStep(w))

-----------------------------------------------------------------------------
TypeOK ==
  /\ program \in Programs
  /\ q \in [Workers -> Seq(Tasks)]
  /\ done \in [Workers -> BOOLEAN]
  /\ busy \in [Workers -> BOOLEAN]
  /\ stopped \in BOOLEAN
  /\ mwait \in Threads \union {NoThread}
  /\ waiting \in Policies \union {"Running"}
  /\ loop \in [Workers -> {"test", "steal", "pop", "check", "left"}]
  /\ hand \in [Workers -> Tasks \union {NoTask}]
  /\ stack \in [Threads -> Seq([body : Tasks \union Clients, ip : Nat \ {0}, k : 1..N + 1,
                 at : {"call", "executed", "push_lock", "push_test", "enqueue", "getting",
                       "try_run_one", "stopping", "wait_other", "wait_unlock",
                       "wait_empty", "wait_busy"}])]
  /\ set \subseteq Tasks /\ lost \subseteq Tasks /\ refused \subseteq Tasks

(* The code's condition variable cv_wait is never needed: whoever gets     *)
(* m_wait in push finds the executor running, because the thread that      *)
(* changes waiting_ keeps m_wait until it has changed it back.             *)
PushNeverSleeps == \A x \in Threads : At(x, "push_test") => waiting = "Running"

(* get_task returns an empty function only to a worker that is about to    *)
(* leave; run_task is noexcept and would end the program otherwise.        *)
NeverRunsEmpty == \A w \in Workers : loop[w] = "check" /\ hand[w] = NoTask => stopped

(* A task is in one place at a time: one position of one queue, one        *)
(* worker's hand, one stack, or finished -- so stealing, helping and the    *)
(* two ways of pushing never run it twice.  (Every variable has its type.)  *)
QueuePlaces(t) == UNION {{<<v, i>> : i \in {j \in DOMAIN q[v] : q[v][j] = t}} : v \in Workers}
HandPlaces(t) == {w \in Workers : hand[w] = t}
StackPlaces(t) == UNION {{<<x, i>> : i \in {j \in DOMAIN stack[x] :
                             /\ stack[x][j].body = t
                             /\ stack[x][j].at # "executed"}} : x \in Threads}
EndPlaces(t) == {s \in {<<"set", set>>, <<"lost", lost>>, <<"refused", refused>>} : t \in s[2]}
InOnePlace ==
  /\ TypeOK
  /\ \A t \in Tasks : Cardinality(QueuePlaces(t)) + Cardinality(HandPlaces(t))
                       + Cardinality(StackPlaces(t)) + Cardinality(EndPlaces(t)) <= 1

(* When wait() returns to a client, the tasks it had pushed before have    *)
(* been executed, unless the executor was stopped.                         *)
WaitMeansDone ==
  \A c \in Clients : LET p == program[c]  f == Top(c) IN
    f.at = "call" /\ f.ip > 1 /\ p[f.ip - 1].op = "wait" /\ ~stopped
      => \A i \in PushesOf(program, c) : i < f.ip => p[i].task \in set \union refused

(* Every client gets through its calls: wait, get and join return.         *)
ClientsFinish == \A c \in Clients : <>(At(c, "call") /\ Over(c))

(* The pool keeps the promise of TaskPool.                                 *)
Status(t) ==
  CASE t \in set -> "done"
    [] t \in lost -> "lost"
    [] t \in refused -> "refused"
    [] StackPlaces(t) # {} -> "running"
    [] QueuePlaces(t) \union HandPlaces(t) # {} -> "queued"
    [] OTHER -> "new"

Promise == INSTANCE TaskPool WITH state <- [t \in Tasks |-> Status(t)]
ImplementsTaskPool == Promise!Spec
=============================================================================
