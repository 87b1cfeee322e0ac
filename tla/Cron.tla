-------------------------------- MODULE Cron --------------------------------
(***************************************************************************)
(* class Cron (cron.h): one thread that hands jobs to the executor at their *)
(* time, from a map ordered by time that clients push into.                 *)
(*                                                                         *)
(* Times are relative: a task whose key is 0 or less is due, and Tick       *)
(* brings every key one closer.                                            *)
(***************************************************************************)
EXTENDS Integers, FiniteSets

CONSTANTS Jobs,       (* the closures; each is pushed once                 *)
          Delays,     (* how far ahead a client may push a job, possibly 0 *)
          Periods,    (* their Repeat; 0: no repetition                    *)
          Skips,      (* their skip counts; the default of push is 1       *)
          EmptyKeys,  (* what begin()->first of an empty map may read      *)
          MaxLate     (* bound: the clock gets no further ahead of a task  *)

ASSUME CronAssumption ==
  /\ Delays \subseteq Nat /\ Periods \subseteq Nat /\ Skips \subseteq Nat
  /\ \E n \in Periods : \A p \in Periods : p <= n
  /\ EmptyKeys \subseteq Int /\ EmptyKeys # {}
  /\ MaxLate \in Nat \ {0}

VARIABLES tasks,      (* the map: tasks with different keys "at"           *)
          m,          (* the mutex is held by the cron thread              *)
          done,
          pc,         (* where the cron thread is in run()                 *)
          deadline,   (* until when wait_until sleeps                      *)
          pushed,     (* the jobs given to push                            *)
          notify,     (* notifications to come, after the unlock           *)
          since       (* history: time since each job was last fired       *)

vars == <<tasks, m, done, pc, deadline, pushed, notify, since>>

LongAgo == CHOOSE n \in Periods : \A p \in Periods : p <= n
Capped(n) == IF n > LongAgo THEN LongAgo ELSE n

Task == [at : Int, job : Jobs, repeat : Periods, skip : Int]

Init ==
  /\ tasks = {}
  /\ m = FALSE
  /\ done = FALSE
  /\ pc = "loop"
  /\ deadline = 0
  /\ pushed = {}
  /\ notify = 0
  /\ since = [j \in Jobs |-> LongAgo]

(* std::map::emplace: an element with the same key stays.  (Here and below, *)
(* a definition named after a mistake is the variant the mutant runs put in *)
(* the place of the one that follows it.)                                   *)
EmplacedAnyway(s, t) == s \union {t}
Emplaced(s, t) == IF \E u \in s : u.at = t.at THEN s ELSE s \union {t}

First == CHOOSE t \in tasks : \A u \in tasks : t.at <= u.at

(* begin()->first, which the code reads of an empty map too.               *)
BeginKeys == IF tasks = {} THEN EmptyKeys ELSE {First.at}

-----------------------------------------------------------------------------
(* The clients                                                              *)

(* push: emplace under the mutex, notify_one after it.                     *)
Push(j, d, r, s) ==
  /\ ~m
  /\ j \notin pushed
  /\ pushed' = pushed \union {j}
  /\ tasks' = Emplaced(tasks, [at |-> d, job |-> j, repeat |-> r, skip |-> s])
  /\ notify' = notify + 1
  /\ UNCHANGED <<m, done, pc, deadline, since>>

(* stop(), by the destructor, which then joins the thread.                 *)
Stop ==
  /\ ~m
  /\ ~done
  /\ done' = TRUE
  /\ notify' = notify + 1
  /\ UNCHANGED <<tasks, m, pc, deadline, pushed, since>>

Notify ==
  /\ notify > 0
  /\ notify' = notify - 1
  /\ pc' = CASE pc = "wait" -> "wait_woken"
             [] pc = "wait_until" -> "wait_until_woken"
             [] OTHER -> pc
  /\ UNCHANGED <<tasks, m, done, deadline, pushed, since>>

Tick ==
  /\ \A t \in tasks : t.at > -MaxLate
  /\ tasks' = {[t EXCEPT !.at = @ - 1] : t \in tasks}
  /\ deadline' = IF deadline > 0 THEN deadline - 1 ELSE 0
  /\ since' = [j \in Jobs |-> Capped(since[j] + 1)]
  /\ UNCHANGED <<m, done, pc, pushed, notify>>

-----------------------------------------------------------------------------
(* The cron thread                                                          *)

GoTo(from, to) == pc = from /\ pc' = to

LoopTest ==
  /\ pc = "loop"
  /\ pc' = IF done THEN "left" ELSE "lock"
  /\ UNCHANGED <<tasks, m, done, deadline, pushed, notify, since>>

(* Taking the mutex, first or after a wait.                                *)
Lock ==
  /\ ~m
  /\ m' = TRUE
  /\ \/ GoTo("lock", "test")
     \/ GoTo("wait_woken", "test")
     \/ GoTo("wait_until_woken", "retest")
  /\ UNCHANGED <<tasks, done, deadline, pushed, notify, since>>

(* cv.wait(lock, !tasks.empty() || done)                                   *)
StopUnheard == FALSE
StopHeard == done

Wait ==
  /\ GoTo("test", "wait")
  /\ tasks = {} /\ ~StopHeard
  /\ m' = FALSE
  /\ UNCHANGED <<tasks, done, deadline, pushed, notify, since>>

(* The break: the lock's destructor unlocks.                               *)
Leave ==
  /\ GoTo("test", "left")
  /\ done
  /\ m' = FALSE
  /\ UNCHANGED <<tasks, done, deadline, pushed, notify, since>>

(* A due task leaves the map; one that repeats comes back, from now on, and *)
(* before the executor is asked.                                           *)
Fires(t) == t.skip <= 0

FromLastTime(t) == t.at + t.repeat
FromNow(t) == t.repeat

GoneUntilPushed(t) == tasks \ {t}
Rescheduled(t) ==
  IF t.repeat > 0
  THEN Emplaced(tasks \ {t},
                [t EXCEPT !.at = FromNow(t), !.skip = IF Fires(t) THEN @ ELSE @ - 1])
  ELSE tasks \ {t}

TakeDue ==
  /\ pc = "test"
  /\ ~done
  /\ tasks # {} /\ First.at <= 0
  /\ tasks' = Rescheduled(First)
  /\ IF Fires(First)
     THEN pc' = "executor" /\ since' = [since EXCEPT ![First.job] = 0]
     ELSE pc' = "begin" /\ UNCHANGED since
  /\ UNCHANGED <<m, done, deadline, pushed, notify>>

NotDue ==
  /\ GoTo("test", "begin")
  /\ ~done
  /\ tasks # {} /\ First.at > 0
  /\ UNCHANGED <<tasks, m, done, deadline, pushed, notify, since>>

(* executor.push, with the mutex held, takes the job or throws; the         *)
(* exception is caught outside the lock.                                   *)
PushDone ==
  /\ GoTo("executor", "begin")
  /\ UNCHANGED <<tasks, m, done, deadline, pushed, notify, since>>

PushThrows ==
  /\ GoTo("executor", "loop")
  /\ m' = FALSE
  /\ UNCHANGED <<tasks, done, deadline, pushed, notify, since>>

(* wait_until(lock, begin()->first, begin()->first <= now || done): the     *)
(* deadline is read once, the predicate each time.                         *)
Enough(key) == key <= 0 \/ StopHeard

Begin(key, again) ==
  /\ GoTo("begin", IF Enough(again) THEN "loop" ELSE "wait_until")
  /\ m' = FALSE
  /\ deadline' = IF key > 0 THEN key ELSE 0
  /\ UNCHANGED <<tasks, done, pushed, notify, since>>

NeverUp == FALSE
TimeIsUp == deadline = 0

Retest(again) ==
  /\ GoTo("retest", IF TimeIsUp \/ Enough(again) THEN "loop" ELSE "wait_until")
  /\ m' = FALSE
  /\ UNCHANGED <<tasks, done, deadline, pushed, notify, since>>

Timeout ==
  /\ TimeIsUp
  /\ GoTo("wait_until", "wait_until_woken")
  /\ UNCHANGED <<tasks, m, done, deadline, pushed, notify, since>>

-----------------------------------------------------------------------------
RunStep ==
  \/ LoopTest \/ Lock \/ Wait \/ Leave
  \/ TakeDue \/ NotDue \/ PushDone \/ PushThrows \/ Timeout
  \/ \E key, again \in BeginKeys : Begin(key, again)
  \/ \E again \in BeginKeys : Retest(again)

Next ==
  \/ \E j \in Jobs, d \in Delays, r \in Periods, s \in Skips : Push(j, d, r, s)
  \/ Stop \/ Notify \/ Tick \/ RunStep

Spec == Init /\ [][Next]_vars

(* Time goes on, push and stop notify, and the cron thread runs when it     *)
(* can; executor.push returns or throws.                                   *)
FairSpec == Spec /\ WF_vars(Tick) /\ WF_vars(Notify) /\ WF_vars(RunStep)

-----------------------------------------------------------------------------
(* The state is well formed: keys differ, the thread holds the mutex        *)
(* exactly inside its critical sections.                                   *)
TypeOK ==
  /\ tasks \subseteq Task
  /\ \A t, u \in tasks : t.at = u.at => t = u
  /\ m = (pc \in {"test", "executor", "begin", "retest"})
  /\ done \in BOOLEAN
  /\ pc \in {"loop", "lock", "test", "wait", "wait_woken", "executor", "begin",
             "wait_until", "wait_until_woken", "retest", "left"}
  /\ deadline \in Nat
  /\ pushed \subseteq Jobs
  /\ notify \in Nat
  /\ since \in [Jobs -> Nat]

(* A job that repeats is fired at least a period after the last time, even  *)
(* when the thread was late: cron.h schedules it from now() "to prevent    *)
(* multiple instant calls".                                                *)
FiringsApart ==
  [][pc = "test" /\ pc' = "executor" => since[First.job] >= First.repeat]_vars

(* A job that repeats stays scheduled whatever the executor answers, unless *)
(* another task has its next time already.                                 *)
RepeatingKept ==
  [][\A t \in tasks : t.repeat > 0 =>
       \/ \E u \in tasks' : u.job = t.job
       \/ \E u \in tasks : u.job # t.job /\ u.at = t.repeat]_vars

(* A due task is taken out of the map, unless the cron is stopped, however  *)
(* its push, the clock and the thread's sleep interleave.                  *)
DueTaskTaken ==
  \A j \in Jobs :
    (\E t \in tasks : t.job = j /\ t.at <= 0)
      ~> done \/ \A t \in tasks : t.job = j => t.at > 0

(* After stop() the thread leaves run(), so that the destructor returns.   *)
StopEndsThread == done ~> pc = "left"
=============================================================================
