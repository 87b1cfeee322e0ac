----------------------------- MODULE CronProofs -----------------------------
(***************************************************************************)
(* Theorems about Cron for any number of jobs, any delays, periods and      *)
(* skips, and whatever an empty map's begin() reads.  They rest on one      *)
(* inductive invariant, CronInv.                                            *)
(***************************************************************************)
EXTENDS Cron, TLAPS

(* A job is in the map once at most, and only when it was pushed.           *)
JobInv ==
  /\ \A t \in tasks : t.job \in pushed
  /\ \A t, u \in tasks : t.job = u.job => t = u

(* Tasks have a first one, whichever of them are taken out (the prover has  *)
(* no induction over finite sets; this is inductive in itself).             *)
FirstInv ==
  \A S \in SUBSET tasks : S # {} => \E t \in S : \A u \in S : t.at <= u.at

(* A period has passed since a job was fired, or will have when its task is *)
(* due; a job that was not pushed was never fired.                          *)
SinceInv ==
  /\ \A t \in tasks : since[t.job] >= t.repeat \/ since[t.job] >= t.repeat - t.at
  /\ \A j \in Jobs \ pushed : since[j] = LongAgo

CronInv == TypeOK /\ JobInv /\ FirstInv /\ SinceInv

Places == {"loop", "lock", "test", "wait", "wait_woken", "executor", "begin",
           "wait_until", "wait_until_woken", "retest", "left"}

(* Where the thread holds the mutex.                                        *)
Critical == {"test", "executor", "begin", "retest"}

-----------------------------------------------------------------------------
(* LongAgo is a longest period.                                             *)
LEMMA LongAgoType == LongAgo \in Periods /\ LongAgo \in Nat /\ \A r \in Periods : r <= LongAgo
  BY CronAssumption DEF LongAgo

(* The first of the tasks is one of them.                                   *)
LEMMA FirstIsFirst ==
  ASSUME FirstInv, tasks # {}
  PROVE  First \in tasks /\ \A u \in tasks : First.at <= u.at
<1>1. \E t \in tasks : \A u \in tasks : t.at <= u.at
  BY DEF FirstInv
<1> QED BY <1>1 DEF First

(* std::map::emplace keeps the keys apart, the tasks well formed, and the   *)
(* first of any tasks well defined.                                         *)
LEMMA EmplaceKeeps ==
  ASSUME NEW S \in SUBSET Task, NEW t \in Task,
         \A u, v \in S : u.at = v.at => u = v
  PROVE  /\ Emplaced(S, t) \subseteq S \union {t} /\ S \subseteq Emplaced(S, t)
         /\ \A u, v \in Emplaced(S, t) : u.at = v.at => u = v
  BY DEF Emplaced

LEMMA FirstOfMore ==
  ASSUME NEW S \in SUBSET Task, NEW t \in Task, NEW U, U \subseteq S \union {t},
         \A V \in SUBSET S : V # {} => \E v \in V : \A u \in V : v.at <= u.at,
         U # {}
  PROVE  \E v \in U : \A u \in U : v.at <= u.at
<1> DEFINE V == U \ {t}
<1>1. t.at \in Int /\ \A u \in S : u.at \in Int
  BY DEF Task
<1>2. CASE V = {}
  BY <1>1, <1>2
<1>3. CASE V # {}
  <2>1. V \in SUBSET S
    OBVIOUS
  <2>2. PICK v \in V : \A u \in V : v.at <= u.at
    BY <1>3, <2>1
  <2>3. v \in U /\ v.at \in Int /\ \A u \in U : u = t \/ v.at <= u.at
    BY <1>1, <2>1, <2>2
  <2>4. CASE t \in U /\ t.at < v.at
    <3>1. \A u \in U : t.at <= u.at
      BY <1>1, <2>3, <2>4
    <3> QED BY <2>4, <3>1
  <2>5. CASE ~(t \in U /\ t.at < v.at)
    <3>1. \A u \in U : v.at <= u.at
      BY <1>1, <2>3, <2>5
    <3> QED BY <2>3, <3>1
  <2> QED BY <2>4, <2>5
<1> QED BY <1>2, <1>3

-----------------------------------------------------------------------------
(* The map is empty and no job was ever fired.                              *)
LEMMA InitInv == Init => CronInv
<1> SUFFICES ASSUME Init PROVE CronInv
  OBVIOUS
<1> USE DEF Init
<1>1. TypeOK
  <2>1. tasks \subseteq Task /\ \A t, u \in tasks : t.at = u.at => t = u
    OBVIOUS
  <2>2. since \in [Jobs -> Nat]
    BY LongAgoType
  <2>3. m = (pc \in {"test", "executor", "begin", "retest"})
    <3>1. (pc \in {"test", "executor", "begin", "retest"}) = FALSE
      OBVIOUS
    <3> QED BY <3>1
  <2> QED BY <2>1, <2>2, <2>3 DEF TypeOK
<1>2. JobInv /\ FirstInv /\ SinceInv
  BY DEF JobInv, FirstInv, SinceInv
<1> QED BY <1>1, <1>2 DEF CronInv

(* A job that is pushed was never fired, and is not in the map.             *)
LEMMA PushInv ==
  ASSUME CronInv, NEW j \in Jobs, NEW d \in Delays, NEW r \in Periods, NEW s \in Skips,
         Push(j, d, r, s)
  PROVE  CronInv'
<1> DEFINE t == [at |-> d, job |-> j, repeat |-> r, skip |-> s]
<1>0. /\ tasks \in SUBSET Task /\ \A u, v \in tasks : u.at = v.at => u = v
      /\ t \in Task /\ tasks' = Emplaced(tasks, t) /\ t.job = j
  BY CronAssumption DEF CronInv, TypeOK, Push, Task
<1>1. /\ tasks' \subseteq tasks \union {t} /\ tasks \subseteq tasks'
      /\ \A u, v \in tasks' : u.at = v.at => u = v
  BY <1>0, EmplaceKeeps
<1>2. j \notin pushed /\ pushed' = pushed \union {j} /\ since' = since
  BY DEF Push
<1>3. TypeOK'
  <2>1. tasks' \subseteq Task /\ pushed' \subseteq Jobs
    BY <1>0, <1>1, <1>2 DEF CronInv, TypeOK
  <2>2. m' = m /\ pc' = pc /\ done' = done /\ deadline' = deadline /\ notify' \in Nat
    BY DEF CronInv, TypeOK, Push
  <2> QED BY <1>1, <1>2, <2>1, <2>2 DEF CronInv, TypeOK
<1>4. JobInv'
  BY <1>0, <1>1, <1>2 DEF CronInv, JobInv
<1>5. FirstInv'
  <2>1. \A V \in SUBSET tasks : V # {} => \E v \in V : \A u \in V : v.at <= u.at
    BY DEF CronInv, FirstInv
  <2> HIDE DEF t
  <2> SUFFICES ASSUME NEW U \in SUBSET tasks', U # {}
               PROVE  \E v \in U : \A u \in U : v.at <= u.at
    BY DEF FirstInv
  <2>2. U \subseteq tasks \union {t} /\ tasks \in SUBSET Task /\ t \in Task
    BY <1>0, <1>1
  <2> QED BY <2>1, <2>2, FirstOfMore
<1>6. SinceInv'
  <2>1. since[j] \in Nat /\ since[j] >= t.repeat
    BY <1>2, LongAgoType DEF CronInv, SinceInv
  <2> QED BY <1>0, <1>1, <1>2, <2>1 DEF CronInv, SinceInv
<1> QED BY <1>3, <1>4, <1>5, <1>6 DEF CronInv

(* Every task comes one nearer, and every job was fired one longer ago.     *)
LEMMA TickInv ==
  ASSUME CronInv, Tick
  PROVE  CronInv'
<1> DEFINE Nearer(t) == [t EXCEPT !.at = @ - 1]
<1>0. /\ tasks \subseteq Task /\ tasks' = {Nearer(t) : t \in tasks}
      /\ UNCHANGED <<m, done, pc, pushed, notify>>
  BY DEF CronInv, TypeOK, Tick
<1>nearer. \A u \in tasks' : \E v \in tasks : u = Nearer(v)
  BY <1>0
<1>1. \A t \in tasks : /\ Nearer(t) \in Task /\ Nearer(t).at = t.at - 1
                       /\ Nearer(t).job = t.job /\ Nearer(t).repeat = t.repeat
                       /\ t.at \in Int /\ t.job \in Jobs /\ t.repeat \in Periods
  BY <1>0 DEF Task
<1>2. \A t, u \in tasks : t = u \/ (t.at # u.at /\ t.job # u.job)
  BY DEF CronInv, TypeOK, JobInv
<1>3. since' = [j \in Jobs |-> Capped(since[j] + 1)] /\ since \in [Jobs -> Nat]
  BY DEF Tick, CronInv, TypeOK
<1>4. TypeOK'
  <2>1. tasks' \subseteq Task
    BY <1>0, <1>1
  <2>keys. ASSUME NEW t \in tasks', NEW u \in tasks', t.at = u.at PROVE t = u
    <3>1. PICK v \in tasks, w \in tasks : t = Nearer(v) /\ u = Nearer(w)
      BY <1>nearer
    <3>2. v.at - 1 = w.at - 1 /\ v.at \in Int /\ w.at \in Int
      BY <1>1, <2>keys, <3>1
    <3> QED BY <1>2, <3>1, <3>2
  <2>2. deadline' \in Nat
    BY DEF Tick, CronInv, TypeOK
  <2>3. since' \in [Jobs -> Nat]
    BY <1>3, LongAgoType DEF Capped
  <2> QED BY <1>0, <2>1, <2>keys, <2>2, <2>3 DEF CronInv, TypeOK
<1>5. JobInv'
  <2>1. ASSUME NEW t \in tasks' PROVE t.job \in pushed'
    <3>1. PICK v \in tasks : t = Nearer(v)
      BY <1>nearer
    <3> QED BY <1>0, <1>1, <3>1 DEF CronInv, JobInv
  <2>2. ASSUME NEW t \in tasks', NEW u \in tasks', t.job = u.job PROVE t = u
    <3>1. PICK v \in tasks, w \in tasks : t = Nearer(v) /\ u = Nearer(w)
      BY <1>nearer
    <3>2. v.job = w.job
      BY <1>1, <2>2, <3>1
    <3> QED BY <1>2, <3>1, <3>2
  <2> QED BY <2>1, <2>2 DEF JobInv
<1>6. FirstInv'
  <2> SUFFICES ASSUME NEW S \in SUBSET tasks', S # {}
               PROVE  \E t \in S : \A u \in S : t.at <= u.at
    BY DEF FirstInv
  <2> DEFINE Before == {t \in tasks : Nearer(t) \in S}
  <2>1. Before # {} /\ Before \in SUBSET tasks
    <3>1. PICK u \in S : TRUE
      OBVIOUS
    <3>2. PICK v \in tasks : u = Nearer(v)
      BY <1>nearer
    <3>3. v \in Before
      BY <3>1, <3>2
    <3> QED BY <3>3
  <2>2. PICK t \in Before : \A u \in Before : t.at <= u.at
    BY <2>1 DEF CronInv, FirstInv
  <2>3. ASSUME NEW u \in S PROVE \E v \in Before : u = Nearer(v)
    <3>1. PICK v \in tasks : u = Nearer(v)
      BY <1>nearer
    <3>2. v \in Before
      BY <3>1
    <3> HIDE DEF Nearer, Before
    <3> QED BY <3>1, <3>2
  <2>4. ASSUME NEW u \in S PROVE Nearer(t).at <= u.at
    <3>1. PICK v \in Before : u = Nearer(v)
      BY <2>3
    <3>2. t \in tasks /\ v \in tasks /\ t.at <= v.at
      BY <2>1, <2>2, <3>1
    <3>3. Nearer(t).at = t.at - 1 /\ Nearer(v).at = v.at - 1 /\ t.at \in Int /\ v.at \in Int
      BY <1>1, <3>2
    <3>4. t.at - 1 <= v.at - 1
      BY <3>2, <3>3
    <3> HIDE DEF Nearer
    <3> QED BY <3>1, <3>3, <3>4
  <2> QED BY <2>2, <2>4
<1>7. SinceInv'
  <2>1. ASSUME NEW u \in tasks'
        PROVE  since'[u.job] >= u.repeat \/ since'[u.job] >= u.repeat - u.at
    <3>1. PICK t \in tasks : u = Nearer(t)
      BY <1>0
    <3>2. since[t.job] >= t.repeat \/ since[t.job] >= t.repeat - t.at
      BY DEF CronInv, SinceInv
    <3>3. \/ since'[t.job] = since[t.job] + 1
          \/ since'[t.job] = LongAgo /\ LongAgo < since[t.job] + 1
      BY <1>1, <1>3 DEF Capped
    <3>4. since[t.job] \in Nat /\ t.repeat \in Nat /\ t.repeat <= LongAgo /\ LongAgo \in Nat
      BY <1>1, <1>3, LongAgoType, CronAssumption
    <3> QED BY <1>1, <3>1, <3>2, <3>3, <3>4
  <2>2. ASSUME NEW j \in Jobs \ pushed PROVE since'[j] = LongAgo
    BY <1>3, <2>2, LongAgoType DEF CronInv, SinceInv, Capped
  <2> QED BY <1>0, <2>1, <2>2 DEF SinceInv
<1> QED BY <1>4, <1>5, <1>6, <1>7 DEF CronInv

(* What becomes of the map when its first task is taken out.                *)
LEMMA TakeDueKeeps ==
  ASSUME CronInv, TakeDue
  PROVE  /\ First \in tasks /\ First.at <= 0 /\ First \in Task
         /\ \/ tasks' = tasks \ {First} /\ First.repeat <= 0
            \/ \E t \in Task : /\ tasks' = Emplaced(tasks \ {First}, t)
                              /\ t.at = First.repeat
                              /\ t.job = First.job /\ t.repeat = First.repeat
<1>1. First \in tasks /\ First.at <= 0 /\ First \in Task
  BY FirstIsFirst DEF CronInv, TypeOK, TakeDue
<1>2. First.repeat \in Nat
  BY <1>1, CronAssumption DEF Task
<1>3. tasks' = Rescheduled(First)
  BY DEF TakeDue
<1>4. CASE First.repeat > 0
  <2> DEFINE t == [First EXCEPT !.at = FromNow(First),
                                !.skip = IF Fires(First) THEN @ ELSE @ - 1]
  <2>1. tasks' = Emplaced(tasks \ {First}, t)
    BY <1>3, <1>4 DEF Rescheduled
  <2>2. t \in Task /\ t.at = First.repeat /\ t.job = First.job /\ t.repeat = First.repeat
    <3>1. PICK s \in Int : t = [First EXCEPT !.at = First.repeat, !.skip = s]
      <4>1. First.skip \in Int /\ First.skip - 1 \in Int
        BY <1>1 DEF Task
      <4>2. CASE Fires(First)
        BY <4>1, <4>2 DEF FromNow
      <4>3. CASE ~Fires(First)
        BY <4>1, <4>3 DEF FromNow
      <4> QED BY <4>2, <4>3
    <3> HIDE DEF t
    <3> DEFINE now == [First EXCEPT !.at = First.repeat]
    <3>2. /\ now \in Task /\ now.at = First.repeat
          /\ now.job = First.job /\ now.repeat = First.repeat
      BY <1>1, <1>2 DEF Task
    <3>3. t = [now EXCEPT !.skip = s]
      BY <3>1
    <3> HIDE DEF now
    <3> QED BY <3>2, <3>3 DEF Task
  <2> HIDE DEF t
  <2> QED BY <1>1, <2>1, <2>2
<1>5. CASE ~(First.repeat > 0)
  BY <1>1, <1>2, <1>3, <1>5 DEF Rescheduled
<1> QED BY <1>4, <1>5

(* A due task leaves the map, and comes back a period from now.             *)
LEMMA TakeDueInv ==
  ASSUME CronInv, TakeDue
  PROVE  CronInv'
<1> DEFINE f == First
<1>0. /\ f \in tasks /\ f.at <= 0 /\ f \in Task /\ tasks \in SUBSET Task
      /\ \A u, v \in tasks : u = v \/ (u.at # v.at /\ u.job # v.job)
  BY TakeDueKeeps DEF CronInv, TypeOK, JobInv
<1> DEFINE Rest == tasks \ {f}
<1>1. PICK t \in Task :
        /\ t.at = f.repeat /\ t.job = f.job /\ t.repeat = f.repeat
        /\ tasks' \subseteq Rest \union {t}
        /\ \A u, v \in tasks' : u.at = v.at => u = v
  <2>1. CASE tasks' = Rest
    <3>1. [f EXCEPT !.at = f.repeat] \in Task /\ [f EXCEPT !.at = f.repeat].at = f.repeat
          /\ [f EXCEPT !.at = f.repeat].job = f.job
          /\ [f EXCEPT !.at = f.repeat].repeat = f.repeat
      BY <1>0, CronAssumption DEF Task
    <3> QED BY <1>0, <2>1, <3>1
  <2>2. ASSUME NEW t \in Task, tasks' = Emplaced(Rest, t),
               t.at = f.repeat, t.job = f.job, t.repeat = f.repeat
        PROVE  tasks' \subseteq Rest \union {t} /\ \A u, v \in tasks' : u.at = v.at => u = v
    <3>1. Rest \in SUBSET Task /\ \A u, v \in Rest : u.at = v.at => u = v
      BY <1>0
    <3> HIDE DEF Rest
    <3>2. /\ Emplaced(Rest, t) \subseteq Rest \union {t}
          /\ \A u, v \in Emplaced(Rest, t) : u.at = v.at => u = v
      BY <2>2, <3>1, EmplaceKeeps
    <3> QED BY <2>2, <3>2
  <2> QED BY <2>1, <2>2, TakeDueKeeps
<1>2. /\ UNCHANGED <<m, done, deadline, pushed, notify>>
      /\ pc = "test" /\ pc' \in {"executor", "begin"}
      /\ since \in [Jobs -> Nat] /\ since' \in [Jobs -> Nat]
      /\ \A j \in Jobs : j # f.job => since'[j] = since[j]
  BY <1>0 DEF TakeDue, CronInv, TypeOK, Task
<1>3. TypeOK'
  <2>1. tasks' \subseteq Task
    BY <1>0, <1>1
  <2> QED BY <1>1, <1>2, <2>1 DEF CronInv, TypeOK
<1>4. JobInv'
  <2>1. \A u \in Rest : u.job # t.job /\ u.job \in pushed
    BY <1>0, <1>1 DEF CronInv, JobInv
  <2>2. t.job \in pushed
    BY <1>0, <1>1 DEF CronInv, JobInv
  <2> QED BY <1>0, <1>1, <1>2, <2>1, <2>2 DEF JobInv
<1>5. FirstInv'
  <2>1. \A V \in SUBSET Rest : V # {} => \E v \in V : \A u \in V : v.at <= u.at
    BY DEF CronInv, FirstInv
  <2>2. Rest \in SUBSET Task
    BY <1>0
  <2> HIDE DEF Rest
  <2>3. \A U \in SUBSET tasks' : U # {} => \E v \in U : \A u \in U : v.at <= u.at
    BY <1>1, <2>1, <2>2, FirstOfMore
  <2> QED BY <2>3 DEF FirstInv
<1>6. SinceInv'
  <2>1. ASSUME NEW u \in tasks'
        PROVE  since'[u.job] >= u.repeat \/ since'[u.job] >= u.repeat - u.at
    <3>1. CASE u = t
      <4>1. since'[t.job] \in Nat /\ t.repeat \in Nat
        BY <1>0, <1>1, <1>2, CronAssumption DEF Task
      <4> QED BY <1>1, <3>1, <4>1
    <3>2. CASE u \in Rest
      <4>1. u.job \in Jobs /\ u.job # f.job
        BY <1>0, <3>2 DEF Task
      <4>2. since'[u.job] = since[u.job]
        BY <1>2, <4>1
      <4> QED BY <3>2, <4>2 DEF CronInv, SinceInv
    <3> QED BY <1>1, <3>1, <3>2
  <2>2. ASSUME NEW j \in Jobs \ pushed PROVE since'[j] = LongAgo
    <3>1. f.job \in pushed
      BY <1>0 DEF CronInv, JobInv
    <3> QED BY <1>2, <3>1 DEF CronInv, SinceInv
  <2> QED BY <1>2, <2>1, <2>2 DEF SinceInv
<1> QED BY <1>3, <1>4, <1>5, <1>6 DEF CronInv

(* The other steps leave the map and the jobs alone.                        *)
LEMMA OtherInv ==
  ASSUME CronInv,
         \/ Stop \/ Notify \/ (RunStep /\ ~TakeDue) \/ UNCHANGED vars
  PROVE  CronInv'
<1>1. UNCHANGED <<tasks, pushed, since>>
  BY DEF Stop, Notify, RunStep, LoopTest, Lock, Wait, Leave, NotDue, PushDone, PushThrows, Timeout,
     Begin, Retest, vars
<1>2. m' = (pc' \in Critical) /\ pc' \in Places
  <2> DEFINE Right == m' \in BOOLEAN /\ (m' <=> pc' \in Critical) /\ pc' \in Places
  <2>0. pc \in Places /\ m \in BOOLEAN /\ (m <=> pc \in Critical)
    <3>1. pc \in Places /\ m = (pc \in Critical)
      BY DEF CronInv, TypeOK, Places, Critical
    <3>2. (pc \in Critical) = TRUE \/ (pc \in Critical) = FALSE
      OBVIOUS
    <3> HIDE DEF Critical, Places
    <3> QED BY <3>1, <3>2
  <2>enough. Right => m' = (pc' \in Critical) /\ pc' \in Places
    OBVIOUS
  <2>1. CASE Stop \/ UNCHANGED vars
    <3>1. m' = m /\ pc' = pc
      BY <2>1 DEF Stop, vars
    <3> QED BY <2>0, <3>1
  <2>2. CASE Notify
    <3>1. m' = m /\ (pc' = pc \/ (pc \in {"wait", "wait_until"}
                                  /\ pc' \in {"wait_woken", "wait_until_woken"}))
      BY <2>2 DEF Notify
    <3>2. Right
      BY <2>0, <3>1 DEF Critical, Places
    <3> QED BY <2>enough, <3>2
  <2>3. CASE RunStep /\ ~TakeDue
    <3>1. ASSUME LoopTest PROVE Right
      <4>1. pc = "loop" /\ m' = m /\ pc' \in {"left", "lock"}
        BY <3>1 DEF LoopTest
      <4> QED BY <2>0, <4>1 DEF Critical, Places
    <3>waits. ASSUME Wait \/ Leave PROVE Right
      BY <2>0, <3>waits DEF Wait, Leave, GoTo, Critical, Places
    <3>locks. ASSUME Lock PROVE Right
      BY <2>0, <3>locks DEF Lock, GoTo, Critical, Places
    <3>2. ASSUME NotDue \/ PushDone \/ Timeout PROVE Right
      BY <2>0, <3>2 DEF NotDue, PushDone, Timeout, GoTo, Critical, Places
    <3>throws. ASSUME PushThrows PROVE Right
      BY <2>0, <3>throws DEF PushThrows, GoTo, Critical, Places
    <3>3. ASSUME \E key, again \in BeginKeys : Begin(key, again) PROVE Right
      BY <2>0, <3>3 DEF Begin, GoTo, Critical, Places
    <3>4. ASSUME \E again \in BeginKeys : Retest(again) PROVE Right
      BY <2>0, <3>4 DEF Retest, GoTo, Critical, Places
    <3>5. Right
      BY <2>3, <3>1, <3>waits, <3>locks, <3>2, <3>throws, <3>3, <3>4 DEF RunStep
    <3> QED BY <2>enough, <3>5
  <2> QED BY <2>1, <2>2, <2>3
<1>3. done' \in BOOLEAN /\ notify' \in Nat
  <2> USE DEF CronInv, TypeOK
  <2>1. CASE Stop
    BY <2>1 DEF Stop
  <2>2. CASE Notify
    BY <2>2 DEF Notify
  <2>3. CASE ~Stop /\ ~Notify
    BY <2>3 DEF RunStep, LoopTest, Lock, Wait, Leave, NotDue, PushDone, PushThrows, Timeout, Begin,
       Retest, vars
  <2> QED BY <2>1, <2>2, <2>3
<1>4. deadline' \in Nat
  <2>1. BeginKeys \subseteq Int
    BY FirstIsFirst, CronAssumption DEF CronInv, TypeOK, Task, BeginKeys
  <2>2. ASSUME NEW key \in BeginKeys, NEW again \in BeginKeys, Begin(key, again)
        PROVE  deadline' \in Nat
    BY <2>1, <2>2 DEF Begin
  <2>3. CASE Stop \/ Notify \/ UNCHANGED vars
    BY <2>3 DEF CronInv, TypeOK, Stop, Notify, vars
  <2>4. CASE RunStep /\ ~TakeDue
    BY <2>2, <2>4 DEF CronInv, TypeOK, RunStep, LoopTest, Lock, Wait, Leave, NotDue, PushDone,
       PushThrows, Timeout, Retest
  <2> QED BY <2>3, <2>4
<1>5. TypeOK'
  BY <1>1, <1>2, <1>3, <1>4 DEF CronInv, TypeOK, Places, Critical
<1>6. JobInv' /\ FirstInv' /\ SinceInv'
  BY <1>1 DEF CronInv, JobInv, FirstInv, SinceInv
<1> QED BY <1>5, <1>6 DEF CronInv

LEMMA NextInv == CronInv /\ [Next]_vars => CronInv'
  BY PushInv, TickInv, TakeDueInv, OtherInv DEF Next, RunStep

(* The invariant holds in every reachable state (cron.h).                   *)
THEOREM CronAlways == Spec => []CronInv
  BY InitInv, NextInv, PTL DEF Spec

(* The state is well formed: the tasks of the map have different times, and *)
(* the thread holds the mutex exactly inside its critical sections          *)
(* (cron.h:79-162).                                                         *)
THEOREM TypeCorrect == Spec => []TypeOK
<1>1. CronInv => TypeOK
  BY DEF CronInv
<1> QED BY <1>1, CronAlways, PTL

(* A job that repeats is not fired again before its period has passed,      *)
(* however late the thread is (cron.h:127-144).                             *)
THEOREM FiredApart == Spec => FiringsApart
<1>1. ASSUME CronInv, [Next]_vars
      PROVE  [pc = "test" /\ pc' = "executor" => since[First.job] >= First.repeat]_vars
  <2>1. SUFFICES ASSUME Next, pc = "test", pc' = "executor"
                 PROVE  since[First.job] >= First.repeat
    BY <1>1
  <2>2. TakeDue
    BY <2>1 DEF Next, Push, Stop, Notify, Tick, RunStep, LoopTest, Lock, Wait, Leave, NotDue,
       PushDone, PushThrows, Timeout, Begin, Retest, GoTo
  <2>3. First \in tasks /\ First.at <= 0 /\ First \in Task
    BY <1>1, <2>2, TakeDueKeeps
  <2>4. First.at \in Int /\ First.repeat \in Nat /\ since[First.job] \in Nat
    BY <1>1, <2>3, CronAssumption DEF CronInv, TypeOK, Task
  <2>5. since[First.job] >= First.repeat \/ since[First.job] >= First.repeat - First.at
    BY <1>1, <2>3 DEF CronInv, SinceInv
  <2> QED BY <2>3, <2>4, <2>5
<1> QED BY <1>1, CronAlways, PTL DEF Spec, FiringsApart

(* A job that repeats stays in the map whatever the executor answers,       *)
(* unless another task has its next time already (cron.h:127-162).          *)
THEOREM RepeatingStays == Spec => RepeatingKept
<1> DEFINE Kept(t) == \/ \E u \in tasks' : u.job = t.job
                      \/ \E u \in tasks : u.job # t.job /\ u.at = t.repeat
<1>1. ASSUME CronInv, Next, NEW t \in tasks, t.repeat > 0
      PROVE  Kept(t)
  <2>1. CASE TakeDue
    <3>1. CASE t # First
      BY <2>1, <3>1, TakeDueKeeps, <1>1 DEF Emplaced
    <3>2. CASE t = First
      <4>1. t.repeat \in Nat
        BY <1>1, CronAssumption DEF CronInv, TypeOK, Task
      <4>2. PICK u \in Task : /\ tasks' = Emplaced(tasks \ {t}, u)
                              /\ u.at = t.repeat /\ u.job = t.job
        BY <1>1, <2>1, <3>2, <4>1, TakeDueKeeps
      <4>3. \A v \in tasks \ {t} : v.job # t.job
        BY <1>1 DEF CronInv, JobInv
      <4> QED BY <4>2, <4>3 DEF Emplaced
    <3> QED BY <3>1, <3>2
  <2>2. CASE Tick
    <3>1. [t EXCEPT !.at = @ - 1].job = t.job
      BY <1>1 DEF CronInv, TypeOK, Task
    <3> QED BY <2>2, <3>1 DEF Tick
  <2>3. CASE ~TakeDue /\ ~Tick
    <3>1. tasks \subseteq tasks'
      BY <1>1, <2>3 DEF Next, Push, Emplaced, Stop, Notify, RunStep, LoopTest, Lock, Wait, Leave,
         NotDue, PushDone, PushThrows, Timeout, Begin, Retest
    <3> QED BY <3>1
  <2> QED BY <2>1, <2>2, <2>3
<1>2. ASSUME CronInv, [Next]_vars
      PROVE  [\A t \in tasks : t.repeat > 0 => Kept(t)]_vars
  BY <1>1, <1>2
<1> QED BY <1>2, CronAlways, PTL DEF Spec, RepeatingKept
=============================================================================
