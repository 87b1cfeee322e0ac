--------------------------- MODULE ProcessesProofs ---------------------------
(***************************************************************************)
(* Theorems about the parts that meet other programs, the disk or the       *)
(* network, as MCProcesses puts them together: for any number of programs,  *)
(* directories, diffs, contents, commands and downloads, any values of the  *)
(* bounds and any of the mishaps.  Each part has an inductive invariant,    *)
(* facts that its initial states and its steps keep it (XStarts, XSteps),   *)
(* and one that it says what is checked (XMeans); the theorems are at the   *)
(* end.                                                                     *)
(***************************************************************************)
EXTENDS MCProcesses, FiniteSetTheorems, SequenceTheorems, TLAPS

-----------------------------------------------------------------------------
(* The file lock.  The system grants it to one process alone, a process with*)
(* a lock has a thread that works or holds, and whoever waits has a reason  *)
(* to.                                                                      *)

(* The values of the state; FileLockTypeOK is the part the runs check.      *)
StateInv ==
  /\ FileLockTypeOK
  /\ processOf \in Deployments
  /\ fresh \in [Callers -> BOOLEAN]
  /\ jobDone \in BOOLEAN
  /\ \A x \in Callers : fresh[x] => jobDone

(* What each caller may do where it is.                                     *)
CallInv == \A x \in Callers :
  /\ at[x] = "work" => JobCall(x)
  /\ at[x] = "wait" => kind[x] = "job"
  /\ at[x] = "hold" => kind[x] # "try_job"

(* The system grants an exclusive lock to one process alone.                *)
GrantInv == \A p, o \in Processes :
  p # o /\ lockOf[p] = "exclusive" => lockOf[o] = "none"

(* One thread of each process is inside a call, its lock is the one it      *)
(* asked for, and a process with a lock has a thread that works or holds.   *)
OwnerInv ==
  /\ \A x, d \in Inside : processOf[x] = processOf[d] => x = d
  /\ \A x \in Callers : Exclusive(x) => lockOf[processOf[x]] = "exclusive"
  /\ \A x \in Callers : at[x] = "hold" /\ kind[x] = "shared" => lockOf[processOf[x]] = "shared"
  /\ \A x \in Callers : lockOf[processOf[x]] # "none" =>
       \E d \in Callers : processOf[d] = processOf[x] /\ at[d] \in {"work", "hold"}

(* What may keep a job from having been completed at all, and from having   *)
(* been completed since a call began.                                       *)
NeverDone == "threw" \in lockMishaps \/ "crashed" \in lockMishaps \/ "holder" \in lockMishaps
NotSince == NeverDone \/ "waiter" \in lockMishaps

(* A caller that waits does so because someone elsewhere works, or has seen *)
(* the job completed; once it holds the lock nobody else works.             *)
WorkElsewhere(x) == \E d \in Elsewhere(x) : at[d] = "work"
WaiterInv == \A x \in Callers :
  /\ at[x] = "wait" =>
       /\ jobDone \/ NeverDone \/ WorkElsewhere(x)
       /\ fresh[x] \/ NotSince \/ WorkElsewhere(x)
  /\ at[x] = "hold" /\ kind[x] = "job" =>
       /\ jobDone \/ NeverDone
       /\ fresh[x] \/ NotSince
  /\ at[x] = "out" /\ kind[x] = "job" /\ result[x] \in {"done", "waited"} =>
       /\ jobDone \/ NeverDone
       /\ fresh[x] \/ NotSince

OneThread == "threads" \notin lockMishaps
LockInv == StateInv /\ CallInv /\ GrantInv /\ (OneThread => OwnerInv /\ WaiterInv)

-----------------------------------------------------------------------------
(* The initial state satisfies the invariant: nobody has called.            *)
LEMMA LockStarts == FileLockInit => LockInv
<1> SUFFICES ASSUME FileLockInit PROVE LockInv
  OBVIOUS
<1> USE DEF FileLockInit
<1>1. StateInv
  BY DEF StateInv, FileLockTypeOK, Kinds
<1>2. CallInv /\ GrantInv
  BY DEF CallInv, GrantInv
<1>3. OwnerInv
  BY DEF OwnerInv, Inside, Exclusive, Processes
<1>4. WaiterInv
  BY DEF WaiterInv
<1> QED BY <1>1, <1>2, <1>3, <1>4 DEF LockInv

(* A call begins.  When its process has another thread inside, OneThread    *)
(* ends; otherwise nobody else is touched.                                  *)
LEMMA CallLockInv ==
  ASSUME LockInv, NEW x \in Callers, NEW k \in Kinds, CallLock(x, k)
  PROVE  LockInv'
<1> USE DEF CallLock, Goes, Processes
<1>1. StateInv'
  <2>1. lockMishaps' \subseteq lockMishaps \union {"threads"}
    OBVIOUS
  <2>2. fresh' \in [Callers -> BOOLEAN] /\ \A d \in Callers : fresh'[d] => fresh[d]
    BY DEF LockInv, StateInv
  <2>3. /\ at' \in [Callers -> {"out", "test", "create", "lock", "work", "wait", "hold"}]
        /\ kind' \in [Callers -> Kinds]
    BY DEF LockInv, StateInv, FileLockTypeOK
  <2>4. lockMishaps' \subseteq {"threads", "waiter", "holder", "threw", "crashed"}
    BY <2>1 DEF LockInv, StateInv, FileLockTypeOK
  <2>5. FileLockTypeOK'
    BY <2>3, <2>4 DEF LockInv, StateInv, FileLockTypeOK
  <2> QED BY <2>2, <2>5 DEF LockInv, StateInv
<1>2. CallInv'
  BY DEF LockInv, StateInv, FileLockTypeOK, CallInv, JobCall
<1>3. GrantInv'
  BY DEF LockInv, GrantInv
<1>4. ASSUME OneThread' PROVE OneThread /\ \A d \in Inside : processOf[d] # processOf[x]
  BY <1>4 DEF OneThread, Inside
<1>5. ASSUME OneThread' PROVE OwnerInv'
  BY <1>4, <1>5 DEF LockInv, StateInv, FileLockTypeOK, OwnerInv, Inside, Exclusive
<1>6. ASSUME OneThread' PROVE WaiterInv'
  <2>1. WaiterInv /\ lockMishaps \subseteq lockMishaps'
    BY <1>4, <1>6 DEF LockInv
  <2>2. ASSUME NEW d \in Callers, WorkElsewhere(d) PROVE WorkElsewhere(d)'
    BY <2>2 DEF LockInv, StateInv, FileLockTypeOK, WorkElsewhere, Elsewhere
  <2> QED
    BY <2>1, <2>2 DEF LockInv, StateInv, FileLockTypeOK, WaiterInv, NeverDone, NotSince
<1> QED BY <1>1, <1>2, <1>3, <1>5, <1>6 DEF LockInv

(* prepare_lock_file's test touches the place of its caller alone.          *)
LEMMA TestLockFileInv ==
  ASSUME LockInv, NEW x \in Callers, TestLockFile(x)
  PROVE  LockInv'
<1> USE DEF TestLockFile, Goes, Processes
<1>1. StateInv'
  BY DEF LockInv, StateInv, FileLockTypeOK
<1>2. CallInv'
  BY DEF LockInv, StateInv, FileLockTypeOK, CallInv, JobCall
<1>3. GrantInv'
  BY DEF LockInv, GrantInv
<1>4. ASSUME OneThread' PROVE OwnerInv'
  BY <1>4 DEF LockInv, StateInv, FileLockTypeOK, OneThread, OwnerInv, Inside, Exclusive
<1>5. ASSUME OneThread' PROVE WaiterInv'
  <2>1. WaiterInv
    BY <1>5 DEF LockInv, OneThread
  <2>2. ASSUME NEW d \in Callers, WorkElsewhere(d) PROVE WorkElsewhere(d)'
    BY <2>2 DEF LockInv, StateInv, FileLockTypeOK, WorkElsewhere, Elsewhere
  <2> QED
    BY <2>1, <2>2 DEF LockInv, StateInv, FileLockTypeOK, WaiterInv, NeverDone, NotSince
<1> QED BY <1>1, <1>2, <1>3, <1>4, <1>5 DEF LockInv

(* Closing the file drops the lock of the process, which has nobody at work *)
(* or holding while its one thread creates the file.                        *)
LEMMA CreateLockFileInv ==
  ASSUME LockInv, NEW x \in Callers, CreateLockFile(x)
  PROVE  LockInv'
<1> USE DEF CreateLockFile, Goes, Close, Processes
<1>1. StateInv'
  BY DEF LockInv, StateInv, FileLockTypeOK
<1>2. CallInv'
  BY DEF LockInv, StateInv, FileLockTypeOK, CallInv, JobCall
<1>3. GrantInv'
  BY DEF LockInv, StateInv, FileLockTypeOK, GrantInv
<1>4. ASSUME OneThread' PROVE OwnerInv'
  BY <1>4 DEF LockInv, StateInv, FileLockTypeOK, OneThread, OwnerInv, Inside, Exclusive
<1>5. ASSUME OneThread' PROVE WaiterInv'
  <2>1. WaiterInv
    BY <1>5 DEF LockInv, OneThread
  <2>2. ASSUME NEW d \in Callers, WorkElsewhere(d) PROVE WorkElsewhere(d)'
    BY <2>2 DEF LockInv, StateInv, FileLockTypeOK, WorkElsewhere, Elsewhere
  <2> QED
    BY <2>1, <2>2 DEF LockInv, StateInv, FileLockTypeOK, WaiterInv, NeverDone, NotSince
<1> QED BY <1>1, <1>2, <1>3, <1>4, <1>5 DEF LockInv

-----------------------------------------------------------------------------
(* The system grants an exclusive lock only when nobody elsewhere works or  *)
(* holds, and a shared one when nobody elsewhere is exclusive.              *)
LEMMA GrantedAlone ==
  ASSUME LockInv, OneThread, NEW x \in Callers, NEW mode \in {"exclusive", "shared"},
         Grantable(x, mode), NEW d \in Callers, processOf[d] # processOf[x]
  PROVE  /\ at[d] # "work"
         /\ at[d] = "hold" => kind[d] = "shared" /\ mode = "shared"
<1>1. OwnerInv /\ CallInv
  BY DEF LockInv
<1>2. processOf[d] \in Processes \ {processOf[x]}
  BY DEF Processes
<1>3. lockOf[processOf[d]] # "exclusive"
  BY <1>2 DEF Grantable
<1>4. ~Exclusive(d)
  BY <1>1, <1>3 DEF OwnerInv
<1>5. at[d] = "hold" => lockOf[processOf[d]] = "shared"
  BY <1>1, <1>4 DEF OwnerInv, Exclusive
<1> QED BY <1>2, <1>4, <1>5 DEF Grantable, Exclusive

(* While a lock cannot be granted to a process, a thread of another process *)
(* works or holds.                                                          *)
LEMMA RefusedByHolder ==
  ASSUME LockInv, OneThread, NEW x \in Callers, ~Grantable(x, "exclusive")
  PROVE  \E d \in Elsewhere(x) : at[d] \in {"work", "hold"}
<1>1. PICK p \in Processes \ {processOf[x]} : lockOf[p] # "none"
  BY DEF Grantable
<1>2. PICK e \in Callers : processOf[e] = p
  BY <1>1 DEF Processes
<1>3. PICK d \in Callers : processOf[d] = processOf[e] /\ at[d] \in {"work", "hold"}
  BY <1>1, <1>2 DEF LockInv, OwnerInv
<1> QED BY <1>1, <1>2, <1>3 DEF Elsewhere

(* A granted lock: the grants stay exclusive.                               *)
LEMMA GrantKeepsGrants ==
  ASSUME StateInv, GrantInv, NEW x \in Callers, NEW mode \in {"exclusive", "shared"},
         Grantable(x, mode), Grant(x, mode), UNCHANGED processOf
  PROVE  /\ lockOf' \in [Processes' -> {"none", "shared", "exclusive"}]
         /\ lockOf'[processOf[x]] = mode
         /\ \A d \in Callers : processOf[d] # processOf[x] =>
              lockOf'[processOf[d]] = lockOf[processOf[d]]
         /\ GrantInv'
  BY DEF StateInv, FileLockTypeOK, GrantInv, Grantable, Grant, Processes

(* A closed file: the process has no lock, and the others theirs.           *)
LEMMA CloseKeepsGrants ==
  ASSUME StateInv, GrantInv, NEW x \in Callers, Close(x), UNCHANGED processOf
  PROVE  /\ lockOf' \in [Processes' -> {"none", "shared", "exclusive"}]
         /\ lockOf'[processOf[x]] = "none"
         /\ \A d \in Callers : processOf[d] # processOf[x] =>
              lockOf'[processOf[d]] = lockOf[processOf[d]]
         /\ GrantInv'
  BY DEF StateInv, FileLockTypeOK, GrantInv, Close, Processes

(* One thread of each process is inside, as long as nobody enters.          *)
LEMMA OthersElsewhere ==
  ASSUME LockInv, OneThread, NEW x \in Inside, NEW d \in Callers \ {x}, at[d] # "out"
  PROVE  processOf[d] # processOf[x]
  BY DEF LockInv, OwnerInv, Inside
-----------------------------------------------------------------------------
(* A job that gets the lock at once works; one that does not waits, or is   *)
(* refused.                                                                 *)
LEMMA TryLockInv ==
  ASSUME LockInv, NEW x \in Callers, TryLock(x)
  PROVE  LockInv'
<1> USE DEF LockInv
<1>0. /\ at[x] = "lock" /\ kind[x] \in {"job", "try_job"} /\ x \in Inside
      /\ UNCHANGED <<processOf, lockFile, kind, jobDone, fresh, lockCallsLeft>>
  BY DEF TryLock, JobCall, Inside
<1>1. CASE /\ Grantable(x, "exclusive") /\ Grant(x, "exclusive")
           /\ at' = [at EXCEPT ![x] = "work"]
           /\ UNCHANGED <<result, lockMishaps>>
  <2>1. /\ lockOf' \in [Processes' -> {"none", "shared", "exclusive"}]
        /\ lockOf'[processOf[x]] = "exclusive"
        /\ \A d \in Callers : processOf[d] # processOf[x] =>
             lockOf'[processOf[d]] = lockOf[processOf[d]]
        /\ GrantInv'
    BY <1>0, <1>1, GrantKeepsGrants
  <2>2. StateInv' /\ CallInv'
    BY <1>0, <1>1, <2>1 DEF StateInv, FileLockTypeOK, CallInv, JobCall
  <2>3. ASSUME OneThread' PROVE OwnerInv'
    <3>1. OneThread /\ \A d \in Callers \ {x} : at[d] # "out" => processOf[d] # processOf[x]
      BY <1>0, <1>1, <2>3, OthersElsewhere DEF OneThread
    <3> QED
      BY <1>0, <1>1, <2>1, <3>1 DEF StateInv, FileLockTypeOK, OwnerInv, Inside, Exclusive
  <2>4. ASSUME OneThread' PROVE WaiterInv'
    <3>1. WaiterInv
      BY <1>1, <2>4 DEF OneThread
    <3>2. ASSUME NEW d \in Callers, WorkElsewhere(d) PROVE WorkElsewhere(d)'
      BY <1>0, <1>1, <3>2 DEF StateInv, FileLockTypeOK, WorkElsewhere, Elsewhere
    <3> QED
      BY <1>0, <1>1, <3>1, <3>2 DEF StateInv, FileLockTypeOK, WaiterInv, NeverDone, NotSince
  <2> QED BY <2>1, <2>2, <2>3, <2>4
<1>2. CASE /\ ~Grantable(x, "exclusive") /\ kind[x] = "job"
           /\ at' = [at EXCEPT ![x] = "wait"]
           /\ lockMishaps' = lockMishaps
                \union (IF Waited(x) THEN {"waiter"} ELSE {})
                \union (IF NoJob(x) THEN {"holder"} ELSE {})
           /\ UNCHANGED <<lockOf, result>>
  <2>1. StateInv' /\ CallInv'
    BY <1>0, <1>2 DEF StateInv, FileLockTypeOK, CallInv, JobCall, Processes
  <2>2. GrantInv'
    BY <1>0, <1>2 DEF GrantInv, Processes
  <2>3. OneThread' => OneThread
    BY <1>2 DEF OneThread
  <2>4. ASSUME OneThread' PROVE OwnerInv'
    BY <1>0, <1>2, <2>3, <2>4 DEF StateInv, FileLockTypeOK, OwnerInv, Inside, Exclusive
  <2>5. ASSUME OneThread' PROVE WaiterInv'
    <3>1. WaiterInv /\ (NeverDone => NeverDone') /\ (NotSince => NotSince')
      BY <1>2, <2>3, <2>5 DEF NeverDone, NotSince
    <3>2. ASSUME NEW d \in Callers, WorkElsewhere(d) PROVE WorkElsewhere(d)'
      BY <1>0, <1>2, <3>2 DEF StateInv, FileLockTypeOK, WorkElsewhere, Elsewhere
    <3>3. PICK h \in Elsewhere(x) : at[h] \in {"work", "hold"}
      BY <1>2, <2>3, <2>5, RefusedByHolder
    <3>4. CASE at[h] = "work"
      BY <1>0, <1>2, <3>1, <3>2, <3>4 DEF StateInv, FileLockTypeOK, WaiterInv, WorkElsewhere
    <3>5. CASE at[h] = "hold" /\ kind[h] = "job"
      <4>1. (jobDone \/ NeverDone) /\ "waiter" \in lockMishaps'
        BY <1>2, <3>1, <3>5 DEF WaiterInv, Waited, Elsewhere
      <4> QED
        BY <1>0, <1>2, <3>1, <3>2, <4>1 DEF StateInv, FileLockTypeOK, WaiterInv, NotSince
    <3>6. CASE at[h] = "hold" /\ kind[h] # "job"
      <4>1. "holder" \in lockMishaps'
        BY <1>2, <3>6 DEF CallInv, NoJob, JobCall, Elsewhere
      <4> QED
        BY <1>0, <1>2, <3>1, <3>2, <4>1
           DEF StateInv, FileLockTypeOK, WaiterInv, NeverDone, NotSince
    <3> QED BY <3>3, <3>4, <3>5, <3>6
  <2> QED BY <2>1, <2>2, <2>4, <2>5
<1>3. CASE /\ Close(x)
           /\ at' = [at EXCEPT ![x] = "out"]
           /\ result' = [result EXCEPT ![x] = "refused"]
           /\ UNCHANGED lockMishaps
  <2>1. /\ lockOf' \in [Processes' -> {"none", "shared", "exclusive"}]
        /\ lockOf'[processOf[x]] = "none"
        /\ \A d \in Callers : processOf[d] # processOf[x] =>
             lockOf'[processOf[d]] = lockOf[processOf[d]]
        /\ GrantInv'
    BY <1>0, <1>3, CloseKeepsGrants
  <2>2. StateInv' /\ CallInv'
    BY <1>0, <1>3, <2>1 DEF StateInv, FileLockTypeOK, CallInv, JobCall
  <2>3. ASSUME OneThread' PROVE OwnerInv'
    <3>1. OneThread /\ \A d \in Callers \ {x} : at[d] # "out" => processOf[d] # processOf[x]
      BY <1>0, <1>3, <2>3, OthersElsewhere DEF OneThread
    <3> QED
      BY <1>0, <1>3, <2>1, <3>1 DEF StateInv, FileLockTypeOK, OwnerInv, Inside, Exclusive
  <2>4. ASSUME OneThread' PROVE WaiterInv'
    <3>1. WaiterInv
      BY <1>3, <2>4 DEF OneThread
    <3>2. ASSUME NEW d \in Callers, WorkElsewhere(d) PROVE WorkElsewhere(d)'
      BY <1>0, <1>3, <3>2 DEF StateInv, FileLockTypeOK, WorkElsewhere, Elsewhere
    <3> QED
      BY <1>0, <1>3, <3>1, <3>2 DEF StateInv, FileLockTypeOK, WaiterInv, NeverDone, NotSince
  <2> QED BY <2>1, <2>2, <2>3, <2>4
<1> QED BY <1>1, <1>2, <1>3 DEF TryLock

-----------------------------------------------------------------------------
(* The job ends: everyone inside learns that it has been done, or that it   *)
(* threw.                                                                   *)
LEMMA WorkInv ==
  ASSUME LockInv, NEW x \in Callers, Work(x)
  PROVE  LockInv'
<1> USE DEF LockInv
<1>0. /\ at[x] = "work" /\ x \in Inside /\ Close(x)
      /\ at' = [at EXCEPT ![x] = "out"]
      /\ lockMishaps' \in {lockMishaps, lockMishaps \union {"threw"}}
      /\ UNCHANGED <<processOf, lockFile, kind, lockCallsLeft>>
  BY DEF Work, Goes, Inside
<1>1. /\ lockOf' \in [Processes' -> {"none", "shared", "exclusive"}]
      /\ lockOf'[processOf[x]] = "none"
      /\ \A d \in Callers : processOf[d] # processOf[x] =>
           lockOf'[processOf[d]] = lockOf[processOf[d]]
      /\ GrantInv'
  BY <1>0, CloseKeepsGrants
<1>2. StateInv' /\ CallInv'
  <2>1. /\ fresh' \in [Callers -> BOOLEAN]
        /\ jobDone' \in BOOLEAN
        /\ \A d \in Callers : fresh'[d] => jobDone'
    <3>1. CASE jobDone' = TRUE /\ fresh' = [d \in Callers |-> fresh[d] \/ d \in Inside]
      <4>1. \A d \in Callers : (fresh[d] \/ d \in Inside) \in BOOLEAN
        OBVIOUS
      <4> QED BY <3>1, <4>1, Zenon
    <3>2. CASE UNCHANGED <<jobDone, fresh>>
      BY <3>2 DEF StateInv
    <3> QED BY <3>1, <3>2 DEF Work
  <2>2. result' \in [Callers -> {"none", "done", "threw", "refused", "waited"}]
    BY DEF StateInv, FileLockTypeOK, Work
  <2>3. /\ at' \in [Callers -> {"out", "test", "create", "lock", "work", "wait", "hold"}]
        /\ kind' \in [Callers -> Kinds]
        /\ lockMishaps' \subseteq {"threads", "waiter", "holder", "threw", "crashed"}
    BY <1>0 DEF StateInv, FileLockTypeOK
  <2>4. processOf' \in Deployments
    BY <1>0 DEF StateInv
  <2>5. StateInv'
    BY <1>1, <2>1, <2>2, <2>3, <2>4 DEF StateInv, FileLockTypeOK
  <2>6. \A d \in Callers : kind'[d] = kind[d] /\ at'[d] \in {at[d], "out"}
    BY <1>0 DEF StateInv, FileLockTypeOK
  <2> QED BY <2>5, <2>6 DEF CallInv, JobCall
<1>3. ASSUME OneThread' PROVE OwnerInv'
  <2>1. OneThread /\ \A d \in Callers \ {x} : at[d] # "out" => processOf[d] # processOf[x]
    BY <1>0, <1>3, OthersElsewhere DEF OneThread
  <2> QED
    BY <1>0, <1>1, <2>1 DEF StateInv, FileLockTypeOK, OwnerInv, Inside, Exclusive
<1>4. ASSUME OneThread' PROVE WaiterInv'
  <2>1. WaiterInv /\ CallInv
    BY <1>0, <1>4 DEF OneThread
  <2>2. CASE /\ jobDone' = TRUE
             /\ fresh' = [d \in Callers |-> fresh[d] \/ d \in Inside]
             /\ result' = [result EXCEPT ![x] = "done"]
             /\ UNCHANGED lockMishaps
    <3>1. \A d \in Callers : (d \in Inside => fresh'[d]) /\ (fresh[d] => fresh'[d])
      BY <2>2
    <3>2. ASSUME NEW d \in Callers, d # x PROVE at'[d] = at[d] /\ result'[d] = result[d]
      BY <1>0, <2>2, <3>2 DEF StateInv, FileLockTypeOK
    <3> QED
      BY <1>0, <2>1, <2>2, <3>1, <3>2
         DEF StateInv, FileLockTypeOK, WaiterInv, Inside, NeverDone, NotSince
  <2>3. CASE /\ result' = [result EXCEPT ![x] = "threw"]
             /\ lockMishaps' = lockMishaps \union {"threw"}
             /\ UNCHANGED <<jobDone, fresh>>
    BY <2>3 DEF WaiterInv, NeverDone, NotSince
  <2> QED BY <2>2, <2>3 DEF Work
<1> QED BY <1>1, <1>2, <1>3, <1>4

(* A waiter gets the lock when nobody works any more: what it waited for    *)
(* has happened.                                                            *)
LEMMA WaitForHolderInv ==
  ASSUME LockInv, NEW x \in Callers, WaitForHolder(x)
  PROVE  LockInv'
<1> USE DEF LockInv
<1>0. /\ at[x] = "wait" /\ x \in Inside
      /\ Grantable(x, "exclusive") /\ Grant(x, "exclusive")
      /\ at' = [at EXCEPT ![x] = "hold"]
      /\ UNCHANGED <<processOf, lockFile, kind, result, jobDone, fresh, lockCallsLeft, lockMishaps>>
  BY DEF WaitForHolder, Goes, Inside
<1>1. /\ lockOf' \in [Processes' -> {"none", "shared", "exclusive"}]
      /\ lockOf'[processOf[x]] = "exclusive"
      /\ \A d \in Callers : processOf[d] # processOf[x] =>
           lockOf'[processOf[d]] = lockOf[processOf[d]]
      /\ GrantInv'
  BY <1>0, GrantKeepsGrants
<1>2. StateInv' /\ CallInv'
  BY <1>0, <1>1 DEF StateInv, FileLockTypeOK, CallInv, JobCall
<1>3. ASSUME OneThread' PROVE OwnerInv'
  <2>1. OneThread /\ \A d \in Callers \ {x} : at[d] # "out" => processOf[d] # processOf[x]
    BY <1>0, <1>3, OthersElsewhere DEF OneThread
  <2>2. kind[x] = "job"
    BY <1>0 DEF CallInv
  <2> QED
    BY <1>0, <1>1, <2>1, <2>2 DEF StateInv, FileLockTypeOK, OwnerInv, Inside, Exclusive
<1>4. ASSUME OneThread' PROVE WaiterInv'
  <2>1. OneThread /\ WaiterInv
    BY <1>0, <1>4 DEF OneThread
  <2>2. ~WorkElsewhere(x)
    BY <1>0, <2>1, GrantedAlone DEF WorkElsewhere, Elsewhere
  <2>3. ASSUME NEW d \in Callers, WorkElsewhere(d) PROVE WorkElsewhere(d)'
    BY <1>0, <2>3 DEF StateInv, FileLockTypeOK, WorkElsewhere, Elsewhere
  <2> QED
    BY <1>0, <2>1, <2>2, <2>3 DEF StateInv, FileLockTypeOK, WaiterInv, NeverDone, NotSince
<1> QED BY <1>1, <1>2, <1>3, <1>4

-----------------------------------------------------------------------------
(* A lock that is asked for alone is granted and held.                      *)
LEMMA AcquireInv ==
  ASSUME LockInv, NEW x \in Callers, Acquire(x)
  PROVE  LockInv'
<1> USE DEF LockInv
<1>0. /\ at[x] = "lock" /\ x \in Inside /\ kind[x] \in {"exclusive", "shared"}
      /\ Grantable(x, kind[x]) /\ Grant(x, kind[x])
      /\ at' = [at EXCEPT ![x] = "hold"]
      /\ UNCHANGED <<processOf, lockFile, kind, result, jobDone, fresh, lockCallsLeft, lockMishaps>>
  BY DEF Acquire, Goes, Inside, JobCall, StateInv, FileLockTypeOK, Kinds
<1>1. /\ lockOf' \in [Processes' -> {"none", "shared", "exclusive"}]
      /\ lockOf'[processOf[x]] = kind[x]
      /\ \A d \in Callers : processOf[d] # processOf[x] =>
           lockOf'[processOf[d]] = lockOf[processOf[d]]
      /\ GrantInv'
  BY <1>0, GrantKeepsGrants
<1>2. StateInv' /\ CallInv'
  BY <1>0, <1>1 DEF StateInv, FileLockTypeOK, CallInv, JobCall
<1>3. ASSUME OneThread' PROVE OwnerInv'
  <2>1. OneThread /\ \A d \in Callers \ {x} : at[d] # "out" => processOf[d] # processOf[x]
    BY <1>0, <1>3, OthersElsewhere DEF OneThread
  <2> QED
    BY <1>0, <1>1, <2>1 DEF StateInv, FileLockTypeOK, OwnerInv, Inside, Exclusive
<1>4. ASSUME OneThread' PROVE WaiterInv'
  <2>1. WaiterInv
    BY <1>0, <1>4 DEF OneThread
  <2>2. ASSUME NEW d \in Callers, WorkElsewhere(d) PROVE WorkElsewhere(d)'
    BY <1>0, <2>2 DEF StateInv, FileLockTypeOK, WorkElsewhere, Elsewhere
  <2> QED
    BY <1>0, <2>1, <2>2 DEF StateInv, FileLockTypeOK, WaiterInv, NeverDone, NotSince
<1> QED BY <1>1, <1>2, <1>3, <1>4

(* The lock is given back; a job that waited for it returns.                *)
LEMMA ReleaseInv ==
  ASSUME LockInv, NEW x \in Callers, Release(x)
  PROVE  LockInv'
<1> USE DEF LockInv
<1>0. /\ at[x] = "hold" /\ x \in Inside /\ Close(x)
      /\ at' = [at EXCEPT ![x] = "out"]
      /\ result' = [result EXCEPT ![x] = "waited"]
      /\ UNCHANGED <<processOf, lockFile, kind, jobDone, fresh, lockCallsLeft, lockMishaps>>
  BY DEF Release, Goes, Inside
<1>1. /\ lockOf' \in [Processes' -> {"none", "shared", "exclusive"}]
      /\ lockOf'[processOf[x]] = "none"
      /\ \A d \in Callers : processOf[d] # processOf[x] =>
           lockOf'[processOf[d]] = lockOf[processOf[d]]
      /\ GrantInv'
  BY <1>0, CloseKeepsGrants
<1>2. StateInv' /\ CallInv'
  BY <1>0, <1>1 DEF StateInv, FileLockTypeOK, CallInv, JobCall
<1>3. ASSUME OneThread' PROVE OwnerInv'
  <2>1. OneThread /\ \A d \in Callers \ {x} : at[d] # "out" => processOf[d] # processOf[x]
    BY <1>0, <1>3, OthersElsewhere DEF OneThread
  <2> QED
    BY <1>0, <1>1, <2>1 DEF StateInv, FileLockTypeOK, OwnerInv, Inside, Exclusive
<1>4. ASSUME OneThread' PROVE WaiterInv'
  <2>1. WaiterInv
    BY <1>0, <1>4 DEF OneThread
  <2>2. ASSUME NEW d \in Callers, WorkElsewhere(d) PROVE WorkElsewhere(d)'
    BY <1>0, <2>2 DEF StateInv, FileLockTypeOK, WorkElsewhere, Elsewhere
  <2> QED
    BY <1>0, <2>1, <2>2 DEF StateInv, FileLockTypeOK, WaiterInv, NeverDone, NotSince
<1> QED BY <1>1, <1>2, <1>3, <1>4

(* A process ends: its callers are out and its lock is gone; whoever waited *)
(* for its job is excused.                                                  *)
LEMMA CrashProcessInv ==
  ASSUME LockInv, NEW p \in Processes, CrashProcess(p)
  PROVE  LockInv'
<1> USE DEF LockInv
<1>0. /\ at' = [x \in Callers |-> IF processOf[x] = p THEN "out" ELSE at[x]]
      /\ result' = [x \in Callers |-> IF processOf[x] = p THEN "none" ELSE result[x]]
      /\ lockOf' = [lockOf EXCEPT ![p] = "none"]
      /\ lockMishaps' = lockMishaps \/ lockMishaps' = lockMishaps \union {"crashed"}
      /\ UNCHANGED <<processOf, lockFile, kind, jobDone, fresh, lockCallsLeft>>
  BY DEF CrashProcess
<1>1. StateInv' /\ CallInv'
  <2>1. StateInv'
    <3>1. /\ processOf \in Deployments /\ fresh \in [Callers -> BOOLEAN] /\ jobDone \in BOOLEAN
          /\ (\A x \in Callers : fresh[x] => jobDone) /\ FileLockTypeOK
      BY DEF StateInv
    <3>2. FileLockTypeOK'
      <4>1. /\ lockOf \in [Processes -> {"none", "shared", "exclusive"}]
            /\ Processes' = Processes /\ kind' \in [Callers -> Kinds]
            /\ at \in [Callers -> {"out", "test", "create", "lock", "work", "wait", "hold"}]
            /\ result \in [Callers -> {"none", "done", "threw", "refused", "waited"}]
        BY <1>0, <3>1 DEF FileLockTypeOK, Processes
      <4>2. lockOf' \in [Processes -> {"none", "shared", "exclusive"}]
        BY <1>0, <4>1
      <4>3. at' \in [Callers -> {"out", "test", "create", "lock", "work", "wait", "hold"}]
        BY <1>0, <4>1
      <4>4. result' \in [Callers -> {"none", "done", "threw", "refused", "waited"}]
        BY <1>0, <4>1
      <4>5. lockMishaps' \subseteq {"threads", "waiter", "holder", "threw", "crashed"}
        BY <1>0, <3>1 DEF FileLockTypeOK
      <4> QED BY <4>1, <4>2, <4>3, <4>4, <4>5 DEF FileLockTypeOK
    <3> QED BY <1>0, <3>1, <3>2 DEF StateInv
  <2>2. CallInv'
    BY <1>0 DEF StateInv, FileLockTypeOK, CallInv, JobCall
  <2> QED BY <2>1, <2>2
<1>2. GrantInv'
  BY <1>0 DEF StateInv, FileLockTypeOK, GrantInv, Processes
<1>3. ASSUME OneThread' PROVE OwnerInv'
  <2>1. OwnerInv
    BY <1>0, <1>3 DEF OneThread
  <2>2. \A x \in Callers : lockOf'[processOf[x]] =
          IF processOf[x] = p THEN "none" ELSE lockOf[processOf[x]]
    BY <1>0 DEF StateInv, FileLockTypeOK, Processes
  <2> QED
    BY <1>0, <2>1, <2>2 DEF StateInv, FileLockTypeOK, OwnerInv, Inside, Exclusive
<1>4. ASSUME OneThread' PROVE WaiterInv'
  <2>1. WaiterInv /\ (NeverDone => NeverDone') /\ (NotSince => NotSince')
    BY <1>0, <1>4 DEF OneThread, NeverDone, NotSince
  <2>2. ASSUME NEW d \in Callers, WorkElsewhere(d) PROVE WorkElsewhere(d)' \/ NeverDone'
    <3>1. PICK e \in Callers : processOf[e] # processOf[d] /\ at[e] = "work"
      BY <2>2 DEF WorkElsewhere, Elsewhere
    <3>2. CASE processOf[e] = p
      BY <3>1, <3>2 DEF CrashProcess, Inside, NeverDone
    <3>3. CASE processOf[e] # p
      BY <1>0, <3>1, <3>3 DEF WorkElsewhere, Elsewhere
    <3> QED BY <3>2, <3>3
  <2> QED
    BY <1>0, <2>1, <2>2 DEF StateInv, FileLockTypeOK, WaiterInv, NotSince
<1> QED BY <1>1, <1>2, <1>3, <1>4

-----------------------------------------------------------------------------
(* Every step preserves the invariant.                                      *)
LEMMA LockSteps == LockInv /\ [FileLockNext]_lockVars => LockInv'
<1> SUFFICES ASSUME LockInv, [FileLockNext]_lockVars PROVE LockInv'
  OBVIOUS
<1>1. ASSUME NEW x \in Callers, FileLockStep(x) PROVE LockInv'
  BY <1>1, TestLockFileInv, CreateLockFileInv, TryLockInv, WorkInv, WaitForHolderInv,
     AcquireInv, ReleaseInv DEF FileLockStep
<1>2. ASSUME NEW x \in Callers, NEW k \in Kinds, CallLock(x, k) PROVE LockInv'
  BY <1>2, CallLockInv
<1>3. ASSUME NEW p \in Processes, CrashProcess(p) PROVE LockInv'
  BY <1>3, CrashProcessInv
<1>4. CASE UNCHANGED lockVars
  BY <1>4 DEF lockVars, LockInv, StateInv, FileLockTypeOK, Processes, CallInv, JobCall,
     GrantInv, OneThread, OwnerInv, Inside, Exclusive, WaiterInv, NeverDone, NotSince,
     WorkElsewhere, Elsewhere
<1> QED BY <1>1, <1>2, <1>3, <1>4 DEF FileLockNext

(* The invariant says what is checked of a lock.                            *)
LEMMA LockMeans == LockInv => LocksRight
<1> SUFFICES ASSUME LockInv PROVE LocksRight
  OBVIOUS
<1>1. FileLockTypeOK
  BY DEF LockInv, StateInv
<1>2. OneAtATime
  <2> SUFFICES ASSUME OneThread, NEW x \in Callers, Exclusive(x)
               PROVE  /\ \A d \in Callers : Holding(d) => x = d
                      /\ lockOf[processOf[x]] = "exclusive"
    BY DEF OneAtATime, OneThread
  <2>1. OwnerInv /\ GrantInv
    BY DEF LockInv
  <2>2. lockOf[processOf[x]] = "exclusive"
    BY <2>1 DEF OwnerInv
  <2>3. ASSUME NEW d \in Callers, Holding(d) PROVE x = d
    <3>1. lockOf[processOf[d]] \in {"shared", "exclusive"}
      BY <2>1, <2>3 DEF OwnerInv, Holding, Exclusive
    <3>2. processOf[x] = processOf[d]
      BY <2>1, <2>2, <3>1 DEF GrantInv, Processes
    <3> QED BY <2>1, <2>3, <3>2 DEF OwnerInv, Inside, Holding, Exclusive
  <2> QED BY <2>2, <2>3
<1>3. JobCompleted
  BY DEF LockInv, OneThread, WaiterInv, NeverDone, NotSince, JobCompleted
<1> QED BY <1>1, <1>2, <1>3 DEF LocksRight

-----------------------------------------------------------------------------
(* The file monitor.  A record of a directory holds what its requests ask   *)
(* for, and a watcher is on where there is one.                             *)

(* The record of a directory holds what was asked for there, whose callback *)
(* is that of one who asked; there is a record if anybody has.              *)
RecordInv == \A d \in Dirs :
  /\ entries[d].there <=> For(d) # {}
  /\ \A f \in Names : f \in entries[d].files <=> \E r \in For(d) : f \in FilesOf(r)
  /\ entries[d].there => \E r \in For(d) : r.by = entries[d].by
  /\ watcher[d] # "none" => entries[d].there

(* A watcher that is not on has failed, or stop has passed it.              *)
WatcherInv == \A d \in Dirs :
  /\ monitor = "running" /\ entries[d].there => watcher[d] = "on" \/ d \in monitorMishaps
  /\ monitor = "stopped" /\ "late" \notin monitorMishaps => watcher[d] # "on"

ToldInv == told # NoOne => \E r \in For(told.dir) : Covers(r, told.file)

MonitorInv ==
  /\ FileMonitorTypeOK
  /\ wanted \subseteq Requests
  /\ RecordInv /\ WatcherInv /\ ToldInv

(* Nothing has been asked for at first.                                     *)
LEMMA MonitorStarts == FileMonitorInit => MonitorInv
<1> SUFFICES ASSUME FileMonitorInit PROVE MonitorInv
  OBVIOUS
<1> USE DEF FileMonitorInit
<1>1. FileMonitorTypeOK /\ wanted \subseteq Requests
  BY DEF FileMonitorTypeOK
<1>2. \A d \in Dirs : For(d) = {}
  BY DEF For
<1>3. RecordInv
  BY <1>2 DEF RecordInv
<1>4. WatcherInv /\ ToldInv
  BY DEF WatcherInv, ToldInv
<1> QED BY <1>1, <1>3, <1>4 DEF MonitorInv

(* The record of a directory that somebody asks for.                        *)
LEMMA InsertKeeps ==
  ASSUME MonitorInv, NEW r \in Requests, Insert(r)
  PROVE  MonitorInv'
<1> USE DEF Insert, MonitorInv
<1>0. r.dir \in Dirs /\ r.by \in Clients /\ FilesOf(r) \subseteq Names
  BY DEF Requests, FilesOf
<1>1. \A d \in Dirs : For(d)' = IF d = r.dir THEN For(d) \union {r} ELSE For(d)
  BY DEF For
<1>2. FileMonitorTypeOK' /\ (wanted \subseteq Requests)'
  <2>1. CASE entries[r.dir].there
    BY <1>0, <2>1 DEF FileMonitorTypeOK
  <2>2. CASE ~entries[r.dir].there
    <3>1. [there |-> TRUE, files |-> FilesOf(r), by |-> r.by] \in
            [there : BOOLEAN, files : SUBSET Names, by : Clients \union {"nobody"}]
      BY <1>0
    <3>2. entries' \in [Dirs -> [there : BOOLEAN, files : SUBSET Names, by : Clients \union {"nobody"}]]
      BY <1>0, <2>2, <3>1 DEF FileMonitorTypeOK
    <3>3. watcher' \in [Dirs -> {"none", "on", "dead", "stopped"}]
      BY <1>0, <2>2 DEF FileMonitorTypeOK
    <3> QED BY <3>2, <3>3 DEF FileMonitorTypeOK
  <2> QED BY <2>1, <2>2
<1>3. ASSUME NEW d \in Dirs
      PROVE  /\ d # r.dir => entries'[d] = entries[d] /\ watcher'[d] = watcher[d]
             /\ d = r.dir =>
                  /\ entries'[d].there
                  /\ entries'[d].files = entries[d].files \union FilesOf(r)
                  /\ entries'[d].by = IF entries[d].there THEN entries[d].by ELSE r.by
                  /\ entries[d].there => watcher'[d] = watcher[d]
                  /\ ~entries[d].there => watcher'[d] \in {"on", "dead"}
  <2>0. entries \in [Dirs -> [there : BOOLEAN, files : SUBSET Names, by : Clients \union {"nobody"}]]
        /\ watcher \in [Dirs -> {"none", "on", "dead", "stopped"}]
    BY DEF FileMonitorTypeOK
  <2>1. CASE entries[r.dir].there
    <3>1. entries' = [entries EXCEPT ![r.dir] =
                        [entries[r.dir] EXCEPT !.files = entries[r.dir].files \union FilesOf(r)]]
          /\ watcher' = watcher
      BY <2>1
    <3> QED BY <1>0, <2>0, <2>1, <3>1
  <2>2. CASE ~entries[r.dir].there
    <3>1. entries[r.dir].files = {}
      <4>1. For(r.dir) = {}
        BY <1>0, <2>2 DEF RecordInv
      <4>2. entries[r.dir].files \subseteq Names
        BY <1>0, <2>0
      <4> QED BY <1>0, <4>1, <4>2 DEF RecordInv
    <3> QED BY <1>0, <2>0, <2>2, <3>1
  <2> QED BY <2>1, <2>2
<1>4. RecordInv'
  <2> SUFFICES ASSUME NEW d \in Dirs
               PROVE  /\ entries'[d].there <=> For(d)' # {}
                      /\ \A f \in Names :
                           f \in entries'[d].files <=> \E q \in For(d)' : f \in FilesOf(q)
                      /\ entries'[d].there => \E q \in For(d)' : q.by = entries'[d].by
                      /\ watcher'[d] # "none" => entries'[d].there
    BY DEF RecordInv, FilesOf
  <2>1. CASE d # r.dir
    BY <1>1, <1>3, <2>1 DEF RecordInv
  <2>2. CASE d = r.dir
    <3>1. For(d)' = For(d) \union {r}
      BY <1>1, <2>2
    <3>2. entries'[d].there /\ For(d)' # {}
      BY <1>3, <2>2, <3>1
    <3>3. \A f \in Names : f \in entries'[d].files <=> \E q \in For(d)' : f \in FilesOf(q)
      BY <1>3, <2>2, <3>1 DEF RecordInv
    <3>4. \E q \in For(d)' : q.by = entries'[d].by
      BY <1>3, <2>2, <3>1 DEF RecordInv
    <3> QED BY <3>2, <3>3, <3>4
  <2> QED BY <2>1, <2>2
<1>5. WatcherInv'
  <2> SUFFICES ASSUME NEW d \in Dirs
               PROVE  /\ monitor = "running" /\ entries'[d].there =>
                           watcher'[d] = "on" \/ d \in monitorMishaps'
                      /\ monitor = "stopped" /\ "late" \notin monitorMishaps' =>
                           watcher'[d] # "on"
    BY DEF WatcherInv
  <2>1. monitorMishaps \subseteq monitorMishaps'
    OBVIOUS
  <2>2. CASE d # r.dir \/ entries[d].there
    BY <1>3, <2>1, <2>2 DEF WatcherInv
  <2>3. CASE d = r.dir /\ ~entries[d].there
    <3>1. "late" \in monitorMishaps' \/ monitor = "running"
      BY <2>3
    <3>2. watcher'[d] \in {"on", "dead"} /\ (watcher'[d] = "dead" => d \in monitorMishaps')
      BY <2>3, <1>0 DEF FileMonitorTypeOK
    <3> QED BY <3>1, <3>2
  <2> QED BY <2>2, <2>3
<1>6. ToldInv'
  BY DEF ToldInv, For, Covers
<1> QED BY <1>2, <1>4, <1>5, <1>6

(* A client is told of a file that the record of its directory covers       *)
(* (file_monitor.h:64-83).                                                  *)
LEMMA EventKeeps ==
  ASSUME MonitorInv, NEW d \in Dirs, NEW f \in Names, FileEvent(d, f)
  PROVE  MonitorInv'
<1> USE DEF FileEvent, MonitorInv
<1>1. entries[d] \in [there : BOOLEAN, files : SUBSET Names, by : Clients \union {"nobody"}]
  BY DEF FileMonitorTypeOK
<1>2. PICK r \in For(d) : r.by = entries[d].by
  BY DEF RecordInv, HasFile
<1>3. \E q \in For(d) : Covers(q, f)
  <2>1. CASE entries[d].files = {}
    <3>1. \A g \in Names : g \notin FilesOf(r)
      BY <1>2, <2>1 DEF RecordInv
    <3>2. r.file = All
      BY <1>2, <3>1 DEF For, Requests, FilesOf
    <3> QED BY <1>2, <3>2 DEF Covers
  <2>2. CASE f \in entries[d].files
    <3>1. PICK q \in For(d) : f \in FilesOf(q)
      BY <2>2 DEF RecordInv
    <3> QED BY <3>1 DEF FilesOf, Covers
  <2> QED BY <2>1, <2>2 DEF HasFile
<1>4. FileMonitorTypeOK' /\ (wanted \subseteq Requests)'
  <2>1. r.by \in Clients
    BY <1>2 DEF For, Requests
  <2>2. told' \in Requests
    BY <2>1, <1>2 DEF Requests
  <2> QED BY <2>2 DEF FileMonitorTypeOK
<1>5. ToldInv'
  BY <1>3 DEF ToldInv, For
<1>6. RecordInv' /\ WatcherInv'
  BY DEF RecordInv, WatcherInv, For, FilesOf
<1> QED BY <1>4, <1>5, <1>6

(* Every other step leaves the records and what was asked for alone.        *)
LEMMA OthersKeep ==
  ASSUME MonitorInv,
         \/ UNCHANGED monitorVars
         \/ \E r \in Requests : AddFile(r)
         \/ \E d \in Dirs : WatcherFails(d) \/ StopWatcher(d)
         \/ Stop \/ StopLoop
  PROVE  MonitorInv'
<1> USE DEF MonitorInv
<1>1. UNCHANGED <<entries, told, wanted>> /\ monitorMishaps \subseteq monitorMishaps'
  BY DEF monitorVars, AddFile, WatcherFails, StopWatcher, Stop, StopLoop
<1>2. FileMonitorTypeOK' /\ (wanted \subseteq Requests)'
  <2>1. adding' \subseteq Requests
    BY DEF FileMonitorTypeOK, monitorVars, AddFile, WatcherFails, StopWatcher, Stop, StopLoop
  <2>2. watcher' \in [Dirs -> {"none", "on", "dead", "stopped"}]
    BY DEF FileMonitorTypeOK, monitorVars, AddFile, WatcherFails, StopWatcher, Stop, StopLoop
  <2> QED BY <1>1, <2>1, <2>2 DEF FileMonitorTypeOK
<1>3. \A d \in Dirs : For(d)' = For(d)
  BY <1>1 DEF For
<1>4. ASSUME NEW d \in Dirs
      PROVE  \/ watcher'[d] = watcher[d]
             \/ watcher[d] = "on" /\ watcher'[d] = "stopped" /\ d \in monitorMishaps'
             \/ watcher[d] = "on" /\ watcher'[d] = "stopped" /\ monitor' = "stopping"
  BY DEF FileMonitorTypeOK, monitorVars, AddFile, WatcherFails, StopWatcher, Stop, StopLoop
<1>5. RecordInv'
  BY <1>1, <1>3, <1>4 DEF RecordInv, FilesOf
<1>6. \/ monitor' = monitor
      \/ monitor' = "stopping"
      \/ monitor' = "stopped" /\ ("late" \in monitorMishaps' \/ \A d \in Dirs : watcher'[d] # "on")
  BY DEF monitorVars, AddFile, WatcherFails, StopWatcher, Stop, StopLoop
<1>7. WatcherInv'
  BY <1>1, <1>4, <1>6 DEF WatcherInv
<1>8. ToldInv'
  BY <1>1 DEF ToldInv, For, Covers
<1> QED BY <1>2, <1>5, <1>7, <1>8

(* Requests, events, failing watchers and stopping keep the invariant.      *)
LEMMA MonitorSteps == MonitorInv /\ [FileMonitorNext]_monitorVars => MonitorInv'
<1> SUFFICES ASSUME MonitorInv, [FileMonitorNext]_monitorVars PROVE MonitorInv'
  OBVIOUS
<1>1. CASE \E r \in Requests : Insert(r)
  BY <1>1, InsertKeeps
<1>2. CASE \E d \in Dirs, f \in Names : FileEvent(d, f)
  BY <1>2, EventKeeps
<1>3. CASE \/ UNCHANGED monitorVars
           \/ \E r \in Requests : AddFile(r)
           \/ \E d \in Dirs : WatcherFails(d) \/ StopWatcher(d)
           \/ Stop \/ StopLoop
  BY <1>3, OthersKeep
<1> QED BY <1>1, <1>2, <1>3 DEF FileMonitorNext

(* What the records hold is what was asked for; so a file that was asked    *)
(* for is in the list, or the list stands for all of them.                  *)
LEMMA MonitorMeans == MonitorInv => FilesWatched
<1> SUFFICES ASSUME MonitorInv PROVE FilesWatched
  OBVIOUS
<1> USE DEF MonitorInv
<1>1. told # NoOne => \E r \in For(told.dir) : Covers(r, told.file)
  BY DEF ToldInv
<1>2. ASSUME monitor = "running", NEW r \in wanted, NEW f \in Names, Covers(r, f),
             r.dir \notin monitorMishaps, ~(r.file = All /\ Mixed(r.dir))
      PROVE  /\ watcher[r.dir] = "on" /\ HasFile(r.dir, f)
             /\ entries[r.dir].by = r.by \/ \E q \in For(r.dir) : q.by # r.by
  <2>1. r.dir \in Dirs /\ r \in For(r.dir)
    BY DEF Requests, For
  <2>2. entries[r.dir].there /\ watcher[r.dir] = "on"
    BY <1>2, <2>1 DEF RecordInv, WatcherInv
  <2>3. HasFile(r.dir, f)
    <3>1. CASE r.file # All
      <4>1. f \in FilesOf(r)
        BY <1>2, <3>1 DEF Covers, FilesOf
      <4> QED BY <2>1, <2>2, <4>1 DEF RecordInv, HasFile
    <3>2. CASE r.file = All
      <4>1. \A q \in For(r.dir) : FilesOf(q) = {}
        BY <1>2, <2>1, <3>2 DEF Mixed, FilesOf
      <4>2. entries[r.dir].files \subseteq Names
        BY <2>1 DEF FileMonitorTypeOK
      <4> QED BY <2>1, <2>2, <4>1, <4>2 DEF RecordInv, HasFile
    <3> QED BY <3>1, <3>2
  <2>4. \E q \in For(r.dir) : q.by = entries[r.dir].by
    BY <2>1, <2>2 DEF RecordInv
  <2> QED BY <2>2, <2>3, <2>4
<1>3. monitor = "stopped" /\ "late" \notin monitorMishaps => \A d \in Dirs : watcher[d] # "on"
  BY DEF WatcherInv
<1> QED BY <1>1, <1>2, <1>3 DEF FilesWatched

-----------------------------------------------------------------------------
(* Downloads.  A call that is alone and undisturbed holds the file named    *)
(* .dl, with the parts it has written.                                      *)

Places == {"out", "body", "received", "failed", "returned", "threw"}

(* The files of those who download; nobody else has one.                    *)
HolderInv == \A d \in Downloaders :
  /\ got[d].file \in IF d \in Calling THEN AllFiles ELSE {0}
  /\ IsAt(d, "body") => got[d].part > 0

(* Nothing is written to the file the target names: the one a call has is   *)
(* named .dl, or nothing when another call has renamed or removed it.       *)
NamesInv == named.dl # 0 => named.dl # named.target

AloneInv == "together" \notin downloadMishaps => \A d, e \in Calling : d = e

(* What a call has written: the parts before the next, or all of them.      *)
PartsInv ==
  downloadMishaps = {} =>
    /\ named.target # 0 => holds[named.target] = Body
    /\ \A d \in Downloaders :
         /\ d \in Calling => named.dl = got[d].file
         /\ IsAt(d, "body") => /\ got[d].part \in 1..(BodyParts + 1)
                               /\ holds[got[d].file] = 1..(got[d].part - 1)
         /\ IsAt(d, "received") => holds[got[d].file] = Body
         /\ IsAt(d, "returned") => named.target # 0

DownloadInv == /\ DownloadTypeOK
               /\ got \in [Downloaders -> [at : Places, file : AllFiles \union {0}, part : Nat]]
               /\ HolderInv /\ NamesInv /\ AloneInv /\ PartsInv

(* There are more files than calls: one is free for a call that comes.      *)
LEMMA FreeFile ==
  ASSUME DownloadInv, NEW d \in Downloaders, d \notin Calling, named.dl = 0
  PROVE  \E f \in AllFiles : Unused(f)
<1> DEFINE n == Cardinality(Downloaders)
           Others == Downloaders \ {d}
           Taken == {got[e].file : e \in Others}
           NotFree == Taken \union {named.target}
<1>1. n \in Nat /\ IsFiniteSet(Others) /\ Cardinality(Others) = n - 1
  BY DownloadAssumption, FS_CardinalityType, FS_RemoveElement
<1>2. IsFiniteSet(Taken) /\ Cardinality(Taken) <= n - 1
  <2> DEFINE F == [e \in Others |-> got[e].file]
  <2>1. F \in Surjection(Others, Taken)
    BY DEF Surjection
  <2> QED BY <1>1, <2>1, FS_Surjection
<1> HIDE DEF Taken, Others
<1>3. IsFiniteSet(NotFree) /\ Cardinality(NotFree) <= n
  <2>1. Cardinality(Taken) \in Nat
    BY <1>2, FS_CardinalityType
  <2>2. IsFiniteSet(NotFree)
        /\ Cardinality(NotFree) = IF named.target \in Taken THEN Cardinality(Taken)
                                  ELSE Cardinality(Taken) + 1
    BY <1>2, FS_AddElement
  <2> HIDE DEF NotFree, n
  <2> QED BY <1>1, <1>2, <2>1, <2>2
<1>4. IsFiniteSet(AllFiles) /\ Cardinality(AllFiles) = n + 1
  <2>1. AllFiles = 1..(n + 1)
    BY DEF AllFiles
  <2> HIDE DEF n
  <2>2. 1 \in Int /\ n + 1 \in Int /\ ~(1 > n + 1) /\ n + 1 - 1 + 1 = n + 1
    BY <1>1
  <2>3. IsFiniteSet(1..(n + 1)) /\ Cardinality(1..(n + 1)) = n + 1 - 1 + 1
    BY <2>2, FS_Interval
  <2> QED BY <2>1, <2>2, <2>3
<1> HIDE DEF n
<1>5. PICK f \in AllFiles : f \notin NotFree
  BY <1>1, <1>3, <1>4, FS_Subset, FS_CardinalityType
<1>6. f # 0 /\ got[d].file = 0
  BY <1>1 DEF AllFiles, DownloadInv, HolderInv, n
<1> QED BY <1>5, <1>6 DEF Unused, Taken, Others

(* Nobody downloads at first, and no file has a name.                       *)
LEMMA DownloadStarts == DownloadInit => DownloadInv
<1> SUFFICES ASSUME DownloadInit PROVE DownloadInv
  OBVIOUS
<1> USE DEF DownloadInit
<1>1. DownloadTypeOK
  BY DEF DownloadTypeOK, Away
<1>2. got \in [Downloaders -> [at : Places, file : AllFiles \union {0}, part : Nat]]
  BY DEF Away, Places
<1>3. Calling = {}
  BY DEF Calling, Away
<1>4. HolderInv /\ NamesInv /\ AloneInv
  BY <1>3 DEF HolderInv, NamesInv, AloneInv, IsAt, Away
<1>5. PartsInv
  BY <1>3 DEF PartsInv, IsAt, Away
<1> QED BY <1>1, <1>2, <1>4, <1>5 DEF DownloadInv

(* The .dl file is made or cut to nothing, and is now that of the call.     *)
LEMMA OpenKeeps ==
  ASSUME DownloadInv, NEW d \in Downloaders, OpenDl(d)
  PROVE  DownloadInv'
<1> USE DEF OpenDl, DownloadInv
<1>1. PICK f \in IF named.dl # 0 THEN {named.dl} ELSE {CHOOSE f \in AllFiles : Unused(f)} :
        /\ named' = [named EXCEPT !.dl = f]
        /\ holds' = [holds EXCEPT ![f] = {}]
        /\ got' = [got EXCEPT ![d] = [at |-> "body", file |-> f, part |-> 1]]
  OBVIOUS
<1>2. f \in AllFiles /\ f # named.target
  <2>1. CASE named.dl # 0
    BY <1>1, <2>1 DEF DownloadTypeOK, NamesInv
  <2>2. CASE named.dl = 0
    <3>1. \E g \in AllFiles : Unused(g)
      BY <2>2, FreeFile
    <3>2. f \in AllFiles /\ Unused(f)
      BY <1>1, <2>2, <3>1
    <3> QED BY <3>2 DEF Unused
  <2> QED BY <2>1, <2>2
<1>3. f # 0 /\ f \in Nat
  BY <1>2, DownloadAssumption, FS_CardinalityType DEF AllFiles
<1>4. got' \in [Downloaders -> [at : Places, file : AllFiles \union {0}, part : Nat]]
  BY <1>1, <1>2 DEF Places
<1>5. DownloadTypeOK'
  BY <1>1, <1>2 DEF DownloadTypeOK
<1>6. Calling' = Calling \union {d}
  BY <1>1 DEF Calling
<1>7. HolderInv'
  BY <1>1, <1>2, <1>6 DEF HolderInv, IsAt
<1>8. NamesInv'
  BY <1>1, <1>2 DEF NamesInv, DownloadTypeOK
<1>9. AloneInv'
  BY <1>6 DEF AloneInv
<1>10. ASSUME downloadMishaps' = {} PROVE Calling = {} /\ downloadMishaps = {}
  BY <1>10
<1>11. PartsInv'
  <2> SUFFICES ASSUME downloadMishaps' = {}
               PROVE  /\ named'.target # 0 => holds'[named'.target] = Body
                      /\ \A e \in Downloaders :
                           /\ e \in Calling' => named'.dl = got'[e].file
                           /\ IsAt(e, "body")' => /\ got'[e].part \in 1..(BodyParts + 1)
                                                  /\ holds'[got'[e].file] = 1..(got'[e].part - 1)
                           /\ IsAt(e, "received")' => holds'[got'[e].file] = Body
                           /\ IsAt(e, "returned")' => named'.target # 0
    BY DEF PartsInv, Body, IsAt
  <2>1. Calling' = {d} /\ PartsInv
    BY <1>6, <1>10
  <2>2. named'.target = named.target /\ named'.dl = f /\ holds'[f] = {}
        /\ (named.target # 0 => holds'[named.target] = holds[named.target])
    BY <1>1, <1>2 DEF DownloadTypeOK
  <2>3. got'[d] = [at |-> "body", file |-> f, part |-> 1] /\ 1..0 = {}
        /\ \A e \in Downloaders \ {d} : got'[e] = got[e]
    BY <1>1
  <2>4. ASSUME NEW e \in Downloaders, e # d
        PROVE  ~IsAt(e, "body")' /\ ~IsAt(e, "received")' /\ e \notin Calling'
    BY <2>1, <2>4 DEF Calling, IsAt
  <2>5. BodyParts \in Nat
    BY DownloadAssumption
  <2>6. named'.target # 0 => holds'[named'.target] = Body
    BY <1>10, <2>1, <2>2 DEF PartsInv
  <2>7. \A e \in Downloaders : IsAt(e, "returned")' => named'.target # 0
    BY <1>10, <2>1, <2>2, <2>3 DEF PartsInv, IsAt
  <2>8. 1 \in 1..(BodyParts + 1) /\ holds'[f] = 1..(1 - 1)
    BY <2>2, <2>5
  <2> QED BY <2>2, <2>3, <2>4, <2>6, <2>7, <2>8 DEF IsAt
<1> QED BY <1>4, <1>5, <1>7, <1>8, <1>9, <1>11

(* The call goes on alone, when nothing has gone wrong: what it writes is   *)
(* not what the target names.                                               *)
LEMMA ReceiveKeeps ==
  ASSUME DownloadInv, NEW d \in Downloaders, Receive(d) \/ CloseDl(d)
  PROVE  DownloadInv'
<1> USE DEF DownloadInv
<1> DEFINE f == got[d].file
<1>0. BodyParts \in Nat \ {0}
  BY DownloadAssumption
<1>1. d \in Calling /\ f \in AllFiles /\ IsAt(d, "body")
  BY DEF Receive, CloseDl, Calling, IsAt, HolderInv
<1>2. /\ named' = named /\ got'[d].file = f
      /\ \A e \in Downloaders \ {d} : got'[e] = got[e]
      /\ \A g \in AllFiles \ {f} : holds'[g] = holds[g]
      /\ downloadMishaps \subseteq downloadMishaps'
  BY DEF Receive, CloseDl, DownloadTypeOK
<1>3. got'[d].at \in {"body", "received"} /\ got'[d].part \in Nat
      /\ got' \in [Downloaders -> [at : Places, file : AllFiles \union {0}, part : Nat]]
  BY DEF Receive, CloseDl, IsAt, Places
<1>4. DownloadTypeOK'
  <2>1. holds' \in [AllFiles -> SUBSET Body] /\ downloadMishaps' \subseteq {"together", "full"}
    <3>1. CASE Receive(d)
      <4>1. got[d].part \in Body
        BY <1>0, <3>1, <1>1 DEF Receive, HolderInv, Body, CloseDl
      <4> QED BY <3>1, <4>1 DEF Receive, DownloadTypeOK
    <3>2. CASE CloseDl(d)
      BY <3>2 DEF CloseDl, DownloadTypeOK
    <3> QED BY <3>1, <3>2
  <2> QED BY <1>2, <1>3, <2>1 DEF DownloadTypeOK
<1>5. Calling' = Calling
  BY <1>1, <1>2, <1>3 DEF Calling
<1>6. HolderInv' /\ NamesInv' /\ AloneInv'
  <2>1. HolderInv'
    <3>1. got'[d].at = "body" => got'[d].part > 0
      BY <1>1 DEF Receive, CloseDl, HolderInv, IsAt
    <3> QED BY <1>1, <1>2, <1>3, <1>5, <3>1 DEF HolderInv, IsAt
  <2> QED BY <2>1, <1>2, <1>5 DEF NamesInv, AloneInv
<1>7. PartsInv'
  <2> SUFFICES ASSUME downloadMishaps' = {} PROVE PartsInv'
    BY DEF PartsInv
  <2>1. downloadMishaps = {} /\ named.dl = f /\ \A e \in Calling : e = d
    BY <1>1, <1>2 DEF AloneInv, PartsInv
  <2>2. got[d].part \in 1..(BodyParts + 1) /\ holds[f] = 1..(got[d].part - 1)
    BY <1>1, <2>1 DEF PartsInv
  <2>3. named.target # f /\ (named.target # 0 => holds'[named.target] = Body)
    <3>1. f # 0
      BY <1>1, DownloadAssumption, FS_CardinalityType DEF AllFiles
    <3> QED BY <1>2, <2>1, <3>1 DEF NamesInv, PartsInv, DownloadTypeOK
  <2>4. CASE Receive(d)
    <3>1. got[d].part \in 1..BodyParts /\ got'[d].part = got[d].part + 1 /\ got'[d].at = "body"
          /\ holds'[f] = holds[f] \union {got[d].part}
      BY <1>0, <1>1, <2>2, <2>4 DEF Receive, DownloadTypeOK, IsAt
    <3>2. holds'[f] = 1..(got'[d].part - 1) /\ got'[d].part \in 1..(BodyParts + 1)
      BY <1>0, <2>2, <3>1
    <3>3. ASSUME NEW e \in Downloaders
          PROVE  /\ e \in Calling' => named'.dl = got'[e].file
                 /\ IsAt(e, "body")' => e = d
                 /\ ~IsAt(e, "received")'
                 /\ IsAt(e, "returned")' => named.target # 0
      BY <1>2, <1>5, <2>1, <3>1 DEF IsAt, PartsInv, Calling
    <3> QED BY <1>2, <2>3, <3>2, <3>3 DEF PartsInv, Body
  <2>5. CASE CloseDl(d)
    <3>1. holds' = holds /\ got[d].part = BodyParts + 1 /\ got'[d].at = "received"
      BY <1>0, <2>2, <2>5 DEF CloseDl
    <3>2. holds'[f] = Body
      BY <1>0, <2>2, <3>1 DEF Body
    <3>3. ASSUME NEW e \in Downloaders
          PROVE  /\ e \in Calling' => named'.dl = got'[e].file
                 /\ ~IsAt(e, "body")'
                 /\ IsAt(e, "received")' => e = d
                 /\ IsAt(e, "returned")' => named.target # 0
      BY <1>2, <1>5, <2>1, <3>1 DEF IsAt, PartsInv, Calling
    <3> QED BY <1>2, <2>3, <3>2, <3>3 DEF PartsInv, Body
  <2> QED BY <2>4, <2>5
<1> QED BY <1>3, <1>4, <1>6, <1>7

(* A call that fails, is closed, renamed or ends with its program           *)
(* (http.cpp:286-312).                                                      *)
LEMMA EndsKeep ==
  ASSUME DownloadInv, NEW d \in Downloaders,
         ReceiveFails(d) \/ OnError(d) \/ Rename(d) \/ EndDownloader(d)
  PROVE  DownloadInv'
<1> USE DEF DownloadInv, ReceiveFails, OnError, Rename, EndDownloader
<1>1. d \in Calling
  BY DEF Calling, IsAt
<1>2. /\ holds' = holds /\ downloadMishaps' = downloadMishaps
      /\ \A e \in Downloaders \ {d} : got'[e] = got[e]
      /\ \/ got'[d] = [got[d] EXCEPT !.at = "failed"]
         \/ got'[d] = [at |-> "out", file |-> 0, part |-> 0]
         \/ got'[d] = [at |-> "threw", file |-> 0, part |-> 0]
         \/ got'[d] = [at |-> "returned", file |-> 0, part |-> 0]
      /\ got' \in [Downloaders -> [at : Places, file : AllFiles \union {0}, part : Nat]]
  BY DEF Away, Places
<1>3. named' \in {named, [named EXCEPT !.dl = 0], [dl |-> 0, target |-> named.dl]}
  OBVIOUS
<1>4. DownloadTypeOK'
  BY <1>2, <1>3 DEF DownloadTypeOK
<1>5. Calling' \subseteq Calling
  BY <1>1, <1>2 DEF Calling
<1>6. \A e \in Downloaders \ {d} : e \in Calling' <=> e \in Calling
  BY <1>2 DEF Calling
<1>7. d \in Calling' <=> got'[d].at = "failed"
  BY <1>2 DEF Calling
<1>8. HolderInv'
  BY <1>1, <1>2, <1>6, <1>7 DEF HolderInv, IsAt
<1>9. NamesInv' /\ AloneInv'
  BY <1>2, <1>3, <1>5 DEF NamesInv, AloneInv, DownloadTypeOK
<1>10. PartsInv'
  <2> SUFFICES ASSUME downloadMishaps = {} PROVE PartsInv'
    BY <1>2 DEF PartsInv
  <2>1. PartsInv /\ \A e \in Calling : e = d
    BY <1>1 DEF AloneInv
  <2>2. ASSUME NEW e \in Downloaders PROVE ~IsAt(e, "body")' /\ ~IsAt(e, "received")'
    BY <1>2, <2>1 DEF Calling, IsAt
  <2>3. CASE ReceiveFails(d) \/ EndDownloader(d)
    <3>1. named' = named
      BY <2>3
    <3>2. \A e \in Downloaders : e \in Calling' => named'.dl = got'[e].file
      BY <1>1, <1>2, <1>5, <1>7, <2>1, <3>1 DEF PartsInv
    <3>3. \A e \in Downloaders : IsAt(e, "returned")' => IsAt(e, "returned")
      BY <1>2, <2>3 DEF IsAt, Away
    <3> QED BY <1>2, <2>1, <2>2, <3>1, <3>2, <3>3 DEF PartsInv, Body
  <2>4. CASE OnError(d) \/ Rename(d)
    <3>1. Calling' = {}
      BY <1>2, <1>5, <1>7, <2>1, <2>4 DEF Away
    <3>2. CASE OnError(d)
      <4>1. named'.target = named.target /\ \A e \in Downloaders : IsAt(e, "returned")' => IsAt(e, "returned")
        BY <1>2, <3>2 DEF IsAt, Away, DownloadTypeOK
      <4> QED BY <1>2, <2>1, <2>2, <3>1, <4>1 DEF PartsInv, Body
    <3>3. CASE Rename(d)
      <4>1. IsAt(d, "received") /\ named.dl = got[d].file /\ got[d].file \in AllFiles
        BY <1>1, <2>1, <3>3 DEF PartsInv, HolderInv
      <4>2. named.dl # 0 /\ holds[named.dl] = Body
        BY <2>1, <4>1, DownloadAssumption, FS_CardinalityType DEF PartsInv, AllFiles
      <4>3. named' = [dl |-> 0, target |-> named.dl]
        BY <3>3, <4>2
      <4> QED BY <1>2, <2>2, <3>1, <4>2, <4>3 DEF PartsInv, Body
    <3> QED BY <2>4, <3>2, <3>3
  <2> QED BY <2>3, <2>4
<1> QED BY <1>2, <1>4, <1>8, <1>9, <1>10

(* Calls, the parts of a body, failures and ends of programs keep the       *)
(* invariant.                                                               *)
LEMMA DownloadSteps == DownloadInv /\ [DownloadNext]_downloadVars => DownloadInv'
<1> SUFFICES ASSUME DownloadInv, [DownloadNext]_downloadVars PROVE DownloadInv'
  OBVIOUS
<1>1. CASE \E d \in Downloaders : OpenDl(d)
  BY <1>1, OpenKeeps
<1>2. CASE \E d \in Downloaders : Receive(d) \/ CloseDl(d)
  BY <1>2, ReceiveKeeps
<1>3. CASE \E d \in Downloaders : ReceiveFails(d) \/ OnError(d) \/ Rename(d) \/ EndDownloader(d)
  BY <1>3, EndsKeep
<1>4. CASE UNCHANGED downloadVars
  BY <1>4 DEF downloadVars, DownloadInv, DownloadTypeOK, HolderInv, NamesInv, AloneInv, PartsInv,
              Calling, IsAt, Body
<1> QED BY <1>1, <1>2, <1>3, <1>4 DEF DownloadNext

(* The invariant says what is checked of a target.                          *)
LEMMA DownloadMeans == DownloadInv => TargetWhole
  BY DEF DownloadInv, PartsInv, TargetWhole, Calling, IsAt

-----------------------------------------------------------------------------
(* The schema of a database.  What a transaction sees agrees with the       *)
(* version that it has read, by what has been run so far.                   *)

Databases == [rows : Nat, version : Nat \union {-1}, tables : BOOLEAN, ran : [AllDiffs -> Nat]]

SchemaState ==
  /\ SchemaTypeOK
  /\ ifNotExists \in BOOLEAN
  /\ database \in Databases /\ view \in [Programs -> Databases]
  /\ diffAt \in [Programs -> Nat]
  /\ database.version # -1 => database.rows > 0

(* What the latest schema skips and what update() runs can then disagree.   *)
Skipped == ifNotExists /\ schemaMishaps \intersect {"first_together", "not_read"} # {}

Agrees(d) ==
  /\ d.tables <=> d.version # -1
  /\ \A i \in AllDiffs : d.ran[i] = (IF i <= d.version THEN 1 ELSE 0)

(* The tables are there and the first n diffs have run, once.               *)
RanUpTo(d, n) == d.tables /\ \A i \in AllDiffs : d.ran[i] = (IF i <= n THEN 1 ELSE 0)

(* A program that comes first is alone until it has made the schema.        *)
OneFirst ==
  "first_together" \notin schemaMishaps =>
    /\ database.rows <= 1
    /\ database.version = -1 =>
         \A p, q \in Programs : doing[p] # "nothing" /\ doing[q] # "nothing" => p = q
OneWrites ==
  \A p, q \in Programs : transaction[p] = "writing" /\ transaction[q] = "writing" => p = q

(* Where a transaction has been begun: by BEGIN, or by a call that left it. *)
InSchema == {"schema", "update", "diff", "set_version", "commit"}
BegunOf(p) ==
  /\ doing[p] \in {"schema", "update"} => transaction[p] = "begun"
  /\ doing[p] = "diff" => transaction[p] \in {"reading", "writing"}
  /\ doing[p] \in {"set_version", "commit"} => transaction[p] = "writing"
  /\ diffAt[p] # 0 => doing[p] \in {"diff", "set_version", "commit"}
  /\ doing[p] \notin InSchema \union {"nothing"} =>
       transaction[p] = "none" \/ "left_open" \in schemaMishaps

(* What a transaction sees: the database, and what it has written itself.   *)
WrittenOf(p) ==
  /\ view[p].rows = database.rows
  /\ IF doing[p] = "commit" THEN view[p].version = DiffsOf[p] /\ view[p].rows > 0
     ELSE view[p].version = database.version
  /\ ~Skipped => /\ database.version < DiffsOf[p]
                 /\ RanUpTo(view[p], IF doing[p] = "diff" THEN diffAt[p] - 1 ELSE DiffsOf[p])
ViewOf(p) ==
  /\ doing[p] = "begin_update" /\ transaction[p] = "none" => database.version # -1
  /\ doing[p] = "update" => database.version # -1
  /\ doing[p] = "diff" => view[p].version # -1 /\ diffAt[p] > view[p].version
  /\ doing[p] = "diff" /\ transaction[p] = "reading" => diffAt[p] = view[p].version + 1
  /\ doing[p] \in {"diff", "set_version", "commit"} /\ transaction[p] = "writing" => WrittenOf(p)

(* What a program that has not met another one knows of the database.       *)
FirstOf(p) ==
  "first_together" \notin schemaMishaps =>
    /\ doing[p] = "insert" /\ transaction[p] = "none" => database.rows = 0
    /\ doing[p] = "select" /\ transaction[p] = "none" => database.rows = 1
    /\ "not_read" \notin schemaMishaps =>
         /\ doing[p] = "begin_create" /\ transaction[p] = "none" => database.version = -1
         /\ doing[p] = "schema" => database.version = -1

ReturnedOf(p) ==
  updated[p] = "returned" =>
    database.version >= DiffsOf[p] \/ "left_open" \in schemaMishaps \/ Skipped

Proper(p) == BegunOf(p) /\ ViewOf(p) /\ FirstOf(p) /\ ReturnedOf(p)

SchemaInv ==
  /\ SchemaState /\ OneFirst /\ OneWrites
  /\ \A p \in Programs : Proper(p)
  /\ Skipped \/ Agrees(database)

(* The diffs of a program are numbered from 1.                              *)
LEMMA DiffsAreNumbers ==
  /\ \A i \in AllDiffs : i \in Nat
  /\ \A p \in Programs : DiffsOf[p] \in Nat /\ \A i \in 1..DiffsOf[p] : i \in AllDiffs
BY SchemaManagerAssumption DEF AllDiffs

(* The database is empty and nobody is in a call.                           *)
LEMMA SchemaStarts == SchemaInit => SchemaInv
<1> SUFFICES ASSUME SchemaInit PROVE SchemaInv
  OBVIOUS
<1> USE DEF SchemaInit
<1>1. Empty \in Databases
  BY DEF Empty, Databases
<1>2. SchemaState
  <2>1. SchemaTypeOK
    BY DiffsAreNumbers DEF SchemaTypeOK
  <2>2. database \in Databases /\ view \in [Programs -> Databases] /\ diffAt \in [Programs -> Nat]
    BY <1>1
  <2>3. database.version = -1
    BY DEF Empty
  <2> QED BY <2>1, <2>2, <2>3 DEF SchemaState
<1>3. OneFirst /\ OneWrites
  BY DEF OneFirst, OneWrites, Empty
<1>4. \A p \in Programs : Proper(p)
  BY DEF Proper, BegunOf, ViewOf, FirstOf, ReturnedOf
<1>5. Agrees(database)
  BY DiffsAreNumbers DEF Agrees, Empty
<1> QED BY <1>2, <1>3, <1>4, <1>5 DEF SchemaInv

(* A step of p leaves the other programs' connections alone.                *)
StepOf(p) ==
  /\ ifNotExists' = ifNotExists /\ schemaMishaps \subseteq schemaMishaps'
  /\ \A q \in Programs \ {p} :
       /\ transaction'[q] = transaction[q] /\ view'[q] = view[q]
       /\ doing'[q] = doing[q] /\ diffAt'[q] = diffAt[q] /\ updated'[q] = updated[q]

(* As long as the database stays, so does what the others rely on.          *)
LEMMA OthersRely ==
  ASSUME SchemaInv, NEW p \in Programs, StepOf(p), database' = database,
         SchemaState', Proper(p)', OneFirst', OneWrites'
  PROVE  SchemaInv'
<1>1. Skipped => Skipped'
  BY DEF StepOf, Skipped
<1>2. ASSUME NEW q \in Programs, q # p PROVE Proper(q)'
  <2>1. Proper(q)
    BY DEF SchemaInv
  <2>2. /\ transaction'[q] = transaction[q] /\ view'[q] = view[q] /\ doing'[q] = doing[q]
        /\ diffAt'[q] = diffAt[q] /\ updated'[q] = updated[q]
        /\ schemaMishaps \subseteq schemaMishaps'
    BY <1>2 DEF StepOf
  <2>3. BegunOf(q)'
    BY <2>1, <2>2 DEF Proper, BegunOf
  <2>4. WrittenOf(q) => WrittenOf(q)'
    BY <1>1, <2>2 DEF WrittenOf, RanUpTo, AllDiffs
  <2>5. ViewOf(q)'
    BY <2>1, <2>2, <2>4 DEF Proper, ViewOf
  <2>6. FirstOf(q)' /\ ReturnedOf(q)'
    BY <1>1, <2>1, <2>2 DEF Proper, FirstOf, ReturnedOf
  <2> QED BY <2>3, <2>5, <2>6 DEF Proper
<1>3. (Skipped \/ Agrees(database))'
  BY <1>1 DEF SchemaInv, Agrees, AllDiffs
<1> QED BY <1>2, <1>3 DEF SchemaInv

(* What the state says of one program's step.                               *)
LEMMA SeenFacts ==
  ASSUME SchemaInv, NEW p \in Programs
  PROVE  /\ Seen(p) \in Databases /\ database \in Databases /\ view[p] \in Databases
         /\ transaction[p] \in {"none", "begun", "reading", "writing"}
         /\ transaction[p] \in {"none", "begun"} => Seen(p) = database
         /\ transaction[p] \in {"reading", "writing"} => Seen(p) = view[p]
         /\ DiffsOf[p] \in Nat /\ diffAt[p] \in 0..DiffsOf[p]
         /\ Proper(p)
BY DiffsAreNumbers DEF SchemaInv, SchemaState, SchemaTypeOK, Seen

-----------------------------------------------------------------------------
(* Steps that write nothing.                                                *)

(* A program that is not in a call begins one (schema_manager.h:28-35).     *)
LEMMA CallKeeps ==
  ASSUME SchemaInv, NEW p \in Programs, CallSchema(p) PROVE SchemaInv'
<1> USE SeenFacts DEF CallSchema, Then
<1>1. SchemaState /\ OneFirst /\ OneWrites
  BY DEF SchemaInv
<1>2. StepOf(p)
  BY <1>1 DEF StepOf, SchemaState, SchemaTypeOK
<1>3. SchemaState'
  BY <1>1 DEF SchemaState, SchemaTypeOK, Databases, AllDiffs
<1>4. doing'[p] = "count" /\ updated'[p] = "never" /\ transaction' = transaction /\ diffAt' = diffAt
  BY <1>1 DEF SchemaState, SchemaTypeOK
<1>5. transaction[p] # "none" => "left_open" \in schemaMishaps'
  OBVIOUS
<1>6. Proper(p)'
  <2>1. BegunOf(p)'
    BY <1>4, <1>5 DEF Proper, BegunOf, InSchema
  <2> QED BY <1>4, <2>1 DEF Proper, ViewOf, FirstOf, ReturnedOf
<1>7. OneFirst'
  <2> SUFFICES ASSUME "first_together" \notin schemaMishaps'
               PROVE  /\ database.rows <= 1
                      /\ database.version = -1 =>
                           \A q, r \in Programs : doing'[q] # "nothing" /\ doing'[r] # "nothing" => q = r
    BY DEF OneFirst
  <2>1. database.version = -1 => \A q \in Programs \ {p} : doing[q] = "nothing"
    OBVIOUS
  <2> QED BY <1>1, <1>2, <2>1 DEF OneFirst, StepOf
<1>8. OneWrites'
  BY <1>1, <1>4 DEF OneWrites
<1> QED BY <1>2, <1>3, <1>6, <1>7, <1>8, OthersRely

(* A step of a program that is in a call and stays there or ends it, and    *)
(* does not write.                                                          *)
QuietStepOf(p) ==
  /\ StepOf(p) /\ database' = database
  /\ doing[p] # "nothing" \/ doing'[p] = "nothing"
  /\ transaction'[p] = "writing" => transaction[p] = "writing"

(* A step of one program that leaves the database and its transactions as   *)
(* they are, but for its own place.                                         *)
LEMMA QuietKeeps ==
  ASSUME SchemaInv, NEW p \in Programs, QuietStepOf(p), SchemaState', Proper(p)'
  PROVE  SchemaInv'
<1>1. OneFirst /\ OneWrites /\ StepOf(p) /\ database' = database
  BY DEF SchemaInv, QuietStepOf
<1>2. \A q \in Programs : /\ doing'[q] # "nothing" => doing[q] # "nothing"
                          /\ transaction'[q] = "writing" => transaction[q] = "writing"
  BY DEF QuietStepOf, StepOf
<1>3. OneFirst'
  BY <1>1, <1>2 DEF OneFirst, StepOf
<1>4. OneWrites'
  BY <1>1, <1>2 DEF OneWrites
<1> QED BY <1>1, <1>3, <1>4, OthersRely

(* p's connection after a step that leaves the database as it is.           *)
Becomes(p, t, v, s, u, n) ==
  /\ ifNotExists' = ifNotExists /\ database' = database /\ schemaMishaps \subseteq schemaMishaps'
  /\ t \in {"none", "begun", "reading", "writing"} /\ transaction' = [transaction EXCEPT ![p] = t]
  /\ v \in Databases /\ view' = [view EXCEPT ![p] = v]
  /\ s \in {"nothing", "count", "insert", "select", "begin_create", "begin_update"} \union InSchema
  /\ doing' = [doing EXCEPT ![p] = s]
  /\ u \in {"never", "returned", "threw"} /\ updated' = [updated EXCEPT ![p] = u]
  /\ n \in 0..DiffsOf[p] /\ diffAt' = [diffAt EXCEPT ![p] = n]

(* The values of a program after a step that gives it new ones.             *)
LEMMA StateAfter ==
  ASSUME SchemaState, NEW p \in Programs, NEW t, NEW v, NEW s, NEW u, NEW n,
         Becomes(p, t, v, s, u, n)
  PROVE  /\ SchemaState' /\ StepOf(p)
         /\ transaction'[p] = t /\ view'[p] = v /\ doing'[p] = s
         /\ updated'[p] = u /\ diffAt'[p] = n
<1> USE DEF SchemaState, Becomes
<1>1. Databases' = Databases
  BY DEF Databases, AllDiffs
<1>2. transaction'[p] = t /\ view'[p] = v /\ doing'[p] = s /\ updated'[p] = u /\ diffAt'[p] = n
  BY DEF SchemaTypeOK
<1>3. StepOf(p)
  BY DEF StepOf, SchemaTypeOK
<1>4. n \in Nat
  <2>1. DiffsOf[p] \in Nat
    BY DiffsAreNumbers
  <2> QED BY <2>1
<1>5. \A q \in Programs : diffAt'[q] \in 0..DiffsOf[q]
  BY <1>2, <1>3 DEF StepOf, SchemaTypeOK
<1>6. SchemaTypeOK'
  BY <1>5 DEF SchemaTypeOK, InSchema
<1> QED BY <1>1, <1>2, <1>3, <1>4, <1>6

(* Count and Select read: BEGIN has seen nothing before the first of them.  *)
LEMMA CountKeeps ==
  ASSUME SchemaInv, NEW p \in Programs, Count(p) PROVE SchemaInv'
<1> DEFINE t == IF transaction[p] = "begun" THEN "reading" ELSE transaction[p]
           v == IF transaction[p] = "none" THEN view[p] ELSE Seen(p)
           s == IF Seen(p).rows > 1 THEN "nothing" ELSE IF Seen(p).rows = 0 THEN "insert" ELSE "select"
           u == IF Seen(p).rows > 1 THEN "threw" ELSE updated[p]
<1>0. /\ SchemaState /\ Seen(p).rows \in Nat /\ database.rows \in Nat
      /\ Seen(p) \in Databases /\ view[p] \in Databases
      /\ transaction[p] \in {"none", "begun", "reading", "writing"}
      /\ transaction[p] = "none" => Seen(p) = database
      /\ updated[p] \in {"never", "returned", "threw"}
      /\ diffAt[p] \in 0..DiffsOf[p] /\ Proper(p)
  BY SeenFacts DEF SchemaInv, Databases, SchemaState, SchemaTypeOK
<1>1. /\ transaction' = [transaction EXCEPT ![p] = t] /\ view' = [view EXCEPT ![p] = v]
      /\ doing' = [doing EXCEPT ![p] = s] /\ updated' = [updated EXCEPT ![p] = u]
      /\ diffAt' = [diffAt EXCEPT ![p] = diffAt[p]]
      /\ UNCHANGED <<database, ifNotExists, schemaMishaps>>
  <2>1. /\ transaction' = [transaction EXCEPT ![p] = t] /\ view' = [view EXCEPT ![p] = v]
        /\ database' = database
    BY DEF Count, Reads
  <2>2. updated = [updated EXCEPT ![p] = updated[p]] /\ diffAt = [diffAt EXCEPT ![p] = diffAt[p]]
    BY <1>0 DEF SchemaState, SchemaTypeOK
  <2>3. /\ doing' = [doing EXCEPT ![p] = s] /\ updated' = [updated EXCEPT ![p] = u]
        /\ diffAt' = diffAt /\ UNCHANGED <<ifNotExists, schemaMishaps>>
    BY <1>0, <2>2 DEF Count, Throws, Then, Rest
  <2> QED BY <2>1, <2>2, <2>3
<1>2. /\ t \in {"none", "begun", "reading", "writing"} /\ v \in Databases
      /\ s \in {"nothing", "insert", "select"} /\ u \in {"never", "returned", "threw"}
      /\ u = "returned" => updated[p] = "returned"
      /\ t = "none" <=> transaction[p] = "none"
      /\ t = "writing" => transaction[p] = "writing"
  BY <1>0
<1>3. t = "none" => /\ s = "insert" => database.rows = 0
                    /\ s = "select" => database.rows > 0
  BY <1>0
<1> HIDE DEF t, v, s, u
<1>4. /\ SchemaState' /\ StepOf(p) /\ transaction'[p] = t /\ doing'[p] = s
      /\ updated'[p] = u /\ diffAt'[p] = diffAt[p]
  <2>1. Becomes(p, t, v, s, u, diffAt[p])
    BY <1>0, <1>1, <1>2 DEF Becomes
  <2> QED BY <1>0, <2>1, StateAfter
<1>5. doing[p] = "count" /\ diffAt[p] = 0
      /\ (transaction[p] = "none" \/ "left_open" \in schemaMishaps)
  BY <1>0 DEF Count, Proper, BegunOf, InSchema
<1>6. Proper(p)'
  <2>1. BegunOf(p)'
    BY <1>1, <1>2, <1>4, <1>5 DEF BegunOf, InSchema
  <2>2. ViewOf(p)'
    BY <1>2, <1>4 DEF ViewOf
  <2>3. FirstOf(p)'
    <3>1. "first_together" \notin schemaMishaps => database.rows <= 1
      BY DEF SchemaInv, OneFirst
    <3> QED BY <1>0, <1>1, <1>2, <1>3, <1>4, <3>1 DEF FirstOf
  <2>4. ReturnedOf(p)'
    BY <1>0, <1>1, <1>2, <1>4 DEF ReturnedOf, Proper, Skipped
  <2> QED BY <2>1, <2>2, <2>3, <2>4 DEF Proper
<1>7. QuietStepOf(p)
  BY <1>1, <1>2, <1>4, <1>5 DEF QuietStepOf
<1> QED BY <1>4, <1>6, <1>7, QuietKeeps

(* The version is asked for, and there, missing or not readable             *)
(* (schema_manager.h:30-34).                                                *)
LEMMA SelectKeeps ==
  ASSUME SchemaInv, NEW p \in Programs, Select(p) \/ SelectFails(p) PROVE SchemaInv'
<1> DEFINE t == transaction'[p]
           v == view'[p]
           s == doing'[p]
           u == updated'[p]
<1>0. /\ SchemaState /\ Seen(p) \in Databases /\ view[p] \in Databases /\ database \in Databases
      /\ transaction[p] \in {"none", "begun", "reading", "writing"}
      /\ transaction[p] = "none" => Seen(p) = database
      /\ updated[p] \in {"never", "returned", "threw"}
      /\ diffAt[p] \in 0..DiffsOf[p] /\ Proper(p)
  BY SeenFacts DEF SchemaInv, SchemaState, SchemaTypeOK
<1>1. /\ transaction' = [transaction EXCEPT ![p] = t] /\ view' = [view EXCEPT ![p] = v]
      /\ doing' = [doing EXCEPT ![p] = s] /\ updated' = [updated EXCEPT ![p] = u]
      /\ diffAt' = [diffAt EXCEPT ![p] = diffAt[p]]
      /\ UNCHANGED <<database, ifNotExists>>
  BY <1>0 DEF Select, SelectFails, Reads, Then, Rest, SchemaState, SchemaTypeOK
<1>2. /\ t \in {"none", "begun", "reading", "writing"}
      /\ t = "none" <=> transaction[p] = "none"
      /\ t = "writing" => transaction[p] = "writing"
      /\ v \in Databases
  BY <1>0 DEF Select, SelectFails, Reads, SchemaState, SchemaTypeOK
<1>3. /\ \/ s = "begin_create" /\ schemaMishaps' = schemaMishaps \union {"not_read"} /\ u = updated[p]
         \/ s = "begin_create" /\ Version(p) = -1 /\ schemaMishaps' = schemaMishaps /\ u = updated[p]
         \/ s = "begin_update" /\ Version(p) # -1 /\ schemaMishaps' = schemaMishaps /\ u = updated[p]
         \/ /\ s = "nothing" /\ Version(p) # -1 /\ schemaMishaps' = schemaMishaps
            /\ u = "returned" /\ DiffsOf[p] = 0
  BY <1>0 DEF Select, SelectFails, Then, Rest, SchemaState, SchemaTypeOK
<1> HIDE DEF t, v, s, u
<1>4. schemaMishaps \subseteq schemaMishaps' /\ (Skipped => Skipped')
  BY <1>1, <1>3 DEF Skipped
<1>5. /\ SchemaState' /\ StepOf(p) /\ diffAt'[p] = diffAt[p]
      /\ transaction'[p] = t /\ doing'[p] = s /\ updated'[p] = u
  <2>1. s \in {"nothing", "begin_create", "begin_update"} /\ u \in {"never", "returned", "threw"}
    BY <1>0, <1>3
  <2>2. Becomes(p, t, v, s, u, diffAt[p])
    BY <1>0, <1>1, <1>2, <1>4, <2>1 DEF Becomes
  <2> QED BY <1>0, <2>2, StateAfter
<1>6. doing[p] = "select" /\ diffAt[p] = 0
      /\ (transaction[p] = "none" \/ "left_open" \in schemaMishaps)
  BY <1>0 DEF Select, SelectFails, Proper, BegunOf, InSchema
<1>7. transaction[p] = "none" =>
        /\ Version(p) # -1 => database.version # -1
        /\ "first_together" \notin schemaMishaps /\ Version(p) = -1 => database.version = -1
  BY <1>0, <1>6 DEF Version, Proper, FirstOf
<1>8. Proper(p)'
  <2>1. BegunOf(p)'
    <3>1. s \in {"begin_create", "begin_update", "nothing"}
      BY <1>3
    <3> QED BY <1>2, <1>4, <1>5, <1>6, <3>1 DEF BegunOf, InSchema
  <2>2. ViewOf(p)'
    BY <1>1, <1>2, <1>3, <1>5, <1>7 DEF ViewOf
  <2>3. FirstOf(p)'
    BY <1>1, <1>2, <1>3, <1>5, <1>7 DEF FirstOf
  <2>4. ReturnedOf(p)'
    <3>1. CASE u = updated[p]
      BY <1>0, <1>1, <1>4, <1>5, <3>1 DEF ReturnedOf, Proper
    <3>2. CASE DiffsOf[p] = 0 /\ Version(p) # -1
      <4>1. transaction[p] = "none" => database.version >= 0
        <5>1. database.version \in Nat \union {-1}
          BY <1>0 DEF Databases
        <5> QED BY <1>7, <3>2, <5>1
      <4> QED BY <1>1, <1>4, <1>6, <3>2, <4>1 DEF ReturnedOf
    <3> QED BY <1>3, <3>1, <3>2
  <2> QED BY <2>1, <2>2, <2>3, <2>4 DEF Proper
<1>9. QuietStepOf(p)
  BY <1>1, <1>2, <1>5, <1>6 DEF QuietStepOf
<1> QED BY <1>5, <1>8, <1>9, QuietKeeps

(* BEGIN, and the first read of update().                                   *)
LEMMA BeginKeeps ==
  ASSUME SchemaInv, NEW p \in Programs, Begin(p) PROVE SchemaInv'
<1> DEFINE s == IF doing[p] = "begin_create" THEN "schema" ELSE "update"
<1>0. /\ SchemaState /\ view[p] \in Databases /\ updated[p] \in {"never", "returned", "threw"}
      /\ diffAt[p] \in 0..DiffsOf[p] /\ Proper(p) /\ transaction[p] = "none"
      /\ doing[p] \in {"begin_create", "begin_update"}
  BY SeenFacts DEF SchemaInv, SchemaState, SchemaTypeOK, Begin
<1>1. Becomes(p, "begun", view[p], s, updated[p], diffAt[p])
  <2>1. /\ view = [view EXCEPT ![p] = view[p]] /\ updated = [updated EXCEPT ![p] = updated[p]]
        /\ diffAt = [diffAt EXCEPT ![p] = diffAt[p]]
    BY <1>0 DEF SchemaState, SchemaTypeOK
  <2>2. /\ transaction' = [transaction EXCEPT ![p] = "begun"] /\ doing' = [doing EXCEPT ![p] = s]
        /\ UNCHANGED <<view, updated, diffAt, database, ifNotExists, schemaMishaps>>
    BY <1>0 DEF Begin, Then, Rest
  <2> QED BY <1>0, <2>1, <2>2 DEF Becomes, InSchema
<1>2. /\ SchemaState' /\ StepOf(p) /\ transaction'[p] = "begun" /\ doing'[p] = s
      /\ updated'[p] = updated[p] /\ diffAt'[p] = diffAt[p]
      /\ UNCHANGED <<database, ifNotExists, schemaMishaps>>
  BY <1>0, <1>1, StateAfter DEF Begin, Rest
<1>3. Proper(p)'
  <2>1. diffAt[p] = 0
    BY <1>0 DEF Proper, BegunOf
  <2>2. BegunOf(p)' /\ ReturnedOf(p)'
    BY <1>0, <1>2, <2>1 DEF BegunOf, ReturnedOf, Proper, InSchema, Skipped
  <2>3. ViewOf(p)' /\ FirstOf(p)'
    BY <1>0, <1>2 DEF ViewOf, FirstOf, Proper
  <2> QED BY <2>2, <2>3 DEF Proper
<1>4. QuietStepOf(p)
  BY <1>0, <1>2 DEF QuietStepOf
<1> QED BY <1>2, <1>3, <1>4, QuietKeeps

(* The version that update() reads is that of its transaction, and the first*)
(* diff to run follows from it (schema_manager.h:53-57).                    *)
LEMMA ReadVersionKeeps ==
  ASSUME SchemaInv, NEW p \in Programs, ReadVersion(p) PROVE SchemaInv'
<1>0. /\ SchemaState /\ updated[p] \in {"never", "returned", "threw"}
      /\ database \in Databases /\ Seen(p) = database /\ transaction[p] = "begun"
      /\ DiffsOf[p] \in Nat /\ Proper(p) /\ doing[p] = "update" /\ database.version # -1
  BY SeenFacts DEF SchemaInv, SchemaState, SchemaTypeOK, ReadVersion, Proper, BegunOf, ViewOf
<1>1. /\ database.version \in Nat /\ From(p) = database.version + 1 /\ From(p) \in 1..DiffsOf[p]
  BY <1>0 DEF From, ReadVersion, Databases
<1>2. Becomes(p, "reading", database, "diff", updated[p], From(p))
  <2>1. updated = [updated EXCEPT ![p] = updated[p]]
    BY <1>0 DEF SchemaState, SchemaTypeOK
  <2>2. /\ transaction' = [transaction EXCEPT ![p] = "reading"] /\ view' = [view EXCEPT ![p] = database]
        /\ doing' = [doing EXCEPT ![p] = "diff"] /\ diffAt' = [diffAt EXCEPT ![p] = From(p)]
        /\ UNCHANGED <<updated, database, ifNotExists, schemaMishaps>>
    BY <1>0 DEF ReadVersion, Then, Reads
  <2>3. From(p) \in 0..DiffsOf[p]
    BY <1>1
  <2> QED BY <1>0, <2>1, <2>2, <2>3 DEF Becomes, InSchema
<1>3. /\ SchemaState' /\ StepOf(p) /\ transaction'[p] = "reading" /\ doing'[p] = "diff"
      /\ view'[p] = database /\ updated'[p] = updated[p] /\ diffAt'[p] = From(p)
      /\ UNCHANGED <<database, ifNotExists, schemaMishaps>>
  BY <1>0, <1>2, StateAfter DEF ReadVersion, Reads
<1>4. Proper(p)'
  <2>1. BegunOf(p)' /\ FirstOf(p)' /\ ReturnedOf(p)'
    BY <1>0, <1>3 DEF BegunOf, FirstOf, ReturnedOf, Proper, InSchema, Skipped
  <2>2. ViewOf(p)'
    BY <1>0, <1>1, <1>3 DEF ViewOf
  <2> QED BY <2>1, <2>2 DEF Proper
<1>5. QuietStepOf(p)
  BY <1>0, <1>3 DEF QuietStepOf
<1> QED BY <1>3, <1>4, <1>5, QuietKeeps

(* A call that ends without having committed.                               *)
LEMMA CallEndKeeps ==
  ASSUME SchemaInv, NEW p \in Programs, NothingToUpdate(p) \/ Fail(p) \/ Reconnect(p)
  PROVE  SchemaInv'
<1> DEFINE t == transaction'[p]
           v == view'[p]
           u == updated'[p]
<1>0. /\ SchemaState /\ updated[p] \in {"never", "returned", "threw"}
      /\ transaction[p] \in {"none", "begun", "reading", "writing"}
      /\ view[p] \in Databases /\ database \in Databases
      /\ DiffsOf[p] \in Nat /\ diffAt[p] \in 0..DiffsOf[p] /\ Proper(p)
  BY SeenFacts DEF SchemaInv, SchemaState, SchemaTypeOK
<1>1. PICK x \in {"none", transaction[p]} : Closed(p, x)
  BY DEF NothingToUpdate, Fail, Reconnect
<1>2. Empty \in Databases
  BY DEF Empty, Databases
<1>3. /\ transaction' = [transaction EXCEPT ![p] = t] /\ t \in {"none", transaction[p]}
      /\ view' = [view EXCEPT ![p] = v] /\ v \in Databases
  BY <1>0, <1>1, <1>2 DEF Closed, SchemaState, SchemaTypeOK
<1>4. /\ doing' = [doing EXCEPT ![p] = "nothing"]
      /\ UNCHANGED <<database, ifNotExists, schemaMishaps>>
      /\ updated' = [updated EXCEPT ![p] = u]
      /\ u \in {"threw", updated[p]} \/ (u = "returned" /\ NothingToUpdate(p))
  BY <1>0 DEF NothingToUpdate, Fail, Reconnect, Then, SchemaState, SchemaTypeOK
<1>5. diffAt' = [diffAt EXCEPT ![p] = 0]
  <2>1. doing[p] = "update" => diffAt[p] = 0
    BY <1>0 DEF Proper, BegunOf
  <2> QED BY <1>0, <2>1 DEF NothingToUpdate, Fail, Reconnect, SchemaState, SchemaTypeOK
<1>6. /\ SchemaState' /\ StepOf(p) /\ doing'[p] = "nothing" /\ diffAt'[p] = 0
  <2>1. Becomes(p, t, v, "nothing", u, 0)
    BY <1>0, <1>3, <1>4, <1>5 DEF Becomes
  <2> HIDE DEF t, v, u
  <2> QED BY <1>0, <2>1, StateAfter
<1>7. Proper(p)'
  <2>1. BegunOf(p)' /\ ViewOf(p)' /\ FirstOf(p)'
    BY <1>6 DEF BegunOf, ViewOf, FirstOf, InSchema
  <2>2. ReturnedOf(p)'
    <3>1. CASE u \in {"threw", updated[p]}
      BY <1>0, <1>4, <3>1 DEF ReturnedOf, Proper, Skipped
    <3>2. CASE NothingToUpdate(p)
      <4>1. transaction[p] = "begun" /\ Seen(p) = database
        BY <1>0, <3>2 DEF NothingToUpdate, Proper, BegunOf, Seen
      <4>2. database.version >= DiffsOf[p]
        BY <1>0, <3>2, <4>1 DEF NothingToUpdate, From, Databases
      <4> QED BY <1>4, <4>2 DEF ReturnedOf
    <3> QED BY <1>4, <3>1, <3>2
  <2> QED BY <2>1, <2>2 DEF Proper
<1>8. QuietStepOf(p)
  BY <1>3, <1>4, <1>6 DEF QuietStepOf
<1> QED BY <1>6, <1>7, <1>8, QuietKeeps

-----------------------------------------------------------------------------
(* Steps that write, into a transaction of one's own.                       *)

(* A step that writes, in a transaction that then is the only one to write: *)
(* what it sees is its own, and the database stays as it is.                *)
LEMMA WriteKeeps ==
  ASSUME SchemaInv, NEW p \in Programs, CanWrite(p), doing[p] # "nothing",
         NEW d, NEW s, NEW n, Becomes(p, "writing", d, s, updated[p], n),
         schemaMishaps' = schemaMishaps, Proper(p)'
  PROVE  SchemaInv'
<1>1. SchemaState /\ OneFirst /\ OneWrites
  BY DEF SchemaInv
<1>2. SchemaState' /\ StepOf(p) /\ database' = database
  BY <1>1, StateAfter DEF Becomes
<1>3. OneFirst'
  <2>1. \A q \in Programs : doing'[q] # "nothing" => doing[q] # "nothing"
    BY <1>2 DEF StepOf
  <2> QED BY <1>1, <1>2, <2>1 DEF OneFirst
<1>4. OneWrites'
  BY <1>2 DEF OneWrites, CanWrite, StepOf
<1> QED BY <1>2, <1>3, <1>4, OthersRely

(* The schema, when there is none: else a program that came first at the    *)
(* same time has made it, or the version could not be read.                 *)
LEMMA RunSchemaKeeps ==
  ASSUME SchemaInv, NEW p \in Programs, RunSchema(p) PROVE SchemaInv'
<1> DEFINE d == Schema(database, DiffsOf[p])
<1>0. /\ SchemaState /\ updated[p] \in {"never", "returned", "threw"}
      /\ database \in Databases /\ Seen(p) = database /\ transaction[p] = "begun"
      /\ DiffsOf[p] \in Nat /\ diffAt[p] = 0 /\ Proper(p) /\ doing[p] = "schema"
      /\ Skipped \/ Agrees(database)
  BY SeenFacts DEF SchemaInv, SchemaState, SchemaTypeOK, RunSchema, Proper, BegunOf
<1>1. d \in Databases
  BY <1>0 DEF Schema, Databases
<1>2. Becomes(p, "writing", d, "set_version", updated[p], 0)
  <2>1. updated = [updated EXCEPT ![p] = updated[p]] /\ diffAt = [diffAt EXCEPT ![p] = 0]
    BY <1>0 DEF SchemaState, SchemaTypeOK
  <2>2. /\ transaction' = [transaction EXCEPT ![p] = "writing"] /\ view' = [view EXCEPT ![p] = d]
        /\ doing' = [doing EXCEPT ![p] = "set_version"]
        /\ UNCHANGED <<updated, diffAt, database, ifNotExists, schemaMishaps>>
    BY <1>0 DEF RunSchema, Then, Writes, Rest
  <2>3. 0 \in 0..DiffsOf[p]
    BY <1>0
  <2> QED BY <1>0, <1>1, <2>1, <2>2, <2>3 DEF Becomes, InSchema
<1>3. /\ SchemaState' /\ transaction'[p] = "writing" /\ doing'[p] = "set_version"
      /\ view'[p] = d /\ updated'[p] = updated[p] /\ diffAt'[p] = 0
      /\ UNCHANGED <<database, ifNotExists, schemaMishaps>>
  BY <1>0, <1>2, StateAfter DEF RunSchema, Writes, Rest
<1>4. d.rows = database.rows /\ d.version = database.version
  BY <1>0 DEF Schema, Databases
<1>5. ~Skipped => database.version = -1 /\ RanUpTo(d, DiffsOf[p])
  <2> SUFFICES ASSUME ~Skipped PROVE database.version = -1 /\ RanUpTo(d, DiffsOf[p])
    OBVIOUS
  <2>1. ~database.tables
    BY <1>0 DEF RunSchema, Skipped, Proper, FirstOf, Agrees
  <2>2. database.version = -1
    BY <1>0, <2>1 DEF Agrees, Databases
  <2>3. RanUpTo(d, DiffsOf[p])
    BY <1>0, <2>1 DEF RanUpTo, Schema, Databases
  <2> QED BY <2>2, <2>3
<1>6. Proper(p)'
  <2>1. BegunOf(p)' /\ FirstOf(p)' /\ ReturnedOf(p)'
    BY <1>0, <1>3 DEF BegunOf, FirstOf, ReturnedOf, Proper, InSchema, Skipped
  <2>2. WrittenOf(p)'
    <3>1. ~Skipped => database.version < DiffsOf[p]
      BY <1>0, <1>5
    <3> HIDE DEF d
    <3> QED BY <1>3, <1>4, <1>5, <3>1 DEF WrittenOf, RanUpTo, AllDiffs, Skipped
  <2>3. ViewOf(p)'
    BY <1>3, <2>2 DEF ViewOf
  <2> QED BY <2>1, <2>3 DEF Proper
<1>7. CanWrite(p)
  BY DEF RunSchema, Writes
<1> QED BY <1>0, <1>2, <1>3, <1>6, <1>7, WriteKeeps

(* The next diff runs on what the ones before it have made.                 *)
LEMMA RunDiffKeeps ==
  ASSUME SchemaInv, NEW p \in Programs, RunDiff(p) PROVE SchemaInv'
<1> DEFINE i == diffAt[p]
           d == [Seen(p) EXCEPT !.ran[i] = IF @ < 2 THEN @ + 1 ELSE @]
           s == IF i < DiffsOf[p] THEN "diff" ELSE "set_version"
           n == IF i < DiffsOf[p] THEN i + 1 ELSE i
<1>0. /\ SchemaState /\ updated[p] \in {"never", "returned", "threw"}
      /\ database \in Databases /\ view[p] \in Databases
      /\ transaction[p] \in {"reading", "writing"} /\ Seen(p) = view[p]
      /\ DiffsOf[p] \in Nat /\ i \in 0..DiffsOf[p] /\ Proper(p) /\ doing[p] = "diff"
      /\ Skipped \/ Agrees(database)
  BY SeenFacts DEF SchemaInv, SchemaState, SchemaTypeOK, RunDiff, Proper, BegunOf
<1>1. /\ view[p].version \in Nat /\ i > view[p].version
      /\ transaction[p] = "reading" => i = view[p].version + 1 /\ view[p] = database
      /\ transaction[p] = "writing" => WrittenOf(p)
  BY <1>0 DEF Proper, ViewOf, Databases, RunDiff, Writes, CanWrite
<1>2. i \in 1..DiffsOf[p] /\ i \in AllDiffs
  BY <1>0, <1>1, DiffsAreNumbers
<1>3. /\ d \in Databases /\ d.rows = view[p].rows /\ d.version = view[p].version
      /\ d.tables = view[p].tables
      /\ d.ran = [view[p].ran EXCEPT ![i] = IF @ < 2 THEN @ + 1 ELSE @]
  BY <1>0, <1>2 DEF Databases
<1>4. /\ s \in {"diff", "set_version"} /\ n \in 0..DiffsOf[p] /\ n # 0
      /\ s = "diff" => n = i + 1
      /\ s = "set_version" => i = DiffsOf[p]
      /\ n > view[p].version
  BY <1>0, <1>1, <1>2
<1>5. Becomes(p, "writing", d, s, updated[p], n)
  <2>1. updated = [updated EXCEPT ![p] = updated[p]] /\ diffAt = [diffAt EXCEPT ![p] = i]
        /\ doing = [doing EXCEPT ![p] = "diff"]
    BY <1>0 DEF SchemaState, SchemaTypeOK
  <2>2. /\ transaction' = [transaction EXCEPT ![p] = "writing"] /\ view' = [view EXCEPT ![p] = d]
        /\ UNCHANGED <<updated, database, ifNotExists, schemaMishaps>>
    BY <1>0 DEF RunDiff, Writes
  <2>3. doing' = [doing EXCEPT ![p] = s] /\ diffAt' = [diffAt EXCEPT ![p] = n]
    BY <2>1 DEF RunDiff, Then
  <2> HIDE DEF d, s, n
  <2> QED BY <1>0, <1>3, <1>4, <2>1, <2>2, <2>3 DEF Becomes, InSchema
<1> HIDE DEF d, s, n
<1>6. /\ transaction'[p] = "writing" /\ doing'[p] = s
      /\ view'[p] = d /\ updated'[p] = updated[p] /\ diffAt'[p] = n
      /\ UNCHANGED <<database, ifNotExists, schemaMishaps>>
  BY <1>0, <1>5, StateAfter DEF RunDiff, Writes
<1>7. /\ view[p].rows = database.rows /\ view[p].version = database.version
      /\ ~Skipped => RanUpTo(view[p], i - 1)
  <2>1. CASE transaction[p] = "writing"
    BY <1>0, <1>1, <2>1 DEF WrittenOf
  <2>2. CASE transaction[p] = "reading"
    <3>1. view[p] = database /\ i - 1 = view[p].version
      BY <1>1, <2>2
    <3>2. ~Skipped => RanUpTo(view[p], i - 1)
      BY <1>0, <1>1, <3>1 DEF Agrees, RanUpTo
    <3> QED BY <3>1, <3>2
  <2> QED BY <1>0, <2>1, <2>2
<1>8. ~Skipped => RanUpTo(d, i)
  <2> SUFFICES ASSUME ~Skipped PROVE RanUpTo(d, i)
    OBVIOUS
  <2>1. d.tables
    BY <1>3, <1>7 DEF RanUpTo
  <2>2. ASSUME NEW j \in AllDiffs PROVE d.ran[j] = IF j <= i THEN 1 ELSE 0
    <3>1. j \in Nat /\ i \in Nat /\ view[p].ran[j] = IF j <= i - 1 THEN 1 ELSE 0
      BY <1>2, <1>7, DiffsAreNumbers DEF RanUpTo
    <3>2. view[p].ran \in [AllDiffs -> Nat]
      BY <1>0 DEF Databases
    <3>3. CASE j = i
      BY <1>2, <1>3, <3>1, <3>2, <3>3
    <3>4. CASE j # i
      <4>1. d.ran[j] = view[p].ran[j]
        BY <1>2, <1>3, <3>2, <3>4
      <4> QED BY <3>1, <3>4, <4>1
    <3> QED BY <3>3, <3>4
  <2> QED BY <2>1, <2>2 DEF RanUpTo
<1>9. Proper(p)'
  <2>1. BegunOf(p)' /\ FirstOf(p)' /\ ReturnedOf(p)'
    BY <1>0, <1>4, <1>6 DEF BegunOf, FirstOf, ReturnedOf, Proper, InSchema, Skipped
  <2>2. WrittenOf(p)'
    <3>1. Skipped' <=> Skipped
      BY <1>6 DEF Skipped
    <3>2. database.version < DiffsOf[p]
      BY <1>0, <1>1, <1>2, <1>7
    <3>3. ~Skipped => RanUpTo(d, IF s = "diff" THEN n - 1 ELSE DiffsOf[p])
      <4>1. i \in Nat
        BY <1>2
      <4> QED BY <1>4, <1>8, <4>1
    <3> QED BY <1>3, <1>4, <1>6, <1>7, <3>1, <3>2, <3>3 DEF WrittenOf, RanUpTo, AllDiffs
  <2>3. ViewOf(p)'
    BY <1>1, <1>3, <1>4, <1>6, <2>2 DEF ViewOf
  <2> QED BY <2>1, <2>3 DEF Proper
<1>10. CanWrite(p)
  BY DEF RunDiff, Writes
<1> QED BY <1>0, <1>5, <1>6, <1>9, <1>10, WriteKeeps

(* The version of the program is written after its diffs, in their          *)
(* transaction (db/sqlite3.h:84-100).                                       *)
LEMMA SetVersionKeeps ==
  ASSUME SchemaInv, NEW p \in Programs, SetVersion(p) PROVE SchemaInv'
<1> DEFINE d == [view[p] EXCEPT !.version = DiffsOf[p]]
<1>0. /\ SchemaState /\ updated[p] \in {"never", "returned", "threw"}
      /\ database \in Databases /\ view[p] \in Databases
      /\ transaction[p] = "writing" /\ Seen(p) = view[p]
      /\ DiffsOf[p] \in Nat /\ diffAt[p] \in 0..DiffsOf[p] /\ Proper(p)
      /\ doing[p] = "set_version"
  BY SeenFacts DEF SchemaInv, SchemaState, SchemaTypeOK, SetVersion, Proper, BegunOf
<1>1. /\ d \in Databases /\ d.rows = view[p].rows /\ d.version = DiffsOf[p]
      /\ d.tables = view[p].tables /\ d.ran = view[p].ran
  BY <1>0 DEF Databases
<1>2. Becomes(p, "writing", d, "commit", updated[p], diffAt[p])
  <2>1. updated = [updated EXCEPT ![p] = updated[p]] /\ diffAt = [diffAt EXCEPT ![p] = diffAt[p]]
    BY <1>0 DEF SchemaState, SchemaTypeOK
  <2>2. /\ transaction' = [transaction EXCEPT ![p] = "writing"] /\ view' = [view EXCEPT ![p] = d]
        /\ doing' = [doing EXCEPT ![p] = "commit"]
        /\ UNCHANGED <<updated, diffAt, database, ifNotExists, schemaMishaps>>
    BY <1>0 DEF SetVersion, Then, Writes, Rest
  <2> HIDE DEF d
  <2> QED BY <1>0, <1>1, <2>1, <2>2 DEF Becomes, InSchema
<1> HIDE DEF d
<1>3. /\ transaction'[p] = "writing" /\ doing'[p] = "commit"
      /\ view'[p] = d /\ updated'[p] = updated[p] /\ diffAt'[p] = diffAt[p]
      /\ UNCHANGED <<database, ifNotExists, schemaMishaps>>
  BY <1>0, <1>2, StateAfter DEF SetVersion, Writes, Rest
<1>4. WrittenOf(p) /\ view[p].rows = 1
  BY <1>0 DEF Proper, ViewOf, SetVersion
<1>5. Proper(p)'
  <2>1. BegunOf(p)' /\ FirstOf(p)' /\ ReturnedOf(p)'
    BY <1>0, <1>3 DEF BegunOf, FirstOf, ReturnedOf, Proper, InSchema, Skipped
  <2>2. WrittenOf(p)'
    BY <1>0, <1>1, <1>3, <1>4 DEF WrittenOf, RanUpTo, AllDiffs, Skipped
  <2>3. ViewOf(p)'
    BY <1>3, <2>2 DEF ViewOf
  <2> QED BY <2>1, <2>3 DEF Proper
<1>6. CanWrite(p)
  BY DEF SetVersion, Writes
<1> QED BY <1>0, <1>2, <1>3, <1>5, <1>6, WriteKeeps

-----------------------------------------------------------------------------
(* Steps that change the database.  What the others rely on is that it goes *)
(* on from what it was, and that the one who changes it was alone to write. *)
LEMMA OthersFollow ==
  ASSUME SchemaInv, NEW p \in Programs, StepOf(p), SchemaState', Proper(p)', OneFirst', OneWrites',
         (Skipped \/ Agrees(database))', Skipped' <=> Skipped,
         CanWrite(p), schemaMishaps' = schemaMishaps,
         database.version # -1 => database'.version # -1,
         ~Skipped => database'.version >= database.version,
         "first_together" \notin schemaMishaps =>
           \/ database'.rows = database.rows /\ doing[p] # "nothing"
           \/ database.version = -1 /\ doing[p] # "nothing"
  PROVE  SchemaInv'
<1> SUFFICES ASSUME NEW q \in Programs, q # p PROVE Proper(q)'
  BY DEF SchemaInv
<1>1. Proper(q) /\ OneFirst /\ database \in Databases /\ DiffsOf[q] \in Nat /\ (database \in Databases)'
  BY SeenFacts DEF SchemaInv, SchemaState
<1>2. /\ transaction'[q] = transaction[q] /\ view'[q] = view[q] /\ doing'[q] = doing[q]
      /\ diffAt'[q] = diffAt[q] /\ updated'[q] = updated[q]
  BY DEF StepOf
<1>3. transaction[q] # "writing"
  BY DEF CanWrite
<1>4. BegunOf(q)' /\ ViewOf(q)'
  BY <1>1, <1>2, <1>3 DEF Proper, BegunOf, ViewOf, InSchema
<1>5. FirstOf(q)'
  <2> SUFFICES ASSUME "first_together" \notin schemaMishaps PROVE FirstOf(q)'
    BY DEF FirstOf
  <2>1. database.version = -1 => doing[q] = "nothing"
    BY <1>1 DEF OneFirst
  <2>2. CASE doing[q] = "nothing"
    BY <1>2, <2>2 DEF FirstOf
  <2>3. CASE database.version # -1
    BY <1>1, <1>2, <2>3 DEF FirstOf, Proper
  <2> QED BY <2>1, <2>2, <2>3
<1>6. ReturnedOf(q)'
  <2>1. database.version \in Int /\ database'.version \in Int
    BY <1>1 DEF Databases
  <2> QED BY <1>1, <1>2, <2>1 DEF ReturnedOf, Proper
<1> QED BY <1>4, <1>5, <1>6 DEF Proper

(* The row of the version.  Without others, it is the first.                *)
LEMMA InsertRowKeeps ==
  ASSUME SchemaInv, NEW p \in Programs, InsertRow(p) PROVE SchemaInv'
<1> DEFINE d == [Seen(p) EXCEPT !.rows = @ + 1]
<1>0. /\ SchemaState /\ OneFirst /\ OneWrites /\ updated[p] \in {"never", "returned", "threw"}
      /\ database \in Databases /\ view[p] \in Databases /\ Seen(p) \in Databases
      /\ transaction[p] \in {"none", "begun", "reading", "writing"}
      /\ transaction[p] = "none" => Seen(p) = database
      /\ DiffsOf[p] \in Nat /\ diffAt[p] \in 0..DiffsOf[p] /\ Proper(p) /\ doing[p] = "insert"
      /\ CanWrite(p)
      /\ Skipped \/ Agrees(database)
  BY SeenFacts DEF SchemaInv, SchemaState, SchemaTypeOK, InsertRow, Writes
<1>1. /\ d \in Databases /\ d.rows = Seen(p).rows + 1 /\ d.version = Seen(p).version
      /\ d.tables = Seen(p).tables /\ d.ran = Seen(p).ran
  BY <1>0 DEF Databases
<1>2. /\ updated = [updated EXCEPT ![p] = updated[p]] /\ diffAt = [diffAt EXCEPT ![p] = diffAt[p]]
      /\ doing' = [doing EXCEPT ![p] = "select"]
      /\ UNCHANGED <<updated, diffAt, ifNotExists, schemaMishaps>>
  BY <1>0 DEF SchemaState, SchemaTypeOK, InsertRow, Then, Rest
<1>3. diffAt[p] = 0 /\ (transaction[p] = "none" \/ "left_open" \in schemaMishaps)
  BY <1>0 DEF Proper, BegunOf, InSchema
<1>4. CASE transaction[p] # "none"
  <2>1. Becomes(p, "writing", d, "select", updated[p], diffAt[p])
    <3>1. /\ transaction' = [transaction EXCEPT ![p] = "writing"] /\ view' = [view EXCEPT ![p] = d]
          /\ database' = database
      BY <1>4 DEF InsertRow, Writes
    <3> HIDE DEF d
    <3> QED BY <1>0, <1>1, <1>2, <3>1 DEF Becomes, InSchema
  <2>2. /\ transaction'[p] = "writing" /\ doing'[p] = "select" /\ updated'[p] = updated[p]
        /\ diffAt'[p] = diffAt[p] /\ UNCHANGED <<database, ifNotExists, schemaMishaps>>
    <3>1. database' = database
      BY <1>4 DEF InsertRow, Writes
    <3> HIDE DEF d
    <3> QED BY <1>0, <1>2, <2>1, <3>1, StateAfter
  <2>3. Proper(p)'
    <3>1. BegunOf(p)' /\ ViewOf(p)' /\ FirstOf(p)'
      BY <1>3, <1>4, <2>2 DEF BegunOf, ViewOf, FirstOf, InSchema
    <3>2. ReturnedOf(p)'
      BY <1>0, <2>2 DEF ReturnedOf, Proper, Skipped
    <3> QED BY <3>1, <3>2 DEF Proper
  <2>4. CanWrite(p) /\ doing[p] # "nothing" /\ schemaMishaps' = schemaMishaps
    BY <1>0, <2>2
  <2> HIDE DEF d
  <2> QED BY <2>1, <2>3, <2>4, WriteKeeps
<1>5. CASE transaction[p] = "none"
  <2>1. database' = d /\ UNCHANGED <<transaction, view>> /\ Seen(p) = database
    BY <1>0, <1>5 DEF InsertRow, Writes
  <2> HIDE DEF d
  <2>2. /\ doing'[p] = "select" /\ \A q \in Programs \ {p} : doing'[q] = doing[q]
    BY <1>0, <1>2 DEF SchemaState, SchemaTypeOK
  <2>3. StepOf(p)
    BY <1>2, <2>1, <2>2 DEF StepOf
  <2>4. Skipped' <=> Skipped
    BY <1>2 DEF Skipped
  <2>5. SchemaState'
    <3>1. SchemaTypeOK'
      BY <1>0, <1>2, <2>1 DEF SchemaState, SchemaTypeOK
    <3>2. database' \in Databases' /\ view' \in [Programs -> Databases'] /\ diffAt' \in [Programs -> Nat]
      BY <1>0, <1>1, <1>2, <2>1 DEF SchemaState, Databases, AllDiffs
    <3>3. database'.rows > 0
      BY <1>0, <1>1, <2>1 DEF Databases
    <3> QED BY <1>0, <1>2, <3>1, <3>2, <3>3 DEF SchemaState
  <2>6. (Skipped \/ Agrees(database))'
    BY <1>0, <1>1, <2>1, <2>4 DEF Agrees, AllDiffs
  <2>7. "first_together" \notin schemaMishaps => database.rows = 0 /\ database.version = -1
    <3>1. "first_together" \notin schemaMishaps => database.rows = 0
      BY <1>0, <1>5 DEF Proper, FirstOf
    <3> QED BY <1>0, <3>1 DEF SchemaState
  <2>8. OneFirst' /\ OneWrites'
    <3>1. \A q \in Programs : doing'[q] # "nothing" => doing[q] # "nothing"
      BY <1>0, <2>2
    <3>2. OneFirst'
      BY <1>0, <1>1, <1>2, <2>1, <2>7, <3>1 DEF OneFirst
    <3> QED BY <1>0, <2>1, <3>2 DEF OneWrites
  <2>9. Proper(p)'
    <3>1. BegunOf(p)' /\ ViewOf(p)'
      BY <1>2, <1>3, <1>5, <2>1, <2>2 DEF BegunOf, ViewOf, InSchema
    <3>2. FirstOf(p)'
      BY <1>1, <1>2, <2>1, <2>2, <2>7 DEF FirstOf
    <3>3. ReturnedOf(p)'
      BY <1>0, <1>1, <1>2, <2>1, <2>4 DEF ReturnedOf, Proper
    <3> QED BY <3>1, <3>2, <3>3 DEF Proper
  <2>10. database'.version = database.version
    BY <1>1, <2>1
  <2>11. /\ database.version # -1 => database'.version # -1
         /\ ~Skipped => database'.version >= database.version
    BY <1>0, <2>10 DEF Databases
  <2>12. /\ CanWrite(p) /\ schemaMishaps' = schemaMishaps
         /\ "first_together" \notin schemaMishaps =>
              \/ database'.rows = database.rows /\ doing[p] # "nothing"
              \/ database.version = -1 /\ doing[p] # "nothing"
    BY <1>0, <1>2, <2>7
  <2> QED BY <2>3, <2>4, <2>5, <2>6, <2>8, <2>9, <2>11, <2>12, OthersFollow
<1> QED BY <1>4, <1>5

(* COMMIT: what p has written is the database of all, newer than before.    *)
LEMMA CommitKeeps ==
  ASSUME SchemaInv, NEW p \in Programs, Commit(p) PROVE SchemaInv'
<1>0. /\ SchemaState /\ OneFirst /\ OneWrites /\ database \in Databases /\ view[p] \in Databases
      /\ DiffsOf[p] \in Nat /\ Proper(p) /\ doing[p] = "commit" /\ transaction[p] = "writing"
  BY SeenFacts DEF SchemaInv, Commit, Proper, BegunOf
<1>1. /\ database' = view[p] /\ database'.rows = database.rows /\ database'.rows > 0
      /\ database'.version = DiffsOf[p]
      /\ ~Skipped => database.version < DiffsOf[p] /\ RanUpTo(view[p], DiffsOf[p])
  BY <1>0 DEF Commit, Proper, ViewOf, WrittenOf
<1>2. /\ transaction' = [transaction EXCEPT ![p] = "none"] /\ view' = [view EXCEPT ![p] = Empty]
      /\ doing' = [doing EXCEPT ![p] = "nothing"] /\ updated' = [updated EXCEPT ![p] = "returned"]
      /\ diffAt' = [diffAt EXCEPT ![p] = 0] /\ UNCHANGED <<ifNotExists, schemaMishaps>>
  BY DEF Commit, Closed, Then
<1>3. /\ transaction'[p] = "none" /\ doing'[p] = "nothing" /\ diffAt'[p] = 0 /\ StepOf(p)
  BY <1>0, <1>2 DEF SchemaState, SchemaTypeOK, StepOf
<1>4. Skipped' <=> Skipped
  BY <1>2 DEF Skipped
<1>5. SchemaState'
  <2>1. SchemaTypeOK'
    <3>1. \A q \in Programs : diffAt'[q] \in 0..DiffsOf[q]
      BY <1>0, <1>3 DEF StepOf, SchemaState, SchemaTypeOK
    <3> QED BY <1>0, <1>2, <3>1 DEF SchemaState, SchemaTypeOK
  <2>2. database' \in Databases' /\ view' \in [Programs -> Databases'] /\ diffAt' \in [Programs -> Nat]
    <3>1. Empty \in Databases /\ Databases' = Databases
      BY DEF Empty, Databases, AllDiffs
    <3> QED BY <1>0, <1>1, <1>2, <3>1 DEF SchemaState
  <2> QED BY <1>0, <1>1, <1>2, <2>1, <2>2 DEF SchemaState
<1>6. OneFirst' /\ OneWrites'
  <2>1. database'.version # -1
    BY <1>0, <1>1
  <2>2. OneFirst'
    BY <1>0, <1>1, <1>2, <2>1 DEF OneFirst
  <2>3. \A q \in Programs : transaction'[q] = "writing" => transaction[q] = "writing"
    BY <1>3 DEF StepOf
  <2> QED BY <1>0, <2>2, <2>3 DEF OneWrites
<1>7. (Skipped \/ Agrees(database))'
  <2>1. DiffsOf[p] # -1
    BY <1>0
  <2> QED BY <1>1, <1>4, <2>1 DEF Agrees, RanUpTo, AllDiffs
<1>8. Proper(p)'
  <2>1. BegunOf(p)' /\ ViewOf(p)' /\ FirstOf(p)'
    BY <1>3 DEF BegunOf, ViewOf, FirstOf, InSchema
  <2>2. ReturnedOf(p)'
    BY <1>0, <1>1 DEF ReturnedOf
  <2> QED BY <2>1, <2>2 DEF Proper
<1>9. CanWrite(p)
  BY <1>0 DEF CanWrite, OneWrites
<1>10. database'.version # -1 /\ (~Skipped => database'.version >= database.version)
  BY <1>0, <1>1 DEF Databases
<1> QED BY <1>0, <1>1, <1>2, <1>3, <1>4, <1>5, <1>6, <1>7, <1>8, <1>9, <1>10, OthersFollow

(* All steps of the programs that share a database keep the invariant.      *)
LEMMA SchemaSteps == SchemaInv /\ [SchemaNext]_schemaVars => SchemaInv'
<1> SUFFICES ASSUME SchemaInv, [SchemaNext]_schemaVars PROVE SchemaInv'
  OBVIOUS
<1>1. CASE UNCHANGED schemaVars
  <2> USE <1>1 DEF schemaVars
  <2>1. SchemaState'
    BY DEF SchemaInv, SchemaState, SchemaTypeOK, Databases, AllDiffs
  <2>2. OneFirst' /\ OneWrites'
    BY DEF SchemaInv, OneFirst, OneWrites
  <2>3. (Skipped \/ Agrees(database))'
    BY DEF SchemaInv, Skipped, Agrees, AllDiffs
  <2>4. ASSUME NEW p \in Programs PROVE Proper(p)'
    <3>1. Proper(p)
      BY DEF SchemaInv
    <3>2. BegunOf(p)' /\ FirstOf(p)' /\ ReturnedOf(p)'
      BY <3>1 DEF Proper, BegunOf, FirstOf, ReturnedOf, Skipped, InSchema
    <3>3. WrittenOf(p) => WrittenOf(p)'
      BY DEF WrittenOf, Skipped, RanUpTo, AllDiffs
    <3>4. ViewOf(p)'
      BY <3>1, <3>3 DEF Proper, ViewOf
    <3> QED BY <3>2, <3>4 DEF Proper
  <2> QED BY <2>1, <2>2, <2>3, <2>4 DEF SchemaInv
<1>2. ASSUME NEW p \in Programs,
             CallSchema(p) \/ Count(p) \/ Select(p) \/ SelectFails(p) \/ Begin(p)
      PROVE  SchemaInv'
  BY <1>2, CallKeeps, CountKeeps, SelectKeeps, BeginKeeps
<1>3. ASSUME NEW p \in Programs,
             ReadVersion(p) \/ NothingToUpdate(p) \/ Fail(p) \/ Reconnect(p)
      PROVE  SchemaInv'
  BY <1>3, ReadVersionKeeps, CallEndKeeps
<1>4. ASSUME NEW p \in Programs,
             InsertRow(p) \/ RunSchema(p) \/ RunDiff(p) \/ SetVersion(p) \/ Commit(p)
      PROVE  SchemaInv'
  BY <1>4, InsertRowKeeps, RunSchemaKeeps, RunDiffKeeps, SetVersionKeeps, CommitKeeps
<1> QED BY <1>1, <1>2, <1>3, <1>4 DEF SchemaNext

(* The invariant says what is checked of a schema.                          *)
LEMMA SchemaMeans == SchemaInv => SchemaTypeOK /\ SchemaMatches /\ CallsUpdate
<1> SUFFICES ASSUME SchemaInv PROVE SchemaTypeOK /\ SchemaMatches /\ CallsUpdate
  OBVIOUS
<1>1. SchemaTypeOK /\ SchemaMatches
  BY DEF SchemaInv, SchemaState, SchemaMatches, Skipped, Agrees
<1>2. database.rows > 1 => "first_together" \in schemaMishaps
  BY DEF SchemaInv, OneFirst, SchemaState, Databases
<1>3. CallsUpdate
  BY <1>2 DEF SchemaInv, Proper, ReturnedOf, CallsUpdate, Skipped
<1> QED BY <1>1, <1>3

-----------------------------------------------------------------------------
(* The content storage.  Every record of the index leads to its content, and*)
(* every content that was kept has a record.                                *)

Doings ==
  [at : {"closed", "idle"}, what : {"nothing"}]
  \union [at : {"absent", "copy", "copying", "filling", "data", "endless"}, what : Contents]
  \union [at : {"index"}, what : Contents, pos : Nat]
OfDirectory == {"absent", "copy", "copying", "filling"}
OfSingleFile == {"data", "index", "endless"}
Copying(u, k) == user[u] = [at |-> "copying", what |-> k]

StorageState ==
  /\ StorageTypeOK
  /\ layout \in {"directory", "single_file"}
  /\ user \in [Users -> Doings]
  /\ position \in [Users -> Nat] /\ seesNone \in [Users -> BOOLEAN]
  /\ data \in Seq(Contents \X {1, 2}) /\ index \in Seq([hash : Contents] \union [pos : Nat])
  /\ \A u \in Users : user[u].at \notin IF layout = "directory" THEN OfSingleFile ELSE OfDirectory
  /\ layout = "directory" => index = <<>>

(* A file that is not whole is being copied, by one program, or was cut off.*)
CopyInv ==
  /\ \A k \in Contents, u, v \in Users : Copying(u, k) /\ Copying(v, k) => u = v
  /\ \A k \in Contents, u \in Users : Copying(u, k) => dirFiles[k] = "part"
  /\ "torn" \notin storageMishaps =>
       \A k \in Contents : dirFiles[k] = "part" => \E u \in Users : Copying(u, k)
  /\ layout = "directory" => \A k \in kept : dirFiles[k] # "none"

(* Records are two words, unless one was cut off; then searches may not end.*)
PairInv ==
  "torn" \notin storageMishaps =>
    /\ Aligned
    /\ \A i \in 1..Len(index) : i % 2 = 1 =>
         index[i] \in [hash : Contents] /\ index[i + 1] \in [pos : Nat]
    /\ \A u \in Users : ~UserAt(u, "endless")

(* A program that has the single file alone knows where its end is, and     *)
(* whether there is an index; what it has written is at the end.            *)
SoleInv ==
  layout = "single_file" /\ storageMishaps = {} =>
    /\ \A u, v \in Users : ~UserAt(u, "closed") /\ ~UserAt(v, "closed") => u = v
    /\ \A u \in Users : ~UserAt(u, "closed") =>
         /\ position[u] = Len(data)
         /\ seesNone[u] <=> index = <<>>
    /\ \A u \in Users : UserAt(u, "index") =>
         /\ user[u].pos + 2 = Len(data)
         /\ SubSeq(data, user[u].pos + 1, user[u].pos + 2) = Halves(user[u].what)

(* Every record leads to its content.                                       *)
RecordsInv ==
  layout = "single_file" /\ storageMishaps = {} =>
    /\ \A k \in Contents : \A i \in Records(k) : LeadsTo(i, k)
    /\ \A k \in kept : Records(k) # {}

StorageInv == StorageState /\ CopyInv /\ PairInv /\ SoleInv /\ RecordsInv

-----------------------------------------------------------------------------
(* What is written of two words or halves: none, one or both.               *)
LEMMA WrittenOfTwo ==
  ASSUME NEW S, NEW s \in Seq(S), Len(s) = 2, NEW w \in Some(s)
  PROVE  /\ w \in Seq(S) /\ Len(w) \in 0..2
         /\ Len(w) = 0 => w = <<>>
         /\ Len(w) = 2 => w = s
<1>1. PICK n \in 0..2 : w = SubSeq(s, 1, n)
  BY DEF Some
<1>2. w \in Seq(S) /\ Len(w) = n /\ \A i \in 1..n : w[i] = s[i]
  BY <1>1
<1>3. Len(w) = 2 => w = s
  BY <1>2, SeqEqual
<1>4. Len(w) = 0 => w = <<>>
  BY <1>2, EmptySeq
<1> QED BY <1>2, <1>3, <1>4

(* What is in a sequence stays where it is when something is appended.      *)
LEMMA Appended ==
  ASSUME NEW S, NEW s \in Seq(S), NEW w \in Seq(S)
  PROVE  /\ s \o w \in Seq(S) /\ Len(s \o w) = Len(s) + Len(w)
         /\ \A i \in 1..Len(s) : (s \o w)[i] = s[i]
         /\ \A i \in 1..Len(w) : (s \o w)[Len(s) + i] = w[i]
OBVIOUS

(* What is appended is at the end, and what was there stays where it was.   *)
LEMMA EndsWith ==
  ASSUME NEW S, NEW s \in Seq(S), NEW w \in Seq(S), Len(w) = 2
  PROVE  SubSeq(s \o w, Len(s) + 1, Len(s) + 2) = w
<1> DEFINE t == s \o w
           r == SubSeq(t, Len(s) + 1, Len(s) + 2)
<1>1. t \in Seq(S) /\ Len(t) = Len(s) + 2 /\ \A i \in 1..2 : t[Len(s) + i] = w[i]
  BY Appended
<1> HIDE DEF t
<1>2. r \in Seq(S) /\ Len(r) = 2 /\ \A i \in 1..2 : r[i] = t[Len(s) + i]
  BY <1>1
<1> HIDE DEF r
<1>3. r = w
  BY <1>1, <1>2, SeqEqual
<1> QED BY <1>3 DEF r, t

(* A part of the data is not changed by appending to them.                  *)
LEMMA StaysInside ==
  ASSUME NEW S, NEW s \in Seq(S), NEW w \in Seq(S), NEW n \in Nat, n + 2 <= Len(s)
  PROVE  SubSeq(s \o w, n + 1, n + 2) = SubSeq(s, n + 1, n + 2)
<1> DEFINE t == s \o w
           r == SubSeq(t, n + 1, n + 2)
           q == SubSeq(s, n + 1, n + 2)
<1>1. t \in Seq(S) /\ Len(t) >= n + 2 /\ \A i \in 1..Len(s) : t[i] = s[i]
  BY Appended
<1> HIDE DEF t
<1>2. r \in Seq(S) /\ Len(r) = 2 /\ \A i \in 1..2 : r[i] = t[n + i]
  BY <1>1
<1>3. q \in Seq(S) /\ Len(q) = 2 /\ \A i \in 1..2 : q[i] = s[n + i]
  OBVIOUS
<1> HIDE DEF r, q
<1>4. \A i \in 1..2 : n + i \in 1..Len(s)
  OBVIOUS
<1>5. \A i \in 1..Len(r) : r[i] = q[i]
  BY <1>1, <1>2, <1>3, <1>4
<1>6. r = q
  BY <1>2, <1>3, <1>5, SeqEqual
<1> QED BY <1>6 DEF r, q, t

(* A whole record more leaves an index of whole records.                    *)
LEMMA Parity ==
  ASSUME NEW n \in Nat, n % 2 = 0
  PROVE  /\ (n + 1) % 2 = 1 /\ (n + 2) % 2 = 0
         /\ \A i \in 1..n : i % 2 = 1 => i + 1 \in 1..n
OBVIOUS

-----------------------------------------------------------------------------
(* The storage is empty and closed.                                         *)
LEMMA StorageStarts == StorageInit => StorageInv
<1> SUFFICES ASSUME StorageInit PROVE StorageInv
  OBVIOUS
<1> USE DEF StorageInit
<1>1. StorageTypeOK
  BY DEF StorageTypeOK, Closed_
<1>2. StorageState
  BY <1>1 DEF StorageState, Doings, Closed_, OfDirectory, OfSingleFile
<1>3. CopyInv
  BY DEF CopyInv, Copying, Closed_
<1>4. PairInv
  BY DEF PairInv, Aligned, UserAt, Closed_
<1>5. SoleInv /\ RecordsInv
  BY DEF SoleInv, RecordsInv, UserAt, Closed_, Records
<1> QED BY <1>2, <1>3, <1>4, <1>5 DEF StorageInv

(* What a program that is in the middle of an add has with it.              *)
LEMMA WhatOf ==
  ASSUME StorageState, NEW u \in Users
  PROVE  /\ user[u].at \in {"absent", "copy", "copying", "filling", "data", "endless", "index"} =>
              user[u].what \in Contents
         /\ user[u].at \in {"absent", "copy", "copying", "filling", "data", "endless"} =>
              user[u] = [at |-> user[u].at, what |-> user[u].what]
         /\ user[u].at = "index" => user[u].pos \in Nat
         /\ user[u].at \in OfDirectory => layout = "directory"
         /\ user[u].at \in OfSingleFile => layout = "single_file"
<1>1. user[u] \in Doings
  BY DEF StorageState
<1>2. /\ user[u].at \in OfDirectory => layout = "directory"
      /\ user[u].at \in OfSingleFile => layout = "single_file"
  BY DEF StorageState, OfDirectory, OfSingleFile
<1> QED BY <1>1, <1>2 DEF Doings

(* A step that leaves the files as they are, and what it may do then: it    *)
(* begins no copy, and is not in the middle of a record.                    *)
QuietUseOf(u) ==
  /\ UNCHANGED <<layout, dirFiles, data, index>>
  /\ storageMishaps \subseteq storageMishaps'
  /\ \A v \in Users \ {u} :
       user'[v] = user[v] /\ position'[v] = position[v] /\ seesNone'[v] = seesNone[v]
  /\ ~UserAt(u, "copying")'
  /\ UserAt(u, "copying") => "torn" \in storageMishaps'
  /\ "torn" \notin storageMishaps' => ~UserAt(u, "endless")'
  /\ layout = "directory" => \A k \in kept' : dirFiles[k] # "none"
  /\ layout = "single_file" /\ storageMishaps' = {} => \A k \in kept' : Records(k) # {}
  /\ layout = "single_file" /\ storageMishaps' = {} /\ ~UserAt(u, "closed")' =>
       /\ ~UserAt(u, "index")' /\ position'[u] = Len(data) /\ (seesNone'[u] <=> index = <<>>)
       /\ \A v \in Users \ {u} : UserAt(v, "closed")

(* A step of one program that changes no file of the storage, and leads to  *)
(* no place in the index or in a copy.                                      *)
LEMMA QuietUseKeeps ==
  ASSUME StorageInv, NEW u \in Users, QuietUseOf(u), StorageState'
  PROVE  StorageInv'
<1> USE DEF QuietUseOf
<1>1. \A v \in Users, k \in Contents : Copying(v, k)' => Copying(v, k)
  BY DEF Copying, UserAt
<1>2. "torn" \notin storageMishaps' => \A v \in Users, k \in Contents : Copying(v, k) => Copying(v, k)'
  BY DEF Copying, UserAt
<1>3. CopyInv'
  BY <1>1, <1>2 DEF StorageInv, CopyInv
<1>4. PairInv'
  BY DEF StorageInv, PairInv, Aligned, UserAt
<1>5. SoleInv'
  <2> SUFFICES ASSUME layout = "single_file", storageMishaps' = {} PROVE SoleInv'
    BY DEF SoleInv
  <2>1. SoleInv /\ storageMishaps = {}
    BY DEF StorageInv
  <2>2. CASE UserAt(u, "closed")'
    BY <2>1, <2>2 DEF SoleInv, UserAt
  <2>3. CASE ~UserAt(u, "closed")'
    BY <2>3 DEF SoleInv, UserAt
  <2> QED BY <2>2, <2>3
<1>6. RecordsInv'
  BY DEF StorageInv, RecordsInv, Records, LeadsTo
<1> QED BY <1>3, <1>4, <1>5, <1>6 DEF StorageInv

(* A program opens the storage, and stands at the end of its files          *)
(* (storage.h:80-107).                                                      *)
LEMMA OpenStorageKeeps ==
  ASSUME StorageInv, NEW u \in Users, OpenStorage(u)
  PROVE  StorageInv'
<1> USE DEF OpenStorage, Files
<1>1. StorageState
  BY DEF StorageInv
<1>2. user'[u] = Idle /\ \A v \in Users \ {u} : user'[v] = user[v]
  BY <1>1 DEF StorageState
<1>3. /\ position'[u] = Len(data) /\ (seesNone'[u] <=> index = <<>>)
      /\ \A v \in Users \ {u} : position'[v] = position[v] /\ seesNone'[v] = seesNone[v]
  BY <1>1 DEF StorageState
<1>4. storageMishaps' = {} => \A v \in Users : UserAt(v, "closed")
  BY DEF Hits, UserAt
<1>5. storageMishaps \subseteq storageMishaps' /\ storageMishaps' \subseteq storageMishaps \union {"shared"}
  BY DEF Hits
<1>6. QuietUseOf(u)
  BY <1>2, <1>3, <1>4, <1>5 DEF QuietUseOf, UserAt, Idle, StorageInv, CopyInv, RecordsInv
<1>7. StorageState'
  <2>1. StorageTypeOK'
    BY <1>1, <1>2, <1>5 DEF StorageState, StorageTypeOK, Idle
  <2>2. user' \in [Users -> Doings] /\ position' \in [Users -> Nat] /\ seesNone' \in [Users -> BOOLEAN]
    BY <1>1 DEF StorageState, Doings, Idle
  <2>3. \A v \in Users : user'[v].at \notin IF layout = "directory" THEN OfSingleFile ELSE OfDirectory
    BY <1>1, <1>2 DEF StorageState, Idle, OfDirectory, OfSingleFile
  <2> QED BY <1>1, <2>1, <2>2, <2>3 DEF StorageState
<1> QED BY <1>6, <1>7, QuietUseKeeps

(* A program ends, or its copy fails: the file or record is cut off where it*)
(* was.                                                                     *)
LEMMA EndStorageKeeps ==
  ASSUME StorageInv, NEW u \in Users, EndStorage(u) \/ FailCopy(u)
  PROVE  StorageInv'
<1> USE DEF EndStorage, FailCopy, Files, Cursors
<1>1. StorageState
  BY DEF StorageInv
<1>2. /\ user'[u] \in {Idle, Closed_} /\ user' = [user EXCEPT ![u] = user'[u]]
      /\ \A v \in Users \ {u} : user'[v] = user[v]
  BY <1>1 DEF StorageState
<1>3. /\ storageMishaps \subseteq storageMishaps' /\ storageMishaps' \subseteq storageMishaps \union {"torn"}
      /\ UserAt(u, "copying") => "torn" \in storageMishaps'
      /\ user'[u] = Idle => "torn" \in storageMishaps'
  BY <1>1 DEF Hits, UserAt, StorageState, Idle, Closed_
<1>4. QuietUseOf(u)
  BY <1>2, <1>3 DEF QuietUseOf, UserAt, Idle, Closed_, StorageInv, CopyInv, RecordsInv
<1>5. StorageState'
  <2>1. StorageTypeOK'
    BY <1>1, <1>2, <1>3 DEF StorageState, StorageTypeOK, Idle, Closed_
  <2>2. /\ user'[u] \in Doings
        /\ user'[u].at \notin IF layout = "directory" THEN OfSingleFile ELSE OfDirectory
    BY <1>2 DEF Doings, Idle, Closed_, OfDirectory, OfSingleFile
  <2>3. user' \in [Users -> Doings]
    BY <1>1, <1>2, <2>2 DEF StorageState
  <2>4. \A v \in Users : user'[v].at \notin IF layout = "directory" THEN OfSingleFile ELSE OfDirectory
    BY <1>1, <1>2, <2>2 DEF StorageState
  <2> QED BY <1>1, <2>1, <2>3, <2>4 DEF StorageState
<1> QED BY <1>4, <1>5, QuietUseKeeps

(* A search that does not end is one over an index that was cut off.        *)
LEMMA AddContentKeeps ==
  ASSUME StorageInv, NEW u \in Users, NEW k \in Contents, AddContent(u, k)
  PROVE  StorageInv'
<1> USE DEF AddContent, Files, Cursors
<1>1. StorageState
  BY DEF StorageInv
<1>2. UserAt(u, "idle") /\ \A v \in Users \ {u} : user'[v] = user[v]
  BY <1>1 DEF StorageState, Returns
<1>3. \/ user'[u] = Idle /\ Contains(u, k) /\ kept' = kept \union {k}
      \/ user'[u] = [at |-> "endless", what |-> k] /\ Endless(u, k) /\ kept' = kept
      \/ user'[u] = [at |-> IF layout = "directory" THEN "absent" ELSE "data", what |-> k] /\ kept' = kept
  BY <1>1 DEF StorageState, Returns
<1>4. "torn" \notin storageMishaps' => ~UserAt(u, "endless")'
  <2>1. Endless(u, k) => "torn" \in storageMishaps
    BY DEF StorageInv, PairInv, Endless
  <2> QED BY <1>3, <2>1 DEF UserAt, Idle
<1>5. /\ layout = "directory" => \A j \in kept' : dirFiles[j] # "none"
      /\ layout = "single_file" /\ storageMishaps' = {} => \A j \in kept' : Records(j) # {}
  BY <1>3 DEF StorageInv, CopyInv, RecordsInv, Contains
<1>6. layout = "single_file" /\ storageMishaps' = {} =>
        /\ position'[u] = Len(data) /\ (seesNone'[u] <=> index = <<>>)
        /\ \A v \in Users \ {u} : UserAt(v, "closed")
  BY <1>2 DEF StorageInv, SoleInv, UserAt
<1>7. ~UserAt(u, "copying") /\ ~UserAt(u, "copying")' /\ ~UserAt(u, "index")'
  BY <1>2, <1>3 DEF UserAt, Idle
<1>8. QuietUseOf(u)
  BY <1>2, <1>4, <1>5, <1>6, <1>7 DEF QuietUseOf
<1>9. StorageState'
  <2>1. /\ user'[u] \in Doings /\ user'[u].at \in {"idle", "absent", "data", "endless"}
        /\ user'[u].at \notin IF layout = "directory" THEN OfSingleFile ELSE OfDirectory
    BY <1>3 DEF Doings, Idle, OfDirectory, OfSingleFile, Endless
  <2>2. StorageTypeOK'
    BY <1>1, <1>2, <1>3, <2>1 DEF StorageState, StorageTypeOK
  <2>3. user' \in [Users -> Doings]
    <3>1. user' = [user EXCEPT ![u] = user'[u]]
      BY <1>1 DEF StorageState, Returns
    <3> QED BY <1>1, <2>1, <3>1 DEF StorageState
  <2>4. \A v \in Users : user'[v].at \notin IF layout = "directory" THEN OfSingleFile ELSE OfDirectory
    BY <1>1, <1>2, <2>1 DEF StorageState
  <2> QED BY <1>1, <2>2, <2>3, <2>4 DEF StorageState
<1> QED BY <1>8, <1>9, QuietUseKeeps

(* A content is copied out of the single file, which reads elsewhere in it  *)
(* (storage.h:155-165).                                                     *)
LEMMA CopyOutKeeps ==
  ASSUME StorageInv, NEW u \in Users, CopyOut(u)
  PROVE  StorageInv'
<1> USE DEF CopyOut, Files
<1>1. StorageState /\ UserAt(u, "idle")
  BY DEF StorageInv
<1>2. position'[u] = Len(data) /\ \A v \in Users \ {u} : position'[v] = position[v]
  BY <1>1 DEF StorageState
<1>3. storageMishaps = {} => (seesNone[u] <=> index = <<>>) /\ \A v \in Users \ {u} : UserAt(v, "closed")
  BY <1>1 DEF StorageInv, SoleInv, UserAt
<1>4. QuietUseOf(u)
  BY <1>1, <1>2, <1>3 DEF QuietUseOf, StorageInv, CopyInv, RecordsInv, UserAt
<1>5. StorageState'
  BY <1>1 DEF StorageState, StorageTypeOK
<1> QED BY <1>4, <1>5, QuietUseKeeps

-----------------------------------------------------------------------------
(* The directory: its steps leave the single file and its index alone.      *)

(* In a directory, a step keeps the invariant when its copies are right.    *)
LEMMA DirectoryStep ==
  ASSUME StorageInv, layout = "directory", StorageState',
         UNCHANGED <<layout, data, index>>, storageMishaps' = storageMishaps, CopyInv'
  PROVE  StorageInv'
<1>1. ("torn" \notin storageMishaps => Aligned)'
  BY DEF StorageInv, PairInv, Aligned
<1>2. \A u \in Users : ~UserAt(u, "endless")'
  BY DEF StorageState, UserAt, OfSingleFile
<1>3. PairInv'
  BY <1>1, <1>2 DEF StorageInv, PairInv
<1> QED BY <1>3 DEF StorageInv, SoleInv, RecordsInv

(* copy_file refuses a file that is there: nobody else is copying it.       *)
LEMMA StartCopyKeeps ==
  ASSUME StorageInv, NEW u \in Users, StartCopy(u) \/ AskAgain(u)
  PROVE  StorageInv'
<1> USE DEF StartCopy, AskAgain, Cursors
<1> DEFINE k == user[u].what
<1>1. StorageState /\ CopyInv
  BY DEF StorageInv
<1>2. k \in Contents /\ layout = "directory" /\ user[u] = [at |-> user[u].at, what |-> k]
      /\ user[u].at \in {"absent", "copy"}
  BY <1>1, WhatOf DEF UserAt, OfDirectory
<1>3. /\ \A v \in Users \ {u} : user'[v] = user[v]
      /\ user'[u] \in {Idle, [at |-> "copy", what |-> k], [at |-> "copying", what |-> k]}
      /\ user' = [user EXCEPT ![u] = user'[u]]
  BY <1>1, <1>2 DEF StorageState, Proceeds, Returns, UserAt
<1> HIDE DEF k
<1>4. \/ kept' = kept
      \/ kept' = kept \union {k} /\ dirFiles[k] # "none" /\ dirFiles' = dirFiles
  BY DEF Returns, k, Files
<1>5. \/ dirFiles' = dirFiles
      \/ dirFiles' = [dirFiles EXCEPT ![k] = "part"] /\ dirFiles[k] = "none"
  BY DEF k, Files
<1>6. StorageState'
  <2>1. /\ user'[u] \in Doings /\ user'[u].at \in {"idle", "copy", "copying"}
        /\ user'[u].at \notin OfSingleFile
    BY <1>2, <1>3 DEF Doings, Idle, OfSingleFile
  <2>2. StorageTypeOK'
    BY <1>1, <1>2, <1>3, <1>4, <1>5, <2>1 DEF StorageState, StorageTypeOK
  <2>3. user' \in [Users -> Doings]
    BY <1>1, <1>3, <2>1 DEF StorageState
  <2>4. \A v \in Users : user'[v].at \notin OfSingleFile
    BY <1>1, <1>2, <1>3, <2>1 DEF StorageState
  <2> QED BY <1>1, <1>2, <2>2, <2>3, <2>4 DEF StorageState, Files
<1>7. \A v \in Users \ {u}, j \in Contents : Copying(v, j)' <=> Copying(v, j)
  BY <1>3 DEF Copying
<1>8. \A j \in Contents : ~Copying(u, j)
  BY <1>2 DEF Copying
<1>9. CopyInv'
  <2>1. CASE user'[u] = [at |-> "copying", what |-> k]
    <3>1. dirFiles' = [dirFiles EXCEPT ![k] = "part"] /\ dirFiles[k] = "none" /\ kept' = kept
      BY <1>1, <1>2, <2>1 DEF StorageState, Proceeds, Returns, UserAt, Idle, k
    <3>2. \A j \in Contents : Copying(u, j)' <=> j = k
      BY <2>1 DEF Copying
    <3>3. dirFiles'[k] = "part" /\ \A j \in Contents \ {k} : dirFiles'[j] = dirFiles[j]
      BY <1>1, <1>2, <3>1 DEF StorageState, StorageTypeOK
    <3>4. \A v \in Users \ {u} : ~Copying(v, k)
      BY <1>1, <1>2, <3>1 DEF CopyInv
    <3>5. /\ \A j \in Contents, v, w \in Users : Copying(v, j)' /\ Copying(w, j)' => v = w
          /\ \A j \in Contents, v \in Users : Copying(v, j)' => dirFiles'[j] = "part"
      BY <1>1, <1>2, <1>7, <1>8, <3>1, <3>2, <3>3, <3>4 DEF CopyInv
    <3>6. "torn" \notin storageMishaps' =>
            \A j \in Contents : dirFiles'[j] = "part" => \E v \in Users : Copying(v, j)'
      BY <1>1, <1>2, <1>7, <1>8, <3>1, <3>2, <3>3, <3>4 DEF CopyInv
    <3>7. \A j \in kept' : dirFiles'[j] # "none"
      BY <1>1, <1>2, <1>7, <1>8, <3>1, <3>2, <3>3, <3>4 DEF CopyInv, StorageState, StorageTypeOK
    <3> QED BY <3>5, <3>6, <3>7 DEF CopyInv
  <2>2. CASE user'[u] # [at |-> "copying", what |-> k]
    <3>1. dirFiles' = dirFiles
      BY <2>2, <1>1, <1>2 DEF StorageState, Proceeds, UserAt, k, Files
    <3>2. \A j \in Contents : ~Copying(u, j)'
      BY <1>3, <2>2 DEF Copying, Idle
    <3> QED BY <1>1, <1>2, <1>4, <1>7, <1>8, <3>1, <3>2 DEF CopyInv
  <2> QED BY <2>1, <2>2
<1> QED BY <1>2, <1>6, <1>9, DirectoryStep DEF Files

(* A copy that has come to its end is a whole file that is kept             *)
(* (storage.h:30-33).                                                       *)
LEMMA FinishCopyKeeps ==
  ASSUME StorageInv, NEW u \in Users, FinishCopy(u)
  PROVE  StorageInv'
<1> USE DEF FinishCopy, Cursors
<1> DEFINE k == user[u].what
<1>1. StorageState /\ CopyInv
  BY DEF StorageInv
<1>2. k \in Contents /\ layout = "directory" /\ user[u] = [at |-> user[u].at, what |-> k]
      /\ user[u].at \in {"copying", "filling"}
  BY <1>1, WhatOf DEF UserAt, OfDirectory
<1>3. /\ user'[u] = Idle /\ \A v \in Users \ {u} : user'[v] = user[v]
      /\ user' = [user EXCEPT ![u] = Idle]
  BY <1>1 DEF StorageState, Returns
<1> HIDE DEF k
<1>4. \/ /\ Copying(u, k) /\ dirFiles' = [dirFiles EXCEPT ![k] = "whole"] /\ kept' = kept \union {k}
      \/ user[u].at = "filling" /\ dirFiles' = dirFiles /\ kept' = kept
  BY <1>2 DEF Returns, k, UserAt, Copying
<1>5. StorageState'
  <2>1. user'[u] \in Doings /\ user'[u].at \notin OfSingleFile /\ user'[u].at = "idle"
    BY <1>3 DEF Doings, Idle, OfSingleFile
  <2>2. StorageTypeOK'
    BY <1>1, <1>2, <1>3, <1>4, <2>1 DEF StorageState, StorageTypeOK
  <2>3. user' \in [Users -> Doings]
    BY <1>1, <1>3, <2>1 DEF StorageState
  <2>4. \A v \in Users : user'[v].at \notin OfSingleFile
    BY <1>1, <1>2, <1>3, <2>1 DEF StorageState
  <2> QED BY <1>1, <1>2, <2>2, <2>3, <2>4 DEF StorageState
<1>6. \A v \in Users \ {u}, j \in Contents : Copying(v, j)' <=> Copying(v, j)
  BY <1>3 DEF Copying
<1>7. \A j \in Contents : ~Copying(u, j)' /\ (Copying(u, j) => j = k)
  BY <1>2, <1>3 DEF Copying, Idle
<1>8. CopyInv'
  <2>1. CASE Copying(u, k) /\ dirFiles' = [dirFiles EXCEPT ![k] = "whole"] /\ kept' = kept \union {k}
    <3>1. dirFiles'[k] = "whole" /\ \A j \in Contents \ {k} : dirFiles'[j] = dirFiles[j]
      BY <1>1, <1>2, <2>1 DEF StorageState, StorageTypeOK
    <3>2. \A v \in Users \ {u} : ~Copying(v, k)
      BY <1>1, <1>2, <2>1 DEF CopyInv
    <3>3. /\ \A j \in Contents, v, w \in Users : Copying(v, j)' /\ Copying(w, j)' => v = w
          /\ \A j \in Contents, v \in Users : Copying(v, j)' => dirFiles'[j] = "part"
      BY <1>1, <1>2, <1>6, <1>7, <2>1, <3>1, <3>2 DEF CopyInv
    <3>4. "torn" \notin storageMishaps' =>
            \A j \in Contents : dirFiles'[j] = "part" => \E v \in Users : Copying(v, j)'
      BY <1>1, <1>2, <1>6, <1>7, <2>1, <3>1, <3>2 DEF CopyInv
    <3>5. \A j \in kept' : dirFiles'[j] # "none"
      BY <1>1, <1>2, <1>6, <1>7, <2>1, <3>1, <3>2 DEF CopyInv, StorageState, StorageTypeOK
    <3> QED BY <3>3, <3>4, <3>5 DEF CopyInv
  <2>2. CASE user[u].at = "filling" /\ dirFiles' = dirFiles /\ kept' = kept
    <3>1. \A j \in Contents : ~Copying(u, j)
      BY <2>2 DEF Copying
    <3> QED BY <1>1, <1>6, <1>7, <2>2, <3>1 DEF CopyInv
  <2> QED BY <1>4, <2>1, <2>2
<1> QED BY <1>2, <1>5, <1>8, DirectoryStep

(* A file that is removed is no longer that of its hash: who copies it now  *)
(* fills a file without a name.                                             *)
LEMMA RemoveContentKeeps ==
  ASSUME StorageInv, NEW u \in Users, NEW k \in Contents, RemoveContent(u, k)
  PROVE  StorageInv'
<1> USE DEF RemoveContent, Cursors
<1>1. StorageState /\ CopyInv
  BY DEF StorageInv
<1>2. CASE layout = "single_file"
  <2>1. UserAt(u, "idle") /\ UNCHANGED <<layout, dirFiles, data, index, user, position, seesNone, kept,
                                        storageMishaps>>
    BY <1>2
  <2>2. QuietUseOf(u)
    BY <2>1 DEF QuietUseOf, StorageInv, CopyInv, RecordsInv, SoleInv, UserAt
  <2>3. StorageState'
    BY <1>1, <2>1 DEF StorageState, StorageTypeOK
  <2> QED BY <2>2, <2>3, QuietUseKeeps
<1>3. CASE layout = "directory"
  <2>1. /\ dirFiles' = [dirFiles EXCEPT ![k] = "none"] /\ kept' = kept \ {k}
        /\ user' = [v \in Users |-> IF user[v] = [at |-> "copying", what |-> k]
                                    THEN [at |-> "filling", what |-> k] ELSE user[v]]
    BY <1>3
  <2>2. dirFiles'[k] = "none" /\ \A j \in Contents \ {k} : dirFiles'[j] = dirFiles[j]
    BY <1>1, <2>1 DEF StorageState, StorageTypeOK
  <2>3. \A v \in Users, j \in Contents : Copying(v, j)' <=> Copying(v, j) /\ j # k
    BY <2>1 DEF Copying
  <2>4. CopyInv'
    BY <1>1, <2>1, <2>2, <2>3 DEF CopyInv, StorageState, StorageTypeOK
  <2>5. StorageState'
    <3>1. \A v \in Users : user'[v] = user[v] \/ user'[v] = [at |-> "filling", what |-> k]
      BY <2>1
    <3>2. [at |-> "filling", what |-> k] \in Doings
      BY DEF Doings
    <3>3. user' \in [Users -> Doings]
      BY <1>1, <2>1, <3>1, <3>2 DEF StorageState
    <3>4. \A v \in Users : user'[v].at \notin OfSingleFile
      BY <1>1, <1>3, <3>1 DEF StorageState, OfSingleFile
    <3>5. StorageTypeOK'
      BY <1>1, <2>1, <3>1 DEF StorageState, StorageTypeOK
    <3> QED BY <1>1, <1>3, <3>3, <3>4, <3>5 DEF StorageState
  <2> QED BY <1>3, <2>4, <2>5, DirectoryStep
<1> QED BY <1>2, <1>3

-----------------------------------------------------------------------------
(* The single file: nobody copies, and the directory stays.                 *)
LEMMA NobodyCopies ==
  ASSUME StorageInv, layout = "single_file", StorageState', UNCHANGED <<layout, dirFiles>>,
         storageMishaps \subseteq storageMishaps'
  PROVE  CopyInv'
<1>1. \A v \in Users, k \in Contents : ~Copying(v, k) /\ ~Copying(v, k)'
  BY DEF StorageInv, StorageState, Copying, OfDirectory
<1> QED BY <1>1 DEF StorageInv, CopyInv

(* A write of data puts both halves at the end, after what all the records  *)
(* lead to, unless it ends the program or is cut short.                     *)
LEMMA WriteDataKeeps ==
  ASSUME StorageInv, NEW u \in Users, WriteData(u)
  PROVE  StorageInv'
<1> DEFINE S == Contents \X {1, 2}
           k == user[u].what
<1>1. StorageState
  BY DEF StorageInv
<1>2. k \in Contents /\ layout = "single_file" /\ user[u] = [at |-> "data", what |-> k]
  BY <1>1, WhatOf DEF WriteData, UserAt, OfSingleFile
<1>3. PICK w \in Some(Halves(k)), ends \in BOOLEAN :
        /\ data' = data \o w
        /\ \/ ends /\ user' = [user EXCEPT ![u] = Closed_]
           \/ ~ends /\ user' = [user EXCEPT ![u] = [at |-> "index", what |-> @.what, pos |-> position[u]]]
        /\ Hits(IF ends \/ Len(w) = 2 THEN {} ELSE {"full"})
        /\ \E p \in {position[u] + Len(w), Len(data')} : position' = [position EXCEPT ![u] = p]
  BY DEF WriteData
<1>4. UNCHANGED <<layout, dirFiles, index, seesNone, kept, storageLeft>>
  BY DEF WriteData
<1>5. Halves(k) \in Seq(S) /\ Len(Halves(k)) = 2
  BY <1>2 DEF Halves
<1> HIDE DEF S, k
<1>6. w \in Seq(S) /\ Len(w) \in 0..2 /\ (Len(w) = 2 => w = Halves(k))
  BY <1>5, WrittenOfTwo
<1>7. data \in Seq(S) /\ position \in [Users -> Nat]
  BY <1>1 DEF StorageState, S
<1>8. data' \in Seq(S) /\ Len(data') = Len(data) + Len(w)
  BY <1>3, <1>6, <1>7, Appended
<1>9. /\ \A v \in Users \ {u} : user'[v] = user[v] /\ position'[v] = position[v]
      /\ user'[u] \in {Closed_, [at |-> "index", what |-> k, pos |-> position[u]]}
      /\ user' = [user EXCEPT ![u] = user'[u]]
      /\ position'[u] \in {position[u] + Len(w), Len(data')}
      /\ position' = [position EXCEPT ![u] = position'[u]]
  BY <1>1, <1>2, <1>3, <1>7 DEF StorageState
<1>10. /\ storageMishaps \subseteq storageMishaps' /\ storageMishaps' \subseteq storageMishaps \union {"full"}
       /\ storageMishaps' = {} /\ user'[u] # Closed_ => Len(w) = 2
  <2>1. ~ends => user'[u] = [at |-> "index", what |-> k, pos |-> position[u]]
    BY <1>1, <1>2, <1>3 DEF StorageState
  <2>2. ends => user'[u] = Closed_
    BY <1>1, <1>3 DEF StorageState
  <2> QED BY <1>3, <2>2 DEF Hits
<1>11. StorageState'
  <2>1. /\ user'[u] \in Doings /\ user'[u].at \in {"closed", "index"} /\ user'[u].at \notin OfDirectory
    BY <1>2, <1>7, <1>9 DEF Doings, Closed_, OfDirectory
  <2>2. StorageTypeOK'
    BY <1>1, <1>4, <1>9, <1>10, <2>1 DEF StorageState, StorageTypeOK
  <2>3. user' \in [Users -> Doings] /\ position' \in [Users -> Nat]
    <3>1. position'[u] \in Nat
      BY <1>6, <1>7, <1>8, <1>9
    <3> QED BY <1>1, <1>9, <2>1, <3>1 DEF StorageState
  <2>4. \A v \in Users : user'[v].at \notin OfDirectory
    BY <1>1, <1>2, <1>9, <2>1 DEF StorageState
  <2> QED BY <1>1, <1>2, <1>4, <1>8, <2>2, <2>3, <2>4 DEF StorageState, S
<1>12. CopyInv'
  BY <1>2, <1>4, <1>10, <1>11, NobodyCopies
<1>13. PairInv'
  <2>1. \A v \in Users : UserAt(v, "endless")' => UserAt(v, "endless")
    BY <1>9 DEF UserAt, Closed_
  <2> QED BY <1>4, <1>10, <2>1 DEF StorageInv, PairInv, Aligned
<1>14. ASSUME storageMishaps' = {}
       PROVE  /\ storageMishaps = {} /\ position[u] = Len(data) /\ (seesNone[u] <=> index = <<>>)
              /\ \A v \in Users \ {u} : UserAt(v, "closed")
  BY <1>2, <1>10, <1>14 DEF StorageInv, SoleInv, UserAt
<1>15. SoleInv'
  <2> SUFFICES ASSUME storageMishaps' = {} PROVE SoleInv'
    BY DEF SoleInv
  <2>1. \A v \in Users \ {u} : UserAt(v, "closed")'
    BY <1>9, <1>14 DEF UserAt
  <2>2. CASE user'[u] = Closed_
    BY <2>1, <2>2 DEF SoleInv, UserAt, Closed_
  <2>3. CASE user'[u] # Closed_
    <3>1. user'[u] = [at |-> "index", what |-> k, pos |-> Len(data)] /\ w = Halves(k) /\ Len(w) = 2
      BY <1>6, <1>9, <1>10, <1>14, <2>3
    <3>2. position'[u] = Len(data') /\ Len(data) + 2 = Len(data')
      BY <1>8, <1>9, <1>14, <3>1
    <3>3. SubSeq(data', Len(data) + 1, Len(data) + 2) = Halves(k)
      BY <1>3, <1>6, <1>7, <3>1, EndsWith
    <3>4. user'[u].at = "index" /\ user'[u].what = k /\ user'[u].pos = Len(data)
      BY <3>1
    <3>5. seesNone'[u] <=> index' = <<>>
      BY <1>4, <1>14
    <3> QED BY <2>1, <3>2, <3>3, <3>4, <3>5 DEF SoleInv, UserAt
  <2> QED BY <2>2, <2>3
<1>16. RecordsInv'
  <2> SUFFICES ASSUME storageMishaps' = {} PROVE RecordsInv'
    BY DEF RecordsInv
  <2>1. \A j \in Contents : Records(j)' = Records(j)
    BY <1>4 DEF Records
  <2>2. ASSUME NEW j \in Contents, NEW i \in Records(j) PROVE LeadsTo(i, j)'
    <3> DEFINE m == index[i + 1].pos
    <3>1. LeadsTo(i, j) /\ m \in Nat
      BY <1>2, <1>14, <2>2 DEF StorageInv, RecordsInv, PairInv, Records
    <3>2. m + 2 <= Len(data) /\ SubSeq(data, m + 1, m + 2) = Halves(j)
      BY <3>1 DEF LeadsTo
    <3> HIDE DEF m
    <3>3. m + 2 <= Len(data')
      BY <1>6, <1>7, <1>8, <3>1, <3>2
    <3>4. SubSeq(data', m + 1, m + 2) = SubSeq(data, m + 1, m + 2)
      <4>1. data' = data \o w /\ w \in Seq(S)
        BY <1>3, <1>6
      <4> QED BY <1>7, <3>1, <3>2, <4>1, StaysInside
    <3>5. index'[i + 1].pos = m
      BY <1>4 DEF m
    <3> QED BY <3>2, <3>3, <3>4, <3>5 DEF LeadsTo
  <2>3. \A j \in kept' : Records(j)' # {}
    BY <1>1, <1>2, <1>4, <1>14, <2>1 DEF StorageInv, RecordsInv, StorageState, StorageTypeOK
  <2> QED BY <2>1, <2>2, <2>3 DEF RecordsInv
<1> QED BY <1>11, <1>12, <1>13, <1>15, <1>16 DEF StorageInv

(* A record is written whole, and leads to what was written before it.      *)
LEMMA WriteIndexKeeps ==
  ASSUME StorageInv, NEW u \in Users, WriteIndex(u)
  PROVE  StorageInv'
<1> DEFINE W == [hash : Contents] \union [pos : Nat]
           k == user[u].what
           n == user[u].pos
<1>1. StorageState
  BY DEF StorageInv
<1>2. k \in Contents /\ n \in Nat /\ layout = "single_file" /\ UserAt(u, "index")
  BY <1>1, WhatOf DEF WriteIndex, UserAt, OfSingleFile
<1>3. PICK w \in Some(Words(k, n)), ends \in BOOLEAN :
        /\ index' = index \o w
        /\ \/ ends /\ user' = [user EXCEPT ![u] = Closed_] /\ kept' = kept
           \/ ~ends /\ user' = [user EXCEPT ![u] = Idle] /\ kept' = kept \union {k}
        /\ storageMishaps' = storageMishaps \union
             (CASE Len(w) = 1 -> {"torn"}
                [] Len(w) = 0 /\ ~ends -> {"full"}
                [] OTHER -> {})
  BY DEF WriteIndex, Returns, Hits
<1>4. /\ UNCHANGED <<layout, dirFiles, data, position, storageLeft>>
      /\ seesNone' = [seesNone EXCEPT ![u] = FALSE]
  BY DEF WriteIndex
<1>5. Words(k, n) \in Seq(W) /\ Len(Words(k, n)) = 2
      /\ Words(k, n)[1] = [hash |-> k] /\ Words(k, n)[2] = [pos |-> n]
  BY <1>2 DEF Words
<1> HIDE DEF W, k, n
<1>6. w \in Seq(W) /\ Len(w) \in 0..2 /\ (Len(w) = 2 => w = Words(k, n)) /\ (Len(w) = 0 => w = <<>>)
  BY <1>5, WrittenOfTwo
<1>7. index \in Seq(W)
  BY <1>1 DEF StorageState, W
<1>8. /\ index' \in Seq(W) /\ Len(index') = Len(index) + Len(w)
      /\ \A i \in 1..Len(index) : index'[i] = index[i]
      /\ \A i \in 1..Len(w) : index'[Len(index) + i] = w[i]
  BY <1>3, <1>6, <1>7, Appended
<1>9. /\ \A v \in Users \ {u} : user'[v] = user[v] /\ seesNone'[v] = seesNone[v]
      /\ \/ ends /\ user'[u] = Closed_
         \/ ~ends /\ user'[u] = Idle
      /\ \/ kept' = kept
         \/ user'[u] = Idle /\ kept' = kept \union {k}
      /\ user' = [user EXCEPT ![u] = user'[u]] /\ seesNone'[u] = FALSE
  BY <1>1, <1>3, <1>4 DEF StorageState
<1>10. /\ storageMishaps \subseteq storageMishaps' /\ storageMishaps' \subseteq storageMishaps \union {"torn", "full"}
       /\ Len(w) = 1 => "torn" \in storageMishaps'
       /\ Len(w) = 0 /\ user'[u] = Idle => storageMishaps' # {}
  <2>1. user'[u] = Idle => ~ends
    BY <1>9 DEF Idle, Closed_
  <2>2. CASE Len(w) = 1
    BY <1>3, <2>2
  <2>3. CASE Len(w) = 0 /\ ~ends
    BY <1>3, <2>3
  <2>4. CASE Len(w) # 1 /\ ~(Len(w) = 0 /\ ~ends)
    BY <1>3, <2>1, <2>4
  <2> QED BY <2>2, <2>3, <2>4
<1>11. StorageState'
  <2>1. /\ user'[u] \in Doings /\ user'[u].at \in {"closed", "idle"} /\ user'[u].at \notin OfDirectory
    BY <1>9 DEF Doings, Closed_, Idle, OfDirectory
  <2>2. StorageTypeOK'
    BY <1>1, <1>2, <1>3, <1>4, <1>9, <1>10, <2>1 DEF StorageState, StorageTypeOK
  <2>3. user' \in [Users -> Doings] /\ seesNone' \in [Users -> BOOLEAN]
    BY <1>1, <1>4, <1>9, <2>1 DEF StorageState
  <2>4. \A v \in Users : user'[v].at \notin OfDirectory
    BY <1>1, <1>2, <1>9, <2>1 DEF StorageState
  <2> QED BY <1>1, <1>2, <1>4, <1>8, <2>2, <2>3, <2>4 DEF StorageState, W
<1>12. CopyInv'
  BY <1>2, <1>4, <1>10, <1>11, NobodyCopies
<1>13. ASSUME "torn" \notin storageMishaps'
       PROVE  /\ Len(index) \in Nat /\ Len(index) % 2 = 0
              /\ \/ index' = index /\ Len(w) = 0
                 \/ /\ Len(w) = 2 /\ Len(index') = Len(index) + 2
                    /\ index'[Len(index) + 1] = [hash |-> k] /\ index'[Len(index) + 2] = [pos |-> n]
  <2>1. Len(index) \in Nat /\ Len(index) % 2 = 0
    BY <1>7, <1>10, <1>13 DEF StorageInv, PairInv, Aligned
  <2>2. Len(w) \in {0, 2}
    BY <1>6, <1>10, <1>13
  <2>3. Len(w) = 0 => index' = index
    BY <1>3, <1>6, <1>7, ConcatEmptySeq
  <2>4. Len(w) = 2 => index'[Len(index) + 1] = [hash |-> k] /\ index'[Len(index) + 2] = [pos |-> n]
    BY <1>5, <1>6, <1>8
  <2> QED BY <1>8, <2>1, <2>2, <2>3, <2>4
<1>14. PairInv'
  <2> SUFFICES ASSUME "torn" \notin storageMishaps' PROVE PairInv'
    BY DEF PairInv
  <2>1. PairInv /\ "torn" \notin storageMishaps
    BY <1>10 DEF StorageInv
  <2>2. \A v \in Users : ~UserAt(v, "endless")'
    BY <1>9, <2>1 DEF PairInv, UserAt, Closed_, Idle
  <2>3. Aligned'
    BY <1>13, Parity DEF Aligned
  <2>4. ASSUME NEW i \in 1..Len(index'), i % 2 = 1
        PROVE  index'[i] \in [hash : Contents] /\ index'[i + 1] \in [pos : Nat]
    <3>1. CASE i \in 1..Len(index)
      <4>1. i + 1 \in 1..Len(index)
        BY <1>13, <2>4, <3>1, Parity
      <4> QED BY <1>8, <2>1, <2>4, <3>1, <4>1 DEF PairInv
    <3>2. CASE i \notin 1..Len(index)
      <4>1. i = Len(index) + 1 /\ Len(w) = 2
        BY <1>13, <2>4, <3>2, Parity
      <4> QED BY <1>2, <1>13, <4>1
    <3> QED BY <3>1, <3>2
  <2> QED BY <2>2, <2>3, <2>4 DEF PairInv
<1>15. ASSUME storageMishaps' = {}
       PROVE  /\ storageMishaps = {} /\ position[u] = Len(data)
              /\ n + 2 = Len(data) /\ SubSeq(data, n + 1, n + 2) = Halves(k)
              /\ \A v \in Users \ {u} : UserAt(v, "closed")
              /\ user'[u] = Idle => Len(w) = 2
  <2>1. storageMishaps = {} /\ (user'[u] = Idle => Len(w) = 2)
    BY <1>6, <1>10, <1>15
  <2> QED BY <1>2, <2>1 DEF StorageInv, SoleInv, UserAt, k, n
<1>16. SoleInv'
  <2> SUFFICES ASSUME storageMishaps' = {} PROVE SoleInv'
    BY DEF SoleInv
  <2>1. \A v \in Users \ {u} : UserAt(v, "closed")'
    BY <1>9, <1>15 DEF UserAt
  <2>2. ~UserAt(u, "closed")' => index' # <<>>
    <3>1. Len(index) \in Nat
      BY <1>7
    <3>2. Len(w) = 2 => index' # <<>>
      BY <1>8, <3>1
    <3> QED BY <1>9, <1>15, <3>2 DEF UserAt, Closed_
  <2>3. ~UserAt(u, "index")'
    BY <1>9 DEF UserAt, Closed_, Idle
  <2> QED BY <1>4, <1>9, <1>15, <2>1, <2>2, <2>3 DEF SoleInv, UserAt
<1>17. RecordsInv'
  <2> SUFFICES ASSUME storageMishaps' = {} PROVE RecordsInv'
    BY DEF RecordsInv
  <2>1. RecordsInv /\ storageMishaps = {} /\ PairInv
    BY <1>15 DEF StorageInv
  <2>2. ASSUME NEW j \in Contents, NEW i \in Records(j)' PROVE LeadsTo(i, j)'
    <3>1. i \in 1..Len(index') /\ i % 2 = 1 /\ index'[i] = [hash |-> j]
      BY <2>2 DEF Records
    <3>2. CASE i \in 1..Len(index)
      <4>1. i + 1 \in 1..Len(index)
        BY <1>13, <3>1, <3>2, Parity
      <4>2. i \in Records(j) /\ index'[i + 1] = index[i + 1]
        BY <1>8, <3>1, <3>2, <4>1 DEF Records
      <4>3. LeadsTo(i, j)
        BY <1>2, <2>1, <4>2 DEF RecordsInv
      <4> QED BY <1>4, <4>2, <4>3 DEF LeadsTo
    <3>3. CASE i \notin 1..Len(index)
      <4>1. i = Len(index) + 1 /\ Len(w) = 2 /\ i + 1 = Len(index) + 2
        BY <1>13, <3>1, <3>3, Parity
      <4>2. index'[i + 1] = [pos |-> n] /\ [hash |-> k] = [hash |-> j]
        BY <1>13, <3>1, <4>1
      <4>3. k = j
        BY <4>2
      <4>4. index'[i + 1].pos = n
        BY <4>2
      <4> QED BY <1>2, <1>4, <1>15, <4>3, <4>4 DEF LeadsTo
    <3> QED BY <3>2, <3>3
  <2>3. \A j \in Contents : Records(j) \subseteq Records(j)'
    BY <1>6, <1>7, <1>8 DEF Records
  <2>4. ASSUME NEW j \in Contents, j = k, user'[u] = Idle PROVE Records(j)' # {}
    <3>1. "torn" \notin storageMishaps'
      OBVIOUS
    <3>2. Len(index) \in Nat /\ (Len(index) + 1) % 2 = 1
      BY <1>13, <3>1, Parity
    <3>3. Len(index') = Len(index) + 2 /\ index'[Len(index) + 1] = [hash |-> j]
      <4>1. Len(w) = 2
        BY <1>15, <2>4
      <4>2. \/ Len(w) = 0
            \/ Len(index') = Len(index) + 2 /\ index'[Len(index) + 1] = [hash |-> k]
        BY <1>13, <3>1
      <4> QED BY <2>4, <4>1, <4>2
    <3>4. Len(index) + 1 \in 1..Len(index')
      BY <3>2, <3>3
    <3> QED BY <3>2, <3>3, <3>4 DEF Records
  <2>5. ASSUME NEW j \in kept' PROVE Records(j)' # {}
    <3>1. CASE j \in kept
      BY <1>1, <1>2, <2>1, <2>3, <3>1 DEF RecordsInv, StorageState, StorageTypeOK
    <3>2. CASE j \notin kept
      <4>1. user'[u] = Idle /\ j = k
        BY <1>9, <2>5, <3>2
      <4> QED BY <1>2, <2>4, <4>1
    <3> QED BY <3>1, <3>2
  <2> QED BY <2>2, <2>5 DEF RecordsInv
<1> QED BY <1>11, <1>12, <1>14, <1>16, <1>17 DEF StorageInv

(* All steps of the programs that use a storage keep the invariant.         *)
LEMMA StorageSteps == StorageInv /\ [StorageNext]_storageVars => StorageInv'
<1> SUFFICES ASSUME StorageInv, [StorageNext]_storageVars PROVE StorageInv'
  OBVIOUS
<1>1. ASSUME NEW u \in Users,
             \/ OpenStorage(u) \/ EndStorage(u)
             \/ \E k \in Contents : AddContent(u, k) \/ RemoveContent(u, k)
             \/ AskAgain(u) \/ StartCopy(u) \/ FinishCopy(u) \/ FailCopy(u)
             \/ WriteData(u) \/ WriteIndex(u) \/ CopyOut(u)
      PROVE  StorageInv'
  BY <1>1, OpenStorageKeeps, EndStorageKeeps, AddContentKeeps, RemoveContentKeeps, StartCopyKeeps,
     FinishCopyKeeps, WriteDataKeeps, WriteIndexKeeps, CopyOutKeeps
<1>2. CASE UNCHANGED storageVars
  <2>1. StorageState'
    BY <1>2 DEF storageVars, StorageInv, StorageState, StorageTypeOK
  <2>2. CopyInv' /\ PairInv'
    BY <1>2 DEF storageVars, StorageInv, CopyInv, PairInv, Copying, Aligned, UserAt
  <2>3. SoleInv' /\ RecordsInv'
    BY <1>2 DEF storageVars, StorageInv, SoleInv, RecordsInv, UserAt, Records, LeadsTo
  <2> QED BY <2>1, <2>2, <2>3 DEF StorageInv
<1> QED BY <1>1, <1>2 DEF StorageNext

(* The invariant says what is checked of a storage: what was added is there.*)
LEMMA StorageMeans == StorageInv => StorageTypeOK /\ KeptIsThere
<1> SUFFICES ASSUME StorageInv PROVE StorageTypeOK /\ KeptIsThere
  OBVIOUS
<1>1. StorageTypeOK
  BY DEF StorageInv, StorageState
<1>2. layout = "directory" /\ "torn" \notin storageMishaps =>
        \A k \in kept : dirFiles[k] = "whole" \/ \E u \in Users : user[u] = [at |-> "copying", what |-> k]
  BY <1>1 DEF StorageInv, CopyInv, Copying, StorageTypeOK
<1>3. layout = "single_file" /\ storageMishaps = {} =>
        \A k \in kept : Aligned /\ Records(k) # {} /\ \A i \in Records(k) : LeadsTo(i, k)
  BY <1>1 DEF StorageInv, RecordsInv, PairInv, StorageTypeOK
<1>4. "torn" \notin storageMishaps => Aligned /\ \A u \in Users : ~UserAt(u, "endless")
  BY DEF StorageInv, PairInv
<1> QED BY <1>1, <1>2, <1>3, <1>4 DEF KeptIsThere

-----------------------------------------------------------------------------
(* The fetching of sources.  What a directory holds when a step comes is    *)
(* what the steps before it have left there.                                *)

(* The steps of each kind of source.                                        *)
StepsOf(k) ==
  CASE k = "git" -> {"archive", "unpack", "init", "remote", "fetch", "reset"}
    [] k = "svn" -> {"checkout"}
    [] k = "fossil" -> {"clone", "open", "update"}
    [] k \in {"hg", "bzr", "cvs"} -> {"clone", "update"}
    [] k = "remote" -> {"archive", "unpack"}
    [] k = "files" -> {"files"}

SourceDirs ==
  [files : {"none", "some", "default", "plain", "v"}, archive : BOOLEAN, remote : BOOLEAN,
   fetched : {"none", "plain", "v"}, clone : BOOLEAN, got : Nat]

SourceState ==
  /\ SourceTypeOK
  /\ source.kind \in Systems \union {"git", "remote", "files"}
  /\ source.url \in BOOLEAN /\ source.named \in BOOLEAN /\ source.tags \subseteq {"plain", "v"}
  /\ source.github \in BOOLEAN /\ source.tryV \in BOOLEAN
  /\ source.kind # "git" => ~source.github /\ ~source.tryV
  /\ source.kind \in {"remote", "files"} => source.named
  /\ tag \in {"plain", "v"} /\ failedAfter \in BOOLEAN
  /\ sourceDir \in SourceDirs
  /\ getting \in StepsOf(source.kind) \union {"check", "refused", "done", "failed"}
  /\ getting \notin {"done", "failed"} => triesLeft > 0
  /\ getting \in {"archive", "unpack"} /\ source.kind = "git" => source.github
  /\ getting \in {"check", "refused"} => sourceDir = EmptyDir /\ ~failedAfter /\ tag = "plain"
  /\ tag = "v" => source.tryV /\ source.kind = "git" /\ source.named
  /\ ~source.url => getting \in {"check", "refused"}

(* What is in the directory when a step comes.                              *)
DirectoryInv ==
  /\ sourceDir.archive => getting = "unpack"
  /\ getting \in {"unpack", "fetch", "reset", "update"} => source.named
  /\ getting \in {"unpack", "reset"} => tag \in source.tags
  /\ getting \in {"fetch", "reset"} => sourceDir.remote
  /\ getting = "reset" => sourceDir.fetched = tag
  /\ getting = "open" => sourceDir.clone
  /\ getting = "update" /\ source.kind \in OneClone => sourceDir.clone
  /\ source.kind # "git" => ~sourceDir.remote
  /\ source.kind = "git" /\ ~source.named => sourceDir.files = "none"

(* A try that failed when it had begun something leaves it there.           *)
BegunInv ==
  /\ failedAfter => Begun /\ getting \notin {"fetch", "reset", "open", "update"}
  /\ failedAfter /\ getting \in {"archive", "unpack", "done"} =>
       source.github /\ source.tryV /\ tag = "v"
  /\ source.kind \in {"remote", "files"} => ~failedAfter
  /\ getting = "failed" /\ source.kind \notin {"remote", "files"} => error # "none"

DoneInv ==
  getting = "done" =>
    /\ source.kind = "files" => sourceDir.got = source.urls
    /\ source.kind # "files" /\ source.named =>
         sourceDir.files = tag /\ tag \in source.tags /\ source.kind \notin {"hg", "bzr"}
    /\ ~source.named => sourceDir.files = IF source.kind = "git" THEN "none" ELSE "default"

SourceInv == SourceState /\ DirectoryInv /\ BegunInv /\ DoneInv

-----------------------------------------------------------------------------
(* Which sources take which steps.                                          *)
LEMMA StepFacts ==
  ASSUME SourceState
  PROVE  /\ getting = "archive" \/ getting = "unpack" =>
              source.kind \in {"remote", "git"} /\ (source.kind = "git" => source.github)
         /\ getting \in {"init", "remote", "fetch", "reset"} => source.kind = "git"
         /\ getting = "clone" => source.kind \in {"fossil", "hg", "bzr", "cvs"}
         /\ getting = "open" => source.kind = "fossil"
         /\ getting = "update" => source.kind \in {"fossil", "hg", "bzr", "cvs"}
         /\ getting = "checkout" => source.kind = "svn"
         /\ getting = "files" => source.kind = "files"
BY DEF SourceState, StepsOf, Systems, OneClone

(* The first step of a download, or of a try, is one of its kind of source. *)
LEMMA FirstFacts ==
  ASSUME SourceState
  PROVE  /\ FirstStep \in StepsOf(source.kind) /\ FirstStep \in {"archive", "init", "checkout", "clone", "files"}
         /\ FirstStep = "archive" /\ source.kind = "git" => source.github
         /\ source.kind \notin {"remote", "files"} =>
              /\ FirstTry \in StepsOf(source.kind) /\ FirstTry \in {"init", "checkout", "clone"}
BY DEF SourceState, StepsOf, Systems, OneClone, FirstStep, FirstTry

(* Nothing has been fetched at first.                                       *)
LEMMA SourceStarts == SourceInit => SourceInv
<1> SUFFICES ASSUME SourceInit PROVE SourceInv
  OBVIOUS
<1>1. /\ source.kind \in Systems \union {"git", "remote", "files"}
      /\ source.url \in BOOLEAN /\ source.named \in BOOLEAN /\ source.tags \subseteq {"plain", "v"}
      /\ source.github \in BOOLEAN /\ source.tryV \in BOOLEAN
      /\ source.kind # "git" => ~source.github /\ ~source.tryV
      /\ source.kind \in {"remote", "files"} => source.named
  BY DEF SourceInit
<1>2. /\ getting = "check" /\ tag = "plain" /\ triesLeft = Tries /\ sourceDir = EmptyDir
      /\ error = "none" /\ failedAfter = FALSE
  BY DEF SourceInit
<1>3. Tries \in Nat \ {0}
  BY SourceDownloadAssumption
<1>4. SourceState
  <2>1. SourceTypeOK /\ sourceDir \in SourceDirs
    BY <1>2, <1>3 DEF SourceTypeOK, EmptyDir, SourceDirs
  <2>2. /\ getting \in StepsOf(source.kind) \union {"check", "refused", "done", "failed"}
        /\ getting \notin {"done", "failed"} => triesLeft > 0
        /\ getting \notin {"archive", "unpack"} /\ tag # "v"
    BY <1>2, <1>3
  <2>3. ~failedAfter /\ failedAfter \in BOOLEAN
    BY <1>2
  <2> QED BY <1>1, <1>2, <2>1, <2>2, <2>3 DEF SourceState
<1>5. DirectoryInv /\ BegunInv /\ DoneInv
  BY <1>1, <1>2 DEF DirectoryInv, BegunInv, DoneInv, EmptyDir
<1> QED BY <1>4, <1>5 DEF SourceInv

-----------------------------------------------------------------------------
(* The url is checked before anything is put in the directory               *)
(* (source.cpp:202-212).                                                    *)
LEMMA CheckUrlKeeps ==
  ASSUME SourceInv, CheckUrl PROVE SourceInv'
<1> USE DEF CheckUrl, Stays
<1>1. SourceState /\ sourceDir = EmptyDir /\ ~failedAfter /\ tag = "plain" /\ getting = "check"
  BY DEF SourceInv, SourceState
<1>2. /\ getting' \in StepsOf(source.kind) \union {"refused"}
      /\ getting' \in {"refused", "archive", "init", "checkout", "clone", "files"}
      /\ getting' = "archive" /\ source.kind = "git" => source.github
      /\ ~source.url => getting' = "refused"
  BY <1>1, FirstFacts
<1>3. SourceState'
  BY <1>1, <1>2 DEF SourceState, SourceTypeOK, Steps
<1>4. DirectoryInv'
  BY <1>1, <1>2 DEF DirectoryInv, EmptyDir
<1>5. BegunInv' /\ DoneInv'
  BY <1>1, <1>2 DEF BegunInv, DoneInv
<1> QED BY <1>3, <1>4, <1>5 DEF SourceInv

(* The archive of a tag is downloaded and unpacked, or is not there         *)
(* (source.cpp:79-95, 430-443).                                             *)
LEMMA ArchiveKeeps ==
  ASSUME SourceInv, GetArchive \/ Unpack \/ NoArchive PROVE SourceInv'
<1> USE DEF GetArchive, Unpack, NoArchive, Stays, WithoutArchive
<1>1. SourceState /\ DirectoryInv /\ BegunInv
  BY DEF SourceInv
<1>2. /\ source.kind \in {"git", "remote"}
      /\ source.kind = "git" => source.github
  BY <1>1, StepFacts
<1>3. /\ sourceDir' \in SourceDirs
      /\ sourceDir'.remote = sourceDir.remote /\ sourceDir'.clone = sourceDir.clone
      /\ sourceDir'.fetched = sourceDir.fetched
      /\ sourceDir'.archive => getting' = "unpack"
  <2>1. sourceDir \in SourceDirs /\ tag \in {"plain", "v"}
    BY <1>1 DEF SourceState
  <2>2. CASE GetArchive
    BY <2>1, <2>2 DEF SourceDirs
  <2>3. CASE Unpack
    BY <2>1, <2>3 DEF SourceDirs
  <2>4. CASE NoArchive
    BY <1>1, <2>1, <2>4 DEF DirectoryInv
  <2> QED BY <2>2, <2>3, <2>4
<1>4. /\ getting' \in {"unpack", "init", "failed", "done"}
      /\ getting' = "unpack" => getting = "archive" /\ TagExists
      /\ getting' = "init" => source.kind = "git"
      /\ getting' = "failed" => source.kind = "remote"
      /\ getting' = "done" => getting = "unpack" /\ sourceDir'.files = tag
  BY <1>1, <1>2, <1>3 DEF SourceState, SourceDirs
<1>5. SourceState'
  <2>1. getting' \in StepsOf(source.kind) \union {"failed", "done"}
    BY <1>2, <1>4 DEF StepsOf
  <2>2. SourceTypeOK'
    BY <1>1, <1>3, <1>4 DEF SourceState, SourceTypeOK, SourceDirs, Steps
  <2> QED BY <1>1, <1>2, <1>3, <1>4, <2>1, <2>2 DEF SourceState
<1>7. DirectoryInv'
  BY <1>1, <1>2, <1>3, <1>4 DEF DirectoryInv, TagExists
<1>8. BegunInv'
  BY <1>1, <1>2, <1>3, <1>4 DEF BegunInv, Begun
<1>9. DoneInv'
  BY <1>1, <1>2, <1>4 DEF DoneInv, DirectoryInv
<1> QED BY <1>5, <1>7, <1>8, <1>9 DEF SourceInv

(* One more of the files has been downloaded (source.cpp:878-882).          *)
LEMMA GetFileKeeps ==
  ASSUME SourceInv, GetFile PROVE SourceInv'
<1> USE DEF GetFile, Stays
<1>1. SourceState /\ DirectoryInv /\ BegunInv /\ getting = "files" /\ source.kind = "files"
  BY StepFacts DEF SourceInv
<1>2. /\ sourceDir' \in SourceDirs
      /\ UNCHANGED <<sourceDir.files, sourceDir.remote, sourceDir.clone, sourceDir.fetched, sourceDir.archive>>
      /\ getting' \in {"files", "failed", "done"} /\ (getting' = "done" => sourceDir'.got = source.urls)
  BY <1>1 DEF SourceState, SourceDirs
<1>3. SourceState'
  BY <1>1, <1>2 DEF SourceState, SourceTypeOK, SourceDirs, StepsOf
<1>4. DirectoryInv'
  BY <1>1, <1>2 DEF DirectoryInv
<1>5. ~failedAfter' /\ source'.kind = "files" /\ source'.named
  BY <1>1 DEF BegunInv, SourceState
<1>6. BegunInv'
  BY <1>5 DEF BegunInv
<1>7. getting' = "done" => sourceDir'.got = source'.urls
  BY <1>2
<1>8. DoneInv'
  BY <1>5, <1>7 DEF DoneInv
<1> QED BY <1>3, <1>4, <1>6, <1>8 DEF SourceInv

(* A try that failed once a remote was added does not come to fetch.        *)
LEMMA GitKeeps ==
  ASSUME SourceInv, GitInit \/ GitRemote \/ GitFetch \/ GitReset PROVE SourceInv'
<1> USE DEF GitInit, GitRemote, GitFetch, GitReset, Stays
<1>1. SourceState /\ DirectoryInv /\ BegunInv /\ source.kind = "git"
  BY StepFacts DEF SourceInv
<1>2. /\ sourceDir' \in SourceDirs /\ sourceDir'.archive = sourceDir.archive
      /\ sourceDir'.clone = sourceDir.clone
      /\ sourceDir.remote => sourceDir'.remote
      /\ getting' \in {"remote", "fetch", "reset", "done"}
      /\ getting' = "remote" => getting = "init" /\ sourceDir' = sourceDir
  <2>1. sourceDir \in SourceDirs /\ tag \in {"plain", "v"}
    BY <1>1 DEF SourceState
  <2>2. CASE GitInit
    BY <2>1, <2>2
  <2>3. CASE GitRemote
    BY <2>1, <2>3 DEF SourceDirs
  <2>4. CASE GitFetch
    BY <2>1, <2>4 DEF SourceDirs
  <2>5. CASE GitReset
    BY <2>1, <2>5 DEF SourceDirs
  <2> QED BY <2>2, <2>3, <2>4, <2>5
<1>3. /\ getting' = "fetch" => /\ getting = "remote" /\ source.named /\ sourceDir'.remote /\ ~sourceDir.remote
                              /\ sourceDir'.files = sourceDir.files
      /\ getting' = "reset" => /\ getting = "fetch" /\ source.named /\ tag \in source.tags
                              /\ sourceDir'.remote = sourceDir.remote /\ sourceDir'.fetched = tag
                              /\ sourceDir'.files = sourceDir.files
      /\ getting' = "done" =>
           \/ getting = "remote" /\ ~source.named /\ ~sourceDir.remote /\ sourceDir'.files = sourceDir.files
           \/ getting = "reset" /\ sourceDir'.files = tag /\ source.named /\ tag \in source.tags
  BY <1>1 DEF SourceState, SourceDirs, DirectoryInv, TagExists
<1>4. ~failedAfter \/ getting' = "remote"
  BY <1>1, <1>2, <1>3 DEF BegunInv, Begun, OneClone
<1>5. SourceState'
  <2>1. getting' \in StepsOf(source.kind) \union {"done"}
    BY <1>1, <1>2 DEF StepsOf
  <2>2. SourceTypeOK' /\ triesLeft > 0 /\ getting \notin {"check", "refused"}
    BY <1>1, <1>2 DEF SourceState, SourceTypeOK, SourceDirs, Steps
  <2> QED BY <1>1, <1>2, <2>1, <2>2 DEF SourceState
<1>6. DirectoryInv'
  BY <1>1, <1>2, <1>3 DEF DirectoryInv
<1>7. BegunInv'
  BY <1>1, <1>2, <1>4 DEF BegunInv, Begun
<1>8. DoneInv'
  BY <1>1, <1>2, <1>3 DEF DoneInv, DirectoryInv
<1> QED BY <1>5, <1>6, <1>7, <1>8 DEF SourceInv

(* Nor does one that failed once there was a clone come to update it, but   *)
(* for cvs, which clones again.                                             *)
LEMMA OtherSystemsKeep ==
  ASSUME SourceInv, Clone \/ OpenFossil \/ UpdateClone \/ SvnCheckout PROVE SourceInv'
<1> USE DEF Clone, OpenFossil, UpdateClone, SvnCheckout, Stays, AfterClone
<1>1. SourceState /\ DirectoryInv /\ BegunInv /\ source.kind \in {"hg", "bzr", "fossil", "cvs", "svn"}
  BY StepFacts DEF SourceInv
<1>2. /\ sourceDir' \in SourceDirs /\ sourceDir'.archive = sourceDir.archive
      /\ sourceDir'.remote = sourceDir.remote
      /\ sourceDir.clone => sourceDir'.clone
      /\ getting' \in {"open", "update", "done"}
      /\ getting' = "open" => getting = "clone" /\ source.kind = "fossil" /\ sourceDir'.clone
      /\ getting' = "update" => /\ getting \in {"clone", "open"} /\ source.named /\ source.kind # "svn"
                               /\ sourceDir'.clone
  <2>1. sourceDir \in SourceDirs /\ tag \in {"plain", "v"}
    BY <1>1 DEF SourceState
  <2>2. CASE Clone
    <3>1. getting = "clone" /\ source.kind # "svn"
      BY <1>1, <2>2, StepFacts
    <3>2. CASE source.kind = "fossil"
      BY <2>1, <2>2, <3>1, <3>2 DEF SourceDirs
    <3>3. CASE source.kind # "fossil"
      BY <2>1, <2>2, <3>1, <3>3 DEF SourceDirs
    <3> QED BY <3>2, <3>3
  <2>3. CASE OpenFossil
    BY <1>1, <2>1, <2>3, StepFacts DEF SourceDirs, DirectoryInv
  <2>4. CASE UpdateClone
    BY <2>1, <2>4 DEF SourceDirs
  <2>5. CASE SvnCheckout
    BY <2>1, <2>5 DEF SourceDirs
  <2> QED BY <2>2, <2>3, <2>4, <2>5
<1>3. getting' = "done" =>
        IF source.named THEN /\ sourceDir'.files = tag /\ tag \in source.tags
                             /\ source.kind \notin {"hg", "bzr"}
        ELSE sourceDir'.files = "default"
  <2>1. sourceDir \in SourceDirs /\ (getting = "update" => source.named)
    BY <1>1 DEF SourceState, DirectoryInv
  <2>2. CASE Clone \/ OpenFossil
    BY <2>1, <2>2 DEF SourceDirs
  <2>3. CASE UpdateClone
    BY <2>1, <2>3 DEF SourceDirs, TagExists
  <2>4. CASE SvnCheckout
    BY <1>1, <2>1, <2>4, StepFacts DEF SourceDirs, TagExists
  <2> QED BY <2>2, <2>3, <2>4
<1>4. ~failedAfter
  <2>1. ~sourceDir.remote
    BY <1>1 DEF DirectoryInv
  <2>2. CASE getting = "clone"
    <3>1. source.kind \in OneClone => ~sourceDir.clone
      BY <2>2
    <3> QED BY <1>1, <2>1, <3>1 DEF BegunInv, Begun
  <2>3. CASE getting \in {"open", "update"}
    BY <1>1, <2>3 DEF BegunInv
  <2>4. CASE source.kind = "svn"
    BY <1>1, <2>1, <2>4 DEF BegunInv, Begun, OneClone
  <2> QED BY <1>1, <2>2, <2>3, <2>4, StepFacts
<1>5. SourceState'
  <2>1. getting' \in StepsOf(source.kind) \union {"done"}
    BY <1>1, <1>2 DEF StepsOf
  <2>2. SourceTypeOK' /\ triesLeft > 0 /\ getting \notin {"check", "refused"}
    BY <1>1, <1>2 DEF SourceState, SourceTypeOK, SourceDirs, Steps
  <2> QED BY <1>1, <1>2, <2>1, <2>2 DEF SourceState
<1>6. DirectoryInv'
  BY <1>1, <1>2 DEF DirectoryInv, OneClone
<1>7. BegunInv'
  BY <1>1, <1>2, <1>4 DEF BegunInv
<1>8. DoneInv'
  BY <1>1, <1>3 DEF DoneInv
<1> QED BY <1>5, <1>6, <1>7, <1>8 DEF SourceInv

(* A try fails, and another one follows if one is left (source.cpp:97-117). *)
LEMMA TryFailsKeeps ==
  ASSUME SourceInv, TryFails PROVE SourceInv'
<1> USE DEF TryFails, FirstError
<1>0. Tries \in Nat \ {0}
  BY SourceDownloadAssumption
<1>1. SourceState /\ DirectoryInv /\ BegunInv /\ source.kind \notin {"remote", "files"}
      /\ triesLeft \in 1..Tries
  BY <1>0, StepFacts DEF SourceInv, Steps, SourceState, SourceTypeOK
<1>2. /\ getting' \in {"failed", "init", "checkout", "clone"} /\ triesLeft' = triesLeft - 1
      /\ getting' # "failed" => getting' = FirstTry /\ FirstTry \in StepsOf(source.kind) /\ triesLeft # 1
      /\ error' # "none"
  BY <1>1, FirstFacts DEF Steps
<1>3. /\ sourceDir' \in SourceDirs /\ sourceDir'.archive = sourceDir.archive
      /\ sourceDir'.remote = sourceDir.remote /\ sourceDir'.files = sourceDir.files
      /\ sourceDir.clone => sourceDir'.clone
  <2>1. sourceDir \in SourceDirs
    BY <1>1 DEF SourceState
  <2>2. PICK r \in BOOLEAN : sourceDir' = [sourceDir EXCEPT !.clone = @ \/ r]
    OBVIOUS
  <2> QED BY <2>1, <2>2 DEF SourceDirs
<1>4. failedAfter' \in BOOLEAN /\ (failedAfter' => Begun')
  BY <1>1, <1>3 DEF Begun, BegunInv, SourceState
<1>5. ~sourceDir.archive
  BY <1>1 DEF DirectoryInv, Steps
<1>6. SourceState'
  <2>1. SourceTypeOK' /\ (getting' \notin {"done", "failed"} => triesLeft' > 0)
    BY <1>0, <1>1, <1>2, <1>3 DEF SourceState, SourceTypeOK, SourceDirs, Steps
  <2> QED BY <1>1, <1>2, <1>3, <1>4, <2>1 DEF SourceState, Steps
<1>7. DirectoryInv'
  BY <1>1, <1>2, <1>3, <1>5 DEF DirectoryInv
<1>8. BegunInv' /\ DoneInv'
  BY <1>1, <1>2, <1>4 DEF BegunInv, DoneInv
<1> QED BY <1>6, <1>7, <1>8 DEF SourceInv

(* The tag with a v is tried when the plain one has failed                  *)
(* (source.cpp:384-399).                                                    *)
LEMMA TryVKeeps ==
  ASSUME SourceInv, TryV PROVE SourceInv'
<1> USE DEF TryV
<1>0. Tries \in Nat \ {0}
  BY SourceDownloadAssumption
<1>1. SourceState /\ DirectoryInv /\ BegunInv /\ source.kind = "git" /\ source.tryV
  BY DEF SourceInv, SourceState
<1>2. /\ getting' \in {"archive", "init"} /\ getting' \in StepsOf(source.kind)
      /\ getting' = "archive" => source.github
  BY <1>1 DEF FirstStep, StepsOf
<1>3. SourceState'
  <2>1. SourceTypeOK' /\ triesLeft' > 0
    BY <1>0, <1>1, <1>2 DEF SourceState, SourceTypeOK, Steps
  <2>2. /\ getting' \notin {"check", "refused", "done", "failed"} /\ tag' = "v"
        /\ source.named /\ source.url /\ UNCHANGED <<source, sourceDir, failedAfter>>
    BY <1>1, <1>2 DEF SourceState
  <2> QED BY <1>1, <1>2, <2>1, <2>2 DEF SourceState
<1>4. DirectoryInv'
  BY <1>1, <1>2 DEF DirectoryInv
<1>5. BegunInv' /\ DoneInv'
  BY <1>1, <1>2 DEF BegunInv, DoneInv, Begun
<1> QED BY <1>3, <1>4, <1>5 DEF SourceInv

(* All steps of fetching a source keep the invariant.                       *)
LEMMA SourceSteps == SourceInv /\ [SourceNext]_sourceVars => SourceInv'
<1> SUFFICES ASSUME SourceInv, [SourceNext]_sourceVars PROVE SourceInv'
  OBVIOUS
<1>1. CASE UNCHANGED sourceVars
  <2>1. SourceState' /\ DirectoryInv'
    BY <1>1 DEF sourceVars, SourceInv, SourceState, SourceTypeOK, DirectoryInv
  <2>2. BegunInv' /\ DoneInv'
    BY <1>1 DEF sourceVars, SourceInv, BegunInv, DoneInv, Begun
  <2> QED BY <2>1, <2>2 DEF SourceInv
<1> QED BY <1>1, CheckUrlKeeps, ArchiveKeeps, GetFileKeeps, GitKeeps, OtherSystemsKeep, TryFailsKeeps,
           TryVKeeps DEF SourceNext

(* The invariant says what is checked of a source: a directory is one       *)
(* version, whole.                                                          *)
LEMMA SourceMeans == SourceInv => SourceTypeOK /\ SourceRight
<1> SUFFICES ASSUME SourceInv PROVE SourceTypeOK /\ SourceRight
  OBVIOUS
<1>1. SourceTypeOK
  BY DEF SourceInv, SourceState
<1>2. /\ getting \in {"done", "failed"} => ~sourceDir.archive
      /\ failedAfter => getting \notin {"fetch", "reset", "open", "update"}
      /\ getting = "done" /\ failedAfter => source.github /\ source.tryV /\ tag = "v"
  BY DEF SourceInv, DirectoryInv, BegunInv
<1>3. getting = "failed" /\ failedAfter /\ tag = "v" => error # "none"
  BY DEF SourceInv, SourceState, BegunInv
<1>4. ~source.url => getting \in {"check", "refused"} /\ sourceDir = EmptyDir
  BY DEF SourceInv, SourceState
<1> QED BY <1>1, <1>2, <1>3, <1>4 DEF SourceInv, DoneInv, SourceRight

-----------------------------------------------------------------------------
(* Chains of commands.  A handle is open, active or closed by what has      *)
(* become of its command, and what was written is in a pipe or captured.    *)

(* The handles of a command, and those of all.                              *)
Process(x) == handle[<<"process", x>>]
OutOf(x) == handle[<<"out", x>>]
Input == handle[<<"in", 1>>]
AllIn(S) == Input \in S /\ \A x \in Chain : Process(x) \in S /\ OutOf(x) \in S

CommandState ==
  /\ CommandTypeOK
  /\ order \in [text : Nat, captured : BOOLEAN, detached : BOOLEAN]
  /\ at_command \in Chain /\ executionsLeft \in 0..Executions
  /\ left \in [Chain -> 0..Output] /\ text \in [toWrite : Nat, read : Nat, earlier : Nat]
  /\ phase # "new" => executionsLeft < Executions

(* Where a command is: not yet started, started, or over.                   *)
StartedInv == \A x \in Chain :
  /\ phase \in {"new", "prepare"} \/ (phase = "spawn" /\ x >= at_command) =>
       child[x] = "none" /\ Process(x) = "none"
  /\ child[x] = "none" => Process(x) \in {"none", "open"} \/ (Finished /\ Process(x) = "closed")
  /\ child[x] = "running" /\ ~Detached(x) => Process(x) = "active"
  /\ Detached(x) => Process(x) \in {"none", "open", "closed"}
  /\ child[x] # "none" /\ ~Detached(x) => Process(x) \in {"active", "closed"}

(* The exit code of a command is the last one's, or that of a time before.  *)
CodeInv == \A x \in Chain :
  /\ phase = "new" => exitCode[x] = NoCode
  /\ child[x] # "none" /\ ~Detached(x) /\ Process(x) = "closed" =>
       exitCode[x] = child[x] /\ Over(x)
  /\ exitCode[x] = NoCode \/ Again \/ (child[x] # "none" /\ Process(x) = "closed")

(* What keeps the loop running, and what is left when it has ended.         *)
PhaseInv ==
  /\ \A x \in Chain : OutOf(x) = "active" =>
       /\ Captured(x) /\ ~Detached(x)
       /\ phase # "spawn" \/ x < at_command
  /\ phase = "prepare" => AllIn({"none", "open"})
  /\ phase \in {"clean", "close", "returned", "failed", "new"} => AllIn({"none", "open", "closed"})
  /\ phase \in {"prepare", "spawn", "loop", "clean"} => \A x \in Chain : OutOf(x) # "closed"
  /\ Finished /\ Process(1) # "none" => AllIn({"none", "closed"})
  /\ phase \in {"spawn", "loop", "clean", "close", "returned"} =>
        \A x \in Chain : (phase = "spawn" /\ x >= at_command) \/ Process(x) # "none"

(* The text goes to the first command, which sees its end when it is all    *)
(* written.                                                                 *)
TextInv ==
  /\ phase = "prepare" \/ (phase = "spawn" /\ at_command = 1) =>
       /\ text.toWrite = order.text
       /\ Input \in {"none", "open"}
       /\ Input = "none" => order.text = 0 \/ (phase = "prepare" /\ at_command = 1)
       /\ Input = "open" => text.toWrite > 0
  /\ child[1] = "running" /\ ~Detached(1) => (Input = "active" <=> text.toWrite > 0)

(* What the last command wrote is in the pipe or captured, after what was   *)
(* captured earlier.                                                        *)
OutputInv ==
  order.captured /\ ~Detached(Last) /\ phase # "new" =>
    /\ text.read + pipe[Last] + left[Last] = text.earlier + Output
    /\ child[Last] = "none" => pipe[Last] = 0
    /\ child[Last] # "none" => OutOf(Last) = "active" \/ (Over(Last) /\ pipe[Last] = 0)

(* A child that is left is one that was detached, by a call that returned.  *)
LeftInv == phase = "failed" => \A x \in Chain : child[x] # "running"

CommandInv ==
  /\ CommandState /\ StartedInv /\ CodeInv /\ PhaseInv /\ TextInv /\ OutputInv /\ LeftInv
  /\ ResultsRight

-----------------------------------------------------------------------------
(* There are three kinds of handles.                                        *)
LEMMA HandleFacts ==
  /\ <<"in", 1>> \in Handles
  /\ \A x \in Chain : <<"process", x>> \in Handles /\ <<"out", x>> \in Handles
  /\ \A h \in Handles : h = <<"in", 1>> \/ \E x \in Chain : h = <<"process", x>> \/ h = <<"out", x>>
  /\ \A x, y \in Chain :
       /\ <<"process", x>> # <<"out", y>> /\ <<"process", x>> # <<"in", 1>> /\ <<"out", x>> # <<"in", 1>>
       /\ <<"process", x>> = <<"process", y>> => x = y
       /\ <<"out", x>> = <<"out", y>> => x = y
<1>1. \A x \in Chain : <<"process", x>> \in Handles /\ <<"out", x>> \in Handles
  BY DEF Handles
<1>2. \A h \in Handles : h = <<"in", 1>> \/ \E x \in Chain : h = <<"process", x>> \/ h = <<"out", x>>
  BY DEF Handles
<1>3. \A x, y \in Chain :
        /\ <<"process", x>> # <<"out", y>> /\ <<"process", x>> # <<"in", 1>> /\ <<"out", x>> # <<"in", 1>>
        /\ <<"process", x>> = <<"process", y>> => x = y
        /\ <<"out", x>> = <<"out", y>> => x = y
  OBVIOUS
<1>4. <<"in", 1>> \in Handles
  BY DEF Handles
<1> QED BY <1>1, <1>2, <1>3, <1>4

(* The commands of a chain are numbered from 1 to Last.                     *)
LEMMA ChainFacts ==
  /\ Last \in Chain /\ 1 \in Chain /\ Last \in Nat /\ Last > 0
  /\ \A x \in Chain : x \in Nat /\ x >= 1 /\ x <= Last /\ x \in 0..Last /\ x - 1 \in 0..Last /\ x - 1 # Last
  /\ 0 \in 0..Last /\ 0 \notin Chain
  /\ \A x \in Chain : x < Last => x + 1 \in Chain
BY CommandAssumption DEF Chain

(* The states a handle may be in.                                           *)
LEMMA HandleTypes ==
  ASSUME CommandState
  PROVE  /\ Input \in {"none", "open", "active", "closed"}
         /\ \A x \in Chain : /\ Process(x) \in {"none", "open", "active", "closed"}
                             /\ OutOf(x) \in {"none", "open", "active", "closed"}
BY HandleFacts DEF CommandState, CommandTypeOK, Process, OutOf, Input

(* What a change of one handle leaves as it was.                            *)
LEMMA OneHandle ==
  ASSUME handle \in [Handles -> {"none", "open", "active", "closed"}], NEW x \in Chain, NEW v
  PROVE  /\ handle' = [handle EXCEPT ![<<"process", x>>] = v] =>
              /\ Process(x)' = v /\ Input' = Input
              /\ \A y \in Chain : OutOf(y)' = OutOf(y) /\ (y # x => Process(y)' = Process(y))
         /\ handle' = [handle EXCEPT ![<<"out", x>>] = v] =>
              /\ OutOf(x)' = v /\ Input' = Input
              /\ \A y \in Chain : Process(y)' = Process(y) /\ (y # x => OutOf(y)' = OutOf(y))
         /\ handle' = [handle EXCEPT ![<<"in", 1>>] = v] =>
              /\ Input' = v
              /\ \A y \in Chain : Process(y)' = Process(y) /\ OutOf(y)' = OutOf(y)
<1>1. ASSUME handle' = [handle EXCEPT ![<<"process", x>>] = v]
      PROVE  /\ Process(x)' = v /\ Input' = Input
             /\ \A y \in Chain : OutOf(y)' = OutOf(y) /\ (y # x => Process(y)' = Process(y))
  BY <1>1, HandleFacts DEF Process, OutOf, Input
<1>2. ASSUME handle' = [handle EXCEPT ![<<"out", x>>] = v]
      PROVE  /\ OutOf(x)' = v /\ Input' = Input
             /\ \A y \in Chain : Process(y)' = Process(y) /\ (y # x => OutOf(y)' = OutOf(y))
  BY <1>2, HandleFacts DEF Process, OutOf, Input
<1>3. ASSUME handle' = [handle EXCEPT ![<<"in", 1>>] = v]
      PROVE  /\ Input' = v
             /\ \A y \in Chain : Process(y)' = Process(y) /\ OutOf(y)' = OutOf(y)
  BY <1>3, HandleFacts DEF Process, OutOf, Input
<1> QED BY <1>1, <1>2, <1>3

(* What does not touch the handles, the phase and the commands still to be  *)
(* spawned keeps what a phase says of the handles.                           *)
LEMMA PhaseKept ==
  ASSUME PhaseInv, UNCHANGED <<order, phase, at_command>>, Input' = Input,
         \A y \in Chain : Process(y)' = Process(y) /\ OutOf(y)' = OutOf(y),
         \A y \in Chain : Detached(y)' = Detached(y) /\ Captured(y)' = Captured(y)
  PROVE  PhaseInv'
<1>1. /\ AllIn({"none", "open"})' <=> AllIn({"none", "open"})
      /\ AllIn({"none", "open", "closed"})' <=> AllIn({"none", "open", "closed"})
      /\ AllIn({"none", "closed"})' <=> AllIn({"none", "closed"})
  BY DEF AllIn
<1>2. Process(1)' = Process(1) /\ (Finished' <=> Finished)
  BY ChainFacts DEF Finished
<1> QED BY <1>1, <1>2 DEF PhaseInv

(* A counter within bounds that is not at its limit may move by one.        *)
LEMMA OneMore ==
  ASSUME NEW n, NEW N \in Nat, n \in 0..N
  PROVE  (n > 0 => n - 1 \in 0..N) /\ (n < N => n + 1 \in 0..N)
OBVIOUS

(* No command has been started.                                             *)
LEMMA CommandStarts == CommandInit => CommandInv
<1> SUFFICES ASSUME CommandInit PROVE CommandInv
  OBVIOUS
<1> USE DEF CommandInit
<1>1. /\ Input = "none" /\ \A x \in Chain : Process(x) = "none" /\ OutOf(x) = "none"
      /\ phase = "new" /\ \A x \in Chain : child[x] = "none" /\ exitCode[x] = NoCode
  BY HandleFacts DEF Process, OutOf, Input
<1>2. CommandState
  <2>1. CommandTypeOK
    BY CommandAssumption DEF CommandTypeOK, Ended, NoCode
  <2>2. order \in [text : Nat, captured : BOOLEAN, detached : BOOLEAN]
    BY CommandAssumption
  <2>3. at_command \in Chain /\ executionsLeft \in 0..Executions /\ left \in [Chain -> 0..Output]
        /\ text \in [toWrite : Nat, read : Nat, earlier : Nat]
    BY CommandAssumption, ChainFacts
  <2> QED BY <2>1, <2>2, <2>3 DEF CommandState
<1>3. StartedInv /\ CodeInv
  BY <1>1 DEF StartedInv, CodeInv
<1>4. PhaseInv /\ TextInv
  BY <1>1, ChainFacts DEF PhaseInv, TextInv, AllIn, Finished
<1>5. OutputInv /\ ResultsRight /\ LeftInv
  BY <1>1 DEF OutputInv, ResultsRight, Finished, LeftInv
<1> QED BY <1>2, <1>3, <1>4, <1>5 DEF CommandInv

-----------------------------------------------------------------------------
(* An execution begins with new handles (command.cpp:223-260).              *)
LEMMA ExecuteKeeps ==
  ASSUME CommandInv, Execute PROVE CommandInv'
<1> USE DEF Execute
<1>1. CommandState /\ CodeInv
  BY DEF CommandInv
<1>2. /\ Input' = "none" /\ \A x \in Chain : Process(x)' = "none" /\ OutOf(x)' = "none"
      /\ phase' = "prepare" /\ at_command' = 1
      /\ \A x \in Chain : child'[x] = "none" /\ left'[x] = Output /\ exitCode'[x] = exitCode[x]
      /\ text' = [toWrite |-> order.text, read |-> text.read, earlier |-> text.read]
      /\ pipe'[Last] = 0
  BY HandleFacts, ChainFacts DEF Process, OutOf, Input
<1>3. executionsLeft' = executionsLeft - 1 /\ executionsLeft \in 1..Executions /\ Executions \in Nat
  BY <1>1, CommandAssumption DEF CommandState
<1>4. CommandState'
  <2>1. CommandTypeOK'
    BY <1>1, CommandAssumption DEF CommandState, CommandTypeOK, Ended, Codes
  <2>2. text' \in [toWrite : Nat, read : Nat, earlier : Nat] /\ left' \in [Chain -> 0..Output]
    BY <1>1, <1>2, CommandAssumption DEF CommandState
  <2> QED BY <1>1, <1>2, <1>3, <2>1, <2>2, ChainFacts DEF CommandState
<1>5. StartedInv'
  BY <1>2 DEF StartedInv, Detached
<1>6. CodeInv'
  <2>1. CASE phase = "new"
    BY <1>1, <1>2, <2>1 DEF CodeInv
  <2>2. CASE phase # "new"
    <3>1. Again'
      BY <1>1, <1>3, <2>2 DEF CommandState, Again
    <3> QED BY <1>2, <3>1 DEF CodeInv
  <2> QED BY <2>1, <2>2
<1>7. PhaseInv'
  BY <1>2 DEF PhaseInv, AllIn, Finished
<1>8. TextInv'
  BY <1>2, ChainFacts DEF TextInv
<1>9. OutputInv'
  <2>1. text.read \in Nat
    BY <1>1 DEF CommandState
  <2> QED BY <1>2, <2>1, ChainFacts, CommandAssumption DEF OutputInv
<1>10. LeftInv' /\ ResultsRight'
  BY <1>2 DEF LeftInv, ResultsRight, Finished
<1> QED BY <1>4, <1>5, <1>6, <1>7, <1>8, <1>9, <1>10 DEF CommandInv

(* The pipes are made, one by one; all are when the first is started.       *)
LEMMA PrepareKeeps ==
  ASSUME CommandInv, Prepare PROVE CommandInv'
<1> USE DEF Prepare, Children
<1>1. CommandState /\ StartedInv /\ CodeInv /\ PhaseInv /\ TextInv /\ OutputInv /\ phase = "prepare"
  BY DEF CommandInv
<1>2. at_command \in Chain /\ handle \in [Handles -> {"none", "open", "active", "closed"}]
  BY <1>1 DEF CommandState, CommandTypeOK
<1>3. /\ \A x \in Chain : /\ Process(x)' = Process(x)
                          /\ OutOf(x)' = IF x = at_command THEN "open" ELSE OutOf(x)
      /\ Input' = IF order.text > 0 THEN "open" ELSE Input
      /\ handle' \in [Handles -> {"none", "open", "active", "closed"}]
  BY <1>2, HandleFacts DEF Process, OutOf, Input
<1>4. /\ phase' \in {"prepare", "spawn"} /\ at_command' \in Chain
      /\ phase' = "spawn" => at_command' = 1
      /\ at_command' = 1 => phase' = "spawn"
      /\ UNCHANGED <<order, child, left, pipe, text, exitCode, executionsLeft>>
  BY <1>1, <1>2, ChainFacts
<1>5. AllIn({"none", "open"})'
  BY <1>1, <1>2, <1>3 DEF PhaseInv, AllIn
<1>6. CommandState'
  <2>1. phase' \in Ended \union {"prepare", "spawn", "loop", "clean", "close"}
    BY <1>4
  <2>2. CommandTypeOK'
    BY <1>1, <1>3, <1>4, <2>1 DEF CommandState, CommandTypeOK
  <2>3. phase' # "new" => executionsLeft' < Executions
    BY <1>1, <1>4 DEF CommandState
  <2> QED BY <1>1, <1>4, <2>2, <2>3 DEF CommandState
<1>7. \A x \in Chain : Process(x) = "none" /\ child[x] = "none"
  BY <1>1 DEF StartedInv
<1>8. StartedInv'
  BY <1>3, <1>4, <1>7 DEF StartedInv, Detached
<1>9. CodeInv'
  BY <1>1, <1>3, <1>4, <1>7 DEF CodeInv, Again
<1>10. PhaseInv'
  <2>1. \A x \in Chain : OutOf(x)' \in {"none", "open"}
    BY <1>5 DEF AllIn
  <2>2. phase' = "spawn" => \A x \in Chain : x >= at_command'
    BY <1>4, ChainFacts
  <2> QED BY <1>4, <1>5, <2>1, <2>2 DEF PhaseInv, Finished
<1>11. TextInv'
  <2>1. order.text \in Nat /\ text.toWrite = order.text /\ Input \in {"none", "open"}
    BY <1>1 DEF CommandState, TextInv
  <2>2. Input' \in {"none", "open"} /\ (Input' = "none" => order.text = 0) /\ (Input' = "open" => order.text > 0)
    BY <1>1, <1>3, <2>1 DEF TextInv
  <2> QED BY <1>4, <1>7, <2>1, <2>2, ChainFacts DEF TextInv
<1>12. OutputInv'
  BY <1>1, <1>4, <1>7, ChainFacts DEF OutputInv, Detached
<1>13. LeftInv' /\ ResultsRight'
  BY <1>4 DEF LeftInv, ResultsRight, Finished
<1> QED BY <1>6, <1>8, <1>9, <1>10, <1>11, <1>12, <1>13 DEF CommandInv

(* A program that is not found fails the execution (command.cpp:197-211).   *)
LEMMA UnresolvedKeeps ==
  ASSUME CommandInv, Unresolved PROVE CommandInv'
<1> USE DEF Unresolved, Children
<1>1. CommandState /\ StartedInv /\ CodeInv /\ PhaseInv /\ TextInv /\ OutputInv /\ phase = "prepare"
  BY DEF CommandInv
<1>2. /\ phase' = "failed" /\ UNCHANGED <<order, at_command, child, left, pipe, text, exitCode, handle,
                                        executionsLeft>>
      /\ Input' = Input /\ \A x \in Chain : Process(x)' = Process(x) /\ OutOf(x)' = OutOf(x)
  BY DEF Process, OutOf, Input
<1>3. CommandState'
  BY <1>1, <1>2 DEF CommandState, CommandTypeOK, Ended
<1>4. \A x \in Chain : Process(x) = "none" /\ child[x] = "none"
  BY <1>1 DEF StartedInv
<1>5. StartedInv' /\ LeftInv'
  BY <1>2, <1>4 DEF StartedInv, Detached, LeftInv
<1>6. CodeInv'
  BY <1>1, <1>2, <1>4 DEF CodeInv, Again
<1>7. PhaseInv'
  <2>1. Input \in {"none", "open"} /\ \A x \in Chain : Process(x) = "none" /\ OutOf(x) \in {"none", "open"}
    BY <1>1, <1>4 DEF PhaseInv, AllIn
  <2>2. AllIn({"none", "open", "closed"})'
    BY <1>2, <2>1 DEF AllIn
  <2>3. Process(1)' = "none"
    BY <1>2, <2>1, ChainFacts
  <2> QED BY <1>2, <2>1, <2>2, <2>3 DEF PhaseInv
<1>8. TextInv'
  BY <1>2, <1>4, ChainFacts DEF TextInv
<1>9. OutputInv'
  BY <1>1, <1>2, <1>4, ChainFacts DEF OutputInv, Detached
<1>10. ResultsRight'
  <2>1. order.captured /\ ~Detached(Last) => text.read = text.earlier + Output - left[Last]
    <3>1. text.read \in Nat /\ left[Last] \in Nat /\ pipe[Last] \in Nat /\ Output \in Nat
          /\ text.earlier \in Nat
      BY <1>1, ChainFacts, CommandAssumption DEF CommandState, CommandTypeOK
    <3> QED BY <1>1, <1>4, <3>1, ChainFacts DEF OutputInv
  <2> QED BY <1>2, <1>4, <2>1, ChainFacts DEF ResultsRight, Detached
<1> QED BY <1>3, <1>5, <1>6, <1>7, <1>8, <1>9, <1>10 DEF CommandInv

(* A command is started or is not, and the chain goes on.                   *)
LEMMA SpawnOfKeeps ==
  ASSUME CommandInv, NEW m \in Chain, m = at_command, Spawn \/ SpawnFails
  PROVE  CommandInv'
<1>1. CommandState /\ StartedInv /\ CodeInv /\ PhaseInv /\ TextInv /\ OutputInv /\ phase = "spawn"
  BY DEF CommandInv, Spawn, SpawnFails
<1>2. m \in Chain /\ handle \in [Handles -> {"none", "open", "active", "closed"}]
  BY <1>1 DEF CommandState, CommandTypeOK
<1>3. /\ phase' = IF m < Last THEN "spawn" ELSE "loop"
      /\ at_command' = IF m < Last THEN m + 1 ELSE m
      /\ UNCHANGED <<order, left, pipe, text, exitCode, executionsLeft>>
  BY DEF Spawn, SpawnFails, Spawned, Children
<1>4. child[m] = "none" /\ Process(m) = "none" /\ OutOf(m) # "active"
  <2>1. m >= at_command /\ ~(m < at_command)
    BY ChainFacts
  <2> QED BY <1>1, <1>2, <2>1 DEF StartedInv, PhaseInv
<1>5. \A x \in Chain \ {m} : child'[x] = child[x] /\ Process(x)' = Process(x) /\ OutOf(x)' = OutOf(x)
  <2>1. CASE Spawn
    BY <1>1, <1>2, <2>1, HandleFacts DEF Spawn, Capturing, CommandState, CommandTypeOK, Process, OutOf
  <2>2. CASE SpawnFails
    BY <1>2, <2>2, OneHandle DEF SpawnFails, Children
  <2> QED BY <2>1, <2>2
<1>6. \/ /\ child'[m] = "running"
         /\ Process(m)' = IF Detached(m) THEN "open" ELSE "active"
         /\ OutOf(m)' = IF Captured(m) /\ ~Detached(m) THEN "active" ELSE OutOf(m)
         /\ Input' = IF m = 1 /\ Input = "open" /\ ~Detached(1) THEN "active" ELSE Input
      \/ child'[m] = "none" /\ Process(m)' = "open" /\ OutOf(m)' = OutOf(m) /\ Input' = Input
  <2>1. CASE Spawn
    <3>1. child'[m] = "running"
      BY <1>1, <1>2, <2>1 DEF Spawn, CommandState, CommandTypeOK
    <3>2. Process(m)' = IF Detached(m) THEN "open" ELSE "active"
      BY <1>2, <2>1, HandleFacts DEF Spawn, Capturing, Process
    <3>3. OutOf(m)' = IF Captured(m) /\ ~Detached(m) THEN "active" ELSE OutOf(m)
      BY <1>2, <2>1, HandleFacts DEF Spawn, Capturing, OutOf
    <3>4. Input' = IF m = 1 /\ Input = "open" /\ ~Detached(m) THEN "active" ELSE Input
      BY <1>2, <2>1, HandleFacts DEF Spawn, Capturing, Input
    <3> QED BY <3>1, <3>2, <3>3, <3>4
  <2>2. CASE SpawnFails
    BY <1>2, <1>4, <2>2, OneHandle DEF SpawnFails, Children
  <2> QED BY <2>1, <2>2
<1>7. CommandState'
  <2>1. handle' \in [Handles -> {"none", "open", "active", "closed"}]
        /\ child' \in [Chain -> Codes \union {"none", "running"}]
    <3>1. CASE Spawn
      <4>1. child' \in [Chain -> Codes \union {"none", "running"}]
        BY <1>1, <3>1 DEF Spawn, CommandState, CommandTypeOK
      <4>2. \A h \in Handles : Capturing(m)[h] \in {"none", "open", "active", "closed"}
        <5> SUFFICES ASSUME NEW h \in Handles PROVE Capturing(m)[h] \in {"none", "open", "active", "closed"}
          OBVIOUS
        <5>1. CASE h = <<"process", m>>
          BY <1>2, <5>1, HandleFacts DEF Capturing
        <5>2. CASE h = <<"out", m>>
          BY <1>2, <5>2, HandleFacts DEF Capturing
        <5>3. CASE h = <<"in", 1>>
          BY <1>2, <5>3, HandleFacts DEF Capturing
        <5>4. CASE h # <<"process", m>> /\ h # <<"out", m>> /\ h # <<"in", 1>>
          BY <1>2, <5>4 DEF Capturing
        <5> QED BY <5>1, <5>2, <5>3, <5>4
      <4> QED BY <3>1, <4>1, <4>2 DEF Spawn, Capturing
    <3>2. CASE SpawnFails
      BY <1>1, <1>2, <3>2 DEF SpawnFails, Children, CommandState, CommandTypeOK
    <3> QED BY <3>1, <3>2
  <2>2. at_command' \in Chain /\ phase' \in {"spawn", "loop"}
    BY <1>2, <1>3, ChainFacts
  <2> QED BY <1>1, <1>3, <2>1, <2>2 DEF CommandState, CommandTypeOK
<1>8. \A x \in Chain : x # m => (phase' = "spawn" /\ x >= at_command' <=> x >= m)
  BY <1>2, <1>3, ChainFacts
<1>9. /\ ~(phase' = "spawn" /\ m >= at_command') /\ phase' \in {"spawn", "loop"}
      /\ phase' = "spawn" => m < at_command' /\ at_command' # 1
  BY <1>2, <1>3, ChainFacts
<1>10. \A x \in Chain : Detached(x)' = Detached(x) /\ Captured(x)' = Captured(x)
  BY <1>3 DEF Detached, Captured
<1>11. StartedInv'
  <2>1. ASSUME NEW x \in Chain, x # m
        PROVE  /\ phase' = "spawn" /\ x >= at_command' => child'[x] = "none" /\ Process(x)' = "none"
               /\ child'[x] = "none" => Process(x)' \in {"none", "open"}
               /\ child'[x] = "running" /\ ~Detached(x) => Process(x)' = "active"
               /\ Detached(x) => Process(x)' \in {"none", "open", "closed"}
               /\ child'[x] # "none" /\ ~Detached(x) => Process(x)' \in {"active", "closed"}
    <3>1. phase' = "spawn" /\ x >= at_command' => x >= at_command
      BY <1>8, <2>1
    <3>2. ~Finished
      BY <1>1 DEF Finished
    <3> QED BY <1>1, <1>5, <2>1, <3>1, <3>2 DEF StartedInv
  <2>2. /\ child'[m] = "none" => Process(m)' \in {"none", "open"}
        /\ child'[m] = "running" /\ ~Detached(m) => Process(m)' = "active"
        /\ Detached(m) => Process(m)' \in {"none", "open", "closed"}
        /\ child'[m] # "none" /\ ~Detached(m) => Process(m)' \in {"active", "closed"}
    BY <1>6
  <2>3. phase' \notin {"new", "prepare"}
    BY <1>9
  <2> QED BY <1>2, <1>9, <1>10, <2>1, <2>2, <2>3 DEF StartedInv
<1>12. CodeInv'
  <2>1. exitCode'[m] = NoCode \/ Again
    BY <1>1, <1>2, <1>3, <1>4 DEF CodeInv
  <2>2. child'[m] # "none" /\ ~Detached(m) => Process(m)' # "closed"
    BY <1>6
  <2>3. \A x \in Chain \ {m} : exitCode'[x] = exitCode[x] /\ Over(x)' = Over(x)
    BY <1>3, <1>5 DEF Over
  <2>4. Again' = Again /\ phase' # "new"
    BY <1>3, <1>9 DEF Again
  <2>5. ASSUME NEW x \in Chain
        PROVE  /\ child'[x] # "none" /\ ~Detached(x)' /\ Process(x)' = "closed" =>
                    exitCode'[x] = child'[x] /\ Over(x)'
               /\ exitCode'[x] = NoCode \/ Again' \/ (child'[x] # "none" /\ Process(x)' = "closed")
    <3>1. CASE x = m
      BY <1>10, <2>1, <2>2, <2>4, <3>1
    <3>2. CASE x # m
      BY <1>1, <1>5, <1>10, <2>3, <2>4, <3>2 DEF CodeInv
    <3> QED BY <3>1, <3>2
  <2> QED BY <2>4, <2>5 DEF CodeInv
<1>13. PhaseInv'
  <2>1. ASSUME NEW x \in Chain, OutOf(x)' = "active"
        PROVE  Captured(x)' /\ ~Detached(x)' /\ (phase' # "spawn" \/ x < at_command')
    <3>1. CASE x = m
      BY <1>4, <1>6, <1>9, <1>10, <2>1, <3>1
    <3>2. CASE x # m
      <4>1. Captured(x) /\ ~Detached(x) /\ x < m
        BY <1>1, <1>5, <2>1, <3>2 DEF PhaseInv
      <4>2. m \in Nat /\ x \in Nat /\ (phase' = "spawn" => m < at_command' /\ at_command' \in Nat)
        BY <1>2, <1>7, <1>9, ChainFacts DEF CommandState
      <4> QED BY <1>10, <4>1, <4>2
    <3> QED BY <3>1, <3>2
  <2>2. \A x \in Chain : OutOf(x)' # "closed"
    BY <1>1, <1>2, <1>5, <1>6 DEF PhaseInv
  <2>3. ASSUME NEW x \in Chain PROVE (phase' = "spawn" /\ x >= at_command') \/ Process(x)' # "none"
    <3>1. CASE x = m
      BY <1>6, <3>1
    <3>2. CASE x # m
      BY <1>1, <1>5, <1>8, <3>2 DEF PhaseInv
    <3> QED BY <3>1, <3>2
  <2> QED BY <1>9, <2>1, <2>2, <2>3 DEF PhaseInv, Finished
<1>14. TextInv'
  <2>1. CASE m = 1
    <3>1. /\ Input \in {"none", "open"} /\ (Input = "none" => text.toWrite = 0)
          /\ Input = "open" => text.toWrite > 0
      BY <1>1, <2>1 DEF TextInv
    <3>2. text'.toWrite = text.toWrite /\ text.toWrite \in Nat
      BY <1>1, <1>3 DEF CommandState
    <3>3. child'[1] = "running" /\ ~Detached(1) => (Input' = "active" <=> text'.toWrite > 0)
      BY <1>6, <2>1, <3>1, <3>2
    <3> QED BY <1>9, <1>10, <3>3, ChainFacts DEF TextInv
  <2>2. CASE m # 1
    <3>1. child'[1] = child[1] /\ Input' = Input /\ text' = text
      BY <1>3, <1>5, <1>6, <2>2, ChainFacts
    <3> QED BY <1>1, <1>9, <1>10, <3>1, ChainFacts DEF TextInv
  <2> QED BY <2>1, <2>2
<1>15. OutputInv'
  <2> SUFFICES ASSUME order.captured, ~Detached(Last) PROVE OutputInv'
    BY <1>3, <1>10, ChainFacts DEF OutputInv
  <2>1. /\ text.read + pipe[Last] + left[Last] = text.earlier + Output
        /\ child[Last] = "none" => pipe[Last] = 0
        /\ child[Last] # "none" => OutOf(Last) = "active" \/ (Over(Last) /\ pipe[Last] = 0)
    BY <1>1 DEF OutputInv
  <2>2. child'[Last] = "none" => pipe'[Last] = 0
    BY <1>3, <1>4, <1>5, <1>6, <2>1, ChainFacts
  <2>3. child'[Last] # "none" => OutOf(Last)' = "active" \/ (Over(Last)' /\ pipe'[Last] = 0)
    <3>1. CASE m = Last
      BY <1>6, <3>1 DEF Captured
    <3>2. CASE m # Last
      BY <1>3, <1>5, <2>1, <3>2, ChainFacts DEF Over
    <3> QED BY <3>1, <3>2
  <2> QED BY <1>3, <2>1, <2>2, <2>3 DEF OutputInv
<1>16. LeftInv' /\ ResultsRight'
  BY <1>9 DEF LeftInv, ResultsRight, Finished
<1> QED BY <1>7, <1>11, <1>12, <1>13, <1>14, <1>15, <1>16 DEF CommandInv

(* The next command is spawned, or cannot be (uv_command.cpp:380-403).      *)
LEMMA SpawnKeeps ==
  ASSUME CommandInv, Spawn \/ SpawnFails PROVE CommandInv'
<1>1. at_command \in Chain
  BY DEF CommandInv, CommandState
<1> QED BY <1>1, SpawnOfKeeps

-----------------------------------------------------------------------------
(* The loop's callbacks.  Only the last output is read here.                *)
LEMMA OnReadKeeps ==
  ASSUME CommandInv, NEW x \in Chain, OnRead(x) PROVE CommandInv'
<1> USE DEF OnRead
<1>1. /\ CommandState /\ StartedInv /\ CodeInv /\ PhaseInv /\ TextInv /\ OutputInv /\ phase = "loop"
      /\ handle \in [Handles -> {"none", "open", "active", "closed"}]
  BY DEF CommandInv, CommandState, CommandTypeOK
<1>2. x = Last /\ order.captured /\ ~Detached(Last) /\ OutOf(x) = "active" /\ Input' = Input
  <2>1. OutOf(x) = "active"
    BY DEF OutOf
  <2>2. x = Last /\ order.captured /\ ~Detached(Last)
    BY <1>1, <2>1 DEF PhaseInv, Captured
  <2>3. Input' = Input
    BY <1>1, HandleFacts DEF Input
  <2> QED BY <2>1, <2>2, <2>3
<1>3. /\ UNCHANGED <<order, phase, at_command, child, left, exitCode, executionsLeft>>
      /\ \A y \in Chain : /\ Process(y)' = Process(y)
                         /\ \/ OutOf(y)' = OutOf(y)
                            \/ y = Last /\ OutOf(y)' = "open"
  <2>1. CASE handle' = handle
    BY <2>1 DEF Process, OutOf
  <2>2. CASE handle' = [handle EXCEPT ![<<"out", x>>] = "open"]
    BY <1>1, <1>2, <2>2, OneHandle
  <2> QED BY <2>1, <2>2
<1>4. /\ text'.toWrite = text.toWrite /\ text'.earlier = text.earlier
      /\ text' \in [toWrite : Nat, read : Nat, earlier : Nat]
      /\ pipe' \in [0..Last -> 0..Capacity]
      /\ text'.read + pipe'[Last] = text.read + pipe[Last]
  <2>1. text \in [toWrite : Nat, read : Nat, earlier : Nat] /\ pipe \in [0..Last -> 0..Capacity] /\ Capacity \in Nat
        /\ Last \in 0..Last
    BY <1>1, CommandAssumption, ChainFacts DEF CommandState, CommandTypeOK
  <2>2. CASE /\ pipe[x] > 0 /\ pipe' = [pipe EXCEPT ![x] = @ - 1]
             /\ text' = [text EXCEPT !.read = @ + 1]
    <3>1. pipe[x] - 1 \in 0..Capacity
      BY <1>2, <2>1, <2>2
    <3>2. pipe' \in [0..Last -> 0..Capacity] /\ pipe'[Last] = pipe[Last] - 1
      BY <1>2, <2>1, <2>2, <3>1
    <3>3. text' \in [toWrite : Nat, read : Nat, earlier : Nat] /\ text'.read = text.read + 1
          /\ text'.toWrite = text.toWrite /\ text'.earlier = text.earlier
      BY <2>1, <2>2
    <3>4. text.read \in Nat /\ pipe[Last] \in Nat
      BY <2>1
    <3> QED BY <3>2, <3>3, <3>4
  <2>3. CASE UNCHANGED <<pipe, text>>
    BY <2>1, <2>3
  <2> QED BY <2>2, <2>3
<1>5. CommandState'
  <2>1. handle' \in [Handles -> {"none", "open", "active", "closed"}]
    BY <1>1
  <2> QED BY <1>1, <1>3, <1>4, <2>1 DEF CommandState, CommandTypeOK
<1>6. \A y \in Chain : Detached(y)' = Detached(y) /\ Captured(y)' = Captured(y) /\ Over(y)' = Over(y)
  BY <1>3 DEF Detached, Captured, Over
<1>7. StartedInv' /\ CodeInv'
  BY <1>1, <1>3, <1>6 DEF StartedInv, CodeInv, Finished, Again
<1>8. PhaseInv'
  BY <1>1, <1>3, <1>6 DEF PhaseInv, Finished
<1>9. TextInv'
  BY <1>1, <1>2, <1>3, <1>4, <1>6, ChainFacts DEF TextInv
<1>10. OutputInv'
  <2>1. text'.read + pipe'[Last] + left'[Last] = text'.earlier + Output
    <3>1. text'.read + pipe'[Last] + left'[Last] = text.read + pipe[Last] + left[Last]
      BY <1>3, <1>4
    <3> QED BY <1>1, <1>2, <1>4, <3>1 DEF OutputInv
  <2>2. child[Last] # "none"
    <3>1. pipe[Last] > 0 \/ Over(Last)
      BY <1>2
    <3> QED BY <1>1, <1>2, <3>1 DEF OutputInv, Over, Codes
  <2>3. OutOf(Last)' = "active" \/ (Over(Last)' /\ pipe'[Last] = 0)
    <3>1. CASE handle' = handle
      BY <1>2, <3>1 DEF OutOf
    <3>2. CASE pipe[x] = 0 /\ Over(x) /\ pipe' = pipe
      BY <1>2, <1>6, <3>2
    <3> QED BY <3>1, <3>2
  <2> QED BY <1>3, <2>1, <2>2, <2>3 DEF OutputInv
<1>11. LeftInv' /\ ResultsRight'
  BY <1>1, <1>3 DEF LeftInv, ResultsRight, Finished
<1> QED BY <1>5, <1>7, <1>8, <1>9, <1>10, <1>11 DEF CommandInv

(* The pipe of the input is closed with the last of the text, once.         *)
LEMMA FeedKeeps ==
  ASSUME CommandInv, Feed \/ FeedFails PROVE CommandInv'
<1> USE DEF Feed, FeedFails, OnWrite, CloseHandle, Children
<1>1. /\ CommandState /\ StartedInv /\ CodeInv /\ PhaseInv /\ TextInv /\ OutputInv /\ phase = "loop"
      /\ handle \in [Handles -> {"none", "open", "active", "closed"}] /\ Input = "active"
  BY DEF CommandInv, CommandState, CommandTypeOK, Input
<1>2. /\ UNCHANGED <<order, phase, at_command, child, left, exitCode, executionsLeft>>
      /\ \A y \in Chain : Process(y)' = Process(y) /\ OutOf(y)' = OutOf(y)
  BY <1>1, OneHandle, ChainFacts DEF Process, OutOf
<1>3. \/ /\ text'.toWrite = text.toWrite - 1 /\ text.toWrite > 0
         /\ Input' = IF text'.toWrite = 0 THEN "closed" ELSE "active"
      \/ Over(1) /\ Input' = "open" /\ text' = text
  <2>1. CASE Feed
    <3>1. text'.toWrite = text.toWrite - 1 /\ text.toWrite > 0
      BY <1>1, <2>1 DEF CommandState
    <3>2. Input' = IF text'.toWrite = 0 THEN "closed" ELSE "active"
      BY <1>1, <2>1, OneHandle, ChainFacts DEF Input
    <3> QED BY <3>1, <3>2
  <2>2. CASE FeedFails
    BY <1>1, <2>2, OneHandle, ChainFacts DEF Input
  <2> QED BY <2>1, <2>2
<1>4. /\ text'.read = text.read /\ text'.earlier = text.earlier /\ pipe'[Last] = pipe[Last]
      /\ text' \in [toWrite : Nat, read : Nat, earlier : Nat] /\ pipe' \in [0..Last -> 0..Capacity]
  <2>1. text \in [toWrite : Nat, read : Nat, earlier : Nat] /\ pipe \in [0..Last -> 0..Capacity] /\ Capacity \in Nat
        /\ Last \in 0..Last /\ 0 \in 0..Last /\ Last # 0
    BY <1>1, CommandAssumption, ChainFacts DEF CommandState, CommandTypeOK
  <2>2. CASE Feed
    <3>1. pipe[0] + 1 \in 0..Capacity /\ text.toWrite - 1 \in Nat
      BY <2>1, <2>2
    <3> QED BY <2>1, <2>2, <3>1
  <2>3. CASE FeedFails
    BY <2>1, <2>3
  <2> QED BY <2>2, <2>3
<1>5. CommandState'
  <2>1. handle' \in [Handles -> {"none", "open", "active", "closed"}]
    BY <1>1
  <2> QED BY <1>1, <1>2, <1>4, <2>1 DEF CommandState, CommandTypeOK
<1>6. \A y \in Chain : Detached(y)' = Detached(y) /\ Captured(y)' = Captured(y) /\ Over(y)' = Over(y)
  BY <1>2 DEF Detached, Captured, Over
<1>7. StartedInv' /\ CodeInv'
  BY <1>1, <1>2, <1>6 DEF StartedInv, CodeInv, Finished, Again
<1>8. PhaseInv'
  BY <1>1, <1>2, <1>6 DEF PhaseInv, Finished
<1>9. TextInv'
  <2>1. text'.toWrite \in Nat /\ text.toWrite \in Nat
    BY <1>1, <1>4 DEF CommandState
  <2>2. child'[1] = "running" /\ ~Detached(1) => (Input' = "active" <=> text'.toWrite > 0)
    BY <1>1, <1>2, <1>3, <2>1 DEF Over, Codes
  <2> QED BY <1>1, <1>2, <1>6, <2>2, ChainFacts DEF TextInv
<1>10. OutputInv'
  BY <1>1, <1>2, <1>4, <1>6, ChainFacts DEF OutputInv
<1>11. LeftInv' /\ ResultsRight'
  BY <1>1, <1>2 DEF LeftInv, ResultsRight, Finished
<1> QED BY <1>5, <1>7, <1>8, <1>9, <1>10, <1>11 DEF CommandInv

(* A child has ended: its code is kept, its handle closed                   *)
(* (uv_command.cpp:416-423).                                                *)
LEMMA OnExitKeeps ==
  ASSUME CommandInv, NEW x \in Chain, OnExit(x) PROVE CommandInv'
<1> USE DEF OnExit, CloseHandle, Children
<1>1. /\ CommandState /\ StartedInv /\ CodeInv /\ PhaseInv /\ TextInv /\ OutputInv /\ phase = "loop"
      /\ handle \in [Handles -> {"none", "open", "active", "closed"}] /\ Process(x) = "active"
  BY DEF CommandInv, CommandState, CommandTypeOK, Process
<1>2. /\ UNCHANGED <<order, phase, at_command, child, left, pipe, text, executionsLeft>>
      /\ Input' = Input /\ Process(x)' = "closed"
      /\ \A y \in Chain : OutOf(y)' = OutOf(y) /\ (y # x => Process(y)' = Process(y))
      /\ handle' = [handle EXCEPT ![<<"process", x>>] = "closed"]
  BY <1>1, OneHandle DEF Process
<1>3. /\ exitCode'[x] = child[x] /\ \A y \in Chain \ {x} : exitCode'[y] = exitCode[y]
      /\ exitCode' \in [Chain -> Codes \union {NoCode}]
  BY <1>1 DEF CommandState, CommandTypeOK, Over
<1>4. CommandState'
  <2>1. handle' \in [Handles -> {"none", "open", "active", "closed"}]
    BY <1>1, <1>2
  <2> QED BY <1>1, <1>2, <1>3, <2>1 DEF CommandState, CommandTypeOK
<1>5. /\ \A y \in Chain : Detached(y)' = Detached(y) /\ Captured(y)' = Captured(y) /\ Over(y)' = Over(y)
      /\ child[x] # "none" /\ child[x] # "running" /\ ~Detached(x)
  BY <1>1, <1>2 DEF Detached, Captured, Over, Codes, StartedInv
<1>6. StartedInv'
  BY <1>1, <1>2, <1>5 DEF StartedInv, Finished
<1>7. CodeInv'
  <2>1. ASSUME NEW y \in Chain
        PROVE  /\ child[y] # "none" /\ ~Detached(y) /\ Process(y)' = "closed" =>
                    exitCode'[y] = child[y] /\ Over(y)
               /\ exitCode'[y] = NoCode \/ Again \/ (child[y] # "none" /\ Process(y)' = "closed")
    BY <1>1, <1>2, <1>3, <1>5 DEF CodeInv
  <2> QED BY <1>1, <1>2, <1>5, <2>1 DEF CodeInv, Again
<1>8. PhaseInv'
  BY <1>1, <1>2, <1>5 DEF PhaseInv, Finished
<1>9. TextInv' /\ OutputInv'
  BY <1>1, <1>2, <1>5, ChainFacts DEF TextInv, OutputInv
<1>10. LeftInv' /\ ResultsRight'
  BY <1>1, <1>2 DEF LeftInv, ResultsRight, Finished
<1> QED BY <1>4, <1>6, <1>7, <1>8, <1>9, <1>10 DEF CommandInv

-----------------------------------------------------------------------------
(* The children, which may go on after a call when they were detached.      *)
LEMMA ChildGoesOnKeeps ==
  ASSUME CommandInv, NEW x \in Chain, ChildReads(x) \/ ChildWrites(x) PROVE CommandInv'
<1> USE DEF ChildReads, ChildWrites
<1>1. /\ CommandState /\ StartedInv /\ CodeInv /\ PhaseInv /\ TextInv /\ OutputInv /\ LeftInv /\ ResultsRight
      /\ child[x] = "running"
  BY DEF CommandInv
<1>2. /\ UNCHANGED <<order, phase, at_command, child, text, exitCode, handle, executionsLeft>>
      /\ Input' = Input /\ \A y \in Chain : Process(y)' = Process(y) /\ OutOf(y)' = OutOf(y)
  BY DEF Input, Process, OutOf
<1>3. /\ pipe' \in [0..Last -> 0..Capacity] /\ left' \in [Chain -> 0..Output]
      /\ x # Last => pipe'[Last] = pipe[Last] /\ left'[Last] = left[Last]
      /\ ChildReads(x) => pipe'[Last] = pipe[Last] /\ left'[Last] = left[Last]
      /\ ChildWrites(x) /\ ToPipe(x) => pipe'[x] = pipe[x] + 1 /\ left'[x] = left[x] - 1
  <2>1. /\ pipe \in [0..Last -> 0..Capacity] /\ left \in [Chain -> 0..Output] /\ Capacity \in Nat
        /\ Output \in Nat /\ x \in 0..Last /\ x - 1 \in 0..Last /\ x - 1 # Last /\ Last \in 0..Last
        /\ Last \in Chain
    BY <1>1, CommandAssumption, ChainFacts DEF CommandState, CommandTypeOK
  <2>2. CASE ChildReads(x)
    <3>0. pipe[x - 1] > 0 /\ pipe' = [pipe EXCEPT ![x - 1] = pipe[x - 1] - 1] /\ left' = left
      BY <2>2
    <3>1. pipe[x - 1] - 1 \in 0..Capacity
      <4>1. pipe[x - 1] \in 0..Capacity
        BY <2>1
      <4> QED BY <3>0, <4>1, CommandAssumption, OneMore
    <3>2. pipe'[Last] = pipe[Last] /\ left' = left
      BY <2>1, <3>0
    <3>3. ChildWrites(x) => left'[x] = left[x] - 1 /\ left[x] \in Nat
      BY <2>1
    <3>4. ~ChildWrites(x)
      BY <3>2, <3>3
    <3>5. pipe' \in [0..Last -> 0..Capacity]
      BY <2>1, <3>0, <3>1
    <3> QED BY <2>1, <3>2, <3>4, <3>5
  <2>3. CASE ChildWrites(x)
    <3>0. /\ left[x] > 0 /\ (ToPipe(x) => pipe[x] < Capacity)
          /\ left' = [left EXCEPT ![x] = left[x] - 1]
          /\ pipe' = [pipe EXCEPT ![x] = IF ToPipe(x) THEN pipe[x] + 1 ELSE pipe[x]]
      BY <2>3
    <3>1. left[x] - 1 \in 0..Output /\ (ToPipe(x) => pipe[x] + 1 \in 0..Capacity)
      <4>1. left[x] \in 0..Output /\ pipe[x] \in 0..Capacity
        BY <2>1
      <4>2. ToPipe(x) => pipe[x] + 1 \in 0..Capacity
        BY <3>0, <4>1, CommandAssumption, OneMore
      <4> QED BY <3>0, <4>1, <4>2, CommandAssumption, OneMore
    <3>2. pipe' \in [0..Last -> 0..Capacity] /\ left' \in [Chain -> 0..Output]
      <4>1. left' \in [Chain -> 0..Output]
        BY <2>1, <3>0, <3>1
      <4>2. (IF ToPipe(x) THEN pipe[x] + 1 ELSE pipe[x]) \in 0..Capacity
        BY <2>1, <3>1
      <4>3. PICK v \in 0..Capacity : pipe' = [pipe EXCEPT ![x] = v]
        BY <3>0, <4>2
      <4>4. pipe' \in [0..Last -> 0..Capacity]
        BY <2>1, <4>3
      <4> QED BY <4>1, <4>4
    <3>3. x # Last => pipe'[Last] = pipe[Last] /\ left'[Last] = left[Last]
      BY <2>1, <3>0
    <3>4. ~ChildReads(x)
      <4>1. ChildReads(x) => left' = left
        OBVIOUS
      <4>2. left'[x] = left[x] - 1 /\ left[x] \in Nat
        BY <2>1, <3>0
      <4> QED BY <4>1, <4>2
    <3>5. ToPipe(x) => pipe'[x] = pipe[x] + 1 /\ left'[x] = left[x] - 1
      BY <2>1, <3>0
    <3> QED BY <3>2, <3>3, <3>4, <3>5
  <2> QED BY <2>2, <2>3
<1> QED
  <2>1. CommandState'
    BY <1>1, <1>2, <1>3 DEF CommandState, CommandTypeOK
  <2>2. \A y \in Chain : Detached(y)' = Detached(y) /\ Captured(y)' = Captured(y) /\ Over(y)' = Over(y)
    BY <1>2 DEF Detached, Captured, Over
  <2>3. StartedInv' /\ CodeInv'
    BY <1>1, <1>2, <2>2 DEF StartedInv, CodeInv, Finished, Again
  <2>4. PhaseInv'
    BY <1>1, <1>2, <2>2, PhaseKept
  <2>5. TextInv'
    BY <1>1, <1>2, <2>2, ChainFacts DEF TextInv
  <2>6. ASSUME order.captured, ~Detached(Last)
        PROVE  /\ text'.read + pipe'[Last] + left'[Last] = text.read + pipe[Last] + left[Last]
               /\ x # Last => pipe'[Last] = pipe[Last] /\ left'[Last] = left[Last]
    <3>1. text.read \in Nat /\ pipe[Last] \in Nat /\ left[Last] \in Nat
      BY <1>1, ChainFacts, CommandAssumption DEF CommandState, CommandTypeOK
    <3>2. CASE x = Last /\ ChildWrites(x)
      <4>1. ToPipe(x)
        BY <2>6, <3>2 DEF ToPipe, Captured
      <4>2. pipe'[Last] = pipe[Last] + 1 /\ left'[Last] = left[Last] - 1
        BY <1>3, <3>2, <4>1
      <4> QED BY <1>2, <3>1, <3>2, <4>2
    <3>3. CASE x # Last \/ ChildReads(x)
      BY <1>2, <1>3, <3>3
    <3> QED BY <3>2, <3>3
  <2>7. OutputInv'
    <3> SUFFICES ASSUME order.captured, ~Detached(Last), phase # "new" PROVE OutputInv'
      BY <1>2, <2>2, ChainFacts DEF OutputInv
    <3>1. text'.read + pipe'[Last] + left'[Last] = text'.earlier + Output
      BY <1>1, <1>2, <2>6 DEF OutputInv
    <3>2. CASE x = Last
      <4>1. OutOf(Last)' = "active"
        BY <1>1, <1>2, <3>2 DEF OutputInv, Over, Codes
      <4> QED BY <1>1, <1>2, <3>1, <3>2, <4>1 DEF OutputInv
    <3>3. CASE x # Last
      BY <1>1, <1>2, <1>3, <2>2, <3>1, <3>3, ChainFacts DEF OutputInv
    <3> QED BY <3>2, <3>3
  <2>8. LeftInv'
    BY <1>1, <1>2 DEF LeftInv
  <2>9. ResultsRight'
    <3>1. Finished /\ ~Detached(Last) => x # Last
      BY <1>1 DEF ResultsRight
    <3> QED BY <1>1, <1>2, <1>3, <2>2, <3>1, ChainFacts DEF ResultsRight, Finished, Again, Detached
  <2> QED BY <2>1, <2>3, <2>4, <2>5, <2>7, <2>8, <2>9 DEF CommandInv

(* A child ends by itself or is made to.                                    *)
LEMMA ChildIsOverKeeps ==
  ASSUME CommandInv, NEW x \in Chain, ChildEnds(x) \/ ChildStops(x) PROVE CommandInv'
<1> USE DEF ChildEnds, ChildStops
<1>1. /\ CommandState /\ StartedInv /\ CodeInv /\ PhaseInv /\ TextInv /\ OutputInv /\ LeftInv /\ ResultsRight
      /\ child[x] = "running"
  BY DEF CommandInv
<1>2. /\ UNCHANGED <<order, phase, at_command, left, pipe, text, exitCode, handle, executionsLeft>>
      /\ Input' = Input /\ \A y \in Chain : Process(y)' = Process(y) /\ OutOf(y)' = OutOf(y)
  BY DEF Input, Process, OutOf
<1>3. /\ child'[x] \in Codes /\ \A y \in Chain \ {x} : child'[y] = child[y]
      /\ child' \in [Chain -> Codes \union {"none", "running"}]
  <2>1. child \in [Chain -> Codes \union {"none", "running"}]
    BY <1>1 DEF CommandState, CommandTypeOK, Ended
  <2>2. PICK v \in Codes : child' = [child EXCEPT ![x] = v]
    BY DEF Codes, Ended
  <2> QED BY <2>1, <2>2
<1>4. CommandState'
  BY <1>1, <1>2, <1>3 DEF CommandState, CommandTypeOK
<1>5. /\ \A y \in Chain : Detached(y)' = Detached(y) /\ Captured(y)' = Captured(y) /\ (y # x => Over(y)' = Over(y))
      /\ Over(x)' /\ child'[x] # "none" /\ child'[x] # "running" /\ ~Over(x)
  BY <1>1, <1>2, <1>3 DEF Detached, Captured, Over, Codes
<1>6. Detached(x) \/ Process(x) = "active"
  BY <1>1 DEF StartedInv
<1>7. StartedInv'
  <2>1. phase \notin {"new", "prepare"} /\ ~(phase = "spawn" /\ x >= at_command)
    BY <1>1 DEF StartedInv
  <2> QED BY <1>1, <1>2, <1>3, <1>5, <1>6, <2>1 DEF StartedInv, Finished
<1>8. CodeInv'
  BY <1>1, <1>2, <1>3, <1>5, <1>6 DEF CodeInv, Again
<1>9. PhaseInv'
  BY <1>1, <1>2, <1>5, PhaseKept
<1>10. TextInv'
  <2>1. child'[1] = "running" => child[1] = "running"
    BY <1>3, <1>5, ChainFacts
  <2> QED BY <1>1, <1>2, <1>5, <2>1, ChainFacts DEF TextInv
<1>11. OutputInv'
  <2>1. child'[Last] = "none" <=> child[Last] = "none"
    BY <1>1, <1>3, <1>5, ChainFacts
  <2>2. Over(Last) => Over(Last)'
    BY <1>5, ChainFacts
  <2> QED BY <1>1, <1>2, <1>5, <2>1, <2>2, ChainFacts DEF OutputInv
<1>12. LeftInv'
  BY <1>1, <1>2, <1>3, <1>5 DEF LeftInv
<1>13. ResultsRight'
  <2>1. phase # "failed" /\ (phase = "returned" => order.detached)
    BY <1>1 DEF LeftInv, ResultsRight, Finished, Detached
  <2>2. Finished => \A y \in Chain : child'[y] = "running" => Detached(y)
    BY <1>1, <1>3, <1>5 DEF ResultsRight
  <2>3. Finished /\ order.captured /\ ~Detached(Last) => text.read = text.earlier + Output - left[Last]
    BY <1>1 DEF ResultsRight
  <2> QED BY <1>2, <1>5, <2>1, <2>2, <2>3, ChainFacts DEF ResultsRight, Finished
<1> QED BY <1>4, <1>7, <1>8, <1>9, <1>10, <1>11, <1>12, <1>13 DEF CommandInv

-----------------------------------------------------------------------------
(* After the loop.                                                          *)
LEMMA LoopEndsKeeps ==
  ASSUME CommandInv, LoopEnds PROVE CommandInv'
<1> USE DEF LoopEnds, Children
<1>1. CommandState /\ StartedInv /\ CodeInv /\ PhaseInv /\ TextInv /\ OutputInv /\ phase = "loop"
  BY DEF CommandInv
<1>2. /\ phase' = "clean"
      /\ UNCHANGED <<order, at_command, child, left, pipe, text, exitCode, handle, executionsLeft>>
      /\ Input' = Input /\ \A x \in Chain : Process(x)' = Process(x) /\ OutOf(x)' = OutOf(x)
  BY DEF Process, OutOf, Input
<1>3. CommandState'
  BY <1>1, <1>2 DEF CommandState, CommandTypeOK
<1>4. \A x \in Chain : Detached(x)' = Detached(x) /\ Captured(x)' = Captured(x) /\ Over(x)' = Over(x)
  BY <1>2 DEF Detached, Captured, Over
<1>5. StartedInv' /\ CodeInv'
  BY <1>1, <1>2, <1>4 DEF StartedInv, CodeInv, Finished, Again
<1>6. AllIn({"none", "open", "closed"})
  <2>1. Input # "active" /\ \A x \in Chain : Process(x) # "active" /\ OutOf(x) # "active"
    BY HandleFacts DEF Input, Process, OutOf
  <2> QED BY <1>1, <2>1, HandleTypes DEF AllIn
<1>7. PhaseInv'
  BY <1>1, <1>2, <1>4, <1>6 DEF PhaseInv, Finished, AllIn
<1>8. TextInv' /\ OutputInv'
  BY <1>1, <1>2, <1>4, ChainFacts DEF TextInv, OutputInv
<1>9. LeftInv' /\ ResultsRight'
  BY <1>2 DEF LeftInv, ResultsRight, Finished
<1> QED BY <1>3, <1>5, <1>7, <1>8, <1>9 DEF CommandInv

(* What is still open after the loop is closed (uv_command.cpp:410-414).    *)
LEMMA CleanKeeps ==
  ASSUME CommandInv, Clean PROVE CommandInv'
<1> USE DEF Clean, Children
<1>1. /\ CommandState /\ StartedInv /\ CodeInv /\ PhaseInv /\ TextInv /\ OutputInv /\ phase = "clean"
      /\ handle \in [Handles -> {"none", "open", "active", "closed"}]
  BY DEF CommandInv, CommandState, CommandTypeOK
<1>2. /\ phase' = "close" /\ UNCHANGED <<order, at_command, child, left, pipe, text, exitCode, executionsLeft>>
      /\ handle' = [h \in Handles |->
           IF ~Cleaned(h) THEN handle[h] ELSE IF handle[h] = "closed" THEN "twice" ELSE "closed"]
  OBVIOUS
<1>3. /\ Input' = Input
      /\ \A x \in Chain : /\ Process(x)' = Process(x)
                          /\ OutOf(x)' \in {OutOf(x), "closed"}
  <2>1. Input' = Input /\ \A x \in Chain : Process(x)' = Process(x)
    BY <1>2, HandleFacts DEF Cleaned, Process, Input
  <2>2. \A x \in Chain : OutOf(x)' \in {OutOf(x), "closed"}
    BY <1>1, <1>2, HandleFacts DEF PhaseInv, OutOf
  <2> QED BY <2>1, <2>2
<1>4. CommandState'
  <2>1. \A h \in Handles : Cleaned(h) => handle[h] # "closed"
    <3>1. ASSUME NEW h \in Handles, Cleaned(h) PROVE \E x \in Chain : h = <<"out", x>>
      BY <3>1, HandleFacts DEF Cleaned
    <3> QED BY <1>1, <3>1 DEF PhaseInv, OutOf
  <2>2. handle' \in [Handles -> {"none", "open", "active", "closed"}]
    BY <1>1, <1>2, <2>1
  <2> QED BY <1>1, <1>2, <2>2 DEF CommandState, CommandTypeOK
<1>5. \A x \in Chain : Detached(x)' = Detached(x) /\ Captured(x)' = Captured(x) /\ Over(x)' = Over(x)
  BY <1>2 DEF Detached, Captured, Over
<1>6. StartedInv' /\ CodeInv'
  BY <1>1, <1>2, <1>3, <1>5 DEF StartedInv, CodeInv, Finished, Again
<1>7. AllIn({"none", "open", "closed"})'
  BY <1>1, <1>3 DEF PhaseInv, AllIn
<1>8. PhaseInv'
  BY <1>1, <1>2, <1>3, <1>5, <1>7 DEF PhaseInv, Finished, AllIn
<1>9. TextInv'
  BY <1>1, <1>2, <1>3, <1>5, ChainFacts DEF TextInv
<1>10. OutputInv'
  <2>1. OutOf(Last) # "active"
    BY <1>1, ChainFacts DEF PhaseInv, AllIn
  <2> QED BY <1>1, <1>2, <1>5, <2>1, ChainFacts DEF OutputInv
<1>11. LeftInv' /\ ResultsRight'
  BY <1>2 DEF LeftInv, ResultsRight, Finished
<1> QED BY <1>4, <1>6, <1>8, <1>9, <1>10, <1>11 DEF CommandInv

(* What execute returns is said of the codes, which may be of a time before.*)
LEMMA CloseLoopKeeps ==
  ASSUME CommandInv, CloseLoop PROVE CommandInv'
<1> USE DEF CloseLoop, Children
<1>1. /\ CommandState /\ StartedInv /\ CodeInv /\ PhaseInv /\ TextInv /\ OutputInv /\ phase = "close"
      /\ handle \in [Handles -> {"none", "open", "active", "closed"}]
  BY DEF CommandInv, CommandState, CommandTypeOK
<1>2. /\ phase' = IF AllZero \/ order.detached THEN "returned" ELSE "failed"
      /\ UNCHANGED <<order, at_command, child, left, pipe, text, exitCode, executionsLeft>>
      /\ handle' = [h \in Handles |-> IF handle[h] = "open" THEN "closed" ELSE handle[h]]
      /\ phase' \in {"returned", "failed"} /\ Finished'
  BY DEF Finished
<1>3. AllIn({"none", "open", "closed"})
  BY <1>1 DEF PhaseInv
<1>4. /\ Input' = IF Input = "open" THEN "closed" ELSE Input
      /\ \A x \in Chain : /\ Process(x)' = IF Process(x) = "open" THEN "closed" ELSE Process(x)
                          /\ OutOf(x)' = IF OutOf(x) = "open" THEN "closed" ELSE OutOf(x)
  BY <1>2, HandleFacts DEF Input, Process, OutOf
<1>5. AllIn({"none", "closed"})'
  BY <1>3, <1>4 DEF AllIn
<1>6. CommandState'
  <2>1. handle' \in [Handles -> {"none", "open", "active", "closed"}]
    BY <1>1, <1>2
  <2> QED BY <1>1, <1>2, <2>1 DEF CommandState, CommandTypeOK, Ended
<1>7. \A x \in Chain : Detached(x)' = Detached(x) /\ Captured(x)' = Captured(x) /\ Over(x)' = Over(x)
  BY <1>2 DEF Detached, Captured, Over
<1>8. ASSUME NEW x \in Chain
      PROVE  /\ Process(x) # "none" /\ Process(x) # "active"
             /\ child[x] = "running" => Detached(x)
             /\ child[x] # "none" /\ ~Detached(x) =>
                  Process(x) = "closed" /\ exitCode[x] = child[x] /\ Over(x)
  <2>1. Process(x) # "none" /\ Process(x) # "active"
    BY <1>1, <1>3 DEF PhaseInv, AllIn
  <2>2. child[x] # "none" /\ ~Detached(x) => Process(x) = "closed"
    BY <1>1, <2>1 DEF StartedInv
  <2> QED BY <1>1, <2>1, <2>2 DEF StartedInv, CodeInv
<1>9. StartedInv'
  BY <1>1, <1>2, <1>4, <1>7, <1>8 DEF StartedInv
<1>10. CodeInv'
  <2>1. Again' = Again /\ phase' # "new"
    BY <1>2 DEF Again
  <2> QED BY <1>1, <1>2, <1>4, <1>7, <1>8, <2>1 DEF CodeInv
<1>11. PhaseInv'
  BY <1>1, <1>2, <1>4, <1>5, <1>7, <1>8 DEF PhaseInv, AllIn
<1>12. TextInv'
  <2>1. child[1] = "running" /\ ~Detached(1) => FALSE
    BY <1>8, ChainFacts
  <2> QED BY <1>2, <1>7, <2>1, ChainFacts DEF TextInv
<1>13. OutputInv' /\ (order.captured /\ ~Detached(Last) => pipe[Last] = 0)
  <2>1. OutOf(Last) # "active"
    BY <1>3, ChainFacts DEF AllIn
  <2> QED BY <1>1, <1>2, <1>7, <2>1, ChainFacts DEF OutputInv
<1>14. phase' = "failed" => ~order.detached /\ \E x \in Chain : exitCode[x] # "zero"
  BY <1>2 DEF AllZero
<1>15. LeftInv'
  BY <1>2, <1>8, <1>14 DEF LeftInv, Detached
<1>16. ResultsRight'
  <2>1. phase' = "failed" => \E x \in Chain : child[x] # "zero"
    BY <1>8, <1>14 DEF Detached
  <2>2. phase' = "returned" /\ ~order.detached =>
          \A x \in Chain : child[x] = "zero" \/ (child[x] = "none" /\ Again)
    <3> SUFFICES ASSUME phase' = "returned", ~order.detached, NEW x \in Chain
                 PROVE  child[x] = "zero" \/ (child[x] = "none" /\ Again)
      OBVIOUS
    <3>1. exitCode[x] = "zero" /\ ~Detached(x)
      BY <1>2 DEF AllZero, Detached
    <3> QED BY <1>1, <1>8, <3>1 DEF CodeInv, NoCode
  <2>3. order.captured /\ ~Detached(Last) => text.read = text.earlier + Output - left[Last]
    <3>1. text.read \in Nat /\ left[Last] \in Nat /\ pipe[Last] \in Nat /\ Output \in Nat
          /\ text.earlier \in Nat
      BY <1>1, ChainFacts, CommandAssumption DEF CommandState, CommandTypeOK
    <3> QED BY <1>1, <1>13, <3>1 DEF OutputInv
  <2>4. \A x \in Chain : child[x] = "running" => Detached(x)
    BY <1>8
  <2>5. Again' = Again
    BY <1>2 DEF Again
  <2> QED BY <1>2, <1>7, <2>1, <2>2, <2>3, <2>4, <2>5, ChainFacts DEF ResultsRight
<1> QED BY <1>6, <1>9, <1>10, <1>11, <1>12, <1>13, <1>15, <1>16 DEF CommandInv

(* All steps of the loop and of the children keep the invariant.            *)
LEMMA CommandSteps == CommandInv /\ [CommandNext]_commandVars => CommandInv'
<1> SUFFICES ASSUME CommandInv, [CommandNext]_commandVars PROVE CommandInv'
  OBVIOUS
<1>1. CASE LoopStep
  BY <1>1, PrepareKeeps, UnresolvedKeeps, SpawnKeeps, OnReadKeeps, OnExitKeeps, FeedKeeps, LoopEndsKeeps,
     CleanKeeps, CloseLoopKeeps DEF LoopStep
<1>2. CASE \E x \in Chain : ChildStep(x) \/ ChildStops(x)
  BY <1>2, ChildGoesOnKeeps, ChildIsOverKeeps DEF ChildStep
<1>3. CASE Execute
  BY <1>3, ExecuteKeeps
<1>4. CASE UNCHANGED commandVars
  <2>1. /\ UNCHANGED <<order, phase, at_command, child, left, pipe, text, exitCode, handle, executionsLeft>>
        /\ Input' = Input /\ \A x \in Chain : Process(x)' = Process(x) /\ OutOf(x)' = OutOf(x)
        /\ \A x \in Chain : Detached(x)' = Detached(x) /\ Captured(x)' = Captured(x) /\ Over(x)' = Over(x)
    BY <1>4 DEF commandVars, Process, OutOf, Input, Detached, Captured, Over
  <2>2. CommandState'
    BY <2>1 DEF CommandInv, CommandState, CommandTypeOK
  <2>3. StartedInv' /\ CodeInv'
    BY <2>1 DEF CommandInv, StartedInv, CodeInv, Finished, Again
  <2>4. PhaseInv'
    BY <2>1, PhaseKept DEF CommandInv
  <2>5. TextInv' /\ OutputInv' /\ LeftInv'
    BY <2>1, ChainFacts DEF CommandInv, TextInv, OutputInv, LeftInv
  <2>6. ResultsRight'
    BY <2>1, ChainFacts DEF CommandInv, ResultsRight, Finished, Again
  <2> QED BY <2>2, <2>3, <2>4, <2>5, <2>6 DEF CommandInv
<1> QED BY <1>1, <1>2, <1>3, <1>4 DEF CommandNext

(* The invariant says what is checked of a chain of commands.               *)
LEMMA CommandMeans == CommandInv => CommandTypeOK /\ ResultsRight /\ HandlesRight
<1> SUFFICES ASSUME CommandInv PROVE CommandTypeOK /\ ResultsRight /\ HandlesRight
  OBVIOUS
<1>1. CommandTypeOK /\ ResultsRight
  BY DEF CommandInv, CommandState
<1>2. child[1] = "running" /\ ~Detached(1) /\ AtEnd(1) => text.toWrite = 0
  BY DEF CommandInv, CommandState, TextInv, AtEnd, Input
<1>3. Finished /\ Process(1) # "none" => \A h \in Handles : handle[h] \in {"none", "closed"}
  BY HandleFacts DEF CommandInv, PhaseInv, AllIn, Process, OutOf, Input
<1> QED BY <1>1, <1>2, <1>3 DEF HandlesRight, Process

-----------------------------------------------------------------------------
(* The parts together.  A step is one of one part, which the others do not  *)
(* see (MCProcesses).                                                       *)
LEMMA PartsStep ==
  ASSUME [Next]_all
  PROVE  /\ [FileLockNext]_lockVars /\ [FileMonitorNext]_monitorVars /\ [DownloadNext]_downloadVars
         /\ [SchemaNext]_schemaVars /\ [StorageNext]_storageVars
         /\ [SourceNext]_sourceVars /\ [CommandNext]_commandVars
<1>1. CASE UNCHANGED all
  BY <1>1 DEF all, local, distant
<1>2. CASE (Lock /\ FileLockNext) \/ (Service /\ DeploymentNext)
           \/ (User /\ RemoteUserNext) \/ (Remote /\ RemoteHostNext)
  BY <1>2 DEF Lock, Service, User, Remote, local, distant
<1>3. CASE (Database /\ SchemaNext) \/ (Storage /\ StorageNext)
           \/ (Commands /\ CommandNext) \/ (Monitor /\ FileMonitorNext)
  BY <1>3 DEF Database, Storage, Commands, Monitor, distant
<1>4. CASE (Http /\ DownloadNext) \/ (Git /\ SourceNext)
  BY <1>4 DEF Http, Git, local
<1> QED BY <1>1, <1>2, <1>3, <1>4 DEF Next

(* The lock, in every reachable state: nobody else holds one while a job    *)
(* runs or an exclusive lock is held, in any number of processes of one     *)
(* thread each, and who returns from single_process_job knows that the job  *)
(* was completed, unless one of the named mishaps came in between           *)
(* (lock.h:95-183).                                                         *)
THEOREM LocksAlwaysRight == Spec => []LocksRight
<1>1. Init => LockInv
  BY LockStarts DEF Init
<1>2. LockInv /\ [Next]_all => LockInv'
  BY LockSteps, PartsStep
<1> QED BY <1>1, <1>2, LockMeans, PTL DEF Spec

(* The invariant of the lock by itself, as FileLock specifies it            *)
(* (lock.h:57-183).                                                         *)
THEOREM LockAlways == FileLockSpec => []LockInv
  BY LockStarts, LockSteps, PTL DEF FileLockSpec

(* While a job runs or an exclusive lock is held, nobody else holds one, in *)
(* any number of processes of one thread each (lock.h:95-171).              *)
THEOREM LockIsExclusive == FileLockSpec => []OneAtATime
<1>1. LockInv => OneAtATime
  BY LockMeans DEF LocksRight
<1> QED BY <1>1, LockAlways, PTL

(* Who returns from single_process_job knows that the job was completed,    *)
(* unless one of the named mishaps came in between (lock.h:168-171).        *)
THEOREM WaitingMeansCompleted == FileLockSpec => []JobCompleted
<1>1. LockInv => JobCompleted
  BY LockMeans DEF LocksRight
<1> QED BY <1>1, LockAlways, PTL

(* Nobody is told of what he did not ask for, what was asked for is watched *)
(* unless its watcher failed or its directory is asked for too, and no      *)
(* watcher outlives stop but that of a late call (file_monitor.h:59-184).   *)
THEOREM MonitorAlwaysRight == Spec => []MonitorRight
<1>1. Init => MonitorInv
  BY MonitorStarts DEF Init
<1>2. MonitorInv /\ [Next]_all => MonitorInv'
  BY MonitorSteps, PartsStep
<1>3. MonitorInv => MonitorRight
  BY MonitorMeans DEF MonitorRight, MonitorInv
<1> QED BY <1>1, <1>2, <1>3, PTL DEF Spec

(* A target that is there is whole unless two programs have downloaded it   *)
(* together or a disk was full, and a download of sources that returns has  *)
(* left all the files of one version, whatever failed on the way            *)
(* (http.cpp:251-312, source.cpp:79-117, 384-462).                          *)
THEOREM FetchedAlwaysRight == Spec => []FetchedRight
<1>1. Init => DownloadInv /\ SourceInv
  BY DownloadStarts, SourceStarts DEF Init
<1>2. DownloadInv /\ SourceInv /\ [Next]_all => (DownloadInv /\ SourceInv)'
  BY DownloadSteps, SourceSteps, PartsStep
<1>3. DownloadInv /\ SourceInv => FetchedRight
  BY DownloadMeans, SourceMeans DEF FetchedRight, DownloadInv
<1> QED BY <1>1, <1>2, <1>3, PTL DEF Spec

(* A schema agrees with its version, which is the program's or a later one  *)
(* when a call has returned, and what has been added to a storage is found  *)
(* there, whole, but for what the named mishaps destroy                     *)
(* (schema_manager.h:28-62, db/sqlite3.h:65-137, storage.h:25-173).         *)
THEOREM StoredAlwaysRight == Spec => []StoredRight
<1>1. Init => SchemaInv /\ StorageInv
  BY SchemaStarts, StorageStarts DEF Init
<1>2. SchemaInv /\ StorageInv /\ [Next]_all => (SchemaInv /\ StorageInv)'
  BY SchemaSteps, StorageSteps, PartsStep
<1>3. SchemaInv /\ StorageInv => StoredRight
  BY SchemaMeans, StorageMeans DEF StoredRight
<1> QED BY <1>1, <1>2, <1>3, PTL DEF Spec

(* A chain that returns has run, and what its last command wrote has been   *)
(* captured by then; whatever started, failed or stopped, no handle is      *)
(* closed twice, and none is left open in a loop that is closed             *)
(* (command.cpp:223-365, uv_command.cpp:114-244).                           *)
THEOREM CommandsAlwaysRight == Spec => []CommandsRight
<1>1. Init => CommandInv
  BY CommandStarts DEF Init
<1>2. CommandInv /\ [Next]_all => CommandInv'
  BY CommandSteps, PartsStep
<1>3. CommandInv => CommandsRight
  BY CommandMeans DEF CommandsRight
<1> QED BY <1>1, <1>2, <1>3, PTL DEF Spec
=============================================================================
