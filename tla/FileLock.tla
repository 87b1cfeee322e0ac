------------------------------ MODULE FileLock ------------------------------
(***************************************************************************)
(* ScopedFileLock, ScopedShareableFileLock and the jobs of one process      *)
(* (lock.h), over the locks of POSIX: a lock is the process's, so that      *)
(* threads of one process share it, and closing any descriptor of the file  *)
(* drops it.  (On Windows the lock is the handle's: there every caller is   *)
(* as if it were a process of its own.)                                     *)
(***************************************************************************)
EXTENDS Integers, FiniteSets

CONSTANTS Callers,        (* threads that use the lock of one file           *)
          Deployments,    (* functions that give each caller its process     *)
          LockCalls       (* LockCalls[c], bound: the calls c makes          *)

ASSUME FileLockAssumption ==
  /\ IsFiniteSet(Callers)
  /\ LockCalls \in [Callers -> Nat]
  /\ \A d \in Deployments : DOMAIN d = Callers

VARIABLES processOf,      (* processOf[c]: the process of c                  *)
          lockFile,       (* whether the lock file exists                    *)
          lockOf,         (* lockOf[p]: the lock process p has               *)
          at,             (* at[c]: where c is in its call                   *)
          kind,           (* kind[c]: what it called                         *)
          result,         (* result[c]: how its last call ended              *)
          jobDone,        (* whether a job has been completed                *)
          fresh,          (* fresh[c]: one has been during the call of c     *)
          lockCallsLeft,  (* calls each may still make                       *)
          lockMishaps     (* what the calls do not guard against             *)

lockVars == <<processOf, lockFile, lockOf, at, kind, result, jobDone, fresh,
              lockCallsLeft, lockMishaps>>

Processes == {processOf[c] : c \in Callers}
Kinds == {"job", "try_job", "exclusive", "shared"}

FileLockInit ==
  /\ processOf \in Deployments
  /\ lockFile \in BOOLEAN
  /\ lockOf = [p \in Processes |-> "none"]
  /\ at = [c \in Callers |-> "out"]
  /\ kind = [c \in Callers |-> "job"]
  /\ result = [c \in Callers |-> "none"]
  /\ jobDone = FALSE
  /\ fresh = [c \in Callers |-> FALSE]
  /\ lockCallsLeft = LockCalls
  /\ lockMishaps = {}

Goes(c, from, to) == at[c] = from /\ at' = [at EXCEPT ![c] = to]
Inside == {c \in Callers : at[c] # "out"}

(* A variant that is wrong: an exclusive lock is asked for as a shared one. *)
GrantableShared(c, mode) == \A p \in Processes \ {processOf[c]} : lockOf[p] # "exclusive"

(* The system grants an exclusive lock when no other process has one, and a *)
(* shared one beside shared ones.                                           *)
Grantable(c, mode) ==
  \A p \in Processes \ {processOf[c]} :
    lockOf[p] = "none" \/ (lockOf[p] = "shared" /\ mode = "shared")
Grant(c, mode) == lockOf' = [lockOf EXCEPT ![processOf[c]] = mode]
Close(c) == lockOf' = [lockOf EXCEPT ![processOf[c]] = "none"]

-----------------------------------------------------------------------------
CallLock(c, k) ==
  /\ lockCallsLeft[c] > 0
  /\ Goes(c, "out", "test")
  /\ kind' = [kind EXCEPT ![c] = k]
  /\ fresh' = [fresh EXCEPT ![c] = FALSE]
  /\ lockCallsLeft' = [lockCallsLeft EXCEPT ![c] = @ - 1]
  /\ lockMishaps' = lockMishaps \union
       {"threads" : d \in {d \in Inside : processOf[d] = processOf[c]}}
  /\ UNCHANGED <<processOf, lockFile, lockOf, result, jobDone>>

(* prepare_lock_file: the file is created when it was not there.  Another   *)
(* may create it in between; the close of a thread that finds out too late  *)
(* drops the lock of its process.                                           *)
TestLockFile(c) ==
  /\ Goes(c, "test", IF lockFile THEN "lock" ELSE "create")
  /\ UNCHANGED <<processOf, lockFile, lockOf, kind, result, jobDone, fresh, lockCallsLeft, lockMishaps>>

CreateLockFile(c) ==
  /\ Goes(c, "create", "lock")
  /\ lockFile' = TRUE
  /\ Close(c)
  /\ UNCHANGED <<processOf, kind, result, jobDone, fresh, lockCallsLeft, lockMishaps>>

-----------------------------------------------------------------------------
(* single_process_job and try_single_process_job                            *)

JobCall(c) == kind[c] \in {"job", "try_job"}
Elsewhere(c) == {d \in Callers : processOf[d] # processOf[c]}
Waited(c) == \E d \in Elsewhere(c) : kind[d] = "job" /\ at[d] = "hold"
NoJob(c) == \E d \in Elsewhere(c) : ~JobCall(d) /\ at[d] = "hold"

TryLock(c) ==
  /\ at[c] = "lock" /\ JobCall(c)
  /\ \/ /\ Grantable(c, "exclusive")
        /\ Grant(c, "exclusive")
        /\ at' = [at EXCEPT ![c] = "work"]
        /\ UNCHANGED <<result, lockMishaps>>
     \/ /\ ~Grantable(c, "exclusive") /\ kind[c] = "job"
        /\ at' = [at EXCEPT ![c] = "wait"]
        /\ lockMishaps' = lockMishaps
             \union (IF Waited(c) THEN {"waiter"} ELSE {})
             \union (IF NoJob(c) THEN {"holder"} ELSE {})
        /\ UNCHANGED <<lockOf, result>>
     \/ /\ ~Grantable(c, "exclusive") /\ kind[c] = "try_job"
        /\ Close(c)
        /\ at' = [at EXCEPT ![c] = "out"]
        /\ result' = [result EXCEPT ![c] = "refused"]
        /\ UNCHANGED lockMishaps
  /\ UNCHANGED <<processOf, lockFile, kind, jobDone, fresh, lockCallsLeft>>

(* The job ends, or throws: the destructor unlocks either way.              *)
Work(c) ==
  /\ Goes(c, "work", "out")
  /\ Close(c)
  /\ \/ /\ jobDone' = TRUE
        /\ fresh' = [d \in Callers |-> fresh[d] \/ d \in Inside]
        /\ result' = [result EXCEPT ![c] = "done"]
        /\ UNCHANGED lockMishaps
     \/ /\ result' = [result EXCEPT ![c] = "threw"]
        /\ lockMishaps' = lockMishaps \union {"threw"}
        /\ UNCHANGED <<jobDone, fresh>>
  /\ UNCHANGED <<processOf, lockFile, kind, lockCallsLeft>>

(* A variant that is wrong: the caller does not wait for the holder.        *)
WaitForNobody(c) ==
  /\ Goes(c, "wait", "hold")
  /\ UNCHANGED <<processOf, lockFile, lockOf, kind, result, jobDone, fresh, lockCallsLeft, lockMishaps>>

(* A job that could not start waits for the lock itself, and holds it.      *)
WaitForHolder(c) ==
  /\ Goes(c, "wait", "hold")
  /\ Grantable(c, "exclusive") /\ Grant(c, "exclusive")
  /\ UNCHANGED <<processOf, lockFile, kind, result, jobDone, fresh, lockCallsLeft, lockMishaps>>

-----------------------------------------------------------------------------
(* ScopedFileLock(fn) and ScopedShareableFileLock(fn)                       *)
Acquire(c) ==
  /\ ~JobCall(c) /\ Goes(c, "lock", "hold")
  /\ Grantable(c, kind[c]) /\ Grant(c, kind[c])
  /\ UNCHANGED <<processOf, lockFile, kind, result, jobDone, fresh, lockCallsLeft, lockMishaps>>

Release(c) ==
  /\ Goes(c, "hold", "out")
  /\ Close(c)
  /\ result' = [result EXCEPT ![c] = "waited"]
  /\ UNCHANGED <<processOf, lockFile, kind, jobDone, fresh, lockCallsLeft, lockMishaps>>

(* A process ends anywhere, and the system drops its lock.                  *)
CrashProcess(p) ==
  /\ \E c \in Inside : processOf[c] = p
  /\ at' = [c \in Callers |-> IF processOf[c] = p THEN "out" ELSE at[c]]
  /\ result' = [c \in Callers |-> IF processOf[c] = p THEN "none" ELSE result[c]]
  /\ lockOf' = [lockOf EXCEPT ![p] = "none"]
  /\ lockMishaps' = lockMishaps \union
       {"crashed" : c \in {c \in Inside : processOf[c] = p /\ at[c] = "work"}}
  /\ UNCHANGED <<processOf, lockFile, kind, jobDone, fresh, lockCallsLeft>>

FileLockStep(c) ==
  \/ TestLockFile(c) \/ CreateLockFile(c)
  \/ TryLock(c) \/ Work(c) \/ WaitForHolder(c)
  \/ Acquire(c) \/ Release(c)

FileLockNext ==
  \/ \E c \in Callers : FileLockStep(c) \/ \E k \in Kinds : CallLock(c, k)
  \/ \E p \in Processes : CrashProcess(p)

FileLockSpec == FileLockInit /\ [][FileLockNext]_lockVars

-----------------------------------------------------------------------------
FileLockTypeOK ==
  /\ lockOf \in [Processes -> {"none", "shared", "exclusive"}]
  /\ at \in [Callers -> {"out", "test", "create", "lock", "work", "wait", "hold"}]
  /\ kind \in [Callers -> Kinds]
  /\ result \in [Callers -> {"none", "done", "threw", "refused", "waited"}]
  /\ lockMishaps \subseteq {"threads", "waiter", "holder", "threw", "crashed"}

Exclusive(c) == at[c] = "work" \/ (at[c] = "hold" /\ kind[c] # "shared")
Holding(c) == Exclusive(c) \/ at[c] = "hold"

(* While a job runs, or an exclusive lock is held, no other caller runs one *)
(* or holds a lock, whichever of them created the file and whatever process *)
(* ended, as long as one thread of each process uses the lock at a time     *)
(* (lock.h:95-171).                                                         *)
OneAtATime ==
  "threads" \notin lockMishaps =>
    /\ \A c, d \in Callers : Exclusive(c) /\ Holding(d) => c = d
    /\ \A c \in Callers : Exclusive(c) => lockOf[processOf[c]] = "exclusive"

(* "if we were not locked, we must wait until operation is completed"       *)
(* (lock.h:168): who returns from single_process_job knows that the job has *)
(* been completed, unless a job threw or its process ended, or the lock was *)
(* held by someone who did no job; and that it has been since the call      *)
(* began, unless the holder was itself one who had waited.  Again one      *)
(* thread of each process uses the lock at a time.                          *)
JobCompleted ==
  "threads" \notin lockMishaps => \A c \in Callers :
    at[c] = "out" /\ kind[c] = "job" /\ result[c] \in {"done", "waited"} =>
      /\ jobDone \/ lockMishaps \intersect {"threw", "crashed", "holder"} # {}
      /\ fresh[c] \/ lockMishaps \intersect {"threw", "crashed", "holder", "waiter"} # {}

(* The lock of a file does what its callers count on (lock.h:95-183).       *)
LocksRight == FileLockTypeOK /\ OneAtATime /\ JobCompleted
=============================================================================
