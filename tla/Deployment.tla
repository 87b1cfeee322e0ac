----------------------------- MODULE Deployment -----------------------------
(***************************************************************************)
(* The life of one service on remote hosts (deploy.h): deployed again and   *)
(* again, discarded, moved from host to host, with its data backed up on    *)
(* the way.  One operator calls; every step is a command on a host, which   *)
(* may fail and leaves the host as it is: nothing is rolled back.  A        *)
(* failure ends the call, but for commands that ask something: theirs is    *)
(* taken for an answer.  The service writes its data while it runs.         *)
(*                                                                         *)
(* Its data are a plain file, a nested one (in a subdirectory) and a        *)
(* database.  A value is a count of writes, 0 as it is installed.           *)
(***************************************************************************)
EXTENDS Integers, FiniteSets

CONSTANTS Hosts,
          MaxCalls,       (* bound: calls of the operator                    *)
          MaxWrites,      (* bound: writes of the service                    *)
          MaxMishaps      (* bound: commands that fail and hosts that restart *)

ASSUME DeploymentAssumption ==
  /\ Hosts # {}
  /\ MaxCalls \in Nat /\ MaxWrites \in Nat /\ MaxMishaps \in Nat

VARIABLES config,         (* [db: postgres_db, once: the plain file is one of
                             deploy_files_once, similar: hosts with an account
                             whose name begins with the service's]           *)
          host,           (* what is on each; runs: the program of the
                             service's process, which need not be prog       *)
          dataOn,         (* and the data there                              *)
          args,           (* the flags of deploy_single_target_args          *)
          call,           (* the call: kind, host, and where a move goes     *)
          step, firstTime,
          latestBackup,
          calls, writes, mishaps,
          saved,          (* ghost: values some backup holds                 *)
          lost,           (* ghost: steps that replaced what no backup holds *)
          good,           (* ghost: the last program that ran, how many
                             deployments were begun after it, and whether
                             one of them overlooked an old program           *)
          woken           (* ghost: the service runs, or ran, through this
                             call with its host restarted after the stop of
                             this or an earlier discard, before the disable  *)

deploymentVars == <<config, host, dataOn, args, call, step, firstTime, latestBackup,
                    calls, writes, mishaps, saved, lost, good, woken>>
ghosts == <<saved, lost, good, woken>>
about == <<config, args, call, calls, writes, mishaps>>

None == -1
DataFiles == {"plain", "nested"}
DataKinds == DataFiles \union {"db"}
NoData == [k \in DataKinds |-> None]
NeverRan == [prog |-> None, later |-> 0, overlooked |-> FALSE]

DeploymentInit ==
  /\ config \in [db : BOOLEAN, once : BOOLEAN, similar : {{}, Hosts}]
  /\ host = [h \in Hosts |-> [user |-> FALSE, unit |-> FALSE, enabled |-> FALSE, runs |-> None,
                              prog |-> None, bak |-> None, role |-> FALSE]]
  /\ dataOn = [h \in Hosts |-> NoData]
  /\ args = [restore |-> FALSE, stopOnly |-> FALSE]
  /\ call = [kind |-> "none", on |-> CHOOSE h \in Hosts : TRUE, to |-> CHOOSE h \in Hosts : TRUE]
  /\ step = "done" /\ firstTime = FALSE
  /\ latestBackup = NoData
  /\ calls = 0 /\ writes = 0 /\ mishaps = 0
  /\ saved = {} /\ lost = {}
  /\ good = [h \in Hosts |-> NeverRan]
  /\ woken = FALSE

-----------------------------------------------------------------------------
(* The service, the hosts and the operator                                  *)

Write(h) ==
  /\ host[h].runs # None /\ writes < MaxWrites
  /\ writes' = writes + 1
  /\ dataOn' = [dataOn EXCEPT ![h] =
       [k \in DataKinds |-> IF k \in DataFiles \/ @[k] # None THEN writes + 1 ELSE @[k]]]
  /\ UNCHANGED <<config, host, args, call, step, firstTime, latestBackup, calls, mishaps, ghosts>>

(* An enabled service is started when its host starts, and no other.        *)
HostRestarts(h) ==
  /\ mishaps < MaxMishaps
  /\ mishaps' = mishaps + 1
  /\ host' = [host EXCEPT ![h].runs = IF host[h].enabled THEN host[h].prog ELSE None]
  /\ host' # host
  /\ woken' = (woken \/ (h = call.on /\ step = "disable" /\ host'[h].runs # None))
  /\ UNCHANGED <<config, dataOn, args, call, step, firstTime, latestBackup, calls, writes,
                 saved, lost, good>>

NoCall == step \in {"done", "failed"}
BeginCall(kind, h, to, flags) ==
  /\ NoCall /\ calls < MaxCalls
  /\ calls' = calls + 1
  /\ call' = [kind |-> kind, on |-> h, to |-> to]
  /\ args' = flags
  /\ woken' = (host[h].runs # None /\ ~host[h].enabled)
  /\ UNCHANGED <<config, host, dataOn, firstTime, latestBackup, writes, mishaps, saved, lost>>

(* A deployment that has begun is one more after the last good one.         *)
Later(h) == good' = [good EXCEPT ![h].later = @ + 1]

DeploySingleTarget(h) == BeginCall("deploy", h, h, args) /\ step' = "user" /\ Later(h)
DiscardSingleTarget(h) == BeginCall("discard", h, h, args) /\ step' = "is_there" /\ UNCHANGED good

(* move_to: a discard that only stops the service, then a deployment from   *)
(* its backup.  The flags stay in the arguments.                            *)
MoveTo(h, to) ==
  /\ h # to
  /\ BeginCall("move", h, to, [args EXCEPT !.stopOnly = TRUE])
  /\ step' = "is_there"
  /\ UNCHANGED good

(* The next step, on the same host, of the same call.                       *)
GoOn(s) == step' = s
Host == call.on
HasUser(h) == host[h].user \/ h \in config.similar

(* Data that is replaced or deleted, and what is lost with it.              *)
Replacing == IF woken /\ call.kind = "discard" THEN <<"woken", step>> ELSE <<call.kind, step>>
DataSet(new) ==
  /\ dataOn' = [dataOn EXCEPT ![Host] = new]
  /\ lost' = IF \E k \in DataKinds : /\ dataOn[Host][k] > 0 /\ new[k] # dataOn[Host][k]
                                     /\ <<k, dataOn[Host][k]>> \notin saved
             THEN lost \union {Replacing} ELSE lost

(* The end of a call.  The first half of a move goes on at the other host.  *)
Finish ==
  IF call.kind = "move"
  THEN /\ call' = [kind |-> "arrive", on |-> call.to, to |-> call.on]
       /\ args' = [args EXCEPT !.restore = TRUE]
       /\ step' = "user"
       /\ Later(call.to)
  ELSE step' = "done" /\ UNCHANGED <<call, args, good>>

(* A command returns an error: run_command throws and the call is over.     *)
CommandFails ==
  /\ ~NoCall /\ step # "finish" /\ mishaps < MaxMishaps
  /\ mishaps' = mishaps + 1
  /\ step' = "failed"
  /\ UNCHANGED <<config, host, dataOn, args, call, firstTime, latestBackup, calls, writes, ghosts>>

(* status() does not throw, and exists() catches: when such a command       *)
(* returns an error, a service that runs is taken for one that does not, or *)
(* one that is missing for one that is there, and a program that is there   *)
(* is overlooked; and the call goes on.                                     *)
Misread(s, next) ==
  /\ step = s /\ mishaps < MaxMishaps
  /\ mishaps' = mishaps + 1
  /\ step' = next
  /\ good' = [good EXCEPT ![Host].overlooked =
                 @ \/ (s = "old_program" /\ host[Host].prog # None)]
  /\ UNCHANGED <<config, host, dataOn, args, call, firstTime, latestBackup, calls, writes,
                 saved, lost, woken>>

-----------------------------------------------------------------------------
(* deploy_single_target                                                     *)

Keeps == UNCHANGED <<dataOn, latestBackup, about, ghosts>>
Deploying(s) == step = s /\ call.kind \in {"deploy", "arrive"}

CreateUser ==
  /\ Deploying("user")
  /\ firstTime' = ~HasUser(Host)
  /\ host' = [host EXCEPT ![Host].user = @ \/ ~HasUser(Host)]
  /\ GoOn("stop") /\ Keeps

(* The status of a service that runs is 0: it is stopped.  That of one that *)
(* does not exist is 4.                                                     *)
StopOld ==
  /\ Deploying("stop")
  /\ host' = [host EXCEPT ![Host].runs = None]
  /\ GoOn("status") /\ UNCHANGED firstTime /\ Keeps
StatusOld ==
  /\ Deploying("status")
  /\ firstTime' = (firstTime \/ ~host[Host].unit)
  /\ GoOn("old_program") /\ UNCHANGED host /\ Keeps

MoveOldProgram ==
  /\ Deploying("old_program")
  /\ host' = IF host[Host].prog # None
             THEN [host EXCEPT ![Host].bak = host[Host].prog, ![Host].prog = None] ELSE host
  /\ GoOn("program") /\ UNCHANGED firstTime /\ Keeps

(* The new program, and whether there is a backup to make or to restore.    *)
AfterProgram == IF args.restore THEN "restore" ELSE IF firstTime THEN "once" ELSE "backup"
CopyProgram ==
  /\ Deploying("program")
  /\ IF host[Host].user
     THEN host' = [host EXCEPT ![Host].prog = calls] /\ GoOn(AfterProgram)
     ELSE GoOn("failed") /\ UNCHANGED host
  /\ UNCHANGED firstTime /\ Keeps

(* Files of the backup that are there are copied; a nested file is not at   *)
(* its path there, as it was saved under its last name.                     *)
Restore ==
  /\ Deploying("restore")
  /\ DataSet([dataOn[Host] EXCEPT !["plain"] =
       IF latestBackup["plain"] # None THEN latestBackup["plain"] ELSE @])
  /\ GoOn("once") /\ UNCHANGED <<host, firstTime, latestBackup, about, saved, good, woken>>

(* deploy_files_once comes after the restored files.                        *)
CopyOnceAlways ==
  /\ Deploying("once")
  /\ DataSet([dataOn[Host] EXCEPT !["plain"] = IF config.once THEN 0 ELSE @])
  /\ GoOn(IF config.db THEN "role" ELSE "unit")
  /\ UNCHANGED <<host, firstTime, latestBackup, about, saved, good, woken>>
CopyOnce ==
  /\ Deploying("once")
  /\ DataSet([dataOn[Host] EXCEPT !["plain"] = IF config.once /\ firstTime THEN 0 ELSE @])
  /\ GoOn(IF config.db THEN "role" ELSE "unit")
  /\ UNCHANGED <<host, firstTime, latestBackup, about, saved, good, woken>>

(* The database is created with its user, when there is no such user.       *)
CreateRole ==
  /\ Deploying("role")
  /\ host' = [host EXCEPT ![Host].role = TRUE]
  /\ GoOn(IF host[Host].role THEN "unit" ELSE "database")
  /\ UNCHANGED firstTime /\ Keeps
CreateDatabase ==
  /\ Deploying("database")
  /\ DataSet([dataOn[Host] EXCEPT !["db"] = IF @ = None THEN 0 ELSE @])
  /\ GoOn("unit") /\ UNCHANGED <<host, firstTime, latestBackup, about, saved, good, woken>>

(* new_simple_service_auto: the unit, enable, start, and the status after.  *)
AddToSystem ==
  /\ Deploying("unit")
  /\ host' = [host EXCEPT ![Host].unit = TRUE]
  /\ GoOn("enable") /\ UNCHANGED firstTime /\ Keeps
EnableService ==
  /\ Deploying("enable")
  /\ host' = [host EXCEPT ![Host].enabled = TRUE]
  /\ GoOn("start") /\ UNCHANGED firstTime /\ Keeps
(* restart of a service that runs, start of one that does not.              *)
StartService ==
  /\ Deploying("start")
  /\ host' = [host EXCEPT ![Host].runs = host[Host].prog]
  /\ GoOn("check") /\ UNCHANGED firstTime /\ Keeps
CheckService ==
  /\ Deploying("check")
  /\ good' = IF host[Host].runs = host[Host].prog
             THEN [good EXCEPT ![Host] = [NeverRan EXCEPT !.prog = host[Host].prog]] ELSE good
  /\ GoOn("done")
  /\ UNCHANGED <<host, firstTime, dataOn, latestBackup, about, saved, lost, woken>>
(* It did not come up, or its status could not be had: it is stopped.       *)
GiveUp ==
  /\ Deploying("give_up")
  /\ host' = [host EXCEPT ![Host].runs = None]
  /\ GoOn("failed") /\ UNCHANGED firstTime /\ Keeps

(* The answers that are misread; a service that runs is not started again.  *)
CannotAsk ==
  \/ Misread("stop", "status") \/ Misread("status", "old_program")
  \/ Misread("old_program", "program")
  \/ host[Host].runs # None /\ Misread("start", "check")
CannotStart == Misread("check", "give_up")

-----------------------------------------------------------------------------
(* backup_service_data: a new directory, the files one by one, a dump of    *)
(* the database.  What is not there cannot be copied.                       *)

AfterBackup == IF call.kind = "deploy" THEN "once"
               ELSE IF args.stopOnly THEN "finish"
               ELSE IF config.db THEN "drop_database" ELSE "delete_user"

NewBackup ==
  /\ step = "backup"
  /\ latestBackup' = NoData
  /\ GoOn("plain")
  /\ UNCHANGED <<host, dataOn, firstTime, about, ghosts>>

Copy(k, next) ==
  /\ step = k
  /\ IF dataOn[Host][k] # None
     THEN /\ latestBackup' = [latestBackup EXCEPT ![k] = dataOn[Host][k]]
          /\ saved' = saved \union {<<k, dataOn[Host][k]>>}
          /\ GoOn(next)
     ELSE GoOn("failed") /\ UNCHANGED <<latestBackup, saved>>
  /\ UNCHANGED <<host, dataOn, firstTime, about, lost, good, woken>>
CopyPlain == Copy("plain", "nested")
CopyNested == Copy("nested", IF config.db THEN "db" ELSE AfterBackup)
Dump == Copy("db", AfterBackup)

-----------------------------------------------------------------------------
(* discard_single_target: nothing without the user; else the service is     *)
(* stopped, which fails when there is none, or deleted.                     *)

IsThere ==
  /\ step = "is_there"
  /\ \/ /\ ~HasUser(Host)
        /\ GoOn("finish")
     \/ /\ HasUser(Host)
        /\ GoOn(IF args.stopOnly \/ host[Host].unit THEN "stop_service" ELSE "delete_unit")
  /\ UNCHANGED <<host, firstTime>> /\ Keeps

StopService ==
  /\ step = "stop_service"
  /\ IF host[Host].unit
     THEN host' = [host EXCEPT ![Host].runs = None] /\ woken' = FALSE /\ GoOn("disable")
     ELSE GoOn("failed") /\ UNCHANGED <<host, woken>>
  /\ UNCHANGED <<dataOn, firstTime, latestBackup, about, saved, lost, good>>

(* Only then is it disabled; a service that has come up again runs on.      *)
StillEnabled(h) == host
Disabled(h) == [host EXCEPT ![h].enabled = FALSE]
DisableService ==
  /\ step = "disable"
  /\ host' = Disabled(Host)
  /\ GoOn(IF args.stopOnly THEN "backup" ELSE "delete_unit")
  /\ UNCHANGED firstTime /\ Keeps

DeleteUnit ==
  /\ step = "delete_unit"
  /\ host' = [host EXCEPT ![Host].unit = FALSE]
  /\ GoOn("backup") /\ UNCHANGED firstTime /\ Keeps

(* A database or a user that is not there cannot be dropped, nor a user     *)
(* with a process; a database cannot while somebody is connected to it.     *)
DropDatabase ==
  /\ step = "drop_database"
  /\ \/ /\ dataOn[Host]["db"] # None
        /\ DataSet([dataOn[Host] EXCEPT !["db"] = None]) /\ GoOn("drop_role")
     \/ /\ dataOn[Host]["db"] = None \/ host[Host].runs # None
        /\ GoOn("failed") /\ UNCHANGED <<dataOn, lost>>
  /\ UNCHANGED <<host, firstTime, latestBackup, about, saved, good, woken>>
DropRole ==
  /\ step = "drop_role"
  /\ host' = [host EXCEPT ![Host].role = FALSE]
  /\ GoOn(IF host[Host].role THEN "delete_user" ELSE "failed")
  /\ UNCHANGED firstTime /\ Keeps

DeleteUser ==
  /\ step = "delete_user"
  /\ IF host[Host].user /\ host[Host].runs = None
     THEN /\ host' = [host EXCEPT ![Host].user = FALSE, ![Host].prog = None, ![Host].bak = None]
          /\ DataSet([dataOn[Host] EXCEPT !["plain"] = None, !["nested"] = None])
          /\ good' = [good EXCEPT ![Host] = NeverRan]
          /\ GoOn("finish")
     ELSE GoOn("failed") /\ UNCHANGED <<host, dataOn, lost, good>>
  /\ UNCHANGED <<firstTime, latestBackup, about, saved, woken>>

EndCall ==
  /\ step = "finish"
  /\ Finish
  /\ UNCHANGED <<config, host, dataOn, firstTime, latestBackup, calls, writes, mishaps, saved, lost,
                 woken>>

DeploymentNext ==
  \/ \E h \in Hosts : Write(h) \/ HostRestarts(h) \/ DeploySingleTarget(h) \/ DiscardSingleTarget(h)
  \/ \E h, to \in Hosts : MoveTo(h, to)
  \/ CommandFails
  \/ CreateUser \/ StopOld \/ StatusOld \/ MoveOldProgram \/ CopyProgram \/ Restore \/ CopyOnce
  \/ CreateRole \/ CreateDatabase \/ AddToSystem \/ EnableService \/ StartService \/ CheckService
  \/ GiveUp \/ CannotAsk \/ CannotStart
  \/ NewBackup \/ CopyPlain \/ CopyNested \/ Dump
  \/ IsThere \/ StopService \/ DisableService \/ DeleteUnit
  \/ DropDatabase \/ DropRole \/ DeleteUser \/ EndCall

-----------------------------------------------------------------------------
DeploymentTypeOK ==
  /\ step \in {"done", "failed", "user", "stop", "status", "old_program", "program", "restore",
               "once", "role", "database", "unit", "enable", "start", "check", "give_up", "backup",
               "is_there", "stop_service", "disable", "delete_unit", "drop_database", "drop_role",
               "delete_user", "finish"} \union DataKinds
  /\ call.kind \in {"none", "deploy", "discard", "move", "arrive"}
  /\ \A h \in Hosts : host[h].runs # None => host[h].prog # None \/ host[h].bak # None

(* Nothing the service wrote is overwritten or deleted before a backup      *)
(* holds it, whatever fails and wherever a call stops, with four            *)
(* exceptions: the backup of a move is restored over the data of a host     *)
(* that has its own; the flags of a move stay in the arguments, so that a   *)
(* later deployment restores it again, over everything written since; after *)
(* a discard that failed half way the host is taken for new, and gets the   *)
(* files deployed once; and a host that restarts after the service was      *)
(* stopped and before it is disabled has it running, and writing, through   *)
(* the rest of the call (deploy.h:2331-2378, 2443-2444, 2475-2480).         *)
NothingLost ==
  LET taken == {<<"deploy", "once">>, <<"arrive", "once">>}
      woke == {<<"woken", "drop_database">>, <<"woken", "delete_user">>}
  IN
  /\ lost \subseteq {<<"arrive", "restore">>, <<"deploy", "restore">>} \union taken \union woke
  /\ lost \intersect taken # {} => config.once /\ mishaps > 0

(* A service that was moved does not run where it was, also when the host   *)
(* restarts, unless it restarted between the stop and the disable; and it   *)
(* goes on with the plain file it had, unless that is one of the files      *)
(* deployed once, to a host that is new to it, which replace the restored   *)
(* ones.  Nested files and the database stay behind.                        *)
MovedWhole ==
  call.kind = "arrive" /\ step = "start" =>
    /\ ~host[call.to].enabled
    /\ ~woken => host[call.to].runs = None
    /\ LET restored == /\ host[call.to].user /\ ~woken /\ ~(config.once /\ firstTime)
                       /\ mishaps = 0 \/ dataOn[call.to]["plain"] = writes
       IN  restored => dataOn[Host]["plain"] = dataOn[call.to]["plain"]

(* A deployment that returns has left its own program, running, with a unit *)
(* that starts it and a database if it wants one; one that throws, or a     *)
(* discard, met a command that failed, a similar account taken for the      *)
(* service's, or no file to back up (deploy.h:1946-1953, 2329, 625-640).    *)
DeployedRuns ==
  /\ step = "done" /\ call.kind \in {"deploy", "arrive"} /\ mishaps = 0 =>
       /\ host[Host].unit /\ host[Host].enabled
       /\ host[Host].runs = calls /\ host[Host].prog = calls
       /\ config.db => dataOn[Host]["db"] # None
  /\ step = "failed" /\ mishaps = 0 =>
       \/ Host \in config.similar /\ ~host[Host].user
       \/ \E k \in DataFiles : dataOn[Host][k] = None

(* The last program that ran is kept on the host, as it is or as a .bak,    *)
(* until the second deployment after it, whatever fails but the ls that     *)
(* looks for it: that makes the first deployment overwrite it               *)
(* (deploy.h:2092-2099, 2303-2306).                                         *)
GoodProgramKept ==
  \A h \in Hosts : good[h].prog # None /\ good[h].later <= 1 /\ ~good[h].overlooked =>
    good[h].prog \in {host[h].prog, host[h].bak}
=============================================================================
