-------------------------- MODULE DeploymentProofs --------------------------
(***************************************************************************)
(* Theorems about what is done on remote hosts, in MCProcesses: deployments *)
(* of a service, the users that commands run as, and the files and reboots  *)
(* of hosts; for any hosts and accounts, any number of calls, writes and    *)
(* commands, and any of the mishaps.  Each has an inductive invariant,      *)
(* facts that its initial states and its steps keep it (XStarts, XSteps),   *)
(* and one that it says what is checked (XMeans); the theorem is at the     *)
(* end.                                                                     *)
(***************************************************************************)
EXTENDS MCProcesses, FiniteSetTheorems, SequenceTheorems, TLAPS

-----------------------------------------------------------------------------
(* Deployments.  How far a call has come says what is on its host, and in   *)
(* the backup.                                                              *)

CallKinds == {"none", "deploy", "discard", "move", "arrive"}
FirstSteps == {"stop", "status", "old_program", "program"}
LastSteps == {"role", "database", "unit", "enable", "start", "check", "give_up"}
BackupSteps == {"backup", "plain", "nested", "db"}
DropSteps == {"drop_database", "drop_role", "delete_user"}
OtherSteps == {"user", "restore", "once", "is_there", "stop_service", "disable", "delete_unit", "finish"}
DeploymentSteps == FirstSteps \union LastSteps \union BackupSteps \union DropSteps \union OtherSteps
ServiceHosts == [user : BOOLEAN, unit : BOOLEAN, enabled : BOOLEAN, runs : Int,
                 prog : Int, bak : Int, role : BOOLEAN]

(* The values of the state.                                                 *)
ServiceState ==
  /\ config \in [db : BOOLEAN, once : BOOLEAN, similar : SUBSET Hosts]
  /\ host \in [Hosts -> ServiceHosts]
  /\ dataOn \in [Hosts -> [DataKinds -> Int]]
  /\ args \in [restore : BOOLEAN, stopOnly : BOOLEAN]
  /\ call \in [kind : CallKinds, on : Hosts, to : Hosts]
  /\ step \in DeploymentSteps \union {"done", "failed"}
  /\ firstTime \in BOOLEAN
  /\ latestBackup \in [DataKinds -> Int]
  /\ calls \in Nat /\ writes \in Nat /\ mishaps \in Nat
  /\ good \in [Hosts -> [prog : Int, later : Nat, overlooked : BOOLEAN]]
  /\ woken \in BOOLEAN

(* What runs has its program, what is enabled has a unit, and so on to the  *)
(* user who owns all of it; what no backup holds was written before now.    *)
HostRight(h) ==
  /\ host[h].runs # None => host[h].prog # None \/ host[h].bak # None
  /\ host[h].enabled => host[h].unit
  /\ host[h].unit \/ host[h].prog # None \/ host[h].bak # None \/ dataOn[h]["plain"] # None =>
       host[h].user
  /\ dataOn[h]["nested"] # None => dataOn[h]["plain"] # None
  /\ dataOn[h]["db"] # None => host[h].role
  /\ dataOn[h]["plain"] <= writes
ServiceHostsRight == \A h \in Hosts : HostRight(h)

(* Which steps are those of which call.                                     *)
CallRight ==
  /\ step \in FirstSteps \union LastSteps \union {"user", "restore", "once"} => call.kind \in {"deploy", "arrive"}
  /\ step \in BackupSteps => call.kind \in {"deploy", "discard", "move"}
  /\ step \in {"is_there", "stop_service", "disable", "finish"} => call.kind \in {"discard", "move"}
  /\ step \in DropSteps \union {"delete_unit"} => call.kind = "discard" /\ ~args.stopOnly
  /\ call.kind = "move" => args.stopOnly /\ call.on # call.to
  /\ call.kind = "arrive" => args.restore /\ call.on # call.to

(* How far a deployment has come on its host.                               *)
DeployingRight ==
  /\ step \in FirstSteps => HasUser(Host)
  /\ step \in FirstSteps \union {"restore", "once"} /\ firstTime => ~host[Host].unit
  /\ step \in LastSteps \union {"restore", "once"} => host[Host].user /\ host[Host].prog = calls
  /\ step \in LastSteps \union {"restore", "once"} => calls # None
  /\ step \in BackupSteps /\ call.kind = "deploy" =>
       host[Host].user /\ host[Host].prog = calls /\ calls # None /\ ~firstTime
  /\ step = "database" => host[Host].role
  /\ step \in {"enable", "start", "check"} => host[Host].unit
  /\ step \in {"start", "check"} => host[Host].enabled

(* A service that is discarded or moved does not run, unless it was woken,  *)
(* and then what is deleted is in the backup.                               *)
DiscardRight ==
  /\ step \in {"is_there", "stop_service"} /\ ~host[Host].enabled => host[Host].runs = None \/ woken
  /\ step \in BackupSteps \union DropSteps \union {"disable", "delete_unit"} /\ call.kind # "deploy" =>
       host[Host].runs = None \/ woken
  /\ step \in BackupSteps \union DropSteps \union {"delete_unit"} /\ call.kind # "deploy" => ~host[Host].enabled
  /\ step \in BackupSteps \union DropSteps /\ call.kind = "discard" /\ ~args.stopOnly => ~host[Host].unit
  /\ step \in {"nested", "db"} \union DropSteps /\ call.kind # "deploy" =>
       dataOn[Host]["plain"] # None /\ (<<"plain", dataOn[Host]["plain"]>> \in saved \/ woken)
  /\ step = "db" => config.db
  /\ step \in {"db"} \union DropSteps => dataOn[Host]["nested"] # None
  /\ step \in {"db"} \union DropSteps /\ call.kind # "deploy" =>
       <<"nested", dataOn[Host]["nested"]>> \in saved \/ woken
  /\ step = "drop_database" =>
       dataOn[Host]["db"] # None /\ (<<"db", dataOn[Host]["db"]>> \in saved \/ woken)
  /\ step = "drop_role" => host[Host].role /\ dataOn[Host]["db"] = None

(* The backup holds what was saved, and that of a move what its host has,   *)
(* which keeps it, and does not run, unless it was woken.                   *)
BackupRight ==
  /\ \A k \in DataKinds : latestBackup[k] # None => <<k, latestBackup[k]>> \in saved
  /\ latestBackup["plain"] <= writes
  /\ call.kind = "move" /\ step \in {"nested", "db"} =>
       latestBackup["plain"] # None /\ (latestBackup["plain"] = dataOn[Host]["plain"] \/ woken)
  /\ call.kind = "move" /\ step = "finish" =>
       /\ ~host[Host].enabled /\ (host[Host].runs = None \/ woken)
       /\ host[Host].user => /\ latestBackup["plain"] # None
                             /\ latestBackup["plain"] = dataOn[Host]["plain"] \/ woken
  /\ call.kind = "arrive" /\ step \notin {"done", "failed"} =>
       /\ ~host[call.to].enabled /\ (host[call.to].runs = None \/ woken)
       /\ host[call.to].user => /\ latestBackup["plain"] # None
                                /\ latestBackup["plain"] = dataOn[call.to]["plain"] \/ woken
  /\ call.kind = "arrive" /\ step \in {"once", "role", "database", "unit", "enable", "start"} =>
       \/ ~host[call.to].user \/ woken
       \/ config.once /\ firstTime
       \/ mishaps > 0 /\ dataOn[call.to]["plain"] # writes
       \/ dataOn[Host]["plain"] = dataOn[call.to]["plain"]

(* When nothing has failed and no host has restarted.                       *)
Unharmed(h) ==
  /\ host[h].runs # None => host[h].enabled
  /\ ~host[h].unit =>
       \/ dataOn[h]["plain"] <= 0
       \/ <<"plain", dataOn[h]["plain"]>> \in saved
       \/ h = Host /\ call.kind = "discard" /\ ~args.stopOnly /\ step \in {"backup", "plain"}
  /\ ~host[h].unit =>
       \/ dataOn[h]["nested"] = None
       \/ h = Host /\ call.kind = "discard" /\ ~args.stopOnly /\ step \in BackupSteps \union DropSteps
  /\ config.db /\ (host[h].runs # None \/ dataOn[h]["nested"] # None) =>
       \/ dataOn[h]["db"] # None
       \/ h = Host /\ step \in {"drop_role", "delete_user"}
  /\ host[h].role => \/ dataOn[h]["db"] # None
                     \/ h = Host /\ step \in {"database", "drop_role"}
CalmRight ==
  mishaps = 0 =>
    /\ ~woken /\ step # "give_up"
    /\ \A h \in Hosts : Unharmed(h)
    /\ step \in {"status", "old_program", "program", "restore", "once", "role", "database", "unit",
                 "enable", "start"} \union BackupSteps => host[Host].runs = None
    /\ step = "check" => host[Host].runs = calls
    /\ step \in {"unit", "enable", "start", "check"} /\ config.db => dataOn[Host]["db"] # None
    /\ step = "failed" => host[Host].runs = None
    /\ DeployedRuns

(* Where the last program that ran is, unless it was overlooked.            *)
GoodRight ==
  /\ \A h \in Hosts : good[h].prog # None /\ ~good[h].overlooked =>
       /\ good[h].later = 0 => host[h].prog = good[h].prog
       /\ good[h].later = 1 => good[h].prog \in {host[h].prog, host[h].bak}
  /\ step \in FirstSteps \union LastSteps \union {"user", "restore", "once"} => good[Host].later > 0
  /\ step \in BackupSteps /\ call.kind = "deploy" => good[Host].later > 0
  /\ good[Host].prog # None /\ good[Host].later = 1 /\ ~good[Host].overlooked =>
       /\ step \in {"user", "stop", "status", "old_program"} => host[Host].prog = good[Host].prog
       /\ step \in LastSteps \union {"program", "restore", "once"} => host[Host].bak = good[Host].prog
       /\ step \in BackupSteps /\ call.kind = "deploy" => host[Host].bak = good[Host].prog

DeploymentInv ==
  /\ ServiceState /\ ServiceHostsRight /\ CallRight /\ DeployingRight /\ DiscardRight
  /\ BackupRight /\ CalmRight /\ GoodRight /\ NothingLost

-----------------------------------------------------------------------------
(* A field of a host is changed, and nothing else of the hosts.             *)
LEMMA HostSet ==
  ASSUME host \in [Hosts -> ServiceHosts], NEW h \in Hosts, NEW r \in ServiceHosts,
         host' = [host EXCEPT ![h] = r]
  PROVE  host' \in [Hosts -> ServiceHosts] /\ host'[h] = r /\ \A i \in Hosts : i # h => host'[i] = host[i]
OBVIOUS

(* No call has begun, and nothing is installed.                             *)
LEMMA DeploymentStarts == DeploymentInit => DeploymentInv
<1> SUFFICES ASSUME DeploymentInit PROVE DeploymentInv
  OBVIOUS
<1> USE DEF DeploymentInit
<1>1. (CHOOSE h \in Hosts : TRUE) \in Hosts
  BY DeploymentAssumption
<1>2. /\ \A h \in Hosts : /\ ~host[h].user /\ ~host[h].unit /\ ~host[h].enabled /\ host[h].runs = None /\ ~host[h].role
                          /\ host[h].prog = None /\ host[h].bak = None /\ good[h].prog = None
      /\ \A h \in Hosts : \A k \in DataKinds : dataOn[h][k] = None
      /\ \A k \in DataKinds : latestBackup[k] = None
      /\ step = "done" /\ call.kind = "none" /\ None = -1 /\ Host \in Hosts
  BY <1>1 DEF NoData, Host, None, NeverRan
<1>3. ServiceState
  <2>1. NoData \in [DataKinds -> Int] /\ None \in Int
    BY DEF NoData, None
  <2>2. /\ host \in [Hosts -> ServiceHosts] /\ dataOn \in [Hosts -> [DataKinds -> Int]]
        /\ latestBackup \in [DataKinds -> Int] /\ good \in [Hosts -> [prog : Int, later : Nat, overlooked : BOOLEAN]]
    BY <2>1 DEF ServiceHosts, NeverRan
  <2>3. call \in [kind : CallKinds, on : Hosts, to : Hosts] /\ args \in [restore : BOOLEAN, stopOnly : BOOLEAN]
    BY <1>1 DEF CallKinds
  <2>4. /\ step \in {"done", "failed"} /\ firstTime \in BOOLEAN
        /\ calls \in Nat /\ writes \in Nat /\ mishaps \in Nat
        /\ config \in [db : BOOLEAN, once : BOOLEAN, similar : SUBSET Hosts]
    OBVIOUS
  <2> QED BY <2>2, <2>3, <2>4 DEF ServiceState
<1>4. ServiceHostsRight
  BY <1>2 DEF ServiceHostsRight, HostRight, DataKinds, DataFiles
<1>5. CallRight /\ DeployingRight /\ DiscardRight /\ BackupRight
  BY <1>2 DEF CallRight, DeployingRight, DiscardRight, BackupRight, FirstSteps, LastSteps, BackupSteps, DropSteps,
                  DataKinds, DataFiles
<1>6. CalmRight
  BY <1>2 DEF CalmRight, Unharmed, DeployedRuns, BackupSteps, DataKinds, DataFiles
<1>7. GoodRight
  BY <1>2 DEF GoodRight, FirstSteps, LastSteps, BackupSteps
<1>8. NothingLost
  BY DEF NothingLost
<1> QED BY <1>3, <1>4, <1>5, <1>6, <1>7, <1>8 DEF DeploymentInv

(* A value that is None is one of the data.                                 *)
LEMMA BackupValues == None \in Int /\ None = -1
BY DEF None

(* The account of the service is made where there is none of that name      *)
(* (deploy.h:1946-1973).                                                    *)
LEMMA CreateUserKeeps ==
  ASSUME DeploymentInv, CreateUser PROVE DeploymentInv'
<1>1. /\ step = "user" /\ step' = "stop" /\ call.kind \in {"deploy", "arrive"}
      /\ firstTime' = ~HasUser(Host)
      /\ UNCHANGED <<dataOn, latestBackup, config, args, call, calls, writes, mishaps, saved, lost, good, woken>>
      /\ host' = [host EXCEPT ![Host].user = (host[Host].user \/ ~HasUser(Host))]
  BY DEF CreateUser, Deploying, Keeps, about, ghosts, GoOn
<1>2. /\ ServiceState /\ ServiceHostsRight /\ CallRight /\ DeployingRight /\ DiscardRight
      /\ BackupRight /\ CalmRight /\ GoodRight /\ NothingLost
  BY DEF DeploymentInv
<1>3. Host \in Hosts /\ Host' = Host
  BY <1>1, <1>2 DEF ServiceState, Host
<1>4. /\ host' \in [Hosts -> ServiceHosts]
      /\ (host'[Host].user <=> (host[Host].user \/ ~HasUser(Host))) /\ host'[Host].unit = host[Host].unit
      /\ host'[Host].enabled = host[Host].enabled /\ host'[Host].runs = host[Host].runs
      /\ host'[Host].prog = host[Host].prog /\ host'[Host].bak = host[Host].bak
      /\ host'[Host].role = host[Host].role
      /\ \A i \in Hosts : i # Host => host'[i] = host[i]
  <2>1. host[Host] \in ServiceHosts /\ host \in [Hosts -> ServiceHosts]
    BY <1>2, <1>3 DEF ServiceState
  <2>3. PICK r : r = [host[Host] EXCEPT !.user = (host[Host].user \/ ~HasUser(Host))]
    OBVIOUS
  <2>4. /\ r \in ServiceHosts
        /\ (r.user <=> (host[Host].user \/ ~HasUser(Host))) /\ r.unit = host[Host].unit
        /\ r.enabled = host[Host].enabled /\ r.runs = host[Host].runs
        /\ r.prog = host[Host].prog /\ r.bak = host[Host].bak /\ r.role = host[Host].role
    BY <2>1, <2>3 DEF ServiceHosts
  <2>5. host' = [host EXCEPT ![Host] = r]
    BY <1>1, <2>1, <2>3
  <2>6. host' \in [Hosts -> ServiceHosts] /\ host'[Host] = r /\ \A i \in Hosts : i # Host => host'[i] = host[i]
    BY <1>3, <2>1, <2>4, <2>5, HostSet
  <2> QED BY <2>4, <2>6
<1>5. ServiceState'
  BY <1>1, <1>2, <1>3, <1>4 DEF ServiceState, DeploymentSteps, FirstSteps, LastSteps, BackupSteps,
     DropSteps, OtherSteps, CallKinds
<1>6. ServiceHostsRight'
  <2>1. ASSUME NEW i \in Hosts, i = Host PROVE HostRight(i)'
    BY <1>1, <1>2, <1>3, <1>4, <2>1 DEF ServiceHostsRight, HostRight
  <2>2. ASSUME NEW i \in Hosts, i # Host PROVE HostRight(i)'
    BY <1>1, <1>2, <1>3, <1>4, <2>2 DEF ServiceHostsRight, HostRight
  <2> QED BY <2>1, <2>2 DEF ServiceHostsRight
<1>7. CallRight'
  BY <1>1, <1>2, <1>3, <1>4 DEF CallRight, FirstSteps, LastSteps, BackupSteps, DropSteps
<1>8. DeployingRight'
  BY <1>1, <1>2, <1>3, <1>4 DEF DeployingRight, FirstSteps, LastSteps, BackupSteps, HasUser,
     ServiceHostsRight, HostRight
<1>9. DiscardRight'
  BY <1>1, <1>2, <1>3, <1>4 DEF DiscardRight, BackupSteps, DropSteps
<1>10. BackupRight'
  BY <1>1, <1>2, <1>3, <1>4 DEF BackupRight, CallRight, Host, LastSteps
<1>11. CalmRight'
  BY <1>1, <1>2, <1>3, <1>4 DEF CalmRight, Unharmed, DeployedRuns, BackupSteps, DropSteps, HasUser
<1>12. GoodRight'
  BY <1>1, <1>2, <1>3, <1>4 DEF GoodRight, FirstSteps, LastSteps, BackupSteps
<1>13. NothingLost'
  BY <1>1, <1>2, <1>3, <1>4 DEF NothingLost
<1> QED BY <1>5, <1>6, <1>7, <1>8, <1>9, <1>10, <1>11, <1>12, <1>13 DEF DeploymentInv

(* The old service is stopped (deploy.h:2285-2288).                         *)
LEMMA StopOldKeeps ==
  ASSUME DeploymentInv, StopOld PROVE DeploymentInv'
<1>1. /\ step = "stop" /\ step' = "status" /\ call.kind \in {"deploy", "arrive"}
      /\ UNCHANGED <<dataOn, firstTime, latestBackup, config, args, call, calls, writes, mishaps, saved, lost, good, woken>>
      /\ host' = [host EXCEPT ![Host].runs = None]
  BY DEF StopOld, Deploying, Keeps, about, ghosts, GoOn
<1>2. /\ ServiceState /\ ServiceHostsRight /\ CallRight /\ DeployingRight /\ DiscardRight
      /\ BackupRight /\ CalmRight /\ GoodRight /\ NothingLost
  BY DEF DeploymentInv
<1>3. Host \in Hosts /\ Host' = Host
  BY <1>1, <1>2 DEF ServiceState, Host
<1>4. /\ host' \in [Hosts -> ServiceHosts]
      /\ host'[Host].user = host[Host].user /\ host'[Host].unit = host[Host].unit
      /\ host'[Host].enabled = host[Host].enabled /\ host'[Host].runs = None
      /\ host'[Host].prog = host[Host].prog /\ host'[Host].bak = host[Host].bak
      /\ host'[Host].role = host[Host].role
      /\ \A i \in Hosts : i # Host => host'[i] = host[i]
  <2>1. host[Host] \in ServiceHosts /\ host \in [Hosts -> ServiceHosts]
    BY <1>2, <1>3 DEF ServiceState
  <2>3. PICK r : r = [host[Host] EXCEPT !.runs = None]
    OBVIOUS
  <2>4. /\ r \in ServiceHosts
        /\ r.user = host[Host].user /\ r.unit = host[Host].unit
        /\ r.enabled = host[Host].enabled /\ r.runs = None
        /\ r.prog = host[Host].prog /\ r.bak = host[Host].bak /\ r.role = host[Host].role
    BY <2>1, <2>3, BackupValues DEF ServiceHosts
  <2>5. host' = [host EXCEPT ![Host] = r]
    BY <1>1, <2>1, <2>3
  <2>6. host' \in [Hosts -> ServiceHosts] /\ host'[Host] = r /\ \A i \in Hosts : i # Host => host'[i] = host[i]
    BY <1>3, <2>1, <2>4, <2>5, HostSet
  <2> QED BY <2>4, <2>6
<1>5. ServiceState'
  BY <1>1, <1>2, <1>3, <1>4 DEF ServiceState, DeploymentSteps, FirstSteps, LastSteps, BackupSteps,
     DropSteps, OtherSteps, CallKinds
<1>6. ServiceHostsRight'
  BY <1>1, <1>2, <1>3, <1>4 DEF ServiceHostsRight, HostRight
<1>7. CallRight'
  BY <1>1, <1>2, <1>3, <1>4 DEF CallRight, FirstSteps, LastSteps, BackupSteps, DropSteps
<1>8. DeployingRight'
  BY <1>1, <1>2, <1>3, <1>4 DEF DeployingRight, FirstSteps, LastSteps, BackupSteps, HasUser
<1>9. DiscardRight'
  BY <1>1, <1>2, <1>3, <1>4 DEF DiscardRight, BackupSteps, DropSteps
<1>10. BackupRight'
  BY <1>1, <1>2, <1>3, <1>4 DEF BackupRight, CallRight, Host, LastSteps
<1>11. CalmRight'
  BY <1>1, <1>2, <1>3, <1>4 DEF CalmRight, Unharmed, DeployedRuns, BackupSteps, DropSteps
<1>12. GoodRight'
  BY <1>1, <1>2, <1>3, <1>4 DEF GoodRight, FirstSteps, LastSteps, BackupSteps
<1>13. NothingLost'
  BY <1>1, <1>2, <1>3, <1>4 DEF NothingLost
<1> QED BY <1>5, <1>6, <1>7, <1>8, <1>9, <1>10, <1>11, <1>12, <1>13 DEF DeploymentInv

(* A service that does not exist is installed for the first time            *)
(* (deploy.h:2289-2291).                                                    *)
LEMMA StatusOldKeeps ==
  ASSUME DeploymentInv, StatusOld PROVE DeploymentInv'
<1>1. /\ step = "status" /\ step' = "old_program" /\ call.kind \in {"deploy", "arrive"}
      /\ firstTime' = (firstTime \/ ~host[Host].unit)
      /\ UNCHANGED <<host, dataOn, latestBackup, config, args, call, calls, writes, mishaps, saved, lost, good, woken>>
  BY DEF StatusOld, Deploying, Keeps, about, ghosts, GoOn
<1>2. /\ ServiceState /\ ServiceHostsRight /\ CallRight /\ DeployingRight /\ DiscardRight
      /\ BackupRight /\ CalmRight /\ GoodRight /\ NothingLost
  BY DEF DeploymentInv
<1>3. Host \in Hosts /\ Host' = Host
  BY <1>1, <1>2 DEF ServiceState, Host
<1>4. ServiceState'
  BY <1>1, <1>2, <1>3 DEF ServiceState, DeploymentSteps, FirstSteps, LastSteps, BackupSteps,
     DropSteps, OtherSteps, CallKinds
<1>5. ServiceHostsRight'
  BY <1>1, <1>2, <1>3 DEF ServiceHostsRight, HostRight
<1>6. CallRight'
  BY <1>1, <1>2, <1>3 DEF CallRight, FirstSteps, LastSteps, BackupSteps, DropSteps
<1>7. DeployingRight'
  BY <1>1, <1>2, <1>3 DEF DeployingRight, FirstSteps, LastSteps, BackupSteps, HasUser
<1>8. DiscardRight'
  BY <1>1, <1>2, <1>3 DEF DiscardRight, BackupSteps, DropSteps
<1>9. BackupRight'
  BY <1>1, <1>2, <1>3 DEF BackupRight, CallRight, Host, LastSteps
<1>10. CalmRight'
  BY <1>1, <1>2, <1>3 DEF CalmRight, Unharmed, DeployedRuns, BackupSteps, DropSteps
<1>11. GoodRight'
  BY <1>1, <1>2, <1>3 DEF GoodRight, FirstSteps, LastSteps, BackupSteps
<1>12. NothingLost'
  BY <1>1, <1>2, <1>3 DEF NothingLost
<1> QED BY <1>4, <1>5, <1>6, <1>7, <1>8, <1>9, <1>10, <1>11, <1>12 DEF DeploymentInv

(* The new program is copied, to the directory of its user                  *)
(* (deploy.h:2306-2310, 2327-2331).                                         *)
LEMMA CopyProgramKeeps ==
  ASSUME DeploymentInv, CopyProgram, host[Host].user PROVE DeploymentInv'
<1>1. /\ step = "program" /\ call.kind \in {"deploy", "arrive"}
      /\ host[Host].user /\ step' \in {"restore", "once", "backup"} /\ (step' = "backup" => ~firstTime /\ ~args.restore)
      /\ (args.restore => step' = "restore")
      /\ calls # None /\ host[Host].user
      /\ UNCHANGED <<dataOn, firstTime, latestBackup, config, args, call, calls, writes, mishaps, saved, lost, good, woken>>
      /\ host' = [host EXCEPT ![Host].prog = calls]
  BY DEF Deploying, Keeps, about, ghosts, GoOn, AfterProgram, DeploymentInv, ServiceState, None, CopyProgram
<1>2. /\ ServiceState /\ ServiceHostsRight /\ CallRight /\ DeployingRight /\ DiscardRight
      /\ BackupRight /\ CalmRight /\ GoodRight /\ NothingLost
  BY DEF DeploymentInv
<1>3. Host \in Hosts /\ Host' = Host
  BY <1>1, <1>2 DEF ServiceState, Host
<1>4. /\ host' \in [Hosts -> ServiceHosts]
      /\ host'[Host].user = host[Host].user /\ host'[Host].unit = host[Host].unit
      /\ host'[Host].enabled = host[Host].enabled /\ host'[Host].runs = host[Host].runs
      /\ host'[Host].prog = calls /\ host'[Host].bak = host[Host].bak
      /\ host'[Host].role = host[Host].role
      /\ \A i \in Hosts : i # Host => host'[i] = host[i]
  <2>1. host[Host] \in ServiceHosts /\ host \in [Hosts -> ServiceHosts]
    BY <1>2, <1>3 DEF ServiceState
  <2>2. calls \in Int
    BY <1>2 DEF ServiceState
  <2>3. PICK r : r = [host[Host] EXCEPT !.prog = calls]
    OBVIOUS
  <2>4. /\ r \in ServiceHosts
        /\ r.user = host[Host].user /\ r.unit = host[Host].unit
        /\ r.enabled = host[Host].enabled /\ r.runs = host[Host].runs
        /\ r.prog = calls /\ r.bak = host[Host].bak /\ r.role = host[Host].role
    BY <2>1, <2>2, <2>3 DEF ServiceHosts
  <2>5. host' = [host EXCEPT ![Host] = r]
    BY <1>1, <2>1, <2>3
  <2>6. host' \in [Hosts -> ServiceHosts] /\ host'[Host] = r /\ \A i \in Hosts : i # Host => host'[i] = host[i]
    BY <1>3, <2>1, <2>4, <2>5, HostSet
  <2> QED BY <2>4, <2>6
<1>5. ServiceState'
  BY <1>1, <1>2, <1>3, <1>4 DEF ServiceState, DeploymentSteps, FirstSteps, LastSteps, BackupSteps,
     DropSteps, OtherSteps, CallKinds
<1>6. ServiceHostsRight'
  BY <1>1, <1>2, <1>3, <1>4 DEF ServiceHostsRight, HostRight
<1>7. CallRight'
  BY <1>1, <1>2, <1>3, <1>4 DEF CallRight, FirstSteps, LastSteps, BackupSteps, DropSteps
<1>8. DeployingRight'
  BY <1>1, <1>2, <1>3, <1>4 DEF DeployingRight, FirstSteps, LastSteps, BackupSteps, HasUser
<1>9. DiscardRight'
  BY <1>1, <1>2, <1>3, <1>4 DEF DiscardRight, BackupSteps, DropSteps, CallRight
<1>10. BackupRight'
  BY <1>1, <1>2, <1>3, <1>4 DEF BackupRight, CallRight, Host, LastSteps
<1>11. CalmRight'
  BY <1>1, <1>2, <1>3, <1>4 DEF CalmRight, Unharmed, DeployedRuns, BackupSteps, DropSteps
<1>12. GoodRight'
  BY <1>1, <1>2, <1>3, <1>4 DEF GoodRight, FirstSteps, LastSteps, BackupSteps
<1>13. NothingLost'
  BY <1>1, <1>2, <1>3, <1>4 DEF NothingLost
<1> QED BY <1>5, <1>6, <1>7, <1>8, <1>9, <1>10, <1>11, <1>12, <1>13 DEF DeploymentInv

(* There is no user of the name of the service, but one whose name begins   *)
(* like it (deploy.h:1946-1953).                                            *)
LEMMA CannotCopyKeeps ==
  ASSUME DeploymentInv, CopyProgram, ~host[Host].user PROVE DeploymentInv'
<1>1. /\ step = "program" /\ step' = "failed" /\ call.kind \in {"deploy", "arrive"}
      /\ UNCHANGED <<host, dataOn, firstTime, latestBackup, config, args, call, calls, writes, mishaps, saved, lost, good, woken>>
  BY DEF Deploying, Keeps, about, ghosts, GoOn, CopyProgram
<1>2. /\ ServiceState /\ ServiceHostsRight /\ CallRight /\ DeployingRight /\ DiscardRight
      /\ BackupRight /\ CalmRight /\ GoodRight /\ NothingLost
  BY DEF DeploymentInv
<1>3. Host \in Hosts /\ Host' = Host
  BY <1>1, <1>2 DEF ServiceState, Host
<1>4. ServiceState'
  BY <1>1, <1>2, <1>3 DEF ServiceState, DeploymentSteps, FirstSteps, LastSteps, BackupSteps,
     DropSteps, OtherSteps, CallKinds
<1>5. ServiceHostsRight'
  BY <1>1, <1>2, <1>3 DEF ServiceHostsRight, HostRight
<1>6. CallRight'
  BY <1>1, <1>2, <1>3 DEF CallRight, FirstSteps, LastSteps, BackupSteps, DropSteps
<1>7. DeployingRight'
  BY <1>1, <1>2, <1>3 DEF DeployingRight, FirstSteps, LastSteps, BackupSteps, HasUser
<1>8. DiscardRight'
  BY <1>1, <1>2, <1>3 DEF DiscardRight, BackupSteps, DropSteps
<1>9. BackupRight'
  BY <1>1, <1>2, <1>3 DEF BackupRight, CallRight, Host, LastSteps
<1>10. CalmRight'
  BY <1>1, <1>2, <1>3 DEF CalmRight, Unharmed, DeployedRuns, BackupSteps, DropSteps,
     ServiceHostsRight, HostRight, DeployingRight, FirstSteps, LastSteps, HasUser
<1>11. GoodRight'
  BY <1>1, <1>2, <1>3 DEF GoodRight, FirstSteps, LastSteps, BackupSteps
<1>12. NothingLost'
  BY <1>1, <1>2, <1>3 DEF NothingLost
<1> QED BY <1>4, <1>5, <1>6, <1>7, <1>8, <1>9, <1>10, <1>11, <1>12 DEF DeploymentInv

(* The plain file of the backup replaces the one that is there              *)
(* (deploy.h:2331-2350).                                                    *)
LEMMA RestoreKeeps ==
  ASSUME DeploymentInv, Restore PROVE DeploymentInv'
<1>1. /\ step = "restore" /\ step' = "once" /\ call.kind \in {"deploy", "arrive"}
      /\ dataOn' = [dataOn EXCEPT ![Host] = [dataOn[Host] EXCEPT !["plain"] = IF latestBackup["plain"] # None THEN latestBackup["plain"] ELSE @]]
      /\ lost' \in {lost, lost \union {<<call.kind, step>>}}
      /\ UNCHANGED <<host, firstTime, latestBackup, config, args, call, calls, writes, mishaps, saved, good, woken>>
  BY DEF Restore, Deploying, Keeps, about, GoOn, DataSet, Replacing
<1>2. /\ ServiceState /\ ServiceHostsRight /\ CallRight /\ DeployingRight /\ DiscardRight
      /\ BackupRight /\ CalmRight /\ GoodRight /\ NothingLost
  BY DEF DeploymentInv
<1>3. Host \in Hosts /\ Host' = Host
  BY <1>1, <1>2 DEF ServiceState, Host
<1>4. /\ dataOn' \in [Hosts -> [DataKinds -> Int]]
      /\ dataOn'[Host]["plain"] = IF latestBackup["plain"] # None THEN latestBackup["plain"] ELSE dataOn[Host]["plain"]
      /\ dataOn'[Host]["nested"] = dataOn[Host]["nested"]
      /\ dataOn'[Host]["db"] = dataOn[Host]["db"]
      /\ \A i \in Hosts : i # Host => dataOn'[i] = dataOn[i]
  BY <1>1, <1>2, <1>3, BackupValues DEF ServiceState, DataKinds, DataFiles, None
<1>5. ServiceState'
  BY <1>1, <1>2, <1>3, <1>4 DEF ServiceState, DeploymentSteps, FirstSteps, LastSteps, BackupSteps,
     DropSteps, OtherSteps, CallKinds
<1>6. ServiceHostsRight'
  BY <1>1, <1>2, <1>3, <1>4 DEF ServiceHostsRight, HostRight, DeployingRight, BackupRight,
     FirstSteps, LastSteps, BackupSteps
<1>7. CallRight'
  BY <1>1, <1>2, <1>3, <1>4 DEF CallRight, FirstSteps, LastSteps, BackupSteps, DropSteps
<1>8. DeployingRight'
  BY <1>1, <1>2, <1>3, <1>4 DEF DeployingRight, FirstSteps, LastSteps, BackupSteps, HasUser
<1>9. DiscardRight'
  BY <1>1, <1>2, <1>3, <1>4 DEF DiscardRight, BackupSteps, DropSteps
<1>10. BackupRight'
  BY <1>1, <1>2, <1>3, <1>4 DEF BackupRight, CallRight, Host, LastSteps
<1>11. CalmRight'
  <2>1. ASSUME NEW i \in Hosts, i = Host, mishaps = 0 PROVE Unharmed(i)'
    <3>1. Unharmed(Host) /\ \A k \in DataKinds : latestBackup[k] # None => <<k, latestBackup[k]>> \in saved
      BY <1>2, <1>3, <2>1 DEF CalmRight, BackupRight
    <3>2. CASE latestBackup["plain"] = None
      BY <1>1, <1>3, <1>4, <2>1, <3>1, <3>2 DEF Unharmed, BackupSteps, DropSteps
    <3>3. CASE latestBackup["plain"] # None
      BY <1>1, <1>3, <1>4, <2>1, <3>1, <3>3 DEF Unharmed, BackupSteps, DropSteps, DataKinds, DataFiles
    <3> QED BY <3>2, <3>3
  <2>2. ASSUME NEW i \in Hosts, i # Host, mishaps = 0 PROVE Unharmed(i)'
    BY <1>1, <1>2, <1>3, <1>4, <2>2 DEF CalmRight, Unharmed, BackupSteps, DropSteps
  <2>3. mishaps = 0 => /\ DeployedRuns'
                       /\ step' = "failed" => host'[Host].runs = None
    BY <1>1, <1>2, <1>3, <1>4 DEF CalmRight, DeployedRuns, DataFiles
  <2> QED BY <1>1, <1>2, <1>3, <1>4, <2>1, <2>2, <2>3 DEF CalmRight, BackupSteps
<1>12. GoodRight'
  BY <1>1, <1>2, <1>3, <1>4 DEF GoodRight, FirstSteps, LastSteps, BackupSteps
<1>13. NothingLost'
  BY <1>1, <1>2, <1>3, <1>4 DEF NothingLost
<1> QED BY <1>5, <1>6, <1>7, <1>8, <1>9, <1>10, <1>11, <1>12, <1>13 DEF DeploymentInv

(* The user of the database is made, or was there with it                   *)
(* (deploy.h:2380-2398).                                                    *)
LEMMA CreateRoleKeeps ==
  ASSUME DeploymentInv, CreateRole PROVE DeploymentInv'
<1>1. /\ step = "role" /\ call.kind \in {"deploy", "arrive"}
      /\ step' = IF host[Host].role THEN "unit" ELSE "database"
      /\ UNCHANGED <<dataOn, firstTime, latestBackup, config, args, call, calls, writes, mishaps, saved, lost, good, woken>>
      /\ host' = [host EXCEPT ![Host].role = TRUE]
  BY DEF CreateRole, Deploying, Keeps, about, ghosts, GoOn
<1>2. /\ ServiceState /\ ServiceHostsRight /\ CallRight /\ DeployingRight /\ DiscardRight
      /\ BackupRight /\ CalmRight /\ GoodRight /\ NothingLost
  BY DEF DeploymentInv
<1>3. Host \in Hosts /\ Host' = Host
  BY <1>1, <1>2 DEF ServiceState, Host
<1>4. /\ host' \in [Hosts -> ServiceHosts]
      /\ host'[Host].user = host[Host].user /\ host'[Host].unit = host[Host].unit
      /\ host'[Host].enabled = host[Host].enabled /\ host'[Host].runs = host[Host].runs
      /\ host'[Host].prog = host[Host].prog /\ host'[Host].bak = host[Host].bak
      /\ host'[Host].role = TRUE
      /\ \A i \in Hosts : i # Host => host'[i] = host[i]
  <2>1. host[Host] \in ServiceHosts /\ host \in [Hosts -> ServiceHosts]
    BY <1>2, <1>3 DEF ServiceState
  <2>3. PICK r : r = [host[Host] EXCEPT !.role = TRUE]
    OBVIOUS
  <2>4. /\ r \in ServiceHosts
        /\ r.user = host[Host].user /\ r.unit = host[Host].unit
        /\ r.enabled = host[Host].enabled /\ r.runs = host[Host].runs
        /\ r.prog = host[Host].prog /\ r.bak = host[Host].bak /\ r.role = TRUE
    BY <2>1, <2>3 DEF ServiceHosts
  <2>5. host' = [host EXCEPT ![Host] = r]
    BY <1>1, <2>1, <2>3
  <2>6. host' \in [Hosts -> ServiceHosts] /\ host'[Host] = r /\ \A i \in Hosts : i # Host => host'[i] = host[i]
    BY <1>3, <2>1, <2>4, <2>5, HostSet
  <2> QED BY <2>4, <2>6
<1>5. ServiceState'
  BY <1>1, <1>2, <1>3, <1>4 DEF ServiceState, DeploymentSteps, FirstSteps, LastSteps, BackupSteps,
     DropSteps, OtherSteps, CallKinds
<1>6. ServiceHostsRight'
  BY <1>1, <1>2, <1>3, <1>4 DEF ServiceHostsRight, HostRight
<1>7. CallRight'
  BY <1>1, <1>2, <1>3, <1>4 DEF CallRight, FirstSteps, LastSteps, BackupSteps, DropSteps
<1>8. DeployingRight'
  BY <1>1, <1>2, <1>3, <1>4 DEF DeployingRight, FirstSteps, LastSteps, BackupSteps, HasUser
<1>9. DiscardRight'
  BY <1>1, <1>2, <1>3, <1>4 DEF DiscardRight, BackupSteps, DropSteps
<1>10. BackupRight'
  BY <1>1, <1>2, <1>3, <1>4 DEF BackupRight, CallRight, Host, LastSteps
<1>11. CalmRight'
  BY <1>1, <1>2, <1>3, <1>4 DEF CalmRight, Unharmed, DeployedRuns, BackupSteps, DropSteps
<1>12. GoodRight'
  BY <1>1, <1>2, <1>3, <1>4 DEF GoodRight, FirstSteps, LastSteps, BackupSteps
<1>13. NothingLost'
  BY <1>1, <1>2, <1>3, <1>4 DEF NothingLost
<1> QED BY <1>5, <1>6, <1>7, <1>8, <1>9, <1>10, <1>11, <1>12, <1>13 DEF DeploymentInv

(* The unit is written, for a user who is there (deploy.h:549-597).         *)
LEMMA AddToSystemKeeps ==
  ASSUME DeploymentInv, AddToSystem PROVE DeploymentInv'
<1>1. /\ step = "unit" /\ step' = "enable" /\ call.kind \in {"deploy", "arrive"}
      /\ UNCHANGED <<dataOn, firstTime, latestBackup, config, args, call, calls, writes, mishaps, saved, lost, good, woken>>
      /\ host' = [host EXCEPT ![Host].unit = TRUE]
  BY DEF AddToSystem, Deploying, Keeps, about, ghosts, GoOn
<1>2. /\ ServiceState /\ ServiceHostsRight /\ CallRight /\ DeployingRight /\ DiscardRight
      /\ BackupRight /\ CalmRight /\ GoodRight /\ NothingLost
  BY DEF DeploymentInv
<1>3. Host \in Hosts /\ Host' = Host
  BY <1>1, <1>2 DEF ServiceState, Host
<1>4. /\ host' \in [Hosts -> ServiceHosts]
      /\ host'[Host].user = host[Host].user /\ host'[Host].unit = TRUE
      /\ host'[Host].enabled = host[Host].enabled /\ host'[Host].runs = host[Host].runs
      /\ host'[Host].prog = host[Host].prog /\ host'[Host].bak = host[Host].bak
      /\ host'[Host].role = host[Host].role
      /\ \A i \in Hosts : i # Host => host'[i] = host[i]
  <2>1. host[Host] \in ServiceHosts /\ host \in [Hosts -> ServiceHosts]
    BY <1>2, <1>3 DEF ServiceState
  <2>3. PICK r : r = [host[Host] EXCEPT !.unit = TRUE]
    OBVIOUS
  <2>4. /\ r \in ServiceHosts
        /\ r.user = host[Host].user /\ r.unit = TRUE
        /\ r.enabled = host[Host].enabled /\ r.runs = host[Host].runs
        /\ r.prog = host[Host].prog /\ r.bak = host[Host].bak /\ r.role = host[Host].role
    BY <2>1, <2>3 DEF ServiceHosts
  <2>5. host' = [host EXCEPT ![Host] = r]
    BY <1>1, <2>1, <2>3
  <2>6. host' \in [Hosts -> ServiceHosts] /\ host'[Host] = r /\ \A i \in Hosts : i # Host => host'[i] = host[i]
    BY <1>3, <2>1, <2>4, <2>5, HostSet
  <2> QED BY <2>4, <2>6
<1>5. ServiceState'
  BY <1>1, <1>2, <1>3, <1>4 DEF ServiceState, DeploymentSteps, FirstSteps, LastSteps, BackupSteps,
     DropSteps, OtherSteps, CallKinds
<1>6. ServiceHostsRight'
  BY <1>1, <1>2, <1>3, <1>4 DEF ServiceHostsRight, HostRight, DeployingRight, FirstSteps, LastSteps,
     BackupSteps
<1>7. CallRight'
  BY <1>1, <1>2, <1>3, <1>4 DEF CallRight, FirstSteps, LastSteps, BackupSteps, DropSteps
<1>8. DeployingRight'
  BY <1>1, <1>2, <1>3, <1>4 DEF DeployingRight, FirstSteps, LastSteps, BackupSteps, HasUser
<1>9. DiscardRight'
  BY <1>1, <1>2, <1>3, <1>4 DEF DiscardRight, BackupSteps, DropSteps
<1>10. BackupRight'
  BY <1>1, <1>2, <1>3, <1>4 DEF BackupRight, CallRight, Host, LastSteps
<1>11. CalmRight'
  BY <1>1, <1>2, <1>3, <1>4 DEF CalmRight, Unharmed, DeployedRuns, BackupSteps, DropSteps
<1>12. GoodRight'
  BY <1>1, <1>2, <1>3, <1>4 DEF GoodRight, FirstSteps, LastSteps, BackupSteps
<1>13. NothingLost'
  BY <1>1, <1>2, <1>3, <1>4 DEF NothingLost
<1> QED BY <1>5, <1>6, <1>7, <1>8, <1>9, <1>10, <1>11, <1>12, <1>13 DEF DeploymentInv

(* The unit is enabled on the host of the deployment, which is not the one  *)
(* a service was moved from (deploy.h:627-629).                             *)
LEMMA EnableServiceKeeps ==
  ASSUME DeploymentInv, EnableService PROVE DeploymentInv'
<1>1. /\ step = "enable" /\ step' = "start" /\ call.kind \in {"deploy", "arrive"}
      /\ UNCHANGED <<dataOn, firstTime, latestBackup, config, args, call, calls, writes, mishaps, saved, lost, good, woken>>
      /\ host' = [host EXCEPT ![Host].enabled = TRUE]
  BY DEF EnableService, Deploying, Keeps, about, ghosts, GoOn
<1>2. /\ ServiceState /\ ServiceHostsRight /\ CallRight /\ DeployingRight /\ DiscardRight
      /\ BackupRight /\ CalmRight /\ GoodRight /\ NothingLost
  BY DEF DeploymentInv
<1>3. Host \in Hosts /\ Host' = Host
  BY <1>1, <1>2 DEF ServiceState, Host
<1>4. /\ host' \in [Hosts -> ServiceHosts]
      /\ host'[Host].user = host[Host].user /\ host'[Host].unit = host[Host].unit
      /\ host'[Host].enabled = TRUE /\ host'[Host].runs = host[Host].runs
      /\ host'[Host].prog = host[Host].prog /\ host'[Host].bak = host[Host].bak
      /\ host'[Host].role = host[Host].role
      /\ \A i \in Hosts : i # Host => host'[i] = host[i]
  <2>1. host[Host] \in ServiceHosts /\ host \in [Hosts -> ServiceHosts]
    BY <1>2, <1>3 DEF ServiceState
  <2>3. PICK r : r = [host[Host] EXCEPT !.enabled = TRUE]
    OBVIOUS
  <2>4. /\ r \in ServiceHosts
        /\ r.user = host[Host].user /\ r.unit = host[Host].unit
        /\ r.enabled = TRUE /\ r.runs = host[Host].runs
        /\ r.prog = host[Host].prog /\ r.bak = host[Host].bak /\ r.role = host[Host].role
    BY <2>1, <2>3 DEF ServiceHosts
  <2>5. host' = [host EXCEPT ![Host] = r]
    BY <1>1, <2>1, <2>3
  <2>6. host' \in [Hosts -> ServiceHosts] /\ host'[Host] = r /\ \A i \in Hosts : i # Host => host'[i] = host[i]
    BY <1>3, <2>1, <2>4, <2>5, HostSet
  <2> QED BY <2>4, <2>6
<1>5. ServiceState'
  BY <1>1, <1>2, <1>3, <1>4 DEF ServiceState, DeploymentSteps, FirstSteps, LastSteps, BackupSteps,
     DropSteps, OtherSteps, CallKinds
<1>6. ServiceHostsRight'
  BY <1>1, <1>2, <1>3, <1>4 DEF ServiceHostsRight, HostRight, DeployingRight, FirstSteps, LastSteps,
     BackupSteps
<1>7. CallRight'
  BY <1>1, <1>2, <1>3, <1>4 DEF CallRight, FirstSteps, LastSteps, BackupSteps, DropSteps
<1>8. DeployingRight'
  BY <1>1, <1>2, <1>3, <1>4 DEF DeployingRight, FirstSteps, LastSteps, BackupSteps, HasUser
<1>9. DiscardRight'
  BY <1>1, <1>2, <1>3, <1>4 DEF DiscardRight, BackupSteps, DropSteps
<1>10. BackupRight'
  BY <1>1, <1>2, <1>3, <1>4 DEF BackupRight, CallRight, Host, LastSteps
<1>11. CalmRight'
  BY <1>1, <1>2, <1>3, <1>4 DEF CalmRight, Unharmed, DeployedRuns, BackupSteps, DropSteps
<1>12. GoodRight'
  BY <1>1, <1>2, <1>3, <1>4 DEF GoodRight, FirstSteps, LastSteps, BackupSteps
<1>13. NothingLost'
  BY <1>1, <1>2, <1>3, <1>4 DEF NothingLost
<1> QED BY <1>5, <1>6, <1>7, <1>8, <1>9, <1>10, <1>11, <1>12, <1>13 DEF DeploymentInv

(* The service is started with the program of this deployment               *)
(* (deploy.h:630-634).                                                      *)
LEMMA StartServiceKeeps ==
  ASSUME DeploymentInv, StartService PROVE DeploymentInv'
<1>1. /\ step = "start" /\ step' = "check" /\ call.kind \in {"deploy", "arrive"}
      /\ UNCHANGED <<dataOn, firstTime, latestBackup, config, args, call, calls, writes, mishaps, saved, lost, good, woken>>
      /\ host' = [host EXCEPT ![Host].runs = host[Host].prog]
  BY DEF StartService, Deploying, Keeps, about, ghosts, GoOn
<1>2. /\ ServiceState /\ ServiceHostsRight /\ CallRight /\ DeployingRight /\ DiscardRight
      /\ BackupRight /\ CalmRight /\ GoodRight /\ NothingLost
  BY DEF DeploymentInv
<1>3. Host \in Hosts /\ Host' = Host
  BY <1>1, <1>2 DEF ServiceState, Host
<1>4. /\ host' \in [Hosts -> ServiceHosts]
      /\ host'[Host].user = host[Host].user /\ host'[Host].unit = host[Host].unit
      /\ host'[Host].enabled = host[Host].enabled /\ host'[Host].runs = host[Host].prog
      /\ host'[Host].prog = host[Host].prog /\ host'[Host].bak = host[Host].bak
      /\ host'[Host].role = host[Host].role
      /\ \A i \in Hosts : i # Host => host'[i] = host[i]
  <2>1. host[Host] \in ServiceHosts /\ host \in [Hosts -> ServiceHosts]
    BY <1>2, <1>3 DEF ServiceState
  <2>3. PICK r : r = [host[Host] EXCEPT !.runs = host[Host].prog]
    OBVIOUS
  <2>4. /\ r \in ServiceHosts
        /\ r.user = host[Host].user /\ r.unit = host[Host].unit
        /\ r.enabled = host[Host].enabled /\ r.runs = host[Host].prog
        /\ r.prog = host[Host].prog /\ r.bak = host[Host].bak /\ r.role = host[Host].role
    BY <2>1, <2>3 DEF ServiceHosts
  <2>5. host' = [host EXCEPT ![Host] = r]
    BY <1>1, <2>1, <2>3
  <2>6. host' \in [Hosts -> ServiceHosts] /\ host'[Host] = r /\ \A i \in Hosts : i # Host => host'[i] = host[i]
    BY <1>3, <2>1, <2>4, <2>5, HostSet
  <2> QED BY <2>4, <2>6
<1>5. ServiceState'
  BY <1>1, <1>2, <1>3, <1>4 DEF ServiceState, DeploymentSteps, FirstSteps, LastSteps, BackupSteps,
     DropSteps, OtherSteps, CallKinds
<1>6. ServiceHostsRight'
  BY <1>1, <1>2, <1>3, <1>4 DEF ServiceHostsRight, HostRight, DeployingRight, FirstSteps, LastSteps,
     BackupSteps
<1>7. CallRight'
  BY <1>1, <1>2, <1>3, <1>4 DEF CallRight, FirstSteps, LastSteps, BackupSteps, DropSteps
<1>8. DeployingRight'
  BY <1>1, <1>2, <1>3, <1>4 DEF DeployingRight, FirstSteps, LastSteps, BackupSteps, HasUser
<1>9. DiscardRight'
  BY <1>1, <1>2, <1>3, <1>4 DEF DiscardRight, BackupSteps, DropSteps
<1>10. BackupRight'
  BY <1>1, <1>2, <1>3, <1>4 DEF BackupRight, CallRight, Host, LastSteps
<1>11. CalmRight'
  BY <1>1, <1>2, <1>3, <1>4 DEF CalmRight, Unharmed, DeployedRuns, BackupSteps, DropSteps,
     DeployingRight, LastSteps
<1>12. GoodRight'
  BY <1>1, <1>2, <1>3, <1>4 DEF GoodRight, FirstSteps, LastSteps, BackupSteps
<1>13. NothingLost'
  BY <1>1, <1>2, <1>3, <1>4 DEF NothingLost
<1> QED BY <1>5, <1>6, <1>7, <1>8, <1>9, <1>10, <1>11, <1>12, <1>13 DEF DeploymentInv

(* The service runs: the deployment returns and its program is the last     *)
(* good one (deploy.h:635-636).                                             *)
LEMMA CheckServiceKeeps ==
  ASSUME DeploymentInv, CheckService PROVE DeploymentInv'
<1>1. /\ step = "check" /\ step' = "done" /\ call.kind \in {"deploy", "arrive"}
      /\ good' = IF host[Host].runs = host[Host].prog
                  THEN [good EXCEPT ![Host] = [NeverRan EXCEPT !.prog = host[Host].prog]] ELSE good
      /\ UNCHANGED <<host, dataOn, firstTime, latestBackup, config, args, call, calls, writes, mishaps, saved, lost, woken>>
  BY DEF CheckService, Deploying, Keeps, about, ghosts, GoOn
<1>2. /\ ServiceState /\ ServiceHostsRight /\ CallRight /\ DeployingRight /\ DiscardRight
      /\ BackupRight /\ CalmRight /\ GoodRight /\ NothingLost
  BY DEF DeploymentInv
<1>3. Host \in Hosts /\ Host' = Host
  BY <1>1, <1>2 DEF ServiceState, Host
<1>4. ServiceState'
  <2>1. good' \in [Hosts -> [prog : Int, later : Nat, overlooked : BOOLEAN]]
    <3>1. [NeverRan EXCEPT !.prog = host[Host].prog] \in [prog : Int, later : Nat, overlooked : BOOLEAN]
      BY <1>2, <1>3 DEF ServiceState, ServiceHosts, NeverRan
    <3> QED BY <1>1, <1>2, <1>3, <3>1 DEF ServiceState
  <2> QED BY <1>1, <1>2, <1>3, <2>1 DEF ServiceState, DeploymentSteps, FirstSteps, LastSteps, BackupSteps,
             DropSteps, OtherSteps, CallKinds
<1>5. ServiceHostsRight'
  BY <1>1, <1>2, <1>3 DEF ServiceHostsRight, HostRight
<1>6. CallRight'
  BY <1>1, <1>2, <1>3 DEF CallRight, FirstSteps, LastSteps, BackupSteps, DropSteps
<1>7. DeployingRight'
  BY <1>1, <1>2, <1>3 DEF DeployingRight, FirstSteps, LastSteps, BackupSteps, HasUser
<1>8. DiscardRight'
  BY <1>1, <1>2, <1>3 DEF DiscardRight, BackupSteps, DropSteps
<1>9. BackupRight'
  BY <1>1, <1>2, <1>3 DEF BackupRight, CallRight, Host, LastSteps
<1>10. CalmRight'
  BY <1>1, <1>2, <1>3 DEF CalmRight, Unharmed, DeployedRuns, BackupSteps, DropSteps, DeployingRight,
     FirstSteps, LastSteps
<1>11. GoodRight'
  BY <1>1, <1>2, <1>3 DEF GoodRight, FirstSteps, LastSteps, BackupSteps
<1>12. NothingLost'
  BY <1>1, <1>2, <1>3 DEF NothingLost
<1> QED BY <1>4, <1>5, <1>6, <1>7, <1>8, <1>9, <1>10, <1>11, <1>12 DEF DeploymentInv

(* The files deployed once replace those of a host that is new; when        *)
(* nothing has failed, no backup misses what they replace                   *)
(* (deploy.h:2365-2378).                                                    *)
LEMMA CopyOnceKeeps ==
  ASSUME DeploymentInv, CopyOnce PROVE DeploymentInv'
<1>1. /\ step = "once" /\ call.kind \in {"deploy", "arrive"}
      /\ dataOn' = [dataOn EXCEPT ![Host] = [dataOn[Host] EXCEPT !["plain"] = IF config.once /\ firstTime THEN 0 ELSE @]]
      /\ step' = IF config.db THEN "role" ELSE "unit"
      /\ UNCHANGED <<host, firstTime, latestBackup, config, args, call, calls, writes, mishaps, saved, good, woken>>
  BY DEF CopyOnce, Deploying, Keeps, about, GoOn, DataSet
<1>2. /\ ServiceState /\ ServiceHostsRight /\ CallRight /\ DeployingRight /\ DiscardRight
      /\ BackupRight /\ CalmRight /\ GoodRight /\ NothingLost
  BY DEF DeploymentInv
<1>3. Host \in Hosts /\ Host' = Host
  BY <1>1, <1>2 DEF ServiceState, Host
<1>4. /\ dataOn' \in [Hosts -> [DataKinds -> Int]]
      /\ dataOn'[Host]["plain"] = IF config.once /\ firstTime THEN 0 ELSE dataOn[Host]["plain"]
      /\ dataOn'[Host]["nested"] = dataOn[Host]["nested"]
      /\ dataOn'[Host]["db"] = dataOn[Host]["db"]
      /\ \A i \in Hosts : i # Host => dataOn'[i] = dataOn[i]
  BY <1>1, <1>2, <1>3, BackupValues DEF ServiceState, DataKinds, DataFiles, None
<1>5. \/ lost' = lost
      \/ /\ lost' = lost \union {<<call.kind, "once">>} /\ config.once /\ firstTime
         /\ dataOn[Host]["plain"] > 0 /\ <<"plain", dataOn[Host]["plain"]>> \notin saved
  <2>1. PICK new : new = [dataOn[Host] EXCEPT !["plain"] = IF config.once /\ firstTime THEN 0 ELSE @]
    OBVIOUS
  <2>2. /\ new["plain"] = IF config.once /\ firstTime THEN 0 ELSE dataOn[Host]["plain"]
        /\ new["nested"] = dataOn[Host]["nested"] /\ new["db"] = dataOn[Host]["db"]
    BY <1>2, <1>3, <2>1 DEF ServiceState, DataKinds, DataFiles
  <2>3. lost' = IF \E k \in DataKinds : /\ dataOn[Host][k] > 0 /\ new[k] # dataOn[Host][k]
                                        /\ <<k, dataOn[Host][k]>> \notin saved
                THEN lost \union {Replacing} ELSE lost
    BY <2>1 DEF CopyOnce, DataSet
  <2>4. Replacing = <<call.kind, "once">>
    BY <1>1 DEF Replacing
  <2> QED BY <2>2, <2>3, <2>4 DEF DataKinds, DataFiles
<1>6. ServiceState'
  BY <1>1, <1>2, <1>3, <1>4, <1>5 DEF ServiceState, DeploymentSteps, FirstSteps, LastSteps,
     BackupSteps, DropSteps, OtherSteps, CallKinds
<1>7. ServiceHostsRight'
  BY <1>1, <1>2, <1>3, <1>4, <1>5 DEF ServiceHostsRight, HostRight, DeployingRight, ServiceState,
     None, FirstSteps, LastSteps, BackupSteps
<1>8. CallRight'
  BY <1>1, <1>2, <1>3, <1>4, <1>5 DEF CallRight, FirstSteps, LastSteps, BackupSteps, DropSteps
<1>9. DeployingRight'
  BY <1>1, <1>2, <1>3, <1>4, <1>5 DEF DeployingRight, FirstSteps, LastSteps, BackupSteps, HasUser
<1>10. DiscardRight'
  BY <1>1, <1>2, <1>3, <1>4, <1>5 DEF DiscardRight, BackupSteps, DropSteps
<1>11. BackupRight'
  BY <1>1, <1>2, <1>3, <1>4, <1>5 DEF BackupRight, CallRight, Host, LastSteps
<1>12. CalmRight'
  BY <1>1, <1>2, <1>3, <1>4, <1>5 DEF CalmRight, Unharmed, DeployedRuns, BackupSteps, DropSteps,
     BackupRight, DataKinds, DataFiles
<1>13. GoodRight'
  BY <1>1, <1>2, <1>3, <1>4, <1>5 DEF GoodRight, FirstSteps, LastSteps, BackupSteps
<1>14. NothingLost'
  <2>1. mishaps = 0 /\ firstTime => lost' = lost
    <3>1. mishaps = 0 => Unharmed(Host)
      BY <1>2, <1>3 DEF CalmRight
    <3>2. firstTime => ~host[Host].unit
      BY <1>1, <1>2 DEF DeployingRight
    <3>3. dataOn[Host]["plain"] \in Int
      BY <1>2, <1>3 DEF ServiceState, DataKinds, DataFiles
    <3> QED BY <1>1, <1>5, <3>1, <3>2, <3>3 DEF Unharmed
  <2>2. mishaps \in Nat
    BY <1>2 DEF ServiceState
  <2> QED BY <1>1, <1>2, <1>5, <2>1, <2>2 DEF NothingLost
<1> QED BY <1>6, <1>7, <1>8, <1>9, <1>10, <1>11, <1>12, <1>13, <1>14 DEF DeploymentInv

(* The database is made when there is none (deploy.h:2399-2400).            *)
LEMMA CreateDatabaseKeeps ==
  ASSUME DeploymentInv, CreateDatabase PROVE DeploymentInv'
<1>1. /\ step = "database" /\ step' = "unit" /\ call.kind \in {"deploy", "arrive"}
      /\ dataOn' = [dataOn EXCEPT ![Host] = [dataOn[Host] EXCEPT !["db"] = IF @ = None THEN 0 ELSE @]]
      /\ UNCHANGED <<host, firstTime, latestBackup, config, args, call, calls, writes, mishaps, saved, good, woken>>
  BY DEF CreateDatabase, Deploying, Keeps, about, GoOn, DataSet
<1>2. /\ ServiceState /\ ServiceHostsRight /\ CallRight /\ DeployingRight /\ DiscardRight
      /\ BackupRight /\ CalmRight /\ GoodRight /\ NothingLost
  BY DEF DeploymentInv
<1>3. Host \in Hosts /\ Host' = Host
  BY <1>1, <1>2 DEF ServiceState, Host
<1>4. /\ dataOn' \in [Hosts -> [DataKinds -> Int]]
      /\ dataOn'[Host]["plain"] = dataOn[Host]["plain"]
      /\ dataOn'[Host]["nested"] = dataOn[Host]["nested"]
      /\ dataOn'[Host]["db"] = IF dataOn[Host]["db"] = None THEN 0 ELSE dataOn[Host]["db"]
      /\ \A i \in Hosts : i # Host => dataOn'[i] = dataOn[i]
  BY <1>1, <1>2, <1>3, BackupValues DEF ServiceState, DataKinds, DataFiles, None
<1>5. lost' = lost
  <2>1. PICK new : new = [dataOn[Host] EXCEPT !["db"] = IF @ = None THEN 0 ELSE @]
    OBVIOUS
  <2>2. \A k \in DataKinds : dataOn[Host][k] > 0 => new[k] = dataOn[Host][k]
    BY <1>2, <1>3, <2>1 DEF ServiceState, DataKinds, DataFiles, None
  <2>3. lost' = IF \E k \in DataKinds : /\ dataOn[Host][k] > 0 /\ new[k] # dataOn[Host][k]
                                        /\ <<k, dataOn[Host][k]>> \notin saved
                THEN lost \union {Replacing} ELSE lost
    BY <2>1 DEF CreateDatabase, DataSet
  <2> QED BY <2>2, <2>3
<1>6. ServiceState'
  BY <1>1, <1>2, <1>3, <1>4, <1>5 DEF ServiceState, DeploymentSteps, FirstSteps, LastSteps,
     BackupSteps, DropSteps, OtherSteps, CallKinds
<1>7. ServiceHostsRight'
  BY <1>1, <1>2, <1>3, <1>4, <1>5 DEF ServiceHostsRight, HostRight, DeployingRight, FirstSteps,
     LastSteps, BackupSteps
<1>8. CallRight'
  BY <1>1, <1>2, <1>3, <1>4, <1>5 DEF CallRight, FirstSteps, LastSteps, BackupSteps, DropSteps
<1>9. DeployingRight'
  BY <1>1, <1>2, <1>3, <1>4, <1>5 DEF DeployingRight, FirstSteps, LastSteps, BackupSteps, HasUser
<1>10. DiscardRight'
  BY <1>1, <1>2, <1>3, <1>4, <1>5 DEF DiscardRight, BackupSteps, DropSteps
<1>11. BackupRight'
  BY <1>1, <1>2, <1>3, <1>4, <1>5 DEF BackupRight, CallRight, Host, LastSteps
<1>12. CalmRight'
  BY <1>1, <1>2, <1>3, <1>4, <1>5 DEF CalmRight, Unharmed, DeployedRuns, BackupSteps, DropSteps,
     None
<1>13. GoodRight'
  BY <1>1, <1>2, <1>3, <1>4, <1>5 DEF GoodRight, FirstSteps, LastSteps, BackupSteps
<1>14. NothingLost'
  BY <1>1, <1>2, <1>3, <1>4, <1>5 DEF NothingLost
<1> QED BY <1>6, <1>7, <1>8, <1>9, <1>10, <1>11, <1>12, <1>13, <1>14 DEF DeploymentInv

(* A command that asks cannot: the call goes on as if it had been answered, *)
(* and an old program may be overlooked (deploy.h:536-540, 2092-2099).      *)
LEMMA MisreadKeeps ==
  ASSUME DeploymentInv, NEW s, NEW next, Misread(s, next),
         \/ s = "stop" /\ next = "status"
         \/ s = "status" /\ next = "old_program"
         \/ s = "old_program" /\ next = "program"
         \/ s = "start" /\ next = "check"
         \/ s = "check" /\ next = "give_up"
  PROVE  DeploymentInv'
<1>1. /\ step = s /\ step' = next /\ mishaps' = mishaps + 1 /\ mishaps' > 0
      /\ UNCHANGED <<host, dataOn, firstTime, latestBackup, config, args, call, calls, writes, saved, lost, woken>>
      /\ good' = [good EXCEPT ![Host] = [good[Host] EXCEPT
                    !.overlooked = (good[Host].overlooked \/ (s = "old_program" /\ host[Host].prog # None))]]
  BY DEF Misread, DeploymentInv, ServiceState
<1>2. /\ ServiceState /\ ServiceHostsRight /\ CallRight /\ DeployingRight /\ DiscardRight
      /\ BackupRight /\ CalmRight /\ GoodRight /\ NothingLost
  BY DEF DeploymentInv
<1>3. Host \in Hosts /\ Host' = Host
  BY <1>1, <1>2 DEF ServiceState, Host
<1>4. /\ good' \in [Hosts -> [prog : Int, later : Nat, overlooked : BOOLEAN]]
      /\ good'[Host].prog = good[Host].prog /\ good'[Host].later = good[Host].later
      /\ ~good'[Host].overlooked => ~good[Host].overlooked /\ ~(s = "old_program" /\ host[Host].prog # None)
      /\ \A i \in Hosts : i # Host => good'[i] = good[i]
  <2>1. good \in [Hosts -> [prog : Int, later : Nat, overlooked : BOOLEAN]]
    BY <1>2 DEF ServiceState
  <2>2. PICK over \in BOOLEAN : over = (good[Host].overlooked \/ (s = "old_program" /\ host[Host].prog # None))
    OBVIOUS
  <2>3. PICK r : r = [good[Host] EXCEPT !.overlooked = over]
    OBVIOUS
  <2>4. /\ r \in [prog : Int, later : Nat, overlooked : BOOLEAN]
        /\ r.prog = good[Host].prog /\ r.later = good[Host].later /\ r.overlooked = over
    BY <1>3, <2>1, <2>2, <2>3
  <2>5. good' = [good EXCEPT ![Host] = r]
    BY <1>1, <2>2, <2>3
  <2>6. /\ good' \in [Hosts -> [prog : Int, later : Nat, overlooked : BOOLEAN]] /\ good'[Host] = r
        /\ \A i \in Hosts : i # Host => good'[i] = good[i]
    BY <1>3, <2>1, <2>4, <2>5
  <2> QED BY <2>2, <2>4, <2>6
<1>5. ServiceState'
  BY <1>1, <1>2, <1>3, <1>4 DEF ServiceState, DeploymentSteps, FirstSteps, LastSteps, BackupSteps,
     DropSteps, OtherSteps, CallKinds
<1>6. ServiceHostsRight'
  BY <1>1, <1>2, <1>3 DEF ServiceHostsRight, HostRight
<1>7. CallRight'
  BY <1>1, <1>2, <1>3 DEF CallRight, FirstSteps, LastSteps, BackupSteps, DropSteps
<1>8. DeployingRight'
  BY <1>1, <1>2, <1>3 DEF DeployingRight, FirstSteps, LastSteps, BackupSteps, HasUser
<1>9. DiscardRight'
  BY <1>1, <1>2, <1>3 DEF DiscardRight, BackupSteps, DropSteps
<1>10. BackupRight'
  BY <1>1, <1>2, <1>3 DEF BackupRight, CallRight, Host, LastSteps, FirstSteps
<1>11. CalmRight'
  BY <1>1 DEF CalmRight
<1>12. GoodRight'
  <2>1. ASSUME NEW i \in Hosts, good'[i].prog # None, ~good'[i].overlooked
        PROVE  /\ good'[i].later = 0 => host'[i].prog = good'[i].prog
               /\ good'[i].later = 1 => good'[i].prog \in {host'[i].prog, host'[i].bak}
    BY <1>1, <1>2, <1>3, <1>4, <2>1 DEF GoodRight
  <2> QED BY <1>1, <1>2, <1>3, <1>4, <2>1 DEF GoodRight, FirstSteps, LastSteps, BackupSteps
<1>13. NothingLost'
  BY <1>1, <1>2, <1>3 DEF NothingLost, ServiceState
<1> QED BY <1>5, <1>6, <1>7, <1>8, <1>9, <1>10, <1>11, <1>12, <1>13 DEF DeploymentInv

(* The service is stopped, and the deployment throws (deploy.h:636-639).    *)
LEMMA GiveUpKeeps ==
  ASSUME DeploymentInv, GiveUp PROVE DeploymentInv'
<1>1. /\ step = "give_up" /\ step' = "failed" /\ call.kind \in {"deploy", "arrive"}
      /\ UNCHANGED <<dataOn, firstTime, latestBackup, config, args, call, calls, writes, mishaps, saved, lost, good, woken>>
      /\ host' = [host EXCEPT ![Host].runs = None]
  BY DEF GiveUp, Deploying, Keeps, about, GoOn, ghosts
<1>2. /\ ServiceState /\ ServiceHostsRight /\ CallRight /\ DeployingRight /\ DiscardRight
      /\ BackupRight /\ CalmRight /\ GoodRight /\ NothingLost
  BY DEF DeploymentInv
<1>3. Host \in Hosts /\ Host' = Host
  BY <1>1, <1>2 DEF ServiceState, Host
<1>4. /\ host' \in [Hosts -> ServiceHosts]
      /\ host'[Host].user = host[Host].user /\ host'[Host].unit = host[Host].unit
      /\ host'[Host].enabled = host[Host].enabled /\ host'[Host].runs = None
      /\ host'[Host].prog = host[Host].prog /\ host'[Host].bak = host[Host].bak
      /\ host'[Host].role = host[Host].role
      /\ \A i \in Hosts : i # Host => host'[i] = host[i]
  <2>1. host[Host] \in ServiceHosts /\ host \in [Hosts -> ServiceHosts]
    BY <1>2, <1>3 DEF ServiceState
  <2>3. PICK r : r = [host[Host] EXCEPT !.runs = None]
    OBVIOUS
  <2>4. /\ r \in ServiceHosts
        /\ r.user = host[Host].user /\ r.unit = host[Host].unit
        /\ r.enabled = host[Host].enabled /\ r.runs = None
        /\ r.prog = host[Host].prog /\ r.bak = host[Host].bak /\ r.role = host[Host].role
    BY <2>1, <2>3, BackupValues DEF ServiceHosts
  <2>5. host' = [host EXCEPT ![Host] = r]
    BY <1>1, <2>1, <2>3
  <2>6. host' \in [Hosts -> ServiceHosts] /\ host'[Host] = r /\ \A i \in Hosts : i # Host => host'[i] = host[i]
    BY <1>3, <2>1, <2>4, <2>5, HostSet
  <2> QED BY <2>4, <2>6
<1>5. ServiceState'
  BY <1>1, <1>2, <1>3, <1>4 DEF ServiceState, DeploymentSteps, FirstSteps, LastSteps, BackupSteps,
     DropSteps, OtherSteps, CallKinds
<1>6. ServiceHostsRight'
  BY <1>1, <1>2, <1>3, <1>4 DEF ServiceHostsRight, HostRight
<1>7. CallRight'
  BY <1>1, <1>2, <1>3, <1>4 DEF CallRight, FirstSteps, LastSteps, BackupSteps, DropSteps
<1>8. DeployingRight'
  BY <1>1, <1>2, <1>3, <1>4 DEF DeployingRight, FirstSteps, LastSteps, BackupSteps, HasUser
<1>9. DiscardRight'
  BY <1>1, <1>2, <1>3, <1>4 DEF DiscardRight, BackupSteps, DropSteps
<1>10. BackupRight'
  BY <1>1, <1>2, <1>3, <1>4 DEF BackupRight, CallRight, Host, LastSteps
<1>11. CalmRight'
  BY <1>1, <1>2, <1>3, <1>4 DEF CalmRight, Unharmed, DeployedRuns, BackupSteps, DropSteps
<1>12. GoodRight'
  BY <1>1, <1>2, <1>3, <1>4 DEF GoodRight, FirstSteps, LastSteps, BackupSteps
<1>13. NothingLost'
  BY <1>1, <1>2, <1>3, <1>4 DEF NothingLost
<1> QED BY <1>5, <1>6, <1>7, <1>8, <1>9, <1>10, <1>11, <1>12, <1>13 DEF DeploymentInv

(* A new backup is empty (deploy.h:1393-1398).                              *)
LEMMA NewBackupKeeps ==
  ASSUME DeploymentInv, NewBackup PROVE DeploymentInv'
<1>1. /\ step = "backup" /\ step' = "plain" /\ latestBackup' = NoData
      /\ \A k \in DataKinds : latestBackup'[k] = None
      /\ UNCHANGED <<host, dataOn, firstTime, config, args, call, calls, writes, mishaps, saved, lost, good, woken>>
  BY DEF NewBackup, GoOn, about, ghosts, NoData
<1>2. /\ ServiceState /\ ServiceHostsRight /\ CallRight /\ DeployingRight /\ DiscardRight
      /\ BackupRight /\ CalmRight /\ GoodRight /\ NothingLost
  BY DEF DeploymentInv
<1>3. Host \in Hosts /\ Host' = Host
  BY <1>1, <1>2 DEF ServiceState, Host
<1>4. ServiceState'
  BY <1>1, <1>2, <1>3 DEF ServiceState, DeploymentSteps, FirstSteps, LastSteps, BackupSteps,
     DropSteps, OtherSteps, CallKinds, NoData, None
<1>5. ServiceHostsRight'
  BY <1>1, <1>2, <1>3 DEF ServiceHostsRight, HostRight
<1>6. CallRight'
  BY <1>1, <1>2, <1>3 DEF CallRight, FirstSteps, LastSteps, BackupSteps, DropSteps
<1>7. DeployingRight'
  BY <1>1, <1>2, <1>3 DEF DeployingRight, FirstSteps, LastSteps, BackupSteps, HasUser
<1>8. DiscardRight'
  BY <1>1, <1>2, <1>3 DEF DiscardRight, BackupSteps, DropSteps
<1>9. BackupRight'
  BY <1>1, <1>2, <1>3 DEF BackupRight, CallRight, Host, LastSteps, BackupSteps, DataKinds,
     DataFiles, None, ServiceState
<1>10. CalmRight'
  BY <1>1, <1>2, <1>3 DEF CalmRight, Unharmed, DeployedRuns, BackupSteps, DropSteps
<1>11. GoodRight'
  BY <1>1, <1>2, <1>3 DEF GoodRight, FirstSteps, LastSteps, BackupSteps
<1>12. NothingLost'
  BY <1>1, <1>2, <1>3 DEF NothingLost
<1> QED BY <1>4, <1>5, <1>6, <1>7, <1>8, <1>9, <1>10, <1>11, <1>12 DEF DeploymentInv

(* The plain file is saved (deploy.h:1399-1402).                            *)
LEMMA CopyPlainKeeps ==
  ASSUME DeploymentInv, CopyPlain, dataOn[Host]["plain"] # None PROVE DeploymentInv'
<1>1. /\ step = "plain" /\ dataOn[Host]["plain"] # None
      /\ step' = "nested"
      /\ latestBackup' = [latestBackup EXCEPT !["plain"] = dataOn[Host]["plain"]]
      /\ saved' = saved \union {<<"plain", dataOn[Host]["plain"]>>}
      /\ UNCHANGED <<host, dataOn, firstTime, config, args, call, calls, writes, mishaps, lost, good, woken>>
  BY DEF CopyPlain, Copy, GoOn, about, AfterBackup
<1>2. /\ ServiceState /\ ServiceHostsRight /\ CallRight /\ DeployingRight /\ DiscardRight
      /\ BackupRight /\ CalmRight /\ GoodRight /\ NothingLost
  BY DEF DeploymentInv
<1>3. Host \in Hosts /\ Host' = Host
  BY <1>1, <1>2 DEF ServiceState, Host
<1>4. /\ latestBackup' \in [DataKinds -> Int] /\ dataOn[Host]["plain"] \in Int
      /\ latestBackup'["plain"] = dataOn[Host]["plain"]
      /\ \A k \in DataKinds : k # "plain" => latestBackup'[k] = latestBackup[k]
  BY <1>1, <1>2, <1>3 DEF ServiceState, DataKinds, DataFiles
<1>5. ServiceState'
  BY <1>1, <1>2, <1>3, <1>4 DEF ServiceState, DeploymentSteps, FirstSteps, LastSteps, BackupSteps,
     DropSteps, OtherSteps, CallKinds
<1>6. ServiceHostsRight'
  BY <1>1, <1>2, <1>3, <1>4 DEF ServiceHostsRight, HostRight
<1>7. CallRight'
  BY <1>1, <1>2, <1>3, <1>4 DEF CallRight, FirstSteps, LastSteps, BackupSteps, DropSteps
<1>8. DeployingRight'
  BY <1>1, <1>2, <1>3, <1>4 DEF DeployingRight, FirstSteps, LastSteps, BackupSteps, HasUser
<1>9. DiscardRight'
  BY <1>1, <1>2, <1>3, <1>4 DEF DiscardRight, BackupSteps, DropSteps
<1>10. BackupRight'
  BY <1>1, <1>2, <1>3, <1>4 DEF BackupRight, CallRight, Host, LastSteps, DataKinds, DataFiles,
     BackupSteps, DropSteps, DiscardRight, ServiceHostsRight, HostRight
<1>11. CalmRight'
  BY <1>1, <1>2, <1>3, <1>4 DEF CalmRight, Unharmed, DeployedRuns, BackupSteps, DropSteps, CallRight
<1>12. GoodRight'
  BY <1>1, <1>2, <1>3, <1>4 DEF GoodRight, FirstSteps, LastSteps, BackupSteps
<1>13. NothingLost'
  BY <1>1, <1>2, <1>3, <1>4 DEF NothingLost
<1> QED BY <1>5, <1>6, <1>7, <1>8, <1>9, <1>10, <1>11, <1>12, <1>13 DEF DeploymentInv

(* The nested file is saved, and the files are complete                     *)
(* (deploy.h:1399-1402, 2440-2464).                                         *)
LEMMA CopyNestedKeeps ==
  ASSUME DeploymentInv, CopyNested, dataOn[Host]["nested"] # None PROVE DeploymentInv'
<1>1. /\ step = "nested" /\ dataOn[Host]["nested"] # None
      /\ \/ config.db /\ step' = "db"
         \/ ~config.db /\ step' = IF call.kind = "deploy" THEN "once" ELSE IF args.stopOnly THEN "finish"
                                      ELSE IF config.db THEN "drop_database" ELSE "delete_user"
      /\ latestBackup' = [latestBackup EXCEPT !["nested"] = dataOn[Host]["nested"]]
      /\ saved' = saved \union {<<"nested", dataOn[Host]["nested"]>>}
      /\ UNCHANGED <<host, dataOn, firstTime, config, args, call, calls, writes, mishaps, lost, good, woken>>
  BY DEF CopyNested, Copy, GoOn, about, AfterBackup
<1>2. /\ ServiceState /\ ServiceHostsRight /\ CallRight /\ DeployingRight /\ DiscardRight
      /\ BackupRight /\ CalmRight /\ GoodRight /\ NothingLost
  BY DEF DeploymentInv
<1>3. Host \in Hosts /\ Host' = Host
  BY <1>1, <1>2 DEF ServiceState, Host
<1>4. /\ latestBackup' \in [DataKinds -> Int] /\ dataOn[Host]["nested"] \in Int
      /\ latestBackup'["nested"] = dataOn[Host]["nested"]
      /\ \A k \in DataKinds : k # "nested" => latestBackup'[k] = latestBackup[k]
  BY <1>1, <1>2, <1>3 DEF ServiceState, DataKinds, DataFiles
<1>5. ServiceState'
  BY <1>1, <1>2, <1>3, <1>4 DEF ServiceState, DeploymentSteps, FirstSteps, LastSteps, BackupSteps,
     DropSteps, OtherSteps, CallKinds
<1>6. ServiceHostsRight'
  BY <1>1, <1>2, <1>3, <1>4 DEF ServiceHostsRight, HostRight
<1>7. CallRight'
  BY <1>1, <1>2, <1>3, <1>4 DEF CallRight, FirstSteps, LastSteps, BackupSteps, DropSteps
<1>8. DeployingRight'
  BY <1>1, <1>2, <1>3, <1>4 DEF DeployingRight, FirstSteps, LastSteps, BackupSteps, HasUser
<1>9. DiscardRight'
  BY <1>1, <1>2, <1>3, <1>4 DEF DiscardRight, BackupSteps, DropSteps
<1>10. BackupRight'
  <2>1. call.kind # "deploy" => ~host[Host].enabled /\ (host[Host].runs = None \/ woken)
    BY <1>1, <1>2 DEF DiscardRight, BackupSteps
  <2>2. call.kind = "move" => /\ latestBackup["plain"] # None
                              /\ latestBackup["plain"] = dataOn[Host]["plain"] \/ woken
    BY <1>1, <1>2 DEF BackupRight
  <2> QED BY <1>1, <1>2, <1>3, <1>4, <2>1, <2>2 DEF BackupRight, CallRight, Host, LastSteps, DataKinds, DataFiles,
             BackupSteps
<1>11. CalmRight'
  BY <1>1, <1>2, <1>3, <1>4 DEF CalmRight, Unharmed, DeployedRuns, BackupSteps, DropSteps, CallRight
<1>12. GoodRight'
  BY <1>1, <1>2, <1>3, <1>4 DEF GoodRight, FirstSteps, LastSteps, BackupSteps
<1>13. NothingLost'
  BY <1>1, <1>2, <1>3, <1>4 DEF NothingLost
<1> QED BY <1>5, <1>6, <1>7, <1>8, <1>9, <1>10, <1>11, <1>12, <1>13 DEF DeploymentInv

(* The database is saved, and the backup is complete (deploy.h:1404-1412).  *)
LEMMA DumpKeeps ==
  ASSUME DeploymentInv, Dump, dataOn[Host]["db"] # None PROVE DeploymentInv'
<1>1. /\ step = "db" /\ dataOn[Host]["db"] # None
      /\ step' = IF call.kind = "deploy" THEN "once" ELSE IF args.stopOnly THEN "finish"
                  ELSE IF config.db THEN "drop_database" ELSE "delete_user"
      /\ latestBackup' = [latestBackup EXCEPT !["db"] = dataOn[Host]["db"]]
      /\ saved' = saved \union {<<"db", dataOn[Host]["db"]>>}
      /\ UNCHANGED <<host, dataOn, firstTime, config, args, call, calls, writes, mishaps, lost, good, woken>>
  BY DEF Dump, Copy, GoOn, about, AfterBackup
<1>2. /\ ServiceState /\ ServiceHostsRight /\ CallRight /\ DeployingRight /\ DiscardRight
      /\ BackupRight /\ CalmRight /\ GoodRight /\ NothingLost
  BY DEF DeploymentInv
<1>3. Host \in Hosts /\ Host' = Host
  BY <1>1, <1>2 DEF ServiceState, Host
<1>4. /\ latestBackup' \in [DataKinds -> Int] /\ dataOn[Host]["db"] \in Int
      /\ latestBackup'["db"] = dataOn[Host]["db"]
      /\ \A k \in DataKinds : k # "db" => latestBackup'[k] = latestBackup[k]
  BY <1>1, <1>2, <1>3 DEF ServiceState, DataKinds, DataFiles
<1>5. ServiceState'
  BY <1>1, <1>2, <1>3, <1>4 DEF ServiceState, DeploymentSteps, FirstSteps, LastSteps, BackupSteps,
     DropSteps, OtherSteps, CallKinds
<1>6. ServiceHostsRight'
  BY <1>1, <1>2, <1>3, <1>4 DEF ServiceHostsRight, HostRight
<1>7. CallRight'
  BY <1>1, <1>2, <1>3, <1>4 DEF CallRight, FirstSteps, LastSteps, BackupSteps, DropSteps
<1>8. DeployingRight'
  BY <1>1, <1>2, <1>3, <1>4 DEF DeployingRight, FirstSteps, LastSteps, BackupSteps, HasUser
<1>9. DiscardRight'
  BY <1>1, <1>2, <1>3, <1>4 DEF DiscardRight, BackupSteps, DropSteps
<1>10. BackupRight'
  <2>1. call.kind # "deploy" => ~host[Host].enabled /\ (host[Host].runs = None \/ woken)
    BY <1>1, <1>2 DEF DiscardRight, BackupSteps
  <2>2. call.kind = "move" => /\ latestBackup["plain"] # None
                              /\ latestBackup["plain"] = dataOn[Host]["plain"] \/ woken
    BY <1>1, <1>2 DEF BackupRight
  <2> QED BY <1>1, <1>2, <1>3, <1>4, <2>1, <2>2 DEF BackupRight, CallRight, Host, LastSteps, DataKinds, DataFiles,
             BackupSteps
<1>11. CalmRight'
  BY <1>1, <1>2, <1>3, <1>4 DEF CalmRight, Unharmed, DeployedRuns, BackupSteps, DropSteps, CallRight
<1>12. GoodRight'
  BY <1>1, <1>2, <1>3, <1>4 DEF GoodRight, FirstSteps, LastSteps, BackupSteps
<1>13. NothingLost'
  BY <1>1, <1>2, <1>3, <1>4 DEF NothingLost
<1> QED BY <1>5, <1>6, <1>7, <1>8, <1>9, <1>10, <1>11, <1>12, <1>13 DEF DeploymentInv

(* What is not there cannot be saved; when nothing has failed, that is a    *)
(* file and not the database (deploy.h:1399-1412).                          *)
LEMMA NothingToCopyKeeps ==
  ASSUME DeploymentInv, NEW k \in DataKinds, step = k, dataOn[Host][k] = None, CopyPlain \/ CopyNested \/ Dump PROVE DeploymentInv'
<1>1. /\ step \in DataKinds /\ dataOn[Host][step] = None /\ step' = "failed"
      /\ UNCHANGED <<host, dataOn, firstTime, latestBackup, config, args, call, calls, writes, mishaps, saved, lost, good, woken>>
  BY DEF CopyPlain, CopyNested, Dump, Copy, GoOn, about
<1>2. /\ ServiceState /\ ServiceHostsRight /\ CallRight /\ DeployingRight /\ DiscardRight
      /\ BackupRight /\ CalmRight /\ GoodRight /\ NothingLost
  BY DEF DeploymentInv
<1>3. Host \in Hosts /\ Host' = Host
  BY <1>1, <1>2 DEF ServiceState, Host
<1>4. ServiceState'
  BY <1>1, <1>2, <1>3 DEF ServiceState, DeploymentSteps, FirstSteps, LastSteps, BackupSteps,
     DropSteps, OtherSteps, CallKinds
<1>5. ServiceHostsRight'
  BY <1>1, <1>2, <1>3 DEF ServiceHostsRight, HostRight
<1>6. CallRight'
  BY <1>1, <1>2, <1>3 DEF CallRight, FirstSteps, LastSteps, BackupSteps, DropSteps
<1>7. DeployingRight'
  BY <1>1, <1>2, <1>3 DEF DeployingRight, FirstSteps, LastSteps, BackupSteps, HasUser
<1>8. DiscardRight'
  BY <1>1, <1>2, <1>3 DEF DiscardRight, BackupSteps, DropSteps
<1>9. BackupRight'
  BY <1>1, <1>2, <1>3 DEF BackupRight, CallRight, Host, LastSteps
<1>10. CalmRight'
  BY <1>1, <1>2, <1>3 DEF CalmRight, Unharmed, DeployedRuns, BackupSteps, DropSteps, CallRight,
     DiscardRight, DataKinds, DataFiles, None, ServiceHostsRight, HostRight
<1>11. GoodRight'
  BY <1>1, <1>2, <1>3 DEF GoodRight, FirstSteps, LastSteps, BackupSteps
<1>12. NothingLost'
  BY <1>1, <1>2, <1>3 DEF NothingLost
<1> QED BY <1>4, <1>5, <1>6, <1>7, <1>8, <1>9, <1>10, <1>11, <1>12 DEF DeploymentInv

(* A service whose user is not there is left alone (deploy.h:2435-2440).    *)
LEMMA IsThereKeeps ==
  ASSUME DeploymentInv, IsThere PROVE DeploymentInv'
<1>1. /\ step = "is_there" /\ call.kind \in {"discard", "move"}
      /\ \/ step' = "finish" /\ ~HasUser(Host)
         \/ step' = "stop_service"
         \/ step' = "delete_unit" /\ ~args.stopOnly /\ ~host[Host].unit
      /\ UNCHANGED <<host, dataOn, firstTime, latestBackup, config, args, call, calls, writes, mishaps, saved, lost, good, woken>>
  BY DEF IsThere, DeploymentInv, CallRight, Keeps, about, ghosts, GoOn
<1>2. /\ ServiceState /\ ServiceHostsRight /\ CallRight /\ DeployingRight /\ DiscardRight
      /\ BackupRight /\ CalmRight /\ GoodRight /\ NothingLost
  BY DEF DeploymentInv
<1>3. Host \in Hosts /\ Host' = Host
  BY <1>1, <1>2 DEF ServiceState, Host
<1>4. ServiceState'
  BY <1>1, <1>2, <1>3 DEF ServiceState, DeploymentSteps, FirstSteps, LastSteps, BackupSteps,
     DropSteps, OtherSteps, CallKinds
<1>5. ServiceHostsRight'
  BY <1>1, <1>2, <1>3 DEF ServiceHostsRight, HostRight
<1>6. CallRight'
  BY <1>1, <1>2, <1>3 DEF CallRight, FirstSteps, LastSteps, BackupSteps, DropSteps
<1>7. DeployingRight'
  BY <1>1, <1>2, <1>3 DEF DeployingRight, FirstSteps, LastSteps, BackupSteps, HasUser
<1>8. DiscardRight'
  BY <1>1, <1>2, <1>3 DEF DiscardRight, BackupSteps, DropSteps, ServiceHostsRight, HostRight
<1>9. BackupRight'
  BY <1>1, <1>2, <1>3 DEF BackupRight, CallRight, Host, LastSteps, HasUser, ServiceHostsRight,
     HostRight
<1>10. CalmRight'
  BY <1>1, <1>2, <1>3 DEF CalmRight, Unharmed, DeployedRuns, BackupSteps, DropSteps
<1>11. GoodRight'
  BY <1>1, <1>2, <1>3 DEF GoodRight, FirstSteps, LastSteps, BackupSteps
<1>12. NothingLost'
  BY <1>1, <1>2, <1>3 DEF NothingLost
<1> QED BY <1>4, <1>5, <1>6, <1>7, <1>8, <1>9, <1>10, <1>11, <1>12 DEF DeploymentInv

(* The service is stopped (deploy.h:645-646, 2443).                         *)
LEMMA StopServiceKeeps ==
  ASSUME DeploymentInv, StopService, host[Host].unit PROVE DeploymentInv'
<1>1. /\ step = "stop_service" /\ step' = "disable" /\ woken' = FALSE
      /\ call.kind \in {"discard", "move"}
      /\ UNCHANGED <<dataOn, firstTime, latestBackup, config, args, call, calls, writes, mishaps, saved, lost, good>>
      /\ host' = [host EXCEPT ![Host].runs = None]
  BY DEF StopService, DeploymentInv, CallRight, Keeps, about, ghosts, GoOn
<1>2. /\ ServiceState /\ ServiceHostsRight /\ CallRight /\ DeployingRight /\ DiscardRight
      /\ BackupRight /\ CalmRight /\ GoodRight /\ NothingLost
  BY DEF DeploymentInv
<1>3. Host \in Hosts /\ Host' = Host
  BY <1>1, <1>2 DEF ServiceState, Host
<1>4. /\ host' \in [Hosts -> ServiceHosts]
      /\ host'[Host].user = host[Host].user /\ host'[Host].unit = host[Host].unit
      /\ host'[Host].enabled = host[Host].enabled /\ host'[Host].runs = None
      /\ host'[Host].prog = host[Host].prog /\ host'[Host].bak = host[Host].bak
      /\ host'[Host].role = host[Host].role
      /\ \A i \in Hosts : i # Host => host'[i] = host[i]
  <2>1. host[Host] \in ServiceHosts /\ host \in [Hosts -> ServiceHosts]
    BY <1>2, <1>3 DEF ServiceState
  <2>3. PICK r : r = [host[Host] EXCEPT !.runs = None]
    OBVIOUS
  <2>4. /\ r \in ServiceHosts
        /\ r.user = host[Host].user /\ r.unit = host[Host].unit
        /\ r.enabled = host[Host].enabled /\ r.runs = None
        /\ r.prog = host[Host].prog /\ r.bak = host[Host].bak /\ r.role = host[Host].role
    BY <2>1, <2>3, BackupValues DEF ServiceHosts
  <2>5. host' = [host EXCEPT ![Host] = r]
    BY <1>1, <2>1, <2>3
  <2>6. host' \in [Hosts -> ServiceHosts] /\ host'[Host] = r /\ \A i \in Hosts : i # Host => host'[i] = host[i]
    BY <1>3, <2>1, <2>4, <2>5, HostSet
  <2> QED BY <2>4, <2>6
<1>5. ServiceState'
  BY <1>1, <1>2, <1>3, <1>4 DEF ServiceState, DeploymentSteps, FirstSteps, LastSteps, BackupSteps,
     DropSteps, OtherSteps, CallKinds
<1>6. ServiceHostsRight'
  BY <1>1, <1>2, <1>3, <1>4 DEF ServiceHostsRight, HostRight
<1>7. CallRight'
  BY <1>1, <1>2, <1>3, <1>4 DEF CallRight, FirstSteps, LastSteps, BackupSteps, DropSteps
<1>8. DeployingRight'
  BY <1>1, <1>2, <1>3, <1>4 DEF DeployingRight, FirstSteps, LastSteps, BackupSteps, HasUser
<1>9. DiscardRight'
  BY <1>1, <1>2, <1>3, <1>4 DEF DiscardRight, BackupSteps, DropSteps
<1>10. BackupRight'
  BY <1>1, <1>2, <1>3, <1>4 DEF BackupRight, CallRight, Host, LastSteps
<1>11. CalmRight'
  BY <1>1, <1>2, <1>3, <1>4 DEF CalmRight, Unharmed, DeployedRuns, BackupSteps, DropSteps
<1>12. GoodRight'
  BY <1>1, <1>2, <1>3, <1>4 DEF GoodRight, FirstSteps, LastSteps, BackupSteps
<1>13. NothingLost'
  BY <1>1, <1>2, <1>3, <1>4 DEF NothingLost
<1> QED BY <1>5, <1>6, <1>7, <1>8, <1>9, <1>10, <1>11, <1>12, <1>13 DEF DeploymentInv

(* It is disabled; when its host has restarted since, it runs again         *)
(* (deploy.h:647, 2444).                                                    *)
LEMMA DisableServiceKeeps ==
  ASSUME DeploymentInv, DisableService PROVE DeploymentInv'
<1>1. /\ step = "disable" /\ step' = IF args.stopOnly THEN "backup" ELSE "delete_unit"
      /\ call.kind \in {"discard", "move"}
      /\ UNCHANGED <<dataOn, firstTime, latestBackup, config, args, call, calls, writes, mishaps, saved, lost, good, woken>>
      /\ host' = [host EXCEPT ![Host].enabled = FALSE]
  BY DEF DisableService, Disabled, DeploymentInv, CallRight, Keeps, about, ghosts, GoOn
<1>2. /\ ServiceState /\ ServiceHostsRight /\ CallRight /\ DeployingRight /\ DiscardRight
      /\ BackupRight /\ CalmRight /\ GoodRight /\ NothingLost
  BY DEF DeploymentInv
<1>3. Host \in Hosts /\ Host' = Host
  BY <1>1, <1>2 DEF ServiceState, Host
<1>4. /\ host' \in [Hosts -> ServiceHosts]
      /\ host'[Host].user = host[Host].user /\ host'[Host].unit = host[Host].unit
      /\ host'[Host].enabled = FALSE /\ host'[Host].runs = host[Host].runs
      /\ host'[Host].prog = host[Host].prog /\ host'[Host].bak = host[Host].bak
      /\ host'[Host].role = host[Host].role
      /\ \A i \in Hosts : i # Host => host'[i] = host[i]
  <2>1. host[Host] \in ServiceHosts /\ host \in [Hosts -> ServiceHosts]
    BY <1>2, <1>3 DEF ServiceState
  <2>3. PICK r : r = [host[Host] EXCEPT !.enabled = FALSE]
    OBVIOUS
  <2>4. /\ r \in ServiceHosts
        /\ r.user = host[Host].user /\ r.unit = host[Host].unit
        /\ r.enabled = FALSE /\ r.runs = host[Host].runs
        /\ r.prog = host[Host].prog /\ r.bak = host[Host].bak /\ r.role = host[Host].role
    BY <2>1, <2>3 DEF ServiceHosts
  <2>5. host' = [host EXCEPT ![Host] = r]
    BY <1>1, <2>1, <2>3
  <2>6. host' \in [Hosts -> ServiceHosts] /\ host'[Host] = r /\ \A i \in Hosts : i # Host => host'[i] = host[i]
    BY <1>3, <2>1, <2>4, <2>5, HostSet
  <2> QED BY <2>4, <2>6
<1>5. ServiceState'
  BY <1>1, <1>2, <1>3, <1>4 DEF ServiceState, DeploymentSteps, FirstSteps, LastSteps, BackupSteps,
     DropSteps, OtherSteps, CallKinds
<1>6. ServiceHostsRight'
  BY <1>1, <1>2, <1>3, <1>4 DEF ServiceHostsRight, HostRight
<1>7. CallRight'
  BY <1>1, <1>2, <1>3, <1>4 DEF CallRight, FirstSteps, LastSteps, BackupSteps, DropSteps
<1>8. DeployingRight'
  BY <1>1, <1>2, <1>3, <1>4 DEF DeployingRight, FirstSteps, LastSteps, BackupSteps, HasUser
<1>9. DiscardRight'
  BY <1>1, <1>2, <1>3, <1>4 DEF DiscardRight, BackupSteps, DropSteps
<1>10. BackupRight'
  BY <1>1, <1>2, <1>3, <1>4 DEF BackupRight, CallRight, Host, LastSteps
<1>11. CalmRight'
  BY <1>1, <1>2, <1>3, <1>4 DEF CalmRight, Unharmed, DeployedRuns, BackupSteps, DropSteps,
     DiscardRight
<1>12. GoodRight'
  BY <1>1, <1>2, <1>3, <1>4 DEF GoodRight, FirstSteps, LastSteps, BackupSteps
<1>13. NothingLost'
  BY <1>1, <1>2, <1>3, <1>4 DEF NothingLost
<1> QED BY <1>5, <1>6, <1>7, <1>8, <1>9, <1>10, <1>11, <1>12, <1>13 DEF DeploymentInv

(* A service that has no unit cannot be stopped; it has no data of its own  *)
(* yet, or something has failed (deploy.h:645-646).                         *)
LEMMA NothingToStopKeeps ==
  ASSUME DeploymentInv, StopService, ~host[Host].unit PROVE DeploymentInv'
<1>1. /\ step = "stop_service" /\ step' = "failed"
      /\ UNCHANGED <<host, dataOn, firstTime, latestBackup, config, args, call, calls, writes, mishaps, saved, lost, good, woken>>
  BY DEF StopService, Keeps, about, ghosts, GoOn
<1>2. /\ ServiceState /\ ServiceHostsRight /\ CallRight /\ DeployingRight /\ DiscardRight
      /\ BackupRight /\ CalmRight /\ GoodRight /\ NothingLost
  BY DEF DeploymentInv
<1>3. Host \in Hosts /\ Host' = Host
  BY <1>1, <1>2 DEF ServiceState, Host
<1>4. ServiceState'
  BY <1>1, <1>2, <1>3 DEF ServiceState, DeploymentSteps, FirstSteps, LastSteps, BackupSteps,
     DropSteps, OtherSteps, CallKinds
<1>5. ServiceHostsRight'
  BY <1>1, <1>2, <1>3 DEF ServiceHostsRight, HostRight
<1>6. CallRight'
  BY <1>1, <1>2, <1>3 DEF CallRight, FirstSteps, LastSteps, BackupSteps, DropSteps
<1>7. DeployingRight'
  BY <1>1, <1>2, <1>3 DEF DeployingRight, FirstSteps, LastSteps, BackupSteps, HasUser
<1>8. DiscardRight'
  BY <1>1, <1>2, <1>3 DEF DiscardRight, BackupSteps, DropSteps
<1>9. BackupRight'
  BY <1>1, <1>2, <1>3 DEF BackupRight, CallRight, Host, LastSteps
<1>10. CalmRight'
  BY <1>1, <1>2, <1>3 DEF CalmRight, Unharmed, DeployedRuns, BackupSteps, DropSteps,
     ServiceHostsRight, HostRight, DataFiles
<1>11. GoodRight'
  BY <1>1, <1>2, <1>3 DEF GoodRight, FirstSteps, LastSteps, BackupSteps
<1>12. NothingLost'
  BY <1>1, <1>2, <1>3 DEF NothingLost
<1> QED BY <1>4, <1>5, <1>6, <1>7, <1>8, <1>9, <1>10, <1>11, <1>12 DEF DeploymentInv

(* The unit of a service that does not run is deleted (deploy.h:649-651).   *)
LEMMA DeleteUnitKeeps ==
  ASSUME DeploymentInv, DeleteUnit PROVE DeploymentInv'
<1>1. /\ step = "delete_unit" /\ step' = "backup"
      /\ call.kind = "discard" /\ ~args.stopOnly
      /\ UNCHANGED <<dataOn, firstTime, latestBackup, config, args, call, calls, writes, mishaps, saved, lost, good, woken>>
      /\ host' = [host EXCEPT ![Host].unit = FALSE]
  BY DEF DeleteUnit, DeploymentInv, CallRight, Keeps, about, ghosts, GoOn
<1>2. /\ ServiceState /\ ServiceHostsRight /\ CallRight /\ DeployingRight /\ DiscardRight
      /\ BackupRight /\ CalmRight /\ GoodRight /\ NothingLost
  BY DEF DeploymentInv
<1>3. Host \in Hosts /\ Host' = Host
  BY <1>1, <1>2 DEF ServiceState, Host
<1>4. /\ host' \in [Hosts -> ServiceHosts]
      /\ host'[Host].user = host[Host].user /\ host'[Host].unit = FALSE
      /\ host'[Host].enabled = host[Host].enabled /\ host'[Host].runs = host[Host].runs
      /\ host'[Host].prog = host[Host].prog /\ host'[Host].bak = host[Host].bak
      /\ host'[Host].role = host[Host].role
      /\ \A i \in Hosts : i # Host => host'[i] = host[i]
  <2>1. host[Host] \in ServiceHosts /\ host \in [Hosts -> ServiceHosts]
    BY <1>2, <1>3 DEF ServiceState
  <2>3. PICK r : r = [host[Host] EXCEPT !.unit = FALSE]
    OBVIOUS
  <2>4. /\ r \in ServiceHosts
        /\ r.user = host[Host].user /\ r.unit = FALSE
        /\ r.enabled = host[Host].enabled /\ r.runs = host[Host].runs
        /\ r.prog = host[Host].prog /\ r.bak = host[Host].bak /\ r.role = host[Host].role
    BY <2>1, <2>3 DEF ServiceHosts
  <2>5. host' = [host EXCEPT ![Host] = r]
    BY <1>1, <2>1, <2>3
  <2>6. host' \in [Hosts -> ServiceHosts] /\ host'[Host] = r /\ \A i \in Hosts : i # Host => host'[i] = host[i]
    BY <1>3, <2>1, <2>4, <2>5, HostSet
  <2> QED BY <2>4, <2>6
<1>5. ServiceState'
  BY <1>1, <1>2, <1>3, <1>4 DEF ServiceState, DeploymentSteps, FirstSteps, LastSteps, BackupSteps,
     DropSteps, OtherSteps, CallKinds
<1>6. ServiceHostsRight'
  BY <1>1, <1>2, <1>3, <1>4 DEF ServiceHostsRight, HostRight, DiscardRight
<1>7. CallRight'
  BY <1>1, <1>2, <1>3, <1>4 DEF CallRight, FirstSteps, LastSteps, BackupSteps, DropSteps
<1>8. DeployingRight'
  BY <1>1, <1>2, <1>3, <1>4 DEF DeployingRight, FirstSteps, LastSteps, BackupSteps, HasUser
<1>9. DiscardRight'
  BY <1>1, <1>2, <1>3, <1>4 DEF DiscardRight, BackupSteps, DropSteps
<1>10. BackupRight'
  BY <1>1, <1>2, <1>3, <1>4 DEF BackupRight, CallRight, Host, LastSteps
<1>11. CalmRight'
  BY <1>1, <1>2, <1>3, <1>4 DEF CalmRight, Unharmed, DeployedRuns, BackupSteps, DropSteps,
     ServiceHostsRight, HostRight, DiscardRight
<1>12. GoodRight'
  BY <1>1, <1>2, <1>3, <1>4 DEF GoodRight, FirstSteps, LastSteps, BackupSteps
<1>13. NothingLost'
  BY <1>1, <1>2, <1>3, <1>4 DEF NothingLost
<1> QED BY <1>5, <1>6, <1>7, <1>8, <1>9, <1>10, <1>11, <1>12, <1>13 DEF DeploymentInv

(* The database is dropped, as it was saved or with the writes of a service *)
(* that was woken (deploy.h:2464-2465).                                     *)
LEMMA DropDatabaseKeeps ==
  ASSUME DeploymentInv, DropDatabase, step' # "failed" PROVE DeploymentInv'
<1>1. /\ step = "drop_database" /\ step' = "drop_role" /\ dataOn[Host]["db"] # None
      /\ call.kind = "discard" /\ ~args.stopOnly
      /\ dataOn' = [dataOn EXCEPT ![Host] = [dataOn[Host] EXCEPT !["db"] = None]]
      /\ UNCHANGED <<host, firstTime, latestBackup, config, args, call, calls, writes, mishaps, saved, good, woken>>
  BY DEF DropDatabase, DataSet, DeploymentInv, CallRight, DropSteps, DiscardRight, Keeps, about,
     ghosts, GoOn
<1>2. /\ ServiceState /\ ServiceHostsRight /\ CallRight /\ DeployingRight /\ DiscardRight
      /\ BackupRight /\ CalmRight /\ GoodRight /\ NothingLost
  BY DEF DeploymentInv
<1>3. Host \in Hosts /\ Host' = Host
  BY <1>1, <1>2 DEF ServiceState, Host
<1>4. /\ dataOn' \in [Hosts -> [DataKinds -> Int]]
      /\ dataOn'[Host]["plain"] = dataOn[Host]["plain"]
      /\ dataOn'[Host]["nested"] = dataOn[Host]["nested"]
      /\ dataOn'[Host]["db"] = None
      /\ \A i \in Hosts : i # Host => dataOn'[i] = dataOn[i]
  BY <1>1, <1>2, <1>3, BackupValues DEF ServiceState, DataKinds, DataFiles, None
<1>5. lost' = lost \/ lost' = lost \union {<<"woken", "drop_database">>}
  <2>1. PICK new : new = [dataOn[Host] EXCEPT !["db"] = None]
    OBVIOUS
  <2>2. \A k \in DataKinds : new[k] # dataOn[Host][k] => <<k, dataOn[Host][k]>> \in saved \/ woken
    BY <1>1, <1>2, <1>3, <2>1 DEF ServiceState, DataKinds, DataFiles, DiscardRight, BackupSteps, DropSteps
  <2>3. lost' = IF \E k \in DataKinds : /\ dataOn[Host][k] > 0 /\ new[k] # dataOn[Host][k]
                                        /\ <<k, dataOn[Host][k]>> \notin saved
                THEN lost \union {Replacing} ELSE lost
    BY <1>1, <2>1 DEF DropDatabase, DataSet, GoOn
  <2>4. lost' = lost \/ (woken /\ lost' = lost \union {Replacing})
    BY <2>2, <2>3
  <2>5. woken => Replacing = <<"woken", "drop_database">>
    BY <1>1 DEF Replacing
  <2> QED BY <2>4, <2>5
<1>6. ServiceState'
  BY <1>1, <1>2, <1>3, <1>4, <1>5 DEF ServiceState, DeploymentSteps, FirstSteps, LastSteps,
     BackupSteps, DropSteps, OtherSteps, CallKinds
<1>7. ServiceHostsRight'
  BY <1>1, <1>2, <1>3, <1>4, <1>5 DEF ServiceHostsRight, HostRight
<1>8. CallRight'
  BY <1>1, <1>2, <1>3, <1>4, <1>5 DEF CallRight, FirstSteps, LastSteps, BackupSteps, DropSteps
<1>9. DeployingRight'
  BY <1>1, <1>2, <1>3, <1>4, <1>5 DEF DeployingRight, FirstSteps, LastSteps, BackupSteps, HasUser
<1>10. DiscardRight'
  BY <1>1, <1>2, <1>3, <1>4, <1>5 DEF DiscardRight, BackupSteps, DropSteps, ServiceHostsRight,
     HostRight
<1>11. BackupRight'
  BY <1>1, <1>2, <1>3, <1>4, <1>5 DEF BackupRight, CallRight, Host, LastSteps
<1>12. CalmRight'
  BY <1>1, <1>2, <1>3, <1>4, <1>5 DEF CalmRight, Unharmed, DeployedRuns, BackupSteps, DropSteps
<1>13. GoodRight'
  BY <1>1, <1>2, <1>3, <1>4, <1>5 DEF GoodRight, FirstSteps, LastSteps, BackupSteps
<1>14. NothingLost'
  BY <1>1, <1>2, <1>3, <1>4, <1>5 DEF NothingLost
<1> QED BY <1>6, <1>7, <1>8, <1>9, <1>10, <1>11, <1>12, <1>13, <1>14 DEF DeploymentInv

(* It cannot be while the service is connected to it (deploy.h:2464-2465).  *)
LEMMA CannotDropKeeps ==
  ASSUME DeploymentInv, DropDatabase, step' = "failed" PROVE DeploymentInv'
<1>1. /\ step = "drop_database" /\ step' = "failed" /\ (dataOn[Host]["db"] = None \/ host[Host].runs # None)
      /\ UNCHANGED <<host, dataOn, firstTime, latestBackup, config, args, call, calls, writes, mishaps, saved, lost, good, woken>>
  BY DEF DropDatabase, Keeps, about, ghosts, GoOn
<1>2. /\ ServiceState /\ ServiceHostsRight /\ CallRight /\ DeployingRight /\ DiscardRight
      /\ BackupRight /\ CalmRight /\ GoodRight /\ NothingLost
  BY DEF DeploymentInv
<1>3. Host \in Hosts /\ Host' = Host
  BY <1>1, <1>2 DEF ServiceState, Host
<1>4. ServiceState'
  BY <1>1, <1>2, <1>3 DEF ServiceState, DeploymentSteps, FirstSteps, LastSteps, BackupSteps,
     DropSteps, OtherSteps, CallKinds
<1>5. ServiceHostsRight'
  BY <1>1, <1>2, <1>3 DEF ServiceHostsRight, HostRight
<1>6. CallRight'
  BY <1>1, <1>2, <1>3 DEF CallRight, FirstSteps, LastSteps, BackupSteps, DropSteps
<1>7. DeployingRight'
  BY <1>1, <1>2, <1>3 DEF DeployingRight, FirstSteps, LastSteps, BackupSteps, HasUser
<1>8. DiscardRight'
  BY <1>1, <1>2, <1>3 DEF DiscardRight, BackupSteps, DropSteps
<1>9. BackupRight'
  BY <1>1, <1>2, <1>3 DEF BackupRight, CallRight, Host, LastSteps
<1>10. CalmRight'
  <2>1. mishaps # 0
    BY <1>1, <1>2 DEF CalmRight, DiscardRight, CallRight, DropSteps
  <2> QED BY <1>1, <2>1 DEF CalmRight
<1>11. GoodRight'
  BY <1>1, <1>2, <1>3 DEF GoodRight, FirstSteps, LastSteps, BackupSteps
<1>12. NothingLost'
  BY <1>1, <1>2, <1>3 DEF NothingLost
<1> QED BY <1>4, <1>5, <1>6, <1>7, <1>8, <1>9, <1>10, <1>11, <1>12 DEF DeploymentInv

(* The user of the database is dropped after it (deploy.h:2466).            *)
LEMMA DropRoleKeeps ==
  ASSUME DeploymentInv, DropRole PROVE DeploymentInv'
<1>1. /\ step = "drop_role" /\ step' = "delete_user"
      /\ call.kind = "discard" /\ ~args.stopOnly
      /\ UNCHANGED <<dataOn, firstTime, latestBackup, config, args, call, calls, writes, mishaps, saved, lost, good, woken>>
      /\ host' = [host EXCEPT ![Host].role = FALSE]
  BY DEF DropRole, DeploymentInv, CallRight, DropSteps, DiscardRight, Keeps, about, ghosts, GoOn
<1>2. /\ ServiceState /\ ServiceHostsRight /\ CallRight /\ DeployingRight /\ DiscardRight
      /\ BackupRight /\ CalmRight /\ GoodRight /\ NothingLost
  BY DEF DeploymentInv
<1>3. Host \in Hosts /\ Host' = Host
  BY <1>1, <1>2 DEF ServiceState, Host
<1>4. /\ host' \in [Hosts -> ServiceHosts]
      /\ host'[Host].user = host[Host].user /\ host'[Host].unit = host[Host].unit
      /\ host'[Host].enabled = host[Host].enabled /\ host'[Host].runs = host[Host].runs
      /\ host'[Host].prog = host[Host].prog /\ host'[Host].bak = host[Host].bak
      /\ host'[Host].role = FALSE
      /\ \A i \in Hosts : i # Host => host'[i] = host[i]
  <2>1. host[Host] \in ServiceHosts /\ host \in [Hosts -> ServiceHosts]
    BY <1>2, <1>3 DEF ServiceState
  <2>3. PICK r : r = [host[Host] EXCEPT !.role = FALSE]
    OBVIOUS
  <2>4. /\ r \in ServiceHosts
        /\ r.user = host[Host].user /\ r.unit = host[Host].unit
        /\ r.enabled = host[Host].enabled /\ r.runs = host[Host].runs
        /\ r.prog = host[Host].prog /\ r.bak = host[Host].bak /\ r.role = FALSE
    BY <2>1, <2>3 DEF ServiceHosts
  <2>5. host' = [host EXCEPT ![Host] = r]
    BY <1>1, <2>1, <2>3
  <2>6. host' \in [Hosts -> ServiceHosts] /\ host'[Host] = r /\ \A i \in Hosts : i # Host => host'[i] = host[i]
    BY <1>3, <2>1, <2>4, <2>5, HostSet
  <2> QED BY <2>4, <2>6
<1>5. ServiceState'
  BY <1>1, <1>2, <1>3, <1>4 DEF ServiceState, DeploymentSteps, FirstSteps, LastSteps, BackupSteps,
     DropSteps, OtherSteps, CallKinds
<1>6. ServiceHostsRight'
  BY <1>1, <1>2, <1>3, <1>4 DEF ServiceHostsRight, HostRight, DiscardRight, DropSteps
<1>7. CallRight'
  BY <1>1, <1>2, <1>3, <1>4 DEF CallRight, FirstSteps, LastSteps, BackupSteps, DropSteps
<1>8. DeployingRight'
  BY <1>1, <1>2, <1>3, <1>4 DEF DeployingRight, FirstSteps, LastSteps, BackupSteps, HasUser
<1>9. DiscardRight'
  BY <1>1, <1>2, <1>3, <1>4 DEF DiscardRight, BackupSteps, DropSteps
<1>10. BackupRight'
  BY <1>1, <1>2, <1>3, <1>4 DEF BackupRight, CallRight, Host, LastSteps
<1>11. CalmRight'
  BY <1>1, <1>2, <1>3, <1>4 DEF CalmRight, Unharmed, DeployedRuns, BackupSteps, DropSteps,
     DiscardRight
<1>12. GoodRight'
  BY <1>1, <1>2, <1>3, <1>4 DEF GoodRight, FirstSteps, LastSteps, BackupSteps
<1>13. NothingLost'
  BY <1>1, <1>2, <1>3, <1>4 DEF NothingLost
<1> QED BY <1>5, <1>6, <1>7, <1>8, <1>9, <1>10, <1>11, <1>12, <1>13 DEF DeploymentInv

(* The user of the service is deleted with the files, as they were saved or *)
(* with the writes of a service that was woken (deploy.h:1974-1978).        *)
LEMMA DeleteUserKeeps ==
  ASSUME DeploymentInv, DeleteUser, host[Host].user, host[Host].runs = None PROVE DeploymentInv'
<1>1. /\ step = "delete_user" /\ step' = "finish" /\ host[Host].user /\ host[Host].runs = None
      /\ call.kind = "discard" /\ ~args.stopOnly
      /\ dataOn' = [dataOn EXCEPT ![Host] = [dataOn[Host] EXCEPT !["plain"] = None, !["nested"] = None]]
      /\ good' = [good EXCEPT ![Host] = NeverRan]
      /\ UNCHANGED <<firstTime, latestBackup, config, args, call, calls, writes, mishaps, saved, woken>>
      /\ host' = [host EXCEPT ![Host].user = FALSE, ![Host].prog = None, ![Host].bak = None]
  BY DEF DeleteUser, DataSet, DeploymentInv, CallRight, DropSteps, DiscardRight, ServiceState, Host,
     Keeps, about, GoOn, ServiceHostsRight, HostRight
<1>2. /\ ServiceState /\ ServiceHostsRight /\ CallRight /\ DeployingRight /\ DiscardRight
      /\ BackupRight /\ CalmRight /\ GoodRight /\ NothingLost
  BY DEF DeploymentInv
<1>3. Host \in Hosts /\ Host' = Host
  BY <1>1, <1>2 DEF ServiceState, Host
<1>4. /\ host' \in [Hosts -> ServiceHosts]
      /\ host'[Host].user = FALSE /\ host'[Host].unit = host[Host].unit
      /\ host'[Host].enabled = host[Host].enabled /\ host'[Host].runs = host[Host].runs
      /\ host'[Host].prog = None /\ host'[Host].bak = None
      /\ host'[Host].role = host[Host].role
      /\ \A i \in Hosts : i # Host => host'[i] = host[i]
  <2>1. host[Host] \in ServiceHosts /\ host \in [Hosts -> ServiceHosts]
    BY <1>2, <1>3 DEF ServiceState
  <2>3. PICK r : r = [host[Host] EXCEPT !.user = FALSE, !.prog = None, !.bak = None]
    OBVIOUS
  <2>4. /\ r \in ServiceHosts
        /\ r.user = FALSE /\ r.unit = host[Host].unit
        /\ r.enabled = host[Host].enabled /\ r.runs = host[Host].runs
        /\ r.prog = None /\ r.bak = None /\ r.role = host[Host].role
    BY <2>1, <2>3, BackupValues DEF ServiceHosts
  <2>5. host' = [host EXCEPT ![Host] = r]
    BY <1>1, <2>1, <2>3
  <2>6. host' \in [Hosts -> ServiceHosts] /\ host'[Host] = r /\ \A i \in Hosts : i # Host => host'[i] = host[i]
    BY <1>3, <2>1, <2>4, <2>5, HostSet
  <2> QED BY <2>4, <2>6
<1>5. /\ dataOn' \in [Hosts -> [DataKinds -> Int]]
      /\ dataOn'[Host]["plain"] = None
      /\ dataOn'[Host]["nested"] = None
      /\ dataOn'[Host]["db"] = dataOn[Host]["db"]
      /\ \A i \in Hosts : i # Host => dataOn'[i] = dataOn[i]
  BY <1>1, <1>2, <1>3, BackupValues DEF ServiceState, DataKinds, DataFiles, None
<1>6. lost' = lost \/ lost' = lost \union {<<"woken", "delete_user">>}
  <2>1. PICK new : new = [dataOn[Host] EXCEPT !["plain"] = None, !["nested"] = None]
    OBVIOUS
  <2>2. \A k \in DataKinds : new[k] # dataOn[Host][k] => <<k, dataOn[Host][k]>> \in saved \/ woken
    BY <1>1, <1>2, <1>3, <2>1 DEF ServiceState, DataKinds, DataFiles, DiscardRight, BackupSteps, DropSteps
  <2>3. lost' = IF \E k \in DataKinds : /\ dataOn[Host][k] > 0 /\ new[k] # dataOn[Host][k]
                                        /\ <<k, dataOn[Host][k]>> \notin saved
                THEN lost \union {Replacing} ELSE lost
    BY <1>1, <2>1 DEF DeleteUser, DataSet
  <2>4. lost' = lost \/ (woken /\ lost' = lost \union {Replacing})
    BY <2>2, <2>3
  <2>5. woken => Replacing = <<"woken", "delete_user">>
    BY <1>1 DEF Replacing
  <2> QED BY <2>4, <2>5
<1>7. ServiceState'
  BY <1>1, <1>2, <1>3, <1>4, <1>5, <1>6 DEF ServiceState, DeploymentSteps, FirstSteps, LastSteps,
     BackupSteps, DropSteps, OtherSteps, CallKinds, None, NeverRan
<1>8. ServiceHostsRight'
  BY <1>1, <1>2, <1>3, <1>4, <1>5, <1>6 DEF ServiceHostsRight, HostRight, DiscardRight, BackupSteps,
     DropSteps, ServiceState, None
<1>9. CallRight'
  BY <1>1, <1>2, <1>3, <1>4, <1>5, <1>6 DEF CallRight, FirstSteps, LastSteps, BackupSteps, DropSteps
<1>10. DeployingRight'
  BY <1>1, <1>2, <1>3, <1>4, <1>5, <1>6 DEF DeployingRight, FirstSteps, LastSteps, BackupSteps,
     HasUser
<1>11. DiscardRight'
  BY <1>1 DEF DiscardRight, BackupSteps, DropSteps
<1>12. BackupRight'
  BY <1>1, <1>2, <1>3, <1>4 DEF BackupRight, DiscardRight, BackupSteps, DropSteps
<1>13. CalmRight'
  BY <1>1, <1>2, <1>3, <1>4, <1>5, <1>6 DEF CalmRight, Unharmed, DeployedRuns, BackupSteps,
     DropSteps, None, DiscardRight, ServiceHostsRight, HostRight
<1>14. GoodRight'
  BY <1>1, <1>2, <1>3, <1>4, <1>5, <1>6 DEF GoodRight, FirstSteps, LastSteps, BackupSteps,
     ServiceState, None, NeverRan
<1>15. NothingLost'
  BY <1>1, <1>2, <1>3, <1>4, <1>5, <1>6 DEF NothingLost
<1> QED BY <1>7, <1>8, <1>9, <1>10, <1>11, <1>12, <1>13, <1>14, <1>15 DEF DeploymentInv

(* A user with a process cannot be deleted (deploy.h:1974-1978).            *)
LEMMA CannotDeleteKeeps ==
  ASSUME DeploymentInv, DeleteUser, ~host[Host].user \/ host[Host].runs # None PROVE DeploymentInv'
<1>1. /\ step = "delete_user" /\ step' = "failed" /\ (~host[Host].user \/ host[Host].runs # None)
      /\ UNCHANGED <<host, dataOn, firstTime, latestBackup, config, args, call, calls, writes, mishaps, saved, lost, good, woken>>
  BY DEF DeleteUser, Keeps, about, ghosts, GoOn
<1>2. /\ ServiceState /\ ServiceHostsRight /\ CallRight /\ DeployingRight /\ DiscardRight
      /\ BackupRight /\ CalmRight /\ GoodRight /\ NothingLost
  BY DEF DeploymentInv
<1>3. Host \in Hosts /\ Host' = Host
  BY <1>1, <1>2 DEF ServiceState, Host
<1>4. ServiceState'
  BY <1>1, <1>2, <1>3 DEF ServiceState, DeploymentSteps, FirstSteps, LastSteps, BackupSteps,
     DropSteps, OtherSteps, CallKinds
<1>5. ServiceHostsRight'
  BY <1>1, <1>2, <1>3 DEF ServiceHostsRight, HostRight
<1>6. CallRight'
  BY <1>1, <1>2, <1>3 DEF CallRight, FirstSteps, LastSteps, BackupSteps, DropSteps
<1>7. DeployingRight'
  BY <1>1, <1>2, <1>3 DEF DeployingRight, FirstSteps, LastSteps, BackupSteps, HasUser
<1>8. DiscardRight'
  BY <1>1, <1>2, <1>3 DEF DiscardRight, BackupSteps, DropSteps
<1>9. BackupRight'
  BY <1>1, <1>2, <1>3 DEF BackupRight, CallRight, Host, LastSteps
<1>10. CalmRight'
  <2>1. mishaps # 0
    BY <1>1, <1>2, <1>3 DEF CalmRight, DiscardRight, CallRight, DropSteps, ServiceHostsRight, HostRight
  <2> QED BY <1>1, <2>1 DEF CalmRight
<1>11. GoodRight'
  BY <1>1, <1>2, <1>3 DEF GoodRight, FirstSteps, LastSteps, BackupSteps
<1>12. NothingLost'
  BY <1>1, <1>2, <1>3 DEF NothingLost
<1> QED BY <1>4, <1>5, <1>6, <1>7, <1>8, <1>9, <1>10, <1>11, <1>12 DEF DeploymentInv

(* A command returns an error and the call is over (deploy.h:224-263).      *)
LEMMA CommandFailsKeeps ==
  ASSUME DeploymentInv, CommandFails PROVE DeploymentInv'
<1>1. /\ step' = "failed" /\ mishaps' = mishaps + 1 /\ mishaps' > 0
      /\ UNCHANGED <<host, dataOn, firstTime, latestBackup, config, args, call, calls, writes, saved, lost, good, woken>>
  BY DEF CommandFails, ghosts, DeploymentInv, ServiceState
<1>2. /\ ServiceState /\ ServiceHostsRight /\ CallRight /\ DeployingRight /\ DiscardRight
      /\ BackupRight /\ CalmRight /\ GoodRight /\ NothingLost
  BY DEF DeploymentInv
<1>3. Host \in Hosts /\ Host' = Host
  BY <1>1, <1>2 DEF ServiceState, Host
<1>4. ServiceState'
  BY <1>1, <1>2, <1>3 DEF ServiceState, DeploymentSteps, FirstSteps, LastSteps, BackupSteps,
     DropSteps, OtherSteps, CallKinds
<1>5. ServiceHostsRight'
  BY <1>1, <1>2, <1>3 DEF ServiceHostsRight, HostRight
<1>6. CallRight'
  BY <1>1, <1>2, <1>3 DEF CallRight, FirstSteps, LastSteps, BackupSteps, DropSteps
<1>7. DeployingRight'
  BY <1>1, <1>2, <1>3 DEF DeployingRight, FirstSteps, LastSteps, BackupSteps, HasUser
<1>8. DiscardRight'
  BY <1>1, <1>2, <1>3 DEF DiscardRight, BackupSteps, DropSteps
<1>9. BackupRight'
  BY <1>1, <1>2, <1>3 DEF BackupRight, CallRight, Host, LastSteps
<1>10. CalmRight'
  BY <1>1, <1>2, <1>3 DEF CalmRight, Unharmed, DeployedRuns, BackupSteps, DropSteps
<1>11. GoodRight'
  BY <1>1, <1>2, <1>3 DEF GoodRight, FirstSteps, LastSteps, BackupSteps
<1>12. NothingLost'
  BY <1>1, <1>2, <1>3 DEF NothingLost, ServiceState
<1> QED BY <1>4, <1>5, <1>6, <1>7, <1>8, <1>9, <1>10, <1>11, <1>12 DEF DeploymentInv

(* The old program is kept as a .bak: it is the last that ran, unless a     *)
(* deployment has failed since (deploy.h:2300-2305).                        *)
LEMMA MoveOldProgramKeeps ==
  ASSUME DeploymentInv, MoveOldProgram PROVE DeploymentInv'
<1>1. /\ step = "old_program" /\ step' = "program" /\ call.kind \in {"deploy", "arrive"}
      /\ UNCHANGED <<dataOn, firstTime, latestBackup, config, args, call, calls, writes, mishaps, saved, lost, good, woken>>
  BY DEF MoveOldProgram, Deploying, Keeps, about, ghosts, GoOn
<1>2. /\ ServiceState /\ ServiceHostsRight /\ CallRight /\ DeployingRight /\ DiscardRight
      /\ BackupRight /\ CalmRight /\ GoodRight /\ NothingLost
  BY DEF DeploymentInv
<1>3. Host \in Hosts /\ Host' = Host
  BY <1>1, <1>2 DEF ServiceState, Host
<1>4. /\ host' \in [Hosts -> ServiceHosts]
      /\ host'[Host].user = host[Host].user /\ host'[Host].unit = host[Host].unit
      /\ host'[Host].enabled = host[Host].enabled /\ host'[Host].runs = host[Host].runs
      /\ host'[Host].prog = None /\ host'[Host].role = host[Host].role
      /\ host'[Host].bak = IF host[Host].prog # None THEN host[Host].prog ELSE host[Host].bak
      /\ \A i \in Hosts : i # Host => host'[i] = host[i]
  <2>1. host[Host] \in ServiceHosts /\ host \in [Hosts -> ServiceHosts]
    BY <1>2, <1>3 DEF ServiceState
  <2>2. CASE host[Host].prog # None
    <3>1. PICK r : r = [host[Host] EXCEPT !.bak = host[Host].prog, !.prog = None]
      OBVIOUS
    <3>2. /\ r \in ServiceHosts
          /\ r.user = host[Host].user /\ r.unit = host[Host].unit /\ r.enabled = host[Host].enabled
          /\ r.runs = host[Host].runs /\ r.prog = None /\ r.bak = host[Host].prog /\ r.role = host[Host].role
      BY <2>1, <3>1, BackupValues DEF ServiceHosts
    <3>3. host' = [host EXCEPT ![Host] = r]
      BY <2>1, <2>2, <3>1 DEF MoveOldProgram
    <3>4. host' \in [Hosts -> ServiceHosts] /\ host'[Host] = r /\ \A i \in Hosts : i # Host => host'[i] = host[i]
      BY <1>3, <2>1, <3>2, <3>3, HostSet
    <3> QED BY <2>2, <3>2, <3>4
  <2>3. CASE host[Host].prog = None
    BY <2>1, <2>3 DEF MoveOldProgram
  <2> QED BY <2>2, <2>3
<1>5. ServiceState'
  BY <1>1, <1>2, <1>3, <1>4 DEF ServiceState, DeploymentSteps, FirstSteps, LastSteps, BackupSteps,
     DropSteps, OtherSteps, CallKinds
<1>6. ServiceHostsRight'
  BY <1>1, <1>2, <1>3, <1>4 DEF ServiceHostsRight, HostRight
<1>7. CallRight'
  BY <1>1, <1>2, <1>3, <1>4 DEF CallRight, FirstSteps, LastSteps, BackupSteps, DropSteps
<1>8. DeployingRight'
  BY <1>1, <1>2, <1>3, <1>4 DEF DeployingRight, FirstSteps, LastSteps, BackupSteps, HasUser
<1>9. DiscardRight'
  BY <1>1, <1>2, <1>3, <1>4 DEF DiscardRight, BackupSteps, DropSteps
<1>10. BackupRight'
  <2>1. \A i \in Hosts : host'[i].user = host[i].user /\ host'[i].enabled = host[i].enabled /\ host'[i].runs = host[i].runs
    BY <1>4
  <2>2. call.to \in Hosts
    BY <1>2 DEF ServiceState
  <2> QED BY <1>1, <1>2, <1>3, <2>1, <2>2 DEF BackupRight, LastSteps
<1>11. CalmRight'
  BY <1>1, <1>2, <1>3, <1>4 DEF CalmRight, Unharmed, DeployedRuns, BackupSteps, DropSteps
<1>12. GoodRight'
  BY <1>1, <1>2, <1>3, <1>4 DEF GoodRight, FirstSteps, LastSteps, BackupSteps
<1>13. NothingLost'
  BY <1>1, <1>2, <1>3, <1>4 DEF NothingLost
<1> QED BY <1>5, <1>6, <1>7, <1>8, <1>9, <1>10, <1>11, <1>12, <1>13 DEF DeploymentInv

(* A host restarts, and starts the service if it is enabled.                *)
LEMMA RestartKeeps ==
  ASSUME DeploymentInv, NEW h \in Hosts, HostRestarts(h) PROVE DeploymentInv'
<1>1. /\ mishaps' = mishaps + 1 /\ mishaps' > 0
      /\ UNCHANGED <<dataOn, firstTime, latestBackup, config, args, call, calls, writes, saved, lost, good>>
      /\ step' = step
      /\ host' = [host EXCEPT ![h].runs = IF host[h].enabled THEN host[h].prog ELSE None]
      /\ woken' = (woken \/ (h = Host /\ step = "disable" /\ host'[h].runs # None))
  BY DEF HostRestarts, Host, DeploymentInv, ServiceState
<1>2. /\ ServiceState /\ ServiceHostsRight /\ CallRight /\ DeployingRight /\ DiscardRight
      /\ BackupRight /\ CalmRight /\ GoodRight /\ NothingLost
  BY DEF DeploymentInv
<1>3. Host \in Hosts /\ Host' = Host
  BY <1>1, <1>2 DEF ServiceState, Host
<1>4. /\ host' \in [Hosts -> ServiceHosts]
      /\ host'[h].user = host[h].user /\ host'[h].unit = host[h].unit
      /\ host'[h].enabled = host[h].enabled /\ host'[h].runs = IF host[h].enabled THEN host[h].prog ELSE None
      /\ host'[h].prog = host[h].prog /\ host'[h].bak = host[h].bak
      /\ host'[h].role = host[h].role
      /\ \A i \in Hosts : i # h => host'[i] = host[i]
  <2>1. host[h] \in ServiceHosts /\ host \in [Hosts -> ServiceHosts]
    BY <1>2, <1>3 DEF ServiceState
  <2>3. PICK r : r = [host[h] EXCEPT !.runs = IF host[h].enabled THEN host[h].prog ELSE None]
    OBVIOUS
  <2>4. /\ r \in ServiceHosts
        /\ r.user = host[h].user /\ r.unit = host[h].unit
        /\ r.enabled = host[h].enabled /\ r.runs = IF host[h].enabled THEN host[h].prog ELSE None
        /\ r.prog = host[h].prog /\ r.bak = host[h].bak /\ r.role = host[h].role
    BY <2>1, <2>3, BackupValues DEF ServiceHosts
  <2>5. host' = [host EXCEPT ![h] = r]
    BY <1>1, <2>1, <2>3
  <2>6. host' \in [Hosts -> ServiceHosts] /\ host'[h] = r /\ \A i \in Hosts : i # h => host'[i] = host[i]
    BY <1>3, <2>1, <2>4, <2>5, HostSet
  <2> QED BY <2>4, <2>6
<1>5. ServiceState'
  BY <1>1, <1>2, <1>3, <1>4 DEF ServiceState, DeploymentSteps, FirstSteps, LastSteps, BackupSteps,
     DropSteps, OtherSteps, CallKinds
<1>6. ServiceHostsRight'
  <2>1. ASSUME NEW i \in Hosts, i = h PROVE HostRight(i)'
    BY <1>1, <1>2, <1>3, <1>4, <2>1 DEF ServiceHostsRight, HostRight
  <2>2. ASSUME NEW i \in Hosts, i # h PROVE HostRight(i)'
    BY <1>1, <1>2, <1>3, <1>4, <2>2 DEF ServiceHostsRight, HostRight
  <2> QED BY <2>1, <2>2 DEF ServiceHostsRight
<1>7. CallRight'
  BY <1>1, <1>2, <1>3, <1>4 DEF CallRight, FirstSteps, LastSteps, BackupSteps, DropSteps
<1>8. DeployingRight'
  BY <1>1, <1>2, <1>3, <1>4 DEF DeployingRight, FirstSteps, LastSteps, BackupSteps, HasUser
<1>9. DiscardRight'
  BY <1>1, <1>2, <1>3, <1>4 DEF DiscardRight, BackupSteps, DropSteps
<1>10. BackupRight'
  BY <1>1, <1>2, <1>3, <1>4 DEF BackupRight, CallRight, Host, LastSteps, ServiceState
<1>11. CalmRight'
  BY <1>1 DEF CalmRight
<1>12. GoodRight'
  BY <1>1, <1>2, <1>3, <1>4 DEF GoodRight, FirstSteps, LastSteps, BackupSteps
<1>13. NothingLost'
  BY <1>1, <1>2, <1>3, <1>4 DEF NothingLost, ServiceState
<1> QED BY <1>5, <1>6, <1>7, <1>8, <1>9, <1>10, <1>11, <1>12, <1>13 DEF DeploymentInv

(* The service writes: not one that is being discarded or has moved, unless *)
(* it was woken.                                                            *)
LEMMA WriteKeeps ==
  ASSUME DeploymentInv, NEW h \in Hosts, Write(h) PROVE DeploymentInv'
<1>1. /\ host[h].runs # None /\ writes' = writes + 1 /\ step' = step
      /\ UNCHANGED <<host, firstTime, latestBackup, config, args, call, calls, mishaps, saved, lost, good, woken>>
  BY DEF Write, ghosts
<1>2. /\ ServiceState /\ ServiceHostsRight /\ CallRight /\ DeployingRight /\ DiscardRight
      /\ BackupRight /\ CalmRight /\ GoodRight /\ NothingLost
  BY DEF DeploymentInv
<1>3. Host \in Hosts /\ Host' = Host
  BY <1>1, <1>2 DEF ServiceState, Host
<1>4. /\ dataOn' \in [Hosts -> [DataKinds -> Int]]
      /\ dataOn'[h]["plain"] = writes + 1 /\ dataOn'[h]["nested"] = writes + 1
      /\ (dataOn'[h]["db"] = None <=> dataOn[h]["db"] = None)
      /\ \A i \in Hosts : i # h => dataOn'[i] = dataOn[i]
  <2>1. PICK new : new = [k \in DataKinds |-> IF k \in DataFiles \/ dataOn[h][k] # None THEN writes + 1 ELSE dataOn[h][k]]
    OBVIOUS
  <2>2. dataOn' = [dataOn EXCEPT ![h] = new]
    BY <2>1 DEF Write
  <2>3. writes \in Nat /\ dataOn \in [Hosts -> [DataKinds -> Int]]
    BY <1>2 DEF ServiceState
  <2>4. /\ new \in [DataKinds -> Int] /\ new["plain"] = writes + 1 /\ new["nested"] = writes + 1
        /\ new["db"] = None <=> dataOn[h]["db"] = None
    BY <2>1, <2>3, BackupValues DEF DataKinds, DataFiles
  <2> QED BY <2>2, <2>3, <2>4
<1>5. writes \in Nat /\ writes + 1 # None /\ None = -1
  BY <1>2, BackupValues DEF ServiceState
<1>6. ServiceState'
  BY <1>1, <1>2, <1>3, <1>4, <1>5 DEF ServiceState, DeploymentSteps, FirstSteps, LastSteps,
     BackupSteps, DropSteps, OtherSteps, CallKinds
<1>7. ServiceHostsRight'
  <2>1. HostRight(h)'
    BY <1>1, <1>2, <1>4, <1>5 DEF ServiceHostsRight, HostRight
  <2>2. ASSUME NEW i \in Hosts, i # h PROVE HostRight(i)'
    <3>1. dataOn[i]["plain"] \in Int /\ HostRight(i)
      BY <1>2 DEF ServiceState, ServiceHostsRight, DataKinds, DataFiles
    <3> QED BY <1>1, <1>4, <1>5, <2>2, <3>1 DEF HostRight
  <2> QED BY <2>1, <2>2 DEF ServiceHostsRight
<1>8. CallRight'
  BY <1>1, <1>2, <1>3, <1>4, <1>5 DEF CallRight, FirstSteps, LastSteps, BackupSteps, DropSteps
<1>9. DeployingRight'
  BY <1>1, <1>2, <1>3, <1>4, <1>5 DEF DeployingRight, FirstSteps, LastSteps, BackupSteps, HasUser
<1>10. DiscardRight'
  BY <1>1, <1>2, <1>3, <1>4, <1>5 DEF DiscardRight, BackupSteps, DropSteps, ServiceHostsRight,
     HostRight, CallRight
<1>11. BackupRight'
  <2>2. call.to \in Hosts /\ latestBackup["plain"] \in Int /\ \A i \in Hosts : dataOn[i]["plain"] \in Int
    BY <1>2 DEF ServiceState, DataKinds, DataFiles
  <2>3. call.kind = "move" /\ step \in BackupSteps \union {"finish"} => h # Host \/ woken
    BY <1>1, <1>2 DEF DiscardRight, BackupRight
  <2>4. call.kind = "arrive" /\ step \notin {"done", "failed"} => h # call.to \/ woken
    BY <1>1, <1>2 DEF BackupRight
  <2>5. /\ h # Host => dataOn'[Host] = dataOn[Host]
        /\ h # call.to => dataOn'[call.to] = dataOn[call.to]
        /\ dataOn[call.to]["plain"] <= writes
    BY <1>2, <1>3, <1>4, <2>2 DEF ServiceHostsRight, HostRight
  <2>6. h = Host => ~(mishaps = 0 /\ step \in {"once", "role", "database", "unit", "enable", "start"})
    BY <1>1, <1>2 DEF CalmRight
  <2>7. mishaps \in Nat
    BY <1>2 DEF ServiceState
  <2>8. \A k \in DataKinds : latestBackup'[k] # None => <<k, latestBackup'[k]>> \in saved'
    BY <1>1, <1>2 DEF BackupRight
  <2>9. latestBackup'["plain"] <= writes'
    BY <1>1, <1>2, <1>5, <2>2 DEF BackupRight
  <2>10. call.kind = "arrive" /\ step \in {"once", "role", "database", "unit", "enable", "start"} =>
           \/ ~host[call.to].user \/ woken
           \/ config.once /\ firstTime
           \/ mishaps > 0 /\ dataOn'[call.to]["plain"] # writes'
           \/ dataOn'[Host]["plain"] = dataOn'[call.to]["plain"]
    BY <1>1, <1>2, <1>5, <2>2, <2>4, <2>5, <2>6, <2>7 DEF BackupRight
  <2>11. call.kind = "move" /\ step \in {"nested", "db"} =>
           latestBackup["plain"] # None /\ (latestBackup["plain"] = dataOn'[Host]["plain"] \/ woken)
    BY <1>2, <2>3, <2>5 DEF BackupRight, BackupSteps
  <2>12. call.kind = "move" /\ step = "finish" =>
           /\ ~host[Host].enabled /\ (host[Host].runs = None \/ woken)
           /\ host[Host].user => /\ latestBackup["plain"] # None
                                 /\ latestBackup["plain"] = dataOn'[Host]["plain"] \/ woken
    BY <1>2, <2>3, <2>5 DEF BackupRight
  <2>13. call.kind = "arrive" /\ step \notin {"done", "failed"} =>
           /\ ~host[call.to].enabled /\ (host[call.to].runs = None \/ woken)
           /\ host[call.to].user => /\ latestBackup["plain"] # None
                                    /\ latestBackup["plain"] = dataOn'[call.to]["plain"] \/ woken
    BY <1>2, <2>4, <2>5 DEF BackupRight
  <2> QED BY <1>1, <1>3, <2>8, <2>9, <2>10, <2>11, <2>12, <2>13 DEF BackupRight
<1>12. CalmRight'
  <2>1. ASSUME NEW i \in Hosts, i = h, mishaps = 0 PROVE Unharmed(i)'
    BY <1>1, <1>2, <1>3, <1>4, <1>5, <2>1 DEF CalmRight, Unharmed, BackupSteps, DropSteps, ServiceHostsRight, HostRight, DiscardRight
  <2>2. ASSUME NEW i \in Hosts, i # h, mishaps = 0 PROVE Unharmed(i)'
    BY <1>1, <1>2, <1>3, <1>4, <1>5, <2>2 DEF CalmRight, Unharmed, BackupSteps, DropSteps
  <2>3. mishaps = 0 => /\ DeployedRuns'
                       /\ step' = "failed" => host'[Host].runs = None
    BY <1>1, <1>2, <1>3, <1>4, <1>5 DEF CalmRight, DeployedRuns, DataFiles
  <2> QED BY <1>1, <1>2, <1>3, <1>4, <1>5, <2>1, <2>2, <2>3 DEF CalmRight, BackupSteps, ServiceHostsRight, HostRight, DiscardRight
<1>13. GoodRight'
  BY <1>1, <1>2, <1>3, <1>4, <1>5 DEF GoodRight, FirstSteps, LastSteps, BackupSteps
<1>14. NothingLost'
  BY <1>1, <1>2, <1>3, <1>4, <1>5 DEF NothingLost
<1> QED BY <1>6, <1>7, <1>8, <1>9, <1>10, <1>11, <1>12, <1>13, <1>14 DEF DeploymentInv

(* A deployment begins (deploy.h:2203-2223).                                *)
LEMMA DeploySingleTargetKeeps ==
  ASSUME DeploymentInv, NEW h \in Hosts, DeploySingleTarget(h) PROVE DeploymentInv'
<1>1. /\ step \in {"done", "failed"} /\ step' = "user" /\ calls' = calls + 1
      /\ call' = [kind |-> "deploy", on |-> h, to |-> h]
      /\ args' = args
      /\ good' = [good EXCEPT ![h] = [good[h] EXCEPT !.later = @ + 1]]
      /\ UNCHANGED <<host, dataOn, firstTime, latestBackup, config, writes, mishaps, saved, lost>>
      /\ woken' = (host[h].runs # None /\ ~host[h].enabled)
  BY DEF DeploySingleTarget, BeginCall, NoCall, Later
<1>2. /\ ServiceState /\ ServiceHostsRight /\ CallRight /\ DeployingRight /\ DiscardRight
      /\ BackupRight /\ CalmRight /\ GoodRight /\ NothingLost
  BY DEF DeploymentInv
<1>3. /\ Host \in Hosts /\ Host' = h /\ call'.kind = "deploy" /\ call'.on = h /\ call'.to = h
      /\ call' \in [kind : CallKinds, on : Hosts, to : Hosts] /\ args' \in [restore : BOOLEAN, stopOnly : BOOLEAN]
  BY <1>1, <1>2 DEF ServiceState, Host, CallKinds
<1>4. ServiceState'
  <2>1. good \in [Hosts -> [prog : Int, later : Nat, overlooked : BOOLEAN]]
    BY <1>2 DEF ServiceState
  <2>2. good' \in [Hosts -> [prog : Int, later : Nat, overlooked : BOOLEAN]]
    BY <1>1, <2>1
  <2> QED BY <1>1, <1>2, <1>3, <2>2 DEF ServiceState, DeploymentSteps, FirstSteps, LastSteps, BackupSteps,
             DropSteps, OtherSteps, CallKinds
<1>5. ServiceHostsRight'
  BY <1>1, <1>2, <1>3 DEF ServiceHostsRight, HostRight
<1>6. CallRight'
  BY <1>1, <1>2, <1>3 DEF CallRight, FirstSteps, LastSteps, BackupSteps, DropSteps
<1>7. DeployingRight'
  BY <1>1, <1>2, <1>3 DEF DeployingRight, FirstSteps, LastSteps, BackupSteps, HasUser
<1>8. DiscardRight'
  BY <1>1, <1>2, <1>3 DEF DiscardRight, BackupSteps, DropSteps
<1>9. BackupRight'
  BY <1>1, <1>2, <1>3 DEF BackupRight, CallRight, Host, LastSteps
<1>10. CalmRight'
  BY <1>1, <1>2, <1>3 DEF CalmRight, Unharmed, DeployedRuns, BackupSteps, DropSteps
<1>11. GoodRight'
  BY <1>1, <1>2, <1>3 DEF GoodRight, FirstSteps, LastSteps, BackupSteps, ServiceState
<1>12. NothingLost'
  BY <1>1, <1>2, <1>3 DEF NothingLost
<1> QED BY <1>4, <1>5, <1>6, <1>7, <1>8, <1>9, <1>10, <1>11, <1>12 DEF DeploymentInv

(* A discard begins (deploy.h:2419-2435).                                   *)
LEMMA DiscardSingleTargetKeeps ==
  ASSUME DeploymentInv, NEW h \in Hosts, DiscardSingleTarget(h) PROVE DeploymentInv'
<1>1. /\ step \in {"done", "failed"} /\ step' = "is_there" /\ calls' = calls + 1
      /\ call' = [kind |-> "discard", on |-> h, to |-> h]
      /\ args' = args
      /\ good' = good
      /\ UNCHANGED <<host, dataOn, firstTime, latestBackup, config, writes, mishaps, saved, lost>>
      /\ woken' = (host[h].runs # None /\ ~host[h].enabled)
  BY DEF DiscardSingleTarget, BeginCall, NoCall, Later
<1>2. /\ ServiceState /\ ServiceHostsRight /\ CallRight /\ DeployingRight /\ DiscardRight
      /\ BackupRight /\ CalmRight /\ GoodRight /\ NothingLost
  BY DEF DeploymentInv
<1>3. /\ Host \in Hosts /\ Host' = h /\ call'.kind = "discard" /\ call'.on = h /\ call'.to = h
      /\ call' \in [kind : CallKinds, on : Hosts, to : Hosts] /\ args' \in [restore : BOOLEAN, stopOnly : BOOLEAN]
  BY <1>1, <1>2 DEF ServiceState, Host, CallKinds
<1>4. ServiceState'
  BY <1>1, <1>2, <1>3 DEF ServiceState, DeploymentSteps, FirstSteps, LastSteps, BackupSteps,
     DropSteps, OtherSteps, CallKinds
<1>5. ServiceHostsRight'
  BY <1>1, <1>2, <1>3 DEF ServiceHostsRight, HostRight
<1>6. CallRight'
  BY <1>1, <1>2, <1>3 DEF CallRight, FirstSteps, LastSteps, BackupSteps, DropSteps
<1>7. DeployingRight'
  BY <1>1, <1>2, <1>3 DEF DeployingRight, FirstSteps, LastSteps, BackupSteps, HasUser
<1>8. DiscardRight'
  BY <1>1, <1>2, <1>3 DEF DiscardRight, BackupSteps, DropSteps
<1>9. BackupRight'
  BY <1>1, <1>2, <1>3 DEF BackupRight, CallRight, Host, LastSteps
<1>10. CalmRight'
  BY <1>1, <1>2, <1>3 DEF CalmRight, Unharmed, DeployedRuns, BackupSteps, DropSteps
<1>11. GoodRight'
  BY <1>1, <1>2, <1>3 DEF GoodRight, FirstSteps, LastSteps, BackupSteps, ServiceState
<1>12. NothingLost'
  BY <1>1, <1>2, <1>3 DEF NothingLost
<1> QED BY <1>4, <1>5, <1>6, <1>7, <1>8, <1>9, <1>10, <1>11, <1>12 DEF DeploymentInv

(* A move begins with a discard that only stops the service                 *)
(* (deploy.h:2475-2477).                                                    *)
LEMMA MoveToKeeps ==
  ASSUME DeploymentInv, NEW h \in Hosts, NEW to \in Hosts, MoveTo(h, to) PROVE DeploymentInv'
<1>1. /\ step \in {"done", "failed"} /\ step' = "is_there" /\ calls' = calls + 1
      /\ call' = [kind |-> "move", on |-> h, to |-> to]
      /\ args' = [args EXCEPT !.stopOnly = TRUE]
      /\ good' = good /\ h # to
      /\ UNCHANGED <<host, dataOn, firstTime, latestBackup, config, writes, mishaps, saved, lost>>
      /\ woken' = (host[h].runs # None /\ ~host[h].enabled)
  BY DEF MoveTo, BeginCall, NoCall, Later
<1>2. /\ ServiceState /\ ServiceHostsRight /\ CallRight /\ DeployingRight /\ DiscardRight
      /\ BackupRight /\ CalmRight /\ GoodRight /\ NothingLost
  BY DEF DeploymentInv
<1>3. /\ Host \in Hosts /\ Host' = h /\ call'.kind = "move" /\ call'.on = h /\ call'.to = to
      /\ call' \in [kind : CallKinds, on : Hosts, to : Hosts] /\ args' \in [restore : BOOLEAN, stopOnly : BOOLEAN]
      /\ args'.stopOnly /\ args'.restore = args.restore
  BY <1>1, <1>2 DEF ServiceState, Host, CallKinds
<1>4. ServiceState'
  BY <1>1, <1>2, <1>3 DEF ServiceState, DeploymentSteps, FirstSteps, LastSteps, BackupSteps,
     DropSteps, OtherSteps, CallKinds
<1>5. ServiceHostsRight'
  BY <1>1, <1>2, <1>3 DEF ServiceHostsRight, HostRight
<1>6. CallRight'
  BY <1>1, <1>2, <1>3 DEF CallRight, FirstSteps, LastSteps, BackupSteps, DropSteps
<1>7. DeployingRight'
  BY <1>1, <1>2, <1>3 DEF DeployingRight, FirstSteps, LastSteps, BackupSteps, HasUser
<1>8. DiscardRight'
  BY <1>1, <1>2, <1>3 DEF DiscardRight, BackupSteps, DropSteps
<1>9. BackupRight'
  BY <1>1, <1>2, <1>3 DEF BackupRight, CallRight, Host, LastSteps
<1>10. CalmRight'
  BY <1>1, <1>2, <1>3 DEF CalmRight, Unharmed, DeployedRuns, BackupSteps, DropSteps
<1>11. GoodRight'
  BY <1>1, <1>2, <1>3 DEF GoodRight, FirstSteps, LastSteps, BackupSteps, ServiceState
<1>12. NothingLost'
  BY <1>1, <1>2, <1>3 DEF NothingLost
<1> QED BY <1>4, <1>5, <1>6, <1>7, <1>8, <1>9, <1>10, <1>11, <1>12 DEF DeploymentInv

(* A discard returns (deploy.h:2469-2474).                                  *)
LEMMA EndCallKeeps ==
  ASSUME DeploymentInv, EndCall, call.kind # "move" PROVE DeploymentInv'
<1>1. /\ step = "finish" /\ step' = "done" /\ call.kind = "discard"
      /\ UNCHANGED <<host, dataOn, firstTime, latestBackup, config, args, call, calls, writes, mishaps, saved, lost, good, woken>>
  BY DEF EndCall, Finish, DeploymentInv, CallRight
<1>2. /\ ServiceState /\ ServiceHostsRight /\ CallRight /\ DeployingRight /\ DiscardRight
      /\ BackupRight /\ CalmRight /\ GoodRight /\ NothingLost
  BY DEF DeploymentInv
<1>3. Host \in Hosts /\ Host' = Host
  BY <1>1, <1>2 DEF ServiceState, Host
<1>4. ServiceState'
  BY <1>1, <1>2, <1>3 DEF ServiceState, DeploymentSteps, FirstSteps, LastSteps, BackupSteps,
     DropSteps, OtherSteps, CallKinds
<1>5. ServiceHostsRight'
  BY <1>1, <1>2, <1>3 DEF ServiceHostsRight, HostRight
<1>6. CallRight'
  BY <1>1, <1>2, <1>3 DEF CallRight, FirstSteps, LastSteps, BackupSteps, DropSteps
<1>7. DeployingRight'
  BY <1>1, <1>2, <1>3 DEF DeployingRight, FirstSteps, LastSteps, BackupSteps, HasUser
<1>8. DiscardRight'
  BY <1>1, <1>2, <1>3 DEF DiscardRight, BackupSteps, DropSteps
<1>9. BackupRight'
  BY <1>1, <1>2, <1>3 DEF BackupRight, CallRight, Host, LastSteps
<1>10. CalmRight'
  BY <1>1, <1>2, <1>3 DEF CalmRight, Unharmed, DeployedRuns, BackupSteps, DropSteps
<1>11. GoodRight'
  BY <1>1, <1>2, <1>3 DEF GoodRight, FirstSteps, LastSteps, BackupSteps
<1>12. NothingLost'
  BY <1>1, <1>2, <1>3 DEF NothingLost
<1> QED BY <1>4, <1>5, <1>6, <1>7, <1>8, <1>9, <1>10, <1>11, <1>12 DEF DeploymentInv

(* A move goes on at the other host, with the backup of this one            *)
(* (deploy.h:2478-2480).                                                    *)
LEMMA ArrivalKeeps ==
  ASSUME DeploymentInv, EndCall, call.kind = "move" PROVE DeploymentInv'
<1>1. /\ step = "finish" /\ step' = "user" /\ call.kind = "move"
      /\ call' = [kind |-> "arrive", on |-> call.to, to |-> call.on]
      /\ args' = [args EXCEPT !.restore = TRUE]
      /\ good' = [good EXCEPT ![call.to] = [good[call.to] EXCEPT !.later = @ + 1]]
      /\ UNCHANGED <<host, dataOn, firstTime, latestBackup, config, calls, writes, mishaps, saved, lost, woken>>
  BY DEF EndCall, Finish, Later
<1>2. /\ ServiceState /\ ServiceHostsRight /\ CallRight /\ DeployingRight /\ DiscardRight
      /\ BackupRight /\ CalmRight /\ GoodRight /\ NothingLost
  BY DEF DeploymentInv
<1>3. /\ Host \in Hosts /\ Host = call.on /\ Host' = call.to /\ call.to \in Hosts /\ call'.kind = "arrive"
      /\ call'.on = call.to /\ call'.to = call.on /\ call' \in [kind : CallKinds, on : Hosts, to : Hosts]
      /\ args' \in [restore : BOOLEAN, stopOnly : BOOLEAN] /\ args'.restore /\ args'.stopOnly = args.stopOnly
      /\ good' \in [Hosts -> [prog : Int, later : Nat, overlooked : BOOLEAN]]
  <2>1. /\ call \in [kind : CallKinds, on : Hosts, to : Hosts] /\ args \in [restore : BOOLEAN, stopOnly : BOOLEAN]
        /\ good \in [Hosts -> [prog : Int, later : Nat, overlooked : BOOLEAN]]
    BY <1>2 DEF ServiceState
  <2>2. /\ call'.kind = "arrive" /\ call'.on = call.to /\ call'.to = call.on
        /\ call.on \in Hosts /\ call.to \in Hosts /\ call' \in [kind : CallKinds, on : Hosts, to : Hosts]
    BY <1>1, <2>1 DEF CallKinds
  <2>3. args' \in [restore : BOOLEAN, stopOnly : BOOLEAN] /\ args'.restore /\ args'.stopOnly = args.stopOnly
    BY <1>1, <2>1
  <2>4. good' \in [Hosts -> [prog : Int, later : Nat, overlooked : BOOLEAN]]
    BY <1>1, <2>1, <2>2
  <2> QED BY <2>2, <2>3, <2>4 DEF Host
<1>4. ServiceState'
  BY <1>1, <1>2, <1>3 DEF ServiceState, DeploymentSteps, FirstSteps, LastSteps, BackupSteps,
     DropSteps, OtherSteps, CallKinds
<1>5. ServiceHostsRight'
  BY <1>1, <1>2, <1>3 DEF ServiceHostsRight, HostRight
<1>6. CallRight'
  BY <1>1, <1>2, <1>3 DEF CallRight, FirstSteps, LastSteps, BackupSteps, DropSteps
<1>7. DeployingRight'
  BY <1>1, <1>2, <1>3 DEF DeployingRight, FirstSteps, LastSteps, BackupSteps, HasUser
<1>8. DiscardRight'
  BY <1>1, <1>2, <1>3 DEF DiscardRight, BackupSteps, DropSteps
<1>9. BackupRight'
  BY <1>1, <1>2, <1>3 DEF BackupRight, CallRight, Host, LastSteps
<1>10. CalmRight'
  BY <1>1, <1>2, <1>3 DEF CalmRight, Unharmed, DeployedRuns, BackupSteps, DropSteps
<1>11. GoodRight'
  BY <1>1, <1>2, <1>3 DEF GoodRight, FirstSteps, LastSteps, BackupSteps, ServiceState
<1>12. NothingLost'
  BY <1>1, <1>2, <1>3 DEF NothingLost
<1> QED BY <1>4, <1>5, <1>6, <1>7, <1>8, <1>9, <1>10, <1>11, <1>12 DEF DeploymentInv

(* The steps of a deployment.                                               *)
LEMMA DeployKeeps ==
  ASSUME DeploymentInv,
         \/ CreateUser \/ StopOld \/ StatusOld \/ MoveOldProgram \/ CopyProgram \/ Restore \/ CopyOnce
         \/ CreateRole \/ CreateDatabase \/ AddToSystem \/ EnableService \/ StartService \/ CheckService
         \/ GiveUp \/ CannotAsk \/ CannotStart
  PROVE  DeploymentInv'
<1>1. CopyProgram => DeploymentInv'
  BY CopyProgramKeeps, CannotCopyKeeps
<1>2. CannotAsk \/ CannotStart => DeploymentInv'
  BY MisreadKeeps DEF CannotAsk, CannotStart
<1> QED BY <1>1, <1>2, CreateUserKeeps, StopOldKeeps, StatusOldKeeps, MoveOldProgramKeeps, RestoreKeeps, CopyOnceKeeps,
           CreateRoleKeeps, CreateDatabaseKeeps, AddToSystemKeeps, EnableServiceKeeps, StartServiceKeeps,
           CheckServiceKeeps, GiveUpKeeps

(* The steps of a backup and of a discard.                                  *)
LEMMA DiscardKeeps ==
  ASSUME DeploymentInv,
         \/ NewBackup \/ CopyPlain \/ CopyNested \/ Dump
         \/ IsThere \/ StopService \/ DisableService \/ DeleteUnit \/ DropDatabase \/ DropRole \/ DeleteUser \/ EndCall
  PROVE  DeploymentInv'
<1>1. CopyPlain \/ CopyNested \/ Dump => DeploymentInv'
  <2>1. /\ CopyPlain => step = "plain"
        /\ CopyNested => step = "nested"
        /\ Dump => step = "db"
        /\ {"plain", "nested", "db"} \subseteq DataKinds
    BY DEF CopyPlain, CopyNested, Dump, Copy, DataKinds, DataFiles
  <2> QED BY <2>1, CopyPlainKeeps, CopyNestedKeeps, DumpKeeps, NothingToCopyKeeps
<1>2. StopService => DeploymentInv'
  BY StopServiceKeeps, NothingToStopKeeps
<1>3. EndCall => DeploymentInv'
  BY EndCallKeeps, ArrivalKeeps
<1>4. DropDatabase \/ DeleteUser => DeploymentInv'
  BY DropDatabaseKeeps, CannotDropKeeps, DeleteUserKeeps, CannotDeleteKeeps
<1> QED BY <1>1, <1>2, <1>3, <1>4, NewBackupKeeps, IsThereKeeps, DisableServiceKeeps, DeleteUnitKeeps, DropRoleKeeps

(* All steps of the operator, the service and the hosts.                    *)
LEMMA DeploymentAll == DeploymentInv /\ [DeploymentNext]_deploymentVars => DeploymentInv'
<1> SUFFICES ASSUME DeploymentInv, [DeploymentNext]_deploymentVars PROVE DeploymentInv'
  OBVIOUS
<1>1. ASSUME NEW h \in Hosts, Write(h) \/ HostRestarts(h) \/ DeploySingleTarget(h) \/ DiscardSingleTarget(h)
      PROVE  DeploymentInv'
  BY <1>1, WriteKeeps, RestartKeeps, DeploySingleTargetKeeps, DiscardSingleTargetKeeps
<1>2. ASSUME NEW h \in Hosts, NEW to \in Hosts, MoveTo(h, to) PROVE DeploymentInv'
  BY <1>2, MoveToKeeps
<1>3. CASE DeploymentNext
  BY <1>1, <1>2, <1>3, CommandFailsKeeps, DeployKeeps, DiscardKeeps DEF DeploymentNext
<1>4. CASE UNCHANGED deploymentVars
  <2>1. UNCHANGED <<config, host, dataOn, args, call, step, firstTime, latestBackup, calls, writes, mishaps,
                    saved, lost, good, woken>>
    BY <1>4 DEF deploymentVars
  <2>2. /\ ServiceState' /\ ServiceHostsRight' /\ CallRight' /\ DiscardRight' /\ NothingLost'
    BY <2>1 DEF DeploymentInv, ServiceState, ServiceHostsRight, HostRight, CallRight, DiscardRight, NothingLost, Host
  <2>3. DeployingRight' /\ BackupRight' /\ GoodRight'
    BY <2>1 DEF DeploymentInv, DeployingRight, BackupRight, GoodRight, Host, HasUser
  <2>4. CalmRight'
    BY <2>1 DEF DeploymentInv, CalmRight, Unharmed, DeployedRuns, Host
  <2> QED BY <2>2, <2>3, <2>4 DEF DeploymentInv
<1> QED BY <1>3, <1>4

(* The invariant says what is checked of deployments.                       *)
LEMMA DeploymentMeans ==
  DeploymentInv => DeploymentTypeOK /\ NothingLost /\ MovedWhole /\ DeployedRuns /\ GoodProgramKept
<1> SUFFICES ASSUME DeploymentInv
             PROVE  DeploymentTypeOK /\ NothingLost /\ MovedWhole /\ DeployedRuns /\ GoodProgramKept
  OBVIOUS
<1>1. ServiceState /\ call.kind \in CallKinds /\ call.on \in Hosts /\ call.to \in Hosts
  BY DEF DeploymentInv, ServiceState
<1>2. DeploymentTypeOK
  <2>1. step \in DeploymentSteps \union {"done", "failed"}
    BY <1>1 DEF ServiceState
  <2>2. \A h \in Hosts : host[h].runs # None => host[h].prog # None \/ host[h].bak # None
    BY DEF DeploymentInv, ServiceHostsRight, HostRight
  <2> QED BY <1>1, <2>1, <2>2 DEF DeploymentTypeOK, DeploymentSteps, FirstSteps, LastSteps, BackupSteps, DropSteps,
             OtherSteps, CallKinds, DataKinds, DataFiles
<1>3. NothingLost
  BY DEF DeploymentInv
<1>4. MovedWhole
  <2> SUFFICES ASSUME call.kind = "arrive", step = "start"
               PROVE  /\ ~host[call.to].enabled
                      /\ host[call.to].runs = None \/ woken
                      /\ \/ ~host[call.to].user \/ woken
                         \/ config.once /\ firstTime
                         \/ ~(mishaps = 0 \/ dataOn[call.to]["plain"] = writes)
                         \/ dataOn[Host]["plain"] = dataOn[call.to]["plain"]
    BY DEF MovedWhole
  <2> QED BY <1>1 DEF DeploymentInv, BackupRight, ServiceState
<1>5. DeployedRuns
  <2>1. mishaps = 0 => DeployedRuns
    BY DEF DeploymentInv, CalmRight
  <2> QED BY <2>1 DEF DeployedRuns
<1>6. GoodProgramKept
  <2>1. \A h \in Hosts : good[h].later \in Nat
    BY <1>1 DEF ServiceState
  <2>2. \A h \in Hosts : good[h].later <= 1 => good[h].later = 0 \/ good[h].later = 1
    BY <2>1
  <2> QED BY <2>2 DEF DeploymentInv, GoodRight, GoodProgramKept
<1> QED BY <1>2, <1>3, <1>4, <1>5, <1>6

-----------------------------------------------------------------------------
(* The users of a remote host.  What an object knows of its host and of     *)
(* itself, by the chain of the calls that made it.                          *)

(* What an object knows of the host once it has been probed, and that the   *)
(* objects made of it have it from there.                                   *)
ProbedInv ==
  /\ account.ssh => chain[1] \in permits.key
  /\ probing # "ssh" /\ account.canSudo => account.ssh
  /\ probing \in {"sudo", "password"} => account.ssh
  /\ account.canSudo => account.free \/ account.force
  /\ account.free => chain[1] = Root \/ permits.sudo = "free"
  /\ account.force => permits.sudo = "password" /\ permits.given = "right"
  /\ probing \in {"ssh", "sudo"} => ~account.canSudo /\ ~account.free /\ ~account.force
  /\ probing = "password" => ~account.canSudo /\ ~account.force

(* The last call of the chain decides on the flags and the names.           *)
ChainInv ==
  /\ IF chain[Len(chain)] = "sudo" THEN meant = Root /\ Len(chain) > 1
     ELSE meant = account.name /\ chain[Len(chain)] = account.name /\ (Len(chain) > 1 => main # Nobody)
  /\ Len(chain) = 1 => main = Nobody /\ ~account.sudo /\ account.name = chain[1]
  /\ Len(chain) = 2 => LoginName(account) = chain[1]
  /\ Len(chain) > 1 => account.sudo /\ account.canSudo /\ probing = "ready"

(* What a command ran as is what its object makes of it.                    *)
RanInv ==
  /\ probing # "ready" => ran = Nobody
  /\ \/ ran = Nobody
     \/ ran = Refused /\ ~account.canSudo
     \/ ran = RunsAs(account)

UserInv ==
  /\ RemoteUserTypeOK
  /\ permits \in [key : SUBSET Accounts, sudo : {"none", "free", "password"},
                  given : {"none", "right", "wrong"}]
  /\ account \in [name : Accounts, ssh : BOOLEAN, canSudo : BOOLEAN, free : BOOLEAN,
                  force : BOOLEAN, sudo : BOOLEAN, nested : BOOLEAN]
  /\ chain \in Seq(Accounts \union {"sudo"}) /\ Len(chain) > 0 /\ chain[1] \in Accounts
  /\ meant \in Accounts
  /\ ProbedInv /\ ChainInv /\ RanInv

(* No account is a mark, and the marks differ.                              *)
LEMMA MarkFacts ==
  /\ Nobody \notin Accounts /\ Refused \notin Accounts /\ Missing \notin Accounts
  /\ "sudo" \notin Accounts /\ Root \in Accounts
  /\ Nobody # Refused /\ Nobody # Missing /\ Refused # Missing
BY RemoteUserAssumption DEF Nobody, Refused, Missing

(* What is appended to a chain is its last call.                            *)
LEMMA ChainGrows ==
  ASSUME NEW S, NEW s \in Seq(S), Len(s) > 0, NEW e \in S
  PROVE  /\ Append(s, e) \in Seq(S) /\ Len(Append(s, e)) = Len(s) + 1 /\ Len(s) \in Nat
         /\ Append(s, e)[Len(s) + 1] = e /\ Append(s, e)[1] = s[1]
OBVIOUS

(* What is said of the length of a chain.                                   *)
LEMMA Lengths ==
  ASSUME NEW n \in Nat
  PROVE  (n > 0 => n = 1 \/ n > 1) /\ ~(1 > 1) /\ (n + 1 = 2 => n = 1)
OBVIOUS

(* A chain has one call, that of the account, or more.                      *)
LEMMA ChainIsLong ==
  ASSUME UserInv
  PROVE  /\ Len(chain) \in Nat /\ (Len(chain) = 1 \/ Len(chain) > 1) /\ ~(1 > 1)
<1>1. chain \in Seq(Accounts \union {"sudo"}) /\ Len(chain) > 0
  BY DEF UserInv
<1>2. Len(chain) \in Nat
  BY <1>1
<1> QED BY <1>1, <1>2, Lengths, Zenon

(* The object is a new one that has not been probed.                        *)
LEMMA UserStarts == RemoteUserInit => UserInv
<1> SUFFICES ASSUME RemoteUserInit PROVE UserInv
  OBVIOUS
<1>1. PICK n \in Accounts :
        /\ permits \in [key : {{n}, Accounts}, sudo : {"none", "free", "password"},
                        given : {"none", "right", "wrong"}]
        /\ account = Fresh(n) /\ main = Nobody /\ meant = n /\ chain = <<n>>
        /\ probing = "ssh" /\ ran = Nobody
  BY DEF RemoteUserInit
<1>2. permits \in [key : SUBSET Accounts, sudo : {"none", "free", "password"},
                   given : {"none", "right", "wrong"}]
  BY <1>1
<1>3. account \in [name : Accounts, ssh : BOOLEAN, canSudo : BOOLEAN, free : BOOLEAN,
                   force : BOOLEAN, sudo : BOOLEAN, nested : BOOLEAN]
  BY <1>1 DEF Fresh
<1>4. chain \in Seq(Accounts \union {"sudo"}) /\ Len(chain) = 1 /\ chain[1] = n
  BY <1>1
<1>5. RemoteUserTypeOK
  BY <1>1, <1>3 DEF RemoteUserTypeOK
<1>6. ProbedInv
  BY <1>1 DEF ProbedInv, Fresh
<1>7. ChainInv
  BY <1>1, <1>4, MarkFacts DEF ChainInv, Fresh
<1>8. RanInv
  BY <1>1 DEF RanInv
<1> QED BY <1>1, <1>2, <1>3, <1>4, <1>5, <1>6, <1>7, <1>8 DEF UserInv

(* The probes of init (deploy.h:1020-1055).                                 *)
LEMMA ProbeKeeps ==
  ASSUME UserInv, ProbeSsh \/ ProbeSudo \/ ProbePassword PROVE UserInv'
<1> DEFINE Objects == [name : Accounts, ssh : BOOLEAN, canSudo : BOOLEAN, free : BOOLEAN,
                       force : BOOLEAN, sudo : BOOLEAN, nested : BOOLEAN]
<1>1. /\ account \in Objects /\ ProbedInv /\ ChainInv /\ RanInv /\ RemoteUserTypeOK
      /\ permits \in [key : SUBSET Accounts, sudo : {"none", "free", "password"},
                      given : {"none", "right", "wrong"}]
      /\ chain \in Seq(Accounts \union {"sudo"}) /\ Len(chain) > 0 /\ chain[1] \in Accounts
      /\ meant \in Accounts
  BY DEF UserInv
<1>2. UNCHANGED <<permits, main, meant, chain, ran>> /\ probing # "ready" /\ Len(chain) \in Nat
  BY <1>1 DEF ProbeSsh, ProbeSudo, ProbePassword
<1>3. Len(chain) = 1 /\ account.name = chain[1] /\ ran = Nobody
  BY <1>1, <1>2, ChainIsLong DEF ChainInv, RanInv
<1>4. /\ account' \in Objects /\ account'.name = account.name /\ account'.sudo = account.sudo
      /\ probing' \in {"sudo", "password", "ready"} /\ ProbedInv'
  <2>1. CASE ProbeSsh
    <3>1. PICK w \in BOOLEAN : /\ w <=> account.name \in permits.key
                               /\ account' = [account EXCEPT !.ssh = w]
      <4> DEFINE opens == account.name \in permits.key
      <4>1. opens \in BOOLEAN /\ (opens <=> account.name \in permits.key)
        OBVIOUS
      <4>2. account' = [account EXCEPT !.ssh = opens]
        BY <2>1 DEF ProbeSsh
      <4> HIDE DEF opens
      <4> QED BY <4>1, <4>2
    <3>2. /\ account' \in Objects /\ account'.name = account.name /\ account'.sudo = account.sudo
          /\ account'.canSudo = account.canSudo /\ account'.free = account.free
          /\ account'.force = account.force
      BY <1>1, <3>1
    <3>3. account'.ssh <=> account.name \in permits.key
      BY <1>1, <3>1
    <3>4. probing = "ssh" /\ probing' = IF account'.ssh THEN "sudo" ELSE "ready"
      BY <2>1 DEF ProbeSsh
    <3> QED BY <1>1, <1>2, <1>3, <3>2, <3>3, <3>4 DEF ProbedInv
  <2>2. CASE ProbeSudo
    <3>1. account' = [account EXCEPT !.canSudo = FreeSudo, !.free = FreeSudo]
      BY <2>2 DEF ProbeSudo
    <3>2. /\ account' \in Objects /\ account'.name = account.name /\ account'.sudo = account.sudo
          /\ account'.ssh = account.ssh /\ account'.force = account.force
      BY <1>1, <3>1 DEF FreeSudo
    <3>3. (account'.canSudo <=> FreeSudo) /\ (account'.free <=> FreeSudo)
      BY <1>1, <3>1
    <3>4. /\ probing = "sudo"
          /\ probing' = IF ~FreeSudo /\ permits.given # "none" THEN "password" ELSE "ready"
      BY <2>2 DEF ProbeSudo
    <3> QED BY <1>1, <1>2, <1>3, <3>2, <3>3, <3>4 DEF ProbedInv, FreeSudo
  <2>3. CASE ProbePassword
    <3>1. PICK w \in BOOLEAN : /\ w <=> permits.sudo = "password" /\ permits.given = "right"
                               /\ account' = [account EXCEPT !.canSudo = w, !.force = w]
      BY <2>3 DEF ProbePassword
    <3>2. /\ account' \in Objects /\ account'.name = account.name /\ account'.sudo = account.sudo
          /\ account'.ssh = account.ssh /\ account'.free = account.free
      BY <1>1, <3>1
    <3>3. (account'.canSudo <=> w) /\ (account'.force <=> w)
      BY <1>1, <3>1
    <3>4. probing = "password" /\ probing' = "ready"
      BY <2>3 DEF ProbePassword
    <3> QED BY <1>1, <1>2, <1>3, <3>1, <3>2, <3>3, <3>4 DEF ProbedInv
  <2> QED BY <2>1, <2>2, <2>3
<1>5. RemoteUserTypeOK' /\ RanInv'
  BY <1>1, <1>2, <1>3, <1>4 DEF RemoteUserTypeOK, RanInv
<1>6. ChainInv'
  BY <1>1, <1>2, <1>3, <1>4 DEF ChainInv
<1> QED BY <1>1, <1>2, <1>4, <1>5, <1>6 DEF UserInv

(* The objects that sudo() and login() make (deploy.h:1065-1083).           *)
LEMMA ObjectKeeps ==
  ASSUME UserInv, Sudo \/ \E n \in Accounts : LoginWithSudo(n) PROVE UserInv'
<1> DEFINE Objects == [name : Accounts, ssh : BOOLEAN, canSudo : BOOLEAN, free : BOOLEAN,
                       force : BOOLEAN, sudo : BOOLEAN, nested : BOOLEAN]
<1>1. /\ account \in Objects /\ ProbedInv /\ ChainInv /\ RemoteUserTypeOK
      /\ permits \in [key : SUBSET Accounts, sudo : {"none", "free", "password"},
                      given : {"none", "right", "wrong"}]
      /\ chain \in Seq(Accounts \union {"sudo"}) /\ Len(chain) > 0 /\ chain[1] \in Accounts
      /\ meant \in Accounts
  BY DEF UserInv
<1>2. /\ UNCHANGED <<permits, probing>> /\ probing = "ready" /\ account.canSudo /\ ran' = Nobody
  BY DEF Sudo, LoginWithSudo
<1>3. PICK e \in Accounts \union {"sudo"} :
        /\ chain' = Append(chain, e) /\ meant' \in Accounts
        /\ account' \in Objects /\ account'.sudo
        /\ account'.ssh = account.ssh /\ account'.canSudo = account.canSudo
        /\ account'.free = account.free /\ account'.force = account.force
        /\ main' \in Accounts \union {Nobody}
        /\ IF e = "sudo" THEN meant' = Root /\ main' = main /\ account'.name = account.name
           ELSE meant' = e /\ account'.name = e /\ main' = account.name
  <2>1. CASE Sudo
    <3>1. account' = [account EXCEPT !.sudo = TRUE]
      BY <2>1 DEF Sudo
    <3>2. /\ account' \in Objects /\ account'.sudo
          /\ account'.ssh = account.ssh /\ account'.canSudo = account.canSudo
          /\ account'.free = account.free /\ account'.force = account.force
          /\ account'.name = account.name
      BY <1>1, <3>1
    <3>3. chain' = Append(chain, "sudo") /\ meant' = Root /\ main' = main
      BY <2>1 DEF Sudo
    <3> QED BY <1>1, <3>2, <3>3, MarkFacts DEF RemoteUserTypeOK
  <2>2. CASE \E n \in Accounts : LoginWithSudo(n)
    <3>0. PICK n \in Accounts : LoginWithSudo(n)
      BY <2>2
    <3>1. account' = [account EXCEPT !.name = n, !.sudo = TRUE, !.nested = main # Nobody]
      BY <3>0 DEF LoginWithSudo
    <3>2. /\ account' \in Objects /\ account'.sudo /\ account'.name = n
          /\ account'.ssh = account.ssh /\ account'.canSudo = account.canSudo
          /\ account'.free = account.free /\ account'.force = account.force
      BY <1>1, <3>0, <3>1
    <3>3. chain' = Append(chain, n) /\ meant' = n /\ main' = account.name
      BY <3>0 DEF LoginWithSudo
    <3>4. account.name \in Accounts
      BY <1>1
    <3> QED BY <3>0, <3>2, <3>3, <3>4, MarkFacts
  <2> QED BY <2>1, <2>2
<1>4. /\ chain' \in Seq(Accounts \union {"sudo"}) /\ Len(chain') = Len(chain) + 1
      /\ Len(chain) \in Nat /\ chain'[Len(chain')] = e /\ chain'[1] = chain[1]
  BY <1>1, <1>3, ChainGrows
<1>5. account.name \in Accounts /\ account'.name \in Accounts
  BY <1>1, <1>3
<1>6. RemoteUserTypeOK' /\ RanInv'
  BY <1>1, <1>2, <1>3, <1>5 DEF RemoteUserTypeOK, RanInv
<1>7. ProbedInv'
  BY <1>1, <1>2, <1>3, <1>4 DEF ProbedInv
<1>8. Len(chain') = 2 => LoginName(account)' = chain[1]
  <2> SUFFICES ASSUME Len(chain') = 2 PROVE LoginName(account)' = chain[1]
    OBVIOUS
  <2>0. Len(chain) = 1
    BY <1>4, Lengths, Zenon
  <2>1. main = Nobody /\ account.name = chain[1]
    BY <1>1, <2>0 DEF ChainInv
  <2> QED BY <1>3, <1>5, <2>1, MarkFacts DEF LoginName
<1>9. ChainInv'
  BY <1>1, <1>2, <1>3, <1>4, <1>5, <1>8, MarkFacts DEF ChainInv
<1> QED BY <1>1, <1>2, <1>3, <1>4, <1>6, <1>7, <1>9 DEF UserInv

(* A command, or an object that cannot be made (deploy.h:1097-1172).        *)
LEMMA RunKeeps ==
  ASSUME UserInv, CannotSudo \/ RunCommand PROVE UserInv'
<1>1. /\ UNCHANGED <<permits, account, main, meant, chain, probing>> /\ probing = "ready"
      /\ (ran' = Refused /\ ~account.canSudo) \/ ran' = RunsAs(account)
  BY DEF CannotSudo, RunCommand
<1>2. RunsAs(account)' = RunsAs(account) /\ LoginName(account)' = LoginName(account)
  BY <1>1 DEF RunsAs, NeedsPassword, LoginName, SudoAllows, IsRoot
<1>3. RunsAs(account) \in Accounts \union {Refused, Missing}
  BY RemoteUserAssumption DEF UserInv, RemoteUserTypeOK, RunsAs, LoginName
<1>4. RemoteUserTypeOK' /\ RanInv'
  BY <1>1, <1>2, <1>3 DEF UserInv, RemoteUserTypeOK, RanInv
<1>5. ProbedInv' /\ ChainInv'
  BY <1>1, <1>2 DEF UserInv, ProbedInv, ChainInv
<1> QED BY <1>1, <1>4, <1>5 DEF UserInv

(* All probes, objects and commands keep the invariant.                     *)
LEMMA UserSteps == UserInv /\ [RemoteUserNext]_remoteUserVars => UserInv'
<1> SUFFICES ASSUME UserInv, [RemoteUserNext]_remoteUserVars PROVE UserInv'
  OBVIOUS
<1>1. CASE RemoteUserNext
  BY <1>1, ProbeKeeps, ObjectKeeps, RunKeeps DEF RemoteUserNext
<1>2. CASE UNCHANGED remoteUserVars
  <2>1. UNCHANGED <<permits, account, main, meant, chain, probing, ran>>
    BY <1>2 DEF remoteUserVars
  <2>2. RunsAs(account)' = RunsAs(account) /\ LoginName(account)' = LoginName(account)
    BY <2>1 DEF RunsAs, NeedsPassword, LoginName, SudoAllows, IsRoot
  <2> QED BY <2>1, <2>2 DEF UserInv, RemoteUserTypeOK, ProbedInv, ChainInv, RanInv
<1> QED BY <1>1, <1>2

(* The invariant says what is checked of users: a command runs as the one it*)
(* is meant for.                                                            *)
LEMMA UserMeans == UserInv => RemoteUserTypeOK /\ RunsAsMeant
<1> SUFFICES ASSUME UserInv PROVE RunsAsMeant
  BY DEF UserInv
<1>1. /\ ProbedInv /\ ChainInv /\ RanInv /\ RemoteUserTypeOK
      /\ account.nested \in BOOLEAN /\ account.name \in Accounts
      /\ Len(chain) \in Nat /\ Len(chain) > 0
  BY DEF UserInv
<1>2. ASSUME ran \in Accounts
      PROVE  \/ ran = meant
             \/ chain[Len(chain)] = "sudo" /\ main # Nobody /\ ran \in {account.name, main}
             \/ chain[Len(chain)] = Root /\ ran = main
  <2>1. ran = RunsAs(account)
    BY <1>1, <1>2, MarkFacts DEF RanInv
  <2>2. \/ (~account.sudo \/ IsRoot(account)) /\ ran = LoginName(account)
        \/ account.sudo /\ ran = IF main # Nobody THEN account.name ELSE Root
    BY <1>2, <2>1, MarkFacts DEF RunsAs
  <2>3. CASE Len(chain) = 1
    BY <1>1, <2>2, <2>3 DEF ChainInv, LoginName
  <2>4. CASE Len(chain) > 1 /\ chain[Len(chain)] = "sudo"
    BY <1>1, <2>2, <2>4 DEF ChainInv, LoginName, IsRoot
  <2>5. CASE Len(chain) > 1 /\ chain[Len(chain)] # "sudo"
    BY <1>1, <2>2, <2>5 DEF ChainInv, LoginName, IsRoot
  <2> QED BY ChainIsLong, <2>3, <2>4, <2>5
<1>3. ASSUME ran = Missing PROVE account.nested
  <2>1. RunsAs(account) = Missing
    BY <1>1, <1>3, MarkFacts DEF RanInv
  <2>2. account.sudo /\ NeedsPassword(account) /\ (permits.given = "none" \/ account.nested)
    BY <1>1, <2>1, MarkFacts DEF RunsAs, RemoteUserTypeOK, LoginName
  <2>3. account.canSudo
    BY <1>1, <2>2, ChainIsLong DEF ChainInv
  <2> QED BY <1>1, <2>2, <2>3 DEF ProbedInv, NeedsPassword
<1>4. ASSUME Len(chain) = 2 PROVE ran # Refused
  <2>1. account.canSudo /\ account.sudo /\ probing = "ready" /\ LoginName(account) = chain[1]
    BY <1>1, <1>4 DEF ChainInv
  <2>2. chain[1] \in permits.key
    BY <1>1, <2>1 DEF ProbedInv
  <2>3. SudoAllows(account)
    BY <1>1, <2>1 DEF ProbedInv, SudoAllows, NeedsPassword
  <2>4. RunsAs(account) \in Accounts \union {Missing}
    BY <1>1, <2>1, <2>2, <2>3, MarkFacts DEF RunsAs, RemoteUserTypeOK, LoginName
  <2> QED BY <1>1, <2>1, <2>4, MarkFacts DEF RanInv
<1> QED BY <1>2, <1>3, <1>4 DEF RunsAsMeant

-----------------------------------------------------------------------------
(* The files of remote hosts and their reboots.  A copy is of the host it is*)
(* for, and a line that was sent back is in every copy made since.          *)

FilesOfHosts(S) == [host : S, lines : SUBSET Tasks]
TaskPlaces == {"begin", "wait", "not_there", "end", "failed"} \union Middle

(* The values of the state.                                                 *)
HostState ==
  /\ disturbed \subseteq Tasks
  /\ task \in [Tasks -> [does : {"read", "append", "reboot"}, on : Machines, at : TaskPlaces]]
  /\ remote \in [Machines -> FilesOfHosts(Machines)]
  /\ own \in [Machines -> FilesOfHosts(Machines \union {Nowhere})]
  /\ shared \in FilesOfHosts(Machines \union {Nowhere})
  /\ readFrom \in [Tasks -> Machines \union {Nowhere}]
  /\ before \in [Tasks -> Nat] /\ boots \in [Machines -> Nat]
  /\ power \in [Machines -> {"up", "stopping", "down"}]

(* A file is that of its host, also in the copy that is changed or that an  *)
(* undisturbed reader has.                                                  *)
OfHost ==
  /\ \A h \in Machines : remote[h].host = h
  /\ \A t \in Tasks : At(t, "append", "copied") \/ At(t, "append", "changed") =>
       own[Target(t)].host = Target(t)
  /\ \A t \in Tasks \ disturbed :
       /\ At(t, "read", "copied") => shared.host = Target(t)
       /\ At(t, "read", "end") => readFrom[t] = Target(t)

Appenders(h) == {u \in Tasks : task[u].does = "append" /\ Target(u) = h}

(* A line that was sent back is in every copy made since; whoever had one   *)
(* before, or finds no file, disturbs its task.                             *)
LinesStay ==
  /\ \A t \in Tasks : At(t, "append", "not_there") => Appenders(Target(t)) \subseteq disturbed
  /\ \A t \in Tasks \ disturbed :
       /\ At(t, "append", "changed") => t \in own[Target(t)].lines
       /\ At(t, "append", "end") =>
            /\ t \in remote[Target(t)].lines
            /\ \A u \in Appenders(Target(t)) :
                 task[u].at \in {"copied", "changed"} => t \in own[Target(t)].lines

(* An undisturbed task that waits has told its host to restart.             *)
WaitInv ==
  \A t \in Tasks \ disturbed :
    /\ At(t, "reboot", "wait") =>
         \/ boots[Target(t)] > before[t]
         \/ boots[Target(t)] = before[t] /\ power[Target(t)] # "up"
    /\ At(t, "reboot", "end") => boots[Target(t)] > before[t]

HostInv == HostState /\ OfHost /\ LinesStay /\ WaitInv

(* No task has begun, and the files are empty.                              *)
LEMMA HostStarts == RemoteHostInit => HostInv
<1> SUFFICES ASSUME RemoteHostInit PROVE HostInv
  OBVIOUS
<1> USE DEF RemoteHostInit
<1>1. /\ \A t \in Tasks : task[t].at = "begin" /\ disturbed = {}
      /\ \A h \in Machines : remote[h] = EmptyFile(h)
  OBVIOUS
<1>2. HostState
  <2>1. task \in [Tasks -> [does : {"read", "append", "reboot"}, on : Machines, at : TaskPlaces]]
    BY DEF TaskPlaces
  <2>2. /\ \A h \in Machines : EmptyFile(h) \in FilesOfHosts(Machines)
        /\ EmptyFile(Nowhere) \in FilesOfHosts(Machines \union {Nowhere})
    BY DEF EmptyFile, FilesOfHosts
  <2>3. /\ remote \in [Machines -> FilesOfHosts(Machines)]
        /\ own \in [Machines -> FilesOfHosts(Machines \union {Nowhere})]
        /\ shared \in FilesOfHosts(Machines \union {Nowhere})
    BY <2>2
  <2>4. /\ readFrom \in [Tasks -> Machines \union {Nowhere}]
        /\ before \in [Tasks -> Nat] /\ boots \in [Machines -> Nat]
        /\ power \in [Machines -> {"up", "stopping", "down"}] /\ disturbed \subseteq Tasks
    OBVIOUS
  <2> QED BY <2>1, <2>3, <2>4 DEF HostState
<1>3. OfHost /\ LinesStay /\ WaitInv
  <2>1. \A h \in Machines : remote[h].host = h
    BY <1>1 DEF EmptyFile
  <2> QED BY <1>1, <2>1 DEF OfHost, LinesStay, WaitInv, At
<1> QED BY <1>2, <1>3 DEF HostInv

-----------------------------------------------------------------------------
(* A task that goes on stays on its host, and the others stay where they    *)
(* are.                                                                     *)
LEMMA GoesOn ==
  ASSUME HostState, NEW t \in Tasks, NEW w \in TaskPlaces, Goto(t, w)
  PROVE  /\ task' \in [Tasks -> [does : {"read", "append", "reboot"}, on : Machines, at : TaskPlaces]]
         /\ task'[t].at = w
         /\ \A u \in Tasks : /\ task'[u].does = task[u].does /\ Target(u)' = Target(u)
                             /\ Target(u) \in Machines
                             /\ u # t => task'[u].at = task[u].at
         /\ \A h \in Machines : Appenders(h)' = Appenders(h)
<1>1. task \in [Tasks -> [does : {"read", "append", "reboot"}, on : Machines, at : TaskPlaces]]
  BY DEF HostState
<1>2. task' = [task EXCEPT ![t] = [task[t] EXCEPT !.at = w]]
  BY <1>1 DEF Goto
<1>3. /\ [task[t] EXCEPT !.at = w] \in [does : {"read", "append", "reboot"}, on : Machines, at : TaskPlaces]
      /\ [task[t] EXCEPT !.at = w].does = task[t].does
      /\ [task[t] EXCEPT !.at = w].on = task[t].on /\ [task[t] EXCEPT !.at = w].at = w
  BY <1>1
<1>4. /\ task' \in [Tasks -> [does : {"read", "append", "reboot"}, on : Machines, at : TaskPlaces]]
      /\ task'[t].does = task[t].does /\ task'[t].on = task[t].on /\ task'[t].at = w
      /\ \A u \in Tasks : u # t => task'[u] = task[u]
  BY <1>1, <1>2, <1>3
<1>5. \A u \in Tasks : task'[u].does = task[u].does /\ Target(u)' = Target(u) /\ Target(u) \in Machines
  BY <1>1, <1>4 DEF Target
<1>6. \A h \in Machines : Appenders(h)' = Appenders(h)
  BY <1>5 DEF Appenders
<1> QED BY <1>4, <1>5, <1>6

(* What reads and appends do not touch.                                     *)
LEMMA MachinesKept ==
  ASSUME HostInv, NEW t \in Tasks, NEW w \in TaskPlaces, Goto(t, w), task[t].does # "reboot",
         UNCHANGED <<power, boots, before>>, disturbed \subseteq disturbed'
  PROVE  WaitInv'
<1>1. /\ \A u \in Tasks : /\ task'[u].does = task[u].does /\ Target(u)' = Target(u)
                          /\ u # t => task'[u].at = task[u].at
      /\ WaitInv
  BY GoesOn DEF HostInv
<1>2. \A u \in Tasks : /\ At(u, "reboot", "wait")' => At(u, "reboot", "wait")
                       /\ At(u, "reboot", "end")' => At(u, "reboot", "end")
  BY <1>1 DEF At
<1> QED BY <1>1, <1>2 DEF WaitInv

(* A read comes from the file of its host (deploy.h:1985-1989).             *)
LEMMA ReadKeeps ==
  ASSUME HostInv, NEW t \in Tasks, Fetch(t) \/ ReadCopy(t) PROVE HostInv'
<1>1. PICK w \in {"copied", "end"} : Goto(t, w) /\ task[t].does = "read" /\ (w = "copied" <=> Fetch(t))
                                     /\ (w = "end" <=> ReadCopy(t))
  <2>1. "copied" # "end" /\ (Fetch(t) => task[t].at = "begin") /\ (ReadCopy(t) => task[t].at = "copied")
    BY DEF Fetch, ReadCopy, At
  <2> QED BY <2>1 DEF Fetch, ReadCopy, At
<1>2. /\ UNCHANGED <<remote, own, power, boots, before>> /\ disturbed \subseteq disturbed'
      /\ disturbed' \subseteq Tasks
  BY DEF Fetch, ReadCopy, machines, files, seen, Overlapping, HostInv, HostState
<1>3. HostState /\ OfHost /\ LinesStay /\ w \in TaskPlaces
  BY <1>1 DEF HostInv, TaskPlaces, Middle
<1>4. /\ task' \in [Tasks -> [does : {"read", "append", "reboot"}, on : Machines, at : TaskPlaces]]
      /\ task'[t].at = w
      /\ \A u \in Tasks : /\ task'[u].does = task[u].does /\ Target(u)' = Target(u)
                          /\ Target(u) \in Machines
                          /\ u # t => task'[u].at = task[u].at
      /\ \A h \in Machines : Appenders(h)' = Appenders(h)
  BY <1>1, <1>3, GoesOn
<1>5. \/ Fetch(t) /\ shared' = remote[Target(t)] /\ readFrom' = readFrom
         /\ disturbed' = disturbed \union Overlapping(t)
      \/ ReadCopy(t) /\ shared' = shared /\ readFrom' = [readFrom EXCEPT ![t] = shared.host]
         /\ task[t].at = "copied" /\ disturbed' = disturbed
  BY DEF Fetch, ReadCopy, files, seen, At
<1>6. HostState'
  <2>1. remote[Target(t)] \in FilesOfHosts(Machines \union {Nowhere}) /\ shared.host \in Machines \union {Nowhere}
    BY <1>3, <1>4 DEF HostState, FilesOfHosts
  <2>2. /\ shared' \in FilesOfHosts(Machines \union {Nowhere})
        /\ readFrom' \in [Tasks -> Machines \union {Nowhere}]
    BY <1>3, <1>5, <2>1 DEF HostState
  <2> QED BY <1>2, <1>3, <1>4, <2>2 DEF HostState
<1>7. OfHost'
  <2>1. \A u \in Tasks : /\ At(u, "append", "copied")' => At(u, "append", "copied")
                         /\ At(u, "append", "changed")' => At(u, "append", "changed")
    BY <1>1, <1>4 DEF At
  <2>2. ASSUME NEW u \in Tasks \ disturbed'
        PROVE  /\ At(u, "read", "copied")' => shared'.host = Target(u)
               /\ At(u, "read", "end")' => readFrom'[u] = Target(u)
    <3>1. CASE Fetch(t)
      <4>1. u # t => ~At(u, "read", "copied")
        BY <1>1, <1>4, <1>5, <3>1, <2>2 DEF Overlapping, At, Middle, Fetch, ReadCopy
      <4>2. shared' = remote[Target(t)] /\ readFrom' = readFrom /\ w = "copied"
        BY <1>1, <1>5, <3>1 DEF Fetch, ReadCopy, At
      <4>3. remote[Target(t)].host = Target(t)
        BY <1>3, <1>4 DEF OfHost
      <4> QED BY <1>2, <1>3, <1>4, <2>2, <4>1, <4>2, <4>3 DEF OfHost, At
    <3>2. CASE ReadCopy(t)
      <4>1. /\ shared' = shared /\ readFrom' = [readFrom EXCEPT ![t] = shared.host] /\ w = "end"
            /\ At(t, "read", "copied")
        BY <1>1, <1>5, <3>2 DEF Fetch, ReadCopy, At
      <4>2. t \notin disturbed' => shared.host = Target(t)
        BY <1>2, <1>3, <4>1 DEF OfHost
      <4>3. readFrom'[t] = shared.host /\ (u # t => readFrom'[u] = readFrom[u])
        BY <1>3, <4>1 DEF HostState
      <4> QED BY <1>2, <1>3, <1>4, <2>2, <4>1, <4>2, <4>3 DEF OfHost, At
    <3> QED BY <3>1, <3>2
  <2> QED BY <1>2, <1>3, <1>4, <2>1, <2>2 DEF OfHost
<1>8. LinesStay'
  <2>1. \A u \in Tasks, x \in TaskPlaces : At(u, "append", x)' => At(u, "append", x)
    BY <1>1, <1>4 DEF At
  <2>2. \A h \in Machines : \A u \in Appenders(h) : task'[u].at = task[u].at
    BY <1>1, <1>4 DEF Appenders
  <2> QED BY <1>2, <1>3, <1>4, <2>1, <2>2 DEF LinesStay, TaskPlaces, Middle
<1>9. WaitInv'
  BY <1>1, <1>2, <1>3, MachinesKept
<1> QED BY <1>6, <1>7, <1>8, <1>9 DEF HostInv

(* Whoever is in the middle of an append to the same host is disturbed.     *)
LEMMA Disturbs ==
  ASSUME HostState, NEW t \in Tasks, task[t].does = "append", Disturb(t)
  PROVE  /\ disturbed \subseteq disturbed' /\ disturbed' \subseteq Tasks
         /\ \A u \in Appenders(Target(t)) : u # t /\ task[u].at \in Middle => u \in disturbed' /\ t \in disturbed'
BY DEF HostState, Disturb, Overlapping, Appenders

(* Copies of appended files: what is to be shown of a step that makes a     *)
(* copy, changes it or sends it back.                                       *)
LEMMA AppendStep ==
  ASSUME HostInv, NEW t \in Tasks, NEW w \in TaskPlaces, Goto(t, w), task[t].does = "append",
         UNCHANGED <<shared, readFrom, power, boots, before>>,
         disturbed \subseteq disturbed', disturbed' \subseteq Tasks,
         remote' \in [Machines -> FilesOfHosts(Machines)],
         own' \in [Machines -> FilesOfHosts(Machines \union {Nowhere})],
         \A h \in Machines : remote'[h].host = h,
         \A u \in Tasks : At(u, "append", "copied")' \/ At(u, "append", "changed")' =>
           own'[Target(u)].host = Target(u),
         LinesStay'
  PROVE  HostInv'
<1>1. HostState /\ OfHost
  BY DEF HostInv
<1>2. /\ task' \in [Tasks -> [does : {"read", "append", "reboot"}, on : Machines, at : TaskPlaces]]
      /\ \A u \in Tasks : /\ task'[u].does = task[u].does /\ Target(u)' = Target(u)
                          /\ u # t => task'[u].at = task[u].at
  BY <1>1, GoesOn
<1>3. HostState'
  BY <1>1, <1>2 DEF HostState
<1>4. OfHost'
  <2>1. \A u \in Tasks : /\ At(u, "read", "copied")' => At(u, "read", "copied")
                         /\ At(u, "read", "end")' => At(u, "read", "end")
    BY <1>2 DEF At
  <2> QED BY <1>1, <1>2, <2>1 DEF OfHost
<1>5. WaitInv'
  BY MachinesKept
<1> QED BY <1>3, <1>4, <1>5 DEF HostInv

(* exists() and the copy of the file (deploy.h:1996-1999, 2092-2099).       *)
LEMMA CopyKeeps ==
  ASSUME HostInv, NEW t \in Tasks, Exists(t) \/ CopyBack(t) PROVE HostInv'
<1>1. HostState /\ OfHost /\ LinesStay
  BY DEF HostInv
<1>2. PICK w \in {"there", "not_there", "copied"} :
        /\ Goto(t, w) /\ task[t].does = "append" /\ task[t].at \in {"begin", "there"}
        /\ w \in {"there", "copied"} => Disturb(t)
        /\ w = "not_there" =>
             disturbed' = disturbed \union {u \in Tasks : Target(u) = Target(t) /\ task[u].does = "append"}
        /\ w = "copied" => own' = CopyHere(t)
        /\ w # "copied" => own' = own
        /\ UNCHANGED <<remote, shared, readFrom, power, boots, before>>
  <2>1. CASE Exists(t)
    BY <2>1 DEF Exists, At, files, machines, seen
  <2>2. CASE CopyBack(t)
    BY <2>2 DEF CopyBack, At, machines, seen
  <2> QED BY <2>1, <2>2
<1>3. w \in TaskPlaces /\ Target(t) \in Machines
  BY <1>1, <1>2, GoesOn DEF TaskPlaces, Middle
<1>4. /\ \A u \in Tasks : /\ task'[u].does = task[u].does /\ Target(u)' = Target(u)
                          /\ Target(u) \in Machines
                          /\ u # t => task'[u].at = task[u].at
      /\ \A h \in Machines : Appenders(h)' = Appenders(h)
      /\ task'[t].at = w
  BY <1>1, <1>2, <1>3, GoesOn
<1>5. /\ disturbed \subseteq disturbed' /\ disturbed' \subseteq Tasks
      /\ w \in {"there", "copied"} =>
           \A u \in Appenders(Target(t)) : u # t /\ task[u].at \in Middle => u \in disturbed'
      /\ w = "not_there" => Appenders(Target(t)) \subseteq disturbed'
  <2>1. CASE w \in {"there", "copied"}
    BY <1>1, <1>2, <2>1, Disturbs
  <2>2. CASE w = "not_there"
    BY <1>1, <1>2, <2>2 DEF HostState, Appenders
  <2> QED BY <1>2, <2>1, <2>2
<1>6. /\ own' \in [Machines -> FilesOfHosts(Machines \union {Nowhere})]
      /\ w = "copied" => own'[Target(t)] = remote[Target(t)]
      /\ \A h \in Machines : h # Target(t) \/ w # "copied" => own'[h] = own[h]
  <2>1. remote[Target(t)] \in FilesOfHosts(Machines \union {Nowhere})
    BY <1>1, <1>3 DEF HostState, FilesOfHosts
  <2> QED BY <1>1, <1>2, <1>3, <2>1 DEF HostState, CopyHere
<1>7. \A u \in Tasks : At(u, "append", "copied")' \/ At(u, "append", "changed")' =>
        own'[Target(u)].host = Target(u)
  BY <1>1, <1>2, <1>4, <1>6 DEF OfHost, At
<1>8. LinesStay'
  <2>1. ASSUME NEW u \in Tasks, At(u, "append", "not_there")' PROVE Appenders(Target(u)) \subseteq disturbed'
    BY <1>1, <1>2, <1>4, <1>5, <2>1 DEF LinesStay, At
  <2>2. ASSUME NEW u \in Tasks \ disturbed', At(u, "append", "changed")'
        PROVE  u \in own'[Target(u)].lines
    <3>1. u # t /\ At(u, "append", "changed")
      BY <1>2, <1>4, <2>2 DEF At
    <3>2. u \in Appenders(Target(t)) => w # "copied"
      BY <1>2, <1>5, <2>2, <3>1 DEF At, Middle
    <3>3. own'[Target(u)] = own[Target(u)]
      BY <1>4, <1>6, <2>2, <3>1, <3>2 DEF Appenders, At
    <3> QED BY <1>1, <1>5, <2>2, <3>1, <3>3 DEF LinesStay
  <2>3. ASSUME NEW u \in Tasks \ disturbed', At(u, "append", "end")'
        PROVE  /\ u \in remote[Target(u)].lines
               /\ \A v \in Appenders(Target(u)) :
                    task'[v].at \in {"copied", "changed"} => u \in own'[Target(u)].lines
    <3>1. At(u, "append", "end") /\ u \notin disturbed
      BY <1>2, <1>4, <1>5, <2>3 DEF At
    <3>2. /\ u \in remote[Target(u)].lines
          /\ \A v \in Appenders(Target(u)) :
               task[v].at \in {"copied", "changed"} => u \in own[Target(u)].lines
      BY <1>1, <3>1 DEF LinesStay
    <3>3. CASE Target(u) # Target(t) \/ w # "copied"
      <4>1. own'[Target(u)] = own[Target(u)]
        BY <1>4, <1>6, <3>3
      <4>2. \A v \in Appenders(Target(u)) :
              task'[v].at \in {"copied", "changed"} => task[v].at \in {"copied", "changed"}
        BY <1>2, <1>4, <3>3 DEF Appenders
      <4> QED BY <3>2, <4>1, <4>2
    <3>4. CASE Target(u) = Target(t) /\ w = "copied"
      BY <1>6, <3>2, <3>4
    <3> QED BY <3>2, <3>3, <3>4
  <2> QED BY <1>2, <1>4, <2>1, <2>2, <2>3 DEF LinesStay
<1> QED BY <1>1, <1>2, <1>3, <1>5, <1>6, <1>7, <1>8, AppendStep DEF HostState, OfHost

(* The line is added to the copy (deploy.h:2000-2003).                      *)
LEMMA ChangeKeeps ==
  ASSUME HostInv, NEW t \in Tasks, Change(t) PROVE HostInv'
<1>1. HostState /\ OfHost /\ LinesStay
  BY DEF HostInv
<1>2. /\ Goto(t, "changed") /\ task[t].does = "append" /\ task[t].at \in {"copied", "not_there"}
      /\ Disturb(t) /\ UNCHANGED <<remote, shared, readFrom, power, boots, before>>
  BY DEF Change, At, machines, seen
<1>3. "changed" \in TaskPlaces /\ Target(t) \in Machines
  BY <1>1, <1>2, GoesOn DEF TaskPlaces, Middle
<1>4. /\ \A u \in Tasks : /\ task'[u].does = task[u].does /\ Target(u)' = Target(u)
                          /\ Target(u) \in Machines
                          /\ u # t => task'[u].at = task[u].at
      /\ \A h \in Machines : Appenders(h)' = Appenders(h)
      /\ task'[t].at = "changed"
  BY <1>1, <1>2, <1>3, GoesOn
<1>5. /\ disturbed \subseteq disturbed' /\ disturbed' \subseteq Tasks
      /\ \A u \in Appenders(Target(t)) : u # t /\ task[u].at \in Middle => u \in disturbed'
  BY <1>1, <1>2, Disturbs
<1>6. /\ own' \in [Machines -> FilesOfHosts(Machines \union {Nowhere})]
      /\ \A h \in Machines : h # Target(t) => own'[h] = own[h]
      /\ own'[Target(t)].host = Target(t) /\ t \in own'[Target(t)].lines
      /\ task[t].at = "copied" => own[Target(t)].lines \subseteq own'[Target(t)].lines
  <2>1. own \in [Machines -> FilesOfHosts(Machines \union {Nowhere})]
    BY <1>1 DEF HostState
  <2>2. CASE At(t, "append", "copied")
    <3>1. PICK f \in FilesOfHosts(Machines \union {Nowhere}) :
            /\ own' = [own EXCEPT ![Target(t)] = f]
            /\ f.host = own[Target(t)].host /\ f.lines = own[Target(t)].lines \union {t}
      <4>1. own[Target(t)] \in FilesOfHosts(Machines \union {Nowhere})
        BY <1>3, <2>1
      <4>2. /\ [own[Target(t)] EXCEPT !.lines = own[Target(t)].lines \union {t}] \in FilesOfHosts(Machines \union {Nowhere})
            /\ [own[Target(t)] EXCEPT !.lines = own[Target(t)].lines \union {t}].host = own[Target(t)].host
            /\ [own[Target(t)] EXCEPT !.lines = own[Target(t)].lines \union {t}].lines = own[Target(t)].lines \union {t}
        BY <4>1 DEF FilesOfHosts
      <4>3. own' = [own EXCEPT ![Target(t)] = [own[Target(t)] EXCEPT !.lines = own[Target(t)].lines \union {t}]]
        BY <2>2 DEF Change, At
      <4> QED BY <4>2, <4>3
    <3>2. own[Target(t)].host = Target(t)
      BY <1>1, <2>2 DEF OfHost
    <3> QED BY <1>3, <2>1, <3>1, <3>2
  <2>3. CASE At(t, "append", "not_there")
    <3>1. [host |-> Target(t), lines |-> {t}] \in FilesOfHosts(Machines \union {Nowhere})
      BY <1>3 DEF FilesOfHosts
    <3>2. own' = [own EXCEPT ![Target(t)] = [host |-> Target(t), lines |-> {t}]]
      BY <2>3 DEF Change, At
    <3> QED BY <1>3, <2>1, <2>3, <3>1, <3>2 DEF At
  <2> QED BY <1>2, <2>2, <2>3 DEF At
<1>7. \A u \in Tasks : At(u, "append", "copied")' \/ At(u, "append", "changed")' =>
        own'[Target(u)].host = Target(u)
  BY <1>1, <1>4, <1>6 DEF OfHost, At
<1>8. task[t].at = "not_there" => Appenders(Target(t)) \subseteq disturbed
  BY <1>1, <1>2 DEF LinesStay, At
<1>9. LinesStay'
  <2>1. ASSUME NEW u \in Tasks, At(u, "append", "not_there")' PROVE Appenders(Target(u)) \subseteq disturbed'
    BY <1>1, <1>4, <1>5, <2>1 DEF LinesStay, At
  <2>2. ASSUME NEW u \in Tasks \ disturbed', At(u, "append", "changed")'
        PROVE  u \in own'[Target(u)].lines
    <3>1. CASE u = t
      BY <1>6, <3>1
    <3>2. CASE u # t
      <4>1. At(u, "append", "changed") /\ u \notin Appenders(Target(t))
        BY <1>4, <1>5, <2>2, <3>2 DEF At, Middle
      <4>2. own'[Target(u)] = own[Target(u)]
        BY <1>4, <1>6, <2>2, <4>1 DEF Appenders, At
      <4> QED BY <1>1, <1>5, <2>2, <4>1, <4>2 DEF LinesStay
    <3> QED BY <3>1, <3>2
  <2>3. ASSUME NEW u \in Tasks \ disturbed', At(u, "append", "end")'
        PROVE  /\ u \in remote[Target(u)].lines
               /\ \A v \in Appenders(Target(u)) :
                    task'[v].at \in {"copied", "changed"} => u \in own'[Target(u)].lines
    <3>1. At(u, "append", "end") /\ u \notin disturbed /\ u \in Appenders(Target(u))
      BY <1>4, <1>5, <2>3 DEF At, Appenders
    <3>2. /\ u \in remote[Target(u)].lines
          /\ \A v \in Appenders(Target(u)) :
               task[v].at \in {"copied", "changed"} => u \in own[Target(u)].lines
      BY <1>1, <3>1 DEF LinesStay
    <3>3. CASE Target(u) # Target(t)
      <4>1. own'[Target(u)] = own[Target(u)]
        BY <1>4, <1>6, <3>3
      <4>2. \A v \in Appenders(Target(u)) : task'[v].at = task[v].at
        BY <1>4, <3>3 DEF Appenders
      <4> QED BY <3>2, <4>1, <4>2
    <3>4. CASE Target(u) = Target(t)
      <4>1. task[t].at = "copied" /\ t \in Appenders(Target(u))
        BY <1>2, <1>8, <3>1, <3>4 DEF Appenders
      <4> QED BY <1>6, <3>2, <3>4, <4>1
    <3> QED BY <3>3, <3>4
  <2> QED BY <1>2, <1>4, <2>1, <2>2, <2>3 DEF LinesStay
<1> QED BY <1>1, <1>2, <1>3, <1>5, <1>6, <1>7, <1>9, AppendStep DEF HostState, OfHost

(* The copy replaces the file (deploy.h:2004).                              *)
LEMMA SendKeeps ==
  ASSUME HostInv, NEW t \in Tasks, SendBack(t) PROVE HostInv'
<1>1. HostState /\ OfHost /\ LinesStay
  BY DEF HostInv
<1>2. /\ Goto(t, "end") /\ At(t, "append", "changed") /\ task[t].does = "append"
      /\ Disturb(t) /\ UNCHANGED <<own, shared, readFrom, power, boots, before>>
  BY DEF SendBack, At, machines, seen
<1>3. "end" \in TaskPlaces /\ Target(t) \in Machines
  BY <1>1, <1>2, GoesOn DEF TaskPlaces
<1>4. /\ \A u \in Tasks : /\ task'[u].does = task[u].does /\ Target(u)' = Target(u)
                          /\ Target(u) \in Machines
                          /\ u # t => task'[u].at = task[u].at
      /\ \A h \in Machines : Appenders(h)' = Appenders(h)
      /\ task'[t].at = "end"
  BY <1>1, <1>2, <1>3, GoesOn
<1>5. /\ disturbed \subseteq disturbed' /\ disturbed' \subseteq Tasks
      /\ \A u \in Appenders(Target(t)) : u # t /\ task[u].at \in Middle => u \in disturbed' /\ t \in disturbed'
  BY <1>1, <1>2, Disturbs
<1>6. own[Target(t)] \in FilesOfHosts(Machines) /\ own[Target(t)].host = Target(t)
  BY <1>1, <1>2, <1>3 DEF HostState, OfHost, FilesOfHosts
<1>7. /\ remote' \in [Machines -> FilesOfHosts(Machines)]
      /\ remote'[Target(t)] = own[Target(t)]
      /\ \A h \in Machines : h # Target(t) => remote'[h] = remote[h]
  <2>1. remote' = [remote EXCEPT ![Target(t)] = own[Target(t)]]
    BY DEF SendBack
  <2> QED BY <1>1, <1>3, <1>6, <2>1 DEF HostState
<1>8. \A h \in Machines : remote'[h].host = h
  BY <1>1, <1>6, <1>7 DEF OfHost
<1>9. \A u \in Tasks : At(u, "append", "copied")' \/ At(u, "append", "changed")' =>
        own'[Target(u)].host = Target(u)
  BY <1>1, <1>2, <1>4 DEF OfHost, At
<1>10. LinesStay'
  <2>1. ASSUME NEW u \in Tasks, At(u, "append", "not_there")' PROVE Appenders(Target(u)) \subseteq disturbed'
    BY <1>1, <1>4, <1>5, <2>1 DEF LinesStay, At
  <2>2. ASSUME NEW u \in Tasks \ disturbed', At(u, "append", "changed")'
        PROVE  u \in own[Target(u)].lines
    BY <1>1, <1>4, <1>5, <2>2 DEF LinesStay, At
  <2>3. ASSUME NEW u \in Tasks \ disturbed', At(u, "append", "end")'
        PROVE  /\ u \in remote'[Target(u)].lines
               /\ \A v \in Appenders(Target(u)) :
                    task'[v].at \in {"copied", "changed"} => u \in own[Target(u)].lines
    <3>1. CASE u = t
      <4>1. t \in own[Target(t)].lines
        BY <1>1, <1>2, <1>5, <2>3, <3>1 DEF LinesStay
      <4> QED BY <1>7, <3>1, <4>1
    <3>2. CASE u # t
      <4>1. At(u, "append", "end") /\ u \notin disturbed
        BY <1>4, <1>5, <2>3, <3>2 DEF At
      <4>2. /\ u \in remote[Target(u)].lines
            /\ \A v \in Appenders(Target(u)) :
                 task[v].at \in {"copied", "changed"} => u \in own[Target(u)].lines
        BY <1>1, <4>1 DEF LinesStay
      <4>3. Target(u) = Target(t) => u \in own[Target(u)].lines
        BY <1>2, <4>2 DEF Appenders, At
      <4>4. \A v \in Appenders(Target(u)) :
              task'[v].at \in {"copied", "changed"} => task[v].at \in {"copied", "changed"}
        BY <1>4 DEF Appenders
      <4> QED BY <1>4, <1>7, <4>2, <4>3, <4>4
    <3> QED BY <3>1, <3>2
  <2> QED BY <1>2, <1>4, <2>1, <2>2, <2>3 DEF LinesStay
<1> QED BY <1>1, <1>2, <1>3, <1>5, <1>7, <1>8, <1>9, <1>10, AppendStep DEF HostState

-----------------------------------------------------------------------------
(* What reboots and failing commands do not touch.                          *)
LEMMA FilesUntouched ==
  ASSUME HostInv, UNCHANGED <<remote, own, shared, readFrom>>, disturbed \subseteq disturbed',
         \A u \in Tasks : /\ task'[u].does = task[u].does /\ Target(u)' = Target(u)
                          /\ Target(u) \in Machines
                          /\ task'[u].at = task[u].at \/ task'[u].at = "failed" \/ task[u].does = "reboot",
         \A h \in Machines : Appenders(h)' = Appenders(h)
  PROVE  OfHost' /\ LinesStay'
<1>1. OfHost /\ LinesStay
  BY DEF HostInv
<1>2. \A u \in Tasks :
        /\ At(u, "append", "copied")' => At(u, "append", "copied")
        /\ At(u, "append", "changed")' => At(u, "append", "changed")
        /\ At(u, "append", "end")' => At(u, "append", "end")
        /\ At(u, "append", "not_there")' => At(u, "append", "not_there")
        /\ At(u, "read", "copied")' => At(u, "read", "copied")
        /\ At(u, "read", "end")' => At(u, "read", "end")
  BY DEF At
<1>3. OfHost'
  BY <1>1, <1>2 DEF OfHost
<1>4. \A h \in Machines : \A u \in Appenders(h) :
        task'[u].at \in {"copied", "changed"} => task[u].at \in {"copied", "changed"}
  BY DEF Appenders
<1>5. LinesStay'
  BY <1>1, <1>2, <1>4 DEF LinesStay
<1> QED BY <1>3, <1>5

(* A reboot, and whoever asks whether the host is up (deploy.h:2006-2020).  *)
LEMMA RebootKeeps ==
  ASSUME HostInv, NEW t \in Tasks, Reboot(t) \/ IsOnline(t) PROVE HostInv'
<1>1. HostState /\ WaitInv
  BY DEF HostInv
<1>2. PICK w \in {"wait", "end"} :
        /\ Goto(t, w) /\ task[t].does = "reboot" /\ UNCHANGED <<remote, own, shared, readFrom, boots>>
        /\ disturbed \subseteq disturbed' /\ disturbed' \subseteq disturbed \union {t}
        /\ w = "wait" => Reboot(t)
        /\ w = "end" => IsOnline(t)
  BY DEF Reboot, IsOnline, At, files, machines, seen
<1>3. /\ w \in TaskPlaces
      /\ task' \in [Tasks -> [does : {"read", "append", "reboot"}, on : Machines, at : TaskPlaces]]
      /\ task'[t].at = w
      /\ \A u \in Tasks : /\ task'[u].does = task[u].does /\ Target(u)' = Target(u)
                          /\ Target(u) \in Machines
                          /\ u # t => task'[u].at = task[u].at
      /\ \A h \in Machines : Appenders(h)' = Appenders(h)
  <2>1. w \in TaskPlaces
    BY DEF TaskPlaces
  <2> QED BY <1>1, <1>2, <2>1, GoesOn
<1>4. /\ power' \in [Machines -> {"up", "stopping", "down"}] /\ before' \in [Tasks -> Nat]
      /\ \A h \in Machines : power[h] # "up" => power'[h] # "up"
      /\ \A u \in Tasks : u # t => before'[u] = before[u]
      /\ w = "end" => power' = power /\ before' = before
      /\ w = "wait" => before'[t] = boots[Target(t)] /\ (t \in disturbed' \/ power'[Target(t)] # "up")
  <2>1. CASE Reboot(t) /\ w = "wait"
    <3>1. before' = [before EXCEPT ![t] = boots[Target(t)]] /\ boots[Target(t)] \in Nat
      BY <1>1, <1>3, <2>1 DEF Reboot, HostState
    <3>2. \/ power' = [power EXCEPT ![Target(t)] = "stopping"]
          \/ power' = power /\ t \in disturbed'
      BY <2>1 DEF Reboot
    <3>3. before \in [Tasks -> Nat] /\ power \in [Machines -> {"up", "stopping", "down"}] /\ Target(t) \in Machines
      BY <1>1, <1>3 DEF HostState
    <3> QED BY <2>1, <3>1, <3>2, <3>3
  <2>2. CASE IsOnline(t) /\ w = "end"
    BY <1>1, <2>2 DEF IsOnline, machines, seen, HostState
  <2> QED BY <1>2, <2>1, <2>2
<1>5. HostState'
  BY <1>1, <1>2, <1>3, <1>4 DEF HostState
<1>6. OfHost' /\ LinesStay'
  BY <1>2, <1>3, FilesUntouched
<1>7. WaitInv'
  <2> SUFFICES ASSUME NEW u \in Tasks \ disturbed'
               PROVE  /\ At(u, "reboot", "wait")' =>
                           \/ boots[Target(u)] > before'[u]
                           \/ boots[Target(u)] = before'[u] /\ power'[Target(u)] # "up"
                      /\ At(u, "reboot", "end")' => boots[Target(u)] > before'[u]
    BY <1>2, <1>3 DEF WaitInv
  <2>1. CASE u # t
    <3>1. /\ At(u, "reboot", "wait")' => At(u, "reboot", "wait")
          /\ At(u, "reboot", "end")' => At(u, "reboot", "end")
      BY <1>3, <2>1 DEF At
    <3> QED BY <1>1, <1>2, <1>3, <1>4, <2>1, <3>1 DEF WaitInv
  <2>2. CASE u = t /\ w = "wait"
    BY <1>3, <1>4, <2>2 DEF At
  <2>3. CASE u = t /\ w = "end"
    <3>1. /\ At(t, "reboot", "wait") /\ t \notin disturbed /\ power[Target(t)] # "stopping"
          /\ power[Target(t)] # "down"
      BY <1>2, <2>3 DEF IsOnline, Answers
    <3>2. power[Target(t)] = "up"
      BY <1>1, <1>3, <3>1 DEF HostState
    <3> QED BY <1>1, <1>3, <1>4, <2>3, <3>1, <3>2 DEF WaitInv, At
  <2> QED BY <2>1, <2>2, <2>3
<1> QED BY <1>5, <1>6, <1>7 DEF HostInv

(* A host goes down and comes up again.                                     *)
LEMMA PowerKeeps ==
  ASSUME HostInv, NEW h \in Machines, GoDown(h) \/ ComeUp(h) PROVE HostInv'
<1>1. HostState /\ WaitInv /\ boots[h] \in Nat
  BY DEF HostInv, HostState
<1>2. UNCHANGED <<remote, own, shared, readFrom, before, task, disturbed>>
  BY DEF GoDown, ComeUp, files, seen
<1>3. /\ power' \in [Machines -> {"up", "stopping", "down"}] /\ boots' \in [Machines -> Nat]
      /\ \A i \in Machines : boots'[i] > boots[i] \/ (boots'[i] = boots[i] /\ (power[i] # "up" => power'[i] # "up"))
  <2>1. power \in [Machines -> {"up", "stopping", "down"}] /\ boots \in [Machines -> Nat]
    BY <1>1 DEF HostState
  <2>2. CASE GoDown(h)
    BY <2>1, <2>2 DEF GoDown
  <2>3. CASE ComeUp(h)
    BY <2>1, <2>3 DEF ComeUp
  <2> QED BY <2>2, <2>3
<1>4. \A u \in Tasks : Target(u)' = Target(u) /\ Target(u) \in Machines
  BY <1>1, <1>2 DEF Target, HostState
<1>5. \A i \in Machines : Appenders(i)' = Appenders(i)
  BY <1>2 DEF Appenders, Target
<1>6. HostState'
  BY <1>1, <1>2, <1>3 DEF HostState
<1>7. OfHost' /\ LinesStay'
  BY <1>2, <1>4, <1>5, FilesUntouched
<1>8. \A u \in Tasks, x \in TaskPlaces : At(u, "reboot", x)' <=> At(u, "reboot", x)
  BY <1>2 DEF At
<1>9. \A i \in Machines : boots[i] \in Nat /\ boots'[i] \in Nat
  BY <1>1, <1>3 DEF HostState
<1>10. \A u \in Tasks : before[u] \in Nat
  BY <1>1 DEF HostState
<1>11. WaitInv'
  <2> SUFFICES ASSUME NEW u \in Tasks \ disturbed
               PROVE  /\ At(u, "reboot", "wait") =>
                           \/ boots'[Target(u)] > before[u]
                           \/ boots'[Target(u)] = before[u] /\ power'[Target(u)] # "up"
                      /\ At(u, "reboot", "end") => boots'[Target(u)] > before[u]
    BY <1>2, <1>4, <1>8 DEF WaitInv, TaskPlaces
  <2>1. /\ At(u, "reboot", "wait") =>
             \/ boots[Target(u)] > before[u]
             \/ boots[Target(u)] = before[u] /\ power[Target(u)] # "up"
        /\ At(u, "reboot", "end") => boots[Target(u)] > before[u]
    BY <1>1 DEF WaitInv
  <2>2. boots[Target(u)] \in Nat /\ boots'[Target(u)] \in Nat /\ before[u] \in Nat
    BY <1>4, <1>9, <1>10
  <2>3. \/ boots'[Target(u)] > boots[Target(u)]
        \/ boots'[Target(u)] = boots[Target(u)] /\ (power[Target(u)] # "up" => power'[Target(u)] # "up")
    BY <1>3, <1>4
  <2> QED BY <2>1, <2>2, <2>3
<1> QED BY <1>6, <1>7, <1>11 DEF HostInv

(* A command that finds its host down ends its task.                        *)
LEMMA FailKeeps ==
  ASSUME HostInv, NEW t \in Tasks, TaskFails(t) PROVE HostInv'
<1>1. /\ Goto(t, "failed") /\ UNCHANGED <<remote, own, shared, readFrom, before, boots, power, disturbed>>
      /\ task[t].does # "reboot" /\ "failed" \in TaskPlaces
  BY DEF TaskFails, At, files, machines, seen, TaskPlaces
<1>2. HostState
  BY DEF HostInv
<1>3. /\ task' \in [Tasks -> [does : {"read", "append", "reboot"}, on : Machines, at : TaskPlaces]]
      /\ task'[t].at = "failed"
      /\ \A u \in Tasks : /\ task'[u].does = task[u].does /\ Target(u)' = Target(u)
                          /\ Target(u) \in Machines
                          /\ u # t => task'[u].at = task[u].at
      /\ \A h \in Machines : Appenders(h)' = Appenders(h)
  BY <1>1, <1>2, GoesOn
<1>4. HostState'
  BY <1>1, <1>2, <1>3 DEF HostState
<1>5. OfHost' /\ LinesStay'
  BY <1>1, <1>3, FilesUntouched
<1>6. WaitInv'
  BY <1>1, MachinesKept
<1> QED BY <1>4, <1>5, <1>6 DEF HostInv

(* All steps of the tasks and of the hosts keep the invariant.              *)
LEMMA HostSteps == HostInv /\ [RemoteHostNext]_remoteHostVars => HostInv'
<1> SUFFICES ASSUME HostInv, [RemoteHostNext]_remoteHostVars PROVE HostInv'
  OBVIOUS
<1>1. CASE RemoteHostNext
  BY <1>1, ReadKeeps, CopyKeeps, ChangeKeeps, SendKeeps, RebootKeeps, FailKeeps, PowerKeeps DEF RemoteHostNext
<1>2. CASE UNCHANGED remoteHostVars
  <2>1. UNCHANGED <<remote, power, boots, shared, own, task, readFrom, before, disturbed>>
    BY <1>2 DEF remoteHostVars
  <2>2. \A u \in Tasks : Target(u)' = Target(u) /\ Target(u) \in Machines
    BY <2>1 DEF Target, HostInv, HostState
  <2>3. \A h \in Machines : Appenders(h)' = Appenders(h)
    BY <2>1 DEF Appenders, Target
  <2>4. OfHost' /\ LinesStay'
    BY <2>1, <2>2, <2>3, FilesUntouched
  <2>5. HostState'
    BY <2>1 DEF HostInv, HostState
  <2>6. WaitInv'
    BY <2>1, <2>2 DEF HostInv, WaitInv, At
  <2> QED BY <2>4, <2>5, <2>6 DEF HostInv
<1> QED BY <1>1, <1>2

(* The invariant says what is checked of files and reboots.                 *)
LEMMA HostMeans == HostInv => RemoteHostTypeOK /\ FilesKept /\ RebootMeansRestart
<1> SUFFICES ASSUME HostInv PROVE RemoteHostTypeOK /\ FilesKept /\ RebootMeansRestart
  OBVIOUS
<1>1. RemoteHostTypeOK
  BY DEF HostInv, HostState, TaskPlaces, RemoteHostTypeOK
<1>2. FilesKept
  BY DEF HostInv, OfHost, LinesStay, FilesKept, At
<1>3. RebootMeansRestart
  BY DEF HostInv, WaitInv, RebootMeansRestart, At
<1> QED BY <1>1, <1>2, <1>3

-----------------------------------------------------------------------------
(* A step is one of one part, which the others do not see (MCProcesses).    *)
LEMMA DistantStep ==
  ASSUME [Next]_all
  PROVE  /\ [DeploymentNext]_deploymentVars /\ [RemoteUserNext]_remoteUserVars
         /\ [RemoteHostNext]_remoteHostVars
<1>1. CASE UNCHANGED all
  BY <1>1 DEF all, local, distant
<1>2. CASE (Lock /\ FileLockNext) \/ (Database /\ SchemaNext) \/ (Storage /\ StorageNext)
           \/ (Commands /\ CommandNext) \/ (Monitor /\ FileMonitorNext)
  BY <1>2 DEF Lock, Database, Storage, Commands, Monitor, distant
<1>3. CASE (Http /\ DownloadNext) \/ (Git /\ SourceNext) \/ (Service /\ DeploymentNext)
  BY <1>3 DEF Http, Git, Service
<1>4. CASE (User /\ RemoteUserNext) \/ (Remote /\ RemoteHostNext)
  BY <1>4 DEF User, Remote
<1> QED BY <1>1, <1>2, <1>3, <1>4 DEF Next

(* A service that is deployed runs what was deployed, and its data are in a *)
(* backup before they are replaced or deleted, but in the four cases that   *)
(* NothingLost names; one that has moved does not run where it was, unless  *)
(* it was woken there; the last program that ran is kept, unless the ls     *)
(* that looks for it fails.  A command runs as the account it is meant for  *)
(* or is refused; no file gets what is of another host, no line is lost,    *)
(* and a reboot is over only when its host has restarted, unless tasks      *)
(* disturb each other (deploy.h:1020-1172, 1985-2020, 2092-2099,            *)
(* 2218-2480).                                                              *)
THEOREM DeploymentsAlwaysRight == Spec => []DeploymentsRight
<1>1. Init => DeploymentInv /\ UserInv /\ HostInv
  BY DeploymentStarts, UserStarts, HostStarts DEF Init
<1>2. DeploymentInv /\ UserInv /\ HostInv /\ [Next]_all => (DeploymentInv /\ UserInv /\ HostInv)'
  BY DeploymentAll, UserSteps, HostSteps, DistantStep
<1>3. DeploymentInv /\ UserInv /\ HostInv => DeploymentsRight
  BY DeploymentMeans, UserMeans, HostMeans DEF DeploymentsRight
<1> QED BY <1>1, <1>2, <1>3, PTL DEF Spec
=============================================================================
