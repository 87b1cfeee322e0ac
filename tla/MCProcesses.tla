---------------------------- MODULE MCProcesses ----------------------------
(***************************************************************************)
(* The parts of the library that meet other programs, the disk or the       *)
(* network, all of which may fail or end in the middle: the file lock, the  *)
(* schema of a database, the content storage, chains of commands, the file  *)
(* monitor, downloads, the fetching of sources, and deployments on remote   *)
(* hosts with the users and files there.  A behaviour is one of one part,   *)
(* chosen at the start; the others stay as they are.                        *)
(***************************************************************************)
EXTENDS FileLock, SchemaManager, ContentStorage, Command, FileMonitor, Download, SourceDownload,
        Deployment, RemoteHost

CONSTANTS Parts,                (* the parts checked                         *)
          a, b, c               (* three callers or programs                 *)

VARIABLE part

(* Two threads of one process with another process, and three processes.    *)
MCDeployments ==
  {[x \in {a, b, c} |-> IF x = c THEN "second" ELSE "first"],
   [x \in {a, b, c} |-> IF x = a THEN "first" ELSE IF x = b THEN "second" ELSE "third"]}
MCLockCalls == [x \in {a, b, c} |-> 1]

MCDiffsOf == [x \in {a, b, c} |-> IF x = a THEN 0 ELSE IF x = b THEN 1 ELSE 2]
MCSchemaCalls == [x \in {a, b, c} |-> IF x = a THEN 2 ELSE 1]

MCDownloads == [x \in {a, b} |-> IF x = a THEN 2 ELSE 1]

(* The other parts rest in one of their initial states.                     *)
LockAtRest == processOf = CHOOSE d \in Deployments : TRUE
OrderAtRest == order = [text |-> 0, captured |-> FALSE, detached |-> FALSE]
DeploymentAtRest == config = [db |-> FALSE, once |-> FALSE, similar |-> {}]
UserAtRest == account.name = Root /\ permits = [key |-> Accounts, sudo |-> "free", given |-> "none"]
HostsAtRest == task = [t \in Tasks |-> [does |-> "read", on |-> a, at |-> "begin"]]
SourceAtRest == source.kind = "files" /\ source.urls = 0

Init ==
  /\ part \in Parts
  /\ FileLockInit /\ (part # "lock" => LockAtRest /\ lockFile)
  /\ SchemaInit /\ (part # "schema" => ifNotExists)
  /\ StorageInit /\ (part # "storage" => layout = "directory")
  /\ CommandInit /\ (part # "command" => OrderAtRest)
  /\ FileMonitorInit
  /\ DownloadInit
  /\ SourceInit /\ (part # "source" => SourceAtRest)
  /\ DeploymentInit /\ (part # "deployment" => DeploymentAtRest)
  /\ RemoteUserInit /\ (part # "user" => UserAtRest)
  /\ RemoteHostInit /\ (part # "host" => HostsAtRest)

local == <<lockVars, schemaVars, storageVars, commandVars, monitorVars>>
distant == <<downloadVars, sourceVars, deploymentVars, remoteUserVars, remoteHostVars>>

Lock == part = "lock" /\ UNCHANGED <<part, distant, schemaVars, storageVars, commandVars, monitorVars>>
Database == part = "schema" /\ UNCHANGED <<part, distant, lockVars, storageVars, commandVars, monitorVars>>
Storage == part = "storage" /\ UNCHANGED <<part, distant, lockVars, schemaVars, commandVars, monitorVars>>
Commands == part = "command" /\ UNCHANGED <<part, distant, lockVars, schemaVars, storageVars, monitorVars>>
Monitor == part = "monitor" /\ UNCHANGED <<part, distant, lockVars, schemaVars, storageVars, commandVars>>
Http == part = "download"
        /\ UNCHANGED <<part, local, sourceVars, deploymentVars, remoteUserVars, remoteHostVars>>
Git == part = "source"
       /\ UNCHANGED <<part, local, downloadVars, deploymentVars, remoteUserVars, remoteHostVars>>
Service == part = "deployment"
           /\ UNCHANGED <<part, local, downloadVars, sourceVars, remoteUserVars, remoteHostVars>>
User == part = "user"
        /\ UNCHANGED <<part, local, downloadVars, sourceVars, deploymentVars, remoteHostVars>>
Remote == part = "host"
          /\ UNCHANGED <<part, local, downloadVars, sourceVars, deploymentVars, remoteUserVars>>

Next ==
  \/ Lock /\ FileLockNext
  \/ Database /\ SchemaNext
  \/ Storage /\ StorageNext
  \/ Commands /\ CommandNext
  \/ Monitor /\ FileMonitorNext
  \/ Http /\ DownloadNext
  \/ Git /\ SourceNext
  \/ Service /\ DeploymentNext
  \/ User /\ RemoteUserNext
  \/ Remote /\ RemoteHostNext

all == <<part, local, distant>>

(* Threads inside a call of the lock go on, and so do the thread that runs  *)
(* the loop of a command and the children that can read, write or end.      *)
Fairness ==
  /\ \A x \in Callers : WF_all(Lock /\ FileLockStep(x))
  /\ WF_all(Commands /\ LoopStep)
  /\ \A x \in Chain : WF_all(Commands /\ ChildStep(x))

Spec == Init /\ [][Next]_all /\ Fairness

-----------------------------------------------------------------------------
(* What is checked of each part, but for LocksRight of FileLock: its types  *)
(* and its properties, which its module states.                             *)

(* A schema agrees with its version, which is the program's or later when   *)
(* its call returns (schema_manager.h); what was added to a storage is      *)
(* there, whole (storage.h).                                                *)
StoredRight ==
  /\ part = "schema" => SchemaTypeOK /\ SchemaMatches /\ CallsUpdate
  /\ part = "storage" => StorageTypeOK /\ KeptIsThere

(* A chain that returns has run and its output is captured; its handles are *)
(* closed once (command.cpp, uv_command.cpp).                               *)
CommandsRight == part = "command" => CommandTypeOK /\ ResultsRight /\ HandlesRight

(* What was asked for is watched, and nothing else (file_monitor.h).        *)
MonitorRight == part = "monitor" => FileMonitorTypeOK /\ FilesWatched

(* A target is whole, and a directory of sources too (http.cpp, source.cpp).*)
FetchedRight ==
  /\ part = "download" => DownloadTypeOK /\ TargetWhole
  /\ part = "source" => SourceTypeOK /\ SourceRight

(* A service that is deployed, moved or discarded runs and keeps its data;  *)
(* commands run as those they are meant for; files of hosts are not mixed   *)
(* and a reboot is one (deploy.h).                                          *)
DeploymentsRight ==
  /\ part = "deployment" => /\ DeploymentTypeOK
                            /\ NothingLost /\ MovedWhole /\ DeployedRuns /\ GoodProgramKept
  /\ part = "user" => RemoteUserTypeOK /\ RunsAsMeant
  /\ part = "host" => RemoteHostTypeOK /\ FilesKept /\ RebootMeansRestart

(* A call of the lock ends, whoever holds it, and so does the execution of  *)
(* a chain whose children end when their input does, but for a child that   *)
(* writes to a reader that is gone.  As calls are bounded, all are over in  *)
(* the end (lock.h:95-171, uv_command.cpp:114-244).                         *)
CallsEnd == <>[](/\ \A x \in Callers : at[x] = "out"
                 /\ phase \in Ended \/ Stuck)
=============================================================================
