----------------------------- MODULE RemoteHost -----------------------------
(***************************************************************************)
(* Hosts reached through ssh (deploy.h).  First, whose command is run there *)
(* (struct user): the account the program logs in with is probed for what   *)
(* it may do, then sudo() and login() make objects for others out of it,    *)
(* and each object puts sudo and a password before its commands as its      *)
(* flags say.                                                               *)
(*                                                                         *)
(* Second, files of hosts read and appended to through local copies, and    *)
(* restarts of hosts, by tasks that run at the same time, one thread each   *)
(* (scoped_task, read_file, append_file, exists, reboot, is_online).  A     *)
(* host answers while it shuts down, and a connection may fail at any       *)
(* command.  A file is the host it belongs to and the lines appended to it; *)
(* a task appends one line, itself.                                         *)
(***************************************************************************)
EXTENDS Integers, Sequences, FiniteSets

CONSTANTS Accounts,       (* names of accounts, root among them              *)
          Root,
          MaxChain        (* bound: how many objects are made one of another *)

(* No account has the name of one of the marks of this module.              *)
ASSUME RemoteUserAssumption ==
  /\ Root \in Accounts /\ MaxChain \in Nat
  /\ Accounts \intersect {"no_one", "refused", "missing", "sudo"} = {}

VARIABLES permits,        (* what the host allows: [key: accounts our key opens,
                             sudo: "none", "free" or "password",
                             given: the password we were given]              *)
          account,        (* the object: a user                              *)
          main,           (* main_user: the object it was logged in from     *)
          meant,          (* ghost: whose commands the caller means          *)
          chain,          (* ghost: the calls that made the object           *)
          probing,        (* the step of init, and of the calls              *)
          ran             (* whom the last command ran as                    *)

remoteUserVars == <<permits, account, main, meant, chain, probing, ran>>

Nobody == "no_one"
Refused == "refused"      (* ssh or sudo do not let us                       *)
Missing == "missing"      (* thrown: a password is required                  *)

Fresh(n) == [name |-> n, ssh |-> FALSE, canSudo |-> FALSE, free |-> FALSE,
             force |-> FALSE, sudo |-> FALSE, nested |-> FALSE]

RemoteUserInit ==
  \E n \in Accounts :
    /\ permits \in [key : {{n}, Accounts}, sudo : {"none", "free", "password"},
                    given : {"none", "right", "wrong"}]
    /\ account = Fresh(n)
    /\ main = Nobody
    /\ meant = n
    /\ chain = <<n>>
    /\ probing = "ssh"
    /\ ran = Nobody

-----------------------------------------------------------------------------
(* The command an object makes                                              *)

IsRoot(u) == u.name = Root

(* sudo_mode_with_password.                                                 *)
NeedsPasswordOnce(u) == ~u.free /\ (IsRoot(u) \/ (main # Nobody /\ u.name # main))
NeedsPassword(u) ==
  \/ u.force
  \/ ~u.free /\ (IsRoot(u) \/ (main # Nobody /\ u.name # main))

LoginName(u) == IF main # Nobody THEN main ELSE u.name

(* sudo is put before the command of an object that is not root; without -S *)
(* and a password it works only where none is asked for.  All accounts are  *)
(* taken to have the same rights.                                           *)
SudoAllows(u) ==
  \/ LoginName(u) = Root
  \/ permits.sudo = "free"
  \/ permits.sudo = "password" /\ NeedsPassword(u) /\ permits.given = "right"

RunsAs(u) ==
  IF u.sudo /\ NeedsPassword(u) /\ (permits.given = "none" \/ u.nested) THEN Missing
  ELSE IF LoginName(u) \notin permits.key THEN Refused
  ELSE IF ~u.sudo \/ IsRoot(u) THEN LoginName(u)
  ELSE IF ~SudoAllows(u) THEN Refused
  ELSE IF main # Nobody THEN u.name ELSE Root

-----------------------------------------------------------------------------
(* init: ssh, then sudo without and with the password.                      *)

ProbeSsh ==
  /\ probing = "ssh"
  /\ account' = [account EXCEPT !.ssh = account.name \in permits.key]
  /\ probing' = IF account'.ssh THEN "sudo" ELSE "ready"
  /\ UNCHANGED <<permits, main, meant, chain, ran>>

FreeSudo == account.name = Root \/ permits.sudo = "free"
ProbeSudo ==
  /\ probing = "sudo"
  /\ account' = [account EXCEPT !.canSudo = FreeSudo, !.free = FreeSudo]
  /\ probing' = IF ~FreeSudo /\ permits.given # "none" THEN "password" ELSE "ready"
  /\ UNCHANGED <<permits, main, meant, chain, ran>>

ProbePassword ==
  /\ probing = "password"
  /\ LET works == permits.sudo = "password" /\ permits.given = "right"
     IN  account' = [account EXCEPT !.canSudo = works, !.force = works]
  /\ probing' = "ready"
  /\ UNCHANGED <<permits, main, meant, chain, ran>>

-----------------------------------------------------------------------------
(* sudo() and login(): another object, or an exception.                     *)

Sudo ==
  /\ probing = "ready" /\ Len(chain) <= MaxChain /\ account.canSudo
  /\ account' = [account EXCEPT !.sudo = TRUE]
  /\ meant' = Root
  /\ chain' = Append(chain, "sudo")
  /\ ran' = Nobody
  /\ UNCHANGED <<permits, main, probing>>

(* The object logged in from becomes the main one, and its password the one *)
(* that is used: an object that was itself logged in has none.              *)
LoginWithSudo(n) ==
  /\ probing = "ready" /\ Len(chain) <= MaxChain /\ account.canSudo
  /\ account' = [account EXCEPT !.name = n, !.sudo = TRUE,
                                !.nested = main # Nobody]
  /\ main' = account.name
  /\ meant' = n
  /\ chain' = Append(chain, n)
  /\ ran' = Nobody
  /\ UNCHANGED <<permits, probing>>

CannotSudo ==
  /\ probing = "ready" /\ ~account.canSudo /\ ran # Refused
  /\ ran' = Refused
  /\ UNCHANGED <<permits, account, main, meant, chain, probing>>

RunCommand ==
  /\ probing = "ready" /\ ran = Nobody
  /\ ran' = RunsAs(account)
  /\ UNCHANGED <<permits, account, main, meant, chain, probing>>

RemoteUserNext ==
  \/ ProbeSsh \/ ProbeSudo \/ ProbePassword
  \/ Sudo \/ (\E n \in Accounts : LoginWithSudo(n)) \/ CannotSudo \/ RunCommand

-----------------------------------------------------------------------------
RemoteUserTypeOK ==
  /\ probing \in {"ssh", "sudo", "password", "ready"}
  /\ account.name \in Accounts /\ main \in Accounts \union {Nobody}
  /\ ran \in Accounts \union {Nobody, Refused, Missing}

(* A command that runs at all runs as the account its object is for, with   *)
(* two exceptions: sudo() of an object that was logged in is not root but   *)
(* that account, and login("root") is not root but the account it was made  *)
(* from, as no sudo is put before root's commands (deploy.h:1130-1141).  No *)
(* command of an object made by sudo() or login() is refused for a password *)
(* that was given and is right, or asks for one, unless it was logged in    *)
(* twice.                                                                   *)
RunsAsMeant ==
  /\ ran \in Accounts =>
       \/ ran = meant
       \/ chain[Len(chain)] = "sudo" /\ main # Nobody /\ ran \in {account.name, main}
       \/ chain[Len(chain)] = Root /\ ran = main
  /\ ran = Missing => account.nested
  /\ Len(chain) = 2 => ran # Refused

-----------------------------------------------------------------------------
CONSTANTS Machines, Tasks,
          MaxGlitches     (* bound: connections that fail                    *)

ASSUME RemoteHostAssumption == MaxGlitches \in Nat /\ "nowhere" \notin Machines

VARIABLES remote,         (* the file on each host                           *)
          power,          (* "up", "stopping" or "down"                      *)
          boots,          (* how often a host has started                    *)
          shared,         (* the local copy of files that are read: 1.txt    *)
          own,            (* the local copies of files that are written, one
                             for each host                                   *)
          task,           (* [does, on, at] of each task                     *)
          readFrom,       (* whose file a task has read                      *)
          before,         (* the boots it found before its reboot            *)
          glitches,
          disturbed       (* ghost: tasks another one interfered with, or
                             whose connection failed                         *)

remoteHostVars == <<remote, power, boots, shared, own, task, readFrom, before, glitches, disturbed>>
files == <<remote, shared, own>>
machines == <<power, boots>>
seen == <<readFrom, before>>

EmptyFile(h) == [host |-> h, lines |-> {}]
Nowhere == "nowhere"

RemoteHostInit ==
  /\ remote = [h \in Machines |-> EmptyFile(h)]
  /\ power = [h \in Machines |-> "up"] /\ boots = [h \in Machines |-> 0]
  /\ shared = EmptyFile(Nowhere) /\ own = [h \in Machines |-> EmptyFile(Nowhere)]
  /\ task \in [Tasks -> [does : {"read", "append", "reboot"}, on : Machines, at : {"begin"}]]
  /\ readFrom = [t \in Tasks |-> Nowhere] /\ before = [t \in Tasks |-> 0]
  /\ glitches = 0 /\ disturbed = {}

Target(t) == task[t].on
At(t, what, where) == task[t].does = what /\ task[t].at = where
Goto(t, where) == task' = [task EXCEPT ![t].at = where]
Answers(h) == power[h] # "down"

(* Tasks in the middle of the same kind of work, whose local copy is taken  *)
(* from them: all that read, and all that append to the same host.          *)
Middle == {"copied", "changed", "there"}
Overlapping(t) ==
  {u \in Tasks \ {t} : /\ task[u].does = task[t].does /\ task[u].at \in Middle
                       /\ task[t].does = "append" => Target(u) = Target(t)}
Disturb(t) == disturbed' = disturbed \union Overlapping(t)
                                     \union (IF Overlapping(t) # {} THEN {t} ELSE {})

-----------------------------------------------------------------------------
(* read_file: rsync to 1.txt, whatever the host and the file, and read it.  *)

Fetch(t) ==
  /\ At(t, "read", "begin") /\ Answers(Target(t))
  /\ shared' = remote[Target(t)]
  /\ disturbed' = disturbed \union Overlapping(t) /\ Goto(t, "copied")
  /\ UNCHANGED <<remote, own, machines, seen, glitches>>
ReadCopy(t) ==
  /\ At(t, "read", "copied")
  /\ readFrom' = [readFrom EXCEPT ![t] = shared.host]
  /\ Goto(t, "end")
  /\ UNCHANGED <<files, machines, before, glitches, disturbed>>

(* append_file: the file is copied, changed and sent back; there is a       *)
(* directory for each host.  A file that exists() cannot see is replaced.   *)
Exists(t) ==
  /\ At(t, "append", "begin")
  /\ \/ Answers(Target(t)) /\ Goto(t, "there") /\ UNCHANGED glitches /\ Disturb(t)
     \/ /\ glitches < MaxGlitches \/ ~Answers(Target(t))
        /\ glitches' = IF Answers(Target(t)) THEN glitches + 1 ELSE glitches
        /\ Goto(t, "not_there")
        /\ disturbed' = disturbed \union {u \in Tasks : Target(u) = Target(t) /\ task[u].does = "append"}
  /\ UNCHANGED <<files, machines, seen>>

CopyAny(t) == [n \in Machines |-> remote[Target(t)]]
CopyHere(t) == [own EXCEPT ![Target(t)] = remote[Target(t)]]
CopyBack(t) ==
  /\ At(t, "append", "there") /\ Answers(Target(t))
  /\ own' = CopyHere(t)
  /\ Disturb(t) /\ Goto(t, "copied")
  /\ UNCHANGED <<remote, shared, machines, seen, glitches>>
Change(t) ==
  /\ \/ At(t, "append", "copied") /\ own' = [own EXCEPT ![Target(t)].lines = @ \union {t}]
     \/ At(t, "append", "not_there")
        /\ own' = [own EXCEPT ![Target(t)] = [host |-> Target(t), lines |-> {t}]]
  /\ Disturb(t) /\ Goto(t, "changed")
  /\ UNCHANGED <<remote, shared, machines, seen, glitches>>
SendBack(t) ==
  /\ At(t, "append", "changed") /\ Answers(Target(t))
  /\ remote' = [remote EXCEPT ![Target(t)] = own[Target(t)]]
  /\ Disturb(t) /\ Goto(t, "end")
  /\ UNCHANGED <<shared, own, machines, seen, glitches>>

-----------------------------------------------------------------------------
(* reboot: the command, three seconds, then questions until one is answered.*)
(* An exception of the command is taken for the host going down.            *)

Reboot(t) ==
  /\ At(t, "reboot", "begin")
  /\ \/ /\ power[Target(t)] = "up"
        /\ power' = [power EXCEPT ![Target(t)] = "stopping"]
        /\ UNCHANGED <<glitches, disturbed>>
     \/ /\ glitches < MaxGlitches \/ power[Target(t)] # "up"
        /\ glitches' = IF power[Target(t)] = "up" THEN glitches + 1 ELSE glitches
        /\ disturbed' = disturbed \union {t}
        /\ UNCHANGED power
  /\ before' = [before EXCEPT ![t] = boots[Target(t)]]
  /\ Goto(t, "wait")
  /\ UNCHANGED <<files, boots, readFrom>>

IsOnline(t) ==
  /\ At(t, "reboot", "wait") /\ Answers(Target(t))
  /\ disturbed' = disturbed \union (IF power[Target(t)] = "stopping" THEN {t} ELSE {})
  /\ Goto(t, "end")
  /\ UNCHANGED <<files, machines, seen, glitches>>

GoDown(h) ==
  /\ power[h] = "stopping"
  /\ power' = [power EXCEPT ![h] = "down"]
  /\ UNCHANGED <<files, boots, task, seen, glitches, disturbed>>
ComeUp(h) ==
  /\ power[h] = "down"
  /\ power' = [power EXCEPT ![h] = "up"] /\ boots' = [boots EXCEPT ![h] = @ + 1]
  /\ UNCHANGED <<files, task, seen, glitches, disturbed>>

(* Any other command that finds the host down throws, and ends its task.    *)
TaskFails(t) ==
  /\ At(t, "read", "begin") \/ At(t, "append", "there") \/ At(t, "append", "changed")
  /\ ~Answers(Target(t))
  /\ Goto(t, "failed")
  /\ UNCHANGED <<files, machines, seen, glitches, disturbed>>

RemoteHostNext ==
  \/ \E t \in Tasks : \/ Fetch(t) \/ ReadCopy(t)
                      \/ Exists(t) \/ CopyBack(t) \/ Change(t) \/ SendBack(t)
                      \/ Reboot(t) \/ IsOnline(t) \/ TaskFails(t)
  \/ \E h \in Machines : GoDown(h) \/ ComeUp(h)

-----------------------------------------------------------------------------
RemoteHostTypeOK ==
  /\ \A t \in Tasks : task[t].at \in {"begin", "wait", "not_there", "end", "failed"} \union Middle
  /\ disturbed \subseteq Tasks

(* The tasks of different hosts do not get into each other's files when     *)
(* they append, and an appended line stays, unless two append to the same   *)
(* host at a time or the question whether the file exists is not answered,  *)
(* which has it replaced.  A read gives the file of its own host, unless    *)
(* another one comes between: all reads share one local file (deploy.h:     *)
(* 1985-2005).                                                              *)
FilesKept ==
  /\ \A h \in Machines : remote[h].host = h
  /\ \A t \in Tasks \ disturbed : task[t].at = "end" =>
       /\ task[t].does = "append" => t \in remote[Target(t)].lines
       /\ task[t].does = "read" => readFrom[t] = Target(t)

(* When reboot returns the host has restarted, unless the command failed or *)
(* the host still answered after three seconds (deploy.h:2006-2016).        *)
RebootMeansRestart ==
  \A t \in Tasks \ disturbed : task[t].does = "reboot" /\ task[t].at = "end" =>
    boots[Target(t)] > before[t]
=============================================================================
