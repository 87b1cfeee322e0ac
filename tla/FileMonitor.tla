---------------------------- MODULE FileMonitor ----------------------------
(***************************************************************************)
(* FileMonitor (file_monitor.h): clients add files and directories, each    *)
(* with its callback, while another thread runs the loop and one may stop   *)
(* it.  A directory has one watcher and a list of the files wanted in it;   *)
(* an empty list stands for all of them.                                    *)
(***************************************************************************)
EXTENDS Integers

CONSTANTS Clients,        (* threads that add                                *)
          Dirs, Names,    (* directories, and files each of them has         *)
          Adds            (* bound: calls of addFile                         *)

ASSUME FileMonitorAssumption == Adds \in Nat

VARIABLES entries,        (* entries[d]: [there, files, by: whose callback]   *)
          watcher,        (* watcher[d]: that of the record of d             *)
          adding,         (* calls of addFile that have not found it stopped *)
          monitor,        (* "running", "stopping" or "stopped"              *)
          told,           (* the last callback: [by, dir, file]              *)
          wanted,         (* ghost: calls of addFile that have returned      *)
          addsLeft,
          monitorMishaps  (* ghost: watchers that failed, late calls         *)

monitorVars == <<entries, watcher, adding, monitor, told, wanted, addsLeft, monitorMishaps>>

All == "all"
Requests == [by : Clients, dir : Dirs, file : Names \union {All}]
NoOne == [by |-> "nobody", dir |-> "none", file |-> "none"]

FileMonitorInit ==
  /\ entries = [d \in Dirs |-> [there |-> FALSE, files |-> {}, by |-> "nobody"]]
  /\ watcher = [d \in Dirs |-> "none"]
  /\ adding = {}
  /\ monitor = "running"
  /\ told = NoOne
  /\ wanted = {}
  /\ addsLeft = Adds
  /\ monitorMishaps = {}

(* addFile reads stopped without a lock; a path that does not exist is not  *)
(* added.                                                                   *)
AddFile(r) ==
  /\ addsLeft > 0 /\ monitor = "running"
  /\ \A q \in adding : q.by # r.by
  /\ adding' = adding \union {r}
  /\ addsLeft' = addsLeft - 1
  /\ UNCHANGED <<entries, watcher, monitor, told, wanted, monitorMishaps>>

(* The rest of addFile, under the lock: only the first call for a directory *)
(* makes a record, whose watcher may not start.                             *)
FilesOf(r) == IF r.file = All THEN {} ELSE {r.file}

Insert(r) ==
  /\ r \in adding
  /\ adding' = adding \ {r}
  /\ wanted' = wanted \union {r}
  /\ IF entries[r.dir].there
     THEN /\ entries' = [entries EXCEPT ![r.dir].files = @ \union FilesOf(r)]
          /\ UNCHANGED <<watcher, monitorMishaps>>
     ELSE /\ entries' = [entries EXCEPT ![r.dir] =
               [there |-> TRUE, files |-> FilesOf(r), by |-> r.by]]
          /\ \E w \in {"on", "dead"} :
               /\ watcher' = [watcher EXCEPT ![r.dir] = w]
               /\ monitorMishaps' = monitorMishaps
                    \union (IF w = "dead" THEN {r.dir} ELSE {})
                    \union (IF monitor = "running" THEN {} ELSE {"late"})
  /\ UNCHANGED <<monitor, told, addsLeft>>

(* A variant that is wrong: an empty list is not taken for all the files.   *)
HasListed(d, f) == entries[d].there /\ f \in entries[d].files

HasFile(d, f) == entries[d].there /\ (entries[d].files = {} \/ f \in entries[d].files)

(* record::cb, when something happens to a file.                            *)
FileEvent(d, f) ==
  /\ watcher[d] = "on" /\ monitor # "stopped"
  /\ HasFile(d, f)
  /\ told' = [by |-> entries[d].by, dir |-> d, file |-> f]
  /\ UNCHANGED <<entries, watcher, adding, monitor, wanted, addsLeft, monitorMishaps>>

(* record::cb with an error: the watcher is stopped for good.               *)
WatcherFails(d) ==
  /\ watcher[d] = "on" /\ monitor # "stopped"
  /\ watcher' = [watcher EXCEPT ![d] = "stopped"]
  /\ monitorMishaps' = monitorMishaps \union {d}
  /\ UNCHANGED <<entries, adding, monitor, told, wanted, addsLeft>>

(* stop raises its flag, goes over the records without the lock, and stops  *)
(* the loop.  A record inserted meanwhile may be passed over.  (That it may *)
(* also break the iteration is left out.)                                   *)
Stop ==
  /\ monitor = "running" /\ monitor' = "stopping"
  /\ UNCHANGED <<entries, watcher, adding, told, wanted, addsLeft, monitorMishaps>>

StopWatcher(d) ==
  /\ monitor = "stopping" /\ watcher[d] = "on"
  /\ watcher' = [watcher EXCEPT ![d] = "stopped"]
  /\ UNCHANGED <<entries, adding, monitor, told, wanted, addsLeft, monitorMishaps>>

StopLoop ==
  /\ monitor = "stopping"
  /\ "late" \in monitorMishaps \/ \A d \in Dirs : watcher[d] # "on"
  /\ monitor' = "stopped"
  /\ UNCHANGED <<entries, watcher, adding, told, wanted, addsLeft, monitorMishaps>>

FileMonitorNext ==
  \/ \E r \in Requests : AddFile(r) \/ Insert(r)
  \/ \E d \in Dirs : WatcherFails(d) \/ StopWatcher(d) \/ \E f \in Names : FileEvent(d, f)
  \/ Stop \/ StopLoop

-----------------------------------------------------------------------------
FileMonitorTypeOK ==
  /\ entries \in [Dirs -> [there : BOOLEAN, files : SUBSET Names, by : Clients \union {"nobody"}]]
  /\ watcher \in [Dirs -> {"none", "on", "dead", "stopped"}]
  /\ adding \subseteq Requests /\ told \in Requests \union {NoOne}

For(d) == {r \in wanted : r.dir = d}
Covers(r, f) == r.file \in {All, f}
Mixed(d) == \E q, r \in For(d) : q.file = All /\ r.file # All

(* Nobody is told of a file he or another client did not ask for.  Every    *)
(* file asked for is watched until stop, unless the watcher failed, for then *)
(* it is not made again, or both the directory and files of it were asked   *)
(* for, in either order, for then the files alone are watched.  His own     *)
(* callback a client can count on when nobody else asked for the directory. *)
(* After stop no watcher is left but one of a call that was late            *)
(* (file_monitor.h:116-184).                                                *)
FilesWatched ==
  /\ told # NoOne => \E r \in For(told.dir) : Covers(r, told.file)
  /\ monitor = "running" =>
       \A r \in wanted, f \in Names : Covers(r, f) =>
         \/ /\ watcher[r.dir] = "on" /\ HasFile(r.dir, f)
            /\ entries[r.dir].by = r.by \/ \E q \in For(r.dir) : q.by # r.by
         \/ r.dir \in monitorMishaps
         \/ r.file = All /\ Mixed(r.dir)
  /\ monitor = "stopped" /\ "late" \notin monitorMishaps =>
       \A d \in Dirs : watcher[d] # "on"
=============================================================================
