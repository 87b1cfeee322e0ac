---------------------------- MODULE TableUpdates ----------------------------
(***************************************************************************)
(* pgmgr::create_tables (templates2/postgres.h): programs of several        *)
(* releases bring one PostgreSQL database to their release.  A release is   *)
(* the number of updates it knows; the latest form of its tables is that    *)
(* after its updates.  Each update is a transaction with its version.       *)
(***************************************************************************)
EXTENDS Integers, Sequences

CONSTANTS Histories,      (* the sequences of updates a project may have     *)
          Updaters,       (* the programs                                    *)
          ReleaseOf,      (* ReleaseOf[p]: the release p is of               *)
          UpdateCalls     (* UpdateCalls[p], bound: its calls                *)

ASSUME TableUpdatesAssumption ==
  /\ ReleaseOf \in [Updaters -> Nat]
  /\ UpdateCalls \in [Updaters -> Nat]
  /\ \A h \in Histories : Len(h) \in Nat /\ \A p \in Updaters : ReleaseOf[p] <= Len(h)

VARIABLES history,        (* the updates                                     *)
          served,         (* what is committed: tables, columns and version  *)
          updating,       (* updating[p]: what p is at                       *)
          ver,            (* ver[p]: the version p goes by                   *)
          brought,        (* brought[p]: how its last call ended             *)
          updateCallsLeft,
          updateMishaps   (* what the calls do not guard against             *)

updateVars == <<history, served, updating, ver, brought, updateCallsLeft, updateMishaps>>

NoTables == [tables |-> {}, columns |-> {}, version |-> -1]

-----------------------------------------------------------------------------
(* What updates do: [does, table, column].                                  *)

Made(form, tables, columns) ==
  [form EXCEPT !.tables = @ \union tables,
               !.columns = @ \union {c \in columns : c[1] \in tables \ form.tables}]

Applied(form, u) ==
  CASE u.does = "new_tables" -> Made(form, {u.table}, {<<u.table, "first">>})
    [] u.does = "new_fields" -> [form EXCEPT !.columns = @ \union {<<u.table, u.column>>}]
    [] u.does = "delete_fields" -> [form EXCEPT !.columns = @ \ {<<u.table, u.column>>}]

(* The tables of a release, as its program declares them.                   *)
Forms(h) ==
  LET form[n \in 0..Len(h)] ==
        IF n = 0 THEN [tables |-> {"base"}, columns |-> {<<"base", "first">>}]
        ELSE Applied(form[n - 1], h[n])
  IN form
Latest(p) == Forms(history)[ReleaseOf[p]]

(* An alter table fails when the column is there, or gone, already.         *)
Alters(form, u) ==
  CASE u.does = "new_fields" -> <<u.table, u.column>> \notin form.columns
    [] u.does = "delete_fields" -> <<u.table, u.column>> \in form.columns
    [] OTHER -> TRUE

(* Each update was written for the form before it, where it applies.        *)
ASSUME UpdatesAssumption ==
  \A h \in Histories : \A n \in 1..Len(h) :
    /\ h[n].does \in {"new_tables", "new_fields", "delete_fields"}
    /\ h[n].does # "new_tables" =>
         h[n].table \in Forms(h)[n - 1].tables /\ Alters(Forms(h)[n - 1], h[n])

UpdatesInit ==
  /\ history \in Histories
  /\ served = NoTables
  /\ updating = [p \in Updaters |-> "nothing"]
  /\ ver = [p \in Updaters |-> -1]
  /\ brought = [p \in Updaters |-> "never"]
  /\ updateCallsLeft = UpdateCalls
  /\ updateMishaps = {}

-----------------------------------------------------------------------------
(* create_tables                                                            *)

CallUpdate(p) ==
  /\ updating[p] = "nothing" /\ updateCallsLeft[p] > 0
  /\ updating' = [updating EXCEPT ![p] = "version"]
  /\ brought' = [brought EXCEPT ![p] = "never"]
  /\ updateCallsLeft' = [updateCallsLeft EXCEPT ![p] = @ - 1]
  /\ updateMishaps' = updateMishaps
       \union {"together" : q \in {q \in Updaters \ {p} : updating[q] # "nothing"}}
  /\ UNCHANGED <<history, served, ver>>

UpdateReturns(p) ==
  /\ updating' = [updating EXCEPT ![p] = "nothing"]
  /\ brought' = [brought EXCEPT ![p] = "returned"]

(* The first program: nobody else gets past the service table it creates    *)
(* before it commits.                                                       *)
CreateAll(p) ==
  /\ updating[p] = "version" /\ served.version = -1
  /\ served' = [Made(served, Latest(p).tables, Latest(p).columns)
                  EXCEPT !.version = ReleaseOf[p]]
  /\ UpdateReturns(p)
  /\ UNCHANGED <<history, ver, updateCallsLeft, updateMishaps>>

ReadSchemaVersion(p) ==
  /\ updating[p] = "version" /\ served.version # -1
  /\ ver' = [ver EXCEPT ![p] = served.version]
  /\ updating' = [updating EXCEPT ![p] = "tables"]
  /\ UNCHANGED <<history, served, brought, updateCallsLeft, updateMishaps>>

(* Tables of a later update are created too, in their latest form.          *)
CreateMissing(p) ==
  LET missing == Latest(p).tables \ served.tables
  IN
  /\ updating[p] = "tables"
  /\ served' = Made(served, Latest(p).tables, Latest(p).columns)
  /\ updateMishaps' = updateMishaps
       \union {"skipped" : n \in {n \in ver[p] + 1 .. ReleaseOf[p] :
                                    /\ history[n].does # "new_tables"
                                    /\ history[n].table \in missing}}
  /\ updating' = [updating EXCEPT ![p] = "updates"]
  /\ UNCHANGED <<history, ver, brought, updateCallsLeft>>

(* A variant that is wrong: the first of the updates that are due is left   *)
(* out.                                                                     *)
NextButOne(p) == ver[p] + 2

(* The update p is at: those up to the version it has read are done.        *)
NextUpdate(p) == ver[p] + 1

RunUpdate(p) ==
  /\ updating[p] = "updates" /\ NextUpdate(p) <= ReleaseOf[p]
  /\ Alters(served, history[NextUpdate(p)])
  /\ served' = [Applied(served, history[NextUpdate(p)]) EXCEPT !.version = ver[p] + 1]
  /\ ver' = [ver EXCEPT ![p] = @ + 1]
  /\ UNCHANGED <<history, updating, brought, updateCallsLeft, updateMishaps>>

UpdatesDone(p) ==
  /\ updating[p] = "updates" /\ NextUpdate(p) > ReleaseOf[p]
  /\ UpdateReturns(p)
  /\ UNCHANGED <<history, served, ver, updateCallsLeft, updateMishaps>>

(* A statement fails, an update that does not apply among them, or the      *)
(* program ends: its transaction is rolled back.                            *)
UpdateFails(p) ==
  /\ updating[p] # "nothing"
  /\ updating' = [updating EXCEPT ![p] = "nothing"]
  /\ brought' = [brought EXCEPT ![p] = "threw"]
  /\ UNCHANGED <<history, served, ver, updateCallsLeft, updateMishaps>>

UpdatesNext ==
  \E p \in Updaters :
    \/ CallUpdate(p)
    \/ CreateAll(p) \/ ReadSchemaVersion(p) \/ CreateMissing(p)
    \/ RunUpdate(p) \/ UpdatesDone(p) \/ UpdateFails(p)

-----------------------------------------------------------------------------
UpdatesTypeOK ==
  /\ updating \in [Updaters -> {"nothing", "version", "tables", "updates"}]
  /\ brought \in [Updaters -> {"never", "returned", "threw"}]
  /\ served.version \in -1..Len(history)
  /\ \A p \in Updaters : ver[p] \in -1..Len(history)

(* The tables of the version are there, in the form of that version,        *)
(* whichever releases have run and whichever of their updates failed; so    *)
(* the next update of any release applies.  The exceptions are two programs *)
(* at a time, of which the later one may set the version back, and a        *)
(* program that skips a release: it creates a table in its latest form, to  *)
(* which the updates of that table no longer apply (postgres.h:795-831).    *)
TablesMatchVersion ==
  LET form == Forms(history)[served.version]
  IN
  \/ served = NoTables
  \/ /\ form.tables \subseteq served.tables
     /\ {c \in served.columns : c[1] \in form.tables} = form.columns
     /\ served.version < Len(history) => Alters(served, history[served.version + 1])
  \/ updateMishaps # {}

(* After a call that returned the database is of the program's release or a *)
(* later one, though others call, fail and end meanwhile; not when two      *)
(* programs update together (postgres.h:795-831).                           *)
ReleaseReached ==
  \A p \in Updaters : brought[p] = "returned" =>
    served.version >= ReleaseOf[p] \/ "together" \in updateMishaps
=============================================================================
