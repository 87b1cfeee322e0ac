--------------------------- MODULE SchemaManager ---------------------------
(***************************************************************************)
(* DatabaseSchemaManager::createOrUpdate (schema_manager.h) over            *)
(* SqliteDatabase (db/sqlite3.h).  Each program has one connection; SQLite  *)
(* lets one of them write, shows a transaction the database as it first     *)
(* read it, and any statement may fail.                                     *)
(***************************************************************************)
EXTENDS Integers

CONSTANTS Programs,       (* the programs that share the database            *)
          DiffsOf,        (* DiffsOf[p]: getDiffSqlSize() of p               *)
          SchemaCalls     (* SchemaCalls[p], bound: calls of createOrUpdate   *)

ASSUME SchemaManagerAssumption ==
  /\ DiffsOf \in [Programs -> Nat]
  /\ SchemaCalls \in [Programs -> Nat]

VARIABLES ifNotExists,    (* whether latest schemas skip what there is       *)
          database,       (* what is committed                               *)
          transaction,    (* transaction[p]: that of p's connection          *)
          view,           (* view[p]: what p's transaction sees              *)
          doing,          (* doing[p]: the statement p is at                 *)
          diffAt,         (* diffAt[p]: the diff update() is at              *)
          updated,        (* updated[p]: how p's last call ended             *)
          schemaCallsLeft,
          schemaMishaps   (* what the calls do not guard against             *)

schemaVars == <<ifNotExists, database, transaction, view, doing, diffAt, updated,
                schemaCallsLeft, schemaMishaps>>

AllDiffs == UNION {1..DiffsOf[p] : p \in Programs}
Empty == [rows |-> 0, version |-> -1, tables |-> FALSE, ran |-> [i \in AllDiffs |-> 0]]

SchemaInit ==
  /\ ifNotExists \in BOOLEAN
  /\ database = Empty
  /\ transaction = [p \in Programs |-> "none"]
  /\ view = [p \in Programs |-> Empty]
  /\ doing = [p \in Programs |-> "nothing"]
  /\ diffAt = [p \in Programs |-> 0]
  /\ updated = [p \in Programs |-> "never"]
  /\ schemaCallsLeft = SchemaCalls
  /\ schemaMishaps = {}

-----------------------------------------------------------------------------
(* A statement of p.                                                        *)

Seen(p) == IF transaction[p] \in {"reading", "writing"} THEN view[p] ELSE database
Then(p, next) == doing' = [doing EXCEPT ![p] = next]

Reads(p) ==
  /\ transaction' = [transaction EXCEPT ![p] = IF @ = "begun" THEN "reading" ELSE @]
  /\ view' = [view EXCEPT ![p] = IF transaction[p] = "none" THEN @ ELSE Seen(p)]
  /\ UNCHANGED database

CanWrite(p) ==
  /\ \A q \in Programs \ {p} : transaction[q] # "writing"
  /\ transaction[p] = "reading" => view[p] = database

Writes(p, d) ==
  /\ CanWrite(p)
  /\ IF transaction[p] = "none"
     THEN database' = d /\ UNCHANGED <<transaction, view>>
     ELSE /\ transaction' = [transaction EXCEPT ![p] = "writing"]
          /\ view' = [view EXCEPT ![p] = d]
          /\ UNCHANGED database

Closed(p, t) ==
  /\ transaction' = [transaction EXCEPT ![p] = t]
  /\ view' = IF t = "none" THEN [view EXCEPT ![p] = Empty] ELSE view

Rest == <<ifNotExists, diffAt, updated, schemaCallsLeft, schemaMishaps>>

-----------------------------------------------------------------------------
(* createOrUpdate                                                           *)

(* A program calls on the connection it has, perhaps after an exception.    *)
CallSchema(p) ==
  /\ doing[p] = "nothing" /\ schemaCallsLeft[p] > 0
  /\ Then(p, "count")
  /\ schemaCallsLeft' = [schemaCallsLeft EXCEPT ![p] = @ - 1]
  /\ updated' = [updated EXCEPT ![p] = "never"]
  /\ schemaMishaps' = schemaMishaps
       \union {"first_together" : q \in
                 {q \in Programs \ {p} : doing[q] # "nothing" /\ database.version = -1}}
       \union (IF transaction[p] = "none" THEN {} ELSE {"left_open"})
  /\ UNCHANGED <<ifNotExists, database, transaction, view, diffAt>>

Throws(p) ==
  /\ Then(p, "nothing")
  /\ updated' = [updated EXCEPT ![p] = "threw"]
  /\ UNCHANGED <<ifNotExists, diffAt, schemaCallsLeft>>

(* getValue(version) creates the table and its row when they are not there: *)
(* the rows are counted, and one is inserted, by separate statements.       *)
Count(p) ==
  /\ doing[p] = "count"
  /\ Reads(p)
  /\ \/ /\ Seen(p).rows > 1
        /\ Throws(p) /\ UNCHANGED schemaMishaps
     \/ /\ Seen(p).rows <= 1
        /\ Then(p, IF Seen(p).rows = 0 THEN "insert" ELSE "select")
        /\ UNCHANGED Rest

InsertRow(p) ==
  /\ doing[p] = "insert"
  /\ Writes(p, [Seen(p) EXCEPT !.rows = @ + 1])
  /\ Then(p, "select")
  /\ UNCHANGED Rest

(* A select that fails, or finds two rows, gives no version: like -1.       *)
Version(p) == IF Seen(p).rows = 1 THEN Seen(p).version ELSE -1
Select(p) ==
  /\ doing[p] = "select"
  /\ Reads(p)
  /\ \/ /\ Version(p) = -1
        /\ Then(p, "begin_create")
        /\ UNCHANGED Rest
     \/ /\ Version(p) # -1 /\ DiffsOf[p] > 0
        /\ Then(p, "begin_update")
        /\ UNCHANGED Rest
     \/ /\ Version(p) # -1 /\ DiffsOf[p] = 0
        /\ Then(p, "nothing")
        /\ updated' = [updated EXCEPT ![p] = "returned"]
        /\ UNCHANGED <<ifNotExists, diffAt, schemaCallsLeft, schemaMishaps>>

SelectFails(p) ==
  /\ doing[p] = "select"
  /\ Then(p, "begin_create")
  /\ schemaMishaps' = schemaMishaps \union {"not_read"}
  /\ UNCHANGED <<ifNotExists, database, transaction, view, diffAt, updated, schemaCallsLeft>>

(* BEGIN: an error when a transaction was left open.                        *)
Begin(p) ==
  /\ transaction[p] = "none"
  /\ \/ doing[p] = "begin_create" /\ Then(p, "schema")
     \/ doing[p] = "begin_update" /\ Then(p, "update")
  /\ transaction' = [transaction EXCEPT ![p] = "begun"]
  /\ UNCHANGED <<database, view>> /\ UNCHANGED Rest

-----------------------------------------------------------------------------
(* create() and update(), after BEGIN                                       *)

Schema(d, n) ==
  IF d.tables THEN d
  ELSE [d EXCEPT !.tables = TRUE, !.ran = [i \in AllDiffs |-> IF i <= n THEN 1 ELSE 0]]

RunSchema(p) ==
  /\ doing[p] = "schema"
  /\ Seen(p).tables => ifNotExists
  /\ Writes(p, Schema(Seen(p), DiffsOf[p]))
  /\ Then(p, "set_version")
  /\ UNCHANGED Rest

(* A variant that is wrong: the last diff is run again.                     *)
FromVersion(p) == Seen(p).version

(* The version is read again, in the transaction.                           *)
From(p) == Seen(p).version + 1

ReadVersion(p) ==
  /\ doing[p] = "update" /\ Seen(p).rows = 1
  /\ From(p) <= DiffsOf[p]
  /\ Reads(p)
  /\ diffAt' = [diffAt EXCEPT ![p] = From(p)]
  /\ Then(p, "diff")
  /\ UNCHANGED <<ifNotExists, updated, schemaCallsLeft, schemaMishaps>>

(* v >= sz: return, which rolls back.                                       *)
NothingToUpdate(p) ==
  /\ doing[p] = "update" /\ Seen(p).rows = 1
  /\ From(p) > DiffsOf[p]
  /\ Closed(p, "none")
  /\ Then(p, "nothing")
  /\ updated' = [updated EXCEPT ![p] = "returned"]
  /\ UNCHANGED <<ifNotExists, database, diffAt, schemaCallsLeft, schemaMishaps>>

RunDiff(p) ==
  /\ doing[p] = "diff"
  /\ Writes(p, [Seen(p) EXCEPT !.ran[diffAt[p]] = IF @ < 2 THEN @ + 1 ELSE @])
  /\ IF diffAt[p] < DiffsOf[p]
     THEN diffAt' = [diffAt EXCEPT ![p] = @ + 1] /\ UNCHANGED doing
     ELSE Then(p, "set_version") /\ UNCHANGED diffAt
  /\ UNCHANGED <<ifNotExists, updated, schemaCallsLeft, schemaMishaps>>

SetVersion(p) ==
  /\ doing[p] = "set_version" /\ Seen(p).rows = 1
  /\ Writes(p, [Seen(p) EXCEPT !.version = DiffsOf[p]])
  /\ Then(p, "commit")
  /\ UNCHANGED Rest

Commit(p) ==
  /\ doing[p] = "commit"
  /\ database' = view[p]
  /\ Closed(p, "none")
  /\ Then(p, "nothing")
  /\ updated' = [updated EXCEPT ![p] = "returned"]
  /\ diffAt' = [diffAt EXCEPT ![p] = 0]
  /\ UNCHANGED <<ifNotExists, schemaCallsLeft, schemaMishaps>>

-----------------------------------------------------------------------------
(* A statement fails.  update() then rolls back; create() does not, unless  *)
(* SQLite itself did.  diffAt tells which of the two it is.                 *)
Updating(p) == doing[p] \in {"update", "diff"} \/ diffAt[p] # 0

Fail(p) ==
  /\ doing[p] \notin {"nothing", "select"}
  /\ Then(p, "nothing")
  /\ updated' = [updated EXCEPT ![p] = "threw"]
  /\ diffAt' = [diffAt EXCEPT ![p] = 0]
  /\ \E t \in {"none"} \union (IF Updating(p) THEN {} ELSE {transaction[p]}) :
       Closed(p, t)
  /\ UNCHANGED <<ifNotExists, database, schemaCallsLeft, schemaMishaps>>

(* The program ends, or opens another connection: what was not committed is *)
(* gone.                                                                    *)
Reconnect(p) ==
  /\ doing[p] # "nothing" \/ transaction[p] # "none"
  /\ Then(p, "nothing")
  /\ Closed(p, "none")
  /\ diffAt' = [diffAt EXCEPT ![p] = 0]
  /\ UNCHANGED <<ifNotExists, database, updated, schemaCallsLeft, schemaMishaps>>

SchemaNext ==
  \E p \in Programs :
    \/ CallSchema(p)
    \/ Count(p) \/ InsertRow(p) \/ Select(p) \/ SelectFails(p) \/ Begin(p)
    \/ RunSchema(p)
    \/ ReadVersion(p) \/ NothingToUpdate(p) \/ RunDiff(p)
    \/ SetVersion(p) \/ Commit(p)
    \/ Fail(p) \/ Reconnect(p)

-----------------------------------------------------------------------------
SchemaTypeOK ==
  /\ transaction \in [Programs -> {"none", "begun", "reading", "writing"}]
  /\ doing \in [Programs -> {"nothing", "count", "insert", "select", "begin_create", "schema",
                             "begin_update", "update", "diff", "set_version", "commit"}]
  /\ updated \in [Programs -> {"never", "returned", "threw"}]
  /\ \A p \in Programs : diffAt[p] \in 0..DiffsOf[p]

(* What is committed agrees with its version: the tables are there, and     *)
(* each diff up to the version, and no other, has been run once, whatever   *)
(* failed or ended in the middle of whom, and also when programs of several *)
(* sizes update together.  The exception: the latest schema skips what is   *)
(* there, and either two programs came first together or the version could  *)
(* not be read (schema_manager.h:28-62).                                    *)
SchemaMatches ==
  \/ /\ database.tables <=> database.version # -1
     /\ \A i \in AllDiffs : database.ran[i] = (IF i <= database.version THEN 1 ELSE 0)
  \/ ifNotExists /\ schemaMishaps \intersect {"first_together", "not_read"} # {}

(* The table of the version has one row, but when two programs came first   *)
(* together; a call that returns leaves at least its own version committed, *)
(* but on a connection whose transaction had been left open                 *)
(* (db/sqlite3.h:88-118, schema_manager.h:39-45).                           *)
CallsUpdate ==
  /\ database.rows > 1 => "first_together" \in schemaMishaps
  /\ \A p \in Programs : updated[p] = "returned" =>
       \/ database.version >= DiffsOf[p]
       \/ "left_open" \in schemaMishaps
       \/ ifNotExists /\ schemaMishaps \intersect {"first_together", "not_read"} # {}
=============================================================================
