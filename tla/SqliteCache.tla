---------------------------- MODULE SqliteCache ----------------------------
(***************************************************************************)
(* The cache of templates2/sqlite.h: one row of one of its tables, shared   *)
(* by programs with a connection each.  A statement that meets the lock of  *)
(* another connection is busy: reads are repeated until they are not, other *)
(* statements throw, perhaps after the busy timeout.  The locks are         *)
(* SQLite's.                                                                *)
(***************************************************************************)
EXTENDS Integers

CONSTANTS CachePrograms,  (* the programs that share the file                *)
          CacheCalls      (* CacheCalls[c], bound: the calls of c            *)

ASSUME CacheAssumption == CacheCalls \in [CachePrograms -> Nat]

VARIABLES journal,        (* "rollback", or "wal" after enable_wal()         *)
          cacheRow,       (* the row that is committed, or Gone              *)
          connection,     (* connection[c]: its transaction and its lock     *)
          cacheCall,      (* cacheCall[c]: the call c is in                  *)
          cacheAt,        (* cacheAt[c]: the statement c is at               *)
          found,          (* found[c]: what c has read                       *)
          cacheEnded,     (* cacheEnded[c]: how the last call ended          *)
          expected,       (* the row after the calls that returned           *)
          cacheCallsLeft,
          cacheMishaps    (* what the calls do not guard against             *)

ended == <<cacheEnded, expected, cacheMishaps>>
cacheVars == <<journal, cacheRow, connection, cacheCall, cacheAt, found, ended, cacheCallsLeft>>

Gone == -1
Finding == {"get", "create", "created", "change"}
Changing == {"set", "late set", "assign", "change", "create", "created", "erase"}
NoTransaction == [open |-> FALSE, lock |-> "none", view |-> Gone]

CacheInit ==
  /\ journal \in {"rollback", "wal"}
  /\ cacheRow = Gone /\ expected = Gone
  /\ connection = [c \in CachePrograms |-> NoTransaction]
  /\ cacheCall = [c \in CachePrograms |-> "none"]
  /\ cacheAt = [c \in CachePrograms |-> "out"]
  /\ found = [c \in CachePrograms |-> Gone]
  /\ cacheEnded = [c \in CachePrograms |-> "never"]
  /\ cacheCallsLeft = CacheCalls
  /\ cacheMishaps = {}

-----------------------------------------------------------------------------
(* Locks.  With a rollback journal a commit waits for the readers, and      *)
(* while it waits there are no new ones; with a write-ahead log readers     *)
(* keep their snapshot, from which nothing older may be written.            *)

LockedBy(c, locks) == \E d \in CachePrograms \ {c} : connection[d].lock \in locks
MayRead(c) ==
  connection[c].lock # "none" \/ journal = "wal" \/ ~LockedBy(c, {"pending"})
MayWrite(c) ==
  /\ MayRead(c)
  /\ ~LockedBy(c, {"reserved", "pending"})
  /\ connection[c].lock = "shared" => connection[c].view = cacheRow
MayCommit(c) == journal = "wal" \/ ~LockedBy(c, {"shared", "reserved", "pending"})

InView(c) == IF connection[c].lock = "none" THEN cacheRow ELSE connection[c].view
ToStatement(c, label) == cacheAt' = [cacheAt EXCEPT ![c] = label]

TakeShared(c) ==
  connection' = [connection EXCEPT ![c].view = InView(c),
                                   ![c].lock = IF @ = "none" THEN "shared" ELSE @]
Reset(c) ==
  connection' = [connection EXCEPT ![c] = IF @.open THEN @ ELSE NoTransaction]
RollBack(c) == connection' = [connection EXCEPT ![c] = NoTransaction]

(* A variant that is wrong: commit or nothing.                              *)
LeaveOpen(c) == UNCHANGED connection

(* ~sc_tr() while an exception is on its way, also one of the caller's.     *)
EndTransaction(c) == RollBack(c)

-----------------------------------------------------------------------------
(* Calls.  A "late set" is made by a destructor while an exception is on    *)
(* its way: it returns, rolled back.                                        *)

CallCache(c) ==
  /\ cacheAt[c] = "out" /\ cacheCallsLeft[c] > 0
  /\ \E does \in {"get", "create", "change", "set", "late set", "assign", "erase"} :
       LET busy == {d \in CachePrograms \ {c} : cacheAt[d] # "out"}
       IN
       /\ cacheCall' = [cacheCall EXCEPT ![c] = does]
       /\ ToStatement(c, CASE does \in Finding -> "look"
                           [] does = "erase" -> "erase"
                           [] OTHER -> "begin")
       /\ cacheMishaps' = cacheMishaps
            \union {"together" : d \in {d \in busy : \/ cacheCall[d] = "change" /\ does \in Changing
                                                     \/ does = "change" /\ cacheCall[d] \in Changing}}
            \union {"erased" : d \in {d \in busy : \/ cacheCall[d] = "erase" /\ does \in Finding
                                                   \/ does = "erase" /\ cacheCall[d] \in Finding}}
  /\ found' = [found EXCEPT ![c] = Gone]
  /\ cacheEnded' = [cacheEnded EXCEPT ![c] = "never"]
  /\ cacheCallsLeft' = [cacheCallsLeft EXCEPT ![c] = @ - 1]
  /\ UNCHANGED <<journal, cacheRow, connection, expected>>

Rests == <<journal, cacheCallsLeft>>

CacheEnds(c, how) ==
  /\ ToStatement(c, "out")
  /\ cacheEnded' = [cacheEnded EXCEPT ![c] = how]

CacheThrows(c) ==
  /\ CacheEnds(c, "threw")
  /\ UNCHANGED <<cacheRow, cacheCall, found, expected>>

-----------------------------------------------------------------------------
(* find(): empty() reads and resets, begin() reads again, and the statement *)
(* is stepped once more before it is finalized.                             *)

Look(c) ==
  /\ cacheAt[c] = "look"
  /\ MayRead(c)
  /\ TakeShared(c)
  /\ found' = [found EXCEPT ![c] = InView(c)]
  /\ ToStatement(c, "looked")
  /\ UNCHANGED <<cacheRow, cacheCall, ended>> /\ UNCHANGED Rests

(* The row of an iterator at the end is a default one.                      *)
Refetch(c) ==
  /\ cacheAt[c] = "fetch"
  /\ MayRead(c)
  /\ TakeShared(c)
  /\ found' = [found EXCEPT ![c] = IF InView(c) = Gone THEN 0 ELSE InView(c)]
  /\ ToStatement(c, "fetched")
  /\ UNCHANGED <<cacheRow, cacheCall, ended>> /\ UNCHANGED Rests

ResetRead(c) ==
  /\ \/ cacheAt[c] = "looked" /\ ToStatement(c, IF found[c] = Gone THEN "again" ELSE "fetch")
     \/ cacheAt[c] = "fetched" /\ ToStatement(c, "again")
  /\ Reset(c)
  /\ UNCHANGED <<cacheRow, cacheCall, found, ended>> /\ UNCHANGED Rests

(* find(key, create) waits for the row it has set.                          *)
FindEnds(c) ==
  /\ cacheAt[c] = "again"
  /\ MayRead(c)
  /\ \/ /\ cacheCall[c] = "change" \/ (cacheCall[c] = "create" /\ found[c] = Gone)
        /\ ToStatement(c, "begin") /\ UNCHANGED cacheEnded
     \/ /\ cacheCall[c] = "created" /\ found[c] = Gone
        /\ ToStatement(c, "look") /\ UNCHANGED cacheEnded
     \/ /\ cacheCall[c] = "get" \/ (cacheCall[c] \in {"create", "created"} /\ found[c] # Gone)
        /\ CacheEnds(c, "returned")
  /\ UNCHANGED <<cacheRow, connection, cacheCall, found, expected, cacheMishaps>> /\ UNCHANGED Rests

(* The last step of a statement is not repeated when it is busy.            *)
FindThrows(c) ==
  /\ cacheAt[c] = "again"
  /\ ~MayRead(c)
  /\ CacheThrows(c)
  /\ UNCHANGED <<connection, cacheMishaps>> /\ UNCHANGED Rests

-----------------------------------------------------------------------------
(* set() and erase()                                                        *)

Old(n) == IF n = Gone THEN 0 ELSE n
Written(c) ==
  CASE cacheCall[c] = "change" -> Old(found[c]) + 1
    [] cacheCall[c] = "create" -> 1
    [] OTHER -> 2

BeginTransaction(c) ==
  /\ cacheAt[c] = "begin"
  /\ IF connection[c].open
     THEN CacheThrows(c) /\ UNCHANGED connection
     ELSE /\ connection' = [connection EXCEPT ![c].open = TRUE]
          /\ ToStatement(c, IF cacheCall[c] = "assign" THEN "count" ELSE "write")
          /\ UNCHANGED <<cacheRow, cacheCall, found, cacheEnded, expected>>
  /\ UNCHANGED cacheMishaps /\ UNCHANGED Rests

(* A table of one row: insert or update?                                    *)
CountRows(c) ==
  /\ cacheAt[c] = "count"
  /\ MayRead(c)
  /\ TakeShared(c)
  /\ ToStatement(c, "write")
  /\ UNCHANGED <<cacheRow, cacheCall, found, ended>> /\ UNCHANGED Rests

WriteRow(c) ==
  /\ cacheAt[c] = "write"
  /\ IF MayWrite(c)
     THEN /\ connection' = [connection EXCEPT ![c].view = Written(c), ![c].lock = "reserved"]
          /\ ToStatement(c, "commit")
          /\ UNCHANGED <<cacheRow, cacheCall, found, cacheEnded, expected>>
     ELSE EndTransaction(c) /\ CacheThrows(c)
  /\ UNCHANGED cacheMishaps /\ UNCHANGED Rests

CommitRow(c) ==
  /\ cacheAt[c] = "commit" /\ cacheCall[c] # "late set"
  /\ MayCommit(c)
  /\ cacheRow' = connection[c].view
  /\ connection' = [connection EXCEPT ![c] = NoTransaction]
  /\ expected' = IF cacheCall[c] = "change" THEN Old(expected) + 1 ELSE Written(c)
  /\ IF cacheCall[c] = "create"
     THEN /\ ToStatement(c, "look") /\ UNCHANGED cacheEnded
          /\ cacheCall' = [cacheCall EXCEPT ![c] = "created"]
     ELSE CacheEnds(c, "returned") /\ UNCHANGED cacheCall
  /\ UNCHANGED <<found, cacheMishaps>> /\ UNCHANGED Rests

(* A commit that is busy keeps new readers away; when it is given up the    *)
(* exception leaves ~sc_tr(), and the transaction stays open.               *)
CommitBusy(c) ==
  /\ cacheAt[c] = "commit" /\ cacheCall[c] # "late set"
  /\ ~MayCommit(c)
  /\ connection' = [connection EXCEPT ![c].lock = "pending"]
  /\ \/ UNCHANGED <<cacheAt, cacheEnded, cacheMishaps, cacheRow, cacheCall, found, expected>>
     \/ CacheThrows(c) /\ cacheMishaps' = cacheMishaps \union {"left open"}
  /\ UNCHANGED Rests

SetRolledBack(c) ==
  /\ cacheAt[c] = "commit" /\ cacheCall[c] = "late set"
  /\ EndTransaction(c)
  /\ CacheEnds(c, "returned")
  /\ UNCHANGED <<cacheRow, cacheCall, found, expected, cacheMishaps>> /\ UNCHANGED Rests

(* The destructor of the statement runs it, in a transaction of its own     *)
(* unless one was left open.                                                *)
EraseRow(c) ==
  /\ cacheAt[c] = "erase"
  /\ \/ /\ ~connection[c].open /\ MayWrite(c) /\ MayCommit(c)
        /\ cacheRow' = Gone
        /\ UNCHANGED connection
     \/ /\ connection[c].open
        /\ connection' = [connection EXCEPT ![c].view = Gone]
        /\ UNCHANGED cacheRow
  /\ expected' = Gone
  /\ CacheEnds(c, "returned")
  /\ UNCHANGED <<cacheCall, found, cacheMishaps>> /\ UNCHANGED Rests

EraseBusy(c) ==
  /\ cacheAt[c] = "erase" /\ ~connection[c].open
  /\ ~(MayWrite(c) /\ MayCommit(c))
  /\ CacheThrows(c)
  /\ UNCHANGED <<connection, cacheMishaps>> /\ UNCHANGED Rests

(* The program ends, or closes the cache.                                   *)
CloseCache(c) ==
  /\ connection[c].open \/ cacheAt[c] # "out"
  /\ RollBack(c)
  /\ CacheEnds(c, "never")
  /\ UNCHANGED <<cacheRow, cacheCall, found, expected, cacheMishaps>> /\ UNCHANGED Rests

CacheNext ==
  \E c \in CachePrograms :
    \/ CallCache(c)
    \/ Look(c) \/ Refetch(c) \/ ResetRead(c) \/ FindEnds(c) \/ FindThrows(c)
    \/ BeginTransaction(c) \/ CountRows(c) \/ WriteRow(c)
    \/ CommitRow(c) \/ CommitBusy(c) \/ SetRolledBack(c)
    \/ EraseRow(c) \/ EraseBusy(c)
    \/ CloseCache(c)

-----------------------------------------------------------------------------
CacheTypeOK ==
  /\ journal \in {"rollback", "wal"}
  /\ cacheRow \in Nat \union {Gone} /\ expected \in Nat \union {Gone}
  /\ connection \in [CachePrograms ->
       [open : BOOLEAN, lock : {"none", "shared", "reserved", "pending"},
        view : Nat \union {Gone}]]
  /\ cacheAt \in [CachePrograms ->
       {"out", "look", "looked", "fetch", "fetched", "again", "begin", "count", "write", "commit",
        "erase"}]
  /\ cacheEnded \in [CachePrograms -> {"never", "returned", "threw"}]

(* What is committed is what the calls that returned say, late sets apart,  *)
(* however the programs' transactions meet and end, and those that threw    *)
(* have changed nothing.  Not kept: one of two changes of the same key at a *)
(* time, which read and set in two steps, and what is erased on a           *)
(* connection whose transaction was left open (sqlite.h:185-209, 661-713).  *)
CountsKept ==
  cacheRow = expected \/ cacheMishaps \intersect {"together", "left open"} # {}

(* Outside a call no transaction is open and no lock is held, but after a   *)
(* commit that met readers: then every later set of the program throws, and *)
(* readers wait for it to end.  With a write-ahead log that does not happen *)
(* (sqlite.h:185-209, 333-345).                                             *)
NothingLeftOpen ==
  /\ \A c \in CachePrograms : cacheAt[c] = "out" =>
       connection[c] = NoTransaction \/ (connection[c].open /\ "left open" \in cacheMishaps)
  /\ "left open" \in cacheMishaps => journal = "rollback"

(* What find() returns was set, and find() with a creator returns a value:  *)
(* no default row of an iterator at its end, but when the key is erased     *)
(* between the two reads (sqlite.h:613-660).                                *)
FoundWasSet ==
  \A c \in CachePrograms :
    cacheEnded[c] = "returned" /\ cacheCall[c] \in {"get", "create", "created"} =>
      /\ found[c] # 0 \/ "erased" \in cacheMishaps
      /\ cacheCall[c] # "get" => found[c] # Gone
=============================================================================
