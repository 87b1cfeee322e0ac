---------------------------- MODULE ValuesProofs ----------------------------
(***************************************************************************)
(* Theorems about two groups of MCValues' parts.                            *)
(*                                                                         *)
(* The state that several threads or programs share: the rows of the SQLite *)
(* cache, the settings of the system, the user and the directory, and the   *)
(* tables of a database, for any number of programs, threads, calls, keys   *)
(* and updates. Each part has an inductive invariant (CacheInv,             *)
(* SettingsInv, TablesInv), what each of its actions does to the variables  *)
(* (XDoes) and that it keeps the invariant (XKeeps), facts that the initial *)
(* states and the steps keep it (XStarts, XSteps), that the steps of other  *)
(* parts do (XStays), and one that it says what is checked (XMeans).        *)
(*                                                                         *)
(* Versions: their order, their steps and what is printed of them, for any  *)
(* numbers of numbers and any largest number.                               *)
(***************************************************************************)
EXTENDS MCValues, WellFoundedInduction, TLAPS

-----------------------------------------------------------------------------
(* The SQLite cache.                                                        *)

CacheReading == {"look", "looked", "fetch", "fetched", "again"}
CacheWriting == {"begin", "count", "write", "commit"}

ConnectionType == [open : BOOLEAN, lock : {"none", "shared", "reserved", "pending"},
                   view : Nat \union {Gone}]
Connection(isOpen, lock, view) == [open |-> isOpen, lock |-> lock, view |-> view]
Statements == CacheReading \union CacheWriting \union {"out", "erase"}
CacheCallNames ==
  {"none", "get", "create", "created", "change", "set", "late set", "assign", "erase"}

ProgramTypes ==
  /\ connection \in [CachePrograms -> ConnectionType]
  /\ cacheAt \in [CachePrograms -> Statements]
  /\ cacheCall \in [CachePrograms -> CacheCallNames]
  /\ found \in [CachePrograms -> Nat \union {Gone}]
  /\ cacheEnded \in [CachePrograms -> {"never", "returned", "threw"}]
FileTypes ==
  /\ journal \in {"rollback", "wal"}
  /\ cacheRow \in Nat \union {Gone} /\ expected \in Nat \union {Gone}
  /\ cacheCallsLeft \in [CachePrograms -> Nat]
CacheTypes == ProgramTypes /\ FileTypes

(* The statements of each call, and that a call in progress has not ended.  *)
StatementOf(c) ==
  /\ cacheAt[c] \in CacheReading => cacheCall[c] \in Finding
  /\ cacheAt[c] \in CacheWriting =>
       cacheCall[c] \in {"set", "late set", "assign", "change", "create"}
  /\ cacheAt[c] = "erase" => cacheCall[c] = "erase"
  /\ cacheAt[c] # "out" => cacheEnded[c] = "never"

(* The lock and the transaction of a connection follow from the statement   *)
(* its program is at, unless a commit that was busy left them behind.       *)
LeftBehind(c) ==
  /\ "left open" \in cacheMishaps /\ connection[c].open /\ connection[c].lock = "pending"
  /\ cacheAt[c] \in CacheReading \union {"out", "begin", "erase"}
ConnectionAt(c) ==
  /\ cacheAt[c] \in {"out", "look", "fetch", "again", "begin", "erase"} =>
       ~connection[c].open /\ connection[c].lock = "none" /\ connection[c].view = Gone
  /\ cacheAt[c] \in {"looked", "fetched"} => ~connection[c].open /\ connection[c].lock = "shared"
  /\ cacheAt[c] = "count" => connection[c].open /\ connection[c].lock = "none"
  /\ cacheAt[c] = "write" => connection[c].open /\ connection[c].lock \in {"none", "shared"}
  /\ cacheAt[c] = "commit" => /\ connection[c].open /\ connection[c].lock \in {"reserved", "pending"}
                              /\ connection[c].view = Written(c)
ConnectionOf(c) == LeftBehind(c) \/ ConnectionAt(c)

(* A row that was set is not the default one, and one that was there is     *)
(* there when it is read again.                                             *)
FoundOf(c) ==
  /\ connection[c].view # 0 /\ (found[c] = 0 => "erased" \in cacheMishaps)
  /\ cacheAt[c] \in {"looked", "fetch"} /\ connection[c].lock # "none" => found[c] = connection[c].view
  /\ cacheAt[c] = "fetch" => found[c] # Gone
  /\ cacheEnded[c] = "returned" /\ cacheCall[c] \in {"create", "created"} => found[c] # Gone
StillThere(c) ==
  cacheAt[c] \in {"looked", "fetch"} /\ found[c] # Gone /\ ~connection[c].open =>
    cacheRow # Gone \/ "erased" \in cacheMishaps

(* What a change has found is still there when it is written.               *)
Countable == "together" \notin cacheMishaps /\ "left open" \notin cacheMishaps
CountOf(c) ==
  Countable /\ cacheCall[c] = "change" /\ cacheAt[c] \notin {"out", "look"} => Old(found[c]) = Old(cacheRow)

(* Calls that are made while another one is in progress are noted.          *)
NotedOf(c, d) ==
  cacheAt[c] # "out" /\ cacheAt[d] # "out" =>
    /\ cacheCall[c] = "change" /\ cacheCall[d] \in Changing => "together" \in cacheMishaps
    /\ cacheCall[c] = "erase" /\ cacheCall[d] \in Finding => "erased" \in cacheMishaps

FileInv ==
  /\ cacheRow # 0
  /\ Countable => cacheRow = expected
  /\ "left open" \in cacheMishaps => journal = "rollback"
ProgramInv == \A c \in CachePrograms :
  StatementOf(c) /\ ConnectionOf(c) /\ FoundOf(c) /\ StillThere(c) /\ CountOf(c)
PairInv == \A c, d \in CachePrograms : c # d => NotedOf(c, d)

CacheInv == CacheTypes /\ FileInv /\ ProgramInv /\ PairInv


LEMMA TypesMean == CacheTypes => CacheTypeOK
BY DEF CacheTypes, CacheTypeOK, ProgramTypes, FileTypes, ConnectionType, Statements, CacheReading,
   CacheWriting

(* Where a step leaves its own program; the others stay where they are.    *)
Turned(c, conn, at, call, value, how) ==
  /\ connection' = [connection EXCEPT ![c] = conn]
  /\ cacheAt' = [cacheAt EXCEPT ![c] = at]
  /\ cacheCall' = [cacheCall EXCEPT ![c] = call]
  /\ found' = [found EXCEPT ![c] = value]
  /\ cacheEnded' = [cacheEnded EXCEPT ![c] = how]
OthersStay(c) == \A d \in CachePrograms \ {c} :
  /\ connection'[d] = connection[d] /\ cacheAt'[d] = cacheAt[d] /\ cacheCall'[d] = cacheCall[d]
  /\ found'[d] = found[d] /\ cacheEnded'[d] = cacheEnded[d]
TurnsTo(c, conn, at, call, value, how) ==
  /\ connection'[c] = conn /\ cacheAt'[c] = at /\ cacheCall'[c] = call
  /\ found'[c] = value /\ cacheEnded'[c] = how

LEMMA TurnedFacts ==
  ASSUME ProgramTypes, NEW c \in CachePrograms, NEW conn \in ConnectionType, NEW at \in Statements,
         NEW call \in CacheCallNames, NEW value \in Nat \union {Gone},
         NEW how \in {"never", "returned", "threw"}, Turned(c, conn, at, call, value, how)
  PROVE  ProgramTypes' /\ OthersStay(c) /\ TurnsTo(c, conn, at, call, value, how)
<1>1. connection' \in [CachePrograms -> ConnectionType] /\ cacheAt' \in [CachePrograms -> Statements]
  BY DEF ProgramTypes, Turned
<1>2. cacheCall' \in [CachePrograms -> CacheCallNames] /\ found' \in [CachePrograms -> Nat \union {Gone}]
  BY DEF ProgramTypes, Turned
<1>3. cacheEnded' \in [CachePrograms -> {"never", "returned", "threw"}]
  BY DEF ProgramTypes, Turned
<1>4. OthersStay(c)
  BY DEF ProgramTypes, Turned, OthersStay
<1>5. TurnsTo(c, conn, at, call, value, how)
  BY DEF ProgramTypes, Turned, TurnsTo
<1> QED  BY <1>1, <1>2, <1>3, <1>4, <1>5 DEF ProgramTypes

(* What is not assigned stays: f itself is f with f[c] at c.               *)
LEMMA SameAt == ASSUME NEW S, NEW T, NEW f \in [S -> T], NEW c \in S PROVE f = [f EXCEPT ![c] = f[c]]
OBVIOUS

(* What each step does: where it leaves its program, and the row.          *)
RowsStay == journal' = journal /\ cacheRow' = cacheRow /\ expected' = expected
  /\ cacheMishaps' = cacheMishaps
SharedBy(c) ==
  Connection(connection[c].open,
             IF connection[c].lock = "none" THEN "shared" ELSE connection[c].lock, InView(c))

LEMMA TakesShared ==
  ASSUME CacheTypes, NEW c \in CachePrograms, TakeShared(c)
  PROVE  /\ connection' = [connection EXCEPT ![c] = SharedBy(c)]
         /\ SharedBy(c) \in ConnectionType /\ InView(c) \in Nat \union {Gone}
<1>1. connection \in [CachePrograms -> ConnectionType]
  BY DEF CacheTypes, ProgramTypes
<1>2. [connection EXCEPT ![c].view = InView(c)][c].lock = connection[c].lock
  BY <1>1 DEF ConnectionType
<1> DEFINE lock == IF connection[c].lock = "none" THEN "shared" ELSE connection[c].lock
           view == InView(c)
<1>3. connection' = [connection EXCEPT ![c].view = view, ![c].lock = lock]
  BY <1>2 DEF TakeShared
<1>4. connection' = [connection EXCEPT ![c] = Connection(connection[c].open, lock, view)]
  <2> HIDE DEF lock, view
  <2> DEFINE k == Connection(connection[c].open, connection[c].lock, view)
  <2>1. [k EXCEPT !.lock = lock] = Connection(connection[c].open, lock, view)
    BY DEF Connection
  <2>2. [connection EXCEPT ![c].view = view] = [connection EXCEPT ![c] = k]
    <3>1. [connection[c] EXCEPT !.view = view] = k
      BY <1>1 DEF ConnectionType, Connection
    <3> HIDE DEF k
    <3>2. [connection EXCEPT ![c].view = view] = [connection EXCEPT ![c] = [connection[c] EXCEPT !.view = view]]
      OBVIOUS
    <3> QED  BY <3>1, <3>2
  <2> HIDE DEF k
  <2>3. [[connection EXCEPT ![c] = k] EXCEPT ![c].lock = lock]
          = [connection EXCEPT ![c] = [k EXCEPT !.lock = lock]]
    BY <1>1
  <2> QED  BY <1>3, <2>1, <2>2, <2>3
<1>5. InView(c) \in Nat \union {Gone}
  BY <1>1 DEF InView, CacheTypes, FileTypes, ConnectionType
<1>6. SharedBy(c) \in ConnectionType
  BY <1>1, <1>5 DEF SharedBy, Connection, ConnectionType
<1> QED  BY <1>4, <1>5, <1>6 DEF SharedBy

LEMMA NothingOpen == NoTransaction \in ConnectionType /\ NoTransaction = Connection(FALSE, "none", Gone)
BY DEF NoTransaction, ConnectionType, Connection

LEMMA Stays ==
  ASSUME CacheTypes, NEW c \in CachePrograms
  PROVE  /\ connection = [connection EXCEPT ![c] = connection[c]]
         /\ cacheAt = [cacheAt EXCEPT ![c] = cacheAt[c]]
         /\ cacheCall = [cacheCall EXCEPT ![c] = cacheCall[c]]
         /\ found = [found EXCEPT ![c] = found[c]]
         /\ cacheEnded = [cacheEnded EXCEPT ![c] = cacheEnded[c]]
BY SameAt DEF CacheTypes, ProgramTypes

LEMMA Values ==
  ASSUME CacheTypes, NEW c \in CachePrograms
  PROVE  /\ connection[c] \in ConnectionType /\ cacheAt[c] \in Statements
         /\ cacheCall[c] \in CacheCallNames /\ found[c] \in Nat \union {Gone}
         /\ cacheEnded[c] \in {"never", "returned", "threw"}
         /\ Written(c) \in Nat \ {0} /\ Written(c) # Gone
<1>1. /\ connection[c] \in ConnectionType /\ cacheAt[c] \in Statements
      /\ cacheCall[c] \in CacheCallNames /\ found[c] \in Nat \union {Gone}
      /\ cacheEnded[c] \in {"never", "returned", "threw"}
  BY DEF CacheTypes, ProgramTypes
<1> QED  BY <1>1 DEF Written, Old, Gone

LEMMA LookDoes ==
  ASSUME CacheTypes, NEW c \in CachePrograms, Look(c)
  PROVE  /\ CacheTypes' /\ OthersStay(c) /\ cacheAt[c] = "look"
         /\ TurnsTo(c, SharedBy(c), "looked", cacheCall[c], InView(c), cacheEnded[c])
         /\ RowsStay
<1>1. /\ connection' = [connection EXCEPT ![c] = SharedBy(c)]
      /\ SharedBy(c) \in ConnectionType /\ InView(c) \in Nat \union {Gone}
  BY TakesShared DEF Look
<1>2. Turned(c, SharedBy(c), "looked", cacheCall[c], InView(c), cacheEnded[c])
  BY <1>1, Stays DEF Look, Turned, Rests, ended, CacheEnds, CacheThrows, ToStatement, RollBack,
     EndTransaction
<1>3. ProgramTypes' /\ OthersStay(c)
        /\ TurnsTo(c, SharedBy(c), "looked", cacheCall[c], InView(c), cacheEnded[c])
  <2>1. "looked" \in Statements /\ cacheCall[c] \in CacheCallNames /\ InView(c) \in Nat \union {Gone}
        /\ cacheEnded[c] \in {"never", "returned", "threw"} /\ SharedBy(c) \in ConnectionType
    BY <1>1, Values DEF Statements, CacheReading, CacheWriting, CacheCallNames
  <2> QED  BY <1>2, <2>1, TurnedFacts DEF CacheTypes
<1>4. FileTypes' /\ RowsStay /\ cacheAt[c] = "look"
  BY <1>1 DEF Look, RowsStay, CacheTypes, FileTypes, Rests, ended, CacheEnds, CacheThrows
<1> QED  BY <1>3, <1>4 DEF CacheTypes

LEMMA RefetchDoes ==
  ASSUME CacheTypes, NEW c \in CachePrograms, Refetch(c)
  PROVE  /\ CacheTypes' /\ OthersStay(c) /\ cacheAt[c] = "fetch"
         /\ TurnsTo(c, SharedBy(c), "fetched", cacheCall[c], Old(InView(c)), cacheEnded[c])
         /\ RowsStay
<1>1. /\ connection' = [connection EXCEPT ![c] = SharedBy(c)]
      /\ SharedBy(c) \in ConnectionType /\ InView(c) \in Nat \union {Gone}
      /\ Old(InView(c)) \in Nat
  BY TakesShared DEF Refetch, Old, Gone
<1>2. Turned(c, SharedBy(c), "fetched", cacheCall[c], Old(InView(c)), cacheEnded[c])
  BY <1>1, Stays DEF Refetch, Turned, Rests, ended, CacheEnds, CacheThrows, ToStatement, RollBack,
     EndTransaction, Old
<1>3. ProgramTypes' /\ OthersStay(c)
        /\ TurnsTo(c, SharedBy(c), "fetched", cacheCall[c], Old(InView(c)), cacheEnded[c])
  <2>1. "fetched" \in Statements /\ cacheCall[c] \in CacheCallNames /\ Old(InView(c)) \in Nat \union {Gone}
        /\ cacheEnded[c] \in {"never", "returned", "threw"} /\ SharedBy(c) \in ConnectionType
    BY <1>1, Values DEF Statements, CacheReading, CacheWriting, CacheCallNames
  <2> QED  BY <1>2, <2>1, TurnedFacts DEF CacheTypes
<1>4. FileTypes' /\ RowsStay /\ cacheAt[c] = "fetch"
  BY <1>1 DEF Refetch, RowsStay, CacheTypes, FileTypes, Rests, ended, CacheEnds, CacheThrows, Old
<1> QED  BY <1>3, <1>4 DEF CacheTypes

LEMMA CountRowsDoes ==
  ASSUME CacheTypes, NEW c \in CachePrograms, CountRows(c)
  PROVE  /\ CacheTypes' /\ OthersStay(c) /\ cacheAt[c] = "count"
         /\ TurnsTo(c, SharedBy(c), "write", cacheCall[c], found[c], cacheEnded[c])
         /\ RowsStay
<1>1. /\ connection' = [connection EXCEPT ![c] = SharedBy(c)]
      /\ SharedBy(c) \in ConnectionType /\ InView(c) \in Nat \union {Gone}
  BY TakesShared DEF CountRows
<1>2. Turned(c, SharedBy(c), "write", cacheCall[c], found[c], cacheEnded[c])
  BY <1>1, Stays DEF CountRows, Turned, Rests, ended, CacheEnds, CacheThrows, ToStatement, RollBack,
     EndTransaction
<1>3. ProgramTypes' /\ OthersStay(c)
        /\ TurnsTo(c, SharedBy(c), "write", cacheCall[c], found[c], cacheEnded[c])
  <2>1. "write" \in Statements /\ cacheCall[c] \in CacheCallNames /\ found[c] \in Nat \union {Gone}
        /\ cacheEnded[c] \in {"never", "returned", "threw"} /\ SharedBy(c) \in ConnectionType
    BY <1>1, Values DEF Statements, CacheReading, CacheWriting, CacheCallNames
  <2> QED  BY <1>2, <2>1, TurnedFacts DEF CacheTypes
<1>4. FileTypes' /\ RowsStay /\ cacheAt[c] = "count"
  BY <1>1 DEF CountRows, RowsStay, CacheTypes, FileTypes, Rests, ended, CacheEnds, CacheThrows
<1> QED  BY <1>3, <1>4 DEF CacheTypes

(* sqlite3_reset ends a read that is not in a transaction.                  *)
AfterReset(c) == IF connection[c].open THEN connection[c] ELSE NoTransaction
AfterLooking(c) == IF cacheAt[c] = "looked" /\ found[c] # Gone THEN "fetch" ELSE "again"
LEMMA ResetReadDoes ==
  ASSUME CacheTypes, NEW c \in CachePrograms, ResetRead(c)
  PROVE  /\ CacheTypes' /\ OthersStay(c) /\ cacheAt[c] \in {"looked", "fetched"}
         /\ TurnsTo(c, AfterReset(c), AfterLooking(c), cacheCall[c], found[c], cacheEnded[c])
         /\ RowsStay
<1>1. /\ connection' = [connection EXCEPT ![c] = AfterReset(c)]
      /\ AfterReset(c) \in ConnectionType /\ AfterLooking(c) \in Statements
  BY Values, NothingOpen DEF ResetRead, AfterReset, Reset, AfterLooking, Statements, CacheReading
<1>2. Turned(c, AfterReset(c), AfterLooking(c), cacheCall[c], found[c], cacheEnded[c])
  BY <1>1, Stays DEF ResetRead, Turned, Rests, ended, CacheEnds, CacheThrows, ToStatement, RollBack,
     EndTransaction, AfterLooking
<1>3. ProgramTypes' /\ OthersStay(c)
        /\ TurnsTo(c, AfterReset(c), AfterLooking(c), cacheCall[c], found[c], cacheEnded[c])
  <2>1. AfterLooking(c) \in Statements /\ cacheCall[c] \in CacheCallNames /\ found[c] \in Nat \union {Gone}
        /\ cacheEnded[c] \in {"never", "returned", "threw"} /\ AfterReset(c) \in ConnectionType
    BY <1>1, Values DEF Statements, CacheReading, CacheWriting, CacheCallNames
  <2> QED  BY <1>2, <2>1, TurnedFacts DEF CacheTypes
<1>4. FileTypes' /\ RowsStay /\ cacheAt[c] \in {"looked", "fetched"}
  BY <1>1 DEF ResetRead, RowsStay, CacheTypes, FileTypes, Rests, ended, CacheEnds, CacheThrows, AfterLooking
<1> QED  BY <1>3, <1>4 DEF CacheTypes

LEMMA FindThrowsDoes ==
  ASSUME CacheTypes, NEW c \in CachePrograms, FindThrows(c)
  PROVE  /\ CacheTypes' /\ OthersStay(c) /\ cacheAt[c] = "again"
         /\ TurnsTo(c, connection[c], "out", cacheCall[c], found[c], "threw")
         /\ RowsStay
<1>1. TRUE
  OBVIOUS
<1>2. Turned(c, connection[c], "out", cacheCall[c], found[c], "threw")
  BY <1>1, Stays DEF FindThrows, Turned, Rests, ended, CacheEnds, CacheThrows, ToStatement, RollBack,
     EndTransaction
<1>3. ProgramTypes' /\ OthersStay(c) /\ TurnsTo(c, connection[c], "out", cacheCall[c], found[c], "threw")
  <2>1. "out" \in Statements /\ cacheCall[c] \in CacheCallNames /\ found[c] \in Nat \union {Gone}
        /\ "threw" \in {"never", "returned", "threw"} /\ connection[c] \in ConnectionType
    BY <1>1, Values DEF Statements, CacheReading, CacheWriting, CacheCallNames
  <2> QED  BY <1>2, <2>1, TurnedFacts DEF CacheTypes
<1>4. FileTypes' /\ RowsStay /\ cacheAt[c] = "again"
  BY <1>1 DEF FindThrows, RowsStay, CacheTypes, FileTypes, Rests, ended, CacheEnds, CacheThrows
<1> QED  BY <1>3, <1>4 DEF CacheTypes

LEMMA SetRolledBackDoes ==
  ASSUME CacheTypes, NEW c \in CachePrograms, SetRolledBack(c)
  PROVE  /\ CacheTypes' /\ OthersStay(c) /\ cacheAt[c] = "commit" /\ cacheCall[c] = "late set"
         /\ TurnsTo(c, NoTransaction, "out", cacheCall[c], found[c], "returned")
         /\ RowsStay
<1>1. NoTransaction \in ConnectionType
  BY NothingOpen
<1>2. Turned(c, NoTransaction, "out", cacheCall[c], found[c], "returned")
  BY <1>1, Stays DEF SetRolledBack, Turned, Rests, ended, CacheEnds, CacheThrows, ToStatement, RollBack,
     EndTransaction
<1>3. ProgramTypes' /\ OthersStay(c) /\ TurnsTo(c, NoTransaction, "out", cacheCall[c], found[c], "returned")
  <2>1. "out" \in Statements /\ cacheCall[c] \in CacheCallNames /\ found[c] \in Nat \union {Gone}
        /\ "returned" \in {"never", "returned", "threw"} /\ NoTransaction \in ConnectionType
    BY <1>1, Values DEF Statements, CacheReading, CacheWriting, CacheCallNames
  <2> QED  BY <1>2, <2>1, TurnedFacts DEF CacheTypes
<1>4. FileTypes' /\ RowsStay /\ cacheAt[c] = "commit" /\ cacheCall[c] = "late set"
  BY <1>1 DEF SetRolledBack, RowsStay, CacheTypes, FileTypes, Rests, ended, CacheEnds, CacheThrows
<1> QED  BY <1>3, <1>4 DEF CacheTypes

LEMMA EraseBusyDoes ==
  ASSUME CacheTypes, NEW c \in CachePrograms, EraseBusy(c)
  PROVE  /\ CacheTypes' /\ OthersStay(c) /\ cacheAt[c] = "erase" /\ ~connection[c].open
         /\ TurnsTo(c, connection[c], "out", cacheCall[c], found[c], "threw")
         /\ RowsStay
<1>1. TRUE
  OBVIOUS
<1>2. Turned(c, connection[c], "out", cacheCall[c], found[c], "threw")
  BY <1>1, Stays DEF EraseBusy, Turned, Rests, ended, CacheEnds, CacheThrows, ToStatement, RollBack,
     EndTransaction
<1>3. ProgramTypes' /\ OthersStay(c) /\ TurnsTo(c, connection[c], "out", cacheCall[c], found[c], "threw")
  <2>1. "out" \in Statements /\ cacheCall[c] \in CacheCallNames /\ found[c] \in Nat \union {Gone}
        /\ "threw" \in {"never", "returned", "threw"} /\ connection[c] \in ConnectionType
    BY <1>1, Values DEF Statements, CacheReading, CacheWriting, CacheCallNames
  <2> QED  BY <1>2, <2>1, TurnedFacts DEF CacheTypes
<1>4. FileTypes' /\ RowsStay /\ cacheAt[c] = "erase" /\ ~connection[c].open
  BY <1>1 DEF EraseBusy, RowsStay, CacheTypes, FileTypes, Rests, ended, CacheEnds, CacheThrows
<1> QED  BY <1>3, <1>4 DEF CacheTypes

LEMMA CloseCacheDoes ==
  ASSUME CacheTypes, NEW c \in CachePrograms, CloseCache(c)
  PROVE  /\ CacheTypes' /\ OthersStay(c) /\ TRUE
         /\ TurnsTo(c, NoTransaction, "out", cacheCall[c], found[c], "never")
         /\ RowsStay
<1>1. NoTransaction \in ConnectionType
  BY NothingOpen
<1>2. Turned(c, NoTransaction, "out", cacheCall[c], found[c], "never")
  BY <1>1, Stays DEF CloseCache, Turned, Rests, ended, CacheEnds, CacheThrows, ToStatement, RollBack,
     EndTransaction
<1>3. ProgramTypes' /\ OthersStay(c) /\ TurnsTo(c, NoTransaction, "out", cacheCall[c], found[c], "never")
  <2>1. "out" \in Statements /\ cacheCall[c] \in CacheCallNames /\ found[c] \in Nat \union {Gone}
        /\ "never" \in {"never", "returned", "threw"} /\ NoTransaction \in ConnectionType
    BY <1>1, Values DEF Statements, CacheReading, CacheWriting, CacheCallNames
  <2> QED  BY <1>2, <2>1, TurnedFacts DEF CacheTypes
<1>4. FileTypes' /\ RowsStay /\ TRUE
  BY <1>1 DEF CloseCache, RowsStay, CacheTypes, FileTypes, Rests, ended, CacheEnds, CacheThrows
<1> QED  BY <1>3, <1>4 DEF CacheTypes

LEMMA Set_open == ASSUME NEW k \in ConnectionType, NEW v
  PROVE [k EXCEPT !.open = v] = Connection(v, k.lock, k.view)
BY DEF ConnectionType, Connection

LEMMA Set_lock == ASSUME NEW k \in ConnectionType, NEW v
  PROVE [k EXCEPT !.lock = v] = Connection(k.open, v, k.view)
BY DEF ConnectionType, Connection

LEMMA Set_view == ASSUME NEW k \in ConnectionType, NEW v
  PROVE [k EXCEPT !.view = v] = Connection(k.open, k.lock, v)
BY DEF ConnectionType, Connection

LEMMA OneLess == \A n \in Nat : n > 0 => n - 1 \in Nat
OBVIOUS

RowLeft == journal' = journal /\ cacheRow' = cacheRow /\ expected' = expected
  /\ cacheMishaps' = cacheMishaps \union {"left open"}
RowIs(row, count) == journal' = journal /\ cacheRow' = row /\ expected' = count
  /\ cacheMishaps' = cacheMishaps
RowCounted(c) == IF cacheCall[c] = "change" THEN Old(expected) + 1 ELSE Written(c)
AfterBegin(c) == IF cacheCall[c] = "assign" THEN "count" ELSE "write"

LEMMA BeginsDoes ==
  ASSUME CacheTypes, NEW c \in CachePrograms, BeginTransaction(c), ~connection[c].open
  PROVE  /\ CacheTypes' /\ OthersStay(c) /\ cacheAt[c] = "begin"
         /\ TurnsTo(c, Connection(TRUE, connection[c].lock, connection[c].view), AfterBegin(c),
                cacheCall[c], found[c], cacheEnded[c])
         /\ RowsStay
<1>1. /\ connection' = [connection EXCEPT ![c] = Connection(TRUE, connection[c].lock, connection[c].view)]
      /\ Connection(TRUE, connection[c].lock, connection[c].view) \in ConnectionType
  <2> DEFINE now == TRUE
             k == Connection(now, connection[c].lock, connection[c].view)
  <2> HIDE DEF now
  <2>1. [connection[c] EXCEPT !.open = now] = k
    BY Values, Set_open
  <2> HIDE DEF k
  <2>2. [connection EXCEPT ![c].open = now] = [connection EXCEPT ![c] = [connection[c] EXCEPT !.open = now]]
    OBVIOUS
  <2>3. connection' = [connection EXCEPT ![c] = k]
    BY <2>1, <2>2 DEF BeginTransaction, now
  <2>4. Connection(TRUE, connection[c].lock, connection[c].view) \in ConnectionType
    BY Values DEF Connection, ConnectionType
  <2> QED  BY <2>3, <2>4 DEF k, now

<1>2. Turned(c, Connection(TRUE, connection[c].lock, connection[c].view), AfterBegin(c), cacheCall[c],
          found[c], cacheEnded[c])
  BY <1>1, Stays DEF BeginTransaction, Turned, Rests, ended, CacheEnds, CacheThrows, ToStatement, RollBack,
     EndTransaction, AfterBegin
<1>3. ProgramTypes' /\ OthersStay(c)
        /\ TurnsTo(c, Connection(TRUE, connection[c].lock, connection[c].view), AfterBegin(c),
               cacheCall[c], found[c], cacheEnded[c])
  <2>1. AfterBegin(c) \in Statements /\ cacheCall[c] \in CacheCallNames /\ found[c] \in Nat \union {Gone}
        /\ cacheEnded[c] \in {"never", "returned", "threw"}
             /\ Connection(TRUE, connection[c].lock, connection[c].view) \in ConnectionType
    BY <1>1, Values DEF AfterBegin, Statements, CacheReading, CacheWriting, CacheCallNames
  <2> QED  BY <1>2, <2>1, TurnedFacts DEF CacheTypes
<1>4. FileTypes' /\ RowsStay /\ cacheAt[c] = "begin"
  BY <1>1, Values DEF BeginTransaction, RowsStay, RowLeft, CacheTypes, FileTypes, Rests, ended, CacheEnds,
     CacheThrows, AfterBegin
<1> QED  BY <1>3, <1>4 DEF CacheTypes

LEMMA BeginThrowsDoes ==
  ASSUME CacheTypes, NEW c \in CachePrograms, BeginTransaction(c), connection[c].open
  PROVE  /\ CacheTypes' /\ OthersStay(c) /\ cacheAt[c] = "begin"
         /\ TurnsTo(c, connection[c], "out", cacheCall[c], found[c], "threw")
         /\ RowsStay
<1>1. TRUE
  OBVIOUS
<1>2. Turned(c, connection[c], "out", cacheCall[c], found[c], "threw")
  BY <1>1, Stays DEF BeginTransaction, Turned, Rests, ended, CacheEnds, CacheThrows, ToStatement, RollBack,
     EndTransaction
<1>3. ProgramTypes' /\ OthersStay(c) /\ TurnsTo(c, connection[c], "out", cacheCall[c], found[c], "threw")
  <2>1. "out" \in Statements /\ cacheCall[c] \in CacheCallNames /\ found[c] \in Nat \union {Gone}
        /\ "threw" \in {"never", "returned", "threw"} /\ connection[c] \in ConnectionType
    BY <1>1, Values DEF AfterBegin, Statements, CacheReading, CacheWriting, CacheCallNames
  <2> QED  BY <1>2, <2>1, TurnedFacts DEF CacheTypes
<1>4. FileTypes' /\ RowsStay /\ cacheAt[c] = "begin"
  BY <1>1, Values DEF BeginTransaction, RowsStay, RowLeft, CacheTypes, FileTypes, Rests, ended, CacheEnds,
     CacheThrows
<1> QED  BY <1>3, <1>4 DEF CacheTypes

LEMMA WritesDoes ==
  ASSUME CacheTypes, NEW c \in CachePrograms, WriteRow(c), MayWrite(c)
  PROVE  /\ CacheTypes' /\ OthersStay(c) /\ cacheAt[c] = "write"
         /\ TurnsTo(c, Connection(connection[c].open, "reserved", Written(c)), "commit", cacheCall[c],
                found[c], cacheEnded[c])
         /\ RowsStay
<1>1. /\ connection' = [connection EXCEPT ![c] = Connection(connection[c].open, "reserved", Written(c))]
      /\ Connection(connection[c].open, "reserved", Written(c)) \in ConnectionType
  <2> DEFINE k == Connection(connection[c].open, connection[c].lock, Written(c))
             view == Written(c)
  <2>1. [connection[c] EXCEPT !.view = view] = k
    BY Values DEF ConnectionType, Connection
  <2>2. [k EXCEPT !.lock = "reserved"] = Connection(connection[c].open, "reserved", Written(c))
    BY DEF Connection
  <2>3. connection' = [[connection EXCEPT ![c].view = view] EXCEPT ![c].lock = "reserved"]
    BY DEF WriteRow
  <2> HIDE DEF k, view
  <2>4. [connection EXCEPT ![c].view = view] = [connection EXCEPT ![c] = [connection[c] EXCEPT !.view = view]]
    OBVIOUS
  <2>5. [[connection EXCEPT ![c] = k] EXCEPT ![c].lock = "reserved"]
          = [connection EXCEPT ![c] = [k EXCEPT !.lock = "reserved"]]
    BY DEF CacheTypes, ProgramTypes
  <2>6. connection' = [connection EXCEPT ![c] = Connection(connection[c].open, "reserved", Written(c))]
    BY <2>1, <2>2, <2>3, <2>4, <2>5
  <2>7. Connection(connection[c].open, "reserved", Written(c)) \in ConnectionType
    BY Values DEF Connection, ConnectionType
  <2> QED  BY <2>6, <2>7

<1>2. Turned(c, Connection(connection[c].open, "reserved", Written(c)), "commit", cacheCall[c], found[c],
          cacheEnded[c])
  BY <1>1, Stays DEF WriteRow, Turned, Rests, ended, CacheEnds, CacheThrows, ToStatement, RollBack,
     EndTransaction
<1>3. ProgramTypes' /\ OthersStay(c)
        /\ TurnsTo(c, Connection(connection[c].open, "reserved", Written(c)), "commit", cacheCall[c],
               found[c], cacheEnded[c])
  <2>1. "commit" \in Statements /\ cacheCall[c] \in CacheCallNames /\ found[c] \in Nat \union {Gone}
        /\ cacheEnded[c] \in {"never", "returned", "threw"}
             /\ Connection(connection[c].open, "reserved", Written(c)) \in ConnectionType
    BY <1>1, Values DEF AfterBegin, Statements, CacheReading, CacheWriting, CacheCallNames
  <2> QED  BY <1>2, <2>1, TurnedFacts DEF CacheTypes
<1>4. FileTypes' /\ RowsStay /\ cacheAt[c] = "write"
  BY <1>1, Values DEF WriteRow, RowsStay, RowLeft, CacheTypes, FileTypes, Rests, ended, CacheEnds,
     CacheThrows
<1> QED  BY <1>3, <1>4 DEF CacheTypes

LEMMA WriteBusyDoes ==
  ASSUME CacheTypes, NEW c \in CachePrograms, WriteRow(c), ~MayWrite(c)
  PROVE  /\ CacheTypes' /\ OthersStay(c) /\ cacheAt[c] = "write"
         /\ TurnsTo(c, NoTransaction, "out", cacheCall[c], found[c], "threw")
         /\ RowsStay
<1>1. NoTransaction \in ConnectionType
  BY NothingOpen
<1>2. Turned(c, NoTransaction, "out", cacheCall[c], found[c], "threw")
  BY <1>1, Stays DEF WriteRow, Turned, Rests, ended, CacheEnds, CacheThrows, ToStatement, RollBack,
     EndTransaction
<1>3. ProgramTypes' /\ OthersStay(c) /\ TurnsTo(c, NoTransaction, "out", cacheCall[c], found[c], "threw")
  <2>1. "out" \in Statements /\ cacheCall[c] \in CacheCallNames /\ found[c] \in Nat \union {Gone}
        /\ "threw" \in {"never", "returned", "threw"} /\ NoTransaction \in ConnectionType
    BY <1>1, Values DEF AfterBegin, Statements, CacheReading, CacheWriting, CacheCallNames
  <2> QED  BY <1>2, <2>1, TurnedFacts DEF CacheTypes
<1>4. FileTypes' /\ RowsStay /\ cacheAt[c] = "write"
  BY <1>1, Values DEF WriteRow, RowsStay, RowLeft, CacheTypes, FileTypes, Rests, ended, CacheEnds,
     CacheThrows
<1> QED  BY <1>3, <1>4 DEF CacheTypes

AfterCommit(c) == IF cacheCall[c] = "create" THEN "look" ELSE "out"
CreatedNow(c) == IF cacheCall[c] = "create" THEN "created" ELSE cacheCall[c]
ReturnedNow(c) == IF cacheCall[c] = "create" THEN cacheEnded[c] ELSE "returned"
LEMMA CommitCounts == ASSUME CacheTypes, NEW c \in CachePrograms
  PROVE  connection[c].view \in Nat \union {Gone} /\ RowCounted(c) \in Nat \union {Gone}
<1>1. connection[c].view \in Nat \union {Gone}
  BY Values DEF ConnectionType
<1>2. Old(expected) + 1 \in Nat
  BY DEF Old, Gone, CacheTypes, FileTypes
<1> QED  BY <1>1, <1>2, Values DEF RowCounted

LEMMA CommitRowDoes ==
  ASSUME CacheTypes, NEW c \in CachePrograms, CommitRow(c), TRUE
  PROVE  /\ CacheTypes' /\ OthersStay(c) /\ cacheAt[c] = "commit" /\ cacheCall[c] # "late set"
              /\ MayCommit(c)
         /\ TurnsTo(c, NoTransaction, AfterCommit(c), CreatedNow(c), found[c], ReturnedNow(c))
         /\ RowIs(connection[c].view, RowCounted(c))
<1>1. /\ NoTransaction \in ConnectionType /\ AfterCommit(c) \in Statements
           /\ CreatedNow(c) \in CacheCallNames
      /\ ReturnedNow(c) \in {"never", "returned", "threw"}
  BY NothingOpen, Values DEF AfterCommit, CreatedNow, ReturnedNow, Statements, CacheReading, CacheCallNames
<1>2. Turned(c, NoTransaction, AfterCommit(c), CreatedNow(c), found[c], ReturnedNow(c))
  BY <1>1, Stays DEF CommitRow, Turned, Rests, ended, CacheEnds, CacheThrows, ToStatement, RollBack,
     EndTransaction, AfterCommit, CreatedNow, ReturnedNow
<1>3. ProgramTypes' /\ OthersStay(c)
        /\ TurnsTo(c, NoTransaction, AfterCommit(c), CreatedNow(c), found[c], ReturnedNow(c))
  <2>1. AfterCommit(c) \in Statements /\ CreatedNow(c) \in CacheCallNames /\ found[c] \in Nat \union {Gone}
        /\ ReturnedNow(c) \in {"never", "returned", "threw"} /\ NoTransaction \in ConnectionType
    BY <1>1, Values DEF AfterBegin, Statements, CacheReading, CacheWriting, CacheCallNames
  <2> QED  BY <1>2, <2>1, TurnedFacts DEF CacheTypes
<1>4. FileTypes' /\ RowIs(connection[c].view, RowCounted(c)) /\ cacheAt[c] = "commit"
        /\ cacheCall[c] # "late set" /\ MayCommit(c)
  BY <1>1, Values, CommitCounts DEF CommitRow, RowIs, RowCounted, CacheTypes, FileTypes, Rests, ended,
     CacheEnds, CacheThrows, AfterCommit, CreatedNow, ReturnedNow
<1> QED  BY <1>3, <1>4 DEF CacheTypes

LEMMA CommitWaitsDoes ==
  ASSUME CacheTypes, NEW c \in CachePrograms, CommitBusy(c),
         UNCHANGED <<cacheAt, cacheEnded, cacheMishaps, cacheRow, cacheCall, found, expected>>
  PROVE  /\ CacheTypes' /\ OthersStay(c) /\ cacheAt[c] = "commit" /\ ~MayCommit(c)
         /\ TurnsTo(c, Connection(connection[c].open, "pending", connection[c].view), cacheAt[c],
                cacheCall[c], found[c], cacheEnded[c])
         /\ RowsStay
<1>1. /\ connection' = [connection EXCEPT ![c] = Connection(connection[c].open, "pending",
             connection[c].view)]
      /\ Connection(connection[c].open, "pending", connection[c].view) \in ConnectionType
  <2> DEFINE now == "pending"
             k == Connection(connection[c].open, now, connection[c].view)
  <2> HIDE DEF now
  <2>1. [connection[c] EXCEPT !.lock = now] = k
    BY Values, Set_lock
  <2> HIDE DEF k
  <2>2. [connection EXCEPT ![c].lock = now] = [connection EXCEPT ![c] = [connection[c] EXCEPT !.lock = now]]
    OBVIOUS
  <2>3. connection' = [connection EXCEPT ![c] = k]
    BY <2>1, <2>2 DEF CommitBusy, now
  <2>4. Connection(connection[c].open, "pending", connection[c].view) \in ConnectionType
    BY Values DEF Connection, ConnectionType
  <2> QED  BY <2>3, <2>4 DEF k, now

<1>2. Turned(c, Connection(connection[c].open, "pending", connection[c].view), cacheAt[c], cacheCall[c],
          found[c], cacheEnded[c])
  BY <1>1, Stays DEF CommitBusy, Turned, Rests, ended, CacheEnds, CacheThrows, ToStatement, RollBack,
     EndTransaction
<1>3. ProgramTypes' /\ OthersStay(c)
        /\ TurnsTo(c, Connection(connection[c].open, "pending", connection[c].view), cacheAt[c],
               cacheCall[c], found[c], cacheEnded[c])
  <2>1. cacheAt[c] \in Statements /\ cacheCall[c] \in CacheCallNames /\ found[c] \in Nat \union {Gone}
        /\ cacheEnded[c] \in {"never", "returned", "threw"}
             /\ Connection(connection[c].open, "pending", connection[c].view) \in ConnectionType
    BY <1>1, Values DEF AfterBegin, Statements, CacheReading, CacheWriting, CacheCallNames
  <2> QED  BY <1>2, <2>1, TurnedFacts DEF CacheTypes
<1>4. FileTypes' /\ RowsStay /\ cacheAt[c] = "commit" /\ ~MayCommit(c)
  BY <1>1, Values DEF CommitBusy, RowsStay, RowLeft, CacheTypes, FileTypes, Rests, ended, CacheEnds,
     CacheThrows
<1> QED  BY <1>3, <1>4 DEF CacheTypes

LEMMA CommitThrowsDoes ==
  ASSUME CacheTypes, NEW c \in CachePrograms, CommitBusy(c), CacheThrows(c),
         cacheMishaps' = cacheMishaps \union {"left open"}
  PROVE  /\ CacheTypes' /\ OthersStay(c) /\ cacheAt[c] = "commit" /\ ~MayCommit(c)
         /\ TurnsTo(c, Connection(connection[c].open, "pending", connection[c].view), "out", cacheCall[c],
                found[c], "threw")
         /\ RowLeft
<1>1. /\ connection' = [connection EXCEPT ![c] = Connection(connection[c].open, "pending",
             connection[c].view)]
      /\ Connection(connection[c].open, "pending", connection[c].view) \in ConnectionType
  <2> DEFINE now == "pending"
             k == Connection(connection[c].open, now, connection[c].view)
  <2> HIDE DEF now
  <2>1. [connection[c] EXCEPT !.lock = now] = k
    BY Values, Set_lock
  <2> HIDE DEF k
  <2>2. [connection EXCEPT ![c].lock = now] = [connection EXCEPT ![c] = [connection[c] EXCEPT !.lock = now]]
    OBVIOUS
  <2>3. connection' = [connection EXCEPT ![c] = k]
    BY <2>1, <2>2 DEF CommitBusy, now
  <2>4. Connection(connection[c].open, "pending", connection[c].view) \in ConnectionType
    BY Values DEF Connection, ConnectionType
  <2> QED  BY <2>3, <2>4 DEF k, now

<1>2. Turned(c, Connection(connection[c].open, "pending", connection[c].view), "out", cacheCall[c],
          found[c], "threw")
  BY <1>1, Stays DEF CommitBusy, Turned, Rests, ended, CacheEnds, CacheThrows, ToStatement, RollBack,
     EndTransaction
<1>3. ProgramTypes' /\ OthersStay(c)
        /\ TurnsTo(c, Connection(connection[c].open, "pending", connection[c].view), "out", cacheCall[c],
               found[c], "threw")
  <2>1. "out" \in Statements /\ cacheCall[c] \in CacheCallNames /\ found[c] \in Nat \union {Gone}
        /\ "threw" \in {"never", "returned", "threw"}
             /\ Connection(connection[c].open, "pending", connection[c].view) \in ConnectionType
    BY <1>1, Values DEF AfterBegin, Statements, CacheReading, CacheWriting, CacheCallNames
  <2> QED  BY <1>2, <2>1, TurnedFacts DEF CacheTypes
<1>4. FileTypes' /\ RowLeft /\ cacheAt[c] = "commit" /\ ~MayCommit(c)
  BY <1>1, Values DEF CommitBusy, RowsStay, RowLeft, CacheTypes, FileTypes, Rests, ended, CacheEnds,
     CacheThrows
<1> QED  BY <1>3, <1>4 DEF CacheTypes

LEMMA ErasesDoes ==
  ASSUME CacheTypes, NEW c \in CachePrograms, EraseRow(c), ~connection[c].open
  PROVE  /\ CacheTypes' /\ OthersStay(c) /\ cacheAt[c] = "erase"
         /\ TurnsTo(c, connection[c], "out", cacheCall[c], found[c], "returned")
         /\ RowIs(Gone, Gone)
<1>1. TRUE
  OBVIOUS
<1>2. Turned(c, connection[c], "out", cacheCall[c], found[c], "returned")
  BY <1>1, Stays DEF EraseRow, Turned, Rests, ended, CacheEnds, CacheThrows, ToStatement, RollBack,
     EndTransaction, RowIs
<1>3. ProgramTypes' /\ OthersStay(c) /\ TurnsTo(c, connection[c], "out", cacheCall[c], found[c], "returned")
  <2>1. "out" \in Statements /\ cacheCall[c] \in CacheCallNames /\ found[c] \in Nat \union {Gone}
        /\ "returned" \in {"never", "returned", "threw"} /\ connection[c] \in ConnectionType
    BY <1>1, Values DEF AfterBegin, Statements, CacheReading, CacheWriting, CacheCallNames
  <2> QED  BY <1>2, <2>1, TurnedFacts DEF CacheTypes
<1>4. FileTypes' /\ RowIs(Gone, Gone) /\ cacheAt[c] = "erase"
  BY <1>1, Values DEF EraseRow, RowsStay, RowLeft, CacheTypes, FileTypes, Rests, ended, CacheEnds,
     CacheThrows, RowIs
<1> QED  BY <1>3, <1>4 DEF CacheTypes

LEMMA EraseLeftDoes ==
  ASSUME CacheTypes, NEW c \in CachePrograms, EraseRow(c), connection[c].open
  PROVE  /\ CacheTypes' /\ OthersStay(c) /\ cacheAt[c] = "erase"
         /\ TurnsTo(c, Connection(connection[c].open, connection[c].lock, Gone), "out", cacheCall[c],
                found[c], "returned")
         /\ RowIs(cacheRow, Gone)
<1>1. /\ connection' = [connection EXCEPT ![c] = Connection(connection[c].open, connection[c].lock, Gone)]
      /\ Connection(connection[c].open, connection[c].lock, Gone) \in ConnectionType
  <2> DEFINE now == Gone
             k == Connection(connection[c].open, connection[c].lock, now)
  <2> HIDE DEF now
  <2>1. [connection[c] EXCEPT !.view = now] = k
    BY Values, Set_view
  <2> HIDE DEF k
  <2>2. [connection EXCEPT ![c].view = now] = [connection EXCEPT ![c] = [connection[c] EXCEPT !.view = now]]
    OBVIOUS
  <2>3. connection' = [connection EXCEPT ![c] = k]
    BY <2>1, <2>2 DEF EraseRow, now
  <2>4. Connection(connection[c].open, connection[c].lock, Gone) \in ConnectionType
    BY Values DEF Connection, ConnectionType
  <2> QED  BY <2>3, <2>4 DEF k, now

<1>2. Turned(c, Connection(connection[c].open, connection[c].lock, Gone), "out", cacheCall[c], found[c],
          "returned")
  BY <1>1, Stays DEF EraseRow, Turned, Rests, ended, CacheEnds, CacheThrows, ToStatement, RollBack,
     EndTransaction, RowIs
<1>3. ProgramTypes' /\ OthersStay(c)
        /\ TurnsTo(c, Connection(connection[c].open, connection[c].lock, Gone), "out", cacheCall[c],
               found[c], "returned")
  <2>1. "out" \in Statements /\ cacheCall[c] \in CacheCallNames /\ found[c] \in Nat \union {Gone}
        /\ "returned" \in {"never", "returned", "threw"}
             /\ Connection(connection[c].open, connection[c].lock, Gone) \in ConnectionType
    BY <1>1, Values DEF AfterBegin, Statements, CacheReading, CacheWriting, CacheCallNames
  <2> QED  BY <1>2, <2>1, TurnedFacts DEF CacheTypes
<1>4. FileTypes' /\ RowIs(cacheRow, Gone) /\ cacheAt[c] = "erase"
  BY <1>1, Values DEF EraseRow, RowsStay, RowLeft, CacheTypes, FileTypes, Rests, ended, CacheEnds,
     CacheThrows, RowIs
<1> QED  BY <1>3, <1>4 DEF CacheTypes

LEMMA FindEndsDoes ==
  ASSUME CacheTypes, NEW c \in CachePrograms, FindEnds(c)
  PROVE  /\ CacheTypes' /\ OthersStay(c) /\ cacheAt[c] = "again" /\ RowsStay
         /\ \/ /\ cacheCall[c] = "change" \/ (cacheCall[c] = "create" /\ found[c] = Gone)
               /\ TurnsTo(c, connection[c], "begin", cacheCall[c], found[c], cacheEnded[c])
            \/ /\ cacheCall[c] = "created" /\ found[c] = Gone
               /\ TurnsTo(c, connection[c], "look", cacheCall[c], found[c], cacheEnded[c])
            \/ /\ cacheCall[c] = "get" \/ (cacheCall[c] \in {"create", "created"} /\ found[c] # Gone)
               /\ TurnsTo(c, connection[c], "out", cacheCall[c], found[c], "returned")
<1>1. \/ (cacheCall[c] = "change" \/ (cacheCall[c] = "create" /\ found[c] = Gone))
           /\ ToStatement(c, "begin") /\ UNCHANGED cacheEnded
      \/ (cacheCall[c] = "created" /\ found[c] = Gone) /\ ToStatement(c, "look") /\ UNCHANGED cacheEnded
      \/ (cacheCall[c] = "get" \/ (cacheCall[c] \in {"create", "created"} /\ found[c] # Gone))
           /\ CacheEnds(c, "returned")
  BY DEF FindEnds
<1>2. FileTypes' /\ RowsStay /\ cacheAt[c] = "again" /\ UNCHANGED <<connection, cacheCall, found>>
  BY DEF FindEnds, RowsStay, CacheTypes, FileTypes, Rests
<1>3. CASE (cacheCall[c] = "change" \/ (cacheCall[c] = "create" /\ found[c] = Gone))
        /\ ToStatement(c, "begin") /\ UNCHANGED cacheEnded
  <2>1. Turned(c, connection[c], "begin", cacheCall[c], found[c], cacheEnded[c])
    BY <1>2, <1>3, Stays DEF Turned, ToStatement, CacheEnds
  <2>2. "begin" \in Statements /\ cacheEnded[c] \in {"never", "returned", "threw"}
        /\ cacheCall[c] \in CacheCallNames /\ found[c] \in Nat \union {Gone}
             /\ connection[c] \in ConnectionType
    BY Values DEF Statements, CacheReading, CacheWriting
  <2>3. ProgramTypes' /\ OthersStay(c)
          /\ TurnsTo(c, connection[c], "begin", cacheCall[c], found[c], cacheEnded[c])
    BY <2>1, <2>2, TurnedFacts DEF CacheTypes
  <2> QED  BY <1>2, <1>3, <2>3 DEF CacheTypes
<1>4. CASE (cacheCall[c] = "created" /\ found[c] = Gone) /\ ToStatement(c, "look") /\ UNCHANGED cacheEnded
  <2>1. Turned(c, connection[c], "look", cacheCall[c], found[c], cacheEnded[c])
    BY <1>2, <1>4, Stays DEF Turned, ToStatement, CacheEnds
  <2>2. "look" \in Statements /\ cacheEnded[c] \in {"never", "returned", "threw"}
        /\ cacheCall[c] \in CacheCallNames /\ found[c] \in Nat \union {Gone}
             /\ connection[c] \in ConnectionType
    BY Values DEF Statements, CacheReading, CacheWriting
  <2>3. ProgramTypes' /\ OthersStay(c)
          /\ TurnsTo(c, connection[c], "look", cacheCall[c], found[c], cacheEnded[c])
    BY <2>1, <2>2, TurnedFacts DEF CacheTypes
  <2> QED  BY <1>2, <1>4, <2>3 DEF CacheTypes
<1>5. CASE (cacheCall[c] = "get" \/ (cacheCall[c] \in {"create", "created"} /\ found[c] # Gone))
        /\ CacheEnds(c, "returned")
  <2>1. Turned(c, connection[c], "out", cacheCall[c], found[c], "returned")
    BY <1>2, <1>5, Stays DEF Turned, ToStatement, CacheEnds
  <2>2. "out" \in Statements /\ "returned" \in {"never", "returned", "threw"}
        /\ cacheCall[c] \in CacheCallNames /\ found[c] \in Nat \union {Gone}
             /\ connection[c] \in ConnectionType
    BY Values DEF Statements, CacheReading, CacheWriting
  <2>3. ProgramTypes' /\ OthersStay(c)
          /\ TurnsTo(c, connection[c], "out", cacheCall[c], found[c], "returned")
    BY <2>1, <2>2, TurnedFacts DEF CacheTypes
  <2> QED  BY <1>2, <1>5, <2>3 DEF CacheTypes
<1> QED  BY <1>1, <1>3, <1>4, <1>5

RowKept == journal' = journal /\ cacheRow' = cacheRow /\ expected' = expected

(* A call notes those in progress that it may meet.                         *)
CacheBusy(c) == {d \in CachePrograms \ {c} : cacheAt[d] # "out"}
Notes(c, does) ==
  /\ cacheMishaps \subseteq cacheMishaps'
       /\ cacheMishaps' \subseteq cacheMishaps \union {"together", "erased"}
  /\ \A d \in CacheBusy(c) :
       /\ (cacheCall[d] = "change" /\ does \in Changing) \/ (does = "change" /\ cacheCall[d] \in Changing)
            => "together" \in cacheMishaps'
       /\ (cacheCall[d] = "erase" /\ does \in Finding) \/ (does = "erase" /\ cacheCall[d] \in Finding)
            => "erased" \in cacheMishaps'
FirstStatement(does) ==
  CASE does \in Finding -> "look" [] does = "erase" -> "erase" [] OTHER -> "begin"
CacheCallNow == {"get", "create", "change", "set", "late set", "assign", "erase"}

LEMMA CallCacheDoes ==
  ASSUME CacheTypes, NEW c \in CachePrograms, CallCache(c)
  PROVE  /\ CacheTypes' /\ OthersStay(c) /\ cacheAt[c] = "out"
         /\ \E does \in CacheCallNow :
              TurnsTo(c, connection[c], FirstStatement(does), does, Gone, "never") /\ Notes(c, does)
         /\ RowKept
<1> DEFINE busy == {d \in CachePrograms \ {c} : cacheAt[d] # "out"}
<1>1. PICK does \in {"get", "create", "change", "set", "late set", "assign", "erase"} :
        /\ cacheCall' = [cacheCall EXCEPT ![c] = does]
        /\ ToStatement(c, CASE does \in Finding -> "look"
                            [] does = "erase" -> "erase"
                            [] OTHER -> "begin")
        /\ cacheMishaps' = cacheMishaps
             \union {"together" : d \in {d \in busy : \/ cacheCall[d] = "change" /\ does \in Changing
                                                      \/ does = "change" /\ cacheCall[d] \in Changing}}
             \union {"erased" : d \in {d \in busy : \/ cacheCall[d] = "erase" /\ does \in Finding
                                                    \/ does = "erase" /\ cacheCall[d] \in Finding}}
  BY DEF CallCache
<1>2. Turned(c, connection[c], FirstStatement(does), does, Gone, "never")
  BY <1>1, Stays DEF CallCache, Turned, ToStatement, FirstStatement
<1>3. FirstStatement(does) \in Statements /\ does \in CacheCallNames /\ Gone \in Nat \union {Gone}
      /\ "never" \in {"never", "returned", "threw"} /\ connection[c] \in ConnectionType
  BY <1>1, Values DEF FirstStatement, Statements, CacheReading, CacheWriting, CacheCallNames, CacheCallNow
<1>4. ProgramTypes' /\ OthersStay(c) /\ TurnsTo(c, connection[c], FirstStatement(does), does, Gone, "never")
  BY <1>2, <1>3, TurnedFacts DEF CacheTypes
<1>5. Notes(c, does)
  <2> DEFINE met(d) == (cacheCall[d] = "change" /\ does \in Changing) \/ (does = "change" /\ cacheCall[d] \in Changing)
             lost(d) == (cacheCall[d] = "erase" /\ does \in Finding) \/ (does = "erase" /\ cacheCall[d] \in Finding)
  <2>1. cacheMishaps' = cacheMishaps \union {"together" : d \in {d \in busy : met(d)}}
                                     \union {"erased" : d \in {d \in busy : lost(d)}}
    BY <1>1
  <2> HIDE DEF met, lost
  <2>2. /\ cacheMishaps \subseteq cacheMishaps'
        /\ cacheMishaps' \subseteq cacheMishaps \union {"together", "erased"}
        /\ \A d \in CacheBusy(c) : (met(d) => "together" \in cacheMishaps')
                                 /\ (lost(d) => "erased" \in cacheMishaps')
    BY <2>1 DEF CacheBusy
  <2> QED  BY <2>2 DEF Notes, met, lost
<1>6. FileTypes' /\ cacheAt[c] = "out" /\ RowKept
  <2>1. cacheCallsLeft' \in [CachePrograms -> Nat]
    <3>1. cacheCallsLeft' = [cacheCallsLeft EXCEPT ![c] = cacheCallsLeft[c] - 1] /\ cacheCallsLeft[c] > 0
      BY DEF CallCache
    <3>2. cacheCallsLeft \in [CachePrograms -> Nat] /\ cacheCallsLeft[c] \in Nat
      BY DEF CacheTypes, FileTypes
    <3>3. cacheCallsLeft[c] - 1 \in Nat
      BY <3>1, <3>2, OneLess
    <3> QED  BY <3>1, <3>2, <3>3
  <2> QED  BY <2>1 DEF RowKept, CallCache, CacheTypes, FileTypes, Rests
<1> QED  BY <1>1, <1>4, <1>5, <1>6 DEF CacheTypes, CacheCallNow


LEMMA ConnFields == \A a, b, v :
  Connection(a, b, v).open = a /\ Connection(a, b, v).lock = b /\ Connection(a, b, v).view = v
BY DEF Connection

LEMMA NoTransactionFields == NoTransaction.open = FALSE /\ NoTransaction.lock = "none"
  /\ NoTransaction.view = Gone
BY DEF NoTransaction

LEMMA SharedFields == \A c \in CachePrograms :
  /\ SharedBy(c).open = connection[c].open
  /\ SharedBy(c).lock = IF connection[c].lock = "none" THEN "shared" ELSE connection[c].lock
  /\ SharedBy(c).view = InView(c)
BY ConnFields DEF SharedBy

LEMMA ResetFields == \A c \in CachePrograms :
  /\ AfterReset(c).open = IF connection[c].open THEN connection[c].open ELSE FALSE
  /\ AfterReset(c).lock = IF connection[c].open THEN connection[c].lock ELSE "none"
  /\ AfterReset(c).view = IF connection[c].open THEN connection[c].view ELSE Gone
BY NoTransactionFields DEF AfterReset

(* The programs that do not move, when the row stays, is set, or is erased. *)
LEMMA OthersKeep ==
  ASSUME ProgramInv, NEW c \in CachePrograms, OthersStay(c), cacheMishaps \subseteq cacheMishaps'
  PROVE  \A d \in CachePrograms \ {c} : (StatementOf(d) /\ ConnectionOf(d) /\ FoundOf(d))'
<1> SUFFICES ASSUME NEW d \in CachePrograms \ {c}
             PROVE  (StatementOf(d) /\ ConnectionOf(d) /\ FoundOf(d))'
  OBVIOUS
<1>1. /\ connection'[d] = connection[d] /\ cacheAt'[d] = cacheAt[d] /\ cacheCall'[d] = cacheCall[d]
      /\ found'[d] = found[d] /\ cacheEnded'[d] = cacheEnded[d]
  BY DEF OthersStay
<1>2. StatementOf(d) /\ ConnectionOf(d) /\ FoundOf(d)
  BY DEF ProgramInv
<1>3. StatementOf(d)'
  BY <1>1, <1>2 DEF StatementOf
<1>4. LeftBehind(d) => LeftBehind(d)'
  BY <1>1 DEF LeftBehind
<1>5. ConnectionAt(d) => ConnectionAt(d)'
  BY <1>1 DEF ConnectionAt, Written
<1>6. FoundOf(d)'
  BY <1>1, <1>2 DEF FoundOf
<1> QED  BY <1>2, <1>3, <1>4, <1>5, <1>6 DEF ConnectionOf

LEMMA OthersSee ==
  ASSUME ProgramInv, NEW c \in CachePrograms, OthersStay(c), cacheMishaps \subseteq cacheMishaps',
         cacheRow' = cacheRow
  PROVE  \A d \in CachePrograms \ {c} : (StillThere(d) /\ CountOf(d))'
<1> SUFFICES ASSUME NEW d \in CachePrograms \ {c} PROVE (StillThere(d) /\ CountOf(d))'
  OBVIOUS
<1>1. /\ connection'[d] = connection[d] /\ cacheAt'[d] = cacheAt[d] /\ cacheCall'[d] = cacheCall[d]
      /\ found'[d] = found[d]
  BY DEF OthersStay
<1>2. StillThere(d) /\ CountOf(d)
  BY DEF ProgramInv
<1>3. StillThere(d)'
  BY <1>1, <1>2 DEF StillThere
<1>4. CountOf(d)'
  BY <1>1, <1>2 DEF CountOf, Countable, Old
<1> QED  BY <1>3, <1>4

(* A program that writes meets no change that goes on with the old row,     *)
(* and one that erases no reader, or it is noted.                           *)
LEMMA OthersMeet ==
  ASSUME ProgramInv, PairInv, NEW c \in CachePrograms, OthersStay(c),
         cacheMishaps \subseteq cacheMishaps', cacheAt[c] # "out", cacheCall[c] \in Changing,
         cacheRow' # Gone \/ cacheCall[c] = "erase"
  PROVE  \A d \in CachePrograms \ {c} : (StillThere(d) /\ CountOf(d))'
<1> SUFFICES ASSUME NEW d \in CachePrograms \ {c} PROVE (StillThere(d) /\ CountOf(d))'
  OBVIOUS
<1>1. /\ connection'[d] = connection[d] /\ cacheAt'[d] = cacheAt[d] /\ cacheCall'[d] = cacheCall[d]
      /\ found'[d] = found[d]
  BY DEF OthersStay
<1>2. StatementOf(d)
  BY DEF ProgramInv
<1>3. NotedOf(c, d) /\ NotedOf(d, c)
  BY DEF PairInv
<1>4. StillThere(d)'
  <2>1. cacheAt[d] \in {"looked", "fetch"} => cacheCall[d] \in Finding /\ cacheAt[d] # "out"
    BY <1>2 DEF StatementOf, CacheReading
  <2>2. cacheCall[c] = "erase" /\ cacheAt[d] \in {"looked", "fetch"} => "erased" \in cacheMishaps
    BY <2>1, <1>3 DEF NotedOf
  <2> QED  BY <1>1, <2>2 DEF StillThere
<1>5. CountOf(d)'
  <2>1. cacheAt[d] # "out" /\ cacheCall[d] = "change" => "together" \in cacheMishaps
    BY <1>3 DEF NotedOf
  <2> QED  BY <1>1, <2>1 DEF CountOf, Countable
<1> QED  BY <1>4, <1>5

(* A call that goes on, perhaps as another one, or ends.                    *)
LEMMA PairsStay ==
  ASSUME PairInv, NEW c \in CachePrograms, OthersStay(c), cacheMishaps \subseteq cacheMishaps',
         \/ cacheAt'[c] = "out"
         \/ cacheAt[c] # "out" /\ cacheCall'[c] = cacheCall[c]
         \/ cacheAt[c] # "out" /\ cacheCall[c] = "create" /\ cacheCall'[c] = "created"
  PROVE  PairInv'
<1> SUFFICES ASSUME NEW d \in CachePrograms, NEW e \in CachePrograms, d # e PROVE NotedOf(d, e)'
  BY DEF PairInv
<1>1. NotedOf(d, e)
  BY DEF PairInv
<1>2. \A f \in {d, e} : f # c => cacheAt'[f] = cacheAt[f] /\ cacheCall'[f] = cacheCall[f]
  BY DEF OthersStay
<1>3. \A f \in {d, e} : cacheAt'[f] # "out" => cacheAt[f] # "out"
  BY <1>2
<1>4. \A f \in {d, e} : cacheAt'[f] # "out" =>
        /\ cacheCall'[f] = "change" => cacheCall[f] = "change"
        /\ cacheCall'[f] = "erase" => cacheCall[f] = "erase"
        /\ cacheCall'[f] \in Changing => cacheCall[f] \in Changing
        /\ cacheCall'[f] \in Finding => cacheCall[f] \in Finding
  BY <1>2 DEF Changing, Finding
<1> QED  BY <1>1, <1>3, <1>4 DEF NotedOf

LEMMA LookKeeps ==
  ASSUME CacheInv, NEW c \in CachePrograms, Look(c)
  PROVE  CacheInv'
<1>1. /\ CacheTypes' /\ OthersStay(c) /\ cacheAt[c] = "look"
       /\ TurnsTo(c, SharedBy(c), "looked", cacheCall[c], InView(c), cacheEnded[c])
       /\ RowsStay
  BY LookDoes DEF CacheInv
<1>2. cacheMishaps \subseteq cacheMishaps'
  BY <1>1 DEF RowsStay
<1>3. /\ StatementOf(c) /\ ConnectionOf(c) /\ FoundOf(c) /\ StillThere(c) /\ CountOf(c)
      /\ FileInv /\ ProgramInv /\ PairInv /\ CacheTypes
  BY DEF CacheInv, ProgramInv
<1>4. /\ connection[c].open \in BOOLEAN /\ connection[c].lock \in {"none", "shared", "reserved", "pending"}
      /\ connection[c].view \in Nat \union {Gone} /\ found[c] \in Nat \union {Gone}
           /\ Written(c) \in Nat \ {0}
  BY <1>3, Values DEF ConnectionType
<1>5. connection'[c] = SharedBy(c) /\ cacheAt'[c] = "looked" /\ cacheCall'[c] = cacheCall[c]
      /\ found'[c] = InView(c) /\ cacheEnded'[c] = cacheEnded[c]
  BY <1>1 DEF TurnsTo
<1>6. cacheAt'[c] = "looked" /\ cacheCall'[c] = cacheCall[c] /\ found'[c] = InView(c)
        /\ cacheEnded'[c] = cacheEnded[c]
  BY <1>5
<1>7. /\ connection'[c].open = connection[c].open
      /\ connection'[c].lock = IF connection[c].lock = "none" THEN "shared" ELSE connection[c].lock
      /\ connection'[c].view = InView(c)
  <2>1. SharedBy(c).open = (connection[c].open)
          /\ SharedBy(c).lock = (IF connection[c].lock = "none" THEN "shared" ELSE connection[c].lock)
               /\ SharedBy(c).view = (InView(c))
    BY SharedFields
  <2> QED  BY <1>5, <2>1
<1>8. InView(c) # 0 /\ (~connection[c].open => InView(c) = cacheRow) /\ InView(c) \in Nat \union {Gone}
      /\ (connection[c].lock # "none" => InView(c) = connection[c].view)
      /\ (Countable => InView(c) = cacheRow)
  BY <1>1, <1>3, <1>4 DEF Countable, InView, ConnectionOf, LeftBehind, ConnectionAt, FoundOf, FileInv,
     CacheTypes, FileTypes
<1>9. StatementOf(c)'
  BY <1>1, <1>6, <1>8, <1>3, <1>4, <1>7 DEF RowsStay, StatementOf, CacheReading, CacheWriting, Finding
<1>10. ConnectionOf(c)'
  BY <1>1, <1>6, <1>8, <1>3, <1>4, <1>7 DEF RowsStay, ConnectionOf, LeftBehind, ConnectionAt, Written,
     CacheReading
<1>11. FoundOf(c)'
  <2>1. /\ connection[c].view # 0 /\ (found[c] = 0 => "erased" \in cacheMishaps)
        /\ cacheAt[c] \in {"looked", "fetch"}
             /\ connection[c].lock # "none" => found[c] = connection[c].view
        /\ cacheAt[c] = "fetch" => found[c] # Gone
        /\ cacheEnded[c] = "returned" /\ cacheCall[c] \in {"create", "created"} => found[c] # Gone
    BY <1>3 DEF FoundOf
  <2>2. connection'[c].view # 0
    BY <2>1, <1>7, <1>8 DEF Gone
  <2>3. found'[c] = 0 => "erased" \in cacheMishaps'
    BY <2>1, <1>1, <1>6, <1>8, <1>2, <1>3, <1>4, <1>7 DEF Gone
  <2>4. cacheAt'[c] \in {"looked", "fetch"}
          /\ connection'[c].lock # "none" => found'[c] = connection'[c].view
    BY <2>1, <1>1, <1>6, <1>8, <1>2, <1>3, <1>4, <1>7
  <2>5. cacheAt'[c] = "fetch" => found'[c] # Gone
    BY <2>1, <1>1, <1>6, <1>8, <1>2, <1>3, <1>4, <1>7
  <2>6. cacheEnded'[c] = "returned" /\ cacheCall'[c] \in {"create", "created"} => found'[c] # Gone
    BY <2>1, <1>1, <1>6, <1>8, <1>2, <1>3, <1>4, <1>7 DEF StatementOf
  <2> QED  BY <2>2, <2>3, <2>4, <2>5, <2>6 DEF FoundOf
<1>12. StillThere(c)'
  BY <1>1, <1>6, <1>8, <1>3, <1>4, <1>7 DEF RowsStay, StillThere, FileInv
<1>13. CountOf(c)'
  BY <1>1, <1>6, <1>8, <1>3, <1>4, <1>7 DEF RowsStay, CountOf, Countable, Old
<1>14. FileInv'
  BY <1>1, <1>6, <1>8, <1>3, <1>4 DEF RowsStay, FileInv, Countable, ConnectionOf, LeftBehind, ConnectionAt,
     CountOf, Old, Gone, FoundOf, SharedBy, InView, Connection
<1>15. \A d \in CachePrograms \ {c} : (StatementOf(d) /\ ConnectionOf(d) /\ FoundOf(d))'
  BY <1>1, <1>6, <1>8, <1>2, <1>3, OthersKeep
<1>16. \A d \in CachePrograms \ {c} : (StillThere(d) /\ CountOf(d))'
  BY <1>1, <1>6, <1>8, <1>2, <1>3, <1>4, OthersSee DEF RowsStay
<1>17. PairInv'
  BY <1>1, <1>6, <1>8, <1>2, <1>3, PairsStay DEF TurnsTo
<1>18. ProgramInv'
  BY <1>9, <1>10, <1>11, <1>12, <1>13, <1>15, <1>16 DEF ProgramInv
<1> QED  BY <1>1, <1>14, <1>17, <1>18 DEF CacheInv

LEMMA RefetchKeeps ==
  ASSUME CacheInv, NEW c \in CachePrograms, Refetch(c)
  PROVE  CacheInv'
<1>1. /\ CacheTypes' /\ OthersStay(c) /\ cacheAt[c] = "fetch"
       /\ TurnsTo(c, SharedBy(c), "fetched", cacheCall[c], Old(InView(c)), cacheEnded[c])
       /\ RowsStay
  BY RefetchDoes DEF CacheInv
<1>2. cacheMishaps \subseteq cacheMishaps'
  BY <1>1 DEF RowsStay
<1>3. /\ StatementOf(c) /\ ConnectionOf(c) /\ FoundOf(c) /\ StillThere(c) /\ CountOf(c)
      /\ FileInv /\ ProgramInv /\ PairInv /\ CacheTypes
  BY DEF CacheInv, ProgramInv
<1>4. /\ connection[c].open \in BOOLEAN /\ connection[c].lock \in {"none", "shared", "reserved", "pending"}
      /\ connection[c].view \in Nat \union {Gone} /\ found[c] \in Nat \union {Gone}
           /\ Written(c) \in Nat \ {0}
  BY <1>3, Values DEF ConnectionType
<1>5. connection'[c] = SharedBy(c) /\ cacheAt'[c] = "fetched" /\ cacheCall'[c] = cacheCall[c]
      /\ found'[c] = Old(InView(c)) /\ cacheEnded'[c] = cacheEnded[c]
  BY <1>1 DEF TurnsTo
<1>6. cacheAt'[c] = "fetched" /\ cacheCall'[c] = cacheCall[c] /\ found'[c] = Old(InView(c))
        /\ cacheEnded'[c] = cacheEnded[c]
  BY <1>5
<1>7. /\ connection'[c].open = connection[c].open
      /\ connection'[c].lock = IF connection[c].lock = "none" THEN "shared" ELSE connection[c].lock
      /\ connection'[c].view = InView(c)
  <2>1. SharedBy(c).open = (connection[c].open)
          /\ SharedBy(c).lock = (IF connection[c].lock = "none" THEN "shared" ELSE connection[c].lock)
               /\ SharedBy(c).view = (InView(c))
    BY SharedFields
  <2> QED  BY <1>5, <2>1
<1>8. InView(c) # 0 /\ (~connection[c].open => InView(c) = cacheRow) /\ InView(c) \in Nat \union {Gone}
      /\ (connection[c].lock # "none" => InView(c) = connection[c].view)
      /\ (Countable => InView(c) = cacheRow)
  BY <1>1, <1>3, <1>4 DEF Countable, InView, ConnectionOf, LeftBehind, ConnectionAt, FoundOf, FileInv,
     CacheTypes, FileTypes
<1>9. InView(c) # Gone \/ "erased" \in cacheMishaps
  <2>1. connection[c].open => connection[c].lock # "none"
    BY <1>1, <1>3 DEF ConnectionOf, LeftBehind, ConnectionAt
  <2>2. connection[c].open => InView(c) = found[c]
    BY <2>1, <1>1, <1>3, <1>8 DEF FoundOf
  <2>3. found[c] # Gone
    BY <1>1, <1>3 DEF FoundOf
  <2>4. ~connection[c].open => cacheRow # Gone \/ "erased" \in cacheMishaps
    BY <2>3, <1>1, <1>3 DEF StillThere
  <2> QED  BY <2>2, <2>3, <2>4, <1>8
<1>10. StatementOf(c)'
  BY <1>1, <1>6, <1>8, <1>3, <1>4, <1>7 DEF RowsStay, StatementOf, CacheReading, CacheWriting, Finding, Old
<1>11. ConnectionOf(c)'
  BY <1>1, <1>6, <1>8, <1>3, <1>4, <1>7 DEF RowsStay, ConnectionOf, LeftBehind, ConnectionAt, Written,
     CacheReading, Old
<1>12. FoundOf(c)'
  <2>1. /\ connection[c].view # 0 /\ (found[c] = 0 => "erased" \in cacheMishaps)
        /\ cacheAt[c] \in {"looked", "fetch"}
             /\ connection[c].lock # "none" => found[c] = connection[c].view
        /\ cacheAt[c] = "fetch" => found[c] # Gone
        /\ cacheEnded[c] = "returned" /\ cacheCall[c] \in {"create", "created"} => found[c] # Gone
    BY <1>3 DEF FoundOf
  <2>2. connection'[c].view # 0
    BY <2>1, <1>7, <1>8 DEF Gone
  <2>3. found'[c] = 0 => "erased" \in cacheMishaps'
    BY <2>1, <1>1, <1>6, <1>8, <1>2, <1>3, <1>4, <1>7, <1>9 DEF Gone, Old
  <2>4. cacheAt'[c] \in {"looked", "fetch"}
          /\ connection'[c].lock # "none" => found'[c] = connection'[c].view
    BY <2>1, <1>1, <1>6, <1>8, <1>2, <1>3, <1>4, <1>7
  <2>5. cacheAt'[c] = "fetch" => found'[c] # Gone
    BY <2>1, <1>1, <1>6, <1>8, <1>2, <1>3, <1>4, <1>7
  <2>6. cacheEnded'[c] = "returned" /\ cacheCall'[c] \in {"create", "created"} => found'[c] # Gone
    BY <2>1, <1>1, <1>6, <1>8, <1>2, <1>3, <1>4, <1>7 DEF StatementOf
  <2> QED  BY <2>2, <2>3, <2>4, <2>5, <2>6 DEF FoundOf
<1>13. StillThere(c)'
  BY <1>1, <1>6, <1>8, <1>3, <1>4, <1>7 DEF RowsStay, StillThere, Old
<1>14. CountOf(c)'
  BY <1>1, <1>6, <1>8, <1>3, <1>4, <1>7 DEF RowsStay, CountOf, Countable, Old, Old
<1>15. FileInv'
  BY <1>1, <1>6, <1>8, <1>3, <1>4 DEF RowsStay, FileInv, Countable, ConnectionOf, LeftBehind, ConnectionAt,
     CountOf, Old, Gone, FoundOf, SharedBy, InView, Old, Connection
<1>16. \A d \in CachePrograms \ {c} : (StatementOf(d) /\ ConnectionOf(d) /\ FoundOf(d))'
  BY <1>1, <1>6, <1>8, <1>2, <1>3, OthersKeep
<1>17. \A d \in CachePrograms \ {c} : (StillThere(d) /\ CountOf(d))'
  BY <1>1, <1>6, <1>8, <1>2, <1>3, <1>4, OthersSee DEF RowsStay
<1>18. PairInv'
  BY <1>1, <1>6, <1>8, <1>2, <1>3, PairsStay DEF TurnsTo, Old
<1>19. ProgramInv'
  BY <1>10, <1>11, <1>12, <1>13, <1>14, <1>16, <1>17 DEF ProgramInv
<1> QED  BY <1>1, <1>15, <1>18, <1>19 DEF CacheInv

LEMMA ResetReadKeeps ==
  ASSUME CacheInv, NEW c \in CachePrograms, ResetRead(c)
  PROVE  CacheInv'
<1>1. /\ CacheTypes' /\ OthersStay(c) /\ cacheAt[c] \in {"looked", "fetched"}
       /\ TurnsTo(c, AfterReset(c), AfterLooking(c), cacheCall[c], found[c], cacheEnded[c])
       /\ RowsStay
  BY ResetReadDoes DEF CacheInv
<1>2. cacheMishaps \subseteq cacheMishaps'
  BY <1>1 DEF RowsStay
<1>3. /\ StatementOf(c) /\ ConnectionOf(c) /\ FoundOf(c) /\ StillThere(c) /\ CountOf(c)
      /\ FileInv /\ ProgramInv /\ PairInv /\ CacheTypes
  BY DEF CacheInv, ProgramInv
<1>4. /\ connection[c].open \in BOOLEAN /\ connection[c].lock \in {"none", "shared", "reserved", "pending"}
      /\ connection[c].view \in Nat \union {Gone} /\ found[c] \in Nat \union {Gone}
           /\ Written(c) \in Nat \ {0}
  BY <1>3, Values DEF ConnectionType
<1>5. connection'[c] = AfterReset(c) /\ cacheAt'[c] = AfterLooking(c) /\ cacheCall'[c] = cacheCall[c]
      /\ found'[c] = found[c] /\ cacheEnded'[c] = cacheEnded[c]
  BY <1>1 DEF TurnsTo
<1>6. cacheAt'[c] = AfterLooking(c) /\ cacheCall'[c] = cacheCall[c] /\ found'[c] = found[c]
        /\ cacheEnded'[c] = cacheEnded[c]
  BY <1>5
<1>7. /\ connection'[c].open = IF connection[c].open THEN connection[c].open ELSE FALSE
      /\ connection'[c].lock = IF connection[c].open THEN connection[c].lock ELSE "none"
      /\ connection'[c].view = IF connection[c].open THEN connection[c].view ELSE Gone
  <2>1. AfterReset(c).open = (IF connection[c].open THEN connection[c].open ELSE FALSE)
          /\ AfterReset(c).lock = (IF connection[c].open THEN connection[c].lock ELSE "none")
               /\ AfterReset(c).view = (IF connection[c].open THEN connection[c].view ELSE Gone)
    BY ResetFields
  <2> QED  BY <1>5, <2>1
<1>8. StatementOf(c)'
  BY <1>1, <1>6, <1>3, <1>4, <1>7 DEF RowsStay, StatementOf, CacheReading, CacheWriting, Finding,
     AfterLooking
<1>9. ConnectionOf(c)'
  BY <1>1, <1>6, <1>3, <1>4, <1>7 DEF RowsStay, ConnectionOf, LeftBehind, ConnectionAt, Written,
     CacheReading, AfterLooking, Gone
<1>10. FoundOf(c)'
  <2>1. /\ connection[c].view # 0 /\ (found[c] = 0 => "erased" \in cacheMishaps)
        /\ cacheAt[c] \in {"looked", "fetch"}
             /\ connection[c].lock # "none" => found[c] = connection[c].view
        /\ cacheAt[c] = "fetch" => found[c] # Gone
        /\ cacheEnded[c] = "returned" /\ cacheCall[c] \in {"create", "created"} => found[c] # Gone
    BY <1>3 DEF FoundOf
  <2>2. connection'[c].view # 0
    BY <2>1, <1>7, <1>4 DEF Gone
  <2>3. found'[c] = 0 => "erased" \in cacheMishaps'
    BY <2>1, <1>1, <1>6, <1>2, <1>3, <1>4, <1>7 DEF Gone
  <2>4. cacheAt'[c] \in {"looked", "fetch"}
          /\ connection'[c].lock # "none" => found'[c] = connection'[c].view
    BY <2>1, <1>1, <1>6, <1>2, <1>3, <1>4, <1>7 DEF AfterLooking
  <2>5. cacheAt'[c] = "fetch" => found'[c] # Gone
    BY <2>1, <1>1, <1>6, <1>2, <1>3, <1>4, <1>7 DEF AfterLooking
  <2>6. cacheEnded'[c] = "returned" /\ cacheCall'[c] \in {"create", "created"} => found'[c] # Gone
    BY <2>1, <1>1, <1>6, <1>2, <1>3, <1>4, <1>7 DEF StatementOf
  <2> QED  BY <2>2, <2>3, <2>4, <2>5, <2>6 DEF FoundOf
<1>11. StillThere(c)'
  BY <1>1, <1>6, <1>3, <1>4, <1>7 DEF RowsStay, StillThere, AfterLooking
<1>12. CountOf(c)'
  BY <1>1, <1>6, <1>3, <1>4, <1>7 DEF RowsStay, CountOf, Countable, Old, AfterLooking
<1>13. FileInv'
  BY <1>1, <1>6, <1>3, <1>4 DEF RowsStay, FileInv, Countable, ConnectionOf, LeftBehind, ConnectionAt,
     CountOf, Old, Gone, FoundOf, AfterReset, AfterLooking, NoTransaction, Connection
<1>14. \A d \in CachePrograms \ {c} : (StatementOf(d) /\ ConnectionOf(d) /\ FoundOf(d))'
  BY <1>1, <1>6, <1>2, <1>3, OthersKeep
<1>15. \A d \in CachePrograms \ {c} : (StillThere(d) /\ CountOf(d))'
  BY <1>1, <1>6, <1>2, <1>3, <1>4, OthersSee DEF RowsStay
<1>16. PairInv'
  BY <1>1, <1>6, <1>2, <1>3, PairsStay DEF TurnsTo, AfterLooking
<1>17. ProgramInv'
  BY <1>8, <1>9, <1>10, <1>11, <1>12, <1>14, <1>15 DEF ProgramInv
<1> QED  BY <1>1, <1>13, <1>16, <1>17 DEF CacheInv

LEMMA FindEndsKeeps ==
  ASSUME CacheInv, NEW c \in CachePrograms, FindEnds(c)
  PROVE  CacheInv'
<1>1. /\ CacheTypes' /\ OthersStay(c) /\ cacheAt[c] = "again" /\ RowsStay
       /\ \/ /\ cacheCall[c] = "change" \/ (cacheCall[c] = "create" /\ found[c] = Gone)
             /\ TurnsTo(c, connection[c], "begin", cacheCall[c], found[c], cacheEnded[c])
          \/ /\ cacheCall[c] = "created" /\ found[c] = Gone
             /\ TurnsTo(c, connection[c], "look", cacheCall[c], found[c], cacheEnded[c])
          \/ /\ cacheCall[c] = "get" \/ (cacheCall[c] \in {"create", "created"} /\ found[c] # Gone)
             /\ TurnsTo(c, connection[c], "out", cacheCall[c], found[c], "returned")
  BY FindEndsDoes DEF CacheInv
<1>2. cacheMishaps \subseteq cacheMishaps'
  BY <1>1 DEF RowsStay
<1>3. /\ StatementOf(c) /\ ConnectionOf(c) /\ FoundOf(c) /\ StillThere(c) /\ CountOf(c)
      /\ FileInv /\ ProgramInv /\ PairInv /\ CacheTypes
  BY DEF CacheInv, ProgramInv
<1>4. /\ connection[c].open \in BOOLEAN /\ connection[c].lock \in {"none", "shared", "reserved", "pending"}
      /\ connection[c].view \in Nat \union {Gone} /\ found[c] \in Nat \union {Gone}
           /\ Written(c) \in Nat \ {0}
  BY <1>3, Values DEF ConnectionType
<1>5. /\ connection'[c].open = connection[c].open
      /\ connection'[c].lock = connection[c].lock
      /\ connection'[c].view = connection[c].view
  BY <1>1 DEF TurnsTo
<1>6. StatementOf(c)'
  BY <1>1, <1>3, <1>4, <1>5 DEF TurnsTo, RowsStay, StatementOf, CacheReading, CacheWriting, Finding
<1>7. ConnectionOf(c)'
  BY <1>1, <1>3, <1>4, <1>5 DEF TurnsTo, RowsStay, ConnectionOf, LeftBehind, ConnectionAt, Written,
     CacheReading
<1>8. FoundOf(c)'
  <2>1. /\ connection[c].view # 0 /\ (found[c] = 0 => "erased" \in cacheMishaps)
        /\ cacheAt[c] \in {"looked", "fetch"}
             /\ connection[c].lock # "none" => found[c] = connection[c].view
        /\ cacheAt[c] = "fetch" => found[c] # Gone
        /\ cacheEnded[c] = "returned" /\ cacheCall[c] \in {"create", "created"} => found[c] # Gone
    BY <1>3 DEF FoundOf
  <2>2. connection'[c].view # 0
    BY <2>1, <1>5, <1>4 DEF Gone, TurnsTo
  <2>3. found'[c] = 0 => "erased" \in cacheMishaps'
    BY <2>1, <1>1, <1>2, <1>3, <1>4, <1>5 DEF Gone, TurnsTo
  <2>4. cacheAt'[c] \in {"looked", "fetch"}
          /\ connection'[c].lock # "none" => found'[c] = connection'[c].view
    BY <2>1, <1>1, <1>2, <1>3, <1>4, <1>5 DEF TurnsTo
  <2>5. cacheAt'[c] = "fetch" => found'[c] # Gone
    BY <2>1, <1>1, <1>2, <1>3, <1>4, <1>5 DEF TurnsTo
  <2>6. cacheEnded'[c] = "returned" /\ cacheCall'[c] \in {"create", "created"} => found'[c] # Gone
    BY <2>1, <1>1, <1>2, <1>3, <1>4, <1>5 DEF StatementOf, TurnsTo
  <2> QED  BY <2>2, <2>3, <2>4, <2>5, <2>6 DEF FoundOf
<1>9. StillThere(c)'
  BY <1>1, <1>3, <1>4, <1>5 DEF TurnsTo, RowsStay, StillThere
<1>10. CountOf(c)'
  BY <1>1, <1>3, <1>4, <1>5 DEF TurnsTo, RowsStay, CountOf, Countable, Old
<1>11. FileInv'
  BY <1>1, <1>3, <1>4 DEF RowsStay, FileInv, Countable, ConnectionOf, LeftBehind, ConnectionAt, CountOf,
     Old, Gone, FoundOf
<1>12. \A d \in CachePrograms \ {c} : (StatementOf(d) /\ ConnectionOf(d) /\ FoundOf(d))'
  BY <1>1, <1>2, <1>3, OthersKeep
<1>13. \A d \in CachePrograms \ {c} : (StillThere(d) /\ CountOf(d))'
  BY <1>1, <1>2, <1>3, <1>4, OthersSee DEF RowsStay
<1>14. PairInv'
  BY <1>1, <1>2, <1>3, PairsStay DEF TurnsTo
<1>15. ProgramInv'
  BY <1>6, <1>7, <1>8, <1>9, <1>10, <1>12, <1>13 DEF ProgramInv
<1> QED  BY <1>1, <1>11, <1>14, <1>15 DEF CacheInv

LEMMA FindThrowsKeeps ==
  ASSUME CacheInv, NEW c \in CachePrograms, FindThrows(c)
  PROVE  CacheInv'
<1>1. /\ CacheTypes' /\ OthersStay(c) /\ cacheAt[c] = "again"
       /\ TurnsTo(c, connection[c], "out", cacheCall[c], found[c], "threw")
       /\ RowsStay
  BY FindThrowsDoes DEF CacheInv
<1>2. cacheMishaps \subseteq cacheMishaps'
  BY <1>1 DEF RowsStay
<1>3. /\ StatementOf(c) /\ ConnectionOf(c) /\ FoundOf(c) /\ StillThere(c) /\ CountOf(c)
      /\ FileInv /\ ProgramInv /\ PairInv /\ CacheTypes
  BY DEF CacheInv, ProgramInv
<1>4. /\ connection[c].open \in BOOLEAN /\ connection[c].lock \in {"none", "shared", "reserved", "pending"}
      /\ connection[c].view \in Nat \union {Gone} /\ found[c] \in Nat \union {Gone}
           /\ Written(c) \in Nat \ {0}
  BY <1>3, Values DEF ConnectionType
<1>5. connection'[c] = connection[c] /\ cacheAt'[c] = "out" /\ cacheCall'[c] = cacheCall[c]
      /\ found'[c] = found[c] /\ cacheEnded'[c] = "threw"
  BY <1>1 DEF TurnsTo
<1>6. cacheAt'[c] = "out" /\ cacheCall'[c] = cacheCall[c] /\ found'[c] = found[c]
        /\ cacheEnded'[c] = "threw"
  BY <1>5
<1>7. /\ connection'[c].open = connection[c].open
      /\ connection'[c].lock = connection[c].lock
      /\ connection'[c].view = connection[c].view
  BY <1>5
<1>8. StatementOf(c)'
  BY <1>1, <1>6, <1>3, <1>4, <1>7 DEF RowsStay, StatementOf, CacheReading, CacheWriting, Finding
<1>9. ConnectionOf(c)'
  BY <1>1, <1>6, <1>3, <1>4, <1>7 DEF RowsStay, ConnectionOf, LeftBehind, ConnectionAt, Written,
     CacheReading
<1>10. FoundOf(c)'
  <2>1. /\ connection[c].view # 0 /\ (found[c] = 0 => "erased" \in cacheMishaps)
        /\ cacheAt[c] \in {"looked", "fetch"}
             /\ connection[c].lock # "none" => found[c] = connection[c].view
        /\ cacheAt[c] = "fetch" => found[c] # Gone
        /\ cacheEnded[c] = "returned" /\ cacheCall[c] \in {"create", "created"} => found[c] # Gone
    BY <1>3 DEF FoundOf
  <2>2. connection'[c].view # 0
    BY <2>1, <1>7, <1>4 DEF Gone
  <2>3. found'[c] = 0 => "erased" \in cacheMishaps'
    BY <2>1, <1>1, <1>6, <1>2, <1>3, <1>4, <1>7 DEF Gone
  <2>4. cacheAt'[c] \in {"looked", "fetch"}
          /\ connection'[c].lock # "none" => found'[c] = connection'[c].view
    BY <2>1, <1>1, <1>6, <1>2, <1>3, <1>4, <1>7
  <2>5. cacheAt'[c] = "fetch" => found'[c] # Gone
    BY <2>1, <1>1, <1>6, <1>2, <1>3, <1>4, <1>7
  <2>6. cacheEnded'[c] = "returned" /\ cacheCall'[c] \in {"create", "created"} => found'[c] # Gone
    BY <2>1, <1>1, <1>6, <1>2, <1>3, <1>4, <1>7 DEF StatementOf
  <2> QED  BY <2>2, <2>3, <2>4, <2>5, <2>6 DEF FoundOf
<1>11. StillThere(c)'
  BY <1>1, <1>6, <1>3, <1>4, <1>7 DEF RowsStay, StillThere
<1>12. CountOf(c)'
  BY <1>1, <1>6, <1>3, <1>4, <1>7 DEF RowsStay, CountOf, Countable, Old
<1>13. FileInv'
  BY <1>1, <1>6, <1>3, <1>4 DEF RowsStay, FileInv, Countable, ConnectionOf, LeftBehind, ConnectionAt,
     CountOf, Old, Gone, FoundOf
<1>14. \A d \in CachePrograms \ {c} : (StatementOf(d) /\ ConnectionOf(d) /\ FoundOf(d))'
  BY <1>1, <1>6, <1>2, <1>3, OthersKeep
<1>15. \A d \in CachePrograms \ {c} : (StillThere(d) /\ CountOf(d))'
  BY <1>1, <1>6, <1>2, <1>3, <1>4, OthersSee DEF RowsStay
<1>16. PairInv'
  BY <1>1, <1>6, <1>2, <1>3, PairsStay DEF TurnsTo
<1>17. ProgramInv'
  BY <1>8, <1>9, <1>10, <1>11, <1>12, <1>14, <1>15 DEF ProgramInv
<1> QED  BY <1>1, <1>13, <1>16, <1>17 DEF CacheInv

LEMMA BeginsKeeps ==
  ASSUME CacheInv, NEW c \in CachePrograms, BeginTransaction(c), ~connection[c].open
  PROVE  CacheInv'
<1>1. /\ CacheTypes' /\ OthersStay(c) /\ cacheAt[c] = "begin"
       /\ TurnsTo(c, Connection(TRUE, connection[c].lock, connection[c].view), AfterBegin(c), cacheCall[c],
              found[c], cacheEnded[c])
       /\ RowsStay
  BY BeginsDoes DEF CacheInv
<1>2. cacheMishaps \subseteq cacheMishaps'
  BY <1>1 DEF RowsStay
<1>3. /\ StatementOf(c) /\ ConnectionOf(c) /\ FoundOf(c) /\ StillThere(c) /\ CountOf(c)
      /\ FileInv /\ ProgramInv /\ PairInv /\ CacheTypes
  BY DEF CacheInv, ProgramInv
<1>4. /\ connection[c].open \in BOOLEAN /\ connection[c].lock \in {"none", "shared", "reserved", "pending"}
      /\ connection[c].view \in Nat \union {Gone} /\ found[c] \in Nat \union {Gone}
           /\ Written(c) \in Nat \ {0}
  BY <1>3, Values DEF ConnectionType
<1>5. connection'[c] = Connection(TRUE, connection[c].lock, connection[c].view)
        /\ cacheAt'[c] = AfterBegin(c) /\ cacheCall'[c] = cacheCall[c]
      /\ found'[c] = found[c] /\ cacheEnded'[c] = cacheEnded[c]
  BY <1>1 DEF TurnsTo
<1>6. cacheAt'[c] = AfterBegin(c) /\ cacheCall'[c] = cacheCall[c] /\ found'[c] = found[c]
        /\ cacheEnded'[c] = cacheEnded[c]
  BY <1>5
<1>7. /\ connection'[c].open = TRUE
      /\ connection'[c].lock = connection[c].lock
      /\ connection'[c].view = connection[c].view
  <2>1. Connection(TRUE, connection[c].lock, connection[c].view).open = (TRUE)
          /\ Connection(TRUE, connection[c].lock, connection[c].view).lock = (connection[c].lock)
               /\ Connection(TRUE, connection[c].lock, connection[c].view).view = (connection[c].view)
    BY DEF Connection
  <2> QED  BY <1>5, <2>1
<1>8. StatementOf(c)'
  BY <1>1, <1>6, <1>3, <1>4, <1>7 DEF RowsStay, StatementOf, CacheReading, CacheWriting, Finding, AfterBegin
<1>9. ConnectionOf(c)'
  BY <1>1, <1>6, <1>3, <1>4, <1>7 DEF RowsStay, ConnectionOf, LeftBehind, ConnectionAt, Written,
     CacheReading, AfterBegin
<1>10. FoundOf(c)'
  <2>1. /\ connection[c].view # 0 /\ (found[c] = 0 => "erased" \in cacheMishaps)
        /\ cacheAt[c] \in {"looked", "fetch"}
             /\ connection[c].lock # "none" => found[c] = connection[c].view
        /\ cacheAt[c] = "fetch" => found[c] # Gone
        /\ cacheEnded[c] = "returned" /\ cacheCall[c] \in {"create", "created"} => found[c] # Gone
    BY <1>3 DEF FoundOf
  <2>2. connection'[c].view # 0
    BY <2>1, <1>7, <1>4 DEF Gone
  <2>3. found'[c] = 0 => "erased" \in cacheMishaps'
    BY <2>1, <1>1, <1>6, <1>2, <1>3, <1>4, <1>7 DEF Gone
  <2>4. cacheAt'[c] \in {"looked", "fetch"}
          /\ connection'[c].lock # "none" => found'[c] = connection'[c].view
    BY <2>1, <1>1, <1>6, <1>2, <1>3, <1>4, <1>7 DEF AfterBegin
  <2>5. cacheAt'[c] = "fetch" => found'[c] # Gone
    BY <2>1, <1>1, <1>6, <1>2, <1>3, <1>4, <1>7 DEF AfterBegin
  <2>6. cacheEnded'[c] = "returned" /\ cacheCall'[c] \in {"create", "created"} => found'[c] # Gone
    BY <2>1, <1>1, <1>6, <1>2, <1>3, <1>4, <1>7 DEF StatementOf
  <2> QED  BY <2>2, <2>3, <2>4, <2>5, <2>6 DEF FoundOf
<1>11. StillThere(c)'
  BY <1>1, <1>6, <1>3, <1>4, <1>7 DEF RowsStay, StillThere, AfterBegin
<1>12. CountOf(c)'
  BY <1>1, <1>6, <1>3, <1>4, <1>7 DEF RowsStay, CountOf, Countable, Old, AfterBegin
<1>13. FileInv'
  BY <1>1, <1>6, <1>3, <1>4 DEF RowsStay, FileInv, Countable, ConnectionOf, LeftBehind, ConnectionAt,
     CountOf, Old, Gone, FoundOf, AfterBegin, Connection
<1>14. \A d \in CachePrograms \ {c} : (StatementOf(d) /\ ConnectionOf(d) /\ FoundOf(d))'
  BY <1>1, <1>6, <1>2, <1>3, OthersKeep
<1>15. \A d \in CachePrograms \ {c} : (StillThere(d) /\ CountOf(d))'
  BY <1>1, <1>6, <1>2, <1>3, <1>4, OthersSee DEF RowsStay
<1>16. PairInv'
  BY <1>1, <1>6, <1>2, <1>3, PairsStay DEF TurnsTo, AfterBegin
<1>17. ProgramInv'
  BY <1>8, <1>9, <1>10, <1>11, <1>12, <1>14, <1>15 DEF ProgramInv
<1> QED  BY <1>1, <1>13, <1>16, <1>17 DEF CacheInv

LEMMA BeginThrowsKeeps ==
  ASSUME CacheInv, NEW c \in CachePrograms, BeginTransaction(c), connection[c].open
  PROVE  CacheInv'
<1>1. /\ CacheTypes' /\ OthersStay(c) /\ cacheAt[c] = "begin"
       /\ TurnsTo(c, connection[c], "out", cacheCall[c], found[c], "threw")
       /\ RowsStay
  BY BeginThrowsDoes DEF CacheInv
<1>2. cacheMishaps \subseteq cacheMishaps'
  BY <1>1 DEF RowsStay
<1>3. /\ StatementOf(c) /\ ConnectionOf(c) /\ FoundOf(c) /\ StillThere(c) /\ CountOf(c)
      /\ FileInv /\ ProgramInv /\ PairInv /\ CacheTypes
  BY DEF CacheInv, ProgramInv
<1>4. /\ connection[c].open \in BOOLEAN /\ connection[c].lock \in {"none", "shared", "reserved", "pending"}
      /\ connection[c].view \in Nat \union {Gone} /\ found[c] \in Nat \union {Gone}
           /\ Written(c) \in Nat \ {0}
  BY <1>3, Values DEF ConnectionType
<1>5. connection'[c] = connection[c] /\ cacheAt'[c] = "out" /\ cacheCall'[c] = cacheCall[c]
      /\ found'[c] = found[c] /\ cacheEnded'[c] = "threw"
  BY <1>1 DEF TurnsTo
<1>6. cacheAt'[c] = "out" /\ cacheCall'[c] = cacheCall[c] /\ found'[c] = found[c]
        /\ cacheEnded'[c] = "threw"
  BY <1>5
<1>7. /\ connection'[c].open = connection[c].open
      /\ connection'[c].lock = connection[c].lock
      /\ connection'[c].view = connection[c].view
  BY <1>5
<1>8. StatementOf(c)'
  BY <1>1, <1>6, <1>3, <1>4, <1>7 DEF RowsStay, StatementOf, CacheReading, CacheWriting, Finding
<1>9. ConnectionOf(c)'
  BY <1>1, <1>6, <1>3, <1>4, <1>7 DEF RowsStay, ConnectionOf, LeftBehind, ConnectionAt, Written,
     CacheReading
<1>10. FoundOf(c)'
  <2>1. /\ connection[c].view # 0 /\ (found[c] = 0 => "erased" \in cacheMishaps)
        /\ cacheAt[c] \in {"looked", "fetch"}
             /\ connection[c].lock # "none" => found[c] = connection[c].view
        /\ cacheAt[c] = "fetch" => found[c] # Gone
        /\ cacheEnded[c] = "returned" /\ cacheCall[c] \in {"create", "created"} => found[c] # Gone
    BY <1>3 DEF FoundOf
  <2>2. connection'[c].view # 0
    BY <2>1, <1>7, <1>4 DEF Gone
  <2>3. found'[c] = 0 => "erased" \in cacheMishaps'
    BY <2>1, <1>1, <1>6, <1>2, <1>3, <1>4, <1>7 DEF Gone
  <2>4. cacheAt'[c] \in {"looked", "fetch"}
          /\ connection'[c].lock # "none" => found'[c] = connection'[c].view
    BY <2>1, <1>1, <1>6, <1>2, <1>3, <1>4, <1>7
  <2>5. cacheAt'[c] = "fetch" => found'[c] # Gone
    BY <2>1, <1>1, <1>6, <1>2, <1>3, <1>4, <1>7
  <2>6. cacheEnded'[c] = "returned" /\ cacheCall'[c] \in {"create", "created"} => found'[c] # Gone
    BY <2>1, <1>1, <1>6, <1>2, <1>3, <1>4, <1>7 DEF StatementOf
  <2> QED  BY <2>2, <2>3, <2>4, <2>5, <2>6 DEF FoundOf
<1>11. StillThere(c)'
  BY <1>1, <1>6, <1>3, <1>4, <1>7 DEF RowsStay, StillThere
<1>12. CountOf(c)'
  BY <1>1, <1>6, <1>3, <1>4, <1>7 DEF RowsStay, CountOf, Countable, Old
<1>13. FileInv'
  BY <1>1, <1>6, <1>3, <1>4 DEF RowsStay, FileInv, Countable, ConnectionOf, LeftBehind, ConnectionAt,
     CountOf, Old, Gone, FoundOf
<1>14. \A d \in CachePrograms \ {c} : (StatementOf(d) /\ ConnectionOf(d) /\ FoundOf(d))'
  BY <1>1, <1>6, <1>2, <1>3, OthersKeep
<1>15. \A d \in CachePrograms \ {c} : (StillThere(d) /\ CountOf(d))'
  BY <1>1, <1>6, <1>2, <1>3, <1>4, OthersSee DEF RowsStay
<1>16. PairInv'
  BY <1>1, <1>6, <1>2, <1>3, PairsStay DEF TurnsTo
<1>17. ProgramInv'
  BY <1>8, <1>9, <1>10, <1>11, <1>12, <1>14, <1>15 DEF ProgramInv
<1> QED  BY <1>1, <1>13, <1>16, <1>17 DEF CacheInv

LEMMA CountRowsKeeps ==
  ASSUME CacheInv, NEW c \in CachePrograms, CountRows(c)
  PROVE  CacheInv'
<1>1. /\ CacheTypes' /\ OthersStay(c) /\ cacheAt[c] = "count"
       /\ TurnsTo(c, SharedBy(c), "write", cacheCall[c], found[c], cacheEnded[c])
       /\ RowsStay
  BY CountRowsDoes DEF CacheInv
<1>2. cacheMishaps \subseteq cacheMishaps'
  BY <1>1 DEF RowsStay
<1>3. /\ StatementOf(c) /\ ConnectionOf(c) /\ FoundOf(c) /\ StillThere(c) /\ CountOf(c)
      /\ FileInv /\ ProgramInv /\ PairInv /\ CacheTypes
  BY DEF CacheInv, ProgramInv
<1>4. /\ connection[c].open \in BOOLEAN /\ connection[c].lock \in {"none", "shared", "reserved", "pending"}
      /\ connection[c].view \in Nat \union {Gone} /\ found[c] \in Nat \union {Gone}
           /\ Written(c) \in Nat \ {0}
  BY <1>3, Values DEF ConnectionType
<1>5. connection'[c] = SharedBy(c) /\ cacheAt'[c] = "write" /\ cacheCall'[c] = cacheCall[c]
      /\ found'[c] = found[c] /\ cacheEnded'[c] = cacheEnded[c]
  BY <1>1 DEF TurnsTo
<1>6. cacheAt'[c] = "write" /\ cacheCall'[c] = cacheCall[c] /\ found'[c] = found[c]
        /\ cacheEnded'[c] = cacheEnded[c]
  BY <1>5
<1>7. /\ connection'[c].open = connection[c].open
      /\ connection'[c].lock = IF connection[c].lock = "none" THEN "shared" ELSE connection[c].lock
      /\ connection'[c].view = InView(c)
  <2>1. SharedBy(c).open = (connection[c].open)
          /\ SharedBy(c).lock = (IF connection[c].lock = "none" THEN "shared" ELSE connection[c].lock)
               /\ SharedBy(c).view = (InView(c))
    BY SharedFields
  <2> QED  BY <1>5, <2>1
<1>8. InView(c) # 0
  BY <1>1, <1>3, <1>4 DEF InView, FoundOf, FileInv
<1>9. StatementOf(c)'
  BY <1>1, <1>6, <1>8, <1>3, <1>4, <1>7 DEF RowsStay, StatementOf, CacheReading, CacheWriting, Finding
<1>10. ConnectionOf(c)'
  BY <1>1, <1>6, <1>8, <1>3, <1>4, <1>7 DEF RowsStay, ConnectionOf, LeftBehind, ConnectionAt, Written,
     CacheReading
<1>11. FoundOf(c)'
  <2>1. /\ connection[c].view # 0 /\ (found[c] = 0 => "erased" \in cacheMishaps)
        /\ cacheAt[c] \in {"looked", "fetch"}
             /\ connection[c].lock # "none" => found[c] = connection[c].view
        /\ cacheAt[c] = "fetch" => found[c] # Gone
        /\ cacheEnded[c] = "returned" /\ cacheCall[c] \in {"create", "created"} => found[c] # Gone
    BY <1>3 DEF FoundOf
  <2>2. connection'[c].view # 0
    BY <2>1, <1>7, <1>8 DEF Gone
  <2>3. found'[c] = 0 => "erased" \in cacheMishaps'
    BY <2>1, <1>1, <1>6, <1>8, <1>2, <1>3, <1>4, <1>7 DEF Gone
  <2>4. cacheAt'[c] \in {"looked", "fetch"}
          /\ connection'[c].lock # "none" => found'[c] = connection'[c].view
    BY <2>1, <1>1, <1>6, <1>8, <1>2, <1>3, <1>4, <1>7
  <2>5. cacheAt'[c] = "fetch" => found'[c] # Gone
    BY <2>1, <1>1, <1>6, <1>8, <1>2, <1>3, <1>4, <1>7
  <2>6. cacheEnded'[c] = "returned" /\ cacheCall'[c] \in {"create", "created"} => found'[c] # Gone
    BY <2>1, <1>1, <1>6, <1>8, <1>2, <1>3, <1>4, <1>7 DEF StatementOf
  <2> QED  BY <2>2, <2>3, <2>4, <2>5, <2>6 DEF FoundOf
<1>12. StillThere(c)'
  BY <1>1, <1>6, <1>8, <1>3, <1>4, <1>7 DEF RowsStay, StillThere
<1>13. CountOf(c)'
  BY <1>1, <1>6, <1>8, <1>3, <1>4, <1>7 DEF RowsStay, CountOf, Countable, Old
<1>14. FileInv'
  BY <1>1, <1>6, <1>8, <1>3, <1>4 DEF RowsStay, FileInv, Countable, ConnectionOf, LeftBehind, ConnectionAt,
     CountOf, Old, Gone, FoundOf, SharedBy, InView, Connection
<1>15. \A d \in CachePrograms \ {c} : (StatementOf(d) /\ ConnectionOf(d) /\ FoundOf(d))'
  BY <1>1, <1>6, <1>8, <1>2, <1>3, OthersKeep
<1>16. \A d \in CachePrograms \ {c} : (StillThere(d) /\ CountOf(d))'
  BY <1>1, <1>6, <1>8, <1>2, <1>3, <1>4, OthersSee DEF RowsStay
<1>17. PairInv'
  BY <1>1, <1>6, <1>8, <1>2, <1>3, PairsStay DEF TurnsTo
<1>18. ProgramInv'
  BY <1>9, <1>10, <1>11, <1>12, <1>13, <1>15, <1>16 DEF ProgramInv
<1> QED  BY <1>1, <1>14, <1>17, <1>18 DEF CacheInv

LEMMA WritesKeeps ==
  ASSUME CacheInv, NEW c \in CachePrograms, WriteRow(c), MayWrite(c)
  PROVE  CacheInv'
<1>1. /\ CacheTypes' /\ OthersStay(c) /\ cacheAt[c] = "write"
       /\ TurnsTo(c, Connection(connection[c].open, "reserved", Written(c)), "commit", cacheCall[c],
              found[c], cacheEnded[c])
       /\ RowsStay
  BY WritesDoes DEF CacheInv
<1>2. cacheMishaps \subseteq cacheMishaps'
  BY <1>1 DEF RowsStay
<1>3. /\ StatementOf(c) /\ ConnectionOf(c) /\ FoundOf(c) /\ StillThere(c) /\ CountOf(c)
      /\ FileInv /\ ProgramInv /\ PairInv /\ CacheTypes
  BY DEF CacheInv, ProgramInv
<1>4. /\ connection[c].open \in BOOLEAN /\ connection[c].lock \in {"none", "shared", "reserved", "pending"}
      /\ connection[c].view \in Nat \union {Gone} /\ found[c] \in Nat \union {Gone}
           /\ Written(c) \in Nat \ {0}
  BY <1>3, Values DEF ConnectionType
<1>5. connection'[c] = Connection(connection[c].open, "reserved", Written(c)) /\ cacheAt'[c] = "commit"
        /\ cacheCall'[c] = cacheCall[c]
      /\ found'[c] = found[c] /\ cacheEnded'[c] = cacheEnded[c]
  BY <1>1 DEF TurnsTo
<1>6. cacheAt'[c] = "commit" /\ cacheCall'[c] = cacheCall[c] /\ found'[c] = found[c]
        /\ cacheEnded'[c] = cacheEnded[c]
  BY <1>5
<1>7. /\ connection'[c].open = connection[c].open
      /\ connection'[c].lock = "reserved"
      /\ connection'[c].view = Written(c)
  <2>1. Connection(connection[c].open, "reserved", Written(c)).open = (connection[c].open)
          /\ Connection(connection[c].open, "reserved", Written(c)).lock = ("reserved")
               /\ Connection(connection[c].open, "reserved", Written(c)).view = (Written(c))
    BY DEF Connection
  <2> QED  BY <1>5, <2>1
<1>8. StatementOf(c)'
  BY <1>1, <1>6, <1>3, <1>4, <1>7 DEF RowsStay, StatementOf, CacheReading, CacheWriting, Finding
<1>9. ConnectionOf(c)'
  BY <1>1, <1>6, <1>3, <1>4, <1>7 DEF RowsStay, ConnectionOf, LeftBehind, ConnectionAt, Written,
     CacheReading
<1>10. FoundOf(c)'
  <2>1. /\ connection[c].view # 0 /\ (found[c] = 0 => "erased" \in cacheMishaps)
        /\ cacheAt[c] \in {"looked", "fetch"}
             /\ connection[c].lock # "none" => found[c] = connection[c].view
        /\ cacheAt[c] = "fetch" => found[c] # Gone
        /\ cacheEnded[c] = "returned" /\ cacheCall[c] \in {"create", "created"} => found[c] # Gone
    BY <1>3 DEF FoundOf
  <2>2. connection'[c].view # 0
    BY <2>1, <1>7, <1>4 DEF Gone
  <2>3. found'[c] = 0 => "erased" \in cacheMishaps'
    BY <2>1, <1>1, <1>6, <1>2, <1>3, <1>4, <1>7 DEF Gone
  <2>4. cacheAt'[c] \in {"looked", "fetch"}
          /\ connection'[c].lock # "none" => found'[c] = connection'[c].view
    BY <2>1, <1>1, <1>6, <1>2, <1>3, <1>4, <1>7
  <2>5. cacheAt'[c] = "fetch" => found'[c] # Gone
    BY <2>1, <1>1, <1>6, <1>2, <1>3, <1>4, <1>7
  <2>6. cacheEnded'[c] = "returned" /\ cacheCall'[c] \in {"create", "created"} => found'[c] # Gone
    BY <2>1, <1>1, <1>6, <1>2, <1>3, <1>4, <1>7 DEF StatementOf
  <2> QED  BY <2>2, <2>3, <2>4, <2>5, <2>6 DEF FoundOf
<1>11. StillThere(c)'
  BY <1>1, <1>6, <1>3, <1>4, <1>7 DEF RowsStay, StillThere
<1>12. CountOf(c)'
  BY <1>1, <1>6, <1>3, <1>4, <1>7 DEF RowsStay, CountOf, Countable, Old
<1>13. FileInv'
  BY <1>1, <1>6, <1>3, <1>4 DEF RowsStay, FileInv, Countable, ConnectionOf, LeftBehind, ConnectionAt,
     CountOf, Old, Gone, FoundOf, Connection
<1>14. \A d \in CachePrograms \ {c} : (StatementOf(d) /\ ConnectionOf(d) /\ FoundOf(d))'
  BY <1>1, <1>6, <1>2, <1>3, OthersKeep
<1>15. \A d \in CachePrograms \ {c} : (StillThere(d) /\ CountOf(d))'
  BY <1>1, <1>6, <1>2, <1>3, <1>4, OthersSee DEF RowsStay
<1>16. PairInv'
  BY <1>1, <1>6, <1>2, <1>3, PairsStay DEF TurnsTo
<1>17. ProgramInv'
  BY <1>8, <1>9, <1>10, <1>11, <1>12, <1>14, <1>15 DEF ProgramInv
<1> QED  BY <1>1, <1>13, <1>16, <1>17 DEF CacheInv

LEMMA WriteBusyKeeps ==
  ASSUME CacheInv, NEW c \in CachePrograms, WriteRow(c), ~MayWrite(c)
  PROVE  CacheInv'
<1>1. /\ CacheTypes' /\ OthersStay(c) /\ cacheAt[c] = "write"
       /\ TurnsTo(c, NoTransaction, "out", cacheCall[c], found[c], "threw")
       /\ RowsStay
  BY WriteBusyDoes DEF CacheInv
<1>2. cacheMishaps \subseteq cacheMishaps'
  BY <1>1 DEF RowsStay
<1>3. /\ StatementOf(c) /\ ConnectionOf(c) /\ FoundOf(c) /\ StillThere(c) /\ CountOf(c)
      /\ FileInv /\ ProgramInv /\ PairInv /\ CacheTypes
  BY DEF CacheInv, ProgramInv
<1>4. /\ connection[c].open \in BOOLEAN /\ connection[c].lock \in {"none", "shared", "reserved", "pending"}
      /\ connection[c].view \in Nat \union {Gone} /\ found[c] \in Nat \union {Gone}
           /\ Written(c) \in Nat \ {0}
  BY <1>3, Values DEF ConnectionType
<1>5. connection'[c] = NoTransaction /\ cacheAt'[c] = "out" /\ cacheCall'[c] = cacheCall[c]
      /\ found'[c] = found[c] /\ cacheEnded'[c] = "threw"
  BY <1>1 DEF TurnsTo
<1>6. cacheAt'[c] = "out" /\ cacheCall'[c] = cacheCall[c] /\ found'[c] = found[c]
        /\ cacheEnded'[c] = "threw"
  BY <1>5
<1>7. /\ connection'[c].open = FALSE
      /\ connection'[c].lock = "none"
      /\ connection'[c].view = Gone
  <2>1. NoTransaction.open = (FALSE) /\ NoTransaction.lock = ("none") /\ NoTransaction.view = (Gone)
    BY NoTransactionFields
  <2> QED  BY <1>5, <2>1
<1>8. StatementOf(c)'
  BY <1>1, <1>6, <1>3, <1>4, <1>7 DEF RowsStay, StatementOf, CacheReading, CacheWriting, Finding
<1>9. ConnectionOf(c)'
  BY <1>1, <1>6, <1>3, <1>4, <1>7 DEF RowsStay, ConnectionOf, LeftBehind, ConnectionAt, Written,
     CacheReading
<1>10. FoundOf(c)'
  <2>1. /\ connection[c].view # 0 /\ (found[c] = 0 => "erased" \in cacheMishaps)
        /\ cacheAt[c] \in {"looked", "fetch"}
             /\ connection[c].lock # "none" => found[c] = connection[c].view
        /\ cacheAt[c] = "fetch" => found[c] # Gone
        /\ cacheEnded[c] = "returned" /\ cacheCall[c] \in {"create", "created"} => found[c] # Gone
    BY <1>3 DEF FoundOf
  <2>2. connection'[c].view # 0
    BY <2>1, <1>7, <1>4 DEF Gone
  <2>3. found'[c] = 0 => "erased" \in cacheMishaps'
    BY <2>1, <1>1, <1>6, <1>2, <1>3, <1>4, <1>7 DEF Gone
  <2>4. cacheAt'[c] \in {"looked", "fetch"}
          /\ connection'[c].lock # "none" => found'[c] = connection'[c].view
    BY <2>1, <1>1, <1>6, <1>2, <1>3, <1>4, <1>7
  <2>5. cacheAt'[c] = "fetch" => found'[c] # Gone
    BY <2>1, <1>1, <1>6, <1>2, <1>3, <1>4, <1>7
  <2>6. cacheEnded'[c] = "returned" /\ cacheCall'[c] \in {"create", "created"} => found'[c] # Gone
    BY <2>1, <1>1, <1>6, <1>2, <1>3, <1>4, <1>7 DEF StatementOf
  <2> QED  BY <2>2, <2>3, <2>4, <2>5, <2>6 DEF FoundOf
<1>11. StillThere(c)'
  BY <1>1, <1>6, <1>3, <1>4, <1>7 DEF RowsStay, StillThere
<1>12. CountOf(c)'
  BY <1>1, <1>6, <1>3, <1>4, <1>7 DEF RowsStay, CountOf, Countable, Old
<1>13. FileInv'
  BY <1>1, <1>6, <1>3, <1>4 DEF RowsStay, FileInv, Countable, ConnectionOf, LeftBehind, ConnectionAt,
     CountOf, Old, Gone, FoundOf, NoTransaction, Connection
<1>14. \A d \in CachePrograms \ {c} : (StatementOf(d) /\ ConnectionOf(d) /\ FoundOf(d))'
  BY <1>1, <1>6, <1>2, <1>3, OthersKeep
<1>15. \A d \in CachePrograms \ {c} : (StillThere(d) /\ CountOf(d))'
  BY <1>1, <1>6, <1>2, <1>3, <1>4, OthersSee DEF RowsStay
<1>16. PairInv'
  BY <1>1, <1>6, <1>2, <1>3, PairsStay DEF TurnsTo
<1>17. ProgramInv'
  BY <1>8, <1>9, <1>10, <1>11, <1>12, <1>14, <1>15 DEF ProgramInv
<1> QED  BY <1>1, <1>13, <1>16, <1>17 DEF CacheInv

LEMMA CommitRowKeeps ==
  ASSUME CacheInv, NEW c \in CachePrograms, CommitRow(c)
  PROVE  CacheInv'
<1>1. /\ CacheTypes' /\ OthersStay(c) /\ cacheAt[c] = "commit" /\ cacheCall[c] # "late set" /\ MayCommit(c)
       /\ TurnsTo(c, NoTransaction, AfterCommit(c), CreatedNow(c), found[c], ReturnedNow(c))
       /\ RowIs(connection[c].view, RowCounted(c))
  BY CommitRowDoes DEF CacheInv
<1>2. cacheMishaps \subseteq cacheMishaps'
  BY <1>1 DEF RowIs
<1>3. /\ StatementOf(c) /\ ConnectionOf(c) /\ FoundOf(c) /\ StillThere(c) /\ CountOf(c)
      /\ FileInv /\ ProgramInv /\ PairInv /\ CacheTypes
  BY DEF CacheInv, ProgramInv
<1>4. /\ connection[c].open \in BOOLEAN /\ connection[c].lock \in {"none", "shared", "reserved", "pending"}
      /\ connection[c].view \in Nat \union {Gone} /\ found[c] \in Nat \union {Gone}
           /\ Written(c) \in Nat \ {0}
  BY <1>3, Values DEF ConnectionType
<1>5. connection'[c] = NoTransaction /\ cacheAt'[c] = AfterCommit(c) /\ cacheCall'[c] = CreatedNow(c)
      /\ found'[c] = found[c] /\ cacheEnded'[c] = ReturnedNow(c)
  BY <1>1 DEF TurnsTo
<1>6. cacheAt'[c] = AfterCommit(c) /\ cacheCall'[c] = CreatedNow(c) /\ found'[c] = found[c]
        /\ cacheEnded'[c] = ReturnedNow(c)
  BY <1>5
<1>7. /\ connection'[c].open = FALSE
      /\ connection'[c].lock = "none"
      /\ connection'[c].view = Gone
  <2>1. NoTransaction.open = (FALSE) /\ NoTransaction.lock = ("none") /\ NoTransaction.view = (Gone)
    BY NoTransactionFields
  <2> QED  BY <1>5, <2>1
<1>8. /\ connection[c].view = Written(c) /\ Written(c) # Gone /\ cacheEnded[c] = "never"
      /\ cacheCall[c] \in {"set", "late set", "assign", "change", "create"}
  <2>1. cacheAt[c] = "commit"
    BY <1>1
  <2>2. ~LeftBehind(c)
    BY <2>1 DEF LeftBehind, CacheReading
  <2>3. connection[c].view = Written(c)
    BY <2>1, <2>2, <1>3 DEF ConnectionOf, ConnectionAt
  <2>4. cacheEnded[c] = "never" /\ cacheCall[c] \in {"set", "late set", "assign", "change", "create"}
    BY <2>1, <1>3 DEF StatementOf, CacheWriting
  <2> QED  BY <2>3, <2>4, <1>3, Values
<1>9. StatementOf(c)'
  BY <1>1, <1>6, <1>8, <1>3, <1>4, <1>7 DEF RowIs, StatementOf, CacheReading, CacheWriting, Finding,
     AfterCommit, CreatedNow, ReturnedNow, RowCounted
<1>10. ConnectionOf(c)'
  BY <1>1, <1>6, <1>8, <1>3, <1>4, <1>7 DEF RowIs, ConnectionOf, LeftBehind, ConnectionAt, Written,
     CacheReading, AfterCommit, CreatedNow, ReturnedNow, RowCounted
<1>11. FoundOf(c)'
  <2>1. /\ connection[c].view # 0 /\ (found[c] = 0 => "erased" \in cacheMishaps)
        /\ cacheAt[c] \in {"looked", "fetch"}
             /\ connection[c].lock # "none" => found[c] = connection[c].view
        /\ cacheAt[c] = "fetch" => found[c] # Gone
        /\ cacheEnded[c] = "returned" /\ cacheCall[c] \in {"create", "created"} => found[c] # Gone
    BY <1>3 DEF FoundOf
  <2>2. connection'[c].view # 0
    BY <2>1, <1>7, <1>4 DEF Gone
  <2>3. found'[c] = 0 => "erased" \in cacheMishaps'
    BY <2>1, <1>1, <1>6, <1>8, <1>2, <1>3, <1>4, <1>7 DEF Gone
  <2>4. cacheAt'[c] \in {"looked", "fetch"}
          /\ connection'[c].lock # "none" => found'[c] = connection'[c].view
    BY <2>1, <1>1, <1>6, <1>8, <1>2, <1>3, <1>4, <1>7
  <2>5. cacheAt'[c] = "fetch" => found'[c] # Gone
    BY <2>1, <1>1, <1>6, <1>8, <1>2, <1>3, <1>4, <1>7 DEF AfterCommit
  <2>6. cacheEnded'[c] = "returned" /\ cacheCall'[c] \in {"create", "created"} => found'[c] # Gone
    BY <2>1, <1>1, <1>6, <1>8, <1>2, <1>3, <1>4, <1>7 DEF StatementOf, ReturnedNow, CreatedNow
  <2> QED  BY <2>2, <2>3, <2>4, <2>5, <2>6 DEF FoundOf
<1>12. StillThere(c)'
  BY <1>1, <1>6, <1>8, <1>3, <1>4, <1>7 DEF RowIs, StillThere, AfterCommit, CreatedNow, ReturnedNow,
     RowCounted
<1>13. CountOf(c)'
  BY <1>1, <1>6, <1>8, <1>3, <1>4, <1>7 DEF RowIs, CountOf, Countable, Old, AfterCommit, CreatedNow,
     ReturnedNow, RowCounted
<1>14. FileInv'
  <2>1. cacheRow' = Written(c) /\ expected' = RowCounted(c) /\ cacheMishaps' = cacheMishaps
          /\ journal' = journal
    BY <1>1, <1>8 DEF RowIs
  <2>2. Countable => RowCounted(c) = Written(c)
    <3>1. CASE cacheCall[c] = "change"
      <4>1. Countable => Old(found[c]) = Old(expected)
        BY <3>1, <1>1, <1>3 DEF CountOf, FileInv
      <4> QED  BY <3>1, <4>1 DEF RowCounted, Written
    <3> QED  BY <3>1 DEF RowCounted
  <2>3. Written(c) # 0
    BY <1>4
  <2> QED  BY <2>1, <2>2, <2>3, <1>3 DEF FileInv, Countable
<1>15. \A d \in CachePrograms \ {c} : (StatementOf(d) /\ ConnectionOf(d) /\ FoundOf(d))'
  BY <1>1, <1>6, <1>8, <1>2, <1>3, OthersKeep
<1>16. \A d \in CachePrograms \ {c} : (StillThere(d) /\ CountOf(d))'
  BY <1>1, <1>6, <1>8, <1>2, <1>3, <1>4, OthersMeet DEF RowIs, StatementOf, CacheWriting, Changing
<1>17. PairInv'
  BY <1>1, <1>6, <1>8, <1>2, <1>3, PairsStay DEF TurnsTo, AfterCommit, CreatedNow, ReturnedNow, RowCounted
<1>18. ProgramInv'
  BY <1>9, <1>10, <1>11, <1>12, <1>13, <1>15, <1>16 DEF ProgramInv
<1> QED  BY <1>1, <1>14, <1>17, <1>18 DEF CacheInv

LEMMA CommitWaitsKeeps ==
  ASSUME CacheInv, NEW c \in CachePrograms, CommitBusy(c),
         UNCHANGED <<cacheAt, cacheEnded, cacheMishaps, cacheRow, cacheCall, found, expected>>
  PROVE  CacheInv'
<1>1. /\ CacheTypes' /\ OthersStay(c) /\ cacheAt[c] = "commit" /\ ~MayCommit(c)
       /\ TurnsTo(c, Connection(connection[c].open, "pending", connection[c].view), cacheAt[c],
              cacheCall[c], found[c], cacheEnded[c])
       /\ RowsStay
  BY CommitWaitsDoes DEF CacheInv
<1>2. cacheMishaps \subseteq cacheMishaps'
  BY <1>1 DEF RowsStay
<1>3. /\ StatementOf(c) /\ ConnectionOf(c) /\ FoundOf(c) /\ StillThere(c) /\ CountOf(c)
      /\ FileInv /\ ProgramInv /\ PairInv /\ CacheTypes
  BY DEF CacheInv, ProgramInv
<1>4. /\ connection[c].open \in BOOLEAN /\ connection[c].lock \in {"none", "shared", "reserved", "pending"}
      /\ connection[c].view \in Nat \union {Gone} /\ found[c] \in Nat \union {Gone}
           /\ Written(c) \in Nat \ {0}
  BY <1>3, Values DEF ConnectionType
<1>5. connection'[c] = Connection(connection[c].open, "pending", connection[c].view)
        /\ cacheAt'[c] = cacheAt[c] /\ cacheCall'[c] = cacheCall[c]
      /\ found'[c] = found[c] /\ cacheEnded'[c] = cacheEnded[c]
  BY <1>1 DEF TurnsTo
<1>6. cacheAt'[c] = cacheAt[c] /\ cacheCall'[c] = cacheCall[c] /\ found'[c] = found[c]
        /\ cacheEnded'[c] = cacheEnded[c]
  BY <1>5
<1>7. /\ connection'[c].open = connection[c].open
      /\ connection'[c].lock = "pending"
      /\ connection'[c].view = connection[c].view
  <2>1. Connection(connection[c].open, "pending", connection[c].view).open = (connection[c].open)
          /\ Connection(connection[c].open, "pending", connection[c].view).lock = ("pending")
               /\ Connection(connection[c].open, "pending", connection[c].view).view = (connection[c].view)
    BY DEF Connection
  <2> QED  BY <1>5, <2>1
<1>8. StatementOf(c)'
  BY <1>1, <1>6, <1>3, <1>4, <1>7 DEF RowsStay, StatementOf, CacheReading, CacheWriting, Finding
<1>9. ConnectionOf(c)'
  BY <1>1, <1>6, <1>3, <1>4, <1>7 DEF RowsStay, ConnectionOf, LeftBehind, ConnectionAt, Written,
     CacheReading
<1>10. FoundOf(c)'
  <2>1. /\ connection[c].view # 0 /\ (found[c] = 0 => "erased" \in cacheMishaps)
        /\ cacheAt[c] \in {"looked", "fetch"}
             /\ connection[c].lock # "none" => found[c] = connection[c].view
        /\ cacheAt[c] = "fetch" => found[c] # Gone
        /\ cacheEnded[c] = "returned" /\ cacheCall[c] \in {"create", "created"} => found[c] # Gone
    BY <1>3 DEF FoundOf
  <2>2. connection'[c].view # 0
    BY <2>1, <1>7, <1>4 DEF Gone
  <2>3. found'[c] = 0 => "erased" \in cacheMishaps'
    BY <2>1, <1>1, <1>6, <1>2, <1>3, <1>4, <1>7 DEF Gone
  <2>4. cacheAt'[c] \in {"looked", "fetch"}
          /\ connection'[c].lock # "none" => found'[c] = connection'[c].view
    BY <2>1, <1>1, <1>6, <1>2, <1>3, <1>4, <1>7
  <2>5. cacheAt'[c] = "fetch" => found'[c] # Gone
    BY <2>1, <1>1, <1>6, <1>2, <1>3, <1>4, <1>7
  <2>6. cacheEnded'[c] = "returned" /\ cacheCall'[c] \in {"create", "created"} => found'[c] # Gone
    BY <2>1, <1>1, <1>6, <1>2, <1>3, <1>4, <1>7 DEF StatementOf
  <2> QED  BY <2>2, <2>3, <2>4, <2>5, <2>6 DEF FoundOf
<1>11. StillThere(c)'
  BY <1>1, <1>6, <1>3, <1>4, <1>7 DEF RowsStay, StillThere
<1>12. CountOf(c)'
  BY <1>1, <1>6, <1>3, <1>4, <1>7 DEF RowsStay, CountOf, Countable, Old
<1>13. FileInv'
  BY <1>1, <1>6, <1>3, <1>4 DEF RowsStay, FileInv, Countable, ConnectionOf, LeftBehind, ConnectionAt,
     CountOf, Old, Gone, FoundOf, Connection
<1>14. \A d \in CachePrograms \ {c} : (StatementOf(d) /\ ConnectionOf(d) /\ FoundOf(d))'
  BY <1>1, <1>6, <1>2, <1>3, OthersKeep
<1>15. \A d \in CachePrograms \ {c} : (StillThere(d) /\ CountOf(d))'
  BY <1>1, <1>6, <1>2, <1>3, <1>4, OthersSee DEF RowsStay
<1>16. PairInv'
  BY <1>1, <1>6, <1>2, <1>3, PairsStay DEF TurnsTo
<1>17. ProgramInv'
  BY <1>8, <1>9, <1>10, <1>11, <1>12, <1>14, <1>15 DEF ProgramInv
<1> QED  BY <1>1, <1>13, <1>16, <1>17 DEF CacheInv

LEMMA CommitThrowsKeeps ==
  ASSUME CacheInv, NEW c \in CachePrograms, CommitBusy(c), CacheThrows(c),
         cacheMishaps' = cacheMishaps \union {"left open"}
  PROVE  CacheInv'
<1>1. /\ CacheTypes' /\ OthersStay(c) /\ cacheAt[c] = "commit" /\ ~MayCommit(c)
       /\ TurnsTo(c, Connection(connection[c].open, "pending", connection[c].view), "out", cacheCall[c],
              found[c], "threw")
       /\ RowLeft
  BY CommitThrowsDoes DEF CacheInv
<1>2. cacheMishaps \subseteq cacheMishaps'
  BY <1>1 DEF RowLeft
<1>3. /\ StatementOf(c) /\ ConnectionOf(c) /\ FoundOf(c) /\ StillThere(c) /\ CountOf(c)
      /\ FileInv /\ ProgramInv /\ PairInv /\ CacheTypes
  BY DEF CacheInv, ProgramInv
<1>4. /\ connection[c].open \in BOOLEAN /\ connection[c].lock \in {"none", "shared", "reserved", "pending"}
      /\ connection[c].view \in Nat \union {Gone} /\ found[c] \in Nat \union {Gone}
           /\ Written(c) \in Nat \ {0}
  BY <1>3, Values DEF ConnectionType
<1>5. connection'[c] = Connection(connection[c].open, "pending", connection[c].view) /\ cacheAt'[c] = "out"
        /\ cacheCall'[c] = cacheCall[c]
      /\ found'[c] = found[c] /\ cacheEnded'[c] = "threw"
  BY <1>1 DEF TurnsTo
<1>6. cacheAt'[c] = "out" /\ cacheCall'[c] = cacheCall[c] /\ found'[c] = found[c]
        /\ cacheEnded'[c] = "threw"
  BY <1>5
<1>7. /\ connection'[c].open = connection[c].open
      /\ connection'[c].lock = "pending"
      /\ connection'[c].view = connection[c].view
  <2>1. Connection(connection[c].open, "pending", connection[c].view).open = (connection[c].open)
          /\ Connection(connection[c].open, "pending", connection[c].view).lock = ("pending")
               /\ Connection(connection[c].open, "pending", connection[c].view).view = (connection[c].view)
    BY DEF Connection
  <2> QED  BY <1>5, <2>1
<1>8. StatementOf(c)'
  BY <1>1, <1>6, <1>3, <1>4, <1>7 DEF RowLeft, StatementOf, CacheReading, CacheWriting, Finding
<1>9. ConnectionOf(c)'
  BY <1>1, <1>6, <1>3, <1>4, <1>7 DEF RowLeft, ConnectionOf, LeftBehind, ConnectionAt, Written, CacheReading
<1>10. FoundOf(c)'
  <2>1. /\ connection[c].view # 0 /\ (found[c] = 0 => "erased" \in cacheMishaps)
        /\ cacheAt[c] \in {"looked", "fetch"}
             /\ connection[c].lock # "none" => found[c] = connection[c].view
        /\ cacheAt[c] = "fetch" => found[c] # Gone
        /\ cacheEnded[c] = "returned" /\ cacheCall[c] \in {"create", "created"} => found[c] # Gone
    BY <1>3 DEF FoundOf
  <2>2. connection'[c].view # 0
    BY <2>1, <1>7, <1>4 DEF Gone
  <2>3. found'[c] = 0 => "erased" \in cacheMishaps'
    BY <2>1, <1>1, <1>6, <1>2, <1>3, <1>4, <1>7 DEF Gone
  <2>4. cacheAt'[c] \in {"looked", "fetch"}
          /\ connection'[c].lock # "none" => found'[c] = connection'[c].view
    BY <2>1, <1>1, <1>6, <1>2, <1>3, <1>4, <1>7
  <2>5. cacheAt'[c] = "fetch" => found'[c] # Gone
    BY <2>1, <1>1, <1>6, <1>2, <1>3, <1>4, <1>7
  <2>6. cacheEnded'[c] = "returned" /\ cacheCall'[c] \in {"create", "created"} => found'[c] # Gone
    BY <2>1, <1>1, <1>6, <1>2, <1>3, <1>4, <1>7 DEF StatementOf
  <2> QED  BY <2>2, <2>3, <2>4, <2>5, <2>6 DEF FoundOf
<1>11. StillThere(c)'
  BY <1>1, <1>6, <1>3, <1>4, <1>7 DEF RowLeft, StillThere
<1>12. CountOf(c)'
  BY <1>1, <1>6, <1>3, <1>4, <1>7 DEF RowLeft, CountOf, Countable, Old
<1>13. FileInv'
  BY <1>1, <1>6, <1>3, <1>4 DEF RowLeft, FileInv, Countable, ConnectionOf, LeftBehind, ConnectionAt,
     CountOf, Old, Gone, FoundOf, Connection, CacheTypes, FileTypes, MayCommit
<1>14. \A d \in CachePrograms \ {c} : (StatementOf(d) /\ ConnectionOf(d) /\ FoundOf(d))'
  BY <1>1, <1>6, <1>2, <1>3, OthersKeep
<1>15. \A d \in CachePrograms \ {c} : (StillThere(d) /\ CountOf(d))'
  BY <1>1, <1>6, <1>2, <1>3, <1>4, OthersSee DEF RowLeft
<1>16. PairInv'
  BY <1>1, <1>6, <1>2, <1>3, PairsStay DEF TurnsTo
<1>17. ProgramInv'
  BY <1>8, <1>9, <1>10, <1>11, <1>12, <1>14, <1>15 DEF ProgramInv
<1> QED  BY <1>1, <1>13, <1>16, <1>17 DEF CacheInv

LEMMA SetRolledBackKeeps ==
  ASSUME CacheInv, NEW c \in CachePrograms, SetRolledBack(c)
  PROVE  CacheInv'
<1>1. /\ CacheTypes' /\ OthersStay(c) /\ cacheAt[c] = "commit" /\ cacheCall[c] = "late set"
       /\ TurnsTo(c, NoTransaction, "out", cacheCall[c], found[c], "returned")
       /\ RowsStay
  BY SetRolledBackDoes DEF CacheInv
<1>2. cacheMishaps \subseteq cacheMishaps'
  BY <1>1 DEF RowsStay
<1>3. /\ StatementOf(c) /\ ConnectionOf(c) /\ FoundOf(c) /\ StillThere(c) /\ CountOf(c)
      /\ FileInv /\ ProgramInv /\ PairInv /\ CacheTypes
  BY DEF CacheInv, ProgramInv
<1>4. /\ connection[c].open \in BOOLEAN /\ connection[c].lock \in {"none", "shared", "reserved", "pending"}
      /\ connection[c].view \in Nat \union {Gone} /\ found[c] \in Nat \union {Gone}
           /\ Written(c) \in Nat \ {0}
  BY <1>3, Values DEF ConnectionType
<1>5. connection'[c] = NoTransaction /\ cacheAt'[c] = "out" /\ cacheCall'[c] = cacheCall[c]
      /\ found'[c] = found[c] /\ cacheEnded'[c] = "returned"
  BY <1>1 DEF TurnsTo
<1>6. cacheAt'[c] = "out" /\ cacheCall'[c] = cacheCall[c] /\ found'[c] = found[c]
        /\ cacheEnded'[c] = "returned"
  BY <1>5
<1>7. /\ connection'[c].open = FALSE
      /\ connection'[c].lock = "none"
      /\ connection'[c].view = Gone
  <2>1. NoTransaction.open = (FALSE) /\ NoTransaction.lock = ("none") /\ NoTransaction.view = (Gone)
    BY NoTransactionFields
  <2> QED  BY <1>5, <2>1
<1>8. StatementOf(c)'
  BY <1>1, <1>6, <1>3, <1>4, <1>7 DEF RowsStay, StatementOf, CacheReading, CacheWriting, Finding
<1>9. ConnectionOf(c)'
  BY <1>1, <1>6, <1>3, <1>4, <1>7 DEF RowsStay, ConnectionOf, LeftBehind, ConnectionAt, Written,
     CacheReading
<1>10. FoundOf(c)'
  <2>1. /\ connection[c].view # 0 /\ (found[c] = 0 => "erased" \in cacheMishaps)
        /\ cacheAt[c] \in {"looked", "fetch"}
             /\ connection[c].lock # "none" => found[c] = connection[c].view
        /\ cacheAt[c] = "fetch" => found[c] # Gone
        /\ cacheEnded[c] = "returned" /\ cacheCall[c] \in {"create", "created"} => found[c] # Gone
    BY <1>3 DEF FoundOf
  <2>2. connection'[c].view # 0
    BY <2>1, <1>7, <1>4 DEF Gone
  <2>3. found'[c] = 0 => "erased" \in cacheMishaps'
    BY <2>1, <1>1, <1>6, <1>2, <1>3, <1>4, <1>7 DEF Gone
  <2>4. cacheAt'[c] \in {"looked", "fetch"}
          /\ connection'[c].lock # "none" => found'[c] = connection'[c].view
    BY <2>1, <1>1, <1>6, <1>2, <1>3, <1>4, <1>7
  <2>5. cacheAt'[c] = "fetch" => found'[c] # Gone
    BY <2>1, <1>1, <1>6, <1>2, <1>3, <1>4, <1>7
  <2>6. cacheEnded'[c] = "returned" /\ cacheCall'[c] \in {"create", "created"} => found'[c] # Gone
    BY <2>1, <1>1, <1>6, <1>2, <1>3, <1>4, <1>7 DEF StatementOf
  <2> QED  BY <2>2, <2>3, <2>4, <2>5, <2>6 DEF FoundOf
<1>11. StillThere(c)'
  BY <1>1, <1>6, <1>3, <1>4, <1>7 DEF RowsStay, StillThere
<1>12. CountOf(c)'
  BY <1>1, <1>6, <1>3, <1>4, <1>7 DEF RowsStay, CountOf, Countable, Old
<1>13. FileInv'
  BY <1>1, <1>6, <1>3, <1>4 DEF RowsStay, FileInv, Countable, ConnectionOf, LeftBehind, ConnectionAt,
     CountOf, Old, Gone, FoundOf, NoTransaction, Connection
<1>14. \A d \in CachePrograms \ {c} : (StatementOf(d) /\ ConnectionOf(d) /\ FoundOf(d))'
  BY <1>1, <1>6, <1>2, <1>3, OthersKeep
<1>15. \A d \in CachePrograms \ {c} : (StillThere(d) /\ CountOf(d))'
  BY <1>1, <1>6, <1>2, <1>3, <1>4, OthersSee DEF RowsStay
<1>16. PairInv'
  BY <1>1, <1>6, <1>2, <1>3, PairsStay DEF TurnsTo
<1>17. ProgramInv'
  BY <1>8, <1>9, <1>10, <1>11, <1>12, <1>14, <1>15 DEF ProgramInv
<1> QED  BY <1>1, <1>13, <1>16, <1>17 DEF CacheInv

LEMMA ErasesKeeps ==
  ASSUME CacheInv, NEW c \in CachePrograms, EraseRow(c), ~connection[c].open
  PROVE  CacheInv'
<1>1. /\ CacheTypes' /\ OthersStay(c) /\ cacheAt[c] = "erase"
       /\ TurnsTo(c, connection[c], "out", cacheCall[c], found[c], "returned")
       /\ RowIs(Gone, Gone)
  BY ErasesDoes DEF CacheInv
<1>2. cacheMishaps \subseteq cacheMishaps'
  BY <1>1 DEF RowIs
<1>3. /\ StatementOf(c) /\ ConnectionOf(c) /\ FoundOf(c) /\ StillThere(c) /\ CountOf(c)
      /\ FileInv /\ ProgramInv /\ PairInv /\ CacheTypes
  BY DEF CacheInv, ProgramInv
<1>4. /\ connection[c].open \in BOOLEAN /\ connection[c].lock \in {"none", "shared", "reserved", "pending"}
      /\ connection[c].view \in Nat \union {Gone} /\ found[c] \in Nat \union {Gone}
           /\ Written(c) \in Nat \ {0}
  BY <1>3, Values DEF ConnectionType
<1>5. connection'[c] = connection[c] /\ cacheAt'[c] = "out" /\ cacheCall'[c] = cacheCall[c]
      /\ found'[c] = found[c] /\ cacheEnded'[c] = "returned"
  BY <1>1 DEF TurnsTo
<1>6. cacheAt'[c] = "out" /\ cacheCall'[c] = cacheCall[c] /\ found'[c] = found[c]
        /\ cacheEnded'[c] = "returned"
  BY <1>5
<1>7. /\ connection'[c].open = connection[c].open
      /\ connection'[c].lock = connection[c].lock
      /\ connection'[c].view = connection[c].view
  BY <1>5
<1>8. StatementOf(c)'
  BY <1>1, <1>6, <1>3, <1>4, <1>7 DEF RowIs, StatementOf, CacheReading, CacheWriting, Finding
<1>9. ConnectionOf(c)'
  BY <1>1, <1>6, <1>3, <1>4, <1>7 DEF RowIs, ConnectionOf, LeftBehind, ConnectionAt, Written, CacheReading
<1>10. FoundOf(c)'
  <2>1. /\ connection[c].view # 0 /\ (found[c] = 0 => "erased" \in cacheMishaps)
        /\ cacheAt[c] \in {"looked", "fetch"}
             /\ connection[c].lock # "none" => found[c] = connection[c].view
        /\ cacheAt[c] = "fetch" => found[c] # Gone
        /\ cacheEnded[c] = "returned" /\ cacheCall[c] \in {"create", "created"} => found[c] # Gone
    BY <1>3 DEF FoundOf
  <2>2. connection'[c].view # 0
    BY <2>1, <1>7, <1>4 DEF Gone
  <2>3. found'[c] = 0 => "erased" \in cacheMishaps'
    BY <2>1, <1>1, <1>6, <1>2, <1>3, <1>4, <1>7 DEF Gone
  <2>4. cacheAt'[c] \in {"looked", "fetch"}
          /\ connection'[c].lock # "none" => found'[c] = connection'[c].view
    BY <2>1, <1>1, <1>6, <1>2, <1>3, <1>4, <1>7
  <2>5. cacheAt'[c] = "fetch" => found'[c] # Gone
    BY <2>1, <1>1, <1>6, <1>2, <1>3, <1>4, <1>7
  <2>6. cacheEnded'[c] = "returned" /\ cacheCall'[c] \in {"create", "created"} => found'[c] # Gone
    BY <2>1, <1>1, <1>6, <1>2, <1>3, <1>4, <1>7 DEF StatementOf
  <2> QED  BY <2>2, <2>3, <2>4, <2>5, <2>6 DEF FoundOf
<1>11. StillThere(c)'
  BY <1>1, <1>6, <1>3, <1>4, <1>7 DEF RowIs, StillThere
<1>12. CountOf(c)'
  BY <1>1, <1>6, <1>3, <1>4, <1>7 DEF RowIs, CountOf, Countable, Old
<1>13. FileInv'
  BY <1>1, <1>6, <1>3, <1>4 DEF RowIs, FileInv, Countable, ConnectionOf, LeftBehind, ConnectionAt, CountOf,
     Old, Gone, FoundOf
<1>14. \A d \in CachePrograms \ {c} : (StatementOf(d) /\ ConnectionOf(d) /\ FoundOf(d))'
  BY <1>1, <1>6, <1>2, <1>3, OthersKeep
<1>15. \A d \in CachePrograms \ {c} : (StillThere(d) /\ CountOf(d))'
  BY <1>1, <1>6, <1>2, <1>3, <1>4, OthersMeet DEF RowIs, StatementOf, CacheWriting, Changing
<1>16. PairInv'
  BY <1>1, <1>6, <1>2, <1>3, PairsStay DEF TurnsTo
<1>17. ProgramInv'
  BY <1>8, <1>9, <1>10, <1>11, <1>12, <1>14, <1>15 DEF ProgramInv
<1> QED  BY <1>1, <1>13, <1>16, <1>17 DEF CacheInv

LEMMA EraseLeftKeeps ==
  ASSUME CacheInv, NEW c \in CachePrograms, EraseRow(c), connection[c].open
  PROVE  CacheInv'
<1>1. /\ CacheTypes' /\ OthersStay(c) /\ cacheAt[c] = "erase"
       /\ TurnsTo(c, Connection(connection[c].open, connection[c].lock, Gone), "out", cacheCall[c],
              found[c], "returned")
       /\ RowIs(cacheRow, Gone)
  BY EraseLeftDoes DEF CacheInv
<1>2. cacheMishaps \subseteq cacheMishaps'
  BY <1>1 DEF RowIs
<1>3. /\ StatementOf(c) /\ ConnectionOf(c) /\ FoundOf(c) /\ StillThere(c) /\ CountOf(c)
      /\ FileInv /\ ProgramInv /\ PairInv /\ CacheTypes
  BY DEF CacheInv, ProgramInv
<1>4. /\ connection[c].open \in BOOLEAN /\ connection[c].lock \in {"none", "shared", "reserved", "pending"}
      /\ connection[c].view \in Nat \union {Gone} /\ found[c] \in Nat \union {Gone}
           /\ Written(c) \in Nat \ {0}
  BY <1>3, Values DEF ConnectionType
<1>5. connection'[c] = Connection(connection[c].open, connection[c].lock, Gone) /\ cacheAt'[c] = "out"
        /\ cacheCall'[c] = cacheCall[c]
      /\ found'[c] = found[c] /\ cacheEnded'[c] = "returned"
  BY <1>1 DEF TurnsTo
<1>6. cacheAt'[c] = "out" /\ cacheCall'[c] = cacheCall[c] /\ found'[c] = found[c]
        /\ cacheEnded'[c] = "returned"
  BY <1>5
<1>7. /\ connection'[c].open = connection[c].open
      /\ connection'[c].lock = connection[c].lock
      /\ connection'[c].view = Gone
  <2>1. Connection(connection[c].open, connection[c].lock, Gone).open = (connection[c].open)
          /\ Connection(connection[c].open, connection[c].lock, Gone).lock = (connection[c].lock)
               /\ Connection(connection[c].open, connection[c].lock, Gone).view = (Gone)
    BY DEF Connection
  <2> QED  BY <1>5, <2>1
<1>8. StatementOf(c)'
  BY <1>1, <1>6, <1>3, <1>4, <1>7 DEF RowIs, StatementOf, CacheReading, CacheWriting, Finding
<1>9. ConnectionOf(c)'
  BY <1>1, <1>6, <1>3, <1>4, <1>7 DEF RowIs, ConnectionOf, LeftBehind, ConnectionAt, Written, CacheReading
<1>10. FoundOf(c)'
  <2>1. /\ connection[c].view # 0 /\ (found[c] = 0 => "erased" \in cacheMishaps)
        /\ cacheAt[c] \in {"looked", "fetch"}
             /\ connection[c].lock # "none" => found[c] = connection[c].view
        /\ cacheAt[c] = "fetch" => found[c] # Gone
        /\ cacheEnded[c] = "returned" /\ cacheCall[c] \in {"create", "created"} => found[c] # Gone
    BY <1>3 DEF FoundOf
  <2>2. connection'[c].view # 0
    BY <2>1, <1>7, <1>4 DEF Gone
  <2>3. found'[c] = 0 => "erased" \in cacheMishaps'
    BY <2>1, <1>1, <1>6, <1>2, <1>3, <1>4, <1>7 DEF Gone
  <2>4. cacheAt'[c] \in {"looked", "fetch"}
          /\ connection'[c].lock # "none" => found'[c] = connection'[c].view
    BY <2>1, <1>1, <1>6, <1>2, <1>3, <1>4, <1>7
  <2>5. cacheAt'[c] = "fetch" => found'[c] # Gone
    BY <2>1, <1>1, <1>6, <1>2, <1>3, <1>4, <1>7
  <2>6. cacheEnded'[c] = "returned" /\ cacheCall'[c] \in {"create", "created"} => found'[c] # Gone
    BY <2>1, <1>1, <1>6, <1>2, <1>3, <1>4, <1>7 DEF StatementOf
  <2> QED  BY <2>2, <2>3, <2>4, <2>5, <2>6 DEF FoundOf
<1>11. StillThere(c)'
  BY <1>1, <1>6, <1>3, <1>4, <1>7 DEF RowIs, StillThere
<1>12. CountOf(c)'
  BY <1>1, <1>6, <1>3, <1>4, <1>7 DEF RowIs, CountOf, Countable, Old
<1>13. FileInv'
  BY <1>1, <1>6, <1>3, <1>4 DEF RowIs, FileInv, Countable, ConnectionOf, LeftBehind, ConnectionAt, CountOf,
     Old, Gone, FoundOf, Connection
<1>14. \A d \in CachePrograms \ {c} : (StatementOf(d) /\ ConnectionOf(d) /\ FoundOf(d))'
  BY <1>1, <1>6, <1>2, <1>3, OthersKeep
<1>15. \A d \in CachePrograms \ {c} : (StillThere(d) /\ CountOf(d))'
  BY <1>1, <1>6, <1>2, <1>3, <1>4, OthersSee DEF RowIs
<1>16. PairInv'
  BY <1>1, <1>6, <1>2, <1>3, PairsStay DEF TurnsTo
<1>17. ProgramInv'
  BY <1>8, <1>9, <1>10, <1>11, <1>12, <1>14, <1>15 DEF ProgramInv
<1> QED  BY <1>1, <1>13, <1>16, <1>17 DEF CacheInv

LEMMA EraseBusyKeeps ==
  ASSUME CacheInv, NEW c \in CachePrograms, EraseBusy(c)
  PROVE  CacheInv'
<1>1. /\ CacheTypes' /\ OthersStay(c) /\ cacheAt[c] = "erase" /\ ~connection[c].open
       /\ TurnsTo(c, connection[c], "out", cacheCall[c], found[c], "threw")
       /\ RowsStay
  BY EraseBusyDoes DEF CacheInv
<1>2. cacheMishaps \subseteq cacheMishaps'
  BY <1>1 DEF RowsStay
<1>3. /\ StatementOf(c) /\ ConnectionOf(c) /\ FoundOf(c) /\ StillThere(c) /\ CountOf(c)
      /\ FileInv /\ ProgramInv /\ PairInv /\ CacheTypes
  BY DEF CacheInv, ProgramInv
<1>4. /\ connection[c].open \in BOOLEAN /\ connection[c].lock \in {"none", "shared", "reserved", "pending"}
      /\ connection[c].view \in Nat \union {Gone} /\ found[c] \in Nat \union {Gone}
           /\ Written(c) \in Nat \ {0}
  BY <1>3, Values DEF ConnectionType
<1>5. connection'[c] = connection[c] /\ cacheAt'[c] = "out" /\ cacheCall'[c] = cacheCall[c]
      /\ found'[c] = found[c] /\ cacheEnded'[c] = "threw"
  BY <1>1 DEF TurnsTo
<1>6. cacheAt'[c] = "out" /\ cacheCall'[c] = cacheCall[c] /\ found'[c] = found[c]
        /\ cacheEnded'[c] = "threw"
  BY <1>5
<1>7. /\ connection'[c].open = connection[c].open
      /\ connection'[c].lock = connection[c].lock
      /\ connection'[c].view = connection[c].view
  BY <1>5
<1>8. StatementOf(c)'
  BY <1>1, <1>6, <1>3, <1>4, <1>7 DEF RowsStay, StatementOf, CacheReading, CacheWriting, Finding
<1>9. ConnectionOf(c)'
  BY <1>1, <1>6, <1>3, <1>4, <1>7 DEF RowsStay, ConnectionOf, LeftBehind, ConnectionAt, Written,
     CacheReading
<1>10. FoundOf(c)'
  <2>1. /\ connection[c].view # 0 /\ (found[c] = 0 => "erased" \in cacheMishaps)
        /\ cacheAt[c] \in {"looked", "fetch"}
             /\ connection[c].lock # "none" => found[c] = connection[c].view
        /\ cacheAt[c] = "fetch" => found[c] # Gone
        /\ cacheEnded[c] = "returned" /\ cacheCall[c] \in {"create", "created"} => found[c] # Gone
    BY <1>3 DEF FoundOf
  <2>2. connection'[c].view # 0
    BY <2>1, <1>7, <1>4 DEF Gone
  <2>3. found'[c] = 0 => "erased" \in cacheMishaps'
    BY <2>1, <1>1, <1>6, <1>2, <1>3, <1>4, <1>7 DEF Gone
  <2>4. cacheAt'[c] \in {"looked", "fetch"}
          /\ connection'[c].lock # "none" => found'[c] = connection'[c].view
    BY <2>1, <1>1, <1>6, <1>2, <1>3, <1>4, <1>7
  <2>5. cacheAt'[c] = "fetch" => found'[c] # Gone
    BY <2>1, <1>1, <1>6, <1>2, <1>3, <1>4, <1>7
  <2>6. cacheEnded'[c] = "returned" /\ cacheCall'[c] \in {"create", "created"} => found'[c] # Gone
    BY <2>1, <1>1, <1>6, <1>2, <1>3, <1>4, <1>7 DEF StatementOf
  <2> QED  BY <2>2, <2>3, <2>4, <2>5, <2>6 DEF FoundOf
<1>11. StillThere(c)'
  BY <1>1, <1>6, <1>3, <1>4, <1>7 DEF RowsStay, StillThere
<1>12. CountOf(c)'
  BY <1>1, <1>6, <1>3, <1>4, <1>7 DEF RowsStay, CountOf, Countable, Old
<1>13. FileInv'
  BY <1>1, <1>6, <1>3, <1>4 DEF RowsStay, FileInv, Countable, ConnectionOf, LeftBehind, ConnectionAt,
     CountOf, Old, Gone, FoundOf
<1>14. \A d \in CachePrograms \ {c} : (StatementOf(d) /\ ConnectionOf(d) /\ FoundOf(d))'
  BY <1>1, <1>6, <1>2, <1>3, OthersKeep
<1>15. \A d \in CachePrograms \ {c} : (StillThere(d) /\ CountOf(d))'
  BY <1>1, <1>6, <1>2, <1>3, <1>4, OthersSee DEF RowsStay
<1>16. PairInv'
  BY <1>1, <1>6, <1>2, <1>3, PairsStay DEF TurnsTo
<1>17. ProgramInv'
  BY <1>8, <1>9, <1>10, <1>11, <1>12, <1>14, <1>15 DEF ProgramInv
<1> QED  BY <1>1, <1>13, <1>16, <1>17 DEF CacheInv

LEMMA CloseCacheKeeps ==
  ASSUME CacheInv, NEW c \in CachePrograms, CloseCache(c)
  PROVE  CacheInv'
<1>1. /\ CacheTypes' /\ OthersStay(c) /\ TRUE
       /\ TurnsTo(c, NoTransaction, "out", cacheCall[c], found[c], "never")
       /\ RowsStay
  BY CloseCacheDoes DEF CacheInv
<1>2. cacheMishaps \subseteq cacheMishaps'
  BY <1>1 DEF RowsStay
<1>3. /\ StatementOf(c) /\ ConnectionOf(c) /\ FoundOf(c) /\ StillThere(c) /\ CountOf(c)
      /\ FileInv /\ ProgramInv /\ PairInv /\ CacheTypes
  BY DEF CacheInv, ProgramInv
<1>4. /\ connection[c].open \in BOOLEAN /\ connection[c].lock \in {"none", "shared", "reserved", "pending"}
      /\ connection[c].view \in Nat \union {Gone} /\ found[c] \in Nat \union {Gone}
           /\ Written(c) \in Nat \ {0}
  BY <1>3, Values DEF ConnectionType
<1>5. connection'[c] = NoTransaction /\ cacheAt'[c] = "out" /\ cacheCall'[c] = cacheCall[c]
      /\ found'[c] = found[c] /\ cacheEnded'[c] = "never"
  BY <1>1 DEF TurnsTo
<1>6. cacheAt'[c] = "out" /\ cacheCall'[c] = cacheCall[c] /\ found'[c] = found[c]
        /\ cacheEnded'[c] = "never"
  BY <1>5
<1>7. /\ connection'[c].open = FALSE
      /\ connection'[c].lock = "none"
      /\ connection'[c].view = Gone
  <2>1. NoTransaction.open = (FALSE) /\ NoTransaction.lock = ("none") /\ NoTransaction.view = (Gone)
    BY NoTransactionFields
  <2> QED  BY <1>5, <2>1
<1>8. StatementOf(c)'
  BY <1>1, <1>6, <1>3, <1>4, <1>7 DEF RowsStay, StatementOf, CacheReading, CacheWriting, Finding
<1>9. ConnectionOf(c)'
  BY <1>1, <1>6, <1>3, <1>4, <1>7 DEF RowsStay, ConnectionOf, LeftBehind, ConnectionAt, Written,
     CacheReading
<1>10. FoundOf(c)'
  <2>1. /\ connection[c].view # 0 /\ (found[c] = 0 => "erased" \in cacheMishaps)
        /\ cacheAt[c] \in {"looked", "fetch"}
             /\ connection[c].lock # "none" => found[c] = connection[c].view
        /\ cacheAt[c] = "fetch" => found[c] # Gone
        /\ cacheEnded[c] = "returned" /\ cacheCall[c] \in {"create", "created"} => found[c] # Gone
    BY <1>3 DEF FoundOf
  <2>2. connection'[c].view # 0
    BY <2>1, <1>7, <1>4 DEF Gone
  <2>3. found'[c] = 0 => "erased" \in cacheMishaps'
    BY <2>1, <1>1, <1>6, <1>2, <1>3, <1>4, <1>7 DEF Gone
  <2>4. cacheAt'[c] \in {"looked", "fetch"}
          /\ connection'[c].lock # "none" => found'[c] = connection'[c].view
    BY <2>1, <1>1, <1>6, <1>2, <1>3, <1>4, <1>7
  <2>5. cacheAt'[c] = "fetch" => found'[c] # Gone
    BY <2>1, <1>1, <1>6, <1>2, <1>3, <1>4, <1>7
  <2>6. cacheEnded'[c] = "returned" /\ cacheCall'[c] \in {"create", "created"} => found'[c] # Gone
    BY <2>1, <1>1, <1>6, <1>2, <1>3, <1>4, <1>7 DEF StatementOf
  <2> QED  BY <2>2, <2>3, <2>4, <2>5, <2>6 DEF FoundOf
<1>11. StillThere(c)'
  BY <1>1, <1>6, <1>3, <1>4, <1>7 DEF RowsStay, StillThere
<1>12. CountOf(c)'
  BY <1>1, <1>6, <1>3, <1>4, <1>7 DEF RowsStay, CountOf, Countable, Old
<1>13. FileInv'
  BY <1>1, <1>6, <1>3, <1>4 DEF RowsStay, FileInv, Countable, ConnectionOf, LeftBehind, ConnectionAt,
     CountOf, Old, Gone, FoundOf, NoTransaction, Connection
<1>14. \A d \in CachePrograms \ {c} : (StatementOf(d) /\ ConnectionOf(d) /\ FoundOf(d))'
  BY <1>1, <1>6, <1>2, <1>3, OthersKeep
<1>15. \A d \in CachePrograms \ {c} : (StillThere(d) /\ CountOf(d))'
  BY <1>1, <1>6, <1>2, <1>3, <1>4, OthersSee DEF RowsStay
<1>16. PairInv'
  BY <1>1, <1>6, <1>2, <1>3, PairsStay DEF TurnsTo
<1>17. ProgramInv'
  BY <1>8, <1>9, <1>10, <1>11, <1>12, <1>14, <1>15 DEF ProgramInv
<1> QED  BY <1>1, <1>13, <1>16, <1>17 DEF CacheInv

LEMMA CallCacheKeeps ==
  ASSUME CacheInv, NEW c \in CachePrograms, CallCache(c)
  PROVE  CacheInv'
<1>1. PICK does \in CacheCallNow :
        TurnsTo(c, connection[c], FirstStatement(does), does, Gone, "never") /\ Notes(c, does)
  BY CallCacheDoes DEF CacheInv
<1>2. CacheTypes' /\ OthersStay(c) /\ cacheAt[c] = "out" /\ RowKept
  BY CallCacheDoes DEF CacheInv
<1>3. cacheMishaps \subseteq cacheMishaps'
  BY <1>1, <1>2 DEF RowKept, Notes, CacheCallNow
<1>4. /\ StatementOf(c) /\ ConnectionOf(c) /\ FoundOf(c) /\ StillThere(c) /\ CountOf(c)
      /\ FileInv /\ ProgramInv /\ PairInv /\ CacheTypes
  BY DEF CacheInv, ProgramInv
<1>5. /\ connection[c].open \in BOOLEAN /\ connection[c].lock \in {"none", "shared", "reserved", "pending"}
      /\ connection[c].view \in Nat \union {Gone} /\ found[c] \in Nat \union {Gone}
           /\ Written(c) \in Nat \ {0}
  BY <1>4, Values DEF ConnectionType
<1>6. /\ connection'[c].open = connection[c].open
      /\ connection'[c].lock = connection[c].lock
      /\ connection'[c].view = connection[c].view
  BY <1>1, <1>2 DEF TurnsTo
<1>7. /\ cacheAt'[c] \in {"look", "erase", "begin"} /\ (does = "change" => cacheAt'[c] = "look")
      /\ cacheCall'[c] = does /\ found'[c] = Gone /\ cacheEnded'[c] = "never"
      /\ (does \in Finding => cacheAt'[c] = "look") /\ (does = "erase" => cacheAt'[c] = "erase")
      /\ (does \notin Finding /\ does # "erase" => cacheAt'[c] = "begin")
  BY <1>1 DEF TurnsTo, FirstStatement, CacheCallNow, Finding
<1>8. StatementOf(c)'
  BY <1>2, <1>3, <1>7, <1>4, <1>5, <1>6 DEF RowKept, StatementOf, CacheReading, CacheWriting, Finding,
     Notes, CacheCallNow
<1>9. ConnectionOf(c)'
  BY <1>2, <1>3, <1>7, <1>4, <1>5, <1>6 DEF RowKept, ConnectionOf, LeftBehind, ConnectionAt, Written,
     CacheReading, Notes, CacheCallNow
<1>10. FoundOf(c)'
  <2>1. /\ connection[c].view # 0 /\ (found[c] = 0 => "erased" \in cacheMishaps)
        /\ cacheAt[c] \in {"looked", "fetch"}
             /\ connection[c].lock # "none" => found[c] = connection[c].view
        /\ cacheAt[c] = "fetch" => found[c] # Gone
        /\ cacheEnded[c] = "returned" /\ cacheCall[c] \in {"create", "created"} => found[c] # Gone
    BY <1>4 DEF FoundOf
  <2>2. connection'[c].view # 0
    BY <2>1, <1>6, <1>5 DEF Gone
  <2>3. found'[c] = 0 => "erased" \in cacheMishaps'
    BY <2>1, <1>2, <1>3, <1>7, <1>3, <1>4, <1>5, <1>6 DEF Gone
  <2>4. cacheAt'[c] \in {"looked", "fetch"}
          /\ connection'[c].lock # "none" => found'[c] = connection'[c].view
    BY <2>1, <1>2, <1>3, <1>7, <1>3, <1>4, <1>5, <1>6
  <2>5. cacheAt'[c] = "fetch" => found'[c] # Gone
    BY <2>1, <1>2, <1>3, <1>7, <1>3, <1>4, <1>5, <1>6
  <2>6. cacheEnded'[c] = "returned" /\ cacheCall'[c] \in {"create", "created"} => found'[c] # Gone
    BY <2>1, <1>2, <1>3, <1>7, <1>3, <1>4, <1>5, <1>6 DEF StatementOf
  <2> QED  BY <2>2, <2>3, <2>4, <2>5, <2>6 DEF FoundOf
<1>11. StillThere(c)'
  BY <1>2, <1>3, <1>7, <1>4, <1>5, <1>6 DEF RowKept, StillThere, Notes, CacheCallNow
<1>12. CountOf(c)'
  BY <1>2, <1>3, <1>7, <1>4, <1>5, <1>6 DEF RowKept, CountOf, Countable, Old, Notes, CacheCallNow
<1>13. FileInv'
  BY <1>1, <1>2, <1>4, <1>5 DEF RowKept, FileInv, Countable, ConnectionOf, LeftBehind, ConnectionAt,
     CountOf, Old, Gone, FoundOf, Notes, CacheCallNow
<1>14. \A d \in CachePrograms \ {c} : (StatementOf(d) /\ ConnectionOf(d) /\ FoundOf(d))'
  BY <1>1, <1>2, <1>3, <1>4, OthersKeep
<1>15. \A d \in CachePrograms \ {c} : (StillThere(d) /\ CountOf(d))'
  BY <1>1, <1>2, <1>3, <1>4, <1>5, OthersSee DEF RowKept
<1>16. PairInv'
  <2>1. \A d \in CachePrograms \ {c} : (NotedOf(c, d) /\ NotedOf(d, c))'
    <3> SUFFICES ASSUME NEW d \in CachePrograms \ {c} PROVE (NotedOf(c, d) /\ NotedOf(d, c))'
      OBVIOUS
    <3>1. cacheAt'[d] = cacheAt[d] /\ cacheCall'[d] = cacheCall[d]
      BY <1>2 DEF OthersStay
    <3>2. cacheAt[d] # "out" =>
           /\ (cacheCall[d] = "change" /\ does \in Changing) \/ (does = "change" /\ cacheCall[d] \in Changing)
                => "together" \in cacheMishaps'
           /\ (cacheCall[d] = "erase" /\ does \in Finding) \/ (does = "erase" /\ cacheCall[d] \in Finding)
                => "erased" \in cacheMishaps'
      BY <1>1 DEF Notes, CacheBusy
    <3> QED  BY <3>1, <3>2, <1>7 DEF NotedOf
  <2>2. \A d, e \in CachePrograms : d # e /\ d # c /\ e # c => NotedOf(d, e)'
    <3> SUFFICES ASSUME NEW d \in CachePrograms, NEW e \in CachePrograms, d # e, d # c, e # c
                 PROVE  NotedOf(d, e)'
      OBVIOUS
    <3>1. /\ cacheAt'[d] = cacheAt[d] /\ cacheCall'[d] = cacheCall[d]
          /\ cacheAt'[e] = cacheAt[e] /\ cacheCall'[e] = cacheCall[e]
      BY <1>2 DEF OthersStay
    <3>2. NotedOf(d, e)
      BY <1>4 DEF PairInv
    <3> QED  BY <3>1, <3>2, <1>3 DEF NotedOf
  <2> QED  BY <2>1, <2>2 DEF PairInv
<1>17. ProgramInv'
  BY <1>8, <1>9, <1>10, <1>11, <1>12, <1>14, <1>15 DEF ProgramInv
<1> QED  BY <1>2, <1>13, <1>16, <1>17 DEF CacheInv

LEMMA CacheStarts == CacheInit => CacheInv
<1> SUFFICES ASSUME CacheInit PROVE CacheInv
  OBVIOUS
<1>1. /\ journal \in {"rollback", "wal"} /\ cacheRow = Gone /\ expected = Gone /\ cacheMishaps = {}
      /\ cacheCallsLeft = CacheCalls
  BY DEF CacheInit
<1>2. \A c \in CachePrograms :
        /\ connection[c] = NoTransaction /\ cacheCall[c] = "none" /\ cacheAt[c] = "out"
        /\ found[c] = Gone /\ cacheEnded[c] = "never"
  BY DEF CacheInit
<1>3. \A c \in CachePrograms :
        connection[c].open = FALSE /\ connection[c].lock = "none" /\ connection[c].view = Gone
  BY <1>2, NoTransactionFields
<1>4. ProgramTypes
  <2>1. "none" \in CacheCallNames /\ "out" \in Statements /\ Gone \in Nat \union {Gone}
        /\ "never" \in {"never", "returned", "threw"} /\ NoTransaction \in ConnectionType
    BY NothingOpen DEF CacheCallNames, Statements
  <2> QED  BY <2>1 DEF CacheInit, ProgramTypes
<1>5. FileTypes
  BY <1>1, CacheAssumption DEF FileTypes
<1>6. FileInv
  BY <1>1 DEF FileInv, Gone
<1>7. \A c \in CachePrograms : StatementOf(c) /\ ConnectionOf(c)
  <2> SUFFICES ASSUME NEW c \in CachePrograms PROVE StatementOf(c) /\ ConnectionAt(c)
    BY DEF ConnectionOf
  <2>1. cacheAt[c] = "out" /\ cacheCall[c] = "none"
    BY <1>2
  <2> QED  BY <2>1, <1>3 DEF StatementOf, ConnectionAt, CacheReading, CacheWriting
<1>8. \A c \in CachePrograms : FoundOf(c) /\ StillThere(c) /\ CountOf(c)
  <2> SUFFICES ASSUME NEW c \in CachePrograms PROVE FoundOf(c) /\ StillThere(c) /\ CountOf(c)
    OBVIOUS
  <2>1. /\ cacheAt[c] = "out" /\ cacheCall[c] = "none" /\ cacheEnded[c] = "never"
        /\ found[c] = Gone /\ connection[c].view = Gone /\ Gone # 0
    BY <1>2, <1>3 DEF Gone
  <2> QED  BY <2>1 DEF FoundOf, StillThere, CountOf
<1>9. PairInv
  BY <1>2 DEF PairInv, NotedOf
<1> QED  BY <1>4, <1>5, <1>6, <1>7, <1>8, <1>9 DEF CacheInv, CacheTypes, ProgramInv

LEMMA CacheSteps == CacheInv /\ CacheNext => CacheInv'
<1> SUFFICES ASSUME CacheInv, CacheNext PROVE CacheInv'
  OBVIOUS
<1>1. PICK c \in CachePrograms :
        \/ CallCache(c)
        \/ Look(c) \/ Refetch(c) \/ ResetRead(c) \/ FindEnds(c) \/ FindThrows(c)
        \/ BeginTransaction(c) \/ CountRows(c) \/ WriteRow(c)
        \/ CommitRow(c) \/ CommitBusy(c) \/ SetRolledBack(c)
        \/ EraseRow(c) \/ EraseBusy(c) \/ CloseCache(c)
  BY DEF CacheNext
<1>2. CASE CallCache(c)
  BY <1>2, CallCacheKeeps
<1>3. CASE Look(c) \/ Refetch(c) \/ ResetRead(c)
  BY <1>3, LookKeeps, RefetchKeeps, ResetReadKeeps
<1>4. CASE FindEnds(c) \/ FindThrows(c)
  BY <1>4, FindEndsKeeps, FindThrowsKeeps
<1>5. CASE BeginTransaction(c)
  BY <1>5, BeginsKeeps, BeginThrowsKeeps
<1>6. CASE CountRows(c)
  BY <1>6, CountRowsKeeps
<1>7. CASE WriteRow(c)
  BY <1>7, WritesKeeps, WriteBusyKeeps
<1>8. CASE CommitRow(c)
  BY <1>8, CommitRowKeeps
<1>9. CASE CommitBusy(c)
  <2>1. \/ UNCHANGED <<cacheAt, cacheEnded, cacheMishaps, cacheRow, cacheCall, found, expected>>
        \/ CacheThrows(c) /\ cacheMishaps' = cacheMishaps \union {"left open"}
    BY <1>9 DEF CommitBusy
  <2>2. CASE UNCHANGED <<cacheAt, cacheEnded, cacheMishaps, cacheRow, cacheCall, found, expected>>
    BY <1>9, <2>2, CommitWaitsKeeps
  <2>3. CASE CacheThrows(c) /\ cacheMishaps' = cacheMishaps \union {"left open"}
    BY <1>9, <2>3, CommitThrowsKeeps
  <2> QED  BY <2>1, <2>2, <2>3
<1>10. CASE SetRolledBack(c) \/ EraseBusy(c) \/ CloseCache(c)
  BY <1>10, SetRolledBackKeeps, EraseBusyKeeps, CloseCacheKeeps
<1>11. CASE EraseRow(c)
  BY <1>11, ErasesKeeps, EraseLeftKeeps
<1> QED  BY <1>1, <1>2, <1>3, <1>4, <1>5, <1>6, <1>7, <1>8, <1>9, <1>10, <1>11

LEMMA CacheStays == CacheInv /\ UNCHANGED cacheVars => CacheInv'
<1> SUFFICES ASSUME CacheInv, UNCHANGED cacheVars PROVE CacheInv'
  OBVIOUS
<1>1. UNCHANGED <<journal, cacheRow, connection, cacheCall, cacheAt, found, cacheEnded, expected,
                  cacheMishaps, cacheCallsLeft>>
  BY DEF cacheVars, ended
<1>2. CacheTypes' = CacheTypes /\ FileInv' = FileInv
  BY <1>1 DEF CacheTypes, ProgramTypes, FileTypes, FileInv, Countable
<1>3. \A c \in CachePrograms :
        /\ StatementOf(c)' = StatementOf(c) /\ ConnectionOf(c)' = ConnectionOf(c)
             /\ FoundOf(c)' = FoundOf(c)
        /\ StillThere(c)' = StillThere(c) /\ CountOf(c)' = CountOf(c)
  BY <1>1 DEF StatementOf, ConnectionOf, LeftBehind, ConnectionAt, Written, FoundOf, StillThere, CountOf,
     Countable
<1>4. PairInv' = PairInv
  BY <1>1 DEF PairInv, NotedOf
<1> QED  BY <1>2, <1>3, <1>4 DEF CacheInv, ProgramInv

(* What is committed is what the calls that returned say; no lock outlives  *)
(* its call; what is found was set.                                         *)
LEMMA CacheMeans == CacheInv => CacheTypeOK /\ CountsKept /\ NothingLeftOpen /\ FoundWasSet
<1> SUFFICES ASSUME CacheInv PROVE CacheTypeOK /\ CountsKept /\ NothingLeftOpen /\ FoundWasSet
  OBVIOUS
<1>1. CacheTypes /\ FileInv /\ \A c \in CachePrograms : StatementOf(c) /\ ConnectionOf(c) /\ FoundOf(c)
  BY DEF CacheInv, ProgramInv
<1>2. CountsKept
  BY <1>1 DEF FileInv, Countable, CountsKept
<1>3. NothingLeftOpen
  <2>1. ASSUME NEW c \in CachePrograms, cacheAt[c] = "out"
        PROVE  connection[c] = NoTransaction \/ (connection[c].open /\ "left open" \in cacheMishaps)
    <3>1. CASE LeftBehind(c)
      BY <3>1 DEF LeftBehind
    <3>2. CASE ConnectionAt(c)
      <4>1. ~connection[c].open /\ connection[c].lock = "none" /\ connection[c].view = Gone
        BY <3>2, <2>1 DEF ConnectionAt
      <4>2. connection[c].open = FALSE
        BY <4>1, <1>1, Values DEF ConnectionType
      <4>3. connection[c] = Connection(connection[c].open, connection[c].lock, connection[c].view)
        BY <1>1, Values DEF ConnectionType, Connection
      <4>4. connection[c] = Connection(FALSE, "none", Gone)
        BY <4>1, <4>2, <4>3
      <4> QED  BY <4>4, NothingOpen
    <3> QED  BY <3>1, <3>2, <1>1 DEF ConnectionOf
  <2> QED  BY <2>1, <1>1 DEF NothingLeftOpen, FileInv
<1>4. FoundWasSet
  BY <1>1 DEF FoundOf, FoundWasSet
<1> QED  BY <1>1, <1>2, <1>3, <1>4, TypesMean
-----------------------------------------------------------------------------
(* The files of settings.                                                   *)

GetDoes == {"build", "ask", "copy", "save", "load", "merge"}
GetPlaces == (GetDoes \X Levels) \union {Out}
GetEnds == {"never", "returned", "threw"}
StorageTypes ==
  /\ configs \in [Levels -> {"no name", "absent", "good", "bad"}]
  /\ configs.local # "no name" /\ configs.system # "no name" /\ (~ofSw => configs.local = "absent")
  /\ ofSw \in BOOLEAN /\ yaml \in BOOLEAN
  /\ built \in {"no", "yes"} \union Getters
  /\ raised \subseteq Levels
  /\ settings \in [Levels -> [Keys -> Levels \union {"none"}]]
GetterTypes ==
  /\ wants \in [Getters -> Levels]
  /\ getAt \in [Getters -> GetPlaces]
  /\ merging \in [Getters -> SUBSET Keys]
  /\ gotten \in [Getters -> GetEnds]
  /\ getsLeft \in [Getters -> Nat]
SettingsTypes == StorageTypes /\ GetterTypes

(* The levels a call has raised and has not made yet: it goes down to a     *)
(* level that is there, or to the system's, and makes those above on its    *)
(* way back.                                                                *)
Height(level) == CASE level = "system" -> 0 [] level = "user" -> 1 [] level = "local" -> 2
TopOf(t) == IF built = t THEN "local" ELSE wants[t]
Makes(t, level) ==
  /\ Height(level) <= Height(TopOf(t))
  /\ \/ getAt[t][1] = "ask" /\ Height(getAt[t][2]) < Height(level)
     \/ getAt[t][1] \in {"copy", "save", "load", "merge"} /\ Height(getAt[t][2]) <= Height(level)
MadeLevel(level) == level \in raised /\ \A t \in Getters : ~Makes(t, level)
LoadsLocal == ofSw /\ configs.local # "absent"
Under(level) ==
  CASE level = "system" -> NoSettings
    [] level = "user" -> OfLevel("system")
    [] level = "local" -> OfLevel("user")

LevelInv == \A level \in Levels :
  /\ level \notin raised => settings[level] = NoSettings
  /\ MadeLevel(level) =>
       settings[level] = OfLevel(level) /\ \A l \in Levels : Height(l) < Height(level) => l \in raised

(* Threads are in their calls together only where the building of the       *)
(* storage makes all levels: then one of them makes them.                   *)
AloneInv ==
  /\ \A t, u \in Getters : t # u /\ getAt[t] # Out /\ getAt[u] # Out => LoadsLocal
  /\ ~LoadsLocal => built \in {"no", "yes"}
  /\ LoadsLocal => (built = "no" => raised = {}) /\ (built = "yes" => raised = Levels)
  /\ LoadsLocal => \A t \in Getters : getAt[t][1] \notin {"out", "build"} =>
       built = t \/ (built = "yes" /\ getAt[t] = <<"ask", wants[t]>>)

ReturnedOf(t) == gotten[t] = "returned" => MadeLevel(wants[t]) /\ getAt[t] = Out
PlaceOf(t) ==
  /\ getAt[t][1] \notin {"out", "build"} =>
       /\ getAt[t][2] \in Levels /\ Height(getAt[t][2]) <= Height(TopOf(t))
       /\ \A l \in Levels : Makes(t, l) => l \in raised
  /\ getAt[t][1] \in {"copy", "save", "load", "merge"} =>
       \A l \in Levels : Height(l) < Height(getAt[t][2]) => l \in raised
  /\ getAt[t] = <<"ask", "local">> /\ built = t => "local" \notin raised
ContentOf(t) ==
  LET level == getAt[t][2]
  IN
  /\ getAt[t][1] = "copy" => level # "system" /\ MadeLevel(Below(level))
  /\ getAt[t][1] = "save" => level = "user" /\ configs.user = "absent" /\ settings.user = Under("user")
  /\ getAt[t][1] = "load" => settings[level] = Under(level) /\ (level = "local" => built = t)
  /\ getAt[t][1] = "merge" =>
       /\ configs[level] \in {"good", "bad"} /\ yaml /\ (level = "local" => built = t)
       /\ merging[t] \subseteq FileKeys[level]
       /\ settings[level] = [k \in Keys |-> IF k \in FileKeys[level] \ merging[t] THEN level
                                            ELSE Under(level)[k]]
GetterOf(t) == ReturnedOf(t) /\ PlaceOf(t) /\ ContentOf(t)

LayersInv == LevelInv /\ AloneInv /\ \A t \in Getters : GetterOf(t)
SettingsInv == SettingsTypes /\ (getMishaps = {} => LayersInv)

(* Where a step leaves its own thread; the others stay where they are.      *)
GetterTurned(t, at, want, keys, how) ==
  /\ getAt' = [getAt EXCEPT ![t] = at]
  /\ wants' = [wants EXCEPT ![t] = want]
  /\ merging' = [merging EXCEPT ![t] = keys]
  /\ gotten' = [gotten EXCEPT ![t] = how]
GettersStay(t) == \A u \in Getters \ {t} :
  getAt'[u] = getAt[u] /\ wants'[u] = wants[u] /\ merging'[u] = merging[u] /\ gotten'[u] = gotten[u]
GetterTurns(t, at, want, keys, how) ==
  getAt'[t] = at /\ wants'[t] = want /\ merging'[t] = keys /\ gotten'[t] = how

LEMMA GetterTurnedFacts ==
  ASSUME GetterTypes, getsLeft' \in [Getters -> Nat], NEW t \in Getters, NEW at \in GetPlaces,
         NEW want \in Levels, NEW keys \in SUBSET Keys, NEW how \in GetEnds,
         GetterTurned(t, at, want, keys, how)
  PROVE  GetterTypes' /\ GettersStay(t) /\ GetterTurns(t, at, want, keys, how)
<1>1. getAt' \in [Getters -> GetPlaces] /\ wants' \in [Getters -> Levels]
  BY DEF GetterTypes, GetterTurned
<1>2. merging' \in [Getters -> SUBSET Keys] /\ gotten' \in [Getters -> GetEnds]
  BY DEF GetterTypes, GetterTurned
<1>3. GettersStay(t)
  BY DEF GetterTypes, GetterTurned, GettersStay
<1>4. GetterTurns(t, at, want, keys, how)
  BY DEF GetterTypes, GetterTurned, GetterTurns
<1> QED  BY <1>1, <1>2, <1>3, <1>4 DEF GetterTypes

LEMMA GetterStays ==
  ASSUME GetterTypes, NEW t \in Getters
  PROVE  /\ getAt = [getAt EXCEPT ![t] = getAt[t]] /\ wants = [wants EXCEPT ![t] = wants[t]]
         /\ merging = [merging EXCEPT ![t] = merging[t]] /\ gotten = [gotten EXCEPT ![t] = gotten[t]]
BY SameAt DEF GetterTypes

LEMMA GetterValues ==
  ASSUME GetterTypes, NEW t \in Getters
  PROVE  getAt[t] \in GetPlaces /\ wants[t] \in Levels /\ merging[t] \in SUBSET Keys
           /\ gotten[t] \in GetEnds
BY DEF GetterTypes

LEMMA Places == Out \in GetPlaces /\ \A does \in GetDoes, level \in Levels : <<does, level>> \in GetPlaces
BY DEF GetPlaces

LEMMA OutIsOut == Out[1] = "out" /\ \A does, level : <<does, level>>[1] = does /\ <<does, level>>[2] = level
BY DEF Out

(* get(level) returns to whoever called it.                                 *)
Above(level) == IF level = "user" THEN "local" ELSE "user"
BackAt(t, level) ==
  CASE built = t /\ level = "local" -> <<"load", "local">>
    [] built # t /\ level = wants[t] -> Out
    [] OTHER -> <<"copy", Above(level)>>
BackHow(t, level) == IF built # t /\ level = wants[t] THEN "returned" ELSE gotten[t]

LEMMA BackIs ==
  ASSUME GetterTypes, NEW t \in Getters, NEW level \in Levels, Back(t, level)
  PROVE  /\ getAt' = [getAt EXCEPT ![t] = BackAt(t, level)]
         /\ gotten' = [gotten EXCEPT ![t] = BackHow(t, level)]
         /\ BackAt(t, level) \in GetPlaces /\ BackHow(t, level) \in GetEnds
<1>1. BackAt(t, level) \in GetPlaces /\ BackHow(t, level) \in GetEnds
  BY GetterValues, Places DEF BackAt, BackHow, Above, GetDoes, Levels, GetEnds
<1>2. CASE built = t /\ level = "local"
  BY <1>1, <1>2, GetterStays DEF Back, BackAt, BackHow, Turns
<1>3. CASE built # t /\ level = wants[t]
  BY <1>1, <1>3, GetterStays DEF Back, BackAt, BackHow, Leaves
<1>4. CASE level # (IF built = t THEN "local" ELSE wants[t])
  <2>1. BackAt(t, level) = <<"copy", Above(level)>> /\ BackHow(t, level) = gotten[t]
    BY <1>4 DEF BackAt, BackHow
  <2>2. Turns(t, "copy", Above(level)) /\ UNCHANGED gotten
    BY <1>4 DEF Back, Above
  <2> QED  BY <1>1, <2>1, <2>2, GetterStays DEF Turns
<1> QED  BY <1>2, <1>3, <1>4

LoadedAt(t, level) == IF level = "local" THEN <<"ask", wants[t]>> ELSE BackAt(t, level)
LoadedHow(t, level) == IF level = "local" THEN gotten[t] ELSE BackHow(t, level)
LoadedBuilt(level) == IF level = "local" THEN "yes" ELSE built

LEMMA LoadedIs ==
  ASSUME GetterTypes, NEW t \in Getters, NEW level \in Levels, Loaded(t, level)
  PROVE  /\ getAt' = [getAt EXCEPT ![t] = LoadedAt(t, level)]
         /\ gotten' = [gotten EXCEPT ![t] = LoadedHow(t, level)]
         /\ LoadedAt(t, level) \in GetPlaces /\ LoadedHow(t, level) \in GetEnds
         /\ built' = LoadedBuilt(level)
<1>1. CASE level = "local"
  <2>1. LoadedAt(t, level) = <<"ask", wants[t]>> /\ LoadedHow(t, level) = gotten[t]
          /\ LoadedBuilt(level) = "yes"
    BY <1>1 DEF LoadedAt, LoadedHow, LoadedBuilt
  <2>2. Turns(t, "ask", wants[t]) /\ UNCHANGED gotten /\ built' = "yes"
    BY <1>1 DEF Loaded
  <2>3. <<"ask", wants[t]>> \in GetPlaces /\ gotten[t] \in GetEnds
    BY GetterValues, Places DEF GetDoes
  <2> QED  BY <2>1, <2>2, <2>3, GetterStays DEF Turns
<1>2. CASE level # "local"
  <2>1. /\ LoadedAt(t, level) = BackAt(t, level) /\ LoadedHow(t, level) = BackHow(t, level)
        /\ LoadedBuilt(level) = built
    BY <1>2 DEF LoadedAt, LoadedHow, LoadedBuilt
  <2>2. Back(t, level) /\ built' = built
    BY <1>2 DEF Loaded
  <2> QED  BY <2>1, <2>2, BackIs
<1> QED  BY <1>1, <1>2

(* What of the storage a step leaves alone, or changes.                     *)
StorageTurns(b, rs, ss) ==
  built' = b /\ raised' = rs /\ settings' = ss /\ wants' = wants /\ UNCHANGED <<configs, yaml, ofSw>>
NoMishap == getMishaps' = getMishaps

LEMMA StorageTurnedFacts ==
  ASSUME StorageTypes, NEW b \in {"no", "yes"} \union Getters, NEW rs \in SUBSET Levels,
         NEW ss \in [Levels -> [Keys -> Levels \union {"none"}]], built' = b, raised' = rs, settings' = ss,
         UNCHANGED <<configs, yaml, ofSw>>
  PROVE  StorageTypes'
BY DEF StorageTypes

LEMMA BelowIsLevel == \A level \in Levels : Below(level) \in Levels
BY DEF Below, Levels

BuildAt(t) == <<"ask", IF built # "yes" /\ configs.local # "absent" THEN "local" ELSE wants[t]>>
BuildBuilt(t) == IF built = "yes" \/ configs.local = "absent" THEN "yes" ELSE t

LEMMA BuildDoes ==
  ASSUME SettingsTypes, NEW t \in Getters, Build(t)
  PROVE  /\ SettingsTypes' /\ GettersStay(t) /\ NoMishap /\ getAt[t][1] = "build" /\ built \in {"no", "yes"}
         /\ GetterTurns(t, BuildAt(t), wants[t], merging[t], gotten[t])
         /\ StorageTurns(BuildBuilt(t), raised, settings)
<1>1. StorageTypes /\ GetterTypes
  BY DEF SettingsTypes
<1>2. getAt[t][1] = "build" /\ built \in {"no", "yes"}
  BY DEF Build
<1>3. /\ getAt' = [getAt EXCEPT ![t] = BuildAt(t)] /\ gotten' = [gotten EXCEPT ![t] = gotten[t]]
      /\ merging' = [merging EXCEPT ![t] = merging[t]]
      /\ BuildAt(t) \in GetPlaces /\ gotten[t] \in GetEnds /\ merging[t] \in SUBSET Keys
      /\ built' = BuildBuilt(t) /\ BuildBuilt(t) \in {"no", "yes"} \union Getters
  <2>1. BuildAt(t) \in GetPlaces /\ BuildBuilt(t) \in {"no", "yes"} \union Getters
    BY <1>1, GetterValues, Places DEF BuildAt, BuildBuilt, GetDoes, Levels
  <2>2. getAt' = [getAt EXCEPT ![t] = BuildAt(t)] /\ built' = BuildBuilt(t)
    BY DEF Build, Turns, BuildAt, BuildBuilt
  <2> QED  BY <1>1, <2>1, <2>2, GetterStays, GetterValues DEF Build
<1>4. /\ raised' = raised /\ raised \in SUBSET Levels
      /\ settings' = settings /\ settings \in [Levels -> [Keys -> Levels \union {"none"}]]
  BY <1>1, <1>2, BelowIsLevel DEF Build, StorageTypes
<1>5. wants' = wants /\ getsLeft' = getsLeft /\ NoMishap /\ UNCHANGED <<configs, yaml, ofSw>>
  BY DEF Build, GoesOn, givenConfigs, NoMishap
<1>6. wants' = [wants EXCEPT ![t] = wants[t]] /\ wants[t] \in Levels
  BY <1>1, <1>5, GetterStays, GetterValues
<1>7. GetterTypes' /\ GettersStay(t) /\ GetterTurns(t, BuildAt(t), wants[t], merging[t], gotten[t])
  <2>1. getsLeft' \in [Getters -> Nat]
    BY <1>1, <1>5 DEF GetterTypes
  <2>2. GetterTurned(t, BuildAt(t), wants[t], merging[t], gotten[t])
    BY <1>3, <1>6 DEF GetterTurned
  <2> QED  BY <1>1, <1>3, <1>6, <2>1, <2>2, GetterTurnedFacts
<1>8. StorageTypes'
  BY <1>1, <1>3, <1>4, <1>5, StorageTurnedFacts
<1> QED  BY <1>2, <1>3, <1>4, <1>5, <1>7, <1>8 DEF SettingsTypes, StorageTurns

AskAt(level) == IF level = "system" THEN <<"load", "system">> ELSE <<"ask", Below(level)>>

LEMMA AskDownDoes ==
  ASSUME SettingsTypes, NEW t \in Getters, NEW level \in Levels, AskFlag(t, level), level \notin raised
  PROVE  /\ SettingsTypes' /\ GettersStay(t) /\ NoMishap /\ getAt[t] = <<"ask", level>>
         /\ GetterTurns(t, AskAt(level), wants[t], merging[t], gotten[t])
         /\ StorageTurns(built, raised \union {level}, settings)
<1>1. StorageTypes /\ GetterTypes
  BY DEF SettingsTypes
<1>2. getAt[t] = <<"ask", level>>
  BY DEF AskFlag, RunsOnce
<1>3. /\ getAt' = [getAt EXCEPT ![t] = AskAt(level)] /\ gotten' = [gotten EXCEPT ![t] = gotten[t]]
      /\ merging' = [merging EXCEPT ![t] = merging[t]]
      /\ AskAt(level) \in GetPlaces /\ gotten[t] \in GetEnds /\ merging[t] \in SUBSET Keys
      /\ built' = built /\ built \in {"no", "yes"} \union Getters
  <2>1. AskAt(level) \in GetPlaces
    BY Places, BelowIsLevel DEF AskAt, GetDoes, Levels
  <2>2. getAt' = [getAt EXCEPT ![t] = AskAt(level)] /\ UNCHANGED <<gotten, merging, built>>
    BY DEF AskFlag, RunsOnce, Turns, AskAt
  <2> QED  BY <1>1, <2>1, <2>2, GetterStays, GetterValues DEF StorageTypes
<1>4. /\ raised' = raised \union {level} /\ raised \union {level} \in SUBSET Levels
      /\ settings' = settings /\ settings \in [Levels -> [Keys -> Levels \union {"none"}]]
  BY <1>1, <1>2, BelowIsLevel DEF AskFlag, RunsOnce, StorageTypes
<1>5. wants' = wants /\ getsLeft' = getsLeft /\ NoMishap /\ UNCHANGED <<configs, yaml, ofSw>>
  BY DEF AskFlag, RunsOnce, GoesOn, givenConfigs, NoMishap
<1>6. wants' = [wants EXCEPT ![t] = wants[t]] /\ wants[t] \in Levels
  BY <1>1, <1>5, GetterStays, GetterValues
<1>7. GetterTypes' /\ GettersStay(t) /\ GetterTurns(t, AskAt(level), wants[t], merging[t], gotten[t])
  <2>1. getsLeft' \in [Getters -> Nat]
    BY <1>1, <1>5 DEF GetterTypes
  <2>2. GetterTurned(t, AskAt(level), wants[t], merging[t], gotten[t])
    BY <1>3, <1>6 DEF GetterTurned
  <2> QED  BY <1>1, <1>3, <1>6, <2>1, <2>2, GetterTurnedFacts
<1>8. StorageTypes'
  BY <1>1, <1>3, <1>4, <1>5, StorageTurnedFacts
<1> QED  BY <1>2, <1>3, <1>4, <1>5, <1>7, <1>8 DEF SettingsTypes, StorageTurns

LEMMA AskBackDoes ==
  ASSUME SettingsTypes, NEW t \in Getters, NEW level \in Levels, AskFlag(t, level), level \in raised
  PROVE  /\ SettingsTypes' /\ GettersStay(t) /\ NoMishap /\ getAt[t] = <<"ask", level>>
         /\ GetterTurns(t, BackAt(t, level), wants[t], merging[t], BackHow(t, level))
         /\ StorageTurns(built, raised, settings)
<1>1. StorageTypes /\ GetterTypes
  BY DEF SettingsTypes
<1>2. getAt[t] = <<"ask", level>>
  BY DEF AskFlag, RunsOnce
<1>3. /\ getAt' = [getAt EXCEPT ![t] = BackAt(t, level)]
           /\ gotten' = [gotten EXCEPT ![t] = BackHow(t, level)]
      /\ merging' = [merging EXCEPT ![t] = merging[t]]
      /\ BackAt(t, level) \in GetPlaces /\ BackHow(t, level) \in GetEnds /\ merging[t] \in SUBSET Keys
      /\ built' = built /\ built \in {"no", "yes"} \union Getters
  <2>1. Back(t, level) /\ UNCHANGED <<merging, built>>
    BY DEF AskFlag, RunsOnce
  <2> QED  BY <1>1, <2>1, BackIs, GetterStays, GetterValues DEF StorageTypes
<1>4. /\ raised' = raised /\ raised \in SUBSET Levels
      /\ settings' = settings /\ settings \in [Levels -> [Keys -> Levels \union {"none"}]]
  BY <1>1, <1>2, BelowIsLevel DEF AskFlag, RunsOnce, StorageTypes
<1>5. wants' = wants /\ getsLeft' = getsLeft /\ NoMishap /\ UNCHANGED <<configs, yaml, ofSw>>
  BY DEF AskFlag, RunsOnce, GoesOn, givenConfigs, NoMishap
<1>6. wants' = [wants EXCEPT ![t] = wants[t]] /\ wants[t] \in Levels
  BY <1>1, <1>5, GetterStays, GetterValues
<1>7. GetterTypes' /\ GettersStay(t)
        /\ GetterTurns(t, BackAt(t, level), wants[t], merging[t], BackHow(t, level))
  <2>1. getsLeft' \in [Getters -> Nat]
    BY <1>1, <1>5 DEF GetterTypes
  <2>2. GetterTurned(t, BackAt(t, level), wants[t], merging[t], BackHow(t, level))
    BY <1>3, <1>6 DEF GetterTurned
  <2> QED  BY <1>1, <1>3, <1>6, <2>1, <2>2, GetterTurnedFacts
<1>8. StorageTypes'
  BY <1>1, <1>3, <1>4, <1>5, StorageTurnedFacts
<1> QED  BY <1>2, <1>3, <1>4, <1>5, <1>7, <1>8 DEF SettingsTypes, StorageTurns

CopyLoads(level) == level = "user" /\ configs.user \in {"good", "bad"}
CopySaves(level) == level = "user" /\ configs.user = "absent" /\ settings.system # NoSettings
CopyAt(t, level) ==
  IF CopyLoads(level) THEN <<"load", "user">>
  ELSE IF CopySaves(level) THEN <<"save", "user">> ELSE BackAt(t, level)
CopyHow(t, level) == IF CopyLoads(level) \/ CopySaves(level) THEN gotten[t] ELSE BackHow(t, level)

LEMMA CopyUpDoes ==
  ASSUME SettingsTypes, NEW t \in Getters, NEW level \in Levels, CopyUp(t, level)
  PROVE  /\ SettingsTypes' /\ GettersStay(t) /\ NoMishap /\ getAt[t] = <<"copy", level>>
         /\ GetterTurns(t, CopyAt(t, level), wants[t], merging[t], CopyHow(t, level))
         /\ StorageTurns(built, raised, [settings EXCEPT ![level] = settings[Below(level)]])
<1>1. StorageTypes /\ GetterTypes
  BY DEF SettingsTypes
<1>2. getAt[t] = <<"copy", level>>
  BY DEF CopyUp
<1>3. /\ getAt' = [getAt EXCEPT ![t] = CopyAt(t, level)]
           /\ gotten' = [gotten EXCEPT ![t] = CopyHow(t, level)]
      /\ merging' = [merging EXCEPT ![t] = merging[t]]
      /\ CopyAt(t, level) \in GetPlaces /\ CopyHow(t, level) \in GetEnds /\ merging[t] \in SUBSET Keys
      /\ built' = built /\ built \in {"no", "yes"} \union Getters
  <2>1. CASE CopyLoads(level)
    <3>1. Turns(t, "load", "user") /\ UNCHANGED gotten /\ UNCHANGED <<merging, built>>
      BY <2>1 DEF CopyUp, CopyLoads
    <3>2. CopyAt(t, level) = <<"load", "user">> /\ CopyHow(t, level) = gotten[t]
            /\ CopyAt(t, level) \in GetPlaces
      BY <2>1, Places DEF CopyAt, CopyHow, GetDoes, Levels
    <3> QED  BY <1>1, <3>1, <3>2, GetterStays, GetterValues DEF Turns, StorageTypes
  <2>2. CASE ~CopyLoads(level) /\ CopySaves(level)
    <3>1. Turns(t, "save", "user") /\ UNCHANGED gotten /\ UNCHANGED <<merging, built>>
      BY <2>2 DEF CopyUp, CopyLoads, CopySaves
    <3>2. CopyAt(t, level) = <<"save", "user">> /\ CopyHow(t, level) = gotten[t]
            /\ CopyAt(t, level) \in GetPlaces
      BY <2>2, Places DEF CopyAt, CopyHow, GetDoes, Levels
    <3> QED  BY <1>1, <3>1, <3>2, GetterStays, GetterValues DEF Turns, StorageTypes
  <2>3. CASE ~CopyLoads(level) /\ ~CopySaves(level)
    <3>1. Back(t, level) /\ UNCHANGED <<merging, built>>
      BY <2>3 DEF CopyUp, CopyLoads, CopySaves
    <3>2. CopyAt(t, level) = BackAt(t, level) /\ CopyHow(t, level) = BackHow(t, level)
      BY <2>3 DEF CopyAt, CopyHow
    <3>3. /\ getAt' = [getAt EXCEPT ![t] = BackAt(t, level)]
               /\ gotten' = [gotten EXCEPT ![t] = BackHow(t, level)]
          /\ BackAt(t, level) \in GetPlaces /\ BackHow(t, level) \in GetEnds
      BY <1>1, <3>1, BackIs
    <3> QED  BY <1>1, <3>1, <3>2, <3>3, GetterStays, GetterValues DEF StorageTypes
  <2> QED  BY <2>1, <2>2, <2>3
<1>4. /\ raised' = raised /\ raised \in SUBSET Levels
      /\ settings' = [settings EXCEPT ![level] = settings[Below(level)]]
           /\ [settings EXCEPT ![level] = settings[Below(level)]] \in [Levels -> [Keys -> Levels \union {"none"}]]
  BY <1>1, <1>2, BelowIsLevel DEF CopyUp, StorageTypes
<1>5. wants' = wants /\ getsLeft' = getsLeft /\ NoMishap /\ UNCHANGED <<configs, yaml, ofSw>>
  BY DEF CopyUp, GoesOn, givenConfigs, NoMishap
<1>6. wants' = [wants EXCEPT ![t] = wants[t]] /\ wants[t] \in Levels
  BY <1>1, <1>5, GetterStays, GetterValues
<1>7. GetterTypes' /\ GettersStay(t)
        /\ GetterTurns(t, CopyAt(t, level), wants[t], merging[t], CopyHow(t, level))
  <2>1. getsLeft' \in [Getters -> Nat]
    BY <1>1, <1>5 DEF GetterTypes
  <2>2. GetterTurned(t, CopyAt(t, level), wants[t], merging[t], CopyHow(t, level))
    BY <1>3, <1>6 DEF GetterTurned
  <2> QED  BY <1>1, <1>3, <1>6, <2>1, <2>2, GetterTurnedFacts
<1>8. StorageTypes'
  BY <1>1, <1>3, <1>4, <1>5, StorageTurnedFacts
<1> QED  BY <1>2, <1>3, <1>4, <1>5, <1>7, <1>8 DEF SettingsTypes, StorageTurns

LEMMA SaveUserDoes ==
  ASSUME SettingsTypes, NEW t \in Getters, SaveUser(t), ~GetThrows(t)
  PROVE  /\ SettingsTypes' /\ GettersStay(t) /\ NoMishap /\ getAt[t] = <<"save", "user">>
         /\ GetterTurns(t, BackAt(t, "user"), wants[t], merging[t], BackHow(t, "user"))
         /\ StorageTurns(built, raised, settings)
<1>1. StorageTypes /\ GetterTypes
  BY DEF SettingsTypes
<1>2. getAt[t] = <<"save", "user">>
  BY DEF SaveUser
<1>3. /\ getAt' = [getAt EXCEPT ![t] = BackAt(t, "user")]
           /\ gotten' = [gotten EXCEPT ![t] = BackHow(t, "user")]
      /\ merging' = [merging EXCEPT ![t] = merging[t]]
      /\ BackAt(t, "user") \in GetPlaces /\ BackHow(t, "user") \in GetEnds /\ merging[t] \in SUBSET Keys
      /\ built' = built /\ built \in {"no", "yes"} \union Getters
  <2>1. Back(t, "user") /\ UNCHANGED <<merging, built>> /\ "user" \in Levels
    BY DEF SaveUser, Levels
  <2> QED  BY <1>1, <2>1, BackIs, GetterStays, GetterValues DEF StorageTypes
<1>4. /\ raised' = raised /\ raised \in SUBSET Levels
      /\ settings' = settings /\ settings \in [Levels -> [Keys -> Levels \union {"none"}]]
  BY <1>1, <1>2, BelowIsLevel DEF SaveUser, StorageTypes
<1>5. wants' = wants /\ getsLeft' = getsLeft /\ NoMishap /\ UNCHANGED <<configs, yaml, ofSw>>
  BY DEF SaveUser, GoesOn, givenConfigs, NoMishap
<1>6. wants' = [wants EXCEPT ![t] = wants[t]] /\ wants[t] \in Levels
  BY <1>1, <1>5, GetterStays, GetterValues
<1>7. GetterTypes' /\ GettersStay(t)
        /\ GetterTurns(t, BackAt(t, "user"), wants[t], merging[t], BackHow(t, "user"))
  <2>1. getsLeft' \in [Getters -> Nat]
    BY <1>1, <1>5 DEF GetterTypes
  <2>2. GetterTurned(t, BackAt(t, "user"), wants[t], merging[t], BackHow(t, "user"))
    BY <1>3, <1>6 DEF GetterTurned
  <2> QED  BY <1>1, <1>3, <1>6, <2>1, <2>2, GetterTurnedFacts
<1>8. StorageTypes'
  BY <1>1, <1>3, <1>4, <1>5, StorageTurnedFacts
<1> QED  BY <1>2, <1>3, <1>4, <1>5, <1>7, <1>8 DEF SettingsTypes, StorageTurns

LEMMA NothingToLoadDoes ==
  ASSUME SettingsTypes, NEW t \in Getters, NEW level \in Levels, NothingToLoad(t, level)
  PROVE  /\ SettingsTypes' /\ GettersStay(t) /\ NoMishap /\ getAt[t] = <<"load", level>>
              /\ configs[level] = "absent"
         /\ GetterTurns(t, LoadedAt(t, level), wants[t], merging[t], LoadedHow(t, level))
         /\ StorageTurns(LoadedBuilt(level), raised, settings)
<1>1. StorageTypes /\ GetterTypes
  BY DEF SettingsTypes
<1>2. getAt[t] = <<"load", level>> /\ configs[level] = "absent"
  BY DEF NothingToLoad
<1>3. /\ getAt' = [getAt EXCEPT ![t] = LoadedAt(t, level)]
           /\ gotten' = [gotten EXCEPT ![t] = LoadedHow(t, level)]
      /\ merging' = [merging EXCEPT ![t] = merging[t]]
      /\ LoadedAt(t, level) \in GetPlaces /\ LoadedHow(t, level) \in GetEnds /\ merging[t] \in SUBSET Keys
      /\ built' = LoadedBuilt(level) /\ LoadedBuilt(level) \in {"no", "yes"} \union Getters
  <2>1. Loaded(t, level) /\ UNCHANGED merging
    BY DEF NothingToLoad
  <2>2. LoadedBuilt(level) \in {"no", "yes"} \union Getters
    BY <1>1 DEF LoadedBuilt, StorageTypes
  <2> QED  BY <1>1, <2>1, <2>2, LoadedIs, GetterStays, GetterValues
<1>4. /\ raised' = raised /\ raised \in SUBSET Levels
      /\ settings' = settings /\ settings \in [Levels -> [Keys -> Levels \union {"none"}]]
  BY <1>1, <1>2, BelowIsLevel DEF NothingToLoad, StorageTypes
<1>5. wants' = wants /\ getsLeft' = getsLeft /\ NoMishap /\ UNCHANGED <<configs, yaml, ofSw>>
  BY DEF NothingToLoad, GoesOn, givenConfigs, NoMishap
<1>6. wants' = [wants EXCEPT ![t] = wants[t]] /\ wants[t] \in Levels
  BY <1>1, <1>5, GetterStays, GetterValues
<1>7. GetterTypes' /\ GettersStay(t)
        /\ GetterTurns(t, LoadedAt(t, level), wants[t], merging[t], LoadedHow(t, level))
  <2>1. getsLeft' \in [Getters -> Nat]
    BY <1>1, <1>5 DEF GetterTypes
  <2>2. GetterTurned(t, LoadedAt(t, level), wants[t], merging[t], LoadedHow(t, level))
    BY <1>3, <1>6 DEF GetterTurned
  <2> QED  BY <1>1, <1>3, <1>6, <2>1, <2>2, GetterTurnedFacts
<1>8. StorageTypes'
  BY <1>1, <1>3, <1>4, <1>5, StorageTurnedFacts
<1> QED  BY <1>2, <1>3, <1>4, <1>5, <1>7, <1>8 DEF SettingsTypes, StorageTurns

Whole(level) == [k \in Keys |-> IF k \in FileKeys[level] THEN level ELSE "none"]

LEMMA LoadWholeDoes ==
  ASSUME SettingsTypes, NEW t \in Getters, NEW level \in Levels, LoadWhole(t, level)
  PROVE  /\ SettingsTypes' /\ GettersStay(t) /\ NoMishap /\ getAt[t] = <<"load", level>>
              /\ configs[level] = "good" /\ ~yaml
         /\ GetterTurns(t, LoadedAt(t, level), wants[t], merging[t], LoadedHow(t, level))
         /\ StorageTurns(LoadedBuilt(level), raised, [settings EXCEPT ![level] = Whole(level)])
<1>1. StorageTypes /\ GetterTypes
  BY DEF SettingsTypes
<1>2. getAt[t] = <<"load", level>> /\ configs[level] = "good" /\ ~yaml
  BY DEF LoadWhole, Whole
<1>3. /\ getAt' = [getAt EXCEPT ![t] = LoadedAt(t, level)]
           /\ gotten' = [gotten EXCEPT ![t] = LoadedHow(t, level)]
      /\ merging' = [merging EXCEPT ![t] = merging[t]]
      /\ LoadedAt(t, level) \in GetPlaces /\ LoadedHow(t, level) \in GetEnds /\ merging[t] \in SUBSET Keys
      /\ built' = LoadedBuilt(level) /\ LoadedBuilt(level) \in {"no", "yes"} \union Getters
  <2>1. Loaded(t, level) /\ UNCHANGED merging
    BY DEF LoadWhole
  <2>2. LoadedBuilt(level) \in {"no", "yes"} \union Getters
    BY <1>1 DEF LoadedBuilt, StorageTypes
  <2> QED  BY <1>1, <2>1, <2>2, LoadedIs, GetterStays, GetterValues
<1>4. /\ raised' = raised /\ raised \in SUBSET Levels
      /\ settings' = [settings EXCEPT ![level] = Whole(level)]
           /\ [settings EXCEPT ![level] = Whole(level)] \in [Levels -> [Keys -> Levels \union {"none"}]]
  BY <1>1, <1>2, BelowIsLevel DEF LoadWhole, Whole, StorageTypes
<1>5. wants' = wants /\ getsLeft' = getsLeft /\ NoMishap /\ UNCHANGED <<configs, yaml, ofSw>>
  BY DEF LoadWhole, Whole, GoesOn, givenConfigs, NoMishap
<1>6. wants' = [wants EXCEPT ![t] = wants[t]] /\ wants[t] \in Levels
  BY <1>1, <1>5, GetterStays, GetterValues
<1>7. GetterTypes' /\ GettersStay(t)
        /\ GetterTurns(t, LoadedAt(t, level), wants[t], merging[t], LoadedHow(t, level))
  <2>1. getsLeft' \in [Getters -> Nat]
    BY <1>1, <1>5 DEF GetterTypes
  <2>2. GetterTurned(t, LoadedAt(t, level), wants[t], merging[t], LoadedHow(t, level))
    BY <1>3, <1>6 DEF GetterTurned
  <2> QED  BY <1>1, <1>3, <1>6, <2>1, <2>2, GetterTurnedFacts
<1>8. StorageTypes'
  BY <1>1, <1>3, <1>4, <1>5, StorageTurnedFacts
<1> QED  BY <1>2, <1>3, <1>4, <1>5, <1>7, <1>8 DEF SettingsTypes, StorageTurns

LEMMA FilesKeys == \A level \in Levels : FileKeys[level] \in SUBSET Keys
BY DEF Keys

LEMMA StartMergeDoes ==
  ASSUME SettingsTypes, NEW t \in Getters, NEW level \in Levels, StartMerge(t, level)
  PROVE  /\ SettingsTypes' /\ GettersStay(t) /\ NoMishap /\ getAt[t] = <<"load", level>>
              /\ configs[level] \in {"good", "bad"} /\ yaml
         /\ GetterTurns(t, <<"merge", level>>, wants[t], FileKeys[level], gotten[t])
         /\ StorageTurns(built, raised, settings)
<1>1. StorageTypes /\ GetterTypes
  BY DEF SettingsTypes
<1>2. getAt[t] = <<"load", level>> /\ configs[level] \in {"good", "bad"} /\ yaml
  BY DEF StartMerge
<1>3. /\ getAt' = [getAt EXCEPT ![t] = <<"merge", level>>] /\ gotten' = [gotten EXCEPT ![t] = gotten[t]]
      /\ merging' = [merging EXCEPT ![t] = FileKeys[level]]
      /\ <<"merge", level>> \in GetPlaces /\ gotten[t] \in GetEnds /\ FileKeys[level] \in SUBSET Keys
      /\ built' = built /\ built \in {"no", "yes"} \union Getters
  <2>1. Turns(t, "merge", level) /\ merging' = [merging EXCEPT ![t] = FileKeys[level]]
          /\ UNCHANGED <<gotten, built>>
    BY DEF StartMerge
  <2>2. <<"merge", level>> \in GetPlaces
    BY Places DEF GetDoes
  <2> QED  BY <1>1, <2>1, <2>2, FilesKeys, GetterStays, GetterValues DEF Turns, StorageTypes
<1>4. /\ raised' = raised /\ raised \in SUBSET Levels
      /\ settings' = settings /\ settings \in [Levels -> [Keys -> Levels \union {"none"}]]
  BY <1>1, <1>2, BelowIsLevel DEF StartMerge, StorageTypes
<1>5. wants' = wants /\ getsLeft' = getsLeft /\ NoMishap /\ UNCHANGED <<configs, yaml, ofSw>>
  BY DEF StartMerge, GoesOn, givenConfigs, NoMishap
<1>6. wants' = [wants EXCEPT ![t] = wants[t]] /\ wants[t] \in Levels
  BY <1>1, <1>5, GetterStays, GetterValues
<1>7. GetterTypes' /\ GettersStay(t)
        /\ GetterTurns(t, <<"merge", level>>, wants[t], FileKeys[level], gotten[t])
  <2>1. getsLeft' \in [Getters -> Nat]
    BY <1>1, <1>5 DEF GetterTypes
  <2>2. GetterTurned(t, <<"merge", level>>, wants[t], FileKeys[level], gotten[t])
    BY <1>3, <1>6 DEF GetterTurned
  <2> QED  BY <1>1, <1>3, <1>6, <2>1, <2>2, GetterTurnedFacts
<1>8. StorageTypes'
  BY <1>1, <1>3, <1>4, <1>5, StorageTurnedFacts
<1> QED  BY <1>2, <1>3, <1>4, <1>5, <1>7, <1>8 DEF SettingsTypes, StorageTurns

MergeEnds(t, level, k) == merging[t] = {k} /\ configs[level] = "good"
MergeAt(t, level, k) == IF MergeEnds(t, level, k) THEN LoadedAt(t, level) ELSE getAt[t]
MergeHow(t, level, k) == IF MergeEnds(t, level, k) THEN LoadedHow(t, level) ELSE gotten[t]
MergeBuilt(t, level, k) == IF MergeEnds(t, level, k) THEN LoadedBuilt(level) ELSE built
MergeOf(t, level, k) ==
  /\ getAt[t] = <<"merge", level>>
  /\ settings' = [settings EXCEPT ![level][k] = level]
  /\ merging' = [merging EXCEPT ![t] = @ \ {k}]
  /\ IF merging[t] = {k} /\ configs[level] = "good" THEN Loaded(t, level)
     ELSE UNCHANGED <<built, getAt, gotten>>
  /\ UNCHANGED raised /\ GoesOn

LEMMA MergeIs == ASSUME NEW t, NEW level, Merge(t, level) PROVE \E k \in merging[t] : MergeOf(t, level, k)
BY DEF Merge, MergeOf

LEMMA MergeDoes ==
  ASSUME SettingsTypes, NEW t \in Getters, NEW level \in Levels, NEW k \in merging[t], MergeOf(t, level, k)
  PROVE  /\ SettingsTypes' /\ GettersStay(t) /\ NoMishap /\ getAt[t] = <<"merge", level>>
         /\ GetterTurns(t, MergeAt(t, level, k), wants[t], merging[t] \ {k}, MergeHow(t, level, k))
         /\ StorageTurns(MergeBuilt(t, level, k), raised, [settings EXCEPT ![level][k] = level])
<1>1. StorageTypes /\ GetterTypes
  BY DEF SettingsTypes
<1>2. getAt[t] = <<"merge", level>>
  BY DEF MergeOf
<1>3. /\ getAt' = [getAt EXCEPT ![t] = MergeAt(t, level, k)]
           /\ gotten' = [gotten EXCEPT ![t] = MergeHow(t, level, k)]
      /\ merging' = [merging EXCEPT ![t] = merging[t] \ {k}]
      /\ MergeAt(t, level, k) \in GetPlaces /\ MergeHow(t, level, k) \in GetEnds
           /\ merging[t] \ {k} \in SUBSET Keys
      /\ built' = MergeBuilt(t, level, k) /\ MergeBuilt(t, level, k) \in {"no", "yes"} \union Getters
  <2>1. merging' = [merging EXCEPT ![t] = merging[t] \ {k}] /\ merging[t] \ {k} \in SUBSET Keys
    BY <1>1, GetterValues DEF MergeOf
  <2>2. CASE MergeEnds(t, level, k)
    <3>1. Loaded(t, level)
      BY <2>2 DEF MergeOf, MergeEnds
    <3>2. /\ MergeAt(t, level, k) = LoadedAt(t, level) /\ MergeHow(t, level, k) = LoadedHow(t, level)
          /\ MergeBuilt(t, level, k) = LoadedBuilt(level)
      BY <2>2 DEF MergeAt, MergeHow, MergeBuilt
    <3>3. LoadedBuilt(level) \in {"no", "yes"} \union Getters
      BY <1>1 DEF LoadedBuilt, StorageTypes
    <3> QED  BY <1>1, <2>1, <3>1, <3>2, <3>3, LoadedIs
  <2>3. CASE ~MergeEnds(t, level, k)
    <3>1. UNCHANGED <<built, getAt, gotten>>
      BY <2>3 DEF MergeOf, MergeEnds
    <3>2. /\ MergeAt(t, level, k) = getAt[t] /\ MergeHow(t, level, k) = gotten[t]
          /\ MergeBuilt(t, level, k) = built
      BY <2>3 DEF MergeAt, MergeHow, MergeBuilt
    <3>3. built \in {"no", "yes"} \union Getters
      BY <1>1 DEF StorageTypes
    <3> QED  BY <1>1, <2>1, <3>1, <3>2, <3>3, GetterStays, GetterValues
  <2> QED  BY <2>2, <2>3
<1>4. settings' = [settings EXCEPT ![level] = [settings[level] EXCEPT ![k] = level]]
  BY <1>1, <1>2 DEF MergeOf, StorageTypes
<1>5. /\ raised' = raised /\ raised \in SUBSET Levels
      /\ settings' = [settings EXCEPT ![level][k] = level]
           /\ [settings EXCEPT ![level][k] = level] \in [Levels -> [Keys -> Levels \union {"none"}]]
  BY <1>1, <1>2, BelowIsLevel DEF MergeOf, StorageTypes
<1>6. wants' = wants /\ getsLeft' = getsLeft /\ NoMishap /\ UNCHANGED <<configs, yaml, ofSw>>
  BY DEF MergeOf, GoesOn, givenConfigs, NoMishap
<1>7. wants' = [wants EXCEPT ![t] = wants[t]] /\ wants[t] \in Levels
  BY <1>1, <1>6, GetterStays, GetterValues
<1>8. GetterTypes' /\ GettersStay(t)
        /\ GetterTurns(t, MergeAt(t, level, k), wants[t], merging[t] \ {k}, MergeHow(t, level, k))
  <2>1. getsLeft' \in [Getters -> Nat]
    BY <1>1, <1>6 DEF GetterTypes
  <2>2. GetterTurned(t, MergeAt(t, level, k), wants[t], merging[t] \ {k}, MergeHow(t, level, k))
    BY <1>3, <1>7 DEF GetterTurned
  <2> QED  BY <1>1, <1>3, <1>7, <2>1, <2>2, GetterTurnedFacts
<1>9. StorageTypes'
  BY <1>1, <1>3, <1>5, <1>6, StorageTurnedFacts
<1> QED  BY <1>2, <1>3, <1>5, <1>6, <1>8, <1>9 DEF SettingsTypes, StorageTurns

LEMMA GetThrowsDoes ==
  ASSUME SettingsTypes, NEW t \in Getters, GetThrows(t)
  PROVE  SettingsTypes' /\ getMishaps' # {}
<1>1. StorageTypes /\ GetterTypes
  BY DEF SettingsTypes
<1>2. GetterTurned(t, Out, wants[t], {}, "threw")
  BY <1>1, GetterStays DEF GetThrows, Leaves, GetterTurned
<1>3. Out \in GetPlaces /\ "threw" \in GetEnds /\ {} \in SUBSET Keys /\ wants[t] \in Levels
      /\ getsLeft' \in [Getters -> Nat]
  BY <1>1, Places, GetterValues DEF GetEnds, GetThrows, GetterTypes
<1>4. GetterTypes'
  BY <1>1, <1>2, <1>3, GetterTurnedFacts
<1>5. /\ UNCHANGED <<configs, yaml, ofSw, raised, settings>>
      /\ built' \in {"no", "yes"} \union Getters
  BY <1>1 DEF GetThrows, givenConfigs, StorageTypes
<1>6. StorageTypes'
  BY <1>1, <1>5 DEF StorageTypes
<1>7. "failed" \in getMishaps'
  BY DEF GetThrows
<1> QED  BY <1>4, <1>6, <1>7 DEF SettingsTypes

CallPlace(level) == <<IF ofSw /\ built # "yes" THEN "build" ELSE "ask", level>>

LEMMA CallGetDoes ==
  ASSUME SettingsTypes, NEW t \in Getters, CallGet(t)
  PROVE  /\ SettingsTypes' /\ GettersStay(t) /\ getAt[t] = Out /\ getMishaps \subseteq getMishaps'
         /\ \E level \in Levels : GetterTurns(t, CallPlace(level), level, merging[t], "never")
         /\ UNCHANGED <<built, raised, settings, configs, yaml, ofSw>>
         /\ \A o \in Getters \ {t} : getAt[o] # Out => LoadsLocal \/ getMishaps' # {}
<1>1. StorageTypes /\ GetterTypes
  BY DEF SettingsTypes
<1>2. PICK level \in Levels :
        wants' = [wants EXCEPT ![t] = level]
          /\ Turns(t, IF ofSw /\ built # "yes" THEN "build" ELSE "ask", level)
  BY DEF CallGet
<1>3. GetterTurned(t, CallPlace(level), level, merging[t], "never")
  BY <1>1, <1>2, GetterStays DEF CallGet, GetterTurned, Turns, CallPlace
<1>4. getsLeft' \in [Getters -> Nat]
  <2>1. getsLeft' = [getsLeft EXCEPT ![t] = getsLeft[t] - 1] /\ getsLeft[t] > 0
    BY DEF CallGet
  <2>2. getsLeft \in [Getters -> Nat] /\ getsLeft[t] \in Nat
    BY <1>1 DEF GetterTypes
  <2>3. getsLeft[t] - 1 \in Nat
    BY <2>1, <2>2, OneLess
  <2> QED  BY <2>1, <2>2, <2>3
<1>5. CallPlace(level) \in GetPlaces /\ merging[t] \in SUBSET Keys /\ "never" \in GetEnds
  BY <1>1, Places, GetterValues DEF CallPlace, GetDoes, GetEnds
<1>6. GetterTypes' /\ GettersStay(t) /\ GetterTurns(t, CallPlace(level), level, merging[t], "never")
  BY <1>1, <1>3, <1>4, <1>5, GetterTurnedFacts
<1>7. UNCHANGED <<built, raised, settings, configs, yaml, ofSw>>
  BY DEF CallGet, givenConfigs
<1>8. StorageTypes'
  BY <1>1, <1>7 DEF StorageTypes
<1>9. getMishaps \subseteq getMishaps' /\ getAt[t] = Out
  BY DEF CallGet
<1>10. ASSUME NEW o \in Getters \ {t}, getAt[o] # Out, ~LoadsLocal PROVE "together" \in getMishaps'
  BY <1>10 DEF CallGet, LoadsLocal
<1>11. \A o \in Getters \ {t} : getAt[o] # Out => LoadsLocal \/ getMishaps' # {}
  BY <1>10
<1> QED  BY <1>6, <1>7, <1>8, <1>9, <1>11 DEF SettingsTypes

LEMMA Heights ==
  /\ Height("system") = 0 /\ Height("user") = 1 /\ Height("local") = 2
  /\ \A l \in Levels : Height(l) \in {0, 1, 2}
  /\ \A l, m \in Levels : Height(l) = Height(m) => l = m
<1>1. Height("system") = 0 /\ Height("user") = 1 /\ Height("local") = 2
  BY DEF Height
<1> QED  BY <1>1 DEF Levels

LEMMA OfLevelStays ==
  ASSUME UNCHANGED <<configs, yaml, ofSw>>
  PROVE  \A l \in Levels : OfLevel(l)' = OfLevel(l) /\ Under(l)' = Under(l)
<1>1. \A below, l : Layer(below, l)' = Layer(below, l)
  BY DEF Layer
<1>2. \A l \in Levels : OfLevel(l)' = OfLevel(l)
  BY <1>1 DEF OfLevel, Layer
<1> QED  BY <1>2 DEF Under, Levels

LEMMA OfLevelIs ==
  ASSUME StorageTypes PROVE \A l \in Levels : OfLevel(l) = Layer(Under(l), l)
<1>1. OfLevel("system") = Layer(Under("system"), "system")
  BY DEF OfLevel, Under
<1>2. OfLevel("user") = Layer(Under("user"), "user")
  BY DEF OfLevel, Under
<1>3. OfLevel("local") = IF ofSw THEN Layer(Under("local"), "local") ELSE Under("local")
  BY DEF OfLevel, Under
<1>4. ~ofSw => Layer(Under("local"), "local") = Under("local")
  BY DEF StorageTypes, Layer
<1> QED  BY <1>1, <1>2, <1>3, <1>4 DEF Levels

LEMMA BuildMarks == ASSUME NEW t \in Getters PROVE t # "no" /\ t # "yes"
BY SettingsStorageAssumption

(* While a thread makes levels no other one does.                           *)
LEMMA Quiet ==
  ASSUME SettingsTypes, AloneInv, NEW t \in Getters, getAt[t][1] \notin {"out", "build"}
  PROVE  \A u \in Getters \ {t} :
           built # u /\ (\A l \in Levels : ~Makes(u, l))
<1> SUFFICES ASSUME NEW u \in Getters \ {t} PROVE built # u /\ (\A l \in Levels : ~Makes(u, l))
  OBVIOUS
<1>1. built = u => ~(built = t) /\ built # "yes" /\ built # "no"
  BY BuildMarks
<1>2. LoadsLocal => built = t \/ built = "yes"
  BY DEF AloneInv
<1>3. ~LoadsLocal => built \in {"no", "yes"}
  BY DEF AloneInv
<1>4. built # u
  BY <1>1, <1>2, <1>3
<1>5. ASSUME NEW l \in Levels, Makes(u, l) PROVE FALSE
  <2>1. getAt[u][1] \notin {"out", "build"}
    BY <1>5 DEF Makes
  <2>2. getAt[u] # Out /\ getAt[t] # Out
    BY <2>1, OutIsOut
  <2>3. LoadsLocal
    BY <2>2 DEF AloneInv
  <2>4. getAt[u] = <<"ask", wants[u]>>
    BY <1>4, <2>1, <2>3 DEF AloneInv
  <2>5. getAt[u][1] = "ask" /\ getAt[u][2] = wants[u]
    BY <2>4
  <2>6. Height(l) <= Height(wants[u]) /\ Height(wants[u]) < Height(l)
    BY <1>4, <1>5, <2>5 DEF Makes, TopOf
  <2>7. wants[u] \in Levels
    BY GetterValues DEF SettingsTypes
  <2> QED  BY <2>6, <2>7, Heights
<1> QED  BY <1>4, <1>5

(* What a step of a thread that makes levels may do.                        *)
WorkStep(t) ==
  /\ getAt[t][1] \notin {"out", "build"} /\ GettersStay(t) /\ wants' = wants
  /\ UNCHANGED <<configs, yaml, ofSw>> /\ raised \subseteq raised'
  /\ built' = built \/ (built = t /\ built' = "yes")
WorkLevels(t) == \A l \in Levels :
  /\ l \notin raised \/ MadeLevel(l) => settings'[l] = settings[l]
  /\ Makes(t, l)' => Makes(t, l) \/ l \notin raised
  /\ MadeLevel(l)' => \/ MadeLevel(l)
                      \/ /\ settings'[l] = OfLevel(l)
                         /\ \A m \in Levels : Height(m) < Height(l) => m \in raised'
AloneOf(t) ==
  LoadsLocal =>
    /\ built = "yes" => raised = Levels
    /\ getAt[t][1] \notin {"out", "build"} => built = t \/ (built = "yes" /\ getAt[t] = <<"ask", wants[t]>>)

LEMMA OthersRest ==
  ASSUME SettingsTypes, LayersInv, NEW t \in Getters, WorkStep(t)
  PROVE  \A u \in Getters \ {t} :
           /\ getAt'[u] = getAt[u] /\ gotten'[u] = gotten[u] /\ wants'[u] = wants[u]
           /\ built # u /\ built' # u
           /\ \A l \in Levels : ~Makes(u, l) /\ ~Makes(u, l)'
           /\ getAt[u][1] \in {"out", "build"} \/ getAt[u] = <<"ask", wants[u]>>
<1> SUFFICES ASSUME NEW u \in Getters \ {t}
             PROVE /\ getAt'[u] = getAt[u] /\ gotten'[u] = gotten[u] /\ wants'[u] = wants[u]
                   /\ built # u /\ built' # u
                   /\ \A l \in Levels : ~Makes(u, l) /\ ~Makes(u, l)'
                   /\ getAt[u][1] \in {"out", "build"} \/ getAt[u] = <<"ask", wants[u]>>
  OBVIOUS
<1>1. getAt'[u] = getAt[u] /\ gotten'[u] = gotten[u] /\ wants'[u] = wants[u]
  BY DEF WorkStep, GettersStay
<1>2. built # u /\ \A l \in Levels : ~Makes(u, l)
  BY Quiet DEF WorkStep, LayersInv
<1>3. built' # u
  BY <1>2, BuildMarks DEF WorkStep
<1>4. TopOf(u)' = TopOf(u)
  BY <1>1, <1>2, <1>3 DEF TopOf
<1>5. \A l \in Levels : Makes(u, l)' = Makes(u, l)
  BY <1>1, <1>4 DEF Makes
<1>6. getAt[u][1] \in {"out", "build"} \/ getAt[u] = <<"ask", wants[u]>>
  <2> SUFFICES ASSUME getAt[u][1] \notin {"out", "build"} PROVE getAt[u] = <<"ask", wants[u]>>
    OBVIOUS
  <2>1. getAt[u] # Out /\ getAt[t] # Out
    BY OutIsOut DEF WorkStep
  <2> QED  BY <2>1, <1>2 DEF LayersInv, AloneInv
<1> QED  BY <1>1, <1>2, <1>3, <1>5, <1>6

LEMMA WorkKeeps ==
  ASSUME SettingsTypes, LayersInv, NEW t \in Getters, WorkStep(t), WorkLevels(t),
         GetterOf(t)', AloneOf(t)'
  PROVE  LayersInv'
<1>1. \A u \in Getters \ {t} :
           /\ getAt'[u] = getAt[u] /\ gotten'[u] = gotten[u] /\ wants'[u] = wants[u]
           /\ built # u /\ built' # u
           /\ \A l \in Levels : ~Makes(u, l) /\ ~Makes(u, l)'
           /\ getAt[u][1] \in {"out", "build"} \/ getAt[u] = <<"ask", wants[u]>>
  BY OthersRest
<1>2. \A l \in Levels : MadeLevel(l) => MadeLevel(l)'
  BY <1>1 DEF MadeLevel, WorkLevels, WorkStep
<1>3. \A l \in Levels : OfLevel(l)' = OfLevel(l) /\ Under(l)' = Under(l)
  BY OfLevelStays DEF WorkStep
<1>4. LevelInv'
  <2> SUFFICES ASSUME NEW l \in Levels
               PROVE  /\ l \notin raised' => settings'[l] = NoSettings
                      /\ MadeLevel(l)' => /\ settings'[l] = OfLevel(l)
                                         /\ \A m \in Levels : Height(m) < Height(l) => m \in raised'
    BY <1>3 DEF LevelInv, NoSettings
  <2>1. /\ l \notin raised => settings[l] = NoSettings
        /\ MadeLevel(l) => /\ settings[l] = OfLevel(l)
                          /\ \A m \in Levels : Height(m) < Height(l) => m \in raised
    BY DEF LayersInv, LevelInv
  <2> QED  BY <2>1 DEF WorkStep, WorkLevels
<1>5. ASSUME NEW u \in Getters \ {t} PROVE GetterOf(u)'
  <2>1. GetterOf(u)
    BY DEF LayersInv
  <2>2. ReturnedOf(u)'
    <3>1. wants[u] \in Levels
      BY GetterValues DEF SettingsTypes
    <3> QED  BY <1>1, <1>2, <2>1, <3>1 DEF GetterOf, ReturnedOf
  <2>3. TopOf(u)' = TopOf(u)
    BY <1>1 DEF TopOf
  <2>4. getAt[u][1] \notin {"copy", "save", "load", "merge"}
    BY <1>1
  <2>5. PlaceOf(u)'
    BY <1>1, <2>1, <2>3, <2>4 DEF GetterOf, PlaceOf
  <2>6. ContentOf(u)'
    BY <1>1, <2>4 DEF ContentOf
  <2> QED  BY <2>2, <2>5, <2>6 DEF GetterOf
<1>6. AloneInv'
  <2>1. AloneInv /\ LoadsLocal' = LoadsLocal /\ getAt[t] # Out
    BY OutIsOut DEF LayersInv, LoadsLocal, WorkStep
  <2>2. \A u, v \in Getters : u # v /\ getAt'[u] # Out /\ getAt'[v] # Out => LoadsLocal'
    BY <1>1, <2>1 DEF AloneInv
  <2>3. ~LoadsLocal' => built' \in {"no", "yes"}
    BY <2>1 DEF AloneInv, WorkStep
  <2>4. LoadsLocal' => (built' = "no" => raised' = {}) /\ (built' = "yes" => raised' = Levels)
    <3>1. LoadsLocal => built # "no"
      BY <2>1, BuildMarks DEF AloneInv, WorkStep
    <3> QED  BY <2>1, <3>1 DEF WorkStep, AloneOf
  <2>5. LoadsLocal' => \A u \in Getters : getAt'[u][1] \notin {"out", "build"} =>
          built' = u \/ (built' = "yes" /\ getAt'[u] = <<"ask", wants'[u]>>)
    <3> SUFFICES ASSUME LoadsLocal', NEW u \in Getters, getAt'[u][1] \notin {"out", "build"}
                 PROVE  built' = u \/ (built' = "yes" /\ getAt'[u] = <<"ask", wants'[u]>>)
      OBVIOUS
    <3>1. CASE u = t
      BY <3>1 DEF AloneOf
    <3>2. CASE u # t
      <4>1. built = "yes" /\ getAt[u] = <<"ask", wants[u]>>
        BY <1>1, <2>1, <3>2 DEF AloneInv
      <4>2. built' = "yes"
        BY <4>1, BuildMarks DEF WorkStep
      <4> QED  BY <1>1, <3>2, <4>1, <4>2
    <3> QED  BY <3>1, <3>2
  <2> QED  BY <2>2, <2>3, <2>4, <2>5 DEF AloneInv
<1> QED  BY <1>4, <1>5, <1>6 DEF LayersInv

(* A level is made, and the call goes back to the level above, or returns.  *)
LEMMA BackKeeps ==
  ASSUME SettingsTypes, LayersInv, NEW t \in Getters, NEW level \in Levels,
         getAt[t][1] \notin {"out", "build"}, getAt[t][2] = level, GettersStay(t),
         getAt'[t] = BackAt(t, level), gotten'[t] = BackHow(t, level),
         wants' = wants, built' = built, raised' = raised, UNCHANGED <<configs, yaml, ofSw>>,
         ~(built = t /\ level = "local"), level \in raised,
         \A l \in Levels : Height(l) < Height(level) => l \in raised,
         \A l \in Levels : l # level => settings'[l] = settings[l], settings'[level] = OfLevel(level)
  PROVE  LayersInv'
<1>1. GetterOf(t) /\ LevelInv /\ AloneInv
  BY DEF LayersInv
<1>2. WorkStep(t)
  BY DEF WorkStep
<1>3. \A u \in Getters \ {t} : \A l \in Levels : ~Makes(u, l) /\ ~Makes(u, l)'
  BY <1>2, OthersRest
<1>4. /\ TopOf(t)' = TopOf(t) /\ TopOf(t) \in Levels /\ Height(level) <= Height(TopOf(t))
      /\ \A l \in Levels : Height(level) < Height(l) /\ Height(l) <= Height(TopOf(t)) => l \in raised
      /\ \A l \in Levels : Makes(t, l) => Height(level) <= Height(l) /\ Height(l) <= Height(TopOf(t))
  <2>1. TopOf(t)' = TopOf(t)
    BY DEF TopOf
  <2>2. TopOf(t) \in Levels
    BY GetterValues DEF TopOf, SettingsTypes, Levels
  <2>3. Height(level) <= Height(TopOf(t)) /\ \A l \in Levels : Makes(t, l) => l \in raised
    BY <1>1 DEF GetterOf, PlaceOf
  <2>4. getAt[t][1] \in GetDoes
    BY GetterValues, OutIsOut DEF SettingsTypes, GetPlaces
  <2>5. \A l \in Levels : Height(level) < Height(l) /\ Height(l) <= Height(TopOf(t)) => Makes(t, l)
    BY <2>4, Heights DEF Makes, GetDoes
  <2>6. \A l \in Levels : Makes(t, l) => Height(level) <= Height(l) /\ Height(l) <= Height(TopOf(t))
    BY Heights DEF Makes
  <2> QED  BY <2>1, <2>2, <2>3, <2>5, <2>6
<1>5. \A l \in Levels : l \notin raised \/ MadeLevel(l) => settings'[l] = settings[l]
  BY <1>1 DEF LevelInv
<1>6. CASE built # t /\ level = wants[t]
  <2>1. BackAt(t, level) = Out /\ BackHow(t, level) = "returned" /\ TopOf(t) = level
    BY <1>6 DEF BackAt, BackHow, TopOf
  <2>2. getAt'[t][1] = "out" /\ getAt'[t] = Out /\ \A l \in Levels : ~Makes(t, l)'
    BY <2>1, OutIsOut DEF Makes
  <2>3. MadeLevel(level)'
    BY <1>3, <2>2 DEF MadeLevel
  <2>4. \A l \in Levels : Makes(t, l) => l = level
    BY <1>4, <2>1, Heights
  <2>5. WorkLevels(t)
    BY <1>5, <1>3, <2>2, <2>4 DEF WorkLevels, MadeLevel
  <2>6. GetterOf(t)'
    BY <1>6, <2>2, <2>3 DEF GetterOf, ReturnedOf, PlaceOf, ContentOf
  <2>7. AloneOf(t)'
    BY <1>1, <2>2 DEF AloneOf, AloneInv, LoadsLocal
  <2> QED  BY <1>2, <2>5, <2>6, <2>7, WorkKeeps
<1>7. CASE ~(built # t /\ level = wants[t])
  <2>1. BackAt(t, level) = <<"copy", Above(level)>> /\ BackHow(t, level) = gotten[t] /\ level # TopOf(t)
    BY <1>7 DEF BackAt, BackHow, TopOf
  <2>2. Height(level) < Height(TopOf(t)) /\ level # "local"
    BY <1>4, <2>1, Heights
  <2>3. /\ Above(level) \in Levels /\ Height(Above(level)) = Height(level) + 1
        /\ Above(level) # "system" /\ Below(Above(level)) = level
    BY <2>2, Heights DEF Above, Below, Levels
  <2>4. getAt'[t][1] = "copy" /\ getAt'[t][2] = Above(level) /\ getAt'[t] # <<"ask", "local">>
    BY <2>1
  <2>5. \A l \in Levels : Makes(t, l)' <=> Height(level) < Height(l) /\ Height(l) <= Height(TopOf(t))
    BY <1>4, <2>3, <2>4, Heights DEF Makes
  <2>6. MadeLevel(level)'
    BY <1>3, <2>5, Heights DEF MadeLevel
  <2>7. \A l \in Levels : Makes(t, l) /\ ~Makes(t, l)' => l = level
    BY <1>4, <2>5, Heights
  <2>8. \A l \in Levels : Makes(t, l)' => l \in raised
    BY <1>4, <2>5
  <2>9. \A l \in Levels : Makes(t, l)' => Makes(t, l)
    <3>1. getAt[t][1] \in GetDoes
      BY GetterValues, OutIsOut DEF SettingsTypes, GetPlaces
    <3> QED  BY <2>5, <3>1, Heights DEF Makes, GetDoes
  <2>10. WorkLevels(t)
    <3>1. ASSUME NEW l \in Levels, MadeLevel(l)'
          PROVE  \/ MadeLevel(l)
                 \/ settings'[l] = OfLevel(l) /\ \A m \in Levels : Height(m) < Height(l) => m \in raised'
      <4>1. CASE Makes(t, l)
        BY <4>1, <2>7, <3>1 DEF MadeLevel
      <4>2. CASE ~Makes(t, l)
        BY <4>2, <1>3, <3>1 DEF MadeLevel
      <4> QED  BY <4>1, <4>2
    <3> QED  BY <3>1, <1>5, <2>9 DEF WorkLevels
  <2>11. GetterOf(t)'
    <3>1. ReturnedOf(t)'
      <4>1. gotten[t] # "returned"
        BY <1>1, OutIsOut DEF GetterOf, ReturnedOf
      <4> QED  BY <4>1, <2>1 DEF ReturnedOf
    <3>2. PlaceOf(t)'
      <4>1. Height(Above(level)) <= Height(TopOf(t))
        BY <2>2, <2>3, <1>4, Heights
      <4>2. \A l \in Levels : Height(l) < Height(Above(level)) => l \in raised
        <5> SUFFICES ASSUME NEW l \in Levels, Height(l) < Height(Above(level)) PROVE l \in raised
          OBVIOUS
        <5>1. Height(l) < Height(level) \/ l = level
          BY <2>3, Heights
        <5> QED  BY <5>1
      <4> QED  BY <1>4, <2>3, <2>4, <2>8, <4>1, <4>2 DEF PlaceOf
    <3>3. ContentOf(t)'
      BY <2>3, <2>4, <2>6 DEF ContentOf
    <3> QED  BY <3>1, <3>2, <3>3 DEF GetterOf
  <2>12. AloneOf(t)'
    <3>1. LoadsLocal => built = t
      <4>1. LoadsLocal /\ built = "yes" => getAt[t] = <<"ask", wants[t]>>
        BY <1>1, BuildMarks DEF AloneInv
      <4>2. getAt[t] = <<"ask", wants[t]>> /\ built = "yes" => level = wants[t] /\ built # t
        BY BuildMarks
      <4> QED  BY <1>1, <1>7, <4>1, <4>2 DEF AloneInv
    <3> QED  BY <3>1, BuildMarks DEF AloneOf, LoadsLocal
  <2> QED  BY <1>2, <2>10, <2>11, <2>12, WorkKeeps
<1> QED  BY <1>6, <1>7

LEMMA AskBackKeeps ==
  ASSUME SettingsTypes, LayersInv, NEW t \in Getters, NEW level \in Levels, AskFlag(t, level),
         level \in raised
  PROVE  LayersInv'
<1>1. /\ GettersStay(t) /\ getAt[t] = <<"ask", level>>
      /\ GetterTurns(t, BackAt(t, level), wants[t], merging[t], BackHow(t, level))
      /\ StorageTurns(built, raised, settings)
  BY AskBackDoes
<1>2. getAt[t][1] = "ask" /\ getAt[t][2] = level
  BY <1>1
<1>3. getAt'[t] = BackAt(t, level) /\ gotten'[t] = BackHow(t, level)
  BY <1>1 DEF GetterTurns
<1>4. /\ wants' = wants /\ built' = built /\ raised' = raised /\ settings' = settings
      /\ UNCHANGED <<configs, yaml, ofSw>>
  BY <1>1 DEF StorageTurns
<1>5. ~(built = t /\ level = "local")
  BY <1>1 DEF LayersInv, GetterOf, PlaceOf
<1>6. MadeLevel(level)
  <2>1. \A u \in Getters \ {t} : ~Makes(u, level)
    BY <1>2, Quiet DEF LayersInv
  <2>2. ~Makes(t, level)
    BY <1>2, Heights DEF Makes
  <2> QED  BY <2>1, <2>2 DEF MadeLevel
<1>7. settings[level] = OfLevel(level) /\ \A l \in Levels : Height(l) < Height(level) => l \in raised
  BY <1>6 DEF LayersInv, LevelInv
<1> QED  BY <1>1, <1>2, <1>3, <1>4, <1>5, <1>7, BackKeeps

LEMMA AskDownKeeps ==
  ASSUME SettingsTypes, LayersInv, NEW t \in Getters, NEW level \in Levels, AskFlag(t, level),
         level \notin raised
  PROVE  LayersInv'
<1>1. /\ GettersStay(t) /\ getAt[t] = <<"ask", level>>
      /\ GetterTurns(t, AskAt(level), wants[t], merging[t], gotten[t])
      /\ StorageTurns(built, raised \union {level}, settings)
  BY AskDownDoes
<1>2. getAt[t][1] = "ask" /\ getAt[t][2] = level
  BY <1>1
<1>3. getAt'[t] = AskAt(level) /\ gotten'[t] = gotten[t]
  BY <1>1 DEF GetterTurns
<1>4. /\ wants' = wants /\ built' = built /\ raised' = raised \union {level} /\ settings' = settings
      /\ UNCHANGED <<configs, yaml, ofSw>>
  BY <1>1 DEF StorageTurns
<1>5. WorkStep(t)
  BY <1>1, <1>2, <1>4 DEF WorkStep
<1>6. GetterOf(t) /\ LevelInv /\ AloneInv
  BY DEF LayersInv
<1>7. TopOf(t)' = TopOf(t) /\ TopOf(t) \in Levels /\ Height(level) <= Height(TopOf(t))
  <2>1. TopOf(t) \in Levels
    BY GetterValues DEF TopOf, SettingsTypes, Levels
  <2> QED  BY <1>2, <1>4, <1>6, <2>1 DEF TopOf, GetterOf, PlaceOf
<1>8. \A l \in Levels : Makes(t, l)' <=> Makes(t, l) \/ l = level
  <2>1. CASE level = "system"
    <3>1. getAt'[t][1] = "load" /\ getAt'[t][2] = level
      BY <2>1, <1>3 DEF AskAt
    <3>2. \A l \in Levels : Height(level) <= Height(l) <=> Height(level) < Height(l) \/ l = level
      BY Heights
    <3> QED  BY <1>2, <1>7, <3>1, <3>2 DEF Makes
  <2>2. CASE level # "system"
    <3>1. getAt'[t][1] = "ask" /\ getAt'[t][2] = Below(level)
      BY <2>2, <1>3 DEF AskAt
    <3>2. Height(Below(level)) = Height(level) - 1 /\ Below(level) \in Levels
      BY <2>2, Heights DEF Below, Levels
    <3>3. \A l \in Levels : Height(Below(level)) < Height(l) <=> Height(level) < Height(l) \/ l = level
      BY <3>2, Heights
    <3> QED  BY <1>2, <1>7, <3>1, <3>3 DEF Makes
  <2> QED  BY <2>1, <2>2
<1>9. WorkLevels(t)
  <2>1. \A u \in Getters \ {t} : \A l \in Levels : ~Makes(u, l) /\ ~Makes(u, l)'
    BY <1>5, OthersRest
  <2>2. \A l \in Levels : MadeLevel(l)' => MadeLevel(l)
    BY <1>4, <1>8, <2>1 DEF MadeLevel
  <2> QED  BY <1>4, <1>8, <2>2 DEF WorkLevels
<1>10. GetterOf(t)'
  <2>1. ReturnedOf(t)'
    <3>1. gotten[t] # "returned"
      BY <1>2, <1>6, OutIsOut DEF GetterOf, ReturnedOf
    <3> QED  BY <1>3, <3>1 DEF ReturnedOf
  <2>2. \A l \in Levels : Makes(t, l)' => l \in raised'
    BY <1>2, <1>4, <1>6, <1>8 DEF GetterOf, PlaceOf
  <2>3. CASE level = "system"
    <3>1. getAt'[t][1] = "load" /\ getAt'[t][2] = level /\ getAt'[t] # <<"ask", "local">>
      BY <2>3, <1>3 DEF AskAt
    <3>2. settings[level] = NoSettings
      BY <1>6 DEF LevelInv
    <3>3. Under(level)' = NoSettings
      BY <2>3 DEF Under, NoSettings
    <3>4. ContentOf(t)'
      BY <2>3, <3>1, <3>2, <3>3, <1>4 DEF ContentOf
    <3>5. PlaceOf(t)'
      BY <2>2, <2>3, <3>1, <1>7, Heights DEF PlaceOf
    <3> QED  BY <2>1, <3>4, <3>5 DEF GetterOf
  <2>4. CASE level # "system"
    <3>1. getAt'[t][1] = "ask" /\ getAt'[t][2] = Below(level) /\ Below(level) # "local"
      BY <2>4, <1>3 DEF AskAt, Below
    <3>2. Height(Below(level)) <= Height(TopOf(t)) /\ Below(level) \in Levels
      BY <2>4, <1>7, Heights DEF Below, Levels
    <3>3. ContentOf(t)'
      BY <3>1 DEF ContentOf
    <3>4. PlaceOf(t)'
      BY <2>2, <3>1, <3>2, <1>7 DEF PlaceOf
    <3> QED  BY <2>1, <3>3, <3>4 DEF GetterOf
  <2> QED  BY <2>3, <2>4
<1>11. AloneOf(t)'
  <2>1. LoadsLocal => built = t
    BY <1>2, <1>6 DEF AloneInv
  <2> QED  BY <1>4, <2>1, BuildMarks DEF AloneOf, LoadsLocal
<1> QED  BY <1>5, <1>9, <1>10, <1>11, WorkKeeps

(* A step of the making of a level: the call does not ask, nor go back.     *)
LEMMA MakingKeeps ==
  ASSUME SettingsTypes, LayersInv, NEW t \in Getters, NEW level \in Levels,
         getAt[t][1] \in {"copy", "save", "load", "merge"}, getAt[t][2] = level, GettersStay(t),
         getAt'[t][1] \in {"save", "load", "merge"}, getAt'[t][2] = level, gotten'[t] = gotten[t],
         wants' = wants, built' = built, raised' = raised, UNCHANGED <<configs, yaml, ofSw>>,
         \A l \in Levels : l # level => settings'[l] = settings[l], ContentOf(t)'
  PROVE  LayersInv'
<1>1. GetterOf(t) /\ LevelInv /\ AloneInv
  BY DEF LayersInv
<1>2. WorkStep(t)
  BY DEF WorkStep
<1>3. TopOf(t)' = TopOf(t) /\ Height(level) <= Height(TopOf(t)) /\ level \in raised
  <2>1. Height(level) <= Height(TopOf(t)) /\ \A l \in Levels : Makes(t, l) => l \in raised
    BY <1>1 DEF GetterOf, PlaceOf
  <2>2. Makes(t, level)
    BY <2>1, Heights DEF Makes
  <2> QED  BY <2>1, <2>2 DEF TopOf
<1>4. \A l \in Levels : Makes(t, l)' <=> Makes(t, l)
  BY <1>3 DEF Makes
<1>5. Makes(t, level)
  BY <1>3, Heights DEF Makes
<1>6. WorkLevels(t)
  <2>1. \A u \in Getters \ {t} : \A l \in Levels : ~Makes(u, l) /\ ~Makes(u, l)'
    BY <1>2, OthersRest
  <2>2. \A l \in Levels : MadeLevel(l)' => MadeLevel(l)
    BY <1>4, <2>1 DEF MadeLevel
  <2>3. ~MadeLevel(level)
    BY <1>5 DEF MadeLevel
  <2> QED  BY <1>3, <1>4, <2>2, <2>3 DEF WorkLevels
<1>7. ReturnedOf(t)'
  <2>1. gotten[t] # "returned"
    BY <1>1, OutIsOut DEF GetterOf, ReturnedOf
  <2> QED  BY <2>1 DEF ReturnedOf
<1>8. PlaceOf(t)'
  <2>1. getAt'[t] # <<"ask", "local">>
    OBVIOUS
  <2> QED  BY <1>1, <1>3, <1>4, <2>1 DEF GetterOf, PlaceOf
<1>9. AloneOf(t)'
  <2>1. LoadsLocal => built = t
    BY <1>1 DEF AloneInv
  <2> QED  BY <2>1, BuildMarks DEF AloneOf, LoadsLocal
<1> QED  BY <1>2, <1>6, <1>7, <1>8, <1>9, WorkKeeps DEF GetterOf

LEMMA CopyUpKeeps ==
  ASSUME SettingsTypes, LayersInv, NEW t \in Getters, NEW level \in Levels, CopyUp(t, level)
  PROVE  LayersInv'
<1>1. /\ GettersStay(t) /\ getAt[t] = <<"copy", level>>
      /\ GetterTurns(t, CopyAt(t, level), wants[t], merging[t], CopyHow(t, level))
      /\ StorageTurns(built, raised, [settings EXCEPT ![level] = settings[Below(level)]])
  BY CopyUpDoes
<1>2. getAt[t][1] = "copy" /\ getAt[t][2] = level
  BY <1>1
<1>3. /\ wants' = wants /\ built' = built /\ raised' = raised /\ UNCHANGED <<configs, yaml, ofSw>>
      /\ \A l \in Levels : l # level => settings'[l] = settings[l]
      /\ settings'[level] = settings[Below(level)]
  BY <1>1 DEF StorageTurns, SettingsTypes, StorageTypes
<1>4. GetterOf(t) /\ LevelInv /\ AloneInv /\ StorageTypes
  BY DEF LayersInv, SettingsTypes
<1>5. level # "system" /\ settings[Below(level)] = OfLevel(Below(level))
  <2>1. level # "system" /\ MadeLevel(Below(level))
    BY <1>2, <1>4 DEF GetterOf, ContentOf
  <2> QED  BY <1>4, <2>1, BelowIsLevel DEF LevelInv
<1>6. OfLevel(Below(level)) = Under(level)
  BY <1>5 DEF Below, Under, Levels
<1>7. Under(level)' = Under(level)
  BY <1>3, OfLevelStays
<1>8. level \in raised /\ \A l \in Levels : Height(l) < Height(level) => l \in raised
  BY <1>2, <1>4, Heights DEF GetterOf, PlaceOf, Makes
<1>9. CASE CopyLoads(level)
  <2>1. getAt'[t] = <<"load", "user">> /\ gotten'[t] = gotten[t] /\ level = "user"
    BY <1>1, <1>9 DEF GetterTurns, CopyAt, CopyHow, CopyLoads
  <2>2. getAt'[t][1] = "load" /\ getAt'[t][2] = level
    BY <2>1
  <2>3. ContentOf(t)'
    BY <2>1, <2>2, <1>3, <1>5, <1>6, <1>7 DEF ContentOf
  <2> QED  BY <1>1, <1>2, <1>3, <2>1, <2>2, <2>3, MakingKeeps
<1>10. CASE ~CopyLoads(level) /\ CopySaves(level)
  <2>1. getAt'[t] = <<"save", "user">> /\ gotten'[t] = gotten[t] /\ level = "user"
          /\ configs.user = "absent"
    BY <1>1, <1>10 DEF GetterTurns, CopyAt, CopyHow, CopySaves
  <2>2. getAt'[t][1] = "save" /\ getAt'[t][2] = level
    BY <2>1
  <2>3. ContentOf(t)'
    BY <2>1, <2>2, <1>3, <1>5, <1>6, <1>7 DEF ContentOf
  <2> QED  BY <1>1, <1>2, <1>3, <2>1, <2>2, <2>3, MakingKeeps
<1>11. CASE ~CopyLoads(level) /\ ~CopySaves(level)
  <2>1. getAt'[t] = BackAt(t, level) /\ gotten'[t] = BackHow(t, level)
    BY <1>1, <1>11 DEF GetterTurns, CopyAt, CopyHow
  <2>2. CASE built = t /\ level = "local"
    <3>1. getAt'[t] = <<"load", "local">> /\ gotten'[t] = gotten[t]
      BY <2>1, <2>2 DEF BackAt, BackHow
    <3>2. getAt'[t][1] = "load" /\ getAt'[t][2] = level
      BY <2>2, <3>1
    <3>3. ContentOf(t)'
      BY <2>2, <3>2, <1>3, <1>5, <1>6, <1>7 DEF ContentOf
    <3> QED  BY <1>1, <1>2, <1>3, <3>1, <3>2, <3>3, MakingKeeps
  <2>3. CASE ~(built = t /\ level = "local")
    <3>1. configs[level] # "good"
      <4>1. CASE level = "user"
        BY <4>1, <1>11 DEF CopyLoads
      <4>2. CASE level = "local"
        <5>1. ~LoadsLocal
          BY <4>2, <2>3, <1>2, <1>4 DEF AloneInv
        <5> QED  BY <4>2, <5>1, <1>4 DEF LoadsLocal, StorageTypes
      <4> QED  BY <4>1, <4>2, <1>5 DEF Levels
    <3>2. OfLevel(level) = Under(level)
      BY <3>1, <1>4, OfLevelIs DEF Layer
    <3> QED  BY <1>1, <1>2, <1>3, <1>5, <1>6, <1>8, <2>1, <2>3, <3>2, BackKeeps
  <2> QED  BY <2>2, <2>3
<1> QED  BY <1>9, <1>10, <1>11

(* The local settings are made: the storage is built, and the call that     *)
(* built it asks for what it wants.                                         *)
LEMMA LocalKeeps ==
  ASSUME SettingsTypes, LayersInv, NEW t \in Getters,
         getAt[t][1] \in {"load", "merge"}, getAt[t][2] = "local", GettersStay(t),
         getAt'[t] = <<"ask", wants[t]>>, gotten'[t] = gotten[t],
         wants' = wants, built' = "yes", raised' = raised, UNCHANGED <<configs, yaml, ofSw>>,
         \A l \in Levels : l # "local" => settings'[l] = settings[l], settings'["local"] = OfLevel("local")
  PROVE  LayersInv'
<1>1. GetterOf(t) /\ LevelInv /\ AloneInv /\ wants[t] \in Levels
  BY GetterValues DEF LayersInv, SettingsTypes
<1>2. built = t /\ TopOf(t) = "local" /\ TopOf(t)' = wants[t]
  <2>1. built = t
    BY <1>1 DEF GetterOf, ContentOf
  <2> QED  BY <2>1, BuildMarks DEF TopOf
<1>3. raised = Levels
  <2>1. Makes(t, "local")
    BY <1>2 DEF Makes, Height
  <2>2. "local" \in raised
    BY <1>1, <2>1 DEF GetterOf, PlaceOf, Levels
  <2>3. \A l \in Levels : Height(l) < Height("local") => l \in raised
    BY <1>1 DEF GetterOf, PlaceOf
  <2>4. \A l \in Levels : l # "local" => Height(l) < Height("local")
    BY Heights DEF Levels
  <2> QED  BY <2>2, <2>3, <2>4 DEF SettingsTypes, StorageTypes
<1>4. \A l \in Levels : Makes(t, l) => l = "local"
  <2>1. \A l \in Levels : Makes(t, l) => Height("local") <= Height(l)
    BY DEF Makes
  <2> QED  BY <2>1, Heights DEF Levels
<1>5. getAt'[t][1] = "ask" /\ getAt'[t][2] = wants[t]
  OBVIOUS
<1>6. \A l \in Levels : ~Makes(t, l)'
  BY <1>1, <1>2, <1>5, Heights DEF Makes
<1>7. WorkStep(t)
  BY <1>2 DEF WorkStep
<1>8. WorkLevels(t)
  <2>1. \A u \in Getters \ {t} : \A l \in Levels : ~Makes(u, l) /\ ~Makes(u, l)'
    BY <1>7, OthersRest
  <2>2. \A l \in Levels : l # "local" => MadeLevel(l)
    BY <1>3, <1>4, <2>1 DEF MadeLevel
  <2>3. ~MadeLevel("local")
    <3>1. Makes(t, "local")
      BY <1>2 DEF Makes, Height
    <3> QED  BY <3>1 DEF MadeLevel
  <2> QED  BY <1>3, <1>6, <2>2, <2>3 DEF WorkLevels
<1>9. GetterOf(t)'
  <2>1. ReturnedOf(t)'
    <3>1. gotten[t] # "returned"
      BY <1>1, OutIsOut DEF GetterOf, ReturnedOf
    <3> QED  BY <3>1 DEF ReturnedOf
  <2>2. PlaceOf(t)'
    <3>1. Height(wants[t]) <= Height(wants[t])
      BY <1>1, Heights
    <3> QED  BY <1>1, <1>2, <1>5, <1>6, <3>1, BuildMarks DEF PlaceOf
  <2>3. ContentOf(t)'
    BY <1>5 DEF ContentOf
  <2> QED  BY <2>1, <2>2, <2>3 DEF GetterOf
<1>10. AloneOf(t)'
  BY <1>3 DEF AloneOf
<1> QED  BY <1>7, <1>8, <1>9, <1>10, WorkKeeps

(* What a load that ends does, with the settings that it leaves.            *)
LEMMA LoadedKeeps ==
  ASSUME SettingsTypes, LayersInv, NEW t \in Getters, NEW level \in Levels,
         getAt[t][1] \in {"load", "merge"}, getAt[t][2] = level, GettersStay(t),
         getAt'[t] = LoadedAt(t, level), gotten'[t] = LoadedHow(t, level),
         wants' = wants, built' = LoadedBuilt(level), raised' = raised, UNCHANGED <<configs, yaml, ofSw>>,
         \A l \in Levels : l # level => settings'[l] = settings[l], settings'[level] = OfLevel(level)
  PROVE  LayersInv'
<1>1. CASE level = "local"
  <2>1. getAt'[t] = <<"ask", wants[t]>> /\ gotten'[t] = gotten[t] /\ built' = "yes"
    BY <1>1 DEF LoadedAt, LoadedHow, LoadedBuilt
  <2> QED  BY <1>1, <2>1, LocalKeeps
<1>2. CASE level # "local"
  <2>1. getAt'[t] = BackAt(t, level) /\ gotten'[t] = BackHow(t, level) /\ built' = built
    BY <1>2 DEF LoadedAt, LoadedHow, LoadedBuilt
  <2>2. level \in raised /\ \A l \in Levels : Height(l) < Height(level) => l \in raised
    BY Heights DEF LayersInv, GetterOf, PlaceOf, Makes
  <2> QED  BY <1>2, <2>1, <2>2, BackKeeps
<1> QED  BY <1>1, <1>2

LEMMA NothingToLoadKeeps ==
  ASSUME SettingsTypes, LayersInv, NEW t \in Getters, NEW level \in Levels, NothingToLoad(t, level)
  PROVE  LayersInv'
<1>1. /\ GettersStay(t) /\ getAt[t] = <<"load", level>> /\ configs[level] = "absent"
      /\ GetterTurns(t, LoadedAt(t, level), wants[t], merging[t], LoadedHow(t, level))
      /\ StorageTurns(LoadedBuilt(level), raised, settings)
  BY NothingToLoadDoes
<1>2. getAt[t][1] = "load" /\ getAt[t][2] = level
  BY <1>1
<1>3. getAt'[t] = LoadedAt(t, level) /\ gotten'[t] = LoadedHow(t, level)
  BY <1>1 DEF GetterTurns
<1>4. /\ wants' = wants /\ built' = LoadedBuilt(level) /\ raised' = raised /\ settings' = settings
      /\ UNCHANGED <<configs, yaml, ofSw>>
  BY <1>1 DEF StorageTurns
<1>5. settings[level] = OfLevel(level)
  <2>1. settings[level] = Under(level)
    BY <1>2 DEF LayersInv, GetterOf, ContentOf
  <2>2. OfLevel(level) = Layer(Under(level), level)
    BY OfLevelIs DEF SettingsTypes
  <2> QED  BY <1>1, <2>1, <2>2 DEF Layer
<1> QED  BY <1>1, <1>2, <1>3, <1>4, <1>5, LoadedKeeps

LEMMA LoadWholeKeeps ==
  ASSUME SettingsTypes, LayersInv, NEW t \in Getters, NEW level \in Levels, LoadWhole(t, level)
  PROVE  LayersInv'
<1>1. /\ GettersStay(t) /\ getAt[t] = <<"load", level>> /\ configs[level] = "good" /\ ~yaml
      /\ GetterTurns(t, LoadedAt(t, level), wants[t], merging[t], LoadedHow(t, level))
      /\ StorageTurns(LoadedBuilt(level), raised, [settings EXCEPT ![level] = Whole(level)])
  BY LoadWholeDoes
<1>2. getAt[t][1] = "load" /\ getAt[t][2] = level
  BY <1>1
<1>3. getAt'[t] = LoadedAt(t, level) /\ gotten'[t] = LoadedHow(t, level)
  BY <1>1 DEF GetterTurns
<1>4. /\ wants' = wants /\ built' = LoadedBuilt(level) /\ raised' = raised
           /\ UNCHANGED <<configs, yaml, ofSw>>
      /\ \A l \in Levels : l # level => settings'[l] = settings[l]
      /\ settings'[level] = Whole(level)
  BY <1>1 DEF StorageTurns, SettingsTypes, StorageTypes
<1>5. Whole(level) = OfLevel(level)
  <2>1. OfLevel(level) = Layer(Under(level), level)
    BY OfLevelIs DEF SettingsTypes
  <2>2. Layer(Under(level), level) = Whole(level)
    BY <1>1 DEF Layer, Whole
  <2> QED  BY <2>1, <2>2
<1> QED  BY <1>1, <1>2, <1>3, <1>4, <1>5, LoadedKeeps

LEMMA StartMergeKeeps ==
  ASSUME SettingsTypes, LayersInv, NEW t \in Getters, NEW level \in Levels, StartMerge(t, level)
  PROVE  LayersInv'
<1>1. /\ GettersStay(t) /\ getAt[t] = <<"load", level>> /\ configs[level] \in {"good", "bad"} /\ yaml
      /\ GetterTurns(t, <<"merge", level>>, wants[t], FileKeys[level], gotten[t])
      /\ StorageTurns(built, raised, settings)
  BY StartMergeDoes
<1>2. getAt[t][1] = "load" /\ getAt[t][2] = level
  BY <1>1
<1>3. getAt'[t] = <<"merge", level>> /\ gotten'[t] = gotten[t] /\ merging'[t] = FileKeys[level]
  BY <1>1 DEF GetterTurns
<1>4. getAt'[t][1] = "merge" /\ getAt'[t][2] = level
  BY <1>3
<1>5. /\ wants' = wants /\ built' = built /\ raised' = raised /\ settings' = settings
      /\ UNCHANGED <<configs, yaml, ofSw>>
  BY <1>1 DEF StorageTurns
<1>6. settings[level] = Under(level) /\ (level = "local" => built = t)
  BY <1>2 DEF LayersInv, GetterOf, ContentOf
<1>7. settings[level] = [k \in Keys |-> IF k \in FileKeys[level] \ FileKeys[level] THEN level ELSE Under(level)[k]]
  BY <1>6 DEF SettingsTypes, StorageTypes
<1>8. Under(level)' = Under(level)
  BY <1>5, OfLevelStays
<1>9. ContentOf(t)'
  BY <1>1, <1>3, <1>4, <1>5, <1>6, <1>7, <1>8 DEF ContentOf
<1> QED  BY <1>1, <1>2, <1>3, <1>4, <1>5, <1>9, MakingKeeps

LEMMA MergeKeeps ==
  ASSUME SettingsTypes, LayersInv, NEW t \in Getters, NEW level \in Levels, Merge(t, level)
  PROVE  LayersInv'
<1>1. PICK k \in merging[t] : MergeOf(t, level, k)
  BY MergeIs
<1>2. /\ GettersStay(t) /\ getAt[t] = <<"merge", level>>
      /\ GetterTurns(t, MergeAt(t, level, k), wants[t], merging[t] \ {k}, MergeHow(t, level, k))
      /\ StorageTurns(MergeBuilt(t, level, k), raised, [settings EXCEPT ![level][k] = level])
  BY <1>1, MergeDoes
<1>3. getAt[t][1] = "merge" /\ getAt[t][2] = level
  BY <1>2
<1>4. /\ configs[level] \in {"good", "bad"} /\ yaml /\ (level = "local" => built = t)
      /\ merging[t] \subseteq FileKeys[level]
      /\ settings[level] = [j \in Keys |-> IF j \in FileKeys[level] \ merging[t] THEN level ELSE Under(level)[j]]
  BY <1>3 DEF LayersInv, GetterOf, ContentOf
<1>5. /\ getAt'[t] = MergeAt(t, level, k) /\ gotten'[t] = MergeHow(t, level, k)
      /\ merging'[t] = merging[t] \ {k}
  BY <1>2 DEF GetterTurns
<1>6. /\ wants' = wants /\ built' = MergeBuilt(t, level, k) /\ raised' = raised
      /\ settings' = [settings EXCEPT ![level][k] = level] /\ UNCHANGED <<configs, yaml, ofSw>>
  BY <1>2 DEF StorageTurns
<1>7. \A l \in Levels : l # level => settings'[l] = settings[l]
  BY <1>6 DEF SettingsTypes, StorageTypes
<1>8. settings'[level] = [settings[level] EXCEPT ![k] = level]
  BY <1>6 DEF SettingsTypes, StorageTypes
<1>9. settings'[level] = [j \in Keys |-> IF j \in FileKeys[level] \ (merging[t] \ {k}) THEN level
                                        ELSE Under(level)[j]]
  <2>1. k \in FileKeys[level] /\ k \in Keys
    BY <1>4, FilesKeys
  <2> QED  BY <1>4, <1>8, <2>1
<1>10. CASE MergeEnds(t, level, k)
  <2>1. /\ getAt'[t] = LoadedAt(t, level) /\ gotten'[t] = LoadedHow(t, level) /\ built' = LoadedBuilt(level)
        /\ merging[t] = {k} /\ configs[level] = "good"
    BY <1>5, <1>6, <1>10 DEF MergeAt, MergeHow, MergeBuilt, MergeEnds
  <2>2. settings'[level] = OfLevel(level)
    <3>1. OfLevel(level) = Layer(Under(level), level)
      BY OfLevelIs DEF SettingsTypes
    <3>2. FileKeys[level] \ (merging[t] \ {k}) = FileKeys[level]
      BY <2>1
    <3> QED  BY <1>4, <1>9, <2>1, <3>1, <3>2 DEF Layer
  <2> QED  BY <1>2, <1>3, <1>6, <1>7, <2>1, <2>2, LoadedKeeps
<1>11. CASE ~MergeEnds(t, level, k)
  <2>1. getAt'[t] = getAt[t] /\ gotten'[t] = gotten[t] /\ built' = built
    BY <1>5, <1>6, <1>11 DEF MergeAt, MergeHow, MergeBuilt
  <2>2. getAt'[t][1] = "merge" /\ getAt'[t][2] = level
    BY <1>3, <2>1
  <2>3. Under(level)' = Under(level)
    BY <1>6, OfLevelStays
  <2>4. ContentOf(t)'
    BY <1>4, <1>5, <1>6, <1>9, <2>1, <2>2, <2>3 DEF ContentOf
  <2> QED  BY <1>2, <1>3, <1>6, <1>7, <2>1, <2>2, <2>4, MakingKeeps
<1> QED  BY <1>10, <1>11

LEMMA SaveUserKeeps ==
  ASSUME SettingsTypes, LayersInv, NEW t \in Getters, SaveUser(t), ~GetThrows(t)
  PROVE  LayersInv'
<1>1. /\ GettersStay(t) /\ getAt[t] = <<"save", "user">>
      /\ GetterTurns(t, BackAt(t, "user"), wants[t], merging[t], BackHow(t, "user"))
      /\ StorageTurns(built, raised, settings)
  BY SaveUserDoes
<1>2. getAt[t][1] = "save" /\ getAt[t][2] = "user" /\ "user" \in Levels
  BY <1>1 DEF Levels
<1>3. getAt'[t] = BackAt(t, "user") /\ gotten'[t] = BackHow(t, "user")
  BY <1>1 DEF GetterTurns
<1>4. /\ wants' = wants /\ built' = built /\ raised' = raised /\ settings' = settings
      /\ UNCHANGED <<configs, yaml, ofSw>>
  BY <1>1 DEF StorageTurns
<1>5. settings["user"] = OfLevel("user")
  <2>1. settings["user"] = Under("user") /\ configs["user"] = "absent"
    BY <1>2 DEF LayersInv, GetterOf, ContentOf
  <2>2. OfLevel("user") = Layer(Under("user"), "user")
    BY <1>2, OfLevelIs DEF SettingsTypes
  <2> QED  BY <2>1, <2>2 DEF Layer
<1>6. "user" \in raised /\ \A l \in Levels : Height(l) < Height("user") => l \in raised
  BY <1>2, Heights DEF LayersInv, GetterOf, PlaceOf, Makes
<1> QED  BY <1>1, <1>2, <1>3, <1>4, <1>5, <1>6, BackKeeps

(* A step that makes no level of its own, nor ends the making of one.       *)
LEMMA RestingKeeps ==
  ASSUME SettingsTypes, LayersInv, NEW t \in Getters, GettersStay(t),
         UNCHANGED <<raised, settings, configs, yaml, ofSw>>,
         \A u \in Getters \ {t} : built' = u <=> built = u,
         \A l \in Levels : ~Makes(t, l) /\ ~Makes(t, l)',
         GetterOf(t)', AloneInv'
  PROVE  LayersInv'
<1>1. \A u \in Getters \ {t} : getAt'[u] = getAt[u] /\ gotten'[u] = gotten[u] /\ wants'[u] = wants[u]
                              /\ merging'[u] = merging[u] /\ TopOf(u)' = TopOf(u)
  BY DEF GettersStay, TopOf
<1>2. \A u \in Getters, l \in Levels : Makes(u, l)' <=> Makes(u, l)
  <2> SUFFICES ASSUME NEW u \in Getters, u # t, NEW l \in Levels PROVE Makes(u, l)' <=> Makes(u, l)
    OBVIOUS
  <2>1. TopOf(u)' = TopOf(u) /\ getAt'[u] = getAt[u]
    BY <1>1
  <2> QED  BY <2>1 DEF Makes
<1>3. \A l \in Levels : MadeLevel(l)' <=> MadeLevel(l)
  BY <1>2 DEF MadeLevel
<1>4. \A l \in Levels : OfLevel(l)' = OfLevel(l) /\ Under(l)' = Under(l)
  BY OfLevelStays
<1>5. LevelInv'
  <2>1. NoSettings' = NoSettings
    BY DEF NoSettings
  <2> QED  BY <1>3, <1>4, <2>1 DEF LayersInv, LevelInv
<1>6. ASSUME NEW u \in Getters \ {t} PROVE GetterOf(u)'
  <2>1. GetterOf(u) /\ wants[u] \in Levels
    BY GetterValues DEF LayersInv, SettingsTypes
  <2>2. ReturnedOf(u)'
    BY <1>1, <1>3, <2>1 DEF GetterOf, ReturnedOf
  <2>3. PlaceOf(u)'
    BY <1>1, <1>2, <2>1 DEF GetterOf, PlaceOf
  <2>4. ContentOf(u)'
    <3>1. CASE getAt[u][1] \in {"copy", "save", "load", "merge"}
      <4>1. getAt[u][2] \in Levels /\ (getAt[u][1] = "copy" => Below(getAt[u][2]) \in Levels)
        BY <2>1, <3>1, BelowIsLevel DEF GetterOf, PlaceOf
      <4>2. "user" \in Levels
        BY DEF Levels
      <4> QED  BY <1>1, <1>3, <1>4, <2>1, <4>1, <4>2 DEF GetterOf, ContentOf
    <3>2. CASE getAt[u][1] \notin {"copy", "save", "load", "merge"}
      BY <1>1, <3>2 DEF ContentOf
    <3> QED  BY <3>1, <3>2
  <2> QED  BY <2>2, <2>3, <2>4 DEF GetterOf
<1> QED  BY <1>5, <1>6 DEF LayersInv

LEMMA CallGetKeeps ==
  ASSUME SettingsTypes, LayersInv, NEW t \in Getters, CallGet(t), getMishaps' = {}
  PROVE  LayersInv'
<1>1. /\ SettingsTypes' /\ GettersStay(t) /\ getAt[t] = Out
      /\ UNCHANGED <<built, raised, settings, configs, yaml, ofSw>>
      /\ \A o \in Getters \ {t} : getAt[o] # Out => LoadsLocal
  BY CallGetDoes
<1>2. PICK level \in Levels : GetterTurns(t, CallPlace(level), level, merging[t], "never")
  BY CallGetDoes
<1>3. getAt'[t] = CallPlace(level) /\ wants'[t] = level /\ gotten'[t] = "never"
  BY <1>2 DEF GetterTurns
<1>4. AloneInv /\ StorageTypes
  BY DEF LayersInv, SettingsTypes
<1>5. \/ getAt'[t][1] = "build"
      \/ getAt'[t] = <<"ask", level>> /\ built # t /\ (LoadsLocal => built = "yes")
  <2>1. CASE ofSw /\ built # "yes"
    BY <1>3, <2>1 DEF CallPlace
  <2>2. CASE ~(ofSw /\ built # "yes")
    <3>1. built \in {"no", "yes"} /\ (LoadsLocal => built = "yes")
      BY <1>4, <2>2 DEF AloneInv, LoadsLocal
    <3> QED  BY <1>3, <2>2, <3>1, BuildMarks DEF CallPlace
  <2> QED  BY <2>1, <2>2
<1>6. getAt'[t][1] \in {"build", "ask"}
        /\ (getAt'[t][1] = "ask" => getAt'[t] = <<"ask", level>> /\ built # t)
  BY <1>5
<1>7. \A l \in Levels : ~Makes(t, l) /\ ~Makes(t, l)'
  <2> SUFFICES ASSUME NEW l \in Levels PROVE ~Makes(t, l) /\ ~Makes(t, l)'
    OBVIOUS
  <2>1. ~Makes(t, l)
    BY <1>1, OutIsOut DEF Makes
  <2>2. getAt'[t][1] = "ask" => getAt'[t][2] = level /\ TopOf(t)' = level
    BY <1>1, <1>3, <1>6 DEF TopOf
  <2> QED  BY <1>6, <2>1, <2>2, Heights DEF Makes
<1>8. GetterOf(t)'
  <2>1. ReturnedOf(t)'
    BY <1>3 DEF ReturnedOf
  <2>2. PlaceOf(t)'
    <3>1. getAt'[t][1] = "ask" => getAt'[t][2] = level /\ TopOf(t)' = level
      BY <1>1, <1>3, <1>6 DEF TopOf
    <3>2. Height(level) <= Height(level)
      BY Heights
    <3>3. getAt'[t] = <<"ask", "local">> => getAt'[t][1] = "ask"
      OBVIOUS
    <3> QED  BY <1>1, <1>6, <1>7, <3>1, <3>2, <3>3 DEF PlaceOf
  <2>3. ContentOf(t)'
    BY <1>6 DEF ContentOf
  <2> QED  BY <2>1, <2>2, <2>3 DEF GetterOf
<1>9. AloneInv'
  <2>1. LoadsLocal' = LoadsLocal
    BY <1>1 DEF LoadsLocal
  <2>2. \A u, v \in Getters : u # v /\ getAt'[u] # Out /\ getAt'[v] # Out => LoadsLocal
    BY <1>1, <1>4 DEF AloneInv, GettersStay
  <2>3. LoadsLocal => \A u \in Getters : getAt'[u][1] \notin {"out", "build"} =>
          built = u \/ (built = "yes" /\ getAt'[u] = <<"ask", wants'[u]>>)
    <3> SUFFICES ASSUME LoadsLocal, NEW u \in Getters, getAt'[u][1] \notin {"out", "build"}
                 PROVE  built = u \/ (built = "yes" /\ getAt'[u] = <<"ask", wants'[u]>>)
      OBVIOUS
    <3>1. CASE u = t
      BY <1>3, <1>5, <3>1
    <3>2. CASE u # t
      BY <1>1, <1>4, <3>2 DEF AloneInv, GettersStay
    <3> QED  BY <3>1, <3>2
  <2> QED  BY <1>1, <1>4, <2>1, <2>2, <2>3 DEF AloneInv
<1> QED  BY <1>1, <1>7, <1>8, <1>9, RestingKeeps

LEMMA BuildKeeps ==
  ASSUME SettingsTypes, LayersInv, NEW t \in Getters, Build(t)
  PROVE  LayersInv'
<1>1. /\ GettersStay(t) /\ getAt[t][1] = "build" /\ built \in {"no", "yes"}
      /\ GetterTurns(t, BuildAt(t), wants[t], merging[t], gotten[t])
      /\ StorageTurns(BuildBuilt(t), raised, settings)
  BY BuildDoes
<1>2. getAt'[t] = BuildAt(t) /\ gotten'[t] = gotten[t]
  BY <1>1 DEF GetterTurns
<1>3. /\ built' = BuildBuilt(t) /\ wants' = wants
      /\ UNCHANGED <<raised, settings, configs, yaml, ofSw>>
  BY <1>1 DEF StorageTurns
<1>4. AloneInv /\ StorageTypes /\ wants[t] \in Levels /\ ReturnedOf(t) /\ "local" \in Levels
  BY GetterValues DEF LayersInv, SettingsTypes, GetterOf, Levels
<1>5. getAt[t] # Out /\ gotten[t] # "returned"
  BY <1>1, <1>4, OutIsOut DEF ReturnedOf
<1>6. \/ getAt'[t] = <<"ask", "local">> /\ built' = t /\ built = "no" /\ LoadsLocal
      \/ getAt'[t] = <<"ask", wants[t]>> /\ built' = "yes" /\ (LoadsLocal => built = "yes")
  <2>1. CASE built # "yes" /\ configs.local # "absent"
    <3>1. LoadsLocal
      BY <1>4, <2>1 DEF LoadsLocal, StorageTypes
    <3> QED  BY <1>1, <1>2, <1>3, <2>1, <3>1 DEF BuildAt, BuildBuilt
  <2>2. CASE ~(built # "yes" /\ configs.local # "absent")
    BY <1>1, <1>2, <1>3, <2>2 DEF BuildAt, BuildBuilt, LoadsLocal
  <2> QED  BY <2>1, <2>2
<1>7. getAt'[t][1] = "ask" /\ getAt'[t][2] = TopOf(t)' /\ TopOf(t)' \in Levels
  <2>1. "yes" # t
    BY BuildMarks
  <2> QED  BY <1>3, <1>4, <1>6, <2>1 DEF TopOf
<1>8. \A l \in Levels : ~Makes(t, l) /\ ~Makes(t, l)'
  BY <1>1, <1>7, Heights DEF Makes
<1>9. GetterOf(t)'
  <2>1. ReturnedOf(t)'
    BY <1>2, <1>5 DEF ReturnedOf
  <2>2. PlaceOf(t)'
    <3>1. Height(getAt'[t][2]) <= Height(TopOf(t)')
      BY <1>7, Heights
    <3>2. built' = t => "local" \notin raised'
      BY <1>3, <1>4, <1>6, BuildMarks DEF AloneInv
    <3> QED  BY <1>7, <1>8, <3>1, <3>2 DEF PlaceOf
  <2>3. ContentOf(t)'
    BY <1>7 DEF ContentOf
  <2> QED  BY <2>1, <2>2, <2>3 DEF GetterOf
<1>10. AloneInv'
  <2>1. LoadsLocal' = LoadsLocal
    BY <1>3 DEF LoadsLocal
  <2>2. \A u, v \in Getters : u # v /\ getAt'[u] # Out /\ getAt'[v] # Out => LoadsLocal
    BY <1>1, <1>4, <1>5 DEF AloneInv, GettersStay
  <2>3. LoadsLocal => \A u \in Getters : getAt'[u][1] \notin {"out", "build"} =>
          built' = u \/ (built' = "yes" /\ getAt'[u] = <<"ask", wants'[u]>>)
    <3> SUFFICES ASSUME LoadsLocal, NEW u \in Getters, getAt'[u][1] \notin {"out", "build"}
                 PROVE  built' = u \/ (built' = "yes" /\ getAt'[u] = <<"ask", wants'[u]>>)
      OBVIOUS
    <3>1. CASE u = t
      BY <1>3, <1>6, <3>1
    <3>2. CASE u # t
      <4>1. getAt'[u] = getAt[u] /\ built # u
        BY <1>1, <3>2, BuildMarks DEF GettersStay
      <4>2. built = "yes" /\ getAt[u] = <<"ask", wants[u]>>
        BY <1>4, <4>1 DEF AloneInv
      <4> QED  BY <1>3, <1>6, <4>1, <4>2
    <3> QED  BY <3>1, <3>2
  <2>4. ~LoadsLocal => built' \in {"no", "yes"}
    BY <1>6
  <2>5. LoadsLocal => (built' = "no" => raised = {}) /\ (built' = "yes" => raised = Levels)
    BY <1>4, <1>6, BuildMarks DEF AloneInv
  <2> QED  BY <1>3, <2>1, <2>2, <2>3, <2>4, <2>5 DEF AloneInv
<1>11. \A u \in Getters \ {t} : built' = u <=> built = u
  BY <1>1, <1>6, BuildMarks
<1> QED  BY <1>1, <1>3, <1>8, <1>9, <1>10, <1>11, RestingKeeps

LEMMA SettingsStarts ==
  ASSUME SettingsStorageInit PROVE SettingsInv
<1>1. NoSettings \in [Keys -> Levels \union {"none"}] /\ Out \in GetPlaces /\ "never" \in GetEnds
  BY Places DEF NoSettings, GetEnds
<1>2. StorageTypes
  BY <1>1 DEF SettingsStorageInit, StorageTypes, Levels
<1>3. GetterTypes
  <2>1. getAt \in [Getters -> GetPlaces] /\ gotten \in [Getters -> GetEnds]
    BY <1>1 DEF SettingsStorageInit
  <2>2. wants \in [Getters -> Levels] /\ merging \in [Getters -> SUBSET Keys]
    BY DEF SettingsStorageInit, Levels
  <2>3. getsLeft \in [Getters -> Nat]
    BY SettingsStorageAssumption DEF SettingsStorageInit
  <2> QED  BY <2>1, <2>2, <2>3 DEF GetterTypes
<1>4. \A t \in Getters : getAt[t] = Out /\ getAt[t][1] = "out" /\ gotten[t] = "never"
  BY OutIsOut DEF SettingsStorageInit
<1>5. LevelInv
  BY DEF SettingsStorageInit, LevelInv, MadeLevel
<1>6. AloneInv
  BY <1>4 DEF AloneInv, SettingsStorageInit
<1>7. ASSUME NEW t \in Getters PROVE GetterOf(t)
  <2>1. getAt[t][1] = "out" /\ getAt[t] # <<"ask", "local">>
    BY <1>4, OutIsOut
  <2>2. ReturnedOf(t)
    BY <1>4 DEF ReturnedOf
  <2>3. PlaceOf(t)
    BY <2>1 DEF PlaceOf
  <2>4. ContentOf(t)
    BY <2>1 DEF ContentOf
  <2> QED  BY <2>2, <2>3, <2>4 DEF GetterOf
<1> QED  BY <1>2, <1>3, <1>5, <1>6, <1>7 DEF SettingsInv, SettingsTypes, LayersInv

LEMMA SettingsSteps ==
  ASSUME SettingsInv, SettingsStorageNext PROVE SettingsInv'
<1>1. SettingsTypes
  BY DEF SettingsInv
<1>2. PICK t \in Getters :
        \/ CallGet(t) \/ Build(t) \/ SaveUser(t)
        \/ \E level \in Levels :
             \/ AskFlag(t, level) \/ CopyUp(t, level)
             \/ NothingToLoad(t, level) \/ LoadWhole(t, level)
             \/ StartMerge(t, level) \/ Merge(t, level) \/ LoadThrows(t, level)
  BY DEF SettingsStorageNext
<1>3. CASE CallGet(t)
  <2>1. SettingsTypes' /\ getMishaps \subseteq getMishaps'
    BY <1>1, <1>3, CallGetDoes
  <2>2. getMishaps' = {} => LayersInv'
    BY <1>1, <1>3, <2>1, CallGetKeeps DEF SettingsInv
  <2> QED  BY <2>1, <2>2 DEF SettingsInv
<1>4. CASE Build(t)
  <2>1. SettingsTypes' /\ NoMishap
    BY <1>1, <1>4, BuildDoes
  <2>2. getMishaps' = {} => LayersInv'
    BY <1>1, <1>4, <2>1, BuildKeeps DEF SettingsInv, NoMishap
  <2> QED  BY <2>1, <2>2 DEF SettingsInv
<1>5. CASE GetThrows(t)
  BY <1>1, <1>5, GetThrowsDoes DEF SettingsInv
<1>6. CASE SaveUser(t) /\ ~GetThrows(t)
  <2>1. SettingsTypes' /\ NoMishap
    BY <1>1, <1>6, SaveUserDoes
  <2>2. getMishaps' = {} => LayersInv'
    BY <1>1, <1>6, <2>1, SaveUserKeeps DEF SettingsInv, NoMishap
  <2> QED  BY <2>1, <2>2 DEF SettingsInv
<1>7. ASSUME NEW level \in Levels, AskFlag(t, level) PROVE SettingsInv'
  <2>1. CASE level \in raised
    <3>1. SettingsTypes' /\ NoMishap
      BY <1>1, <1>7, <2>1, AskBackDoes
    <3>2. getMishaps' = {} => LayersInv'
      BY <1>1, <1>7, <2>1, <3>1, AskBackKeeps DEF SettingsInv, NoMishap
    <3> QED  BY <3>1, <3>2 DEF SettingsInv
  <2>2. CASE level \notin raised
    <3>1. SettingsTypes' /\ NoMishap
      BY <1>1, <1>7, <2>2, AskDownDoes
    <3>2. getMishaps' = {} => LayersInv'
      BY <1>1, <1>7, <2>2, <3>1, AskDownKeeps DEF SettingsInv, NoMishap
    <3> QED  BY <3>1, <3>2 DEF SettingsInv
  <2> QED  BY <2>1, <2>2
<1>8. ASSUME NEW level \in Levels, CopyUp(t, level) PROVE SettingsInv'
  <2>1. SettingsTypes' /\ NoMishap
    BY <1>1, <1>8, CopyUpDoes
  <2>2. getMishaps' = {} => LayersInv'
    BY <1>1, <1>8, <2>1, CopyUpKeeps DEF SettingsInv, NoMishap
  <2> QED  BY <2>1, <2>2 DEF SettingsInv
<1>9. ASSUME NEW level \in Levels, NothingToLoad(t, level) PROVE SettingsInv'
  <2>1. SettingsTypes' /\ NoMishap
    BY <1>1, <1>9, NothingToLoadDoes
  <2>2. getMishaps' = {} => LayersInv'
    BY <1>1, <1>9, <2>1, NothingToLoadKeeps DEF SettingsInv, NoMishap
  <2> QED  BY <2>1, <2>2 DEF SettingsInv
<1>10. ASSUME NEW level \in Levels, LoadWhole(t, level) PROVE SettingsInv'
  <2>1. SettingsTypes' /\ NoMishap
    BY <1>1, <1>10, LoadWholeDoes
  <2>2. getMishaps' = {} => LayersInv'
    BY <1>1, <1>10, <2>1, LoadWholeKeeps DEF SettingsInv, NoMishap
  <2> QED  BY <2>1, <2>2 DEF SettingsInv
<1>11. ASSUME NEW level \in Levels, StartMerge(t, level) PROVE SettingsInv'
  <2>1. SettingsTypes' /\ NoMishap
    BY <1>1, <1>11, StartMergeDoes
  <2>2. getMishaps' = {} => LayersInv'
    BY <1>1, <1>11, <2>1, StartMergeKeeps DEF SettingsInv, NoMishap
  <2> QED  BY <2>1, <2>2 DEF SettingsInv
<1>12. ASSUME NEW level \in Levels, Merge(t, level) PROVE SettingsInv'
  <2>1. PICK k \in merging[t] : MergeOf(t, level, k)
    BY <1>12, MergeIs
  <2>2. SettingsTypes' /\ NoMishap
    BY <1>1, <2>1, MergeDoes
  <2>3. getMishaps' = {} => LayersInv'
    BY <1>1, <1>12, <2>2, MergeKeeps DEF SettingsInv, NoMishap
  <2> QED  BY <2>2, <2>3 DEF SettingsInv
<1>13. ASSUME NEW level \in Levels, LoadThrows(t, level) PROVE SettingsInv'
  BY <1>5, <1>13 DEF LoadThrows
<1> QED  BY <1>2, <1>3, <1>4, <1>5, <1>6, <1>7, <1>8, <1>9, <1>10, <1>11, <1>12, <1>13

LEMMA SettingsStays ==
  ASSUME SettingsInv, UNCHANGED settingsStorageVars PROVE SettingsInv'
<1>1. UNCHANGED <<configs, yaml, ofSw, built, raised, settings, wants, getAt, merging, gotten, getsLeft,
          getMishaps>>
  BY DEF settingsStorageVars
<1>2. SettingsTypes'
  BY <1>1 DEF SettingsInv, SettingsTypes, StorageTypes, GetterTypes
<1>3. \A l \in Levels : OfLevel(l)' = OfLevel(l) /\ Under(l)' = Under(l)
  BY <1>1, OfLevelStays
<1>4. \A t \in Getters : \A l \in Levels : Makes(t, l)' = Makes(t, l)
  BY <1>1 DEF Makes, TopOf
<1>5. \A l \in Levels : MadeLevel(l)' = MadeLevel(l)
  BY <1>1, <1>4 DEF MadeLevel
<1>6. LevelInv' = LevelInv /\ AloneInv' = AloneInv
  BY <1>1, <1>3, <1>5 DEF LevelInv, AloneInv, LoadsLocal, NoSettings
<1>7. ASSUME NEW t \in Getters, SettingsTypes, GetterOf(t) PROVE GetterOf(t)'
  <2>1. wants[t] \in Levels /\ "user" \in Levels
    BY <1>7, GetterValues DEF SettingsTypes, Levels
  <2>2. ReturnedOf(t)'
    BY <1>1, <1>5, <1>7, <2>1 DEF GetterOf, ReturnedOf
  <2>3. PlaceOf(t)'
    BY <1>1, <1>4, <1>7 DEF GetterOf, PlaceOf, TopOf
  <2>4. ContentOf(t)'
    <3>1. CASE getAt[t][1] \in {"copy", "save", "load", "merge"}
      <4>1. getAt[t][2] \in Levels /\ Below(getAt[t][2]) \in Levels
        BY <1>7, <3>1, BelowIsLevel DEF GetterOf, PlaceOf
      <4> QED  BY <1>1, <1>3, <1>5, <1>7, <2>1, <4>1 DEF GetterOf, ContentOf
    <3>2. CASE getAt[t][1] \notin {"copy", "save", "load", "merge"}
      BY <1>1, <3>2 DEF ContentOf
    <3> QED  BY <3>1, <3>2
  <2> QED  BY <2>2, <2>3, <2>4 DEF GetterOf
<1> QED  BY <1>1, <1>2, <1>6, <1>7 DEF SettingsInv, LayersInv

LEMMA SettingsMeans ==
  ASSUME SettingsInv PROVE SettingsStorageTypeOK /\ SettingsLayered
<1>1. SettingsTypes
  BY DEF SettingsInv
<1>2. SettingsStorageTypeOK
  BY <1>1 DEF SettingsTypes, StorageTypes, GetterTypes, SettingsStorageTypeOK, GetEnds
<1>3. ASSUME NEW t \in Getters, gotten[t] = "returned", getMishaps = {}
      PROVE  settings[wants[t]] = OfLevel(wants[t])
  <2>1. MadeLevel(wants[t]) /\ wants[t] \in Levels
    BY <1>1, <1>3, GetterValues DEF SettingsInv, LayersInv, GetterOf, ReturnedOf, SettingsTypes
  <2> QED  BY <1>3, <2>1 DEF SettingsInv, LayersInv, LevelInv
<1> QED  BY <1>2, <1>3 DEF SettingsLayered
-----------------------------------------------------------------------------
(* The tables of a database.                                                *)

(* The numbers: what holds for 0, and for n + 1 where it holds for n, holds *)
(* for all of them.                                                         *)
LEMMA LeastNumber ==
  ASSUME NEW T, T \subseteq Nat, T # {}
  PROVE  \E m \in T : \A k \in T : m <= k
<1> DEFINE R == {ss \in Nat \X Nat : ss[1] < ss[2]}
<1>1. IsWellFoundedOn(R, Nat)
  BY NatLessThanWellFounded, Zenon DEF OpToRel
<1>2. PICK m \in T : \A k \in T : ~(<<k, m>> \in R)
  BY <1>1, WFMin, Zenon
<1>3. \A k \in T : ~(k < m)
  BY <1>2
<1> QED  BY <1>3

LEMMA ByInduction ==
  ASSUME NEW T, 0 \in T, \A n \in Nat : n \in T => n + 1 \in T
  PROVE  Nat \subseteq T
<1> DEFINE W == Nat \ T
<1>1. SUFFICES ASSUME W # {} PROVE FALSE
  OBVIOUS
<1>2. PICK m \in W : \A k \in W : m <= k
  <2>1. W \subseteq Nat
    OBVIOUS
  <2> HIDE DEF W
  <2> QED  BY <1>1, <2>1, LeastNumber
<1>3. m # 0 /\ m - 1 \in Nat /\ ~(m <= m - 1)
  BY <1>2
<1>4. m - 1 \in T
  BY <1>2, <1>3
<1> QED  BY <1>2, <1>3, <1>4

(* The forms of a history are those its updates make, one after another.    *)
FirstForm == [tables |-> {"base"}, columns |-> {<<"base", "first">>}]
FormFrom(h, g, n) == IF n = 0 THEN FirstForm ELSE Applied(g[n - 1], h[n])

LEMMA FormsChosen ==
  ASSUME NEW h
  PROVE  Forms(h) = CHOOSE g : g = [n \in 0..Len(h) |-> FormFrom(h, g, n)]
BY DEF Forms, FormFrom, FirstForm

LEMMA FormsFound ==
  ASSUME NEW h
  PROVE  \A m \in Nat : \E g : g = [n \in 0..m |-> FormFrom(h, g, n)]
<1> DEFINE T == {m \in Nat : \E g : g = [n \in 0..m |-> FormFrom(h, g, n)]}
<1>1. 0 \in T
  <2>1. [n \in 0..0 |-> FirstForm] = [n \in 0..0 |-> FormFrom(h, [k \in 0..0 |-> FirstForm], n)]
    BY DEF FormFrom
  <2> QED  BY <2>1
<1>2. ASSUME NEW m \in Nat, m \in T PROVE m + 1 \in T
  <2>1. PICK g : g = [n \in 0..m |-> FormFrom(h, g, n)]
    BY <1>2
  <2> DEFINE next == [n \in 0..(m + 1) |-> IF n <= m THEN g[n] ELSE FormFrom(h, g, n)]
  <2>2. ASSUME NEW n \in 0..(m + 1) PROVE next[n] = FormFrom(h, next, n)
    <3>1. CASE n <= m
      <4>1. n \in 0..m /\ (n # 0 => n - 1 \in 0..m)
        BY <3>1
      <4>2. g[n] = FormFrom(h, g, n)
        BY <2>1, <4>1
      <4>3. n # 0 => next[n - 1] = g[n - 1]
        BY <4>1
      <4>4. next[n] = g[n]
        BY <3>1
      <4> HIDE DEF next
      <4> QED  BY <4>2, <4>3, <4>4 DEF FormFrom
    <3>2. CASE ~(n <= m)
      <4>1. n = m + 1 /\ n # 0 /\ n - 1 = m
        BY <3>2
      <4>2. next[n] = FormFrom(h, g, n) /\ next[m] = g[m]
        BY <3>2, <4>1
      <4> HIDE DEF next
      <4> QED  BY <4>1, <4>2 DEF FormFrom
    <3> QED  BY <3>1, <3>2
  <2>3. next = [n \in 0..(m + 1) |-> next[n]]
    OBVIOUS
  <2> HIDE DEF next
  <2>4. next = [n \in 0..(m + 1) |-> FormFrom(h, next, n)]
    BY <2>2, <2>3
  <2> QED  BY <2>4
<1> HIDE DEF T
<1>3. Nat \subseteq T
  BY <1>1, <1>2, ByInduction
<1> QED  BY <1>3 DEF T

LEMMA FormsAre ==
  ASSUME NEW h, Len(h) \in Nat
  PROVE  /\ Forms(h)[0] = FirstForm
         /\ \A n \in 1..Len(h) : Forms(h)[n] = Applied(Forms(h)[n - 1], h[n])
<1>1. Forms(h) = [n \in 0..Len(h) |-> FormFrom(h, Forms(h), n)]
  BY FormsChosen, FormsFound
<1> HIDE DEF Forms
<1>2. \A n \in 0..Len(h) : Forms(h)[n] = FormFrom(h, Forms(h), n)
  BY <1>1
<1> QED  BY <1>2 DEF FormFrom

UpdateKinds == {"new_tables", "new_fields", "delete_fields"}
IsForm(f) == f = [tables |-> f.tables, columns |-> f.columns]
IsServed(f) == f = [tables |-> f.tables, columns |-> f.columns, version |-> f.version]
TableColumns(f, table) == {c \in f.columns : c[1] = table}

MadeColumns(f, tables, columns) == f.columns \union {c \in columns : c[1] \in tables \ f.tables}
AppliedTables(f, u) == IF u.does = "new_tables" THEN f.tables \union {u.table} ELSE f.tables
AppliedColumns(f, u) ==
  CASE u.does = "new_tables" -> MadeColumns(f, {u.table}, {<<u.table, "first">>})
    [] u.does = "new_fields" -> f.columns \union {<<u.table, u.column>>}
    [] u.does = "delete_fields" -> f.columns \ {<<u.table, u.column>>}

LEMMA MadeForm ==
  ASSUME NEW f, IsForm(f), NEW tables, NEW columns
  PROVE  Made(f, tables, columns) = [tables |-> f.tables \union tables, columns |-> MadeColumns(f, tables,
             columns)]
<1> DEFINE T == f.tables \union tables
           C == MadeColumns(f, tables, columns)
<1>1. Made(f, tables, columns) = [[f EXCEPT !.tables = T] EXCEPT !.columns = C]
  BY DEF Made, MadeColumns
<1> HIDE DEF T, C
<1>2. ASSUME NEW A, NEW B, f = [tables |-> A, columns |-> B]
      PROVE  [[f EXCEPT !.tables = T] EXCEPT !.columns = C] = [tables |-> T, columns |-> C]
  <2>1. [f EXCEPT !.tables = T] = [tables |-> T, columns |-> B]
    BY <1>2
  <2> DEFINE g == [f EXCEPT !.tables = T]
  <2>2. g = [tables |-> T, columns |-> B]
    BY <2>1
  <2> HIDE DEF g
  <2>3. [g EXCEPT !.columns = C] = [tables |-> T, columns |-> C]
    BY <2>2
  <2> QED  BY <2>3 DEF g
<1>3. Made(f, tables, columns) = [tables |-> T, columns |-> C]
  BY <1>1, <1>2 DEF IsForm
<1> QED  BY <1>3 DEF T, C

LEMMA MadeServed ==
  ASSUME NEW f, IsServed(f), NEW tables, NEW columns
  PROVE  Made(f, tables, columns) = [tables |-> f.tables \union tables, columns |-> MadeColumns(f, tables,
             columns),
                                     version |-> f.version]
<1> DEFINE T == f.tables \union tables
           C == MadeColumns(f, tables, columns)
<1>1. Made(f, tables, columns) = [[f EXCEPT !.tables = T] EXCEPT !.columns = C]
  BY DEF Made, MadeColumns
<1> HIDE DEF T, C
<1>2. ASSUME NEW A, NEW B, NEW v, f = [tables |-> A, columns |-> B, version |-> v]
      PROVE  [[f EXCEPT !.tables = T] EXCEPT !.columns = C] = [tables |-> T, columns |-> C, version |-> v]
  <2>1. [f EXCEPT !.tables = T] = [tables |-> T, columns |-> B, version |-> v]
    BY <1>2
  <2> DEFINE g == [f EXCEPT !.tables = T]
  <2>2. g = [tables |-> T, columns |-> B, version |-> v]
    BY <2>1
  <2> HIDE DEF g
  <2>3. [g EXCEPT !.columns = C] = [tables |-> T, columns |-> C, version |-> v]
    BY <2>2
  <2> QED  BY <2>3 DEF g
<1>3. Made(f, tables, columns) = [tables |-> T, columns |-> C, version |-> f.version]
  BY <1>1, <1>2 DEF IsServed
<1> QED  BY <1>3 DEF T, C

LEMMA AppliedForm ==
  ASSUME NEW f, IsForm(f), NEW u, u.does \in UpdateKinds
  PROVE  Applied(f, u) = [tables |-> AppliedTables(f, u), columns |-> AppliedColumns(f, u)]
<1>1. CASE u.does = "new_tables"
  BY <1>1, MadeForm DEF Applied, AppliedTables, AppliedColumns
<1>2. CASE u.does = "new_fields"
  BY <1>2 DEF Applied, AppliedTables, AppliedColumns, IsForm
<1>3. CASE u.does = "delete_fields"
  BY <1>3 DEF Applied, AppliedTables, AppliedColumns, IsForm
<1> QED  BY <1>1, <1>2, <1>3 DEF UpdateKinds

LEMMA AppliedServed ==
  ASSUME NEW f, IsServed(f), NEW u, u.does \in UpdateKinds
  PROVE  Applied(f, u) = [tables |-> AppliedTables(f, u), columns |-> AppliedColumns(f, u),
             version |-> f.version]
<1>1. CASE u.does = "new_tables"
  BY <1>1, MadeServed DEF Applied, AppliedTables, AppliedColumns
<1>2. CASE u.does = "new_fields"
  BY <1>2 DEF Applied, AppliedTables, AppliedColumns, IsServed
<1>3. CASE u.does = "delete_fields"
  BY <1>3 DEF Applied, AppliedTables, AppliedColumns, IsServed
<1> QED  BY <1>1, <1>2, <1>3 DEF UpdateKinds

(* What an update does to the columns of one table.                         *)
LEMMA AppliedToTable ==
  ASSUME NEW f, NEW g, NEW u, u.does \in UpdateKinds, NEW table, g.columns = AppliedColumns(f, u)
  PROVE  /\ u.table # table => TableColumns(g, table) = TableColumns(f, table)
         /\ u.table = table /\ u.does = "new_tables" =>
              /\ table \in f.tables => TableColumns(g, table) = TableColumns(f, table)
              /\ table \notin f.tables
                   => TableColumns(g, table) = TableColumns(f, table) \union {<<table, "first">>}
         /\ u.table = table /\ u.does = "new_fields" =>
              TableColumns(g, table) = TableColumns(f, table) \union {<<table, u.column>>}
         /\ u.table = table /\ u.does = "delete_fields" =>
              TableColumns(g, table) = TableColumns(f, table) \ {<<table, u.column>>}
<1>1. CASE u.does = "new_tables"
  BY <1>1 DEF TableColumns, AppliedColumns, MadeColumns
<1>2. CASE u.does = "new_fields"
  BY <1>2 DEF TableColumns, AppliedColumns
<1>3. CASE u.does = "delete_fields"
  BY <1>3 DEF TableColumns, AppliedColumns
<1> QED  BY <1>1, <1>2, <1>3 DEF UpdateKinds

(* The columns of a form, or of the database, are those of its tables.      *)
OfItsTables(f) == \A c \in f.columns : c[1] \in f.tables

LEMMA AppliedWhole ==
  ASSUME NEW f, NEW g, NEW u, u.does \in UpdateKinds, OfItsTables(f), u.does # "new_tables"
           => u.table \in f.tables,
         g.tables = AppliedTables(f, u), g.columns = AppliedColumns(f, u)
  PROVE  OfItsTables(g)
<1>1. CASE u.does = "new_tables"
  BY <1>1 DEF OfItsTables, AppliedColumns, AppliedTables, MadeColumns
<1>2. CASE u.does = "new_fields"
  BY <1>2 DEF OfItsTables, AppliedColumns, AppliedTables
<1>3. CASE u.does = "delete_fields"
  BY <1>3 DEF OfItsTables, AppliedColumns, AppliedTables
<1> QED  BY <1>1, <1>2, <1>3 DEF UpdateKinds

LEMMA UpdateApplies ==
  ASSUME NEW h \in Histories, NEW n \in 1..Len(h)
  PROVE  /\ Len(h) \in Nat /\ h[n].does \in UpdateKinds /\ Forms(h)[n] = Applied(Forms(h)[n - 1], h[n])
         /\ h[n].does # "new_tables" => h[n].table \in Forms(h)[n - 1].tables
         /\ Alters(Forms(h)[n - 1], h[n])
<1>1. Len(h) \in Nat
  BY TableUpdatesAssumption
<1>2. Forms(h)[n] = Applied(Forms(h)[n - 1], h[n])
  BY <1>1, FormsAre
<1>3. /\ h[n].does \in UpdateKinds
      /\ h[n].does # "new_tables" => h[n].table \in Forms(h)[n - 1].tables /\ Alters(Forms(h)[n - 1], h[n])
  BY UpdatesAssumption DEF UpdateKinds
<1>4. Alters(Forms(h)[n - 1], h[n])
  BY <1>3 DEF Alters
<1> QED  BY <1>1, <1>2, <1>3, <1>4

LEMMA FormsShape ==
  ASSUME NEW h \in Histories
  PROVE  \A n \in 0..Len(h) : IsForm(Forms(h)[n]) /\ OfItsTables(Forms(h)[n])
<1>1. Len(h) \in Nat
  BY TableUpdatesAssumption
<1> DEFINE F == Forms(h)
           T == {n \in Nat : n <= Len(h) => IsForm(F[n]) /\ OfItsTables(F[n])}
<1>2. 0 \in T
  BY <1>1, FormsAre DEF FirstForm, IsForm, OfItsTables
<1>3. ASSUME NEW n \in Nat, n \in T PROVE n + 1 \in T
  <2> SUFFICES ASSUME n + 1 <= Len(h) PROVE IsForm(F[n + 1]) /\ OfItsTables(F[n + 1])
    OBVIOUS
  <2>1. IsForm(F[n]) /\ OfItsTables(F[n]) /\ n + 1 \in 1..Len(h) /\ (n + 1) - 1 = n
    BY <1>1, <1>3
  <2>2. /\ h[n + 1].does \in UpdateKinds /\ F[n + 1] = Applied(F[n], h[n + 1])
        /\ h[n + 1].does # "new_tables" => h[n + 1].table \in F[n].tables
    BY <2>1, UpdateApplies
  <2> HIDE DEF F
  <2>3. F[n + 1] = [tables |-> AppliedTables(F[n], h[n + 1]), columns |-> AppliedColumns(F[n], h[n + 1])]
    BY <2>1, <2>2, AppliedForm
  <2>4. IsForm(F[n + 1])
    BY <2>3 DEF IsForm
  <2>5. F[n + 1].tables = AppliedTables(F[n], h[n + 1]) /\ F[n + 1].columns = AppliedColumns(F[n], h[n + 1])
    BY <2>3
  <2>6. OfItsTables(F[n + 1])
    BY <2>1, <2>2, <2>5, AppliedWhole
  <2> QED  BY <2>4, <2>6
<1> HIDE DEF T
<1>4. Nat \subseteq T
  BY <1>2, <1>3, ByInduction
<1> QED  BY <1>1, <1>4 DEF T

LEMMA NextForm ==
  ASSUME NEW h \in Histories, NEW n \in Nat, n + 1 <= Len(h)
  PROVE  /\ n + 1 \in 1..Len(h) /\ n \in 0..Len(h) /\ n + 1 \in 0..Len(h)
         /\ h[n + 1].does \in UpdateKinds
         /\ Forms(h)[n + 1].tables = AppliedTables(Forms(h)[n], h[n + 1])
         /\ Forms(h)[n + 1].columns = AppliedColumns(Forms(h)[n], h[n + 1])
         /\ h[n + 1].does # "new_tables" => h[n + 1].table \in Forms(h)[n].tables
         /\ Alters(Forms(h)[n], h[n + 1])
<1>1. Len(h) \in Nat
  BY TableUpdatesAssumption
<1>2. n + 1 \in 1..Len(h) /\ n \in 0..Len(h) /\ n + 1 \in 0..Len(h) /\ (n + 1) - 1 = n
  BY <1>1
<1>3. /\ h[n + 1].does \in UpdateKinds /\ Forms(h)[n + 1] = Applied(Forms(h)[n], h[n + 1])
      /\ h[n + 1].does # "new_tables" => h[n + 1].table \in Forms(h)[n].tables
      /\ Alters(Forms(h)[n], h[n + 1])
  BY <1>2, UpdateApplies
<1>4. IsForm(Forms(h)[n])
  BY <1>2, FormsShape
<1>5. Forms(h)[n + 1] = [tables |-> AppliedTables(Forms(h)[n], h[n + 1]),
                         columns |-> AppliedColumns(Forms(h)[n], h[n + 1])]
  BY <1>3, <1>4, AppliedForm
<1>6. /\ Forms(h)[n + 1].tables = AppliedTables(Forms(h)[n], h[n + 1])
      /\ Forms(h)[n + 1].columns = AppliedColumns(Forms(h)[n], h[n + 1])
  BY <1>5
<1> QED  BY <1>2, <1>3, <1>6

(* A table stays in the later forms.                                        *)
LEMMA FormsGrow ==
  ASSUME NEW h \in Histories, NEW v \in 0..Len(h)
  PROVE  \A r \in v..Len(h) : Forms(h)[v].tables \subseteq Forms(h)[r].tables
<1>1. Len(h) \in Nat /\ v \in Nat
  BY TableUpdatesAssumption
<1> DEFINE F == Forms(h)
           T == {r \in Nat : v <= r /\ r <= Len(h) => F[v].tables \subseteq F[r].tables}
<1>2. 0 \in T
  BY <1>1
<1>3. ASSUME NEW r \in Nat, r \in T PROVE r + 1 \in T
  <2> SUFFICES ASSUME v <= r + 1, r + 1 <= Len(h) PROVE F[v].tables \subseteq F[r + 1].tables
    OBVIOUS
  <2>1. CASE v = r + 1
    BY <2>1
  <2>2. CASE v # r + 1
    <3>1. v <= r /\ r <= Len(h)
      BY <1>1, <2>2
    <3>2. F[v].tables \subseteq F[r].tables
      BY <1>3, <3>1
    <3>3. F[r + 1].tables = AppliedTables(F[r], h[r + 1])
      BY NextForm
    <3> HIDE DEF F
    <3> QED  BY <3>2, <3>3 DEF AppliedTables
  <2> QED  BY <2>1, <2>2
<1> HIDE DEF T
<1>4. Nat \subseteq T
  BY <1>2, <1>3, ByInduction
<1> QED  BY <1>1, <1>4 DEF T

(* A table of a later form that no update but its own has to do with is in  *)
(* the form of its creation.                                                *)
LEMMA FormsAhead ==
  ASSUME NEW h \in Histories, NEW v \in 0..Len(h), NEW table, table \notin Forms(h)[v].tables,
         NEW r \in v..Len(h),
         \A n \in (v + 1)..r : h[n].does # "new_tables" => h[n].table # table
  PROVE  table \in Forms(h)[r].tables => TableColumns(Forms(h)[r], table) = {<<table, "first">>}
<1>1. Len(h) \in Nat /\ v \in Nat /\ r \in Nat /\ r <= Len(h) /\ v <= r
  BY TableUpdatesAssumption
<1> DEFINE F == Forms(h)
           Due(m) == TableColumns(F[m], table) = IF table \in F[m].tables THEN {<<table, "first">>} ELSE {}
           T == {m \in Nat : v <= m /\ m <= r => Due(m)}
<1>2. Due(v)
  BY FormsShape DEF OfItsTables, TableColumns
<1>3. 0 \in T
  <2>1. v <= 0 => v = 0
    BY <1>1
  <2> QED  BY <1>2, <2>1
<1>4. ASSUME NEW m \in Nat, m \in T PROVE m + 1 \in T
  <2> SUFFICES ASSUME v <= m + 1, m + 1 <= r PROVE Due(m + 1)
    OBVIOUS
  <2>1. CASE v = m + 1
    BY <1>2, <2>1
  <2>2. CASE v # m + 1
    <3>1. v <= m /\ m <= r /\ m + 1 <= Len(h) /\ m + 1 \in (v + 1)..r
      BY <1>1, <2>2
    <3>2. Due(m)
      BY <1>4, <3>1
    <3>3. /\ h[m + 1].does \in UpdateKinds
          /\ F[m + 1].tables = AppliedTables(F[m], h[m + 1])
          /\ F[m + 1].columns = AppliedColumns(F[m], h[m + 1])
      BY <3>1, NextForm
    <3>4. h[m + 1].does # "new_tables" => h[m + 1].table # table
      BY <3>1
    <3> HIDE DEF F
    <3>5. CASE h[m + 1].table # table
      <4>1. TableColumns(F[m + 1], table) = TableColumns(F[m], table)
        BY <3>3, <3>5, AppliedToTable
      <4>2. table \in F[m + 1].tables <=> table \in F[m].tables
        BY <3>3, <3>5 DEF AppliedTables
      <4> QED  BY <3>2, <4>1, <4>2
    <3>6. CASE h[m + 1].table = table
      <4>1. h[m + 1].does = "new_tables"
        BY <3>4, <3>6
      <4>2. /\ table \in F[m].tables => TableColumns(F[m + 1], table) = TableColumns(F[m], table)
            /\ table \notin F[m].tables =>
                 TableColumns(F[m + 1], table) = TableColumns(F[m], table) \union {<<table, "first">>}
        BY <3>3, <3>6, <4>1, AppliedToTable
      <4>3. table \in F[m + 1].tables
        BY <3>3, <3>6, <4>1 DEF AppliedTables
      <4> QED  BY <3>2, <4>2, <4>3
    <3> QED  BY <3>5, <3>6
  <2> QED  BY <2>1, <2>2
<1> HIDE DEF T
<1>5. Nat \subseteq T
  BY <1>3, <1>4, ByInduction
<1>6. r \in T
  BY <1>1, <1>5
<1> QED  BY <1>1, <1>6 DEF T

(* The database is of its version: the tables of that form have its columns,*)
(* and a table that is there before its update is as that will create it.   *)
OfVersion(s, h) ==
  LET form == Forms(h)[s.version]
  IN
  /\ s.version \in 0..Len(h) /\ OfItsTables(s)
  /\ form.tables \subseteq s.tables
  /\ \A table \in form.tables : TableColumns(s, table) = TableColumns(form, table)
  /\ \A table \in s.tables \ form.tables : TableColumns(s, table) = {<<table, "first">>}

LEMMA OfVersionIs ==
  ASSUME NEW s, NEW h, NEW form, form = Forms(h)[s.version]
  PROVE  OfVersion(s, h) <=>
           /\ s.version \in 0..Len(h) /\ OfItsTables(s)
           /\ form.tables \subseteq s.tables
           /\ \A table \in form.tables : TableColumns(s, table) = TableColumns(form, table)
           /\ \A table \in s.tables \ form.tables : TableColumns(s, table) = {<<table, "first">>}
BY DEF OfVersion

LEMMA CreatedMatches ==
  ASSUME NEW h \in Histories, NEW r \in 0..Len(h), NEW g, g.version = r,
         g.tables = Forms(h)[r].tables, g.columns = MadeColumns(NoTables, Forms(h)[r].tables,
             Forms(h)[r].columns)
  PROVE  OfVersion(g, h)
<1> DEFINE form == Forms(h)[r]
<1>1. OfItsTables(form)
  BY FormsShape
<1>2. form = Forms(h)[g.version] /\ g.version \in 0..Len(h)
  OBVIOUS
<1>3. g.columns = MadeColumns(NoTables, form.tables, form.columns) /\ g.tables = form.tables
  OBVIOUS
<1> HIDE DEF form
<1>4. g.columns = form.columns
  BY <1>1, <1>3 DEF MadeColumns, NoTables, OfItsTables
<1>5. OfItsTables(g)
  BY <1>1, <1>3, <1>4 DEF OfItsTables
<1>6. \A table : TableColumns(g, table) = TableColumns(form, table)
  BY <1>4 DEF TableColumns
<1> QED  BY <1>2, <1>3, <1>5, <1>6, OfVersionIs

LEMMA MissingMatches ==
  ASSUME NEW h \in Histories, NEW s, OfVersion(s, h), NEW r \in 0..Len(h), NEW g, g.version = s.version,
         g.tables = s.tables \union Forms(h)[r].tables,
         g.columns = MadeColumns(s, Forms(h)[r].tables, Forms(h)[r].columns),
         \A n \in (s.version + 1)..r : h[n].does # "new_tables"
           => h[n].table \notin Forms(h)[r].tables \ s.tables
  PROVE  OfVersion(g, h)
<1> DEFINE form == Forms(h)[s.version]
           last == Forms(h)[r]
<1>1. /\ s.version \in 0..Len(h) /\ OfItsTables(s) /\ form.tables \subseteq s.tables
      /\ \A table \in form.tables : TableColumns(s, table) = TableColumns(form, table)
      /\ \A table \in s.tables \ form.tables : TableColumns(s, table) = {<<table, "first">>}
  BY OfVersionIs
<1>2. OfItsTables(last) /\ Len(h) \in Nat
  BY FormsShape, TableUpdatesAssumption
<1>3. ASSUME NEW table \in last.tables \ s.tables PROVE TableColumns(last, table) = {<<table, "first">>}
  <2>1. table \notin form.tables
    BY <1>1, <1>3
  <2>2. s.version <= r
    <3>1. CASE ~(s.version <= r)
      <4>1. s.version \in r..Len(h)
        BY <1>1, <1>2, <3>1
      <4>2. last.tables \subseteq form.tables
        BY <4>1, FormsGrow
      <4> QED  BY <1>3, <2>1, <4>2
    <3> QED  BY <3>1
  <2>3. r \in s.version..Len(h)
    BY <1>1, <1>2, <2>2
  <2>4. \A n \in (s.version + 1)..r : h[n].does # "new_tables" => h[n].table # table
    BY <1>3
  <2> QED  BY <1>1, <1>3, <2>1, <2>3, <2>4, FormsAhead
<1>4. g.tables = s.tables \union last.tables /\ g.columns = MadeColumns(s, last.tables, last.columns)
  OBVIOUS
<1>5. form = Forms(h)[g.version]
  OBVIOUS
<1> HIDE DEF form, last
<1>6. OfItsTables(g)
  BY <1>1, <1>4 DEF OfItsTables, MadeColumns
<1>7. \A table \in s.tables : TableColumns(g, table) = TableColumns(s, table)
  BY <1>4 DEF TableColumns, MadeColumns
<1>8. ASSUME NEW table \in last.tables \ s.tables PROVE TableColumns(g, table) = {<<table, "first">>}
  <2>1. TableColumns(g, table) = TableColumns(s, table) \union TableColumns(last, table)
    BY <1>4, <1>8 DEF TableColumns, MadeColumns
  <2>2. TableColumns(s, table) = {}
    BY <1>1, <1>8 DEF TableColumns, OfItsTables
  <2> QED  BY <1>3, <1>8, <2>1, <2>2
<1>9. \A table \in form.tables : TableColumns(g, table) = TableColumns(form, table)
  BY <1>1, <1>7
<1>10. \A table \in g.tables \ form.tables : TableColumns(g, table) = {<<table, "first">>}
  BY <1>1, <1>4, <1>7, <1>8
<1> QED  BY <1>1, <1>4, <1>5, <1>6, <1>9, <1>10, OfVersionIs

LEMMA UpdatedMatches ==
  ASSUME NEW h \in Histories, NEW s, OfVersion(s, h), s.version + 1 <= Len(h), NEW g,
         g.version = s.version + 1,
         g.tables = AppliedTables(s, h[s.version + 1]), g.columns = AppliedColumns(s, h[s.version + 1])
  PROVE  OfVersion(g, h)
<1> DEFINE v == s.version
           u == h[v + 1]
           form == Forms(h)[v]
           next == Forms(h)[v + 1]
<1>1. /\ v \in 0..Len(h) /\ OfItsTables(s) /\ form.tables \subseteq s.tables
      /\ \A table \in form.tables : TableColumns(s, table) = TableColumns(form, table)
      /\ \A table \in s.tables \ form.tables : TableColumns(s, table) = {<<table, "first">>}
  BY OfVersionIs
<1>2. v \in Nat
  BY <1>1, TableUpdatesAssumption
<1>3. /\ v + 1 \in 0..Len(h) /\ u.does \in UpdateKinds
      /\ next.tables = AppliedTables(form, u) /\ next.columns = AppliedColumns(form, u)
      /\ u.does # "new_tables" => u.table \in form.tables
      /\ OfItsTables(form)
  BY <1>1, <1>2, NextForm, FormsShape
<1>4. g.tables = AppliedTables(s, u) /\ g.columns = AppliedColumns(s, u) /\ next = Forms(h)[g.version]
  OBVIOUS
<1> HIDE DEF form, next, u
<1>5. OfItsTables(g)
  BY <1>1, <1>3, <1>4, AppliedWhole
<1>6. next.tables \subseteq g.tables
  BY <1>1, <1>3, <1>4 DEF AppliedTables
<1>7. ASSUME NEW table, u.table # table
      PROVE  /\ table \in next.tables => TableColumns(g, table) = TableColumns(next, table)
             /\ table \in g.tables \ next.tables => TableColumns(g, table) = {<<table, "first">>}
  <2>1. TableColumns(g, table) = TableColumns(s, table)
          /\ TableColumns(next, table) = TableColumns(form, table)
    BY <1>3, <1>4, <1>7, AppliedToTable
  <2>2. (table \in next.tables <=> table \in form.tables) /\ (table \in g.tables <=> table \in s.tables)
    BY <1>3, <1>4, <1>7 DEF AppliedTables
  <2> QED  BY <1>1, <2>1, <2>2
<1>8. u.table \in next.tables
  BY <1>3 DEF AppliedTables
<1>9. TableColumns(g, u.table) = TableColumns(next, u.table)
  <2>1. CASE u.does = "new_tables"
    <3>1. /\ u.table \in s.tables => TableColumns(g, u.table) = TableColumns(s, u.table)
          /\ u.table \notin s.tables
               => TableColumns(g, u.table) = TableColumns(s, u.table) \union {<<u.table, "first">>}
      BY <1>3, <1>4, <2>1, AppliedToTable
    <3>2. /\ u.table \in form.tables => TableColumns(next, u.table) = TableColumns(form, u.table)
          /\ u.table \notin form.tables =>
               TableColumns(next, u.table) = TableColumns(form, u.table) \union {<<u.table, "first">>}
      BY <1>3, <2>1, AppliedToTable
    <3>3. /\ u.table \notin s.tables => TableColumns(s, u.table) = {}
          /\ u.table \notin form.tables => TableColumns(form, u.table) = {}
      BY <1>1, <1>3 DEF TableColumns, OfItsTables
    <3>4. CASE u.table \in form.tables
      BY <1>1, <3>1, <3>2, <3>4
    <3>5. CASE u.table \notin form.tables /\ u.table \in s.tables
      <4>1. TableColumns(s, u.table) = {<<u.table, "first">>}
        BY <1>1, <3>5
      <4> QED  BY <3>1, <3>2, <3>3, <3>5, <4>1
    <3>6. CASE u.table \notin form.tables /\ u.table \notin s.tables
      BY <3>1, <3>2, <3>3, <3>6
    <3> QED  BY <3>4, <3>5, <3>6
  <2>2. CASE u.does # "new_tables"
    <3>1. TableColumns(s, u.table) = TableColumns(form, u.table)
      BY <1>1, <1>3, <2>2
    <3>2. CASE u.does = "new_fields"
      <4>1. TableColumns(g, u.table) = TableColumns(s, u.table) \union {<<u.table, u.column>>}
        BY <1>3, <1>4, <3>2, AppliedToTable
      <4>2. TableColumns(next, u.table) = TableColumns(form, u.table) \union {<<u.table, u.column>>}
        BY <1>3, <3>2, AppliedToTable
      <4> QED  BY <3>1, <4>1, <4>2
    <3>3. CASE u.does = "delete_fields"
      <4>1. TableColumns(g, u.table) = TableColumns(s, u.table) \ {<<u.table, u.column>>}
        BY <1>3, <1>4, <3>3, AppliedToTable
      <4>2. TableColumns(next, u.table) = TableColumns(form, u.table) \ {<<u.table, u.column>>}
        BY <1>3, <3>3, AppliedToTable
      <4> QED  BY <3>1, <4>1, <4>2
    <3> QED  BY <1>3, <2>2, <3>2, <3>3 DEF UpdateKinds
  <2> QED  BY <2>1, <2>2
<1>10. \A table \in next.tables : TableColumns(g, table) = TableColumns(next, table)
  BY <1>7, <1>9
<1>11. \A table \in g.tables \ next.tables : TableColumns(g, table) = {<<table, "first">>}
  BY <1>7, <1>8
<1> QED  BY <1>3, <1>4, <1>5, <1>6, <1>10, <1>11, OfVersionIs

(* A database that matches its version is in its form, and takes the next   *)
(* update.                                                                  *)
LEMMA OfVersionMeans ==
  ASSUME NEW h \in Histories, NEW s, OfVersion(s, h), NEW form, form = Forms(h)[s.version]
  PROVE  /\ form.tables \subseteq s.tables
         /\ {c \in s.columns : c[1] \in form.tables} = form.columns
         /\ s.version < Len(h) => Alters(s, h[s.version + 1])
<1>1. /\ s.version \in 0..Len(h) /\ OfItsTables(s) /\ form.tables \subseteq s.tables
      /\ \A table \in form.tables : TableColumns(s, table) = TableColumns(form, table)
  BY OfVersionIs
<1>2. OfItsTables(form) /\ Len(h) \in Nat
  BY <1>1, FormsShape, TableUpdatesAssumption
<1>3. {c \in s.columns : c[1] \in form.tables} = form.columns
  BY <1>1, <1>2 DEF OfItsTables, TableColumns
<1>4. ASSUME s.version < Len(h) PROVE Alters(s, h[s.version + 1])
  <2> DEFINE u == h[s.version + 1]
  <2>1. s.version \in Nat /\ s.version + 1 <= Len(h)
    BY <1>1, <1>2, <1>4
  <2>2. u.does \in UpdateKinds /\ (u.does # "new_tables" => u.table \in form.tables) /\ Alters(form, u)
    BY <2>1, NextForm
  <2> HIDE DEF u
  <2>3. ASSUME u.does # "new_tables"
        PROVE  <<u.table, u.column>> \in s.columns <=> <<u.table, u.column>> \in form.columns
    <3>1. <<u.table, u.column>>[1] \in form.tables
      BY <2>2, <2>3
    <3> QED  BY <1>3, <3>1
  <2>4. Alters(s, u)
    <3>1. CASE u.does = "new_tables"
      BY <3>1 DEF Alters
    <3>2. CASE u.does = "new_fields"
      BY <2>2, <2>3, <3>2 DEF Alters
    <3>3. CASE u.does = "delete_fields"
      BY <2>2, <2>3, <3>3 DEF Alters
    <3> QED  BY <2>2, <3>1, <3>2, <3>3 DEF UpdateKinds
  <2> QED  BY <2>4 DEF u
<1> QED  BY <1>1, <1>3, <1>4

(* The programs that bring the database to their release.                   *)
UpdatesTypes ==
  /\ history \in Histories
  /\ updating \in [Updaters -> {"nothing", "version", "tables", "updates"}]
  /\ brought \in [Updaters -> {"never", "returned", "threw"}]
  /\ ver \in [Updaters -> -1..Len(history)]
  /\ IsServed(served) /\ served.version \in -1..Len(history)
  /\ served.version = -1 => served = NoTables
  /\ \A i \in Updaters : updating[i] \in {"tables", "updates"} => served.version # -1 /\ ver[i] # -1

(* One at a time: the version a program goes by is that of the database.    *)
InTurn ==
  /\ \A i, q \in Updaters : i # q => updating[i] = "nothing" \/ updating[q] = "nothing"
  /\ \A i \in Updaters : updating[i] \in {"tables", "updates"} => ver[i] = served.version
  /\ \A i \in Updaters : brought[i] = "returned" => served.version >= ReleaseOf[i]

TablesInv ==
  /\ UpdatesTypes
  /\ "together" \notin updateMishaps => InTurn
  /\ updateMishaps = {} => served = NoTables \/ OfVersion(served, history)

LEMMA UpdateNumbers ==
  ASSUME UpdatesTypes
  PROVE  /\ Len(history) \in Nat /\ served.version \in Int
         /\ \A i \in Updaters : ReleaseOf[i] \in 0..Len(history) /\ ver[i] \in -1..Len(history)
BY TableUpdatesAssumption DEF UpdatesTypes

LEMMA NoTablesIs == IsServed(NoTables) /\ NoTables.version = -1 /\ NoTables.tables = {}
  /\ NoTables.columns = {}
BY DEF NoTables, IsServed

(* Where a step leaves its own program.                                     *)
LEMMA UpdatesTurn ==
  ASSUME UpdatesTypes, NEW i \in Updaters, NEW at \in {"nothing", "version", "tables", "updates"},
         updating' = [updating EXCEPT ![i] = at]
  PROVE  /\ updating' \in [Updaters -> {"nothing", "version", "tables", "updates"}]
         /\ updating'[i] = at /\ \A q \in Updaters \ {i} : updating'[q] = updating[q]
BY DEF UpdatesTypes

LEMMA BroughtTurn ==
  ASSUME UpdatesTypes, NEW i \in Updaters, NEW how \in {"never", "returned", "threw"},
         brought' = [brought EXCEPT ![i] = how]
  PROVE  /\ brought' \in [Updaters -> {"never", "returned", "threw"}]
         /\ brought'[i] = how /\ \A q \in Updaters \ {i} : brought'[q] = brought[q]
BY DEF UpdatesTypes

LEMMA VerTurn ==
  ASSUME UpdatesTypes, NEW i \in Updaters, NEW v \in -1..Len(history), ver' = [ver EXCEPT ![i] = v]
  PROVE  /\ ver' \in [Updaters -> -1..Len(history)]
         /\ ver'[i] = v /\ \A q \in Updaters \ {i} : ver'[q] = ver[q]
BY DEF UpdatesTypes

LEMMA CallUpdateKeeps ==
  ASSUME TablesInv, NEW i \in Updaters, CallUpdate(i)
  PROVE  TablesInv'
<1>1. /\ UpdatesTypes /\ updating[i] = "nothing" /\ UNCHANGED <<history, served, ver>>
      /\ updating' = [updating EXCEPT ![i] = "version"] /\ brought' = [brought EXCEPT ![i] = "never"]
      /\ updateMishaps \subseteq updateMishaps'
  BY DEF TablesInv, CallUpdate
<1>2. /\ updating' \in [Updaters -> {"nothing", "version", "tables", "updates"}]
      /\ updating'[i] = "version" /\ \A q \in Updaters \ {i} : updating'[q] = updating[q]
  BY <1>1, UpdatesTurn
<1>3. /\ brought' \in [Updaters -> {"never", "returned", "threw"}]
      /\ brought'[i] = "never" /\ \A q \in Updaters \ {i} : brought'[q] = brought[q]
  BY <1>1, BroughtTurn
<1>4. UpdatesTypes'
  <2>1. \A q \in Updaters : updating'[q] \in {"tables", "updates"} => served.version # -1 /\ ver[q] # -1
    BY <1>1, <1>2 DEF UpdatesTypes
  <2> QED  BY <1>1, <1>2, <1>3, <2>1 DEF UpdatesTypes, IsServed
<1>5. ASSUME "together" \notin updateMishaps' PROVE InTurn'
  <2>1. InTurn
    BY <1>1, <1>5 DEF TablesInv
  <2>2. \A q \in Updaters \ {i} : updating[q] = "nothing"
    BY <1>5 DEF CallUpdate
  <2>3. \A q, o \in Updaters : q # o => updating'[q] = "nothing" \/ updating'[o] = "nothing"
    BY <1>2, <2>2
  <2>4. \A q \in Updaters : updating'[q] \in {"tables", "updates"} => ver'[q] = served'.version
    BY <1>1, <1>2, <2>1 DEF InTurn
  <2>5. \A q \in Updaters : brought'[q] = "returned" => served'.version >= ReleaseOf[q]
    BY <1>1, <1>3, <2>1 DEF InTurn
  <2> QED  BY <2>3, <2>4, <2>5 DEF InTurn
<1>6. updateMishaps' = {} => served' = NoTables \/ OfVersion(served', history')
  BY <1>1 DEF TablesInv
<1> QED  BY <1>4, <1>5, <1>6 DEF TablesInv

LEMMA CreateAllKeeps ==
  ASSUME TablesInv, NEW i \in Updaters, CreateAll(i)
  PROVE  TablesInv'
<1> DEFINE r == ReleaseOf[i]
           form == Forms(history)[r]
<1>1. /\ UpdatesTypes /\ updating[i] = "version" /\ served.version = -1
      /\ UNCHANGED <<history, ver, updateMishaps>>
      /\ updating' = [updating EXCEPT ![i] = "nothing"] /\ brought' = [brought EXCEPT ![i] = "returned"]
      /\ served' = [Made(served, form.tables, form.columns) EXCEPT !.version = r]
  BY DEF TablesInv, CreateAll, UpdateReturns, Latest
<1>2. /\ updating' \in [Updaters -> {"nothing", "version", "tables", "updates"}]
      /\ updating'[i] = "nothing" /\ \A q \in Updaters \ {i} : updating'[q] = updating[q]
  BY <1>1, UpdatesTurn
<1>3. /\ brought' \in [Updaters -> {"never", "returned", "threw"}]
      /\ brought'[i] = "returned" /\ \A q \in Updaters \ {i} : brought'[q] = brought[q]
  BY <1>1, BroughtTurn
<1>4. r \in 0..Len(history) /\ Len(history) \in Nat /\ history \in Histories
  BY <1>1, UpdateNumbers DEF UpdatesTypes
<1>5. /\ served' = [tables |-> form.tables, columns |-> MadeColumns(NoTables, form.tables, form.columns),
                    version |-> r]
      /\ served = NoTables
  <2>1. served = NoTables
    BY <1>1 DEF UpdatesTypes
  <2> HIDE DEF form, r
  <2>2. Made(served, form.tables, form.columns) =
          [tables |-> form.tables, columns |-> MadeColumns(NoTables, form.tables, form.columns),
              version |-> -1]
    BY <2>1, MadeServed, NoTablesIs
  <2> QED  BY <1>1, <2>1, <2>2
<1>6. served'.version = r /\ served'.tables = form.tables
      /\ served'.columns = MadeColumns(NoTables, form.tables, form.columns) /\ IsServed(served')
  <2> HIDE DEF form, r
  <2> QED  BY <1>5 DEF IsServed
<1>7. UpdatesTypes'
  <2>1. \A q \in Updaters : updating'[q] \in {"tables", "updates"} => served'.version # -1 /\ ver'[q] # -1
    BY <1>1, <1>2, <1>4, <1>6 DEF UpdatesTypes
  <2>2. served'.version \in -1..Len(history) /\ served'.version # -1
    BY <1>4, <1>6
  <2>3. ver' \in [Updaters -> -1..Len(history')] /\ history' \in Histories
    BY <1>1 DEF UpdatesTypes
  <2> QED  BY <1>1, <1>2, <1>3, <1>6, <2>1, <2>2, <2>3 DEF UpdatesTypes, IsServed
<1>8. ASSUME "together" \notin updateMishaps' PROVE InTurn'
  <2>1. InTurn
    BY <1>1, <1>8 DEF TablesInv
  <2>2. \A q, o \in Updaters : q # o => updating'[q] = "nothing" \/ updating'[o] = "nothing"
    BY <1>2, <2>1 DEF InTurn
  <2>3. \A q \in Updaters : updating'[q] \in {"tables", "updates"} => ver'[q] = served'.version
    BY <1>1, <1>2, <2>1 DEF InTurn
  <2>4. \A q \in Updaters : brought'[q] = "returned" => served'.version >= ReleaseOf[q]
    <3> SUFFICES ASSUME NEW q \in Updaters, brought'[q] = "returned" PROVE served'.version >= ReleaseOf[q]
      OBVIOUS
    <3>1. CASE q = i
      BY <1>4, <1>6, <3>1
    <3>2. CASE q # i
      <4>1. served.version >= ReleaseOf[q] /\ ReleaseOf[q] \in Nat
        BY <1>3, <2>1, <3>2, TableUpdatesAssumption DEF InTurn
      <4> QED  BY <1>1, <4>1
    <3> QED  BY <3>1, <3>2
  <2> QED  BY <2>2, <2>3, <2>4 DEF InTurn
<1>9. OfVersion(served', history')
  BY <1>1, <1>4, <1>6, CreatedMatches
<1> QED  BY <1>7, <1>8, <1>9 DEF TablesInv

LEMMA ReadSchemaVersionKeeps ==
  ASSUME TablesInv, NEW i \in Updaters, ReadSchemaVersion(i)
  PROVE  TablesInv'
<1>1. /\ UpdatesTypes /\ updating[i] = "version" /\ served.version # -1
      /\ UNCHANGED <<history, served, brought, updateMishaps>>
      /\ updating' = [updating EXCEPT ![i] = "tables"] /\ ver' = [ver EXCEPT ![i] = served.version]
  BY DEF TablesInv, ReadSchemaVersion
<1>2. /\ updating' \in [Updaters -> {"nothing", "version", "tables", "updates"}]
      /\ updating'[i] = "tables" /\ \A q \in Updaters \ {i} : updating'[q] = updating[q]
  BY <1>1, UpdatesTurn
<1>3. /\ ver' \in [Updaters -> -1..Len(history)]
      /\ ver'[i] = served.version /\ \A q \in Updaters \ {i} : ver'[q] = ver[q]
  BY <1>1, VerTurn DEF UpdatesTypes
<1>4. UpdatesTypes'
  BY <1>1, <1>2, <1>3 DEF UpdatesTypes, IsServed
<1>5. ASSUME "together" \notin updateMishaps' PROVE InTurn'
  <2>1. InTurn
    BY <1>1, <1>5 DEF TablesInv
  <2>2. \A q, o \in Updaters : q # o => updating'[q] = "nothing" \/ updating'[o] = "nothing"
    BY <1>1, <1>2, <2>1 DEF InTurn
  <2>3. \A q \in Updaters : updating'[q] \in {"tables", "updates"} => ver'[q] = served'.version
    BY <1>1, <1>2, <1>3, <2>1 DEF InTurn
  <2>4. \A q \in Updaters : brought'[q] = "returned" => served'.version >= ReleaseOf[q]
    BY <1>1, <2>1 DEF InTurn
  <2> QED  BY <2>2, <2>3, <2>4 DEF InTurn
<1>6. updateMishaps' = {} => served' = NoTables \/ OfVersion(served', history')
  BY <1>1 DEF TablesInv
<1> QED  BY <1>4, <1>5, <1>6 DEF TablesInv

LEMMA CreateMissingKeeps ==
  ASSUME TablesInv, NEW i \in Updaters, CreateMissing(i)
  PROVE  TablesInv'
<1> DEFINE r == ReleaseOf[i]
           form == Forms(history)[r]
<1>1. /\ UpdatesTypes /\ updating[i] = "tables"
      /\ UNCHANGED <<history, ver, brought>> /\ updateMishaps \subseteq updateMishaps'
      /\ updating' = [updating EXCEPT ![i] = "updates"]
      /\ served' = Made(served, form.tables, form.columns)
  BY DEF TablesInv, CreateMissing, Latest
<1>2. /\ updating' \in [Updaters -> {"nothing", "version", "tables", "updates"}]
      /\ updating'[i] = "updates" /\ \A q \in Updaters \ {i} : updating'[q] = updating[q]
  BY <1>1, UpdatesTurn
<1>3. r \in 0..Len(history) /\ Len(history) \in Nat /\ history \in Histories /\ IsServed(served)
  BY <1>1, UpdateNumbers DEF UpdatesTypes
<1>4. /\ served'.version = served.version /\ served'.tables = served.tables \union form.tables
      /\ served'.columns = MadeColumns(served, form.tables, form.columns) /\ IsServed(served')
  <2> HIDE DEF form, r
  <2>1. served' = [tables |-> served.tables \union form.tables,
                   columns |-> MadeColumns(served, form.tables, form.columns), version |-> served.version]
    BY <1>1, <1>3, MadeServed
  <2> QED  BY <2>1 DEF IsServed
<1>5. served.version # -1
  BY <1>1 DEF UpdatesTypes
<1>6. UpdatesTypes'
  BY <1>1, <1>2, <1>4, <1>5 DEF UpdatesTypes, IsServed
<1>7. ASSUME "together" \notin updateMishaps' PROVE InTurn'
  <2>1. InTurn
    BY <1>1, <1>7 DEF TablesInv
  <2>2. \A q, o \in Updaters : q # o => updating'[q] = "nothing" \/ updating'[o] = "nothing"
    BY <1>1, <1>2, <2>1 DEF InTurn
  <2>3. \A q \in Updaters : updating'[q] \in {"tables", "updates"} => ver'[q] = served'.version
    BY <1>1, <1>2, <1>4, <2>1 DEF InTurn
  <2>4. \A q \in Updaters : brought'[q] = "returned" => served'.version >= ReleaseOf[q]
    BY <1>1, <1>4, <2>1 DEF InTurn
  <2> QED  BY <2>2, <2>3, <2>4 DEF InTurn
<1>8. ASSUME updateMishaps' = {} PROVE OfVersion(served', history')
  <2>1. InTurn /\ (served = NoTables \/ OfVersion(served, history))
    BY <1>1, <1>8 DEF TablesInv
  <2>2. ver[i] = served.version /\ OfVersion(served, history)
    BY <1>1, <1>5, <2>1, NoTablesIs DEF InTurn
  <2>3. \A n \in (served.version + 1)..r :
          history[n].does # "new_tables" => history[n].table \notin form.tables \ served.tables
    BY <1>8, <2>2 DEF CreateMissing, Latest
  <2>4. OfVersion(served', history)
    BY <1>3, <1>4, <2>2, <2>3, MissingMatches
  <2> QED  BY <1>1, <2>4
<1> QED  BY <1>6, <1>7, <1>8 DEF TablesInv

LEMMA RunUpdateKeeps ==
  ASSUME TablesInv, NEW i \in Updaters, RunUpdate(i)
  PROVE  TablesInv'
<1> DEFINE n == ver[i] + 1
           u == history[n]
<1>1. /\ UpdatesTypes /\ updating[i] = "updates" /\ n <= ReleaseOf[i]
      /\ UNCHANGED <<history, updating, brought, updateMishaps>>
      /\ served' = [Applied(served, u) EXCEPT !.version = n]
      /\ ver' = [ver EXCEPT ![i] = n]
  BY DEF TablesInv, RunUpdate, NextUpdate
<1>2. /\ n \in 1..Len(history) /\ n # -1 /\ n \in -1..Len(history) /\ n <= Len(history)
      /\ Len(history) \in Nat /\ history \in Histories /\ IsServed(served)
  <2>1. ReleaseOf[i] \in 0..Len(history) /\ ver[i] \in -1..Len(history) /\ Len(history) \in Nat
          /\ ver[i] # -1
    BY <1>1, UpdateNumbers DEF UpdatesTypes
  <2> QED  BY <1>1, <2>1 DEF UpdatesTypes
<1>3. u.does \in UpdateKinds
  BY <1>2, UpdateApplies
<1>4. /\ served'.version = n /\ served'.tables = AppliedTables(served, u)
      /\ served'.columns = AppliedColumns(served, u) /\ IsServed(served')
  <2> HIDE DEF n, u
  <2>1. Applied(served, u) = [tables |-> AppliedTables(served, u), columns |-> AppliedColumns(served, u),
                              version |-> served.version]
    BY <1>2, <1>3, AppliedServed
  <2>2. served' = [tables |-> AppliedTables(served, u), columns |-> AppliedColumns(served, u),
            version |-> n]
    BY <1>1, <2>1
  <2> QED  BY <2>2 DEF IsServed
<1>5. /\ ver' \in [Updaters -> -1..Len(history)]
      /\ ver'[i] = n /\ \A q \in Updaters \ {i} : ver'[q] = ver[q]
  BY <1>1, <1>2, VerTurn
<1>6. UpdatesTypes'
  <2>1. \A q \in Updaters : updating'[q] \in {"tables", "updates"} => served'.version # -1 /\ ver'[q] # -1
    BY <1>1, <1>2, <1>4, <1>5 DEF UpdatesTypes
  <2>2. served'.version \in -1..Len(history) /\ served'.version # -1
    BY <1>2, <1>4
  <2> HIDE DEF n
  <2> QED  BY <1>1, <1>4, <1>5, <2>1, <2>2 DEF UpdatesTypes, IsServed
<1>7. InTurn => ver[i] = served.version
  BY <1>1 DEF InTurn
<1>8. ASSUME "together" \notin updateMishaps' PROVE InTurn'
  <2>1. InTurn /\ n = served.version + 1 /\ served.version \in Int
    BY <1>1, <1>7, <1>8, UpdateNumbers DEF TablesInv
  <2>2. \A q, o \in Updaters : q # o => updating'[q] = "nothing" \/ updating'[o] = "nothing"
    BY <1>1, <2>1 DEF InTurn
  <2>3. \A q \in Updaters : updating'[q] \in {"tables", "updates"} => ver'[q] = served'.version
    <3>1. \A q \in Updaters \ {i} : updating[q] = "nothing"
      BY <1>1, <2>1 DEF InTurn
    <3> QED  BY <1>1, <1>4, <1>5, <3>1
  <2>4. \A q \in Updaters : brought'[q] = "returned" => served'.version >= ReleaseOf[q]
    <3> SUFFICES ASSUME NEW q \in Updaters, brought'[q] = "returned" PROVE served'.version >= ReleaseOf[q]
      OBVIOUS
    <3>1. served.version >= ReleaseOf[q] /\ ReleaseOf[q] \in Nat
      BY <1>1, <2>1, TableUpdatesAssumption DEF InTurn
    <3> QED  BY <1>4, <2>1, <3>1
  <2> QED  BY <2>2, <2>3, <2>4 DEF InTurn
<1>9. ASSUME updateMishaps' = {} PROVE OfVersion(served', history')
  <2>1. InTurn /\ (served = NoTables \/ OfVersion(served, history))
    BY <1>1, <1>9 DEF TablesInv
  <2>2. n = served.version + 1 /\ served.version # -1
    BY <1>1, <1>7, <2>1 DEF UpdatesTypes
  <2>3. OfVersion(served, history)
    BY <2>1, <2>2, NoTablesIs
  <2>4. OfVersion(served', history)
    BY <1>2, <1>4, <2>2, <2>3, UpdatedMatches
  <2> QED  BY <1>1, <2>4
<1> QED  BY <1>6, <1>8, <1>9 DEF TablesInv

(* A program ends its call, or fails, and leaves the database alone.        *)
LEMMA EndKeeps ==
  ASSUME TablesInv, NEW i \in Updaters, NEW how \in {"returned", "threw"},
         updating' = [updating EXCEPT ![i] = "nothing"], brought' = [brought EXCEPT ![i] = how],
         UNCHANGED <<history, served, ver, updateMishaps>>,
         InTurn /\ how = "returned" => served.version >= ReleaseOf[i]
  PROVE  TablesInv'
<1>1. UpdatesTypes
  BY DEF TablesInv
<1>2. /\ updating' \in [Updaters -> {"nothing", "version", "tables", "updates"}]
      /\ updating'[i] = "nothing" /\ \A q \in Updaters \ {i} : updating'[q] = updating[q]
  BY <1>1, UpdatesTurn
<1>3. /\ brought' \in [Updaters -> {"never", "returned", "threw"}]
      /\ brought'[i] = how /\ \A q \in Updaters \ {i} : brought'[q] = brought[q]
  BY <1>1, BroughtTurn
<1>4. UpdatesTypes'
  BY <1>1, <1>2, <1>3 DEF UpdatesTypes, IsServed
<1>5. ASSUME "together" \notin updateMishaps' PROVE InTurn'
  <2>1. InTurn
    BY <1>5 DEF TablesInv
  <2>2. \A q, o \in Updaters : q # o => updating'[q] = "nothing" \/ updating'[o] = "nothing"
    BY <1>2, <2>1 DEF InTurn
  <2>3. \A q \in Updaters : updating'[q] \in {"tables", "updates"} => ver'[q] = served'.version
    BY <1>2, <2>1 DEF InTurn
  <2>4. \A q \in Updaters : brought'[q] = "returned" => served'.version >= ReleaseOf[q]
    BY <1>3, <2>1 DEF InTurn
  <2> QED  BY <2>2, <2>3, <2>4 DEF InTurn
<1>6. updateMishaps' = {} => served' = NoTables \/ OfVersion(served', history')
  BY DEF TablesInv
<1> QED  BY <1>4, <1>5, <1>6 DEF TablesInv

LEMMA UpdatesDoneKeeps ==
  ASSUME TablesInv, NEW i \in Updaters, UpdatesDone(i)
  PROVE  TablesInv'
<1>1. /\ updating[i] = "updates" /\ ver[i] + 1 > ReleaseOf[i]
      /\ updating' = [updating EXCEPT ![i] = "nothing"] /\ brought' = [brought EXCEPT ![i] = "returned"]
      /\ UNCHANGED <<history, served, ver, updateMishaps>>
  BY DEF UpdatesDone, UpdateReturns, NextUpdate
<1>2. ASSUME InTurn PROVE served.version >= ReleaseOf[i]
  <2>1. ReleaseOf[i] \in Nat /\ ver[i] \in Int /\ ver[i] = served.version
    <3>1. ReleaseOf[i] \in 0..Len(history) /\ ver[i] \in -1..Len(history) /\ Len(history) \in Nat
      BY UpdateNumbers DEF TablesInv
    <3> QED  BY <1>1, <1>2, <3>1 DEF InTurn
  <2> QED  BY <1>1, <2>1
<1> QED  BY <1>1, <1>2, EndKeeps

LEMMA TablesSteps ==
  ASSUME TablesInv, UpdatesNext PROVE TablesInv'
<1>1. PICK i \in Updaters :
        \/ CallUpdate(i)
        \/ CreateAll(i) \/ ReadSchemaVersion(i) \/ CreateMissing(i)
        \/ RunUpdate(i) \/ UpdatesDone(i) \/ UpdateFails(i)
  BY DEF UpdatesNext
<1>2. UpdateFails(i) => TablesInv'
  BY EndKeeps DEF UpdateFails
<1> QED
  BY <1>1, <1>2, CallUpdateKeeps, CreateAllKeeps, ReadSchemaVersionKeeps, CreateMissingKeeps,
     RunUpdateKeeps, UpdatesDoneKeeps

LEMMA TablesStarts ==
  ASSUME UpdatesInit PROVE TablesInv
<1>1. Len(history) \in Nat /\ history \in Histories
  BY TableUpdatesAssumption DEF UpdatesInit
<1>2. served = NoTables /\ IsServed(served) /\ served.version = -1
  BY NoTablesIs DEF UpdatesInit
<1>3. ver \in [Updaters -> -1..Len(history)]
  BY <1>1 DEF UpdatesInit
<1>4. UpdatesTypes
  BY <1>1, <1>2, <1>3 DEF UpdatesInit, UpdatesTypes
<1>5. InTurn
  BY DEF UpdatesInit, InTurn
<1> QED  BY <1>2, <1>4, <1>5 DEF TablesInv

LEMMA TablesStays ==
  ASSUME TablesInv, UNCHANGED updateVars PROVE TablesInv'
<1>1. UNCHANGED <<history, served, updating, ver, brought, updateCallsLeft, updateMishaps>>
  BY DEF updateVars
<1>2. UpdatesTypes' = UpdatesTypes
  BY <1>1 DEF UpdatesTypes, IsServed
<1>3. InTurn' = InTurn
  BY <1>1 DEF InTurn
<1> QED  BY <1>1, <1>2, <1>3 DEF TablesInv

LEMMA TablesMean ==
  ASSUME TablesInv PROVE UpdatesTypeOK /\ TablesMatchVersion /\ ReleaseReached
<1>1. UpdatesTypeOK
  BY DEF TablesInv, UpdatesTypes, UpdatesTypeOK
<1>2. TablesMatchVersion
  <2>1. CASE updateMishaps # {}
    BY <2>1 DEF TablesMatchVersion
  <2>2. CASE served = NoTables
    BY <2>2 DEF TablesMatchVersion
  <2>3. CASE OfVersion(served, history)
    <3>1. history \in Histories
      BY DEF TablesInv, UpdatesTypes
    <3> DEFINE form == Forms(history)[served.version]
    <3>2. /\ form.tables \subseteq served.tables
          /\ {c \in served.columns : c[1] \in form.tables} = form.columns
          /\ served.version < Len(history) => Alters(served, history[served.version + 1])
      BY <2>3, <3>1, OfVersionMeans
    <3> QED  BY <3>2 DEF TablesMatchVersion
  <2> QED  BY <2>1, <2>2, <2>3 DEF TablesInv
<1>3. ReleaseReached
  BY DEF TablesInv, InTurn, ReleaseReached
<1> QED  BY <1>1, <1>2, <1>3

-----------------------------------------------------------------------------
(* The three parts, of which one takes its steps and the others stay.       *)
SharedInv == CacheInv /\ SettingsInv /\ TablesInv

LEMMA SharedStarts == ASSUME Init PROVE SharedInv
<1>1. CacheInit /\ SettingsStorageInit /\ UpdatesInit
  BY DEF Init
<1> QED  BY <1>1, CacheStarts, SettingsStarts, TablesStarts DEF SharedInv

LEMMA SharedSteps ==
  ASSUME SharedInv, [Next]_<<part, numbers, texts, records, configured, databases, wordsGiven>>
  PROVE  SharedInv'
<1>1. CASE SettingsStorageNext /\ UNCHANGED databases
  <2>1. UNCHANGED cacheVars /\ UNCHANGED updateVars
    BY <1>1 DEF databases
  <2> QED  BY <1>1, <2>1, SettingsSteps, CacheStays, TablesStays DEF SharedInv
<1>2. CASE CacheNext /\ UNCHANGED updateVars /\ UNCHANGED configured
  <2>1. UNCHANGED settingsStorageVars
    BY <1>2 DEF configured
  <2> QED  BY <1>2, <2>1, SettingsStays, CacheSteps, TablesStays DEF SharedInv
<1>3. CASE UpdatesNext /\ UNCHANGED cacheVars /\ UNCHANGED configured
  <2>1. UNCHANGED settingsStorageVars
    BY <1>3 DEF configured
  <2> QED  BY <1>3, <2>1, SettingsStays, CacheStays, TablesSteps DEF SharedInv
<1>4. CASE UNCHANGED settingsStorageVars /\ UNCHANGED databases
  <2>1. UNCHANGED cacheVars /\ UNCHANGED updateVars
    BY <1>4 DEF databases
  <2> QED  BY <1>4, <2>1, SettingsStays, CacheStays, TablesStays DEF SharedInv
<1>5. CASE UNCHANGED configured /\ UNCHANGED databases
  <2>1. UNCHANGED settingsStorageVars
    BY <1>5 DEF configured
  <2> QED  BY <1>4, <1>5, <2>1
<1>6. \/ SettingsStorageNext /\ UNCHANGED databases
      \/ CacheNext /\ UNCHANGED updateVars /\ UNCHANGED configured
      \/ UpdatesNext /\ UNCHANGED cacheVars /\ UNCHANGED configured
      \/ UNCHANGED settingsStorageVars /\ UNCHANGED databases
      \/ UNCHANGED configured /\ UNCHANGED databases
  BY Zenon DEF Next, OfNumbers, OfWords, OfTexts, OfRecords, OfSettings, OfDatabases
<1> QED  BY <1>1, <1>2, <1>3, <1>4, <1>5, <1>6

(* What several threads or programs read is what they wrote, in every state *)
(* of every behaviour: a count of the cache is that of the calls that have  *)
(* returned, no call leaves a lock or a transaction open and what a read    *)
(* finds was set (sqlite.h); a call for settings returns those of its files *)
(* over those of the levels below, whichever were loaded before and by whom *)
(* (settings.cpp, sw/settings.cpp); the tables of a database are in the     *)
(* form of its version, and a program that has returned finds its release   *)
(* or a later one (postgres.h); each but for the mishaps its property names.*)
THEOREM SharedAlwaysKept == Spec => []SharedIsKept
<1>1. Init => SharedInv
  BY SharedStarts
<1>2. SharedInv /\ [Next]_<<part, numbers, texts, records, configured, databases, wordsGiven>> => SharedInv'
  BY SharedSteps
<1>3. SharedInv => SharedIsKept
  BY CacheMeans, SettingsMeans, TablesMean DEF SharedInv, SharedIsKept
<1> QED  BY <1>1, <1>2, <1>3, PTL DEF Spec

-----------------------------------------------------------------------------
(* Versions.  An object is a version of numbers none of which is too large, *)
(* or max().                                                                *)

VersionType == [numbers : Seq(Nat), extra : Extras \union {None}]

InRange(s) == \A i \in DOMAIN s : s[i] <= MaxNumber

VersionInv == /\ version \in VersionType
              /\ InRange(version.numbers) \/ Same(version, VersionMax)

LEMMA PartsOfVersion ==
  ASSUME NEW v \in VersionType
  PROVE  /\ v.numbers \in Seq(Nat) /\ Level(v) = Len(v.numbers) /\ Level(v) \in Nat
         /\ v.extra \in Extras \union {None} /\ v.extra \in Nat
<1>1. v.numbers \in Seq(Nat) /\ v.extra \in Extras \union {None}
  BY DEF VersionType
<1>2. Extras \union {None} \subseteq Nat
  BY VersionAssumption DEF None
<1> QED  BY <1>1, <1>2 DEF Level

LEMMA NumbersAre ==
  ASSUME NEW s \in Seq(Nat)
  PROVE  Len(s) \in Nat /\ DOMAIN s = 1..Len(s) /\ \A i \in 1..Len(s) : s[i] \in Nat
OBVIOUS

LEMMA FunctionIsSeq ==
  ASSUME NEW n \in Nat, NEW t \in [1..n -> Nat]
  PROVE  t \in Seq(Nat) /\ Len(t) = n
OBVIOUS

LEMMA ResizedIs ==
  ASSUME NEW s \in Seq(Nat), NEW n \in Nat
  PROVE  /\ Resized(s, n) \in Seq(Nat) /\ Len(Resized(s, n)) = n
         /\ \A i \in 1..n : Resized(s, n)[i] = IF i <= Len(s) THEN s[i] ELSE 0
<1>1. Resized(s, n) \in [1..n -> Nat]
  BY DEF Resized
<1> QED  BY <1>1 DEF Resized

LEMMA AsLong == ASSUME NEW s \in Seq(Nat) PROVE Resized(s, Len(s)) = s
BY DEF Resized

(* Versions of one level and extra part are compared number by number.      *)
LEMMA LessIsLexLess ==
  ASSUME NEW v \in VersionType, NEW w \in VersionType,
         Level(v) = Level(w), v.extra = w.extra
  PROVE  Less(v, w) <=> LexLess(v.numbers, w.numbers)
<1>1. Longer(v, w) = Len(v.numbers) /\ Longer(v, w) = Len(w.numbers)
  BY PartsOfVersion DEF Longer
<1>2. Resized(v.numbers, Longer(v, w)) = v.numbers
  BY <1>1, AsLong, PartsOfVersion
<1>3. Resized(w.numbers, Longer(v, w)) = w.numbers
  BY <1>1, AsLong, PartsOfVersion
<1>4. ~ExtraLess(v.extra, w.extra)
  BY PartsOfVersion DEF ExtraLess
<1> QED  BY <1>2, <1>3, <1>4 DEF Less

(* The number a carry ends at is the last one that is not full.             *)
LEMMA CarrierIs ==
  ASSUME NEW s \in Seq(Nat), NEW full, \E i \in DOMAIN s : s[i] # full
  PROVE  /\ Carrier(s, full) \in 1..Len(s) /\ s[Carrier(s, full)] # full
         /\ \A j \in (Carrier(s, full) + 1)..Len(s) : s[j] = full
<1> DEFINE T == {n \in 0..Len(s) : Len(s) - n \in 1..Len(s) /\ s[Len(s) - n] # full}
<1>1. PICK i \in 1..Len(s) : s[i] # full
  OBVIOUS
<1>2. Len(s) - i \in T
  BY <1>1
<1>3. PICK m \in T : \A k \in T : m <= k
  <2>1. T \subseteq Nat
    OBVIOUS
  <2>2. T # {}
    BY <1>2, Zenon
  <2> HIDE DEF T
  <2> QED  BY <2>1, <2>2, LeastNumber
<1> DEFINE c == Len(s) - m
<1>4. c \in 1..Len(s) /\ s[c] # full
  BY <1>3
<1>5. ASSUME NEW j \in (c + 1)..Len(s), s[j] # full PROVE FALSE
  <2>1. Len(s) \in Nat /\ m \in Nat /\ j \in Nat /\ j <= Len(s) /\ Len(s) - m < j
    BY <1>3, <1>4
  <2>2. Len(s) - (Len(s) - j) = j
    BY <2>1
  <2>3. Len(s) - j \in 0..Len(s) /\ j \in 1..Len(s)
    BY <2>1, <1>4
  <2>4. Len(s) - j \in T
    BY <1>5, <2>2, <2>3
  <2>5. Len(s) - j < m
    BY <2>1
  <2>6. m <= Len(s) - j
    BY <1>3, <2>4, Zenon
  <2> HIDE DEF T
  <2> QED  BY <2>1, <2>5, <2>6
<1>6. \E k \in DOMAIN s : s[k] # full /\ \A j \in (k + 1)..Len(s) : s[j] = full
  <2>1. DOMAIN s = 1..Len(s)
    OBVIOUS
  <2>2. \A j \in (c + 1)..Len(s) : s[j] = full
    BY <1>5
  <2> HIDE DEF c
  <2> QED  BY <1>4, <2>1, <2>2, Zenon
<1>7. /\ Carrier(s, full) \in DOMAIN s /\ s[Carrier(s, full)] # full
      /\ \A j \in (Carrier(s, full) + 1)..Len(s) : s[j] = full
  BY <1>6, Zenon DEF Carrier
<1> QED  BY <1>7

(* t follows s: one more at c, where s is full behind it and t starts anew. *)
Follows(s, t, c) ==
  /\ c \in 1..Len(s) /\ Len(t) = Len(s)
  /\ \A j \in 1..(c - 1) : s[j] = t[j]
  /\ t[c] = s[c] + 1
  /\ \A j \in (c + 1)..Len(s) : s[j] = MaxNumber /\ t[j] = 0

LEMMA FollowsMeans ==
  ASSUME NEW s \in Seq(Nat), NEW t \in Seq(Nat), NEW c, Follows(s, t, c)
  PROVE  /\ LexLess(s, t)
         /\ \A u \in Seq(Nat) : Len(u) = Len(s) /\ InRange(u) => ~(LexLess(s, u) /\ LexLess(u, t))
<1>1. LexLess(s, t)
  <2>1. c \in 1..Len(s) /\ \A j \in 1..(c - 1) : s[j] = t[j]
    BY DEF Follows
  <2>2. s[c] \in Nat /\ t[c] = s[c] + 1
    BY <2>1, NumbersAre DEF Follows
  <2>3. s[c] < t[c]
    BY <2>2
  <2> QED  BY <2>1, <2>3, Zenon DEF LexLess
<1>2. SUFFICES ASSUME NEW u \in Seq(Nat), Len(u) = Len(s), InRange(u), LexLess(s, u), LexLess(u, t)
               PROVE  FALSE
  BY <1>1
<1>3. PICK i \in 1..Len(s) : s[i] < u[i] /\ \A j \in 1..(i - 1) : s[j] = u[j]
  BY <1>2 DEF LexLess
<1>4. PICK k \in 1..Len(s) : u[k] < t[k] /\ \A j \in 1..(k - 1) : u[j] = t[j]
  BY <1>2 DEF LexLess
<1>5. /\ c \in Nat /\ MaxNumber \in Nat
      /\ \A j \in 1..Len(s) : s[j] \in Nat /\ u[j] \in Nat /\ t[j] \in Nat /\ u[j] <= MaxNumber
  <2>1. c \in 1..Len(s) /\ Len(t) = Len(s)
    BY DEF Follows
  <2>2. \A j \in 1..Len(s) : s[j] \in Nat /\ u[j] \in Nat /\ t[j] \in Nat
    BY <1>2, <2>1, NumbersAre
  <2>3. \A j \in 1..Len(s) : u[j] <= MaxNumber
    BY <1>2, NumbersAre DEF InRange
  <2> QED  BY <2>1, <2>2, <2>3, VersionAssumption
<1>6. i <= c /\ k <= c
  <2>1. \A j \in (c + 1)..Len(s) : s[j] = MaxNumber /\ t[j] = 0
    BY DEF Follows
  <2>2. ASSUME i \in (c + 1)..Len(s) PROVE FALSE
    <3>1. MaxNumber < u[i] /\ u[i] <= MaxNumber /\ u[i] \in Nat
      BY <1>3, <1>5, <2>1, <2>2
    <3> QED  BY <3>1, <1>5
  <2>3. ASSUME k \in (c + 1)..Len(s) PROVE FALSE
    <3>1. u[k] < 0 /\ u[k] \in Nat
      BY <1>4, <1>5, <2>1, <2>3
    <3> QED  BY <3>1
  <2> QED  BY <1>5, <2>2, <2>3
<1>7. CASE i < c
  <2>1. s[i] = t[i] /\ \A j \in 1..(i - 1) : s[j] = t[j]
    BY <1>7, <1>5 DEF Follows
  <2>2. CASE k < i
    <3>1. k \in 1..(i - 1)
      BY <2>2
    <3>2. s[k] = u[k] /\ s[k] = t[k]
      BY <2>1, <3>1, <1>3
    <3>3. u[k] < u[k]
      BY <3>2, <1>4
    <3> QED  BY <3>3, <1>5
  <2>3. CASE k = i
    <3>1. u[i] < s[i] /\ s[i] < u[i]
      BY <2>1, <2>3, <1>3, <1>4
    <3> QED  BY <3>1, <1>5
  <2>4. CASE i < k
    <3>1. i \in 1..(k - 1)
      BY <2>4
    <3>2. u[i] = s[i]
      BY <2>1, <3>1, <1>4
    <3>3. u[i] < u[i]
      BY <3>2, <1>3
    <3> QED  BY <3>3, <1>5
  <2> QED  BY <2>2, <2>3, <2>4
<1>8. CASE i = c
  <2>1. CASE k < c
    <3>1. k \in 1..(i - 1) /\ k \in 1..(c - 1)
      BY <1>8, <2>1, <1>5
    <3>2. s[k] = u[k] /\ s[k] = t[k]
      BY <3>1, <1>3 DEF Follows
    <3>3. u[k] < u[k]
      BY <3>2, <1>4
    <3> QED  BY <3>3, <1>5
  <2>2. CASE k = c
    <3>1. t[c] = s[c] + 1
      BY DEF Follows
    <3>2. s[c] < u[c] /\ u[c] < t[c]
      BY <1>8, <2>2, <1>3, <1>4
    <3>3. s[c] \in Nat /\ u[c] \in Nat
      BY <1>5, <1>8
    <3>4. \A a, b \in Nat : ~(a < b /\ b < a + 1)
      OBVIOUS
    <3> QED  BY <3>1, <3>2, <3>3, <3>4, Zenon
  <2> QED  BY <2>1, <2>2, <1>5, <1>6
<1> QED  BY <1>5, <1>6, <1>7, <1>8

LEMMA NothingBetween ==
  ASSUME NEW v \in VersionType, NEW w \in VersionType, NEW c,
         Level(v) = Level(w), v.extra = w.extra, Follows(v.numbers, w.numbers, c)
  PROVE  Less(v, w) /\ Between(v, w) = {}
<1>1. v.numbers \in Seq(Nat) /\ w.numbers \in Seq(Nat)
  BY PartsOfVersion
<1>2. Less(v, w)
  BY <1>1, FollowsMeans, LessIsLexLess
<1>3. ASSUME NEW u \in Versions, Level(u) = Level(v), u.extra = v.extra, Less(v, u), Less(u, w)
      PROVE  FALSE
  <2>1. PICK l \in 0..MaxLevel : u.numbers \in [1..l -> 0..MaxNumber]
    BY DEF Versions, Numbers
  <2>2. l \in Nat /\ MaxNumber \in Nat
    BY VersionAssumption
  <2>3. u.numbers \in Seq(Nat) /\ InRange(u.numbers)
    BY <2>1, <2>2 DEF InRange
  <2>4. u \in VersionType
    BY <2>3 DEF VersionType, Versions
  <2>5. LexLess(v.numbers, u.numbers) /\ LexLess(u.numbers, w.numbers)
    BY <1>3, <2>4, LessIsLexLess
  <2>6. Len(u.numbers) = Len(v.numbers)
    BY <1>3 DEF Level
  <2> QED  BY <1>1, <2>3, <2>5, <2>6, FollowsMeans
<1> QED  BY <1>2, <1>3 DEF Between

-----------------------------------------------------------------------------
(* What stepping does.                                                      *)
SteppedTo(s, t, c, full, empty, d) ==
  /\ t \in Seq(Nat) /\ Len(t) = Len(s) /\ c \in 1..Len(s)
  /\ \A j \in 1..(c - 1) : t[j] = s[j]
  /\ t[c] = s[c] + d /\ s[c] # full
  /\ \A j \in (c + 1)..Len(s) : s[j] = full /\ t[j] = empty

LEMMA SteppedIs ==
  ASSUME NEW s \in Seq(Nat), NEW full, NEW empty \in Nat, NEW d \in Int,
         \E i \in DOMAIN s : s[i] # full,
         \A i \in DOMAIN s : s[i] # full => s[i] + d \in Nat
  PROVE  SteppedTo(s, Stepped(s, full, empty, d), Carrier(s, full), full, empty, d)
<1> DEFINE c == Carrier(s, full)
           t == Stepped(s, full, empty, d)
<1>1. c \in 1..Len(s) /\ s[c] # full /\ \A j \in (c + 1)..Len(s) : s[j] = full
  BY CarrierIs
<1>2. t = [i \in 1..Len(s) |-> IF i < c THEN s[i] ELSE IF i = c THEN s[i] + d ELSE empty]
  BY DEF Stepped
<1> HIDE DEF c, t
<1>3. \A i \in 1..Len(s) : s[i] \in Nat
  BY NumbersAre
<1>4. s[c] + d \in Nat
  BY <1>1
<1>5. t \in [1..Len(s) -> Nat]
  BY <1>2, <1>3, <1>4
<1>6. t \in Seq(Nat) /\ Len(t) = Len(s)
  BY <1>5, NumbersAre, FunctionIsSeq
<1>7. Len(s) \in Nat /\ c \in Nat
  BY <1>1
<1>8. \A j \in 1..(c - 1) : t[j] = s[j]
  BY <1>1, <1>2, <1>7
<1>9. t[c] = s[c] + d
  BY <1>1, <1>2
<1>10. \A j \in (c + 1)..Len(s) : t[j] = empty
  BY <1>1, <1>2, <1>7
<1>11. SteppedTo(s, t, c, full, empty, d)
  BY <1>1, <1>6, <1>8, <1>9, <1>10 DEF SteppedTo
<1> QED  BY <1>11 DEF c, t

LEMMA SameAsMax ==
  ASSUME NEW v \in VersionType, Same(v, VersionMax)
  PROVE  /\ v.extra = None /\ Len(v.numbers) \in Nat \ {0} /\ v.numbers[1] = MaxNumber + 1
         /\ \A i \in 2..Len(v.numbers) : v.numbers[i] = 0
<1> DEFINE L == Longer(v, VersionMax)
<1>1. VersionMax.numbers = <<MaxNumber + 1>> /\ VersionMax.extra = None
  BY DEF VersionMax, Release
<1>2. v.numbers \in Seq(Nat) /\ Len(v.numbers) \in Nat
  BY PartsOfVersion
<1>3. L \in Nat /\ L >= 1 /\ L >= Len(v.numbers)
  BY <1>1, <1>2 DEF Longer
<1>4. v.extra = None /\ Resized(v.numbers, L) = Resized(<<MaxNumber + 1>>, L)
  BY <1>1 DEF Same
<1> HIDE DEF L
<1>5. <<MaxNumber + 1>> \in Seq(Nat)
  BY VersionAssumption
<1>6. \A i \in 1..L : (IF i <= Len(v.numbers) THEN v.numbers[i] ELSE 0)
                      = (IF i <= 1 THEN <<MaxNumber + 1>>[i] ELSE 0)
  <2>1. \A i \in 1..L : Resized(v.numbers, L)[i] = IF i <= Len(v.numbers) THEN v.numbers[i] ELSE 0
    BY <1>2, <1>3, ResizedIs
  <2>2. Len(<<MaxNumber + 1>>) = 1
    OBVIOUS
  <2>3. \A i \in 1..L : Resized(<<MaxNumber + 1>>, L)[i]
                          = IF i <= 1 THEN <<MaxNumber + 1>>[i] ELSE 0
    BY <1>3, <1>5, <2>2, ResizedIs
  <2>4. \A i \in 1..L : Resized(v.numbers, L)[i] = Resized(<<MaxNumber + 1>>, L)[i]
    BY <1>4
  <2> QED  BY <2>1, <2>3, <2>4
<1>7. Len(v.numbers) # 0 /\ v.numbers[1] = MaxNumber + 1
  <2>1. 1 \in 1..L /\ 1 <= 1 /\ <<MaxNumber + 1>>[1] = MaxNumber + 1 /\ MaxNumber + 1 # 0
    BY <1>3, VersionAssumption
  <2> QED  BY <1>2, <1>6, <2>1
<1>8. \A i \in 2..Len(v.numbers) : v.numbers[i] = 0
  BY <1>2, <1>3, <1>6
<1> QED  BY <1>2, <1>4, <1>7, <1>8

LEMMA MaxIsSame ==
  ASSUME NEW v \in VersionType, v.extra = None, Len(v.numbers) # 0,
         v.numbers[1] = MaxNumber + 1, \A i \in 2..Len(v.numbers) : v.numbers[i] = 0
  PROVE  Same(v, VersionMax)
<1> DEFINE L == Longer(v, VersionMax)
<1>1. VersionMax.numbers = <<MaxNumber + 1>> /\ VersionMax.extra = None
  BY DEF VersionMax, Release
<1>2. v.numbers \in Seq(Nat) /\ Len(v.numbers) \in Nat
  BY PartsOfVersion
<1>3. L = Len(v.numbers)
  BY <1>1, <1>2 DEF Longer
<1>4. Resized(v.numbers, L) = v.numbers
  BY <1>2, <1>3, AsLong
<1> HIDE DEF L
<1>5. <<MaxNumber + 1>> \in Seq(Nat) /\ Len(<<MaxNumber + 1>>) = 1 /\ <<MaxNumber + 1>>[1] = MaxNumber + 1
  BY VersionAssumption
<1> DEFINE t == Resized(<<MaxNumber + 1>>, L)
<1>6. t \in Seq(Nat) /\ Len(t) = L /\ \A i \in 1..L : t[i] = IF i <= 1 THEN <<MaxNumber + 1>>[i] ELSE 0
  BY <1>2, <1>3, <1>5, ResizedIs
<1> HIDE DEF t
<1>7. \A i \in 1..L : t[i] = v.numbers[i]
  <2> SUFFICES ASSUME NEW i \in 1..L PROVE t[i] = v.numbers[i]
    OBVIOUS
  <2>1. CASE i = 1
    BY <1>5, <1>6, <2>1
  <2>2. CASE i # 1
    BY <1>2, <1>3, <1>6, <2>2
  <2> QED  BY <2>1, <2>2
<1>8. t = v.numbers
  BY <1>2, <1>3, <1>6, <1>7
<1> QED  BY <1>1, <1>4, <1>8 DEF Same, L, t

-----------------------------------------------------------------------------
(* Each operation.                                                          *)
LEMMA IncrementedIs ==
  ASSUME NEW v \in VersionType, InRange(v.numbers), ~Same(v, VersionMax), CanIncrement(v)
  PROVE  /\ Incremented(v) \in VersionType /\ InRange(Incremented(v).numbers)
         /\ Level(Incremented(v)) = Level(v) /\ Incremented(v).extra = v.extra
         /\ Follows(v.numbers, Incremented(v).numbers, Carrier(v.numbers, MaxNumber))
<1> DEFINE s == v.numbers
           c == Carrier(s, MaxNumber)
           t == Stepped(s, MaxNumber, 0, 1)
<1>1. s \in Seq(Nat) /\ Len(s) \in Nat /\ \A i \in 1..Len(s) : s[i] \in Nat /\ s[i] <= MaxNumber
  BY PartsOfVersion, NumbersAre DEF InRange
<1>2. \E i \in DOMAIN s : s[i] # MaxNumber
  BY DEF CanIncrement
<1>3. \A i \in DOMAIN s : s[i] # MaxNumber => s[i] + 1 \in Nat
  BY <1>1
<1>4. Incremented(v) = [v EXCEPT !.numbers = t]
  BY DEF Incremented
<1>5. /\ t \in Seq(Nat) /\ Len(t) = Len(s) /\ c \in 1..Len(s)
      /\ \A j \in 1..(c - 1) : t[j] = s[j]
      /\ t[c] = s[c] + 1 /\ s[c] # MaxNumber
      /\ \A j \in (c + 1)..Len(s) : s[j] = MaxNumber /\ t[j] = 0
  <2>1. 1 \in Int /\ 0 \in Nat /\ \A i \in 1..Len(s) : s[i] + 1 \in Nat
    BY <1>1
  <2>2. SteppedTo(s, t, c, MaxNumber, 0, 1)
    BY <1>1, <1>2, <1>3, <2>1, SteppedIs, Zenon
  <2> HIDE DEF s, c, t
  <2> QED  BY <2>2 DEF SteppedTo
<1> HIDE DEF c, t
<1>6. Incremented(v) \in VersionType /\ Incremented(v).numbers = t /\ Incremented(v).extra = v.extra
  BY <1>4, <1>5 DEF VersionType
<1>7. \A i \in 1..Len(s) : t[i] <= MaxNumber
  <2> SUFFICES ASSUME NEW i \in 1..Len(s) PROVE t[i] <= MaxNumber
    OBVIOUS
  <2>1. MaxNumber \in Nat /\ c \in Nat
    BY <1>5, VersionAssumption
  <2>2. CASE i < c
    <3>1. i \in 1..(c - 1)
      BY <2>1, <2>2
    <3> QED  BY <1>1, <1>5, <3>1
  <2>3. CASE i = c
    BY <1>1, <1>5, <2>1, <2>3
  <2>4. CASE i > c
    BY <1>1, <1>5, <2>1, <2>4
  <2> QED  BY <2>1, <2>2, <2>3, <2>4
<1>8. InRange(t)
  BY <1>5, <1>7, NumbersAre DEF InRange
<1>9. Follows(s, t, c)
  BY <1>5 DEF Follows
<1> QED  BY <1>5, <1>6, <1>8, <1>9 DEF Level, c

LEMMA DecrementedIs ==
  ASSUME NEW v \in VersionType, InRange(v.numbers) \/ Same(v, VersionMax),
         ~Same(v, VersionMin), CanDecrement(v)
  PROVE  /\ Decremented(v) \in VersionType /\ InRange(Decremented(v).numbers)
         /\ Level(Decremented(v)) = Level(v) /\ Decremented(v).extra = v.extra
         /\ Follows(Decremented(v).numbers, v.numbers, Carrier(v.numbers, 0))
<1> DEFINE s == v.numbers
           c == Carrier(s, 0)
           t == Stepped(s, 0, MaxNumber, -1)
<1>1. s \in Seq(Nat) /\ Len(s) \in Nat /\ \A i \in 1..Len(s) : s[i] \in Nat
  BY PartsOfVersion, NumbersAre
<1>2. \E i \in DOMAIN s : s[i] # 0
  BY DEF CanDecrement
<1>3. \A i \in DOMAIN s : s[i] # 0 => s[i] + (-1) \in Nat
  BY <1>1
<1>4. Decremented(v) = [v EXCEPT !.numbers = t]
  BY DEF Decremented
<1>5. MaxNumber \in Nat /\ -1 \in Int
  BY VersionAssumption
<1>6. /\ t \in Seq(Nat) /\ Len(t) = Len(s) /\ c \in 1..Len(s)
      /\ \A j \in 1..(c - 1) : t[j] = s[j]
      /\ t[c] = s[c] + (-1) /\ s[c] # 0
      /\ \A j \in (c + 1)..Len(s) : s[j] = 0 /\ t[j] = MaxNumber
  <2>1. SteppedTo(s, t, c, 0, MaxNumber, -1)
    BY <1>1, <1>2, <1>3, <1>5, SteppedIs, Zenon
  <2> HIDE DEF s, c, t
  <2> QED  BY <2>1 DEF SteppedTo
<1> HIDE DEF c, t
<1>7. Decremented(v) \in VersionType /\ Decremented(v).numbers = t /\ Decremented(v).extra = v.extra
  BY <1>4, <1>6 DEF VersionType
<1>8. \A i \in 1..c : t[i] <= MaxNumber
  <2>1. CASE InRange(s)
    <3>1. \A i \in 1..Len(s) : s[i] <= MaxNumber
      BY <1>1, <2>1, NumbersAre DEF InRange
    <3>2. t[c] <= MaxNumber
      BY <1>1, <1>5, <1>6, <3>1
    <3>3. \A i \in 1..(c - 1) : t[i] <= MaxNumber
      BY <1>6, <3>1
    <3> QED  BY <1>6, <3>2, <3>3
  <2>2. CASE Same(v, VersionMax)
    <3>1. s[1] = MaxNumber + 1 /\ \A i \in 2..Len(s) : s[i] = 0
      BY <2>2, SameAsMax
    <3>2. c = 1
      BY <1>6, <3>1
    <3> QED  BY <1>5, <1>6, <3>1, <3>2
  <2> QED  BY <2>1, <2>2
<1>9. \A i \in 1..Len(s) : t[i] <= MaxNumber
  <2>1. \A i \in (c + 1)..Len(s) : t[i] <= MaxNumber
    BY <1>5, <1>6
  <2> QED  BY <1>6, <1>8, <2>1
<1>10. InRange(t)
  BY <1>6, <1>9, NumbersAre DEF InRange
<1>11. Follows(t, s, c)
  <2>1. s[c] = t[c] + 1
    BY <1>1, <1>6
  <2> QED  BY <1>6, <2>1 DEF Follows
<1> QED  BY <1>6, <1>7, <1>10, <1>11 DEF Level, c

LEMMA FirstVersionIs ==
  ASSUME NEW v \in VersionType, InRange(v.numbers) \/ Same(v, VersionMax)
  PROVE  /\ FirstVersion(v) \in VersionType
         /\ InRange(FirstVersion(v).numbers) \/ Same(FirstVersion(v), VersionMax)
<1> DEFINE n == IF Len(v.numbers) < DefaultLevel THEN DefaultLevel ELSE Len(v.numbers)
           s == Resized(v.numbers, n)
           t == IF \A i \in DOMAIN s : s[i] = 0 THEN [s EXCEPT ![Len(s)] = 1] ELSE s
<1>1. FirstVersion(v) = [v EXCEPT !.numbers = t]
  BY DEF FirstVersion
<1>2. v.numbers \in Seq(Nat) /\ Len(v.numbers) \in Nat
  BY PartsOfVersion
<1>3. n \in Nat /\ n >= 1 /\ n >= Len(v.numbers) /\ MaxNumber \in Nat \ {0}
  BY <1>2, VersionAssumption DEF DefaultLevel
<1> HIDE DEF n
<1>4. /\ s \in Seq(Nat) /\ Len(s) = n
      /\ \A i \in 1..n : s[i] = IF i <= Len(v.numbers) THEN v.numbers[i] ELSE 0
  BY <1>2, <1>3, ResizedIs
<1> HIDE DEF s
<1>5. s \in [1..n -> Nat]
  BY <1>4
<1>6. [s EXCEPT ![n] = 1] \in [1..n -> Nat]
  BY <1>5
<1>7. t \in Seq(Nat) /\ Len(t) = n
  BY <1>3, <1>4, <1>5, <1>6, FunctionIsSeq
<1>8. FirstVersion(v) \in VersionType /\ FirstVersion(v).numbers = t /\ FirstVersion(v).extra = v.extra
  <2> HIDE DEF t
  <2> QED  BY <1>1, <1>7 DEF VersionType
<1>9. CASE InRange(v.numbers)
  <2>1. \A i \in 1..n : s[i] <= MaxNumber
    BY <1>2, <1>3, <1>4, <1>9, NumbersAre DEF InRange
  <2>2. \A i \in 1..n : t[i] <= MaxNumber
    BY <1>3, <1>4, <1>5, <2>1
  <2> HIDE DEF t
  <2> QED  BY <1>7, <1>8, <2>2, NumbersAre DEF InRange
<1>10. CASE Same(v, VersionMax)
  <2>1. /\ v.extra = None /\ Len(v.numbers) # 0 /\ v.numbers[1] = MaxNumber + 1
        /\ \A i \in 2..Len(v.numbers) : v.numbers[i] = 0
    BY <1>10, SameAsMax
  <2>2. s[1] = MaxNumber + 1
    BY <1>2, <1>3, <1>4, <2>1
  <2>3. \A i \in 2..n : s[i] = 0
    BY <1>2, <1>3, <1>4, <2>1
  <2>4. t = s
    BY <1>3, <1>4, <2>2
  <2> HIDE DEF t
  <2> QED  BY <1>3, <1>4, <1>8, <2>1, <2>2, <2>3, <2>4, MaxIsSame
<1> QED  BY <1>8, <1>9, <1>10

(* What is left as it is, or nothing between.                               *)
LEMMA VersionSteps ==
  ASSUME VersionInv, VersionNext
  PROVE  VersionInv' /\ AdjacentStep
<1>1. CASE Increment
  <2>1. CASE ~CanIncrement(version) /\ outcome' = "undefined" /\ UNCHANGED version
    BY <2>1 DEF VersionInv, AdjacentStep
  <2>2. CASE CanIncrement(version) /\ version' = Incremented(version) /\ outcome' = "incremented"
    <3>1. CASE Same(version, VersionMax)
      <4>1. version' = version
        BY <2>2, <3>1 DEF Incremented
      <4> QED  BY <2>2, <3>1, <4>1 DEF VersionInv, AdjacentStep
    <3>2. CASE ~Same(version, VersionMax)
      <4>1. /\ version' \in VersionType /\ InRange(version'.numbers)
            /\ Level(version') = Level(version) /\ version'.extra = version.extra
            /\ Follows(version.numbers, version'.numbers, Carrier(version.numbers, MaxNumber))
        BY <2>2, <3>2, IncrementedIs DEF VersionInv
      <4>2. Less(version, version') /\ Between(version, version') = {}
        BY <4>1, NothingBetween DEF VersionInv
      <4> QED  BY <2>2, <4>1, <4>2 DEF VersionInv, AdjacentStep
    <3> QED  BY <3>1, <3>2
  <2> QED  BY <1>1, <2>1, <2>2 DEF Increment
<1>2. CASE Decrement
  <2>1. CASE ~CanDecrement(version) /\ outcome' = "undefined" /\ UNCHANGED version
    BY <2>1 DEF VersionInv, AdjacentStep
  <2>2. CASE CanDecrement(version) /\ version' = Decremented(version) /\ outcome' = "decremented"
    <3>1. CASE Same(version, VersionMin)
      <4>1. version' = version
        BY <2>2, <3>1 DEF Decremented
      <4> QED  BY <2>2, <3>1, <4>1 DEF VersionInv, AdjacentStep
    <3>2. CASE ~Same(version, VersionMin)
      <4>1. /\ version' \in VersionType /\ InRange(version'.numbers)
            /\ Level(version') = Level(version) /\ version'.extra = version.extra
            /\ Follows(version'.numbers, version.numbers, Carrier(version.numbers, 0))
        BY <2>2, <3>2, DecrementedIs DEF VersionInv
      <4>2. Less(version', version) /\ Between(version', version) = {}
        BY <4>1, NothingBetween DEF VersionInv
      <4> QED  BY <2>2, <4>1, <4>2 DEF VersionInv, AdjacentStep
    <3> QED  BY <3>1, <3>2
  <2> QED  BY <1>2, <2>1, <2>2 DEF Decrement
<1>3. CASE SetFirstVersion
  <2>1. version' = FirstVersion(version) /\ outcome' = "set"
    BY <1>3 DEF SetFirstVersion
  <2> QED  BY <2>1, FirstVersionIs DEF VersionInv, AdjacentStep
<1>4. CASE CheckValidity
  <2>1. UNCHANGED version /\ outcome' \in {"valid", "threw"}
    BY <1>4 DEF CheckValidity
  <2> QED  BY <2>1 DEF VersionInv, AdjacentStep
<1> QED  BY <1>1, <1>2, <1>3, <1>4 DEF VersionNext

LEMMA VersionStarts == ASSUME version \in Versions \union {VersionMax} PROVE VersionInv
<1>1. CASE version \in Versions
  <2>1. PICK l \in 0..MaxLevel : version.numbers \in [1..l -> 0..MaxNumber]
    BY <1>1 DEF Versions, Numbers
  <2>2. l \in Nat /\ MaxNumber \in Nat
    BY VersionAssumption
  <2>3. version.numbers \in Seq(Nat) /\ InRange(version.numbers)
    BY <2>1, <2>2 DEF InRange
  <2>4. version \in VersionType
    BY <1>1, <2>3 DEF VersionType, Versions
  <2> QED  BY <2>3, <2>4 DEF VersionInv
<1>2. CASE version = VersionMax
  <2>1. VersionMax.numbers = <<MaxNumber + 1>> /\ VersionMax.extra = None
    BY DEF VersionMax, Release
  <2>2. <<MaxNumber + 1>> \in Seq(Nat) /\ Len(<<MaxNumber + 1>>) = 1 /\ <<MaxNumber + 1>>[1] = MaxNumber + 1
    BY VersionAssumption
  <2>3. VersionMax \in VersionType
    BY <2>2 DEF VersionType, VersionMax, Release
  <2>4. Same(VersionMax, VersionMax)
    BY DEF Same
  <2> QED  BY <1>2, <2>3, <2>4 DEF VersionInv
<1> QED  BY <1>1, <1>2

LEMMA VersionMinIs == VersionMin \in Versions
<1>1. <<0>> \in [1..1 -> 0..MaxNumber] /\ 1 \in 0..MaxLevel
  BY VersionAssumption
<1>2. <<0>> \in Numbers
  BY <1>1 DEF Numbers
<1> QED  BY <1>2 DEF Versions, VersionMin, Release

-----------------------------------------------------------------------------
(* The order of versions: the numbers of a version go on with zeros.        *)
Positions == Nat \ {0}
NumbersAlike(v, w) == \A i \in Positions : Number(v, i) = Number(w, i)
NumbersBefore(v, w) == \E i \in Positions : /\ Number(v, i) < Number(w, i)
                                  /\ \A j \in 1..(i - 1) : Number(v, j) = Number(w, j)

LEMMA NumbersBeyond ==
  ASSUME NEW v \in VersionType
  PROVE  /\ \A i \in Positions : Number(v, i) \in Nat
         /\ \A i \in Positions : i > Len(v.numbers) => Number(v, i) = 0
<1>1. v.numbers \in Seq(Nat) /\ Len(v.numbers) \in Nat /\ \A i \in 1..Len(v.numbers) : v.numbers[i] \in Nat
  BY PartsOfVersion, NumbersAre
<1> QED  BY <1>1 DEF Number, Level, Positions

LEMMA ResizedNumbers ==
  ASSUME NEW v \in VersionType, NEW n \in Nat
  PROVE  /\ Resized(v.numbers, n) \in Seq(Nat) /\ Len(Resized(v.numbers, n)) = n
         /\ \A i \in 1..n : Resized(v.numbers, n)[i] = Number(v, i)
<1>1. v.numbers \in Seq(Nat) /\ Len(v.numbers) \in Nat
  BY PartsOfVersion
<1>2. \A i \in 1..n : (IF i <= Len(v.numbers) THEN v.numbers[i] ELSE 0) = Number(v, i)
  BY <1>1 DEF Number, Level
<1>3. /\ Resized(v.numbers, n) \in Seq(Nat) /\ Len(Resized(v.numbers, n)) = n
      /\ \A i \in 1..n :
           Resized(v.numbers, n)[i] = IF i <= Len(v.numbers) THEN v.numbers[i] ELSE 0
  BY <1>1, ResizedIs, Zenon
<1> QED  BY <1>2, <1>3

LEMMA ComparedByNumbers ==
  ASSUME NEW v \in VersionType, NEW w \in VersionType
  PROVE  /\ Same(v, w) <=> NumbersAlike(v, w) /\ v.extra = w.extra
         /\ Less(v, w) <=> NumbersBefore(v, w) \/ (NumbersAlike(v, w) /\ ExtraLess(v.extra, w.extra))
<1> DEFINE L == Longer(v, w)
           s == Resized(v.numbers, L)
           t == Resized(w.numbers, L)
<1>1. L \in Nat /\ L >= Len(v.numbers) /\ L >= Len(w.numbers)
  BY PartsOfVersion DEF Longer
<1>2. Len(v.numbers) \in Nat /\ Len(w.numbers) \in Nat
  BY PartsOfVersion
<1> HIDE DEF L
<1>3. s \in Seq(Nat) /\ Len(s) = L /\ \A i \in 1..L : s[i] = Number(v, i)
  BY <1>1, ResizedNumbers
<1>4. t \in Seq(Nat) /\ Len(t) = L /\ \A i \in 1..L : t[i] = Number(w, i)
  BY <1>1, ResizedNumbers
<1>5. \A i \in Positions : Number(v, i) \in Nat /\ Number(w, i) \in Nat
  BY NumbersBeyond
<1>6. \A i \in Positions : i \in 1..L \/ Number(v, i) = Number(w, i)
  <2> SUFFICES ASSUME NEW i \in Positions, ~(i \in 1..L) PROVE Number(v, i) = Number(w, i)
    OBVIOUS
  <2>1. i > Len(v.numbers) /\ i > Len(w.numbers)
    BY <1>1, <1>2 DEF Positions
  <2> QED  BY <2>1, NumbersBeyond
<1> HIDE DEF s, t
<1>7. 1..L \subseteq Positions
  BY <1>1 DEF Positions
<1>8. s = t <=> NumbersAlike(v, w)
  <2>1. ASSUME s = t PROVE NumbersAlike(v, w)
    BY <1>3, <1>4, <1>6, <2>1 DEF NumbersAlike
  <2>2. ASSUME NumbersAlike(v, w) PROVE s = t
    <3>1. \A i \in 1..L : s[i] = t[i]
      BY <1>3, <1>4, <1>7, <2>2 DEF NumbersAlike
    <3> QED  BY <1>3, <1>4, <3>1
  <2> QED  BY <2>1, <2>2
<1>9. LexLess(s, t) <=> NumbersBefore(v, w)
  <2>1. ASSUME LexLess(s, t) PROVE NumbersBefore(v, w)
    <3>1. PICK i \in 1..L : s[i] < t[i] /\ \A j \in 1..(i - 1) : s[j] = t[j]
      BY <1>3, <2>1 DEF LexLess
    <3>2. \A j \in 1..(i - 1) : j \in 1..L
      BY <1>1
    <3>3. i \in Positions /\ Number(v, i) < Number(w, i)
      BY <1>3, <1>4, <1>7, <3>1
    <3>4. \A j \in 1..(i - 1) : Number(v, j) = Number(w, j)
      BY <1>3, <1>4, <3>1, <3>2
    <3> QED  BY <3>3, <3>4 DEF NumbersBefore
  <2>2. ASSUME NumbersBefore(v, w) PROVE LexLess(s, t)
    <3>1. PICK i \in Positions : /\ Number(v, i) < Number(w, i)
                              /\ \A j \in 1..(i - 1) : Number(v, j) = Number(w, j)
      BY <2>2 DEF NumbersBefore
    <3>2. i \in 1..L
      BY <1>5, <1>6, <3>1
    <3>3. \A j \in 1..(i - 1) : j \in 1..L
      BY <1>1, <3>2
    <3>4. s[i] < t[i]
      BY <1>3, <1>4, <3>1, <3>2
    <3>5. \A j \in 1..(i - 1) : s[j] = t[j]
      BY <1>3, <1>4, <3>1, <3>3
    <3> QED  BY <1>3, <3>2, <3>4, <3>5 DEF LexLess
  <2> QED  BY <2>1, <2>2
<1>10. Same(v, w) <=> (s = t /\ v.extra = w.extra)
  BY DEF Same, s, t, L
<1>11. Less(v, w) <=> (LexLess(s, t) \/ (s = t /\ ExtraLess(v.extra, w.extra)))
  BY DEF Less, s, t, L
<1> QED  BY <1>8, <1>9, <1>10, <1>11

LEMMA NumbersOrder ==
  ASSUME NEW u \in VersionType, NEW v \in VersionType, NEW w \in VersionType
  PROVE  /\ NumbersAlike(u, v) \/ NumbersBefore(u, v) \/ NumbersBefore(v, u)
         /\ ~(NumbersAlike(u, v) /\ NumbersBefore(u, v)) /\ ~(NumbersBefore(u, v) /\ NumbersBefore(v, u))
         /\ NumbersBefore(u, v) /\ NumbersBefore(v, w) => NumbersBefore(u, w)
         /\ NumbersAlike(u, v) /\ NumbersBefore(v, w) => NumbersBefore(u, w)
         /\ NumbersBefore(u, v) /\ NumbersAlike(v, w) => NumbersBefore(u, w)
<1>1. \A i \in Positions : /\ Number(u, i) \in Nat /\ Number(v, i) \in Nat /\ Number(w, i) \in Nat
                        /\ i \in Nat /\ i >= 1 /\ \A j \in 1..(i - 1) : j \in Positions
  BY NumbersBeyond DEF Positions
<1>2. ASSUME ~NumbersAlike(u, v) PROVE NumbersBefore(u, v) \/ NumbersBefore(v, u)
  <2> DEFINE T == {i \in Positions : Number(u, i) # Number(v, i)}
  <2>1. T # {} /\ T \subseteq Nat
    BY <1>2, <1>1 DEF NumbersAlike
  <2>2. PICK m \in T : \A k \in T : m <= k
    <3> HIDE DEF T
    <3> QED  BY <2>1, LeastNumber
  <2>3. \A j \in 1..(m - 1) : Number(u, j) = Number(v, j)
    <3> SUFFICES ASSUME NEW j \in 1..(m - 1), Number(u, j) # Number(v, j) PROVE FALSE
      OBVIOUS
    <3>1. j \in T
      BY <1>1, <2>2
    <3>2. m <= j /\ m \in Nat
      BY <1>1, <2>2, <3>1
    <3> QED  BY <3>2
  <2>4. m \in Positions /\ (Number(u, m) < Number(v, m) \/ Number(v, m) < Number(u, m))
    BY <1>1, <2>2
  <2> QED  BY <2>3, <2>4 DEF NumbersBefore
<1>3. ~(NumbersAlike(u, v) /\ NumbersBefore(u, v))
  BY <1>1 DEF NumbersAlike, NumbersBefore
<1>4. ASSUME NumbersBefore(u, v), NumbersBefore(v, u) PROVE FALSE
  <2>1. PICK i \in Positions : Number(u, i) < Number(v, i) /\ \A j \in 1..(i - 1) : Number(u, j) = Number(v, j)
    BY <1>4 DEF NumbersBefore
  <2>2. PICK k \in Positions : Number(v, k) < Number(u, k) /\ \A j \in 1..(k - 1) : Number(v, j) = Number(u, j)
    BY <1>4 DEF NumbersBefore
  <2>3. i \in Nat /\ k \in Nat /\ i >= 1 /\ k >= 1
    BY <1>1
  <2>4. CASE i < k
    BY <1>1, <2>1, <2>2, <2>3, <2>4
  <2>5. CASE k < i
    BY <1>1, <2>1, <2>2, <2>3, <2>5
  <2>6. CASE i = k
    BY <1>1, <2>1, <2>2, <2>6
  <2> QED  BY <2>3, <2>4, <2>5, <2>6
<1>5. ASSUME NumbersBefore(u, v), NumbersBefore(v, w) PROVE NumbersBefore(u, w)
  <2>1. PICK i \in Positions : Number(u, i) < Number(v, i) /\ \A j \in 1..(i - 1) : Number(u, j) = Number(v, j)
    BY <1>5 DEF NumbersBefore
  <2>2. PICK k \in Positions : Number(v, k) < Number(w, k) /\ \A j \in 1..(k - 1) : Number(v, j) = Number(w, j)
    BY <1>5 DEF NumbersBefore
  <2>3. i \in Nat /\ k \in Nat /\ i >= 1 /\ k >= 1
    BY <1>1
  <2>4. CASE i < k
    <3>1. i \in 1..(k - 1) /\ \A j \in 1..(i - 1) : j \in 1..(k - 1)
      BY <2>3, <2>4
    <3>2. Number(u, i) < Number(w, i) /\ \A j \in 1..(i - 1) : Number(u, j) = Number(w, j)
      BY <2>1, <2>2, <3>1
    <3> QED  BY <3>2 DEF NumbersBefore
  <2>5. CASE k < i
    <3>1. k \in 1..(i - 1) /\ \A j \in 1..(k - 1) : j \in 1..(i - 1)
      BY <2>3, <2>5
    <3>2. Number(u, k) < Number(w, k) /\ \A j \in 1..(k - 1) : Number(u, j) = Number(w, j)
      BY <2>1, <2>2, <3>1
    <3> QED  BY <3>2 DEF NumbersBefore
  <2>6. CASE i = k
    <3>1. Number(u, i) < Number(w, i) /\ \A j \in 1..(i - 1) : Number(u, j) = Number(w, j)
      BY <1>1, <2>1, <2>2, <2>6
    <3> QED  BY <3>1 DEF NumbersBefore
  <2> QED  BY <2>3, <2>4, <2>5, <2>6
<1>6. ASSUME NumbersAlike(u, v), NumbersBefore(v, w) PROVE NumbersBefore(u, w)
  BY <1>1, <1>6 DEF NumbersAlike, NumbersBefore
<1>7. ASSUME NumbersBefore(u, v), NumbersAlike(v, w) PROVE NumbersBefore(u, w)
  BY <1>1, <1>7 DEF NumbersAlike, NumbersBefore
<1> QED  BY <1>2, <1>3, <1>4, <1>5, <1>6, <1>7

(* operator< and operator== order all versions, of any numbers of numbers:  *)
(* any two are the same or one comes first, never both ways, and what comes *)
(* before a version comes before all after it (version.cpp:280-317).        *)
THEOREM VersionsInOrder ==
  ASSUME NEW u \in VersionType, NEW v \in VersionType, NEW w \in VersionType
  PROVE  /\ Less(u, v) => ~Less(v, u)
         /\ Same(u, v) <=> ~Less(u, v) /\ ~Less(v, u)
         /\ Less(u, v) /\ Less(v, w) => Less(u, w)
         /\ Same(u, v) /\ Less(v, w) => Less(u, w)
         /\ Less(u, v) /\ Same(v, w) => Less(u, w)
<1>1. u.extra \in Nat /\ v.extra \in Nat /\ w.extra \in Nat
  BY PartsOfVersion
<1>2. /\ NumbersAlike(u, v) <=> NumbersAlike(v, u)
      /\ NumbersAlike(u, v) /\ NumbersAlike(v, w) => NumbersAlike(u, w)
  BY DEF NumbersAlike
<1>3. /\ ExtraLess(u.extra, v.extra) => ~ExtraLess(v.extra, u.extra)
      /\ u.extra = v.extra <=> ~ExtraLess(u.extra, v.extra) /\ ~ExtraLess(v.extra, u.extra)
      /\ ExtraLess(u.extra, v.extra) /\ ExtraLess(v.extra, w.extra) => ExtraLess(u.extra, w.extra)
  BY <1>1 DEF ExtraLess, None
<1>4. Less(u, v) => ~Less(v, u)
  BY <1>2, <1>3, NumbersOrder, ComparedByNumbers
<1>5. Same(u, v) <=> ~Less(u, v) /\ ~Less(v, u)
  BY <1>2, <1>3, NumbersOrder, ComparedByNumbers
<1>6. Less(u, v) /\ Less(v, w) => Less(u, w)
  BY <1>2, <1>3, NumbersOrder, ComparedByNumbers
<1>7. Same(u, v) /\ Less(v, w) => Less(u, w)
  BY <1>2, NumbersOrder, ComparedByNumbers
<1>8. Less(u, v) /\ Same(v, w) => Less(u, w)
  BY <1>2, NumbersOrder, ComparedByNumbers
<1> QED  BY <1>4, <1>5, <1>6, <1>7, <1>8

(* printVersion writes every number up to the last that is not zero, and at *)
(* least as many as it is asked for, so that what is read back is the same  *)
(* version, whichever level it is printed at (version.cpp:196-208).         *)
LEMMA PrintingLosesNothing ==
  ASSUME NEW v \in VersionType, NEW level \in Nat
  PROVE  Same(ReadBack(Printed(v, level), v.extra), v)
<1> DEFINE n == IF level > RealLevel(v) THEN level ELSE RealLevel(v)
           w == ReadBack(Printed(v, level), v.extra)
<1>1. v.numbers \in Seq(Nat) /\ Len(v.numbers) \in Nat /\ v.extra \in Extras \union {None}
  BY PartsOfVersion
<1>2. RealLevel(v) \in Nat /\ \A i \in Positions : i > RealLevel(v) => Number(v, i) = 0
  <2>1. CASE Valid(v)
    <3>1. \E i \in DOMAIN v.numbers : v.numbers[i] # 0
      BY <2>1 DEF Valid
    <3>2. RealLevel(v) = Carrier(v.numbers, 0)
      BY <2>1, Zenon DEF RealLevel, Carrier, Level
    <3>3. /\ RealLevel(v) \in 1..Len(v.numbers)
          /\ \A j \in (RealLevel(v) + 1)..Len(v.numbers) : v.numbers[j] = 0
      BY <1>1, <3>1, <3>2, CarrierIs
    <3> QED  BY <1>1, <3>3 DEF Number, Level, Positions
  <2>2. CASE ~Valid(v)
    <3>1. RealLevel(v) = 0
      BY <2>2 DEF RealLevel
    <3>2. \A i \in 1..Len(v.numbers) : v.numbers[i] = 0
      BY <1>1, <2>2, NumbersAre DEF Valid
    <3> QED  BY <1>1, <3>1, <3>2 DEF Number, Level, Positions
  <2> QED  BY <2>1, <2>2
<1>3. n \in Nat /\ n >= RealLevel(v)
  BY <1>2
<1>4. Printed(v, level) = Resized(v.numbers, n)
  BY DEF Printed
<1> HIDE DEF n
<1>5. /\ Printed(v, level) \in Seq(Nat) /\ Len(Printed(v, level)) = n
      /\ \A i \in 1..n : Printed(v, level)[i] = Number(v, i)
  BY <1>3, <1>4, ResizedNumbers
<1>6. w \in VersionType /\ w.numbers = Printed(v, level) /\ w.extra = v.extra
  BY <1>1, <1>5 DEF VersionType, ReadBack
<1> HIDE DEF w
<1>7. \A i \in Positions : Number(w, i) = Number(v, i)
  <2> SUFFICES ASSUME NEW i \in Positions PROVE Number(w, i) = Number(v, i)
    OBVIOUS
  <2>1. CASE i <= n
    <3>1. i \in 1..n
      BY <1>3, <2>1 DEF Positions
    <3> QED  BY <1>5, <1>6, <2>1, <3>1 DEF Number, Level
  <2>2. CASE i > n
    <3>1. i > RealLevel(v)
      BY <1>2, <1>3, <2>2 DEF Positions
    <3>2. Number(v, i) = 0
      BY <1>2, <3>1
    <3>3. Number(w, i) = 0
      BY <1>5, <1>6, <2>2 DEF Number, Level
    <3> QED  BY <3>2, <3>3
  <2> QED  BY <1>3, <2>1, <2>2 DEF Positions
<1>8. NumbersAlike(w, v)
  BY <1>7 DEF NumbersAlike
<1> QED  BY <1>6, <1>8, ComparedByNumbers DEF w

-----------------------------------------------------------------------------
(* Versions in every behaviour.                                             *)
LEMMA VersionAlone ==
  ASSUME VersionInv, [Next]_<<part, numbers, texts, records, configured, databases, wordsGiven>>
  PROVE  VersionInv' /\ [AdjacentStep]_versionVars
<1>1. VersionNext \/ UNCHANGED versionVars
  <2>1. VersionNext \/ UNCHANGED versionVars \/ UNCHANGED numbers
    BY Zenon DEF Next, OfNumbers, OfWords, OfTexts, OfRecords, OfSettings, OfDatabases
  <2> QED  BY <2>1 DEF numbers
<1>2. CASE VersionNext
  BY <1>2, VersionSteps
<1>3. CASE UNCHANGED versionVars
  BY <1>3 DEF VersionInv, versionVars
<1> QED  BY <1>1, <1>2, <1>3

LEMMA VersionsStart == ASSUME Init PROVE VersionInv
<1>1. version \in Versions \union {VersionMax}
  BY VersionMinIs DEF Init, VersionInit, VersionAtRest
<1> QED  BY <1>1, VersionStarts

(* ++ and -- go to the next version of the same level and to the one before *)
(* with nothing between, but at max() and min(), where they stay: for any   *)
(* numbers of numbers and any largest number (version.cpp:383-407).         *)
THEOREM StepsAlwaysAdjacent == Spec => StepsAreAdjacent
<1>1. Init => VersionInv
  BY VersionsStart
<1>2. /\ VersionInv /\ [Next]_<<part, numbers, texts, records, configured, databases, wordsGiven>> => VersionInv'
      /\ VersionInv /\ [Next]_<<part, numbers, texts, records, configured, databases, wordsGiven>>
           => [AdjacentStep]_versionVars
  BY VersionAlone
<1> QED  BY <1>1, <1>2, PTL DEF Spec, StepsAreAdjacent

(* Whatever was done to a version, what is printed of it at any level reads *)
(* back as the same version (version.cpp:196-208).                          *)
THEOREM PrintedAlwaysReadsBack == Spec => []PrintedReadsBack
<1>1. Init => VersionInv
  BY VersionsStart
<1>2. VersionInv /\ [Next]_<<part, numbers, texts, records, configured, databases, wordsGiven>> => VersionInv'
  BY VersionAlone
<1>3. VersionInv => PrintedReadsBack
  <2> SUFFICES ASSUME VersionInv, NEW level \in 1..(MaxLevel + 1)
               PROVE  Same(ReadBack(Printed(version, level), version.extra), version)
    BY DEF PrintedReadsBack
  <2>1. level \in Nat
    BY VersionAssumption
  <2> QED  BY <2>1, PrintingLosesNothing DEF VersionInv
<1> QED  BY <1>1, <1>2, <1>3, PTL DEF Spec
=============================================================================
