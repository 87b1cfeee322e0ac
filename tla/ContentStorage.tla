--------------------------- MODULE ContentStorage ---------------------------
(***************************************************************************)
(* file_storage over a directory of files named by their hash, or over one  *)
(* file of data with an index beside it (storage.h).  Programs open the     *)
(* storage, add files, and may end anywhere.  A content stands for its      *)
(* hash and has two halves; a record of the index is two words, the hash    *)
(* and where the content is.                                                *)
(***************************************************************************)
EXTENDS Integers, Sequences

CONSTANTS Contents,       (* what the added files hold                       *)
          Users,          (* programs that open the storage                  *)
          StorageCalls,   (* bound: calls of add, remove and copy            *)
          StorageOpens    (* bound: times the storage is opened              *)

ASSUME ContentStorageAssumption == StorageCalls \in Nat /\ StorageOpens \in Nat

VARIABLES layout,         (* "directory" or "single_file"                    *)
          dirFiles,       (* dirFiles[c]: the file named by the hash of c    *)
          data, index,    (* the contents of the single file and its index   *)
          user,           (* user[u]: what u does, with which content        *)
          position,       (* position[u]: ftell(f) of u                      *)
          seesNone,       (* seesNone[u]: ftell(fi) of u is 0                *)
          kept,           (* contents whose add has returned                 *)
          storageLeft,    (* [calls, opens: those left]                      *)
          storageMishaps  (* what the storage does not guard against         *)

storageVars == <<layout, dirFiles, data, index, user, position, seesNone, kept,
                 storageLeft, storageMishaps>>

Closed_ == [at |-> "closed", what |-> "nothing"]
Idle == [at |-> "idle", what |-> "nothing"]

StorageInit ==
  /\ layout \in {"directory", "single_file"}
  /\ dirFiles = [c \in Contents |-> "none"]
  /\ data = <<>> /\ index = <<>>
  /\ user = [u \in Users |-> Closed_]
  /\ position = [u \in Users |-> 0]
  /\ seesNone = [u \in Users |-> TRUE]
  /\ kept = {}
  /\ storageLeft = [calls |-> StorageCalls, opens |-> StorageOpens]
  /\ storageMishaps = {}

UserAt(u, s) == user[u].at = s
Proceeds(u, s) == user' = [user EXCEPT ![u].at = s]
Hits(what) == storageMishaps' = storageMishaps \union what
Files == <<dirFiles, data, index>>
Cursors == <<position, seesNone>>

OpenStorage(u) ==
  /\ UserAt(u, "closed") /\ storageLeft.opens > 0
  /\ user' = [user EXCEPT ![u] = Idle]
  /\ position' = [position EXCEPT ![u] = Len(data)]
  /\ seesNone' = [seesNone EXCEPT ![u] = index = <<>>]
  /\ storageLeft' = [storageLeft EXCEPT !.opens = @ - 1]
  /\ Hits({"shared" : v \in {v \in Users : user[v].at # "closed"}})
  /\ UNCHANGED <<layout, kept>> /\ UNCHANGED Files

(* The program ends: what it had written stays.                             *)
EndStorage(u) ==
  /\ ~UserAt(u, "closed")
  /\ user' = [user EXCEPT ![u] = Closed_]
  /\ Hits(IF UserAt(u, "copying") THEN {"torn"} ELSE {})
  /\ UNCHANGED <<layout, kept, storageLeft>> /\ UNCHANGED Files /\ UNCHANGED Cursors

-----------------------------------------------------------------------------
(* contains                                                                 *)

(* A variant that is wrong: the position is taken after the data is written.*)
WordsBehind(c, pos) == <<[hash |-> c], [pos |-> pos + 2]>>

Words(c, pos) == <<[hash |-> c], [pos |-> pos]>>
Halves(c) == <<<<c, 1>>, <<c, 2>>>>

(* The index is read record by record, until an offset that is its length.  *)
Records(c) == {i \in 1..Len(index) : i % 2 = 1 /\ index[i] = [hash |-> c]}
Aligned == Len(index) % 2 = 0

Contains(u, c) ==
  IF layout = "directory" THEN dirFiles[c] # "none"
  ELSE ~seesNone[u] /\ Records(c) # {}
Endless(u, c) ==
  layout = "single_file" /\ ~seesNone[u] /\ Records(c) = {} /\ ~Aligned

Returns(u, c) ==
  /\ user' = [user EXCEPT ![u] = Idle]
  /\ kept' = kept \union {c}

(* add: nothing is done for a content that is there.                        *)
AddContent(u, c) ==
  /\ UserAt(u, "idle") /\ storageLeft.calls > 0
  /\ storageLeft' = [storageLeft EXCEPT !.calls = @ - 1]
  /\ \/ Contains(u, c) /\ Returns(u, c)
     \/ /\ Endless(u, c)
        /\ user' = [user EXCEPT ![u] = [at |-> "endless", what |-> c]]
        /\ UNCHANGED kept
     \/ /\ ~Contains(u, c) /\ ~Endless(u, c)
        /\ user' = [user EXCEPT ![u] =
             [at |-> IF layout = "directory" THEN "absent" ELSE "data", what |-> c]]
        /\ UNCHANGED kept
  /\ UNCHANGED <<layout, storageMishaps>> /\ UNCHANGED Files /\ UNCHANGED Cursors

-----------------------------------------------------------------------------
(* The directory                                                            *)

(* add of the directory asks again, and copy_file refuses a file that has   *)
(* come meanwhile.                                                          *)
AskAgain(u) ==
  /\ UserAt(u, "absent")
  /\ \/ /\ dirFiles[user[u].what] # "none" /\ Returns(u, user[u].what)
     \/ /\ dirFiles[user[u].what] = "none" /\ Proceeds(u, "copy") /\ UNCHANGED kept
  /\ UNCHANGED <<layout, storageLeft, storageMishaps>> /\ UNCHANGED Files /\ UNCHANGED Cursors

StartCopy(u) ==
  /\ UserAt(u, "copy")
  /\ IF dirFiles[user[u].what] = "none"
     THEN dirFiles' = [dirFiles EXCEPT ![user[u].what] = "part"] /\ Proceeds(u, "copying")
     ELSE user' = [user EXCEPT ![u] = Idle] /\ UNCHANGED dirFiles
  /\ UNCHANGED <<layout, data, index, kept, storageLeft, storageMishaps>> /\ UNCHANGED Cursors

(* A file removed meanwhile is filled without a name.  A copy that fails    *)
(* throws, and leaves what it has copied.                                   *)
FinishCopy(u) ==
  /\ \/ /\ UserAt(u, "copying")
        /\ dirFiles' = [dirFiles EXCEPT ![user[u].what] = "whole"]
        /\ Returns(u, user[u].what)
     \/ /\ UserAt(u, "filling")
        /\ user' = [user EXCEPT ![u] = Idle]
        /\ UNCHANGED <<dirFiles, kept>>
  /\ UNCHANGED <<layout, data, index, storageLeft, storageMishaps>> /\ UNCHANGED Cursors

FailCopy(u) ==
  /\ UserAt(u, "copying")
  /\ user' = [user EXCEPT ![u] = Idle]
  /\ Hits({"torn"})
  /\ UNCHANGED <<layout, kept, storageLeft>> /\ UNCHANGED Files /\ UNCHANGED Cursors

RemoveContent(u, c) ==
  /\ UserAt(u, "idle") /\ storageLeft.calls > 0
  /\ storageLeft' = [storageLeft EXCEPT !.calls = @ - 1]
  /\ \/ /\ layout = "directory"
        /\ dirFiles' = [dirFiles EXCEPT ![c] = "none"]
        /\ user' = [v \in Users |-> IF user[v] = [at |-> "copying", what |-> c]
                                   THEN [at |-> "filling", what |-> c] ELSE user[v]]
        /\ kept' = kept \ {c}
     \/ layout = "single_file" /\ UNCHANGED <<dirFiles, user, kept>>
  /\ UNCHANGED <<layout, data, index, storageMishaps>> /\ UNCHANGED Cursors

-----------------------------------------------------------------------------
(* The single file                                                          *)

(* Both files are opened for appending: a write goes to the end of the      *)
(* file, wherever ftell says that is.  A write may be cut short, by a full  *)
(* disk, which add does not notice, or by the end of the program.           *)
Some(s) == {SubSeq(s, 1, n) : n \in 0..Len(s)}

WriteData(u) ==
  /\ UserAt(u, "data")
  /\ \E written \in Some(Halves(user[u].what)), ends \in BOOLEAN :
       /\ data' = data \o written
       /\ \/ ends /\ user' = [user EXCEPT ![u] = Closed_]
          \/ ~ends /\ user' = [user EXCEPT ![u] =
                                 [at |-> "index", what |-> @.what, pos |-> position[u]]]
       /\ Hits(IF ends \/ Len(written) = 2 THEN {} ELSE {"full"})
       /\ \E p \in {position[u] + Len(written), Len(data')} :
            position' = [position EXCEPT ![u] = p]
  /\ UNCHANGED <<layout, dirFiles, index, seesNone, kept, storageLeft>>

WriteIndex(u) ==
  /\ UserAt(u, "index")
  /\ \E written \in Some(Words(user[u].what, user[u].pos)), ends \in BOOLEAN :
       /\ index' = index \o written
       /\ \/ /\ ends
             /\ user' = [user EXCEPT ![u] = Closed_]
             /\ UNCHANGED kept
          \/ ~ends /\ Returns(u, user[u].what)
       /\ Hits(CASE Len(written) = 1 -> {"torn"}
                 [] Len(written) = 0 /\ ~ends -> {"full"}
                 [] OTHER -> {})
  /\ seesNone' = [seesNone EXCEPT ![u] = FALSE]
  /\ UNCHANGED <<layout, dirFiles, data, position, storageLeft>>

(* copy of an element: leaves ftell(f) at the end of the file.              *)
CopyOut(u) ==
  /\ UserAt(u, "idle") /\ layout = "single_file" /\ storageLeft.calls > 0
  /\ ~seesNone[u]
  /\ position' = [position EXCEPT ![u] = Len(data)]
  /\ storageLeft' = [storageLeft EXCEPT !.calls = @ - 1]
  /\ UNCHANGED <<layout, user, seesNone, kept, storageMishaps>> /\ UNCHANGED Files

StorageNext ==
  \E u \in Users :
    \/ OpenStorage(u) \/ EndStorage(u)
    \/ \E c \in Contents : AddContent(u, c) \/ RemoveContent(u, c)
    \/ AskAgain(u) \/ StartCopy(u) \/ FinishCopy(u) \/ FailCopy(u)
    \/ WriteData(u) \/ WriteIndex(u) \/ CopyOut(u)

-----------------------------------------------------------------------------
StorageTypeOK ==
  /\ dirFiles \in [Contents -> {"none", "part", "whole"}]
  /\ \A u \in Users : user[u].at \in
       {"closed", "idle", "absent", "copy", "copying", "filling", "data", "index", "endless"}
  /\ kept \subseteq Contents
  /\ storageMishaps \subseteq {"shared", "torn", "full"}

(* The single file: the record at word i leads to c.                        *)
LeadsTo(i, c) ==
  index[i + 1].pos + 2 <= Len(data) /\
  SubSeq(data, index[i + 1].pos + 1, index[i + 1].pos + 2) = Halves(c)

(* What add has returned the hash of is there, whole, and comes back as it  *)
(* was, whoever ended in the middle of what since: in a directory, unless a *)
(* copied file was cut off, or another program is still copying it; in a    *)
(* single file, unless two programs had it open, a write failed, or a       *)
(* record was cut off.  A search ends unless a record was cut off           *)
(* (storage.h:25-36, 109-173).                                              *)
KeptIsThere ==
  /\ layout = "directory" /\ "torn" \notin storageMishaps =>
       \A c \in kept :
         dirFiles[c] = "whole" \/ \E u \in Users : user[u] = [at |-> "copying", what |-> c]
  /\ layout = "single_file" /\ storageMishaps = {} =>
       \A c \in kept :
         Aligned /\ Records(c) # {} /\ \A i \in Records(c) : LeadsTo(i, c)
  /\ "torn" \notin storageMishaps => Aligned /\ \A u \in Users : ~UserAt(u, "endless")
=============================================================================
