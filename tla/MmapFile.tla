------------------------------ MODULE MmapFile ------------------------------
(***************************************************************************)
(* mmap_file and its streams (mmap2.h): records in a file that is mapped    *)
(* into memory and doubled when it is full.  A writer appends records and   *)
(* fills them through the stream it is given; a reader of the same file     *)
(* takes them, at any time; the file may be closed and opened again.        *)
(*                                                                         *)
(* A position is a word of the file: a length takes one.                    *)
(***************************************************************************)
EXTENDS Integers, Sequences

CONSTANTS Sizes,        (* the sizes of records, in words                    *)
          MaxRecords,   (* bound: how many records are written               *)
          MaxOpens      (* bound: how often the file is opened               *)

ASSUME MmapFileAssumption ==
  Sizes \subseteq Nat /\ MaxRecords \in Nat /\ MaxOpens \in Nat

VARIABLES words,        (* the file, as it is mapped                         *)
          writer,       (* the stream that writes records                    *)
          record,       (* the stream of the last one                        *)
          unfilled,     (* how many of its words are still to be written     *)
          reader,       (* the stream that reads                             *)
          atEnd,        (* it found no record                                *)
          opened,       (* how often the file was opened                     *)
          recorded,     (* the records written, [offset, size]               *)
          got,          (* the records read since the file was opened        *)
          slips         (* what the format does not guard                    *)

mmapFileVars == <<words, writer, record, unfilled, reader, atEnd, opened,
                  recorded, got, slips>>

Filling == 1            (* a word of a record, which is also a good length   *)
Nowhere == -1           (* a stream that is at no place                      *)

MmapFileInit ==
  /\ words = <<>>
  /\ writer = 0 /\ record = Nowhere /\ unfilled = 0
  /\ reader = 0 /\ atEnd = FALSE /\ opened = 1
  /\ recorded = <<>> /\ got = <<>> /\ slips = {}

-----------------------------------------------------------------------------
(* The file                                                                 *)

HasRoom(w, offset, n) == offset + n <= Len(w)

(* alloc: twice the file and n more; the new words are zero.                *)
Allocated(w, n) ==
  LET size == IF w # <<>> THEN Len(w) * 2 + n ELSE n * 2
  IN  [i \in 1..size |-> IF i <= Len(w) THEN w[i] ELSE 0]

WithRoom(w, offset, n) == IF HasRoom(w, offset, n) THEN w ELSE Allocated(w, n)

(* operator<<: p[offset] = v.                                               *)
Put(w, offset, v) == [WithRoom(w, offset, 1) EXCEPT ![offset + 1] = v]

-----------------------------------------------------------------------------
(* write_record: room for the record, then its length, which may find none, *)
(* and the record begins after it.                                          *)
WriteRecord(size) ==
  /\ writer # Nowhere /\ Len(recorded) < MaxRecords
  /\ words' = Put(WithRoom(words, writer, size), writer, size)
  /\ record' = writer + 1
  /\ unfilled' = size
  /\ writer' = writer + 1 + size
  /\ recorded' = Append(recorded, [offset |-> writer + 1, size |-> size])
  /\ slips' = slips \union (IF size = 0 THEN {"empty"} ELSE {})
                    \union (IF unfilled > 0 THEN {"unfilled"} ELSE {})
  /\ UNCHANGED <<reader, atEnd, opened, got>>

(* << to the stream of the record.                                          *)
Fill ==
  /\ unfilled > 0
  /\ words' = Put(words, record, Filling)
  /\ record' = record + 1
  /\ unfilled' = unfilled - 1
  /\ UNCHANGED <<writer, reader, atEnd, opened, recorded, got, slips>>

-----------------------------------------------------------------------------
(* read_record: a length of 0 is the end, and the stream goes back to it;   *)
(* from a record longer than the file it does not.                          *)
Slipped == reader + 1
Stayed == reader

ReadRecord ==
  /\ HasRoom(words, reader, 1)
  /\ LET size == words[reader + 1] IN
     \/ /\ size = 0
        /\ reader' = Stayed
        /\ atEnd' = TRUE
        /\ UNCHANGED <<got, slips>>
     \/ /\ size # 0 /\ ~HasRoom(words, reader + 1, size)
        /\ reader' = Slipped
        /\ atEnd' = TRUE
        /\ slips' = slips \union {IF unfilled > 0 THEN "unfilled" ELSE "broken"}
        /\ UNCHANGED got
     \/ /\ size # 0 /\ HasRoom(words, reader + 1, size)
        /\ got' = Append(got, [offset |-> reader + 1, size |-> size])
        /\ reader' = reader + 1 + size
        /\ atEnd' = FALSE
        /\ UNCHANGED slips
  /\ UNCHANGED <<words, writer, record, unfilled, opened, recorded>>

NothingToRead ==
  /\ ~HasRoom(words, reader, 1)
  /\ ~atEnd
  /\ atEnd' = TRUE
  /\ UNCHANGED <<words, writer, record, unfilled, reader, opened, recorded, got, slips>>

-----------------------------------------------------------------------------
(* close, or a crash, and open: the pages stay.  The file is read from the  *)
(* start, and new records are written where the reader ends.                *)
Reopen ==
  /\ opened < MaxOpens /\ words # <<>>
  /\ opened' = opened + 1
  /\ reader' = 0 /\ atEnd' = FALSE /\ got' = <<>>
  /\ writer' = Nowhere /\ record' = Nowhere /\ unfilled' = 0
  /\ slips' = slips \union (IF unfilled > 0 THEN {"unfilled"} ELSE {})
  /\ UNCHANGED <<words, recorded>>

WriteFromHere ==
  /\ writer = Nowhere /\ atEnd
  /\ writer' = reader
  /\ UNCHANGED <<words, record, unfilled, reader, atEnd, opened, recorded, got, slips>>

MmapFileNext ==
  \/ \E size \in Sizes : WriteRecord(size)
  \/ Fill \/ ReadRecord \/ NothingToRead \/ Reopen \/ WriteFromHere

-----------------------------------------------------------------------------
MmapFileTypeOK ==
  /\ writer \in Nat \union {Nowhere} /\ reader \in Nat
  /\ unfilled \in Nat
  /\ slips \subseteq {"empty", "unfilled", "broken"}

Starts(s, t) == Len(s) <= Len(t) /\ s = SubSeq(t, 1, Len(s))

(* A reader gets the records that were written, whole, in order, none twice *)
(* and none made of the words of another, and finds the end only when it    *)
(* has them all, across any growth and reopening of the file -- but for an  *)
(* empty record, which is an end, and for a record that was not filled when *)
(* the reader came or the file was closed (mmap2.h:173-231).                *)
RecordsReadBack ==
  /\ slips = {} => Starts(got, recorded)
  /\ slips = {} /\ atEnd /\ reader = writer => got = recorded
  /\ "broken" \in slips => {"empty", "unfilled"} \intersect slips # {}
=============================================================================
