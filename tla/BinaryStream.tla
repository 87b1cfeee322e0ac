---------------------------- MODULE BinaryStream ----------------------------
(***************************************************************************)
(* struct BinaryStream (emitter.h): a stream over a vector of bytes, and a  *)
(* sub-stream that shares the vector.  Each keeps an index, an end and a    *)
(* raw pointer into it.  The index is that of data_offset too, but for a    *)
(* data_offset given to the constructor.                                    *)
(***************************************************************************)
EXTENDS Integers, Sequences

CONSTANTS Bytes,        (* the bytes considered, 0 among them                *)
          MaxBytes      (* bound: how far a stream reaches                   *)

ASSUME BinaryStreamAssumption == 0 \in Bytes /\ MaxBytes \in Nat

VARIABLES buffer,       (* *buf_                                             *)
          stream,       (* [whole, part: the two streams]                    *)
          live,         (* those there are                                   *)
          streamCall,   (* how the last call ended                           *)
          mishaps       (* what happened that the class does not guard       *)

streamVars == <<buffer, stream, live, streamCall, mishaps>>

Streams == {"whole", "part"}
Strings == UNION {[1..n -> Bytes] : n \in 0..MaxBytes}

(* ptr is buf_->data() + index_, stale once the vector has moved.           *)
Positioned(i, offset, end) ==
  [index |-> i, offset |-> offset, end |-> end, stale |-> FALSE]

BinaryStreamInit ==
  /\ buffer \in Strings
  /\ \E data_offset \in {0, 1} :
       stream = [o \in Streams |-> Positioned(0, data_offset, Len(buffer))]
  /\ live = {"whole"}
  /\ streamCall = "none"
  /\ mishaps = {}

Happened(what) == mishaps' = mishaps \union what
If(condition, what) == IF condition THEN {what} ELSE {}

StreamThrows(o) ==
  /\ o \in live
  /\ streamCall' = "threw"
  /\ UNCHANGED <<buffer, stream, live, mishaps>>

Runs(o) == o \in live /\ streamCall # "undefined"

(* skip: a move past the end is not noticed.                                *)
Moved(s, n) ==
  [s EXCEPT !.index = @ + n, !.offset = @ + n, !.stale = FALSE]

-----------------------------------------------------------------------------
(* Reading                                                                  *)

OutOfRange(s) == s.index >= s.end
TooMuchPlain(s, n, offset) == s.index + n > s.end
TooMuch(s, n, offset) == s.index + offset + n > s.end

(* _read: the end is the stream's, not the vector's.                        *)
ReadBytes(o, n, offset) ==
  LET s == stream[o] IN
  /\ Runs(o)
  /\ \/ /\ OutOfRange(s) \/ TooMuch(s, n, offset)
        /\ StreamThrows(o)
     \/ /\ ~(OutOfRange(s) \/ TooMuch(s, n, offset))
        /\ s.index + offset + n > Len(buffer)
        /\ streamCall' = "undefined"
        /\ UNCHANGED <<buffer, stream, live, mishaps>>
     \/ /\ ~(OutOfRange(s) \/ TooMuch(s, n, offset))
        /\ s.index + offset + n <= Len(buffer)
        /\ stream' = [stream EXCEPT ![o] = Moved(@, n + offset)]
        /\ streamCall' = "read"
        /\ UNCHANGED <<buffer, live, mishaps>>

(* read(std::string &): through the pointer, to the next 0, whatever the    *)
(* end of the stream.                                                       *)
Zeros(s) == {i \in (s.index + 1)..Len(buffer) : buffer[i] = 0}

ReadString(o) ==
  LET s == stream[o] IN
  /\ Runs(o)
  /\ \/ /\ s.stale \/ Zeros(s) = {}
        /\ streamCall' = "undefined"
        /\ Happened(If(~s.stale, "unterminated"))
        /\ UNCHANGED <<buffer, stream, live>>
     \/ /\ ~s.stale
        /\ \E z \in Zeros(s) :
             /\ \A i \in Zeros(s) : z <= i
             /\ stream' = [stream EXCEPT ![o] = Moved(@, z - s.index)]
             /\ Happened(If(z > s.end, "strayed"))
        /\ streamCall' = "read"
        /\ UNCHANGED <<buffer, live>>

-----------------------------------------------------------------------------
(* Writing                                                                  *)

(* resize: zeros are added, or the end is cut off.                          *)
BufferOf(n) == [i \in 1..n |-> IF i <= Len(buffer) THEN buffer[i] ELSE 0]
Overwritten(b, i, bytes) ==
  [k \in DOMAIN b |-> IF k \in (i + 1)..(i + Len(bytes)) THEN bytes[k - i] ELSE b[k]]

(* The vector may move when it grows; the other stream keeps its pointer.   *)
Others(o, moved) ==
  [p \in Streams |-> IF p # o /\ moved THEN [stream[p] EXCEPT !.stale = TRUE] ELSE stream[p]]

(* _write.  The comparison and the new size are this stream's: a sub-stream *)
(* that writes past its end sets the size of the vector by its own end.     *)
WriteBytes(o, bytes) ==
  LET s == stream[o]
      last == s.index + Len(bytes)
  IN
  /\ Runs(o) /\ last <= MaxBytes
  /\ \/ s.index > s.end /\ StreamThrows(o)
     \/ /\ s.index <= s.end /\ last <= s.end
        /\ IF last > Len(buffer)
           THEN streamCall' = "undefined" /\ UNCHANGED <<buffer, stream>>
           ELSE /\ buffer' = Overwritten(buffer, s.index, bytes)
                /\ stream' = [stream EXCEPT ![o] = Moved(@, Len(bytes))]
                /\ streamCall' = "written"
        /\ UNCHANGED <<live, mishaps>>
     \/ /\ s.index <= s.end /\ last > s.end
        /\ buffer' = Overwritten(BufferOf(last), s.index, bytes)
        /\ \E moved \in {last > Len(buffer), FALSE} :
             stream' = [Others(o, moved) EXCEPT
                          ![o] = Moved([@ EXCEPT !.end = last], Len(bytes))]
        /\ Happened(If(live = Streams, "grown") \union If(last < Len(buffer), "cut"))
        /\ streamCall' = "written"
        /\ UNCHANGED live

-----------------------------------------------------------------------------
(* Moving                                                                   *)

Strays(s) == s.index > s.end

Skip(o, n) ==
  LET s == Moved(stream[o], n) IN
  /\ Runs(o) /\ s.index \in 0..MaxBytes
  /\ stream' = [stream EXCEPT ![o] = s]
  /\ Happened(If(Strays(s), "strayed"))
  /\ streamCall' = "moved"
  /\ UNCHANGED <<buffer, live>>

(* seek: from the start of the vector, not of the sub-stream.               *)
Seek(o, n) ==
  LET s == Positioned(n, n, stream[o].end) IN
  /\ Runs(o)
  /\ stream' = [stream EXCEPT ![o] = s]
  /\ Happened(If(Strays(s), "strayed"))
  /\ streamCall' = "moved"
  /\ UNCHANGED <<buffer, live>>

(* BinaryStream(rhs, size): the next size bytes, which rhs skips.           *)
Sub(size) ==
  LET s == stream["whole"] IN
  /\ Runs("whole") /\ live = {"whole"} /\ s.index + size <= MaxBytes
  /\ stream' = [whole |-> Moved(s, size), part |-> [s EXCEPT !.end = s.index + size]]
  /\ live' = Streams
  /\ Happened(If(s.index + size > Len(buffer), "strayed"))
  /\ streamCall' = "made"
  /\ UNCHANGED buffer

(* BinaryStream(rhs, size, offset)                                          *)
SubAt(size, offset) ==
  /\ Runs("whole") /\ live = {"whole"} /\ offset + size <= MaxBytes
  /\ stream' = [stream EXCEPT !["part"] = Positioned(offset, offset, offset + size)]
  /\ live' = Streams
  /\ Happened(If(offset + size > Len(buffer), "strayed"))
  /\ streamCall' = "made"
  /\ UNCHANGED buffer

(* save: data_offset bytes from the start of the vector.                    *)
Save(o) ==
  /\ Runs(o)
  /\ streamCall' = IF stream[o].offset > Len(buffer) THEN "undefined" ELSE "saved"
  /\ Happened(If(stream[o].offset > stream[o].index, "offset"))
  /\ UNCHANGED <<buffer, stream, live>>

BinaryStreamNext ==
  \E o \in Streams :
    \/ \E n \in 1..2, offset \in 0..1 : ReadBytes(o, n, offset)
    \/ ReadString(o)
    \/ \E bytes \in Strings : bytes # <<>> /\ WriteBytes(o, bytes)
    \/ \E n \in -1..1 : Skip(o, n)
    \/ \E n \in 0..MaxBytes : Seek(o, n)
    \/ \E size \in 0..MaxBytes : Sub(size)
    \/ \E size, offset \in 0..MaxBytes : SubAt(size, offset)
    \/ Save(o)

-----------------------------------------------------------------------------
BinaryStreamTypeOK ==
  /\ buffer \in Strings
  /\ \A o \in Streams : stream[o].index \in 0..MaxBytes
  /\ streamCall \in {"none", "read", "written", "moved", "made", "saved", "threw", "undefined"}
  /\ mishaps \subseteq {"unterminated", "strayed", "grown", "cut", "offset"}

(* Two streams over one vector, used in any order, touch only bytes that    *)
(* are there, unless one was moved or made past its end, a string had no    *)
(* end, data_offset was given from outside, or one wrote past its end while *)
(* there were two; a write cuts bytes off only in that last case; and a     *)
(* stream alone always ends where the vector does (emitter.h:390-603).      *)
StreamsStayInside ==
  /\ streamCall = "undefined" => mishaps # {}
  /\ "cut" \in mishaps => "grown" \in mishaps
  /\ "grown" \notin mishaps => stream["whole"].end = Len(buffer)
  /\ mishaps = {} => \A o \in live : ~stream[o].stale /\ stream[o].end <= Len(buffer)
=============================================================================
