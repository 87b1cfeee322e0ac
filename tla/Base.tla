-------------------------------- MODULE Base --------------------------------
(***************************************************************************)
(* base_raw (base64.h): bytes written as symbols of 4, 5 or 6 bits (base16, *)
(* base32, base64), one byte and one symbol at a time, in blocks whose last *)
(* one is filled up with padding.  A symbol is the number it stands for.    *)
(***************************************************************************)
EXTENDS Integers, Sequences, FiniteSets

CONSTANTS Octets,       (* the bytes written, 0 to 255                       *)
          MaxOctets     (* bound: how many                                   *)

ASSUME BaseAssumption == Octets \subseteq 0..255 /\ MaxOctets \in Nat

VARIABLES nBits,        (* the bits of a symbol                              *)
          octets,       (* the bytes to encode                               *)
          block,        (* data: those, or the symbols, of the open block    *)
          encoded,      (* the symbols written                               *)
          read,         (* how many of them the decoder was given             *)
          decoded,      (* the bytes it made of them                         *)
          coding        (* "encode", "decode", "ended" or "thrown"           *)

baseVars == <<nBits, octets, block, encoded, read, decoded, coding>>

Padding == -1
ByteBits == 8

(* decoded_block_size and encoded_block_size: the least whole number of     *)
(* bytes that is a whole number of symbols.                                 *)
DecodedBlock == CHOOSE n \in 1..nBits : /\ (n * ByteBits) % nBits = 0
                                        /\ \A m \in 1..n - 1 : (m * ByteBits) % nBits # 0
EncodedBlock == (DecodedBlock * ByteBits) \div nBits

BaseInit ==
  /\ nBits \in {4, 5, 6}
  /\ octets = <<>> /\ block = <<>> /\ encoded = <<>>
  /\ read = 0 /\ decoded = <<>> /\ coding = "encode"

-----------------------------------------------------------------------------
(* get_bits: a symbol lies in one byte or in two.                           *)
OneByte(b, start) ==
  (b[start \div 8 + 1] \div 2 ^ (8 - (start % 8) - nBits)) % 2 ^ nBits
TwoBytes(b, start) ==
  LET bits1 == 8 - (start % 8)
      bits2 == nBits - bits1
  IN  (b[start \div 8 + 1] % 2 ^ bits1) * 2 ^ bits2 + (b[start \div 8 + 2] \div 2 ^ (8 - bits2))
GetBits(b, start) ==
  IF start \div 8 = (start + nBits - 1) \div 8 THEN OneByte(b, start) ELSE TwoBytes(b, start)

(* finish: the bytes that are missing are 0, and symbols that hold none of  *)
(* the others are padding.                                                  *)
Filled(b, n, value) == [i \in 1..n |-> IF i <= Len(b) THEN b[i] ELSE value]
SymbolFits(b, i) == i * nBits <= Len(b) * ByteBits
SymbolHolds(b, i) == (i - 1) * nBits < Len(b) * ByteBits
Encoding(b) ==
  [i \in 1..EncodedBlock |->
     IF SymbolHolds(b, i) THEN GetBits(Filled(b, DecodedBlock, 0), (i - 1) * nBits) ELSE Padding]

(* encode: the next byte, and the block when it is full.                    *)
EncodeByte(c) ==
  /\ coding = "encode" /\ Len(octets) < MaxOctets
  /\ octets' = Append(octets, c)
  /\ LET b == Append(block, c) IN
     IF Len(b) = DecodedBlock THEN block' = <<>> /\ encoded' = encoded \o Encoding(b)
                              ELSE block' = b /\ UNCHANGED encoded
  /\ UNCHANGED <<nBits, read, decoded, coding>>

FinishEncoding ==
  /\ coding = "encode"
  /\ encoded' = IF block = <<>> THEN encoded ELSE encoded \o Encoding(block)
  /\ block' = <<>>
  /\ coding' = "decode"
  /\ UNCHANGED <<nBits, octets, read, decoded>>

-----------------------------------------------------------------------------
(* set_bits: the bits of a symbol, padding being 0, in one byte or in two   *)
(* of the block.                                                            *)
ValueOf(s) == IF s = Padding THEN 0 ELSE s
InOneByte(start) == start \div 8 = (start + nBits) \div 8
SetInto(s, start, byte) ==
  LET bits1 == 8 - (start % 8)
      bits2 == nBits - bits1
  IN  CASE byte = start \div 8 /\ InOneByte(start) -> ValueOf(s) * 2 ^ (bits1 - nBits)
        [] byte = start \div 8 /\ ~InOneByte(start) -> ValueOf(s) \div 2 ^ bits2
        [] byte # start \div 8 /\ ~InOneByte(start) /\ byte = start \div 8 + 1 ->
             (ValueOf(s) * 2 ^ (8 - bits2)) % 256
        [] OTHER -> 0

DecodedByte(b, byte) ==
  LET Sum[i \in 0..EncodedBlock] ==
        IF i = 0 THEN 0 ELSE Sum[i - 1] + SetInto(b[i], (i - 1) * nBits, byte)
  IN  Sum[EncodedBlock]

(* finish: outsz is one less for each padding; the output is cut there, and *)
(* cannot be cut before its start.                                          *)
Paddings(b) == {i \in 1..EncodedBlock : b[i] = Padding}
OutSize(b) == DecodedBlock - Cardinality(Paddings(b))
Decoding(out, b) ==
  SubSeq(out \o [i \in 1..DecodedBlock |-> DecodedByte(b, i - 1)], 1, Len(out) + OutSize(b))

DecodeSymbol ==
  /\ coding = "decode" /\ read < Len(encoded)
  /\ read' = read + 1
  /\ LET b == Append(block, encoded[read + 1]) IN
     IF Len(b) < EncodedBlock THEN block' = b /\ UNCHANGED <<decoded, coding>>
     ELSE IF Len(decoded) + OutSize(b) < 0
     THEN coding' = "thrown" /\ UNCHANGED <<block, decoded>>
     ELSE block' = <<>> /\ decoded' = Decoding(decoded, b) /\ UNCHANGED coding
  /\ UNCHANGED <<nBits, octets, encoded>>

FinishDecoding ==
  /\ coding = "decode" /\ read = Len(encoded)
  /\ coding' = "ended"
  /\ UNCHANGED <<nBits, octets, block, encoded, read, decoded>>

BaseNext ==
  \/ \E c \in Octets : EncodeByte(c)
  \/ FinishEncoding \/ DecodeSymbol \/ FinishDecoding

-----------------------------------------------------------------------------
(* RFC 4648, which the file names: the bits of the bytes, the first of a    *)
(* byte being its highest, cut into symbols after zeros are added.          *)
Bit(i) == IF i \div 8 < Len(octets) THEN (octets[i \div 8 + 1] \div 2 ^ (7 - (i % 8))) % 2 ELSE 0
SymbolAt(start) ==
  LET Value[k \in 0..nBits] == IF k = 0 THEN 0 ELSE 2 * Value[k - 1] + Bit(start + k - 1)
  IN  Value[nBits]
Blocks == (Len(octets) + DecodedBlock - 1) \div DecodedBlock
Standard ==
  [i \in 1..Blocks * EncodedBlock |->
     IF (i - 1) * nBits < Len(octets) * ByteBits THEN SymbolAt((i - 1) * nBits) ELSE Padding]

BaseTypeOK ==
  /\ coding \in {"encode", "decode", "ended", "thrown"}
  /\ Len(block) < EncodedBlock
  /\ \A i \in 1..Len(encoded) : encoded[i] \in 0..2 ^ nBits - 1 \union {Padding}
  /\ \A i \in 1..Len(decoded) : decoded[i] \in 0..255

(* Bytes are encoded as the standard says and decoded as they were, except  *)
(* that the decoder takes one byte off for every padding: with symbols of 5 *)
(* bits, of which a byte may take two, it loses bytes from the second       *)
(* padding on, and throws for a single byte (base64.h:91-98).               *)
BytesReadBack ==
  LET last == Len(octets) % DecodedBlock
      several == nBits = 5 /\ last \in 1..3
  IN  /\ coding # "encode" => encoded = Standard
      /\ coding = "ended" /\ ~several => decoded = octets
      /\ coding = "ended" /\ several =>
           /\ Len(decoded) < Len(octets)
           /\ decoded = SubSeq(octets, 1, Len(decoded))
      /\ coding = "thrown" => nBits = 5 /\ Len(octets) = 1
=============================================================================
