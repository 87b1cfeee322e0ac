-------------------------------- MODULE Csv --------------------------------
(***************************************************************************)
(* The parser of one line of separated values (csv.h): columns that are     *)
(* absent, bare or quoted, with the delimeter inside quotes and a quote     *)
(* after an escape, which may be a backslash or the quote itself.           *)
(***************************************************************************)
EXTENDS Integers, Sequences

CONSTANTS MaxText       (* bound: the characters of a line                   *)

ASSUME CsvAssumption == MaxText \in Nat

VARIABLES csvText,      (* the line                                          *)
          escapeIs,     (* "backslash", or "quote": the quote is the escape  *)
          p,            (* the place of sym                                  *)
          sym,          (* the token there                                   *)
          buf,          (* the column being read                             *)
          cols,         (* the columns read                                  *)
          parsing       (* the rule the parser is in                         *)

csvVars == <<csvText, escapeIs, p, sym, buf, cols, parsing>>

Characters == {"letter", "delimeter", "quote", "backslash"}
Absent == "absent"      (* std::nullopt                                      *)

CsvEnded == {"parsed", "thrown"}

-----------------------------------------------------------------------------
(* nextsym1: what the character at a place means.  The quote is looked for  *)
(* before the escape.                                                       *)
TokenAt(t, i) ==
  IF i > Len(t) THEN "Eol"
  ELSE CASE t[i] = "delimeter" -> "Delimeter"
         [] t[i] = "quote" -> "Quote"
         [] t[i] = "backslash" /\ escapeIs = "backslash" -> "Escape"
         [] OTHER -> "Character"

CsvInit ==
  /\ csvText \in UNION {[1..n -> Characters] : n \in 0..MaxText}
  /\ escapeIs \in {"backslash", "quote"}
  /\ p = 1 /\ sym = TokenAt(csvText, 1)
  /\ buf = <<>> /\ cols = <<>> /\ parsing = "field"

NextSym(i) == p' = p + i /\ sym' = TokenAt(csvText, p + i)
Throw == parsing' = "thrown" /\ UNCHANGED <<p, sym, buf, cols>>

(* field: a quote begins a quoted field.                                    *)
Field ==
  /\ parsing = "field"
  /\ buf' = <<>>
  /\ IF sym = "Quote" THEN NextSym(1) /\ parsing' = "quoted"
                      ELSE parsing' = "normal" /\ UNCHANGED <<p, sym>>
  /\ UNCHANGED <<csvText, escapeIs, cols>>

Take(i) == buf' = Append(buf, csvText[p + i - 1]) /\ NextSym(i)

(* normal_field: a field without characters is no field.                    *)
NormalField ==
  /\ parsing = "normal"
  /\ \/ sym = "Character" /\ Take(1) /\ UNCHANGED <<cols, parsing>>
     \/ /\ sym # "Character"
        /\ cols' = Append(cols, IF buf # <<>> THEN buf ELSE Absent)
        /\ parsing' = "fields"
        /\ UNCHANGED <<p, sym, buf>>
  /\ UNCHANGED <<csvText, escapeIs>>

(* accept_quoted_symbol: an escape before a quote.                          *)
QuotedSymbol ==
  /\ sym = IF escapeIs = "quote" THEN "Quote" ELSE "Escape"
  /\ TokenAt(csvText, p + 1) = "Quote"
QuotedSymbolAlways == sym = IF escapeIs = "quote" THEN "Quote" ELSE "Escape"
EscapedQuote == QuotedSymbol

(* quoted_field, and the quote expected after it.                           *)
QuotedField ==
  /\ parsing = "quoted"
  /\ \/ sym \in {"Character", "Delimeter"} /\ Take(1) /\ UNCHANGED <<cols, parsing>>
     \/ EscapedQuote /\ Take(2) /\ UNCHANGED <<cols, parsing>>
     \/ /\ sym \notin {"Character", "Delimeter"} /\ ~EscapedQuote /\ sym = "Quote"
        /\ cols' = Append(cols, buf)
        /\ NextSym(1)
        /\ parsing' = "fields"
        /\ UNCHANGED buf
     \/ sym \notin {"Character", "Delimeter", "Quote"} /\ ~EscapedQuote /\ Throw
  /\ UNCHANGED <<csvText, escapeIs>>

(* fields and parse: another field after a delimeter, or the end.           *)
Fields ==
  /\ parsing = "fields"
  /\ \/ sym = "Delimeter" /\ NextSym(1) /\ parsing' = "field" /\ UNCHANGED <<buf, cols>>
     \/ sym = "Eol" /\ parsing' = "parsed" /\ UNCHANGED <<p, sym, buf, cols>>
     \/ sym \notin {"Delimeter", "Eol"} /\ Throw
  /\ UNCHANGED <<csvText, escapeIs>>

CsvNext == Field \/ NormalField \/ QuotedField \/ Fields

-----------------------------------------------------------------------------
(* What a line may mean, stated by how columns are written: bare when they  *)
(* are letters, else between quotes, with the escape before every quote.    *)

Unmarked == IF escapeIs = "quote" THEN {"letter", "backslash"} ELSE {"letter"}
Bare(s) == \A i \in 1..Len(s) : s[i] \in Unmarked

(* The ways through the inside of a quoted column: a character by itself,   *)
(* or an escape and a quote together.                                       *)
Walks(s) ==
  {w \in [1..Len(s) -> {"one", "escape", "quote"}] :
     \A i \in 1..Len(s) :
       CASE w[i] = "one" -> s[i] \in Unmarked \union {"delimeter"}
         [] w[i] = "escape" -> /\ s[i] = escapeIs
                               /\ i < Len(s) /\ w[i + 1] = "quote"
         [] w[i] = "quote" -> /\ s[i] = "quote"
                              /\ i > 1 /\ w[i - 1] = "escape"}
Kept(s, w) ==
  LET KeptAt[i \in 0..Len(s)] ==
        IF i = 0 THEN <<>>
        ELSE IF w[i] = "escape" THEN KeptAt[i - 1] ELSE Append(KeptAt[i - 1], s[i])
  IN  KeptAt[Len(s)]

ColumnsOf(s) ==
  UNION {IF s = <<>> THEN {Absent} ELSE {},
         IF s # <<>> /\ Bare(s) THEN {s} ELSE {},
         IF Len(s) > 1 /\ s[1] = "quote" /\ s[Len(s)] = "quote"
         THEN LET inside == SubSeq(s, 2, Len(s) - 1)
              IN  {Kept(inside, w) : w \in Walks(inside)}
         ELSE {}}

(* All ways to read a text: its first column ends at a delimeter or at the  *)
(* end.                                                                     *)
Readings(t) ==
  LET From[i \in 1..Len(t) + 1] ==
        UNION {{<<c>> \o rest : c \in ColumnsOf(SubSeq(t, i, j - 1)),
                                rest \in IF j > Len(t) THEN {<<>>} ELSE From[j + 1]} :
               j \in {k \in i..Len(t) + 1 : k > Len(t) \/ t[k] = "delimeter"}}
  IN  From[1]

CsvTypeOK ==
  /\ p \in 1..Len(csvText) + 1
  /\ sym = TokenAt(csvText, p)
  /\ parsing \in {"field", "normal", "quoted", "fields"} \union CsvEnded

(* A line is read as the one list of columns it is a writing of, and a line *)
(* that is none is refused, wherever its quotes and escapes are (csv.h).    *)
ColumnsReadBack ==
  /\ parsing = "parsed" => Readings(csvText) = {cols}
  /\ parsing = "thrown" => Readings(csvText) = {}
=============================================================================
