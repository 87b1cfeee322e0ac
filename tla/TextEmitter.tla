---------------------------- MODULE TextEmitter ----------------------------
(***************************************************************************)
(* Emitters of text (emitter.h): lines with their indentation, blocks in    *)
(* braces, text added to the last line, and an emitter that is a line of    *)
(* another.  There are two emitters of code, outer and inner; the inner one *)
(* is created in the outer, or apart from it and then appended or moved.    *)
(* A text is a sequence of marks, new lines and indents; the marks a caller *)
(* gives tell its calls apart.                                              *)
(***************************************************************************)
EXTENDS Integers, Sequences, SequencesExt

CONSTANT CallMarks        (* the marks of the calls, in order                *)

ASSUME EmitterAssumption ==
  \A i \in DOMAIN CallMarks : CallMarks[i] \notin {"/", "_", "{", "}", "inner"}

VARIABLES outer, inner,   (* [lines, indents]                                *)
          innerIs,        (* "none", "apart", "inline", or "moved" and       *)
                          (* "removed", when nobody may use it any more      *)
          emitting,       (* "on" or "thrown"                                *)
          emitted,        (* calls so far                                    *)
          emitMeant,      (* ghost: the marks of either emitter              *)
          displaced       (* ghost: a line was moved, a brace cut off, or an *)
                          (* open block appended                             *)

emitterVars == <<outer, inner, innerIs, emitting, emitted, emitMeant, displaced>>

NewLine == "/"
Indent == "_"
InnerPlace == "inner"     (* in the marks of outer: where those of inner are *)

PlainLine(indents, t) == [inline |-> FALSE, indents |-> indents, text |-> t]
Inlined(indents) == [inline |-> TRUE, indents |-> indents, text |-> <<>>]

Marks(t) == SelectSeq(t, LAMBDA c : c \notin {NewLine, Indent})

-----------------------------------------------------------------------------
(* getText: a text that is not empty is indented after each of its new      *)
(* lines; an emitter in a line gives its text up to the last new line, and  *)
(* is left out when it has no lines.                                        *)

(* A variant that is wrong: only the first line of an emitter is indented.  *)
IndentedOnce(t, indents) ==
  (IF t = <<>> THEN <<>> ELSE [i \in 1..indents |-> Indent]) \o t \o <<NewLine>>

Indented(t, indents) ==
  LET space == IF t = <<>> THEN <<>> ELSE [i \in 1..indents |-> Indent]
  IN space \o FlattenSeq([i \in DOMAIN t |-> IF t[i] = NewLine THEN <<NewLine>> \o space ELSE <<t[i]>>])
     \o <<NewLine>>

OwnText(lines) == FlattenSeq([i \in DOMAIN lines |-> Indented(lines[i].text, lines[i].indents)])

LineEmpty(l) == l.inline /\ inner.lines = <<>>
LineText(l) == IF l.inline THEN Front(OwnText(inner.lines)) ELSE l.text

GetText(e) ==
  FlattenSeq([i \in DOMAIN e.lines |->
                IF LineEmpty(e.lines[i]) THEN <<>>
                ELSE Indented(LineText(e.lines[i]), e.lines[i].indents)])

(* The text of a line that is an emitter without lines cannot be cut.       *)
CannotCut(e) == e.lines # <<>> /\ LineEmpty(Last(e.lines))

-----------------------------------------------------------------------------
(* The calls that add, as emitters that are the result.  A text of several  *)
(* lines is added as as many.                                               *)
WithLines(e, ts) ==
  [e EXCEPT !.lines = @ \o [i \in DOMAIN ts |->
                              PlainLine(IF ts[i] = <<>> THEN 0 ELSE e.indents, ts[i])]]

WithText(e, t) ==
  LET lines == IF e.lines = <<>> THEN <<PlainLine(0, <<>>)>> ELSE e.lines
      l == Last(lines)
      indents == IF t # <<>> /\ l.indents = 0 THEN e.indents ELSE l.indents
  IN [e EXCEPT !.lines =
        Append(Front(lines), [l EXCEPT !.indents = indents, !.text = LineText(l) \o t])]

WithoutEnd(e, n) ==
  LET l == Last(e.lines)
      t == LineText(l)
  IN IF e.lines = <<>> THEN e
     ELSE [e EXCEPT !.lines =
             Append(Front(@), [l EXCEPT !.text = SubSeq(t, 1, IF n > Len(t) THEN 0 ELSE Len(t) - n)])]

(* emptyLines: as many at the end as are asked for.                         *)
EmptyAtEnd(lines) ==
  CHOOSE k \in 0..Len(lines) :
    /\ \A i \in Len(lines) - k + 1..Len(lines) : LineText(lines[i]) = <<>>
    /\ k < Len(lines) => LineEmpty(lines[Len(lines) - k]) \/ LineText(lines[Len(lines) - k]) # <<>>

CannotCutEnd(e) ==
  \E k \in 0..Len(e.lines) - 1 :
    /\ LineEmpty(e.lines[Len(e.lines) - k])
    /\ \A i \in Len(e.lines) - k + 1..Len(e.lines) : LineText(e.lines[i]) = <<>>

WithEmptyLines(e, n) ==
  LET k == EmptyAtEnd(e.lines)
  IN IF k <= n THEN WithLines(e, [i \in 1..n - k |-> <<>>])
     ELSE [e EXCEPT !.lines = SubSeq(@, 1, Len(@) - (k - n))]

WithIndents(e, n) == [e EXCEPT !.indents = @ + n]
BlockBegun(e) == WithIndents(WithLines(e, << <<"{">> >>), 1)
BlockEnded(e) == WithLines(WithEmptyLines(WithIndents(e, -1), 0), << <<"}">> >>)

-----------------------------------------------------------------------------
EmitterInit ==
  /\ innerIs \in {"none", "apart"}
  /\ outer = [lines |-> <<>>, indents |-> 0]
  /\ inner = [lines |-> <<>>, indents |-> 0]
  /\ emitting = "on" /\ emitted = 0
  /\ emitMeant = [outer |-> <<>>, inner |-> <<>>]
  /\ displaced = FALSE

Emits == emitting = "on" /\ emitted < Len(CallMarks) /\ emitted' = emitted + 1

(* What becomes of a call of either emitter: the emitter, and its marks.    *)
Becomes(name, e, marks) ==
  /\ IF name = "outer" THEN outer' = e /\ UNCHANGED inner ELSE inner' = e /\ UNCHANGED outer
  /\ emitMeant' = [emitMeant EXCEPT ![name] = marks]
  /\ UNCHANGED emitting

Fails == emitting' = "thrown" /\ UNCHANGED <<outer, inner, emitMeant, displaced, innerIs>>

Usable(name) == name = "inner" => innerIs \in {"apart", "inline"}
The(name) == IF name = "outer" THEN outer ELSE inner

AddLines(name) ==
  /\ Emits /\ Usable(name)
  /\ LET mark == <<CallMarks[emitted']>>
     IN \E ts \in {<< <<>> >>, <<mark>>, <<mark, mark>>} :
          Becomes(name, WithLines(The(name), ts), emitMeant[name] \o FlattenSeq(ts))
  /\ UNCHANGED <<displaced, innerIs>>

(* Text added behind an emitter in a line goes to a text of that line that  *)
(* nobody reads.                                                            *)
AddText(name) ==
  /\ Emits /\ Usable(name)
  /\ LET e == The(name)
         lost == e.lines # <<>> /\ Last(e.lines).inline
     IN IF CannotCut(e) THEN Fails
        ELSE /\ Becomes(name, WithText(e, <<CallMarks[emitted']>>),
                        IF lost THEN emitMeant[name] ELSE Append(emitMeant[name], CallMarks[emitted']))
             /\ displaced' = (displaced \/ (e.lines # <<>> /\ LineText(Last(e.lines)) # <<>>
                                            /\ Last(e.lines).indents = 0 /\ e.indents # 0))
             /\ UNCHANGED innerIs

TrimEnd(name) ==
  /\ Emits /\ Usable(name)
  /\ LET e == The(name)
         cut == e.lines # <<>> /\ ~Last(e.lines).inline /\ Last(e.lines).text # <<>>
         mark == Last(Last(e.lines).text)
     IN IF CannotCut(e) THEN Fails
        ELSE /\ Becomes(name, WithoutEnd(e, 1), IF cut THEN Front(emitMeant[name]) ELSE emitMeant[name])
             /\ displaced' = (displaced \/ (cut /\ mark \in {"{", "}"}))
             /\ UNCHANGED innerIs

(* An emitter in a line may be removed as an empty line.                    *)
Removed(e) == \A i \in DOMAIN e.lines : ~e.lines[i].inline
InnerLeft(e) == innerIs' = IF innerIs \in {"inline", "moved"} /\ Removed(e) THEN "removed" ELSE innerIs

EmptyLines(name) ==
  /\ Emits /\ Usable(name)
  /\ LET e == The(name)
     IN IF CannotCutEnd(e) THEN Fails
        ELSE \E n \in 0..1 :
               /\ Becomes(name, WithEmptyLines(e, n), emitMeant[name])
               /\ IF name = "outer" THEN InnerLeft(WithEmptyLines(e, n)) ELSE UNCHANGED innerIs
               /\ UNCHANGED displaced

BeginBlock(name) ==
  /\ Emits /\ Usable(name)
  /\ Becomes(name, BlockBegun(The(name)), Append(emitMeant[name], "{"))
  /\ UNCHANGED <<displaced, innerIs>>

EndBlock(name) ==
  /\ Emits /\ Usable(name)
  /\ LET e == The(name)
     IN IF CannotCutEnd(e) THEN Fails
        ELSE /\ Becomes(name, BlockEnded(e), Append(emitMeant[name], "}"))
             /\ IF name = "outer" THEN InnerLeft(BlockEnded(e)) ELSE UNCHANGED innerIs
             /\ UNCHANGED displaced

CreateInlineEmitter ==
  /\ Emits /\ innerIs = "none" /\ innerIs' = "inline"
  /\ Becomes("outer", [outer EXCEPT !.lines = Append(@, Inlined(outer.indents))],
             Append(emitMeant.outer, InnerPlace))
  /\ UNCHANGED displaced

AddEmitter ==
  /\ Emits /\ innerIs = "apart" /\ innerIs' = "moved"
  /\ Becomes("outer", [outer EXCEPT !.lines = Append(@, Inlined(outer.indents))],
             Append(emitMeant.outer, InnerPlace))
  /\ UNCHANGED displaced

(* operator+=: the lines are copied, with their own indents and those here. *)
AppendEmitter ==
  /\ Emits /\ innerIs = "apart"
  /\ Becomes("outer",
             [outer EXCEPT !.lines =
                @ \o [i \in DOMAIN inner.lines |->
                        PlainLine(inner.lines[i].indents + outer.indents, inner.lines[i].text)]],
             emitMeant.outer \o emitMeant.inner)
  /\ displaced' = (displaced \/ inner.indents # 0)
  /\ UNCHANGED innerIs

EmitterNext ==
  \/ \E name \in {"outer", "inner"} :
       \/ AddLines(name) \/ AddText(name) \/ TrimEnd(name) \/ EmptyLines(name)
       \/ BeginBlock(name) \/ EndBlock(name)
  \/ CreateInlineEmitter \/ AddEmitter \/ AppendEmitter

-----------------------------------------------------------------------------
EmitterTypeOK ==
  /\ innerIs \in {"none", "apart", "inline", "moved", "removed"}
  /\ emitting \in {"on", "thrown"} /\ emitted \in 0..Len(CallMarks)
  /\ \A i \in DOMAIN inner.lines : ~inner.lines[i].inline

(* What is added is in the text, in its order, that of the inner emitter    *)
(* where it was put, even if it was added later: but for what is added to a *)
(* line that is an emitter.  A call fails only behind an emitter without    *)
(* lines.  Neither is so when an empty line was an emitter still in use     *)
(* (emitter.h:101-106, 136-199, 220-293).                                   *)
EmittedInOrder ==
  /\ innerIs # "removed" =>
       Marks(GetText(outer)) =
         FlattenSeq([i \in DOMAIN emitMeant.outer |->
                       IF emitMeant.outer[i] = InnerPlace THEN emitMeant.inner ELSE <<emitMeant.outer[i]>>])
  /\ emitting = "thrown" => inner.lines = <<>> /\ innerIs \in {"inline", "moved"}

Depth(t, n) ==
  LET count(c) == Len(SelectSeq(SubSeq(t, 1, n), LAMBDA d : d = c)) IN count("{") - count("}")
Nested(t) == \A n \in DOMAIN t : Depth(t, n) >= 0

(* A line is indented once for each block it is in, those of an inner       *)
(* emitter once more for the blocks of the outer, and nothing empty stands  *)
(* before the end of a block: unless a brace was cut off, text added to a   *)
(* line after which the indentation had changed, or a block of the inner    *)
(* emitter left open; an inner emitter may end with empty lines             *)
(* (emitter.h:239-256, 258-293, 329-342).                                   *)
BlocksIndented ==
  LET t == GetText(outer)
      starts(i) == i = 1 \/ t[i - 1] = NewLine
      marked(i, k) == /\ i + k <= Len(t) /\ t[i + k] \notin {NewLine, Indent}
                      /\ \A j \in i..i + k - 1 : t[j] = Indent
  IN ~displaced /\ Nested(t) /\ Nested(OwnText(inner.lines)) /\ inner.indents = 0 =>
       \A i \in DOMAIN t : starts(i) =>
         /\ \A k \in 0..Len(t) - i : marked(i, k) =>
              k = Depth(t, i + k) - (IF t[i + k] = "{" THEN 1 ELSE 0)
         /\ t[i] = NewLine /\ innerIs \in {"none", "removed"} =>
              ~\E k \in 0..Len(t) - i - 1 : marked(i + 1, k) /\ t[i + 1 + k] = "}"
=============================================================================
