------------------------------- MODULE Patch -------------------------------
(***************************************************************************)
(* patch (patch.cpp): applies a unified diff to a text, a line of the diff  *)
(* at a time.  The text is its lines, "" one empty line.  A line of a diff  *)
(* is [kind, text] or a hunk's header; the numbers of headers are as        *)
(* written, from 1.                                                         *)
(*                                                                         *)
(* The diffs are those of edit scripts, sequences of lines kept, deleted    *)
(* and inserted, cut into hunks, as they are or with one thing damaged.     *)
(***************************************************************************)
EXTENDS Integers, Sequences, FiniteSets

CONSTANTS Words,        (* the lines of texts                                *)
          Blank,        (* the empty line                                    *)
          MaxScript,    (* bound: how long edit scripts are                  *)
          Damages       (* what is wrong with a diff, "nothing" among them   *)

ASSUME PatchAssumption ==
  /\ Blank \notin Words /\ MaxScript \in Nat
  /\ Damages \subseteq {"nothing", "text", "short", "old", "new", "count", "lost",
                         "git", "stray"}

VARIABLES edit,         (* the edit script, its cut and the damage           *)
          text,         (* lines                                             *)
          diff,         (* diff                                              *)
          line,         (* i, its index                                      *)
          oldIndex,     (* oi                                                *)
          newIndex,     (* ni                                                *)
          oldLeft,      (* os of the hunk                                    *)
          newLeft,      (* ns of the hunk                                    *)
          patched,      (* r                                                 *)
          patchState    (* "file", "hunk", "done", "refused", "undefined"    *)

given == <<edit, text, diff>>
place == <<line, oldIndex, newIndex, oldLeft, newLeft, patched>>
patchVars == <<given, place, patchState>>

-----------------------------------------------------------------------------
(* Edit scripts and their diffs                                             *)

Edits == [kind : {" ", "+", "-"}, text : Words \union {Blank}]
Scripts == UNION {[1..n -> Edits] : n \in 1..MaxScript}

(* In a hunk: every edit, and any lines kept around them.                   *)
Cuts(s) == {c \in SUBSET DOMAIN s : \A i \in DOMAIN s : s[i].kind # " " => i \in c}

Sides(s, kinds) == SelectSeq(s, LAMBDA e : e.kind \in kinds)
Lines(s) == [i \in DOMAIN s |-> s[i].text]
OldLines(s) == Lines(Sides(s, {" ", "-"}))
NewLines(s) == Lines(Sides(s, {" ", "+"}))
AsText(s) == IF s = <<>> THEN <<Blank>> ELSE s

(* The header of the hunk of s[f..l].  A side without lines is numbered by  *)
(* the line before it.                                                     *)
Side(s, f, l, kinds) ==
  LET n == Len(Sides(SubSeq(s, f, l), kinds))
      k == Len(Sides(SubSeq(s, 1, f - 1), kinds))
  IN  [start |-> IF n = 0 THEN k ELSE k + 1, count |-> n]
HeaderOf(s, f, l) ==
  [kind |-> "@", old |-> Side(s, f, l, {" ", "-"}), new |-> Side(s, f, l, {" ", "+"})]

DiffOf(s, cut) ==
  LET D[i \in 0..Len(s)] ==
        IF i = 0 THEN <<>>
        ELSE IF i \notin cut THEN D[i - 1]
        ELSE IF i - 1 \in cut THEN Append(D[i - 1], s[i])
        ELSE LET l == CHOOSE l \in i..Len(s) : i..l \subseteq cut /\ l + 1 \notin cut
             IN  D[i - 1] \o <<HeaderOf(s, i, l), s[i]>>
  IN  D[Len(s)]

Damaged(d, damage) ==
  CASE damage = "old"   -> [d EXCEPT ![1].old.start = @ + 1]
    [] damage = "new"   -> [d EXCEPT ![1].new.start = @ + 1]
    [] damage = "count" -> [d EXCEPT ![1].old.count = @ + 1]
    [] damage = "lost"  -> SubSeq(d, 1, Len(d) - 1)
    [] OTHER            -> d

(* The names of the file come first; the line of another file, which the    *)
(* option Git stops at, may come last.                                      *)
WithNames(d, damage) ==
  <<[kind |-> "---"]>> \o d \o
    (IF damage \in {"git", "stray"} THEN <<[kind |-> "d"]>> ELSE <<>>)
Git == edit.damage = "git"

(* Another text than the one of the script: a line of it is another, or    *)
(* the last line is missing.                                               *)
Texts(s, damage) ==
  LET t == AsText(OldLines(s))
  IN  CASE damage = "text"  -> {[t EXCEPT ![i] = w] : i \in DOMAIN t, w \in Words}
        [] damage = "short" -> {AsText(SubSeq(t, 1, Len(t) - 1))}
        [] OTHER            -> {t}

PatchInit ==
  /\ \E s \in Scripts, damage \in Damages : \E cut \in Cuts(s) \ {{}} :
       /\ edit = [script |-> s, cut |-> cut, damage |-> damage]
       /\ diff = WithNames(Damaged(DiffOf(s, cut), damage), damage)
       /\ text \in Texts(s, damage)
  /\ line = 1 /\ oldIndex = 0 /\ newIndex = 0 /\ oldLeft = 0 /\ newLeft = 0
  /\ patched = <<>>
  /\ patchState = "file"

-----------------------------------------------------------------------------
(* patch_file and patch_hunk, a line at a time                              *)

Current == diff[line]
AtEnd == line > Len(diff)
HunkOver == oldLeft = 0 /\ newLeft = 0

Refuse == patchState' = "refused" /\ UNCHANGED <<given, place>>
RunOff == patchState' = "undefined" /\ UNCHANGED <<given, place>>

(* "---" and "+++" out of a hunk.                                           *)
FileName ==
  /\ patchState = "file" /\ ~AtEnd /\ Current.kind = "---"
  /\ line' = line + 1
  /\ UNCHANGED <<given, oldIndex, newIndex, oldLeft, newLeft, patched, patchState>>

OutOfHunk ==
  /\ patchState = "file" /\ ~AtEnd
  /\ Current.kind \in {" ", "+", "-"} \/ (Current.kind = "d" /\ ~Git)
  /\ Refuse

(* @@ -old,count +new,count @@: the lines before the hunk are copied.  The  *)
(* loop compares as size_t, so that a start of 0 is the end of all numbers; *)
(* it reads lines[oi] without a bound.  nl is compared after it.            *)
Before(h) == IF h.old.start = 0 THEN Len(text) + 1 ELSE h.old.start - 1
Copied(h) == SubSeq(text, oldIndex + 1, Before(h))
StartsAnywhere(h, n) == TRUE
StartsAt(h, n) == h.new.start - 1 = n

HunkHeader ==
  /\ patchState = "file" /\ ~AtEnd /\ Current.kind = "@"
  /\ LET h == Current
         n == newIndex + Len(Copied(h))
     IN  \/ /\ Before(h) > Len(text)
            /\ RunOff
         \/ /\ Before(h) <= Len(text) /\ ~StartsAt(h, n)
            /\ Refuse
         \/ /\ Before(h) <= Len(text) /\ StartsAt(h, n)
            /\ patched' = patched \o Copied(h)
            /\ oldIndex' = oldIndex + Len(Copied(h))
            /\ newIndex' = n
            /\ oldLeft' = h.old.count /\ newLeft' = h.new.count
            /\ line' = line + 1
            /\ patchState' = "hunk"
            /\ UNCHANGED given

(* A fully empty line of the diff is skipped; a kept or inserted empty line *)
(* has its ' ' or '+'.                                                      *)
Reading == patchState = "hunk" /\ ~AtEnd /\ ~HunkOver /\ oldLeft >= 0 /\ newLeft >= 0

(* A line kept or deleted is compared with lines[oi], without a bound.      *)
Matches == text[oldIndex + 1] = Current.text

Context ==
  /\ Reading /\ Current.kind = " "
  /\ \/ oldIndex >= Len(text) /\ RunOff
     \/ oldIndex < Len(text) /\ ~Matches /\ Refuse
     \/ /\ oldIndex < Len(text) /\ Matches
        /\ patched' = Append(patched, text[oldIndex + 1])
        /\ newIndex' = newIndex + 1 /\ oldIndex' = oldIndex + 1
        /\ oldLeft' = oldLeft - 1 /\ newLeft' = newLeft - 1
        /\ line' = line + 1
        /\ UNCHANGED <<given, patchState>>

Insert ==
  /\ Reading /\ Current.kind = "+"
  /\ patched' = Append(patched, Current.text)
  /\ newIndex' = newIndex + 1
  /\ newLeft' = newLeft - 1
  /\ line' = line + 1
  /\ UNCHANGED <<given, oldIndex, oldLeft, patchState>>

Delete ==
  /\ Reading /\ Current.kind = "-"
  /\ \/ oldIndex >= Len(text) /\ RunOff
     \/ oldIndex < Len(text) /\ ~Matches /\ Refuse
     \/ /\ oldIndex < Len(text) /\ Matches
        /\ oldIndex' = oldIndex + 1
        /\ oldLeft' = oldLeft - 1
        /\ line' = line + 1
        /\ UNCHANGED <<given, newIndex, newLeft, patched, patchState>>

(* Any other line, and lines left to come when a side has none: bad symbol, *)
(* bad hunk info.                                                          *)
BadHunk ==
  /\ patchState = "hunk" /\ ~HunkOver
  /\ AtEnd \/ oldLeft < 0 \/ newLeft < 0 \/ (~AtEnd /\ Current.kind \in {"@", "d"})
  /\ Refuse

HunkEnds ==
  /\ patchState = "hunk" /\ HunkOver
  /\ patchState' = "file"
  /\ UNCHANGED <<given, place>>

(* The rest of the text follows.                                            *)
Rest == SubSeq(text, oldIndex + 1, Len(text))
Finish ==
  /\ patchState = "file"
  /\ AtEnd \/ (~AtEnd /\ Current.kind = "d" /\ Git)
  /\ patched' = AsText(patched \o Rest)
  /\ patchState' = "done"
  /\ UNCHANGED <<given, line, oldIndex, newIndex, oldLeft, newLeft>>

PatchNext ==
  \/ FileName \/ OutOfHunk \/ HunkHeader \/ Context \/ Insert \/ Delete
  \/ BadHunk \/ HunkEnds \/ Finish

-----------------------------------------------------------------------------
PatchTypeOK ==
  /\ line \in 1..(Len(diff) + 1)
  /\ oldIndex \in 0..Len(text)
  /\ newIndex = Len(patched) \/ patchState = "done"
  /\ patchState \in {"file", "hunk", "done", "refused", "undefined"}

Headers == {i \in DOMAIN diff : diff[i].kind = "@"}

(* Every hunk has lines of both the old and the new text, as diff writes it *)
(* unless a text is empty or no context is asked for.                       *)
HasBothSides == \A i \in Headers : diff[i].old.count > 0 /\ diff[i].new.count > 0

(* The old lines of the hunk at header i, and where it finds them.          *)
HunkLines(i) ==
  LET next == CHOOSE k \in (i + 1)..(Len(diff) + 1) :
                /\ k \in Headers \/ k = Len(diff) + 1
                /\ Headers \intersect (i + 1)..(k - 1) = {}
  IN  OldLines(SubSeq(diff, i + 1, next - 1))
Found(i) == LET s == diff[i].old.start
            IN  HunkLines(i) = SubSeq(text, s, s + diff[i].old.count - 1)

(* A good diff turns the old text into the new one; a damaged diff, and one *)
(* for another text, is refused, unless the text has the old lines of every *)
(* hunk where the hunk says; and lines are read out of bounds only where a  *)
(* hunk has no old line before it, starts behind the text or goes on past   *)
(* its end (patch.cpp:29-175).                                              *)
GoodDiffsApply ==
  /\ edit.damage \in {"nothing", "git"} /\ HasBothSides =>
       /\ patchState \notin {"refused", "undefined"}
       /\ patchState = "done" => patched = AsText(NewLines(edit.script))
  /\ edit.damage \in {"count", "lost", "stray"} \/ (edit.damage = "new" /\ HasBothSides) =>
       patchState # "done"
  /\ patchState = "done" /\ HasBothSides => \A i \in Headers : Found(i)
  /\ patchState = "undefined" =>
       \/ \E i \in Headers : diff[i].old.start = 0 \/ diff[i].old.start > Len(text)
       \/ edit.damage \in {"short", "old"}
=============================================================================
