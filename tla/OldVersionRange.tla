--------------------------- MODULE OldVersionRange ---------------------------
(***************************************************************************)
(* The older copy of version ranges (version1), which source descriptions   *)
(* of the older format use: closed intervals of versions of three numbers,  *)
(* whose open ends are stepped to the next version, the rules of its        *)
(* grammar, and what is printed of an interval.                             *)
(*                                                                         *)
(* Extra parts, branches and versions of more than three numbers are left   *)
(* out.                                                                     *)
(***************************************************************************)
EXTENDS Integers, Sequences, FiniteSets

CONSTANTS OldMaxNumber,  (* Version::maxNumber(), 999'999'999 in the code    *)
          OldEnds,       (* the versions ranges are made of                  *)
          OldQueries,    (* the ranges written                               *)
          OldNames,      (* the VersionRange objects                         *)
          OldCalls       (* OldCalls[o], bound: how often object o changes   *)

OldLevel == 3
OldNumbers == [1..OldLevel -> 0..OldMaxNumber]
OldMin == <<0, 0, 1>>
OldMax == [i \in 1..OldLevel |-> OldMaxNumber]
ZeroNumbers == <<0, 0, 0>>
OldVersions == OldNumbers \ {ZeroNumbers}

ASSUME OldRangeAssumption ==
  /\ OldMaxNumber \in Nat \ {0}
  /\ OldEnds \subseteq OldVersions
  /\ OldCalls \in [OldNames -> Nat]

VARIABLES oldQuery,      (* [rule, v, w, open, openRight]: the range written,*)
                         (* or [rule, pair]: the interval printed            *)
          oldAnswer,     (* [outcome, pairs]: what the parser makes of it    *)
          oldRanges,     (* the vector of each object                        *)
          oldMeant,      (* the versions each object should hold             *)
          oldCallsLeft   (* how often each may still change                  *)

oldRangeVars == <<oldQuery, oldAnswer, oldRanges, oldMeant, oldCallsLeft>>

-----------------------------------------------------------------------------
(* Versions                                                                 *)

OldLess(v, w) ==
  \E i \in 1..OldLevel : v[i] < w[i] /\ \A j \in 1..(i - 1) : v[j] = w[j]
Least(v, w) == IF OldLess(w, v) THEN w ELSE v
Greatest(v, w) == IF OldLess(v, w) THEN w ELSE v

(* The number that does not carry; those after it do.                       *)
StepAt(v, full) == CHOOSE i \in 1..OldLevel : v[i] # full /\ \A j \in (i + 1)..OldLevel : v[j] = full
SteppedAt(v, at, by, rest) ==
  [i \in 1..OldLevel |-> IF i < at THEN v[i] ELSE IF i = at THEN v[i] + by ELSE rest]

NextVersion(v) ==
  IF v = OldMax THEN v ELSE SteppedAt(v, StepAt(v, OldMaxNumber), 1, 0)

(* Below zeros the loop leaves the vector: callers test for them.           *)
PreviousVersion(v) ==
  IF v = OldMin THEN v ELSE SteppedAt(v, StepAt(v, 0), -1, OldMaxNumber)

OldRealLevel(v) ==
  IF v = ZeroNumbers THEN 0
  ELSE CHOOSE l \in 1..OldLevel : v[l] # 0 /\ \A j \in (l + 1)..OldLevel : v[j] = 0

-----------------------------------------------------------------------------
(* The rules of the grammar.  A written version is one to three numbers,    *)
(* Wildcard for x, X or *; missing ones are NotGiven.                       *)

Wildcard == -2
NotGiven == -1
NumbersGiven(s) == [i \in 1..OldLevel |-> IF i <= Len(s) THEN s[i] ELSE NotGiven]
Prepared(v, number) == [i \in 1..OldLevel |-> IF v[i] < 0 THEN number ELSE v[i]]

Closed(v, w) == [first |-> v, second |-> w]

(* prepare_pair: the sides in their order, then filled, then moved inside.  *)
PreparePair(v, w) ==
  Closed(Greatest(Prepared(Least(v, w), 0), OldMin),
         Least(Prepared(Greatest(w, v), OldMaxNumber), OldMax))

RangeRefused == [outcome |-> "refused", pairs |-> <<>>]
OutOfVector == [outcome |-> "undefined", pairs |-> <<>>]
Stands(v, w) == [outcome |-> "ok", pairs |-> <<PreparePair(v, w)>>]

VersionMeans(v) == Stands(v, v)

Positive(v) == {i \in 1..OldLevel : v[i] > 0}
(* ^: the first number above zero is stepped, or else the last zero, behind *)
(* which the fill begins one number late.                                   *)
Bumped(v) ==
  IF Positive(v) # {}
  THEN SteppedAt(v, CHOOSE i \in Positive(v) : \A j \in Positive(v) : i <= j, 1, 0)
  ELSE LET at == CHOOSE i \in 1..OldLevel : v[i] = 0 /\ \A j \in (i + 1)..OldLevel : v[j] # 0
       IN  [i \in 1..OldLevel |-> IF i = at THEN 1 ELSE IF i > at + 1 THEN 0 ELSE v[i]]
CaretMeans(v) ==
  IF v[1] < 0 THEN RangeRefused
  ELSE IF Positive(v) = {} /\ v[OldLevel] = 0 THEN OutOfVector
  ELSE Stands(v, PreviousVersion(Prepared(Bumped(v), 0)))

TildeMeans(v) ==
  IF v[1] < 0 THEN RangeRefused
  ELSE LET upTo == IF v[2] >= 0 THEN 2 ELSE 1
       IN  Stands(v, PreviousVersion(Prepared(SteppedAt(v, upTo, 1, 0), 0)))

(* (v, w]: an end that is left out is stepped, after the sides were put in  *)
(* their order, and they are put in order again.                            *)
IntervalMeans(v, w, open, openRight) ==
  LET p == PreparePair(v, Prepared(w, 0))
  IN  IF openRight /\ p.second = ZeroNumbers THEN OutOfVector
      ELSE Stands(IF open THEN NextVersion(p.first) ELSE p.first,
                  IF openRight THEN PreviousVersion(p.second) ELSE p.second)
IntervalFrom(v, open) ==
  Stands(IF open THEN NextVersion(Prepared(v, 0)) ELSE Prepared(v, 0), OldMax)

UpTo(v, open) ==
  IF open /\ v = ZeroNumbers THEN OutOfVector
  ELSE Stands(OldMin, IF open THEN PreviousVersion(v) ELSE v)

-----------------------------------------------------------------------------
(* Intervals and vectors of them                                            *)

OldHolds(p, v) == ~OldLess(v, p.first) /\ ~OldLess(p.second, v)
OldRangeHolds(s, v) == \E i \in DOMAIN s : OldHolds(s[i], v)
OldContents(s) == {v \in OldVersions : OldRangeHolds(s, v)}

(* A variant that is wrong: an interval is merged with the one before it    *)
(* without looking which of them reaches farther.                           *)
WidenedToLast(p, q) == Closed(p.first, q.second)
Widened(p, q) == Closed(p.first, Greatest(p.second, q.second))

(* Behind the merged interval, others are merged until there is a gap.      *)
ClosedUp(before, p, rest) ==
  LET M[i \in 0..Len(rest)] ==
        IF i = 0 THEN [s |-> Append(before, p), gap |-> FALSE]
        ELSE LET m == M[i - 1]
                 last == m.s[Len(m.s)]
             IN  IF m.gap \/ OldLess(last.second, rest[i].first)
                 THEN [s |-> Append(m.s, rest[i]), gap |-> TRUE]
                 ELSE [s |-> SubSeq(m.s, 1, Len(m.s) - 1) \o <<Widened(last, rest[i])>>,
                       gap |-> FALSE]
  IN  M[Len(rest)].s

(* |= of an interval: skip those before it that it does not continue, then  *)
(* insert it, and, as in the newer copy, append it once more; or merge it.  *)
OldAddPair(s, p) ==
  LET beyond(i) == OldLess(s[i].second, p.first)
      reached == {i \in DOMAIN s : beyond(i) => NextVersion(s[i].second) = p.first}
      k == CHOOSE i \in reached : \A j \in reached : i <= j
      before == SubSeq(s, 1, k - 1)
      after == SubSeq(s, k + 1, Len(s))
  IN  IF reached = {} THEN Append(s, p)
      ELSE IF ~beyond(k) /\ OldLess(p.second, s[k].first)
      THEN Append(before \o <<p, s[k]>> \o after, p)
      ELSE ClosedUp(before, Closed(Least(s[k].first, p.first),
                                   Greatest(s[k].second, p.second)), after)

OldAddAll(s, t) ==
  LET A[i \in 0..Len(t)] == IF i = 0 THEN s ELSE OldAddPair(A[i - 1], t[i])
  IN  A[Len(t)]

(* &=: of each interval with each, what they share is added.                *)
Shared(p, q) == Closed(Greatest(p.first, q.first), Least(p.second, q.second))
OldCommon(s, t) ==
  LET C[k \in 0..(Len(s) * Len(t))] ==
        IF k = 0 THEN <<>>
        ELSE LET p == Shared(s[((k - 1) \div Len(t)) + 1], t[((k - 1) % Len(t)) + 1])
             IN  IF OldLess(p.second, p.first) THEN C[k - 1] ELSE OldAddPair(C[k - 1], p)
  IN  C[Len(s) * Len(t)]

(* isOutside: before the first interval of the vector or behind the last.   *)
Outside(s, v) ==
  /\ s # <<>>
  /\ OldLess(s[Len(s)].second, v) \/ OldLess(v, s[1].first)

-----------------------------------------------------------------------------
(* What a written range stands for                                          *)

CompareMeans(op, v) ==
  CASE op = "<"  -> UpTo(v, TRUE)
    [] op = "<=" -> UpTo(v, FALSE)
    [] op = ">"  -> Stands(NextVersion(v), OldMax)
    [] op = ">=" -> Stands(v, OldMax)
    [] op = "="  -> Stands(v, v)
    [] op = "!=" -> IF v = ZeroNumbers THEN OutOfVector
                    ELSE [outcome |-> "ok",
                          pairs |-> OldAddPair(UpTo(v, TRUE).pairs,
                                               PreparePair(NextVersion(v), OldMax))]
Comparisons == {"<", "<=", ">", ">=", "=", "!="}

OldRule(q) ==
  LET v == NumbersGiven(q.v)
      w == NumbersGiven(q.w)
  IN  CASE q.rule = "version"       -> VersionMeans(v)
        [] q.rule = "caret"         -> CaretMeans(v)
        [] q.rule = "tilde"         -> TildeMeans(v)
        [] q.rule = "hyphen"        -> Stands(v, w)
        [] q.rule = "interval"      -> IntervalMeans(v, w, q.open, q.openRight)
        [] q.rule = "interval_from" -> IntervalFrom(v, q.open)
        [] q.rule = "interval_to"   -> UpTo(Prepared(w, 0), q.openRight)
        [] q.rule \in Comparisons   -> CompareMeans(q.rule, Prepared(v, 0))

-----------------------------------------------------------------------------
(* What is printed of an interval: one or two written ranges, and read      *)
(* back as the one that both allow.                                         *)

PrintForms == {"default", "real", "individual"}
WrittenAs(rule, v, level) ==
  [rule |-> rule, v |-> SubSeq(v, 1, level), w |-> <<>>, open |-> FALSE, openRight |-> FALSE]

PrintedRange(p, form) ==
  LET real(v) == OldRealLevel(v)
      both(v, w) == IF real(v) > real(w) THEN real(v) ELSE real(w)
      levelOf(v, w) == CASE form = "default" -> OldLevel
                         [] form = "real" -> both(v, w)
                         [] form = "individual" -> real(v)
      after == NextVersion(p.second)
      from(w) == IF p.first = OldMin THEN <<>> ELSE <<WrittenAs(">=", p.first, levelOf(p.first, w))>>
  IN  CASE p.first = p.second ->
             <<WrittenAs("version", p.first, levelOf(p.first, p.second))>>
        [] p.first # p.second /\ p.second = OldMax ->
             IF p.first = OldMin THEN <<WrittenAs("version", <<Wildcard>>, 1)>> ELSE from(p.second)
        [] p.first # p.second /\ p.second # OldMax /\ p.second[3] = OldMaxNumber ->
             Append(from(after), WrittenAs("<", after, levelOf(after, p.first)))
        [] OTHER ->
             Append(from(p.second), WrittenAs("<=", p.second, levelOf(p.second, p.first)))

ReadRange(printed) ==
  LET R[i \in 1..Len(printed)] ==
        IF i = 1 THEN OldRule(printed[1]).pairs
                 ELSE OldCommon(R[i - 1], OldRule(printed[i]).pairs)
  IN  R[Len(printed)]

-----------------------------------------------------------------------------
OldRangeInit ==
  /\ oldQuery \in OldQueries
                  \union [rule : {"printed"}, form : PrintForms,
                          pair : {Closed(v, w) : v \in OldVersions, w \in OldVersions}]
  /\ oldQuery.rule = "printed" => ~OldLess(oldQuery.pair.second, oldQuery.pair.first)
  /\ oldAnswer = [outcome |-> "none", pairs |-> <<>>]
  /\ oldRanges = [o \in OldNames |-> <<>>]
  /\ oldMeant = [o \in OldNames |-> {}]
  /\ oldCallsLeft = OldCalls

ParseOldRange ==
  /\ oldAnswer.outcome = "none"
  /\ oldAnswer' =
       IF oldQuery.rule = "printed"
       THEN [outcome |-> "ok", pairs |-> ReadRange(PrintedRange(oldQuery.pair, oldQuery.form))]
       ELSE OldRule(oldQuery)
  /\ UNCHANGED <<oldQuery, oldRanges, oldMeant, oldCallsLeft>>

SetRange(o, s, versions) ==
  /\ oldCallsLeft[o] > 0
  /\ oldCallsLeft' = [oldCallsLeft EXCEPT ![o] = @ - 1]
  /\ oldRanges' = [oldRanges EXCEPT ![o] = s]
  /\ oldMeant' = [oldMeant EXCEPT ![o] = versions]
  /\ UNCHANGED <<oldQuery, oldAnswer>>

(* |= of a range made of two versions, in either order                      *)
UniteOldPair(o, v, w) ==
  LET p == Closed(Least(v, w), Greatest(w, v))
  IN  SetRange(o, OldAddPair(oldRanges[o], p),
               oldMeant[o] \union {u \in OldVersions : OldHolds(p, u)})

UniteOldRange(o, n) ==
  o # n /\ SetRange(o, OldAddAll(oldRanges[o], oldRanges[n]), oldMeant[o] \union oldMeant[n])

IntersectOldRange(o, n) ==
  o # n /\ SetRange(o, OldCommon(oldRanges[o], oldRanges[n]), oldMeant[o] \intersect oldMeant[n])

OldSyntaxNext == ParseOldRange
OldRangeNext ==
  \E o \in OldNames :
    \/ \E v, w \in OldEnds : UniteOldPair(o, v, w)
    \/ \E n \in OldNames : UniteOldRange(o, n) \/ IntersectOldRange(o, n)

-----------------------------------------------------------------------------
OldRangeTypeOK ==
  /\ oldAnswer.outcome \in {"none", "ok", "refused", "undefined"}
  /\ \A i \in DOMAIN oldAnswer.pairs :
       oldAnswer.pairs[i].first \in OldNumbers /\ oldAnswer.pairs[i].second \in OldNumbers
  /\ \A o \in OldNames : \A i \in DOMAIN oldRanges[o] :
       ~OldLess(oldRanges[o][i].second, oldRanges[o][i].first)

(* However intervals are added, merged, appended twice and intersected, a   *)
(* range holds the versions of the union or intersection of the sets; and   *)
(* what isOutside says is right of a vector in its order                    *)
(* (version_range.cpp:113-116, 342-482).                                    *)
InOrder(s) == \A i \in 2..Len(s) : OldLess(s[i - 1].second, s[i].first)
OldRangesHoldUnions ==
  \A o \in OldNames :
    /\ OldContents(oldRanges[o]) = oldMeant[o]
    /\ InOrder(oldRanges[o]) => \A v \in OldVersions : Outside(oldRanges[o], v) => v \notin oldMeant[o]

(* What a reader of semver expects of each rule, of a version u.            *)
Within(u, v, s) == ~OldLess(u, v) /\ \A i \in DOMAIN s : s[i] >= 0 => u[i] = s[i]
OldMeans(q, u) ==
  LET v == Prepared(NumbersGiven(q.v), 0)
      w == Prepared(NumbersGiven(q.w), 0)
      above(first) == {i \in DOMAIN first : first[i] > 0}
  IN  CASE q.rule = "version" -> Within(u, v, q.v)
        [] q.rule = "caret" ->
             Within(u, v, IF above(q.v) = {} THEN q.v
                          ELSE SubSeq(q.v, 1, CHOOSE i \in above(q.v) : \A j \in above(q.v) : i <= j))
        [] q.rule = "tilde" -> Within(u, v, SubSeq(q.v, 1, IF Len(q.v) > 2 THEN 2 ELSE Len(q.v)))
        [] q.rule = "hyphen" -> ~OldLess(u, v) /\ (~OldLess(w, u) \/ Within(u, w, q.w))
        [] q.rule = "<"  -> OldLess(u, v)
        [] q.rule = "<=" -> ~OldLess(v, u)
        [] q.rule = ">"  -> OldLess(v, u)
        [] q.rule = ">=" -> ~OldLess(u, v)
        [] q.rule = "="  -> u = v
        [] q.rule = "!=" -> u # v
        [] q.rule = "interval_to" -> OldLess(u, w) \/ (~q.openRight /\ u = w)
        [] q.rule \in {"interval", "interval_from"} ->
             /\ OldLess(v, u) \/ (~q.open /\ u = v)
             /\ q.rule = "interval" /\ v = ZeroNumbers /\ q.open => u # OldMin
             /\ q.rule = "interval" => OldLess(u, w) \/ (~q.openRight /\ u = w)

(* A range stands for exactly the versions it is meant for, if there are    *)
(* any: the sides of one that allows none are swapped, or stay where they   *)
(* cannot be stepped.  But "1.2 - 1" and "1 - x" are swapped too, and min() *)
(* and max() cannot be left out by !=.  (0,1] begins behind min().  The     *)
(* parser refuses ^x and ~x, and leaves the vector for zeros that are left  *)
(* out and for ^0.0.0 (range.yy:46-81, 150-400).                            *)
Shortened(s, t) ==
  LET begins == SelectSeq(t, LAMBDA n : n # Wildcard)
  IN  Len(begins) < Len(s) /\ begins = SubSeq(s, 1, Len(begins))
OldRangesMean ==
  oldQuery.rule # "printed" =>
    /\ oldAnswer.outcome = "ok" =>
         \/ \A u \in OldVersions : OldRangeHolds(oldAnswer.pairs, u) <=> OldMeans(oldQuery, u)
         \/ \A u \in OldVersions : ~OldMeans(oldQuery, u)
         \/ oldQuery.rule = "hyphen" /\ Shortened(oldQuery.v, oldQuery.w)
         \/ oldQuery.rule = "!=" /\ Prepared(NumbersGiven(oldQuery.v), 0) \in {OldMin, OldMax}
    /\ oldAnswer.outcome = "undefined" =>
         \A u \in OldVersions : ~OldMeans(oldQuery, u) \/ oldQuery.rule = "!="
    /\ oldAnswer.outcome = "refused" => oldQuery.v[1] = Wildcard

(* What is printed of an interval is read back as the same interval, except *)
(* that a single version printed without its last zeros stands for all      *)
(* versions that begin so (version_range.cpp:156-225).                      *)
OldPrintedReadsBack ==
  oldQuery.rule = "printed" /\ oldAnswer.outcome = "ok" =>
    \/ oldAnswer.pairs = <<oldQuery.pair>>
    \/ /\ oldQuery.form # "default" /\ oldQuery.pair.first = oldQuery.pair.second
       /\ oldQuery.pair.first[OldLevel] = 0
=============================================================================
