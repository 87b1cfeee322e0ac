--------------------------- MODULE VersionSyntax ---------------------------
(***************************************************************************)
(* The actions of the range grammar (range.yy): what pairs of versions one  *)
(* range such as ^1.2, ~1.2.3, 1.2.*, 1 - 2, >=1 or (1,2] stands for.       *)
(*                                                                         *)
(* A written version is its numbers, AnyNumber for x, X or *, and an extra  *)
(* part.                                                                    *)
(***************************************************************************)
EXTENDS Version

CONSTANTS Queries       (* the ranges written                                *)

VARIABLES query,        (* [rule, v, w, open, openRight]: the range written, *)
                        (* or [rule, pair, form]: the pair printed           *)
          answer        (* [outcome, pairs]: what the parser makes of it     *)

syntaxVars == <<query, answer>>

AnyNumber == -1
CompareRules == {"<", "<=", ">", ">=", "=", "!="}
IntervalRules == {"interval", "interval_from", "interval_to"}
Rules == {"version", "caret", "tilde", "hyphen"} \union CompareRules \union IntervalRules
         \union {"printed"}
PairForms == {"default", "real"}

Nothing == [outcome |-> "none", pairs |-> <<>>]
Throws == [outcome |-> "throws", pairs |-> <<>>]
Undefined == [outcome |-> "undefined", pairs |-> <<>>]

-----------------------------------------------------------------------------
(* RangePair                                                                *)

Pair(v, strong1, w, strong2) ==
  [first |-> v, strong1 |-> strong1, second |-> w, strong2 |-> strong2]

(* The constructor throws when the sides are in the wrong order, and when   *)
(* they are the same with one left out.                                     *)
PairValid(p) ==
  /\ ~Less(p.second, p.first)
  /\ Same(p.first, p.second) => ~p.strong1 /\ ~p.strong2

PairContains(p, u) ==
  /\ IF p.strong1 THEN Less(p.first, u) ELSE LessOrSame(p.first, u)
  /\ IF p.strong2 THEN Less(u, p.second) ELSE LessOrSame(u, p.second)

Pairs(s) ==
  IF \A i \in DOMAIN s : PairValid(s[i]) THEN [outcome |-> "ok", pairs |-> s]
                                         ELSE Throws

(* Up to the version that follows v, which ++ must be able to reach.        *)
UpToNext(v, strong1, u) ==
  IF CanIncrement(u) THEN Pairs(<<Pair(v, strong1, Incremented(u), TRUE)>>)
                     ELSE Undefined

-----------------------------------------------------------------------------
(* The rules                                                                *)

(* basic_version: a number x is dropped wherever it is.                     *)
NumbersRead(s) == SelectSeq(s, LAMBDA n : n # AnyNumber)
Read(t) == [numbers |-> NumbersRead(t.numbers), extra |-> t.extra]
WithoutExtra(v) == Release(v.numbers)

(* version: no extra part on a version that is zero.                        *)
Accepted(t) == t.extra = None \/ ~Same(WithoutExtra(Read(t)), VersionMin)

VersionRule(v) ==
  IF v.numbers = <<>> THEN Pairs(<<Pair(VersionMin, TRUE, VersionMax, TRUE)>>)
                      ELSE UpToNext(v, FALSE, WithoutExtra(v))

CaretFirst(s) == Resized(s, 1)

(* The numbers up to the first that is not zero, all of them without one.   *)
CaretPrefix(s) ==
  IF \E i \in DOMAIN s : s[i] # 0
  THEN Resized(s, CHOOSE i \in DOMAIN s : s[i] # 0 /\ \A j \in 1..(i - 1) : s[j] = 0)
  ELSE s
CaretRule(v) == UpToNext(v, FALSE, Release(CaretPrefix(v.numbers)))

TildePrefix(s) == IF Len(s) > 2 THEN Resized(s, 2) ELSE s
TildeRule(v) == UpToNext(v, FALSE, Release(TildePrefix(v.numbers)))

HyphenRule(v, w) == UpToNext(v, FALSE, w)

CompareRule(op, v) ==
  Pairs(CASE op = "<"  -> <<Pair(VersionMin, TRUE, v, TRUE)>>
          [] op = "<=" -> <<Pair(VersionMin, TRUE, v, FALSE)>>
          [] op = ">"  -> <<Pair(v, TRUE, VersionMax, TRUE)>>
          [] op = ">=" -> <<Pair(v, FALSE, VersionMax, TRUE)>>
          [] op = "="  -> <<Pair(v, FALSE, v, FALSE)>>
          [] op = "!=" -> <<Pair(VersionMin, TRUE, v, TRUE), Pair(v, TRUE, VersionMax, TRUE)>>)

IntervalRule(form, v, w, l, r) ==
  Pairs(CASE form = "interval"      -> <<Pair(v, l, w, r)>>
          [] form = "interval_from" -> <<Pair(v, l, VersionMax, TRUE)>>
          [] form = "interval_to"   -> <<Pair(VersionMin, TRUE, w, r)>>)

Rule(q) ==
  LET v == Read(q.v)
      w == Read(q.w)
  IN  IF ~Accepted(q.v) \/ ~Accepted(q.w) THEN Throws
      ELSE CASE q.rule = "version"         -> VersionRule(v)
             [] q.rule = "caret"           -> CaretRule(v)
             [] q.rule = "tilde"           -> TildeRule(v)
             [] q.rule = "hyphen"          -> HyphenRule(v, w)
             [] q.rule \in CompareRules    -> CompareRule(q.rule, v)
             [] q.rule \in IntervalRules   -> IntervalRule(q.rule, v, w, q.open, q.openRight)

-----------------------------------------------------------------------------
(* toString: the sides that are not min() and max(), each to its level, and *)
(* the text read again: what both comparisons allow.                        *)

PrintedSide(op, strict, v, form) ==
  [rule |-> IF strict THEN op ELSE op \o "=",
   v |-> [numbers |-> Printed(v, IF form = "default" THEN DefaultLevel ELSE RealLevel(v)),
          extra |-> v.extra]]

PrintedPairClosed(p, form) ==
  <<PrintedSide(">", FALSE, p.first, form), PrintedSide("<", p.strong2, p.second, form)>>
PrintedPair(p, form) ==
  LET left == Less(VersionMin, p.first)
      right == Less(p.second, VersionMax)
      one == ~p.strong1 /\ ~p.strong2 /\ Same(p.first, p.second)
      from == PrintedSide(">", p.strong1, p.first, form)
      to == PrintedSide("<", p.strong2, p.second, form)
  IN  CASE left /\ right /\ one  -> <<[from EXCEPT !.rule = "="]>>
        [] left /\ right /\ ~one -> <<from, to>>
        [] left /\ ~right -> <<from>>
        [] ~left /\ right -> <<to>>
        [] ~left /\ ~right -> <<[rule |-> "version", v |-> Release(<<AnyNumber>>)]>>

Conjunct(c) ==
  IF ~Accepted(c.v) THEN Throws
  ELSE IF c.rule = "version" THEN VersionRule(Read(c.v)) ELSE CompareRule(c.rule, Read(c.v))
Both(p, q) == Pair(p.first, p.strong1, q.second, q.strong2)
ReadConjuncts(cs) ==
  IF Len(cs) = 1 THEN Conjunct(cs[1])
  ELSE LET from == Conjunct(cs[1])
           to == Conjunct(cs[2])
       IN  IF from.outcome = "ok" /\ to.outcome = "ok"
           THEN Pairs(<<Both(from.pairs[1], to.pairs[1])>>) ELSE Throws

-----------------------------------------------------------------------------
SyntaxInit ==
  /\ query \in Queries
  /\ answer = Nothing

Parse ==
  /\ answer = Nothing
  /\ answer' = IF query.rule = "printed" THEN ReadConjuncts(PrintedPair(query.pair, query.form))
                                         ELSE Rule(query)
  /\ UNCHANGED query

SyntaxNext == Parse

-----------------------------------------------------------------------------
SyntaxTypeOK ==
  /\ query.rule \in Rules
  /\ answer.outcome \in {"none", "ok", "throws", "undefined"}
  /\ \A i \in DOMAIN answer.pairs : PairValid(answer.pairs[i])

(* What a reader of semver and of the grammar's comments expects of each    *)
(* rule, of a release u: numbers that agree, never ++.                      *)
Agree(u, s) == Resized(u.numbers, Len(s)) = s
AtLeast(u, v) == LessOrSame(v, u)
FirstNonZero(s) == {i \in DOMAIN s : s[i] # 0 /\ \A j \in 1..(i - 1) : s[j] = 0}

Means(q, u) ==
  LET v == Read(q.v)
      w == Read(q.w)
      s == v.numbers
  IN  CASE q.rule = "version" -> IF s = <<>> THEN Less(VersionMin, u)
                                 ELSE AtLeast(u, v) /\ Agree(u, s)
        [] q.rule = "caret" ->
             /\ AtLeast(u, v)
             /\ \A k \in FirstNonZero(s) : Agree(u, SubSeq(s, 1, k))
             /\ FirstNonZero(s) = {} => Agree(u, s)
        [] q.rule = "tilde" ->
             /\ AtLeast(u, v)
             /\ Agree(u, SubSeq(s, 1, IF Len(s) > 2 THEN 2 ELSE Len(s)))
        [] q.rule = "hyphen" -> AtLeast(u, v) /\ (Less(u, w) \/ Agree(u, w.numbers))
        [] q.rule = "<"  -> Less(VersionMin, u) /\ Less(u, v)
        [] q.rule = "<=" -> Less(VersionMin, u) /\ LessOrSame(u, v)
        [] q.rule = ">"  -> Less(v, u)
        [] q.rule = ">=" -> AtLeast(u, v)
        [] q.rule = "="  -> Same(u, v)
        [] q.rule = "!=" -> Less(VersionMin, u) /\ ~Same(u, v)
        [] q.rule \in IntervalRules ->
             /\ IF q.rule = "interval_to" THEN Less(VersionMin, u)
                ELSE Less(v, u) \/ (~q.open /\ Same(u, v))
             /\ q.rule # "interval_from" =>
                  Less(u, w) \/ (~q.openRight /\ Same(u, w))

(* Every range stands for exactly the releases it is meant for, whatever    *)
(* carries when the upper end is stepped up; and a range that is refused is *)
(* one that nothing satisfies, or has an extra part on zero, or is !=0,     *)
(* whose lower half is empty (range.yy:88-262).                             *)
RangesMean ==
  query.rule # "printed" =>
    /\ answer.outcome = "ok" =>
         \A u \in Releases :
           (\E i \in DOMAIN answer.pairs : PairContains(answer.pairs[i], u)) <=> Means(query, u)
    /\ answer.outcome = "throws" =>
         \/ ~Accepted(query.v) \/ ~Accepted(query.w)
         \/ query.rule = "!=" /\ Same(Read(query.v), VersionMin)
         \/ \A u \in Releases : ~Means(query, u)

(* What is printed of a pair is read back as a pair with the same releases, *)
(* at the default level and without the last zeros, but for one that holds  *)
(* zero alone: "=0" is printed as "<=0", which is refused                   *)
(* (version_range.cpp:35-51, 168-199).                                      *)
PairsReadBack ==
  query.rule = "printed" /\ answer # Nothing =>
    \/ /\ answer.outcome = "ok"
       /\ \A u \in Releases : Less(VersionMin, u) =>
            (PairContains(answer.pairs[1], u) <=> PairContains(query.pair, u))
    \/ Same(WithoutExtra(query.pair.second), VersionMin)
=============================================================================
