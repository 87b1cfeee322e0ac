--------------------------- MODULE VersionRange ---------------------------
(***************************************************************************)
(* detail::RangePair and VersionRange (version_range.h, version_range.cpp): *)
(* an interval of versions, and a vector of intervals with |, & and         *)
(* contains.                                                                *)
(*                                                                         *)
(* Versions are the points 0..2*LastEnd: the ends of intervals are the even *)
(* ones, and an odd one stands for the versions between two ends.           *)
(***************************************************************************)
EXTENDS Integers, Sequences, FiniteSets

CONSTANTS LastEnd,      (* the greatest end of an interval is 2 * LastEnd    *)
          RangeNames,   (* the VersionRange objects                          *)
          MaxCalls      (* bound: how many operations change each object     *)

ASSUME RangeAssumption ==
  LastEnd \in Nat /\ MaxCalls \in [RangeNames -> Nat]

VARIABLES ranges,       (* the vector of each object                         *)
          meant,        (* the versions each object should hold              *)
          calls,        (* how many operations changed each                  *)
          rightEnds     (* the right ends <<version, open>> ever given       *)

rangeVars == <<ranges, meant, calls, rightEnds>>

Points == 0..(2 * LastEnd)
Ends == {2 * i : i \in 0..LastEnd}

(* The public constructor of RangePair throws for the others.              *)
RangePairs ==
  {p \in [first : Ends, open1 : BOOLEAN, second : Ends, open2 : BOOLEAN] :
     /\ p.first <= p.second
     /\ p.first = p.second => ~p.open1 /\ ~p.open2}

(* What an interval may become: the private constructor checks nothing.    *)
AnyPairs == [first : Ends, open1 : BOOLEAN, second : Ends, open2 : BOOLEAN]

Holds(p, x) ==
  /\ IF p.open1 THEN p.first < x ELSE p.first <= x
  /\ IF p.open2 THEN x < p.second ELSE x <= p.second

-----------------------------------------------------------------------------
(* RangePair: & and |                                                       *)

(* Sides compare as tie(v, strong_relation), right sides too.              *)
SideLess(v, open, w, openW) == v < w \/ (v = w /\ ~open /\ openW)

LeftLess(p, q) == SideLess(p.first, p.open1, q.first, q.open1)
RightLess(p, q) == SideLess(p.second, p.open2, q.second, q.open2)

Later(p, q)    == IF LeftLess(p, q) THEN q ELSE p    (* std::max of first  *)
Earlier(p, q)  == IF LeftLess(q, p) THEN q ELSE p    (* std::min of first  *)
Sooner(p, q)   == IF RightLess(q, p) THEN q ELSE p   (* std::min of second *)
Farther(p, q)  == IF RightLess(p, q) THEN q ELSE p   (* std::max of second *)

Spanning(l, r) == [first |-> l.first, open1 |-> l.open1,
                   second |-> r.second, open2 |-> r.open2]

Meet(p, q) == Spanning(Later(p, q), Sooner(p, q))
Join(p, q) == Spanning(Earlier(p, q), Farther(p, q))

Overlap(p, q) ==
  LET m == Meet(p, q)
  IN  m.first < m.second \/ (m.first = m.second /\ ~m.open1 /\ ~m.open2)

(* Two intervals with one point between them that is in at least one.      *)
JoinableOpen(p, q) ==
  LET m == Meet(p, q) IN m.first <= m.second
JoinableStrict(p, q) ==
  LET m == Meet(p, q) IN m.first < m.second
Joinable(p, q) ==
  LET m == Meet(p, q)
  IN  m.first < m.second \/ (m.first = m.second /\ (~m.open1 \/ ~m.open2))

-----------------------------------------------------------------------------
(* VersionRange: |= of an interval                                          *)

LastOf(s) == s[Len(s)]
WithLast(s, p) == [s EXCEPT ![Len(s)] = p]

(* The first interval that does not end before p begins.                   *)
Place(s, p) ==
  LET reached == {i \in DOMAIN s : s[i].second >= p.first}
  IN  IF reached = {} THEN Len(s) + 1
      ELSE CHOOSE i \in reached : \A j \in reached : i <= j

(* The loop once something was added: every interval after it is merged    *)
(* with the one before, until there is a gap.  s is done up to its end,    *)
(* rest[i] is next.                                                        *)
MergedOn(before, rest) ==
  LET M[i \in 1..(Len(rest) + 1)] ==
        (* [s, open]: the vector up to rest[i - 1]; no gap seen yet        *)
        IF i = 1 THEN [s |-> before, open |-> TRUE]
        ELSE LET m == M[i - 1]
                 p == rest[i - 1]
                 l == LastOf(m.s)
             IN  IF m.open /\ l.second >= p.first
                 THEN [s |-> IF Joinable(l, p) THEN WithLast(m.s, Join(l, p))
                                               ELSE Append(m.s, p),
                       open |-> TRUE]
                 ELSE [s |-> Append(m.s, p), open |-> FALSE]
  IN  M[Len(rest) + 1].s

(* An interval that belongs before s[k] is inserted there, and, as added    *)
(* is still false behind the break, at the end of the vector too.          *)
AddPair(s, p) ==
  LET k == Place(s, p)
      before == SubSeq(s, 1, k - 1)
      rest == SubSeq(s, k + 1, Len(s))
  IN  IF k > Len(s) THEN Append(s, p)
      ELSE IF s[k].first > p.second THEN Append(before \o <<p, s[k]>> \o rest, p)
      ELSE IF Joinable(s[k], p) THEN MergedOn(Append(before, Join(s[k], p)), rest)
      ELSE MergedOn(before \o <<s[k], p>>, rest)

AddAll(s, t) ==
  LET A[i \in 0..Len(t)] == IF i = 0 THEN s ELSE AddPair(A[i - 1], t[i])
  IN  A[Len(t)]

(* &=: the intervals of the nested loops, in their order, added by |=.     *)
Common(s, t) ==
  LET n == Len(s) * Len(t)
      Of(k) == <<s[((k - 1) \div Len(t)) + 1], t[((k - 1) % Len(t)) + 1]>>
      C[k \in 0..n] ==
        IF k = 0 THEN <<>>
        ELSE LET pq == Of(k)
             IN  IF Overlap(pq[1], pq[2]) THEN AddPair(C[k - 1], Meet(pq[1], pq[2]))
                 ELSE C[k - 1]
  IN  C[n]

RangeHolds(s, x) == \E i \in DOMAIN s : Holds(s[i], x)
Contents(s) == {x \in Points : RangeHolds(s, x)}

(* contains(range): (this & r) == r.                                        *)
ContainsRange(s, t) == Common(s, t) = t

-----------------------------------------------------------------------------
(* The machine                                                              *)

RangeInit ==
  /\ ranges = [o \in RangeNames |-> <<>>]
  /\ meant = [o \in RangeNames |-> {}]
  /\ calls = [o \in RangeNames |-> 0]
  /\ rightEnds = {}

Set(o, s, points) ==
  /\ calls[o] < MaxCalls[o]
  /\ calls' = [calls EXCEPT ![o] = @ + 1]
  /\ ranges' = [ranges EXCEPT ![o] = s]
  /\ meant' = [meant EXCEPT ![o] = points]

(* operator|=(const RangePair &)                                            *)
UnitePair(o, p) ==
  /\ Set(o, AddPair(ranges[o], p), meant[o] \union {x \in Points : Holds(p, x)})
  /\ rightEnds' = rightEnds \union {<<p.second, p.open2>>}

(* operator|=(const VersionRange &)                                         *)
UniteRange(o, q) ==
  /\ o # q
  /\ Set(o, AddAll(ranges[o], ranges[q]), meant[o] \union meant[q])
  /\ UNCHANGED rightEnds

(* operator&=(const VersionRange &)                                         *)
IntersectRange(o, q) ==
  /\ o # q
  /\ Set(o, Common(ranges[o], ranges[q]), meant[o] \intersect meant[q])
  /\ UNCHANGED rightEnds

RangeNext ==
  \E o \in RangeNames :
    \/ \E p \in RangePairs : UnitePair(o, p)
    \/ \E q \in RangeNames : UniteRange(o, q) \/ IntersectRange(o, q)

-----------------------------------------------------------------------------
RangeTypeOK ==
  /\ ranges \in [RangeNames -> Seq(AnyPairs)]
  /\ meant \in [RangeNames -> SUBSET Points]
  /\ calls \in [RangeNames -> Nat]

(* A version that is the right end both of an interval with it and of one   *)
(* without it: the wrong one of two such ends is chosen (see SideLess).     *)
Contested(x) == {<<x, TRUE>>, <<x, FALSE>>} \subseteq rightEnds

(* However intervals are added, whatever is merged, inserted or left twice, *)
(* and however ranges are united and intersected: a range holds the         *)
(* versions of the union or intersection of the sets, but for a right end   *)
(* given both as included and as excluded (version_range.cpp:55-95,         *)
(* 346-425).                                                                *)
RangesHoldUnions ==
  \A o \in RangeNames : \A x \in Points :
    RangeHolds(ranges[o], x) # (x \in meant[o]) => Contested(x)

(* "always sorted with less" (version_range.h:137).                         *)
Sorted(s) == \A i \in 2..Len(s) : s[i - 1].second <= s[i].first
AlwaysSorted == \A o \in RangeNames : Sorted(ranges[o])

(* As |= leaves intervals added from the lowest up: sorted, with nothing   *)
(* left to merge.                                                          *)
Merged(s) == Sorted(s) /\ \A i \in 2..Len(s) : ~Joinable(s[i - 1], s[i])

(* Intersecting two merged ranges gives a merged one; and contains says     *)
(* exactly that the versions of one are among those of the other, which     *)
(* rests on the merging of intervals that only touch (version_range.cpp:    *)
(* 346-425).                                                                *)
MergedRangesCompare ==
  \A o, q \in RangeNames :
    LET s == ranges[o]
        t == ranges[q]
    IN  Merged(s) /\ Merged(t) =>
          /\ Merged(Common(s, t))
          /\ (\A x \in Points : ~Contested(x)) =>
               (ContainsRange(s, t) <=> Contents(t) \subseteq Contents(s))
=============================================================================
