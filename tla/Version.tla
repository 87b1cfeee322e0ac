------------------------------ MODULE Version ------------------------------
(***************************************************************************)
(* struct Version (version.h, version.cpp): a list of numbers and an extra  *)
(* part, compared, stepped up and down, printed and spelled in letters.     *)
(*                                                                         *)
(* An extra part is its rank among the extra parts; None is the empty one.  *)
(* The definitions of this module's machine carry the prefix Version, so    *)
(* that one module can extend several of these.                             *)
(***************************************************************************)
EXTENDS Integers, Sequences, FiniteSets

CONSTANTS MaxNumber,    (* Version::maxNumber(), 999'999'999 in the code     *)
          MaxLevel,     (* bound: the longest list of numbers                *)
          Extras,       (* ranks of the extra parts considered               *)
          Letters       (* how many letters there are, 26 in the code        *)

ASSUME VersionAssumption ==
  /\ MaxNumber \in Nat \ {0} /\ MaxLevel \in Nat \ {0}
  /\ Extras \subseteq Nat \ {0}
  /\ Letters \in Nat \ {0, 1}

VARIABLES version,      (* the object                                        *)
          outcome       (* how its last operation ended                      *)

versionVars == <<version, outcome>>

None == 0
DefaultLevel == 3

Numbers == UNION {[1..l -> 0..MaxNumber] : l \in 0..MaxLevel}
Versions == [numbers : Numbers, extra : Extras \union {None}]
Releases == {v \in Versions : v.extra = None}
Release(s) == [numbers |-> s, extra |-> None]

VersionMin == Release(<<0>>)
VersionMax == Release(<<MaxNumber + 1>>)

-----------------------------------------------------------------------------
(* Comparison                                                               *)

(* numbers.resize: zeros are added, or the end is cut off.                  *)
Resized(s, n) == [i \in 1..n |-> IF i <= Len(s) THEN s[i] ELSE 0]

LexLess(s, t) ==
  \E i \in 1..Len(s) : s[i] < t[i] /\ \A j \in 1..(i - 1) : s[j] = t[j]

(* 1.2.3-rc1 comes before 1.2.3.  (Here and below, a definition named after *)
(* a mistake is the variant a mutant run puts in the place of the next.)    *)
ExtraLessPlain(a, b) == a < b
ExtraLess(a, b) == a # None /\ (b = None \/ a < b)

Longer(v, w) == IF Len(v.numbers) > Len(w.numbers) THEN Len(v.numbers)
                                                   ELSE Len(w.numbers)

Same(v, w) == /\ Resized(v.numbers, Longer(v, w)) = Resized(w.numbers, Longer(v, w))
              /\ v.extra = w.extra

Less(v, w) ==
  LET s == Resized(v.numbers, Longer(v, w))
      t == Resized(w.numbers, Longer(v, w))
  IN  LexLess(s, t) \/ (s = t /\ ExtraLess(v.extra, w.extra))

LessOrSame(v, w) == ~Less(w, v)

-----------------------------------------------------------------------------
(* Stepping.  Both loops go left over the numbers that carry; without one   *)
(* that does not, they leave the list: undefined behaviour.                 *)

CanIncrement(v) == Same(v, VersionMax)
                   \/ \E i \in DOMAIN v.numbers : v.numbers[i] # MaxNumber
CanDecrement(v) == Same(v, VersionMin)
                   \/ \E i \in DOMAIN v.numbers : v.numbers[i] # 0

(* The last number that does not carry.                                     *)
Carrier(s, full) ==
  CHOOSE i \in DOMAIN s : s[i] # full /\ \A j \in (i + 1)..Len(s) : s[j] = full

Stepped(s, full, empty, d) ==
  LET c == Carrier(s, full)
  IN  [i \in DOMAIN s |-> IF i < c THEN s[i] ELSE IF i = c THEN s[i] + d ELSE empty]

(* The mutant: the carry leaves the numbers it passed as they were.         *)
IncrementedKeeping(v) ==
  IF Same(v, VersionMax) THEN v
  ELSE [v EXCEPT !.numbers = [@ EXCEPT ![Carrier(@, MaxNumber)] = @ + 1]]
Incremented(v) ==
  IF Same(v, VersionMax) THEN v
  ELSE [v EXCEPT !.numbers = Stepped(@, MaxNumber, 0, 1)]

Decremented(v) ==
  IF Same(v, VersionMin) THEN v
  ELSE [v EXCEPT !.numbers = Stepped(@, 0, MaxNumber, -1)]

(* setFirstVersion: at least three numbers, not all zero.                   *)
FirstVersion(v) ==
  LET s == Resized(v.numbers, IF Len(v.numbers) < DefaultLevel THEN DefaultLevel
                                                               ELSE Len(v.numbers))
  IN  [v EXCEPT !.numbers =
         IF \A i \in DOMAIN s : s[i] = 0 THEN [s EXCEPT ![Len(s)] = 1] ELSE s]

(* checkValidity throws on a version of zeros (of no number, too).          *)
Valid(v) == \E i \in DOMAIN v.numbers : v.numbers[i] # 0

-----------------------------------------------------------------------------
(* Printing                                                                 *)

Level(v) == Len(v.numbers)

(* get: levels count from 1.                                                *)
Number(v, level) == IF level > Level(v) THEN 0 ELSE v.numbers[level]

(* The level up to the last number that is not zero.                        *)
RealLevel(v) ==
  IF Valid(v)
  THEN CHOOSE l \in DOMAIN v.numbers :
         v.numbers[l] # 0 /\ \A j \in (l + 1)..Level(v) : v.numbers[j] = 0
  ELSE 0

(* printVersion: the numbers printed, of every real level, then zeros.      *)
PrintedToLevel(v, level) == Resized(v.numbers, level)
Printed(v, level) ==
  Resized(v.numbers, IF level > RealLevel(v) THEN level ELSE RealLevel(v))

(* Reading a printed version back, where something was printed.             *)
ReadBack(s, extra) == [numbers |-> s, extra |-> extra]

(* create_latin_replacements: a, b, ..., z, aa, ab, ...  A letter is its    *)
(* index.  p and c of the loop: how many words are c letters long, and the  *)
(* rest of n after all shorter ones.                                        *)
WordLength(n) ==
  LET After[c \in 1..(n + 1), k \in 0..n] ==
        IF k < Letters ^ c THEN <<c, k>> ELSE After[c + 1, k - Letters ^ c]
  IN  After[1, n]

DigitsOf(k) ==
  LET From[j \in 0..k] == IF j < Letters THEN <<j>>
                          ELSE Append(From[j \div Letters], j % Letters)
  IN  From[k]

LatinUnpadded(n) == DigitsOf(WordLength(n)[2])
Latin(n) ==
  LET c == WordLength(n)[1]
      s == DigitsOf(WordLength(n)[2])
  IN  [i \in 1..(c - Len(s)) |-> 0] \o s
-----------------------------------------------------------------------------
(* The machine: one object and the operations that change it.               *)

VersionInit ==
  /\ version \in Versions \union {VersionMax}
  /\ outcome = "new"

Increment ==
  /\ outcome # "undefined"
  /\ \/ /\ CanIncrement(version)
        /\ version' = Incremented(version)
        /\ outcome' = "incremented"
     \/ /\ ~CanIncrement(version)
        /\ outcome' = "undefined"
        /\ UNCHANGED version

Decrement ==
  /\ outcome # "undefined"
  /\ \/ /\ CanDecrement(version)
        /\ version' = Decremented(version)
        /\ outcome' = "decremented"
     \/ /\ ~CanDecrement(version)
        /\ outcome' = "undefined"
        /\ UNCHANGED version

SetFirstVersion ==
  /\ outcome # "undefined"
  /\ version' = FirstVersion(version)
  /\ outcome' = "set"

CheckValidity ==
  /\ outcome # "undefined"
  /\ outcome' = IF Valid(version) THEN "valid" ELSE "threw"
  /\ UNCHANGED version

VersionNext == Increment \/ Decrement \/ SetFirstVersion \/ CheckValidity

-----------------------------------------------------------------------------
VersionTypeOK ==
  /\ Len(version.numbers) <= MaxLevel \/ Len(version.numbers) = DefaultLevel
  /\ version.extra \in Extras \union {None}
  /\ outcome \in {"new", "incremented", "decremented", "set", "valid", "threw", "undefined"}

(* A version as a number, in a base no number of it reaches.               *)
Value(v) ==
  LET L == IF Level(v) > MaxLevel THEN Level(v) ELSE MaxLevel
      V[i \in 0..L] == IF i = 0 THEN 0
                       ELSE V[i - 1] * (MaxNumber + 2) + Number(v, i)
  IN  V[L]

(* Comparison orders versions as numbers of one length, whatever lengths    *)
(* they are written with, a release after all its pre-releases; any two     *)
(* versions are related in exactly one way (version.cpp:280-317).           *)
VersionsOrdered ==
  \A w \in Versions \union {VersionMax} :
    /\ Less(version, w) <=>
         \/ Value(version) < Value(w)
         \/ /\ Value(version) = Value(w)
            /\ \/ version.extra # None /\ w.extra = None
               \/ None \notin {version.extra, w.extra} /\ version.extra < w.extra
    /\ Same(version, w) <=> (~Less(version, w) /\ ~Less(w, version))

Between(v, w) == {u \in Versions : /\ Level(u) = Level(v) /\ u.extra = v.extra
                                   /\ Less(v, u) /\ Less(u, w)}

(* One step of ++ or --.                                                    *)
AdjacentStep ==
  /\ outcome' = "incremented" =>
       \/ version' = version /\ Same(version, VersionMax)
       \/ Less(version, version') /\ Between(version, version') = {}
  /\ outcome' = "decremented" =>
       \/ version' = version /\ Same(version, VersionMin)
       \/ Less(version', version) /\ Between(version', version) = {}
  /\ outcome' \in {"incremented", "decremented"} =>
       Level(version') = Level(version) /\ version'.extra = version.extra

(* ++ goes to the next version of the same level and extra part, -- to the  *)
(* one before, with nothing between, except at max() and min(), where they  *)
(* stay; the level and the extra part never change (version.cpp:383-407).   *)
StepsAreAdjacent == [][AdjacentStep]_versionVars

(* What is printed at any level reads back as the same version: printing    *)
(* never drops a number that is not zero (version.cpp:196-208).             *)
PrintedReadsBack ==
  \A level \in 1..(MaxLevel + 1) :
    Same(ReadBack(Printed(version, level), version.extra), version)

NextWord(s, t) ==
  \/ /\ Len(t) = Len(s)
     /\ \E i \in DOMAIN s :
          /\ t[i] = s[i] + 1
          /\ \A j \in 1..(i - 1) : t[j] = s[j]
          /\ \A j \in (i + 1)..Len(s) : s[j] = Letters - 1 /\ t[j] = 0
  \/ /\ Len(t) = Len(s) + 1
     /\ \A i \in DOMAIN s : s[i] = Letters - 1
     /\ \A i \in DOMAIN t : t[i] = 0

(* Names in letters are the words over the alphabet by length and then by   *)
(* letter, each used once and none skipped (version.cpp:413-436).           *)
WordsInOrder ==
  /\ Latin(0) = <<0>>
  /\ \A n \in 0..(Letters ^ 3 + Letters ^ 2) : NextWord(Latin(n), Latin(n + 1))

(* Both directions of writing a version lose nothing.                      *)
VersionsPrintedAndSpelled == PrintedReadsBack /\ WordsInOrder
=============================================================================
