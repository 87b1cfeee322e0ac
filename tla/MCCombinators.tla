---------------------------- MODULE MCCombinators ----------------------------
(* A whenAll and a whenAny over the same futures; two whenAny over the same *)
(* futures; the same in opposite orders, which may lock each other out; an  *)
(* empty whenAll and an empty whenAny.                                      *)
EXTENDS Combinators, TLC

CONSTANTS l1, l2, c1, c2

TwoLeaves == {l1, l2}
TwoCallers == {c1, c2}

WhenAll(f) == [kind |-> "all", futures |-> f]
WhenAny(f) == [kind |-> "any", futures |-> f]

MCRequests ==
  {c1 :> WhenAll(<<l1, l2>>) @@ c2 :> WhenAny(<<l1, l2>>),
   c1 :> WhenAny(<<l1, l2>>) @@ c2 :> WhenAny(<<l1, l2>>),
   c1 :> WhenAll(<<l1, l2>>) @@ c2 :> WhenAny(<<l2, l1>>),
   c1 :> WhenAll(<<>>)       @@ c2 :> WhenAny(<<>>)}

LateRequests == {c1 :> WhenAll(<<l1, l2>>) @@ c2 :> WhenAll(<<>>)}
IndexRequests == {c1 :> WhenAny(<<l1, l2>>) @@ c2 :> WhenAll(<<>>)}
=============================================================================
