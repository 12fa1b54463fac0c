----------------------------- MODULE MCSessions -----------------------------
(***************************************************************************)
(* Sessions for TLC: two calls at a time, each made again and again.       *)
(***************************************************************************)
EXTENDS SessionsProperties, TLC

CONSTANTS c1, c2
\* Bound: TLC goes no further from a state where a third JWT has expired, or
\* where a token other than the first was in use by two handlers at once.
FewSpent == stale <= 2 /\ contested \subseteq {1}

AnyCall == Permutations(Calls)
=============================================================================
