--------------------------- MODULE MCIssuerAccess ---------------------------
(***************************************************************************)
(* IssuerAccess for TLC: one issuer with a CUIT of its own and a           *)
(* representative, and two calls at a time, each made again and again.     *)
(***************************************************************************)
EXTENDS IssuerAccessProperties, TLC

CONSTANTS p1, p2, shop, own, representative

OwnCuitOfShop == [i \in Issuers |-> own]
AnyCall == Permutations(Calls)
=============================================================================
