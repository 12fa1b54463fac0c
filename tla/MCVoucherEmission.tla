-------------------------- MODULE MCVoucherEmission --------------------------
(***************************************************************************)
(* Instances of VoucherEmission for TLC.  `key' is one Idempotency-Key     *)
(* posted twice; `plain' and `other' come from the app, which sends none.  *)
(***************************************************************************)
EXTENDS VoucherEmissionProperties, TLC

CONSTANTS r1, r2, r3, key, plain, other, shop, twin, cuit, big, small

\* Requests to documents: a key posted twice, and an invoice without one.
KeyTwice == [r \in Requests |-> IF r = r3 THEN plain ELSE key]
\* The two posts of the key are interchangeable.
PostsOfKey == Permutations({r1, r2})
\* Three invoices without a key, one POST each.
OneEach == [r \in Requests |-> CASE r = r1 -> plain [] r = r2 -> other [] r = r3 -> key]

OneIssuer == [d \in Docs |-> shop]
\* The same taxpayer loaded by two users: two issuers, one numbering series.
TwoIssuers == [d \in Docs |-> IF d = plain THEN twin ELSE shop]
OneCuit == [i \in Issuers |-> cuit]

AllDistinct == [d \in Docs |-> IF d = key THEN big ELSE small]
\* Equal totals to the same recipient: a shop selling to "consumidor final".
AllAlike == [d \in Docs |-> small]
==============================================================================
