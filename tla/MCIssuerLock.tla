---------------------------- MODULE MCIssuerLock ----------------------------
(* Three calls for one issuer and two for another. *)
EXTENDS IssuerLock

CONSTANTS t1, t2, t3, t4, t5, shop, farm

TwoKeys == [t \in Tasks |-> IF t \in {t1, t2, t3} THEN shop ELSE farm]
=============================================================================
