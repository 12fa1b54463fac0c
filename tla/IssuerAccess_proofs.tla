------------------------- MODULE IssuerAccess_proofs -------------------------
(***************************************************************************)
(* What the issuer's set-up keeps for any number of calls, issuers,        *)
(* holders and keys.                                                       *)
(***************************************************************************)
EXTENDS IssuerAccessProperties, TLAPS

USE AccessConstantsOK DEF AccessConstantsOK

LEMMA InitIsGood == Init => IssuerAccessInv
<1> SUFFICES ASSUME Init PROVE IssuerAccessInv
  OBVIOUS
<1>1. \A i \in Issuers : LegacyRow(i) \in CertRows /\ NoCertRow \in CertRows
  BY DEF LegacyRow, NoCertRow, CertRows, Loaded, Certs, Keys
<1>2. cert \in [Issuers -> CertRows]
  BY <1>1 DEF Init
<1>3. call \in [Calls -> CallStates] /\ \A p \in Calls : CallGood(call[p])
  BY DEF Init, CallStates, Idle, Labels, Loaded, CallGood, CallShape, Evidence, Carries, StillTrue
<1>4. RowsOK
  BY <1>2, <1>3 DEF Init, RowsOK, TypeOK, NewIssuer, LegacyIssuer, NoCertRow, LegacyRow,
                    Keys, Furthest, Tracked
<1>5. StatusHasEvidence
  BY DEF Init, StatusHasEvidence, NewIssuer, LegacyIssuer, ReachedThroughArca
<1>6. HoldersKnown
  BY DEF Init, HoldersKnown, NewIssuer, LegacyIssuer, NoCertRow, LegacyRow
<1>7. LoadedMatchesDeclared /\ PairMatches
  BY DEF Init, LoadedMatchesDeclared, PairMatches, NewIssuer, LegacyIssuer, NoCertRow, LegacyRow
<1> QED
  BY <1>3, <1>4, <1>5, <1>6, <1>7 DEF IssuerAccessInv, RowsGood, CallsGood

-----------------------------------------------------------------------------
(* Steps that only read. *)

\* The call that moved must be good; the rest is as it was.
LEMMA ReadStep ==
  ASSUME IssuerAccessInv, NEW p \in Calls, NEW c \in CallStates, CallGood(c),
         call' = [call EXCEPT ![p] = c], UNCHANGED <<rows, made, history>>
  PROVE  IssuerAccessInv'
<1>1. RowsGood'
  BY DEF IssuerAccessInv, RowsGood, CallsGood, RowsOK, TypeOK, StatusHasEvidence, HoldersKnown,
         LoadedMatchesDeclared, PairMatches, rows, history
<1>2. \A q \in Calls : call'[q] = IF q = p THEN c ELSE call[q]
  BY DEF IssuerAccessInv, CallsGood
<1>3. \A q \in Calls : CallGood(call'[q])
  BY <1>2 DEF IssuerAccessInv, CallsGood
<1>4. \A q \in Calls : CallGood(call[q])'
  BY <1>3 DEF CallGood, CallShape, Evidence, Carries, StillTrue, Holds, LoadedHolder, rows, history
<1> QED
  BY <1>1, <1>4 DEF IssuerAccessInv, CallsGood

LEMMA IdleIsGood == Idle \in CallStates /\ CallGood(Idle)
BY DEF Idle, CallStates, Labels, Loaded, CallGood, CallShape, Evidence, Carries, StillTrue

LEMMA EndKeepsAccess ==
  ASSUME IssuerAccessInv, NEW p \in Calls, End(p), UNCHANGED <<rows, made, history>>
  PROVE  IssuerAccessInv'
BY IdleIsGood, ReadStep DEF End

LEMMA GotoKeepsAccess ==
  ASSUME IssuerAccessInv, NEW p \in Calls, NEW label \in Labels, Goto(p, label),
         CallGood([call[p] EXCEPT !.at = label]), UNCHANGED <<rows, made, history>>
  PROVE  IssuerAccessInv'
<1>1. [call[p] EXCEPT !.at = label] \in CallStates
  BY DEF IssuerAccessInv, CallsGood, CallStates
<1>2. call' = [call EXCEPT ![p] = [call[p] EXCEPT !.at = label]]
  BY DEF Goto, IssuerAccessInv, CallsGood
<1> QED
  BY <1>1, <1>2, ReadStep

LEMMA ObtainableIsCert ==
  ASSUME IssuerAccessInv, NEW c \in Obtainable
  PROVE  c \in Certs /\ c \in Loaded
BY DEF Obtainable, Certs, Loaded, Keys, IssuerAccessInv, RowsGood, RowsOK, TypeOK

\* A call that begins knows nothing but what it just read.
LEMMA StartKeepsAccess ==
  ASSUME IssuerAccessInv, NEW p \in Calls,
         StartCsr(p) \/ StartMatch(p) \/ StartSave(p) \/ StartRepresentative(p) \/ StartAsk(p)
  PROVE  IssuerAccessInv'
<1> USE DEF CallGood, CallShape, Evidence, Carries, StillTrue, Idle, CallStates, Labels, Loaded
<1>1. CASE StartCsr(p)
  <2>1. PICK i \in Issuers :
          call' = [call EXCEPT ![p] = [Idle EXCEPT !.at = "csr", !.issuer = i]]
    BY <1>1 DEF StartCsr
  <2> DEFINE c == [Idle EXCEPT !.at = "csr", !.issuer = i]
  <2>2. c \in CallStates /\ CallGood(c)
    OBVIOUS
  <2> HIDE DEF c
  <2> QED
    BY <1>1, <2>1, <2>2, ReadStep DEF StartCsr, c
<1>2. CASE StartMatch(p)
  <2>1. PICK i \in Issuers, crt \in Obtainable :
          /\ cert[i].key # None /\ crt.key = cert[i].key
          /\ call' = [call EXCEPT ![p] = [Idle EXCEPT !.at = "matchHolder", !.issuer = i, !.crt = crt]]
    BY <1>2 DEF StartMatch
  <2> DEFINE c == [Idle EXCEPT !.at = "matchHolder", !.issuer = i, !.crt = crt]
  <2>2. c \in CallStates /\ CallGood(c)
    BY <2>1, ObtainableIsCert
  <2> HIDE DEF c
  <2> QED
    BY <1>2, <2>1, <2>2, ReadStep DEF StartMatch, c
<1>3. CASE StartSave(p)
  <2>1. PICK i \in Issuers, crt \in Obtainable :
          /\ Holds(crt, i)
          /\ call' = [call EXCEPT ![p] = [Idle EXCEPT !.at = "saveWrite", !.issuer = i, !.crt = crt]]
    BY <1>3 DEF StartSave
  <2> DEFINE c == [Idle EXCEPT !.at = "saveWrite", !.issuer = i, !.crt = crt]
  <2>2. c \in CallStates /\ CallGood(c)
    BY <2>1, ObtainableIsCert
  <2> HIDE DEF c
  <2> QED
    BY <1>3, <2>1, <2>2, ReadStep DEF StartSave, c
<1>4. CASE StartRepresentative(p)
  <2>1. PICK i \in Issuers, h \in Holders :
          /\ LoadedHolder(i) \in {None, h}
          /\ call' = [call EXCEPT ![p] = [Idle EXCEPT !.at = "represent", !.issuer = i, !.holder = h]]
    BY <1>4 DEF StartRepresentative
  <2> DEFINE c == [Idle EXCEPT !.at = "represent", !.issuer = i, !.holder = h]
  <2>2. c \in CallStates /\ CallGood(c)
    BY <2>1
  <2> HIDE DEF c
  <2> QED
    BY <1>4, <2>1, <2>2, ReadStep DEF StartRepresentative, c
<1>5. CASE StartAsk(p)
  <2>1. PICK i \in Issuers :
          call' = [call EXCEPT ![p] = [Idle EXCEPT !.at = "credentials", !.issuer = i,
                                                   !.holder = declared[i]]]
    BY <1>5 DEF StartAsk
  <2> DEFINE c == [Idle EXCEPT !.at = "credentials", !.issuer = i, !.holder = declared[i]]
  <2>2. c \in CallStates /\ CallGood(c)
    BY <2>1 DEF IssuerAccessInv, RowsGood, RowsOK, TypeOK
  <2> HIDE DEF c
  <2> QED
    BY <1>5, <2>1, <2>2, ReadStep DEF StartAsk, c
<1> QED
  BY <1>1, <1>2, <1>3, <1>4, <1>5

LEMMA ChecksKeepAccess ==
  ASSUME IssuerAccessInv, NEW p \in Calls,
         AssertHolder(p) \/ ReadStatus(p) \/ Confirm(p) \/ Diagnose(p) \/ Abort(p)
  PROVE  IssuerAccessInv'
<1> USE DEF CallGood, CallShape, Evidence, Carries, StillTrue, Busy
<1>0. call[p] \in CallStates /\ CallGood(call[p])
  BY DEF IssuerAccessInv, CallsGood
<1>1. CASE AssertHolder(p)
  <2>1. Holds(call[p].crt, Issuer(p)) => CallGood([call[p] EXCEPT !.at = "matchWrite"])
    BY <1>0, <1>1 DEF AssertHolder, CallStates, Issuer
  <2> QED
    BY <1>1, <2>1, EndKeepsAccess, GotoKeepsAccess DEF AssertHolder, Labels
<1>2. CASE ReadStatus(p)
  <2>1. ~hasConfirmedDelegation(status[Issuer(p)]) => CallGood([call[p] EXCEPT !.at = "loadedWrite"])
    BY <1>0, <1>2 DEF ReadStatus, CallStates, Issuer, hasConfirmedDelegation
  <2> QED
    BY <1>2, <2>1, EndKeepsAccess, GotoKeepsAccess DEF ReadStatus, Labels
<1>3. CASE Confirm(p)
  <2>1. status[Issuer(p)] # "ISSUING_CONFIRMED" => CallGood([call[p] EXCEPT !.at = "confirmWrite"])
    BY <1>0, <1>3 DEF Confirm, CallStates, Issuer
  <2> QED
    BY <1>3, <2>1, EndKeepsAccess, GotoKeepsAccess DEF Confirm, Labels
<1>4. CASE Diagnose(p)
  <2> DEFINE c == [call[p] EXCEPT !.at = "diagnoseWrite", !.seen = status[Issuer(p)]]
  <2>1. Issuer(p) \in Issuers /\ status[Issuer(p)] \in Statuses
    BY <1>0, <1>4 DEF Diagnose, Issuer, IssuerAccessInv, RowsGood, RowsOK, TypeOK
  <2>2. c \in CallStates /\ CallGood(c)
    BY <1>0, <2>1, <1>4 DEF Diagnose, CallStates, Labels, Issuer, IssuerAccessInv, RowsGood,
                            StatusHasEvidence
  <2>3. call' = [call EXCEPT ![p] = c]
    BY <1>4 DEF Diagnose, IssuerAccessInv, CallsGood
  <2> HIDE DEF c
  <2> QED
    BY <1>4, <2>2, <2>3, ReadStep DEF Diagnose
<1>5. CASE Abort(p)
  BY <1>5, EndKeepsAccess DEF Abort
<1> QED
  BY <1>1, <1>2, <1>3, <1>4, <1>5

LEMMA AskingKeepsAccess ==
  ASSUME IssuerAccessInv, NEW p \in Calls,
         GetCredentials(p) \/ GetAccessTicket(p) \/ Login(p) \/ ArcaRejectsRelation(p)
  PROVE  IssuerAccessInv'
<1> USE DEF CallGood, CallShape, Evidence, Carries, StillTrue, Busy, Issuer
<1>0. call[p] \in CallStates /\ CallGood(call[p])
  BY DEF IssuerAccessInv, CallsGood
<1>1. CASE GetCredentials(p)
  <2> DEFINE row == cert[Issuer(p)]
             toTicket == [call[p] EXCEPT !.at = "ticket", !.key = row.key, !.crt = row.crt]
             toBackfill == [call[p] EXCEPT !.at = "backfill", !.key = row.key, !.crt = row.crt]
  <2>1. Issuer(p) \in Issuers
    BY <1>0, <1>1 DEF GetCredentials
  <2>2. row.crt # None => row.crt \in Certs /\ row.key \in Keys
    BY <2>1 DEF IssuerAccessInv, RowsGood, RowsOK, TypeOK, CertRows, Loaded
  <2>3. row.crt \in Loaded /\ row.key \in Keys \cup {None}
    BY <2>1 DEF IssuerAccessInv, RowsGood, RowsOK, TypeOK, CertRows
  <2>4. CASE row.crt = None /\ End(p)
    BY <1>1, <2>4, EndKeepsAccess DEF GetCredentials
  <2>5. CASE row.crt # None /\ row.holder # None /\ ResolveHolder(p, row, row.holder)
    <3>1. row.holder # call[p].holder => End(p)
      BY <2>5 DEF ResolveHolder, BelongsToIssuer
    <3>2. row.holder = call[p].holder => call' = [call EXCEPT ![p] = toTicket]
      BY <2>5 DEF ResolveHolder, BelongsToIssuer, IssuerAccessInv, CallsGood
    <3>3. toTicket \in CallStates
      BY <1>0, <2>3 DEF CallStates, Labels
    <3>4. misfiled = {} => row.holder = row.crt.holder
      BY <2>1, <2>5 DEF IssuerAccessInv, RowsGood, HoldersKnown
    <3>5. row.holder = call[p].holder => CallGood(toTicket)
      BY <1>0, <1>1, <2>2, <2>5, <3>4 DEF GetCredentials, CallStates
    <3> HIDE DEF toTicket
    <3> QED
      BY <1>1, <3>1, <3>2, <3>3, <3>5, EndKeepsAccess, ReadStep DEF GetCredentials
  <2>6. CASE row.crt # None /\ row.holder = None /\ call' = [call EXCEPT ![p].at = "backfill", ![p].key = row.key, ![p].crt = row.crt]
    <3>1. call' = [call EXCEPT ![p] = toBackfill]
      BY <2>6 DEF IssuerAccessInv, CallsGood
    <3>2. toBackfill \in CallStates
      BY <1>0, <2>3 DEF CallStates, Labels
    <3>3. CallGood(toBackfill)
      BY <1>0, <1>1, <2>2, <2>6 DEF GetCredentials, CallStates
    <3> HIDE DEF toBackfill
    <3> QED
      BY <1>1, <3>1, <3>2, <3>3, ReadStep DEF GetCredentials
  <2> QED
    BY <1>1, <2>4, <2>5, <2>6 DEF GetCredentials
<1>2. ASSUME NEW t \in Holders, NEW label \in {"store", "arca"}, Issuer(p) \in Issuers,
             call[p].holder \in Holders, misfiled = {} => t = call[p].holder
      PROVE  WithTicket(p, label, t) \in CallStates /\ CallGood(WithTicket(p, label, t))
  BY <1>2 DEF WithTicket, Idle, CallStates, Labels, Loaded
<1>3. CASE GetAccessTicket(p)
  <2>1. Issuer(p) \in Issuers /\ call[p].holder \in Holders
    BY <1>0, <1>3 DEF GetAccessTicket
  <2>2. CASE ticket[call[p].holder] = None
    <3>1. CallGood([call[p] EXCEPT !.at = "login"])
      BY <1>0, <1>3 DEF GetAccessTicket, CallStates
    <3> QED
      BY <1>3, <2>2, <3>1, GotoKeepsAccess DEF GetAccessTicket, Labels
  <2>3. CASE ticket[call[p].holder] # None
    <3> DEFINE t == ticket[call[p].holder]
    <3>1. t \in Holders /\ (misfiled = {} => t = call[p].holder)
      BY <2>1, <2>3 DEF IssuerAccessInv, RowsGood, RowsOK, TypeOK, HoldersKnown
    <3>2. WithTicket(p, "arca", t) \in CallStates /\ CallGood(WithTicket(p, "arca", t))
      BY <1>2, <2>1, <3>1
    <3> QED
      BY <1>3, <2>3, <3>2, ReadStep DEF GetAccessTicket
  <2> QED
    BY <2>2, <2>3
<1>4. CASE Login(p)
  <2>1. Issuer(p) \in Issuers /\ call[p].holder \in Holders /\ call[p].crt.holder \in Holders
    BY <1>0, <1>4 DEF Login, Certs
  <2>2. WithTicket(p, "store", call[p].crt.holder) \in CallStates
        /\ CallGood(WithTicket(p, "store", call[p].crt.holder))
    BY <1>0, <1>2, <1>4, <2>1 DEF Login
  <2> QED
    BY <1>4, <2>2, ReadStep, EndKeepsAccess DEF Login
<1>5. CASE ArcaRejectsRelation(p)
  <2> DEFINE c == [Idle EXCEPT !.at = "diagnose", !.issuer = Issuer(p), !.kind = "ISSUE"]
  <2>1. c \in CallStates /\ CallGood(c)
    BY ZenonT(40), <1>0, <1>5 DEF ArcaRejectsRelation, Idle, CallStates, Labels, Loaded, Kinds, Tracked
  <2>2. call' = [call EXCEPT ![p] = c]
    BY <1>5 DEF ArcaRejectsRelation, Answered, Tracked
  <2> HIDE DEF c
  <2> QED
    BY <1>5, <2>1, <2>2, ReadStep DEF ArcaRejectsRelation
<1> QED
  BY <1>1, <1>3, <1>4, <1>5

-----------------------------------------------------------------------------
(* Steps that write to an issuer's rows. *)

\* The other issuers' rows are as they were, and so is what other calls rest on.
LEMMA WriteStep ==
  ASSUME IssuerAccessInv, NEW p \in Calls, Issuer(p) \in Issuers, Writes(p),
         NEW c \in CallStates, CallGood(c)', call' = [call EXCEPT ![p] = c],
         \A j \in Issuers \ {Issuer(p)} :
           declared'[j] = declared[j] /\ status'[j] = status[j] /\ cert'[j] = cert[j],
         cert[Issuer(p)].key # None => cert'[Issuer(p)].key # None,
         furthest' = furthest, misfiled \subseteq misfiled', RowsGood'
  PROVE  IssuerAccessInv'
<1>1. \A q \in Calls : call'[q] = IF q = p THEN c ELSE call[q]
  BY DEF IssuerAccessInv, CallsGood
<1>2. call' \in [Calls -> CallStates]
  BY DEF IssuerAccessInv, CallsGood
<1>3. ASSUME NEW q \in Calls, q # p PROVE CallGood(call[q])'
  <2>1. CallGood(call[q]) /\ call'[q] = call[q]
    BY <1>1, <1>3 DEF IssuerAccessInv, CallsGood
  <2>2. CallShape(call[q])' /\ Evidence(call[q])' /\ Carries(call[q])'
    BY <2>1 DEF CallGood, CallShape, Evidence, Carries
  <2>3. ASSUME call[q].issuer \in Issuers \ overlapped' PROVE StillTrue(call[q])'
    <3>1. call[q].issuer # Issuer(p) /\ call[q].issuer \notin overlapped
      BY <1>3, <2>3 DEF Writes, Issuer
    <3> QED
      BY <2>1, <2>3, <3>1 DEF CallGood, StillTrue, Holds, LoadedHolder
  <2> QED
    BY <2>1, <2>2, <2>3 DEF CallGood
<1>4. CallGood(call[p])'
  BY <1>1
<1> QED
  BY <1>2, <1>3, <1>4 DEF IssuerAccessInv, CallsGood

\* An issuer that is not overlapped now was not before.
LEMMA OverlapGrows ==
  ASSUME IssuerAccessInv, NEW p \in Calls, Issuer(p) \in Issuers, Writes(p)
  PROVE  overlapped \subseteq overlapped' /\ overlapped' \in SUBSET Issuers
BY DEF Writes, IssuerAccessInv, RowsGood, RowsOK, TypeOK

LEMMA WriteCsrKeepsAccess ==
  ASSUME IssuerAccessInv, NEW p \in Calls, WriteCsr(p)
  PROVE  IssuerAccessInv'
<1> DEFINE i == Issuer(p)
<1>1. i \in Issuers
  BY DEF WriteCsr, Busy, Issuer, IssuerAccessInv, CallsGood, CallGood, CallShape
<1>2. overlapped \subseteq overlapped' /\ overlapped' \in SUBSET Issuers
  BY <1>1, OverlapGrows DEF WriteCsr
<1>3. made + 1 \in Keys
  BY DEF WriteCsr, IssuerAccessInv, RowsGood, RowsOK, TypeOK, Keys
<1>4. cert \in [Issuers -> CertRows]
  BY DEF IssuerAccessInv, RowsGood, RowsOK, TypeOK
<1> HIDE DEF i
<1>5. /\ cert'[i] = [key |-> made + 1, crt |-> None, holder |-> cert[i].holder]
      /\ \A j \in Issuers : j # i => cert'[j] = cert[j]
  BY <1>1, <1>4 DEF WriteCsr, i
<1>6. cert' \in [Issuers -> CertRows]
  BY <1>1, <1>3, <1>4, <1>5 DEF WriteCsr, i, CertRows, Loaded
<1>7. Idle \in CallStates /\ CallGood(Idle)'
  BY IdleIsGood DEF Idle, CallGood, CallShape, Evidence, Carries, StillTrue
<1>8. call' = [call EXCEPT ![p] = Idle] /\ call' \in [Calls -> CallStates]
  BY <1>7 DEF WriteCsr, End, IssuerAccessInv, CallsGood
<1>9. RowsOK'
  BY <1>2, <1>3, <1>5, <1>6, <1>8 DEF WriteCsr, IssuerAccessInv, RowsGood, RowsOK, TypeOK
<1>10. StatusHasEvidence'
  BY DEF WriteCsr, IssuerAccessInv, RowsGood, StatusHasEvidence
<1>11. HoldersKnown'
  BY <1>5 DEF WriteCsr, IssuerAccessInv, RowsGood, HoldersKnown
<1>12. LoadedMatchesDeclared'
  BY <1>2, <1>5 DEF WriteCsr, IssuerAccessInv, RowsGood, LoadedMatchesDeclared, LegacyRow
<1>13. PairMatches'
  <2>1. PairMatches
    BY DEF IssuerAccessInv, RowsGood
  <2> QED
    BY <1>2, <1>5, <2>1 DEF PairMatches
<1>14. RowsGood'
  BY <1>9, <1>10, <1>11, <1>12, <1>13 DEF RowsGood
<1>15. cert'[i].key # None
  <2>1. made + 1 # None
    BY <1>3 DEF Keys
  <2> QED
    BY <1>5, <2>1
<1> QED
  BY <1>1, <1>5, <1>7, <1>8, <1>14, <1>15, WriteStep DEF WriteCsr, i

LEMMA StoreCertificateKeepsAccess ==
  ASSUME IssuerAccessInv, NEW p \in Calls, WriteMatch(p) \/ WriteSave(p)
  PROVE  IssuerAccessInv'
<1> DEFINE i == Issuer(p)
           crt == call[p].crt
           key == IF call[p].at = "saveWrite" THEN 0 ELSE cert[i].key
<1>0. call[p] \in CallStates /\ CallGood(call[p]) /\ StoreCertificate(p, key)
      /\ call[p].at \in {"matchWrite", "saveWrite"}
  BY DEF WriteMatch, WriteSave, Busy, IssuerAccessInv, CallsGood
<1>1. i \in Issuers /\ crt \in Certs /\ crt # None /\ crt.holder \in Holders
  BY <1>0 DEF Issuer, CallGood, CallShape, Certs, Keys
<1>2. overlapped \subseteq overlapped' /\ overlapped' \in SUBSET Issuers
  BY <1>0, <1>1, OverlapGrows DEF StoreCertificate
<1>3. i \notin overlapped' => crt.holder = declared[i] /\ (key # 0 => crt.key = key)
  BY <1>0, <1>1, <1>2 DEF CallGood, StillTrue, Holds, Issuer
<1>4. cert \in [Issuers -> CertRows]
  BY DEF IssuerAccessInv, RowsGood, RowsOK, TypeOK
<1>5. cert[i].key \in Keys \cup {None}
  BY <1>1, <1>4 DEF CertRows
<1>6. key \in Keys /\ key # None
  BY <1>0, <1>1, <1>5 DEF CallGood, CallShape, Issuer, Keys
<1> HIDE DEF key, crt, i
<1>7. /\ cert'[i] = [key |-> key, crt |-> crt, holder |-> crt.holder]
      /\ \A j \in Issuers : j # i => cert'[j] = cert[j]
  BY <1>0, <1>1, <1>4 DEF StoreCertificate, crt, i
<1>8. [key |-> key, crt |-> crt, holder |-> crt.holder] \in CertRows
  BY <1>1, <1>6 DEF CertRows, Loaded
<1>9. cert' \in [Issuers -> CertRows]
  BY <1>0, <1>1, <1>4, <1>8 DEF StoreCertificate, crt, i
<1>10. [Idle EXCEPT !.at = "loaded", !.issuer = i] \in CallStates
  BY <1>1 DEF Idle, CallStates, Labels, Loaded
<1>11. PICK c \in CallStates : c = [Idle EXCEPT !.at = "loaded", !.issuer = i]
  BY <1>10
<1>12. c.at = "loaded" /\ c.issuer \in Issuers
  BY <1>1, <1>11 DEF Idle
<1>13. CallGood(c)'
  BY <1>12 DEF CallGood, CallShape, Evidence, Carries, StillTrue
<1>14. call' = [call EXCEPT ![p] = c] /\ call' \in [Calls -> CallStates]
  BY <1>0, <1>11 DEF StoreCertificate, IssuerAccessInv, CallsGood, i
<1>15. RowsOK'
  BY <1>0, <1>2, <1>6, <1>7, <1>9, <1>14 DEF StoreCertificate, IssuerAccessInv, RowsGood, RowsOK, TypeOK
<1>16. StatusHasEvidence'
  BY <1>0 DEF StoreCertificate, IssuerAccessInv, RowsGood, StatusHasEvidence
<1>17. HoldersKnown'
  BY <1>0, <1>7 DEF StoreCertificate, IssuerAccessInv, RowsGood, HoldersKnown
<1>18. LoadedMatchesDeclared'
  BY <1>0, <1>2, <1>3, <1>7 DEF StoreCertificate, IssuerAccessInv, RowsGood, LoadedMatchesDeclared, LegacyRow
<1>19. PairMatches'
  BY <1>2, <1>3, <1>7 DEF IssuerAccessInv, RowsGood, PairMatches
<1>20. RowsGood'
  BY <1>15, <1>16, <1>17, <1>18, <1>19 DEF RowsGood
<1>21. cert'[i].key # None
  BY <1>6, <1>7
<1>22. UNCHANGED <<declared, status, furthest, misfiled>> /\ Writes(p)
  BY <1>0 DEF StoreCertificate
<1> QED
  BY <1>1, <1>7, <1>13, <1>14, <1>20, <1>21, <1>22, WriteStep DEF i

LEMMA SetStatusKeepsAccess ==
  ASSUME IssuerAccessInv, NEW p \in Calls,
         MarkCertificateLoaded(p) \/ WriteConfirmation(p) \/ WriteDiagnosis(p)
  PROVE  IssuerAccessInv'
<1> USE DEF Busy, Issuer
<1> DEFINE i == Issuer(p)
<1>0. call[p] \in CallStates /\ CallGood(call[p])
  BY DEF IssuerAccessInv, CallsGood
<1>1. i \in Issuers
  BY <1>0 DEF MarkCertificateLoaded, WriteConfirmation, WriteDiagnosis, CallGood, CallShape
<1>2. PICK s \in Statuses : SetStatus(p, s)
                           /\ (s \in ReachedThroughArca => furthest[i] # "nothing")
                           /\ (s = "ISSUING_CONFIRMED" => furthest[i] = "ISSUE")
  <2>1. CASE MarkCertificateLoaded(p)
    BY <2>1 DEF MarkCertificateLoaded, Statuses, ReachedThroughArca
  <2>2. CASE WriteConfirmation(p)
    BY <1>0, <2>2 DEF WriteConfirmation, Statuses, CONFIRMED_STATUS, CallGood, CallShape, Evidence,
                      Tracked
  <2>3. CASE WriteDiagnosis(p)
    BY <1>0, <2>3 DEF WriteDiagnosis, Statuses, statusAfterRejection, CallGood, CallShape, Evidence,
                      ReachedThroughArca
  <2> QED
    BY <2>1, <2>2, <2>3
<1>3. overlapped \subseteq overlapped' /\ overlapped' \in SUBSET Issuers
  BY <1>1, <1>2, OverlapGrows DEF SetStatus
<1>4. UNCHANGED <<declared, cert, ticket, made, furthest, misfiled>> /\ Writes(p)
  BY <1>2 DEF SetStatus
<1>5. status \in [Issuers -> Statuses]
  BY DEF IssuerAccessInv, RowsGood, RowsOK, TypeOK
<1> HIDE DEF i
<1>6. /\ status' \in [Issuers -> Statuses] /\ status'[i] = s
      /\ \A j \in Issuers : j # i => status'[j] = status[j]
  BY <1>1, <1>2, <1>5 DEF SetStatus, i
<1>7. Idle \in CallStates /\ CallGood(Idle)'
  BY IdleIsGood DEF Idle, CallGood, CallShape, Evidence, Carries, StillTrue
<1>8. call' = [call EXCEPT ![p] = Idle] /\ call' \in [Calls -> CallStates]
  BY <1>2, <1>7 DEF SetStatus, End, IssuerAccessInv, CallsGood
<1>9. RowsOK'
  BY <1>3, <1>4, <1>6, <1>8 DEF IssuerAccessInv, RowsGood, RowsOK, TypeOK
<1>10. StatusHasEvidence'
  BY <1>2, <1>4, <1>6 DEF IssuerAccessInv, RowsGood, StatusHasEvidence
<1>11. HoldersKnown' /\ LoadedMatchesDeclared' /\ PairMatches'
  BY <1>3, <1>4 DEF IssuerAccessInv, RowsGood, HoldersKnown, LoadedMatchesDeclared, PairMatches
<1>12. RowsGood'
  BY <1>9, <1>10, <1>11 DEF RowsGood
<1> QED
  BY <1>1, <1>4, <1>6, <1>7, <1>8, <1>12, WriteStep DEF i

LEMMA UpdateRepresentativeKeepsAccess ==
  ASSUME IssuerAccessInv, NEW p \in Calls, UpdateRepresentative(p)
  PROVE  IssuerAccessInv'
<1> USE DEF Busy, Issuer
<1> DEFINE i == Issuer(p)
           h == call[p].holder
<1>0. call[p] \in CallStates /\ CallGood(call[p]) /\ call[p].at = "represent"
  BY DEF IssuerAccessInv, CallsGood, UpdateRepresentative
<1>1. i \in Issuers /\ h \in Holders
  BY <1>0 DEF CallGood, CallShape
<1>2. overlapped \subseteq overlapped' /\ overlapped' \in SUBSET Issuers
  BY <1>1, OverlapGrows DEF UpdateRepresentative
<1>3. UNCHANGED <<status, cert, ticket, made, furthest, misfiled>> /\ Writes(p)
  BY DEF UpdateRepresentative
<1>4. declared \in [Issuers -> Holders]
  BY DEF IssuerAccessInv, RowsGood, RowsOK, TypeOK
<1>5. i \notin overlapped' => LoadedHolder(i) \in {None, h}
  BY <1>0, <1>1, <1>2 DEF CallGood, StillTrue
<1> HIDE DEF i, h
<1>6. /\ declared' \in [Issuers -> Holders] /\ declared'[i] = h
      /\ \A j \in Issuers : j # i => declared'[j] = declared[j]
  BY <1>1, <1>4 DEF UpdateRepresentative, i, h
<1>7. Idle \in CallStates /\ CallGood(Idle)'
  BY IdleIsGood DEF Idle, CallGood, CallShape, Evidence, Carries, StillTrue
<1>8. call' = [call EXCEPT ![p] = Idle] /\ call' \in [Calls -> CallStates]
  BY <1>7 DEF UpdateRepresentative, End, IssuerAccessInv, CallsGood
<1>9. RowsOK'
  BY <1>2, <1>3, <1>6, <1>8 DEF IssuerAccessInv, RowsGood, RowsOK, TypeOK
<1>10. StatusHasEvidence' /\ HoldersKnown' /\ PairMatches'
  BY <1>2, <1>3 DEF IssuerAccessInv, RowsGood, StatusHasEvidence, HoldersKnown, PairMatches
<1>11. LoadedMatchesDeclared'
  <2> SUFFICES ASSUME NEW j \in Issuers \ overlapped', cert[j].crt # None, cert[j].crt # LegacyRow(j).crt
               PROVE  cert[j].holder = declared'[j]
    BY <1>3 DEF LoadedMatchesDeclared, LegacyRow
  <2>1. cert[j].holder = declared[j]
    BY <1>2 DEF IssuerAccessInv, RowsGood, LoadedMatchesDeclared
  <2>2. declared[j] \in Holders
    BY <1>4
  <2>3. CASE j = i
    BY <1>5, <1>6, <2>1, <2>2, <2>3 DEF LoadedHolder
  <2>4. CASE j # i
    BY <1>6, <2>1, <2>4
  <2> QED
    BY <2>3, <2>4
<1>12. RowsGood'
  BY <1>9, <1>10, <1>11 DEF RowsGood
<1> QED
  BY <1>1, <1>3, <1>6, <1>7, <1>8, <1>12, WriteStep DEF i

LEMMA BackfillKeepsAccess ==
  ASSUME IssuerAccessInv, NEW p \in Calls, BackfillHolderCuit(p)
  PROVE  IssuerAccessInv'
<1> USE DEF Busy, Issuer
<1> DEFINE i == Issuer(p)
           crt == call[p].crt
           toTicket == [call[p] EXCEPT !.at = "ticket", !.key = call[p].key, !.crt = call[p].crt]
<1>0. call[p] \in CallStates /\ CallGood(call[p]) /\ call[p].at = "backfill"
  BY DEF IssuerAccessInv, CallsGood, BackfillHolderCuit
<1>1. i \in Issuers /\ crt \in Certs /\ crt.holder \in Holders
  BY <1>0 DEF CallGood, CallShape, Certs
<1>2. overlapped \subseteq overlapped' /\ overlapped' \in SUBSET Issuers
  BY <1>1, OverlapGrows DEF BackfillHolderCuit
<1>3. UNCHANGED <<declared, status, ticket, made, furthest>> /\ Writes(p)
  BY DEF BackfillHolderCuit
<1>4. cert \in [Issuers -> CertRows]
  BY DEF IssuerAccessInv, RowsGood, RowsOK, TypeOK
<1>5. i \notin overlapped' => cert[i].holder = None
  BY <1>0, <1>1, <1>2 DEF CallGood, StillTrue
<1>6. /\ misfiled' \in SUBSET Issuers /\ misfiled \subseteq misfiled'
      /\ misfiled' = {} => cert[i].crt = None \/ cert[i].crt.holder = crt.holder
  BY <1>1 DEF BackfillHolderCuit, IssuerAccessInv, RowsGood, RowsOK, TypeOK
<1>7. PICK c \in CallStates :
        call' = [call EXCEPT ![p] = c] /\ (c = Idle \/ c = toTicket)
  <2>1. toTicket \in CallStates
    BY <1>0 DEF CallStates, Labels
  <2>2. CASE crt.holder = call[p].holder
    <3>1. call' = [call EXCEPT ![p] = toTicket]
      BY <2>2 DEF BackfillHolderCuit, ResolveHolder, BelongsToIssuer, IssuerAccessInv, CallsGood
    <3> QED
      BY <2>1, <3>1
  <2>3. CASE crt.holder # call[p].holder
    BY <2>3, IdleIsGood DEF BackfillHolderCuit, ResolveHolder, BelongsToIssuer, End
  <2> QED
    BY <2>2, <2>3
<1>8. c = toTicket => crt.holder = call[p].holder
  BY <1>0, <1>7, IdleIsGood DEF BackfillHolderCuit, ResolveHolder, BelongsToIssuer, End,
                                IssuerAccessInv, CallsGood, Idle, CallStates
<1>9. CallGood(c)'
  <2>1. CASE c = Idle
    BY <2>1 DEF Idle, CallGood, CallShape, Evidence, Carries, StillTrue
  <2>2. CASE c = toTicket
    <3>1. c.at = "ticket" /\ c.issuer = i /\ c.crt = crt /\ c.key \in Keys /\ c.holder = crt.holder
      BY <1>0, <1>8, <2>2 DEF CallStates, CallGood, CallShape
    <3> HIDE DEF toTicket, i, crt
    <3> QED
      BY <1>1, <3>1 DEF CallGood, CallShape, Evidence, Carries, StillTrue
  <2> QED
    BY <1>7, <2>1, <2>2
<1> HIDE DEF i, crt
<1>10. /\ cert'[i] = [cert[i] EXCEPT !.holder = crt.holder]
       /\ \A j \in Issuers : j # i => cert'[j] = cert[j]
  BY <1>1, <1>4 DEF BackfillHolderCuit, i, crt
<1>11. /\ cert'[i].key = cert[i].key /\ cert'[i].crt = cert[i].crt /\ cert'[i].holder = crt.holder
       /\ cert'[i] \in CertRows
  BY <1>1, <1>4, <1>10 DEF CertRows
<1>12. cert' \in [Issuers -> CertRows]
  BY <1>4, <1>10, <1>11 DEF BackfillHolderCuit
<1>13. call' \in [Calls -> CallStates]
  BY <1>7 DEF IssuerAccessInv, CallsGood
<1>14. RowsOK'
  BY <1>2, <1>3, <1>6, <1>10, <1>11, <1>12, <1>13 DEF IssuerAccessInv, RowsGood, RowsOK, TypeOK
<1>15. StatusHasEvidence'
  BY <1>3 DEF IssuerAccessInv, RowsGood, StatusHasEvidence
<1>16. HoldersKnown'
  BY <1>3, <1>6, <1>10, <1>11 DEF IssuerAccessInv, RowsGood, HoldersKnown
<1>17. PairMatches'
  BY <1>2, <1>10, <1>11 DEF IssuerAccessInv, RowsGood, PairMatches
<1>18. LoadedMatchesDeclared'
  <2> SUFFICES ASSUME NEW j \in Issuers \ overlapped', cert'[j].crt # None,
                      cert'[j].crt # LegacyRow(j).crt
               PROVE  cert'[j].holder = declared[j]
    BY <1>3 DEF LoadedMatchesDeclared, LegacyRow
  <2>1. cert[j].holder = declared[j]
    BY <1>2, <1>10, <1>11 DEF IssuerAccessInv, RowsGood, LoadedMatchesDeclared
  <2>2. declared[j] # None
    BY DEF IssuerAccessInv, RowsGood, RowsOK, TypeOK
  <2> QED
    BY <1>5, <1>10, <2>1, <2>2
<1>19. RowsGood'
  BY <1>14, <1>15, <1>16, <1>17, <1>18 DEF RowsGood
<1> QED
  BY <1>1, <1>3, <1>6, <1>7, <1>9, <1>10, <1>11, <1>19, WriteStep DEF i

-----------------------------------------------------------------------------
(* Tickets and ARCA's answers: no issuer's row is written. *)

LEMMA TicketKeepsAccess ==
  ASSUME IssuerAccessInv, call' \in [Calls -> CallStates], \A q \in Calls : CallGood(call[q])',
         NEW h \in Holders, NEW t \in Holders \cup {None}, misfiled = {} => t \in {None, h},
         ticket' = [ticket EXCEPT ![h] = t],
         UNCHANGED <<declared, status, cert, made, history>>
  PROVE  IssuerAccessInv'
<1> USE DEF IssuerAccessInv, RowsGood, history
<1>1. RowsOK'
  BY DEF RowsOK, TypeOK
<1>2. HoldersKnown'
  BY DEF HoldersKnown, RowsOK, TypeOK
<1>3. StatusHasEvidence' /\ LoadedMatchesDeclared' /\ PairMatches'
  BY DEF StatusHasEvidence, LoadedMatchesDeclared, PairMatches
<1> QED
  BY <1>1, <1>2, <1>3 DEF CallsGood

LEMMA CacheTicketKeepsAccess ==
  ASSUME IssuerAccessInv, NEW p \in Calls, CacheTicket(p)
  PROVE  IssuerAccessInv'
<1> DEFINE c == [call[p] EXCEPT !.at = "arca"]
<1>0. call[p] \in CallStates /\ CallGood(call[p]) /\ call[p].at = "store"
  BY DEF IssuerAccessInv, CallsGood, CacheTicket, Busy
<1>1. call[p].holder \in Holders /\ call[p].ticket \in Holders
      /\ (misfiled = {} => call[p].ticket = call[p].holder)
  BY <1>0 DEF CallGood, CallShape, Carries
<1>2. c \in CallStates /\ CallGood(c)
  BY <1>0 DEF CallStates, Labels, CallGood, CallShape, Evidence, Carries, StillTrue
<1>3. call' = [call EXCEPT ![p] = c]
  BY DEF CacheTicket, Goto, IssuerAccessInv, CallsGood
<1> HIDE DEF c
<1>4. /\ call' \in [Calls -> CallStates]
      /\ \A q \in Calls : CallGood(call'[q])
  BY <1>2, <1>3 DEF IssuerAccessInv, CallsGood
<1>5. \A q \in Calls : CallGood(call[q])'
  BY <1>4 DEF CacheTicket, history, CallGood, CallShape, Evidence, Carries, StillTrue, Holds,
              LoadedHolder
<1> QED
  BY <1>1, <1>4, <1>5, TicketKeepsAccess DEF CacheTicket

LEMMA TicketExpiresKeepsAccess ==
  ASSUME IssuerAccessInv, NEW h \in Holders, TicketExpires(h)
  PROVE  IssuerAccessInv'
<1>1. \A q \in Calls : CallGood(call[q])'
  BY DEF IssuerAccessInv, CallsGood, TicketExpires, history, CallGood, CallShape, Evidence, Carries,
         StillTrue, Holds, LoadedHolder
<1> QED
  BY <1>1, TicketKeepsAccess DEF TicketExpires, IssuerAccessInv, CallsGood

LEMMA ArcaAcceptsKeepsAccess ==
  ASSUME IssuerAccessInv, NEW p \in Calls, ArcaAccepts(p)
  PROVE  IssuerAccessInv'
<1> USE DEF Busy, Issuer
<1> DEFINE i == Issuer(p)
<1>0. call[p] \in CallStates /\ CallGood(call[p]) /\ i \in Issuers
  BY DEF IssuerAccessInv, CallsGood, ArcaAccepts, CallGood, CallShape
<1>1. furthest \in [Issuers -> Furthest]
  BY DEF IssuerAccessInv, RowsGood, RowsOK, TypeOK
<1>2. PICK kind \in Kinds :
        /\ furthest' = [furthest EXCEPT ![i] =
             IF kind = "ISSUE" \/ (@ = "nothing" /\ kind = "READ_ONLY") THEN kind ELSE @]
        /\ Answered(p, "confirm", kind)
  BY DEF ArcaAccepts
<1>3. UNCHANGED <<rows, made, overlapped, misfiled>>
  BY DEF ArcaAccepts
<1> HIDE DEF i
<1>4. /\ furthest' \in [Issuers -> Furthest]
      /\ kind = "ISSUE" => furthest'[i] = "ISSUE"
      /\ kind = "READ_ONLY" => furthest'[i] # "nothing"
      /\ \A j \in Issuers : furthest[j] # "nothing" => furthest'[j] # "nothing"
      /\ \A j \in Issuers : furthest[j] = "ISSUE" => furthest'[j] = "ISSUE"
  BY <1>0, <1>1, <1>2 DEF Furthest, Kinds, Tracked
<1>5. PICK c \in CallStates :
        /\ call' = [call EXCEPT ![p] = c]
        /\ c = Idle \/ (kind \in Tracked
                        /\ c = [Idle EXCEPT !.at = "confirm", !.issuer = i, !.kind = kind])
  <2>1. kind \in Tracked => [Idle EXCEPT !.at = "confirm", !.issuer = i, !.kind = kind] \in CallStates
    BY <1>0 DEF Idle, CallStates, Labels, Loaded, Kinds
  <2> QED
    BY <1>2, <2>1, IdleIsGood DEF Answered, i
<1>6. CallGood(c)'
  <2>1. CASE c = Idle
    BY <2>1 DEF Idle, CallGood, CallShape, Evidence, Carries, StillTrue
  <2>2. CASE kind \in Tracked /\ c = [Idle EXCEPT !.at = "confirm", !.issuer = i, !.kind = kind]
    <3>1. c.at = "confirm" /\ c.issuer = i /\ c.kind = kind
      BY <2>2 DEF Idle
    <3> QED
      BY <1>0, <1>4, <2>2, <3>1 DEF Tracked, CallGood, CallShape, Evidence, Carries, StillTrue
  <2> QED
    BY <1>5, <2>1, <2>2
<1>7. ASSUME NEW q \in Calls, q # p PROVE CallGood(call[q])'
  <2>1. CallGood(call[q]) /\ call'[q] = call[q]
    BY <1>5, <1>7 DEF IssuerAccessInv, CallsGood
  <2>2. CallShape(call[q])' /\ Carries(call[q])'
    BY <1>3, <2>1 DEF CallGood, CallShape, Carries, rows
  <2>3. Evidence(call[q])'
    BY <1>4, <2>1 DEF CallGood, CallShape, Evidence
  <2>4. (call[q].issuer \in Issuers \ overlapped => StillTrue(call[q]))'
    BY <1>3, <2>1 DEF CallGood, StillTrue, Holds, LoadedHolder, rows
  <2> QED
    BY <2>2, <2>3, <2>4 DEF CallGood
<1>8. CallsGood'
  BY <1>5, <1>6, <1>7 DEF IssuerAccessInv, CallsGood
<1>9. RowsOK'
  BY <1>3, <1>4, <1>8 DEF IssuerAccessInv, CallsGood, RowsGood, RowsOK, TypeOK, rows
<1>10. StatusHasEvidence'
  BY <1>3, <1>4 DEF IssuerAccessInv, RowsGood, StatusHasEvidence, rows
<1>11. HoldersKnown' /\ LoadedMatchesDeclared' /\ PairMatches'
  BY <1>3 DEF IssuerAccessInv, RowsGood, HoldersKnown, LoadedMatchesDeclared, PairMatches, rows
<1> QED
  BY <1>8, <1>9, <1>10, <1>11 DEF IssuerAccessInv, RowsGood

-----------------------------------------------------------------------------
(* The theorems. *)

LEMMA NextKeepsAccess == IssuerAccessInv /\ [Next]_vars => IssuerAccessInv'
<1> SUFFICES ASSUME IssuerAccessInv, [Next]_vars PROVE IssuerAccessInv'
  OBVIOUS
<1>1. CASE UNCHANGED vars
  BY <1>1 DEF vars, rows, history, IssuerAccessInv, RowsGood, CallsGood, RowsOK, TypeOK, CallGood,
     CallShape, Evidence, Carries, StillTrue, Holds, LoadedHolder, StatusHasEvidence, HoldersKnown,
     LoadedMatchesDeclared, PairMatches
<1>2. ASSUME NEW p \in Calls, Certificates(p) PROVE IssuerAccessInv'
  BY <1>2, StartKeepsAccess, WriteCsrKeepsAccess, ChecksKeepAccess, StoreCertificateKeepsAccess,
     SetStatusKeepsAccess DEF Certificates
<1>3. ASSUME NEW p \in Calls, Representation(p) PROVE IssuerAccessInv'
  BY <1>3, StartKeepsAccess, UpdateRepresentativeKeepsAccess DEF Representation
<1>4. ASSUME NEW p \in Calls, Asking(p) PROVE IssuerAccessInv'
  BY <1>4, StartKeepsAccess, AskingKeepsAccess, BackfillKeepsAccess, CacheTicketKeepsAccess,
     ArcaAcceptsKeepsAccess DEF Asking
<1>5. ASSUME NEW p \in Calls, Onboarding(p) PROVE IssuerAccessInv'
  BY <1>5, ChecksKeepAccess, SetStatusKeepsAccess DEF Onboarding
<1>6. ASSUME NEW p \in Calls, Abort(p) PROVE IssuerAccessInv'
  BY <1>6, ChecksKeepAccess
<1>7. ASSUME NEW h \in Holders, TicketExpires(h) PROVE IssuerAccessInv'
  BY <1>7, TicketExpiresKeepsAccess
<1> QED
  BY <1>1, <1>2, <1>3, <1>4, <1>5, <1>6, <1>7 DEF Next

(* The rows and every call keep the inductive invariant, whatever the       *)
(* number of calls that interleave and wherever each of them dies.          *)
THEOREM AccessInvariant == Spec => []IssuerAccessInv
<1>1. Init => IssuerAccessInv
  BY InitIsGood
<1> QED
  BY <1>1, NextKeepsAccess, PTL DEF Spec

(* No call asks WSAA for a ticket without a key and a certificate, nor ARCA *)
(* without a ticket.                                                        *)
THEOREM AccessIsTyped == Spec => []AccessInv
<1>1. IssuerAccessInv => AccessInv
  BY DEF IssuerAccessInv, RowsGood, CallsGood, AccessInv, CallsOK, CallGood
<1> QED
  BY <1>1, AccessInvariant, PTL

(* docs/arca-integracion.md: the status of an issuer is never ahead of what *)
(* ARCA accepted of it.                                                     *)
THEOREM StatusIsEvidence == Spec => []StatusHasEvidence
<1>1. IssuerAccessInv => StatusHasEvidence
  BY DEF IssuerAccessInv, RowsGood
<1> QED
  BY <1>1, AccessInvariant, PTL

(* A call reaches ARCA with the ticket of the holder its issuer declared,   *)
(* unless a backfill met another holder's certificate.                      *)
THEOREM TicketsAreTheHolders == Spec => []TicketsBelongToTheirHolder
<1>1. IssuerAccessInv => TicketsBelongToTheirHolder
  BY DEF IssuerAccessInv, RowsGood, CallsGood, CallGood, Carries, HoldersKnown,
         TicketsBelongToTheirHolder, HolderIsVerified, Busy
<1> QED
  BY <1>1, AccessInvariant, PTL

(* What a handler checked before it waited still holds when it writes,      *)
(* unless another call wrote to the issuer meanwhile.                       *)
THEOREM ChecksHoldAtTheWrite == Spec => []ReadsStayTrue
<1>1. IssuerAccessInv => ReadsStayTrue
  BY DEF IssuerAccessInv, CallsGood, CallGood, ReadsStayTrue, Issuer
<1> QED
  BY <1>1, AccessInvariant, PTL

(* Without overlapping calls, the loaded certificate is the declared        *)
(* holder's.                                                                *)
THEOREM CertificateFitsIssuer == Spec => []LoadedMatchesDeclared
<1>1. IssuerAccessInv => LoadedMatchesDeclared
  BY DEF IssuerAccessInv, RowsGood
<1> QED
  BY <1>1, AccessInvariant, PTL

(* A certificate is beside the key it certifies, unless two calls that      *)
(* wrote the row overlapped.                                                *)
THEOREM KeyFitsCertificate == Spec => []PairMatches
<1>1. IssuerAccessInv => PairMatches
  BY DEF IssuerAccessInv, RowsGood
<1> QED
  BY <1>1, AccessInvariant, PTL

(* An issuing issuer goes back to an earlier status only when two calls of  *)
(* it overlap.                                                              *)
THEOREM IssuingForgottenOnlyByOverlap == Spec => ForgetsOnlyByOverlap
<1>1. ASSUME IssuerAccessInv, [Next]_vars, NEW i \in Issuers, Forgets(i) PROVE i \in overlapped'
  <2>1. status' # status
    BY <1>1 DEF Forgets
  <2>2. PICK p \in Calls : MarkCertificateLoaded(p) \/ WriteConfirmation(p) \/ WriteDiagnosis(p)
    BY <1>1, <2>1 DEF Next, vars, rows, Certificates, Representation, Asking, Onboarding, Abort,
       TicketExpires, StartCsr, WriteCsr, StartMatch, AssertHolder, WriteMatch, StartSave, WriteSave,
       StoreCertificate, ReadStatus, StartRepresentative, UpdateRepresentative, StartAsk,
       GetCredentials, BackfillHolderCuit, GetAccessTicket, Login, CacheTicket, ArcaAccepts,
       ArcaRejectsRelation, Confirm, Diagnose
  <2>3. CallGood(call[p]) /\ Issuer(p) \in Issuers
    BY <1>1, <2>2 DEF IssuerAccessInv, CallsGood, CallGood, CallShape, MarkCertificateLoaded,
       WriteConfirmation, WriteDiagnosis, Busy, Issuer
  <2>4. \E s : SetStatus(p, s)
    BY <2>2 DEF MarkCertificateLoaded, WriteConfirmation, WriteDiagnosis
  <2>5. Issuer(p) = i /\ overlapped \subseteq overlapped'
    BY <1>1, <2>3, <2>4, OverlapGrows DEF SetStatus, Forgets, IssuerAccessInv, RowsGood, RowsOK, TypeOK
  <2>6. ~StillTrue(call[p])
    <3>1. CASE MarkCertificateLoaded(p)
      BY <1>1, <2>5, <3>1 DEF MarkCertificateLoaded, Busy, StillTrue, Forgets, ReachedThroughArca, Issuer
    <3>2. CASE WriteConfirmation(p)
      BY <1>1, <2>5, <3>2 DEF WriteConfirmation, Busy, StillTrue, Forgets, Issuer
    <3>3. CASE WriteDiagnosis(p)
      <4>1. status'[i] = statusAfterRejection(call[p].seen)
        BY <1>1, <2>5, <3>3 DEF WriteDiagnosis, SetStatus, IssuerAccessInv, RowsGood, RowsOK, TypeOK
      <4> QED
        BY <1>1, <2>5, <3>3, <4>1 DEF WriteDiagnosis, statusAfterRejection, Busy, StillTrue, Forgets, Issuer
    <3> QED
      BY <2>2, <3>1, <3>2, <3>3
  <2> QED
    BY <2>3, <2>5, <2>6 DEF CallGood, Issuer
<1>2. IssuerAccessInv /\ [Next]_vars => [\A i \in Issuers : Forgets(i) => i \in overlapped']_vars
  BY <1>1
<1> QED
  BY <1>2, AccessInvariant, PTL DEF Spec, ForgetsOnlyByOverlap
=============================================================================
