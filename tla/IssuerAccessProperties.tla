------------------------ MODULE IssuerAccessProperties ------------------------
(***************************************************************************)
(* What IssuerAccess must satisfy.  Two of its hazards are real, so a      *)
(* property comes in two forms where the code does not hold it always: the *)
(* unconditional one, which a run refutes, and the one that names the only *)
(* way to break it.                                                        *)
(***************************************************************************)
EXTENDS IssuerAccess

(* The types, and what a call holds at each of its steps: no call asks WSAA *)
(* for a ticket without a key and a certificate, nor ARCA without a ticket. *)
CallShape(c) ==
  /\ c.at # "idle" => c.issuer \in Issuers
  /\ c.at \in {"matchHolder", "matchWrite", "saveWrite"} => c.crt \in Certs
  /\ c.at \in {"matchHolder", "matchWrite"} => cert[c.issuer].key # None
  /\ c.at \in {"backfill", "ticket", "login"} => c.crt \in Certs /\ c.key \in Keys
  /\ c.at \in {"represent", "credentials", "backfill", "ticket", "login", "store", "arca"}
       => c.holder \in Holders
  /\ c.at \in {"store", "arca"} => c.ticket \in Holders
  /\ c.at \in {"confirm", "confirmWrite"} => c.kind \in Tracked
  /\ c.at = "diagnoseWrite" => c.seen \in Statuses
CallsOK == call \in [Calls -> CallStates] /\ \A p \in Calls : CallShape(call[p])
RowsOK ==
  /\ TypeOK
  /\ \A i \in Issuers : cert[i].crt # None => cert[i].key # None
AccessInv == RowsOK /\ CallsOK

(* The status table of docs/arca-integracion.md, read as evidence: an       *)
(* issuer is never shown as confirmed, issuing or blocked unless ARCA       *)
(* accepted a tracked call of it, nor as issuing without a CAE.             *)
StatusHasEvidence ==
  \A i \in Issuers :
    /\ status[i] \in ReachedThroughArca => furthest[i] # "nothing"
    /\ status[i] = "ISSUING_CONFIRMED" => furthest[i] = "ISSUE"

(* assertCertificateBelongsToIssuer: a call that reaches ARCA carries the   *)
(* ticket of the holder the issuer declared when the call read it.          *)
HolderIsVerified ==
  \A p \in Calls : Busy(p, "arca") => call[p].ticket = call[p].holder

(* The same, and every cached ticket is its holder's (what lets issuers     *)
(* that share a representative share a ticket), unless a backfill of        *)
(* holderCuit met a certificate of someone other than the one it read.      *)
TicketsBelongToTheirHolder ==
  misfiled = {} => HolderIsVerified /\ \A h \in Holders : ticket[h] \in {None, h}

(* updateRepresentative and assertCertificateHolder check the declared      *)
(* holder and the loaded certificate against each other: if no two calls on *)
(* an issuer overlapped, both agree.  The certificate of a row from before  *)
(* the holderCuit column was never compared.                                *)
LoadedMatchesDeclared ==
  \A i \in Issuers \ overlapped :
    cert[i].crt \notin {None, LegacyRow(i).crt} => cert[i].holder = declared[i]

(* matchCertificate: the certificate beside a generated key certifies that  *)
(* key, or WSAA would refuse every login, if no two calls overlapped.       *)
PairMatches ==
  \A i \in Issuers \ overlapped :
    cert[i].key # 0 /\ cert[i].crt # None => cert[i].crt.key = cert[i].key

(* What each handler checked before it waited is still so when it writes,   *)
(* if no other call wrote to the issuer in between.                         *)
StillTrue(c) ==
  LET i == c.issuer IN
  /\ c.at \in {"matchHolder", "matchWrite"} => c.crt.key = cert[i].key
  /\ c.at \in {"matchWrite", "saveWrite"} => Holds(c.crt, i)
  /\ c.at = "represent" => LoadedHolder(i) \in {None, c.holder}
  /\ c.at = "loadedWrite" => status[i] \notin ReachedThroughArca
  /\ c.at = "confirmWrite" => status[i] # "ISSUING_CONFIRMED"
  /\ c.at = "backfill" => cert[i].crt = c.crt /\ cert[i].holder = None
  /\ c.at = "diagnoseWrite" => c.seen = status[i]
ReadsStayTrue ==
  \A p \in Calls : Issuer(p) \in Issuers \ overlapped => StillTrue(call[p])

(* "no retrocede el estado de un emisor que ya facturó": from issuing the   *)
(* status goes only to blocked.                                             *)
Forgets(i) == status[i] = "ISSUING_CONFIRMED"
              /\ status'[i] \notin {"ISSUING_CONFIRMED", "BLOCKED_BY_ARCA"}

(* It does when a certificate upload or a read-only call that read an older *)
(* status writes after the one that issued; never otherwise.                *)
ForgetsOnlyByOverlap == [][\A i \in Issuers : Forgets(i) => i \in overlapped']_vars
-----------------------------------------------------------------------------
(* The inductive invariant: what the rows and each call satisfy together.   *)

\* What a call knows of the ARCA calls accepted before.
Evidence(c) ==
  /\ c.at \in {"confirm", "confirmWrite"} =>
       furthest[c.issuer] # "nothing" /\ (c.kind = "ISSUE" => furthest[c.issuer] = "ISSUE")
  /\ c.at = "diagnoseWrite" /\ c.seen \in ReachedThroughArca => furthest[c.issuer] # "nothing"

\* Whose certificate and ticket a call carries.
Carries(c) ==
  misfiled = {} =>
    /\ c.at \in {"ticket", "login"} => c.crt.holder = c.holder
    /\ c.at \in {"store", "arca"} => c.ticket = c.holder

CallGood(c) ==
  /\ CallShape(c)
  /\ Evidence(c)
  /\ Carries(c)
  /\ c.issuer \in Issuers \ overlapped => StillTrue(c)

\* holderCuit is what the certificate says, and a ticket is its holder's.
HoldersKnown ==
  misfiled = {} =>
    /\ \A i \in Issuers : None \notin {cert[i].crt, cert[i].holder} => cert[i].holder = cert[i].crt.holder
    /\ \A h \in Holders : ticket[h] \in {None, h}

RowsGood ==
  RowsOK /\ StatusHasEvidence /\ HoldersKnown /\ LoadedMatchesDeclared /\ PairMatches
CallsGood == call \in [Calls -> CallStates] /\ \A p \in Calls : CallGood(call[p])
IssuerAccessInv == RowsGood /\ CallsGood
=============================================================================
