---------------------------- MODULE IssuerAccess ----------------------------
(***************************************************************************)
(* What an issuer needs before ARCA answers it: the key pair and the       *)
(* certificate it loads, the holder it declares, the access ticket WSAA    *)
(* gives to that holder, and the onboarding status that remembers how far  *)
(* it got (services/api/src/certs, issuers, issuer-arca, arca/wsaa).       *)
(*                                                                         *)
(* None of these handlers takes a lock: each reads rows, decides, and      *)
(* writes in a later step, so any two of them may interleave, and any of   *)
(* them may end halfway (a failed write, a crash).                         *)
(*                                                                         *)
(* A CUIT that can hold a certificate is in Holders.  A certificate is the *)
(* key it certifies and its holder.  A key is a number: 0 is one the user  *)
(* brought, the others are made by generateCsr.  A ticket is reduced to    *)
(* the holder of the certificate that obtained it; one environment and one *)
(* ARCA service stand for each of them.  WSAA and ARCA are external: they  *)
(* may always refuse.                                                      *)
(*                                                                         *)
(* A definition named Mutant_x is not part of the model: it is a plausible *)
(* slip in the definition after it, used to show a property notices it.    *)
(***************************************************************************)
EXTENDS Naturals

CONSTANTS
  Calls,    \* the HTTP calls in progress; one that ended may be made again
  Issuers,
  Holders,  \* CUITs
  OwnCuit,  \* Issuer.cuit, per issuer
  None,
  MaxKeys   \* bound: the key pairs generateCsr makes

ASSUME AccessConstantsOK ==
  /\ OwnCuit \in [Issuers -> Holders]
  /\ MaxKeys \in Nat
  /\ None \notin Issuers /\ None \notin Holders /\ None \notin 0..MaxKeys
  /\ None \notin [key : 0..MaxKeys, holder : Holders]

VARIABLES
  declared,   \* representativeCuit ?? cuit
  status,     \* onboardingStatus
  cert,       \* the Certificate row, per issuer
  ticket,     \* AccessTicketCache, per holderCuit: whose ticket, or None
  call,       \* what each call is doing and what it has read
  made,       \* key pairs generated so far
  furthest,   \* history: the most ARCA accepted of each issuer
  overlapped, \* history: issuers written to while another of their calls ran
  misfiled    \* history: issuers whose backfill met another holder's certificate

rows == <<declared, status, cert, ticket>>
history == <<furthest, overlapped, misfiled>>
vars == <<rows, call, made, history>>

Keys == 0..MaxKeys
Certs == [key : Keys, holder : Holders]
Loaded == Certs \cup {None}
\* key and crt are privateKeyEnc and certPem; csrPem is the request for `key'
\* whenever crt is None, the only rows whose request the code reads.
CertRows == [key : Keys \cup {None}, crt : Loaded, holder : Holders \cup {None}]
NoCertRow == [key |-> None, crt |-> None, holder |-> None]

Statuses == {"PENDING_CERTIFICATE", "PENDING_DELEGATION", "DELEGATION_CONFIRMED",
             "ISSUING_CONFIRMED", "BLOCKED_BY_ARCA"}
ReachedThroughArca == {"DELEGATION_CONFIRMED", "ISSUING_CONFIRMED", "BLOCKED_BY_ARCA"}
Mutant_hasConfirmedDelegation(s) == s = "DELEGATION_CONFIRMED"
hasConfirmedDelegation(s) == s \in ReachedThroughArca

\* READ_ONLY and ISSUE are tracked by the onboarding; PLAIN calls are not
\* (sales points, parameters, taxpayers, reconciliation, the retry's query).
Tracked == {"READ_ONLY", "ISSUE"}
Kinds == Tracked \cup {"PLAIN"}
Furthest == {"nothing"} \cup Tracked
CONFIRMED_STATUS == [k \in Tracked |->
  IF k = "ISSUE" THEN "ISSUING_CONFIRMED" ELSE "DELEGATION_CONFIRMED"]

Labels == {"idle", "csr", "matchHolder", "matchWrite", "saveWrite", "loaded",
           "loadedWrite", "represent", "credentials", "backfill", "ticket", "login",
           "store", "arca", "confirm", "confirmWrite", "diagnose", "diagnoseWrite"}
CallStates == [at : Labels, issuer : Issuers \cup {None}, kind : Kinds \cup {None},
               key : Keys \cup {None}, crt : Loaded, holder : Holders \cup {None},
               ticket : Holders \cup {None}, seen : Statuses \cup {None}]
Idle == [at |-> "idle", issuer |-> None, kind |-> None, key |-> None, crt |-> None,
         holder |-> None, ticket |-> None, seen |-> None]

TypeOK ==
  /\ declared \in [Issuers -> Holders]
  /\ status \in [Issuers -> Statuses]
  /\ cert \in [Issuers -> CertRows]
  /\ ticket \in [Holders -> Holders \cup {None}]
  /\ call \in [Calls -> CallStates]
  /\ made \in Keys
  /\ furthest \in [Issuers -> Furthest]
  /\ overlapped \in SUBSET Issuers
  /\ misfiled \in SUBSET Issuers

\* A row from before the holderCuit column: the migration gave its issuer a
\* status and left the holder of its certificate unknown.
LegacyRow(i) == [key |-> 0, crt |-> [key |-> 0, holder |-> OwnCuit[i]], holder |-> None]
NewIssuer(i) == /\ cert[i] = NoCertRow
                /\ status[i] = "PENDING_CERTIFICATE"
                /\ furthest[i] = "nothing"
LegacyIssuer(i) == /\ cert[i] = LegacyRow(i)
                   /\ \/ status[i] = "PENDING_DELEGATION" /\ furthest[i] = "nothing"
                      \/ status[i] = "ISSUING_CONFIRMED" /\ furthest[i] = "ISSUE"

Init ==
  /\ declared = OwnCuit
  /\ cert \in [Issuers -> {NoCertRow} \cup {LegacyRow(i) : i \in Issuers}]
  /\ status \in [Issuers -> Statuses]
  /\ furthest \in [Issuers -> Furthest]
  /\ \A i \in Issuers : NewIssuer(i) \/ LegacyIssuer(i)
  /\ ticket = [h \in Holders |-> None]
  /\ call = [p \in Calls |-> Idle]
  /\ made = 0
  /\ overlapped = {}
  /\ misfiled = {}
-----------------------------------------------------------------------------
Busy(p, label) == call[p].at = label
Goto(p, label) == call' = [call EXCEPT ![p].at = label]
End(p) == call' = [call EXCEPT ![p] = Idle]
Issuer(p) == call[p].issuer
\* A write by p: history of the issuers that had another call under way.
Writes(p) == overlapped' = IF \E q \in Calls \ {p} : Issuer(q) = Issuer(p)
                           THEN overlapped \cup {Issuer(p)} ELSE overlapped

------------------------------ (* certificates *) -----------------------------
\* A pending request is handed out again unless the caller asks for a new one.
StartCsr(p) ==
  \E i \in Issuers, regenerate \in BOOLEAN :
    /\ Busy(p, "idle")
    /\ made < MaxKeys
    /\ regenerate \/ cert[i].key = None \/ cert[i].crt # None
    /\ call' = [call EXCEPT ![p] = [Idle EXCEPT !.at = "csr", !.issuer = i]]
    /\ UNCHANGED <<rows, made, history>>

\* The upsert leaves holderCuit as it was and discards the loaded certificate.
WriteCsr(p) ==
  /\ Busy(p, "csr")
  /\ made < MaxKeys
  /\ made' = made + 1
  /\ cert' = [cert EXCEPT ![Issuer(p)] = [key |-> made + 1, crt |-> None, holder |-> @.holder]]
  /\ Writes(p)
  /\ End(p)
  /\ UNCHANGED <<declared, status, ticket, furthest, misfiled>>

\* Certificates a user can have got from ARCA: for his own key, or for one
\* whose request he was given.
Obtainable == [key : 0..made, holder : Holders]

Mutant_StartMatch(p) == \* certMatchesKey is not asked
  \E i \in Issuers, c \in Obtainable :
    /\ Busy(p, "idle")
    /\ cert[i].key # None
    /\ call' = [call EXCEPT ![p] = [Idle EXCEPT !.at = "matchHolder", !.issuer = i, !.crt = c]]
    /\ UNCHANGED <<rows, made, history>>

StartMatch(p) ==
  \E i \in Issuers, c \in Obtainable :
    /\ Busy(p, "idle")
    /\ cert[i].key # None
    /\ c.key = cert[i].key
    /\ call' = [call EXCEPT ![p] = [Idle EXCEPT !.at = "matchHolder", !.issuer = i, !.crt = c]]
    /\ UNCHANGED <<rows, made, history>>

\* assertCertificateHolder; a certificate of another CUIT is refused.
Mutant_Holds(c, i) == c.holder = OwnCuit[i] \* forgets the representative
Holds(c, i) == c.holder = declared[i]

AssertHolder(p) ==
  /\ Busy(p, "matchHolder")
  /\ IF Holds(call[p].crt, Issuer(p)) THEN Goto(p, "matchWrite") ELSE End(p)
  /\ UNCHANGED <<rows, made, history>>

StoreCertificate(p, key) ==
  /\ cert' = [cert EXCEPT ![Issuer(p)] =
       [key |-> key, crt |-> call[p].crt, holder |-> call[p].crt.holder]]
  /\ Writes(p)
  /\ call' = [call EXCEPT ![p] = [Idle EXCEPT !.at = "loaded", !.issuer = Issuer(p)]]
  /\ UNCHANGED <<declared, status, ticket, made, furthest, misfiled>>

WriteMatch(p) == Busy(p, "matchWrite") /\ StoreCertificate(p, cert[Issuer(p)].key)

\* saveCertificate does not compare the certificate with the key it comes with.
StartSave(p) ==
  \E i \in Issuers, c \in Obtainable :
    /\ Busy(p, "idle")
    /\ Holds(c, i)
    /\ call' = [call EXCEPT ![p] = [Idle EXCEPT !.at = "saveWrite", !.issuer = i, !.crt = c]]
    /\ UNCHANGED <<rows, made, history>>

WriteSave(p) == Busy(p, "saveWrite") /\ StoreCertificate(p, 0)

ReadStatus(p) ==
  /\ Busy(p, "loaded")
  /\ IF hasConfirmedDelegation(status[Issuer(p)]) THEN End(p) ELSE Goto(p, "loadedWrite")
  /\ UNCHANGED <<rows, made, history>>

SetStatus(p, s) ==
  /\ status' = [status EXCEPT ![Issuer(p)] = s]
  /\ Writes(p)
  /\ End(p)
  /\ UNCHANGED <<declared, cert, ticket, made, furthest, misfiled>>

MarkCertificateLoaded(p) == Busy(p, "loadedWrite") /\ SetStatus(p, "PENDING_DELEGATION")

--------------------------- (* the declared holder *) --------------------------
LoadedHolder(i) == IF cert[i].crt = None THEN None ELSE cert[i].holder

StartRepresentative(p) ==
  \E i \in Issuers, h \in Holders :
    /\ Busy(p, "idle")
    /\ LoadedHolder(i) \in {None, h}
    /\ call' = [call EXCEPT ![p] = [Idle EXCEPT !.at = "represent", !.issuer = i, !.holder = h]]
    /\ UNCHANGED <<rows, made, history>>

UpdateRepresentative(p) ==
  /\ Busy(p, "represent")
  /\ declared' = [declared EXCEPT ![Issuer(p)] = call[p].holder]
  /\ Writes(p)
  /\ End(p)
  /\ UNCHANGED <<status, cert, ticket, made, furthest, misfiled>>

----------------------------- (* a call to ARCA *) -----------------------------
\* The caller reads the issuer; buildAuth works with what it read.  The kind
\* of the call matters only once ARCA answers and is left open until then.
StartAsk(p) ==
  \E i \in Issuers :
    /\ Busy(p, "idle")
    /\ call' = [call EXCEPT ![p] = [Idle EXCEPT !.at = "credentials", !.issuer = i,
                                                !.holder = declared[i]]]
    /\ UNCHANGED <<rows, made, history>>

\* assertCertificateBelongsToIssuer, on what the call read.
Mutant_BelongsToIssuer(p, holderCuit) == TRUE \* only warns
BelongsToIssuer(p, holderCuit) == holderCuit = call[p].holder

\* p goes on with the ticket if the certificate's holder is the expected one.
ResolveHolder(p, credentials, holderCuit) ==
  IF BelongsToIssuer(p, holderCuit)
  THEN call' = [call EXCEPT ![p].at = "ticket", ![p].key = credentials.key,
                            ![p].crt = credentials.crt]
  ELSE End(p)

Mutant_GetCredentials(p) == \* a row without a certificate goes on
  LET row == cert[Issuer(p)] IN
  /\ Busy(p, "credentials")
  /\ IF row.holder = None THEN End(p) ELSE ResolveHolder(p, row, row.holder)
  /\ UNCHANGED <<rows, made, history>>

GetCredentials(p) ==
  LET row == cert[Issuer(p)] IN
  /\ Busy(p, "credentials")
  /\ \/ row.crt = None /\ End(p)
     \/ row.crt # None /\ row.holder # None /\ ResolveHolder(p, row, row.holder)
     \/ /\ row.crt # None /\ row.holder = None
        /\ call' = [call EXCEPT ![p].at = "backfill", ![p].key = row.key, ![p].crt = row.crt]
  /\ UNCHANGED <<rows, made, history>>

BackfillHolderCuit(p) ==
  LET i == Issuer(p) IN
  /\ Busy(p, "backfill")
  /\ cert' = [cert EXCEPT ![i].holder = call[p].crt.holder]
  /\ misfiled' = IF cert[i].crt = None \/ cert[i].crt.holder = call[p].crt.holder
                  THEN misfiled ELSE misfiled \cup {i}
  /\ Writes(p)
  /\ ResolveHolder(p, call[p], call[p].crt.holder)
  /\ UNCHANGED <<declared, status, ticket, made, furthest>>

WithTicket(p, label, t) ==
  [Idle EXCEPT !.at = label, !.issuer = Issuer(p), !.holder = call[p].holder, !.ticket = t]

GetAccessTicket(p) ==
  LET cached == ticket[call[p].holder] IN
  /\ Busy(p, "ticket")
  /\ IF cached = None THEN Goto(p, "login")
     ELSE call' = [call EXCEPT ![p] = WithTicket(p, "arca", cached)]
  /\ UNCHANGED <<rows, made, history>>

\* WSAA checks the signature against the certificate that comes with it.
Login(p) ==
  /\ Busy(p, "login")
  /\ \/ /\ call[p].crt.key = call[p].key
        /\ call' = [call EXCEPT ![p] = WithTicket(p, "store", call[p].crt.holder)]
     \/ End(p)
  /\ UNCHANGED <<rows, made, history>>

CacheTicket(p) ==
  /\ Busy(p, "store")
  /\ ticket' = [ticket EXCEPT ![call[p].holder] = call[p].ticket]
  /\ Goto(p, "arca")
  /\ UNCHANGED <<declared, status, cert, made, history>>

\* The ticket expires, or is about to: the margin counts as expired.
TicketExpires(h) ==
  /\ ticket[h] # None
  /\ ticket' = [ticket EXCEPT ![h] = None]
  /\ UNCHANGED <<declared, status, cert, call, made, history>>

\* A call that went through ARCA, with what is left for the onboarding to do.
Answered(p, label, kind) ==
  call' = [call EXCEPT ![p] = IF kind \in Tracked
    THEN [Idle EXCEPT !.at = label, !.issuer = Issuer(p), !.kind = kind] ELSE Idle]

ArcaAccepts(p) ==
  \E kind \in Kinds :
    /\ Busy(p, "arca")
    /\ furthest' = [furthest EXCEPT ![Issuer(p)] =
         IF kind = "ISSUE" \/ (@ = "nothing" /\ kind = "READ_ONLY") THEN kind ELSE @]
    /\ Answered(p, "confirm", kind)
    /\ UNCHANGED <<rows, made, overlapped, misfiled>>

\* 600: the holder is not among the issuer's relations, or the issuer is blocked.
\* What the diagnosis does depends on the call being tracked, not on its kind.
ArcaRejectsRelation(p) ==
  /\ Busy(p, "arca")
  /\ Answered(p, "diagnose", "ISSUE")
  /\ UNCHANGED <<rows, made, history>>

----------------------------- (* onboarding status *) --------------------------
Mutant_Confirm(p) == \* without the early return for ISSUING_CONFIRMED
  /\ Busy(p, "confirm")
  /\ IF status[Issuer(p)] = CONFIRMED_STATUS[call[p].kind] THEN End(p) ELSE Goto(p, "confirmWrite")
  /\ UNCHANGED <<rows, made, history>>

Confirm(p) ==
  /\ Busy(p, "confirm")
  /\ IF status[Issuer(p)] \in {"ISSUING_CONFIRMED", CONFIRMED_STATUS[call[p].kind]}
     THEN End(p) ELSE Goto(p, "confirmWrite")
  /\ UNCHANGED <<rows, made, history>>

WriteConfirmation(p) ==
  Busy(p, "confirmWrite") /\ SetStatus(p, CONFIRMED_STATUS[call[p].kind])

Diagnose(p) ==
  /\ Busy(p, "diagnose")
  /\ call' = [call EXCEPT ![p].at = "diagnoseWrite", ![p].seen = status[Issuer(p)]]
  /\ UNCHANGED <<rows, made, history>>

Mutant_statusAfterRejection(current) ==
  IF current = "PENDING_CERTIFICATE" THEN "PENDING_DELEGATION" ELSE "BLOCKED_BY_ARCA"

statusAfterRejection(current) ==
  IF current \in {"PENDING_CERTIFICATE", "PENDING_DELEGATION"}
  THEN "PENDING_DELEGATION" ELSE "BLOCKED_BY_ARCA"

WriteDiagnosis(p) ==
  Busy(p, "diagnoseWrite") /\ SetStatus(p, statusAfterRejection(call[p].seen))

\* A failed write, another error of WSAA or ARCA, or a crash: the call ends.
Abort(p) ==
  /\ ~Busy(p, "idle")
  /\ End(p)
  /\ UNCHANGED <<rows, made, history>>
-----------------------------------------------------------------------------
Certificates(p) ==
  \/ StartCsr(p) \/ WriteCsr(p) \/ StartMatch(p) \/ AssertHolder(p) \/ WriteMatch(p)
  \/ StartSave(p) \/ WriteSave(p) \/ ReadStatus(p) \/ MarkCertificateLoaded(p)

Representation(p) == StartRepresentative(p) \/ UpdateRepresentative(p)

Asking(p) ==
  \/ StartAsk(p) \/ GetCredentials(p) \/ BackfillHolderCuit(p) \/ GetAccessTicket(p)
  \/ Login(p) \/ CacheTicket(p) \/ ArcaAccepts(p) \/ ArcaRejectsRelation(p)

Onboarding(p) == Confirm(p) \/ WriteConfirmation(p) \/ Diagnose(p) \/ WriteDiagnosis(p)

Next ==
  \/ \E p \in Calls : Certificates(p) \/ Representation(p) \/ Asking(p) \/ Onboarding(p) \/ Abort(p)
  \/ \E h \in Holders : TicketExpires(h)

Spec == Init /\ [][Next]_vars
=============================================================================
