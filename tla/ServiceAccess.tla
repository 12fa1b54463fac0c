--------------------------- MODULE ServiceAccess ---------------------------
(* How a request reaches an issuer: the guards of its controller in order,    *)
(* the check of the issuer, the operation and the audit.  Users reach the     *)
(* issuers they own; API clients those they are granted, at a limited rate.   *)
EXTENDS Integers, Sequences, FiniteSets

CONSTANTS
  Nobody,
  Owners,        \* users
  Clients,       \* API clients
  Cuits,         \* tax payers an issuer may be created for
  MaxIssuers,    \* bound on the issuers ever created
  MaxRequests    \* bound on the requests ever made

ASSUME AccessConstants ==
  /\ Owners \cap Clients = {} /\ Nobody \notin Nat
  /\ MaxIssuers \in Nat \ {0} /\ MaxRequests \in Nat

VARIABLES
  issuers,       \* issuer rows in order: CUIT, its user and who wrote it last
  granted,       \* pairs of a client and an issuer
  incoming,      \* requests in order
  audited        \* rows of the service audit

accessVars == <<issuers, granted, incoming, audited>>

\* The user row that stands for an API client.
serviceUser(client) == <<"service", client>>

-----------------------------------------------------------------------------
(* The controllers.  "check" is how the handler finds the issuer, "names"     *)
(* whether the request carries issuerId where the audit looks for it.         *)

Route(check, effect, audits, names) ==
  [check |-> check, effect |-> effect, audits |-> audits, names |-> names]

V1Route(check, effect) == Route(check, effect, FALSE, TRUE)
AuditedRoute(check, effect, names) == Route(check, effect, TRUE, names)
UserRoute(check, effect) == Route(check, effect, FALSE, TRUE)

\* Issuing looks for the issuer first; the routes of one voucher name only it.
V1VoucherRoutes ==
  {AuditedRoute("exists_then_grant", "update", TRUE), AuditedRoute("grant", "read", TRUE),
   AuditedRoute("voucher_grant", "read", FALSE)}

V1PendingRoutes == {AuditedRoute("grant", effect, TRUE) : effect \in {"read", "update"}}

\* The path calls the issuer "id".
V1IssuerRoutes ==
  {AuditedRoute("none", effect, FALSE) : effect \in {"create", "list"}}
    \cup {AuditedRoute("grant", effect, FALSE) : effect \in {"read", "update"}}

V1TaxpayerRoutes == {AuditedRoute("grant", "read", TRUE)}

V1FiscalRoutes == {V1Route("grant", "read")}
V1SalesBookRoutes == {V1Route("grant", "read")}
V1ParamRoutes == {V1Route("grant", "read")}
V1PurchaseRoutes == {V1Route("grant", effect) : effect \in {"read", "update"}}
V1ShadowRoutes == {V1Route("grant", effect) : effect \in {"read", "update"}}

\* A draft's amounts need no issuer and are left out.
VoucherRoutes ==
  {UserRoute("owner", effect) : effect \in {"read", "update"}} \cup {UserRoute("voucher_owner", "read")}

\* An export is issued for a row found by its id and user, or not at all.
ExportVoucherRoutes == {UserRoute("own_row", "update")}

IssuerRoutes ==
  {UserRoute("none", effect) : effect \in {"create", "list"}}
    \cup {UserRoute("owner", effect) : effect \in {"read", "update"}}

IssuerVoucherRoutes == {UserRoute("owner", "read")}
PendingVoucherRoutes == {UserRoute("owner", effect) : effect \in {"read", "update"}}
ReconciliationRoutes == {UserRoute("owner", "read")}
ClientRoutes == {UserRoute("owner", effect) : effect \in {"read", "update"}}
SalesPointRoutes == {UserRoute("owner", effect) : effect \in {"read", "update"}}
TaxpayerRoutes == {UserRoute("owner", "read")}
FiscalRoutes == {UserRoute("owner", "read")}
PurchaseRoutes == {UserRoute("owner", effect) : effect \in {"read", "update"}}
ArcaCallRoutes == {UserRoute("owner", "read")}
ArcaParamRoutes == {UserRoute("owner", "read")}
CertificateRoutes == {UserRoute("owner", "update")}

UserRoutes ==
  VoucherRoutes \cup ExportVoucherRoutes \cup IssuerRoutes \cup IssuerVoucherRoutes
    \cup PendingVoucherRoutes \cup ReconciliationRoutes \cup ClientRoutes \cup SalesPointRoutes
    \cup TaxpayerRoutes \cup FiscalRoutes \cup PurchaseRoutes \cup ArcaCallRoutes
    \cup ArcaParamRoutes \cup CertificateRoutes

V1Routes ==
  V1VoucherRoutes \cup V1PendingRoutes \cup V1IssuerRoutes \cup V1TaxpayerRoutes
    \cup V1FiscalRoutes \cup V1SalesBookRoutes \cup V1ParamRoutes \cup V1PurchaseRoutes
    \cup V1ShadowRoutes

-----------------------------------------------------------------------------
AccessInit ==
  /\ \E owner \in Owners :
       issuers = <<[cuit |-> CHOOSE cuit \in Cuits : TRUE, user |-> owner, writtenBy |-> owner]>>
  /\ granted = {} /\ incoming = <<>> /\ audited = {}

Callers == Owners \cup Clients

\* Only the routes that find no issuer name none, 0.
ApiRequest(caller, route, issuer) ==
  /\ Len(incoming) < MaxRequests
  /\ route.check = "none" <=> issuer = 0
  /\ route \in IF caller \in Clients THEN V1Routes ELSE UserRoutes
  /\ incoming' = Append(incoming,
       [caller |-> caller, route |-> route, issuer |-> issuer, answer |-> 0, data |-> {},
        step |-> IF caller \in Clients THEN "arriving" ELSE "checking"])
  /\ UNCHANGED <<issuers, granted, audited>>

Answer(r, code) == [incoming EXCEPT ![r].step = "over", ![r].answer = code]

\* ServiceAuthGuard, where a bad key or an inactive client ends it; then
\* RateLimitGuard, modelled in RateLimits.
Guards(r) ==
  /\ incoming[r].step = "arriving"
  /\ incoming' \in {Answer(r, 401), Answer(r, 429), [incoming EXCEPT ![r].step = "checking"]}
  /\ UNCHANGED <<issuers, granted, audited>>

Exists(issuer) == issuer \in DOMAIN issuers

IsGranted(r) == <<incoming[r].caller, incoming[r].issuer>> \in granted

IsOwned(r) == Exists(incoming[r].issuer) /\ issuers[incoming[r].issuer].user = incoming[r].caller

\* A client without the grant is refused before anybody looks for the issuer,
\* but for its vouchers and for issuing; a user is told which it is.
Refusal(r) ==
  LET issuer == incoming[r].issuer
      missing == IF Exists(issuer) THEN 403 ELSE 404
  IN CASE incoming[r].route.check = "none" -> 0
       [] incoming[r].route.check = "grant" -> IF IsGranted(r) THEN 0 ELSE 403
       [] incoming[r].route.check \in {"exists_then_grant", "voucher_grant"} ->
            IF IsGranted(r) THEN 0 ELSE missing
       [] incoming[r].route.check \in {"owner", "voucher_owner"} ->
            IF IsOwned(r) THEN 0 ELSE missing
       [] incoming[r].route.check = "own_row" -> IF IsOwned(r) THEN 0 ELSE 404

\* The schema (400), then the check.
Check(r) ==
  /\ incoming[r].step = "checking"
  /\ \/ incoming' = [incoming EXCEPT ![r].step = "auditing", ![r].answer = 400]
     \/ incoming' = IF Refusal(r) = 0 THEN [incoming EXCEPT ![r].step = "acting"]
                    ELSE [incoming EXCEPT ![r].step = "auditing", ![r].answer = Refusal(r)]
  /\ UNCHANGED <<issuers, granted, audited>>

Done(r, data) ==
  [incoming EXCEPT ![r].step = "auditing", ![r].answer = 200, ![r].data = data]

\* One query, or what another module models, like issuing: a user's is scoped by
\* its owner again, a client's is not.
Act(r) ==
  /\ incoming[r].step = "acting" /\ incoming[r].route.effect \in {"read", "update"}
  /\ incoming' = Done(r, {incoming[r].issuer})
  /\ issuers' = IF incoming[r].route.effect = "update"
                THEN [issuers EXCEPT ![incoming[r].issuer].writtenBy = incoming[r].caller]
                ELSE issuers
  /\ UNCHANGED <<granted, audited>>

\* listForApiClient reads the grants and then the issuers; list only these.
List(r) ==
  /\ incoming[r].step = "acting" /\ incoming[r].route.effect = "list"
  /\ incoming' = Done(r, {i \in DOMAIN issuers :
       IF incoming[r].caller \in Clients THEN <<incoming[r].caller, i>> \in granted
       ELSE issuers[i].user = incoming[r].caller})
  /\ UNCHANGED <<issuers, granted, audited>>

UserOf(caller) == IF caller \in Clients THEN serviceUser(caller) ELSE caller

\* For a client its user, the issuer and the grant are one transaction; a CUIT
\* its user has is a conflict, which a user's own creation answers as an error.
CreateIssuer(r, cuit) ==
  LET taken == \E i \in DOMAIN issuers :
                 issuers[i].cuit = cuit /\ issuers[i].user = UserOf(incoming[r].caller)
  IN /\ incoming[r].step = "acting" /\ incoming[r].route.effect = "create"
     /\ IF taken
        THEN /\ incoming' = [incoming EXCEPT ![r].step = "auditing",
                               ![r].answer = IF incoming[r].caller \in Clients THEN 409 ELSE 500]
             /\ UNCHANGED <<issuers, granted>>
        ELSE /\ Len(issuers) < MaxIssuers
             /\ issuers' = Append(issuers, [cuit |-> cuit, user |-> UserOf(incoming[r].caller),
                                            writtenBy |-> incoming[r].caller])
             /\ granted' = IF incoming[r].caller \in Clients
                           THEN granted \cup {<<incoming[r].caller, Len(issuers) + 1>>}
                           ELSE granted
             /\ incoming' = Done(r, {Len(issuers) + 1})
     /\ UNCHANGED audited

\* create-api-client makes a client with its grants and only then tells its key.
CreateApiClientByScript(client) ==
  /\ \A r \in DOMAIN incoming : incoming[r].caller # client
  /\ \A i \in DOMAIN issuers : <<client, i>> \notin granted
  /\ \E named \in SUBSET DOMAIN issuers \ {{}} : granted' = granted \cup ({client} \X named)
  /\ UNCHANGED <<issuers, incoming, audited>>

\* Guards come before the interceptor, so what they refuse is not audited; a
\* failed write of the audit is only logged.
Audit(r) ==
  /\ incoming[r].step = "auditing"
  /\ incoming' = [incoming EXCEPT ![r].step = "over"]
  /\ \/ UNCHANGED audited
     \/ /\ incoming[r].route.audits
        /\ audited' = audited \cup {[request |-> r,
             issuer |-> IF incoming[r].route.names THEN incoming[r].issuer ELSE Nobody,
             outcome |-> IF incoming[r].answer = 200 THEN "success" ELSE "error"]}
  /\ UNCHANGED <<issuers, granted>>

AccessNext ==
  \/ \E caller \in Callers, issuer \in 0..MaxIssuers :
       \E route \in V1Routes \cup UserRoutes : ApiRequest(caller, route, issuer)
  \/ \E client \in Clients : CreateApiClientByScript(client)
  \/ \E r \in DOMAIN incoming :
       \/ Guards(r) \/ Check(r) \/ Act(r) \/ List(r) \/ Audit(r)
       \/ \E cuit \in Cuits : CreateIssuer(r, cuit)

AccessSpec == AccessInit /\ [][AccessNext]_accessVars
-----------------------------------------------------------------------------
(* Properties *)

AccessTypeOK ==
  /\ Len(issuers) <= MaxIssuers
  /\ granted \subseteq Clients \X DOMAIN issuers
  /\ \A r \in DOMAIN incoming : incoming[r].answer \in {0, 200, 400, 401, 403, 404, 409, 429, 500}

MayReach(caller, issuer) ==
  IF caller \in Clients THEN <<caller, issuer>> \in granted ELSE issuers[issuer].user = caller

\* What is answered belongs to an issuer the caller owns or is granted, and
\* only such a caller wrote of it, whatever was created in between.
OnlyOwnIssuers ==
  /\ \A r \in DOMAIN incoming :
       \A issuer \in incoming[r].data : MayReach(incoming[r].caller, issuer)
  /\ \A i \in DOMAIN issuers : MayReach(issuers[i].writtenBy, i)

\* One user, and so one client, has a CUIT once; two clients may share an
\* issuer only by a grant made by script.
CuitOncePerUser ==
  \A i, j \in DOMAIN issuers :
    issuers[i].cuit = issuers[j].cuit /\ issuers[i].user = issuers[j].user => i = j

\* An audit row tells what its request was answered; it lacks the issuer only
\* where the path does not call it issuerId (service-audit.interceptor.ts:28-31).
AuditTells ==
  \A row \in audited :
    /\ incoming[row.request].step = "over" /\ incoming[row.request].answer \notin {401, 429}
    /\ row.outcome = "success" <=> incoming[row.request].answer = 200
    /\ row.issuer = Nobody <=> ~incoming[row.request].route.names

AccessHolds == OnlyOwnIssuers /\ CuitOncePerUser /\ AuditTells
=============================================================================
