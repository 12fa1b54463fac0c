--------------------------- MODULE ExportVouchers ---------------------------
(* Export invoices (WSFEX): their schema and total, and the one pass of       *)
(* ExportVouchersService.issue from the lock of the issuer to the row, with   *)
(* WSFEX at the other end.  There is no retry, queue, recovery or key here.   *)
(* Two rows of the issuer table may carry one CUIT (two users of one tax      *)
(* payer): the lock tells them apart, ARCA does not.                          *)
EXTENDS VoucherSchema, Amounts

CONSTANTS
  Posts,         \* POSTs of an export invoice, each with its own caller
  IssuerCuit,    \* the CUIT of each row of the issuer table
  ExportInputs   \* the bodies posted

\* Finitely many posts are made; a sales point is a number.
ASSUME ExportConstants ==
  IsFiniteSet(Posts) /\ \A input \in ExportInputs : input.salesPoint \in Nat

VARIABLES
  exports,       \* rows of the voucher table
  salesPoints,   \* rows of the sales point table, <<issuer, number>>
  posts,         \* how far each POST got
  fex            \* external: what WSFEX has authorised

exportVars == <<exports, salesPoints, posts, fex>>

Issuers == DOMAIN IssuerCuit

-----------------------------------------------------------------------------
(* export-voucher.ts: money in cents, quantities in thousandths *)

ExportType == [GOODS |-> 1, SERVICES |-> 2, OTHERS |-> 4]
VoucherLanguage == [SPANISH |-> 1, ENGLISH |-> 2, PORTUGUESE |-> 3]

requiresShippingPermit(exportType) == exportType = ExportType.GOODS

exportItemSchema(item) == item.quantity > 0 /\ item.unitPrice >= 0 /\ item.discount >= 0

issueExportVoucherSchema(input) ==
  /\ isExportVoucher(input.voucherType)
  /\ \E name \in DOMAIN ExportType : input.exportType = ExportType[name]
  /\ \E name \in DOMAIN VoucherLanguage : input.language = VoucherLanguage[name]
  /\ input.items # <<>> /\ \A i \in DOMAIN input.items : exportItemSchema(input.items[i])
  /\ input.shippingPermits # {} => requiresShippingPermit(input.exportType)
  /\ input.exportType = ExportType.GOODS => input.incoterm # None

\* A discount may exceed its line: the total can be negative.
exportItemTotal(item) == RoundHalfUp(item.quantity * item.unitPrice - item.discount * Unit, Unit)

exportVoucherTotal(items) == SumOf(items, exportItemTotal)

-----------------------------------------------------------------------------
(* What is sent, and what is stored *)

\* buildRequest: the fields ARCA compares when an id comes again.
FexRequest(post) ==
  LET input == posts[post].input
  IN [Id |-> posts[post].requestId, Cbte_tipo |-> input.voucherType,
      Punto_vta |-> input.salesPoint, Cbte_nro |-> posts[post].number,
      Tipo_expo |-> input.exportType,
      Permiso_existente |-> IF input.shippingPermits = {} THEN "N" ELSE "S",
      Permisos |-> input.shippingPermits, Incoterms |-> input.incoterm,
      Idioma_cbte |-> input.language,
      Items |-> [i \in DOMAIN input.items |->
                  [qty |-> input.items[i].quantity, price |-> input.items[i].unitPrice,
                   bonificacion |-> input.items[i].discount,
                   total |-> exportItemTotal(input.items[i])]],
      Cmps_asoc |-> input.associatedVouchers,
      Imp_total |-> exportVoucherTotal(input.items)]

\* The row: no IVA, everything exempt.
ExportRow(post) ==
  LET input == posts[post].input
      total == exportVoucherTotal(input.items)
  IN [issuer |-> posts[post].issuer, salesPoint |-> input.salesPoint,
      voucherType |-> input.voucherType, number |-> posts[post].number,
      concept |-> 1, netAmount |-> 0, ivaAmount |-> 0, exemptAmount |-> total,
      totalAmount |-> total,
      status |-> IF posts[post].reply.observed THEN "OBSERVED" ELSE "APPROVED",
      cae |-> posts[post].reply.cae, requestId |-> posts[post].requestId,
      associatedVouchers |-> input.associatedVouchers,
      exportDetail |-> [exportType |-> input.exportType, language |-> input.language,
                        incoterm |-> input.incoterm,
                        shippingPermits |-> input.shippingPermits],
      subtotals |-> [i \in DOMAIN input.items |-> exportItemTotal(input.items[i])]]

-----------------------------------------------------------------------------
(* External: WSFEX numbers by CUIT, sales point and type, and has the ids of  *)
(* a CUIT.  An id that comes again with the same content gives its CAE again. *)

FexOf(cuit) == {a \in fex : a.cuit = cuit}

LastRequestId(cuit) == Cardinality(FexOf(cuit))

LastExportNumber(cuit, input) ==
  Cardinality({a \in FexOf(cuit) : /\ a.request.Punto_vta = input.salesPoint
                                   /\ a.request.Cbte_tipo = input.voucherType})

CuitOf(post) == IssuerCuit[posts[post].issuer]

Reprocessed(post) == \E a \in FexOf(CuitOf(post)) : a.request = FexRequest(post)

Authorisable(post) ==
  /\ posts[post].requestId > LastRequestId(CuitOf(post))
  /\ posts[post].number = LastExportNumber(CuitOf(post), posts[post].input) + 1

Cae(cuit, requestId) == <<cuit, requestId>>

-----------------------------------------------------------------------------
NoReply == [cae |-> None, observed |-> FALSE]

ExportsInit ==
  /\ exports = {} /\ salesPoints = {} /\ fex = {}
  /\ posts = [post \in Posts |-> [step |-> "new", issuer |-> None, input |-> None,
                                  number |-> 0, requestId |-> 0, reply |-> NoReply]]

Step(post, step) == [posts EXCEPT ![post].step = step]

UnchangedButPosts == UNCHANGED <<exports, salesPoints, fex>>

\* The controller's schema, then findFirst by id and user; then the lock.
PostExport(post, issuer, input) ==
  /\ posts[post].step = "new"
  /\ posts' = [posts EXCEPT ![post].issuer = issuer, ![post].input = input,
                 ![post].step = CASE ~issueExportVoucherSchema(input) -> "refused"
                                  [] issuer = None -> "not_found"
                                  [] OTHER -> "waiting"]
  /\ UnchangedButPosts

InSection == {"auth", "reading", "sending", "recording", "creating"}

LockFree(issuer) ==
  \A other \in Posts : posts[other].issuer = issuer => posts[other].step \notin InSection

EnterSection(post) ==
  /\ posts[post].step = "waiting"
  /\ LockFree(posts[post].issuer)
  /\ posts' = Step(post, "auth")
  /\ UnchangedButPosts

ExportAuth(post) ==
  /\ posts[post].step = "auth"
  /\ posts' = Step(post, "reading")
  /\ UnchangedButPosts

\* Mutant: the number read is stored as the last and raised twice.
Mutant_ReadLastNumber(post) ==
  /\ posts[post].step = "reading" /\ posts[post].number = 0
  /\ posts' = [posts EXCEPT ![post].number = 2 + LastExportNumber(CuitOf(post), posts[post].input),
                 ![post].step = IF posts[post].requestId = 0 THEN "reading" ELSE "sending"]
  /\ UnchangedButPosts

\* The two reads of Promise.all, in either order.
ReadLastNumber(post) ==
  /\ posts[post].step = "reading" /\ posts[post].number = 0
  /\ posts' = [posts EXCEPT ![post].number = 1 + LastExportNumber(CuitOf(post), posts[post].input),
                 ![post].step = IF posts[post].requestId = 0 THEN "reading" ELSE "sending"]
  /\ UnchangedButPosts

ReadLastRequestId(post) ==
  /\ posts[post].step = "reading" /\ posts[post].requestId = 0
  /\ posts' = [posts EXCEPT ![post].requestId = 1 + LastRequestId(CuitOf(post)),
                 ![post].step = IF posts[post].number = 0 THEN "reading" ELSE "sending"]
  /\ UnchangedButPosts

\* Any call to ARCA may fail before it has an effect.
ArcaFails(post) ==
  /\ posts[post].step \in {"auth", "reading", "sending"}
  /\ posts' = Step(post, "failed")
  /\ UnchangedButPosts

\* FEXAuthorize, and parseAuthorizeResponse if the reply arrives.
AuthorizeExport(post) ==
  /\ posts[post].step = "sending" /\ Authorisable(post)
  /\ \E observed \in BOOLEAN, arrives \in BOOLEAN :
       /\ fex' = fex \cup {[cuit |-> CuitOf(post), request |-> FexRequest(post),
                            observed |-> observed]}
       /\ posts' = IF arrives
                   THEN [posts EXCEPT ![post].step = "recording",
                           ![post].reply = [cae |-> Cae(CuitOf(post), posts[post].requestId),
                                            observed |-> observed]]
                   ELSE Step(post, "failed")
  /\ UNCHANGED <<exports, salesPoints>>

\* The reprocessed flag is logged and nothing else.
ReprocessExport(post) ==
  /\ posts[post].step = "sending" /\ Reprocessed(post)
  /\ \E a \in FexOf(CuitOf(post)) :
       /\ a.request = FexRequest(post)
       /\ posts' = [posts EXCEPT ![post].step = "recording",
                      ![post].reply = [cae |-> Cae(a.cuit, a.request.Id),
                                       observed |-> a.observed]]
  /\ UnchangedButPosts

RejectExport(post) ==
  /\ posts[post].step = "sending" /\ ~Authorisable(post) /\ ~Reprocessed(post)
  /\ posts' = Step(post, "rejected")
  /\ UnchangedButPosts

UpsertSalesPoint(post) ==
  /\ posts[post].step = "recording"
  /\ salesPoints' = salesPoints \cup {<<posts[post].issuer, posts[post].input.salesPoint>>}
  /\ posts' = Step(post, "creating")
  /\ UNCHANGED <<exports, fex>>

SameNumber(row, post) ==
  /\ row.issuer = posts[post].issuer /\ row.salesPoint = posts[post].input.salesPoint
  /\ row.voucherType = posts[post].input.voucherType /\ row.number = posts[post].number

\* The table refuses a second row of one number.
CreateExportRow(post) ==
  /\ posts[post].step = "creating"
  /\ ~\E row \in exports : SameNumber(row, post)
  /\ exports' = exports \cup {ExportRow(post)}
  /\ posts' = Step(post, "issued")
  /\ UNCHANGED <<salesPoints, fex>>

\* The database fails, or the process dies, with the CAE granted.
RecordFails(post) ==
  /\ posts[post].step \in {"recording", "creating"}
  /\ posts' = Step(post, "failed")
  /\ UnchangedButPosts

ExportsNext ==
  \E post \in Posts :
    \/ \E issuer \in Issuers \cup {None}, input \in ExportInputs : PostExport(post, issuer, input)
    \/ EnterSection(post) \/ ExportAuth(post)
    \/ ReadLastNumber(post) \/ ReadLastRequestId(post) \/ ArcaFails(post)
    \/ AuthorizeExport(post) \/ ReprocessExport(post) \/ RejectExport(post)
    \/ UpsertSalesPoint(post) \/ CreateExportRow(post) \/ RecordFails(post)

ExportsSpec == ExportsInit /\ [][ExportsNext]_exportVars
-----------------------------------------------------------------------------
(* Properties *)

ExportsTypeOK ==
  /\ \A row \in exports : row.issuer \in Issuers /\ row.number \in Nat \ {0}
  /\ salesPoints \subseteq Issuers \X Nat
  /\ \A post \in Posts : posts[post].step \in InSection \cup
       {"new", "refused", "not_found", "waiting", "failed", "rejected", "issued"}
  /\ \A row \in exports : <<row.issuer, row.salesPoint>> \in salesPoints

\* Each stored export is what WSFEX authorised under its CAE, and the items it
\* keeps add up to the total printed in its QR.
StoredAsAuthorised ==
  \A row \in exports : \E a \in fex :
    /\ row.cae = Cae(a.cuit, a.request.Id) /\ a.cuit = IssuerCuit[row.issuer]
    /\ row.requestId = a.request.Id /\ row.number = a.request.Cbte_nro
    /\ row.salesPoint = a.request.Punto_vta /\ row.voucherType = a.request.Cbte_tipo
    /\ row.totalAmount = a.request.Imp_total
    /\ SumOf(row.subtotals, LAMBDA s : s) = row.totalAmount
    /\ row.exportDetail.shippingPermits = a.request.Permisos

\* One CAE is stored once by an issuer.  Only two rows of the issuer table with
\* one CUIT, whose posts raced outside any common lock with equal contents, may
\* both store it (WSFEX answered the second with Reproceso, which is only logged).
StoredOnce ==
  \A r, s \in exports : r # s /\ r.cae = s.cae =>
    r.issuer # s.issuer /\ [r EXCEPT !.issuer = s.issuer] = s

\* An authorised export that has no row belongs to a POST still at work or
\* answered with an error, never to one answered as issued or as rejected; and
\* each POST leaves at most one such export behind.
LossWasAnswered ==
  \A a \in fex :
    \/ \E row \in exports : row.cae = Cae(a.cuit, a.request.Id)
    \/ \E post \in Posts :
         /\ posts[post].step \in {"recording", "creating", "failed"}
         /\ CuitOf(post) = a.cuit /\ FexRequest(post) = a.request

\* A POST of an issuer that waited its turn is never rejected for its number
\* unless another row of the issuer table shares the CUIT
\* (export-vouchers.service.ts:65-78: the reads and the call are one section).
RejectedOnlyByRace ==
  \A post \in Posts : posts[post].step = "rejected" =>
    \E other \in Posts : /\ other # post /\ posts[other].issuer \notin {None, posts[post].issuer}
                         /\ CuitOf(other) = CuitOf(post)

ExportsHold == StoredAsAuthorised /\ StoredOnce /\ LossWasAnswered /\ RejectedOnlyByRace
=============================================================================
