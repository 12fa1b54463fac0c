------------------------------ MODULE MCParts ------------------------------
(* The parts of the API and the app that share no state: a behaviour          *)
(* chooses one and runs it, so that their states add up and do not multiply.  *)
EXTENDS ExportVouchers, Reconciliation, PurchaseBook, PushTokens, Webhooks, ExpiryWatch,
        FiscalCalendar, ArcaCaches, RateLimits, ServiceAccess, Catalog, VoucherForm

VARIABLE part

\* A part that is not chosen starts in one of its states only.
Init ==
  /\ part \in {"exports", "reconciliation", "purchases", "push", "webhooks", "watch", "calendar",
               "caches", "limits", "access", "catalog", "form"}
  /\ ExportsInit /\ ReconciliationInit /\ PurchasesInit /\ PushInit
  /\ WebhooksInit /\ (part # "webhooks" => grants = {} /\ active = {})
  /\ WatchInit /\ (part # "watch" => \A c \in Certificates : validUntil[c] = Max(EndsIn) * TicksPerDay)
  /\ CalendarInit
  /\ part # "calendar" => lastDigit = Max(LastDigits) /\ certificateEnd = Max(CertificateEnds)
  /\ CachesInit /\ RateLimitsInit
  /\ AccessInit /\ CatalogInit
  /\ FormInit /\ (part # "form" => draft = None)

OthersStay(name) ==
  /\ part = name /\ UNCHANGED part
  /\ name # "exports" => UNCHANGED exportVars
  /\ name # "reconciliation" => UNCHANGED reconciliationVars
  /\ name # "purchases" => UNCHANGED purchaseVars
  /\ name # "push" => UNCHANGED pushVars
  /\ name # "webhooks" => UNCHANGED webhookVars
  /\ name # "watch" => UNCHANGED watchVars
  /\ name # "calendar" => UNCHANGED calendarVars
  /\ name # "caches" => UNCHANGED cacheVars
  /\ name # "limits" => UNCHANGED limitVars
  /\ name # "access" => UNCHANGED accessVars
  /\ name # "catalog" => UNCHANGED catalogVars
  /\ name # "form" => UNCHANGED formVars

Next ==
  \/ OthersStay("exports") /\ ExportsNext
  \/ OthersStay("reconciliation") /\ ReconciliationNext
  \/ OthersStay("purchases") /\ PurchasesNext
  \/ OthersStay("push") /\ PushNext
  \/ OthersStay("webhooks") /\ WebhooksNext
  \/ OthersStay("watch") /\ WatchNext
  \/ OthersStay("calendar") /\ CalendarNext
  \/ OthersStay("caches") /\ CachesNext
  \/ OthersStay("limits") /\ RateLimitsNext
  \/ OthersStay("access") /\ AccessNext
  \/ OthersStay("catalog") /\ CatalogNext
  \/ OthersStay("form") /\ FormNext

vars == <<part, exportVars, reconciliationVars, purchaseVars, pushVars, webhookVars, watchVars,
          calendarVars, cacheVars, limitVars, accessVars, catalogVars, formVars>>

Spec == Init /\ [][Next]_vars
-----------------------------------------------------------------------------
(* Properties.  Each joins those of some parts, stated in their modules.      *)

\* Every part keeps to its types.
PartsTypeOK ==
  /\ ExportsTypeOK /\ ReconciliationTypeOK /\ PurchasesTypeOK /\ PushTypeOK /\ WebhooksTypeOK
  /\ WatchTypeOK /\ CalendarTypeOK /\ CachesTypeOK /\ RateLimitsTypeOK /\ AccessTypeOK
  /\ CatalogTypeOK /\ FormTypeOK

\* Who is told what, and when: the push token follows the session of its phone,
\* a webhook is retried as promised, and no certificate or due date is missed.
NoticesHold == PushFollowsSession /\ DeliveriesHold /\ ExpiryHolds /\ DueDatesHold

\* What serves a request: caches answer nothing older than they may, a caller
\* reaches its own issuers at a bounded rate, and the tables stay consistent.
ServicesHold == CachesHold /\ RateIsBounded /\ AccessHolds /\ CatalogHolds
-----------------------------------------------------------------------------
(* Values of the constants *)

\* Two rows of the issuer table with one CUIT.
MCIssuerCuit == <<"cuit", "cuit">>

ExportInput(type, exportType, incoterm, permits, items) ==
  [voucherType |-> type, salesPoint |-> 1, exportType |-> exportType,
   language |-> VoucherLanguage.ENGLISH, incoterm |-> incoterm, shippingPermits |-> permits,
   associatedVouchers |-> <<>>, items |-> items]

ExportItem(quantity, unitPrice, discount) ==
  [quantity |-> quantity, unitPrice |-> unitPrice, discount |-> discount]

\* Goods with a permit, services of fractional units with a discount, permits
\* without goods, goods without an incoterm, and a domestic type.
MCExportInputs ==
  {ExportInput(19, ExportType.GOODS, "FOB", {"permit"}, <<ExportItem(1000, 100, 0)>>),
   ExportInput(19, ExportType.SERVICES, None, {},
               <<ExportItem(333, 5, 0), ExportItem(333, 5, 1)>>),
   ExportInput(19, ExportType.SERVICES, None, {"permit"}, <<ExportItem(1000, 100, 0)>>),
   ExportInput(19, ExportType.GOODS, None, {}, <<ExportItem(1000, 100, 0)>>),
   ExportInput(1, ExportType.OTHERS, None, {}, <<ExportItem(1000, 100, 0)>>)}

Cell(kind, cents) == [form |-> kind, cents |-> cents]
Cents(cents) == Cell("decimals", cents)
EmptyCell == Cell("empty", 0)

Line(supplier, number, net, iva, exempt, total) ==
  [blank |-> FALSE, supplierCuit |-> supplier, invoiceType |-> 1, salesPoint |-> 1,
   number |-> number, issueDate |-> 1, netTaxed |-> net, untaxed |-> EmptyCell,
   exempt |-> exempt, iva |-> iva, total |-> total]

\* One file repeats an invoice; the other has one with other taxes, one at a
\* rate without a field, one whose net is misread, an unreadable one and a
\* blank line between a good one and one a cent off.
MCCsvFiles ==
  {[hasColumns |-> TRUE, lines |->
      <<Line("s1", 1, Cents(100), Cents(21), EmptyCell, Cents(121)),
        Line("s1", 1, Cents(100), Cents(21), EmptyCell, Cents(121))>>],
   [hasColumns |-> TRUE, lines |->
      <<Line("s1", 1, Cents(100), Cents(21), EmptyCell, Cents(121)),
        Line("s2", 1, Cents(100), Cents(21), EmptyCell, Cents(131)),
        Line("s2", 2, Cents(1000), Cents(50), EmptyCell, Cents(1050)),
        Line("s2", 3, Cell("dotted_thousands", 1000000), Cents(210), EmptyCell, Cents(1000210)),
        Line("s2", 4, Cell("unreadable", 0), Cents(21), EmptyCell, Cents(121)),
        [Line("s2", 5, Cents(1), Cents(1), EmptyCell, Cents(1)) EXCEPT !.blank = TRUE],
        Line("s2", 6, Cents(100), Cents(21), Cents(50), Cents(172))>>],
   [hasColumns |-> FALSE, lines |-> <<>>]}

Amounts0 == [field \in AmountFields |-> 0]

MCManualInvoices ==
  {[supplierCuit |-> "s1", invoiceType |-> 1, salesPoint |-> 1, number |-> number,
    issueDate |-> 1, amounts |-> [Amounts0 EXCEPT !["netAmount21"] = 100, !["iva21"] = 21]] :
     number \in {0, 1}}

MCUpdates == {"iva27" :> 5 @@ "number" :> 1, "netAmount21" :> 50 @@ "exempt" :> 7 @@ "issueDate" :> 2}

MCEndpointOwner == <<"a", "a", "b">>

MCExpectations ==
  {[netAmount |-> net, ivaAmount |-> 21, totalAmount |-> 121, number |-> number] :
     net \in {99, 100, 102}, number \in {Absent, 2}}

\* A blank form, and the note that cancels a credit invoice in dollars.
MCDrafts ==
  {None,
   [voucherType |-> VoucherType.FCE_NOTA_CREDITO_B, concept |-> 1, servicePeriod |-> None,
    paymentDueDate |-> 20, recipient |-> [docType |-> CUIT, docNumber |-> "c1", legalName |-> "one"],
    currency |-> "DOL", exchangeRate |-> 90, associatedVouchers |-> <<"original">>,
    items |-> <<[newItem EXCEPT !.described = TRUE]>>]}

MCFormClients == {[docType |-> CUIT, docNumber |-> "c1", legalName |-> "one"]}
MCRegistered == "c1" :> [legalName |-> "one", ivaConditionId |-> 1]
MCQuote == "DOL" :> 100 @@ "EUR" :> 110

\* A period that ends before it starts and a rate of zero among them.
MCTyped ==
  [docType |-> {CUIT, CONSUMIDOR_FINAL}, docNumber |-> {"c2"}, legalName |-> {"two"},
   concept |-> {2}, servicePeriod |-> {[from |-> 5, to |-> 2]}, paymentDueDate |-> {20},
   transmissionType |-> {"ADC"}, exchangeRate |-> {0}, salesPoint |-> {2}]
MCTypedInItem == [quantity |-> {0}, ivaRate |-> {105}, taxTreatment |-> {"EXEMPT", "TAXED"}]
MCTypedInTribute == [taxableBase |-> {5}]

MCPlan == [netAmount |-> 100, ivaAmount |-> 21, totalAmount |-> 121, number |-> 1]
=============================================================================
