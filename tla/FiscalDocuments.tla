--------------------------- MODULE FiscalDocuments ---------------------------
(* What the API makes of an invoice besides its CAE: the request it sends,    *)
(* the row it stores, the credit note that cancels it, the printed page, the  *)
(* monthly sales book with its CSV and the monthly IVA position.              *)
(* One issuer and one sales point.  How the CAE is obtained is modelled in    *)
(* VoucherEmission: here ARCA authorises, observes or rejects.                *)
EXTENDS VoucherSchema, Amounts

CONSTANTS
  Drafts,        \* the invoices callers post
  Purchases,     \* the purchase invoices they register
  Accounts,      \* the payment accounts an issuer registers: [cbu, paymentAlias]
  Legacy,        \* the rows stored before recipients were kept beside the QR
  MaxSales, MaxVouchers, MaxPurchases, MaxMonth

VARIABLES
  vouchers,      \* rows of the voucher table, in order of creation
  purchases,     \* rows of the purchase table
  account,       \* the issuer's payment account
  today,         \* the day, as the number of days since the first month
  sent,          \* the invoice last sent to ARCA, None once something else happens
  answer         \* what the last caller was answered

vars == <<vouchers, purchases, account, today, sent, answer>>

-----------------------------------------------------------------------------
(* The types of the rows and reports: wsfe.types.ts, voucher-tables.ts,       *)
(* sales-book.ts, fiscal.ts                                                   *)

VoucherAmounts ==
  [netAmount : Nat, ivaAmount : Nat, exemptAmount : Nat, untaxedAmount : Nat,
   tributeAmount : Nat, totalAmount : Nat,
   rates : SUBSET [id : Nat, taxableBase : Nat, amount : Nat],
   tributes : Seq([id : Nat, amount : Nat])]

IssuedVoucherData ==
  [recipientDocType : Nat \cup {None}, recipientDocNumber : STRING \cup {None},
   voucherType : VoucherTypeIds, number : Nat \ {0}, voucherDate : Nat, concept : 1..3,
   servicePeriod : [from : Nat, to : Nat] \cup {None}, paymentDueDate : Nat \cup {None},
   amounts : VoucherAmounts, exchangeRate : Nat \ {0}, status : VoucherStatus,
   associatedVouchers : Seq([type : VoucherTypeIds, number : Nat]),
   qrData : [tipoCmp : VoucherTypeIds, nroCmp : Nat, importe : Nat, tipoDocRec : Nat,
             nroDocRec : STRING],
   items : Seq([quantity : Nat, unitPrice : Nat, ivaRate : ivaRates, subtotal : Nat,
                taxTreatment : {"TAXED", "EXEMPT", "UNTAXED"}])]

\* What issueVoucherSchema accepts, for the types ARCA knows.
IssueVoucherData ==
  [voucherType : VoucherTypeIds, concept : 1..3,
   recipient : [docType : Nat, docNumber : STRING, ivaConditionId : Nat \cup {None}],
   items : Seq([quantity : Nat, unitPrice : Nat, ivaRate : ivaRates,
                taxTreatment : {"TAXED", "EXEMPT", "UNTAXED"}]),
   tributes : Seq([id : Nat, taxableBase : Nat, rate : Nat]), exchangeRate : Nat \ {0},
   associatedVouchers : Seq([type : VoucherTypeIds, number : Nat]),
   servicePeriod : [from : Nat, to : Nat] \cup {None}, paymentDueDate : Nat \cup {None},
   transmissionType : STRING \cup {None}]

SalesBookTotals ==
  [voucherCount : Nat, netAmount : Int, exemptAmount : Int, untaxedAmount : Int,
   ivaAmount : Int, tributeAmount : Int, totalAmount : Int]

IvaPosition == [totalDebit : Int, totalCredit : Int, balance : Int]

DaysPerMonth == 30
MonthOf(day) == day \div DaysPerMonth

-----------------------------------------------------------------------------
(* The request to ARCA: wsfe-request-xml.ts, credit-invoice-optionals.ts *)

\* An FCE invoice cannot be sent without the issuer's CBU (400).
LacksCbu(data) ==
  isCreditInvoice(data.voucherType) /\ ~isCreditDebitNote(data.voucherType) /\ account.cbu = None

\* Pairs of an optional's id and its value.
buildCreditInvoiceOptionals(data) ==
  CASE ~isCreditInvoice(data.voucherType) -> {}
    [] isCreditDebitNote(data.voucherType) -> {<<22, "N">>}
    [] OTHER ->
         {<<2101, account.cbu>>,
          <<27, IF data.transmissionType = None THEN "SCA" ELSE data.transmissionType>>}
         \cup (IF account.paymentAlias = None THEN {} ELSE {<<2102, account.paymentAlias>>})

\* The sections of the request; an empty list leaves its section out.
buildCaeDetail(data, amounts) ==
  [ImpTotal |-> amounts.totalAmount, ImpTotConc |-> amounts.untaxedAmount,
   ImpNeto |-> amounts.netAmount, ImpOpEx |-> amounts.exemptAmount,
   ImpTrib |-> amounts.tributeAmount, ImpIVA |-> amounts.ivaAmount,
   Iva |-> amounts.rates, Tributos |-> amounts.tributes,
   CbtesAsoc |-> data.associatedVouchers,
   FchServ |-> data.servicePeriod, FchVtoPago |-> data.paymentDueDate,
   CondicionIVAReceptorId |->
     IF data.recipient.ivaConditionId = None
     THEN defaultRecipientIvaCondition(data.voucherType) ELSE data.recipient.ivaConditionId,
   Opcionales |-> buildCreditInvoiceOptionals(data)]

\* What goes to ARCA for an invoice.
RequestOf(data) ==
  buildCaeDetail(data, calculateAmounts(data.voucherType, data.items, data.tributes))

-----------------------------------------------------------------------------
(* The stored row: issued-voucher-data.ts, qr.util.ts *)

\* Mutant: the number of the last voucher is used again.
Mutant_NextNumber(type) ==
  Cardinality({i \in DOMAIN vouchers : vouchers[i].voucherType = type})

NextNumber(type) ==
  1 + Cardinality({i \in DOMAIN vouchers : vouchers[i].voucherType = type})

buildQr(data, number, amounts) ==
  [tipoCmp |-> data.voucherType, nroCmp |-> number, importe |-> amounts.totalAmount,
   tipoDocRec |-> data.recipient.docType, nroDocRec |-> data.recipient.docNumber]

itemData(item) ==
  [quantity |-> item.quantity, unitPrice |-> item.unitPrice, ivaRate |-> item.ivaRate,
   taxTreatment |-> item.taxTreatment, subtotal |-> RoundHalfUp(grossOf(item), Unit)]

buildIssuedVoucherData(data, status) ==
  LET amounts == calculateAmounts(data.voucherType, data.items, data.tributes)
      number == NextNumber(data.voucherType)
  IN [recipientDocType |-> data.recipient.docType,
      recipientDocNumber |-> data.recipient.docNumber,
      voucherType |-> data.voucherType, number |-> number, voucherDate |-> today,
      concept |-> data.concept, servicePeriod |-> data.servicePeriod,
      paymentDueDate |-> data.paymentDueDate,
      amounts |-> amounts, exchangeRate |-> data.exchangeRate, status |-> status,
      associatedVouchers |-> data.associatedVouchers,
      qrData |-> buildQr(data, number, amounts),
      items |-> [i \in DOMAIN data.items |-> itemData(data.items[i])]]

-----------------------------------------------------------------------------
(* The credit note: credit-note-draft.service.ts *)

\* The row's own recipient, else the one the QR carries.
recipientOf(voucher) ==
  [docType |-> IF voucher.recipientDocType = None THEN voucher.qrData.tipoDocRec
                                                  ELSE voucher.recipientDocType,
   docNumber |-> IF voucher.recipientDocNumber = None THEN voucher.qrData.nroDocRec
                                                      ELSE voucher.recipientDocNumber,
   ivaConditionId |-> None]

\* 422 otherwise.
AdmitsCreditNote(voucher) ==
  creditNoteTypeFor(voucher.voucherType) # NoType /\ isAuthorizedStatus(voucher.status)

\* Mutant: only services get a due date.
Mutant_buildCreditNoteDraft(voucher) ==
  LET type == creditNoteTypeFor(voucher.voucherType)
      services == requiresServicePeriod(voucher.concept)
  IN [voucherType |-> type, concept |-> voucher.concept, recipient |-> recipientOf(voucher),
      items |-> voucher.items, exchangeRate |-> voucher.exchangeRate,
      associatedVouchers |-> <<[type |-> voucher.voucherType, number |-> voucher.number]>>,
      servicePeriod |-> IF services THEN voucher.servicePeriod ELSE None,
      paymentDueDate |-> IF services THEN today ELSE None,
      transmissionType |-> None, tributes |-> <<>>]

buildCreditNoteDraft(voucher) ==
  LET type == creditNoteTypeFor(voucher.voucherType)
      services == requiresServicePeriod(voucher.concept)
  IN [voucherType |-> type, concept |-> voucher.concept, recipient |-> recipientOf(voucher),
      items |-> [i \in DOMAIN voucher.items |->
                  [quantity |-> voucher.items[i].quantity, unitPrice |-> voucher.items[i].unitPrice,
                   ivaRate |-> voucher.items[i].ivaRate,
                   taxTreatment |-> voucher.items[i].taxTreatment]],
      exchangeRate |-> voucher.exchangeRate,
      associatedVouchers |-> <<[type |-> voucher.voucherType, number |-> voucher.number]>>,
      servicePeriod |-> IF services THEN voucher.servicePeriod ELSE None,
      paymentDueDate |-> IF services \/ isCreditInvoice(type) THEN today ELSE None,
      transmissionType |-> None, tributes |-> <<>>]

-----------------------------------------------------------------------------
(* The tax books: sales-book.service.ts, sales-book-csv.ts, iva-position.service.ts *)

\* The rows a month's reports are made of, by their place in the table.
VouchersOf(month) ==
  {i \in DOMAIN vouchers :
     isAuthorizedStatus(vouchers[i].status) /\ MonthOf(vouchers[i].voucherDate) = month}

\* Mutant: the exempt column keeps the sign of an invoice.
Mutant_toEntry(voucher) ==
  LET sign == voucherSign(voucher.voucherType)
      taxes == breakDownVoucherTaxes(voucher)
      signedPesos(amount) == RoundHalfUp(sign * toPesos(voucher, amount), 10)
      ivaByRate == [rate \in DOMAIN taxes.ivaByRate |-> sign * taxes.ivaByRate[rate]]
  IN [netAmount |-> sign * taxes.netAmount, exemptAmount |-> taxes.exemptAmount,
      untaxedAmount |-> sign * taxes.untaxedAmount, ivaByRate |-> ivaByRate,
      ivaAmount |-> SumOverRates(LAMBDA rate : IF rate \in DOMAIN ivaByRate THEN ivaByRate[rate] ELSE 0),
      tributeAmount |-> signedPesos(voucher.amounts.tributeAmount),
      totalAmount |-> signedPesos(voucher.amounts.totalAmount)]

toEntry(voucher) ==
  LET sign == voucherSign(voucher.voucherType)
      taxes == breakDownVoucherTaxes(voucher)
      signedPesos(amount) == RoundHalfUp(sign * toPesos(voucher, amount), 10)
      ivaByRate == [rate \in DOMAIN taxes.ivaByRate |-> sign * taxes.ivaByRate[rate]]
  IN [netAmount |-> sign * taxes.netAmount, exemptAmount |-> sign * taxes.exemptAmount,
      untaxedAmount |-> sign * taxes.untaxedAmount, ivaByRate |-> ivaByRate,
      ivaAmount |-> SumOverRates(LAMBDA rate : IF rate \in DOMAIN ivaByRate THEN ivaByRate[rate] ELSE 0),
      tributeAmount |-> signedPesos(voucher.amounts.tributeAmount),
      totalAmount |-> signedPesos(voucher.amounts.totalAmount)]

sumEntries(entries, pick(_)) ==
  SumOfAll([i \in DOMAIN vouchers |-> IF i \in DOMAIN entries THEN pick(entries[i]) ELSE 0])

buildSalesBook(month) ==
  LET entries == [i \in VouchersOf(month) |-> toEntry(vouchers[i])]
  IN [entries |-> entries,
      totals |-> [voucherCount |-> Cardinality(VouchersOf(month)),
                  netAmount |-> sumEntries(entries, LAMBDA e : e.netAmount),
                  exemptAmount |-> sumEntries(entries, LAMBDA e : e.exemptAmount),
                  untaxedAmount |-> sumEntries(entries, LAMBDA e : e.untaxedAmount),
                  ivaAmount |-> sumEntries(entries, LAMBDA e : e.ivaAmount),
                  tributeAmount |-> sumEntries(entries, LAMBDA e : e.tributeAmount),
                  totalAmount |-> sumEntries(entries, LAMBDA e : e.totalAmount)]]

taxedRates == {rate \in ivaRates : rate > 0}

ivaForRate(entry, rate) == IF rate \in DOMAIN entry.ivaByRate THEN entry.ivaByRate[rate] ELSE 0

\* The IVA columns of the totals row of the CSV.
CsvIvaTotals(book) ==
  [rate \in taxedRates |-> sumEntries(book.entries, LAMBDA e : ivaForRate(e, rate))]

\* Mutant: credit notes add to the debit.
Mutant_DebitOf(month, rate) ==
  SumOfAll([i \in DOMAIN vouchers |->
    LET byRate == breakDownVoucherTaxes(vouchers[i]).ivaByRate
    IN IF i \in VouchersOf(month) /\ rate \in DOMAIN byRate THEN byRate[rate] ELSE 0])

DebitOf(month, rate) ==
  SumOfAll([i \in DOMAIN vouchers |->
    LET byRate == breakDownVoucherTaxes(vouchers[i]).ivaByRate
    IN IF i \in VouchersOf(month) /\ rate \in DOMAIN byRate
       THEN voucherSign(vouchers[i].voucherType) * byRate[rate] ELSE 0])

CreditOf(month, rate) ==
  SumWhere(purchases,
    LAMBDA p : MonthOf(p.issueDate) = month /\ rate \in DOMAIN p.iva,
    LAMBDA p : IF isCreditNote(p.invoiceType) THEN -p.iva[rate] ELSE p.iva[rate])

getMonthlyPosition(month) ==
  LET debit == SumOverRates(LAMBDA rate : DebitOf(month, rate))
      credit == SumOverRates(LAMBDA rate : CreditOf(month, rate))
  IN [totalDebit |-> debit, totalCredit |-> credit, balance |-> debit - credit]

-----------------------------------------------------------------------------
(* The printed page: voucher-pdf-data.ts, fiscal-transparency.ts,              *)
(* voucher-pdf-sections.ts.  Vertical positions in points, one line per item.  *)

FooterTop == 841 - 180

buildFiscalTransparency(voucher) ==
  LET amounts == voucher.amounts
  IN IF ~requiresFiscalTransparencyNotice(voucher.voucherType) THEN None
     ELSE [containedIva |-> IF amounts.ivaAmount > 0 THEN amounts.ivaAmount
                                                     ELSE containedIvaAmount(voucher.items),
           otherNationalIndirectTaxes |->
            SumWhere(amounts.tributes, LAMBDA t : isNationalIndirectTribute(t.id), LAMBDA t : t.amount)]

\* Mutant: the untaxed line is left out.
Mutant_totalLines(voucher) ==
  LET amounts == voucher.amounts
  IN <<amounts.netAmount>>
     \o (IF amounts.exemptAmount > 0 THEN <<amounts.exemptAmount>> ELSE <<>>)
     \o <<amounts.ivaAmount>>
     \o [i \in DOMAIN amounts.tributes |-> amounts.tributes[i].amount]

\* The amounts printed above the total.
totalLines(voucher) ==
  LET amounts == voucher.amounts
      ifPositive(amount) == IF amount > 0 THEN <<amount>> ELSE <<>>
  IN <<amounts.netAmount>> \o ifPositive(amounts.untaxedAmount)
     \o ifPositive(amounts.exemptAmount) \o <<amounts.ivaAmount>>
     \o [i \in DOMAIN amounts.tributes |-> amounts.tributes[i].amount]

drawRecipient == 122 + 15 + 25

drawItemsTable(voucher, top) == top + 14 + 6 + Len(voucher.items) * (12 + 4) + 10

drawTotals(voucher, top) == top + Len(totalLines(voucher)) * 14 + 18

drawAssociatedVouchers(voucher, top) ==
  IF voucher.associatedVouchers = <<>> THEN top
  ELSE top + 8 + 14 + Len(voucher.associatedVouchers) * 12

drawFiscalTransparency(voucher, top) ==
  IF buildFiscalTransparency(voucher) = None THEN top ELSE top + 12 + 12 + 2 * 11

drawRetentionNotice(voucher, top) ==
  IF requiresRetentionNotice(voucher.voucherType) THEN top + 12 + 8 ELSE top

\* Where the last section above the CAE and the QR ends.
drawVoucher(voucher) ==
  drawRetentionNotice(voucher, drawFiscalTransparency(voucher,
    drawAssociatedVouchers(voucher, drawTotals(voucher,
      drawItemsTable(voucher, drawRecipient)))))

-----------------------------------------------------------------------------
\* The invoices that pass the schema, and those turned away.
Accepted == {data \in Drafts : issueVoucherSchema(data)}
Invalid == {data \in Drafts : ~issueVoucherSchema(data)}

\* The amounts of a row are those of its items; the tributes are on top.
AmountsFit(row) ==
  LET own == calculateAmounts(row.voucherType, row.items, <<>>)
  IN /\ row.amounts.netAmount = own.netAmount /\ row.amounts.ivaAmount = own.ivaAmount
     /\ row.amounts.exemptAmount = own.exemptAmount
     /\ row.amounts.untaxedAmount = own.untaxedAmount
     /\ row.amounts.tributeAmount = SumOf(row.amounts.tributes, LAMBDA tribute : tribute.amount)
     /\ row.amounts.totalAmount = own.totalAmount + row.amounts.tributeAmount

\* What an invoice that passed the schema leaves in its row.
RowFits(row) ==
  /\ row \in IssuedVoucherData
  /\ row.items # <<>>
  /\ \A i \in DOMAIN row.items :
       /\ itemSchema(row.items[i])
       /\ row.items[i].subtotal = RoundHalfUp(grossOf(row.items[i]), Unit)
  /\ requiresRecipientCuit(row.voucherType) => recipientOf(row).docType = CUIT
  /\ validateServicePeriod(row)
  /\ AmountsFit(row)

\* Old rows were stored by this code, but for the recipient's columns.
ASSUME DocumentConstants ==
  /\ \A data \in Accepted : data \in IssueVoucherData
  /\ Legacy \in Seq(IssuedVoucherData) /\ Len(Legacy) <= MaxVouchers /\ MaxSales <= MaxVouchers
  /\ \A i \in DOMAIN Legacy : RowFits(Legacy[i]) /\ Legacy[i].voucherDate = 0
  /\ \A purchase \in Purchases : \A rate \in DOMAIN purchase.iva : purchase.iva[rate] \in Int
  /\ MaxSales \in Nat /\ MaxVouchers \in Nat /\ MaxPurchases \in Nat /\ MaxMonth \in Nat
  /\ None \notin Nat /\ None \notin STRING

Init ==
  /\ vouchers = Legacy
  /\ purchases = <<>>
  /\ account = [cbu |-> None, paymentAlias |-> None]
  /\ today = 0
  /\ sent = None
  /\ answer = "none"

Answered(text) ==
  answer' = text /\ sent' = None /\ UNCHANGED <<vouchers, purchases, account, today>>

\* ARCA gives a CAE: the row is stored.
Authorise(data, status) ==
  /\ sent' = data
  /\ vouchers' = Append(vouchers, buildIssuedVoucherData(data, status))
  /\ answer' = "issued"
  /\ UNCHANGED <<purchases, account, today>>

Issue(data) ==
  /\ Len(vouchers) < MaxSales /\ ~LacksCbu(data)
  /\ \E status \in {"APPROVED", "OBSERVED", "RECOVERED"} : Authorise(data, status)

RejectedByArca(data) ==
  /\ Len(vouchers) < MaxSales /\ ~LacksCbu(data)
  /\ sent' = data
  /\ answer' = "rejected"
  /\ UNCHANGED <<vouchers, purchases, account, today>>

Refuse == Invalid # {} /\ Answered("refused")

RefuseWithoutCbu == (\E data \in Accepted : LacksCbu(data)) /\ Answered("bad_request")

\* The caller asks for the note of a voucher and posts it as it comes.
IssueCreditNote(i) ==
  /\ Len(vouchers) < MaxVouchers
  /\ AdmitsCreditNote(vouchers[i])
  /\ LET draft == buildCreditNoteDraft(vouchers[i])
     IN IF issueVoucherSchema(draft) THEN Authorise(draft, "APPROVED") ELSE Answered("refused")

RefuseCreditNote(i) == ~AdmitsCreditNote(vouchers[i]) /\ Answered("unprocessable")

RegisterPurchase(purchase) ==
  /\ Len(purchases) < MaxPurchases
  /\ purchases' = Append(purchases,
       [invoiceType |-> purchase.invoiceType, iva |-> purchase.iva, issueDate |-> today])
  /\ answer' = "registered"
  /\ sent' = None
  /\ UNCHANGED <<vouchers, account, today>>

updatePaymentAccount(registered) ==
  /\ account' = registered
  /\ answer' = "none"
  /\ sent' = None
  /\ UNCHANGED <<vouchers, purchases, today>>

NextMonth ==
  /\ MonthOf(today) < MaxMonth
  /\ today' = today + DaysPerMonth
  /\ answer' = "none"
  /\ sent' = None
  /\ UNCHANGED <<vouchers, purchases, account>>

Next ==
  \/ \E data \in Accepted : Issue(data) \/ RejectedByArca(data)
  \/ Refuse \/ RefuseWithoutCbu
  \/ \E i \in DOMAIN vouchers : IssueCreditNote(i) \/ RefuseCreditNote(i)
  \/ \E purchase \in Purchases : RegisterPurchase(purchase)
  \/ \E registered \in Accounts : updatePaymentAccount(registered)
  \/ NextMonth

Spec == Init /\ [][Next]_vars
=============================================================================
