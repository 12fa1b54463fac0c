-------------------------- MODULE FiscalProperties --------------------------
(* What must hold of the amounts, notes, books and pages of FiscalDocuments. *)
EXTENDS FiscalDocuments

CONSTANTS
  ItemsPerPage,   \* items that must fit above the CAE,
  ExtrasPerPage   \* with as many tributes and associated vouchers

\* The page's height, less what every page has above the CAE.
ASSUME PageConstants ==
  /\ ItemsPerPage \in Nat /\ ExtrasPerPage \in Nat
  /\ 16 * ItemsPerPage + 14 * ExtrasPerPage <= 327

AnswerTexts ==
  {"none", "issued", "refused", "bad_request", "rejected", "unprocessable", "registered"}

\* The rows and the reports made of them have the types the code declares.
TypeOK ==
  /\ vouchers \in Seq(IssuedVoucherData) /\ Len(vouchers) <= MaxVouchers
  /\ \A i \in DOMAIN vouchers : vouchers[i].voucherDate <= today
  /\ Len(purchases) <= MaxPurchases
  /\ today \in 0..(MaxMonth + 1) * DaysPerMonth
  /\ answer \in AnswerTexts
  /\ \A month \in 0..MonthOf(today) :
       /\ buildSalesBook(month).totals \in SalesBookTotals
       /\ getMonthlyPosition(month) \in IvaPosition

-----------------------------------------------------------------------------
Distance(a, b) == IF a > b THEN a - b ELSE b - a

PartsOf(detail) ==
  detail.ImpNeto + detail.ImpIVA + detail.ImpTrib + detail.ImpOpEx + detail.ImpTotConc

\* How many of the rates there are.
Count(rates) == SumOverRates(LAMBDA rate : IF rate \in rates THEN 1 ELSE 0)

Has(items, treatment) ==
  IF \E i \in DOMAIN items : items[i].taxTreatment = treatment THEN 1 ELSE 0

\* The groups of items whose gross is rounded on its own.
RoundedGroups(data) ==
  IF ~reportsIvaToArca(data.voucherType) THEN 1
  ELSE Count(TaxedRates(data.items)) + Has(data.items, "EXEMPT") + Has(data.items, "UNTAXED")

WholeQuantities(data) == \A i \in DOMAIN data.items : data.items[i].quantity % Unit = 0

\* Exact for whole units, else half a cent per rounded group and for the total.
Tolerable(off, data) ==
  IF WholeQuantities(data) THEN off = 0 ELSE 2 * off <= RoundedGroups(data) + 1

OffBy(request) == Distance(PartsOf(request), request.ImpTotal)

\* ARCA's identity, ImpTotal = ImpTotConc + ImpNeto + ImpOpEx + ImpIVA +
\* ImpTrib (docs/arca-integracion.md:72): exact for every invoice sold by whole
\* units, and off by at most half a cent per rounded group, the total
\* included, otherwise.
\* About calculateAmounts, which rounds the total and every group separately.
RequestTies == sent # None => Tolerable(OffBy(RequestOf(sent)), sent)

\* The identity as the doc states it, with no allowance (docs/arca-integracion.md:72).
RequestTiesExactly == sent # None => OffBy(RequestOf(sent)) = 0

-----------------------------------------------------------------------------
\* The credit note the API drafts for a stored voucher passes the API's own
\* schema unchanged: its recipient, service period, due date and associated
\* voucher survive the way through the row (or, in old rows, the QR).
NoteDraftIsAccepted ==
  \A i \in DOMAIN vouchers : AdmitsCreditNote(vouchers[i]) =>
    LET draft == buildCreditNoteDraft(vouchers[i])
    IN issueVoucherSchema(draft) /\ ~LacksCbu(draft)

NoteCancelling(note, voucher) ==
  /\ note.voucherType = creditNoteTypeFor(voucher.voucherType)
  /\ note.associatedVouchers = <<[type |-> voucher.voucherType, number |-> voucher.number]>>
  /\ note.exchangeRate = voucher.exchangeRate
  /\ note.items = voucher.items
  /\ note.amounts.tributeAmount = 0

CancelEachOther(sale, note) ==
  /\ sale.netAmount + note.netAmount = 0
  /\ sale.exemptAmount + note.exemptAmount = 0
  /\ sale.untaxedAmount + note.untaxedAmount = 0
  /\ DOMAIN sale.ivaByRate = DOMAIN note.ivaByRate
  /\ \A rate \in DOMAIN sale.ivaByRate : sale.ivaByRate[rate] + note.ivaByRate[rate] = 0
  /\ Distance(sale.totalAmount - sale.tributeAmount + note.totalAmount, 0) <= 1

\* A voucher and the note that repeats its items leave nothing in the sales
\* book but the tributes, which the draft does not copy: net, exempt, untaxed
\* and the IVA of every rate cancel exactly, and the total, rounded after its
\* conversion to pesos and with its sign, to the cent.
NoteCancels ==
  \A i, j \in DOMAIN vouchers : NoteCancelling(vouchers[j], vouchers[i]) =>
    CancelEachOther(toEntry(vouchers[i]), toEntry(vouchers[j]))

-----------------------------------------------------------------------------
\* In twentieths of a cent.  In pesos only what is net of IVA and the IVA of
\* each rate are rounded; from another currency every column is, and the
\* total.  A fraction of a unit may shift each subtotal and the total sent to
\* ARCA by half a cent, before the conversion.
Allowance(voucher) ==
  10 * (Count(BookRates(voucher)) + IF voucher.exchangeRate = LocalRate THEN 0 ELSE 5)
  + IF WholeQuantities(voucher) THEN 0 ELSE (Len(voucher.items) + 1) * voucher.exchangeRate

Balances(entry, voucher) ==
  20 * Distance(entry.netAmount + entry.exemptAmount + entry.untaxedAmount
                  + entry.ivaAmount + entry.tributeAmount, entry.totalAmount) <= Allowance(voucher)

\* Of a month: the position's debit, its sales book and its vouchers.
TellOneStory(debit, book) ==
  /\ debit = book.totals.ivaAmount
  /\ LET columns == CsvIvaTotals(book)
     IN SumOverRates(LAMBDA rate : IF rate \in taxedRates THEN columns[rate] ELSE 0)
          = book.totals.ivaAmount
  /\ \A i \in DOMAIN book.entries : Balances(book.entries[i], vouchers[i])

\* The three monthly reports tell the same story: the debit of the IVA
\* position is the IVA of the sales book and of its CSV columns, whose rates
\* are listed apart from the book's, and each entry adds up to its total.
BooksAgree ==
  \A month \in 0..MonthOf(today) :
    TellOneStory(getMonthlyPosition(month).totalDebit, buildSalesBook(month))

-----------------------------------------------------------------------------
PrintedSum(voucher) == SumOf(totalLines(voucher), LAMBDA amount : amount)

\* The printed page is consistent: the lines above the total add up to it
\* (to the allowance of RequestTies), and up to ItemsPerPage items with up to
\* ExtrasPerPage tributes and associated vouchers leave the totals and the
\* notices above the CAE and its QR.
PageIsWhole ==
  \A i \in DOMAIN vouchers :
    LET voucher == vouchers[i]
    IN /\ Tolerable(Distance(PrintedSum(voucher), voucher.amounts.totalAmount), voucher)
       /\ /\ Len(voucher.items) <= ItemsPerPage
          /\ Len(voucher.amounts.tributes) + Len(voucher.associatedVouchers) <= ExtrasPerPage
          => drawVoucher(voucher) <= FooterTop
=============================================================================
