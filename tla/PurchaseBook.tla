---------------------------- MODULE PurchaseBook ----------------------------
(* The book of purchase invoices: loading one by hand, updating, removing and *)
(* listing them, and importing the CSV of ARCA's "Mis Comprobantes".  Several *)
(* requests of one issuer run at once; each database call is a step.          *)
(* Money in cents, rates in tenths of a percent.                              *)
EXTENDS VoucherSchema, Integers, Sequences, FiniteSets

CONSTANTS
  Requests,       \* the requests made; each runs once
  CsvFiles,       \* the files imported
  ManualInvoices, \* the bodies of POST
  Updates,        \* the bodies of PATCH
  MaxPurchaseRows \* bound on the rows ever created

AmountFields ==
  {"netAmount21", "iva21", "netAmount105", "iva105", "netAmount27", "iva27", "exempt", "untaxed"}

AmountColumns == {"netTaxed", "untaxed", "exempt", "iva", "total"}

\* An amount is a number of cents; a cell of a file may be unreadable.
ASSUME PurchaseConstants ==
  /\ MaxPurchaseRows \in Nat
  /\ \A file \in CsvFiles :
       /\ IsFiniteSet(DOMAIN file.lines) /\ DOMAIN file.lines \subseteq Nat
       /\ \A i \in DOMAIN file.lines : \A column \in AmountColumns :
            /\ file.lines[i][column].form \in {"empty", "decimals", "dotted_thousands", "unreadable"}
            /\ file.lines[i][column].cents \in Int
  /\ \A input \in ManualInvoices : input.amounts \in [AmountFields -> Int]
  /\ \A input \in Updates : \A field \in AmountFields \cap DOMAIN input : input[field] \in Int

VARIABLES
  purchaseRows,   \* the purchase table in order of creation; None once removed
  requests        \* what each request does and how far it is

purchaseVars == <<purchaseRows, requests>>

-----------------------------------------------------------------------------
(* purchase-invoice.ts *)

purchaseInvoiceSchema(input) ==
  /\ input.supplierCuit # None
  /\ input.invoiceType > 0 /\ input.salesPoint > 0 /\ input.number > 0
  /\ \A field \in AmountFields : input.amounts[field] >= 0

netOf(amounts) == amounts["netAmount21"] + amounts["netAmount105"] + amounts["netAmount27"]
ivaOf(amounts) == amounts["iva21"] + amounts["iva105"] + amounts["iva27"]
restOf(amounts) == amounts["exempt"] + amounts["untaxed"]

purchaseInvoiceTotal(amounts) == netOf(amounts) + ivaOf(amounts) + restOf(amounts)

-----------------------------------------------------------------------------
(* mis-comprobantes-csv.ts.  A cell holds an amount and how it is written;    *)
(* None stands for a text that cannot be read as what its column asks for.    *)

\* With one or two decimals after a comma the dots are thousands; otherwise
\* the commas are, and a lone dot is a decimal point: "10.000" reads as 10.
parseArcaAmount(cell) ==
  CASE cell.form = "empty" -> 0
    [] cell.form = "decimals" -> cell.cents
    [] cell.form = "dotted_thousands" -> cell.cents \div 1000
    [] cell.form = "unreadable" -> None

ReadableLine(line) ==
  /\ None \notin {line.supplierCuit, line.invoiceType, line.salesPoint, line.number, line.issueDate}
  /\ \A column \in AmountColumns : parseArcaAmount(line[column]) # None

ParsedPurchaseRow(line, number) ==
  [line |-> number, supplierCuit |-> line.supplierCuit, invoiceType |-> line.invoiceType,
   salesPoint |-> line.salesPoint, number |-> line.number, issueDate |-> line.issueDate,
   netTaxed |-> parseArcaAmount(line.netTaxed), untaxed |-> parseArcaAmount(line.untaxed),
   exempt |-> parseArcaAmount(line.exempt), ivaAmount |-> parseArcaAmount(line.iva),
   total |-> parseArcaAmount(line.total)]

DataLines(file) == {i \in DOMAIN file.lines : ~file.lines[i].blank}

\* Blank lines go first, so the line numbers count the others and the header.
LineNumber(file, i) == Cardinality({j \in DataLines(file) : j <= i}) + 1

\* An empty file or one without the columns is refused (400).
WellFormed(file) == file.hasColumns

\* The rows by their place in the file.
parseMisComprobantesCsv(file) ==
  LET readable == {i \in DataLines(file) : ReadableLine(file.lines[i])}
  IN [rows |-> [i \in readable |-> ParsedPurchaseRow(file.lines[i], LineNumber(file, i))],
      invalid |-> {LineNumber(file, i) : i \in DataLines(file) \ readable}]

-----------------------------------------------------------------------------
(* purchase-import.service.ts *)

TaxedFieldsByRate ==
  [rate \in {210, 105, 270} |->
     CASE rate = 210 -> [net |-> "netAmount21", iva |-> "iva21"]
       [] rate = 105 -> [net |-> "netAmount105", iva |-> "iva105"]
       [] rate = 270 -> [net |-> "netAmount27", iva |-> "iva27"]]

Absolute(n) == IF n < 0 THEN -n ELSE n

\* Within half a point of the ratio; two rates never are.
RatesNear(row) ==
  {rate \in ivaRates \ {0} :
     Absolute(row.ivaAmount * 1000 - row.netTaxed * rate) < 5 * Absolute(row.netTaxed)}

\* The rate of a row that has one, else None.
inferIvaRate(row) ==
  IF row.ivaAmount = 0 /\ row.netTaxed = 0 THEN 0
  ELSE IF row.ivaAmount = 0 \/ row.netTaxed = 0 \/ RatesNear(row) = {} THEN None
  ELSE CHOOSE rate \in RatesNear(row) : TRUE

\* A row at 2.5% or 5% has no field to go to.
amountsForRate(row, rate) ==
  LET fields == IF rate \in DOMAIN TaxedFieldsByRate THEN TaxedFieldsByRate[rate]
                ELSE [net |-> None, iva |-> None]
  IN [field \in AmountFields |-> CASE field = "exempt" -> row.exempt
                                   [] field = "untaxed" -> row.untaxed
                                   [] field = fields.net -> row.netTaxed
                                   [] field = fields.iva -> row.ivaAmount
                                   [] OTHER -> 0]

rowKey(row) == <<row.supplierCuit, row.invoiceType, row.salesPoint, row.number>>

Live == {i \in DOMAIN purchaseRows : purchaseRows[i] # None}

ExistingKeys == {rowKey(purchaseRows[i]) : i \in Live}

\* The amounts must rebuild the file's total to the cent.  They are
\* floating-point numbers: whether one cent is too much depends on them.
classify(row, existing, strict) ==
  LET rate == inferIvaRate(row)
      tolerance == IF strict THEN 0 ELSE 1
  IN IF rowKey(row) \in existing THEN "DUPLICATE"
     ELSE IF rate = None THEN "NEEDS_REVIEW"
     ELSE IF Absolute(purchaseInvoiceTotal(amountsForRate(row, rate)) - row.total) > tolerance
          THEN "NEEDS_REVIEW"
     ELSE "IMPORTABLE"

Importable(rows, existing, strict) ==
  {i \in DOMAIN rows : classify(rows[i], existing, i \in strict) = "IMPORTABLE"}

\* The preview, and what an import answers, count the rows by their class.
summarize(rows, existing, strict) ==
  [status \in {"DUPLICATE", "NEEDS_REVIEW", "IMPORTABLE"} |->
     Cardinality({i \in DOMAIN rows : classify(rows[i], existing, i \in strict) = status})]

ImportedRow(row, request) ==
  LET amounts == amountsForRate(row, inferIvaRate(row))
  IN [supplierCuit |-> row.supplierCuit, invoiceType |-> row.invoiceType,
      salesPoint |-> row.salesPoint, number |-> row.number, issueDate |-> row.issueDate,
      amounts |-> amounts, total |-> purchaseInvoiceTotal(amounts),
      fileTotal |-> row.total, by |-> request]

-----------------------------------------------------------------------------
(* purchase-invoices.service.ts *)

CreatedRow(input, request) ==
  [supplierCuit |-> input.supplierCuit, invoiceType |-> input.invoiceType,
   salesPoint |-> input.salesPoint, number |-> input.number, issueDate |-> input.issueDate,
   amounts |-> input.amounts, total |-> purchaseInvoiceTotal(input.amounts),
   fileTotal |-> None, by |-> request]

list(month) == {i \in Live : purchaseRows[i].issueDate = month}

\* The sum over some of the rows, as reduce adds them up.
SumOfRows(ids, amount) ==
  LET sum[n \in Nat] == IF n = 0 THEN 0 ELSE sum[n - 1] + (IF n \in ids THEN amount[n] ELSE 0)
  IN sum[Len(purchaseRows)]

addToSummary(ids) ==
  [count |-> Cardinality(ids),
   netAmount |-> SumOfRows(ids, [i \in ids |-> netOf(purchaseRows[i].amounts)]),
   ivaAmount |-> SumOfRows(ids, [i \in ids |-> ivaOf(purchaseRows[i].amounts)]),
   totalAmount |-> SumOfRows(ids, [i \in ids |-> purchaseRows[i].total])]

mergeAmounts(input, existing) ==
  [field \in AmountFields |-> IF field \in DOMAIN input THEN input[field] ELSE existing.amounts[field]]

-----------------------------------------------------------------------------
NewRequest == [step |-> "new", rows |-> <<>>, todo |-> {}, id |-> 0, read |-> None,
               input |-> None, importable |-> 0, during |-> {}]

PurchasesInit ==
  /\ purchaseRows = <<>>
  /\ requests = [r \in Requests |-> NewRequest]

Working == {"importing", "updating", "removing"}

\* History: who works at the same time as whom.
Begin(request, changes) ==
  LET others == {r \in Requests : requests[r].step \in Working}
  IN [r \in Requests |->
        IF r = request THEN [changes EXCEPT !.during = others]
        ELSE IF r \in others THEN [requests[r] EXCEPT !.during = requests[r].during \cup {request}]
        ELSE requests[r]]

End(request, step) ==
  [requests EXCEPT ![request] = [requests[request] EXCEPT !.step = step, !.rows = <<>>, !.id = 0,
                                                          !.read = None, !.input = None]]

Room == Len(purchaseRows) < MaxPurchaseRows

CreatePurchase(request, input) ==
  /\ requests[request].step = "new"
  /\ IF purchaseInvoiceSchema(input)
     THEN /\ Room
          /\ purchaseRows' = Append(purchaseRows, CreatedRow(input, request))
          /\ requests' = Begin(request, [NewRequest EXCEPT !.step = "done"])
     ELSE requests' = End(request, "refused") /\ UNCHANGED purchaseRows

\* parse, findExistingKeys and classify; then the rows one by one.
StartImport(request, file) ==
  /\ requests[request].step = "new"
  /\ IF WellFormed(file)
     THEN LET rows == parseMisComprobantesCsv(file).rows
          IN \E strict \in SUBSET DOMAIN rows :
               requests' = Begin(request, [NewRequest EXCEPT !.step = "importing", !.rows = rows,
                 !.todo = Importable(rows, ExistingKeys, strict),
                 !.importable = summarize(rows, ExistingKeys, strict)["IMPORTABLE"]])
     ELSE requests' = End(request, "refused")
  /\ UNCHANGED purchaseRows

ImportRow(request) ==
  /\ requests[request].step = "importing" /\ Room
  /\ \E i \in requests[request].todo :
       /\ \A other \in requests[request].todo : i <= other
       /\ purchaseRows' = Append(purchaseRows, ImportedRow(requests[request].rows[i], request))
       /\ requests' = [requests EXCEPT ![request].todo = requests[request].todo \ {i}]

\* A create fails and the rest of the file is not tried (500).
ImportFails(request) ==
  /\ requests[request].step = "importing" /\ requests[request].todo # {}
  /\ requests' = End(request, "failed")
  /\ UNCHANGED purchaseRows

ImportEnds(request) ==
  /\ requests[request].step = "importing" /\ requests[request].todo = {}
  /\ requests' = End(request, "done")
  /\ UNCHANGED purchaseRows

\* getScoped, for an update (with its input) or a removal.
ReadPurchase(request, id, input) ==
  /\ requests[request].step = "new"
  /\ requests' =
       IF purchaseRows[id] = None THEN End(request, "not_found")
       ELSE Begin(request, [NewRequest EXCEPT !.step = IF input = None THEN "removing" ELSE "updating",
                              !.id = id, !.read = purchaseRows[id], !.input = input])
  /\ UNCHANGED purchaseRows

\* Mutant: only the amounts given are written, beside the total of the merge.
Mutant_Updated(row, input, read) ==
  [row EXCEPT !.amounts = mergeAmounts(input, row),
              !.total = purchaseInvoiceTotal(mergeAmounts(input, read)),
              !.fileTotal = None, !.by = None]

\* Every amount is written again, those of the row it read included; of the
\* other fields those given.  The row is no longer what a request created.
Updated(row, input, read) ==
  LET Given(field) == IF field \in DOMAIN input THEN input[field] ELSE row[field]
  IN [supplierCuit |-> Given("supplierCuit"), invoiceType |-> Given("invoiceType"),
      salesPoint |-> Given("salesPoint"), number |-> Given("number"), issueDate |-> Given("issueDate"),
      amounts |-> mergeAmounts(input, read), total |-> purchaseInvoiceTotal(mergeAmounts(input, read)),
      fileTotal |-> None, by |-> None]

WriteUpdate(request) ==
  LET job == requests[request]
  IN /\ job.step = "updating"
     /\ IF purchaseRows[job.id] = None
        THEN requests' = End(request, "failed") /\ UNCHANGED purchaseRows
        ELSE /\ purchaseRows' = [purchaseRows EXCEPT ![job.id] =
                                   Updated(purchaseRows[job.id], job.input, job.read)]
             /\ requests' = End(request, "done")

DeletePurchase(request) ==
  LET job == requests[request]
  IN /\ job.step = "removing"
     /\ purchaseRows' = [purchaseRows EXCEPT ![job.id] = None]
     /\ requests' = End(request, IF purchaseRows[job.id] = None THEN "failed" ELSE "done")

PurchasesNext ==
  \E request \in Requests :
    \/ \E input \in ManualInvoices : CreatePurchase(request, input)
    \/ \E file \in CsvFiles : StartImport(request, file)
    \/ ImportRow(request) \/ ImportFails(request) \/ ImportEnds(request)
    \/ \E id \in DOMAIN purchaseRows, input \in Updates \cup {None} : ReadPurchase(request, id, input)
    \/ WriteUpdate(request) \/ DeletePurchase(request)

PurchasesSpec == PurchasesInit /\ [][PurchasesNext]_purchaseVars
-----------------------------------------------------------------------------
(* Properties *)

PurchasesTypeOK ==
  /\ Len(purchaseRows) <= MaxPurchaseRows
  /\ \A i \in Live : purchaseRows[i].total \in Int /\ DOMAIN purchaseRows[i].amounts = AmountFields
  /\ \A r \in Requests : requests[r].step \in
       Working \cup {"new", "done", "failed", "refused", "not_found"}

\* Whatever updates overlap, the total of a row is the sum of its amounts, and
\* the total of a listing the sum of its parts: an update writes all it read.
TotalsAddUp ==
  /\ \A i \in Live : purchaseRows[i].total = purchaseInvoiceTotal(purchaseRows[i].amounts)
  /\ \A i \in Live :
       LET ids == list(purchaseRows[i].issueDate)
           summary == addToSummary(ids)
       IN summary.totalAmount = summary.netAmount + summary.ivaAmount
            + SumOfRows(ids, [k \in ids |-> restOf(purchaseRows[k].amounts)])

\* An import keeps the file's totals to the cent: a row with other taxes, at
\* two rates or at a rate without a field is left for review, not cut down.
ImportKeepsTotals ==
  \A i \in Live : purchaseRows[i].fileTotal # None =>
    Absolute(purchaseRows[i].total - purchaseRows[i].fileTotal) <= 1

\* Importing again, after a failure too, repeats no invoice: an imported row
\* with the key of an earlier one, neither updated since, comes from a file that
\* repeats it or from requests that ran at the same time (purchase-import.service.ts:115,
\* the table has no unique key).
ImportsDoNotRepeat ==
  \A i, j \in Live :
    LET a == purchaseRows[i]
        b == purchaseRows[j]
    IN i < j /\ rowKey(a) = rowKey(b) /\ a.by # None /\ b.fileTotal # None =>
         a.by = b.by \/ b.by \in requests[a.by].during \/ a.by \in requests[b.by].during

\* What an import answers as imported is what it stored, unless rows
\* were removed or updated since; one that failed stored less (purchase-import.service.ts:123).
ImportCounts ==
  \A r \in Requests :
    LET stored == Cardinality({i \in Live : purchaseRows[i].by = r})
        left == Cardinality(requests[r].todo)
        Created == \A i \in Live : purchaseRows[i].by # None
    IN requests[r].importable > 0 /\ Live = DOMAIN purchaseRows /\ Created =>
         /\ stored + left = requests[r].importable
         /\ requests[r].step = "done" => left = 0
         /\ requests[r].step = "failed" => left > 0

PurchasesHold == TotalsAddUp /\ ImportKeepsTotals /\ ImportsDoNotRepeat /\ ImportCounts
=============================================================================
