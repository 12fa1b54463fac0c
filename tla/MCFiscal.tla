------------------------------ MODULE MCFiscal ------------------------------
EXTENDS FiscalProperties, TLC

Item(quantity, unitPrice, ivaRate, taxTreatment) ==
  [quantity |-> quantity, unitPrice |-> unitPrice, ivaRate |-> ivaRate,
   taxTreatment |-> taxTreatment]

Draft(type, concept, recipient, items, tributes, exchangeRate, associated, period, due, transmission) ==
  [voucherType |-> type, concept |-> concept, recipient |-> recipient, items |-> items,
   tributes |-> tributes, exchangeRate |-> exchangeRate, associatedVouchers |-> associated,
   servicePeriod |-> period, paymentDueDate |-> due, transmissionType |-> transmission]

Recipient(docType, condition) ==
  [docType |-> docType, docNumber |-> "doc", ivaConditionId |-> condition]

Plain == <<Item(1000, 121, 210, "TAXED")>>
First == <<[type |-> 1, number |-> 1]>>

\* One unit, a third of a unit twice at two rates, the three treatments, a
\* price of one cent, and an item list as long as a page allows.
ItemLists ==
  {Plain,
   <<Item(333, 100, 210, "TAXED"), Item(334, 100, 105, "TAXED")>>,
   <<Item(1000, 101, 210, "TAXED"), Item(2000, 53, 105, "TAXED"), Item(1000, 17, 0, "TAXED")>>,
   <<Item(1000, 50, 0, "EXEMPT"), Item(3000, 11, 0, "UNTAXED"), Item(1000, 1, 270, "TAXED")>>,
   <<Item(333, 5, 0, "EXEMPT"), Item(667, 7, 25, "TAXED")>>,
   [i \in 1..ItemsPerPage |-> Item(1000, 3, 50, "TAXED")],
   <<Item(1000, 10, 210, "EXEMPT")>>}

TributeLists == {<<>>, <<[id |-> 1, taxableBase |-> 105, rate |-> 30]>>}

DocTypeFor(type) == IF requiresRecipientCuit(type) THEN CUIT ELSE 99

\* Well-formed invoices and notes that differ in what they sell.
AmountDrafts ==
  {Draft(type, 1, Recipient(DocTypeFor(type), None), items, tributes, exchangeRate,
         IF isCreditDebitNote(type) THEN First ELSE <<>>, None, None, None) :
     type \in {1, 6, 13}, items \in ItemLists, tributes \in TributeLists, exchangeRate \in {15}}
  \cup
  {Draft(type, 1, Recipient(DocTypeFor(type), None), items, <<>>, LocalRate,
         IF isCreditDebitNote(type) THEN First ELSE <<>>, None, None, None) :
     type \in {1, 6, 13}, items \in ItemLists}

\* Invoices that differ in everything the schema looks at.
ShapeDrafts ==
  {Draft(type, concept, Recipient(docType, condition), Plain, <<>>, LocalRate, associated,
         period, due, transmission) :
     type \in {7, 19, 51, 52, 201, 208}, concept \in {1, 2}, docType \in {CUIT, 99},
     condition \in {None, 1, 5}, associated \in {<<>>, First},
     period \in {None, [from |-> 1, to |-> 2], [from |-> 2, to |-> 1]},
     due \in {None, 3}, transmission \in {None, "ADC"}}

MCDrafts == AmountDrafts \cup {data \in ShapeDrafts :
  data.associatedVouchers = <<>> \/ isCreditDebitNote(data.voucherType)}

MCPurchases ==
  {[invoiceType |-> 1, iva |-> (210 :> 21)],
   [invoiceType |-> 3, iva |-> (210 :> 5) @@ (105 :> 3)]}

MCAccounts == {[cbu |-> "cbu", paymentAlias |-> None]}

\* A row from before the recipient columns: only its QR knows the recipient.
MCLegacy ==
  <<[recipientDocType |-> None, recipientDocNumber |-> None, voucherType |-> 1, number |-> 1,
     voucherDate |-> 0, concept |-> 1, servicePeriod |-> None, paymentDueDate |-> None,
     amounts |-> calculateAmounts(1, Plain, <<>>), exchangeRate |-> LocalRate,
     status |-> "APPROVED", associatedVouchers |-> <<>>,
     qrData |-> [tipoCmp |-> 1, nroCmp |-> 1, importe |-> 121,
                 tipoDocRec |-> CUIT, nroDocRec |-> "doc"],
     items |-> <<itemData(Item(1000, 121, 210, "TAXED"))>>]>>
=============================================================================
