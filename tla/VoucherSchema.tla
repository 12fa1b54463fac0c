---------------------------- MODULE VoucherSchema ----------------------------
(* issueVoucherSchema of packages/shared: the checks an invoice passes before *)
(* the API acts on it.  Absent optional fields are None; a date is a number   *)
(* of days; the rates of items are tenths of a percent.                       *)
EXTENDS VoucherTypes

\* The value of an optional field the caller left out.
CONSTANT None

CUIT == 80

\* Exempt and untaxed items carry no rate.
itemSchema(item) ==
  /\ item.quantity > 0
  /\ item.unitPrice >= 0
  /\ item.ivaRate \in ivaRates
  /\ item.taxTreatment # "TAXED" => item.ivaRate = 0

tributeSchema(tribute) == tribute.id > 0 /\ tribute.taxableBase >= 0 /\ tribute.rate >= 0

issueVoucherObjectSchema(data) ==
  /\ data.voucherType > 0
  /\ data.concept \in {1, 2, 3}
  /\ data.items # <<>>
  /\ \A i \in DOMAIN data.items : itemSchema(data.items[i])
  /\ data.exchangeRate > 0
  /\ \A i \in DOMAIN data.tributes : tributeSchema(data.tributes[i])

validateAssociatedVouchers(data) ==
  isCreditDebitNote(data.voucherType) => data.associatedVouchers # <<>>

validateRecipient(data) ==
  /\ requiresRecipientCuit(data.voucherType) => data.recipient.docType = CUIT
  /\ LET given == data.recipient.ivaConditionId
         condition == IF given = None THEN defaultRecipientIvaCondition(data.voucherType)
                                      ELSE given
     IN isRecipientIvaConditionAllowed(data.voucherType, condition)

validateServicePeriod(data) ==
  IF requiresServicePeriod(data.concept)
  THEN data.servicePeriod # None /\ data.servicePeriod.from <= data.servicePeriod.to
  ELSE data.servicePeriod = None

validatePaymentDueDate(data) ==
  LET needed == requiresServicePeriod(data.concept) \/ isCreditInvoice(data.voucherType)
  IN needed <=> data.paymentDueDate # None

validateTransmissionType(data) ==
  data.transmissionType # None => isCreditInvoice(data.voucherType)

issueVoucherSchema(data) ==
  /\ issueVoucherObjectSchema(data)
  /\ validateAssociatedVouchers(data)
  /\ validateRecipient(data)
  /\ validateServicePeriod(data)
  /\ validatePaymentDueDate(data)
  /\ validateTransmissionType(data)

\* draftAmountsSchema, what the screen's running total is asked with: laxer.
draftAmountsSchema(draft) ==
  /\ draft.voucherType > 0
  /\ \A i \in DOMAIN draft.items :
       /\ draft.items[i].quantity >= 0
       /\ draft.items[i].unitPrice >= 0
       /\ draft.items[i].ivaRate \in ivaRates
  /\ \A i \in DOMAIN draft.tributes : tributeSchema(draft.tributes[i])
=============================================================================
