---------------------------- MODULE VoucherTypes ----------------------------
(* The tables of packages/shared that classify a voucher type: its letter,   *)
(* whether it is a note or an electronic credit invoice (FCE), whom it may   *)
(* be issued to, and the note that cancels it.  A type is ARCA's number.     *)
EXTENDS Integers, Sequences, FiniteSets

\* A table entry that is absent (null in the code).
NoType == 0

-----------------------------------------------------------------------------
(* voucher-type.ts *)

VoucherType ==
  [FACTURA_A |-> 1, NOTA_DEBITO_A |-> 2, NOTA_CREDITO_A |-> 3,
   FACTURA_B |-> 6, NOTA_DEBITO_B |-> 7, NOTA_CREDITO_B |-> 8,
   FACTURA_C |-> 11, NOTA_DEBITO_C |-> 12, NOTA_CREDITO_C |-> 13,
   FACTURA_E |-> 19, NOTA_DEBITO_E |-> 20, NOTA_CREDITO_E |-> 21,
   FACTURA_M |-> 51, NOTA_DEBITO_M |-> 52, NOTA_CREDITO_M |-> 53,
   FCE_FACTURA_A |-> 201, FCE_NOTA_DEBITO_A |-> 202, FCE_NOTA_CREDITO_A |-> 203,
   FCE_FACTURA_B |-> 206, FCE_NOTA_DEBITO_B |-> 207, FCE_NOTA_CREDITO_B |-> 208,
   FCE_FACTURA_C |-> 211, FCE_NOTA_DEBITO_C |-> 212, FCE_NOTA_CREDITO_C |-> 213]

VoucherTypeIds == {VoucherType[name] : name \in DOMAIN VoucherType}

\* The last word of the printed name, when it is a letter.
voucherLetter(type) ==
  CASE type \in {1, 2, 3, 201, 202, 203} -> "A"
    [] type \in {6, 7, 8, 206, 207, 208} -> "B"
    [] type \in {11, 12, 13, 211, 212, 213} -> "C"
    [] type \in {19, 20, 21} -> "E"
    [] type \in {51, 52, 53} -> "M"
    [] OTHER -> ""

isCreditInvoice(type) == type \in {201, 202, 203, 206, 207, 208, 211, 212, 213}

typesRequiringCuit == {1, 2, 3, 51, 52, 53}

requiresRecipientCuit(type) == type \in typesRequiringCuit \/ isCreditInvoice(type)

isCreditDebitNote(type) ==
  type \in {2, 3, 7, 8, 12, 13, 52, 53, 20, 21, 202, 203, 207, 208, 212, 213}

isCreditNote(type) == type \in {3, 8, 13, 53, 21, 203, 208, 213}

discriminatesIva(type) == voucherLetter(type) \in {"A", "M"}

reportsIvaToArca(type) ==
  type \in {1, 2, 3, 6, 7, 8, 51, 52, 53, 201, 202, 203, 206, 207, 208}

requiresRetentionNotice(type) == type \in {51, 52, 53}

requiresFiscalTransparencyNotice(type) == type \in {6, 7, 8}

issuableInvoiceTypes == <<1, 6, 11, 51, 201, 206, 211>>

isExportVoucher(type) == type \in {19, 20, 21}

\* Invoices and debit notes of every letter but E have a credit note.
creditNoteTypeFor(type) ==
  CASE type \in {1, 2} -> 3
    [] type \in {6, 7} -> 8
    [] type \in {11, 12} -> 13
    [] type \in {51, 52} -> 53
    [] type \in {201, 202} -> 203
    [] type \in {206, 207} -> 208
    [] type \in {211, 212} -> 213
    [] OTHER -> NoType

-----------------------------------------------------------------------------
(* recipient-iva-condition.ts *)

RecipientIvaCondition ==
  [RESPONSABLE_INSCRIPTO |-> 1, SUJETO_EXENTO |-> 4, CONSUMIDOR_FINAL |-> 5,
   MONOTRIBUTO |-> 6, MONOTRIBUTISTA_SOCIAL |-> 13]

knownConditions == {1, 4, 5, 6, 13}

allowedRecipientIvaConditions(type) ==
  CASE voucherLetter(type) \in {"A", "M"} -> {RecipientIvaCondition.RESPONSABLE_INSCRIPTO}
    [] voucherLetter(type) = "B" ->
         knownConditions \ {RecipientIvaCondition.RESPONSABLE_INSCRIPTO}
    [] OTHER -> knownConditions

isRecipientIvaConditionAllowed(type, condition) ==
  condition \in knownConditions => condition \in allowedRecipientIvaConditions(type)

\* index.ts: the condition assumed when the voucher names none.
defaultRecipientIvaCondition(type) ==
  IF discriminatesIva(type) THEN RecipientIvaCondition.RESPONSABLE_INSCRIPTO
                            ELSE RecipientIvaCondition.CONSUMIDOR_FINAL

-----------------------------------------------------------------------------
(* index.ts, iva-rate.ts, tribute-type.ts, voucher-status.ts *)

\* The voucher types ARCA lets an issuer use tell its fiscal condition.
inferFiscalCondition(types) ==
  CASE VoucherType.FACTURA_M \in types -> "RESPONSABLE_INSCRIPTO_M"
    [] {VoucherType.FACTURA_A, VoucherType.FACTURA_B} \cap types # {} -> "RESPONSABLE_INSCRIPTO"
    [] VoucherType.FACTURA_C \in types -> "MONOTRIBUTISTA"
    [] OTHER -> "unknown"

\* Rates are kept in tenths of a percent.
ivaRates == {0, 25, 50, 105, 210, 270}

ivaRateAfipId == [rate \in ivaRates |->
  CASE rate = 0 -> 3 [] rate = 25 -> 9 [] rate = 50 -> 8
    [] rate = 105 -> 4 [] rate = 210 -> 5 [] rate = 270 -> 6]

isNationalIndirectTribute(id) == id \in {1, 4}

requiresServicePeriod(concept) == concept \in {2, 3}

VoucherStatus == {"PENDING", "APPROVED", "RECOVERED", "OBSERVED", "REJECTED"}

isAuthorizedStatus(status) == status \in {"APPROVED", "RECOVERED", "OBSERVED"}
=============================================================================
