----------------------------- MODULE VoucherForm -----------------------------
(* The screen of the app that issues an invoice or a credit note: its fields, *)
(* the questions it asks the API while the user types, the review with the    *)
(* plan, and the emission.  Answers arrive at any time, also after the field  *)
(* they fill has changed; a hook's update and its effects are one step.       *)
EXTENDS VoucherSchema, SequencesExt

CONSTANTS
  Drafts,         \* what the screen opens with: None or a credit note's draft
  FormClients,    \* the issuer's clients
  Registered,     \* external: document -> name and condition in the registry
  Quote,          \* external: foreign currency -> ARCA's exchange rate
  EnabledTypes,   \* the sets of types ARCA may enable for the issuer
  Typed,          \* field of the form -> what the user may type or choose
  TypedInItem,    \* the same for the fields of an item
  TypedInTribute, \* and of a tribute
  MaxEdits, MaxEmissions

VARIABLES
  draft,
  form,           \* VoucherFormValues
  screen,         \* sheet open, error shown, queued, left
  enabled,        \* enabledVoucherTypes, None until answered
  awaited,          \* external: lookups the API has not answered
  plan,           \* emissionPlan under the open sheet: pending or answered, and of what
  emission,       \* the call that issues: its data and how it stands
  history         \* counters, and what happened that the properties excuse

formVars == <<draft, form, screen, enabled, awaited, plan, emission, history>>

LOCAL_CURRENCY == "PES"
LOCAL_EXCHANGE_RATE == 1
CONSUMIDOR_FINAL == 99
DEFAULT_IVA_RATE == 210
DEFAULT_INVOICE_TYPES == <<6, 1, 11>>

\* The fields with an input of their own, and what has a quote;
\* no sheet is open when there is None.
ASSUME FormConstants ==
  /\ DOMAIN Typed \subseteq {"salesPoint", "concept", "servicePeriod", "paymentDueDate", "docType",
                            "docNumber", "legalName", "transmissionType", "exchangeRate"}
  /\ LOCAL_CURRENCY \notin DOMAIN Quote
  /\ None \notin {"tipo", "moneda", "confirm"}
  /\ \A d \in Drafts \ {None} :
       d.voucherType \in VoucherTypeIds /\ d.items \in Seq(ToSet(d.items)) \ {<<>>}
  /\ MaxEdits \in Nat /\ MaxEmissions \in Nat

SELECTABLE_CURRENCIES == {LOCAL_CURRENCY} \cup DOMAIN Quote

newItem ==
  [described |-> FALSE, quantity |-> 1, unitPrice |-> 0, ivaRate |-> DEFAULT_IVA_RATE,
   taxTreatment |-> "TAXED"]
newTribute == [described |-> FALSE, id |-> 2, taxableBase |-> 0, rate |-> 0]

currentMonthPeriod == [from |-> 1, to |-> 30]
todayIso == 15

initialValues(opened) ==
  LET blank ==
        [voucherType |-> VoucherType.FACTURA_B, salesPoint |-> 1, concept |-> 1,
         servicePeriod |-> currentMonthPeriod, paymentDueDate |-> todayIso,
         docType |-> CONSUMIDOR_FINAL, docNumber |-> "0", legalName |-> "", ivaConditionId |-> None,
         items |-> <<newItem>>, tributes |-> <<>>, transmissionType |-> "SCA",
         currency |-> LOCAL_CURRENCY, exchangeRate |-> LOCAL_EXCHANGE_RATE]
  IN IF opened = None THEN blank
     ELSE [blank EXCEPT
             !.voucherType = opened.voucherType, !.concept = opened.concept,
             !.servicePeriod = IF opened.servicePeriod = None THEN @ ELSE opened.servicePeriod,
             !.paymentDueDate = IF opened.paymentDueDate = None THEN @ ELSE opened.paymentDueDate,
             !.docType = opened.recipient.docType, !.docNumber = opened.recipient.docNumber,
             !.legalName = opened.recipient.legalName, !.items = opened.items,
             !.currency = opened.currency, !.exchangeRate = opened.exchangeRate]

needsServicePeriod == requiresServicePeriod(form.concept)
isFce == isCreditInvoice(form.voucherType)
needsPaymentDueDate == needsServicePeriod \/ isFce

payload ==
  [voucherType |-> form.voucherType, salesPoint |-> form.salesPoint, concept |-> form.concept,
   recipient |-> [docType |-> form.docType, docNumber |-> form.docNumber,
                  legalName |-> form.legalName, ivaConditionId |-> form.ivaConditionId],
   items |-> form.items, tributes |-> form.tributes,
   servicePeriod |-> IF needsServicePeriod THEN form.servicePeriod ELSE None,
   paymentDueDate |-> IF needsPaymentDueDate THEN form.paymentDueDate ELSE None,
   transmissionType |-> IF isFce THEN form.transmissionType ELSE None,
   associatedVouchers |-> IF draft = None THEN <<>> ELSE draft.associatedVouchers,
   currency |-> form.currency, exchangeRate |-> form.exchangeRate]

\* parseVoucherPayload succeeds; the schema also asks for every description.
parseVoucherPayload ==
  /\ issueVoucherSchema(payload)
  /\ \A i \in DOMAIN form.items : form.items[i].described
  /\ \A i \in DOMAIN form.tributes : form.tributes[i].described

\* The options, each at its place in the table it is from.
buildVoucherTypeOptions(types) ==
  IF draft # None THEN << draft.voucherType >>
  ELSE LET available == {i \in DOMAIN issuableInvoiceTypes :
                           types # None /\ issuableInvoiceTypes[i] \in types}
       IN IF available # {} THEN [i \in available |-> issuableInvoiceTypes[i]]
          ELSE DEFAULT_INVOICE_TYPES

firstOption(options) == options[CHOOSE i \in DOMAIN options : \A j \in DOMAIN options : i <= j]

-----------------------------------------------------------------------------
NoLookups == [padron |-> None, quotes |-> {}]
NoPlan == [step |-> "idle", of |-> None]
NoEmission == [step |-> "none", data |-> None, seen |-> None, reply |-> None]

FormInit ==
  /\ draft \in Drafts
  /\ form = initialValues(draft)
  /\ screen = [sheet |-> None, error |-> FALSE, queued |-> FALSE, left |-> FALSE]
  /\ enabled = None
  /\ awaited = NoLookups
  /\ plan = NoPlan
  /\ emission = NoEmission
  /\ history = [edits |-> 0, emissions |-> 0, atApi |-> 0, moved |-> FALSE,
                astray |-> FALSE, rateGiven |-> draft # None, unsure |-> FALSE]

\* VoucherForm: one of queued, emitting, failed or the body; the sheet is open
\* over the body.
isEmitting == emission.step \in {"sent", "answered"}
FailedScreen == screen.error /\ ~isEmitting /\ ~screen.queued /\ ~screen.left
BodyShown == ~screen.error /\ ~isEmitting /\ ~screen.queued /\ ~screen.left

Sheet(name) == BodyShown /\ screen.sheet = name
Editing == Sheet(None) /\ history.edits < MaxEdits /\ history.emissions < MaxEmissions

Edited == [history EXCEPT !.edits = @ + 1]

\* An answer of the API changed the form after the review.
Moved == [history EXCEPT !.moved = @ \/ screen.sheet = "confirm"]
-----------------------------------------------------------------------------
(* Fields *)

isForeignCurrency == form.currency # LOCAL_CURRENCY

\* A field is shown to those who must fill it.
Shown(field) ==
  CASE field = "servicePeriod" -> needsServicePeriod
    [] field = "paymentDueDate" -> needsPaymentDueDate
    [] field = "transmissionType" -> isFce
    [] field = "exchangeRate" -> isForeignCurrency
    [] OTHER -> TRUE

TypeField(field) ==
  /\ Editing /\ Shown(field)
  /\ \E value \in Typed[field] \ {form[field]} : form' = [form EXCEPT ![field] = value]
  /\ history' = [Edited EXCEPT !.rateGiven = @ \/ field = "exchangeRate"]
  /\ UNCHANGED <<draft, screen, enabled, awaited, plan, emission>>

ChooseClient(client) ==
  /\ Editing
  /\ form' = [form EXCEPT !.docType = client.docType, !.docNumber = client.docNumber,
                          !.legalName = client.legalName]
  /\ history' = Edited
  /\ UNCHANGED <<draft, screen, enabled, awaited, plan, emission>>

replaceAt(list, i, field, value) == [list EXCEPT ![i] = [@ EXCEPT ![field] = value]]

\* The rate and the treatment of an item are shown by a type that separates IVA.
TypeInItem(i) ==
  /\ Editing
  /\ \E field \in DOMAIN TypedInItem : \E value \in TypedInItem[field] \ {form.items[i][field]} :
       /\ field \in {"taxTreatment", "ivaRate"} => discriminatesIva(form.voucherType)
       /\ field = "ivaRate" => form.items[i].taxTreatment = "TAXED"
       /\ LET changed == replaceAt(form.items, i, field, value)
          IN form' = [form EXCEPT !.items =
               IF field = "taxTreatment"
               THEN replaceAt(changed, i, "ivaRate", IF value = "TAXED" THEN DEFAULT_IVA_RATE ELSE 0)
               ELSE changed]
  /\ history' = Edited
  /\ UNCHANGED <<draft, screen, enabled, awaited, plan, emission>>

TypeInTribute(i) ==
  /\ Editing
  /\ \E field \in DOMAIN TypedInTribute :
     \E value \in TypedInTribute[field] \ {form.tributes[i][field]} :
       form' = [form EXCEPT !.tributes = replaceAt(@, i, field, value)]
  /\ history' = Edited
  /\ UNCHANGED <<draft, screen, enabled, awaited, plan, emission>>

\* Descriptions are typed once and are not counted as edits.
Describe ==
  /\ Sheet(None)
  /\ \/ \E i \in DOMAIN form.items :
          ~form.items[i].described /\ form' = [form EXCEPT !.items = replaceAt(@, i, "described", TRUE)]
     \/ \E i \in DOMAIN form.tributes :
          /\ ~form.tributes[i].described
          /\ form' = [form EXCEPT !.tributes = replaceAt(@, i, "described", TRUE)]
  /\ UNCHANGED <<draft, screen, enabled, awaited, plan, emission, history>>

AddOrRemove ==
  /\ Editing
  /\ \/ form' = [form EXCEPT !.items = Append(@, newItem)]
     \/ \E i \in DOMAIN form.items :
          Len(form.items) > 1 /\ form' = [form EXCEPT !.items = RemoveAt(@, i)]
     \/ form' = [form EXCEPT !.tributes = Append(@, newTribute)]
     \/ \E i \in DOMAIN form.tributes : form' = [form EXCEPT !.tributes = RemoveAt(@, i)]
  /\ history' = Edited
  /\ UNCHANGED <<draft, screen, enabled, awaited, plan, emission>>
-----------------------------------------------------------------------------
(* Sheets and lookups *)

OpenSheet(name) ==
  /\ Editing
  /\ screen' = [screen EXCEPT !.sheet = name]
  /\ UNCHANGED <<draft, form, enabled, awaited, plan, emission, history>>

\* A plan is dropped with its sheet: only another review shows one, its own.
CloseSheet ==
  /\ BodyShown /\ screen.sheet # None
  /\ screen' = [screen EXCEPT !.sheet = None]
  /\ plan' = NoPlan /\ history' = [history EXCEPT !.moved = FALSE]
  /\ UNCHANGED <<draft, form, enabled, awaited, emission>>

ChooseType ==
  /\ Sheet("tipo")
  /\ \E i \in DOMAIN buildVoucherTypeOptions(enabled) :
       form' = [form EXCEPT !.voucherType = buildVoucherTypeOptions(enabled)[i]]
  /\ screen' = [screen EXCEPT !.sheet = None]
  /\ history' = Edited
  /\ UNCHANGED <<draft, enabled, awaited, plan, emission>>

\* Mutant: choosing the peso keeps the rate of the currency left.
Mutant_chooseCurrency(currency) ==
  /\ Sheet("moneda")
  /\ screen' = [screen EXCEPT !.sheet = None]
  /\ form' = [form EXCEPT !.currency = currency]
  /\ awaited' = IF currency = LOCAL_CURRENCY THEN awaited
                ELSE [awaited EXCEPT !.quotes = @ \cup {currency}]
  /\ history' = [Edited EXCEPT !.astray = @ \/ awaited.quotes # {}, !.rateGiven = FALSE]
  /\ UNCHANGED <<draft, enabled, plan, emission>>

chooseCurrency(currency) ==
  /\ Sheet("moneda")
  /\ screen' = [screen EXCEPT !.sheet = None]
  /\ IF currency = LOCAL_CURRENCY
     THEN /\ form' = [form EXCEPT !.currency = currency, !.exchangeRate = LOCAL_EXCHANGE_RATE]
          /\ UNCHANGED awaited
     ELSE /\ form' = [form EXCEPT !.currency = currency]
          /\ awaited' = [awaited EXCEPT !.quotes = @ \cup {currency}]
  /\ history' = [Edited EXCEPT !.astray = @ \/ awaited.quotes # {}, !.rateGiven = FALSE]
  /\ UNCHANGED <<draft, enabled, plan, emission>>

\* A quote fills the rate whatever the currency is by then.
QuoteAnswered(currency) ==
  /\ currency \in awaited.quotes
  /\ awaited' = [awaited EXCEPT !.quotes = @ \ {currency}]
  /\ \/ /\ form' = [form EXCEPT !.exchangeRate = Quote[currency]]
        /\ history' = [Moved EXCEPT !.rateGiven = FALSE]
        /\ UNCHANGED screen
     \/ /\ screen' = [screen EXCEPT !.error = TRUE]
        /\ history' = [history EXCEPT !.astray = TRUE]
        /\ UNCHANGED form
  /\ UNCHANGED <<draft, enabled, plan, emission>>

\* The button is shown for a CUIT and disabled while a lookup is pending.
padronOffered == Sheet(None) /\ form.docType = CUIT /\ awaited.padron = None

lookupPadron ==
  /\ padronOffered
  /\ awaited' = [awaited EXCEPT !.padron = form.docNumber]
  /\ UNCHANGED <<draft, form, screen, enabled, plan, emission, history>>

\* A document outside the registry fails, and so may any lookup.
PadronAnswered ==
  LET document == awaited.padron
  IN /\ document # None
     /\ awaited' = [awaited EXCEPT !.padron = None]
     /\ \/ /\ document \in DOMAIN Registered
           /\ form' = [form EXCEPT !.legalName = Registered[document].legalName,
                                   !.ivaConditionId = Registered[document].ivaConditionId]
           /\ screen' = [screen EXCEPT !.error = FALSE]
           /\ history' = Moved
        \/ screen' = [screen EXCEPT !.error = TRUE] /\ UNCHANGED <<form, history>>
     /\ UNCHANGED <<draft, enabled, plan, emission>>

\* A type that is not offered gives way to the first one that is.
EnabledAnswered(types) ==
  LET options == buildVoucherTypeOptions(types)
  IN /\ enabled = None
     /\ enabled' = types
     /\ IF \E i \in DOMAIN options : options[i] = form.voucherType THEN UNCHANGED <<form, history>>
        ELSE form' = [form EXCEPT !.voucherType = firstOption(options)] /\ history' = Moved
     /\ UNCHANGED <<draft, screen, awaited, plan, emission>>
-----------------------------------------------------------------------------
(* Review and emission *)

review ==
  /\ Sheet(None) /\ history.emissions < MaxEmissions
  /\ IF parseVoucherPayload
     THEN /\ plan' = [step |-> "pending", of |-> payload]
          /\ screen' = [screen EXCEPT !.sheet = "confirm", !.error = FALSE]
     ELSE screen' = [screen EXCEPT !.error = TRUE] /\ UNCHANGED plan
  /\ UNCHANGED <<draft, form, enabled, awaited, emission, history>>

\* With the plan or an error, which does not keep the user from confirming.
PlanAnswered ==
  /\ plan.step = "pending"
  /\ plan' = [plan EXCEPT !.step = "answered"]
  /\ UNCHANGED <<draft, form, screen, enabled, awaited, emission, history>>

\* Confirm is disabled while the plan is pending.
emit ==
  /\ Sheet("confirm") /\ plan.step # "pending"
  /\ IF parseVoucherPayload
     THEN /\ emission' = [step |-> "sent", data |-> payload, seen |-> plan.of, reply |-> None]
          /\ history' = [history EXCEPT !.emissions = @ + 1]
          /\ UNCHANGED screen
     ELSE /\ screen' = [screen EXCEPT !.sheet = None, !.error = TRUE]
          /\ history' = [history EXCEPT !.moved = FALSE]
          /\ UNCHANGED emission
  /\ plan' = NoPlan
  /\ UNCHANGED <<draft, form, enabled, awaited>>

\* External: the API issues, queues (503), refuses, or loses the row of a
\* voucher that has its CAE (500).
ApiServes ==
  /\ emission.step = "sent"
  /\ \E reply \in {"issued", "queued", "refused", "unrecorded"} :
       /\ emission' = [emission EXCEPT !.step = "answered", !.reply = reply]
       /\ history' = [history EXCEPT !.atApi = @ + IF reply = "refused" THEN 0 ELSE 1]
  /\ UNCHANGED <<draft, form, screen, enabled, awaited, plan>>

\* onError of the emission.
failureScreen(reply) ==
  IF reply = "queued" THEN [screen EXCEPT !.sheet = None, !.queued = TRUE]
                      ELSE [screen EXCEPT !.sheet = None, !.error = TRUE]

ReplyArrives ==
  /\ emission.step = "answered"
  /\ screen' = IF emission.reply = "issued" THEN [screen EXCEPT !.sheet = None, !.left = TRUE]
               ELSE failureScreen(emission.reply)
  /\ history' = [history EXCEPT !.moved = FALSE, !.unsure = @ \/ emission.reply = "unrecorded"]
  /\ emission' = NoEmission
  /\ UNCHANGED <<draft, form, enabled, awaited, plan>>

\* The request or its reply is lost: fetch rejects.
ReplyLost ==
  /\ isEmitting
  /\ screen' = failureScreen("lost")
  /\ history' = [history EXCEPT !.moved = FALSE, !.unsure = TRUE]
  /\ emission' = NoEmission
  /\ UNCHANGED <<draft, form, enabled, awaited, plan>>

clearError ==
  /\ FailedScreen
  /\ screen' = [screen EXCEPT !.error = FALSE]
  /\ UNCHANGED <<draft, form, enabled, awaited, plan, emission, history>>

\* onExit and the system's back: the screen is unmounted and its state is gone.
Leave ==
  /\ ~screen.left
  /\ screen' = [sheet |-> None, error |-> FALSE, queued |-> FALSE, left |-> TRUE]
  /\ form' = initialValues(draft)
  /\ awaited' = NoLookups /\ plan' = NoPlan /\ emission' = NoEmission
  /\ enabled' = None
  /\ history' = [history EXCEPT !.edits = 0, !.moved = FALSE, !.astray = FALSE,
                               !.rateGiven = draft # None]
  /\ UNCHANGED draft

FormNext ==
  /\ ~screen.left
  /\ \/ \E field \in DOMAIN Typed : TypeField(field)
     \/ \E client \in FormClients : ChooseClient(client)
     \/ \E i \in DOMAIN form.items : TypeInItem(i)
     \/ \E i \in DOMAIN form.tributes : TypeInTribute(i)
     \/ Describe
     \/ AddOrRemove
     \/ \E name \in {"tipo", "moneda"} : OpenSheet(name)
     \/ CloseSheet
     \/ ChooseType
     \/ \E currency \in SELECTABLE_CURRENCIES : chooseCurrency(currency)
     \/ \E currency \in awaited.quotes : QuoteAnswered(currency)
     \/ lookupPadron
     \/ PadronAnswered
     \/ \E types \in EnabledTypes : EnabledAnswered(types)
     \/ review
     \/ PlanAnswered
     \/ emit
     \/ ApiServes
     \/ ReplyArrives
     \/ ReplyLost
     \/ clearError
     \/ Leave

FormSpec == FormInit /\ [][FormNext]_formVars
-----------------------------------------------------------------------------
(* Properties *)

\* Counters keep to their bounds and the screen shows one thing at a time.
FormTypeOK ==
  /\ history.edits \in 0..MaxEdits /\ history.emissions \in 0..MaxEmissions
  /\ history.atApi \in 0..MaxEmissions
  /\ screen.sheet \in {None, "tipo", "moneda", "confirm"}
  /\ plan.step \in {"idle", "pending", "answered"}
  /\ form.voucherType \in VoucherTypeIds /\ form.items # <<>>

\* One form leaves one voucher at the API, however often the user retries,
\* unless a reply was lost or the API lost the row of an authorised voucher:
\* a queued voucher is not emitted again (use-voucher-emission.ts, onError).
OneVoucherPerForm == ~history.unsure => history.atApi <= 1

\* What is sent is what was reviewed last.  Only an answer that arrives under
\* the open sheet changes it, and then neither the goods, the document, the
\* currency nor the dates.
WhatIsSeenIsSent ==
  emission.step = "sent" =>
    LET Kept(data) == <<data.items, data.tributes, data.currency, data.concept, data.salesPoint,
                        data.servicePeriod, data.associatedVouchers,
                        data.recipient.docType, data.recipient.docNumber>>
    IN /\ Kept(emission.data) = Kept(emission.seen)
       /\ history.moved \/ emission.data = emission.seen

\* Once every quote is answered the rate is that of the currency shown, unless
\* the user typed another, a quote failed, or the currency was changed while a
\* quote was on its way.
RateFollowsCurrency ==
  (awaited.quotes = {} /\ ~history.astray /\ ~history.rateGiven) =>
    form.exchangeRate = IF form.currency = LOCAL_CURRENCY THEN LOCAL_EXCHANGE_RATE
                        ELSE Quote[form.currency]

FormHolds == OneVoucherPerForm /\ WhatIsSeenIsSent /\ RateFollowsCurrency

\* The failure screen says "No se emitió nada ni se usó numeración".
NothingIssuedWhenFailed == FailedScreen => history.atApi = 0
=============================================================================
