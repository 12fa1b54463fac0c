-------------------------- MODULE Services_proofs --------------------------
(***************************************************************************)
(* Proofs about the parts that serve the app and the API's callers, for    *)
(* any number of requests, users, keys and rows: the form, push tokens,    *)
(* webhooks, the certificate watch, caches, access, the catalogue, rate    *)
(* limits and the calendar; and about the parts together.                  *)
(***************************************************************************)
EXTENDS Records_proofs

-----------------------------------------------------------------------------
(* The form.  The inductive invariant.                                        *)

FormFields ==
  {"salesPoint", "transmissionType", "ivaConditionId", "tributes", "voucherType", "concept",
   "servicePeriod", "paymentDueDate", "docType", "docNumber", "legalName", "currency",
   "exchangeRate", "items"}

Screens == [sheet : {None, "tipo", "moneda", "confirm"}, error : BOOLEAN, queued : BOOLEAN, left : BOOLEAN]

Histories ==
  [edits : Nat, emissions : Nat, atApi : Nat, moved : BOOLEAN, astray : BOOLEAN,
   rateGiven : BOOLEAN, unsure : BOOLEAN]

FormShape ==
  /\ DOMAIN form = FormFields
  /\ screen \in Screens /\ history \in Histories
  /\ DOMAIN awaited = {"padron", "quotes"}
  /\ DOMAIN plan = {"step", "of"} /\ plan.step \in {"idle", "pending", "answered"}
  /\ DOMAIN emission = {"step", "data", "seen", "reply"}
  /\ emission.step \in {"none", "sent", "answered"}
  /\ emission.step = "answered" => emission.reply \in {"issued", "queued", "refused", "unrecorded"}

\* While a call is under way the form is covered by its screen.
EmittingAlone == isEmitting => ~screen.queued /\ ~screen.left

\* What is at the API was issued or queued, and ended the form.
OneEmission ==
  ~history.unsure =>
    \/ history.atApi = 0
    \/ /\ history.atApi = 1
       /\ \/ emission.step = "answered" /\ emission.reply # "refused"
          \/ screen.queued \/ screen.left

Kept(data) ==
  <<data.items, data.tributes, data.currency, data.concept, data.salesPoint, data.servicePeriod,
    data.associatedVouchers, data.recipient.docType, data.recipient.docNumber>>

\* The sheet under review shows the plan of the form as it is.
PlanIsOfTheForm ==
  screen.sheet = "confirm" /\ emission.step = "none" =>
    /\ Kept(payload) = Kept(plan.of)
    /\ history.moved \/ payload = plan.of

SentAsSeen ==
  emission.step = "sent" =>
    /\ Kept(emission.data) = Kept(emission.seen)
    /\ history.moved \/ emission.data = emission.seen

RateOf(currency) == IF currency = LOCAL_CURRENCY THEN LOCAL_EXCHANGE_RATE ELSE Quote[currency]

\* Unless the user changed his mind, only the quote of the currency is awaited.
QuotesAreOfTheCurrency ==
  ~history.astray =>
    /\ awaited.quotes \subseteq {form.currency} \ {LOCAL_CURRENCY}
    /\ awaited.quotes = {} /\ ~history.rateGiven => form.exchangeRate = RateOf(form.currency)

FormInv ==
  FormShape /\ EmittingAlone /\ OneEmission /\ PlanIsOfTheForm /\ SentAsSeen /\ QuotesAreOfTheCurrency

LEMMA FormInitInv == FormInit => FormInv
<1> SUFFICES ASSUME FormInit PROVE FormInv
  OBVIOUS
<1>1. DOMAIN initialValues(draft) = FormFields
  BY DEF initialValues, FormFields
<1>2. FormShape
  BY <1>1, Zenon DEF FormInit, FormShape, Screens, Histories, NoLookups, NoPlan, NoEmission
<1>3. draft = None => initialValues(draft).currency = LOCAL_CURRENCY
                      /\ initialValues(draft).exchangeRate = LOCAL_EXCHANGE_RATE
  BY DEF initialValues
<1>4. QuotesAreOfTheCurrency
  BY <1>3 DEF FormInit, QuotesAreOfTheCurrency, NoLookups, RateOf
<1>5. EmittingAlone /\ OneEmission /\ PlanIsOfTheForm /\ SentAsSeen
  BY FormConstants DEF FormInit, EmittingAlone, OneEmission, PlanIsOfTheForm, SentAsSeen, isEmitting, NoEmission
<1> QED BY <1>2, <1>4, <1>5 DEF FormInv

\* The user changes fields other than the currency.
LEMMA EditInv ==
  ASSUME FormInv, Sheet(None), UNCHANGED <<draft, screen, enabled, awaited, plan, emission>>,
         DOMAIN form' = FormFields, form'.currency = form.currency,
         NEW h \in Histories, history' = h,
         h.atApi = history.atApi, h.unsure = history.unsure, h.moved = history.moved,
         h.astray = history.astray, history.rateGiven => h.rateGiven,
         form'.exchangeRate = form.exchangeRate \/ h.rateGiven
  PROVE  FormInv'
<1>1. FormShape'
  BY DEF FormInv, FormShape
<1>2. screen'.sheet # "confirm" /\ EmittingAlone' /\ OneEmission'
  BY FormConstants DEF FormInv, Sheet, EmittingAlone, OneEmission, isEmitting
<1>3. PlanIsOfTheForm' /\ SentAsSeen'
  BY <1>2 DEF FormInv, PlanIsOfTheForm, SentAsSeen
<1>4. QuotesAreOfTheCurrency'
  BY DEF FormInv, QuotesAreOfTheCurrency, RateOf
<1> QED BY <1>1, <1>2, <1>3, <1>4 DEF FormInv

LEMMA EditsInv ==
  ASSUME FormInv,
         \/ \E field \in DOMAIN Typed : TypeField(field)
         \/ \E client \in FormClients : ChooseClient(client)
         \/ \E i \in DOMAIN form.items : TypeInItem(i)
         \/ \E i \in DOMAIN form.tributes : TypeInTribute(i)
         \/ Describe
         \/ AddOrRemove
  PROVE  FormInv'
<1>0. DOMAIN form = FormFields /\ history \in Histories
  BY DEF FormInv, FormShape
<1>1. Edited \in Histories /\ \A b \in BOOLEAN : [Edited EXCEPT !.rateGiven = b] \in Histories
  <2>1. Edited \in Histories
    BY <1>0 DEF Edited, Histories
  <2> QED BY <2>1 DEF Histories
<1>2. /\ Edited.atApi = history.atApi /\ Edited.unsure = history.unsure /\ Edited.moved = history.moved
      /\ Edited.astray = history.astray /\ Edited.rateGiven = history.rateGiven
  BY <1>0 DEF Edited, Histories
<1>3. CASE \E field \in DOMAIN Typed : TypeField(field)
  <2>1. PICK field \in DOMAIN Typed : TypeField(field)
    BY <1>3
  <2>2. PICK value : form' = [form EXCEPT ![field] = value]
    BY <2>1 DEF TypeField
  <2>3. field # "currency" /\ DOMAIN form' = FormFields /\ form'.currency = form.currency
    BY <1>0, <2>2, FormConstants DEF FormFields
  <2> DEFINE h == [Edited EXCEPT !.rateGiven = @ \/ field = "exchangeRate"]
  <2>4. h \in Histories /\ history' = h
    BY <1>1, <2>1 DEF TypeField
  <2>5. /\ h.atApi = history.atApi /\ h.unsure = history.unsure /\ h.moved = history.moved
        /\ h.astray = history.astray /\ (history.rateGiven => h.rateGiven)
        /\ (field = "exchangeRate" => h.rateGiven)
    BY <1>1, <1>2 DEF Histories
  <2>6. field # "exchangeRate" => form'.exchangeRate = form.exchangeRate
    BY <1>0, <2>2 DEF FormFields
  <2> HIDE DEF h
  <2> QED BY <2>1, <2>3, <2>4, <2>5, <2>6, EditInv DEF TypeField, Editing
<1>4. CASE \E client \in FormClients : ChooseClient(client)
  <2>1. Sheet(None) /\ history' = Edited /\ UNCHANGED <<draft, screen, enabled, awaited, plan, emission>>
    BY <1>4 DEF ChooseClient, Editing
  <2>2. DOMAIN form' = FormFields /\ form'.currency = form.currency /\ form'.exchangeRate = form.exchangeRate
    BY <1>0, <1>4 DEF ChooseClient, FormFields
  <2> QED BY <1>1, <1>2, <2>1, <2>2, EditInv
<1>5. CASE \E i \in DOMAIN form.items : TypeInItem(i)
  <2>1. Sheet(None) /\ history' = Edited /\ UNCHANGED <<draft, screen, enabled, awaited, plan, emission>>
    BY <1>5 DEF TypeInItem, Editing
  <2>2. \E v : form' = [form EXCEPT !.items = v]
    BY <1>5 DEF TypeInItem
  <2>3. DOMAIN form' = FormFields /\ form'.currency = form.currency /\ form'.exchangeRate = form.exchangeRate
    BY <1>0, <2>2 DEF FormFields
  <2> QED BY <1>1, <1>2, <2>1, <2>3, EditInv
<1>6. CASE \E i \in DOMAIN form.tributes : TypeInTribute(i)
  <2>1. Sheet(None) /\ history' = Edited /\ UNCHANGED <<draft, screen, enabled, awaited, plan, emission>>
    BY <1>6 DEF TypeInTribute, Editing
  <2>2. \E v : form' = [form EXCEPT !.tributes = v]
    BY <1>6 DEF TypeInTribute
  <2>3. DOMAIN form' = FormFields /\ form'.currency = form.currency /\ form'.exchangeRate = form.exchangeRate
    BY <1>0, <2>2 DEF FormFields
  <2> QED BY <1>1, <1>2, <2>1, <2>3, EditInv
<1>7. CASE Describe
  <2>1. Sheet(None) /\ history' = history /\ UNCHANGED <<draft, screen, enabled, awaited, plan, emission>>
    BY <1>7 DEF Describe
  <2>2. \E v : form' = [form EXCEPT !.items = v] \/ form' = [form EXCEPT !.tributes = v]
    BY <1>7 DEF Describe
  <2>3. DOMAIN form' = FormFields /\ form'.currency = form.currency /\ form'.exchangeRate = form.exchangeRate
    BY <1>0, <2>2 DEF FormFields
  <2> QED BY <1>0, <2>1, <2>3, EditInv
<1>8. CASE AddOrRemove
  <2>1. Sheet(None) /\ history' = Edited /\ UNCHANGED <<draft, screen, enabled, awaited, plan, emission>>
    BY <1>8 DEF AddOrRemove, Editing
  <2>2. \E v : form' = [form EXCEPT !.items = v] \/ form' = [form EXCEPT !.tributes = v]
    BY <1>8 DEF AddOrRemove
  <2>3. DOMAIN form' = FormFields /\ form'.currency = form.currency /\ form'.exchangeRate = form.exchangeRate
    BY <1>0, <2>2 DEF FormFields
  <2> QED BY <1>1, <1>2, <2>1, <2>3, EditInv
<1> QED BY <1>3, <1>4, <1>5, <1>6, <1>7, <1>8

\* What the review shows of the form.
LEMMA KeptFields ==
  ASSUME UNCHANGED draft,
         form'.items = form.items, form'.tributes = form.tributes, form'.currency = form.currency,
         form'.concept = form.concept, form'.salesPoint = form.salesPoint,
         form'.servicePeriod = form.servicePeriod, form'.docType = form.docType,
         form'.docNumber = form.docNumber
  PROVE  Kept(payload)' = Kept(payload)
BY DEF Kept, payload, needsServicePeriod

LEMMA PayloadStays == ASSUME UNCHANGED <<draft, form>> PROVE payload' = payload
BY DEF payload, needsServicePeriod, needsPaymentDueDate, isFce

\* The sheets and the changes made on them.
LEMMA SheetsInv ==
  ASSUME FormInv,
         \/ \E name \in {"tipo", "moneda"} : OpenSheet(name)
         \/ CloseSheet
         \/ ChooseType
         \/ \E currency \in SELECTABLE_CURRENCIES : chooseCurrency(currency)
  PROVE  FormInv'
<1>0. DOMAIN form = FormFields /\ history \in Histories /\ screen \in Screens /\ DOMAIN awaited = {"padron", "quotes"}
  BY DEF FormInv, FormShape
<1>1. /\ Edited \in Histories /\ Edited.atApi = history.atApi /\ Edited.unsure = history.unsure
      /\ Edited.astray = history.astray /\ Edited.rateGiven = history.rateGiven
  BY <1>0 DEF Edited, Histories
<1>2. ~isEmitting /\ emission' = emission /\ screen'.queued = screen.queued /\ screen'.left = screen.left
      /\ screen' \in Screens /\ screen'.sheet # "confirm"
  BY <1>0, FormConstants
     DEF OpenSheet, CloseSheet, ChooseType, chooseCurrency, Editing, Sheet, BodyShown, Screens
<1>3. EmittingAlone'
  BY <1>2 DEF EmittingAlone, isEmitting
<1>4. PlanIsOfTheForm' /\ SentAsSeen'
  BY <1>2 DEF PlanIsOfTheForm, SentAsSeen, isEmitting
<1>5. ASSUME history' \in Histories, history'.atApi = history.atApi, history'.unsure = history.unsure
      PROVE  OneEmission'
  BY <1>2, <1>5 DEF FormInv, OneEmission
<1>6. ASSUME form' = form, awaited' = awaited, history' \in Histories,
             history'.atApi = history.atApi, history'.unsure = history.unsure,
             history'.astray = history.astray, history'.rateGiven = history.rateGiven,
             DOMAIN plan' = {"step", "of"} /\ plan'.step \in {"idle", "pending", "answered"}
      PROVE  FormInv'
  <2>1. FormShape'
    BY <1>0, <1>2, <1>6 DEF FormInv, FormShape
  <2>2. QuotesAreOfTheCurrency'
    BY <1>6 DEF FormInv, QuotesAreOfTheCurrency, RateOf
  <2> QED BY <1>3, <1>4, <1>5, <1>6, <2>1, <2>2 DEF FormInv
<1>7. CASE \E name \in {"tipo", "moneda"} : OpenSheet(name)
  BY <1>0, <1>6, <1>7 DEF OpenSheet, FormInv, FormShape
<1>8. CASE CloseSheet
  <2>1. form' = form /\ awaited' = awaited /\ plan' = NoPlan /\ history' = [history EXCEPT !.moved = FALSE]
    BY <1>8 DEF CloseSheet
  <2>2. /\ history' \in Histories /\ history'.atApi = history.atApi /\ history'.unsure = history.unsure
        /\ history'.astray = history.astray /\ history'.rateGiven = history.rateGiven
    BY <1>0, <2>1 DEF Histories
  <2> QED BY <1>6, <2>1, <2>2 DEF NoPlan
<1>9. CASE ChooseType
  <2>1. history' = Edited /\ UNCHANGED <<awaited, plan, emission>>
    BY <1>9 DEF ChooseType
  <2>2. \E v : form' = [form EXCEPT !.voucherType = v]
    BY <1>9 DEF ChooseType
  <2>3. DOMAIN form' = FormFields /\ form'.currency = form.currency /\ form'.exchangeRate = form.exchangeRate
    BY <1>0, <2>2 DEF FormFields
  <2>4. FormShape'
    BY <1>0, <1>1, <1>2, <2>1, <2>3 DEF FormInv, FormShape
  <2>5. QuotesAreOfTheCurrency'
    BY <1>1, <2>1, <2>3 DEF FormInv, QuotesAreOfTheCurrency, RateOf
  <2> QED BY <1>1, <1>3, <1>4, <1>5, <2>1, <2>4, <2>5 DEF FormInv
<1>10. CASE \E currency \in SELECTABLE_CURRENCIES : chooseCurrency(currency)
  <2>1. PICK currency \in SELECTABLE_CURRENCIES : chooseCurrency(currency)
    BY <1>10
  <2> DEFINE h == [Edited EXCEPT !.astray = @ \/ awaited.quotes # {}, !.rateGiven = FALSE]
  <2>2. history' = h /\ UNCHANGED <<plan, emission>>
    BY <2>1 DEF chooseCurrency
  <2>3. /\ h \in Histories /\ h.atApi = history.atApi /\ h.unsure = history.unsure
        /\ h.astray = (history.astray \/ awaited.quotes # {}) /\ h.rateGiven = FALSE
    BY <1>0, <1>1 DEF Histories
  <2> HIDE DEF h
  <2>4. CASE currency = LOCAL_CURRENCY
    <3>1. form' = [form EXCEPT !.currency = currency, !.exchangeRate = LOCAL_EXCHANGE_RATE] /\ awaited' = awaited
      BY <2>1, <2>4 DEF chooseCurrency
    <3>2. DOMAIN form' = FormFields /\ form'.currency = LOCAL_CURRENCY /\ form'.exchangeRate = LOCAL_EXCHANGE_RATE
      BY <1>0, <2>4, <3>1 DEF FormFields
    <3>3. FormShape'
      BY <1>0, <1>2, <2>2, <2>3, <3>1, <3>2 DEF FormInv, FormShape
    <3>4. QuotesAreOfTheCurrency'
      BY <2>2, <2>3, <3>1, <3>2 DEF QuotesAreOfTheCurrency, RateOf
    <3> QED BY <1>3, <1>4, <1>5, <2>2, <2>3, <3>3, <3>4 DEF FormInv
  <2>5. CASE currency # LOCAL_CURRENCY
    <3>1. form' = [form EXCEPT !.currency = currency] /\ awaited' = [awaited EXCEPT !.quotes = @ \cup {currency}]
      BY <2>1, <2>5 DEF chooseCurrency
    <3>2. DOMAIN form' = FormFields /\ form'.currency = currency
      BY <1>0, <3>1 DEF FormFields
    <3>3. DOMAIN awaited' = {"padron", "quotes"} /\ awaited'.quotes = awaited.quotes \cup {currency}
      BY <1>0, <3>1
    <3>4. FormShape'
      BY <1>0, <1>2, <2>2, <2>3, <3>2, <3>3 DEF FormInv, FormShape
    <3>5. QuotesAreOfTheCurrency'
      BY <2>2, <2>3, <2>5, <3>2, <3>3 DEF QuotesAreOfTheCurrency, RateOf
    <3> QED BY <1>3, <1>4, <1>5, <2>2, <2>3, <3>4, <3>5 DEF FormInv
  <2> QED BY <2>4, <2>5
<1> QED BY <1>7, <1>8, <1>9, <1>10

\* An answer, under the open sheet or not, changes no field the plan is kept by.
LEMMA AnswerInv ==
  ASSUME FormInv, UNCHANGED <<draft, emission>>, DOMAIN form' = FormFields,
         form'.items = form.items, form'.tributes = form.tributes, form'.currency = form.currency,
         form'.concept = form.concept, form'.salesPoint = form.salesPoint,
         form'.servicePeriod = form.servicePeriod, form'.docType = form.docType,
         form'.docNumber = form.docNumber,
         screen' \in Screens, screen'.sheet = screen.sheet,
         screen'.queued = screen.queued, screen'.left = screen.left,
         DOMAIN awaited' = {"padron", "quotes"},
         DOMAIN plan' = {"step", "of"}, plan'.step \in {"idle", "pending", "answered"}, plan'.of = plan.of,
         history' \in Histories, history'.atApi = history.atApi, history'.unsure = history.unsure,
         history.moved => history'.moved,
         form' = form \/ screen.sheet # "confirm" \/ history'.moved,
         QuotesAreOfTheCurrency'
  PROVE  FormInv'
<1>1. FormShape'
  BY DEF FormInv, FormShape
<1>2. EmittingAlone' /\ OneEmission'
  BY DEF FormInv, EmittingAlone, OneEmission, isEmitting
<1>3. Kept(payload)' = Kept(payload) /\ Kept(plan.of)' = Kept(plan.of)
  <2>1. Kept(payload)' = Kept(payload)
    BY KeptFields
  <2> QED BY <2>1 DEF Kept
<1>4. form' = form => payload' = payload
  BY PayloadStays
<1>5. PlanIsOfTheForm'
  <2>1. CASE ~(screen.sheet = "confirm" /\ emission.step = "none")
    BY <2>1 DEF PlanIsOfTheForm
  <2>2. CASE screen.sheet = "confirm" /\ emission.step = "none"
    <3>1. Kept(payload) = Kept(plan.of) /\ (history.moved \/ payload = plan.of)
      BY <2>2 DEF FormInv, PlanIsOfTheForm
    <3>2. history'.moved \/ payload' = plan'.of
      BY <1>4, <2>2, <3>1
    <3> QED BY <1>3, <3>1, <3>2 DEF PlanIsOfTheForm
  <2> QED BY <2>1, <2>2
<1>6. SentAsSeen'
  <2>1. Kept(emission.data)' = Kept(emission.data) /\ Kept(emission.seen)' = Kept(emission.seen)
    BY DEF Kept
  <2> QED BY <2>1 DEF FormInv, SentAsSeen
<1> QED BY <1>1, <1>2, <1>5, <1>6 DEF FormInv

LEMMA LookupsInv ==
  ASSUME FormInv,
         \/ \E currency \in awaited.quotes : QuoteAnswered(currency)
         \/ lookupPadron
         \/ PadronAnswered
         \/ \E types \in EnabledTypes : EnabledAnswered(types)
         \/ PlanAnswered
         \/ clearError
  PROVE  FormInv'
<1>0. /\ DOMAIN form = FormFields /\ history \in Histories /\ screen \in Screens
      /\ DOMAIN awaited = {"padron", "quotes"}
      /\ DOMAIN plan = {"step", "of"} /\ plan.step \in {"idle", "pending", "answered"}
  BY DEF FormInv, FormShape
<1>1. /\ Moved \in Histories /\ Moved.atApi = history.atApi /\ Moved.unsure = history.unsure
      /\ Moved.astray = history.astray /\ Moved.rateGiven = history.rateGiven
      /\ history.moved => Moved.moved
      /\ screen.sheet = "confirm" => Moved.moved
  BY <1>0 DEF Moved, Histories
<1>2. \A b \in BOOLEAN :
        /\ [screen EXCEPT !.error = b] \in Screens /\ [screen EXCEPT !.error = b].sheet = screen.sheet
        /\ [screen EXCEPT !.error = b].queued = screen.queued /\ [screen EXCEPT !.error = b].left = screen.left
  BY <1>0 DEF Screens
<1>3. CASE \E currency \in awaited.quotes : QuoteAnswered(currency)
  <2>1. PICK currency \in awaited.quotes : QuoteAnswered(currency)
    BY <1>3
  <2>2. /\ awaited' = [awaited EXCEPT !.quotes = @ \ {currency}]
        /\ UNCHANGED <<draft, enabled, plan, emission>>
    BY <2>1 DEF QuoteAnswered
  <2>3. DOMAIN awaited' = {"padron", "quotes"} /\ awaited'.quotes = awaited.quotes \ {currency}
    BY <1>0, <2>2
  <2>4. CASE /\ form' = [form EXCEPT !.exchangeRate = Quote[currency]]
             /\ history' = [Moved EXCEPT !.rateGiven = FALSE]
             /\ UNCHANGED screen
    <3>1. /\ DOMAIN form' = FormFields /\ form'.exchangeRate = Quote[currency]
          /\ form'.items = form.items /\ form'.tributes = form.tributes /\ form'.currency = form.currency
          /\ form'.concept = form.concept /\ form'.salesPoint = form.salesPoint
          /\ form'.servicePeriod = form.servicePeriod /\ form'.docType = form.docType
          /\ form'.docNumber = form.docNumber
      BY <1>0, <2>4 DEF FormFields
    <3>2. /\ history' \in Histories /\ history'.atApi = history.atApi /\ history'.unsure = history.unsure
          /\ history'.astray = history.astray /\ history'.moved = Moved.moved
      BY <1>1, <2>4 DEF Histories
    <3>3. QuotesAreOfTheCurrency'
      <4> SUFFICES ASSUME ~history.astray PROVE QuotesAreOfTheCurrency'
        BY <3>2 DEF QuotesAreOfTheCurrency
      <4>1. currency = form.currency /\ currency # LOCAL_CURRENCY
            /\ awaited.quotes \subseteq {form.currency} \ {LOCAL_CURRENCY}
        BY <2>1 DEF FormInv, QuotesAreOfTheCurrency
      <4> QED BY <2>3, <3>1, <4>1 DEF QuotesAreOfTheCurrency, RateOf
    <3> QED BY <1>0, <1>1, <2>2, <2>3, <2>4, <3>1, <3>2, <3>3, AnswerInv
  <2>5. CASE /\ screen' = [screen EXCEPT !.error = TRUE]
             /\ history' = [history EXCEPT !.astray = TRUE]
             /\ UNCHANGED form
    <3>1. /\ history' \in Histories /\ history'.atApi = history.atApi /\ history'.unsure = history.unsure
          /\ history'.astray = TRUE /\ history'.moved = history.moved
      BY <1>0, <2>5 DEF Histories
    <3>2. QuotesAreOfTheCurrency'
      BY <3>1 DEF QuotesAreOfTheCurrency
    <3> QED BY <1>0, <1>2, <2>2, <2>3, <2>5, <3>1, <3>2, AnswerInv
  <2> QED BY <2>1, <2>4, <2>5 DEF QuoteAnswered
<1>4. CASE lookupPadron
  <2>1. DOMAIN awaited' = {"padron", "quotes"} /\ awaited'.quotes = awaited.quotes
    BY <1>0, <1>4 DEF lookupPadron
  <2>2. QuotesAreOfTheCurrency'
    BY <1>4, <2>1 DEF FormInv, QuotesAreOfTheCurrency, lookupPadron, RateOf
  <2> QED BY <1>0, <1>4, <2>1, <2>2, AnswerInv DEF lookupPadron
<1>5. CASE PadronAnswered
  <2>1. DOMAIN awaited' = {"padron", "quotes"} /\ awaited'.quotes = awaited.quotes
    BY <1>0, <1>5 DEF PadronAnswered
  <2>2. UNCHANGED <<draft, enabled, plan, emission>>
    BY <1>5 DEF PadronAnswered
  <2>3. CASE /\ \E v, w : form' = [form EXCEPT !.legalName = v, !.ivaConditionId = w]
             /\ screen' = [screen EXCEPT !.error = FALSE]
             /\ history' = Moved
    <3>1. /\ DOMAIN form' = FormFields /\ form'.exchangeRate = form.exchangeRate
          /\ form'.items = form.items /\ form'.tributes = form.tributes /\ form'.currency = form.currency
          /\ form'.concept = form.concept /\ form'.salesPoint = form.salesPoint
          /\ form'.servicePeriod = form.servicePeriod /\ form'.docType = form.docType
          /\ form'.docNumber = form.docNumber
      BY <1>0, <2>3 DEF FormFields
    <3>2. QuotesAreOfTheCurrency'
      BY <1>1, <2>1, <2>3, <3>1 DEF FormInv, QuotesAreOfTheCurrency, RateOf
    <3> QED BY <1>0, <1>1, <1>2, <2>1, <2>2, <2>3, <3>1, <3>2, AnswerInv
  <2>4. CASE screen' = [screen EXCEPT !.error = TRUE] /\ UNCHANGED <<form, history>>
    <3>1. QuotesAreOfTheCurrency'
      BY <2>1, <2>4 DEF FormInv, QuotesAreOfTheCurrency, RateOf
    <3> QED BY <1>0, <1>2, <2>1, <2>2, <2>4, <3>1, AnswerInv
  <2> QED BY <1>5, <2>3, <2>4 DEF PadronAnswered
<1>6. CASE \E types \in EnabledTypes : EnabledAnswered(types)
  <2>1. UNCHANGED <<draft, screen, awaited, plan, emission>>
    BY <1>6 DEF EnabledAnswered
  <2>2. CASE (\E v : form' = [form EXCEPT !.voucherType = v]) /\ history' = Moved
    <3>1. /\ DOMAIN form' = FormFields /\ form'.exchangeRate = form.exchangeRate
          /\ form'.items = form.items /\ form'.tributes = form.tributes /\ form'.currency = form.currency
          /\ form'.concept = form.concept /\ form'.salesPoint = form.salesPoint
          /\ form'.servicePeriod = form.servicePeriod /\ form'.docType = form.docType
          /\ form'.docNumber = form.docNumber
      BY <1>0, <2>2 DEF FormFields
    <3>2. QuotesAreOfTheCurrency'
      BY <1>1, <2>1, <2>2, <3>1 DEF FormInv, QuotesAreOfTheCurrency, RateOf
    <3> QED BY <1>0, <1>1, <2>1, <2>2, <3>1, <3>2, AnswerInv
  <2>3. CASE UNCHANGED <<form, history>>
    <3>1. QuotesAreOfTheCurrency'
      BY <2>1, <2>3 DEF FormInv, QuotesAreOfTheCurrency, RateOf
    <3> QED BY <1>0, <2>1, <2>3, <3>1, AnswerInv
  <2> QED BY <1>6, <2>2, <2>3 DEF EnabledAnswered
<1>7. CASE PlanAnswered
  <2>1. DOMAIN plan' = {"step", "of"} /\ plan'.step = "answered" /\ plan'.of = plan.of
    BY <1>0, <1>7 DEF PlanAnswered
  <2>2. QuotesAreOfTheCurrency'
    BY <1>7 DEF FormInv, QuotesAreOfTheCurrency, PlanAnswered, RateOf
  <2> QED BY <1>0, <1>7, <2>1, <2>2, AnswerInv DEF PlanAnswered
<1>8. CASE clearError
  <2>1. QuotesAreOfTheCurrency'
    BY <1>8 DEF FormInv, QuotesAreOfTheCurrency, clearError, RateOf
  <2> QED BY <1>0, <1>2, <1>8, <2>1, AnswerInv DEF clearError
<1> QED BY <1>3, <1>4, <1>5, <1>6, <1>7, <1>8

LEMMA EmissionInv ==
  ASSUME FormInv, ~screen.left, review \/ emit \/ ApiServes \/ ReplyArrives \/ ReplyLost
  PROVE  FormInv'
<1>0. /\ DOMAIN form = FormFields /\ history \in Histories /\ screen \in Screens
      /\ DOMAIN awaited = {"padron", "quotes"}
      /\ DOMAIN plan = {"step", "of"} /\ plan.step \in {"idle", "pending", "answered"}
      /\ DOMAIN emission = {"step", "data", "seen", "reply"} /\ emission.step \in {"none", "sent", "answered"}
      /\ emission.step = "answered" => emission.reply \in {"issued", "queued", "refused", "unrecorded"}
  BY DEF FormInv, FormShape
<1>1. UNCHANGED <<draft, form, awaited, enabled>>
  BY DEF review, emit, ApiServes, ReplyArrives, ReplyLost
<1>2. payload' = payload
  BY <1>1, PayloadStays
<1>3. ASSUME history'.astray = history.astray, history'.rateGiven = history.rateGiven
      PROVE  QuotesAreOfTheCurrency'
  BY <1>1, <1>3 DEF FormInv, QuotesAreOfTheCurrency, RateOf
<1>4. CASE review
  <2>1. UNCHANGED <<emission, history>> /\ ~isEmitting /\ screen.sheet = None /\ ~screen.queued
    BY <1>4 DEF review, Sheet, BodyShown
  <2>2. CASE parseVoucherPayload
    <3>1. plan' = [step |-> "pending", of |-> payload] /\ screen' = [screen EXCEPT !.sheet = "confirm", !.error = FALSE]
      BY <1>4, <2>2 DEF review
    <3>2. screen' \in Screens /\ screen'.queued = screen.queued /\ screen'.left = screen.left
      BY <1>0, <3>1 DEF Screens
    <3>3. DOMAIN plan' = {"step", "of"} /\ plan'.step = "pending" /\ plan'.of = payload
      BY <3>1
    <3>4. FormShape'
      BY <1>0, <1>1, <2>1, <3>2, <3>3 DEF FormShape
    <3>5. EmittingAlone' /\ OneEmission' /\ SentAsSeen'
      BY <2>1, <3>2 DEF FormInv, EmittingAlone, OneEmission, SentAsSeen, isEmitting
    <3>6. PlanIsOfTheForm'
      BY <1>2, <3>3 DEF PlanIsOfTheForm, Kept
    <3> QED BY <1>3, <2>1, <3>4, <3>5, <3>6 DEF FormInv
  <2>3. CASE ~parseVoucherPayload
    <3>1. screen' = [screen EXCEPT !.error = TRUE] /\ UNCHANGED plan
      BY <1>4, <2>3 DEF review
    <3>2. screen' \in Screens /\ screen'.queued = screen.queued /\ screen'.left = screen.left /\ screen'.sheet = screen.sheet
      BY <1>0, <3>1 DEF Screens
    <3>3. QuotesAreOfTheCurrency'
      BY <1>3, <2>1
    <3> QED BY <1>0, <1>1, <2>1, <3>1, <3>2, <3>3, AnswerInv
  <2> QED BY <2>2, <2>3
<1>5. CASE emit
  <2>1. plan' = NoPlan /\ ~isEmitting /\ screen.sheet = "confirm" /\ ~screen.queued /\ emission.step = "none"
    BY <1>0, <1>5 DEF emit, Sheet, BodyShown, isEmitting
  <2>2. DOMAIN plan' = {"step", "of"} /\ plan'.step \in {"idle", "pending", "answered"}
    BY <2>1 DEF NoPlan
  <2>3. CASE parseVoucherPayload
    <3>1. /\ emission' = [step |-> "sent", data |-> payload, seen |-> plan.of, reply |-> None]
          /\ history' = [history EXCEPT !.emissions = @ + 1] /\ UNCHANGED screen
      BY <1>5, <2>3 DEF emit
    <3>2. /\ DOMAIN emission' = {"step", "data", "seen", "reply"} /\ emission'.step = "sent"
          /\ emission'.data = payload /\ emission'.seen = plan.of
      BY <3>1
    <3>3. /\ history' \in Histories /\ history'.atApi = history.atApi /\ history'.unsure = history.unsure
          /\ history'.astray = history.astray /\ history'.moved = history.moved
          /\ history'.rateGiven = history.rateGiven
      BY <1>0, <3>1 DEF Histories
    <3>4. FormShape'
      BY <1>0, <1>1, <2>2, <3>1, <3>2, <3>3 DEF FormShape
    <3>5. ~history.unsure => history.atApi = 0
      BY <2>1 DEF FormInv, OneEmission
    <3>6. EmittingAlone' /\ OneEmission' /\ PlanIsOfTheForm'
      BY <2>1, <3>1, <3>2, <3>3, <3>5 DEF EmittingAlone, OneEmission, PlanIsOfTheForm, isEmitting
    <3>7. SentAsSeen'
      <4>1. Kept(payload) = Kept(plan.of) /\ (history.moved \/ payload = plan.of)
        BY <2>1 DEF FormInv, PlanIsOfTheForm
      <4>2. Kept(emission.data)' = Kept(payload) /\ Kept(emission.seen)' = Kept(plan.of)
        BY <3>2 DEF Kept
      <4>3. history'.moved \/ emission'.data = emission'.seen
        BY <3>2, <3>3, <4>1
      <4> QED BY <4>1, <4>2, <4>3 DEF SentAsSeen
    <3> QED BY <1>3, <3>3, <3>4, <3>6, <3>7 DEF FormInv
  <2>4. CASE ~parseVoucherPayload
    <3>1. /\ screen' = [screen EXCEPT !.sheet = None, !.error = TRUE]
          /\ history' = [history EXCEPT !.moved = FALSE] /\ UNCHANGED emission
      BY <1>5, <2>4 DEF emit
    <3>2. screen' \in Screens /\ screen'.queued = screen.queued /\ screen'.left = screen.left /\ screen'.sheet = None
      BY <1>0, <3>1 DEF Screens
    <3>3. /\ history' \in Histories /\ history'.atApi = history.atApi /\ history'.unsure = history.unsure
          /\ history'.astray = history.astray /\ history'.rateGiven = history.rateGiven
      BY <1>0, <3>1 DEF Histories
    <3>4. FormShape'
      BY <1>0, <1>1, <2>2, <3>1, <3>2, <3>3 DEF FormShape
    <3>5. EmittingAlone' /\ OneEmission' /\ PlanIsOfTheForm' /\ SentAsSeen'
      BY <2>1, <3>1, <3>2, <3>3, FormConstants
         DEF FormInv, EmittingAlone, OneEmission, PlanIsOfTheForm, SentAsSeen, isEmitting
    <3> QED BY <1>3, <3>3, <3>4, <3>5 DEF FormInv
  <2> QED BY <2>3, <2>4
<1>6. CASE ApiServes
  <2>1. PICK reply \in {"issued", "queued", "refused", "unrecorded"} :
           /\ emission' = [emission EXCEPT !.step = "answered", !.reply = reply]
           /\ history' = [history EXCEPT !.atApi = @ + IF reply = "refused" THEN 0 ELSE 1]
    BY <1>6 DEF ApiServes
  <2>2. UNCHANGED <<screen, plan>> /\ emission.step = "sent"
    BY <1>6 DEF ApiServes
  <2>3. DOMAIN emission' = {"step", "data", "seen", "reply"} /\ emission'.step = "answered" /\ emission'.reply = reply
    BY <1>0, <2>1
  <2> DEFINE more == IF reply = "refused" THEN 0 ELSE 1
  <2>4. /\ history' \in Histories /\ history'.atApi = history.atApi + more /\ history'.unsure = history.unsure
        /\ history'.astray = history.astray /\ history'.rateGiven = history.rateGiven
    BY <1>0, <2>1 DEF Histories
  <2>5. FormShape'
    BY <1>0, <1>1, <2>2, <2>3, <2>4 DEF FormShape
  <2>6. EmittingAlone'
    BY <2>2 DEF FormInv, EmittingAlone, isEmitting
  <2>7. OneEmission'
    <3>1. ~history.unsure => history.atApi = 0
      BY <2>2 DEF FormInv, OneEmission, EmittingAlone, isEmitting
    <3> QED BY <2>2, <2>3, <2>4, <3>1 DEF OneEmission
  <2>8. PlanIsOfTheForm' /\ SentAsSeen'
    BY <2>3 DEF PlanIsOfTheForm, SentAsSeen
  <2> QED BY <1>3, <2>4, <2>5, <2>6, <2>7, <2>8 DEF FormInv
<1>7. CASE ReplyArrives \/ ReplyLost
  <2>1. emission' = NoEmission /\ UNCHANGED plan /\ isEmitting
    BY <1>7 DEF ReplyArrives, ReplyLost, isEmitting
  <2>2. DOMAIN emission' = {"step", "data", "seen", "reply"} /\ emission'.step = "none"
    BY <2>1 DEF NoEmission
  <2>3. PICK unsure \in BOOLEAN :
          /\ history' = [history EXCEPT !.moved = FALSE, !.unsure = unsure]
          /\ ~unsure => ~history.unsure /\ ReplyArrives /\ emission.reply # "unrecorded"
    <3>1. CASE ReplyArrives
      BY <1>0, <3>1 DEF ReplyArrives, Histories
    <3>2. CASE ReplyLost
      BY <1>0, <3>2 DEF ReplyLost
    <3> QED BY <1>7, <3>1, <3>2
  <2>4. /\ history' \in Histories /\ history'.atApi = history.atApi /\ history'.unsure = unsure
        /\ history'.astray = history.astray /\ history'.rateGiven = history.rateGiven
    BY <1>0, <2>3 DEF Histories
  <2>5. screen' \in Screens /\ screen'.sheet = None
    BY <1>0, <1>7 DEF ReplyArrives, ReplyLost, failureScreen, Screens
  <2>6. FormShape'
    BY <1>0, <1>1, <2>1, <2>2, <2>4, <2>5 DEF FormShape
  <2>7. OneEmission'
    <3> SUFFICES ASSUME ~unsure PROVE OneEmission'
      BY <2>4 DEF OneEmission
    <3>1. ReplyArrives /\ emission.step = "answered" /\ emission.reply # "unrecorded"
          /\ ~screen.queued /\ ~screen.left
      BY <2>3 DEF ReplyArrives, FormInv, EmittingAlone, isEmitting
    <3>2. history.atApi = 0 \/ history.atApi = 1
      BY <2>3 DEF FormInv, OneEmission
    <3>3. CASE history.atApi = 0
      BY <2>4, <3>3 DEF OneEmission
    <3>4. CASE history.atApi = 1 /\ emission.reply # "refused" /\ emission.reply \in {"issued", "queued"}
      <4>1. screen'.queued \/ screen'.left
        BY <1>0, <3>1, <3>4 DEF ReplyArrives, failureScreen, Screens
      <4> QED BY <2>4, <3>4, <4>1 DEF OneEmission
    <3>5. emission.reply \in {"issued", "queued", "refused", "unrecorded"}
      BY <3>1 DEF FormInv, FormShape
    <3>6. history.atApi = 1 => emission.reply # "refused"
      BY <2>3, <3>1 DEF FormInv, OneEmission
    <3> QED BY <3>1, <3>2, <3>3, <3>4, <3>5, <3>6
  <2>8. EmittingAlone' /\ PlanIsOfTheForm' /\ SentAsSeen'
    BY <2>2, <2>5, FormConstants DEF EmittingAlone, PlanIsOfTheForm, SentAsSeen, isEmitting
  <2> QED BY <1>3, <2>4, <2>6, <2>7, <2>8 DEF FormInv
<1> QED BY <1>4, <1>5, <1>6, <1>7

LEMMA LeaveInv == ASSUME FormInv, Leave PROVE FormInv'
<1>0. history \in Histories
  BY DEF FormInv, FormShape
<1>1. DOMAIN initialValues(draft) = FormFields
  BY DEF initialValues, FormFields
<1>2. draft = None => initialValues(draft).currency = LOCAL_CURRENCY
                      /\ initialValues(draft).exchangeRate = LOCAL_EXCHANGE_RATE
  BY DEF initialValues
<1>3. /\ history' \in Histories /\ history'.atApi = history.atApi /\ history'.unsure = history.unsure
      /\ history'.astray = FALSE /\ history'.rateGiven = (draft # None)
  BY <1>0 DEF Leave, Histories
<1>4. /\ UNCHANGED draft /\ form' = initialValues(draft) /\ awaited' = NoLookups /\ plan' = NoPlan
      /\ emission' = NoEmission
      /\ screen' = [sheet |-> None, error |-> FALSE, queued |-> FALSE, left |-> TRUE]
  BY DEF Leave
<1>5. FormShape'
  BY <1>1, <1>3, <1>4, Zenon DEF FormShape, Screens, NoLookups, NoPlan, NoEmission
<1>6. EmittingAlone' /\ PlanIsOfTheForm' /\ SentAsSeen'
  BY <1>4, FormConstants DEF EmittingAlone, PlanIsOfTheForm, SentAsSeen, isEmitting, NoEmission
<1>7. OneEmission'
  BY <1>3, <1>4 DEF FormInv, OneEmission
<1>8. QuotesAreOfTheCurrency'
  <2>1. form'.currency = initialValues(draft).currency /\ form'.exchangeRate = initialValues(draft).exchangeRate
    BY <1>4
  <2> QED BY <1>2, <1>3, <1>4, <2>1 DEF QuotesAreOfTheCurrency, NoLookups, RateOf
<1> QED BY <1>5, <1>6, <1>7, <1>8 DEF FormInv

LEMMA FormInvStep == FormInv /\ [FormNext]_formVars => FormInv'
<1> SUFFICES ASSUME FormInv, [FormNext]_formVars PROVE FormInv'
  OBVIOUS
<1>1. CASE UNCHANGED formVars
  <2>1. UNCHANGED <<draft, form, screen, awaited, plan, emission, history>>
    BY <1>1 DEF formVars
  <2>2. payload' = payload
    BY <2>1, PayloadStays
  <2>3. FormShape' /\ EmittingAlone' /\ OneEmission'
    BY <2>1 DEF FormInv, FormShape, EmittingAlone, OneEmission, isEmitting
  <2>4. PlanIsOfTheForm' /\ SentAsSeen'
    BY <2>1, <2>2 DEF FormInv, PlanIsOfTheForm, SentAsSeen, Kept
  <2>5. QuotesAreOfTheCurrency'
    BY <2>1 DEF FormInv, QuotesAreOfTheCurrency, RateOf
  <2> QED BY <2>3, <2>4, <2>5 DEF FormInv
<1>2. CASE FormNext
  BY <1>2, EditsInv, SheetsInv, LookupsInv, EmissionInv, LeaveInv DEF FormNext
<1> QED BY <1>1, <1>2

\* The form issues one voucher, the one reviewed, at the rate of its currency
\* (use-voucher-form-state.ts, use-voucher-emission.ts), whatever the user does
\* and in whatever order the answers of the API arrive, for any drafts, clients,
\* quotes and values typed and any number of edits and emissions.
THEOREM FormIssuesWhatItShows == FormSpec => []FormHolds
<1>1. FormInv => FormHolds
  <2>1. FormInv => OneVoucherPerForm
    BY DEF FormInv, FormShape, Histories, OneEmission, OneVoucherPerForm
  <2>2. FormInv => WhatIsSeenIsSent
    BY DEF FormInv, SentAsSeen, Kept, WhatIsSeenIsSent
  <2>3. FormInv => RateFollowsCurrency
    BY DEF FormInv, QuotesAreOfTheCurrency, RateOf, RateFollowsCurrency
  <2> QED BY <2>1, <2>2, <2>3 DEF FormHolds
<1> QED BY <1>1, FormInitInv, FormInvStep, PTL DEF FormSpec

-----------------------------------------------------------------------------
(* Push tokens.  The inductive invariant.                                     *)

CallRecord ==
  [kind : {"register", "remove"}, user : Users \cup {NoUser},
   step : {"asking", "sent", "done", "over"}, awaited : BOOLEAN]

Phones ==
  [installed : BOOLEAN, session : Users \cup {NoUser}, stored : BOOLEAN,
   logout : {"no", "removing", "closing"}, registered : BOOLEAN]

PushShape ==
  /\ pushTokens \in Users \cup {NoUser}
  /\ phone \in Phones /\ pushCalls \in Seq(CallRecord) /\ strayed \in BOOLEAN

\* A phone without a session registers nothing and logs out of nothing.
PhoneShape ==
  /\ phone.logout # "no" => phone.session # NoUser
  /\ ~phone.installed => phone.session = NoUser
  /\ phone.session = NoUser => ~phone.registered

AwaitedRemoval(c) == pushCalls[c].kind = "remove" /\ Pending(pushCalls[c]) /\ pushCalls[c].awaited

\* A call is sent for a user; a removal is awaited by the logout that made it.
CallShape(c) ==
  /\ pushCalls[c].step \in {"sent", "done"} => pushCalls[c].user \in Users
  /\ pushCalls[c].step = "asking" => pushCalls[c].kind = "register"
  /\ AwaitedRemoval(c) => phone.logout = "removing" /\ pushCalls[c].user = phone.session

RegisterPending(c) == pushCalls[c].kind = "register" /\ Pending(pushCalls[c])

NoneRegisters == \A c \in DOMAIN pushCalls : ~RegisterPending(c)

\* In a session the row is its user's, and will be remembered, or there is none.
InSession ==
  /\ pushTokens \in {NoUser, phone.session}
  /\ \A c \in DOMAIN pushCalls :
       /\ RegisterPending(c) =>
            /\ pushCalls[c].awaited
            /\ pushCalls[c].step # "asking" => pushCalls[c].user = phone.session
            /\ pushCalls[c].step = "done" => pushTokens = phone.session
       /\ pushCalls[c].kind = "remove" /\ Pending(pushCalls[c]) => pushCalls[c].user # phone.session
  /\ phone.registered => pushTokens = phone.session
  /\ pushTokens = phone.session =>
       phone.stored \/ \E c \in DOMAIN pushCalls : RegisterPending(c) /\ pushCalls[c].step = "done"

LoggingOut ==
  /\ NoneRegisters /\ pushTokens \in {NoUser, phone.session}
  /\ \A c \in DOMAIN pushCalls :
       pushCalls[c].kind = "remove" /\ pushCalls[c].step = "done" /\ pushCalls[c].user = phone.session =>
         pushTokens = NoUser

RowFollows ==
  ~strayed =>
    /\ phone.session = NoUser \/ phone.logout = "closing" => pushTokens = NoUser /\ NoneRegisters
    /\ phone.session # NoUser /\ phone.logout = "no" => InSession
    /\ phone.logout = "removing" => LoggingOut

PushInv ==
  /\ PushShape /\ PhoneShape
  /\ \A c \in DOMAIN pushCalls : CallShape(c)
  /\ \A c, d \in DOMAIN pushCalls : AwaitedRemoval(c) /\ AwaitedRemoval(d) => c = d
  /\ RowFollows

LEMMA PushInitInv == PushInit => PushInv
<1> SUFFICES ASSUME PushInit PROVE PushInv
  OBVIOUS
<1>1. PushShape /\ PhoneShape
  <2>1. phone \in Phones
    BY DEF PushInit, Phones
  <2>2. pushCalls \in Seq(CallRecord)
    BY DEF PushInit
  <2> QED BY <2>1, <2>2 DEF PushInit, PushShape, PhoneShape
<1>2. DOMAIN pushCalls = {} /\ phone.session = NoUser /\ phone.logout = "no" /\ pushTokens = NoUser
  BY DEF PushInit
<1> QED BY <1>1, <1>2 DEF PushInv, RowFollows, NoneRegisters

\* One call changes, or one is added.
LEMMA OneCallChanges ==
  ASSUME PushShape, NEW c \in DOMAIN pushCalls, NEW call \in CallRecord,
         pushCalls' = [pushCalls EXCEPT ![c] = call]
  PROVE  /\ pushCalls' \in Seq(CallRecord) /\ DOMAIN pushCalls' = DOMAIN pushCalls
         /\ pushCalls'[c] = call
         /\ \A d \in DOMAIN pushCalls : d # c => pushCalls'[d] = pushCalls[d]
BY DEF PushShape

LEMMA OneCallMore ==
  ASSUME NEW calls \in Seq(CallRecord), NEW call \in CallRecord, pushCalls' = Append(calls, call)
  PROVE  /\ pushCalls' \in Seq(CallRecord)
         /\ \A d \in DOMAIN pushCalls' :
              \/ d \in DOMAIN calls /\ pushCalls'[d] = calls[d]
              \/ d = Len(calls) + 1 /\ pushCalls'[d] = call
         /\ \A d \in DOMAIN calls : d \in DOMAIN pushCalls' /\ pushCalls'[d] = calls[d]
OBVIOUS

LEMMA CallSteps ==
  ASSUME NEW call \in CallRecord
  PROVE  /\ Pending(call) <=> call.step # "over"
         /\ call.kind # "remove" => call.kind = "register"
BY DEF CallRecord, Pending

LEMMA SignInInv == ASSUME PushInv, NEW user \in Users, SignIn(user) PROVE PushInv'
<1> DEFINE call == Call("register", NoUser, "asking")
<1>1. call \in CallRecord /\ pushCalls \in Seq(CallRecord) /\ phone \in Phones
  BY DEF Call, CallRecord, PushInv, PushShape
<1>2. /\ pushCalls' \in Seq(CallRecord)
      /\ \A d \in DOMAIN pushCalls' :
           \/ d \in DOMAIN pushCalls /\ pushCalls'[d] = pushCalls[d]
           \/ d = Len(pushCalls) + 1 /\ pushCalls'[d] = call
      /\ \A d \in DOMAIN pushCalls : d \in DOMAIN pushCalls' /\ pushCalls'[d] = pushCalls[d]
  BY <1>1, OneCallMore DEF SignIn, Mount
<1>3. /\ phone' \in Phones /\ phone'.session = user /\ phone'.logout = "no" /\ ~phone'.registered
      /\ phone'.installed /\ phone'.stored = phone.stored
  BY <1>1 DEF SignIn, Mount, Phones
<1>4. phone.session = NoUser /\ phone.logout = "no" /\ UNCHANGED pushTokens /\ user # NoUser
  BY PushConstants DEF SignIn, PushInv, PhoneShape
<1>5. PushShape' /\ PhoneShape'
  BY <1>2, <1>3, <1>4 DEF PushInv, PushShape, PhoneShape, SignIn
<1>6. ASSUME NEW d \in DOMAIN pushCalls' PROVE CallShape(d)'
  <2>1. CASE d \in DOMAIN pushCalls /\ pushCalls'[d] = pushCalls[d]
    BY <1>4, <2>1 DEF PushInv, CallShape, AwaitedRemoval
  <2>2. CASE pushCalls'[d] = call
    BY <2>2 DEF CallShape, AwaitedRemoval, Call
  <2> QED BY <1>2, <2>1, <2>2
<1>7. RowFollows'
  <2> SUFFICES ASSUME ~strayed' PROVE InSession'
    BY <1>3, <1>4 DEF RowFollows
  <2>1. ~strayed /\ ~Unsettled(user, DOMAIN pushCalls) /\ pushTokens = NoUser
    <3>1. ~strayed /\ ~Unsettled(user, DOMAIN pushCalls)
      BY DEF SignIn
    <3> QED BY <1>4, <3>1 DEF PushInv, RowFollows
  <2>2. \A d \in DOMAIN pushCalls : ~RegisterPending(d) /\ (Pending(pushCalls[d]) => pushCalls[d].user # user)
    BY <2>1 DEF Unsettled, RegisterPending
  <2>3. ASSUME NEW d \in DOMAIN pushCalls'
        PROVE  /\ RegisterPending(d)' => pushCalls'[d].awaited /\ pushCalls'[d].step = "asking"
               /\ pushCalls'[d].kind = "remove" /\ Pending(pushCalls'[d]) => pushCalls'[d].user # user
    <3>1. CASE d \in DOMAIN pushCalls /\ pushCalls'[d] = pushCalls[d]
      BY <2>2, <3>1 DEF RegisterPending
    <3>2. CASE pushCalls'[d] = call
      BY <3>2 DEF Call
    <3> QED BY <1>2, <3>1, <3>2
  <2>4. pushTokens' = NoUser /\ phone'.session # NoUser
    BY <1>3, <1>4, <2>1
  <2> QED BY <1>3, <2>3, <2>4 DEF InSession
<1>8. \A d \in DOMAIN pushCalls' : AwaitedRemoval(d)' => d \in DOMAIN pushCalls /\ AwaitedRemoval(d)
  BY <1>2 DEF AwaitedRemoval, Call
<1> QED BY <1>5, <1>6, <1>7, <1>8 DEF PushInv

LEMMA NotifyOwnerInv == ASSUME PushInv, NEW user \in Users, NotifyOwner(user) PROVE PushInv'
<1>1. UNCHANGED <<phone, pushCalls, strayed>> /\ pushTokens' \in {pushTokens, NoUser}
  BY DEF NotifyOwner
<1>2. /\ PushShape' /\ PhoneShape' /\ \A c \in DOMAIN pushCalls' : CallShape(c)'
      /\ \A c, d \in DOMAIN pushCalls' : AwaitedRemoval(c)' /\ AwaitedRemoval(d)' => c = d
  BY <1>1 DEF PushInv, PushShape, PhoneShape, CallShape, AwaitedRemoval
<1>3. RowFollows'
  <2>1. CASE pushTokens' = pushTokens
    BY <1>1, <2>1
       DEF PushInv, RowFollows, NoneRegisters, InSession, LoggingOut, RegisterPending
  <2>2. CASE ~phone.installed
    <3>1. phone.session = NoUser /\ pushTokens # NoUser /\ phone.logout = "no"
      BY <2>2, PushConstants DEF PushInv, PhoneShape, NotifyOwner, PushShape, Phones
    <3> QED BY <1>1, <3>1 DEF PushInv, RowFollows
  <2> QED BY <2>1, <2>2 DEF NotifyOwner
<1> QED BY <1>2, <1>3 DEF PushInv

\* A call that was not sent ends or is sent.
LEMMA AskedInv ==
  ASSUME PushInv, NEW c \in DOMAIN pushCalls, NoPermission(c) \/ SendRegistration(c)
  PROVE  PushInv'
<1> DEFINE ended == [pushCalls[c] EXCEPT !.step = "over"]
           sent == [pushCalls[c] EXCEPT !.step = "sent", !.user = phone.session]
<1>1. /\ pushCalls[c] \in CallRecord /\ pushCalls[c].step = "asking" /\ UNCHANGED <<pushTokens, phone, strayed>>
      /\ phone.session \in Users \cup {NoUser}
  BY DEF PushInv, PushShape, NoPermission, SendRegistration, Phones
<1>2. /\ ended \in CallRecord /\ ended.step = "over"
      /\ sent \in CallRecord /\ sent.step = "sent" /\ sent.user = phone.session
      /\ sent.kind = pushCalls[c].kind /\ sent.awaited = pushCalls[c].awaited
  BY <1>1 DEF CallRecord
<1>3. \/ pushCalls' = [pushCalls EXCEPT ![c] = ended]
      \/ phone.session # NoUser /\ pushCalls' = [pushCalls EXCEPT ![c] = sent]
  BY DEF NoPermission, SendRegistration, Ended
<1> HIDE DEF ended, sent
<1>4. PICK call \in CallRecord :
         /\ pushCalls' = [pushCalls EXCEPT ![c] = call]
         /\ \/ call.step = "over"
            \/ /\ call.step = "sent" /\ call.user = phone.session /\ phone.session # NoUser
               /\ call.kind = pushCalls[c].kind /\ call.awaited = pushCalls[c].awaited
  BY <1>2, <1>3
<1>5. /\ pushCalls' \in Seq(CallRecord) /\ DOMAIN pushCalls' = DOMAIN pushCalls /\ pushCalls'[c] = call
      /\ \A d \in DOMAIN pushCalls : d # c => pushCalls'[d] = pushCalls[d]
  BY <1>4, OneCallChanges DEF PushInv
<1>6. PushShape' /\ PhoneShape'
  BY <1>1, <1>5 DEF PushInv, PushShape, PhoneShape
<1>7. pushCalls[c].kind = "register"
  BY <1>1 DEF PushInv, CallShape, AwaitedRemoval
<1>8. \A d \in DOMAIN pushCalls' : CallShape(d)'
  BY <1>1, <1>4, <1>5, <1>7 DEF PushInv, CallShape, AwaitedRemoval, Pending
<1>9. /\ RegisterPending(c)
      /\ \A d \in DOMAIN pushCalls : RegisterPending(d)' => RegisterPending(d)
      /\ RegisterPending(c)' => call.awaited = pushCalls[c].awaited /\ call.step = "sent" /\ call.user = phone.session
  BY <1>1, <1>4, <1>5, <1>7 DEF RegisterPending, Pending
<1>10. ~strayed => InSession /\ phone.session # NoUser /\ phone.logout = "no"
  BY <1>6, <1>9 DEF PushInv, PushShape, RowFollows, NoneRegisters, LoggingOut, Phones
<1>11. InSession => InSession'
  <2> SUFFICES ASSUME InSession PROVE InSession'
    OBVIOUS
  <2>1. \A d \in DOMAIN pushCalls' :
          pushCalls'[d].kind = "remove" /\ Pending(pushCalls'[d]) => pushCalls'[d].user # phone.session
    BY <1>4, <1>5, <1>7 DEF InSession, Pending
  <2>2. \A d \in DOMAIN pushCalls' :
          RegisterPending(d)' =>
            /\ pushCalls'[d].awaited
            /\ pushCalls'[d].step # "asking" => pushCalls'[d].user = phone.session
            /\ pushCalls'[d].step = "done" => pushTokens = phone.session
    BY <1>5, <1>9 DEF InSession
  <2>3. pushTokens = phone.session =>
          phone.stored \/ \E d \in DOMAIN pushCalls' : RegisterPending(d)' /\ pushCalls'[d].step = "done"
    BY <1>1, <1>5 DEF InSession, RegisterPending
  <2> QED BY <1>1, <2>1, <2>2, <2>3 DEF InSession
<1>12. RowFollows'
  BY <1>1, <1>10, <1>11 DEF RowFollows
<1>13. \A d \in DOMAIN pushCalls' : AwaitedRemoval(d)' => AwaitedRemoval(d)
  BY <1>4, <1>5, <1>7 DEF AwaitedRemoval, Pending
<1> QED BY <1>5, <1>6, <1>8, <1>12, <1>13 DEF PushInv

LEMMA RememberTokenInv ==
  ASSUME PushInv, NEW c \in DOMAIN pushCalls, RememberToken(c) PROVE PushInv'
<1> DEFINE call == [pushCalls[c] EXCEPT !.step = "over"]
<1>1. /\ pushCalls[c] \in CallRecord /\ pushCalls[c].kind = "register" /\ pushCalls[c].step = "done"
      /\ pushCalls[c].user \in Users /\ UNCHANGED pushTokens /\ phone \in Phones
  BY DEF PushInv, PushShape, CallShape, RememberToken
<1>2. call \in CallRecord /\ call.step = "over"
  BY <1>1 DEF CallRecord
<1>3. pushCalls' = [pushCalls EXCEPT ![c] = call]
  BY DEF RememberToken, Ended
<1> HIDE DEF call
<1>4. /\ pushCalls' \in Seq(CallRecord) /\ DOMAIN pushCalls' = DOMAIN pushCalls /\ pushCalls'[c] = call
      /\ \A d \in DOMAIN pushCalls : d # c => pushCalls'[d] = pushCalls[d]
  BY <1>2, <1>3, OneCallChanges DEF PushInv
<1>5. /\ phone' \in Phones /\ phone'.session = phone.session /\ phone'.logout = phone.logout
      /\ phone'.installed = phone.installed /\ phone'.stored
      /\ phone'.registered = (phone.registered \/ pushCalls[c].user = phone.session)
  BY <1>1 DEF RememberToken, Phones
<1>6. strayed' = (strayed \/ pushCalls[c].user # phone.session) /\ strayed' \in BOOLEAN
  BY DEF RememberToken
<1>7. PushShape' /\ PhoneShape'
  BY <1>1, <1>4, <1>5, <1>6, PushConstants DEF PushInv, PushShape, PhoneShape
<1>8. \A d \in DOMAIN pushCalls' : CallShape(d)'
  BY <1>2, <1>4, <1>5 DEF PushInv, CallShape, AwaitedRemoval, Pending
<1>9. RegisterPending(c) /\ \A d \in DOMAIN pushCalls : RegisterPending(d)' => RegisterPending(d) /\ d # c
  BY <1>1, <1>2, <1>4 DEF RegisterPending, Pending
<1>10. RowFollows'
  <2> SUFFICES ASSUME ~strayed' PROVE phone.session # NoUser /\ phone.logout = "no" /\ InSession'
    BY <1>5 DEF RowFollows
  <2>1. ~strayed /\ phone.session # NoUser /\ phone.logout = "no" /\ InSession
    BY <1>1, <1>6, <1>9 DEF PushInv, RowFollows, NoneRegisters, LoggingOut, Phones
  <2>2. pushTokens = phone.session
    BY <1>1, <1>9, <2>1 DEF InSession
  <2>3. \A d \in DOMAIN pushCalls' :
          /\ RegisterPending(d)' =>
               /\ pushCalls'[d].awaited
               /\ pushCalls'[d].step # "asking" => pushCalls'[d].user = phone.session
          /\ pushCalls'[d].kind = "remove" /\ Pending(pushCalls'[d]) => pushCalls'[d].user # phone.session
    BY <1>2, <1>4, <1>9, <2>1 DEF InSession, Pending
  <2> QED BY <1>1, <1>5, <2>1, <2>2, <2>3 DEF InSession
<1>11. \A d \in DOMAIN pushCalls' : AwaitedRemoval(d)' => AwaitedRemoval(d)
  BY <1>2, <1>4 DEF AwaitedRemoval, Pending
<1> QED BY <1>4, <1>7, <1>8, <1>10, <1>11 DEF PushInv

LEMMA LoseAnswerInv ==
  ASSUME PushInv, NEW c \in DOMAIN pushCalls, LoseAnswer(c) PROVE PushInv'
<1> DEFINE step == IF pushCalls[c].step = "done" THEN "over" ELSE "sent"
           call == [pushCalls[c] EXCEPT !.awaited = FALSE, !.step = step]
<1>1. /\ pushCalls[c] \in CallRecord /\ pushCalls[c].step \in {"sent", "done"} /\ pushCalls[c].awaited
      /\ UNCHANGED pushTokens /\ strayed' = TRUE /\ phone \in Phones
  BY DEF PushInv, PushShape, LoseAnswer
<1>2. /\ call \in CallRecord /\ call.kind = pushCalls[c].kind /\ ~call.awaited
      /\ call.step \in {"sent", "over"} /\ call.user = pushCalls[c].user
  BY <1>1 DEF CallRecord
<1>3. pushCalls' = [pushCalls EXCEPT ![c] = call]
  BY DEF LoseAnswer
<1> HIDE DEF call
<1>4. /\ pushCalls' \in Seq(CallRecord) /\ DOMAIN pushCalls' = DOMAIN pushCalls /\ pushCalls'[c] = call
      /\ \A d \in DOMAIN pushCalls : d # c => pushCalls'[d] = pushCalls[d]
  BY <1>2, <1>3, OneCallChanges DEF PushInv
<1>5. \A d \in DOMAIN pushCalls' : AwaitedRemoval(d)' => AwaitedRemoval(d) /\ d # c
  BY <1>2, <1>4 DEF AwaitedRemoval
<1>6. CASE pushCalls[c].kind = "remove"
  <2>1. AwaitedRemoval(c) /\ phone.session # NoUser /\ phone.logout # "no"
    BY <1>1, <1>6 DEF PushInv, CallShape, PhoneShape, AwaitedRemoval, Pending
  <2>2. /\ phone' \in Phones /\ phone'.logout = "closing" /\ phone'.session = phone.session
        /\ phone'.installed = phone.installed /\ phone'.registered = phone.registered
    BY <1>1, <1>6 DEF LoseAnswer, Phones
  <2>3. PushShape' /\ PhoneShape'
    BY <1>1, <1>4, <2>1, <2>2 DEF PushInv, PushShape, PhoneShape
  <2>4. \A d \in DOMAIN pushCalls' : ~AwaitedRemoval(d)'
    BY <1>4, <1>5, <2>1 DEF PushInv
  <2>5. \A d \in DOMAIN pushCalls' : CallShape(d)'
    BY <1>1, <1>2, <1>4, <2>4 DEF PushInv, CallShape
  <2> QED BY <1>1, <2>3, <2>4, <2>5 DEF PushInv, RowFollows
<1>7. CASE pushCalls[c].kind # "remove"
  <2>1. phone' = phone
    BY <1>7 DEF LoseAnswer
  <2>2. PushShape' /\ PhoneShape'
    BY <1>1, <1>4, <2>1 DEF PushInv, PushShape, PhoneShape
  <2>3. \A d \in DOMAIN pushCalls' : CallShape(d)'
    BY <1>1, <1>2, <1>4, <1>5, <2>1 DEF PushInv, CallShape
  <2> QED BY <1>1, <1>4, <1>5, <2>2, <2>3 DEF PushInv, RowFollows
<1> QED BY <1>6, <1>7

LEMMA LogoutInv == ASSUME PushInv, Logout PROVE PushInv'
<1> DEFINE call == Call("remove", phone.session, "sent")
<1>1. /\ pushCalls \in Seq(CallRecord) /\ phone \in Phones /\ phone.session \in Users /\ phone.logout = "no"
      /\ UNCHANGED pushTokens
      /\ strayed' = (strayed \/ Unsettled(phone.session, DOMAIN pushCalls)) /\ strayed' \in BOOLEAN
  BY DEF Logout, PushInv, PushShape, Phones
<1>2. /\ call \in CallRecord /\ call.kind = "remove" /\ call.step = "sent" /\ call.user = phone.session
      /\ call.awaited
  BY <1>1 DEF Call, CallRecord
<1>3. ~strayed' =>
        /\ pushTokens \in {NoUser, phone.session} /\ NoneRegisters
        /\ pushTokens = phone.session => phone.stored
        /\ \A d \in DOMAIN pushCalls : Pending(pushCalls[d]) => pushCalls[d].user # phone.session
        /\ phone.session # NoUser
  <2> SUFFICES ASSUME ~strayed'
               PROVE  /\ pushTokens \in {NoUser, phone.session} /\ NoneRegisters
                      /\ pushTokens = phone.session => phone.stored
                      /\ \A d \in DOMAIN pushCalls : Pending(pushCalls[d]) => pushCalls[d].user # phone.session
                      /\ phone.session # NoUser
    OBVIOUS
  <2>1. InSession /\ phone.session # NoUser
    BY <1>1, PushConstants DEF PushInv, RowFollows
  <2>2. /\ NoneRegisters
        /\ \A d \in DOMAIN pushCalls : Pending(pushCalls[d]) => pushCalls[d].user # phone.session
    BY <1>1 DEF Unsettled, NoneRegisters, RegisterPending
  <2> QED BY <2>1, <2>2 DEF InSession, NoneRegisters
<1>4. \A d \in DOMAIN pushCalls : ~AwaitedRemoval(d)
  BY <1>1 DEF PushInv, CallShape
<1>5. CASE phone.stored /\ pushCalls' = Append(pushCalls, call) /\ phone' = [phone EXCEPT !.logout = "removing"]
  <2>1. /\ pushCalls' \in Seq(CallRecord)
        /\ \A d \in DOMAIN pushCalls' :
             \/ d \in DOMAIN pushCalls /\ pushCalls'[d] = pushCalls[d]
             \/ d = Len(pushCalls) + 1 /\ pushCalls'[d] = call
    BY <1>1, <1>2, <1>5, OneCallMore
  <2>2. /\ phone' \in Phones /\ phone'.logout = "removing" /\ phone'.session = phone.session
        /\ phone'.installed = phone.installed /\ phone'.registered = phone.registered
    BY <1>1, <1>5 DEF Phones
  <2>3. PushShape' /\ PhoneShape'
    BY <1>1, <2>1, <2>2, PushConstants DEF PushInv, PushShape, PhoneShape
  <2> HIDE DEF call
  <2>4. \A d \in DOMAIN pushCalls' : CallShape(d)'
    BY <1>1, <1>2, <1>4, <2>1, <2>2 DEF PushInv, CallShape, AwaitedRemoval
  <2>5. \A d \in DOMAIN pushCalls' : AwaitedRemoval(d)' => d = Len(pushCalls) + 1
    BY <1>4, <2>1 DEF AwaitedRemoval
  <2>6. ~strayed' => LoggingOut'
    <3>1. NoneRegisters => NoneRegisters'
      BY <1>2, <2>1 DEF NoneRegisters, RegisterPending
    <3>2. ASSUME ~strayed', NEW d \in DOMAIN pushCalls'
          PROVE  ~(pushCalls'[d].step = "done" /\ pushCalls'[d].user = phone.session)
      BY <1>2, <1>3, <2>1, <3>2 DEF Pending
    <3> QED BY <1>1, <1>3, <2>2, <3>1, <3>2 DEF LoggingOut
  <2>7. RowFollows'
    BY <1>1, <2>2, <2>6, PushConstants DEF RowFollows
  <2> QED BY <2>3, <2>4, <2>5, <2>7 DEF PushInv
<1>6. CASE ~phone.stored /\ UNCHANGED pushCalls /\ phone' = [phone EXCEPT !.logout = "closing"]
  <2>1. /\ phone' \in Phones /\ phone'.logout = "closing" /\ phone'.session = phone.session
        /\ phone'.installed = phone.installed /\ phone'.registered = phone.registered
    BY <1>1, <1>6 DEF Phones
  <2>2. PushShape' /\ PhoneShape'
    BY <1>1, <1>6, <2>1, PushConstants DEF PushInv, PushShape, PhoneShape
  <2>3. \A d \in DOMAIN pushCalls' : CallShape(d)' /\ ~AwaitedRemoval(d)'
    BY <1>4, <1>6 DEF PushInv, CallShape, AwaitedRemoval
  <2>4. RowFollows'
    BY <1>1, <1>3, <1>6, <2>1 DEF RowFollows, NoneRegisters, RegisterPending
  <2> QED BY <2>2, <2>3, <2>4 DEF PushInv
<1> QED BY <1>5, <1>6 DEF Logout

LEMMA ForgetTokenInv ==
  ASSUME PushInv, NEW c \in DOMAIN pushCalls, ForgetToken(c) PROVE PushInv'
<1> DEFINE call == [pushCalls[c] EXCEPT !.step = "over"]
<1>1. /\ pushCalls[c] \in CallRecord /\ pushCalls[c].kind = "remove" /\ pushCalls[c].step = "done"
      /\ AwaitedRemoval(c) /\ UNCHANGED <<pushTokens, strayed>> /\ phone \in Phones
  BY DEF PushInv, PushShape, ForgetToken, AwaitedRemoval, Pending
<1>2. call \in CallRecord /\ call.step = "over"
  BY <1>1 DEF CallRecord
<1>3. pushCalls' = [pushCalls EXCEPT ![c] = call]
  BY DEF ForgetToken, Ended
<1> HIDE DEF call
<1>4. /\ pushCalls' \in Seq(CallRecord) /\ DOMAIN pushCalls' = DOMAIN pushCalls /\ pushCalls'[c] = call
      /\ \A d \in DOMAIN pushCalls : d # c => pushCalls'[d] = pushCalls[d]
  BY <1>2, <1>3, OneCallChanges DEF PushInv
<1>5. phone.logout = "removing" /\ phone.session # NoUser /\ pushCalls[c].user = phone.session
  BY <1>1 DEF PushInv, CallShape, PhoneShape
<1>6. /\ phone' \in Phones /\ phone'.logout = "closing" /\ phone'.session = phone.session
      /\ phone'.installed = phone.installed /\ phone'.registered = phone.registered
  BY <1>1 DEF ForgetToken, Phones
<1>7. PushShape' /\ PhoneShape'
  BY <1>1, <1>4, <1>5, <1>6 DEF PushInv, PushShape, PhoneShape
<1>8. \A d \in DOMAIN pushCalls' : ~AwaitedRemoval(d)'
  BY <1>1, <1>2, <1>4 DEF PushInv, AwaitedRemoval, Pending
<1>9. \A d \in DOMAIN pushCalls' : CallShape(d)'
  BY <1>2, <1>4, <1>8 DEF PushInv, CallShape
<1>10. RowFollows'
  <2> SUFFICES ASSUME ~strayed PROVE pushTokens = NoUser /\ NoneRegisters'
    BY <1>1, <1>5, <1>6 DEF RowFollows
  <2>1. LoggingOut
    BY <1>5 DEF PushInv, RowFollows
  <2> QED BY <1>1, <1>2, <1>4, <1>5, <2>1 DEF LoggingOut, NoneRegisters, RegisterPending, Pending
<1> QED BY <1>7, <1>8, <1>9, <1>10 DEF PushInv

LEMMA SessionEndsInv == ASSUME PushInv, CloseSession \/ SessionRefused PROVE PushInv'
<1>1. /\ phone \in Phones /\ UNCHANGED <<pushTokens, pushCalls>> /\ phone.session # NoUser
      /\ phone.logout \in {"closing", "no"}
      /\ strayed' = (strayed \/ Unsettled(NoUser, DOMAIN pushCalls)) \/ strayed' = TRUE
  BY DEF PushInv, PushShape, PhoneShape, CloseSession, SessionRefused
<1>2. /\ phone' \in Phones /\ phone'.session = NoUser /\ phone'.logout = "no" /\ ~phone'.registered
      /\ phone'.installed = phone.installed
  BY <1>1 DEF CloseSession, SessionRefused, Phones
<1>3. PushShape' /\ PhoneShape'
  BY <1>1, <1>2 DEF PushInv, PushShape, PhoneShape, CloseSession, SessionRefused
<1>4. \A d \in DOMAIN pushCalls' : CallShape(d)' /\ ~AwaitedRemoval(d)'
  BY <1>1 DEF PushInv, CallShape, AwaitedRemoval
<1>5. RowFollows'
  <2> SUFFICES ASSUME ~strayed' PROVE pushTokens = NoUser /\ NoneRegisters
    BY <1>1, <1>2 DEF RowFollows, NoneRegisters, RegisterPending
  <2>1. phone.logout = "closing" /\ ~strayed
    BY <1>1 DEF CloseSession, SessionRefused
  <2> QED BY <2>1 DEF PushInv, RowFollows
<1> QED BY <1>3, <1>4, <1>5 DEF PushInv

\* The process of the app ends: what it sent goes on, and it waits for nothing.
LEMMA RestartInv == ASSUME PushInv, Restart \/ Uninstall PROVE PushInv'
<1> DEFINE left == [c \in DOMAIN pushCalls |->
                      [pushCalls[c] EXCEPT !.awaited = FALSE, !.step = IF @ = "sent" THEN "sent" ELSE "over"]]
           call == Call("register", NoUser, "asking")
<1>1. pushCalls \in Seq(CallRecord) /\ phone \in Phones /\ UNCHANGED pushTokens /\ strayed' = TRUE
  BY DEF PushInv, PushShape, Restart, Uninstall
<1>2. \A d \in DOMAIN pushCalls :
         LET old == pushCalls[d]
             new == [old EXCEPT !.awaited = FALSE, !.step = IF @ = "sent" THEN "sent" ELSE "over"]
         IN /\ new \in CallRecord /\ ~new.awaited /\ new.step \in {"sent", "over"} /\ new.user = old.user
            /\ new.step = "sent" => old.step = "sent"
  <2> TAKE d \in DOMAIN pushCalls
  <2>1. pushCalls[d] \in CallRecord
    BY <1>1
  <2> QED BY <2>1 DEF CallRecord
<1>3. /\ left \in Seq(CallRecord)
      /\ \A d \in DOMAIN left :
           /\ ~left[d].awaited /\ left[d].step # "asking"
           /\ left[d].step \in {"sent", "done"} => left[d].user \in Users
  <2>1. \A d \in DOMAIN pushCalls : pushCalls[d].step = "sent" => pushCalls[d].user \in Users
    BY DEF PushInv, CallShape
  <2>2. left \in Seq(CallRecord)
    <3>1. \A d \in DOMAIN pushCalls : left[d] \in CallRecord
      BY <1>2
    <3>2. DOMAIN pushCalls = 1..Len(pushCalls) /\ Len(pushCalls) \in Nat /\ DOMAIN left = DOMAIN pushCalls
      BY <1>1
    <3>3. left \in [DOMAIN pushCalls -> CallRecord]
      BY <3>1
    <3> HIDE DEF left
    <3> QED BY <3>2, <3>3
  <2> QED BY <1>2, <2>1, <2>2
<1>4. call \in CallRecord /\ call.step = "asking" /\ call.kind = "register"
  BY DEF Call, CallRecord
<1>5. \/ pushCalls' = left
      \/ pushCalls' = Append(left, call)
  BY DEF Restart, Uninstall
<1> HIDE DEF left, call
<1>6. /\ pushCalls' \in Seq(CallRecord)
      /\ \A d \in DOMAIN pushCalls' :
           \/ d \in DOMAIN left /\ pushCalls'[d] = left[d]
           \/ pushCalls'[d] = call
  BY <1>3, <1>4, <1>5, OneCallMore
<1>7. \A d \in DOMAIN pushCalls' : CallShape(d)' /\ ~AwaitedRemoval(d)'
  BY <1>3, <1>4, <1>6 DEF CallShape, AwaitedRemoval
<1>8. phone' \in Phones /\ PhoneShape'
  <2>1. CASE Uninstall
    BY <1>1, <2>1 DEF Uninstall, Phones, PhoneShape
  <2>2. CASE Restart
    <3>1. CASE phone' = phone
      BY <1>1, <3>1 DEF PushInv, PhoneShape
    <3>2. CASE phone' = [phone EXCEPT !.logout = "no", !.registered = FALSE] /\ phone.installed
      BY <1>1, <3>2 DEF Phones, PhoneShape
    <3> QED BY <2>2, <3>1, <3>2 DEF Restart
  <2> QED BY <2>1, <2>2
<1> QED BY <1>1, <1>6, <1>7, <1>8 DEF PushInv, PushShape, RowFollows

LEMMA ServeInv == ASSUME PushInv, NEW c \in DOMAIN pushCalls, Serve(c) PROVE PushInv'
<1> DEFINE step == IF pushCalls[c].awaited THEN "done" ELSE "over"
           call == [pushCalls[c] EXCEPT !.step = step]
<1>1. /\ pushCalls[c] \in CallRecord /\ pushCalls[c].step = "sent" /\ pushCalls[c].user \in Users
      /\ UNCHANGED phone /\ phone \in Phones /\ strayed \in BOOLEAN /\ pushTokens \in Users \cup {NoUser}
  BY DEF PushInv, PushShape, CallShape, Serve
<1>2. /\ call \in CallRecord /\ call.kind = pushCalls[c].kind /\ call.awaited = pushCalls[c].awaited
      /\ call.step = step /\ step \in {"done", "over"} /\ call.user = pushCalls[c].user
  BY <1>1 DEF CallRecord
<1>3. pushCalls' = [pushCalls EXCEPT ![c] = call]
  BY DEF Serve
<1> HIDE DEF call
<1>4. /\ pushCalls' \in Seq(CallRecord) /\ DOMAIN pushCalls' = DOMAIN pushCalls /\ pushCalls'[c] = call
      /\ \A d \in DOMAIN pushCalls : d # c => pushCalls'[d] = pushCalls[d]
  BY <1>2, <1>3, OneCallChanges DEF PushInv
<1>5. pushTokens' = IF pushCalls[c].kind = "register" THEN pushCalls[c].user ELSE removed(pushCalls[c].user)
  BY DEF Serve
<1>6. strayed' \in BOOLEAN
  BY <1>1 DEF Serve, Unsettled
<1>7. PushShape' /\ PhoneShape'
  BY <1>1, <1>4, <1>5, <1>6 DEF PushInv, PushShape, PhoneShape, removed
<1>8. \A d \in DOMAIN pushCalls' : AwaitedRemoval(d)' => AwaitedRemoval(d)
  BY <1>1, <1>2, <1>4 DEF AwaitedRemoval, Pending
<1>9. \A d \in DOMAIN pushCalls' : CallShape(d)'
  BY <1>1, <1>2, <1>4, <1>8 DEF PushInv, CallShape
<1>10. CASE /\ pushCalls[c].kind = "register" /\ pushCalls[c].awaited
            /\ pushCalls[c].user = phone.session /\ phone.logout = "no"
  <2> SUFFICES ASSUME ~strayed' PROVE InSession'
    BY <1>1, <1>7, <1>9, <1>8, <1>4, <1>10, PushConstants DEF PushInv, RowFollows
  <2>1. ~Unsettled(phone.session, DOMAIN pushCalls \ {c})
    BY <1>10 DEF Serve
  <2>2. \A d \in DOMAIN pushCalls : d # c =>
          ~RegisterPending(d) /\ (Pending(pushCalls[d]) => pushCalls[d].user # phone.session)
    BY <2>1 DEF Unsettled, RegisterPending
  <2>3. pushTokens' = phone.session /\ call.step = "done" /\ call.kind = "register"
    BY <1>2, <1>5, <1>10
  <2>4. RegisterPending(c)'
    BY <1>4, <2>3 DEF RegisterPending, Pending
  <2>5. \A d \in DOMAIN pushCalls' :
          /\ RegisterPending(d)' => pushCalls'[d].awaited /\ pushCalls'[d].user = phone.session
          /\ pushCalls'[d].kind = "remove" /\ Pending(pushCalls'[d]) => pushCalls'[d].user # phone.session
    BY <1>2, <1>4, <1>10, <2>2, <2>3 DEF RegisterPending
  <2> QED BY <1>1, <1>4, <2>3, <2>4, <2>5 DEF InSession
<1>11. CASE ~(/\ pushCalls[c].kind = "register" /\ pushCalls[c].awaited
              /\ pushCalls[c].user = phone.session /\ phone.logout = "no")
  <2> SUFFICES ASSUME ~strayed PROVE RowFollows'
    <3>1. strayed' = strayed
      BY <1>11 DEF Serve
    <3> QED BY <1>4, <1>7, <1>8, <1>9, <3>1 DEF PushInv, RowFollows
  <2>1. ~RegisterPending(c)
    BY <1>1, <1>11 DEF PushInv, RowFollows, NoneRegisters, LoggingOut, InSession, RegisterPending, Pending, Phones
  <2>2. pushCalls[c].kind = "remove" /\ pushTokens' = removed(pushCalls[c].user)
    BY <1>1, <1>5, <2>1 DEF RegisterPending, Pending, CallRecord
  <2>3. \A d \in DOMAIN pushCalls' : RegisterPending(d)' <=> RegisterPending(d) /\ d # c
    BY <1>2, <1>4, <2>2, <2>1 DEF RegisterPending
  <2>4. NoneRegisters => NoneRegisters'
    BY <1>4, <2>3 DEF NoneRegisters
  <2>5. pushTokens = NoUser => pushTokens' = NoUser
    BY <2>2 DEF removed
  <2>6. CASE phone.session # NoUser /\ phone.logout = "no"
    <3>1. InSession /\ pushCalls[c].user # phone.session
      BY <1>1, <2>2, <2>6 DEF PushInv, RowFollows, InSession, Pending
    <3>2. pushTokens' = pushTokens
      BY <1>1, <2>2, <3>1, PushConstants DEF InSession, removed
    <3>3. \A d \in DOMAIN pushCalls' :
            pushCalls'[d].kind = "remove" /\ Pending(pushCalls'[d]) => pushCalls'[d].user # phone.session
      BY <1>2, <1>4, <3>1 DEF InSession, Pending
    <3>4. InSession'
      BY <1>1, <1>4, <2>3, <3>1, <3>2, <3>3 DEF InSession
    <3> QED BY <1>1, <2>6, <3>4 DEF RowFollows
  <2>7. CASE phone.session = NoUser \/ phone.logout = "closing"
    BY <1>1, <2>4, <2>5, <2>7 DEF PushInv, RowFollows, PhoneShape
  <2>8. CASE phone.logout = "removing"
    <3>1. LoggingOut
      BY <2>8 DEF PushInv, RowFollows
    <3>2. ASSUME NEW d \in DOMAIN pushCalls', pushCalls'[d].kind = "remove", pushCalls'[d].step = "done",
                 pushCalls'[d].user = phone.session
          PROVE  pushTokens' = NoUser
      <4>1. CASE d = c
        BY <1>2, <1>4, <2>2, <3>1, <3>2, <4>1 DEF LoggingOut, removed
      <4>2. CASE d # c
        BY <1>4, <2>5, <3>1, <3>2, <4>2 DEF LoggingOut
      <4> QED BY <4>1, <4>2
    <3>3. LoggingOut'
      BY <1>1, <1>4, <2>2, <2>4, <3>1, <3>2 DEF LoggingOut, removed
    <3> QED BY <1>1, <1>7, <2>8, <3>3 DEF RowFollows, PhoneShape
  <2> QED BY <1>1, <2>6, <2>7, <2>8 DEF Phones
<1> QED BY <1>10, <1>11

LEMMA PushInvStep == PushInv /\ [PushNext]_pushVars => PushInv'
<1> SUFFICES ASSUME PushInv, [PushNext]_pushVars PROVE PushInv'
  OBVIOUS
<1>1. CASE UNCHANGED pushVars
  <2>1. UNCHANGED <<pushTokens, phone, pushCalls, strayed>>
    BY <1>1 DEF pushVars
  <2>2. NoneRegisters' = NoneRegisters /\ InSession' = InSession /\ LoggingOut' = LoggingOut
    BY <2>1 DEF NoneRegisters, InSession, LoggingOut, RegisterPending
  <2> QED BY <2>1, <2>2
          DEF PushInv, PushShape, PhoneShape, CallShape, AwaitedRemoval, RowFollows
<1>2. CASE PushNext
  BY <1>2, SignInInv, NotifyOwnerInv, AskedInv, RememberTokenInv, LoseAnswerInv, ForgetTokenInv, ServeInv,
     LogoutInv, SessionEndsInv, RestartInv DEF PushNext
<1> QED BY <1>1, <1>2

\* The row of a phone's push token follows the phone's session, for any users
\* and any requests between the app and the API (use-push-notifications.ts,
\* push-tokens.service.ts), unless one of the named events left it behind.
THEOREM PushTokenFollowsTheSession == PushSpec => []PushFollowsSession
<1>1. PushInv => PushFollowsSession
  BY DEF PushInv, PhoneShape, RowFollows, InSession, PushFollowsSession
<1> QED BY <1>1, PushInitInv, PushInvStep, PTL DEF PushSpec

-----------------------------------------------------------------------------
(* Webhooks.  The inductive invariant.                                        *)

LEMMA BackoffAdds ==
  Backoff[0] = 0 /\ \A n \in Nat \ {0} : Backoff[n] = Backoff[n - 1] + RetryDelay(n)
<1> DEFINE term == [n \in Nat |-> RetryDelay(n)]
<1>1. PICK sum : sum = [n \in Nat |-> IF n = 0 THEN 0 ELSE sum[n - 1] + term[n]]
  BY SumsExist
<1>2. sum = [n \in Nat |-> IF n = 0 THEN 0 ELSE sum[n - 1] + RetryDelay(n)]
  <2>1. \A n \in Nat : (IF n = 0 THEN 0 ELSE sum[n - 1] + term[n])
                         = IF n = 0 THEN 0 ELSE sum[n - 1] + RetryDelay(n)
    OBVIOUS
  <2> HIDE DEF term
  <2> QED BY <1>1, <2>1
<1>3. Backoff = [n \in Nat |-> IF n = 0 THEN 0 ELSE Backoff[n - 1] + RetryDelay(n)]
  BY <1>2, Zenon DEF Backoff
<1> QED BY <1>3

\* How far an endpoint's delivery is, and how long it has waited.
DeliveryShape(delivery) ==
  /\ DOMAIN delivery = {"step", "attempt", "wait", "waited"}
  /\ delivery.step \in {"calling", "waiting", "delivered", "exhausted", "lost"}
  /\ delivery.attempt \in 1..MaxAttempts
  /\ delivery.waited = Backoff[delivery.attempt - 1]
  /\ delivery.step = "waiting" =>
       delivery.attempt < MaxAttempts /\ delivery.wait = RetryDelay(delivery.attempt)
  /\ delivery.step = "exhausted" => delivery.attempt = MaxAttempts

\* What an endpoint can have received: no call of this attempt was answered yet.
Received(delivery, times) ==
  /\ times <= IF delivery.step = "calling" THEN delivery.attempt - 1 ELSE delivery.attempt
  /\ delivery.step = "delivered" => times > 0

DispatchShape(dispatch) ==
  /\ DOMAIN dispatch = {"step", "clients", "deliveries"}
  /\ dispatch.step \in {"new", "reading", "delivering", "over", "failed"}
  /\ dispatch.step \in {"new", "reading"} => DOMAIN dispatch.deliveries = {}
  /\ DOMAIN dispatch.deliveries \subseteq Endpoints
  /\ \A p \in DOMAIN dispatch.deliveries :
       /\ EndpointOwner[p] \in dispatch.clients
       /\ DeliveryShape(dispatch.deliveries[p])
       /\ dispatch.deliveries[p].step = "lost" => dispatch.step = "failed"
       /\ dispatch.step = "over" => dispatch.deliveries[p].step \in {"delivered", "exhausted"}

InboxFits(e) ==
  \A p \in Endpoints :
    /\ p \in DOMAIN dispatches[e].deliveries => Received(dispatches[e].deliveries[p], inbox[<<p, e>>])
    /\ inbox[<<p, e>>] > 0 => p \in DOMAIN dispatches[e].deliveries

WebhooksInv ==
  /\ active \subseteq Endpoints
  /\ DOMAIN dispatches = Events /\ \A e \in Events : DispatchShape(dispatches[e])
  /\ inbox \in [Endpoints \X Events -> Nat] /\ \A e \in Events : InboxFits(e)

LEMMA WebhooksInitInv == WebhooksInit => WebhooksInv
BY DEF WebhooksInit, WebhooksInv, DispatchShape, InboxFits

\* A step of one dispatch leaves the others alone.
LEMMA OneDispatch ==
  ASSUME WebhooksInv, active' \subseteq Endpoints, NEW e \in Events, NEW dispatch,
         dispatches' = [dispatches EXCEPT ![e] = dispatch], DispatchShape(dispatch),
         inbox' \in [Endpoints \X Events -> Nat],
         \A p \in Endpoints, f \in Events : f # e => inbox'[<<p, f>>] = inbox[<<p, f>>],
         \A p \in Endpoints :
           /\ p \in DOMAIN dispatch.deliveries => Received(dispatch.deliveries[p], inbox'[<<p, e>>])
           /\ inbox'[<<p, e>>] > 0 => p \in DOMAIN dispatch.deliveries
  PROVE  WebhooksInv'
<1>1. DOMAIN dispatches' = Events /\ dispatches'[e] = dispatch
      /\ \A f \in Events : f # e => dispatches'[f] = dispatches[f]
  BY DEF WebhooksInv
<1>2. \A f \in Events : DispatchShape(dispatches'[f])
  BY <1>1 DEF WebhooksInv
<1>3. ASSUME NEW f \in Events PROVE InboxFits(f)'
  <2>1. CASE f = e
    BY <1>1, <2>1 DEF InboxFits, Received
  <2>2. CASE f # e
    BY <1>1, <2>2 DEF WebhooksInv, InboxFits, Received
  <2> QED BY <2>1, <2>2
<1>4. \A f \in Events : DispatchShape(dispatches[f])'
  BY <1>2 DEF DispatchShape, DeliveryShape
<1> QED BY <1>1, <1>3, <1>4 DEF WebhooksInv

LEMMA DispatchStepsInv ==
  ASSUME WebhooksInv, NEW e \in Events,
         ReadGrants(e) \/ ReadEndpoints(e) \/ DispatchFails(e) \/ DispatchEnds(e)
  PROVE  WebhooksInv'
<1>1. PICK dispatch : dispatch = dispatches[e]
  OBVIOUS
<1>2. DispatchShape(dispatch) /\ InboxFits(e) /\ DOMAIN dispatches = Events /\ active \subseteq Endpoints
  BY <1>1 DEF WebhooksInv
<1>3. UNCHANGED <<active, inbox>>
  BY DEF ReadGrants, ReadEndpoints, DispatchFails, DispatchEnds
<1>4. ASSUME NEW new, dispatches' = [dispatches EXCEPT ![e] = new], DispatchShape(new),
             \/ DOMAIN new.deliveries = {} /\ DOMAIN dispatch.deliveries = {}
             \/ new.deliveries = dispatch.deliveries
      PROVE  WebhooksInv'
  <2>1. \A p \in Endpoints :
          /\ p \in DOMAIN new.deliveries => Received(new.deliveries[p], inbox'[<<p, e>>])
          /\ inbox'[<<p, e>>] > 0 => p \in DOMAIN new.deliveries
    BY <1>1, <1>2, <1>3, <1>4 DEF InboxFits
  <2>2. inbox' \in [Endpoints \X Events -> Nat] /\ active' \subseteq Endpoints
    BY <1>2, <1>3 DEF WebhooksInv
  <2> QED BY <1>3, <1>4, <2>1, <2>2, OneDispatch
<1>5. CASE ReadGrants(e) \/ DispatchFails(e)
  <2> DEFINE read == [dispatch EXCEPT !.clients = grants, !.step = IF grants = {} THEN "over" ELSE "reading"]
             failed == [dispatch EXCEPT !.step = "failed"]
  <2>1. DOMAIN dispatch.deliveries = {}
    BY <1>1, <1>2, <1>5 DEF DispatchShape, ReadGrants, DispatchFails
  <2>2. \/ dispatches' = [dispatches EXCEPT ![e] = read]
        \/ dispatches' = [dispatches EXCEPT ![e] = failed]
    BY <1>1, <1>2, <1>5 DEF ReadGrants, DispatchFails
  <2>3. /\ DispatchShape(read) /\ DOMAIN read.deliveries = {}
        /\ DispatchShape(failed) /\ DOMAIN failed.deliveries = {}
    BY <1>2, <2>1 DEF DispatchShape
  <2> HIDE DEF read, failed
  <2> QED BY <1>4, <2>1, <2>2, <2>3
<1>6. CASE ReadEndpoints(e)
  <2> DEFINE targets == {p \in active : EndpointOwner[p] \in dispatch.clients}
             started == [p \in targets |-> Delivery]
             new == [dispatch EXCEPT !.step = "delivering", !.deliveries = started]
  <2>1. dispatches' = [dispatches EXCEPT ![e] = new]
    BY <1>1, <1>2, <1>6 DEF ReadEndpoints
  <2>2. DeliveryShape(Delivery) /\ Delivery.step = "calling" /\ Delivery.attempt = 1
    BY BackoffAdds, WebhookConstants DEF DeliveryShape, Delivery
  <2>3. DOMAIN new = {"step", "clients", "deliveries"} /\ new.step = "delivering"
        /\ new.clients = dispatch.clients /\ new.deliveries = started
    BY <1>2 DEF DispatchShape
  <2>4. DOMAIN started = targets /\ \A p \in targets : started[p] = Delivery
    OBVIOUS
  <2>5. targets \subseteq Endpoints /\ \A p \in targets : EndpointOwner[p] \in dispatch.clients
    BY <1>2
  <2> HIDE DEF targets, started, new
  <2>6. DispatchShape(new)
    BY <2>2, <2>3, <2>4, <2>5 DEF DispatchShape
  <2>7. \A p \in Endpoints : inbox[<<p, e>>] = 0
    <3>1. \A p \in Endpoints : inbox[<<p, e>>] \in Nat /\ ~(inbox[<<p, e>>] > 0)
      BY <1>1, <1>2, <1>6 DEF WebhooksInv, InboxFits, DispatchShape, ReadEndpoints
    <3> QED BY <3>1
  <2>8. \A p \in Endpoints :
          /\ p \in DOMAIN new.deliveries => Received(new.deliveries[p], inbox'[<<p, e>>])
          /\ inbox'[<<p, e>>] > 0 => p \in DOMAIN new.deliveries
    BY <1>3, <2>2, <2>3, <2>4, <2>7 DEF Received
  <2>9. inbox' \in [Endpoints \X Events -> Nat] /\ active' \subseteq Endpoints
    BY <1>2, <1>3 DEF WebhooksInv
  <2> QED BY <1>3, <2>1, <2>6, <2>8, <2>9, OneDispatch
<1>7. CASE DispatchEnds(e)
  <2> DEFINE new == [dispatch EXCEPT !.step = "over"]
  <2>1. dispatches' = [dispatches EXCEPT ![e] = new]
    BY <1>1, <1>2, <1>7 DEF DispatchEnds
  <2>2. dispatch.step = "delivering" /\ \A p \in DOMAIN dispatch.deliveries : Settled(dispatch.deliveries[p])
    BY <1>1, <1>7 DEF DispatchEnds
  <2>3. new.deliveries = dispatch.deliveries /\ new.clients = dispatch.clients /\ new.step = "over"
        /\ DOMAIN new = {"step", "clients", "deliveries"}
    BY <1>2 DEF DispatchShape
  <2> HIDE DEF new
  <2>4. DispatchShape(new)
    BY <1>2, <2>2, <2>3 DEF DispatchShape, Settled
  <2> QED BY <1>4, <2>1, <2>3, <2>4
<1> QED BY <1>5, <1>6, <1>7

LEMMA DeliveryStepsInv ==
  ASSUME WebhooksInv, NEW e \in Events, NEW p \in DOMAIN dispatches[e].deliveries,
         Attempt(e, p) \/ RetryAfterDelay(e, p)
  PROVE  WebhooksInv'
<1>1. PICK dispatch, delivery : dispatch = dispatches[e] /\ delivery = dispatch.deliveries[p]
  OBVIOUS
<1>2. /\ DispatchShape(dispatch) /\ InboxFits(e) /\ DOMAIN dispatches = Events /\ active \subseteq Endpoints
      /\ inbox \in [Endpoints \X Events -> Nat] /\ p \in DOMAIN dispatch.deliveries /\ p \in Endpoints
  BY <1>1 DEF WebhooksInv, DispatchShape
<1>3. DeliveryShape(delivery) /\ Received(delivery, inbox[<<p, e>>]) /\ inbox[<<p, e>>] \in Nat
      /\ delivery.attempt \in 1..MaxAttempts
  BY <1>1, <1>2 DEF DispatchShape, InboxFits, DeliveryShape
<1>4. UNCHANGED active
  BY DEF Attempt, RetryAfterDelay
<1>5. ASSUME NEW new, NEW got \in {0, 1},
             dispatches' = [dispatches EXCEPT ![e].deliveries[p] = new],
             inbox' = [inbox EXCEPT ![<<p, e>>] = @ + got],
             DeliveryShape(new), Received(new, inbox[<<p, e>>] + got), new.step # "lost",
             dispatch.step # "over"
      PROVE  WebhooksInv'
  <2> DEFINE deliveries == [dispatch.deliveries EXCEPT ![p] = new]
             changed == [dispatch EXCEPT !.deliveries = deliveries]
  <2>1. dispatches' = [dispatches EXCEPT ![e] = changed]
    BY <1>1, <1>2, <1>5
  <2>2. DOMAIN deliveries = DOMAIN dispatch.deliveries /\ deliveries[p] = new
        /\ \A q \in DOMAIN dispatch.deliveries : q # p => deliveries[q] = dispatch.deliveries[q]
    BY <1>2
  <2>3. changed.deliveries = deliveries /\ changed.clients = dispatch.clients /\ changed.step = dispatch.step
        /\ DOMAIN changed = {"step", "clients", "deliveries"}
    BY <1>2 DEF DispatchShape
  <2> HIDE DEF deliveries, changed
  <2>4. DispatchShape(changed)
    BY <1>2, <1>5, <2>2, <2>3 DEF DispatchShape
  <2>5. /\ inbox' \in [Endpoints \X Events -> Nat] /\ inbox'[<<p, e>>] = inbox[<<p, e>>] + got
        /\ \A q \in Endpoints, f \in Events : q # p \/ f # e => inbox'[<<q, f>>] = inbox[<<q, f>>]
    BY <1>2, <1>3, <1>5
  <2>6. ASSUME NEW q \in Endpoints
        PROVE  /\ q \in DOMAIN changed.deliveries => Received(changed.deliveries[q], inbox'[<<q, e>>])
               /\ inbox'[<<q, e>>] > 0 => q \in DOMAIN changed.deliveries
    <3>1. CASE q = p
      BY <1>2, <1>5, <2>2, <2>3, <2>5, <3>1
    <3>2. CASE q # p
      BY <1>1, <1>2, <2>2, <2>3, <2>5, <3>2 DEF InboxFits
    <3> QED BY <3>1, <3>2
  <2>7. \A q \in Endpoints, f \in Events : f # e => inbox'[<<q, f>>] = inbox[<<q, f>>]
    BY <2>5
  <2>8. inbox' \in [Endpoints \X Events -> Nat] /\ active' \subseteq Endpoints
    BY <1>2, <1>4, <2>5
  <2> QED BY <2>1, <2>4, <2>6, <2>7, <2>8, OneDispatch
<1>6. CASE Attempt(e, p)
  <2> DEFINE delivered == [delivery EXCEPT !.step = "delivered"]
             waiting == [delivery EXCEPT !.step = "waiting", !.wait = RetryDelay(delivery.attempt)]
             exhausted == [delivery EXCEPT !.step = "exhausted"]
  <2>1. delivery.step = "calling" /\ dispatch.step # "over"
    BY <1>1, <1>2, <1>6 DEF Attempt, DispatchShape
  <2>2. inbox[<<p, e>>] <= delivery.attempt - 1
    BY <1>3, <2>1 DEF Received
  <2>3. DeliveryShape(delivered) /\ delivered.step = "delivered" /\ delivered.attempt = delivery.attempt
    BY <1>3 DEF DeliveryShape
  <2>4. delivery.attempt < MaxAttempts => DeliveryShape(waiting)
    BY <1>3 DEF DeliveryShape
  <2>5. waiting.step = "waiting" /\ waiting.attempt = delivery.attempt
    BY <1>3 DEF DeliveryShape
  <2>6. /\ ~(delivery.attempt < MaxAttempts) => DeliveryShape(exhausted)
        /\ exhausted.step = "exhausted" /\ exhausted.attempt = delivery.attempt
    BY <1>3, WebhookConstants DEF DeliveryShape
  <2>7. \A got \in {0, 1} : inbox[<<p, e>>] + got <= delivery.attempt /\ inbox[<<p, e>>] + 1 > 0
    BY <1>3, <2>2
  <2>8. CASE /\ dispatches' = [dispatches EXCEPT ![e].deliveries[p].step = "delivered"]
             /\ inbox' = [inbox EXCEPT ![<<p, e>>] = @ + 1]
    <3>1. dispatches' = [dispatches EXCEPT ![e].deliveries[p] = delivered]
      BY <1>1, <1>2, <2>8
    <3> HIDE DEF delivered
    <3>2. Received(delivered, inbox[<<p, e>>] + 1)
      BY <2>3, <2>7 DEF Received
    <3> QED BY <1>5, <2>1, <2>3, <2>8, <3>1, <3>2
  <2>9. ASSUME NEW got \in {0, 1},
               dispatches' = [dispatches EXCEPT ![e].deliveries[p] = afterFailure(@)],
               inbox' = [inbox EXCEPT ![<<p, e>>] = @ + got]
        PROVE  WebhooksInv'
    <3>1. dispatches' = [dispatches EXCEPT ![e].deliveries[p] = afterFailure(delivery)]
      BY <1>1, <1>2, <2>9
    <3>2. afterFailure(delivery) = IF delivery.attempt < MaxAttempts THEN waiting ELSE exhausted
      BY DEF afterFailure
    <3> HIDE DEF waiting, exhausted
    <3>3. Received(waiting, inbox[<<p, e>>] + got) /\ Received(exhausted, inbox[<<p, e>>] + got)
      BY <2>5, <2>6, <2>7 DEF Received
    <3>4. /\ DeliveryShape(afterFailure(delivery)) /\ afterFailure(delivery).step # "lost"
          /\ Received(afterFailure(delivery), inbox[<<p, e>>] + got)
      BY <2>4, <2>5, <2>6, <3>2, <3>3
    <3> QED BY <1>5, <2>1, <2>9, <3>1, <3>4
  <2> QED BY <1>6, <2>8, <2>9 DEF Attempt
<1>7. CASE RetryAfterDelay(e, p)
  <2> DEFINE new == [delivery EXCEPT !.step = "calling", !.attempt = @ + 1, !.waited = @ + delivery.wait]
  <2>1. delivery.step = "waiting" /\ dispatch.step # "over" /\ UNCHANGED inbox
    BY <1>1, <1>2, <1>7 DEF RetryAfterDelay, DispatchShape
  <2>2. dispatches' = [dispatches EXCEPT ![e].deliveries[p] = new]
    BY <1>1, <1>2, <1>7 DEF RetryAfterDelay
  <2>3. /\ DOMAIN new = {"step", "attempt", "wait", "waited"} /\ new.step = "calling"
        /\ new.attempt = delivery.attempt + 1 /\ new.waited = delivery.waited + delivery.wait
    BY <1>3 DEF DeliveryShape
  <2> HIDE DEF new
  <2>4. Backoff[delivery.attempt] = Backoff[delivery.attempt - 1] + RetryDelay(delivery.attempt)
    BY <1>3, WebhookConstants, BackoffAdds
  <2>5. new.attempt - 1 = delivery.attempt /\ new.attempt \in 1..MaxAttempts
    BY <1>3, <2>1, <2>3, WebhookConstants DEF DeliveryShape
  <2>6. DeliveryShape(new)
    BY <1>3, <2>1, <2>3, <2>4, <2>5 DEF DeliveryShape
  <2>7. Received(new, inbox[<<p, e>>] + 0)
    BY <1>3, <2>1, <2>3, <2>5 DEF Received
  <2>8. inbox' = [inbox EXCEPT ![<<p, e>>] = @ + 0]
    BY <1>2, <1>3, <2>1
  <2> QED BY <1>5, <2>1, <2>2, <2>3, <2>6, <2>7, <2>8
<1> QED BY <1>6, <1>7

LEMMA WebhookRestartInv == ASSUME WebhooksInv, WebhookRestart PROVE WebhooksInv'
<1> DEFINE Kept2(d) == [p \in DOMAIN d |-> IF Settled(d[p]) THEN d[p] ELSE [d[p] EXCEPT !.step = "lost"]]
<1>1. UNCHANGED <<active, inbox>> /\ DOMAIN dispatches' = Events
  BY DEF WebhookRestart
<1>2. ASSUME NEW e \in Events
      PROVE  /\ DispatchShape(dispatches'[e])
             /\ DOMAIN dispatches'[e].deliveries = DOMAIN dispatches[e].deliveries
             /\ \A p \in DOMAIN dispatches[e].deliveries :
                  \/ dispatches'[e].deliveries[p] = dispatches[e].deliveries[p]
                  \/ /\ dispatches'[e].deliveries[p].step = "lost"
                     /\ dispatches'[e].deliveries[p].attempt = dispatches[e].deliveries[p].attempt
  <2>1. PICK dispatch : dispatch = dispatches[e]
    OBVIOUS
  <2>2. DispatchShape(dispatch)
    BY <2>1 DEF WebhooksInv
  <2>3. CASE dispatch.step \notin {"reading", "delivering"}
    BY <2>1, <2>2, <2>3 DEF WebhookRestart
  <2>4. CASE dispatch.step \in {"reading", "delivering"}
    <3> DEFINE left == Kept2(dispatch.deliveries)
               new == [dispatch EXCEPT !.step = "failed", !.deliveries = left]
    <3>1. dispatches'[e] = new
      BY <2>1, <2>4 DEF WebhookRestart
    <3>2. ASSUME NEW p \in DOMAIN dispatch.deliveries
          PROVE  /\ DeliveryShape(left[p])
                 /\ \/ left[p] = dispatch.deliveries[p]
                    \/ left[p].step = "lost" /\ left[p].attempt = dispatch.deliveries[p].attempt
      <4>1. DeliveryShape(dispatch.deliveries[p])
        BY <2>2 DEF DispatchShape
      <4>2. left[p] = dispatch.deliveries[p] \/ left[p] = [dispatch.deliveries[p] EXCEPT !.step = "lost"]
        OBVIOUS
      <4>3. left[p] = [dispatch.deliveries[p] EXCEPT !.step = "lost"] =>
              DeliveryShape(left[p]) /\ left[p].step = "lost" /\ left[p].attempt = dispatch.deliveries[p].attempt
        <5> HIDE DEF left
        <5> QED BY <4>1 DEF DeliveryShape
      <4> HIDE DEF left
      <4> QED BY <4>1, <4>2, <4>3
    <3>3. DOMAIN left = DOMAIN dispatch.deliveries
      OBVIOUS
    <3> HIDE DEF left
    <3>4. new.deliveries = left /\ new.clients = dispatch.clients /\ new.step = "failed"
          /\ DOMAIN new = {"step", "clients", "deliveries"}
      BY <2>2 DEF DispatchShape
    <3> HIDE DEF new
    <3>5. DispatchShape(new)
      BY <2>2, <3>2, <3>3, <3>4 DEF DispatchShape
    <3> QED BY <2>1, <3>1, <3>2, <3>3, <3>4, <3>5
  <2> QED BY <2>3, <2>4
<1>3. ASSUME NEW e \in Events PROVE InboxFits(e)'
  <2>1. InboxFits(e) /\ DispatchShape(dispatches[e]) /\ \A p \in Endpoints : inbox[<<p, e>>] \in Nat
    BY DEF WebhooksInv
  <2>2. ASSUME NEW p \in Endpoints, p \in DOMAIN dispatches[e].deliveries
        PROVE  Received(dispatches'[e].deliveries[p], inbox[<<p, e>>])
    <3>1. Received(dispatches[e].deliveries[p], inbox[<<p, e>>])
          /\ dispatches[e].deliveries[p].attempt \in 1..MaxAttempts
      BY <2>1, <2>2 DEF InboxFits, DispatchShape, DeliveryShape
    <3>2. \A n \in 1..MaxAttempts : inbox[<<p, e>>] <= n - 1 => inbox[<<p, e>>] <= n
      BY <2>1, WebhookConstants
    <3> QED BY <1>2, <2>2, <3>1, <3>2 DEF Received
  <2> QED BY <1>1, <1>2, <2>1, <2>2 DEF InboxFits, Received
<1>4. \A e \in Events : DispatchShape(dispatches[e])'
  BY <1>2 DEF DispatchShape, DeliveryShape
<1> QED BY <1>1, <1>3, <1>4 DEF WebhooksInv

LEMMA WebhooksInvStep == WebhooksInv /\ [WebhooksNext]_webhookVars => WebhooksInv'
<1> SUFFICES ASSUME WebhooksInv, [WebhooksNext]_webhookVars PROVE WebhooksInv'
  OBVIOUS
<1>1. ASSUME active' \subseteq Endpoints, UNCHANGED <<dispatches, inbox>> PROVE WebhooksInv'
  BY <1>1 DEF WebhooksInv, DispatchShape, DeliveryShape, InboxFits, Received
<1>2. CASE UNCHANGED webhookVars \/ CreateApiClient \/ RegisterWebhook
  BY <1>1, <1>2 DEF WebhooksInv, webhookVars, CreateApiClient, RegisterWebhook
<1>3. CASE WebhookRestart
  BY <1>3, WebhookRestartInv
<1>4. ASSUME NEW e \in Events,
             \/ ReadGrants(e) \/ ReadEndpoints(e) \/ DispatchFails(e) \/ DispatchEnds(e)
             \/ \E p \in DOMAIN dispatches[e].deliveries : Attempt(e, p) \/ RetryAfterDelay(e, p)
      PROVE  WebhooksInv'
  BY <1>4, DispatchStepsInv, DeliveryStepsInv
<1> QED BY <1>2, <1>3, <1>4 DEF WebhooksNext

\* What an endpoint receives of an event, and how a delivery ends
\* (webhook.service.ts, dispatch and deliver), for any clients, endpoints and
\* events and any number of attempts.
THEOREM DeliveriesEndAsPromised == WebhooksSpec => []DeliveriesHold
<1>1. WebhooksInv => DeliveriesHold
  <2> SUFFICES ASSUME WebhooksInv, NEW e \in Events
               PROVE  LET dispatch == dispatches[e]
                      IN /\ \A p \in Endpoints : inbox[<<p, e>>] > 0 =>
                              /\ p \in DOMAIN dispatch.deliveries
                              /\ EndpointOwner[p] \in dispatch.clients
                              /\ inbox[<<p, e>>] <= dispatch.deliveries[p].attempt
                         /\ \A p \in DOMAIN dispatch.deliveries :
                              LET delivery == dispatch.deliveries[p]
                              IN /\ delivery.step = "delivered" => inbox[<<p, e>>] > 0
                                 /\ delivery.step = "lost" => dispatch.step = "failed"
                                 /\ delivery.step = "exhausted" =>
                                      /\ delivery.attempt = MaxAttempts
                                      /\ delivery.waited = Backoff[MaxAttempts - 1]
                                 /\ dispatch.step = "over" => delivery.step \in {"delivered", "exhausted"}
    BY DEF DeliveriesHold
  <2>1. PICK dispatch : dispatch = dispatches[e]
    OBVIOUS
  <2>2. DispatchShape(dispatch) /\ InboxFits(e) /\ \A p \in Endpoints : inbox[<<p, e>>] \in Nat
    BY <2>1 DEF WebhooksInv
  <2>3. ASSUME NEW p \in Endpoints, p \in DOMAIN dispatch.deliveries
        PROVE  inbox[<<p, e>>] <= dispatch.deliveries[p].attempt
    <3>1. Received(dispatch.deliveries[p], inbox[<<p, e>>]) /\ dispatch.deliveries[p].attempt \in 1..MaxAttempts
      BY <2>1, <2>2, <2>3 DEF InboxFits, DispatchShape, DeliveryShape
    <3> QED BY <2>2, <3>1, WebhookConstants DEF Received
  <2> QED BY <2>1, <2>2, <2>3 DEF InboxFits, DispatchShape, DeliveryShape, Received
<1> QED BY <1>1, WebhooksInitInv, WebhooksInvStep, PTL DEF WebhooksSpec

-----------------------------------------------------------------------------
(* The watch over certificates.  A morning's walk reaches a certificate once, *)
(* within MaxDelay of seven; the inductive invariant keeps what it found.     *)

\* What the walk of morning m found, or nothing.
Found(m, r) ==
  /\ r \in [days : Int, end : Int, at : Int]
  /\ \/ r = NotReached
     \/ /\ (m - 1) * TicksPerDay <= r.at /\ r.at <= (m - 1) * TicksPerDay + MaxDelay
        /\ r.days = CeilDays(r.end - r.at)

ToldOf(t) ==
  /\ t \in Certificates \X Int \X Int \X (1..mornings)
  /\ LET r == reached[t[4]][t[1]]
     IN r # NotReached /\ r.end = t[2] /\ r.days = t[3]

ToGo(queue) ==
  /\ queue \in Seq([certificate : Certificates, end : Int])
  /\ \A i, j \in DOMAIN queue : i # j => queue[i].certificate # queue[j].certificate

WatchInv ==
  /\ mornings \in 0..MaxMornings /\ clock \in Nat /\ clock <= mornings * TicksPerDay
  /\ validUntil \in [Certificates -> Int]
  /\ ToGo(walk)
  /\ walk # <<>> =>
       /\ mornings > 0 /\ (mornings - 1) * TicksPerDay <= clock
       /\ clock <= (mornings - 1) * TicksPerDay + MaxDelay
       /\ \A i \in DOMAIN walk : reached[mornings][walk[i].certificate] = NotReached
  /\ Len(reached) = mornings /\ DOMAIN reached = 1..mornings
  /\ \A m \in 1..mornings : DOMAIN reached[m] = Certificates
                            /\ \A c \in Certificates : Found(m, reached[m][c])
  /\ \A t \in told : ToldOf(t)

LEMMA LargerFactor ==
  ASSUME NEW a \in Int, NEW b \in Int, a * TicksPerDay < b * TicksPerDay
  PROVE  a < b
<1>1. b <= a => b * TicksPerDay <= a * TicksPerDay
  BY WatchConstants, SMTT(30)
<1> QED BY <1>1, WatchConstants

LEMMA CeilOf ==
  ASSUME NEW ticks \in Int
  PROVE  /\ CeilDays(ticks) \in Int
         /\ (CeilDays(ticks) - 1) * TicksPerDay < ticks
         /\ ticks <= CeilDays(ticks) * TicksPerDay
<1>1. PICK q \in Int : q = (-ticks) \div TicksPerDay
  BY WatchConstants, SMT
<1>2. q * TicksPerDay <= -ticks /\ -ticks < q * TicksPerDay + TicksPerDay
  BY <1>1, WatchConstants, SMTT(30)
<1>3. CeilDays(ticks) = -q
  BY <1>1 DEF CeilDays
<1>4. (-q) * TicksPerDay = -(q * TicksPerDay) /\ (-q - 1) * TicksPerDay = -(q * TicksPerDay) - TicksPerDay
  BY WatchConstants, SMTT(30)
<1> QED BY <1>2, <1>3, <1>4, WatchConstants

\* A day less for each day passed.
LEMMA CeilFalls ==
  ASSUME NEW ticks \in Int
  PROVE  CeilDays(ticks - TicksPerDay) = CeilDays(ticks) - 1
<1>1. PICK d \in Int : d = CeilDays(ticks)
  BY CeilOf
<1>2. PICK e \in Int : e = CeilDays(ticks - TicksPerDay)
  BY CeilOf, WatchConstants
<1>3. (d - 1) * TicksPerDay < ticks /\ ticks <= d * TicksPerDay
  BY <1>1, CeilOf
<1>4. (e - 1) * TicksPerDay < ticks - TicksPerDay /\ ticks - TicksPerDay <= e * TicksPerDay
  BY <1>2, CeilOf, WatchConstants
<1>5. e * TicksPerDay < d * TicksPerDay
  <2>1. (e - 1) * TicksPerDay = e * TicksPerDay - TicksPerDay
    BY WatchConstants, SMTT(30)
  <2> QED BY <1>3, <1>4, <2>1, WatchConstants, SMT
<1>6. (d - 2) * TicksPerDay < e * TicksPerDay
  <2>1. (d - 2) * TicksPerDay = (d - 1) * TicksPerDay - TicksPerDay
    BY WatchConstants, SMTT(30)
  <2> QED BY <1>3, <1>4, <2>1, WatchConstants, SMT
<1>7. e < d /\ d - 2 < e
  BY <1>5, <1>6, WatchConstants, LargerFactor
<1> QED BY <1>1, <1>2, <1>7

LEMMA SeqElements ==
  ASSUME NEW S, NEW q \in Seq(S)
  PROVE  DOMAIN q = 1..Len(q) /\ \A i \in DOMAIN q : q[i] \in S
OBVIOUS

LEMMA SeqOfFunction == ASSUME NEW S, NEW n \in Nat, NEW q \in [1..n -> S] PROVE q \in Seq(S)
OBVIOUS

LEMMA RowsToGo ==
  ASSUME NEW queue, ToGo(queue), NEW i \in DOMAIN queue
  PROVE  /\ queue[i] \in [certificate : Certificates, end : Int]
         /\ queue[i].certificate \in Certificates
<1>1. queue \in Seq([certificate : Certificates, end : Int]) /\ i \in 1..Len(queue)
  BY DEF ToGo
<1>2. queue[i] \in [certificate : Certificates, end : Int]
  <2> DEFINE S == [certificate : Certificates, end : Int]
  <2>1. queue \in Seq(S)
    BY <1>1
  <2> HIDE DEF S
  <2>2. queue[i] \in S
    BY <2>1, SeqElements
  <2> QED BY <2>2 DEF S
<1> QED BY <1>2

LEMMA FoundNothing == ASSUME NEW m PROVE Found(m, NotReached)
<1>1. -1000 \in Int /\ 0 \in Int /\ -1 \in Int
  OBVIOUS
<1> QED BY <1>1 DEF Found, NotReached

LEMMA WatchInitInv == WatchInit => WatchInv
<1> SUFFICES ASSUME WatchInit PROVE WatchInv
  OBVIOUS
<1>1. \A d \in EndsIn, t \in {-1, 0, 1} : d * TicksPerDay + t \in Int
  BY WatchConstants
<1>2. validUntil \in [Certificates -> Int]
  BY <1>1 DEF WatchInit
<1>3. clock <= mornings * TicksPerDay
  BY WatchConstants DEF WatchInit
<1> QED BY <1>2, <1>3, WatchConstants DEF WatchInit, WatchInv, ToGo

\* The two ways a morning begins: with what it has to go, or with nothing.
LEMMA MorningBegins ==
  ASSUME WatchInv, mornings < MaxMornings, clock = mornings * TicksPerDay,
         mornings' = mornings + 1, ToGo(walk'),
         reached' = Append(reached, [c \in Certificates |-> NotReached]),
         UNCHANGED <<clock, validUntil, told>>
  PROVE  WatchInv'
<1>0. mornings \in Nat /\ MaxMornings \in Nat /\ clock \in Nat
  BY WatchConstants DEF WatchInv
<1>1. Len(reached') = mornings' /\ DOMAIN reached' = 1..mornings'
      /\ reached'[mornings'] = [c \in Certificates |-> NotReached]
      /\ \A m \in 1..mornings : reached'[m] = reached[m]
  BY <1>0 DEF WatchInv
<1>2. \A m \in 1..mornings' : DOMAIN reached'[m] = Certificates
                              /\ \A c \in Certificates : Found(m, reached'[m][c])
  <2> SUFFICES ASSUME NEW m \in 1..mornings'
               PROVE  DOMAIN reached'[m] = Certificates /\ \A c \in Certificates : Found(m, reached'[m][c])
    OBVIOUS
  <2>1. CASE m = mornings'
    <3> DEFINE nothing == [c \in Certificates |-> NotReached]
    <3>1. reached'[m] = nothing
      BY <1>1, <2>1
    <3>2. DOMAIN nothing = Certificates /\ \A c \in Certificates : nothing[c] = NotReached
      OBVIOUS
    <3> HIDE DEF nothing
    <3> QED BY <3>1, <3>2, FoundNothing
  <2>2. CASE m \in 1..mornings
    BY <1>1, <2>2 DEF WatchInv
  <2>3. m = mornings' \/ m \in 1..mornings
    BY <1>0
  <2> QED BY <2>1, <2>2, <2>3
<1>3. \A t \in told' : ToldOf(t)'
  <2> SUFFICES ASSUME NEW t \in told PROVE ToldOf(t)'
    OBVIOUS
  <2>1. ToldOf(t)
    BY DEF WatchInv
  <2>2. t[4] \in 1..mornings /\ reached'[t[4]] = reached[t[4]]
    BY <1>1, <2>1 DEF ToldOf
  <2>3. 1..mornings \subseteq 1..mornings'
    BY <1>0
  <2> QED BY <2>1, <2>2, <2>3 DEF ToldOf
<1>4. mornings' \in 0..MaxMornings /\ mornings' > 0
  BY <1>0
<1>5. clock' <= mornings' * TicksPerDay /\ (mornings' - 1) * TicksPerDay <= clock'
      /\ clock' <= (mornings' - 1) * TicksPerDay + MaxDelay
  <2>1. (mornings + 1) * TicksPerDay = mornings * TicksPerDay + TicksPerDay
    BY <1>0, WatchConstants, SMTT(30)
  <2>2. mornings' - 1 = mornings
    BY <1>0
  <2> QED BY <1>0, <2>1, <2>2, WatchConstants
<1>6. \A i \in DOMAIN walk' : reached'[mornings'][walk'[i].certificate] = NotReached
  <2>1. \A i \in DOMAIN walk' : walk'[i].certificate \in Certificates
    BY RowsToGo
  <2> QED BY <1>1, <2>1
<1> QED
  BY <1>0, <1>1, <1>2, <1>3, <1>4, <1>5, <1>6 DEF WatchInv

LEMMA StartWalkInv == ASSUME WatchInv, StartWalk PROVE WatchInv'
<1> DEFINE near == {d \in Certificates : validUntil[d] <= clock + WarningDays * TicksPerDay}
           due == {[certificate |-> c, end |-> validUntil[c]] : c \in near}
<1>1. walk' \in SetToSeqs(due)
  BY DEF StartWalk
<1>2. IsFiniteSet(due)
  <2>1. IsFiniteSet(near)
    BY WatchConstants, FS_Subset
  <2>2. PICK row : row = [c \in near |-> [certificate |-> c, end |-> validUntil[c]]]
    OBVIOUS
  <2> HIDE DEF near
  <2>3. row \in Surjection(near, due)
    BY <2>2 DEF Surjection
  <2> HIDE DEF due
  <2> QED BY <2>1, <2>3, FS_Surjection
<1>3. due \subseteq [certificate : Certificates, end : Int]
  BY DEF WatchInv
<1>4. \A a, b \in due : a # b => a.certificate # b.certificate
  OBVIOUS
<1>5. ToGo(walk')
  <2> HIDE DEF due
  <2>1. PICK n \in Nat : n = Cardinality(due)
    BY <1>2, FS_CardinalityType
  <2>2. walk' \in [1..n -> due] /\ \A i, j \in 1..n : i # j => walk'[i] # walk'[j]
    BY <1>1, <2>1 DEF SetToSeqs
  <2>3. walk' \in Seq([certificate : Certificates, end : Int])
    <3>1. walk' \in [1..n -> [certificate : Certificates, end : Int]]
      BY <1>3, <2>2
    <3> QED BY <3>1, <2>1, SeqOfFunction
  <2> QED BY <1>4, <2>2, <2>3 DEF ToGo
<1> QED BY <1>5, MorningBegins DEF StartWalk

LEMMA MissWalkInv == ASSUME WatchInv, MissWalk PROVE WatchInv'
BY MorningBegins DEF MissWalk, WatchInv

\* The first of the walk is reached, and the rest are still to be.
LEMMA WarnAboutInv == ASSUME WatchInv, WarnAbout PROVE WatchInv'
<1>1. PICK row : row = Head(walk)
  OBVIOUS
<1>2. PICK days : days = daysToExpiry(row.end)
  OBVIOUS
<1>3. PICK c : c = row.certificate
  OBVIOUS
<1> DEFINE found == [days |-> days, end |-> row.end, at |-> clock]
<1>4. walk # <<>> /\ walk' = Tail(walk) /\ UNCHANGED <<clock, validUntil, mornings>>
      /\ reached' = [reached EXCEPT ![mornings][c] = found]
      /\ told' \subseteq told \cup {<<c, row.end, days, mornings>>}
  BY <1>1, <1>2, <1>3 DEF WarnAbout
<1>5. mornings \in Nat /\ clock \in Nat /\ mornings \in 1..mornings
      /\ walk \in Seq([certificate : Certificates, end : Int]) /\ Len(walk) \in Nat \ {0} /\ 1 \in DOMAIN walk
  BY <1>4 DEF WatchInv, ToGo
<1>6. c \in Certificates /\ row.end \in Int /\ reached[mornings][c] = NotReached
  <2>1. row = walk[1] /\ row \in [certificate : Certificates, end : Int]
    BY <1>1, <1>4, <1>5, RowsToGo DEF WatchInv
  <2>2. reached[mornings][walk[1].certificate] = NotReached
    BY <1>4, <1>5 DEF WatchInv
  <2> QED BY <1>3, <2>1, <2>2
<1>7. days = CeilDays(row.end - clock) /\ days \in Int
  <2>1. row.end - clock \in Int
    BY <1>5, <1>6
  <2> QED BY <1>2, <2>1, CeilOf DEF daysToExpiry
<1>8. Found(mornings, found) /\ found # NotReached
  BY <1>4, <1>5, <1>6, <1>7 DEF Found, NotReached, WatchInv
<1>9. /\ Len(reached') = mornings /\ DOMAIN reached' = 1..mornings
      /\ \A m \in 1..mornings : DOMAIN reached'[m] = Certificates
      /\ reached'[mornings][c] = found
      /\ \A m \in 1..mornings, d \in Certificates : m # mornings \/ d # c => reached'[m][d] = reached[m][d]
  <2> HIDE DEF found
  <2> QED BY <1>4, <1>5, <1>6 DEF WatchInv
<1>10. \A m \in 1..mornings, d \in Certificates : Found(m, reached'[m][d])
  BY <1>8, <1>9 DEF WatchInv
<1>11. /\ ToGo(walk')
       /\ \A i \in DOMAIN walk' : walk'[i].certificate \in Certificates /\ walk'[i].certificate # c
                                  /\ reached[mornings][walk'[i].certificate] = NotReached
  <2>1. Len(walk') = Len(walk) - 1 /\ DOMAIN walk' = 1..(Len(walk) - 1)
        /\ walk' \in Seq([certificate : Certificates, end : Int])
        /\ \A i \in DOMAIN walk' : walk'[i] = walk[i + 1]
    BY <1>4, <1>5
  <2>2. \A i \in DOMAIN walk' : i + 1 \in DOMAIN walk /\ i + 1 # 1
    BY <1>5, <2>1
  <2>3. \A i, j \in DOMAIN walk' : i # j => i + 1 # j + 1
    BY <2>1
  <2>4. \A i, j \in DOMAIN walk : i # j => walk[i].certificate # walk[j].certificate
    BY DEF WatchInv, ToGo
  <2>5. \A i \in DOMAIN walk : reached[mornings][walk[i].certificate] = NotReached
    BY <1>4 DEF WatchInv
  <2>6. c = walk[1].certificate
    BY <1>1, <1>3, <1>4, <1>5
  <2>7. \A i, j \in DOMAIN walk' : i # j => walk'[i].certificate # walk'[j].certificate
    BY <2>1, <2>2, <2>3, <2>4
  <2>8. \A i \in DOMAIN walk' : walk'[i].certificate \in Certificates
    BY <2>1, <2>2, RowsToGo DEF WatchInv
  <2> QED BY SMTT(20), <1>5, <2>1, <2>2, <2>4, <2>5, <2>6, <2>7, <2>8 DEF ToGo
<1>12. \A t \in told' : ToldOf(t)'
  <2> SUFFICES ASSUME NEW t \in told' PROVE ToldOf(t)'
    OBVIOUS
  <2>1. CASE t = <<c, row.end, days, mornings>>
    <3> HIDE DEF found
    <3>1. found.end = row.end /\ found.days = days
      BY DEF found
    <3> QED BY <1>4, <1>5, <1>6, <1>7, <1>8, <1>9, <2>1, <3>1 DEF ToldOf
  <2>2. CASE t \in told
    <3>1. ToldOf(t)
      BY <2>2 DEF WatchInv
    <3>2. reached'[t[4]][t[1]] = reached[t[4]][t[1]]
      BY <1>6, <1>9, <3>1 DEF ToldOf
    <3> QED BY <1>4, <3>1, <3>2 DEF ToldOf
  <2> QED BY <1>4, <2>1, <2>2
<1> HIDE DEF found
<1>13. \A i \in DOMAIN walk' : reached'[mornings][walk'[i].certificate] = NotReached
  BY <1>5, <1>9, <1>11
<1>14. \A m \in 1..mornings' : DOMAIN reached'[m] = Certificates
                                /\ \A d \in Certificates : Found(m, reached'[m][d])
  BY <1>4, <1>9, <1>10
<1>15. ToGo(walk')
  BY <1>11
<1>16. mornings > 0 /\ (mornings - 1) * TicksPerDay <= clock
       /\ clock <= (mornings - 1) * TicksPerDay + MaxDelay
  BY <1>4 DEF WatchInv
<1> QED BY <1>4, <1>9, <1>12, <1>13, <1>14, <1>15, <1>16 DEF WatchInv

LEMMA ToldStays == ASSUME UNCHANGED <<mornings, reached>>, NEW t PROVE ToldOf(t)' <=> ToldOf(t)
BY DEF ToldOf

LEMMA WatchInvStep == WatchInv /\ [WatchNext]_watchVars => WatchInv'
<1> SUFFICES ASSUME WatchInv, [WatchNext]_watchVars PROVE WatchInv'
  OBVIOUS
<1>1. CASE StartWalk \/ MissWalk \/ WarnAbout
  BY <1>1, StartWalkInv, MissWalkInv, WarnAboutInv
<1>2. ASSUME UNCHANGED <<mornings, reached, told, clock>>, validUntil' \in [Certificates -> Int],
             walk' \in {walk, <<>>}
      PROVE  WatchInv'
  <2>1. mornings' = mornings /\ reached' = reached /\ clock' = clock
        /\ \A t \in told' : ToldOf(t)'
    BY <1>2, ToldStays DEF WatchInv
  <2>2. ToGo(walk') /\ (walk' # <<>> => walk' = walk)
    <3>1. ToGo(<<>>) /\ ToGo(walk)
      BY DEF WatchInv, ToGo
    <3> QED BY <1>2, <3>1
  <2> QED BY <1>2, <2>1, <2>2 DEF WatchInv
<1>3. CASE WalkFails \/ UNCHANGED watchVars
  BY <1>2, <1>3 DEF WalkFails, watchVars, WatchInv
<1>4. CASE \E c \in Certificates : RenewCertificate(c)
  <2>1. clock + 730 * TicksPerDay \in Int
    BY WatchConstants DEF WatchInv
  <2> QED BY <1>2, <1>4, <2>1 DEF RenewCertificate, WatchInv
<1>5. mornings \in Nat /\ clock \in Nat
  BY WatchConstants DEF WatchInv
<1>6. CASE WalkWaits
  <2>1. clock + 1 <= (mornings - 1) * TicksPerDay + MaxDelay /\ (mornings - 1) * TicksPerDay <= clock + 1
    BY <1>5, <1>6, WatchConstants DEF WalkWaits, WatchInv
  <2>2. (mornings - 1) * TicksPerDay + TicksPerDay = mornings * TicksPerDay
    BY <1>5, WatchConstants, SMTT(30)
  <2>3. clock + 1 <= mornings * TicksPerDay
    BY <1>5, <2>1, <2>2, WatchConstants
  <2> QED BY <1>5, <1>6, <2>1, <2>3, ToldStays DEF WalkWaits, WatchInv
<1>7. CASE NextMorning
  <2>1. mornings * TicksPerDay \in Nat
    BY <1>5, WatchConstants
  <2> QED BY <1>7, <2>1, ToldStays DEF NextMorning, WatchInv
<1> QED BY <1>1, <1>3, <1>4, <1>6, <1>7 DEF WatchNext

\* What a walk finds fits the days that are left.
LEMMA FoundOnTime ==
  ASSUME NEW m \in Int, NEW r, Found(m, r), r # NotReached
  PROVE  /\ r.days \in Int /\ r.end \in Int /\ r.at \in Int
         /\ r.days = CeilDays(r.end - r.at)
         /\ (m - 1) * TicksPerDay <= r.at /\ r.at <= (m - 1) * TicksPerDay + MaxDelay
         /\ (r.days - 1) * TicksPerDay < r.end - r.at
         /\ r.end - r.at <= r.days * TicksPerDay
<1>1. r.days \in Int /\ r.end \in Int /\ r.at \in Int
      /\ (m - 1) * TicksPerDay <= r.at /\ r.at <= (m - 1) * TicksPerDay + MaxDelay
      /\ r.days = CeilDays(r.end - r.at)
  BY DEF Found
<1>2. PICK ticks \in Int : ticks = r.end - r.at
  BY <1>1
<1> QED BY <1>1, <1>2, CeilOf

LEMMA EvenCountdown ==
  ASSUME NEW m \in Int, NEW before, NEW now, Found(m - 1, before), Found(m, now),
         before # NotReached, now # NotReached, before.end = now.end
  PROVE  /\ now.at - before.at = TicksPerDay => now.days = before.days - 1
         /\ now.days - before.days \in {0, -1, -2}
<1>1. PICK x \in Int : x = now.end - now.at
  BY FoundOnTime
<1>2. PICK y \in Int : y = before.end - before.at
  <2>1. m - 1 \in Int
    OBVIOUS
  <2> QED BY <2>1, FoundOnTime
<1>3. now.days = CeilDays(x) /\ now.days \in Int /\ now.at \in Int /\ now.end \in Int
      /\ (m - 1) * TicksPerDay <= now.at /\ now.at <= (m - 1) * TicksPerDay + MaxDelay
      /\ (now.days - 1) * TicksPerDay < x /\ x <= now.days * TicksPerDay
  BY <1>1, FoundOnTime
<1>4. before.days = CeilDays(y) /\ before.days \in Int /\ before.at \in Int
      /\ (m - 2) * TicksPerDay <= before.at /\ before.at <= (m - 2) * TicksPerDay + MaxDelay
      /\ (before.days - 1) * TicksPerDay < y /\ y <= before.days * TicksPerDay
  <2>1. m - 1 \in Int /\ (m - 1) - 1 = m - 2
    OBVIOUS
  <2> QED BY <1>2, <2>1, FoundOnTime
<1>5. ASSUME now.at - before.at = TicksPerDay PROVE now.days = before.days - 1
  <2>1. x = y - TicksPerDay
    BY <1>1, <1>2, <1>3, <1>4, <1>5, WatchConstants
  <2> QED BY <1>2, <1>3, <1>4, <2>1, CeilFalls
<1>6. now.days - before.days \in {0, -1, -2}
  <2>1. PICK d \in Int, e \in Int : d = now.days /\ e = before.days
    BY <1>3, <1>4
  <2>2. (m - 1) * TicksPerDay = (m - 2) * TicksPerDay + TicksPerDay
    BY WatchConstants, SMTT(30)
  <2>3. (m - 2) * TicksPerDay \in Int
    BY WatchConstants
  <2>4. x <= y /\ y <= x + TicksPerDay + TicksPerDay
    BY <1>1, <1>2, <1>3, <1>4, <2>2, <2>3, WatchConstants
  <2>5. (d - 1) * TicksPerDay < e * TicksPerDay
    BY <1>1, <1>2, <1>3, <1>4, <2>1, <2>4, WatchConstants
  <2>6. (e - 1) * TicksPerDay < (d + 2) * TicksPerDay
    <3>1. (d + 2) * TicksPerDay = d * TicksPerDay + TicksPerDay + TicksPerDay
      BY WatchConstants, SMTT(30)
    <3> QED BY <1>1, <1>2, <1>3, <1>4, <2>1, <2>4, <3>1, WatchConstants
  <2>7. d - 1 < e /\ e - 1 < d + 2
    <3>1. d - 1 \in Int /\ e - 1 \in Int /\ d + 2 \in Int
      OBVIOUS
    <3> QED BY <2>5, <2>6, <3>1, LargerFactor
  <2> QED BY <2>1, <2>7
<1> QED BY <1>5, <1>6

\* Two mornings whose clocks at a certificate are whole days apart announce
\* two different numbers of days.
LEMMA ToldApart ==
  ASSUME NEW m \in Int, NEW n \in Int, NEW r, NEW s, Found(m, r), Found(n, s),
         r # NotReached, s # NotReached, r.end = s.end, r.days = s.days,
         s.at - r.at = (n - m) * TicksPerDay
  PROVE  m = n
<1>1. PICK d \in Int, e \in Int, x \in Int, y \in Int :
        d = r.days /\ e = r.end /\ x = r.at /\ y = s.at
  BY FoundOnTime
<1>2. (d - 1) * TicksPerDay < e - x /\ e - x <= d * TicksPerDay
      /\ (d - 1) * TicksPerDay < e - y /\ e - y <= d * TicksPerDay
  BY <1>1, FoundOnTime
<1>3. (d - 1) * TicksPerDay = d * TicksPerDay - TicksPerDay
  BY WatchConstants, SMTT(30)
<1>4. y - x < TicksPerDay /\ x - y < TicksPerDay
  BY <1>2, <1>3, WatchConstants
<1>5. PICK k \in Int : k = n - m
  OBVIOUS
<1>6. k * TicksPerDay < TicksPerDay /\ (-1) * TicksPerDay < k * TicksPerDay
  BY <1>1, <1>4, <1>5, WatchConstants
<1>7. k * TicksPerDay < 1 * TicksPerDay
  BY <1>6, WatchConstants
<1>8. k < 1 /\ -1 < k
  BY <1>6, <1>7, LargerFactor
<1> QED BY <1>5, <1>8

\* The countdown of a certificate (cert-monitor.service.ts, checkExpiringCertificates),
\* for any certificates, any resolution of the clock and any order of the rows.
THEOREM CertificatesAreCountedDown == WatchSpec => []ExpiryHolds
<1>1. WatchInv => CountdownIsEven
  <2> SUFFICES ASSUME WatchInv, NEW c \in Certificates, NEW m \in 2..mornings,
                      reached[m - 1][c].at >= 0, reached[m][c].at >= 0,
                      reached[m - 1][c].end = reached[m][c].end
               PROVE  /\ reached[m][c].at - reached[m - 1][c].at = TicksPerDay =>
                           reached[m][c].days = reached[m - 1][c].days - 1
                      /\ reached[m][c].days - reached[m - 1][c].days \in {0, -1, -2}
    BY DEF CountdownIsEven
  <2>1. mornings \in Nat
    BY WatchConstants DEF WatchInv
  <2>2. m \in 1..mornings /\ m - 1 \in 1..mornings /\ m \in Int
    BY <2>1
  <2>3. Found(m - 1, reached[m - 1][c]) /\ Found(m, reached[m][c])
    BY <2>2 DEF WatchInv
  <2>4. reached[m - 1][c] # NotReached /\ reached[m][c] # NotReached
    BY DEF NotReached
  <2> QED BY <2>2, <2>3, <2>4, EvenCountdown
<1>2. WatchInv => ToldOnce
  <2> SUFFICES ASSUME WatchInv, NEW t \in told
               PROVE  /\ reached[t[4]][t[1]].days = t[3]
                      /\ t[2] - reached[t[4]][t[1]].at > (t[3] - 1) * TicksPerDay
                      /\ t[2] - reached[t[4]][t[1]].at <= t[3] * TicksPerDay
                      /\ \A m \in PushedOn(t[1], t[2], t[3]) \ {t[4]} :
                           reached[m][t[1]].at - reached[t[4]][t[1]].at # (m - t[4]) * TicksPerDay
    BY DEF ToldOnce
  <2>1. ASSUME NEW u \in told
        PROVE  /\ u[4] \in 1..mornings /\ u[1] \in Certificates
               /\ Found(u[4], reached[u[4]][u[1]]) /\ reached[u[4]][u[1]] # NotReached
               /\ reached[u[4]][u[1]].end = u[2] /\ reached[u[4]][u[1]].days = u[3]
    BY <2>1 DEF WatchInv, ToldOf
  <2>2. PICK r : r = reached[t[4]][t[1]]
    OBVIOUS
  <2>3. t[4] \in Int /\ Found(t[4], r) /\ r # NotReached /\ r.end = t[2] /\ r.days = t[3]
    <3>1. mornings \in Nat
      BY WatchConstants DEF WatchInv
    <3> QED BY <2>1, <2>2, <3>1
  <2>4. (r.days - 1) * TicksPerDay < r.end - r.at /\ r.end - r.at <= r.days * TicksPerDay
        /\ r.days \in Int /\ r.end \in Int /\ r.at \in Int
    BY <2>3, FoundOnTime
  <2>5. t[2] - r.at > (t[3] - 1) * TicksPerDay /\ t[2] - r.at <= t[3] * TicksPerDay
    BY <2>3, <2>4, WatchConstants
  <2>6. ASSUME NEW m \in PushedOn(t[1], t[2], t[3]), m # t[4],
               reached[m][t[1]].at - r.at = (m - t[4]) * TicksPerDay
        PROVE  FALSE
    <3>1. <<t[1], t[2], t[3], m>> \in told
      BY DEF PushedOn
    <3>2. PICK s : s = reached[m][t[1]]
      OBVIOUS
    <3>3. m \in Int /\ Found(m, s) /\ s # NotReached /\ s.end = t[2] /\ s.days = t[3]
      <4>1. mornings \in Nat
        BY WatchConstants DEF WatchInv
      <4>2. <<t[1], t[2], t[3], m>>[4] = m /\ <<t[1], t[2], t[3], m>>[1] = t[1]
            /\ <<t[1], t[2], t[3], m>>[2] = t[2] /\ <<t[1], t[2], t[3], m>>[3] = t[3]
        OBVIOUS
      <4> QED BY <2>1, <3>1, <3>2, <4>1, <4>2
    <3> QED BY <2>3, <2>6, <3>2, <3>3, ToldApart
  <2> QED BY <2>2, <2>3, <2>5, <2>6
<1>3. WatchInv => ExpiryHolds
  BY <1>1, <1>2 DEF ExpiryHolds
<1> QED BY <1>3, WatchInitInv, WatchInvStep, PTL DEF WatchSpec

-----------------------------------------------------------------------------
(* The caches of ARCA's answers.  The inductive invariant says of each row    *)
(* which answers it is made of, and of each lookup what it carries.           *)

RowFits(k, row) ==
  row # Nothing =>
    /\ k[1] # "taxpayer" => row.from = k[2]
    /\ row.content = Unreachable => k[1] = "health"
    /\ row.content.version \in Int
    /\ row.content.version > 0 =>
         /\ row.content.version <= atSource
         /\ row.content.address # Content(row.content.version).address =>
              k[1] = "taxpayer" /\ row.content.version > 1

LookupFields == {"step", "kind", "environment", "row", "reply", "content", "answer", "started"}

LookupFits(lookup) ==
  /\ DOMAIN lookup = LookupFields
  /\ lookup.step \in {"new", "calling", "storing", "failing", "answered"}
  /\ lookup.kind \in Kinds
  /\ lookup.step = "new" => lookup.row = Nothing /\ lookup.content = EmptyTable /\ lookup.answer = "none"
  /\ lookup.step \in {"calling", "storing", "failing"} => lookup.environment \in Environments
  /\ lookup.step \in {"storing", "failing"} => lookup.reply # "none"
  /\ lookup.row # Nothing /\ lookup.row.content = Unreachable => lookup.kind = "health"
  /\ lookup.content = Unreachable => lookup.kind = "health"
  /\ lookup.step = "storing" =>
       \/ lookup.content \in {EmptyTable, Unreachable}
       \/ lookup.content.version \in 1..atSource /\ lookup.content = Content(lookup.content.version)
  /\ lookup.step = "answered" =>
       /\ lookup.answer = "row" => lookup.started - lookup.row.fetchedAt < Ttl[lookup.kind]
       /\ lookup.answer \in {"stale", "local"} => lookup.kind = "params" /\ lookup.reply # "none"

CachesInv ==
  /\ atSource \in Nat \ {0}
  /\ DOMAIN rows = {Key(s[1], s[2]) : s \in Kinds \X Environments}
  /\ \A k \in DOMAIN rows : RowFits(k, rows[k])
  /\ DOMAIN lookups = Lookups
  /\ \A l \in Lookups : LookupFits(lookups[l])

LEMMA OtherContents == EmptyTable # Unreachable /\ LocalValues # Unreachable
                       /\ EmptyTable.version = 0 /\ LocalValues.version = -1 /\ Unreachable.version = -2
BY DEF EmptyTable, LocalValues, Unreachable

LEMMA ContentFields == ASSUME NEW v PROVE Content(v).version = v
                         /\ Content(v).address = (IF v = 1 THEN 1 ELSE Nothing)
BY DEF Content

LEMMA KeyOf ==
  ASSUME NEW kind \in Kinds, NEW environment \in Environments
  PROVE  /\ Key(kind, environment) \in {Key(s[1], s[2]) : s \in Kinds \X Environments}
         /\ Key(kind, environment)[1] = kind
         /\ kind # "taxpayer" => Key(kind, environment)[2] = environment
<1>1. <<kind, environment>> \in Kinds \X Environments
      /\ Key(<<kind, environment>>[1], <<kind, environment>>[2]) = Key(kind, environment)
  OBVIOUS
<1>2. Key(kind, environment) \in {Key(s[1], s[2]) : s \in Kinds \X Environments}
  BY <1>1
<1> QED BY <1>2 DEF Key

LEMMA CachesInitInv == CachesInit => CachesInv
BY OtherContents DEF CachesInit, CachesInv, RowFits, LookupFits, LookupFields, Kinds

\* A request's step changes its own lookup, and perhaps a row.
LEMMA OneLookup ==
  ASSUME CachesInv, NEW l \in Lookups, UNCHANGED atSource, DOMAIN lookups' = Lookups,
         \A k \in Lookups : k # l => lookups'[k] = lookups[k], LookupFits(lookups'[l]),
         DOMAIN rows' = DOMAIN rows, \A k \in DOMAIN rows : RowFits(k, rows'[k])
  PROVE  CachesInv'
<1>1. \A k \in Lookups : LookupFits(lookups'[k])
  BY DEF CachesInv
<1>2. \A k \in Lookups : LookupFits(lookups[k])'
  BY <1>1 DEF LookupFits
<1>3. \A k \in DOMAIN rows' : RowFits(k, rows[k])'
  BY DEF RowFits
<1> QED BY <1>2, <1>3 DEF CachesInv

LEMMA FindInv ==
  ASSUME CachesInv, NEW l \in Lookups, NEW kind \in Kinds, NEW environment \in Environments,
         Find(l, kind, environment)
  PROVE  CachesInv'
<1>1. PICK row : row = rows[Key(kind, environment)]
  OBVIOUS
<1>2. PICK old : old = lookups[l]
  OBVIOUS
<1>3. PICK new : new = lookups'[l]
  OBVIOUS
<1>4. LookupFits(old) /\ old.step = "new" /\ UNCHANGED <<atSource, rows>>
  BY <1>2 DEF CachesInv, Find
<1>5. RowFits(Key(kind, environment), row)
  BY <1>1, KeyOf DEF CachesInv
<1> DEFINE found == [old EXCEPT !.kind = kind, !.environment = environment, !.row = row,
                       !.started = today, !.step = "calling"]
           next == IF Fresh(row, kind)
                   THEN [found EXCEPT !.step = "answered", !.answer = "row", !.content = row.content]
                   ELSE [found EXCEPT !.row = IF kind = "params" THEN row ELSE Nothing]
<1>6. lookups' = [lookups EXCEPT ![l] = next]
  BY <1>1, <1>2 DEF Find
<1>7. new = next /\ DOMAIN lookups' = Lookups /\ \A k \in Lookups : k # l => lookups'[k] = lookups[k]
  <2> HIDE DEF next
  <2> QED BY <1>3, <1>6 DEF CachesInv
<1>8. DOMAIN found = LookupFields /\ found.kind = kind /\ found.environment = environment
      /\ found.row = row /\ found.started = today /\ found.step = "calling"
      /\ found.reply = old.reply /\ found.content = old.content /\ found.answer = old.answer
  BY <1>4 DEF LookupFits, LookupFields
<1> HIDE DEF found
<1>9. row # Nothing /\ row.content = Unreachable => kind = "health"
  <2>1. PICK key : key = Key(kind, environment) /\ key[1] = kind
    BY KeyOf
  <2> QED BY <1>5, <2>1 DEF RowFits
<1>10. CASE Fresh(row, kind)
  <2>1. DOMAIN new = LookupFields /\ new.kind = kind /\ new.environment = environment
        /\ new.row = row /\ new.started = today /\ new.step = "answered" /\ new.answer = "row"
        /\ new.content = row.content
    BY <1>7, <1>8, <1>10 DEF LookupFields
  <2>2. LookupFits(new)
    BY <1>9, <1>10, <2>1 DEF LookupFits, Fresh
  <2> QED BY <1>3, <1>4, <1>7, <2>2, OneLookup DEF CachesInv
<1>11. CASE ~Fresh(row, kind)
  <2>1. DOMAIN new = LookupFields /\ new.kind = kind /\ new.environment = environment
        /\ new.row \in {row, Nothing} /\ new.step = "calling" /\ new.content = old.content
    BY <1>7, <1>8, <1>11 DEF LookupFields
  <2>2. LookupFits(new)
    BY <1>4, <1>9, <2>1, OtherContents DEF LookupFits
  <2> QED BY <1>3, <1>4, <1>7, <2>2, OneLookup DEF CachesInv
<1> QED BY <1>10, <1>11

LEMMA CallInv ==
  ASSUME CachesInv, NEW l \in Lookups, CallArca(l) \/ CallFails(l) \/ StoreFails(l)
  PROVE  CachesInv'
<1>1. PICK old : old = lookups[l]
  OBVIOUS
<1>2. PICK new : new = lookups'[l]
  OBVIOUS
<1>3. LookupFits(old) /\ UNCHANGED <<atSource, rows>> /\ old.step \in {"calling", "storing"}
  BY <1>1 DEF CachesInv, CallArca, CallFails, StoreFails
<1>4. DOMAIN lookups' = Lookups /\ \A k \in Lookups : k # l => lookups'[k] = lookups[k]
  BY DEF CachesInv, CallArca, CallFails, StoreFails
<1>5. /\ DOMAIN new = LookupFields
      /\ new.kind = old.kind /\ new.environment = old.environment /\ new.row = old.row
      /\ \/ new.step = "storing" /\ new.reply = "ok" /\ new.content = Content(atSource)
         \/ /\ new.step \in {"storing", "failing"} /\ new.reply = "errors"
            /\ new.content = IF old.kind = "health" THEN Unreachable ELSE EmptyTable
         \/ new.step = "failing" /\ new.content = old.content /\ new.reply \in {"down", old.reply}
            /\ (old.step = "calling" => new.reply = "down")
  <2>1. CASE CallArca(l)
    BY <1>1, <1>2, <1>3, <2>1 DEF CachesInv, CallArca, LookupFits, LookupFields
  <2>2. CASE CallFails(l)
    BY <1>1, <1>2, <1>3, <2>2 DEF CachesInv, CallFails, LookupFits, LookupFields
  <2>3. CASE StoreFails(l)
    BY <1>1, <1>2, <1>3, <2>3 DEF CachesInv, StoreFails, LookupFits, LookupFields
  <2> QED BY <2>1, <2>2, <2>3
<1>6. atSource \in Nat \ {0} /\ Content(atSource).version = atSource /\ Content(atSource) # Unreachable
  BY ContentFields, OtherContents DEF CachesInv
<1>7. LookupFits(new)
  BY <1>3, <1>5, <1>6, OtherContents DEF LookupFits
<1> QED BY <1>2, <1>3, <1>4, <1>7, OneLookup DEF CachesInv

\* Answering leaves nothing behind.
LEMMA AnsweredFits ==
  ASSUME CachesInv, NEW l \in Lookups, NEW answer, NEW content,
         content = Unreachable => lookups[l].kind = "health", answer # "row",
         answer \in {"stale", "local"} => lookups[l].kind = "params" /\ lookups[l].reply # "none"
  PROVE  /\ DOMAIN Answered(l, answer, content) = Lookups
         /\ LookupFits(Answered(l, answer, content)[l])
         /\ \A k \in Lookups : k # l => Answered(l, answer, content)[k] = lookups[k]
<1>1. PICK old : old = lookups[l]
  OBVIOUS
<1>2. PICK next : next = Answered(l, answer, content)
  OBVIOUS
<1>3. LookupFits(old)
  BY <1>1 DEF CachesInv
<1>4. DOMAIN next = Lookups /\ \A k \in Lookups : k # l => next[k] = lookups[k]
  BY <1>2 DEF Answered, CachesInv
<1>5. DOMAIN next[l] = LookupFields /\ next[l].step = "answered" /\ next[l].answer = answer
      /\ next[l].content = content /\ next[l].row = Nothing /\ next[l].kind = old.kind
      /\ next[l].reply = old.reply
  BY <1>1, <1>2, <1>3 DEF Answered, CachesInv, LookupFits, LookupFields
<1>6. LookupFits(next[l])
  BY <1>1, <1>3, <1>5 DEF LookupFits
<1> QED BY <1>2, <1>4, <1>6

\* What is kept of an answer has its version, and an address of its own unless
\* the registry gave none.
LEMMA KeptContent ==
  ASSUME CachesInv, NEW lookup, LookupFits(lookup), lookup.step = "storing", NEW row
  PROVE  LET kept == Stored(lookup.kind, row, lookup.content)
         IN /\ kept = Unreachable => lookup.kind = "health"
            /\ kept.version \in Int
            /\ kept.version > 0 =>
                 /\ kept.version <= atSource
                 /\ kept.address # Content(kept.version).address =>
                      lookup.kind = "taxpayer" /\ kept.version > 1
<1>1. PICK content : content = lookup.content
  OBVIOUS
<1>2. atSource \in Nat \ {0} /\ DOMAIN content = {"version", "address"} /\ content.version \in Int
      /\ content.version <= atSource
      /\ (content.version > 0 => content = Content(content.version))
      /\ (content.version = -2 => lookup.kind = "health")
  <2>1. CASE content \in {EmptyTable, Unreachable}
    BY <1>1, <2>1 DEF CachesInv, LookupFits, EmptyTable, Unreachable
  <2>2. CASE content.version \in 1..atSource /\ content = Content(content.version)
    <3>1. DOMAIN content = {"version", "address"}
      BY <2>2 DEF Content
    <3> QED BY <2>2, <3>1 DEF CachesInv
  <2> QED BY <1>1, <2>1, <2>2 DEF LookupFits
<1>3. PICK kept : kept = Stored(lookup.kind, row, lookup.content)
  OBVIOUS
<1>4. CASE kept = content
  BY <1>1, <1>2, <1>3, <1>4, OtherContents
<1>5. CASE /\ lookup.kind = "taxpayer" /\ content.address = Nothing
           /\ kept = [content EXCEPT !.address = row.content.address]
  <2>1. kept.version = content.version
    BY <1>2, <1>5
  <2>2. ASSUME content.version = 1 PROVE FALSE
    <3>1. content.address = 1
      BY <1>2, <2>2, ContentFields
    <3> QED BY <1>5, <3>1, CacheConstants
  <2>3. kept # Unreachable
    BY <1>2, <1>5, <2>1, OtherContents
  <2> QED BY <1>2, <1>3, <1>5, <2>1, <2>2, <2>3
<1>6. \/ kept = content
      \/ /\ lookup.kind = "taxpayer" /\ content.address = Nothing
         /\ kept = [content EXCEPT !.address = row.content.address]
  BY <1>1, <1>3 DEF Stored
<1> QED BY <1>3, <1>4, <1>5, <1>6

LEMMA StoreAnswerInv == ASSUME CachesInv, NEW l \in Lookups, StoreAnswer(l) PROVE CachesInv'
<1>1. PICK lookup : lookup = lookups[l]
  OBVIOUS
<1>2. PICK key : key = Key(lookup.kind, lookup.environment)
  OBVIOUS
<1>3. PICK kept : kept = Stored(lookup.kind, rows[key], lookup.content)
  OBVIOUS
<1>4. LookupFits(lookup) /\ lookup.step = "storing" /\ UNCHANGED atSource
      /\ lookups' = Answered(l, "arca", lookup.content)
  BY <1>1 DEF CachesInv, StoreAnswer
<1>5. PICK row : row = [fetchedAt |-> today, from |-> lookup.environment, content |-> kept]
  OBVIOUS
<1>6. rows' = rows \/ rows' = [rows EXCEPT ![key] = row]
  BY <1>1, <1>2, <1>3, <1>5 DEF StoreAnswer
<1>7. key \in DOMAIN rows /\ key[1] = lookup.kind
      /\ (lookup.kind # "taxpayer" => key[2] = lookup.environment)
  BY ZenonT(40), <1>2, <1>4, KeyOf DEF LookupFits, CachesInv
<1>8. row.from = lookup.environment /\ row.content = kept
  BY <1>5
<1>9. RowFits(key, row)
  <2>1. /\ kept = Unreachable => lookup.kind = "health"
        /\ kept.version \in Int
        /\ kept.version > 0 =>
             /\ kept.version <= atSource
             /\ kept.address # Content(kept.version).address =>
                  lookup.kind = "taxpayer" /\ kept.version > 1
    BY <1>3, <1>4, KeptContent
  <2> QED BY <1>7, <1>8, <2>1 DEF RowFits
<1>10. DOMAIN rows' = DOMAIN rows /\ \A k \in DOMAIN rows : RowFits(k, rows'[k])
  BY <1>6, <1>7, <1>9 DEF CachesInv
<1>11. lookup.content = Unreachable => lookups[l].kind = "health"
  BY <1>1, <1>4 DEF LookupFits
<1> QED BY <1>4, <1>10, <1>11, AnsweredFits, OneLookup

LEMMA AnswerFailureInv == ASSUME CachesInv, NEW l \in Lookups, AnswerFailure(l) PROVE CachesInv'
<1>1. PICK lookup : lookup = lookups[l]
  OBVIOUS
<1>2. LookupFits(lookup) /\ lookup.step = "failing" /\ lookup.reply # "none" /\ UNCHANGED atSource
  BY <1>1 DEF CachesInv, AnswerFailure, LookupFits
<1>3. ASSUME NEW answer, NEW content, lookups' = Answered(l, answer, content), UNCHANGED rows,
             content = Unreachable => lookup.kind = "health", answer # "row",
             answer \in {"stale", "local"} => lookup.kind = "params"
      PROVE  CachesInv'
  <2>1. DOMAIN rows' = DOMAIN rows /\ \A k \in DOMAIN rows : RowFits(k, rows'[k])
    BY <1>3 DEF CachesInv
  <2> QED BY <1>1, <1>2, <1>3, <2>1, AnsweredFits, OneLookup
<1>4. CASE lookup.kind = "params" /\ lookup.row # Nothing
  <2>1. lookups' = Answered(l, "stale", lookup.row.content) /\ UNCHANGED rows
    BY <1>1, <1>4 DEF AnswerFailure
  <2>2. lookup.row.content # Unreachable
    BY <1>2, <1>4 DEF LookupFits
  <2> QED BY <1>3, <1>4, <2>1, <2>2
<1>5. CASE lookup.kind = "params" /\ lookup.row = Nothing
  <2>1. lookups' = Answered(l, "local", LocalValues) /\ UNCHANGED rows
    BY <1>1, <1>5 DEF AnswerFailure
  <2> QED BY <1>3, <1>5, <2>1, OtherContents
<1>6. CASE lookup.kind = "health"
  <2>1. PICK row : row = [fetchedAt |-> today, from |-> lookup.environment, content |-> Unreachable]
    OBVIOUS
  <2>2. PICK key : key = Key("health", lookup.environment)
    OBVIOUS
  <2>3. lookups' = Answered(l, "arca", Unreachable) /\ rows' = [rows EXCEPT ![key] = row]
    BY <1>1, <1>6, <2>1, <2>2 DEF AnswerFailure
  <2>4. key \in DOMAIN rows /\ key[1] = "health" /\ key[2] = lookup.environment
    <3>1. "health" \in Kinds /\ "health" # "taxpayer" /\ lookup.environment \in Environments
      BY <1>2 DEF LookupFits, Kinds
    <3>2. DOMAIN rows = {Key(s[1], s[2]) : s \in Kinds \X Environments}
      BY DEF CachesInv
    <3> HIDE DEF Kinds
    <3> QED BY <2>2, <3>1, <3>2, KeyOf
  <2>5. row.from = lookup.environment /\ row.content = Unreachable
    BY <2>1
  <2>6. RowFits(key, row)
    BY <2>4, <2>5, OtherContents DEF RowFits
  <2>7. DOMAIN rows' = DOMAIN rows /\ \A k \in DOMAIN rows : RowFits(k, rows'[k])
    BY <2>3, <2>4, <2>6 DEF CachesInv
  <2> QED BY <1>1, <1>2, <1>6, <2>3, <2>7, AnsweredFits, OneLookup
<1>7. CASE lookup.kind \in {"rate", "taxpayer"}
  <2>1. lookups' = Answered(l, "error", EmptyTable) /\ UNCHANGED rows
    BY <1>1, <1>7 DEF AnswerFailure
  <2> QED BY <1>3, <1>7, <2>1, OtherContents
<1> QED BY <1>2, <1>4, <1>5, <1>6, <1>7 DEF LookupFits, Kinds

LEMMA CacheRestartInv == ASSUME CachesInv, CacheRestart PROVE CachesInv'
<1>1. DOMAIN rows' = DOMAIN rows /\ DOMAIN lookups' = Lookups /\ UNCHANGED atSource
  BY DEF CacheRestart
<1>2. \A k \in DOMAIN rows : RowFits(k, rows'[k])
  <2>1. \A k \in DOMAIN rows : rows'[k] = Nothing \/ rows'[k] = rows[k]
    BY DEF CacheRestart
  <2> QED BY <2>1 DEF CachesInv, RowFits
<1>3. ASSUME NEW l \in Lookups PROVE LookupFits(lookups'[l])
  <2>1. lookups'[l] = lookups[l] \/ lookups'[l] = Answered(l, "error", EmptyTable)[l]
    BY DEF CacheRestart
  <2>2. LookupFits(Answered(l, "error", EmptyTable)[l])
    BY AnsweredFits, OtherContents
  <2> QED BY <2>1, <2>2 DEF CachesInv
<1>4. \A k \in DOMAIN rows' : RowFits(k, rows[k])'
  BY <1>1, <1>2 DEF RowFits
<1>5. \A l \in Lookups : LookupFits(lookups[l])'
  BY <1>1, <1>3 DEF LookupFits
<1> QED BY <1>1, <1>4, <1>5 DEF CachesInv

LEMMA CachesInvStep == CachesInv /\ [CachesNext]_cacheVars => CachesInv'
<1> SUFFICES ASSUME CachesInv, [CachesNext]_cacheVars PROVE CachesInv'
  OBVIOUS
<1>1. CASE DaysPass \/ ArcaChanges \/ UNCHANGED cacheVars
  <2>1. UNCHANGED <<rows, lookups>> /\ atSource \in Nat \ {0} /\ atSource' \in {atSource, atSource + 1}
    BY <1>1 DEF DaysPass, ArcaChanges, cacheVars, CachesInv
  <2>2. \A k \in DOMAIN rows : RowFits(k, rows[k])'
    BY <2>1 DEF CachesInv, RowFits
  <2>3. \A l \in Lookups : LookupFits(lookups[l])'
    <3>1. \A v : v \in 1..atSource => v \in 1..atSource'
      BY <2>1
    <3> QED BY <2>1, <3>1 DEF CachesInv, LookupFits
  <2> QED BY <2>1, <2>2, <2>3 DEF CachesInv
<1> QED
  BY <1>1, CacheRestartInv, FindInv, CallInv, StoreAnswerInv, AnswerFailureInv DEF CachesNext

\* How old an answer kept may be, and of what it is made (param-cache.service.ts,
\* taxpayers.service.ts, arca-health.service.ts), for any requests and days.
THEOREM CachedAnswersAreRecent == CachesSpec => []CachesHold
<1>1. CachesInv => CachesHold
  BY DEF CachesInv, CachesHold, AnswersAreRecent, RowsAreWhole, LookupFits, RowFits
<1> QED BY <1>1, CachesInitInv, CachesInvStep, PTL DEF CachesSpec

-----------------------------------------------------------------------------
(* Access to issuers.  The inductive invariant says of a request under way    *)
(* what its check has established.                                            *)

RoutesOf(caller) == IF caller \in Clients THEN V1Routes ELSE UserRoutes

RequestFields == {"caller", "route", "issuer", "answer", "data", "step"}

Reaches(caller, issuer) == issuer \in DOMAIN issuers /\ MayReach(caller, issuer)

RequestFits(q) ==
  /\ DOMAIN q = RequestFields
  /\ q.route \in RoutesOf(q.caller) /\ q.issuer \in Nat
  /\ q.step \in {"arriving", "checking", "acting", "auditing", "over"}
  /\ q.step = "auditing" => q.answer \notin {401, 429}
  /\ \A issuer \in q.data : Reaches(q.caller, issuer)
  /\ q.step = "acting" /\ q.route.check # "none" => Reaches(q.caller, q.issuer)

RowTells(row) ==
  /\ row.request \in DOMAIN incoming
  /\ incoming[row.request].step = "over" /\ incoming[row.request].answer \notin {401, 429}
  /\ row.outcome = "success" <=> incoming[row.request].answer = 200
  /\ row.issuer = Nobody <=> ~incoming[row.request].route.names

IssuersFit ==
  /\ Len(issuers) \in Nat /\ DOMAIN issuers = 1..Len(issuers)
  /\ \A i \in DOMAIN issuers : DOMAIN issuers[i] = {"cuit", "user", "writtenBy"}
  /\ granted \subseteq Clients \X DOMAIN issuers
  /\ \A i \in DOMAIN issuers : MayReach(issuers[i].writtenBy, i)
  /\ CuitOncePerUser

AccessInv ==
  /\ IssuersFit
  /\ Len(incoming) \in Nat /\ DOMAIN incoming = 1..Len(incoming)
  /\ \A r \in DOMAIN incoming : RequestFits(incoming[r])
  /\ \A row \in audited : RowTells(row)

LEMMA RouteHas ==
  ASSUME NEW how, NEW effect
  PROVE  /\ V1Route(how, effect).check = how /\ V1Route(how, effect).effect = effect
         /\ UserRoute(how, effect).check = how /\ UserRoute(how, effect).effect = effect
BY DEF V1Route, UserRoute, Route

\* Only creating and listing find no issuer.
Checks(route, checks) ==
  route.check \in checks /\ (route.check = "none" => route.effect \in {"create", "list"})

ServiceChecks == {"none", "grant", "exists_then_grant", "voucher_grant"}

OwnerChecks == {"none", "owner", "voucher_owner", "own_row"}

LEMMA V1Checks == ASSUME NEW route \in V1Routes PROVE Checks(route, ServiceChecks)
<1>1. CASE \E how \in ServiceChecks \ {"none"}, effect \in {"read", "update"} : route = V1Route(how, effect)
  BY <1>1, RouteHas DEF Checks, ServiceChecks
<1>2. CASE \E names \in BOOLEAN, how \in ServiceChecks \ {"none"}, effect \in {"read", "update"} :
             route = AuditedRoute(how, effect, names)
  BY <1>2 DEF AuditedRoute, Route, Checks, ServiceChecks
<1>3. CASE \E effect \in {"create", "list"} : route = AuditedRoute("none", effect, FALSE)
  BY <1>3 DEF AuditedRoute, Route, Checks, ServiceChecks
<1> QED
  BY <1>1, <1>2, <1>3, Zenon
     DEF V1Routes, ServiceChecks, V1VoucherRoutes, V1PendingRoutes, V1IssuerRoutes, V1TaxpayerRoutes,
         V1FiscalRoutes, V1SalesBookRoutes, V1ParamRoutes, V1PurchaseRoutes, V1ShadowRoutes

LEMMA UserChecks == ASSUME NEW route \in UserRoutes PROVE Checks(route, OwnerChecks)
<1> USE RouteHas DEF Checks, OwnerChecks
<1>1. CASE route \in VoucherRoutes \cup ExportVoucherRoutes
  BY <1>1 DEF VoucherRoutes, ExportVoucherRoutes
<1>2. CASE route \in IssuerRoutes
  BY <1>2 DEF IssuerRoutes
<1>3. CASE route \in IssuerVoucherRoutes \cup PendingVoucherRoutes \cup ReconciliationRoutes
  BY <1>3 DEF IssuerVoucherRoutes, PendingVoucherRoutes, ReconciliationRoutes
<1>4. CASE route \in ClientRoutes \cup SalesPointRoutes \cup TaxpayerRoutes \cup FiscalRoutes
  BY <1>4 DEF ClientRoutes, SalesPointRoutes, TaxpayerRoutes, FiscalRoutes
<1>5. CASE route \in PurchaseRoutes \cup ArcaCallRoutes \cup ArcaParamRoutes \cup CertificateRoutes
  BY <1>5 DEF PurchaseRoutes, ArcaCallRoutes, ArcaParamRoutes, CertificateRoutes
<1> QED BY <1>1, <1>2, <1>3, <1>4, <1>5 DEF UserRoutes

\* A check that does not refuse has found an issuer that the caller may reach.
LEMMA NotRefused ==
  ASSUME AccessInv, NEW r \in DOMAIN incoming, Refusal(r) = 0, incoming[r].route.check # "none"
  PROVE  Reaches(incoming[r].caller, incoming[r].issuer)
<1>1. PICK q : q = incoming[r]
  OBVIOUS
<1>2. RequestFits(q) /\ granted \subseteq Clients \X DOMAIN issuers
  BY <1>1 DEF AccessInv, IssuersFit
<1>3. CASE q.caller \in Clients
  <2>1. q.route.check \in {"grant", "exists_then_grant", "voucher_grant"}
    BY <1>1, <1>2, <1>3, V1Checks DEF RequestFits, RoutesOf, Checks, ServiceChecks
  <2>2. <<q.caller, q.issuer>> \in granted
    BY <1>1, <2>1 DEF Refusal, IsGranted
  <2> QED BY <1>1, <1>2, <1>3, <2>2 DEF Reaches, MayReach
<1>4. CASE q.caller \notin Clients
  <2>1. q.route.check \in {"owner", "voucher_owner", "own_row"}
    BY <1>1, <1>2, <1>4, UserChecks DEF RequestFits, RoutesOf, Checks, OwnerChecks
  <2>2. q.issuer \in DOMAIN issuers /\ issuers[q.issuer].user = q.caller
    BY <1>1, <2>1 DEF Refusal, IsOwned, Exists
  <2> QED BY <1>1, <1>4, <2>2 DEF Reaches, MayReach
<1> QED BY <1>3, <1>4

LEMMA AccessInitInv == AccessInit => AccessInv
<1> SUFFICES ASSUME AccessInit PROVE AccessInv
  OBVIOUS
<1>1. PICK owner \in Owners, cuit \in {CHOOSE c \in Cuits : TRUE} :
        issuers = <<[cuit |-> cuit, user |-> owner, writtenBy |-> owner]>>
  BY DEF AccessInit
<1>2. PICK row : issuers = <<row>> /\ DOMAIN row = {"cuit", "user", "writtenBy"}
                 /\ row.user = owner /\ row.writtenBy = owner
  BY <1>1
<1>3. DOMAIN issuers = 1..1 /\ Len(issuers) = 1 /\ issuers[1] = row /\ \A i \in DOMAIN issuers : i = 1
  BY <1>2
<1>4. owner \notin Clients
  BY AccessConstants
<1>5. IssuersFit
  BY <1>2, <1>3, <1>4 DEF AccessInit, IssuersFit, MayReach, CuitOncePerUser
<1> QED BY <1>5 DEF AccessInit, AccessInv

\* Who may reach an issuer still may after the issuers and the grants grew.
LEMMA ReachGrows ==
  ASSUME DOMAIN issuers \subseteq DOMAIN issuers', granted \subseteq granted',
         \A i \in DOMAIN issuers : issuers'[i].user = issuers[i].user,
         NEW caller, NEW issuer, Reaches(caller, issuer)
  PROVE  Reaches(caller, issuer)'
BY DEF Reaches, MayReach

\* A request's step changes it, perhaps the issuers, and perhaps the audit.
LEMMA OneRequest ==
  ASSUME AccessInv, IssuersFit',
         DOMAIN issuers \subseteq DOMAIN issuers', granted \subseteq granted',
         \A i \in DOMAIN issuers : issuers'[i].user = issuers[i].user,
         Len(incoming') \in Nat, DOMAIN incoming' = 1..Len(incoming'),
         NEW r, incoming[r].step # "over" \/ r \notin DOMAIN incoming,
         DOMAIN incoming' = DOMAIN incoming \cup {r},
         \A q \in DOMAIN incoming : q # r => incoming'[q] = incoming[q],
         RequestFits(incoming[r])',
         \A row \in audited' : row \in audited \/ RowTells(row)'
  PROVE  AccessInv'
<1>1. ASSUME NEW q \in DOMAIN incoming' PROVE RequestFits(incoming[q])'
  <2>1. CASE q # r
    <3>1. RequestFits(incoming[q]) /\ incoming'[q] = incoming[q] /\ q \in DOMAIN incoming
      BY <2>1 DEF AccessInv
    <3> QED BY <3>1, ReachGrows DEF RequestFits
  <2> QED BY <2>1
<1>2. ASSUME NEW row \in audited' PROVE RowTells(row)'
  <2>1. CASE row \in audited
    <3>1. RowTells(row)
      BY <2>1 DEF AccessInv
    <3>2. row.request \in DOMAIN incoming /\ row.request # r
      BY <3>1 DEF RowTells
    <3>3. row.request \in DOMAIN incoming' /\ incoming'[row.request] = incoming[row.request]
      BY <3>2
    <3> QED BY <3>1, <3>3 DEF RowTells
  <2> QED BY <2>1
<1> QED BY <1>1, <1>2 DEF AccessInv

LEMMA IssuersStay == ASSUME IssuersFit, UNCHANGED <<issuers, granted>> PROVE IssuersFit'
BY DEF IssuersFit, MayReach, CuitOncePerUser

LEMMA ReachStays ==
  ASSUME UNCHANGED <<issuers, granted>>, NEW q PROVE RequestFits(q)' <=> RequestFits(q)
BY DEF RequestFits, Reaches, MayReach

LEMMA ApiRequestInv ==
  ASSUME AccessInv, NEW caller \in Callers, NEW issuer \in 0..MaxIssuers, NEW route,
         ApiRequest(caller, route, issuer)
  PROVE  AccessInv'
<1>1. PICK q : /\ incoming' = Append(incoming, q) /\ DOMAIN q = RequestFields
               /\ q.caller = caller /\ q.route = route /\ q.issuer = issuer /\ q.answer = 0
               /\ q.data = {} /\ q.step \in {"arriving", "checking"}
  BY DEF ApiRequest, RequestFields
<1>2. PICK r : r = Len(incoming) + 1
  OBVIOUS
<1>3. /\ Len(incoming') = r /\ r \in Nat /\ DOMAIN incoming' = 1..r /\ incoming'[r] = q
      /\ r \notin DOMAIN incoming /\ DOMAIN incoming' = DOMAIN incoming \cup {r}
      /\ \A k \in DOMAIN incoming : incoming'[k] = incoming[k]
  BY <1>1, <1>2 DEF AccessInv
<1>4. RequestFits(q)
  <2>1. issuer \in Nat /\ route \in RoutesOf(caller)
    BY AccessConstants DEF ApiRequest, RoutesOf
  <2> QED BY <1>1, <2>1 DEF RequestFits
<1>5. RequestFits(incoming[r])'
  BY <1>3, <1>4, ReachStays DEF ApiRequest, RequestFits, Reaches, MayReach
<1>6. IssuersFit'
  BY IssuersStay DEF AccessInv, ApiRequest
<1>7. UNCHANGED <<issuers, granted, audited>>
  BY DEF ApiRequest
<1> QED BY <1>3, <1>5, <1>6, <1>7, OneRequest

\* A step that changes neither issuers nor grants.
LEMMA OneRequestOnly ==
  ASSUME AccessInv, UNCHANGED <<issuers, granted>>, NEW r \in DOMAIN incoming,
         incoming[r].step # "over", Len(incoming') = Len(incoming),
         DOMAIN incoming' = DOMAIN incoming,
         \A k \in DOMAIN incoming : k # r => incoming'[k] = incoming[k],
         RequestFits(incoming'[r]), \A row \in audited' : row \in audited \/ RowTells(row)'
  PROVE  AccessInv'
<1>1. RequestFits(incoming[r])'
  BY DEF RequestFits, Reaches, MayReach
<1>2. IssuersFit'
  BY IssuersStay DEF AccessInv
<1>3. Len(incoming') \in Nat /\ DOMAIN incoming' = 1..Len(incoming')
  BY DEF AccessInv
<1> QED BY <1>1, <1>2, <1>3, OneRequest

LEMMA CheckedInv ==
  ASSUME AccessInv, NEW r \in DOMAIN incoming, Guards(r) \/ Check(r)
  PROVE  AccessInv'
<1>1. PICK old : old = incoming[r]
  OBVIOUS
<1>2. PICK q : q = incoming'[r]
  OBVIOUS
<1>3. RequestFits(old) /\ old.step \in {"arriving", "checking"} /\ UNCHANGED <<issuers, granted, audited>>
  BY <1>1 DEF AccessInv, Guards, Check
<1>4. Refusal(r) \in {0, 403, 404}
  <2>1. incoming[r].route.check \in ServiceChecks \cup OwnerChecks
    BY <1>1, <1>3, V1Checks, UserChecks DEF RequestFits, RoutesOf, Checks
  <2> QED BY <2>1 DEF Refusal, ServiceChecks, OwnerChecks
<1>5. \/ \E code \in {401, 429} : incoming' = [incoming EXCEPT ![r].step = "over", ![r].answer = code]
      \/ incoming' = [incoming EXCEPT ![r].step = "checking"]
      \/ incoming' = [incoming EXCEPT ![r].step = "acting"] /\ Refusal(r) = 0
      \/ \E code \in {400, 403, 404} :
           incoming' = [incoming EXCEPT ![r].step = "auditing", ![r].answer = code]
  <2>1. CASE Guards(r)
    BY <2>1 DEF Guards, Answer
  <2>2. CASE Check(r)
    <3>1. CASE incoming' = [incoming EXCEPT ![r].step = "auditing", ![r].answer = 400]
      BY <3>1
    <3>2. CASE Refusal(r) = 0 /\ incoming' = [incoming EXCEPT ![r].step = "acting"]
      BY <3>2
    <3>3. CASE /\ Refusal(r) # 0
               /\ incoming' = [incoming EXCEPT ![r].step = "auditing", ![r].answer = Refusal(r)]
      <4>1. PICK code \in {403, 404} : code = Refusal(r)
        BY <1>4, <3>3
      <4>2. incoming' = [incoming EXCEPT ![r].step = "auditing", ![r].answer = code]
        BY <3>3, <4>1
      <4> QED BY ZenonT(40), <4>2
    <3> QED BY <2>2, <3>1, <3>2, <3>3 DEF Check
  <2> QED BY <2>1, <2>2
<1>6. /\ Len(incoming') = Len(incoming) /\ DOMAIN incoming' = DOMAIN incoming
      /\ \A k \in DOMAIN incoming : k # r => incoming'[k] = incoming[k]
  BY <1>5 DEF AccessInv
<1>7. /\ DOMAIN q = RequestFields /\ q.caller = old.caller /\ q.route = old.route
      /\ q.issuer = old.issuer /\ q.data = old.data
      /\ \/ q.step \in {"over", "checking"}
         \/ q.step = "acting" /\ Refusal(r) = 0
         \/ q.step = "auditing" /\ q.answer \in {400, 403, 404}
  BY <1>1, <1>2, <1>3, <1>5 DEF RequestFits, RequestFields
<1>8. q.step = "acting" /\ q.route.check # "none" => Reaches(q.caller, q.issuer)
  BY <1>1, <1>7, NotRefused
<1>9. RequestFits(q)
  BY <1>3, <1>7, <1>8 DEF RequestFits
<1> QED BY <1>1, <1>2, <1>3, <1>6, <1>9, OneRequestOnly

LEMMA DoneChanges ==
  ASSUME AccessInv, NEW r \in DOMAIN incoming, NEW data, incoming' = Done(r, data)
  PROVE  /\ Len(incoming') = Len(incoming) /\ DOMAIN incoming' = DOMAIN incoming
         /\ \A k \in DOMAIN incoming : k # r => incoming'[k] = incoming[k]
         /\ DOMAIN incoming'[r] = RequestFields
         /\ incoming'[r].step = "auditing" /\ incoming'[r].answer = 200 /\ incoming'[r].data = data
         /\ incoming'[r].caller = incoming[r].caller /\ incoming'[r].route = incoming[r].route
         /\ incoming'[r].issuer = incoming[r].issuer
<1>1. PICK old : old = incoming[r] /\ DOMAIN old = RequestFields
  BY DEF AccessInv, RequestFits
<1>2. PICK q : q = [old EXCEPT !.step = "auditing", !.answer = 200, !.data = data]
  OBVIOUS
<1>3. incoming' = [incoming EXCEPT ![r] = q]
  BY <1>1, <1>2 DEF Done, AccessInv
<1>4. DOMAIN q = RequestFields /\ q.step = "auditing" /\ q.answer = 200 /\ q.caller = old.caller
      /\ q.route = old.route /\ q.issuer = old.issuer /\ q.data = data
  BY <1>1, <1>2 DEF RequestFields
<1> QED BY <1>1, <1>3, <1>4 DEF AccessInv

\* An answered request gives what its caller reaches.
LEMMA DoneInv ==
  ASSUME AccessInv, NEW r \in DOMAIN incoming, incoming[r].step = "acting",
         NEW caller, caller = incoming[r].caller,
         NEW data, incoming' = Done(r, data), \A i \in data : Reaches(caller, i)',
         IssuersFit', DOMAIN issuers \subseteq DOMAIN issuers', granted \subseteq granted',
         \A i \in DOMAIN issuers : issuers'[i].user = issuers[i].user, UNCHANGED audited
  PROVE  AccessInv'
<1>1. PICK q : q = incoming'[r]
  OBVIOUS
<1>2. DOMAIN q = RequestFields /\ q.step = "auditing" /\ q.answer = 200 /\ q.data = data
      /\ q.caller = caller /\ q.route = incoming[r].route /\ q.issuer = incoming[r].issuer
      /\ Len(incoming') = Len(incoming) /\ DOMAIN incoming' = DOMAIN incoming
      /\ \A k \in DOMAIN incoming : k # r => incoming'[k] = incoming[k]
  BY <1>1, DoneChanges
<1>3. RequestFits(incoming[r])
  BY DEF AccessInv
<1>4. \A i \in q.data : Reaches(q.caller, i)'
  BY <1>2
<1>5. RequestFits(incoming[r])'
  BY <1>1, <1>2, <1>3, <1>4 DEF RequestFits
<1>6. Len(incoming') \in Nat /\ DOMAIN incoming' = 1..Len(incoming')
  BY <1>2 DEF AccessInv
<1> QED BY <1>2, <1>5, <1>6, OneRequest

LEMMA ActInv == ASSUME AccessInv, NEW r \in DOMAIN incoming, Act(r) PROVE AccessInv'
<1>1. PICK q : q = incoming[r]
  OBVIOUS
<1>2. RequestFits(q) /\ q.step = "acting" /\ q.route.effect \in {"read", "update"}
      /\ incoming' = Done(r, {q.issuer}) /\ UNCHANGED <<granted, audited>>
  BY <1>1 DEF Act, AccessInv
<1>3. q.route.check # "none"
  BY <1>2, V1Checks, UserChecks DEF RequestFits, RoutesOf, Checks
<1>4. Reaches(q.caller, q.issuer) /\ q.issuer \in DOMAIN issuers
  BY <1>2, <1>3 DEF RequestFits, Reaches
<1>5. \/ issuers' = issuers
      \/ issuers' = [issuers EXCEPT ![q.issuer].writtenBy = q.caller]
  BY <1>1 DEF Act
<1>6. /\ Len(issuers') = Len(issuers) /\ DOMAIN issuers' = DOMAIN issuers
      /\ \A i \in DOMAIN issuers :
           /\ DOMAIN issuers'[i] = {"cuit", "user", "writtenBy"}
           /\ issuers'[i].user = issuers[i].user /\ issuers'[i].cuit = issuers[i].cuit
           /\ \/ issuers'[i].writtenBy = issuers[i].writtenBy
              \/ i = q.issuer /\ issuers'[i].writtenBy = q.caller
  BY <1>4, <1>5 DEF AccessInv, IssuersFit
<1>7. \A caller, i : Reaches(caller, i) => Reaches(caller, i)'
  BY <1>2, <1>6, ReachGrows
<1>8. \A i \in DOMAIN issuers : MayReach(issuers'[i].writtenBy, i)
  BY <1>4, <1>6 DEF AccessInv, IssuersFit, Reaches
<1>9. IssuersFit'
  <2>1. \A i \in DOMAIN issuers' : MayReach(issuers[i].writtenBy, i)'
    BY <1>2, <1>6, <1>8 DEF MayReach
  <2>2. CuitOncePerUser'
    BY <1>6 DEF AccessInv, IssuersFit, CuitOncePerUser
  <2>3. Len(issuers') \in Nat /\ DOMAIN issuers' = 1..Len(issuers')
    BY <1>6 DEF AccessInv, IssuersFit
  <2>4. granted' \subseteq Clients \X DOMAIN issuers'
    BY <1>2, <1>6 DEF AccessInv, IssuersFit
  <2> QED BY <1>6, <2>1, <2>2, <2>3, <2>4 DEF IssuersFit
<1> QED BY <1>1, <1>2, <1>4, <1>6, <1>7, <1>9, DoneInv

LEMMA ListInv == ASSUME AccessInv, NEW r \in DOMAIN incoming, List(r) PROVE AccessInv'
<1>1. PICK caller : caller = incoming[r].caller
  OBVIOUS
<1>2. PICK data : data = {i \in DOMAIN issuers :
                            IF caller \in Clients THEN <<caller, i>> \in granted
                            ELSE issuers[i].user = caller}
  OBVIOUS
<1>3. incoming[r].step = "acting" /\ incoming' = Done(r, data) /\ UNCHANGED <<issuers, granted, audited>>
  BY <1>1, <1>2 DEF List
<1>4. \A i \in data : Reaches(caller, i)'
  BY <1>2, <1>3 DEF Reaches, MayReach
<1>5. IssuersFit'
  BY <1>3, IssuersStay DEF AccessInv
<1> QED BY <1>1, <1>3, <1>4, <1>5, DoneInv

LEMMA CreateIssuerInv ==
  ASSUME AccessInv, NEW r \in DOMAIN incoming, NEW cuit \in Cuits, CreateIssuer(r, cuit)
  PROVE  AccessInv'
<1>1. PICK q : q = incoming[r]
  OBVIOUS
<1>2. PICK user : user = UserOf(q.caller)
  OBVIOUS
<1>3. RequestFits(q) /\ q.step = "acting" /\ UNCHANGED audited
  BY <1>1 DEF CreateIssuer, AccessInv
<1>4. CASE \E i \in DOMAIN issuers : issuers[i].cuit = cuit /\ issuers[i].user = user
  <2>1. PICK code : code = IF incoming[r].caller \in Clients THEN 409 ELSE 500
    OBVIOUS
  <2>2. /\ UNCHANGED <<issuers, granted>> /\ code \in {409, 500}
        /\ incoming' = [incoming EXCEPT ![r].step = "auditing", ![r].answer = code]
    BY <1>1, <1>2, <1>4, <2>1 DEF CreateIssuer
  <2>3. PICK new : new = incoming'[r]
    OBVIOUS
  <2>4. /\ Len(incoming') = Len(incoming) /\ DOMAIN incoming' = DOMAIN incoming
        /\ \A k \in DOMAIN incoming : k # r => incoming'[k] = incoming[k]
    BY <2>2 DEF AccessInv
  <2>5. DOMAIN new = RequestFields /\ new.step = "auditing" /\ new.answer = code
        /\ new.caller = q.caller /\ new.route = q.route /\ new.issuer = q.issuer /\ new.data = q.data
    <3>1. DOMAIN q = RequestFields
      BY <1>3 DEF RequestFits
    <3>2. new = [q EXCEPT !.step = "auditing", !.answer = code]
      BY <1>1, <2>2, <2>3 DEF AccessInv
    <3> QED BY <3>1, <3>2 DEF RequestFields
  <2>6. RequestFits(new)
    BY <1>3, <2>2, <2>5 DEF RequestFits
  <2> QED BY <1>1, <1>3, <2>2, <2>3, <2>4, <2>6, OneRequestOnly
<1>5. CASE ~\E i \in DOMAIN issuers : issuers[i].cuit = cuit /\ issuers[i].user = user
  <2>1. PICK row : row = [cuit |-> cuit, user |-> user, writtenBy |-> q.caller]
    OBVIOUS
  <2>2. PICK n : n = Len(issuers) + 1
    OBVIOUS
  <2>3. /\ issuers' = Append(issuers, row) /\ incoming' = Done(r, {n})
        /\ granted' = IF q.caller \in Clients THEN granted \cup {<<q.caller, n>>} ELSE granted
    BY <1>1, <1>2, <1>5, <2>1, <2>2 DEF CreateIssuer
  <2>4. DOMAIN row = {"cuit", "user", "writtenBy"} /\ row.cuit = cuit /\ row.user = user
        /\ row.writtenBy = q.caller
    BY <2>1
  <2>5. /\ Len(issuers) \in Nat /\ Len(issuers') = n /\ n \in Nat /\ DOMAIN issuers' = 1..n
        /\ issuers'[n] = row /\ DOMAIN issuers' = DOMAIN issuers \cup {n} /\ n \notin DOMAIN issuers
        /\ \A i \in DOMAIN issuers : issuers'[i] = issuers[i]
    BY <2>2, <2>3 DEF AccessInv, IssuersFit
  <2>6. granted \subseteq granted' /\ granted' \subseteq Clients \X DOMAIN issuers'
    BY <2>3, <2>5 DEF AccessInv, IssuersFit
  <2>7. Reaches(q.caller, n)'
    <3>1. CASE q.caller \in Clients
      BY <2>3, <2>5, <3>1 DEF Reaches, MayReach
    <3>2. CASE q.caller \notin Clients
      BY <1>2, <2>4, <2>5, <3>2 DEF Reaches, MayReach, UserOf
    <3> QED BY <3>1, <3>2
  <2>8. IssuersFit'
    <3>1. ASSUME NEW i \in DOMAIN issuers' PROVE MayReach(issuers[i].writtenBy, i)'
      <4>1. CASE i = n
        BY <2>4, <2>5, <2>7, <4>1 DEF Reaches, MayReach
      <4>2. CASE i \in DOMAIN issuers
        BY <2>5, <2>6, <4>2 DEF AccessInv, IssuersFit, MayReach
      <4> QED BY <2>5, <4>1, <4>2
    <3>2. CuitOncePerUser'
      BY <1>5, <2>4, <2>5 DEF AccessInv, IssuersFit, CuitOncePerUser
    <3>3. \A i \in DOMAIN issuers' : DOMAIN issuers'[i] = {"cuit", "user", "writtenBy"}
      BY <2>4, <2>5 DEF AccessInv, IssuersFit
    <3> QED BY <2>5, <2>6, <3>1, <3>2, <3>3 DEF IssuersFit
  <2> QED BY <1>1, <1>3, <2>3, <2>5, <2>6, <2>7, <2>8, DoneInv
<1> QED BY <1>4, <1>5

LEMMA GrantsByScriptInv ==
  ASSUME AccessInv, NEW client \in Clients, CreateApiClientByScript(client)
  PROVE  AccessInv'
<1>1. /\ UNCHANGED <<issuers, incoming, audited>> /\ granted \subseteq granted'
      /\ granted' \subseteq Clients \X DOMAIN issuers
  BY DEF CreateApiClientByScript, AccessInv, IssuersFit
<1>2. \A caller, i : Reaches(caller, i) => Reaches(caller, i)'
  BY <1>1, ReachGrows
<1>3. IssuersFit'
  BY <1>1, <1>2 DEF AccessInv, IssuersFit, Reaches, CuitOncePerUser, MayReach
<1>4. \A r \in DOMAIN incoming : RequestFits(incoming[r])'
  BY <1>1, <1>2 DEF AccessInv, RequestFits
<1> QED BY <1>1, <1>3, <1>4 DEF AccessInv, RowTells

LEMMA AuditInv == ASSUME AccessInv, NEW r \in DOMAIN incoming, Audit(r) PROVE AccessInv'
<1>1. PICK old : old = incoming[r]
  OBVIOUS
<1>2. PICK q : q = incoming'[r]
  OBVIOUS
<1>3. RequestFits(old) /\ old.step = "auditing" /\ UNCHANGED <<issuers, granted>>
  BY <1>1 DEF AccessInv, Audit
<1>4. /\ Len(incoming') = Len(incoming) /\ DOMAIN incoming' = DOMAIN incoming
      /\ \A k \in DOMAIN incoming : k # r => incoming'[k] = incoming[k]
  BY DEF Audit, AccessInv
<1>5. DOMAIN q = RequestFields /\ q.step = "over" /\ q.answer = old.answer
      /\ q.caller = old.caller /\ q.route = old.route /\ q.issuer = old.issuer /\ q.data = old.data
  BY <1>1, <1>2, <1>3 DEF Audit, AccessInv, RequestFits, RequestFields
<1>6. RequestFits(q)
  BY <1>3, <1>5 DEF RequestFits
<1>7. \A row \in audited' : row \in audited \/ RowTells(row)'
  <2> SUFFICES ASSUME NEW row \in audited', row \notin audited PROVE RowTells(row)'
    OBVIOUS
  <2>1. row = [request |-> r, issuer |-> IF old.route.names THEN old.issuer ELSE Nobody,
               outcome |-> IF old.answer = 200 THEN "success" ELSE "error"]
    BY <1>1 DEF Audit
  <2>2. row.request = r /\ row.issuer = (IF old.route.names THEN old.issuer ELSE Nobody)
        /\ row.outcome = (IF old.answer = 200 THEN "success" ELSE "error")
    BY <2>1
  <2>3. old.issuer # Nobody
    BY <1>3, AccessConstants DEF RequestFits
  <2>4. old.answer \notin {401, 429}
    BY <1>3 DEF RequestFits
  <2>5. row.issuer = Nobody <=> ~q.route.names
    BY <1>5, <2>2, <2>3
  <2>6. row.outcome = "success" <=> q.answer = 200
    BY <1>5, <2>2
  <2> QED BY <1>2, <1>4, <1>5, <2>2, <2>4, <2>5, <2>6 DEF RowTells
<1> QED BY <1>1, <1>2, <1>3, <1>4, <1>6, <1>7, OneRequestOnly

LEMMA AccessInvStep == AccessInv /\ [AccessNext]_accessVars => AccessInv'
<1> SUFFICES ASSUME AccessInv, [AccessNext]_accessVars PROVE AccessInv'
  OBVIOUS
<1>1. CASE UNCHANGED accessVars
  <2>1. UNCHANGED <<issuers, granted, incoming, audited>>
    BY <1>1 DEF accessVars
  <2>2. IssuersFit'
    BY <2>1, IssuersStay DEF AccessInv
  <2>3. \A r \in DOMAIN incoming : RequestFits(incoming[r])'
    BY <2>1 DEF AccessInv, RequestFits, Reaches, MayReach
  <2> QED BY <2>1, <2>2, <2>3 DEF AccessInv, RowTells
<1>2. ASSUME NEW r \in DOMAIN incoming,
             Guards(r) \/ Check(r) \/ Act(r) \/ List(r) \/ Audit(r) \/ \E cuit \in Cuits : CreateIssuer(r, cuit)
      PROVE  AccessInv'
  BY <1>2, CheckedInv, ActInv, ListInv, AuditInv, CreateIssuerInv
<1> QED BY <1>1, <1>2, ApiRequestInv, GrantsByScriptInv DEF AccessNext

\* Who reaches which issuer (api-key.guard.ts, issuer-access.service.ts and the
\* controllers), for any users, clients, issuers and requests: grants and rows
\* are only added, so what a check found still holds when its request acts.
THEOREM OnlyOwnIssuersAreReached == AccessSpec => []AccessHolds
<1>1. AccessInv => AccessHolds
  <2> SUFFICES ASSUME AccessInv PROVE AccessHolds
    OBVIOUS
  <2>1. OnlyOwnIssuers
    BY DEF AccessInv, IssuersFit, RequestFits, Reaches, OnlyOwnIssuers
  <2>2. AuditTells
    BY DEF AccessInv, RowTells, AuditTells
  <2> QED BY <2>1, <2>2 DEF AccessInv, IssuersFit, AccessHolds
<1> QED BY <1>1, AccessInitInv, AccessInvStep, PTL DEF AccessSpec

-----------------------------------------------------------------------------
(* The smaller tables.  The inductive invariant.                              *)

TaskFields == {"step", "id", "document", "todo", "read", "answer"}

TaskFits(task) ==
  /\ DOMAIN task = TaskFields
  /\ task.step \in {"new", "writing"} => task.answer # "listed"
  /\ task.step = "syncing" => task.read \ task.todo \subseteq DOMAIN points /\ task.answer # "listed"
  /\ task.answer = "listed" => task.read \subseteq DOMAIN points

ComparisonFits(c) ==
  /\ c.expected \in Expectations /\ c.differences \in diff(c.expected)
  /\ c.matched <=> c.differences = {}

LogFits(log) ==
  /\ Len(log) \in Nat /\ DOMAIN log = 1..Len(log)
  /\ \A i \in DOMAIN log : log[i] \in Nat
  /\ \A i, j \in DOMAIN log : i < j => log[i] <= log[j]

CatalogInv ==
  /\ Len(clients) \in Nat /\ DOMAIN clients = 1..Len(clients) /\ ClientsAreUnique
  /\ DOMAIN tasks = Tasks /\ \A t \in Tasks : TaskFits(tasks[t])
  /\ Len(comparisons) \in Nat /\ DOMAIN comparisons = 1..Len(comparisons)
  /\ \A i \in DOMAIN comparisons : ComparisonFits(comparisons[i])
  /\ LogFits(callLog)

LEMMA CatalogInitInv == CatalogInit => CatalogInv
<1> SUFFICES ASSUME CatalogInit PROVE CatalogInv
  OBVIOUS
<1>1. \A t \in Tasks : TaskFits(tasks[t])
  <2>1. DOMAIN NoTask = TaskFields /\ NoTask.step = "new" /\ NoTask.answer = Absent
        /\ NoTask.read = {}
    BY DEF NoTask, TaskFields
  <2> QED BY <2>1, CatalogConstants DEF CatalogInit, TaskFits
<1>2. Len(<<>>) = 0 /\ DOMAIN <<>> = 1..0
  OBVIOUS
<1> QED BY <1>1, <1>2 DEF CatalogInit, CatalogInv, LogFits, ClientsAreUnique

\* A step of one task, which loses no sales point.
LEMMA OneTask ==
  ASSUME CatalogInv, NEW t \in Tasks, NEW task, tasks' = [tasks EXCEPT ![t] = task],
         DOMAIN points \subseteq DOMAIN points', TaskFits(task)'
  PROVE  DOMAIN tasks' = Tasks /\ \A u \in Tasks : TaskFits(tasks[u])'
<1>1. DOMAIN tasks' = Tasks /\ tasks'[t] = task /\ \A u \in Tasks : u # t => tasks'[u] = tasks[u]
  BY DEF CatalogInv
<1>2. ASSUME NEW u \in Tasks, u # t PROVE TaskFits(tasks[u])'
  <2>1. TaskFits(tasks[u]) /\ tasks'[u] = tasks[u]
    BY <1>1, <1>2 DEF CatalogInv
  <2> QED BY <2>1 DEF TaskFits
<1>3. TaskFits(tasks[t])'
  BY <1>1 DEF TaskFits
<1> QED BY <1>1, <1>2, <1>3

\* What a task has read stays with it when it is over.
LEMMA OverFits ==
  ASSUME CatalogInv, NEW t \in Tasks, NEW answer, tasks' = Over(t, answer),
         DOMAIN points \subseteq DOMAIN points',
         answer = "listed" => tasks[t].read \subseteq DOMAIN points
  PROVE  DOMAIN tasks' = Tasks /\ \A u \in Tasks : TaskFits(tasks[u])'
<1>1. PICK task : task = [NoTask EXCEPT !.step = "over", !.answer = answer, !.read = tasks[t].read]
  OBVIOUS
<1>2. DOMAIN task = TaskFields /\ task.step = "over" /\ task.answer = answer /\ task.read = tasks[t].read
  BY <1>1 DEF NoTask, TaskFields
<1>3. TaskFits(task)'
  BY <1>2 DEF TaskFits
<1>4. tasks' = [tasks EXCEPT ![t] = task]
  BY <1>1 DEF Over
<1> QED BY <1>3, <1>4, OneTask

LEMMA ClientsInv ==
  ASSUME CatalogInv, NEW t \in Tasks,
         \/ \E d \in Documents : CreateClient(t, d)
         \/ \E id \in DOMAIN clients, d \in Documents \cup {Absent} : GetClient(t, id, d)
         \/ WriteClient(t)
  PROVE  CatalogInv'
<1>1. UNCHANGED <<points, comparisons, callLog>>
  BY DEF CreateClient, GetClient, WriteClient
<1>2. DOMAIN tasks' = Tasks /\ \A u \in Tasks : TaskFits(tasks[u])'
  <2>1. ASSUME NEW answer \in {"conflict", "not_found", "error", "ok"}, tasks' = Over(t, answer)
        PROVE  DOMAIN tasks' = Tasks /\ \A u \in Tasks : TaskFits(tasks[u])'
    BY <1>1, <2>1, OverFits
  <2>2. ASSUME NEW id, NEW d, New(t),
               tasks' = [tasks EXCEPT ![t].step = "writing", ![t].id = id, ![t].document = d]
        PROVE  DOMAIN tasks' = Tasks /\ \A u \in Tasks : TaskFits(tasks[u])'
    <3>1. PICK old : old = tasks[t] /\ TaskFits(old) /\ old.step = "new"
      BY <2>2 DEF CatalogInv, New
    <3>2. PICK task : task = [old EXCEPT !.step = "writing", !.id = id, !.document = d]
      OBVIOUS
    <3>3. DOMAIN task = TaskFields /\ task.step = "writing" /\ task.answer = old.answer
      BY <3>1, <3>2 DEF TaskFits, TaskFields
    <3>4. TaskFits(task)'
      BY <3>1, <3>3 DEF TaskFits
    <3>5. tasks' = [tasks EXCEPT ![t] = task]
      BY <2>2, <3>1, <3>2 DEF CatalogInv
    <3> QED BY <1>1, <3>4, <3>5, OneTask
  <2> QED BY <2>1, <2>2 DEF CreateClient, GetClient, WriteClient
<1>3. Len(clients') \in Nat /\ DOMAIN clients' = 1..Len(clients') /\ ClientsAreUnique'
  <2>1. CASE UNCHANGED clients
    BY <2>1 DEF CatalogInv, ClientsAreUnique
  <2>2. ASSUME NEW document, ~Taken(document, 0), clients' = Append(clients, document)
        PROVE  Len(clients') \in Nat /\ DOMAIN clients' = 1..Len(clients') /\ ClientsAreUnique'
    <3>1. PICK n : n = Len(clients) + 1
      OBVIOUS
    <3>2. /\ n \in Nat /\ Len(clients') = n /\ DOMAIN clients' = 1..n /\ clients'[n] = document
          /\ \A i \in 1..n : i # n => i \in DOMAIN clients /\ clients'[i] = clients[i]
      <4>1. Len(clients) \in Nat /\ DOMAIN clients = 1..Len(clients)
        BY DEF CatalogInv
      <4> QED BY <2>2, <3>1, <4>1
    <3>3. \A i \in DOMAIN clients : clients[i] # document
      BY <2>2 DEF Taken, CatalogInv
    <3> QED BY <3>2, <3>3 DEF CatalogInv, ClientsAreUnique
  <2>3. ASSUME NEW id, NEW document, clients' = [clients EXCEPT ![id] = document],
               document # Absent => ~Taken(document, id)
        PROVE  Len(clients') \in Nat /\ DOMAIN clients' = 1..Len(clients') /\ ClientsAreUnique'
    <3>1. Len(clients') = Len(clients) /\ DOMAIN clients' = DOMAIN clients
          /\ \A i \in DOMAIN clients : clients'[i] = IF i = id THEN document ELSE clients[i]
      BY <2>3 DEF CatalogInv
    <3>2. document # Absent => \A i \in DOMAIN clients : i # id => clients[i] # document
      BY <2>3 DEF Taken
    <3>3. Len(clients') \in Nat /\ DOMAIN clients' = 1..Len(clients')
      BY <3>1 DEF CatalogInv
    <3> QED BY <3>1, <3>2, <3>3 DEF CatalogInv, ClientsAreUnique
  <2>4. CASE \E d \in Documents : CreateClient(t, d)
    BY <2>1, <2>2, <2>4 DEF CreateClient
  <2>5. CASE \E id \in DOMAIN clients, d \in Documents \cup {Absent} : GetClient(t, id, d)
    BY <2>1, <2>5 DEF GetClient
  <2>6. CASE WriteClient(t)
    <3>1. \/ UNCHANGED clients
          \/ /\ clients' = [clients EXCEPT ![tasks[t].id] = tasks[t].document]
             /\ tasks[t].document # Absent => ~Taken(tasks[t].document, tasks[t].id)
      BY <2>6 DEF WriteClient
    <3>2. PICK id, document : id = tasks[t].id /\ document = tasks[t].document
      OBVIOUS
    <3> QED BY <2>1, <2>3, <3>1, <3>2
  <2> QED BY <2>4, <2>5, <2>6
<1>4. \A c : ComparisonFits(c)' <=> ComparisonFits(c)
  BY DEF ComparisonFits, diff, Apart
<1> QED BY <1>1, <1>2, <1>3, <1>4 DEF CatalogInv

LEMMA PointsInv ==
  ASSUME CatalogInv, NEW t \in Tasks,
         \/ StartSync(t) \/ UpsertPoint(t) \/ SyncEnds(t)
         \/ \E n \in PointNumbers, text \in {Absent, "text"} : updateDescription(t, n, text)
  PROVE  CatalogInv'
<1>1. UNCHANGED <<clients, comparisons, callLog>>
  BY DEF StartSync, UpsertPoint, SyncEnds, updateDescription
<1>2. PICK old : old = tasks[t] /\ TaskFits(old)
  BY DEF CatalogInv
<1>3. DOMAIN tasks' = Tasks /\ \A u \in Tasks : TaskFits(tasks[u])'
  <2>1. ASSUME NEW remote, New(t), UNCHANGED points,
               tasks' = [tasks EXCEPT ![t].step = "syncing", ![t].todo = remote, ![t].read = remote]
        PROVE  DOMAIN tasks' = Tasks /\ \A u \in Tasks : TaskFits(tasks[u])'
    <3>1. PICK task : task = [old EXCEPT !.step = "syncing", !.todo = remote, !.read = remote]
      OBVIOUS
    <3>2. DOMAIN task = TaskFields /\ task.step = "syncing" /\ task.answer = old.answer
          /\ task.todo = remote /\ task.read = remote /\ old.answer # "listed"
      BY <1>2, <2>1, <3>1 DEF TaskFits, TaskFields, New
    <3>3. TaskFits(task)'
      BY <3>2 DEF TaskFits
    <3>4. tasks' = [tasks EXCEPT ![t] = task]
      BY <1>2, <2>1, <3>1 DEF CatalogInv
    <3> QED BY <2>1, <3>3, <3>4, OneTask
  <2>2. CASE StartSync(t)
    BY <2>1, <2>2 DEF StartSync
  <2>3. CASE UpsertPoint(t)
    <3>1. PICK n : n = CHOOSE m \in tasks[t].todo : \A k \in tasks[t].todo : m <= k
      OBVIOUS
    <3>2. /\ points' = [k \in DOMAIN points \cup {n} |-> IF k \in DOMAIN points THEN points[k] ELSE Absent]
          /\ tasks' = [tasks EXCEPT ![t].todo = tasks[t].todo \ {n}] /\ tasks[t].step = "syncing"
      BY <2>3, <3>1 DEF UpsertPoint
    <3>3. DOMAIN points' = DOMAIN points \cup {n}
      BY <3>2
    <3>4. PICK task : task = [old EXCEPT !.todo = old.todo \ {n}]
      OBVIOUS
    <3>5. DOMAIN task = TaskFields /\ task.step = "syncing" /\ task.answer = old.answer
          /\ task.todo = old.todo \ {n} /\ task.read = old.read
      BY <1>2, <3>2, <3>4 DEF TaskFits, TaskFields
    <3>6. TaskFits(task)'
      BY <1>2, <3>2, <3>3, <3>5 DEF TaskFits
    <3>7. tasks' = [tasks EXCEPT ![t] = task]
      BY <1>2, <3>2, <3>4 DEF CatalogInv
    <3> QED BY <3>3, <3>6, <3>7, OneTask
  <2>4. CASE SyncEnds(t)
    <3>1. tasks[t].todo = {} => tasks[t].read \subseteq DOMAIN points
      BY <1>2, <2>4 DEF TaskFits, SyncEnds
    <3> QED BY <2>4, <3>1, OverFits DEF SyncEnds
  <2>5. CASE \E n \in PointNumbers, text \in {Absent, "text"} : updateDescription(t, n, text)
    <3>1. DOMAIN points' = DOMAIN points /\ (tasks' = Over(t, "ok") \/ tasks' = Over(t, "error"))
      BY <2>5 DEF updateDescription
    <3> QED BY <3>1, OverFits
  <2> QED BY <2>2, <2>3, <2>4, <2>5
<1>4. \A c : ComparisonFits(c)' <=> ComparisonFits(c)
  BY DEF ComparisonFits, diff, Apart
<1> QED BY <1>1, <1>3, <1>4 DEF CatalogInv, ClientsAreUnique

LEMMA CompareInv ==
  ASSUME CatalogInv, NEW t \in Tasks, NEW expected \in Expectations, compare(t, expected)
  PROVE  CatalogInv'
<1>1. UNCHANGED <<clients, points, callLog>> /\ tasks' = Over(t, "ok")
  BY DEF compare
<1>2. DOMAIN tasks' = Tasks /\ \A u \in Tasks : TaskFits(tasks[u])'
  BY <1>1, OverFits
<1>3. \E c : comparisons' = Append(comparisons, c) /\ ComparisonFits(c)
  <2>1. PICK differences \in diff(expected) :
          comparisons' = Append(comparisons,
            [expected |-> expected, differences |-> differences, matched |-> differences = {}])
    BY DEF compare
  <2>2. ComparisonFits([expected |-> expected, differences |-> differences, matched |-> differences = {}])
    BY DEF ComparisonFits
  <2> QED BY <2>1, <2>2
<1>4. PICK c : comparisons' = Append(comparisons, c) /\ ComparisonFits(c)
  BY <1>3
<1>5. Len(comparisons) \in Nat /\ DOMAIN comparisons = 1..Len(comparisons)
  BY DEF CatalogInv
<1>6. PICK n : n = Len(comparisons) + 1
  OBVIOUS
<1>7. /\ Len(comparisons') \in Nat /\ DOMAIN comparisons' = 1..Len(comparisons')
      /\ \A i \in DOMAIN comparisons' : i # n => i \in DOMAIN comparisons /\ comparisons'[i] = comparisons[i]
      /\ comparisons'[n] = c
  BY <1>4, <1>5, <1>6
<1>8. \A k : ComparisonFits(k)' <=> ComparisonFits(k)
  BY DEF ComparisonFits, diff, Apart
<1>9. \A i \in DOMAIN comparisons' : ComparisonFits(comparisons[i])'
  BY <1>4, <1>7 DEF CatalogInv, ComparisonFits
<1> QED BY <1>1, <1>2, <1>7, <1>9 DEF CatalogInv, ClientsAreUnique

LEMMA LogInv ==
  ASSUME CatalogInv, purgeExpired \/ \E days \in {1, Retention} : TimePasses(days)
  PROVE  LogFits(callLog')
<1>1. LogFits(callLog)
  BY DEF CatalogInv
<1>2. CASE \E days \in {1, Retention} : TimePasses(days)
  <2>1. PICK days \in Nat : callLog' = [i \in DOMAIN callLog |-> callLog[i] + days]
    BY <1>2, CatalogConstants DEF TimePasses
  <2>2. Len(callLog') = Len(callLog) /\ DOMAIN callLog' = DOMAIN callLog
        /\ \A i \in DOMAIN callLog : callLog'[i] = callLog[i] + days
    BY <1>1, <2>1 DEF LogFits
  <2> QED BY <1>1, <2>1, <2>2 DEF LogFits
<1>3. CASE purgeExpired
  <2>1. PICK young : young = {i \in DOMAIN callLog : callLog[i] <= Retention}
    OBVIOUS
  <2>2. PICK n : n = Cardinality(young)
    OBVIOUS
  <2>3. callLog' = SubSeq(callLog, 1, n)
    BY <1>3, <2>1, <2>2 DEF purgeExpired
  <2>4. n \in 0..Len(callLog)
    <3>1. IsFiniteSet(1..Len(callLog)) /\ Cardinality(1..Len(callLog)) = Len(callLog)
      BY <1>1, FS_Interval DEF LogFits
    <3>2. young \subseteq 1..Len(callLog)
      BY <1>1, <2>1 DEF LogFits
    <3>3. IsFiniteSet(young) /\ Cardinality(young) <= Cardinality(1..Len(callLog))
      BY <3>1, <3>2, FS_Subset
    <3>4. Cardinality(young) \in Nat
      BY <3>3, FS_CardinalityType
    <3> QED BY <1>1, <2>2, <3>1, <3>3, <3>4 DEF LogFits
  <2>5. Len(callLog') = n /\ DOMAIN callLog' = 1..n /\ \A i \in 1..n : callLog'[i] = callLog[i]
    BY <1>1, <2>3, <2>4 DEF LogFits
  <2>6. 1..n \subseteq DOMAIN callLog
    BY <1>1, <2>4 DEF LogFits
  <2> QED BY <1>1, <2>4, <2>5, <2>6 DEF LogFits
<1> QED BY <1>2, <1>3

LEMMA RecordedLog ==
  ASSUME LogFits(callLog), NEW log, log \in {callLog, << 0 >> \o callLog}
  PROVE  LogFits(log)
<1>1. CASE log = << 0 >> \o callLog
  <2>1. Len(callLog) \in Nat /\ DOMAIN callLog = 1..Len(callLog)
    BY DEF LogFits
  <2>2. PICK n \in Nat : n = Len(callLog)
    BY <2>1
  <2>3. Len(log) = n + 1 /\ DOMAIN log = 1..(n + 1) /\ log[1] = 0
        /\ \A i \in 2..(n + 1) : log[i] = callLog[i - 1]
    BY <1>1, <2>1, <2>2
  <2>4. \A i \in 2..(n + 1) : i - 1 \in DOMAIN callLog /\ log[i] \in Nat
    BY <2>1, <2>2, <2>3 DEF LogFits
  <2>5. \A i \in DOMAIN log : i = 1 \/ i \in 2..(n + 1)
    BY <2>2, <2>3
  <2>6. \A i \in DOMAIN log : log[i] \in Nat
    BY <2>3, <2>4, <2>5
  <2>7. ASSUME NEW i \in DOMAIN log, NEW j \in DOMAIN log, i < j PROVE log[i] <= log[j]
    <3>1. CASE i = 1
      BY <2>3, <2>6, <2>7, <3>1
    <3>2. CASE i \in 2..(n + 1)
      <4>1. j \in 2..(n + 1) /\ i - 1 < j - 1
        BY <2>2, <2>3, <2>7, <3>2
      <4> QED BY <2>3, <2>4, <3>2, <4>1 DEF LogFits
    <3> QED BY <2>5, <3>1, <3>2
  <2> QED BY <2>2, <2>3, <2>6, <2>7 DEF LogFits
<1> QED BY <1>1

LEMMA CatalogInvStep == CatalogInv /\ [CatalogNext]_catalogVars => CatalogInv'
<1> SUFFICES ASSUME CatalogInv, [CatalogNext]_catalogVars PROVE CatalogInv'
  OBVIOUS
<1>1. \A c : ComparisonFits(c)' <=> ComparisonFits(c)
  BY DEF ComparisonFits, diff, Apart
<1>2. ASSUME UNCHANGED <<clients, points, comparisons>>, LogFits(callLog'),
             DOMAIN tasks' = Tasks, \A t \in Tasks : TaskFits(tasks[t])'
      PROVE  CatalogInv'
  <2>1. LogFits(callLog)'
    BY <1>2 DEF LogFits
  <2> QED BY <1>1, <1>2, <2>1 DEF CatalogInv, ClientsAreUnique
<1>3. ASSUME UNCHANGED <<points, tasks>>
      PROVE  DOMAIN tasks' = Tasks /\ \A t \in Tasks : TaskFits(tasks[t])'
  BY <1>3 DEF CatalogInv, TaskFits
<1>4. CASE PointOpensOrCloses \/ UNCHANGED catalogVars
  BY <1>2, <1>3, <1>4 DEF PointOpensOrCloses, catalogVars, CatalogInv
<1>5. CASE purgeExpired \/ \E days \in {1, Retention} : TimePasses(days)
  BY <1>2, <1>3, <1>5, LogInv DEF purgeExpired, TimePasses
<1>6. ASSUME NEW t \in Tasks, record(t) PROVE CatalogInv'
  <2>1. LogFits(callLog')
    BY <1>6, RecordedLog DEF record, CatalogInv
  <2> QED BY <1>2, <1>6, <2>1, OverFits DEF record
<1> QED BY <1>4, <1>5, <1>6, ClientsInv, PointsInv, CompareInv DEF CatalogNext

\* The last comparisons, and how many of them matched.
Rate(m, w) == (m * 20000 + w) \div (2 * w)

SummaryIs(n, w, good, m) ==
  /\ w <= n /\ w <= SummaryWindow /\ (n > 0 => w > 0)
  /\ good = {i \in 1..w : comparisons[n - w + i].matched} /\ m = Cardinality(good)
  /\ summary.total = w /\ summary.matched = m /\ summary.mismatched = w - m
  /\ w > 0 => summary.matchRate = Rate(m, w)

LEMMA Summarised ==
  ASSUME CatalogInv
  PROVE  \E w, m \in Nat : \E good \in SUBSET (1..w) : SummaryIs(Len(comparisons), w, good, m)
<1> PICK n : n = Len(comparisons)
  OBVIOUS
<1>1. PICK first : first = IF Len(comparisons) > SummaryWindow THEN Len(comparisons) - SummaryWindow + 1 ELSE 1
  OBVIOUS
<1>2. PICK latest : latest = SubSeq(comparisons, first, Len(comparisons))
  OBVIOUS
<1>3. PICK good : good = {i \in DOMAIN latest : latest[i].matched}
  OBVIOUS
<1>4. PICK m : m = Cardinality(good)
  OBVIOUS
<1>5. summary = [total |-> Len(latest), matched |-> m, mismatched |-> Len(latest) - m,
                 matchRate |-> IF latest = <<>> THEN Absent
                               ELSE Rate(m, Len(latest))]
  <2> DEFINE s == SubSeq(comparisons, IF Len(comparisons) > SummaryWindow THEN Len(comparisons) - SummaryWindow + 1 ELSE 1,
                         Len(comparisons))
             c == Cardinality({i \in DOMAIN s : s[i].matched})
  <2>1. summary = [total |-> Len(s), matched |-> c, mismatched |-> Len(s) - c,
                   matchRate |-> IF s = <<>> THEN Absent ELSE Rate(c, Len(s))]
    BY DEF summary, Rate
  <2>2. s = latest
    BY <1>1, <1>2
  <2> HIDE DEF s
  <2>3. c = m
    BY <1>3, <1>4, <2>2
  <2> HIDE DEF c
  <2> QED BY <2>1, <2>2, <2>3
<1>6. n \in Nat /\ DOMAIN comparisons = 1..n /\ SummaryWindow \in Nat /\ SummaryWindow > 0
  BY CatalogConstants DEF CatalogInv
<1>7. PICK w \in Nat : w = n - first + 1 /\ w <= n /\ w <= SummaryWindow /\ (n > 0 => w > 0) /\ first \in Nat \ {0}
  BY <1>1, <1>6
<1>8. Len(latest) = w /\ DOMAIN latest = 1..w /\ \A i \in 1..w : latest[i] = comparisons[n - w + i]
  <2>1. Len(latest) = w /\ DOMAIN latest = 1..w /\ \A i \in 1..w : latest[i] = comparisons[first + i - 1]
    BY <1>2, <1>6, <1>7
  <2>2. \A i \in 1..w : first + i - 1 = n - w + i
    BY <1>6, <1>7
  <2> QED BY <2>1, <2>2
<1>9. good = {i \in 1..w : comparisons[n - w + i].matched}
  BY <1>3, <1>8
<1>10. m \in Nat
  <2>1. IsFiniteSet(1..w) /\ good \subseteq 1..w
    BY <1>7, <1>9, FS_Interval
  <2> QED BY <1>4, <2>1, FS_Subset, FS_CardinalityType
<1>11. latest = <<>> <=> w = 0
  BY <1>8
<1>12. summary.total = w /\ summary.matched = m /\ summary.mismatched = w - m
       /\ summary.matchRate = (IF w = 0 THEN Absent ELSE Rate(m, w))
  BY <1>5, <1>8, <1>11
<1>13. SummaryIs(n, w, good, m) /\ good \in SUBSET (1..w)
  <2>1. good \in SUBSET (1..w)
    BY <1>9
  <2>2. w > 0 => summary.matchRate = Rate(m, w)
    BY <1>12
  <2>3. w <= n /\ w <= SummaryWindow /\ (n > 0 => w > 0)
    BY <1>7
  <2>4. good = {i \in 1..w : comparisons[n - w + i].matched} /\ m = Cardinality(good)
    BY <1>4, <1>9
  <2>5. summary.total = w /\ summary.matched = m /\ summary.mismatched = w - m
    BY <1>12
  <2>6. SummaryIs(n, w, good, m)
    BY <2>2, <2>3, <2>4, <2>5, Zenon DEF SummaryIs
  <2> QED BY <2>1, <2>6
<1> QED BY <1>10, <1>13

\* To the hundredth of a percent, a rate of 100 % is a perfect one in fewer
\* than 20000 comparisons.
LEMMA PerfectRate ==
  ASSUME NEW w \in Nat, NEW m \in Nat, m <= w, w > 0, w < 20000
  PROVE  (Rate(m, w) = 10000 => m = w) /\ (m = w => Rate(m, w) = 10000)
<1>1. PICK d \in Int : d = 2 * w /\ d > 0
  OBVIOUS
<1>2. PICK t \in Int : t = m * 20000 + w /\ t >= 0
  OBVIOUS
<1>0. PICK q \in Int : q = t \div d
  BY <1>1, <1>2, SMTT(30)
<1>3. q * d <= m * 20000 + w /\ m * 20000 + w < q * d + d
  <2>1. q * d <= t /\ t < q * d + d
    BY <1>0, <1>1, <1>2, SMTT(30)
  <2> QED BY <1>2, <2>1
<1>4. ASSUME q = 10000 PROVE m = w
  <2>1. m * 20000 + w < 10000 * d + d /\ 10000 * d <= m * 20000 + w
    BY <1>3, <1>4
  <2>2. 20000 * w <= m * 20000 + w /\ w \in Int /\ w <= 19999
    BY <1>1, <2>1
  <2>3. 20000 * (w - m) <= 19999
    BY <2>2
  <2> QED BY <2>3
<1>5. ASSUME m = w PROVE q = 10000
  <2>1. (q - 10000) * d <= w /\ w < (q - 10000) * d + d
    <3>1. (q - 10000) * d = q * d - 10000 * d
      BY <1>1, SMTT(30)
    <3> QED BY <1>1, <1>3, <1>5, <3>1
  <2>2. PICK k \in Int : k = q - 10000
    OBVIOUS
  <2>3. k * d <= w /\ w < k * d + d
    BY <2>1, <2>2
  <2>4. k >= 1 => k * d >= d
    BY <1>1, SMTT(30)
  <2>5. k <= -1 => k * d <= -d
    BY <1>1, SMTT(30)
  <2>6. ~(k >= 1) /\ ~(k <= -1)
    BY <1>1, <2>3, <2>4, <2>5
  <2> QED BY <2>2, <2>6
<1>6. Rate(m, w) = q
  BY <1>0, <1>1, <1>2 DEF Rate
<1> QED BY <1>4, <1>5, <1>6

\* Off by more than the cents, or in the number.
Differs(expected, cents) ==
  \/ \E f \in MoneyFields : Apart(expected, f) > cents
  \/ expected.number \notin {Absent, Plan.number}

LEMMA Comparing ==
  ASSUME NEW c, ComparisonFits(c)
  PROVE  /\ c.matched => ~Differs(c.expected, 1)
         /\ ~Differs(c.expected, 0) => c.matched
<1>1. PICK expected \in Expectations : expected = c.expected
  BY DEF ComparisonFits
<1>2. \A f \in MoneyFields : Apart(expected, f) \in Nat
  BY CatalogConstants DEF MoneyFields, Apart
<1>3. PICK byOneCent \in SUBSET {f \in MoneyFields : Apart(expected, f) = 1} :
        c.differences = {f \in MoneyFields : Apart(expected, f) > 1} \cup byOneCent
                          \cup (IF expected.number \in {Absent, Plan.number} THEN {} ELSE {"number"})
  BY <1>1 DEF ComparisonFits, diff
<1>4. ASSUME c.differences = {} PROVE ~Differs(expected, 1)
  <2>1. expected.number \in {Absent, Plan.number}
    BY <1>3, <1>4
  <2>2. \A f \in MoneyFields : ~(Apart(expected, f) > 1)
    BY <1>3, <1>4
  <2> QED BY <2>1, <2>2 DEF Differs
<1>5. ASSUME ~Differs(expected, 0) PROVE c.differences = {}
  <2>1. expected.number \in {Absent, Plan.number} /\ \A f \in MoneyFields : Apart(expected, f) = 0
    BY <1>2, <1>5 DEF Differs
  <2> QED BY <1>3, <2>1
<1> QED BY <1>1, <1>4, <1>5 DEF ComparisonFits

LEMMA SummaryInv == CatalogInv => SummaryCounts
<1> SUFFICES ASSUME CatalogInv PROVE SummaryCounts
  OBVIOUS
<1>1. PICK n : n = Len(comparisons)
  OBVIOUS
<1>2. n \in Nat /\ DOMAIN comparisons = 1..n
  BY <1>1 DEF CatalogInv
<1>30. PICK w \in Nat, m \in Nat : \E good \in SUBSET (1..w) : SummaryIs(n, w, good, m)
  BY <1>1, Summarised
<1>3. PICK good \in SUBSET (1..w) : SummaryIs(n, w, good, m)
  BY <1>30
<1>4. m <= w /\ (m = w => good = 1..w) /\ (good = 1..w => m = w)
  <2>1. IsFiniteSet(1..w) /\ Cardinality(1..w) = w
    BY FS_Interval
  <2>3. m = Cardinality(good)
    BY <1>3 DEF SummaryIs
  <2>2. Cardinality(good) <= Cardinality(1..w) /\ (Cardinality(good) = Cardinality(1..w) => good = 1..w)
    BY <2>1, FS_Subset
  <2> QED BY <2>1, <2>2, <2>3
<1>5. \A i \in (n - w + 1)..n : i - (n - w) \in 1..w /\ n - w + (i - (n - w)) = i /\ i \in DOMAIN comparisons
  BY <1>2, <1>3 DEF SummaryIs
<1>6. \A i \in DOMAIN comparisons : ComparisonFits(comparisons[i])
  BY DEF CatalogInv
<1>7. ASSUME w > 0 PROVE (summary.matchRate = 10000 => m = w) /\ (m = w => summary.matchRate = 10000)
  <2>1. w <= SummaryWindow /\ SummaryWindow \in 1..19999 /\ summary.matchRate = Rate(m, w)
    BY SMTT(60), <1>3, <1>7, CatalogConstants DEF SummaryIs
  <2>2. w \in Nat /\ w > 0 /\ w < 20000 /\ m \in Nat /\ m <= w
    BY <1>4, <1>7, <1>30, <2>1
  <2>3. (Rate(m, w) = 10000 => m = w) /\ (m = w => Rate(m, w) = 10000)
    BY <2>2, PerfectRate
  <2> QED BY <2>1, <2>3
<1>8. ASSUME summary.matchRate = 10000, NEW i \in (n - w + 1)..n PROVE ~Differs(comparisons[i].expected, 1)
  <2>1. w > 0
    BY <1>2, <1>3, <1>8 DEF SummaryIs
  <2>2. good = 1..w
    BY <1>4, <1>7, <1>8, <2>1
  <2>3. comparisons[i].matched
    BY <1>3, <1>5, <1>8, <2>2 DEF SummaryIs
  <2> QED BY <1>5, <1>6, <1>8, <2>3, Comparing
<1>9. ASSUME comparisons # <<>>, \A i \in (n - w + 1)..n : ~Differs(comparisons[i].expected, 0)
      PROVE  summary.matchRate = 10000
  <2>1. n > 0
    BY <1>1, <1>2, <1>9
  <2>2. \A i \in (n - w + 1)..n : comparisons[i].matched
    BY <1>5, <1>6, <1>9, Comparing
  <2>3. \A i \in 1..w : n - w + i \in (n - w + 1)..n
    BY <1>2, <1>3 DEF SummaryIs
  <2>4. good = 1..w
    BY <1>3, <2>2, <2>3 DEF SummaryIs
  <2> QED BY <1>3, <1>4, <1>7, <2>1, <2>4 DEF SummaryIs
<1>10. summary.total = summary.matched + summary.mismatched /\ summary.total <= SummaryWindow
  BY <1>3, <1>4 DEF SummaryIs
<1>11. summary.total = w
  BY <1>3 DEF SummaryIs
<1> QED BY <1>1, <1>8, <1>9, <1>10, <1>11 DEF SummaryCounts, Differs

LEMMA PagesInv == CatalogInv => LogIsPaged
<1> SUFFICES ASSUME CatalogInv, NEW limit \in {1, MaxPage + 1}
             PROVE  LET page == listForIssuer(limit)
                    IN Len(page) <= MaxPage /\ \A i \in DOMAIN page : \A j \in DOMAIN callLog :
                         callLog[j] < page[i] => \E k \in 1..i : page[k] = callLog[j]
  BY DEF LogIsPaged
<1>1. LogFits(callLog) /\ MaxPage \in Nat \ {0} /\ limit \in Nat
  BY CatalogConstants DEF CatalogInv
<1>2. PICK n \in Nat : /\ n <= MaxPage /\ n <= Len(callLog)
                       /\ listForIssuer(limit) = SubSeq(callLog, 1, n)
  <2>1. PICK p \in Nat : p = (IF limit < MaxPage THEN limit ELSE MaxPage) /\ p <= MaxPage
    BY <1>1
  <2>2. listForIssuer(limit) = SubSeq(callLog, 1, IF p < Len(callLog) THEN p ELSE Len(callLog))
    BY <2>1 DEF listForIssuer
  <2>4. Len(callLog) \in Nat
    BY <1>1 DEF LogFits
  <2>3. PICK n \in Nat : n = (IF p < Len(callLog) THEN p ELSE Len(callLog)) /\ n <= p /\ n <= Len(callLog)
    BY <2>1, <2>4
  <2> QED BY <1>1, <2>1, <2>2, <2>3
<1>3. PICK page : page = listForIssuer(limit)
  OBVIOUS
<1>4. Len(page) = n /\ DOMAIN page = 1..n /\ (\A i \in 1..n : page[i] = callLog[i])
      /\ 1..n \subseteq DOMAIN callLog
  BY <1>1, <1>2, <1>3 DEF LogFits
<1>5. ASSUME NEW i \in 1..n, NEW j \in DOMAIN callLog, callLog[j] < callLog[i] PROVE j \in 1..i /\ j \in 1..n
  <2>1. i \in DOMAIN callLog /\ callLog[i] \in Nat /\ callLog[j] \in Nat /\ i \in Nat /\ j \in Nat /\ j >= 1
    BY <1>1, <1>4 DEF LogFits
  <2>2. ~(i < j) /\ i # j
    BY <1>1, <1>5, <2>1 DEF LogFits
  <2> QED BY <2>1, <2>2
<1> QED BY <1>2, <1>3, <1>4, <1>5

\* The tables of clients, sales points, comparisons and calls (clients.service.ts,
\* sales-points.service.ts, shadow.service.ts, arca-call-log.service.ts), for
\* any tasks that overlap at their database calls.
THEOREM TablesStayConsistent == CatalogSpec => []CatalogHolds
<1>1. CatalogInv => SyncKeeps
  BY DEF CatalogInv, TaskFits, SyncKeeps
<1>2. CatalogInv => CatalogHolds
  BY <1>1, SummaryInv, PagesInv DEF CatalogHolds, CatalogInv
<1> QED BY <1>2, CatalogInitInv, CatalogInvStep, PTL DEF CatalogSpec

-----------------------------------------------------------------------------
(* The rate limits.                                                           *)

\* The arrivals of a key within a span of time.
Within(log, key, a, b) == {i \in DOMAIN log : log[i][1] = key /\ log[i][2] \in a..b}

LEMMA LetIsWithin == \A key, a, b : Let(key, a, b) = Cardinality(Within(arrivals, key, a, b))
  BY DEF Let, Within

\* More time holds no fewer arrivals, and two spans no fewer than their union.
LEMMA WithinFinite ==
  ASSUME NEW log, Len(log) \in Nat, DOMAIN log = 1..Len(log), NEW key, NEW a, NEW b
  PROVE  IsFiniteSet(Within(log, key, a, b)) /\ Cardinality(Within(log, key, a, b)) \in Nat
<1>1. IsFiniteSet(1..Len(log))
  BY FS_Interval
<1>2. Within(log, key, a, b) \subseteq 1..Len(log)
  BY DEF Within
<1>3. IsFiniteSet(Within(log, key, a, b))
  BY <1>1, <1>2, FS_Subset
<1> QED BY <1>3, FS_CardinalityType

LEMMA WithinGrows ==
  ASSUME NEW log, Len(log) \in Nat, DOMAIN log = 1..Len(log), NEW key,
         NEW a \in Int, NEW b \in Int, NEW c \in Int, NEW d \in Int, c <= a, b <= d
  PROVE  Cardinality(Within(log, key, a, b)) <= Cardinality(Within(log, key, c, d))
<1>1. Within(log, key, a, b) \subseteq Within(log, key, c, d)
  BY DEF Within
<1>2. IsFiniteSet(Within(log, key, c, d))
  BY WithinFinite
<1> QED BY <1>1, <1>2, FS_Subset

LEMMA WithinSplits ==
  ASSUME NEW log, Len(log) \in Nat, DOMAIN log = 1..Len(log), NEW key,
         NEW a \in Int, NEW b \in Int, NEW c \in Int
  PROVE  Cardinality(Within(log, key, a, c)) <=
           Cardinality(Within(log, key, a, b - 1)) + Cardinality(Within(log, key, b, c))
<1> DEFINE S == Within(log, key, a, b - 1)
           T == Within(log, key, b, c)
           U == Within(log, key, a, c)
<1>1. IsFiniteSet(S) /\ IsFiniteSet(T) /\ Cardinality(S) \in Nat /\ Cardinality(T) \in Nat
  BY WithinFinite
<1>2. U \subseteq S \cup T
  BY DEF Within
<1> HIDE DEF S, T, U
<1>3. IsFiniteSet(S \cup T) /\ Cardinality(S \cup T) = Cardinality(S) + Cardinality(T) - Cardinality(S \cap T)
  BY <1>1, FS_Union
<1>4. IsFiniteSet(S \cap T)
  BY <1>1, FS_Intersection
<1>5. Cardinality(S \cap T) \in Nat
  BY <1>4, FS_CardinalityType
<1>6. Cardinality(U) <= Cardinality(S \cup T)
  BY <1>2, <1>3, FS_Subset
<1>7. IsFiniteSet(U)
  BY <1>2, <1>3, FS_Subset
<1>8. Cardinality(U) \in Nat
  BY <1>7, FS_CardinalityType
<1>9. Cardinality(U) <= Cardinality(S) + Cardinality(T)
  BY <1>1, <1>3, <1>5, <1>6, <1>8
<1> QED BY <1>9 DEF S, T, U

\* One arrival more, in the span or not.
LogsOne(longer, log, key, at) == longer = Append(log, <<key, at>>)

LEMMA WithinAppend ==
  ASSUME NEW log, Len(log) \in Nat, DOMAIN log = 1..Len(log), NEW key, NEW at \in Int,
         NEW longer, LogsOne(longer, log, key, at)
  PROVE  /\ Len(longer) = Len(log) + 1 /\ DOMAIN longer = 1..(Len(log) + 1)
         /\ longer[Len(log) + 1] = <<key, at>> /\ \A i \in DOMAIN log : longer[i] = log[i]
BY DEF LogsOne

LEMMA WithinMore ==
  ASSUME NEW log, Len(log) \in Nat, DOMAIN log = 1..Len(log), NEW key, NEW at \in Int,
         NEW longer, LogsOne(longer, log, key, at), NEW a \in Int, NEW b \in Int, a <= at, at <= b
  PROVE  Cardinality(Within(longer, key, a, b)) = Cardinality(Within(log, key, a, b)) + 1
<1>1. PICK n \in Nat : n = Len(log)
  OBVIOUS
<1>2. /\ DOMAIN log = 1..n /\ DOMAIN longer = 1..(n + 1)
      /\ longer[n + 1] = <<key, at>> /\ \A i \in 1..n : longer[i] = log[i]
  BY <1>1, WithinAppend
<1>3. n + 1 \notin Within(log, key, a, b)
  BY <1>1 DEF Within
<1>4. IsFiniteSet(Within(log, key, a, b))
  BY WithinFinite
<1>5. Within(longer, key, a, b) = Within(log, key, a, b) \cup {n + 1}
  BY <1>1, <1>2 DEF Within
<1>6. Cardinality(Within(log, key, a, b) \cup {n + 1}) = Cardinality(Within(log, key, a, b)) + 1
  BY <1>3, <1>4, FS_AddElement
<1> QED BY <1>5, <1>6

LEMMA WithinSame ==
  ASSUME NEW log, Len(log) \in Nat, DOMAIN log = 1..Len(log), NEW who, NEW at \in Int,
         NEW longer, LogsOne(longer, log, who, at), NEW key, NEW a \in Int, NEW b \in Int,
         key # who \/ at < a \/ b < at
  PROVE  Within(longer, key, a, b) = Within(log, key, a, b)
<1>1. PICK n \in Nat : n = Len(log)
  OBVIOUS
<1>2. /\ DOMAIN log = 1..n /\ DOMAIN longer = 1..(n + 1)
      /\ longer[n + 1] = <<who, at>> /\ \A i \in 1..n : longer[i] = log[i]
  BY <1>1, WithinAppend
<1> QED BY <1>1, <1>2 DEF Within

\* The spans of a key that reach the present, from those of its window.
LEMMA Spans ==
  ASSUME NEW log, Len(log) \in Nat, DOMAIN log = 1..Len(log), NEW key, NEW now \in Int,
         \A i \in DOMAIN log : log[i][2] <= now /\ log[i][2] \in Int, NEW s \in Int, s <= now,
         NEW max \in Nat, NEW width \in Nat \ {0},
         Cardinality(Within(log, key, s, now)) <= max,
         Cardinality(Within(log, key, s - width, s - 1)) <= max,
         NEW from \in Int, from <= now, now <= from + width - 1
  PROVE  /\ from = now => Cardinality(Within(log, key, from, from)) <= max
         /\ Cardinality(Within(log, key, from, from + width - 1)) <= 2 * max
<1>1. ASSUME from = now PROVE Cardinality(Within(log, key, from, from)) <= max
  <2>1. Cardinality(Within(log, key, now, now)) <= Cardinality(Within(log, key, s, now))
    BY WithinGrows
  <2>2. Cardinality(Within(log, key, now, now)) \in Nat /\ Cardinality(Within(log, key, s, now)) \in Nat
    BY WithinFinite
  <2> QED BY <1>1, <2>1, <2>2
<1>2. Cardinality(Within(log, key, from, from + width - 1)) <= 2 * max
  <2>1. PICK last \in Int : last = from + width - 1
    OBVIOUS
  <2>2. Cardinality(Within(log, key, from, last)) <=
          Cardinality(Within(log, key, from, s - 1)) + Cardinality(Within(log, key, s, last))
    BY WithinSplits
  <2>3. Cardinality(Within(log, key, from, s - 1)) <= Cardinality(Within(log, key, s - width, s - 1))
    <3>1. s - width \in Int /\ s - 1 \in Int /\ s - width <= from
      OBVIOUS
    <3> QED BY <3>1, WithinGrows
  <2>4. Cardinality(Within(log, key, s, last)) <= Cardinality(Within(log, key, s, now))
    <3>1. Within(log, key, s, last) \subseteq Within(log, key, s, now)
      BY DEF Within
    <3>2. IsFiniteSet(Within(log, key, s, now))
      BY WithinFinite
    <3> QED BY <3>1, <3>2, FS_Subset
  <2>5. /\ Cardinality(Within(log, key, from, last)) \in Nat
        /\ Cardinality(Within(log, key, from, s - 1)) \in Nat
        /\ Cardinality(Within(log, key, s, last)) \in Nat
        /\ Cardinality(Within(log, key, s - width, s - 1)) \in Nat
        /\ Cardinality(Within(log, key, s, now)) \in Nat
    BY WithinFinite
  <2>6. Cardinality(Within(log, key, from, last)) <= max + max
    <3>1. PICK a, b, c, d, e \in Nat : /\ a = Cardinality(Within(log, key, from, last))
                                       /\ b = Cardinality(Within(log, key, from, s - 1))
                                       /\ c = Cardinality(Within(log, key, s, last))
                                       /\ d = Cardinality(Within(log, key, s - width, s - 1))
                                       /\ e = Cardinality(Within(log, key, s, now))
      BY <2>5
    <3>2. a <= b + c /\ b <= d /\ c <= e /\ d <= max /\ e <= max
      BY <2>2, <2>3, <2>4, <3>1
    <3>3. a <= max + max
      BY <3>2
    <3> QED BY <3>1, <3>3
  <2> QED BY <2>1, <2>6
<1> QED BY <1>1, <1>2

\* What the history says of a key, for a log of arrivals and a window that
\* begins at s and has counted n.
Fits(log, now, key, s, n) ==
  /\ s \in Int /\ s <= now /\ n \in Nat /\ n <= MaxPerWindow
  /\ Cardinality(Within(log, key, s, now)) = n
  /\ Cardinality(Within(log, key, s - WindowTicks, s - 1)) <= MaxPerWindow
  /\ \A from \in Int :
       /\ Cardinality(Within(log, key, from, from)) <= MaxPerWindow
       /\ Cardinality(Within(log, key, from, from + WindowTicks - 1)) <= 2 * MaxPerWindow

LogFine(log, now) ==
  /\ Len(log) \in Nat /\ DOMAIN log = 1..Len(log)
  /\ \A i \in DOMAIN log : log[i][1] \in Keys /\ log[i][2] \in 0..now

\* The passing of time: a window goes on, or it ends, or none was open.
LEMMA LaterFits ==
  ASSUME NEW log, NEW now \in Nat, LogFine(log, now), NEW key, NEW s, NEW n, Fits(log, now, key, s, n)
  PROVE  /\ Fits(log, now + 1, key, s, n)
         /\ s + WindowTicks = now + 1 \/ (s = now /\ n = 0) => Fits(log, now + 1, key, now + 1, 0)
<1>1. Len(log) \in Nat /\ DOMAIN log = 1..Len(log) /\ WindowTicks \in Nat \ {0} /\ MaxPerWindow \in Nat
      /\ s \in Int /\ n \in Nat /\ n <= MaxPerWindow /\ s <= now
  BY RateConstants DEF LogFine, Fits
<1>2. Within(log, key, s, now + 1) = Within(log, key, s, now)
  BY <1>1 DEF LogFine, Within
<1>3. Within(log, key, now + 1, now + 1) = {}
  BY <1>1 DEF LogFine, Within
<1>4. Cardinality({}) = 0
  BY FS_EmptySet
<1>5. Cardinality(Within(log, key, s, now)) = n
  BY DEF Fits
<1>6. Fits(log, now + 1, key, s, n)
  BY <1>1, <1>2 DEF Fits
<1>7. ASSUME s + WindowTicks = now + 1
      PROVE  Cardinality(Within(log, key, now + 1 - WindowTicks, now + 1 - 1)) <= MaxPerWindow
  <2>1. now + 1 - WindowTicks = s /\ now + 1 - 1 = now
    BY <1>1, <1>7
  <2> QED BY <1>1, <1>5, <2>1
<1>8. ASSUME s = now, n = 0
      PROVE  Cardinality(Within(log, key, now + 1 - WindowTicks, now + 1 - 1)) <= MaxPerWindow
  <2>1. PICK a \in Int : a = now + 1 - WindowTicks
    BY <1>1
  <2>2. Cardinality(Within(log, key, a, now)) <=
          Cardinality(Within(log, key, a, now - 1)) + Cardinality(Within(log, key, now, now))
    BY <1>1, WithinSplits
  <2>3. Cardinality(Within(log, key, a, now - 1)) <= Cardinality(Within(log, key, now - WindowTicks, now - 1))
    <3>1. now - WindowTicks \in Int /\ now - 1 \in Int /\ now - WindowTicks <= a
      BY <1>1, <2>1
    <3> QED BY <1>1, <3>1, WithinGrows
  <2>4. Cardinality(Within(log, key, now, now)) = 0
    BY <1>5, <1>8
  <2>5. Cardinality(Within(log, key, now - WindowTicks, now - 1)) <= MaxPerWindow
    BY <1>8 DEF Fits
  <2>6. /\ Cardinality(Within(log, key, a, now)) \in Nat
        /\ Cardinality(Within(log, key, a, now - 1)) \in Nat
        /\ Cardinality(Within(log, key, now - WindowTicks, now - 1)) \in Nat
    BY <1>1, WithinFinite
  <2>7. Cardinality(Within(log, key, a, now)) <= MaxPerWindow
    BY <1>1, <2>2, <2>3, <2>4, <2>5, <2>6
  <2>8. now + 1 - 1 = now
    OBVIOUS
  <2> QED BY <2>1, <2>7, <2>8
<1>9. ASSUME s + WindowTicks = now + 1 \/ (s = now /\ n = 0) PROVE Fits(log, now + 1, key, now + 1, 0)
  <2>1. Cardinality(Within(log, key, now + 1, now + 1)) = 0
    BY <1>3, <1>4
  <2>2. Cardinality(Within(log, key, now + 1 - WindowTicks, now + 1 - 1)) <= MaxPerWindow
    BY <1>7, <1>8, <1>9
  <2> QED BY <1>1, <2>1, <2>2 DEF Fits
<1> QED BY <1>6, <1>9

\* A key is let in: its window, open or new, counts one more.
LEMMA LetInFits ==
  ASSUME NEW log, NEW now \in Nat, LogFine(log, now), NEW key, NEW s, NEW n, Fits(log, now, key, s, n),
         n < MaxPerWindow, s > now - WindowTicks
  PROVE  Fits(Append(log, <<key, now>>), now, key, s, n + 1)
<1>1. Len(log) \in Nat /\ DOMAIN log = 1..Len(log) /\ WindowTicks \in Nat \ {0} /\ MaxPerWindow \in Nat
      /\ s \in Int /\ n \in Nat /\ s <= now
  BY RateConstants DEF LogFine, Fits
<1>2. PICK longer : longer = Append(log, <<key, now>>)
  OBVIOUS
<1>3. /\ Len(longer) \in Nat /\ DOMAIN longer = 1..Len(longer)
      /\ \A i \in DOMAIN longer : longer[i][2] <= now /\ longer[i][2] \in Int
  <2>1. PICK l \in Nat : l = Len(log)
    BY <1>1
  <2>2. Len(longer) = l + 1 /\ DOMAIN longer = 1..(l + 1) /\ longer[l + 1] = <<key, now>>
        /\ \A i \in 1..l : longer[i] = log[i]
    BY <1>1, <1>2, <2>1
  <2>3. \A i \in 1..l : log[i][2] <= now /\ log[i][2] \in Int
    BY <1>1, <2>1 DEF LogFine
  <2>4. longer[l + 1][2] = now
    BY <2>2
  <2> QED BY <2>1, <2>2, <2>3, <2>4
<1>4. ASSUME NEW a \in Int, NEW b \in Int
      PROVE  /\ a <= now /\ now <= b =>
                  Cardinality(Within(longer, key, a, b)) = Cardinality(Within(log, key, a, b)) + 1
             /\ ~(a <= now /\ now <= b) =>
                  Cardinality(Within(longer, key, a, b)) = Cardinality(Within(log, key, a, b))
  <2>1. now \in Int /\ LogsOne(longer, log, key, now)
    BY <1>2 DEF LogsOne
  <2>2. ASSUME a <= now, now <= b
        PROVE  Cardinality(Within(longer, key, a, b)) = Cardinality(Within(log, key, a, b)) + 1
    BY <1>1, <1>4, <2>1, <2>2, WithinMore
  <2>3. ASSUME ~(a <= now /\ now <= b)
        PROVE  Cardinality(Within(longer, key, a, b)) = Cardinality(Within(log, key, a, b))
    BY <1>1, <1>4, <2>1, <2>3, WithinSame
  <2> QED BY <2>2, <2>3
<1>5. Cardinality(Within(longer, key, s, now)) = n + 1
  BY <1>1, <1>4 DEF Fits
<1>6. Cardinality(Within(longer, key, s - WindowTicks, s - 1)) <= MaxPerWindow
  <2>1. s - WindowTicks \in Int /\ s - 1 \in Int /\ ~(now <= s - 1)
    BY <1>1
  <2> QED BY <1>4, <2>1 DEF Fits
<1>7. ASSUME NEW from \in Int
      PROVE  /\ Cardinality(Within(longer, key, from, from)) <= MaxPerWindow
             /\ Cardinality(Within(longer, key, from, from + WindowTicks - 1)) <= 2 * MaxPerWindow
  <2>1. n + 1 <= MaxPerWindow /\ from + WindowTicks - 1 \in Int
    BY <1>1
  <2>2. CASE from <= now /\ now <= from + WindowTicks - 1
    <3>1. /\ from = now => Cardinality(Within(longer, key, from, from)) <= MaxPerWindow
          /\ Cardinality(Within(longer, key, from, from + WindowTicks - 1)) <= 2 * MaxPerWindow
      <4>1. Cardinality(Within(longer, key, s, now)) <= MaxPerWindow
        BY <1>5, <2>1
      <4>2. now \in Int /\ s \in Int /\ s <= now /\ MaxPerWindow \in Nat /\ WindowTicks \in Nat \ {0}
        BY <1>1
      <4> QED BY <1>3, <1>6, <2>2, <4>1, <4>2, Spans
    <3>2. from # now => Cardinality(Within(longer, key, from, from)) <= MaxPerWindow
      BY <1>4 DEF Fits
    <3> QED BY <3>1, <3>2
  <2>3. CASE ~(from <= now /\ now <= from + WindowTicks - 1)
    <3>1. ~(from <= now /\ now <= from)
      BY <1>1, <2>3
    <3> QED BY <1>4, <2>1, <2>3, <3>1 DEF Fits
  <2> QED BY <2>2, <2>3
<1>8. n + 1 \in Nat /\ n + 1 <= MaxPerWindow
  BY <1>1
<1> QED BY <1>1, <1>2, <1>5, <1>6, <1>7, <1>8 DEF Fits

\* Where the window of a key begins, or would begin now, and what it counts.
Since(key) == IF Alive(key) THEN windows[key].resetAt - WindowTicks ELSE tick

CountOf(key) == IF Alive(key) THEN windows[key].count ELSE 0

WindowFits(key) ==
  /\ DOMAIN windows[key] = {"count", "resetAt"}
  /\ windows[key].count \in 1..MaxPerWindow
  /\ windows[key].resetAt \in Int /\ windows[key].resetAt <= tick + WindowTicks
  /\ windows[key].resetAt >= WindowTicks
  /\ Let(key, windows[key].resetAt - WindowTicks, windows[key].resetAt - WindowTicks) > 0

RefusalFits ==
  refused.key # "none" =>
    /\ refused.from \in Nat /\ refused.from <= tick
    /\ refused.until \in refused.from + 1..refused.from + WindowTicks
    /\ Let(refused.key, refused.until - WindowTicks, refused.from) >= MaxPerWindow

Busy(log, from) == {k \in Keys : Cardinality(Within(log, k, from - WindowTicks + 1, from)) > 0}

MapFits ==
  Cardinality(DOMAIN windows) > MaxTracked =>
    \E from \in 0..tick : Cardinality(Busy(arrivals, from)) > MaxTracked

RateInv ==
  /\ tick \in Nat /\ LogFine(arrivals, tick)
  /\ DOMAIN windows \subseteq Keys /\ \A key \in DOMAIN windows : WindowFits(key)
  /\ \A key \in Keys : Fits(arrivals, tick, key, Since(key), CountOf(key))
  /\ RefusalFits /\ MapFits

LEMMA RateInitInv == RateLimitsInit => RateInv
<1> SUFFICES ASSUME RateLimitsInit PROVE RateInv
  OBVIOUS
<1>1. tick = 0 /\ arrivals = <<>> /\ DOMAIN windows = {} /\ refused.key = "none"
  BY DEF RateLimitsInit
<1>2. LogFine(arrivals, tick)
  <2>1. Len(arrivals) = 0 /\ DOMAIN arrivals = {}
    BY <1>1
  <2> QED BY <2>1 DEF LogFine
<1>3. ASSUME NEW key, NEW a, NEW b PROVE Cardinality(Within(arrivals, key, a, b)) = 0
  <2>1. Within(arrivals, key, a, b) = {}
    BY <1>1 DEF Within
  <2> QED BY <2>1, FS_EmptySet
<1>4. ASSUME NEW key \in Keys PROVE Fits(arrivals, tick, key, Since(key), CountOf(key))
  <2>1. Since(key) = tick /\ CountOf(key) = 0
    BY <1>1 DEF Since, CountOf, Alive
  <2> QED BY <1>1, <1>3, <2>1, RateConstants DEF Fits
<1>5. MapFits
  <2>1. Cardinality(DOMAIN windows) = 0
    BY <1>1, FS_EmptySet
  <2> QED BY <2>1, RateConstants DEF MapFits
<1> QED BY <1>1, <1>2, <1>4, <1>5 DEF RateInv, RefusalFits

\* What a longer log, seen later, still says.
LEMMA LongerLog ==
  ASSUME RateInv, tick' \in Nat, tick' >= tick, LogFine(arrivals', tick'),
         \A key, a, b : Within(arrivals, key, a, b) \subseteq Within(arrivals', key, a, b)
  PROVE  /\ \A key, a, b : Let(key, a, b)' >= Let(key, a, b) /\ Let(key, a, b) \in Nat /\ Let(key, a, b)' \in Nat
         /\ \A from : Cardinality(Busy(arrivals', from)) >= Cardinality(Busy(arrivals, from))
         /\ UNCHANGED refused => RefusalFits'
         /\ UNCHANGED windows => MapFits'
<1>1. ASSUME NEW key, NEW a, NEW b
      PROVE  Let(key, a, b)' >= Let(key, a, b) /\ Let(key, a, b) \in Nat /\ Let(key, a, b)' \in Nat
  <2>1. Let(key, a, b) = Cardinality(Within(arrivals, key, a, b))
        /\ Let(key, a, b)' = Cardinality(Within(arrivals', key, a, b))
    BY DEF Let, Within
  <2>2. IsFiniteSet(Within(arrivals', key, a, b)) /\ Cardinality(Within(arrivals', key, a, b)) \in Nat
    BY WithinFinite DEF LogFine
  <2>3. Cardinality(Within(arrivals, key, a, b)) \in Nat
    BY WithinFinite DEF LogFine, RateInv
  <2>4. Cardinality(Within(arrivals, key, a, b)) <= Cardinality(Within(arrivals', key, a, b))
    BY <2>2, FS_Subset
  <2> QED BY <2>1, <2>2, <2>3, <2>4
<1>2. ASSUME NEW from PROVE /\ Cardinality(Busy(arrivals', from)) >= Cardinality(Busy(arrivals, from))
                            /\ Cardinality(Busy(arrivals', from)) \in Nat /\ Cardinality(Busy(arrivals, from)) \in Nat
  <2>1. Busy(arrivals, from) \subseteq Busy(arrivals', from)
    <3>1. ASSUME NEW k \in Busy(arrivals, from) PROVE k \in Busy(arrivals', from)
      <4>1. PICK a : a = from - WindowTicks + 1
        OBVIOUS
      <4>2. k \in Keys /\ Cardinality(Within(arrivals, k, a, from)) > 0
        BY <4>1 DEF Busy
      <4>3. Let(k, a, from) = Cardinality(Within(arrivals, k, a, from))
            /\ Let(k, a, from)' = Cardinality(Within(arrivals', k, a, from))
        BY DEF Let, Within
      <4>4. Cardinality(Within(arrivals', k, a, from)) > 0
        BY <1>1, <4>2, <4>3
      <4> QED BY <4>1, <4>2, <4>4 DEF Busy
    <3> QED BY <3>1
  <2>2. Busy(arrivals', from) \subseteq Keys /\ IsFiniteSet(Keys)
    BY RateConstants DEF Busy
  <2>3. IsFiniteSet(Busy(arrivals', from))
    BY <2>2, FS_Subset
  <2>4. IsFiniteSet(Busy(arrivals, from)) /\ Cardinality(Busy(arrivals, from)) <= Cardinality(Busy(arrivals', from))
    BY <2>1, <2>3, FS_Subset
  <2>5. Cardinality(Busy(arrivals', from)) \in Nat /\ Cardinality(Busy(arrivals, from)) \in Nat
    BY <2>3, <2>4, FS_CardinalityType
  <2> QED BY <2>4, <2>5
<1>3. ASSUME UNCHANGED refused PROVE RefusalFits'
  <2>1. PICK key, a, b : key = refused.key /\ a = refused.until - WindowTicks /\ b = refused.from
    OBVIOUS
  <2>2. Let(key, a, b)' >= Let(key, a, b) /\ Let(key, a, b) \in Nat /\ Let(key, a, b)' \in Nat
    BY <1>1
  <2>3. RefusalFits /\ tick \in Nat /\ MaxPerWindow \in Nat
    BY RateConstants DEF RateInv
  <2> QED BY <1>3, <2>1, <2>2, <2>3 DEF RefusalFits
<1>4. ASSUME UNCHANGED windows PROVE MapFits'
  <2>1. MapFits /\ tick \in Nat /\ MaxTracked \in Nat
    BY RateConstants DEF RateInv
  <2>2. CASE Cardinality(DOMAIN windows) > MaxTracked
    <3>1. PICK from \in 0..tick : Cardinality(Busy(arrivals, from)) > MaxTracked
      BY <2>1, <2>2 DEF MapFits
    <3>2. from \in 0..tick' /\ Cardinality(Busy(arrivals', from)) > MaxTracked
      BY <1>2, <2>1, <3>1
    <3> QED BY <3>2 DEF MapFits, Busy
  <2> QED BY <1>4, <2>2 DEF MapFits
<1> QED BY <1>1, <1>2, <1>3, <1>4

LEMMA TickInv == ASSUME RateInv, TimeTicks PROVE RateInv'
<1>1. tick' = tick + 1 /\ UNCHANGED <<windows, arrivals, refused>> /\ tick \in Nat
      /\ WindowTicks \in Nat \ {0}
  BY RateConstants DEF TimeTicks, RateInv
<1>2. LogFine(arrivals, tick) /\ LogFine(arrivals', tick')
  <2>1. LogFine(arrivals, tick)
    BY DEF RateInv
  <2>2. \A i \in DOMAIN arrivals : arrivals[i][2] \in 0..tick + 1
    BY <1>1, <2>1 DEF LogFine
  <2>3. LogFine(arrivals, tick + 1)
    BY <2>1, <2>2 DEF LogFine
  <2> QED BY <1>1, <2>1, <2>3
<1>3. RefusalFits' /\ MapFits'
  BY <1>1, <1>2, LongerLog
<1>4. ASSUME NEW key \in DOMAIN windows PROVE WindowFits(key)'
  <2>1. WindowFits(key)
    BY DEF RateInv
  <2> QED BY <1>1, <2>1 DEF WindowFits, Let
<1>5. ASSUME NEW key \in Keys PROVE Fits(arrivals, tick, key, Since(key), CountOf(key))'
  <2>1. PICK s, n : s = Since(key) /\ n = CountOf(key) /\ Fits(arrivals, tick, key, s, n)
    BY DEF RateInv
  <2>2. /\ Fits(arrivals, tick + 1, key, s, n)
        /\ s + WindowTicks = tick + 1 \/ (s = tick /\ n = 0) => Fits(arrivals, tick + 1, key, tick + 1, 0)
    BY <1>1, <1>2, <2>1, LaterFits
  <2>3. ASSUME key \in DOMAIN windows PROVE windows[key].resetAt \in Int
    BY <2>3 DEF RateInv, WindowFits
  <2>4. CASE Alive(key)'
    <3>1. Alive(key)
      BY <1>1, <2>3, <2>4 DEF Alive, Expired
    <3>2. Since(key)' = s /\ CountOf(key)' = n
      BY <1>1, <2>1, <2>4, <3>1 DEF Since, CountOf
    <3> QED BY <1>1, <2>2, <3>2 DEF Fits
  <2>5. CASE ~Alive(key)'
    <3>1. Since(key)' = tick + 1 /\ CountOf(key)' = 0
      BY <1>1, <2>5 DEF Since, CountOf
    <3>2. CASE Alive(key)
      <4>1. windows[key].resetAt = tick + 1
        BY <1>1, <2>3, <2>5, <3>2 DEF Alive, Expired
      <4>2. s + WindowTicks = tick + 1
        BY <1>1, <2>1, <3>2, <4>1 DEF Since
      <4> QED BY <1>1, <2>2, <3>1, <4>2 DEF Fits
    <3>3. CASE ~Alive(key)
      <4>1. s = tick /\ n = 0
        BY <2>1, <3>3 DEF Since, CountOf
      <4> QED BY <1>1, <2>2, <3>1, <4>1 DEF Fits
    <3> QED BY <3>2, <3>3
  <2> QED BY <2>4, <2>5
<1>6. tick' \in Nat /\ DOMAIN windows' \subseteq Keys
  BY <1>1 DEF RateInv
<1>7. LogFine(arrivals, tick)'
  BY <1>2 DEF LogFine
<1> QED BY <1>1, <1>3, <1>4, <1>5, <1>6, <1>7 DEF RateInv

\* A restart forgets the windows and begins the history again.
LEMMA LimiterRestartInv == ASSUME RateInv, LimiterRestart PROVE RateInv'
<1>1. tick' = tick /\ arrivals' = <<>> /\ DOMAIN windows' = {} /\ refused'.key = "none" /\ tick \in Nat
  BY DEF LimiterRestart, RateInv
<1>2. LogFine(arrivals, tick)'
  <2>1. Len(arrivals') = 0 /\ DOMAIN arrivals' = {}
    BY <1>1
  <2> QED BY <2>1 DEF LogFine
<1>3. ASSUME NEW key, NEW a, NEW b PROVE Cardinality(Within(arrivals', key, a, b)) = 0
  <2>1. Within(arrivals', key, a, b) = {}
    BY <1>1 DEF Within
  <2> QED BY <2>1, FS_EmptySet
<1>4. ASSUME NEW key \in Keys PROVE Fits(arrivals, tick, key, Since(key), CountOf(key))'
  <2>1. Since(key)' = tick /\ CountOf(key)' = 0
    BY <1>1 DEF Since, CountOf, Alive
  <2>2. Fits(arrivals', tick, key, tick, 0)
    BY <1>1, <1>3, RateConstants DEF Fits
  <2> QED BY <1>1, <2>1, <2>2 DEF Fits
<1>5. MapFits'
  <2>1. Cardinality(DOMAIN windows') = 0
    BY <1>1, FS_EmptySet
  <2> QED BY <2>1, RateConstants DEF MapFits
<1> QED BY <1>1, <1>2, <1>4, <1>5 DEF RateInv, RefusalFits

LEMMA RefuseInv ==
  ASSUME RateInv, NEW key \in Keys, Alive(key), windows[key].count >= MaxPerWindow,
         refused' = [key |-> key, from |-> tick, until |-> windows[key].resetAt],
         UNCHANGED <<tick, windows, arrivals>>
  PROVE  RateInv'
<1>1. WindowFits(key) /\ Fits(arrivals, tick, key, Since(key), CountOf(key)) /\ tick \in Nat
      /\ WindowTicks \in Nat /\ MaxPerWindow \in Nat
  BY RateConstants DEF RateInv, Alive
<1>2. PICK end : end = windows[key].resetAt
  OBVIOUS
<1>3. Let(key, end - WindowTicks, tick) >= MaxPerWindow
  <2>1. Since(key) = end - WindowTicks /\ CountOf(key) = windows[key].count
    BY <1>2 DEF Since, CountOf
  <2>2. Cardinality(Within(arrivals, key, end - WindowTicks, tick)) = windows[key].count
    BY <1>1, <2>1 DEF Fits
  <2> QED BY <2>2, LetIsWithin
<1>4. end \in tick + 1..tick + WindowTicks
  BY <1>1, <1>2 DEF WindowFits, Alive, Expired
<1>5. RefusalFits'
  <2>1. refused'.key = key /\ refused'.from = tick /\ refused'.until = end
    BY <1>2
  <2>2. Let(key, end - WindowTicks, tick)' = Let(key, end - WindowTicks, tick)
    BY DEF Let
  <2>3. Let(key, end - WindowTicks, tick)' >= MaxPerWindow
    BY <1>3, <2>2
  <2> QED BY <1>1, <1>4, <2>1, <2>3 DEF RefusalFits
<1>6. MapFits'
  BY DEF RateInv, MapFits, Busy
<1>7. ASSUME NEW k \in Keys PROVE Fits(arrivals, tick, k, Since(k), CountOf(k))'
  <2>1. Since(k)' = Since(k) /\ CountOf(k)' = CountOf(k)
    BY DEF Since, CountOf, Alive, Expired
  <2>2. Fits(arrivals, tick, k, Since(k), CountOf(k))
    BY DEF RateInv
  <2> QED BY <2>1, <2>2 DEF Fits
<1>8. \A k \in DOMAIN windows' : WindowFits(k)'
  BY DEF RateInv, WindowFits, Let
<1>9. LogFine(arrivals, tick)'
  BY DEF RateInv, LogFine
<1> QED BY <1>1, <1>5, <1>6, <1>7, <1>8, <1>9 DEF RateInv

\* The log with one arrival more.
LEMMA LoggedOne ==
  ASSUME RateInv, NEW key \in Keys, UNCHANGED tick, arrivals' = Append(arrivals, <<key, tick>>)
  PROVE  /\ LogFine(arrivals', tick') /\ LogsOne(arrivals', arrivals, key, tick)
         /\ \A k, a, b : Within(arrivals, k, a, b) \subseteq Within(arrivals', k, a, b)
         /\ \A k \in Keys : \A s, n : k # key /\ Fits(arrivals, tick, k, s, n) => Fits(arrivals', tick, k, s, n)
<1>1. tick \in Nat /\ Len(arrivals) \in Nat /\ DOMAIN arrivals = 1..Len(arrivals) /\ LogFine(arrivals, tick)
      /\ WindowTicks \in Int
  BY RateConstants DEF RateInv, LogFine
<1>2. LogsOne(arrivals', arrivals, key, tick)
  BY DEF LogsOne
<1>3. PICK l \in Nat : l = Len(arrivals)
  BY <1>1
<1>4. /\ Len(arrivals') = l + 1 /\ DOMAIN arrivals' = 1..(l + 1) /\ DOMAIN arrivals = 1..l
      /\ arrivals'[l + 1] = <<key, tick>> /\ \A i \in 1..l : arrivals'[i] = arrivals[i]
  <2>1. tick \in Int
    BY <1>1
  <2> QED BY <1>1, <1>2, <1>3, <2>1, WithinAppend
<1>5. LogFine(arrivals', tick')
  <2>1. arrivals'[l + 1][1] = key /\ arrivals'[l + 1][2] = tick
    BY <1>4
  <2>2. \A i \in 1..l : arrivals'[i][1] \in Keys /\ arrivals'[i][2] \in 0..tick
    BY <1>1, <1>4 DEF LogFine
  <2>3. \A i \in DOMAIN arrivals' : i \in 1..l \/ i = l + 1
    BY <1>4
  <2>4. \A i \in DOMAIN arrivals' : arrivals'[i][1] \in Keys /\ arrivals'[i][2] \in 0..tick
    BY <1>1, <2>1, <2>2, <2>3
  <2> QED BY <1>4, <2>4 DEF LogFine
<1>6. \A k, a, b : Within(arrivals, k, a, b) \subseteq Within(arrivals', k, a, b)
  BY <1>4 DEF Within
<1>7. ASSUME NEW k \in Keys, NEW s, NEW n, k # key, Fits(arrivals, tick, k, s, n)
      PROVE  Fits(arrivals', tick, k, s, n)
  <2>1. ASSUME NEW a \in Int, NEW b \in Int PROVE Within(arrivals', k, a, b) = Within(arrivals, k, a, b)
    <3>1. tick \in Int
      BY <1>1
    <3> QED BY <1>1, <1>2, <1>7, <2>1, <3>1, WithinSame
  <2>2. s \in Int /\ s - WindowTicks \in Int /\ s - 1 \in Int /\ tick \in Int
    BY <1>1, <1>7 DEF Fits
  <2>3. /\ Within(arrivals', k, s, tick) = Within(arrivals, k, s, tick)
        /\ Within(arrivals', k, s - WindowTicks, s - 1) = Within(arrivals, k, s - WindowTicks, s - 1)
    BY <2>1, <2>2
  <2>4. ASSUME NEW from \in Int
        PROVE  /\ Cardinality(Within(arrivals', k, from, from)) <= MaxPerWindow
               /\ Cardinality(Within(arrivals', k, from, from + WindowTicks - 1)) <= 2 * MaxPerWindow
    <3>1. from + WindowTicks - 1 \in Int
      BY <1>1
    <3>2. Within(arrivals', k, from, from) = Within(arrivals, k, from, from)
          /\ Within(arrivals', k, from, from + WindowTicks - 1) = Within(arrivals, k, from, from + WindowTicks - 1)
      BY <2>1, <3>1
    <3> QED BY <1>7, <3>2 DEF Fits
  <2> QED BY <1>7, <2>3, <2>4 DEF Fits
<1> QED BY <1>2, <1>5, <1>6, <1>7

\* What stays in the map when a window is opened.
LEMMA Pruned ==
  ASSUME NEW kept, kept = pruneExpiredWhenFull(windows)
  PROVE  /\ DOMAIN kept \subseteq DOMAIN windows
         /\ \A k \in DOMAIN kept : kept[k] = windows[k]
         /\ \A k : Alive(k) => k \in DOMAIN kept
         /\ \/ kept = windows /\ Cardinality(DOMAIN windows) < MaxTracked
            \/ \A k \in DOMAIN kept : Alive(k)
BY DEF pruneExpiredWhenFull, Alive

\* A new window with one arrival, or one arrival more in a window.
LEMMA NextWindow ==
  ASSUME RateInv, NEW key \in Keys, UNCHANGED tick, arrivals' = Append(arrivals, <<key, tick>>),
         DOMAIN windows' \subseteq Keys, key \in DOMAIN windows',
         \A k \in DOMAIN windows' : k # key => k \in DOMAIN windows /\ windows'[k] = windows[k],
         \A k : k # key /\ Alive(k) => k \in DOMAIN windows',
         DOMAIN windows'[key] = {"count", "resetAt"}, windows'[key].count = CountOf(key) + 1,
         windows'[key].resetAt = Since(key) + WindowTicks, CountOf(key) < MaxPerWindow
  PROVE  /\ \A k \in DOMAIN windows' : WindowFits(k)'
         /\ \A k \in Keys : Fits(arrivals, tick, k, Since(k), CountOf(k))'
<1>1. /\ tick \in Nat /\ MaxPerWindow \in Nat /\ WindowTicks \in Nat \ {0} /\ LogFine(arrivals, tick)
      /\ \A k \in DOMAIN windows : WindowFits(k)
      /\ \A k \in Keys : Fits(arrivals, tick, k, Since(k), CountOf(k))
  BY RateConstants DEF RateInv
<1>2. /\ LogFine(arrivals', tick') /\ LogsOne(arrivals', arrivals, key, tick)
      /\ \A k, a, b : Within(arrivals, k, a, b) \subseteq Within(arrivals', k, a, b)
      /\ \A k \in Keys : \A s, n : k # key /\ Fits(arrivals, tick, k, s, n) => Fits(arrivals', tick, k, s, n)
  BY LoggedOne
<1>3. \A k, a, b : Let(k, a, b)' >= Let(k, a, b) /\ Let(k, a, b) \in Nat /\ Let(k, a, b)' \in Nat
  <2>1. tick' \in Nat /\ tick' >= tick
    BY <1>1
  <2>2. LogFine(arrivals', tick')
        /\ \A k, a, b : Within(arrivals, k, a, b) \subseteq Within(arrivals', k, a, b)
    BY <1>2
  <2> QED BY <2>1, <2>2, LongerLog
<1>4. PICK s, n : s = Since(key) /\ n = CountOf(key) /\ Fits(arrivals, tick, key, s, n)
  BY <1>1
<1>5. s \in Int /\ s <= tick /\ n \in Nat /\ n < MaxPerWindow /\ s > tick - WindowTicks /\ s >= 0
  <2>1. s \in Int /\ s <= tick /\ n \in Nat /\ n < MaxPerWindow
    BY <1>4 DEF Fits
  <2>2. CASE Alive(key)
    <3>1. WindowFits(key) /\ s = windows[key].resetAt - WindowTicks /\ tick < windows[key].resetAt
      BY <1>1, <1>4, <2>2 DEF Alive, Since, Expired, WindowFits
    <3> QED BY <1>1, <2>1, <3>1 DEF WindowFits
  <2>3. CASE ~Alive(key)
    BY <1>1, <1>4, <2>1, <2>3 DEF Since
  <2> QED BY <2>2, <2>3
<1>6. Fits(arrivals', tick, key, s, n + 1)
  BY <1>1, <1>4, <1>5, LetInFits
<1>7. Alive(key)' /\ Since(key)' = s /\ CountOf(key)' = n + 1
  <2>1. windows'[key].resetAt = s + WindowTicks /\ windows'[key].count = n + 1
    BY <1>4
  <2>2. Alive(key)'
    BY <1>1, <1>5, <2>1 DEF Alive, Expired
  <2> QED BY <1>1, <1>5, <2>1, <2>2 DEF Since, CountOf
<1>8. ASSUME NEW k \in Keys PROVE Fits(arrivals, tick, k, Since(k), CountOf(k))'
  <2>1. CASE k = key
    BY <1>6, <1>7, <2>1 DEF Fits
  <2>2. CASE k # key
    <3>1. Alive(k)' <=> Alive(k)
      BY <2>2 DEF Alive, Expired
    <3>2. Alive(k) => k \in DOMAIN windows' /\ windows'[k] = windows[k]
      BY <2>2
    <3>3. Since(k)' = Since(k) /\ CountOf(k)' = CountOf(k)
      BY <3>1, <3>2 DEF Since, CountOf
    <3>4. Fits(arrivals', tick, k, Since(k), CountOf(k))
      BY <1>1, <1>2, <2>2
    <3> QED BY <3>3, <3>4 DEF Fits
  <2> QED BY <2>1, <2>2
<1>9. ASSUME NEW k \in DOMAIN windows' PROVE WindowFits(k)'
  <2>1. CASE k # key
    <3>1. k \in DOMAIN windows /\ windows'[k] = windows[k] /\ WindowFits(k)
      BY <1>1, <1>9, <2>1
    <3>2. PICK o : o = windows[k].resetAt - WindowTicks
      OBVIOUS
    <3>3. Let(k, o, o)' >= Let(k, o, o) /\ Let(k, o, o) \in Nat /\ Let(k, o, o)' \in Nat
      BY <1>3
    <3>4. Let(k, o, o)' > 0
      BY <3>1, <3>2, <3>3 DEF WindowFits
    <3> QED BY <3>1, <3>2, <3>4 DEF WindowFits
  <2>2. CASE k = key
    <3>1. windows'[key].resetAt = s + WindowTicks /\ windows'[key].count = n + 1
      BY <1>4
    <3>2. Let(key, s, s)' > 0
      <4>1. CASE Alive(key)
        <5>1. WindowFits(key) /\ s = windows[key].resetAt - WindowTicks
          BY <1>1, <1>4, <4>1 DEF Alive, Since
        <5>2. Let(key, s, s) > 0
          BY <5>1 DEF WindowFits
        <5> QED BY <1>3, <5>2
      <4>2. CASE ~Alive(key)
        <5>1. s = tick /\ n = 0
          BY <1>4, <4>2 DEF Since, CountOf
        <5>2. Cardinality(Within(arrivals', key, s, tick)) = 1
          BY <1>6, <5>1 DEF Fits
        <5>3. Let(key, s, s)' = Cardinality(Within(arrivals', key, s, s))
          BY DEF Let, Within
        <5> QED BY <5>1, <5>2, <5>3
      <4> QED BY <4>1, <4>2
    <3>3. PICK e \in Int : e = s + WindowTicks /\ e - WindowTicks = s
      BY <1>1, <1>5
    <3>4. windows'[key].resetAt = e /\ Let(key, e - WindowTicks, e - WindowTicks)' > 0
      BY <3>1, <3>2, <3>3
    <3>5. e <= tick + WindowTicks /\ e >= WindowTicks /\ n + 1 \in 1..MaxPerWindow
      BY <1>1, <1>5, <3>3
    <3> QED BY <2>2, <3>1, <3>3, <3>4, <3>5 DEF WindowFits
  <2> QED BY <2>1, <2>2
<1> QED BY <1>8, <1>9

LEMMA CountInv ==
  ASSUME RateInv, NEW key \in Keys, CountRequest(key), arrivals' = Append(arrivals, <<key, tick>>),
         UNCHANGED <<tick, refused>>
  PROVE  RateInv'
<1>1. Alive(key) /\ key \in DOMAIN windows /\ WindowFits(key) /\ windows[key].count < MaxPerWindow
      /\ WindowTicks \in Int /\ tick \in Nat
  BY RateConstants DEF CountRequest, Alive, RateInv
<1>2. PICK old : old = windows[key]
  OBVIOUS
<1>3. windows' = [windows EXCEPT ![key] = [old EXCEPT !.count = old.count + 1]]
  BY <1>2 DEF CountRequest
<1>4. DOMAIN old = {"count", "resetAt"} /\ old.count \in Nat /\ old.resetAt \in Int
  BY <1>1, <1>2 DEF WindowFits
<1>5. /\ DOMAIN windows' = DOMAIN windows /\ \A k \in DOMAIN windows : k # key => windows'[k] = windows[k]
      /\ DOMAIN windows'[key] = {"count", "resetAt"} /\ windows'[key].count = old.count + 1
      /\ windows'[key].resetAt = old.resetAt
  BY <1>1, <1>3, <1>4
<1>6. CountOf(key) = old.count /\ Since(key) + WindowTicks = old.resetAt
  BY <1>1, <1>2, <1>4 DEF CountOf, Since
<1>7. DOMAIN windows \subseteq Keys
  BY DEF RateInv
<1>8. /\ \A k \in DOMAIN windows' : WindowFits(k)'
      /\ \A k \in Keys : Fits(arrivals, tick, k, Since(k), CountOf(k))'
  <2>1. CountOf(key) < MaxPerWindow /\ windows'[key].count = CountOf(key) + 1
        /\ windows'[key].resetAt = Since(key) + WindowTicks
    BY <1>1, <1>2, <1>5, <1>6
  <2>2. \A k : k # key /\ Alive(k) => k \in DOMAIN windows'
    BY <1>5 DEF Alive
  <2> QED BY <1>1, <1>5, <1>7, <2>1, <2>2, NextWindow
<1>9. LogFine(arrivals', tick') /\ \A k, a, b : Within(arrivals, k, a, b) \subseteq Within(arrivals', k, a, b)
  BY LoggedOne
<1>10. RefusalFits'
  BY <1>1, <1>9, LongerLog
<1>11. MapFits'
  <2>0. tick' \in Nat /\ tick' >= tick
    BY <1>1
  <2>1. MapFits /\ \A from : Cardinality(Busy(arrivals', from)) >= Cardinality(Busy(arrivals, from))
    <3>1. \A from : Cardinality(Busy(arrivals', from)) >= Cardinality(Busy(arrivals, from))
      BY <1>9, <2>0, LongerLog
    <3> QED BY <3>1 DEF RateInv
  <2>2. CASE Cardinality(DOMAIN windows) > MaxTracked
    <3>1. PICK from \in 0..tick : Cardinality(Busy(arrivals, from)) > MaxTracked
      BY <2>1, <2>2 DEF MapFits
    <3>2. IsFiniteSet(Keys) /\ Busy(arrivals, from) \subseteq Keys /\ Busy(arrivals', from) \subseteq Keys
          /\ MaxTracked \in Nat
      BY RateConstants DEF Busy
    <3>3. IsFiniteSet(Busy(arrivals, from)) /\ IsFiniteSet(Busy(arrivals', from))
      BY <3>2, FS_Subset
    <3>4. Cardinality(Busy(arrivals, from)) \in Nat /\ Cardinality(Busy(arrivals', from)) \in Nat
      BY <3>3, FS_CardinalityType
    <3>5. Cardinality(Busy(arrivals', from)) > MaxTracked
      BY <2>1, <3>1, <3>2, <3>4
    <3> QED BY <3>1, <3>5 DEF MapFits, Busy
  <2> QED BY <1>5, <2>2 DEF MapFits
<1>12. LogFine(arrivals, tick)'
  BY <1>9 DEF LogFine
<1> QED BY <1>1, <1>5, <1>7, <1>8, <1>10, <1>11, <1>12 DEF RateInv

LEMMA OpenInv ==
  ASSUME RateInv, NEW key \in Keys, OpenWindow(key), arrivals' = Append(arrivals, <<key, tick>>),
         UNCHANGED <<tick, refused>>
  PROVE  RateInv'
<1>1. tick \in Nat /\ WindowTicks \in Nat \ {0} /\ MaxPerWindow \in Nat \ {0} /\ MaxTracked \in Nat
      /\ DOMAIN windows \subseteq Keys /\ IsFiniteSet(Keys)
  BY RateConstants DEF RateInv
<1>2. PICK kept : kept = pruneExpiredWhenFull(windows)
  OBVIOUS
<1>3. /\ ~Alive(key)
      /\ windows' = [k \in DOMAIN kept \cup {key} |->
                       IF k = key THEN [count |-> 1, resetAt |-> tick + WindowTicks] ELSE kept[k]]
  BY <1>2 DEF OpenWindow
<1>4. /\ DOMAIN kept \subseteq DOMAIN windows
      /\ \A k \in DOMAIN kept : kept[k] = windows[k]
      /\ \A k : Alive(k) => k \in DOMAIN kept
      /\ \/ kept = windows /\ Cardinality(DOMAIN windows) < MaxTracked
         \/ \A k \in DOMAIN kept : Alive(k)
  BY <1>2, Pruned
<1>5. /\ DOMAIN windows' = DOMAIN kept \cup {key}
      /\ windows'[key] = [count |-> 1, resetAt |-> tick + WindowTicks]
      /\ \A k \in DOMAIN kept : k # key => windows'[k] = windows[k]
  BY <1>3, <1>4
<1>6. /\ DOMAIN windows'[key] = {"count", "resetAt"}
      /\ windows'[key].count = CountOf(key) + 1 /\ windows'[key].resetAt = Since(key) + WindowTicks
      /\ CountOf(key) < MaxPerWindow
  <2>1. CountOf(key) = 0 /\ Since(key) = tick
    BY <1>3 DEF CountOf, Since
  <2> QED BY <1>1, <1>5, <2>1
<1>7. DOMAIN windows' \subseteq Keys
  BY <1>1, <1>4, <1>5
<1>8. /\ \A k \in DOMAIN windows' : WindowFits(k)'
      /\ \A k \in Keys : Fits(arrivals, tick, k, Since(k), CountOf(k))'
  <2>1. \A k \in DOMAIN windows' : k # key => k \in DOMAIN windows /\ windows'[k] = windows[k]
    BY <1>4, <1>5
  <2>2. (\A k : k # key /\ Alive(k) => k \in DOMAIN windows') /\ key \in DOMAIN windows'
    BY <1>4, <1>5
  <2> QED BY <1>6, <1>7, <2>1, <2>2, NextWindow
<1>9. LogFine(arrivals', tick') /\ \A k, a, b : Within(arrivals, k, a, b) \subseteq Within(arrivals', k, a, b)
  BY LoggedOne
<1>10. RefusalFits'
  BY SMTT(20), <1>1, <1>9, LongerLog
<1>11. MapFits'
  <2>1. CASE kept = windows /\ Cardinality(DOMAIN windows) < MaxTracked
    <3>1. IsFiniteSet(DOMAIN windows)
      BY <1>1, FS_Subset
    <3>2. Cardinality(DOMAIN windows') <= Cardinality(DOMAIN windows) + 1
      <4>1. CASE key \in DOMAIN windows
        <5>1. DOMAIN windows' = DOMAIN windows
          BY <1>5, <2>1, <4>1
        <5>2. Cardinality(DOMAIN windows) \in Nat
          BY <3>1, FS_CardinalityType
        <5> QED BY <5>1, <5>2
      <4>2. CASE key \notin DOMAIN windows
        <5>1. Cardinality(DOMAIN windows \cup {key}) = Cardinality(DOMAIN windows) + 1
          BY <3>1, <4>2, FS_AddElement
        <5>2. Cardinality(DOMAIN windows) \in Nat
          BY <3>1, FS_CardinalityType
        <5> QED BY <1>5, <2>1, <5>1, <5>2
      <4> QED BY <4>1, <4>2
    <3>3. IsFiniteSet(DOMAIN windows')
      BY <1>1, <1>7, FS_Subset
    <3>4. Cardinality(DOMAIN windows) \in Nat /\ Cardinality(DOMAIN windows') \in Nat
      BY <3>1, <3>3, FS_CardinalityType
    <3>5. ~(Cardinality(DOMAIN windows') > MaxTracked)
      BY <1>1, <2>1, <3>2, <3>4
    <3> QED BY <3>5 DEF MapFits
  <2>2. CASE \A k \in DOMAIN kept : Alive(k)
    <3>1. ASSUME NEW k \in DOMAIN windows' PROVE k \in Busy(arrivals', tick)
      <4>1. Alive(k)'
        BY <1>1, <1>4, <1>5, <2>2 DEF Alive, Expired
      <4>2. WindowFits(k)' /\ k \in Keys
        BY <1>7, <1>8
      <4>3. PICK o \in Int : o = windows'[k].resetAt - WindowTicks /\ o <= tick /\ o > tick - WindowTicks
        BY <1>1, <4>1, <4>2 DEF WindowFits, Alive, Expired
      <4>4. Cardinality(Within(arrivals', k, o, o)) > 0
        <5>1. Let(k, o, o)' > 0
          BY <4>2, <4>3 DEF WindowFits
        <5>2. Let(k, o, o)' = Cardinality(Within(arrivals', k, o, o))
          BY DEF Let, Within
        <5> QED BY <5>1, <5>2
      <4>5. Cardinality(Within(arrivals', k, o, o)) <= Cardinality(Within(arrivals', k, tick - WindowTicks + 1, tick))
        <5>1. tick - WindowTicks + 1 \in Int /\ tick - WindowTicks + 1 <= o /\ tick \in Int
          BY <1>1, <4>3
        <5>2. Len(arrivals') \in Nat /\ DOMAIN arrivals' = 1..Len(arrivals')
          BY <1>9 DEF LogFine
        <5> QED BY <4>3, <5>1, <5>2, WithinGrows
      <4>6. /\ Cardinality(Within(arrivals', k, o, o)) \in Nat
            /\ Cardinality(Within(arrivals', k, tick - WindowTicks + 1, tick)) \in Nat
        BY <1>9, WithinFinite DEF LogFine
      <4> QED BY <4>2, <4>4, <4>5, <4>6 DEF Busy
    <3>2. DOMAIN windows' \subseteq Busy(arrivals', tick) /\ Busy(arrivals', tick) \subseteq Keys
      BY <3>1 DEF Busy
    <3>3. IsFiniteSet(Busy(arrivals', tick))
      BY <1>1, <3>2, FS_Subset
    <3>4. IsFiniteSet(DOMAIN windows') /\ Cardinality(DOMAIN windows') <= Cardinality(Busy(arrivals', tick))
      BY <3>2, <3>3, FS_Subset
    <3>5. Cardinality(DOMAIN windows') \in Nat /\ Cardinality(Busy(arrivals', tick)) \in Nat
      BY <3>3, <3>4, FS_CardinalityType
    <3>6. Cardinality(DOMAIN windows') > MaxTracked => Cardinality(Busy(arrivals', tick)) > MaxTracked
      BY <1>1, <3>4, <3>5
    <3>7. tick \in 0..tick'
      BY <1>1
    <3> QED BY <3>6, <3>7 DEF MapFits, Busy
  <2> QED BY <1>4, <2>1, <2>2
<1>12. LogFine(arrivals, tick)'
  BY <1>9 DEF LogFine
<1> QED BY <1>1, <1>7, <1>8, <1>10, <1>11, <1>12 DEF RateInv

LEMMA RateInvStep == RateInv /\ [RateLimitsNext]_limitVars => RateInv'
<1> SUFFICES ASSUME RateInv, [RateLimitsNext]_limitVars PROVE RateInv'
  OBVIOUS
<1>1. ASSUME NEW key \in Keys, consume(key) PROVE RateInv'
  BY <1>1, CountInv, OpenInv, RefuseInv DEF consume
<1>2. CASE UNCHANGED limitVars
  <2>1. /\ LogFine(arrivals, tick)' /\ RefusalFits' /\ MapFits' /\ \A k \in DOMAIN windows' : WindowFits(k)'
    BY <1>2 DEF limitVars, RateInv, LogFine, RefusalFits, MapFits, Busy, WindowFits, Let
  <2>2. ASSUME NEW k \in Keys PROVE Fits(arrivals, tick, k, Since(k), CountOf(k))'
    <3>1. Since(k)' = Since(k) /\ CountOf(k)' = CountOf(k)
      BY <1>2 DEF limitVars, Since, CountOf, Alive, Expired
    <3>2. Fits(arrivals, tick, k, Since(k), CountOf(k))
      BY DEF RateInv
    <3> QED BY <1>2, <3>1, <3>2 DEF limitVars, Fits
  <2> QED BY <1>2, <2>1, <2>2 DEF limitVars, RateInv
<1> QED BY <1>1, <1>2, TickInv, LimiterRestartInv DEF RateLimitsNext

\* FixedWindowLimiter (fixed-window-limiter.ts), for any keys, limits and
\* moments: at most the maximum at one moment and twice that in the length of a
\* window, no refusal before the maximum, and no map over its limit without as
\* many keys at once.
THEOREM RatesAreBounded == RateLimitsSpec => []RateIsBounded
<1>1. RateInv => RateIsBounded
  <2> SUFFICES ASSUME RateInv PROVE RateIsBounded
    OBVIOUS
  <2>1. ASSUME NEW key \in Keys, NEW from \in 0..tick
        PROVE  Let(key, from, from) <= MaxPerWindow /\ Let(key, from, from + WindowTicks - 1) <= 2 * MaxPerWindow
    <3>1. from \in Int
      BY DEF RateInv
    <3>2. Fits(arrivals, tick, key, Since(key), CountOf(key))
      BY DEF RateInv
    <3> QED BY <3>1, <3>2, LetIsWithin DEF Fits
  <2>2. ASSUME NEW from \in 0..tick
        PROVE  {k \in Keys : Let(k, from - WindowTicks + 1, from) > 0} = Busy(arrivals, from)
    BY LetIsWithin DEF Busy
  <2>3. Cardinality(DOMAIN windows) > MaxTracked =>
          \E from \in 0..tick : Cardinality({k \in Keys : Let(k, from - WindowTicks + 1, from) > 0}) > MaxTracked
    BY <2>2 DEF RateInv, MapFits
  <2> QED BY <2>1, <2>3 DEF RateIsBounded, RateInv, RefusalFits
<1> QED BY <1>1, RateInitInv, RateInvStep, PTL DEF RateLimitsSpec

-----------------------------------------------------------------------------
(* The calendar.  What a date is, what falls on it, and in what order.         *)

LEMMA MonthLengths == \A month \in Int : daysInMonth(month) \in 28..31
BY DEF daysInMonth

LEMMA FirstDays ==
  FirstOf[0] = 0 /\ \A month \in 1..48 : FirstOf[month] = FirstOf[month - 1] + daysInMonth(month - 1)
<1> DEFINE term == [n \in Nat |-> daysInMonth(n - 1)]
           IsFirst(f) == f = [month \in 0..48 |-> IF month = 0 THEN 0 ELSE f[month - 1] + daysInMonth(month - 1)]
<1>1. PICK sum : sum = [n \in Nat |-> IF n = 0 THEN 0 ELSE sum[n - 1] + term[n]]
  BY SumsExist
<1>2. \E f : IsFirst(f)
  <2> DEFINE f == [month \in 0..48 |-> sum[month]]
             g == [month \in 0..48 |-> IF month = 0 THEN 0 ELSE f[month - 1] + daysInMonth(month - 1)]
  <2>1. ASSUME NEW month \in 0..48 PROVE f[month] = g[month]
    <3>1. CASE month = 0
      BY <1>1, <3>1
    <3>2. CASE month # 0
      <4>1. month \in Nat /\ month - 1 \in 0..48 /\ sum[month] = sum[month - 1] + term[month]
        BY <1>1, <3>2
      <4> QED BY <3>2, <4>1
    <3> QED BY <3>1, <3>2
  <2>2. DOMAIN f = 0..48 /\ DOMAIN g = 0..48
    OBVIOUS
  <2> HIDE DEF f
  <2>3. f = [month \in 0..48 |-> f[month]]
    <3> QED BY <2>2 DEF f
  <2>4. f = g
    <3>1. f = [month \in 0..48 |-> g[month]]
      BY <2>1, <2>3
    <3> QED BY <3>1
  <2> QED BY <2>4
<1>3. IsFirst(FirstOf)
  <2>1. FirstOf = CHOOSE f : IsFirst(f)
    BY Zenon DEF FirstOf
  <2> QED BY <1>2, <2>1
<1> HIDE DEF term
<1>4. \A month \in 0..48 : FirstOf[month] = IF month = 0 THEN 0 ELSE FirstOf[month - 1] + daysInMonth(month - 1)
  BY <1>3, Zenon
<1> QED BY <1>4

\* Months do not overlap, and leave no day out.
LEMMA MonthsFollow ==
  /\ \A n \in 0..48 : FirstOf[n] \in Nat
  /\ \A m, n \in 0..48 : m < n => FirstOf[m] + 28 <= FirstOf[n]
  /\ \A month \in 0..47 : FirstOf[month + 1] = FirstOf[month] + daysInMonth(month)
<1> DEFINE T == {n \in Nat : n <= 48 => /\ FirstOf[n] \in Nat
                                        /\ \A m \in 0..48 : m < n => FirstOf[m] \in Nat /\ FirstOf[m] + 28 <= FirstOf[n]}
<1>1. 0 \in T
  BY FirstDays
<1>2. ASSUME NEW n \in T PROVE n + 1 \in T
  <2>1. SUFFICES ASSUME n + 1 <= 48
                 PROVE  /\ FirstOf[n + 1] \in Nat
                        /\ \A m \in 0..48 : m < n + 1 => FirstOf[m] \in Nat /\ FirstOf[m] + 28 <= FirstOf[n + 1]
    BY <1>2
  <2>2. n \in Nat /\ FirstOf[n] \in Nat /\ \A m \in 0..48 : m < n => FirstOf[m] \in Nat /\ FirstOf[m] + 28 <= FirstOf[n]
    BY <1>2, <2>1
  <2>3. FirstOf[n + 1] = FirstOf[n] + daysInMonth(n)
    <3>1. n + 1 \in 1..48 /\ (n + 1) - 1 = n
      BY <2>1, <2>2
    <3> QED BY <3>1, FirstDays
  <2>4. daysInMonth(n) \in 28..31
    BY <2>2, MonthLengths
  <2> HIDE DEF T
  <2>5. ASSUME NEW m \in 0..48, m < n + 1 PROVE FirstOf[m] \in Nat /\ FirstOf[m] + 28 <= FirstOf[n + 1]
    <3>1. CASE m = n
      BY <2>2, <2>3, <2>4, <3>1
    <3>2. CASE m < n
      BY <2>2, <2>3, <2>4, <3>2
    <3> QED BY <2>2, <2>5, <3>1, <3>2
  <2> QED BY <2>2, <2>3, <2>4, <2>5
<1>3. T \in SUBSET Nat
  OBVIOUS
<1> HIDE DEF T
<1>4. T = Nat
  BY <1>1, <1>2, <1>3, EveryNatural
<1>5. \A n \in 0..48 : FirstOf[n] \in Nat /\ \A m \in 0..48 : m < n => FirstOf[m] \in Nat /\ FirstOf[m] + 28 <= FirstOf[n]
  <2>1. ASSUME NEW n \in 0..48
        PROVE  FirstOf[n] \in Nat /\ \A m \in 0..48 : m < n => FirstOf[m] \in Nat /\ FirstOf[m] + 28 <= FirstOf[n]
    <3>1. n \in T /\ n <= 48
      BY <1>4
    <3> QED BY <3>1 DEF T
  <2> QED BY <2>1
<1>6. ASSUME NEW month \in 0..47 PROVE FirstOf[month + 1] = FirstOf[month] + daysInMonth(month)
  <2>1. month + 1 \in 1..48 /\ (month + 1) - 1 = month
    OBVIOUS
  <2> QED BY <2>1, FirstDays
<1> QED BY <1>5, <1>6

LEMMA MonthIsUnique ==
  ASSUME NEW day \in Nat, NEW m \in 0..47, FirstOf[m] <= day, day < FirstOf[m + 1]
  PROVE  MonthOf(day) = m
<1>1. ASSUME NEW n \in 0..47, FirstOf[n] <= day, day < FirstOf[n + 1] PROVE n = m
  <2>1. /\ FirstOf[m] \in Nat /\ FirstOf[n] \in Nat /\ FirstOf[m + 1] \in Nat /\ FirstOf[n + 1] \in Nat
    BY MonthsFollow
  <2>2. ASSUME n < m PROVE FALSE
    <3>1. n + 1 = m \/ n + 1 < m
      BY <2>2
    <3>2. FirstOf[n + 1] <= FirstOf[m]
      BY SMTT(60), <2>1, <3>1, MonthsFollow
    <3> QED BY <1>1, <2>1, <3>2
  <2>3. ASSUME m < n PROVE FALSE
    <3>1. m + 1 = n \/ m + 1 < n
      BY <2>3
    <3>2. FirstOf[m + 1] <= FirstOf[n]
      BY SMTT(60), <2>1, <3>1, MonthsFollow
    <3> QED BY <1>1, <2>1, <3>2
  <2> QED BY <2>2, <2>3
<1> QED BY <1>1 DEF MonthOf

LEMMA MonthOfDay ==
  ASSUME NEW day \in Nat, day < FirstOf[48]
  PROVE  /\ MonthOf(day) \in 0..47 /\ FirstOf[MonthOf(day)] <= day /\ day < FirstOf[MonthOf(day) + 1]
<1> DEFINE T == {n \in Nat : n <= 48 /\ day < FirstOf[n]}
<1>1. PICK least \in T : \A n \in T : least <= n
  <2>1. 48 \in T /\ T \in SUBSET Nat
    OBVIOUS
  <2> HIDE DEF T
  <2> QED BY <2>1, LeastElement
<1>2. least \in 0..48 /\ day < FirstOf[least]
  BY <1>1
<1>3. least # 0
  BY <1>2, FirstDays
<1>4. least - 1 \in 0..47 /\ (least - 1) + 1 = least /\ ~(day < FirstOf[least - 1])
  BY <1>1, <1>2, <1>3
<1>5. FirstOf[least - 1] \in Nat
  BY SMTT(60), <1>4, MonthsFollow
<1>6. FirstOf[least - 1] <= day
  BY <1>4, <1>5
<1> HIDE DEF T
<1>7. MonthOf(day) = least - 1
  BY <1>2, <1>4, <1>6, MonthIsUnique
<1> QED BY <1>2, <1>4, <1>6, <1>7

LEMMA MonthsInOrder ==
  ASSUME NEW day \in Nat, NEW later \in Nat, day <= later, later < FirstOf[48]
  PROVE  MonthOf(day) <= MonthOf(later)
<1>1. FirstOf[48] \in Nat
  BY MonthsFollow
<1>2. day < FirstOf[48]
  BY <1>1
<1>3. PICK m \in 0..47 : m = MonthOf(day) /\ FirstOf[m] <= day
  BY <1>2, MonthOfDay
<1>4. PICK n \in 0..47 : n = MonthOf(later) /\ later < FirstOf[n + 1]
  BY MonthOfDay
<1>5. FirstOf[m] \in Nat /\ FirstOf[n + 1] \in Nat
  BY MonthsFollow
<1>6. ASSUME n < m PROVE FALSE
  <2>1. n + 1 = m \/ n + 1 < m
    BY <1>6
  <2>2. FirstOf[n + 1] <= FirstOf[m]
    BY SMTT(60), <1>5, <2>1, MonthsFollow
  <2> QED BY <1>3, <1>4, <1>5, <2>2
<1> QED BY <1>3, <1>4, <1>6

\* A day that every month has.
LEMMA DayOfAMonth ==
  ASSUME NEW m \in 0..47, NEW day \in 1..28
  PROVE  /\ safeDate(m, day) \in Nat /\ safeDate(m, day) = FirstOf[m] + day - 1
         /\ MonthOf(safeDate(m, day)) = m /\ DayOfMonth(safeDate(m, day)) = day
<1>1. FirstOf[m] \in Nat /\ FirstOf[m + 1] = FirstOf[m] + daysInMonth(m) /\ daysInMonth(m) \in 28..31
  BY SMTT(60), MonthsFollow, MonthLengths
<1>2. safeDate(m, day) = FirstOf[m] + day - 1
  BY <1>1 DEF safeDate
<1>3. /\ safeDate(m, day) \in Nat /\ FirstOf[m] <= safeDate(m, day) /\ safeDate(m, day) < FirstOf[m + 1]
  BY <1>1, <1>2
<1>4. MonthOf(safeDate(m, day)) = m
  BY <1>3, MonthIsUnique
<1> QED BY <1>1, <1>2, <1>3, <1>4 DEF DayOfMonth

\* Obligations with a date each, told apart by their index.
Dated(found) ==
  /\ IsFiniteSet(found)
  /\ \A v \in found : v.dueDate \in Int /\ v.index \in Int
  /\ \A v, w \in found : v.index = w.index => v = w

\* A list has the obligations of a set, each on its date, by date.
InOrder(sorted, found) ==
  /\ Cardinality(found) \in Nat /\ DOMAIN sorted = 1..Cardinality(found)
  /\ \A i \in 1..Cardinality(found) :
       \E v \in found : sorted[i].type = v.type /\ sorted[i].dueDate = v.dueDate
  /\ \A v \in found :
       \E i \in 1..Cardinality(found) : sorted[i].type = v.type /\ sorted[i].dueDate = v.dueDate
  /\ \A i, j \in 1..Cardinality(found) : i < j => sorted[i].dueDate <= sorted[j].dueDate

\* A finite set of obligations told apart by their index has one for each place,
\* and sorting it by date loses none.
LEMMA Sorted ==
  ASSUME NEW found, Dated(found), NEW now
  PROVE  InOrder(SortedByDate(found, now), found)
<1> DEFINE Ahead(v) == {w \in found : w.dueDate < v.dueDate \/ (w.dueDate = v.dueDate /\ w.index < v.index)}
           n == Cardinality(found)
           rank == [v \in found |-> Cardinality(Ahead(v))]
           Nth(i) == CHOOSE v \in found : Cardinality(Ahead(v)) = i - 1
<1>0. /\ IsFiniteSet(found)
      /\ \A v \in found : v.dueDate \in Int /\ v.index \in Int
      /\ \A v, w \in found : v.index = w.index => v = w
  BY DEF Dated
<1>1. n \in Nat
  BY <1>0, FS_CardinalityType
<1>2. ASSUME NEW v \in found
      PROVE  /\ IsFiniteSet(Ahead(v)) /\ Cardinality(Ahead(v)) \in 0..(n - 1)
             /\ Cardinality(Ahead(v)) \in Nat
             /\ IsFiniteSet(Ahead(v) \cup {v}) /\ Cardinality(Ahead(v) \cup {v}) = Cardinality(Ahead(v)) + 1
  <2>1. Ahead(v) \in SUBSET found /\ v \notin Ahead(v) /\ (Ahead(v) \cup {v}) \in SUBSET found
    BY <1>0, <1>2
  <2> HIDE DEF Ahead
  <2>2. IsFiniteSet(Ahead(v)) /\ IsFiniteSet(Ahead(v) \cup {v}) /\ Cardinality(Ahead(v) \cup {v}) <= n
    BY <1>0, <2>1, FS_Subset
  <2>3. Cardinality(Ahead(v) \cup {v}) = Cardinality(Ahead(v)) + 1
    BY <2>1, <2>2, FS_AddElement
  <2>4. Cardinality(Ahead(v)) \in Nat
    BY <2>2, FS_CardinalityType
  <2> QED BY <1>1, <2>2, <2>3, <2>4
<1>3. ASSUME NEW v \in found, NEW w \in found, v # w,
             w.dueDate < v.dueDate \/ (w.dueDate = v.dueDate /\ w.index < v.index)
      PROVE  Cardinality(Ahead(w)) < Cardinality(Ahead(v))
  <2>1. (Ahead(w) \cup {w}) \in SUBSET Ahead(v)
    BY <1>0, <1>3
  <2> HIDE DEF Ahead
  <2>2. Cardinality(Ahead(w) \cup {w}) <= Cardinality(Ahead(v))
    BY <1>2, <2>1, FS_Subset
  <2>3. Cardinality(Ahead(w)) \in Nat /\ Cardinality(Ahead(w) \cup {w}) = Cardinality(Ahead(w)) + 1
    BY <1>2, <1>3, Zenon
  <2>4. Cardinality(Ahead(v)) \in Nat
    BY <1>2, <1>3, Zenon
  <2> QED BY <2>2, <2>3, <2>4
<1>4. ASSUME NEW v \in found, NEW w \in found, v # w
      PROVE  \/ w.dueDate < v.dueDate \/ (w.dueDate = v.dueDate /\ w.index < v.index)
             \/ v.dueDate < w.dueDate \/ (v.dueDate = w.dueDate /\ v.index < w.index)
  <2>1. v.index # w.index /\ v.index \in Int /\ w.index \in Int /\ v.dueDate \in Int /\ w.dueDate \in Int
    BY <1>0, <1>4
  <2> QED BY <2>1
<1> HIDE DEF Ahead
<1>5. rank \in Injection(found, 0..(n - 1))
  <2>1. \A v \in found : rank[v] = Cardinality(Ahead(v))
    OBVIOUS
  <2>2. rank \in [found -> 0..(n - 1)]
    BY <1>2
  <2>3. ASSUME NEW v \in found, NEW w \in found, v # w PROVE rank[v] # rank[w]
    <3>1. Cardinality(Ahead(v)) \in Nat /\ Cardinality(Ahead(w)) \in Nat
      BY <1>2, <2>3, Zenon
    <3>2. Cardinality(Ahead(w)) < Cardinality(Ahead(v)) \/ Cardinality(Ahead(v)) < Cardinality(Ahead(w))
      BY <1>3, <1>4, <2>3
    <3> QED BY <2>1, <3>1, <3>2
  <2> QED BY <2>2, <2>3 DEF Injection, IsInjective
<1>6. rank \in Surjection(found, 0..(n - 1))
  <2>1. IsFiniteSet(0..(n - 1)) /\ Cardinality(0..(n - 1)) = n
    BY <1>1, FS_Interval
  <2> HIDE DEF rank
  <2> QED BY <1>5, <2>1, FS_Injection
<1>7. ASSUME NEW i \in 1..n PROVE Nth(i) \in found /\ Cardinality(Ahead(Nth(i))) = i - 1
  <2>1. i - 1 \in 0..(n - 1)
    BY <1>1
  <2>2. \E v \in found : rank[v] = i - 1
    BY <1>6, <2>1 DEF Surjection
  <2>3. \E v \in found : Cardinality(Ahead(v)) = i - 1
    BY <2>2
  <2> QED BY <2>3
<1> DEFINE sorted == [i \in 1..n |-> [type |-> Nth(i).type, dueDate |-> Nth(i).dueDate,
                                      status |-> computeStatus(Nth(i).dueDate, now)]]
<1>8. SortedByDate(found, now) = sorted
  BY Zenon DEF SortedByDate, Ahead
<1>9. \A i \in 1..n : sorted[i].type = Nth(i).type /\ sorted[i].dueDate = Nth(i).dueDate
  OBVIOUS
<1>10. DOMAIN sorted = 1..n
  OBVIOUS
<1> HIDE DEF sorted, Nth, n
<1>11. ASSUME NEW v \in found PROVE \E i \in 1..n : Nth(i) = v
  <2>1. PICK i : i = Cardinality(Ahead(v)) + 1
    OBVIOUS
  <2>2. i \in 1..n /\ i - 1 = Cardinality(Ahead(v))
    <3>1. Cardinality(Ahead(v)) \in 0..(n - 1) /\ Cardinality(Ahead(v)) \in Nat
      BY <1>2, <1>11
    <3> QED BY <1>1, <2>1, <3>1
  <2>3. Nth(i) \in found /\ Cardinality(Ahead(Nth(i))) = Cardinality(Ahead(v))
    BY <1>7, <2>2
  <2>4. Nth(i) = v
    <3>1. PICK w \in found : w = Nth(i) /\ Cardinality(Ahead(w)) = Cardinality(Ahead(v))
      BY <2>3
    <3>2. Cardinality(Ahead(w)) \in Nat
      BY <1>2, <3>1
    <3>3. ~(Cardinality(Ahead(w)) < Cardinality(Ahead(v))) /\ ~(Cardinality(Ahead(v)) < Cardinality(Ahead(w)))
      BY <3>1, <3>2
    <3>4. w = v
      BY <1>3, <1>4, <1>11, <3>1, <3>3
    <3> QED BY <3>1, <3>4
  <2> QED BY <2>2, <2>4
<1>12. ASSUME NEW i \in 1..n, NEW j \in 1..n, i < j PROVE Nth(i).dueDate <= Nth(j).dueDate
  <2>1. /\ Nth(i) \in found /\ Nth(j) \in found
        /\ Cardinality(Ahead(Nth(i))) = i - 1 /\ Cardinality(Ahead(Nth(j))) = j - 1
    BY <1>7
  <2>2. Nth(i) # Nth(j)
    BY <1>1, <1>12, <2>1
  <2>3. ~(Cardinality(Ahead(Nth(j))) < Cardinality(Ahead(Nth(i))))
    BY <1>1, <1>12, <2>1
  <2>4. ~(Nth(j).dueDate < Nth(i).dueDate)
    BY <1>3, <2>1, <2>2, <2>3
  <2>5. Nth(i).dueDate \in Int /\ Nth(j).dueDate \in Int
    BY <1>0, <2>1
  <2> QED BY <2>4, <2>5
<1>13. \A i \in 1..n : \E v \in found : sorted[i].type = v.type /\ sorted[i].dueDate = v.dueDate
  BY <1>7, <1>9
<1>14. \A v \in found : \E i \in 1..n : sorted[i].type = v.type /\ sorted[i].dueDate = v.dueDate
  <2>1. ASSUME NEW v \in found PROVE \E i \in 1..n : sorted[i].type = v.type /\ sorted[i].dueDate = v.dueDate
    <3>1. PICK i \in 1..n : Nth(i) = v
      BY <1>11
    <3> QED BY <1>9, <3>1
  <2> QED BY <2>1
<1>15. \A i, j \in 1..n : i < j => sorted[i].dueDate <= sorted[j].dueDate
  BY <1>9, <1>12
<1> QED BY <1>1, <1>8, <1>10, <1>13, <1>14, <1>15 DEF n, InOrder

LEMMA DueDays ==
  ASSUME NEW digit \in 0..9, NEW i \in 1..4
  PROVE  /\ dueDayFor(FiscalObligation[i], digit) \in 1..28
         /\ dueDayFor(FiscalObligation[i], digit) = (IF i = 2 THEN 14 ELSE 18) + digit \div 2
<1>1. digit \div 2 \in 0..4
  OBVIOUS
<1>2. i = 2 <=> FiscalObligation[i] = "CARGAS_SOCIALES"
  BY DEF FiscalObligation
<1> QED BY <1>1, <1>2 DEF dueDayFor

\* The obligations of a period: which they are, that none is left out, and that
\* their index tells them apart.
LEMMA DueOfPeriod ==
  ASSUME NEW digit \in 0..9, NEW from \in Nat, NEW to \in Nat, from <= to, to < FirstOf[48]
  PROVE  /\ IsFiniteSet(DueBetween(digit, from, to))
         /\ \A v, w \in DueBetween(digit, from, to) : v.index = w.index => v = w
         /\ \A v \in DueBetween(digit, from, to) :
              /\ v.dueDate \in Nat /\ v.index \in Nat /\ from <= v.dueDate /\ v.dueDate <= to
              /\ \E i \in 1..4 : v.type = FiscalObligation[i]
                                 /\ DayOfMonth(v.dueDate) = dueDayFor(FiscalObligation[i], digit)
         /\ \A i \in 1..4, day \in from..to :
              DayOfMonth(day) = dueDayFor(FiscalObligation[i], digit) =>
                \E v \in DueBetween(digit, from, to) : v.type = FiscalObligation[i] /\ v.dueDate = day
<1> DEFINE Obligation(m, i) ==
             [type |-> FiscalObligation[i], index |-> m * 4 + i,
              dueDate |-> safeDate(m, dueDayFor(FiscalObligation[i], digit))]
           due == DueBetween(digit, from, to)
<1>1. FirstOf[48] \in Nat /\ from < FirstOf[48]
  <2>1. FirstOf[48] \in Nat
    BY SMTT(60), MonthsFollow
  <2> QED BY <2>1
<1>2. MonthOf(from) \in 0..47 /\ MonthOf(to) \in 0..47
  BY <1>1, MonthOfDay
<1>3. DOMAIN FiscalObligation = 1..4
  BY DEF FiscalObligation
<1>4. \A m, i : /\ Obligation(m, i).type = FiscalObligation[i] /\ Obligation(m, i).index = m * 4 + i
                /\ Obligation(m, i).dueDate = safeDate(m, dueDayFor(FiscalObligation[i], digit))
  OBVIOUS
<1>5. due = {v \in {Obligation(m, i) : m \in MonthOf(from)..MonthOf(to), i \in 1..4} :
               from <= v.dueDate /\ v.dueDate <= to}
  BY <1>3 DEF DueBetween
<1> HIDE DEF Obligation, due
<1>6. ASSUME NEW v \in due
      PROVE  \E m \in 0..47, i \in 1..4 : v = Obligation(m, i) /\ from <= v.dueDate /\ v.dueDate <= to
  <2>1. PICK m \in MonthOf(from)..MonthOf(to), i \in 1..4 :
          v = Obligation(m, i) /\ from <= v.dueDate /\ v.dueDate <= to
    BY <1>5, <1>6
  <2>2. m \in 0..47
    BY <1>2, <2>1
  <2> QED BY <2>1, <2>2
<1>7. ASSUME NEW m \in 0..47, NEW i \in 1..4
      PROVE  /\ Obligation(m, i).index \in Nat /\ Obligation(m, i).index <= 47 * 4 + 4
             /\ Obligation(m, i).dueDate \in Nat
             /\ DayOfMonth(Obligation(m, i).dueDate) = dueDayFor(FiscalObligation[i], digit)
             /\ Obligation(m, i).dueDate = FirstOf[m] + dueDayFor(FiscalObligation[i], digit) - 1
  <2>1. PICK k : k = dueDayFor(FiscalObligation[i], digit) /\ k \in 1..28
    BY DueDays
  <2>2. /\ safeDate(m, k) \in Nat /\ safeDate(m, k) = FirstOf[m] + k - 1 /\ DayOfMonth(safeDate(m, k)) = k
    BY <2>1, DayOfAMonth
  <2>3. Obligation(m, i).dueDate = safeDate(m, k)
    BY <1>4, <2>1
  <2>4. Obligation(m, i).index = m * 4 + i
    BY <1>4
  <2>5. m * 4 + i \in Nat /\ m * 4 + i <= 47 * 4 + 4
    OBVIOUS
  <2> QED BY <2>1, <2>2, <2>3, <2>4, <2>5
<1>8. ASSUME NEW m \in 0..47, NEW i \in 1..4, NEW n \in 0..47, NEW j \in 1..4,
             Obligation(m, i).index = Obligation(n, j).index
      PROVE  Obligation(m, i) = Obligation(n, j)
  <2>1. m = n /\ i = j
    BY <1>4, <1>8
  <2> QED BY <2>1
<1>9. ASSUME NEW v \in due, NEW w \in due, v.index = w.index PROVE v = w
  <2>1. PICK m \in 0..47, i \in 1..4 : v = Obligation(m, i)
    BY <1>6, <1>9
  <2>2. PICK n \in 0..47, j \in 1..4 : w = Obligation(n, j)
    BY <1>6, <1>9
  <2> QED BY <1>8, <1>9, <2>1, <2>2
<1>10. IsFiniteSet(due)
  <2> DEFINE f == [v \in due |-> v.index]
  <2>1. PICK last \in Nat : last = 47 * 4 + 4
    OBVIOUS
  <2>2. ASSUME NEW v \in due PROVE v.index \in 0..last
    <3>1. PICK m \in 0..47, i \in 1..4 : v = Obligation(m, i)
      BY <1>6, <2>2
    <3>2. Obligation(m, i).index \in Nat /\ Obligation(m, i).index <= last
      BY <1>7, <2>1
    <3> QED BY <3>1, <3>2
  <2>3. f \in [due -> 0..last] /\ \A v \in due : f[v] = v.index
    BY <2>2
  <2>4. IsFiniteSet(0..last)
    BY FS_Interval
  <2> HIDE DEF f
  <2>5. f \in Injection(due, 0..last)
    BY <1>9, <2>3 DEF Injection, IsInjective
  <2> QED BY <2>4, <2>5, FS_Injection
<1>11. ASSUME NEW v \in due
       PROVE  /\ v.dueDate \in Nat /\ v.index \in Nat /\ from <= v.dueDate /\ v.dueDate <= to
              /\ \E i \in 1..4 : v.type = FiscalObligation[i]
                                 /\ DayOfMonth(v.dueDate) = dueDayFor(FiscalObligation[i], digit)
  <2>1. PICK m \in 0..47, i \in 1..4 : v = Obligation(m, i) /\ from <= v.dueDate /\ v.dueDate <= to
    BY <1>6, <1>11
  <2>2. /\ v.dueDate \in Nat /\ v.index \in Nat
        /\ DayOfMonth(v.dueDate) = dueDayFor(FiscalObligation[i], digit)
    BY <1>7, <2>1
  <2>3. v.type = FiscalObligation[i]
    BY <1>4, <2>1
  <2> QED BY <2>1, <2>2, <2>3
<1>12. ASSUME NEW i \in 1..4, NEW day \in from..to, DayOfMonth(day) = dueDayFor(FiscalObligation[i], digit)
       PROVE  \E v \in due : v.type = FiscalObligation[i] /\ v.dueDate = day
  <2>1. day \in Nat /\ from <= day /\ day <= to /\ day < FirstOf[48]
    BY <1>1
  <2>2. PICK m \in 0..47 : m = MonthOf(day)
    BY <2>1, MonthOfDay
  <2>3. m \in MonthOf(from)..MonthOf(to)
    BY <1>2, <2>1, <2>2, MonthsInOrder
  <2>4. Obligation(m, i).dueDate = day
    <3>1. DayOfMonth(day) = day - FirstOf[m] + 1 /\ FirstOf[m] \in Nat
      BY SMTT(60), <2>2, MonthsFollow DEF DayOfMonth
    <3>2. Obligation(m, i).dueDate = FirstOf[m] + DayOfMonth(day) - 1
      BY <1>7, <1>12
    <3> QED BY <2>1, <3>1, <3>2
  <2>5. Obligation(m, i) \in due
    BY <1>5, <2>1, <2>3, <2>4
  <2> QED BY <1>4, <2>4, <2>5
<1> QED BY <1>9, <1>10, <1>11, <1>12 DEF due

\* What a sorted list has on a day.
LEMMA TypesOfDay ==
  ASSUME NEW found, Dated(found), NEW now, NEW day
  PROVE  \A type : type \in TypesDue(SortedByDate(found, now), day) <=>
                     \E v \in found : v.type = type /\ v.dueDate = day
<1>1. PICK sorted : sorted = SortedByDate(found, now)
  OBVIOUS
<1>2. /\ DOMAIN sorted = 1..Cardinality(found)
      /\ \A i \in DOMAIN sorted : \E v \in found : sorted[i].type = v.type /\ sorted[i].dueDate = v.dueDate
      /\ \A v \in found : \E i \in DOMAIN sorted : sorted[i].type = v.type /\ sorted[i].dueDate = v.dueDate
  <2>1. InOrder(sorted, found)
    BY <1>1, Sorted
  <2> QED BY <2>1 DEF InOrder
<1>3. \A type : type \in TypesDue(sorted, day) <=>
                  \E i \in DOMAIN sorted : sorted[i].dueDate = day /\ sorted[i].type = type
  BY DEF TypesDue
<1>4. ASSUME NEW type, NEW i \in DOMAIN sorted, sorted[i].dueDate = day /\ sorted[i].type = type
      PROVE  \E v \in found : v.type = type /\ v.dueDate = day
  BY <1>2, <1>4
<1>5. ASSUME NEW type, NEW v \in found, v.type = type /\ v.dueDate = day
      PROVE  \E i \in DOMAIN sorted : sorted[i].dueDate = day /\ sorted[i].type = type
  BY <1>2, <1>5
<1> QED BY <1>1, <1>3, <1>4, <1>5

\* A list has the obligations that fall on a day of the month, and only those.
DayShows(sorted, day, digit) ==
  /\ \A type : type \in TypesDue(sorted, day) =>
       \E i \in 1..4 : type = FiscalObligation[i] /\ DayOfMonth(day) = dueDayFor(FiscalObligation[i], digit)
  /\ \A i \in 1..4 : DayOfMonth(day) = dueDayFor(FiscalObligation[i], digit) =>
       FiscalObligation[i] \in TypesDue(sorted, day)

\* The days of a list of what is due, and its order.
LEMMA DueList ==
  ASSUME NEW digit \in 0..9, NEW from \in Nat, NEW to \in Nat, from <= to, to < FirstOf[48],
         NEW kept \in SUBSET DueBetween(digit, from, to), NEW now
  PROVE  /\ InOrder(SortedByDate(kept, now), kept)
         /\ \A day \in from..to : (\A v \in DueBetween(digit, from, to) : v.dueDate = day => v \in kept) =>
              DayShows(SortedByDate(kept, now), day, digit)
<1> DEFINE due == DueBetween(digit, from, to)
<1>1. /\ IsFiniteSet(due)
      /\ \A v, w \in due : v.index = w.index => v = w
      /\ \A v \in due :
           /\ v.dueDate \in Nat /\ v.index \in Nat /\ from <= v.dueDate /\ v.dueDate <= to
           /\ \E i \in 1..4 : v.type = FiscalObligation[i]
                              /\ DayOfMonth(v.dueDate) = dueDayFor(FiscalObligation[i], digit)
      /\ \A i \in 1..4, day \in from..to :
           DayOfMonth(day) = dueDayFor(FiscalObligation[i], digit) =>
             \E v \in due : v.type = FiscalObligation[i] /\ v.dueDate = day
  BY DueOfPeriod, Zenon
<1>2. kept \in SUBSET due
  OBVIOUS
<1> HIDE DEF due
<1>3. Dated(kept)
  <2>1. IsFiniteSet(kept)
    BY <1>1, <1>2, FS_Subset
  <2>2. \A v \in kept : v.dueDate \in Int /\ v.index \in Int
    BY <1>1, <1>2
  <2>3. \A v, w \in kept : v.index = w.index => v = w
    BY <1>1, <1>2
  <2> QED BY <2>1, <2>2, <2>3 DEF Dated
<1>4. InOrder(SortedByDate(kept, now), kept)
  BY <1>3, Sorted
<1>5. \A day, type : type \in TypesDue(SortedByDate(kept, now), day) <=>
                       \E v \in kept : v.type = type /\ v.dueDate = day
  BY <1>3, TypesOfDay
<1>6. ASSUME NEW day, NEW type, type \in TypesDue(SortedByDate(kept, now), day)
      PROVE  \E i \in 1..4 : type = FiscalObligation[i] /\ DayOfMonth(day) = dueDayFor(FiscalObligation[i], digit)
  <2>1. PICK v \in kept : v.type = type /\ v.dueDate = day
    BY <1>5, <1>6
  <2> QED BY <1>1, <1>2, <2>1
<1>7. ASSUME NEW day \in from..to, NEW i \in 1..4, DayOfMonth(day) = dueDayFor(FiscalObligation[i], digit),
             \A v \in due : v.dueDate = day => v \in kept
      PROVE  FiscalObligation[i] \in TypesDue(SortedByDate(kept, now), day)
  <2>1. PICK v \in due : v.type = FiscalObligation[i] /\ v.dueDate = day
    BY <1>1, <1>7
  <2> QED BY <1>5, <1>7, <2>1
<1> QED BY <1>4, <1>6, <1>7 DEF due, DayShows

CalendarInv ==
  CalendarTypeOK /\ certificateEnd \in CertificateEnds /\ DueDatesHold

LEMMA AskVencimientosInv ==
  ASSUME CalendarInv, AskVencimientos
  PROVE  CalendarInv'
<1>1. PICK back \in DaysBack, ahead \in DaysAhead :
        asked' = [alerts |-> getAlerts(lastDigit, certificateEnd, calendarDay), from |-> calendarDay - back,
                  to |-> calendarDay + ahead,
                  period |-> upcomingVencimientos(lastDigit, calendarDay - back, calendarDay + ahead, calendarDay)]
  BY DEF AskVencimientos
<1>2. UNCHANGED <<calendarDay, lastDigit, certificateEnd>>
  BY DEF AskVencimientos
<1>3. PICK from, to, half : from = calendarDay - back /\ to = calendarDay + ahead /\ half = lastDigit \div 2
  OBVIOUS
<1>4. /\ calendarDay \in FirstDay..LastDay /\ lastDigit \in 0..9 /\ certificateEnd \in Int
      /\ FirstDay \in Nat /\ LastDay \in Nat /\ calendarDay \in Nat /\ back \in 0..FirstDay
      /\ ahead \in Nat /\ LastDay + ahead < FirstOf[48] /\ HorizonDays \in Nat /\ HorizonDays >= 5
      /\ LastDay + HorizonDays < FirstOf[48] /\ FirstOf[48] \in Nat
  BY SMTT(60), <1>1, CalendarConstants, MonthsFollow DEF CalendarInv, CalendarTypeOK
<1>5. /\ from \in Nat /\ to \in Nat /\ from <= to /\ to < FirstOf[48]
      /\ calendarDay + HorizonDays \in Nat /\ calendarDay <= calendarDay + HorizonDays
      /\ calendarDay + HorizonDays < FirstOf[48] /\ half \in 0..4
  BY <1>3, <1>4
<1>6. PICK near : near = {v \in DueBetween(lastDigit, calendarDay, calendarDay + HorizonDays) :
                            computeStatus(v.dueDate, calendarDay) # "UPCOMING"}
  OBVIOUS
<1>7. PICK period, alerts : /\ period = SortedByDate(DueBetween(lastDigit, from, to), calendarDay)
                            /\ alerts = SortedByDate(near, calendarDay)
  OBVIOUS
<1>8. /\ asked'.from = from /\ asked'.to = to /\ asked'.period = period /\ asked'.alerts.vencimientos = alerts
  BY <1>1, <1>3, <1>6, <1>7 DEF getAlerts, upcomingVencimientos
<1>9. \A i \in 1..4 : dueDayFor(FiscalObligation[i], lastDigit) = (IF i = 2 THEN 14 ELSE 18) + half
  BY <1>3, <1>4, DueDays
<1>10. /\ FiscalObligation[1] = "IVA_DDJJ" /\ FiscalObligation[2] = "CARGAS_SOCIALES"
       /\ FiscalObligation[3] = "LIBRO_IVA_DIGITAL" /\ FiscalObligation[4] = "MONOTRIBUTO"
       /\ Range(FiscalObligation) = {"IVA_DDJJ", "CARGAS_SOCIALES", "LIBRO_IVA_DIGITAL", "MONOTRIBUTO"}
  BY DEF FiscalObligation, Range
<1>11. ASSUME NEW day \in from..to
       PROVE  TypesDue(period, day) =
                (IF DayOfMonth(day) = 14 + half THEN {"CARGAS_SOCIALES"} ELSE {})
                \cup (IF DayOfMonth(day) = 18 + half THEN Range(FiscalObligation) \ {"CARGAS_SOCIALES"} ELSE {})
  <2>1. DayShows(period, day, lastDigit)
    BY <1>4, <1>5, <1>7, <1>11, DueList
  <2>2. \A type : type \in TypesDue(period, day) <=>
          \E i \in 1..4 : type = FiscalObligation[i] /\ DayOfMonth(day) = (IF i = 2 THEN 14 ELSE 18) + half
    BY <1>9, <2>1 DEF DayShows
  <2>3. \A type : type \in TypesDue(period, day) <=>
          \/ type = "CARGAS_SOCIALES" /\ DayOfMonth(day) = 14 + half
          \/ type \in {"IVA_DDJJ", "LIBRO_IVA_DIGITAL", "MONOTRIBUTO"} /\ DayOfMonth(day) = 18 + half
    BY <1>10, <2>2
  <2>4. Range(FiscalObligation) \ {"CARGAS_SOCIALES"} = {"IVA_DDJJ", "LIBRO_IVA_DIGITAL", "MONOTRIBUTO"}
    BY <1>10
  <2> QED BY <2>3, <2>4
<1>12. \A i, j \in DOMAIN period : i < j => period[i].dueDate <= period[j].dueDate
  <2>1. InOrder(period, DueBetween(lastDigit, from, to))
    BY <1>4, <1>5, <1>7, DueList
  <2> QED BY <2>1 DEF InOrder
<1>13. /\ near \in SUBSET DueBetween(lastDigit, calendarDay, calendarDay + HorizonDays)
       /\ \A v \in DueBetween(lastDigit, calendarDay, calendarDay + HorizonDays) :
            v \in near <=> v.dueDate \in calendarDay..calendarDay + 5
  <2>1. ASSUME NEW v \in DueBetween(lastDigit, calendarDay, calendarDay + HorizonDays)
        PROVE  v.dueDate \in Nat /\ calendarDay <= v.dueDate
    BY <1>4, <1>5, <2>1, DueOfPeriod
  <2>2. ASSUME NEW v \in DueBetween(lastDigit, calendarDay, calendarDay + HorizonDays)
        PROVE  computeStatus(v.dueDate, calendarDay) # "UPCOMING" <=> v.dueDate \in calendarDay..calendarDay + 5
    <3>1. PICK d : d = v.dueDate
      OBVIOUS
    <3>2. d \in Nat /\ calendarDay <= d
      BY <2>1, <2>2, <3>1
    <3>3. computeStatus(d, calendarDay) # "UPCOMING" <=> d - calendarDay \in 0..5
      BY <1>4, <3>2 DEF computeStatus
    <3> QED BY <1>4, <3>1, <3>2, <3>3
  <2> QED BY <1>6, <2>2
<1>14. \A i \in DOMAIN alerts : alerts[i].dueDate \in calendarDay..calendarDay + 5
  <2>1. InOrder(alerts, near)
    BY <1>4, <1>5, <1>7, <1>13, DueList
  <2>2. \A i \in DOMAIN alerts : \E v \in near : alerts[i].dueDate = v.dueDate
    BY <2>1 DEF InOrder
  <2> QED BY <1>13, <2>2
<1>15. ASSUME NEW day \in calendarDay..calendarDay + 5, DayOfMonth(day) = 18 + half
       PROVE  Cardinality(TypesDue(alerts, day)) = 3
  <2>0. day \in calendarDay..calendarDay + HorizonDays
    BY <1>4
  <2>1. DayShows(alerts, day, lastDigit)
    BY <1>4, <1>5, <1>7, <1>13, <1>15, <2>0, DueList
  <2>2. \A type : type \in TypesDue(alerts, day) <=>
          \E i \in 1..4 : type = FiscalObligation[i] /\ 18 + half = (IF i = 2 THEN 14 ELSE 18) + half
    BY <1>9, <1>15, <2>1 DEF DayShows
  <2>3. TypesDue(alerts, day) = {"IVA_DDJJ", "LIBRO_IVA_DIGITAL", "MONOTRIBUTO"}
    BY <1>5, <1>10, <2>2
  <2>4. /\ IsFiniteSet({"IVA_DDJJ"}) /\ Cardinality({"IVA_DDJJ"}) = 1
    BY FS_Singleton
  <2>5. /\ IsFiniteSet({"IVA_DDJJ"} \cup {"LIBRO_IVA_DIGITAL"})
        /\ Cardinality({"IVA_DDJJ"} \cup {"LIBRO_IVA_DIGITAL"}) = 2
    BY <2>4, FS_AddElement
  <2>6. Cardinality(({"IVA_DDJJ"} \cup {"LIBRO_IVA_DIGITAL"}) \cup {"MONOTRIBUTO"}) = 3
    BY <2>5, FS_AddElement
  <2>7. {"IVA_DDJJ", "LIBRO_IVA_DIGITAL", "MONOTRIBUTO"} = ({"IVA_DDJJ"} \cup {"LIBRO_IVA_DIGITAL"}) \cup {"MONOTRIBUTO"}
    OBVIOUS
  <2> QED BY <2>3, <2>6, <2>7
<1>16. asked'.alerts.certificate <=> certificateEnd - 30 <= calendarDay
  <2>1. asked'.alerts = getAlerts(lastDigit, certificateEnd, calendarDay)
    BY <1>1
  <2>2. getAlerts(lastDigit, certificateEnd, calendarDay).certificate <=> certificateEnd - calendarDay <= 30
    BY Zenon DEF getAlerts
  <2>3. certificateEnd - calendarDay <= 30 <=> certificateEnd - 30 <= calendarDay
    BY <1>4
  <2> QED BY <2>1, <2>2, <2>3, Zenon
<1>17. DueDatesHold'
  BY <1>2, <1>3, <1>8, <1>11, <1>12, <1>14, <1>15, <1>16 DEF DueDatesHold, TypesDue
<1> QED BY <1>2, <1>5, <1>8, <1>17 DEF CalendarInv, CalendarTypeOK

LEMMA CalendarStepInv == CalendarInv /\ [CalendarNext]_calendarVars => CalendarInv'
<1> SUFFICES ASSUME CalendarInv, [CalendarNext]_calendarVars PROVE CalendarInv'
  OBVIOUS
<1>1. CASE UNCHANGED calendarVars
  BY <1>1 DEF calendarVars, CalendarInv, CalendarTypeOK, DueDatesHold
<1>2. CASE NextDay
  BY <1>2, CalendarConstants DEF NextDay, CalendarInv, CalendarTypeOK, DueDatesHold, Nil
<1> QED BY <1>1, <1>2, AskVencimientosInv DEF CalendarNext

\* Every list of due dates and every alert (vencimiento-calendar.ts,
\* fiscal-alerts.service.ts), for any last digit and any days of the four years.
THEOREM DueDatesAreShown == CalendarSpec => []DueDatesHold
<1>1. CalendarInit => CalendarInv
  BY CalendarConstants DEF CalendarInit, CalendarInv, CalendarTypeOK, DueDatesHold, Nil
<1>2. CalendarInv => DueDatesHold
  BY DEF CalendarInv
<1> QED BY <1>1, <1>2, CalendarStepInv, PTL DEF CalendarSpec

-----------------------------------------------------------------------------
(* Types.  What the invariants above leave out of them is inductive beside    *)
(* the invariant of the part.                                                 *)

LEMMA PushTypes == PushSpec => []PushTypeOK
<1> DEFINE Bounded == Len(pushCalls) <= MaxPushCalls
<1>1. PushInit => Bounded
  BY PushConstants DEF PushInit
<1>2. PushInv /\ Bounded /\ [PushNext]_pushVars => Bounded'
  <2> SUFFICES ASSUME PushInv, Len(pushCalls) <= MaxPushCalls, [PushNext]_pushVars
               PROVE  Len(pushCalls') <= MaxPushCalls
    OBVIOUS
  <2>1. pushCalls \in Seq(CallRecord) /\ Len(pushCalls) \in Nat /\ DOMAIN pushCalls = 1..Len(pushCalls)
    BY DEF PushInv, PushShape
  <2>2. \A call : PushRoom => Len(Append(pushCalls, call)) <= MaxPushCalls
    <3> SUFFICES ASSUME NEW call, PushRoom PROVE Len(Append(pushCalls, call)) <= MaxPushCalls
      OBVIOUS
    <3>1. pushCalls \in Seq(CallRecord \cup {call})
      BY <2>1
    <3>2. Len(Append(pushCalls, call)) = Len(pushCalls) + 1
      BY <3>1
    <3> QED BY <2>1, <3>2, PushConstants DEF PushRoom
  <2>3. \A f : f \in [DOMAIN pushCalls -> CallRecord] => Len(f) = Len(pushCalls)
    BY <2>1
  <2>4. CASE UNCHANGED pushVars
    BY <2>4 DEF pushVars
  <2>5. CASE \E user \in Users : SignIn(user) \/ NotifyOwner(user)
    BY <2>2, <2>5 DEF SignIn, Mount, NotifyOwner
  <2>6. CASE \E c \in DOMAIN pushCalls :
               \/ NoPermission(c) \/ SendRegistration(c) \/ RememberToken(c)
               \/ LoseAnswer(c) \/ ForgetToken(c) \/ Serve(c)
    BY <2>1, <2>6 DEF NoPermission, SendRegistration, RememberToken, LoseAnswer, ForgetToken, Serve, Ended
  <2>7. CASE Logout
    BY <2>2, <2>7 DEF Logout
  <2>8. CASE CloseSession \/ SessionRefused
    BY <2>8 DEF CloseSession, SessionRefused
  <2>9. CASE Restart \/ Uninstall
    <3> DEFINE left == [c \in DOMAIN pushCalls |->
                          [pushCalls[c] EXCEPT !.awaited = FALSE, !.step = IF @ = "sent" THEN "sent" ELSE "over"]]
               call == Call("register", NoUser, "asking")
    <3>1. \A c \in DOMAIN pushCalls : left[c] \in CallRecord
      <4> TAKE c \in DOMAIN pushCalls
      <4>1. pushCalls[c] \in CallRecord
        BY <2>1
      <4> QED BY <4>1 DEF CallRecord
    <3>2. call \in CallRecord
      BY DEF Call, CallRecord
    <3>3. pushCalls' = left \/ (PushRoom /\ pushCalls' = Append(left, call))
      BY <2>9 DEF Restart, Uninstall
    <3>4. left \in [DOMAIN pushCalls -> CallRecord]
      BY <3>1
    <3> HIDE DEF left, call
    <3>5. left \in Seq(CallRecord) /\ Len(left) = Len(pushCalls)
      BY <2>1, <3>4
    <3>6. Len(Append(left, call)) = Len(left) + 1
      BY <3>2, <3>5
    <3> QED BY <2>1, <3>3, <3>5, <3>6, PushConstants DEF PushRoom
  <2> QED BY <2>4, <2>5, <2>6, <2>7, <2>8, <2>9 DEF PushNext
<1>3. PushInv /\ Bounded => PushTypeOK
  BY DEF PushInv, PushShape, Phones, PushTypeOK
<1> HIDE DEF Bounded
<1> QED BY <1>1, <1>2, <1>3, PushInitInv, PushInvStep, PTL DEF PushSpec

LEMMA WebhookTypes == WebhooksSpec => []WebhooksTypeOK
<1> DEFINE Granted == grants \subseteq ApiClients
<1>1. WebhooksInit => Granted
  BY DEF WebhooksInit
<1>2. Granted /\ [WebhooksNext]_webhookVars => Granted'
  BY DEF WebhooksNext, CreateApiClient, RegisterWebhook, ReadGrants, ReadEndpoints, DispatchFails, DispatchEnds,
         Attempt, RetryAfterDelay, WebhookRestart, webhookVars
<1>3. WebhooksInv /\ Granted => WebhooksTypeOK
  BY DEF WebhooksInv, DispatchShape, DeliveryShape, WebhooksTypeOK
<1> HIDE DEF Granted
<1> QED BY <1>1, <1>2, <1>3, WebhooksInitInv, WebhooksInvStep, PTL DEF WebhooksSpec

LEMMA WatchTypes == WatchSpec => []WatchTypeOK
<1>1. WatchInv => WatchTypeOK
  <2> SUFFICES ASSUME WatchInv PROVE WatchTypeOK
    OBVIOUS
  <2>1. walk \in Seq([certificate : Certificates, end : Int])
    BY DEF WatchInv, ToGo
  <2>2. \A i \in DOMAIN walk : walk[i].certificate \in Certificates
    <3>1. \A i \in DOMAIN walk : walk[i] \in [certificate : Certificates, end : Int]
      BY <2>1, SeqElements, Zenon
    <3> QED BY <3>1
  <2> QED BY <2>2 DEF WatchInv, WatchTypeOK
<1> QED BY <1>1, WatchInitInv, WatchInvStep, PTL DEF WatchSpec

LEMMA CalendarTypes == CalendarSpec => []CalendarTypeOK
<1>1. CalendarInit => CalendarInv
  BY CalendarConstants DEF CalendarInit, CalendarInv, CalendarTypeOK, DueDatesHold, Nil
<1>2. CalendarInv => CalendarTypeOK
  BY DEF CalendarInv
<1> QED BY <1>1, <1>2, CalendarStepInv, PTL DEF CalendarSpec

LEMMA RateTypes == RateLimitsSpec => []RateLimitsTypeOK
<1> DEFINE Bounded == tick <= MaxTick
<1>1. RateLimitsInit => Bounded
  BY RateConstants DEF RateLimitsInit
<1>2. RateInv /\ Bounded /\ [RateLimitsNext]_limitVars => Bounded'
  <2>1. TimeTicks /\ RateInv => Bounded'
    BY RateConstants DEF TimeTicks, RateInv
  <2>2. UNCHANGED tick /\ Bounded => Bounded'
    OBVIOUS
  <2>3. LimiterRestart \/ (\E key \in Keys : consume(key)) \/ UNCHANGED limitVars => UNCHANGED tick
    BY DEF LimiterRestart, consume, limitVars
  <2> QED BY <2>1, <2>2, <2>3 DEF RateLimitsNext
<1>3. RateInv /\ Bounded => RateLimitsTypeOK
  BY RateConstants DEF RateInv, WindowFits, RateLimitsTypeOK
<1> HIDE DEF Bounded
<1> QED BY <1>1, <1>2, <1>3, RateInitInv, RateInvStep, PTL DEF RateLimitsSpec

LEMMA CacheTypes == CachesSpec => []CachesTypeOK
<1> DEFINE FetchedByNow == today \in Days /\ \A k \in DOMAIN rows : rows[k] # Nothing => rows[k].fetchedAt \in 0..today
<1>1. CachesInit => FetchedByNow
  BY CacheConstants DEF CachesInit
<1>2. CachesInv /\ FetchedByNow /\ [CachesNext]_cacheVars => FetchedByNow'
  <2> SUFFICES ASSUME CachesInv, FetchedByNow, [CachesNext]_cacheVars PROVE FetchedByNow'
    OBVIOUS
  <2>1. today \in Nat /\ \A key, row : /\ DOMAIN [rows EXCEPT ![key] = row] = DOMAIN rows
                                       /\ \A k \in DOMAIN rows : [rows EXCEPT ![key] = row][k] = IF k = key THEN row ELSE rows[k]
    BY CacheConstants
  <2>2. ASSUME UNCHANGED <<today, rows>> PROVE FetchedByNow'
    BY <2>2
  <2>3. ASSUME NEW key, NEW from, NEW content, UNCHANGED today,
               rows' = [rows EXCEPT ![key] = [fetchedAt |-> today, from |-> from, content |-> content]]
        PROVE  FetchedByNow'
    <3>1. today \in 0..today
      BY <2>1
    <3> QED BY <2>1, <2>3, <3>1
  <2>4. CASE DaysPass
    BY <2>1, <2>4, CacheConstants DEF DaysPass
  <2>5. CASE CacheRestart
    BY <2>5 DEF CacheRestart
  <2>6. ASSUME NEW l \in Lookups, StoreAnswer(l) PROVE FetchedByNow'
    BY <2>2, <2>3, <2>6 DEF StoreAnswer
  <2>7. ASSUME NEW l \in Lookups, AnswerFailure(l) PROVE FetchedByNow'
    <3>1. UNCHANGED today /\ lookups[l].kind \in Kinds
      BY <2>7 DEF AnswerFailure, CachesInv, LookupFits
    <3>2. \/ UNCHANGED rows
          \/ rows' = [rows EXCEPT ![Key("health", lookups[l].environment)] =
                        [fetchedAt |-> today, from |-> lookups[l].environment, content |-> Unreachable]]
      BY <2>7, <3>1, Zenon DEF AnswerFailure, Kinds
    <3> QED BY <2>2, <2>3, <3>1, <3>2
  <2>8. CASE ArcaChanges
    BY <2>2, <2>8 DEF ArcaChanges
  <2>9. ASSUME NEW l \in Lookups,
               \/ \E kind \in Kinds, environment \in Environments : Find(l, kind, environment)
               \/ CallArca(l) \/ CallFails(l) \/ StoreFails(l)
        PROVE  FetchedByNow'
    BY <2>2, <2>9 DEF Find, CallArca, CallFails, StoreFails
  <2>10. CASE UNCHANGED cacheVars
    BY <2>2, <2>10 DEF cacheVars
  <2> QED BY <2>4, <2>5, <2>6, <2>7, <2>8, <2>9, <2>10 DEF CachesNext
<1>3. CachesInv /\ FetchedByNow => CachesTypeOK
  BY DEF CachesInv, LookupFits, CachesTypeOK
<1> HIDE DEF FetchedByNow
<1> QED BY <1>1, <1>2, <1>3, CachesInitInv, CachesInvStep, PTL DEF CachesSpec
Codes == {0, 200, 400, 401, 403, 404, 409, 429, 500}

\* What the invariant of access leaves out: the room there is, and the answers.
AccessTyped ==
  Len(issuers) <= MaxIssuers /\ \A r \in DOMAIN incoming : incoming[r].answer \in Codes

LEMMA RefusalCodes == ASSUME AccessInv, NEW r \in DOMAIN incoming PROVE Refusal(r) \in {0, 403, 404}
<1>1. incoming[r].route.check \in ServiceChecks \cup OwnerChecks
  <2>1. PICK q : q = incoming[r] /\ RequestFits(q)
    BY DEF AccessInv
  <2> QED BY <2>1, V1Checks, UserChecks DEF RequestFits, RoutesOf, Checks
<1> QED BY <1>1 DEF Refusal, ServiceChecks, OwnerChecks

LEMMA CodesAfter ==
  ASSUME AccessInv, AccessTyped, [AccessNext]_accessVars
  PROVE  \A r \in DOMAIN incoming' : incoming'[r].answer \in Codes
<1>1. /\ Len(incoming) \in Nat /\ DOMAIN incoming = 1..Len(incoming)
      /\ \A r \in DOMAIN incoming : DOMAIN incoming[r] = RequestFields /\ incoming[r].answer \in Codes
  BY DEF AccessInv, RequestFits, AccessTyped
<1>2. ASSUME NEW r \in DOMAIN incoming, NEW step, incoming' = [incoming EXCEPT ![r].step = step]
      PROVE  \A q \in DOMAIN incoming' : incoming'[q].answer \in Codes
  BY <1>1, <1>2 DEF RequestFields
<1>3. ASSUME NEW r \in DOMAIN incoming, NEW data, incoming' = Done(r, data)
      PROVE  \A q \in DOMAIN incoming' : incoming'[q].answer \in Codes
  <2>1. DOMAIN incoming' = DOMAIN incoming /\ incoming'[r].answer = 200
        /\ \A q \in DOMAIN incoming : q # r => incoming'[q] = incoming[q]
    BY <1>3, DoneChanges
  <2> QED BY <1>1, <2>1 DEF Codes
<1>4. ASSUME NEW caller, NEW route, NEW issuer, ApiRequest(caller, route, issuer)
      PROVE  \A q \in DOMAIN incoming' : incoming'[q].answer \in Codes
  <2>1. PICK new : incoming' = Append(incoming, new) /\ new.answer = 0
    BY <1>4 DEF ApiRequest
  <2>2. /\ DOMAIN incoming' = 1..(Len(incoming) + 1) /\ incoming'[Len(incoming) + 1] = new
        /\ \A q \in DOMAIN incoming : incoming'[q] = incoming[q]
    BY <1>1, <2>1
  <2>3. \A q \in DOMAIN incoming' : q \in DOMAIN incoming \/ incoming'[q] = new
    BY <1>1, <2>2
  <2> QED BY <1>1, <2>1, <2>2, <2>3 DEF Codes
<1>5. ASSUME NEW r \in DOMAIN incoming, Guards(r)
      PROVE  \A q \in DOMAIN incoming' : incoming'[q].answer \in Codes
  <2>1. 401 \in Codes /\ 429 \in Codes
    BY DEF Codes
  <2>2. CASE incoming' = [incoming EXCEPT ![r].step = "over", ![r].answer = 401]
    BY <1>1, <2>1, <2>2 DEF RequestFields
  <2>3. CASE incoming' = [incoming EXCEPT ![r].step = "over", ![r].answer = 429]
    BY <1>1, <2>1, <2>3 DEF RequestFields
  <2>4. CASE incoming' = [incoming EXCEPT ![r].step = "checking"]
    BY <1>2, <2>4
  <2> QED BY <1>5, <2>2, <2>3, <2>4 DEF Guards, Answer
<1>6. ASSUME NEW r \in DOMAIN incoming, Check(r)
      PROVE  \A q \in DOMAIN incoming' : incoming'[q].answer \in Codes
  <2>1. 400 \in Codes /\ Refusal(r) \in Codes
    BY RefusalCodes DEF Codes
  <2>2. CASE incoming' = [incoming EXCEPT ![r].step = "auditing", ![r].answer = 400]
    BY <1>1, <2>1, <2>2 DEF RequestFields
  <2>3. CASE incoming' = [incoming EXCEPT ![r].step = "auditing", ![r].answer = Refusal(r)]
    BY <1>1, <2>1, <2>3 DEF RequestFields
  <2>4. CASE incoming' = [incoming EXCEPT ![r].step = "acting"]
    BY <1>2, <2>4
  <2> QED BY <1>6, <2>2, <2>3, <2>4 DEF Check
<1>7. ASSUME NEW r \in DOMAIN incoming, NEW cuit, CreateIssuer(r, cuit)
      PROVE  \A q \in DOMAIN incoming' : incoming'[q].answer \in Codes
  <2>1. PICK code \in {409, 500} : code = IF incoming[r].caller \in Clients THEN 409 ELSE 500
    OBVIOUS
  <2>2. code \in Codes
    BY DEF Codes
  <2>3. \/ incoming' = [incoming EXCEPT ![r].step = "auditing", ![r].answer = code]
        \/ incoming' = Done(r, {Len(issuers) + 1})
    BY <1>7, <2>1 DEF CreateIssuer
  <2>4. CASE incoming' = [incoming EXCEPT ![r].step = "auditing", ![r].answer = code]
    BY <1>1, <2>2, <2>4 DEF RequestFields
  <2>5. CASE incoming' = Done(r, {Len(issuers) + 1})
    BY <1>3, <2>5
  <2> QED BY <2>3, <2>4, <2>5
<1>8. ASSUME NEW r \in DOMAIN incoming, Act(r) \/ List(r)
      PROVE  \A q \in DOMAIN incoming' : incoming'[q].answer \in Codes
  BY <1>3, <1>8 DEF Act, List
<1>9. ASSUME NEW r \in DOMAIN incoming, Audit(r)
       PROVE  \A q \in DOMAIN incoming' : incoming'[q].answer \in Codes
  BY <1>2, <1>9 DEF Audit
<1>10. ASSUME (\E client \in Clients : CreateApiClientByScript(client)) \/ UNCHANGED accessVars
       PROVE  \A q \in DOMAIN incoming' : incoming'[q].answer \in Codes
  BY <1>1, <1>10 DEF CreateApiClientByScript, accessVars
<1> QED BY <1>4, <1>5, <1>6, <1>7, <1>8, <1>9, <1>10 DEF AccessNext

LEMMA AccessTypes == AccessSpec => []AccessTypeOK
<1>1. AccessInit => AccessTyped
  <2> SUFFICES ASSUME AccessInit PROVE AccessTyped
    OBVIOUS
  <2>1. PICK row : issuers = <<row>>
    BY DEF AccessInit
  <2>2. Len(issuers) = 1 /\ DOMAIN incoming = {}
    BY <2>1 DEF AccessInit
  <2> QED BY <2>2, AccessConstants DEF AccessTyped
<1>2. AccessInv /\ AccessTyped /\ [AccessNext]_accessVars => AccessTyped'
  <2> SUFFICES ASSUME AccessInv, AccessTyped, [AccessNext]_accessVars PROVE AccessTyped'
    OBVIOUS
  <2>1. Len(issuers) \in Nat /\ DOMAIN issuers = 1..Len(issuers) /\ Len(issuers) <= MaxIssuers
    BY DEF AccessInv, IssuersFit, AccessTyped
  <2>2. ASSUME NEW r \in DOMAIN incoming, NEW cuit, CreateIssuer(r, cuit) PROVE Len(issuers') <= MaxIssuers
    <3>1. ASSUME NEW row, issuers' = Append(issuers, row), Len(issuers) < MaxIssuers
          PROVE  Len(issuers') <= MaxIssuers
      BY <2>1, <3>1, AccessConstants
    <3> QED BY <2>1, <2>2, <3>1 DEF CreateIssuer
  <2>3. ASSUME NEW r \in DOMAIN incoming, Act(r) PROVE Len(issuers') <= MaxIssuers
    <3>1. issuers' = issuers \/ issuers' = [issuers EXCEPT ![incoming[r].issuer].writtenBy = incoming[r].caller]
      BY <2>3 DEF Act
    <3> QED BY <2>1, <3>1
  <2>4. ASSUME \/ \E caller \in Callers, issuer \in 0..MaxIssuers :
                    \E route \in V1Routes \cup UserRoutes : ApiRequest(caller, route, issuer)
               \/ \E client \in Clients : CreateApiClientByScript(client)
               \/ \E r \in DOMAIN incoming : Guards(r) \/ Check(r) \/ List(r) \/ Audit(r)
               \/ UNCHANGED accessVars
        PROVE  Len(issuers') <= MaxIssuers
    <3>1. issuers' = issuers
      BY <2>4 DEF ApiRequest, CreateApiClientByScript, Guards, Check, List, Audit, accessVars
    <3> QED BY <2>1, <3>1
  <2>5. Len(issuers') <= MaxIssuers
    BY <2>2, <2>3, <2>4 DEF AccessNext
  <2> QED BY <2>5, CodesAfter DEF AccessTyped
<1>3. AccessInv /\ AccessTyped => AccessTypeOK
  BY DEF AccessInv, IssuersFit, AccessTyped, AccessTypeOK, Codes
<1> QED BY <1>1, <1>2, <1>3, AccessInitInv, AccessInvStep, PTL DEF AccessSpec

-----------------------------------------------------------------------------
(* The types of the catalogue.                                                *)

TaskTyped(task) ==
  /\ task.step \in {"new", "writing", "syncing", "over"}
  /\ task.document \in Documents \cup {Absent} /\ task.todo \subseteq PointNumbers

CatalogTyped ==
  /\ clients \in Seq(Documents \cup {Absent})
  /\ DOMAIN points \subseteq PointNumbers /\ openAtArca \subseteq PointNumbers
  /\ \A t \in Tasks : TaskTyped(tasks[t])

LEMMA CatalogTypedStays ==
  ASSUME CatalogInv, CatalogTyped, CatalogNext
  PROVE  CatalogTyped'
<1>1. /\ DOMAIN tasks = Tasks /\ \A t \in Tasks : DOMAIN tasks[t] = TaskFields
      /\ Len(clients) \in Nat /\ DOMAIN clients = 1..Len(clients)
      /\ PointNumbers \subseteq Nat
  BY CatalogConstants DEF CatalogInv, TaskFits
<1>2. /\ clients \in Seq(Documents \cup {Absent})
      /\ DOMAIN points \subseteq PointNumbers /\ openAtArca \subseteq PointNumbers
      /\ \A t \in Tasks : TaskTyped(tasks[t])
  BY DEF CatalogTyped
<1>3. ASSUME NEW t \in Tasks, NEW task, tasks' = [tasks EXCEPT ![t] = task], TaskTyped(task)
      PROVE  \A u \in Tasks : TaskTyped(tasks'[u])
  <2> TAKE u \in Tasks
  <2>1. CASE u = t
    BY <1>1, <1>3, <2>1
  <2>2. CASE u # t
    <3>1. tasks'[u] = tasks[u]
      BY <1>1, <1>3, <2>2
    <3> QED BY <1>2, <3>1
  <2> QED BY <2>1, <2>2
<1>4. ASSUME NEW t \in Tasks, NEW answer, tasks' = Over(t, answer)
      PROVE  \A u \in Tasks : TaskTyped(tasks'[u])
  <2> DEFINE task == [NoTask EXCEPT !.step = "over", !.answer = answer, !.read = tasks[t].read]
  <2>1. TaskTyped(task)
    BY DEF NoTask, TaskTyped
  <2>2. tasks' = [tasks EXCEPT ![t] = task]
    BY <1>4 DEF Over
  <2> HIDE DEF task
  <2> QED BY <1>3, <2>1, <2>2
<1>5. ASSUME \A u \in Tasks : TaskTyped(tasks'[u]), clients' = clients,
             DOMAIN points' \subseteq PointNumbers, openAtArca' \subseteq PointNumbers
      PROVE  CatalogTyped'
  BY <1>2, <1>5 DEF CatalogTyped, TaskTyped
<1>6. ASSUME \A u \in Tasks : TaskTyped(tasks'[u]), UNCHANGED <<points, openAtArca>>,
             clients' \in Seq(Documents \cup {Absent})
      PROVE  CatalogTyped'
  BY <1>2, <1>6 DEF CatalogTyped, TaskTyped
<1>7. CASE PointOpensOrCloses
  <2>1. tasks' = tasks /\ clients' = clients /\ points' = points /\ openAtArca' \subseteq PointNumbers
    BY <1>2, <1>7 DEF PointOpensOrCloses
  <2> QED BY <1>2, <1>5, <2>1
<1>8. CASE purgeExpired \/ \E days \in {1, Retention} : TimePasses(days)
  <2>1. UNCHANGED <<tasks, clients, points, openAtArca>>
    BY <1>8 DEF purgeExpired, TimePasses
  <2> QED BY <1>2, <1>5, <2>1
<1>9. ASSUME NEW t \in Tasks, NEW d \in Documents, CreateClient(t, d)
      PROVE  CatalogTyped'
  <2>1. /\ UNCHANGED <<points, openAtArca>> /\ clients' \in {clients, Append(clients, d)}
        /\ \E answer : tasks' = Over(t, answer)
    BY <1>9 DEF CreateClient
  <2>2. Append(clients, d) \in Seq(Documents \cup {Absent})
    BY <1>2
  <2> QED BY <1>2, <1>4, <1>6, <2>1, <2>2
<1>10. ASSUME NEW t \in Tasks, NEW id, NEW d \in Documents \cup {Absent}, GetClient(t, id, d)
       PROVE  CatalogTyped'
  <2>1. UNCHANGED <<clients, points, openAtArca>>
    BY <1>10 DEF GetClient
  <2>2. CASE \E answer : tasks' = Over(t, answer)
    BY <1>2, <1>4, <1>5, <2>1, <2>2
  <2>3. CASE tasks' = [tasks EXCEPT ![t].step = "writing", ![t].id = id, ![t].document = d]
    <3> DEFINE task == [tasks[t] EXCEPT !.step = "writing", !.id = id, !.document = d]
    <3>1. tasks' = [tasks EXCEPT ![t] = task]
      BY <1>1, <2>3
    <3>2. TaskTyped(task)
      BY <1>1, <1>2 DEF TaskTyped, TaskFields
    <3> HIDE DEF task
    <3> QED BY <1>2, <1>3, <1>5, <2>1, <3>1, <3>2
  <2> QED BY <1>10, <2>2, <2>3 DEF GetClient
<1>11. ASSUME NEW t \in Tasks, WriteClient(t)
       PROVE  CatalogTyped'
  <2>1. /\ UNCHANGED <<points, openAtArca>>
        /\ clients' \in {clients, [clients EXCEPT ![tasks[t].id] = tasks[t].document]}
        /\ \E answer : tasks' = Over(t, answer)
    <3>1. CASE clients[tasks[t].id] = Absent
      BY <1>11, <3>1 DEF WriteClient
    <3>2. CASE clients[tasks[t].id] # Absent /\ tasks[t].document # Absent
               /\ Taken(tasks[t].document, tasks[t].id)
      BY <1>11, <3>2 DEF WriteClient
    <3>3. CASE clients[tasks[t].id] # Absent
               /\ ~(tasks[t].document # Absent /\ Taken(tasks[t].document, tasks[t].id))
      BY <1>11, <3>3 DEF WriteClient
    <3> QED BY <3>1, <3>2, <3>3
  <2>2. tasks[t].document \in Documents \cup {Absent}
    BY <1>2 DEF TaskTyped
  <2>3. [clients EXCEPT ![tasks[t].id] = tasks[t].document] \in [1..Len(clients) -> Documents \cup {Absent}]
    BY <1>1, <1>2, <2>2, SeqElements
  <2>4. clients' \in Seq(Documents \cup {Absent})
    BY <1>1, <1>2, <2>1, <2>3, SeqOfFunction
  <2> QED BY <1>4, <1>6, <2>1, <2>4
<1>12. ASSUME NEW t \in Tasks, StartSync(t)
       PROVE  CatalogTyped'
  <2>1. PICK remote \in {openAtArca, {}} :
          tasks' = [tasks EXCEPT ![t].step = "syncing", ![t].todo = remote, ![t].read = remote]
    BY <1>12 DEF StartSync
  <2> DEFINE task == [tasks[t] EXCEPT !.step = "syncing", !.todo = remote, !.read = remote]
  <2>2. tasks' = [tasks EXCEPT ![t] = task]
    BY <1>1, <2>1
  <2>3. TaskTyped(task)
    BY <1>1, <1>2 DEF TaskTyped, TaskFields
  <2>4. UNCHANGED <<clients, points, openAtArca>>
    BY <1>12 DEF StartSync
  <2> HIDE DEF task
  <2> QED BY <1>2, <1>3, <1>5, <2>2, <2>3, <2>4
<1>13. ASSUME NEW t \in Tasks, UpsertPoint(t)
       PROVE  CatalogTyped'
  <2> DEFINE n == CHOOSE n \in tasks[t].todo : \A m \in tasks[t].todo : n <= m
             task == [tasks[t] EXCEPT !.todo = tasks[t].todo \ {n}]
  <2>1. tasks[t].todo \in SUBSET Nat /\ tasks[t].todo # {} /\ tasks[t].todo \subseteq PointNumbers
    BY <1>1, <1>2, <1>13 DEF UpsertPoint, TaskTyped
  <2>2. \E k \in tasks[t].todo : \A m \in tasks[t].todo : k <= m
    BY <2>1, LeastElement
  <2>3. n \in tasks[t].todo
    BY <2>2
  <2>4. /\ points' = [k \in DOMAIN points \cup {n} |-> IF k \in DOMAIN points THEN points[k] ELSE Absent]
        /\ tasks' = [tasks EXCEPT ![t].todo = @ \ {n}]
        /\ UNCHANGED <<clients, openAtArca>>
    BY <1>13 DEF UpsertPoint
  <2> HIDE DEF n
  <2>5. DOMAIN points' \subseteq PointNumbers
    BY <1>2, <2>1, <2>3, <2>4
  <2>6. tasks' = [tasks EXCEPT ![t] = task]
    BY <1>1, <2>4
  <2>7. TaskTyped(task)
    BY <1>1, <1>2 DEF TaskTyped, TaskFields
  <2> HIDE DEF task
  <2> QED BY <1>2, <1>3, <1>5, <2>4, <2>5, <2>6, <2>7
<1>14. ASSUME NEW t \in Tasks, SyncEnds(t) \/ record(t)
              \/ \E expected \in Expectations : compare(t, expected)
       PROVE  CatalogTyped'
  <2>1. UNCHANGED <<clients, points, openAtArca>> /\ \E answer : tasks' = Over(t, answer)
    BY <1>14 DEF SyncEnds, record, compare
  <2> QED BY <1>2, <1>4, <1>5, <2>1
<1>15. ASSUME NEW t \in Tasks, NEW n, NEW text, updateDescription(t, n, text)
       PROVE  CatalogTyped'
  <2>1. /\ UNCHANGED <<clients, openAtArca>> /\ \E answer : tasks' = Over(t, answer)
        /\ points' \in {points, [points EXCEPT ![n] = text]}
    BY <1>15 DEF updateDescription
  <2>2. DOMAIN points' = DOMAIN points
    BY <2>1
  <2> QED BY <1>2, <1>4, <1>5, <2>1, <2>2
<1> QED BY <1>7, <1>8, <1>9, <1>10, <1>11, <1>12, <1>13, <1>14, <1>15 DEF CatalogNext

LEMMA CatalogTypes == CatalogSpec => []CatalogTypeOK
<1>1. CatalogInit => CatalogTyped
  <2> SUFFICES ASSUME CatalogInit PROVE CatalogTyped
    OBVIOUS
  <2>1. TaskTyped(NoTask)
    BY DEF NoTask, TaskTyped
  <2>2. DOMAIN <<>> = {} /\ <<>> \in Seq(Documents \cup {Absent})
    OBVIOUS
  <2> QED BY <2>1, <2>2 DEF CatalogInit, CatalogTyped
<1>2. CatalogInv /\ CatalogTyped /\ [CatalogNext]_catalogVars => CatalogTyped'
  <2>1. CatalogTyped /\ UNCHANGED catalogVars => CatalogTyped'
    BY DEF catalogVars, CatalogTyped, TaskTyped
  <2> QED BY <2>1, CatalogTypedStays
<1>3. CatalogTyped => CatalogTypeOK
  BY SeqElements DEF CatalogTyped, TaskTyped, CatalogTypeOK
<1> QED BY <1>1, <1>2, <1>3, CatalogInitInv, CatalogInvStep, PTL DEF CatalogSpec

-----------------------------------------------------------------------------
(* The types of the form.  An open sheet leaves room for the edit it makes,   *)
(* a review for the emission it ends in.                                      *)

FormCounted ==
  /\ history.edits <= MaxEdits /\ history.emissions <= MaxEmissions
  /\ screen.sheet \in {"tipo", "moneda"} => history.edits < MaxEdits
  /\ screen.sheet = "confirm" /\ emission.step = "none" => history.emissions < MaxEmissions
  /\ history.atApi <= history.emissions
  /\ emission.step = "sent" => history.atApi < history.emissions

NonEmpty(seq) == \E S : seq \in Seq(S) /\ Len(seq) > 0

Filled == draft \in Drafts /\ form.voucherType \in VoucherTypeIds /\ NonEmpty(form.items)

LEMMA AppendedStays ==
  ASSUME NEW seq, NEW e, NonEmpty(seq) PROVE NonEmpty(Append(seq, e))
<1>1. PICK S : seq \in Seq(S) /\ Len(seq) > 0
  BY DEF NonEmpty
<1>2. seq \in Seq(S \cup {e}) /\ e \in S \cup {e}
  BY <1>1
<1>3. Append(seq, e) \in Seq(S \cup {e}) /\ Len(Append(seq, e)) = Len(seq) + 1
  BY <1>2
<1> QED BY <1>1, <1>3 DEF NonEmpty

LEMMA UpdatedStays ==
  ASSUME NEW seq, NEW i, NEW e, NonEmpty(seq) PROVE NonEmpty([seq EXCEPT ![i] = e])
<1>1. PICK S : seq \in Seq(S) /\ Len(seq) > 0
  BY DEF NonEmpty
<1>2. /\ DOMAIN seq = 1..Len(seq) /\ Len(seq) \in Nat
      /\ \A k \in DOMAIN seq : seq[k] \in S
  BY <1>1
<1>3. [seq EXCEPT ![i] = e] \in [1..Len(seq) -> S \cup {e}]
  BY <1>1, <1>2
<1>4. ASSUME NEW new \in [1..Len(seq) -> S \cup {e}] PROVE NonEmpty(new)
  <2>1. new \in Seq(S \cup {e}) /\ Len(new) = Len(seq)
    BY <1>2
  <2> QED BY <1>1, <2>1 DEF NonEmpty
<1> QED BY <1>3, <1>4

LEMMA RemovedStays ==
  ASSUME NEW seq, NonEmpty(seq), Len(seq) > 1, NEW i \in DOMAIN seq
  PROVE  NonEmpty(RemoveAt(seq, i))
<1>1. PICK S : seq \in Seq(S) /\ Len(seq) > 0
  BY DEF NonEmpty
<1>2. /\ DOMAIN seq = 1..Len(seq) /\ Len(seq) \in Nat
      /\ \A k \in DOMAIN seq : seq[k] \in S
  BY <1>1
<1>3. ASSUME NEW m \in Nat, NEW n \in Nat, m > 0, n <= Len(seq), m <= n + 1
      PROVE  SubSeq(seq, m, n) \in Seq(S) /\ Len(SubSeq(seq, m, n)) = n - m + 1
  <2>1. \A k \in m..n : seq[k] \in S
    BY <1>2, <1>3
  <2> QED BY <1>1, <1>3, <2>1
<1>4. \A u, v \in Seq(S) : u \o v \in Seq(S) /\ Len(u \o v) = Len(u) + Len(v)
  OBVIOUS
<1>5. SubSeq(seq, 1, i - 1) \o SubSeq(seq, i + 1, Len(seq)) = RemoveAt(seq, i)
  BY DEF RemoveAt
<1>6. /\ SubSeq(seq, 1, i - 1) \in Seq(S) /\ Len(SubSeq(seq, 1, i - 1)) = i - 1
      /\ SubSeq(seq, i + 1, Len(seq)) \in Seq(S)
      /\ Len(SubSeq(seq, i + 1, Len(seq))) = Len(seq) - i
  <2>1. i - 1 \in Nat /\ i + 1 \in Nat /\ i <= Len(seq)
    BY <1>2
  <2> QED BY <1>2, <1>3, <2>1
<1>7. /\ SubSeq(seq, 1, i - 1) \o SubSeq(seq, i + 1, Len(seq)) \in Seq(S)
      /\ Len(SubSeq(seq, 1, i - 1) \o SubSeq(seq, i + 1, Len(seq)))
         = Len(SubSeq(seq, 1, i - 1)) + Len(SubSeq(seq, i + 1, Len(seq)))
  BY <1>4, <1>6
<1> DEFINE both == SubSeq(seq, 1, i - 1) \o SubSeq(seq, i + 1, Len(seq))
<1>8. RemoveAt(seq, i) = both
  BY <1>5
<1>9. both \in Seq(S) /\ Len(both) = Len(seq) - 1
  BY SMTT(20), <1>2, <1>6, <1>7
<1> HIDE DEF both
<1>10. RemoveAt(seq, i) \in Seq(S) /\ Len(RemoveAt(seq, i)) > 0
  BY <1>2, <1>8, <1>9
<1> QED BY <1>10 DEF NonEmpty

LEMMA TypesAreKnown ==
  /\ \A i \in DOMAIN issuableInvoiceTypes : issuableInvoiceTypes[i] \in VoucherTypeIds
  /\ \A i \in DOMAIN DEFAULT_INVOICE_TYPES : DEFAULT_INVOICE_TYPES[i] \in VoucherTypeIds
<1>1. /\ VoucherType.FACTURA_A \in VoucherTypeIds /\ VoucherType.FACTURA_B \in VoucherTypeIds
      /\ VoucherType.FACTURA_C \in VoucherTypeIds /\ VoucherType.FACTURA_M \in VoucherTypeIds
      /\ VoucherType.FCE_FACTURA_A \in VoucherTypeIds /\ VoucherType.FCE_FACTURA_B \in VoucherTypeIds
      /\ VoucherType.FCE_FACTURA_C \in VoucherTypeIds
  BY DEF VoucherTypeIds, VoucherType
<1>2. {1, 6, 11, 51, 201, 206, 211} \subseteq VoucherTypeIds
  BY <1>1 DEF VoucherType
<1> QED BY <1>2 DEF issuableInvoiceTypes, DEFAULT_INVOICE_TYPES

\* What is offered is a voucher type, and something is.
LEMMA OptionsAreTypes ==
  ASSUME draft \in Drafts, NEW types
  PROVE  LET options == buildVoucherTypeOptions(types)
         IN /\ \A i \in DOMAIN options : options[i] \in VoucherTypeIds
            /\ firstOption(options) \in VoucherTypeIds
<1> DEFINE options == buildVoucherTypeOptions(types)
           available == {i \in DOMAIN issuableInvoiceTypes :
                           types # None /\ issuableInvoiceTypes[i] \in types}
<1>1. CASE draft # None
  <2>1. options = << draft.voucherType >> /\ draft.voucherType \in VoucherTypeIds
    BY <1>1, FormConstants DEF buildVoucherTypeOptions
  <2>2. DOMAIN << draft.voucherType >> = {1} /\ << draft.voucherType >>[1] = draft.voucherType
    OBVIOUS
  <2> QED BY <2>1, <2>2 DEF firstOption
<1>2. CASE draft = None
  <2>1. options = IF available # {} THEN [i \in available |-> issuableInvoiceTypes[i]]
                                    ELSE DEFAULT_INVOICE_TYPES
    BY <1>2 DEF buildVoucherTypeOptions
  <2>2. /\ DOMAIN issuableInvoiceTypes \subseteq Nat
        /\ DOMAIN DEFAULT_INVOICE_TYPES = 1..3
    BY DEF issuableInvoiceTypes, DEFAULT_INVOICE_TYPES
  <2>3. /\ DOMAIN options \in SUBSET Nat /\ DOMAIN options # {}
        /\ \A i \in DOMAIN options : options[i] \in VoucherTypeIds
    <3>1. CASE available # {}
      <4>1. DOMAIN options = available /\ \A i \in available : options[i] = issuableInvoiceTypes[i]
        BY <2>1, <3>1
      <4> QED BY <2>2, <3>1, <4>1, TypesAreKnown
    <3>2. CASE available = {}
      BY <2>1, <2>2, <3>2, TypesAreKnown
    <3> QED BY <3>1, <3>2
  <2> HIDE DEF options
  <2>4. \E i \in DOMAIN options : \A j \in DOMAIN options : i <= j
    BY <2>3, LeastElement
  <2> QED BY <2>3, <2>4 DEF firstOption, options
<1> QED BY <1>1, <1>2

LEMMA FormStartsFilled ==
  ASSUME draft \in Drafts
  PROVE  initialValues(draft).voucherType \in VoucherTypeIds /\ NonEmpty(initialValues(draft).items)
<1>1. VoucherType.FACTURA_B \in VoucherTypeIds
  BY DEF VoucherTypeIds, VoucherType
<1>2. NonEmpty(<< newItem >>)
  <2>1. ASSUME NEW x PROVE NonEmpty(<< x >>)
    <3>1. << x >> \in Seq({x}) /\ Len(<< x >>) = 1
      OBVIOUS
    <3>2. \A T, s : s \in Seq(T) /\ Len(s) > 0 => NonEmpty(s)
      BY DEF NonEmpty
    <3>3. Len(<< x >>) > 0
      BY <3>1
    <3> QED BY <3>1, <3>2, <3>3
  <2> QED BY <2>1
<1>3. CASE draft = None
  <2>1. initialValues(draft).voucherType = VoucherType.FACTURA_B
        /\ initialValues(draft).items = << newItem >>
    BY <1>3 DEF initialValues
  <2> QED BY <1>1, <1>2, <2>1
<1>4. CASE draft # None
  <2>1. draft.voucherType \in VoucherTypeIds /\ draft.items \in Seq(ToSet(draft.items)) /\ Len(draft.items) > 0
    BY <1>4, FormConstants
  <2>2. initialValues(draft).voucherType = draft.voucherType /\ initialValues(draft).items = draft.items
    BY <1>4 DEF initialValues
  <2> QED BY <2>1, <2>2 DEF NonEmpty
<1> QED BY <1>3, <1>4

LEMMA FormCountedStays ==
  ASSUME FormInv, FormCounted, ~screen.left, FormNext
  PROVE  FormCounted'
<1>1. /\ history \in Histories /\ screen \in Screens /\ MaxEdits \in Nat /\ MaxEmissions \in Nat
      /\ DOMAIN emission = {"step", "data", "seen", "reply"} /\ emission.step \in {"none", "sent", "answered"}
      /\ emission.step = "answered" => emission.reply \in {"issued", "queued", "refused", "unrecorded"}
      /\ None \notin {"tipo", "moneda", "confirm"}
  BY FormConstants DEF FormInv, FormShape
<1>2. /\ \A b \in BOOLEAN : [Edited EXCEPT !.rateGiven = b].edits = history.edits + 1
      /\ Edited.edits = history.edits + 1
      /\ Edited.emissions = history.emissions /\ Edited.atApi = history.atApi
      /\ Moved.edits = history.edits /\ Moved.emissions = history.emissions /\ Moved.atApi = history.atApi
  BY <1>1 DEF Edited, Moved, Histories
<1>3. ASSUME Sheet(None), history.edits < MaxEdits, screen' = screen, emission' = emission,
             history'.edits = history.edits + 1, history'.emissions = history.emissions,
             history'.atApi = history.atApi
      PROVE  FormCounted'
  BY <1>1, <1>3 DEF FormCounted, Histories, Sheet
<1>4. ASSUME screen'.sheet = screen.sheet \/ screen'.sheet = None, emission' = emission,
             history'.edits = history.edits, history'.emissions = history.emissions,
             history'.atApi = history.atApi
      PROVE  FormCounted'
  BY <1>1, <1>4 DEF FormCounted
<1>5. CASE \E field \in DOMAIN Typed : TypeField(field)
  <2>1. PICK field \in DOMAIN Typed : TypeField(field)
    BY <1>5
  <2>2. PICK b \in BOOLEAN : history' = [Edited EXCEPT !.rateGiven = b]
    <3>1. history' = [Edited EXCEPT !.rateGiven = @ \/ field = "exchangeRate"]
      BY <2>1 DEF TypeField
    <3>2. Edited.rateGiven \in BOOLEAN
      BY <1>1 DEF Edited, Histories
    <3> QED BY <3>1, <3>2
  <2>3. /\ history'.edits = history.edits + 1 /\ history'.emissions = history.emissions
        /\ history'.atApi = history.atApi
    BY <1>1, <2>2 DEF Edited, Histories
  <2> QED BY <1>3, <2>1, <2>3 DEF TypeField, Editing
<1>6. CASE \/ \E client \in FormClients : ChooseClient(client)
           \/ \E i \in DOMAIN form.items : TypeInItem(i)
           \/ \E i \in DOMAIN form.tributes : TypeInTribute(i)
           \/ AddOrRemove
  <2>1. history' = Edited /\ Editing /\ screen' = screen /\ emission' = emission
    BY <1>6 DEF ChooseClient, TypeInItem, TypeInTribute, AddOrRemove
  <2> QED BY <1>2, <1>3, <2>1 DEF Editing
<1>7. CASE \E name \in {"tipo", "moneda"} : OpenSheet(name)
  BY <1>1, <1>7 DEF OpenSheet, Editing, FormCounted, Screens
<1>8. CASE CloseSheet \/ Leave
  <2>1. CASE CloseSheet
    <3>1. screen'.sheet = None /\ emission' = emission /\ history'.edits = history.edits
          /\ history'.emissions = history.emissions /\ history'.atApi = history.atApi
      BY <1>1, <2>1 DEF CloseSheet, Screens, Histories
    <3> QED BY <1>4, <3>1
  <2>2. CASE Leave
    <3>1. screen'.sheet = None /\ emission'.step = "none" /\ history'.edits = 0
          /\ history'.emissions = history.emissions /\ history'.atApi = history.atApi
      BY <1>1, <2>2 DEF Leave, NoEmission, Histories
    <3> QED BY <1>1, <3>1 DEF FormCounted, Histories
  <2> QED BY <1>8, <2>1, <2>2
<1>9. CASE ChooseType \/ \E currency \in SELECTABLE_CURRENCIES : chooseCurrency(currency)
  <2>1. ASSUME screen.sheet \in {"tipo", "moneda"}, screen'.sheet = None, emission' = emission,
               history'.edits = history.edits + 1, history'.emissions = history.emissions,
               history'.atApi = history.atApi
        PROVE  FormCounted'
    BY <1>1, <2>1 DEF FormCounted, Histories
  <2>2. CASE ChooseType
    <3>1. history' = Edited /\ screen' = [screen EXCEPT !.sheet = None] /\ emission' = emission
          /\ screen.sheet = "tipo"
      BY <2>2 DEF ChooseType, Sheet
    <3> QED BY <1>1, <1>2, <2>1, <3>1 DEF Screens
  <2>3. ASSUME NEW currency \in SELECTABLE_CURRENCIES, chooseCurrency(currency)
        PROVE  FormCounted'
    <3>1. /\ history' = [Edited EXCEPT !.astray = @ \/ awaited.quotes # {}, !.rateGiven = FALSE]
          /\ screen' = [screen EXCEPT !.sheet = None] /\ emission' = emission
          /\ screen.sheet = "moneda"
      BY <2>3 DEF chooseCurrency, Sheet
    <3>2. /\ history'.edits = history.edits + 1 /\ history'.emissions = history.emissions
          /\ history'.atApi = history.atApi
      BY <1>1, <3>1 DEF Edited, Histories
    <3> QED BY <1>1, <2>1, <3>1, <3>2 DEF Screens
  <2> QED BY <1>9, <2>2, <2>3
<1>10. CASE \/ \E currency \in awaited.quotes : QuoteAnswered(currency)
            \/ PadronAnswered
            \/ \E types \in EnabledTypes : EnabledAnswered(types)
            \/ lookupPadron \/ PlanAnswered \/ Describe \/ clearError
  <2>1. emission' = emission /\ screen'.sheet = screen.sheet
    BY <1>1, <1>10 DEF QuoteAnswered, PadronAnswered, EnabledAnswered, lookupPadron, PlanAnswered,
                       Describe, clearError, Screens
  <2>2. \/ history' = history \/ history' = Moved
        \/ history' = [Moved EXCEPT !.rateGiven = FALSE] \/ history' = [history EXCEPT !.astray = TRUE]
    BY <1>10 DEF QuoteAnswered, PadronAnswered, EnabledAnswered, lookupPadron, PlanAnswered,
                 Describe, clearError
  <2>3. /\ history'.edits = history.edits /\ history'.emissions = history.emissions
        /\ history'.atApi = history.atApi
    BY <1>1, <2>2 DEF Moved, Histories
  <2> QED BY <1>4, <2>1, <2>3
<1>11. CASE review
  <2>1. history' = history /\ emission' = emission /\ history.emissions < MaxEmissions
        /\ screen'.sheet \in {"confirm", None}
    BY <1>1, <1>11 DEF review, Sheet, Screens
  <2> QED BY <1>1, <2>1 DEF FormCounted
<1>12. CASE emit
  <2>1. Sheet("confirm") /\ emission.step = "none"
    BY <1>1, <1>12 DEF emit, Sheet, BodyShown, isEmitting
  <2>2. history.emissions < MaxEmissions /\ screen.sheet = "confirm"
    BY <2>1 DEF FormCounted, Sheet
  <2>3. CASE parseVoucherPayload
    <3>1. screen' = screen /\ emission'.step = "sent"
          /\ history'.edits = history.edits /\ history'.emissions = history.emissions + 1
          /\ history'.atApi = history.atApi
      BY <1>1, <1>12, <2>3 DEF emit, Histories
    <3> QED BY <1>1, <2>2, <3>1 DEF FormCounted, Histories
  <2>4. CASE ~parseVoucherPayload
    <3>1. screen'.sheet = None /\ emission' = emission
          /\ history'.edits = history.edits /\ history'.emissions = history.emissions
          /\ history'.atApi = history.atApi
      BY <1>1, <1>12, <2>4 DEF emit, Histories, Screens
    <3> QED BY <1>4, <3>1
  <2> QED BY <2>3, <2>4
<1>13. CASE ApiServes
  <2>1. PICK reply \in {"issued", "queued", "refused", "unrecorded"} :
          /\ emission' = [emission EXCEPT !.step = "answered", !.reply = reply]
          /\ history' = [history EXCEPT !.atApi = @ + IF reply = "refused" THEN 0 ELSE 1]
    BY <1>13 DEF ApiServes
  <2>2. screen' = screen /\ emission.step = "sent" /\ emission'.step = "answered"
        /\ history'.edits = history.edits /\ history'.emissions = history.emissions
        /\ (history'.atApi = history.atApi \/ history'.atApi = history.atApi + 1)
    BY <1>1, <1>13, <2>1 DEF ApiServes, Histories
  <2> QED BY <1>1, <2>2 DEF FormCounted, Histories
<1>14. CASE ReplyArrives \/ ReplyLost
  <2>1. screen'.sheet = None /\ emission'.step = "none"
    <3>1. \A reply : failureScreen(reply).sheet = None
      BY <1>1 DEF failureScreen, Screens
    <3>2. CASE ReplyArrives
      BY <1>1, <3>1, <3>2 DEF ReplyArrives, NoEmission, Screens
    <3>3. CASE ReplyLost
      BY <1>1, <3>1, <3>3 DEF ReplyLost, NoEmission
    <3> QED BY <1>14, <3>2, <3>3
  <2>2. history'.edits = history.edits /\ history'.emissions = history.emissions
        /\ history'.atApi = history.atApi
    BY <1>1, <1>14 DEF ReplyArrives, ReplyLost, Histories
  <2> QED BY <1>1, <2>1, <2>2 DEF FormCounted, Histories
<1> QED BY <1>5, <1>6, <1>7, <1>8, <1>9, <1>10, <1>11, <1>12, <1>13, <1>14 DEF FormNext

LEMMA FilledStays ==
  ASSUME FormInv, Filled, FormNext
  PROVE  Filled'
<1>1. DOMAIN form = FormFields /\ draft' = draft
  BY DEF FormInv, FormShape, FormNext, TypeField, ChooseClient, TypeInItem, TypeInTribute, Describe,
         AddOrRemove, OpenSheet, CloseSheet, ChooseType, chooseCurrency, QuoteAnswered, lookupPadron,
         PadronAnswered, EnabledAnswered, review, PlanAnswered, emit, ApiServes, ReplyArrives,
         ReplyLost, clearError, Leave
<1>2. ASSUME form'.voucherType \in VoucherTypeIds, NonEmpty(form.items)'
      PROVE  Filled'
  BY <1>1, <1>2 DEF Filled
<1>3. ASSUME form'.voucherType = form.voucherType, form'.items = form.items
      PROVE  Filled'
  BY <1>1, <1>3 DEF Filled, NonEmpty
<1>4. CASE UNCHANGED form
  BY <1>3, <1>4
<1>5. CASE \E field \in DOMAIN Typed : TypeField(field)
  <2>1. PICK field \in DOMAIN Typed : TypeField(field)
    BY <1>5
  <2>2. PICK value : form' = [form EXCEPT ![field] = value]
    BY <2>1 DEF TypeField
  <2>3. field # "items" /\ field # "voucherType"
    BY FormConstants
  <2> QED BY <1>1, <1>3, <2>2, <2>3 DEF FormFields
<1>6. CASE \/ \E client \in FormClients : ChooseClient(client)
           \/ \E currency \in SELECTABLE_CURRENCIES : chooseCurrency(currency)
           \/ \E currency \in awaited.quotes : QuoteAnswered(currency)
           \/ PadronAnswered
  <2>1. CASE \E client \in FormClients : ChooseClient(client)
    BY <1>1, <1>3, <2>1 DEF ChooseClient, FormFields
  <2>2. CASE \E currency \in SELECTABLE_CURRENCIES : chooseCurrency(currency)
    BY <1>1, <1>3, <2>2 DEF chooseCurrency, FormFields
  <2>3. CASE \E currency \in awaited.quotes : QuoteAnswered(currency)
    BY <1>1, <1>3, <2>3 DEF QuoteAnswered, FormFields
  <2>4. CASE PadronAnswered
    BY <1>1, <1>3, <2>4 DEF PadronAnswered, FormFields
  <2> QED BY <1>6, <2>1, <2>2, <2>3, <2>4
<1>7. ASSUME NEW new, form' = [form EXCEPT !.items = new], NonEmpty(new)
      PROVE  Filled'
  <2>1. form'.items = new /\ form'.voucherType = form.voucherType
    BY <1>1, <1>7 DEF FormFields
  <2>3. NonEmpty(form.items)'
    BY <1>7, <2>1 DEF NonEmpty
  <2> QED BY <1>2, <2>1, <2>3 DEF Filled
<1>8. ASSUME NEW new, form' = [form EXCEPT !.tributes = new]
      PROVE  Filled'
  BY <1>1, <1>3, <1>8 DEF FormFields
<1>9. NonEmpty(form.items)
  BY DEF Filled
<1>10. \A items, i, field, value : NonEmpty(items) => NonEmpty(replaceAt(items, i, field, value))
  <2> SUFFICES ASSUME NEW items, NEW i, NEW field, NEW value, NonEmpty(items)
               PROVE  NonEmpty(replaceAt(items, i, field, value))
    OBVIOUS
  <2>1. replaceAt(items, i, field, value) = [items EXCEPT ![i] = [items[i] EXCEPT ![field] = value]]
    BY DEF replaceAt
  <2>2. NonEmpty([items EXCEPT ![i] = [items[i] EXCEPT ![field] = value]])
    BY UpdatedStays
  <2> QED BY <2>1, <2>2
<1>11. CASE \E i \in DOMAIN form.items : TypeInItem(i)
  <2>1. PICK i \in DOMAIN form.items : TypeInItem(i)
    BY <1>11
  <2>2. PICK field, value, rate :
          \/ form' = [form EXCEPT !.items = replaceAt(form.items, i, field, value)]
          \/ form' = [form EXCEPT !.items = replaceAt(replaceAt(form.items, i, field, value), i, "ivaRate", rate)]
    BY <2>1 DEF TypeInItem
  <2>3. /\ NonEmpty(replaceAt(form.items, i, field, value))
        /\ NonEmpty(replaceAt(replaceAt(form.items, i, field, value), i, "ivaRate", rate))
    BY <1>9, <1>10
  <2> QED BY <1>7, <2>2, <2>3
<1>12. CASE \E i \in DOMAIN form.tributes : TypeInTribute(i)
  BY <1>8, <1>12 DEF TypeInTribute
<1>13. CASE Describe
  <2>1. \/ \E i \in DOMAIN form.items : form' = [form EXCEPT !.items = replaceAt(@, i, "described", TRUE)]
        \/ \E new : form' = [form EXCEPT !.tributes = new]
    BY <1>13 DEF Describe
  <2>2. \A i : form' = [form EXCEPT !.items = replaceAt(@, i, "described", TRUE)]
               => form' = [form EXCEPT !.items = replaceAt(form.items, i, "described", TRUE)]
    BY <1>1 DEF FormFields
  <2> QED BY <1>7, <1>8, <1>9, <1>10, <2>1, <2>2
<1>14. CASE AddOrRemove
  <2>1. \/ form' = [form EXCEPT !.items = Append(form.items, newItem)]
        \/ \E i \in DOMAIN form.items :
             Len(form.items) > 1 /\ form' = [form EXCEPT !.items = RemoveAt(form.items, i)]
        \/ \E new : form' = [form EXCEPT !.tributes = new]
    BY <1>1, <1>14 DEF AddOrRemove, FormFields
  <2>2. NonEmpty(Append(form.items, newItem))
    BY <1>9, AppendedStays
  <2>3. \A i \in DOMAIN form.items : Len(form.items) > 1 => NonEmpty(RemoveAt(form.items, i))
    BY <1>9, RemovedStays
  <2> QED BY <1>7, <1>8, <2>1, <2>2, <2>3
<1>15. ASSUME NEW type \in VoucherTypeIds, form' = [form EXCEPT !.voucherType = type]
       PROVE  Filled'
  <2>1. form'.voucherType = type /\ form'.items = form.items
    BY <1>1, <1>15 DEF FormFields
  <2>2. NonEmpty(form.items)'
    BY <1>9, <2>1 DEF NonEmpty
  <2> QED BY <1>2, <1>15, <2>1, <2>2
<1>16. CASE ChooseType
  <2>1. PICK i \in DOMAIN buildVoucherTypeOptions(enabled) :
          form' = [form EXCEPT !.voucherType = buildVoucherTypeOptions(enabled)[i]]
    BY <1>16 DEF ChooseType
  <2>2. buildVoucherTypeOptions(enabled)[i] \in VoucherTypeIds
    BY <2>1, OptionsAreTypes DEF Filled
  <2> QED BY <1>15, <2>1, <2>2
<1>17. CASE \E types \in EnabledTypes : EnabledAnswered(types)
  <2>1. PICK types \in EnabledTypes : EnabledAnswered(types)
    BY <1>17
  <2>2. \/ UNCHANGED form
        \/ form' = [form EXCEPT !.voucherType = firstOption(buildVoucherTypeOptions(types))]
    BY <2>1 DEF EnabledAnswered
  <2>3. firstOption(buildVoucherTypeOptions(types)) \in VoucherTypeIds
    BY OptionsAreTypes DEF Filled
  <2> QED BY <1>4, <1>15, <2>2, <2>3
<1>18. CASE Leave
  <2>1. form' = initialValues(draft)
    BY <1>18 DEF Leave
  <2>2. form'.voucherType \in VoucherTypeIds /\ NonEmpty(form.items)'
    BY <2>1, FormStartsFilled DEF Filled, NonEmpty
  <2> QED BY <1>2, <2>2
<1>19. CASE \/ \E name \in {"tipo", "moneda"} : OpenSheet(name)
            \/ CloseSheet \/ lookupPadron \/ review \/ PlanAnswered \/ emit \/ ApiServes
            \/ ReplyArrives \/ ReplyLost \/ clearError
  BY <1>4, <1>19 DEF OpenSheet, CloseSheet, lookupPadron, review, PlanAnswered, emit, ApiServes,
                     ReplyArrives, ReplyLost, clearError
<1> QED BY <1>5, <1>6, <1>11, <1>12, <1>13, <1>14, <1>16, <1>17, <1>18, <1>19 DEF FormNext

LEMMA FormTypes == FormSpec => []FormTypeOK
<1>1. FormInit => FormCounted /\ Filled
  <2> SUFFICES ASSUME FormInit PROVE FormCounted /\ Filled
    OBVIOUS
  <2>1. FormCounted
    BY FormConstants DEF FormInit, FormCounted, NoEmission
  <2>2. draft \in Drafts /\ form = initialValues(draft)
    BY DEF FormInit
  <2>3. form.voucherType \in VoucherTypeIds /\ NonEmpty(form.items)
    BY <2>2, FormStartsFilled
  <2> QED BY <2>1, <2>2, <2>3 DEF Filled
<1>2. FormInv /\ FormCounted /\ Filled /\ [FormNext]_formVars => FormCounted' /\ Filled'
  <2> SUFFICES ASSUME FormInv, FormCounted, Filled, [FormNext]_formVars PROVE FormCounted' /\ Filled'
    OBVIOUS
  <2>1. CASE UNCHANGED formVars
    BY <2>1 DEF formVars, FormCounted, Filled, NonEmpty
  <2>2. CASE FormNext
    <3>1. ~screen.left
      BY <2>2 DEF FormNext
    <3> QED BY <2>2, <3>1, FormCountedStays, FilledStays
  <2> QED BY <2>1, <2>2
<1>3. FormInv /\ FormCounted /\ Filled => FormTypeOK
  <2> SUFFICES ASSUME FormInv, FormCounted, Filled PROVE FormTypeOK
    OBVIOUS
  <2>1. form.items # <<>>
    BY DEF Filled, NonEmpty
  <2>2. history \in Histories /\ screen \in Screens /\ plan.step \in {"idle", "pending", "answered"}
        /\ MaxEdits \in Nat /\ MaxEmissions \in Nat
    BY FormConstants DEF FormInv, FormShape
  <2> QED BY <2>1, <2>2 DEF FormTypeOK, FormCounted, Filled, Histories, Screens
<1> QED BY <1>1, <1>2, <1>3, FormInitInv, FormInvStep, PTL DEF FormSpec

-----------------------------------------------------------------------------
(* The parts together: a behaviour runs one of them and leaves the others.     *)

\* Every part starts in one of its initial states.
LEMMA PartsInit ==
  Init => /\ ExportsInit /\ ReconciliationInit /\ PurchasesInit /\ PushInit /\ WebhooksInit /\ WatchInit
          /\ CalendarInit /\ CachesInit /\ RateLimitsInit /\ AccessInit /\ CatalogInit /\ FormInit
BY DEF Init

\* A step is one of each part, or leaves it as it is.
LEMMA PartsStep ==
  [Next]_vars =>
    /\ [ExportsNext]_exportVars /\ [ReconciliationNext]_reconciliationVars /\ [PurchasesNext]_purchaseVars
    /\ [PushNext]_pushVars /\ [WebhooksNext]_webhookVars /\ [WatchNext]_watchVars
    /\ [CalendarNext]_calendarVars /\ [CachesNext]_cacheVars /\ [RateLimitsNext]_limitVars
    /\ [AccessNext]_accessVars /\ [CatalogNext]_catalogVars /\ [FormNext]_formVars
<1> SUFFICES ASSUME [Next]_vars
             PROVE  /\ [ExportsNext]_exportVars /\ [ReconciliationNext]_reconciliationVars
                    /\ [PurchasesNext]_purchaseVars /\ [PushNext]_pushVars
                    /\ [WebhooksNext]_webhookVars /\ [WatchNext]_watchVars
                    /\ [CalendarNext]_calendarVars /\ [CachesNext]_cacheVars /\ [RateLimitsNext]_limitVars
                    /\ [AccessNext]_accessVars /\ [CatalogNext]_catalogVars /\ [FormNext]_formVars
  OBVIOUS
<1>1. CASE UNCHANGED vars
  BY <1>1 DEF vars
<1>2. CASE Next
  BY <1>2 DEF Next, OthersStay
<1> QED BY <1>1, <1>2

\* A behaviour of the whole is one of every part.
LEMMA PartsSpec ==
  Spec => /\ ExportsSpec /\ ReconciliationSpec /\ PurchasesSpec /\ PushSpec /\ WebhooksSpec /\ WatchSpec
          /\ CalendarSpec /\ CachesSpec /\ RateLimitsSpec /\ AccessSpec /\ CatalogSpec /\ FormSpec
BY PartsInit, PartsStep, PTL
   DEF Spec, ExportsSpec, ReconciliationSpec, PurchasesSpec, PushSpec, WebhooksSpec, WatchSpec,
       CalendarSpec, CachesSpec, RateLimitsSpec, AccessSpec, CatalogSpec, FormSpec

\* Who is told what, and when, for every value of the constants.
THEOREM NoticesArrive == Spec => []NoticesHold
BY PartsSpec, PushTokenFollowsTheSession, DeliveriesEndAsPromised, CertificatesAreCountedDown, DueDatesAreShown, PTL
   DEF NoticesHold

\* What serves a request, for every value of the constants.
THEOREM ServicesAreSound == Spec => []ServicesHold
BY PartsSpec, CachedAnswersAreRecent, RatesAreBounded, OnlyOwnIssuersAreReached, TablesStayConsistent, PTL
   DEF ServicesHold

\* Each state keeps its types, its counters their bounds and its queues their
\* lengths, in every part.
THEOREM PartsAreTyped == Spec => []PartsTypeOK
BY PartsSpec, ExportTypes, ReconciliationTypes, PurchaseTypes, PushTypes, WebhookTypes, WatchTypes,
   CalendarTypes, CacheTypes, RateTypes, AccessTypes, CatalogTypes, FormTypes, PTL
   DEF PartsTypeOK

\* The books, and the form that fills them, in a behaviour of the whole: exports
\* once per invoice, a report that counts what is missing, purchases that add
\* up, and a form that issues what it shows.
THEOREM RecordsAreFaithful == Spec => [](ExportsHold /\ MissingIsReported /\ PurchasesHold /\ FormHolds)
BY PartsSpec, ExportsAreFaithful, ReportsCountWhatIsMissing, PurchasesAddUp, FormIssuesWhatItShows, PTL
=============================================================================
