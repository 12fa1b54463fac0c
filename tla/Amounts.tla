------------------------------- MODULE Amounts -------------------------------
(* The arithmetic of a voucher: the amounts sent to ARCA (iva-calculator.ts) *)
(* and the breakdown the tax books make of the stored items                  *)
(* (voucher-tax-breakdown.ts).                                               *)
(* Money is whole cents, a quantity thousandths of a unit, a rate tenths of  *)
(* a percent, an exchange rate tenths of a peso.  What the code leaves       *)
(* unrounded is an exact fraction here.                                      *)
EXTENDS VoucherTypes

Unit == 1000      \* quantity of one unit
LocalRate == 10   \* exchange rate of the peso

\* Math.round of numerator / denominator: halves go up.
RoundHalfUp(numerator, denominator) ==
  (2 * numerator + denominator) \div (2 * denominator)

SumOfAll(terms) ==
  LET sum[n \in Nat] == IF n = 0 THEN 0 ELSE sum[n - 1] + terms[n]
  IN sum[Len(terms)]

SumOf(seq, value(_)) == SumOfAll([i \in DOMAIN seq |-> value(seq[i])])

\* Of the elements that filter keeps.
SumWhere(seq, chosen(_), value(_)) ==
  SumOf(seq, LAMBDA element : IF chosen(element) THEN value(element) ELSE 0)

\* Over ivaRates.
SumOverRates(value(_)) ==
  value(0) + value(25) + value(50) + value(105) + value(210) + value(270)

-----------------------------------------------------------------------------
(* iva-calculator.ts *)

\* In thousandths of a cent.
grossOf(item) == item.quantity * item.unitPrice

sumBy(items, treatment) ==
  RoundHalfUp(SumWhere(items, LAMBDA item : item.taxTreatment = treatment, grossOf), Unit)

TributeAmount(tribute) == RoundHalfUp(tribute.taxableBase * tribute.rate, 1000)

calculateTributes(tributes) ==
  [entries |-> [i \in DOMAIN tributes |->
                 [id |-> tributes[i].id, amount |-> TributeAmount(tributes[i])]],
   total |-> SumOf(tributes, TributeAmount)]

TaxedAt(item, rate) == item.taxTreatment = "TAXED" /\ item.ivaRate = rate

TaxedRates(items) == {rate \in ivaRates : \E i \in DOMAIN items : TaxedAt(items[i], rate)}

\* In whole cents.
grossByRate(items, rate) ==
  RoundHalfUp(SumWhere(items, LAMBDA item : TaxedAt(item, rate), grossOf), Unit)

\* Mutant: the IVA is recomputed from the rounded base.
Mutant_RateSplit(items, rate) ==
  LET gross == grossByRate(items, rate)
      base == RoundHalfUp(gross * 1000, 1000 + rate)
  IN [id |-> ivaRateAfipId[rate], taxableBase |-> base, amount |-> RoundHalfUp(base * rate, 1000)]

\* Prices include IVA: the base of a rate is what remains of its gross.
RateSplit(items, rate) ==
  LET gross == grossByRate(items, rate)
      base == RoundHalfUp(gross * 1000, 1000 + rate)
  IN [id |-> ivaRateAfipId[rate], taxableBase |-> base, amount |-> gross - base]

\* A rate without items adds nothing.
splitTaxedGrossByRate(items) ==
  [rates |-> {RateSplit(items, rate) : rate \in TaxedRates(items)},
   netAmount |-> SumOverRates(LAMBDA rate : RateSplit(items, rate).taxableBase),
   ivaAmount |-> SumOverRates(LAMBDA rate : RateSplit(items, rate).amount)]

containedIvaAmount(items) == splitTaxedGrossByRate(items).ivaAmount

calculateAmounts(type, items, tributes) ==
  LET itemsTotal == RoundHalfUp(SumOf(items, grossOf), Unit)
      tribute == calculateTributes(tributes)
      split == splitTaxedGrossByRate(items)
      reports == reportsIvaToArca(type)
  IN [netAmount |-> IF reports THEN split.netAmount ELSE itemsTotal,
      ivaAmount |-> IF reports THEN split.ivaAmount ELSE 0,
      exemptAmount |-> IF reports THEN sumBy(items, "EXEMPT") ELSE 0,
      untaxedAmount |-> IF reports THEN sumBy(items, "UNTAXED") ELSE 0,
      tributeAmount |-> tribute.total,
      totalAmount |-> itemsTotal + tribute.total,
      rates |-> IF reports THEN split.rates ELSE {},
      tributes |-> tribute.entries]

-----------------------------------------------------------------------------
(* voucher-tax-breakdown.ts: from the items as stored, in pesos *)

bearsIva(type) == voucherLetter(type) \in {"A", "B", "M"}

voucherSign(type) == IF isCreditNote(type) THEN -1 ELSE 1

\* In tenths of a cent.
toPesos(voucher, amount) == amount * voucher.exchangeRate

\* Where the books put an item: exports are exempt, and without IVA all is net.
BookColumn(voucher, item) ==
  CASE item.taxTreatment = "EXEMPT" \/ voucherLetter(voucher.voucherType) = "E" -> "exempt"
    [] item.taxTreatment = "UNTAXED" -> "untaxed"
    [] ~bearsIva(voucher.voucherType) \/ item.ivaRate = 0 -> "net"
    [] OTHER -> "taxed"

BookGross(voucher, chosen(_)) ==
  SumWhere(voucher.items, chosen, LAMBDA item : toPesos(voucher, item.subtotal))

ColumnGross(voucher, column) ==
  BookGross(voucher, LAMBDA item : BookColumn(voucher, item) = column)

RateGross(voucher, rate) ==
  BookGross(voucher, LAMBDA item : BookColumn(voucher, item) = "taxed" /\ item.ivaRate = rate)

BookRates(voucher) ==
  {voucher.items[i].ivaRate : i \in {j \in DOMAIN voucher.items :
                                       BookColumn(voucher, voucher.items[j]) = "taxed"}}

\* 1 / (1 + rate), in lowest terms.
BaseShare == [rate \in ivaRates |->
  CASE rate = 0 -> <<1, 1>> [] rate = 25 -> <<40, 41>> [] rate = 50 -> <<20, 21>>
    [] rate = 105 -> <<200, 221>> [] rate = 210 -> <<100, 121>> [] rate = 270 -> <<100, 127>>]

PlusFraction(a, b) == <<a[1] * b[2] + b[1] * a[2], a[2] * b[2]>>

\* The base of a rate on top of what was added up before.
PlusBase(sum, voucher, rate) ==
  IF rate \in BookRates(voucher)
  THEN PlusFraction(sum, <<RateGross(voucher, rate) * BaseShare[rate][1], BaseShare[rate][2]>>)
  ELSE sum

\* What is net of IVA, unrounded: one rate after the other.
NetOfIva(voucher) ==
  LET at25 == PlusBase(<<ColumnGross(voucher, "net"), 1>>, voucher, 25)
      at50 == PlusBase(at25, voucher, 50)
      at105 == PlusBase(at50, voucher, 105)
      at210 == PlusBase(at105, voucher, 210)
  IN PlusBase(at210, voucher, 270)

\* A sum in tenths of a cent, rounded to cents.
ToCents(fraction) == RoundHalfUp(fraction[1], 10 * fraction[2])

\* The IVA of a rate in cents.
IvaAt(voucher, rate) ==
  LET share == BaseShare[rate]
  IN ToCents(<<RateGross(voucher, rate) * (share[2] - share[1]), share[2]>>)

breakDownVoucherTaxes(voucher) ==
  [netAmount |-> ToCents(NetOfIva(voucher)),
   exemptAmount |-> ToCents(<<ColumnGross(voucher, "exempt"), 1>>),
   untaxedAmount |-> ToCents(<<ColumnGross(voucher, "untaxed"), 1>>),
   ivaByRate |-> [rate \in BookRates(voucher) |-> IvaAt(voucher, rate)]]
=============================================================================
