----------------------------- MODULE LandedPrices -----------------------------
(***************************************************************************)
(* What a product costs the buyer: prices in minor units of a currency     *)
(* (money.py), converted at the rates of a table (exchange_rate.py), with  *)
(* freight and tariff to the buyer's country (tariff_schedule.py), as the  *)
(* search tool (product_search_tool.py) shows them on its cards or turns   *)
(* a product down for its price (catalog_search.py).                       *)
(*                                                                         *)
(* Rates are integers, thousandths of a CNY and thousandths of the value.  *)
(* The code multiplies and rounds binary floats: a result half way between *)
(* two minor units may come out as either, the same one every time.        *)
(***************************************************************************)
EXTENDS Integers, FiniteSets

CONSTANTS Currency, RateOf,      \* [Currency -> thousandths of a CNY]
          HalvesUp,              \* <<amount, rate, per>>: products half way that are rounded up
          Destination, FreightOf,  \* [Destination -> minor units of CNY]
          DutyFree,              \* [Destination -> minor units of CNY]
          DutyOf,                \* [Destination -> [categories and "*" -> thousandths]]
          PricedSku,                 \* variants: price, currency and category
          Wish,                  \* searches: currency, destination and highest price
          MaxPriced,             \* bound: prices looked at together
          Anywhere               \* no destination, or no highest price

VARIABLE priced   \* what searches have answered about offers

ASSUME PriceAssumption ==
  /\ RateOf \in [Currency -> Nat \ {0}] /\ "CNY" \in Currency /\ RateOf["CNY"] = 1000
  /\ FreightOf \in [Destination -> Nat] /\ DutyFree \in [Destination -> Nat]
  /\ \A d \in Destination : "*" \in DOMAIN DutyOf[d] /\ \A k \in DOMAIN DutyOf[d] : DutyOf[d][k] \in Nat
  /\ \A o \in PricedSku : o.price \in Nat /\ o.currency \in Currency
  /\ \A w \in Wish : w.cap \in Nat \cup {Anywhere}
-----------------------------------------------------------------------------
\* round(n * rate / per)
Rounded(n, rate, per) ==
  LET rest == (n * rate) % per IN
  (n * rate) \div per + IF 2 * rest > per \/ (2 * rest = per /\ <<n, rate, per>> \in HalvesUp) THEN 1 ELSE 0

\* ExchangeRateTable.convert; nothing is rounded within a currency.
Converted(n, from, to) == IF from = to THEN n ELSE Rounded(n, RateOf[from], RateOf[to])

\* Rate by category, for a single piece with its whole freight.
Duty(d, category) == DutyOf[d][IF category \in DOMAIN DutyOf[d] THEN category ELSE "*"]
Taxable(d, cny) == IF cny > DutyFree[d] THEN cny - DutyFree[d] ELSE 0

\* TariffSchedule.quote: price, freight and tariff are converted one by one.
LevyOn(o, d) == Rounded(Taxable(d, Converted(o.price, o.currency, "CNY")), Duty(d, o.category), 1000)
QuoteOf(o, d, unit) ==
  [price |-> Converted(o.price, o.currency, unit), freight |-> Converted(FreightOf[d], "CNY", unit),
   tariff |-> Converted(LevyOn(o, d), "CNY", unit),
   free |-> Taxable(d, Converted(o.price, o.currency, "CNY")) = 0]
Total(q) == q.price + q.freight + q.tariff
NoQuote(price) == [price |-> price, freight |-> 0, tariff |-> 0, free |-> TRUE]

\* _within_price_cap, on the price without freight and tariff.
Affordable(w, price) == w.cap # Anywhere => price <= w.cap
-----------------------------------------------------------------------------
Tells(o, w, verdict, q) ==
  /\ Cardinality(priced) < MaxPriced /\ ~\E x \in priced : x.offer = o /\ x.wish = w
  /\ priced' = priced \cup {[offer |-> o, wish |-> w, verdict |-> verdict, quote |-> q]}

\* The tool refuses a country it does not know, the conversion a currency.
RefuseWish(o, w) ==
  /\ w.ship \notin Destination \cup {Anywhere} \/ w.unit \notin Currency
  /\ Tells(o, w, "refused", NoQuote(0))

Understood(w) == w.ship \in Destination \cup {Anywhere} /\ w.unit \in Currency

\* _to_rejected
RejectPrice(o, w) ==
  LET price == Converted(o.price, o.currency, w.unit) IN
  Understood(w) /\ ~Affordable(w, price) /\ Tells(o, w, "over_price_cap", NoQuote(price))

\* _to_card: the price that was compared with the cap is the one that is shown.
ShowCard(o, w) ==
  LET q == IF w.ship = Anywhere THEN NoQuote(Converted(o.price, o.currency, w.unit)) ELSE QuoteOf(o, w.ship, w.unit) IN
  Understood(w) /\ Affordable(w, q.price) /\ Tells(o, w, "shown", q)

PricesInit == priced = {}
PricesNext == \E o \in PricedSku, w \in Wish : RefuseWish(o, w) \/ RejectPrice(o, w) \/ ShowCard(o, w)
PricesSpec == PricesInit /\ [][PricesNext]_priced
-----------------------------------------------------------------------------
PricesTypeOK ==
  \A x \in priced : x.offer \in PricedSku /\ x.wish \in Wish /\ x.verdict \in {"refused", "over_price_cap", "shown"}
                    /\ x.quote \in [price : Nat, freight : Nat, tariff : Nat, free : BOOLEAN]

Worth(o) == o.price * RateOf[o.currency]   \* thousandths of minor units of CNY
Carded(x) == x.verdict = "shown" /\ x.wish.ship # Anywhere
Distance(a, b) == IF a > b THEN a - b ELSE b - a

\* The total on a card is the cost that follows from the exact rates, up to the rounding of
\* its three parts: the tariff is on what exceeds the allowance, not on everything.
LandedNear ==
  \A x \in priced : Carded(x) =>
    LET d == x.wish.ship
        rate == Duty(d, x.offer.category)
        excess == Taxable(d, Worth(x.offer) \div 1000)   \* whole minor units
    IN 2 * Distance(Total(x.quote) * RateOf[x.wish.unit],
                    Worth(x.offer) + 1000 * FreightOf[d] + excess * rate)
         <= 3 * RateOf[x.wish.unit] + 1000 + 3 * rate

\* Between two offers of one search rounding inverts nothing: what is turned down for its
\* price is not worth less than what is shown, and of two shown offers of one category the
\* one worth more does not cost less in total.
PricesOrdered ==
  \A x, y \in priced : x.wish = y.wish /\ Worth(x.offer) < Worth(y.offer) =>
    /\ ~(x.verdict = "over_price_cap" /\ y.verdict = "shown")
    /\ Carded(x) /\ Carded(y) /\ Duty(x.wish.ship, x.offer.category) = Duty(y.wish.ship, y.offer.category) =>
         Total(x.quote) <= Total(y.quote)

PricesSound == LandedNear /\ PricesOrdered
=============================================================================
