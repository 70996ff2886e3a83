------------------------------ MODULE OrderQuote ------------------------------
(***************************************************************************)
(* From an order to an initiated purchase: OrderCalculationService prices    *)
(* every line, taxes it and looks up the platform's commission, while        *)
(* administrators edit commission rules and sellers edit prices, and         *)
(* PaymentService.init saves what was computed under a session id.           *)
(*                                                                         *)
(* A price is a number of cents; the instances choose prices and rates whose *)
(* taxes are whole cents, since the code computes with decimals.             *)
(***************************************************************************)
EXTENDS Naturals, FiniteSets, Sequences, Functions

CONSTANTS
    Sellers, Commercial,    \* seller accounts, and those of type COMMERCIAL
    ItemClasses, Platforms, \* classes of items, external platforms
    General,                \* null or "": the rule holds for every value
    RuleIds, Percents,      \* rows of app_comission_v2 and their percentages
    Goods,                  \* items: [seller, class, rate], rate NoRate if untaxed in the mode
    NoRate,
    Prices,                 \* prices in cents, 0 stands for no row
    InitialPrices,          \* prices a good may have at first: [base, live, offer]
    Orders,                 \* orders: sequences of [good, quantity]
    Buyers, Sessions,       \* callers of init, and session ids (General among them: none sent)
    MaxRuleEdits, MaxSales  \* bounds of the instance

ASSUME QuoteAssumption ==
    /\ General \notin Sellers \cup ItemClasses \cup Platforms
    /\ Commercial \subseteq Sellers
    /\ Percents \subseteq Nat /\ Prices \subseteq Nat \ {0}
    /\ InitialPrices \subseteq [base : Nat, live : BOOLEAN, offer : Nat]
    /\ \A g \in Goods : g.rate \in Nat \cup {NoRate}
    /\ \A o \in Orders : o \in Seq([good : Goods, quantity : Nat]) /\ o # <<>>

VARIABLES
    rules,      \* commission rule of each row, or General where there is none
    ruleEdits,  \* how many edits were made
    prices,     \* of each good: its default price and whether that is in its period,
                \* and a price of a higher activity order; 0 for no row
    fromNet,    \* AdminSettings.comissionsCalculatedFromNet
    quotes,     \* the calculation each buyer's request is in
    sales       \* saved payments

oqVars == <<rules, ruleEdits, prices, fromNet, quotes, sales>>

NoQuote == [at |-> "idle", order |-> <<>>, session |-> General, lines |-> <<>>, picked |-> General]

QuoteInit ==
    /\ rules = [i \in RuleIds |-> General]
    /\ ruleEdits = 0
    /\ prices \in [Goods -> InitialPrices]
    /\ fromNet \in BOOLEAN
    /\ quotes = [b \in Buyers |-> NoQuote]
    /\ sales = {}

-----------------------------------------------------------------------------
(* Commission rules.                                                         *)

\* Sellers and platforms weigh the same, so seller and class outweigh a platform.
BiasOfFlat(seller, class, platform) ==
    1 + (IF platform # General THEN 2 ELSE 0) + (IF seller # General THEN 2 ELSE 0)
      + (IF class # General THEN 1 ELSE 0)

\* AppComissionMapper.updateEntity(): platform over seller over class.
BiasOf(seller, class, platform) ==
    1 + (IF platform # General THEN 4 ELSE 0) + (IF seller # General THEN 2 ELSE 0)
      + (IF class # General THEN 1 ELSE 0)

\* The unique key of the table does not bind rows with a null seller or platform.
Clashes(i, r) ==
    /\ r.seller # General /\ r.platform # General
    /\ \E j \in RuleIds \ {i} :
         /\ rules[j] # General
         /\ rules[j].seller = r.seller /\ rules[j].class = r.class
         /\ rules[j].platform = r.platform

SaveRule(i, seller, class, platform, percent) ==
    LET r == [seller |-> seller, class |-> class, platform |-> platform, percent |-> percent,
              bias |-> BiasOf(seller, class, platform)]
    IN /\ ruleEdits < MaxRuleEdits
       /\ ~Clashes(i, r)
       /\ rules' = [rules EXCEPT ![i] = r]
       /\ ruleEdits' = ruleEdits + 1
       /\ UNCHANGED <<prices, fromNet, quotes, sales>>

RemoveRule(i) ==
    /\ ruleEdits < MaxRuleEdits
    /\ rules[i] # General
    /\ rules' = [rules EXCEPT ![i] = General]
    /\ ruleEdits' = ruleEdits + 1
    /\ UNCHANGED <<prices, fromNet, quotes, sales>>

\* Rows whose dimensions are each the wanted one or general.
Matching(seller, class, platform) ==
    {r \in {rules[i] : i \in RuleIds} \ {General} :
        /\ r.seller \in {seller, General}
        /\ r.class \in {class, General}
        /\ r.platform \in {platform, General}}

\* fetchOneForCalculation(): a matching row of the highest bias, 0 % without one.
Chosen(seller, class, platform) ==
    LET m == Matching(seller, class, platform)
    IN IF m = {} THEN {General} ELSE {r \in m : \A s \in m : s.bias <= r.bias}

PercentOf(rule) == IF rule = General THEN 0 ELSE rule.percent

-----------------------------------------------------------------------------
(* Amounts.                                                                  *)

TaxOf(full, rate) == (rate * full) \div (100 + rate)

Commission(full, rate, rule) ==
    ((IF fromNet THEN full - TaxOf(full, rate) ELSE full) * PercentOf(rule)) \div 100

\* The sums over some of the lines.
FullOf(lines, some) == SumFunctionOnSet([i \in DOMAIN lines |-> lines[i].full], some)
TaxIn(lines, some) == SumFunctionOnSet([i \in DOMAIN lines |-> lines[i].tax], some)

Total(lines) == FullOf(lines, DOMAIN lines)
TaxTotal(lines) == TaxIn(lines, DOMAIN lines)

\* mergeTaxesByPercent(): one tax per rate, with the sums of its lines.
MergedTaxes(lines) ==
    {LET of == {i \in DOMAIN lines : lines[i].rate = rate}
     IN [rate |-> rate, full |-> FullOf(lines, of), tax |-> TaxIn(lines, of)]
       : rate \in {lines[i].rate : i \in DOMAIN lines}}

-----------------------------------------------------------------------------
(* Prices.                                                                   *)

\* setDefaultPrice(): find the row of activity order 0, or make it.
SetDefaultPrice(g, p) ==
    /\ prices' = [prices EXCEPT ![g].base = p, ![g].live = TRUE]
    /\ UNCHANGED <<rules, ruleEdits, fromNet, quotes, sales>>

\* The default price leaves its period, or deletePrice() removes either row.
PriceEnds(g) ==
    /\ \/ prices' = [prices EXCEPT ![g].live = FALSE]
       \/ prices' = [prices EXCEPT ![g].base = 0, ![g].live = FALSE]
       \/ prices' = [prices EXCEPT ![g].offer = 0]
    /\ UNCHANGED <<rules, ruleEdits, fromNet, quotes, sales>>

\* allLatestPrices(): the active row of the highest activity order.
ActivePrice(g) ==
    CASE prices[g].offer # 0 -> prices[g].offer
      [] prices[g].offer = 0 /\ prices[g].live -> prices[g].base
      [] OTHER -> 0

-----------------------------------------------------------------------------
(* PaymentService.init().                                                    *)

InUse(s) == \E p \in sales : p.session = s /\ p.open

\* generateEntityFromInitDto(): a session in use is refused, before anything else.
BeginInit(b, order, session) ==
    /\ quotes[b].at = "idle"
    /\ Cardinality(sales) < MaxSales
    /\ session = General \/ ~InUse(session)
    /\ quotes' = [quotes EXCEPT ![b] =
                    [NoQuote EXCEPT !.at = "rule", !.order = order, !.session = session]]
    /\ UNCHANGED <<rules, ruleEdits, prices, fromNet, sales>>

Line(b) == quotes[b].order[Len(quotes[b].lines) + 1]

\* The commission is looked up first, and the rows seen are remembered for the
\* properties only.
FindRule(b) ==
    /\ quotes[b].at = "rule"
    /\ LET g == Line(b).good
       IN \E r \in Chosen(g.seller, g.class, General) :
            quotes' = [quotes EXCEPT ![b].at = "price",
                        ![b].picked = [rule |-> r, seen |-> Matching(g.seller, g.class, General)]]
    /\ UNCHANGED <<rules, ruleEdits, prices, fromNet, sales>>

Sellable(g) ==
    /\ g.seller \in Commercial
    /\ g.rate # NoRate
    /\ ActivePrice(g) # 0
    /\ prices[g].base # 0

\* Seller, tax and prices are read, and the line is computed; any of them missing
\* ends the request.
PriceLine(b) ==
    /\ quotes[b].at = "price"
    /\ LET l == Line(b)
           full == ActivePrice(l.good) * l.quantity
           line == [good |-> l.good, full |-> full, rate |-> l.good.rate,
                    tax |-> TaxOf(full, l.good.rate),
                    fee |-> Commission(full, l.good.rate, quotes[b].picked.rule),
                    rule |-> quotes[b].picked.rule, seen |-> quotes[b].picked.seen]
       IN quotes' = [quotes EXCEPT ![b] =
            IF ~Sellable(l.good) THEN NoQuote
            ELSE [quotes[b] EXCEPT
                    !.lines = Append(@, line), !.picked = General,
                    !.at = IF Len(quotes[b].lines) + 1 = Len(quotes[b].order)
                           THEN "save" ELSE "rule"]]
    /\ UNCHANGED <<rules, ruleEdits, prices, fromNet, sales>>

\* The payment is saved INITIATED with its totals and merged taxes.
SavePurchase(b) ==
    /\ quotes[b].at = "save"
    /\ LET ls == quotes[b].lines
       IN sales' = sales \cup
            {[buyer |-> b, session |-> quotes[b].session, open |-> TRUE, lines |-> ls, total |-> Total(ls),
              tax |-> TaxTotal(ls), taxes |-> MergedTaxes(ls)]}
    /\ quotes' = [quotes EXCEPT ![b] = NoQuote]
    /\ UNCHANGED <<rules, ruleEdits, prices, fromNet>>

\* The purchase is completed, failed, expired or cancelled (PaymentLifecycle).
SaleEnds(p) ==
    /\ p.open
    /\ sales' = (sales \ {p}) \cup {[p EXCEPT !.open = FALSE]}
    /\ UNCHANGED <<rules, ruleEdits, prices, fromNet, quotes>>

QuoteNext ==
    \/ \E i \in RuleIds :
         \/ \E s \in Sellers \cup {General}, c \in ItemClasses \cup {General},
               p \in Platforms \cup {General}, x \in Percents : SaveRule(i, s, c, p, x)
         \/ RemoveRule(i)
    \/ \E g \in Goods : PriceEnds(g) \/ \E p \in Prices : SetDefaultPrice(g, p)
    \/ \E b \in Buyers :
         \/ \E o \in Orders, s \in Sessions : BeginInit(b, o, s)
         \/ FindRule(b) \/ PriceLine(b) \/ SavePurchase(b)
    \/ \E p \in sales : SaleEnds(p)

-----------------------------------------------------------------------------
(* What must hold.                                                           *)

\* Rule a is about more than rule b: a platform outweighs a seller and a class
\* together, a seller outweighs a class.
MoreSpecific(a, b) ==
    LET fixes(r, d) == r[d] # General
        differ(d) == fixes(a, d) /\ ~fixes(b, d)
        same(d) == fixes(a, d) <=> fixes(b, d)
    IN \/ differ("platform")
       \/ same("platform") /\ differ("seller")
       \/ same("platform") /\ same("seller") /\ differ("class")

MostSpecific(rule, seen) ==
    IF rule = General THEN seen = {} ELSE rule \in seen /\ \A r \in seen : ~MoreSpecific(r, rule)

TaxesAddUp(p) ==
    /\ p.total = SumFunctionOnSet([t \in p.taxes |-> t.full], p.taxes)
    /\ p.tax = SumFunctionOnSet([t \in p.taxes |-> t.tax], p.taxes)
    /\ \A i \in DOMAIN p.lines : p.lines[i].fee + p.lines[i].tax <= p.lines[i].full
===============================================================================
