----------------------------- MODULE ReportAmounts -----------------------------
(***************************************************************************)
(* What digesting a payment adds to its reports: the sales of each seller     *)
(* (SELLER), of all (PLATFORM_FLOW), and the commission income of the         *)
(* platform from each seller (PLATFORM_SELLER) and from all (PLATFORM), with  *)
(* their expenses and their rows per tax rate, item and platform.  Purchases, *)
(* refunds and imported sales come in any order; how calls overlap is in      *)
(* ReportDigestion.  Translated from report-digestion.service.ts and the      *)
(* entities of the report tables.                                            *)
(*                                                                           *)
(* Payments have one currency and fall in one period.  An item is a record    *)
(* [item, seller, class, total, tax, rate, commission], an operation with a   *)
(* fee a record [channel, fee, debit], a refund's rounding the difference of  *)
(* its settled lines.                                                        *)
(***************************************************************************)
EXTENDS Integers, FiniteSets, Functions

CONSTANTS
    ReportSellers,
    DigestedPayments,  \* [type, external, items, operations, rounding]
    CommissionRate,    \* comissionItemTax of the settings, in percent
    MaxDigested        \* bound: payments digested

ASSUME AmountsAssumption ==
    /\ MaxDigested \in Nat /\ CommissionRate \in Nat
    /\ IsFiniteSet(ReportSellers) /\ IsFiniteSet(DigestedPayments)
    /\ \A p \in DigestedPayments :
          /\ p.rounding \in Int /\ IsFiniteSet(p.items) /\ IsFiniteSet(p.operations)
          /\ \A i \in p.items : /\ i.seller \in ReportSellers /\ i.total \in Nat
                               /\ i.tax \in Int /\ i.commission \in Int
          /\ \A o \in p.operations : o.fee \in Int

ReportsOf(type) == {<<type, s>> : s \in ReportSellers}
OwnReports == {<<"PLATFORM", "platform">>, <<"PLATFORM_FLOW", "platform">>}
AllReports == ReportsOf("SELLER") \cup ReportsOf("PLATFORM_SELLER") \cup OwnReports

VARIABLES
    digestedCount,  \* payments digested
    reportSums,     \* Report: sales and refunds with their taxes
    reportCount,    \* paymentCount
    taxGroupRows,   \* ReportTaxGroup, per report and rate
    itemRows,       \* ReportItem, per report and item
    platformRows,   \* ReportPlatform, per report and platform
    expenseRows,    \* ReportExpense, per report, account and key
    totalExpense    \* Report.totalExpense

amountVars == <<digestedCount, reportSums, reportCount, taxGroupRows, itemRows,
                platformRows, expenseRows, totalExpense>>

ItemsOf(p, r) == {i \in p.items : r[1] \in {"PLATFORM", "PLATFORM_FLOW"} \/ i.seller = r[2]}
Total(items) == SumFunction([i \in items |-> i.total])
Tax(items) == SumFunction([i \in items |-> i.tax])

Rates == {i.rate : i \in UNION {p.items : p \in DigestedPayments}} \cup {CommissionRate}
ItemKeys == {i.item : i \in UNION {p.items : p \in DigestedPayments}}
ItemClasses == {i.class : i \in UNION {p.items : p \in DigestedPayments}} \ {""}
SoldOn == {"POSTRAL_INSTANCE", "external"}
Channels == {o.channel : o \in UNION {p.operations : p \in DigestedPayments}}

\* The platform a payment was sold on (resolveReportPlatform).
PlatformOf(p) == IF p.external THEN "external" ELSE "POSTRAL_INSTANCE"

\* The keys of the expenses: per platform, its commissions and those of a class.
Expenses ==
    {<<"REPORT_TOTAL">>, <<"PAYMENT_SERVICE_FEE">>, <<"REFUND_ROUNDING_ADJUSTMENT">>}
    \cup {<<"COMISSION_TOTAL", x>> : x \in SoldOn}
    \cup ({"ITEM_CLASS_COMISSION"} \X SoldOn \X ItemClasses)
    \cup ({"PAYMENT_CHANNEL_FEE"} \X Channels)

\* The owner of a report, and the literal account of the platform's fees.
ExpenseAccounts == {"owner", "PLATFORM"}

NoSums == [sale |-> 0, saleTax |-> 0, refund |-> 0, refundTax |-> 0]

AmountsInit ==
    /\ digestedCount = 0
    /\ reportSums = [r \in AllReports |-> NoSums]
    /\ reportCount = [r \in AllReports |-> 0]
    /\ taxGroupRows = [r \in AllReports |-> [t \in Rates |-> NoSums]]
    /\ itemRows = [r \in AllReports |-> [i \in ItemKeys |-> NoSums]]
    /\ platformRows = [r \in AllReports |-> [x \in SoldOn |-> NoSums]]
    /\ expenseRows = [r \in AllReports |-> [a \in ExpenseAccounts |-> [k \in Expenses |-> 0]]]
    /\ totalExpense = [r \in AllReports |-> 0]
-----------------------------------------------------------------------------
\* reportCalculationByPaymentItems: a purchase adds to the sales, a refund to the
\* refunds.
Added(sums, type, amount, tax) ==
    IF type = "PURCHASE"
    THEN [sums EXCEPT !.sale = sums.sale + amount, !.saleTax = sums.saleTax + tax]
    ELSE [sums EXCEPT !.refund = sums.refund + amount, !.refundTax = sums.refundTax + tax]

AddedItems(sums, type, items) == Added(sums, type, Total(items), Tax(items))

NetSale(sums) == sums.sale - sums.refund
NetRevenue(sums) == NetSale(sums) - (sums.saleTax - sums.refundTax)

\* The commission on items, and the tax in it (digestComissionIncomeForReport).
Commission(items) == SumFunction([i \in items |-> i.commission])
CommissionTax(items) == (Commission(items) * CommissionRate) \div (100 + CommissionRate)

\* Mutant of CommissionChange: a refund gives no commission back.
CommissionChangeKept(type, items) == IF type = "PURCHASE" THEN Commission(items) ELSE 0

\* Expenses grow with a purchase and shrink with a refund (updateExpensesForReport).
CommissionChange(type, items) ==
    IF type = "PURCHASE" THEN Commission(items) ELSE - Commission(items)

\* The share of a seller in a fee he is debited for: by his part of the price
\* (updateProviderFeeExpenseForReportAccountId; none without a price), or the whole
\* fee for the platform, whoever is debited
\* (updateProviderFeeExpenseForPlatformReport).
FeesOf(p, r) ==
    {o \in p.operations : r[1] = "SELLER" => o.debit # "PLATFORM" /\ Total(ItemsOf(p, r)) > 0}

FeesTotal(p, r, operations) ==
    SumFunction([o \in operations |->
        IF r[1] = "SELLER" THEN (o.fee * Total(ItemsOf(p, r))) \div Total(p.items) ELSE o.fee])

\* addProviderFeeExpenses: the total, per channel, and once in REPORT_TOTAL.
FeeExpense(p, r, k) ==
    CASE k \in {<<"REPORT_TOTAL">>, <<"PAYMENT_SERVICE_FEE">>} -> FeesTotal(p, r, FeesOf(p, r))
      [] k[1] = "PAYMENT_CHANNEL_FEE" -> FeesTotal(p, r, {o \in FeesOf(p, r) : o.channel = k[2]})
      [] OTHER -> 0

\* updateExpensesForReport: the total of the platform, per class, and once in
\* REPORT_TOTAL.
CommissionExpense(p, r, k) ==
    CASE k \in {<<"REPORT_TOTAL">>, <<"COMISSION_TOTAL", PlatformOf(p)>>} ->
            CommissionChange(p.type, ItemsOf(p, r))
      [] k[1] = "ITEM_CLASS_COMISSION" /\ k[2] = PlatformOf(p) ->
            CommissionChange(p.type, {i \in ItemsOf(p, r) : i.class = k[3]})
      [] OTHER -> 0

\* updateRefundRoundingExpense
RoundingExpense(p, k) ==
    IF p.type = "REFUND" /\ k \in {<<"REPORT_TOTAL">>, <<"REFUND_ROUNDING_ADJUSTMENT">>}
    THEN p.rounding ELSE 0

\* Which of the three a report has, and under which account: the fees of the
\* platform are kept under a name that is not the owner's.
ExpenseOf(p, r, a, k) ==
    LET commissions == IF a = "owner" /\ r[1] \in {"SELLER", "PLATFORM_FLOW"}
                       THEN CommissionExpense(p, r, k) ELSE 0
        fees == IF \/ r[1] = "SELLER" /\ a = "owner"
                   \/ r[1] = "PLATFORM_FLOW" /\ a = "PLATFORM"
                   \/ r[1] = "PLATFORM" /\ a = "PLATFORM" /\ ~p.external
                THEN FeeExpense(p, r, k) ELSE 0
        rounding == IF \/ r[1] = "PLATFORM_FLOW" /\ a = "owner"
                       \/ r[1] = "PLATFORM" /\ a = "owner" /\ ~p.external
                    THEN RoundingExpense(p, k) ELSE 0
    IN commissions + fees + rounding

\* The reports a payment is queued for (findMatchingQueries).
ReportsFor(p) == OwnReports \cup {r \in AllReports : \E i \in p.items : i.seller = r[2]}

IncomeReport(p, r) == r[1] \in {"PLATFORM", "PLATFORM_SELLER"} /\ ~p.external
SalesReport(r) == r[1] \in {"SELLER", "PLATFORM_FLOW"}

\* checkRelations for one payment, in every report it is queued for.
Digest(p) ==
    /\ digestedCount < MaxDigested
    /\ digestedCount' = digestedCount + 1
    /\ expenseRows' = [r \in AllReports |-> [a \in ExpenseAccounts |-> [k \in Expenses |->
          expenseRows[r][a][k] + IF r \in ReportsFor(p) THEN ExpenseOf(p, r, a, k) ELSE 0]]]
    /\ LET sales == {r \in ReportsFor(p) : SalesReport(r)}
           income == {r \in ReportsFor(p) : IncomeReport(p, r)} IN
       /\ reportSums' = [r \in AllReports |->
             CASE r \in sales -> AddedItems(reportSums[r], p.type, ItemsOf(p, r))
               [] r \in income -> Added(reportSums[r], p.type, Commission(ItemsOf(p, r)),
                                        CommissionTax(ItemsOf(p, r)))
               [] OTHER -> reportSums[r]]
       /\ reportCount' = [r \in AllReports |->
             reportCount[r] + IF r \in sales \cup income THEN 1 ELSE 0]
       /\ totalExpense' = [r \in AllReports |->
             IF r \in sales \/ (r \in income /\ p.rounding # 0 /\ r[1] = "PLATFORM")
             THEN expenseRows'[r]["owner"][<<"REPORT_TOTAL">>] ELSE totalExpense[r]]
       /\ taxGroupRows' = [r \in AllReports |-> [t \in Rates |->
             CASE r \in sales -> AddedItems(taxGroupRows[r][t], p.type,
                                            {i \in ItemsOf(p, r) : i.rate = t})
               [] r \in income /\ t = CommissionRate ->
                     Added(taxGroupRows[r][t], p.type, Commission(ItemsOf(p, r)),
                           CommissionTax(ItemsOf(p, r)))
               [] OTHER -> taxGroupRows[r][t]]]
       /\ itemRows' = [r \in AllReports |-> [x \in ItemKeys |->
             IF r \in sales
             THEN AddedItems(itemRows[r][x], p.type, {i \in ItemsOf(p, r) : i.item = x})
             ELSE itemRows[r][x]]]
       /\ platformRows' = [r \in AllReports |-> [x \in SoldOn |->
             IF r \in sales /\ x = PlatformOf(p)
             THEN AddedItems(platformRows[r][x], p.type, ItemsOf(p, r))
             ELSE platformRows[r][x]]]

AmountsNext == \E p \in DigestedPayments : Digest(p)

AmountsSpec == AmountsInit /\ [][AmountsNext]_amountVars
-----------------------------------------------------------------------------
Flow == <<"PLATFORM_FLOW", "platform">>
Platform == <<"PLATFORM", "platform">>
OwnerExpense(r, k) == expenseRows[r]["owner"][k]

\* The expenses that make up REPORT_TOTAL.
TotalledExpenses ==
    {<<"COMISSION_TOTAL", x>> : x \in SoldOn}
    \cup {<<"PAYMENT_SERVICE_FEE">>, <<"REFUND_ROUNDING_ADJUSTMENT">>}

\* What the sellers sold is what the platform's flow shows, what they owe as
\* commissions of its own sales is the income of the platform, from each and from
\* all, and every breakdown of a report adds up to it: the reports are sums kept
\* apart, by different methods, over purchases, refunds and imported sales.
ReportsAgree ==
    /\ NetSale(reportSums[Flow]) =
          SumFunction([s \in ReportSellers |-> NetSale(reportSums[<<"SELLER", s>>])])
    /\ NetSale(reportSums[Platform]) =
          SumFunction([s \in ReportSellers |-> NetSale(reportSums[<<"PLATFORM_SELLER", s>>])])
    /\ \A s \in ReportSellers :
          OwnerExpense(<<"SELLER", s>>, <<"COMISSION_TOTAL", "POSTRAL_INSTANCE">>) =
             NetSale(reportSums[<<"PLATFORM_SELLER", s>>])
    /\ \A r \in AllReports :
          NetSale(reportSums[r]) = SumFunction([t \in Rates |-> NetSale(taxGroupRows[r][t])])
    /\ \A r \in {x \in AllReports : SalesReport(x)} :
          /\ NetRevenue(reportSums[r]) =
                SumFunction([x \in ItemKeys |-> NetRevenue(itemRows[r][x])])
          /\ NetRevenue(reportSums[r]) =
                SumFunction([x \in SoldOn |-> NetRevenue(platformRows[r][x])])
          /\ totalExpense[r] = OwnerExpense(r, <<"REPORT_TOTAL">>)
          /\ OwnerExpense(r, <<"REPORT_TOTAL">>) =
                SumFunction([k \in TotalledExpenses |-> OwnerExpense(r, k)])
=============================================================================
