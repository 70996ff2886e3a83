-------------------------------- MODULE Billing --------------------------------
(***************************************************************************)
(* Billing a seller in one currency: a run, of the cron on a billing day or   *)
(* of an administrator, adds up the daily reports of days that are over and   *)
(* not billed, creates one open payment for the commissions and one for the   *)
(* earnings, each with its operation and seller orders, and marks the reports *)
(* it found.  Nothing of this is in a transaction, the digestion saves whole  *)
(* report rows it read before, and a party confirms an open payment later.    *)
(* Translated from billing.service.ts, payment.service.ts and the services    *)
(* these call.                                                               *)
(***************************************************************************)
EXTENDS Integers, Sequences, FiniteSetsExt

CONSTANTS
    BillingRuns,       \* calls of runBilling
    Confirmers,        \* calls of confirmOpenPayment
    BillingDays,       \* days of the month that are billing days
    MaxDay,            \* bound: the last day
    Digested,          \* per report <<kind, day>>, the amounts of its payments in order
    MaxBillingPayments \* bound: payments created

BillingKinds == {"COMMISSION", "EARNINGS"}
DailyReports == BillingKinds \X (1..MaxDay)

ASSUME BillingAssumption ==
    /\ MaxDay \in Nat
    /\ Digested \in [DailyReports -> Seq(Int)]
    /\ MaxBillingPayments \in Nat

VARIABLES
    today,
    daily,       \* Report: its paymentCount, amount and whether billedAt is set
    staleReport, \* the row a digestion holds, per report
    billingRun,  \* where each run is: the kind, the reports and the payment it is at
    billings,    \* the billing payments, with their operation and seller orders
    confirmer    \* where each confirmation is, and the payment

billingVars == <<today, daily, staleReport, billingRun, billings, confirmer>>

NoRun == [pc |-> "idle", kind |-> "COMMISSION", reports |-> {}, payment |-> 0]

BillingInit ==
    /\ today = 1
    /\ daily = [r \in DailyReports |-> [count |-> 0, amount |-> 0, billed |-> FALSE]]
    /\ staleReport = [r \in DailyReports |-> {}]
    /\ billingRun = [b \in BillingRuns |-> NoRun]
    /\ billings = <<>>
    /\ confirmer = [c \in Confirmers |-> [pc |-> "idle", payment |-> 0]]

NextDay ==
    /\ today < MaxDay
    /\ today' = today + 1
    /\ UNCHANGED <<daily, staleReport, billingRun, billings, confirmer>>
-----------------------------------------------------------------------------
(* The digestion of a payment into a report, as much as billing sees of it *)

ReadDaily(r) ==
    /\ staleReport[r] = {}
    /\ r[2] <= today
    /\ daily[r].count < Len(Digested[r])
    /\ staleReport' = [staleReport EXCEPT ![r] = {daily[r]}]
    /\ UNCHANGED <<today, daily, billingRun, billings, confirmer>>

\* The whole row is saved, billedAt included.
SaveDaily(r) ==
    /\ \E row \in staleReport[r] :
          daily' = [daily EXCEPT ![r] = [row EXCEPT
             !.count = @ + 1, !.amount = @ + Digested[r][row.count + 1]]]
    /\ staleReport' = [staleReport EXCEPT ![r] = {}]
    /\ UNCHANGED <<today, billingRun, billings, confirmer>>
-----------------------------------------------------------------------------
(* runBilling *)

RunAt(b, step) == billingRun[b].pc = step
RunGoes(b, step) == billingRun' = [billingRun EXCEPT ![b].pc = step]

\* Without a billing account a run ends, and the cron runs on billing days only.
BeginBilling(b, byCron, configured) ==
    /\ RunAt(b, "idle")
    /\ RunGoes(b, IF configured /\ (byCron => today \in BillingDays) THEN "currencies" ELSE "done")
    /\ UNCHANGED <<today, daily, staleReport, billings, confirmer>>

\* findUnbilledReports: days that are over, with payments.
Unbilled == {r \in DailyReports : ~daily[r].billed /\ daily[r].count > 0 /\ r[2] < today}
UnbilledOf(kind) == {r \in Unbilled : r[1] = kind}

FindCurrencies(b) ==
    /\ RunAt(b, "currencies")
    /\ RunGoes(b, IF Unbilled = {} THEN "done" ELSE "find")
    /\ UNCHANGED <<today, daily, staleReport, billings, confirmer>>

\* The commissions come first, then the earnings.
AfterKind(b) ==
    [billingRun[b] EXCEPT !.reports = {}, !.payment = 0,
        !.pc = IF @ # "idle" /\ billingRun[b].kind = "COMMISSION" THEN "find" ELSE "done",
        !.kind = "EARNINGS"]

TotalOf(reports) == MapThenSumSet(LAMBDA r : daily[r].amount, reports)

\* The reports of the kind, if there is something to pay.
FindUnbilled(b) ==
    /\ RunAt(b, "find")
    /\ LET found == UnbilledOf(billingRun[b].kind) IN
       IF TotalOf(found) <= 0
       THEN /\ billingRun' = [billingRun EXCEPT ![b] = AfterKind(b)]
            /\ UNCHANGED billings
       ELSE /\ Len(billings) < MaxBillingPayments
            /\ billingRun' = [billingRun EXCEPT ![b].pc = "operation", ![b].reports = found,
                                                ![b].payment = Len(billings) + 1]
            /\ billings' = Append(billings, [reports |-> found, total |-> TotalOf(found),
                  status |-> "WAITING", open |-> TRUE, operation |-> FALSE, orders |-> "NONE",
                  posted |-> FALSE])
    /\ UNCHANGED <<today, daily, staleReport, confirmer>>

\* createOpenPaymentOperation
CreateOperation(b) ==
    /\ RunAt(b, "operation")
    /\ billings' = [billings EXCEPT ![billingRun[b].payment].operation = TRUE]
    /\ RunGoes(b, "orders")
    /\ UNCHANGED <<today, daily, staleReport, confirmer>>

\* generateSellerPaymentOrders
CreateOrders(b) ==
    /\ RunAt(b, "orders")
    /\ billings' = [billings EXCEPT ![billingRun[b].payment].orders = "OPEN"]
    /\ RunGoes(b, "mark")
    /\ UNCHANGED <<today, daily, staleReport, confirmer>>

\* Mutant of ReadyToMark: the reports are marked as soon as the payment is saved.
ReadyToMarkEarly(b) == RunAt(b, "operation")

ReadyToMark(b) == RunAt(b, "mark")

\* markReportsAsBilled, by their ids.
MarkBilled(b) ==
    /\ ReadyToMark(b)
    /\ daily' = [r \in DailyReports |->
          IF r \in billingRun[b].reports THEN [daily[r] EXCEPT !.billed = TRUE] ELSE daily[r]]
    /\ billingRun' = [billingRun EXCEPT ![b] = AfterKind(b)]
    /\ UNCHANGED <<today, staleReport, billings, confirmer>>

\* A query fails, or the process dies.
BillingFails(b) ==
    /\ billingRun[b].pc \notin {"idle", "done"}
    /\ RunGoes(b, "done")
    /\ UNCHANGED <<today, daily, staleReport, billings, confirmer>>
-----------------------------------------------------------------------------
(* confirmOpenPayment *)

ConfirmerAt(c, step) == confirmer[c].pc = step
ConfirmerGoes(c, step) == confirmer' = [confirmer EXCEPT ![c].pc = step]

\* A party of a waiting open payment.
LoadOpenPayment(c, p, authorized) ==
    /\ ConfirmerAt(c, "idle")
    /\ confirmer' = [confirmer EXCEPT ![c] =
          [payment |-> p,
           pc |-> IF billings[p].open /\ billings[p].status = "WAITING" /\ authorized
                  THEN "complete" ELSE "done"]]
    /\ UNCHANGED <<today, daily, staleReport, billingRun, billings>>

CompleteOpenPayment(c) ==
    /\ ConfirmerAt(c, "complete")
    /\ billings' = [billings EXCEPT ![confirmer[c].payment].status = "COMPLETED"]
    /\ ConfirmerGoes(c, "post")
    /\ UNCHANGED <<today, daily, staleReport, billingRun>>

\* postPaymentOperation: the account transactions and the seller orders.
PostOpenPayment(c) ==
    /\ ConfirmerAt(c, "post")
    /\ billings' = [billings EXCEPT ![confirmer[c].payment].posted = TRUE,
                                    ![confirmer[c].payment].orders = "OPEN"]
    /\ ConfirmerGoes(c, "closeOrders")
    /\ UNCHANGED <<today, daily, staleReport, billingRun>>

CloseOrders(c) ==
    /\ ConfirmerAt(c, "closeOrders")
    /\ billings' = [billings EXCEPT ![confirmer[c].payment].orders = "CLOSED"]
    /\ ConfirmerGoes(c, "close")
    /\ UNCHANGED <<today, daily, staleReport, billingRun>>

\* It is not included in the reports: nothing is queued.
CloseOpenPayment(c) ==
    /\ ConfirmerAt(c, "close")
    /\ billings' = [billings EXCEPT ![confirmer[c].payment].open = FALSE]
    /\ ConfirmerGoes(c, "done")
    /\ UNCHANGED <<today, daily, staleReport, billingRun>>

ConfirmFails(c) ==
    /\ confirmer[c].pc \notin {"idle", "done"}
    /\ ConfirmerGoes(c, "done")
    /\ UNCHANGED <<today, daily, staleReport, billingRun, billings>>
-----------------------------------------------------------------------------
BillingNext ==
    \/ NextDay
    \/ \E r \in DailyReports : ReadDaily(r) \/ SaveDaily(r)
    \/ \E b \in BillingRuns :
          \/ \E byCron, configured \in BOOLEAN : BeginBilling(b, byCron, configured)
          \/ FindCurrencies(b) \/ FindUnbilled(b) \/ CreateOperation(b) \/ CreateOrders(b)
          \/ MarkBilled(b) \/ BillingFails(b)
    \/ \E c \in Confirmers :
          \/ \E p \in DOMAIN billings, authorized \in BOOLEAN : LoadOpenPayment(c, p, authorized)
          \/ CompleteOpenPayment(c) \/ PostOpenPayment(c) \/ CloseOrders(c)
          \/ CloseOpenPayment(c) \/ ConfirmFails(c)

BillingSpec == BillingInit /\ [][BillingNext]_billingVars
-----------------------------------------------------------------------------
\* A report marked as billed is part of a billing payment that has its operation
\* and its seller orders, wherever a run failed or died: marking comes last, so
\* that a failure bills a seller again rather than never (runBilling).
BilledIsInvoiced ==
    \A r \in DailyReports : daily[r].billed =>
        \E p \in DOMAIN billings :
            r \in billings[p].reports /\ billings[p].operation /\ billings[p].orders # "NONE"

\* An open payment is closed only after it was completed and posted, by whichever
\* of several confirmations (confirmOpenPayment).
ClosedIsPosted ==
    \A p \in DOMAIN billings :
        ~billings[p].open => billings[p].status = "COMPLETED" /\ billings[p].posted
=============================================================================
