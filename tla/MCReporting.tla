------------------------------ MODULE MCReporting ------------------------------
(***************************************************************************)
(* Small reporting services for TLC: the digestion, the report queries, the  *)
(* report rows, the amounts and the billing keep separate rows and are       *)
(* checked one beside the other: a behaviour runs the part that is chosen at *)
(* its start.                                                                *)
(***************************************************************************)
EXTENDS ReportDigestion, SellerReportSetup, ReportBuckets, ReportAmounts, Billing, TLC

CONSTANTS i1, c1, c2, h1, h2, b1

VARIABLE part

\* Two calls that only the flag keeps apart, in one process.
OneProcess == (c1 :> i1) @@ (c2 :> i1)

\* Two handlers in one process and a rebuild in another.
MCProcesses == (h1 :> 1) @@ (h2 :> 1) @@ (b1 :> 2)
MCPayments == (h1 :> "p1") @@ (h2 :> "p2")

Sold(item, seller, class, total, rate, commission) ==
  [item |-> item, seller |-> seller, class |-> class, total |-> total, rate |-> rate,
   tax |-> (total * rate) \div (100 + rate), commission |-> commission]

Fee(channel, fee, debit) == [channel |-> channel, fee |-> fee, debit |-> debit]

\* A purchase of two sellers, a refund of a part of it, an imported sale.
MCSales ==
  {[type |-> "PURCHASE", external |-> FALSE, rounding |-> 0,
    items |-> {Sold("i1", "s1", "A", 240, 20, 24), Sold("i2", "s2", "B", 110, 10, 12),
               Sold("i3", "s1", "", 130, 0, 0)},
    operations |-> {Fee("x", 48, "SELLER"), Fee("y", 7, "PLATFORM")}],
   [type |-> "REFUND", external |-> FALSE, rounding |-> -1,
    items |-> {Sold("i1", "s1", "A", 120, 20, 12)}, operations |-> {Fee("x", 2, "SELLER")}],
   [type |-> "PURCHASE", external |-> TRUE, rounding |-> 0,
    items |-> {Sold("i1", "s1", "A", 360, 20, 36)}, operations |-> {}]}

\* Commissions of two payments on the first day, and a day without earnings.
MCDigested ==
  [r \in DailyReports |-> IF r[2] = 2 THEN <<>>
                          ELSE IF r[1] = "COMMISSION" THEN <<1, 2>> ELSE <<-2>>]

ReportingInit ==
  /\ part \in {"digestion", "setup", "buckets", "amounts", "billing"}
  /\ Init /\ SetupInit /\ BucketInit /\ AmountsInit /\ BillingInit

ReportingNext ==
  /\ UNCHANGED part
  /\ \/ /\ part = "digestion" /\ Next
        /\ UNCHANGED <<setupVars, bucketVars, amountVars, billingVars>>
     \/ /\ part = "setup" /\ SetupNext
        /\ UNCHANGED <<vars, bucketVars, amountVars, billingVars>>
     \/ /\ part = "buckets" /\ BucketNext
        /\ UNCHANGED <<vars, setupVars, amountVars, billingVars>>
     \/ /\ part = "amounts" /\ AmountsNext
        /\ UNCHANGED <<vars, setupVars, bucketVars, billingVars>>
     \/ /\ part = "billing" /\ BillingNext
        /\ UNCHANGED <<vars, setupVars, bucketVars, amountVars>>

reportingVars == <<part, vars, setupVars, bucketVars, amountVars, billingVars>>

\* Fairness of ReportDigestion.
DigestionFairness ==
  /\ \A p \in Payments : WF_vars(part = "digestion" /\ QueueStep(p))
  /\ \A c \in Calls : WF_vars(part = "digestion" /\ CallStep(c))
  /\ \A i \in Instances :
       WF_vars(part = "digestion" /\ \E c \in Calls : InstanceOf[c] = i /\ Begin(c))

ReportingSpec == ReportingInit /\ [][ReportingNext]_reportingVars /\ DigestionFairness

=============================================================================
