---------------------------- MODULE MCBackOffice ----------------------------
(* The parts of the system around the payments, checked side by side: they    *)
(* share no state, so the instance is one of them at a time.                  *)
EXTENDS PlatformSetup, ExternalSales, InvoiceDesk, PaymentCleanup, RefundPosting,
        PartyRecords, TLC

CONSTANTS s1, s2, k1,    \* sellers and a class of items
          g1, g2, g3     \* items of the purchase that is refunded

VARIABLE part       \* the part of the system this behaviour is about

ChoicesDef ==
  {[market |-> FALSE, sells |-> TRUE, extra |-> TRUE],
   [market |-> TRUE, sells |-> TRUE, extra |-> FALSE]}

(* Whole cents: 25 % of a gross price of 100 or 200, 100 % of one of 200.      *)
Classed == [seller |-> s1, class |-> k1, rate |-> 25]
Plain == [seller |-> s1, class |-> General, rate |-> 100]
GoodsDef == {Classed, Plain}
OrdersDef == {<<[good |-> Classed, quantity |-> 1], [good |-> Plain, quantity |-> 2]>>}
PricesDef == {[base |-> 100, live |-> TRUE, offer |-> 200]}

(* Shares that do not divide: thirds of 100, an item of 7 sold by another.     *)
BoughtDef ==
  (g1 :> [seller |-> s1, quantity |-> 3, total |-> 100, net |-> 85, fee |-> 10])
    @@ (g2 :> [seller |-> s1, quantity |-> 1, total |-> 50, net |-> 40, fee |-> 5])
    @@ (g3 :> [seller |-> s2, quantity |-> 1, total |-> 7, net |-> 5, fee |-> 1])

Init ==
  /\ part \in {"setup", "quote", "external", "invoices", "cleanup", "refunds", "records"}
  /\ SetupInit /\ QuoteInit /\ ExternalInit /\ DeskInit /\ CleanInit /\ PostingInit /\ PartyInit
  \* What another part starts with makes no difference to this one.
  /\ part # "setup" => billing = Nothing
  /\ part # "quote" => ~fromNet
  /\ part # "records" => encryption = "false"

Next ==
  /\ UNCHANGED part
  /\ \/ /\ part = "setup"
        /\ SetupNext
        /\ UNCHANGED <<oqVars, esVars, deskVars, pcVars, postingVars, partyVars>>
     \/ /\ part = "quote"
        /\ QuoteNext
        /\ UNCHANGED <<suVars, esVars, deskVars, pcVars, postingVars, partyVars>>
     \/ /\ part = "external"
        /\ ExternalNext
        /\ UNCHANGED <<suVars, deskVars, pcVars, postingVars, partyVars>>
     \/ /\ part = "external"
        /\ \E i \in RuleIds, s \in Sellers \cup {General}, p \in Platforms \cup {General},
               x \in Percents :
             SaveRule(i, s, IF p = General THEN k1 ELSE General, p, x)
        /\ UNCHANGED <<suVars, esVars, deskVars, pcVars, postingVars, partyVars>>
     \/ /\ part = "invoices"
        /\ DeskNext
        /\ UNCHANGED <<suVars, oqVars, esVars, pcVars, postingVars, partyVars>>
     \/ /\ part = "cleanup"
        /\ CleanNext
        /\ UNCHANGED <<suVars, oqVars, esVars, deskVars, postingVars, partyVars>>
     \/ /\ part = "refunds"
        /\ PostingNext
        /\ UNCHANGED <<suVars, oqVars, esVars, deskVars, pcVars, partyVars>>
     \/ /\ part = "records"
        /\ PartyNext
        /\ UNCHANGED <<suVars, oqVars, esVars, deskVars, pcVars, postingVars>>

Spec == Init /\ [][Next]_<<part, suVars, oqVars, esVars, deskVars, pcVars, postingVars, partyVars>>

Symmetry == Permutations(RuleIds) \cup Permutations(CleanPayments)
=============================================================================
