---------------------------- MODULE RefundPosting ----------------------------
(***************************************************************************)
(* The amounts of a purchase and of its refunds: what a refund request        *)
(* gives back of every item, and what completion and refund post to the       *)
(* seller orders and the accounts of buyer and sellers (refund.service.ts,    *)
(* payment.service.ts, account-payment-transaction.service.ts,                *)
(* seller-payment-order.service.ts).  How handlers overlap is in              *)
(* RefundApproval and PaymentLifecycle; here every transaction is one step.   *)
(*                                                                            *)
(* Amounts are integers, units of the last of the four decimals kept.         *)
(***************************************************************************)
EXTENDS Integers, FiniteSetsExt, Functions

CONSTANTS
    Pieces,      \* items of the purchase
    Bought,     \* item |-> [seller, quantity, total, net, fee], as stored
    BoughtTax,  \* Payment.taxAmount: the rounded sum of taxes not yet rounded
    Buyer,
    Claims      \* refund requests; each has one refund payment, of its name

ThePurchase == "purchase"

\* A sale to somebody else: the rows of an account do not tell what it bought from
\* what it sold.
ASSUME BoughtAssumption ==
    /\ IsFiniteSet(Pieces) /\ IsFiniteSet(Claims) /\ ThePurchase \notin Claims
    /\ \A g \in Pieces : /\ Bought[g].quantity \in Nat \ {0} /\ Bought[g].total \in Nat
                        /\ Bought[g].net \in Int /\ Bought[g].fee \in Int
                        /\ Bought[g].seller # Buyer

VARIABLES
    delivered,   \* the purchase is COMPLETED
    claims,      \* RefundRequest with its RefundRequestItems
    givenBack,   \* PostralPaymentItem.refundCount
    repayment,   \* status of the REFUND payment of a request
    transactions,\* rows of AccountPaymentTransaction
    orders       \* rows of SellerPaymentOrder

postingVars == <<delivered, claims, givenBack, repayment, transactions, orders>>

NoLine == [count |-> 0, total |-> 0, net |-> 0, fee |-> 0]
NoClaim == [status |-> "NONE", lines |-> [g \in Pieces |-> NoLine]]

PostingInit ==
    /\ delivered = FALSE
    /\ claims = [c \in Claims |-> NoClaim]
    /\ givenBack = [g \in Pieces |-> 0]
    /\ repayment = [c \in Claims |-> "NONE"]
    /\ transactions = {}
    /\ orders = {}

-----------------------------------------------------------------------------
(* buildRefundRequestItems().                                               *)

\* Mutant of Reserving: only approved refunds count.
ReservingApproved == {c \in Claims : claims[c].status = "APPROVED"}

\* The requests whose quantities and amounts are taken.
Reserving == {c \in Claims : claims[c].status \in {"PENDING", "APPROVED"}}

Awaiting == {c \in Claims : claims[c].status = "PENDING"}
CountIn(set, g) == SumFunction([c \in set |-> claims[c].lines[g].count])

\* Big.round(4): half away from zero, of a share of a stored amount.
RoundedShare(total, count, quantity) == (2 * total * count + quantity) \div (2 * quantity)

\* allocateAmount(): the request that takes the last of an item gets what the
\* others left, any other its rounded share.
Allocated(g, count, total, taken) ==
    IF CountIn(Reserving, g) + count = Bought[g].quantity
    THEN total - taken
    ELSE RoundedShare(total, count, Bought[g].quantity)

ShareOf(g, count) ==
    IF count = 0 THEN NoLine
    ELSE [count |-> count,
          total |-> Allocated(g, count, Bought[g].total,
                              SumFunction([c \in Reserving |-> claims[c].lines[g].total])),
          net   |-> Allocated(g, count, Bought[g].net,
                              SumFunction([c \in Reserving |-> claims[c].lines[g].net])),
          fee   |-> Allocated(g, count, Bought[g].fee,
                              SumFunction([c \in Reserving |-> claims[c].lines[g].fee]))]

-----------------------------------------------------------------------------
(* The rows a payment posts.                                                *)

\* An item as its mapper hands it on: whose it is, its amount and the tax in it.
ItemLine(g, total, net) == [seller |-> Bought[g].seller, total |-> total, tax |-> total - net]

\* The lines of a payment.
PostedLines(p) ==
    IF p = ThePurchase THEN [g \in Pieces |-> ItemLine(g, Bought[g].total, Bought[g].net)]
    ELSE [g \in {h \in Pieces : claims[p].lines[h].count # 0} |->
            ItemLine(g, claims[p].lines[g].total, claims[p].lines[g].net)]

SellersOf(p) == {PostedLines(p)[g].seller : g \in DOMAIN PostedLines(p)}
ItemsOf(p, s) == {g \in DOMAIN PostedLines(p) : PostedLines(p)[g].seller = s}
GrossOf(p, s) == SumFunction([g \in ItemsOf(p, s) |-> PostedLines(p)[g].total])
VatOf(p, s) == SumFunction([g \in ItemsOf(p, s) |-> PostedLines(p)[g].tax])

PaymentTotal(p) == SumFunction([g \in DOMAIN PostedLines(p) |-> PostedLines(p)[g].total])
PaymentTax(p) ==
    IF p = ThePurchase THEN BoughtTax
    ELSE SumFunction([g \in DOMAIN PostedLines(p) |-> PostedLines(p)[g].tax])

Transaction(p, account, type, total, tax, status) ==
    [payment |-> p, account |-> account, type |-> type, total |-> total, tax |-> tax,
     status |-> status]

SellerSide(p) == IF p = ThePurchase THEN "CREDIT" ELSE "DEBIT"
BuyerSide(p) == IF p = ThePurchase THEN "DEBIT" ELSE "CREDIT"

\* fromPayment(): one row per seller, and one of the buyer for the whole payment.
RowsOf(p, status) ==
    {Transaction(p, s, SellerSide(p), GrossOf(p, s), VatOf(p, s), status) : s \in SellersOf(p)}
    \cup {Transaction(p, Buyer, BuyerSide(p), PaymentTotal(p), PaymentTax(p), status)}

\* createNew(): rows of the same account, payment and type give way.
SameKey(t, u) == t.account = u.account /\ t.payment = u.payment /\ t.type = u.type
Replaced(rows) == {t \in transactions : ~\E u \in rows : SameKey(t, u)} \cup rows

OrderOf(p, s, status) ==
    [payment |-> p, target |-> s, total |-> GrossOf(p, s), tax |-> VatOf(p, s), status |-> status]

\* addSellerPaymentOrders(): an order that exists takes the status and keeps its
\* amount.
WithOrders(p, status) ==
    {o \in orders : o.payment # p}
    \cup {[o EXCEPT !.status = status] : o \in {w \in orders : w.payment = p}}
    \cup {OrderOf(p, s, status) : s \in {t \in SellersOf(p) : ~\E o \in orders : o.payment = p /\ o.target = t}}

\* postPaymentOperation().
Post(p, status) ==
    /\ orders' = WithOrders(p, status)
    /\ transactions' = Replaced(RowsOf(p, status))

-----------------------------------------------------------------------------
\* onPaymentCompleted() of the purchase.
CompletePurchase ==
    /\ ~delivered
    /\ delivered' = TRUE
    /\ Post(ThePurchase, "COMPLETED")
    /\ UNCHANGED <<claims, givenBack, repayment>>

\* validateNewRefundRequest(): quantities not refunded and not pending, of one
\* seller.
MayClaim(counts) ==
    /\ delivered
    /\ \E g \in Pieces : counts[g] # 0
    /\ \A g, h \in Pieces : counts[g] # 0 /\ counts[h] # 0 => Bought[g].seller = Bought[h].seller
    /\ \A g \in Pieces : counts[g] # 0 =>
         givenBack[g] + CountIn(Awaiting, g) + counts[g] <= Bought[g].quantity

CreateClaim(c, counts) ==
    /\ claims[c] = NoClaim
    /\ MayClaim(counts)
    /\ claims' = [claims EXCEPT ![c] =
         [status |-> "PENDING", lines |-> [g \in Pieces |-> ShareOf(g, counts[g])]]]
    /\ UNCHANGED <<delivered, givenBack, repayment, transactions, orders>>

RejectClaim(c) ==
    /\ claims[c].status = "PENDING" /\ repayment[c] = "NONE"
    /\ claims' = [claims EXCEPT ![c].status = "REJECTED"]
    /\ UNCHANGED <<delivered, givenBack, repayment, transactions, orders>>

\* createRefundPayment(): the refund payment and its rows, in one transaction.
CreateRepayment(c) ==
    /\ claims[c].status = "PENDING" /\ repayment[c] = "NONE"
    /\ repayment' = [repayment EXCEPT ![c] = "WAITING"]
    /\ orders' = WithOrders(c, "WAITING")
    /\ transactions' = transactions \cup RowsOf(c, "WAITING")
    /\ UNCHANGED <<delivered, claims, givenBack>>

\* approveRequest() and updateOriginalItemsRefundState(), after every channel
\* operation of the refund was initialised.
ApproveClaim(c) ==
    /\ claims[c].status = "PENDING" /\ repayment[c] \in {"WAITING", "COMPLETED"}
    /\ \A g \in Pieces : givenBack[g] + claims[c].lines[g].count <= Bought[g].quantity
    /\ claims' = [claims EXCEPT ![c].status = "APPROVED"]
    /\ givenBack' = [g \in Pieces |-> givenBack[g] + claims[c].lines[g].count]
    /\ UNCHANGED <<delivered, repayment, transactions, orders>>

\* The poller finds the refund paid back, and posts its rows again, or failed.
RepaymentCompletes(c) ==
    /\ repayment[c] = "WAITING"
    /\ repayment' = [repayment EXCEPT ![c] = "COMPLETED"]
    /\ Post(c, "COMPLETED")
    /\ UNCHANGED <<delivered, claims, givenBack>>

RepaymentFails(c) ==
    /\ repayment[c] = "WAITING"
    /\ repayment' = [repayment EXCEPT ![c] = "FAILED"]
    /\ UNCHANGED <<delivered, claims, givenBack, transactions, orders>>

PieceCounts == {f \in [Pieces -> 0..Max({Bought[g].quantity : g \in Pieces})] :
                  \A g \in Pieces : f[g] <= Bought[g].quantity}

PostingNext ==
    \/ CompletePurchase
    \/ \E c \in Claims :
         \/ \E counts \in PieceCounts : CreateClaim(c, counts)
         \/ RejectClaim(c)
         \/ CreateRepayment(c)
         \/ ApproveClaim(c)
         \/ RepaymentCompletes(c)
         \/ RepaymentFails(c)

PostingSpec == PostingInit /\ [][PostingNext]_postingVars

-----------------------------------------------------------------------------
RowsUnder(account, side) == {t \in transactions : t.account = account /\ t.type = side}

Signed(account, side) ==
    SumFunction([t \in RowsUnder(account, side) |-> t.total])
SignedTax(account, side) ==
    SumFunction([t \in RowsUnder(account, side) |-> t.tax])

PieceSellers == {Bought[g].seller : g \in Pieces}
AllGivenBack(s) == \A g \in Pieces : Bought[g].seller = s => givenBack[g] = Bought[g].quantity

\* In whatever order requests for parts of an item are made, rejected and
\* approved, the parts are worth what was bought (rounding included): once all of
\* a seller's items are given back his account and his tax come to nothing, the
\* fee of an item given back is given back, what the buyer was charged and given
\* differs by what sellers still hold, and every order says what its account row
\* says.
RefundedExactly ==
    /\ \A s \in PieceSellers :
         delivered /\ AllGivenBack(s) =>
           /\ Signed(s, "CREDIT") = Signed(s, "DEBIT")
           /\ SignedTax(s, "CREDIT") = SignedTax(s, "DEBIT")
    /\ \A g \in Pieces : givenBack[g] = Bought[g].quantity =>
         Bought[g].fee = SumFunction([c \in {d \in Claims : claims[d].status = "APPROVED"} |->
                                        claims[c].lines[g].fee])
    /\ Signed(Buyer, "DEBIT") - Signed(Buyer, "CREDIT")
         = SumFunction([s \in PieceSellers |-> Signed(s, "CREDIT") - Signed(s, "DEBIT")])
    /\ \A o \in orders : Transaction(o.payment, o.target, SellerSide(o.payment), o.total, o.tax, o.status)
                           \in transactions
=============================================================================
