------------------------------ MODULE RefundLedger ------------------------------
(***************************************************************************)
(* What the refund system promises for one purchase, with no locks, leases, *)
(* workers, network or crashes in sight: a refund request reserves           *)
(* quantities of purchased items, is resolved once, moves its quantities     *)
(* into the refunded counters when it is approved, and asks each capture of  *)
(* the purchase for money at most once.  RefundApproval implements it.       *)
(***************************************************************************)
EXTENDS Integers, Functions

CONSTANTS Requests, Items, Captures, Quantity,
    MaxQuantity   \* bound of the quantities

VARIABLES
    status,     \* RefundRequest.status, "NONE" before the request exists
    counts,     \* RefundRequestItem.refundCount of the request, per item
    refunded,   \* PostralPaymentItem.refundCount
    sends       \* refund initialisations the channel of a capture received

ledgerVars == <<status, counts, refunded, sends>>

\* Quantity of item i that unresolved requests hold.
Reserved(i) ==
    SumFunctionOnSet([r \in Requests |-> counts[r][i]],
                     {r \in Requests : status[r] = "PENDING"})

Init ==
    /\ status = [r \in Requests |-> "NONE"]
    /\ counts = [r \in Requests |-> [i \in Items |-> 0]]
    /\ refunded = [i \in Items |-> 0]
    /\ sends = [r \in Requests |-> [c \in Captures |-> 0]]

Open(r, cnt) ==
    /\ status[r] = "NONE"
    /\ \A i \in Items : cnt[i] > 0 =>
           refunded[i] + Reserved(i) + cnt[i] <= Quantity[i]
    /\ status' = [status EXCEPT ![r] = "PENDING"]
    /\ counts' = [counts EXCEPT ![r] = cnt]
    /\ UNCHANGED <<refunded, sends>>

Approve(r) ==
    /\ status[r] = "PENDING"
    /\ \A i \in Items : refunded[i] + counts[r][i] <= Quantity[i]
    /\ status' = [status EXCEPT ![r] = "APPROVED"]
    /\ refunded' = [i \in Items |-> refunded[i] + counts[r][i]]
    /\ UNCHANGED <<counts, sends>>

Reject(r) ==
    /\ status[r] = "PENDING"
    /\ status' = [status EXCEPT ![r] = "REJECTED"]
    /\ UNCHANGED <<counts, refunded, sends>>

\* The channel that holds capture c is asked to refund request r.
Send(r, c) ==
    /\ status[r] # "NONE"
    /\ sends[r][c] = 0
    /\ sends' = [sends EXCEPT ![r][c] = 1]
    /\ UNCHANGED <<status, counts, refunded>>

Next ==
    \E r \in Requests :
        \/ \E cnt \in [Items -> 0..MaxQuantity] : Open(r, cnt)
        \/ Approve(r)
        \/ Reject(r)
        \/ \E c \in Captures : Send(r, c)

Spec == Init /\ [][Next]_ledgerVars
=============================================================================
