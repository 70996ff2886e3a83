----------------------------- MODULE RefundApproval -----------------------------
(***************************************************************************)
(* The refund of one COMPLETED purchase: refund requests that reserve        *)
(* quantities, the approval that claims a five-minute lease on the purchase, *)
(* creates and initialises the refund payment over the network without       *)
(* holding a database lock, and finalises under the lock again; rejections,  *)
(* the idempotent system command, crashes, lost channel answers and leases   *)
(* that expire.  Translated from refund.service.ts, createRefundPayment of   *)
(* payment.service.ts and the refund half of                                 *)
(* payment-operation-management.service.ts.                                  *)
(*                                                                           *)
(* A worker is one request handler of one service instance.  Every database  *)
(* transaction is one action, except the rejection, whose check and write    *)
(* are two: its transaction locks the purchase row while the transaction     *)
(* that creates the refund payment locks the request row, so the two can     *)
(* overlap.  Amounts are integers (units of 10^-4 of the currency).          *)
(***************************************************************************)
EXTENDS Integers, FiniteSets, Functions

CONSTANTS
    Requests,        \* refund request ids
    NoRequest,
    Keys, NoKey,     \* idempotency keys of the system command
    Workers,         \* concurrent request handlers
    NoWorker,
    Items,           \* items of the purchase
    Quantity,        \* purchased quantity per item
    MaxQuantity,     \* bound of the quantities
    Price,           \* price per unit: totals here are exact multiples of it
    Seller,          \* seller account per item
    NumCaptures,     \* COMPLETED purchase operations, ordered by id
    Captured,        \* amount of each capture
    Amounts,         \* the amounts an allocation may take (a bound for TLC)
    TimelyApprovals  \* TRUE: a lease never expires while its approval runs

Captures == 1..NumCaptures

ASSUME ConstantsAssumption ==
    /\ NumCaptures \in Nat \ {0}
    /\ MaxQuantity \in Nat
    /\ Quantity \in [Items -> 0..MaxQuantity]
    /\ Price \in [Items -> Nat]
    /\ Captured \in [Captures -> Nat]
    /\ Amounts \subseteq Nat
    /\ NoKey \notin Keys
    /\ NoWorker \notin Workers
    /\ IsFiniteSet(Requests) /\ NoRequest \notin Requests
    /\ IsFiniteSet(Items)
    /\ TimelyApprovals \in BOOLEAN

VARIABLES
    status,         \* RefundRequest.status, "NONE" before the request exists
    counts,         \* RefundRequestItem.refundCount, per request and item
    key,            \* RefundRequest.idempotencyKey
    refunded,       \* PostralPaymentItem.refundCount of the purchase
    leaseToken,     \* Payment.refundApprovalToken: the worker that claimed it
    leaseLive,      \* refundApprovalExpiresAt is in the future
    lock,           \* worker inside a two-step transaction on the purchase row
    refundPayment,  \* the REFUND payment of a request: none, open or FAILED
    opStatus,       \* PaymentChannelOperation of a request on a capture
    opAmount,       \* its amount
    sends,          \* initialisations the channel received for it
    pc, req,        \* what each worker does, and for which request
    allocation,     \* its split of the refund over the captures
    next            \* the capture its loop is at

requestVars == <<status, counts, key>>
purchaseVars == <<refunded, leaseToken, leaseLive>>
channelVars == <<opStatus, opAmount, sends>>
workerVars == <<pc, req, allocation, next>>
vars == <<requestVars, purchaseVars, lock, refundPayment, channelVars, workerVars>>

OpStatuses == {"NONE", "RESERVED", "ACCEPTED", "FAILED"}

\* The program counters of an approval between its claim and its finally.
ApprovalSteps == {"prepare", "persistNew", "persistKnown", "allocate",
                  "reserve", "send", "await", "finalize", "release"}

ProgramCounters == {"idle", "claim", "reject"} \cup ApprovalSteps

RequestTypes ==
    /\ status \in [Requests -> {"NONE", "PENDING", "APPROVED", "REJECTED"}]
    /\ counts \in [Requests -> [Items -> Nat]]
    /\ key \in [Requests -> Keys \cup {NoKey}]
    /\ refundPayment \in [Requests -> {"NONE", "OPEN", "FAILED"}]

PurchaseTypes ==
    /\ refunded \in [Items -> Nat]
    /\ leaseToken \in Workers \cup {NoWorker}
    /\ leaseLive \in BOOLEAN
    /\ lock \in Workers \cup {NoWorker}

ChannelTypes ==
    /\ opStatus \in [Requests -> [Captures -> OpStatuses]]
    /\ opAmount \in [Requests -> [Captures -> Nat]]
    /\ sends \in [Requests -> [Captures -> Nat]]

\* A handler at work has a request, and one in its loop has a capture.
WorkerTypes ==
    /\ pc \in [Workers -> ProgramCounters]
    /\ req \in [Workers -> Requests \cup {NoRequest}]
    /\ allocation \in [Workers -> [Captures -> Nat]]
    /\ next \in [Workers -> 1..(NumCaptures + 1)]
    /\ \A w \in Workers :
          /\ pc[w] # "idle" => req[w] \in Requests
          /\ pc[w] \notin {"finalize", "release"} => next[w] \in Captures

\* Type invariant: every column and every handler's local state is one the
\* code can hold.
TypeOK == RequestTypes /\ PurchaseTypes /\ ChannelTypes /\ WorkerTypes

Init ==
    /\ status = [r \in Requests |-> "NONE"]
    /\ counts = [r \in Requests |-> [i \in Items |-> 0]]
    /\ key = [r \in Requests |-> NoKey]
    /\ refunded = [i \in Items |-> 0]
    /\ leaseToken = NoWorker
    /\ leaseLive = FALSE
    /\ lock = NoWorker
    /\ refundPayment = [r \in Requests |-> "NONE"]
    /\ opStatus = [r \in Requests |-> [c \in Captures |-> "NONE"]]
    /\ opAmount = [r \in Requests |-> [c \in Captures |-> 0]]
    /\ sends = [r \in Requests |-> [c \in Captures |-> 0]]
    /\ pc = [w \in Workers |-> "idle"]
    /\ req = [w \in Workers |-> NoRequest]
    /\ allocation = [w \in Workers |-> [c \in Captures |-> 0]]
    /\ next = [w \in Workers |-> 1]
-----------------------------------------------------------------------------
(* Guards shared by the handlers *)

\* Quantity of item i held by PENDING requests.
Reserved(i) ==
    SumFunctionOnSet([r \in Requests |-> counts[r][i]],
                     {r \in Requests : status[r] = "PENDING"})

\* refundAmount of a request: quantity times historical unit price.
RefundAmount(r) == SumFunctionOnSet([i \in Items |-> counts[r][i] * Price[i]], Items)

\* validateItemInput and assertItemsBelongToSingleSeller.
ValidItems(cnt) ==
    /\ \E i \in Items : cnt[i] > 0
    /\ \A i, j \in Items : cnt[i] > 0 /\ cnt[j] > 0 => Seller[i] = Seller[j]

\* validateRefundItems: refunds finalised so far leave room for these counts.
FitsPurchase(cnt) == \A i \in Items : refunded[i] + cnt[i] <= Quantity[i]

\* Mutant of CanReserve: pending requests of other buyers do not count.
CanReserveIgnoringPending(cnt) ==
    /\ ValidItems(cnt)
    /\ FitsPurchase(cnt)

\* The check of validateNewRefundRequest, pending reservations included.
CanReserve(cnt) ==
    /\ ValidItems(cnt)
    /\ FitsPurchase(cnt)
    /\ \A i \in Items : cnt[i] > 0 =>
           refunded[i] + Reserved(i) + cnt[i] <= Quantity[i]

\* Mutant of NoApprovalInProgress: leases do not expire.
NoLeaseAtAll == leaseToken = NoWorker

\* assertNoApprovalInProgress.
NoApprovalInProgress == leaseToken = NoWorker \/ ~leaseLive

\* withPaymentLock and the single UPDATE of the finally block: nobody holds
\* the row of the purchase.
PurchaseRowFree == lock = NoWorker

InFlight(w) == pc[w] \in ApprovalSteps

\* Where a handler's local state goes when it returns, throws or dies.
AtRest(w) ==
    /\ pc' = [pc EXCEPT ![w] = "idle"]
    /\ req' = [req EXCEPT ![w] = NoRequest]
    /\ allocation' = [allocation EXCEPT ![w] = [c \in Captures |-> 0]]
    /\ next' = [next EXCEPT ![w] = 1]

GoTo(w, step) ==
    /\ pc' = [pc EXCEPT ![w] = step]
    /\ UNCHANGED <<req, allocation, next>>

\* A throw inside approveRequest runs its finally block next.
Throw(w) == GoTo(w, "release")

\* The next iteration of the loop over the allocations.
Advance(w) ==
    /\ pc' = [pc EXCEPT ![w] = IF next[w] = NumCaptures THEN "finalize" ELSE "reserve"]
    /\ next' = [next EXCEPT ![w] = @ + 1]
    /\ UNCHANGED <<req, allocation>>
-----------------------------------------------------------------------------
(* Opening and rejecting requests *)

\* buildRefundRequestEntity and its save.
NewRequest(r, k, cnt) ==
    /\ status' = [status EXCEPT ![r] = "PENDING"]
    /\ counts' = [counts EXCEPT ![r] = cnt]
    /\ key' = [key EXCEPT ![r] = k]

\* createRefundRequest: one transaction under the lock of the purchase.
CreateRefundRequest(r, cnt) ==
    /\ PurchaseRowFree
    /\ status[r] = "NONE"
    /\ CanReserve(cnt)
    /\ NewRequest(r, NoKey, cnt)
    /\ UNCHANGED <<purchaseVars, lock, refundPayment, channelVars, workerVars>>

\* The requests a key was used for; the column is UNIQUE.
RequestsOf(k) == {x \in Requests : status[x] # "NONE" /\ key[x] = k}

\* startRefundMicroservice: the request of the key is found or created under
\* the lock, then approveRequest begins.  A key reused with other items, or
\* whose request is APPROVED already, changes nothing.
StartSystemRefund(w, r, k, cnt) ==
    /\ PurchaseRowFree
    /\ pc[w] = "idle"
    /\ ValidItems(cnt)
    /\ \/ /\ r \in RequestsOf(k)
          /\ counts[r] = cnt
          /\ status[r] = "PENDING"
          /\ UNCHANGED requestVars
       \/ /\ RequestsOf(k) = {}
          /\ status[r] = "NONE"
          /\ CanReserve(cnt)
          /\ NewRequest(r, k, cnt)
    /\ pc' = [pc EXCEPT ![w] = "claim"]
    /\ req' = [req EXCEPT ![w] = r]
    /\ UNCHANGED <<purchaseVars, lock, refundPayment, channelVars, allocation, next>>

\* Mutant of MayReject: an initiated refund may be rejected.
MayRejectInitiated(r) ==
    /\ NoApprovalInProgress
    /\ status[r] = "PENDING"
    /\ key[r] = NoKey

\* What the rejecting transaction asserts: a PENDING request of a user, no
\* approval in progress, and no refund payment.
MayReject(r) ==
    /\ NoApprovalInProgress
    /\ status[r] = "PENDING"
    /\ key[r] = NoKey
    /\ refundPayment[r] = "NONE"

\* rejectRefundRequest, its transaction up to the checks: it now holds the
\* purchase row, and read the request and the refund payment without a lock.
RejectChecks(w, r) ==
    /\ PurchaseRowFree
    /\ pc[w] = "idle"
    /\ MayReject(r)
    /\ lock' = w
    /\ pc' = [pc EXCEPT ![w] = "reject"]
    /\ req' = [req EXCEPT ![w] = r]
    /\ UNCHANGED <<requestVars, purchaseVars, refundPayment, channelVars,
                   allocation, next>>

\* Mutant of RejectCommits: the row stays locked.
RejectCommitsLocked(w) ==
    /\ pc[w] = "reject"
    /\ status' = [status EXCEPT ![req[w]] = "REJECTED"]
    /\ AtRest(w)
    /\ UNCHANGED <<counts, key, purchaseVars, lock, refundPayment, channelVars>>

\* ... its save of the request and its commit.
RejectCommits(w) ==
    /\ pc[w] = "reject"
    /\ status' = [status EXCEPT ![req[w]] = "REJECTED"]
    /\ lock' = NoWorker
    /\ AtRest(w)
    /\ UNCHANGED <<counts, key, purchaseVars, refundPayment, channelVars>>
-----------------------------------------------------------------------------
(* approveRequest *)

\* approveRefundRequest up to approveRequest: the request is read outside the
\* lock; system requests are forbidden here.
ApproveRefundRequest(w, r) ==
    /\ pc[w] = "idle"
    /\ status[r] = "PENDING"
    /\ key[r] = NoKey
    /\ pc' = [pc EXCEPT ![w] = "claim"]
    /\ req' = [req EXCEPT ![w] = r]
    /\ UNCHANGED <<requestVars, purchaseVars, lock, refundPayment, channelVars,
                   allocation, next>>

\* Mutant of MayClaim: the lease of another approval is not looked at.
MayClaimAlways(r) ==
    /\ status[r] = "PENDING"
    /\ FitsPurchase(counts[r])

\* What the claiming transaction asserts of the request and the purchase.
MayClaim(r) ==
    /\ status[r] = "PENDING"
    /\ NoApprovalInProgress
    /\ FitsPurchase(counts[r])

\* The claiming transaction: a fresh token and five minutes, or an error that
\* leaves before the try block.
Claim(w) ==
    /\ PurchaseRowFree
    /\ pc[w] = "claim"
    /\ \/ /\ MayClaim(req[w])
          /\ leaseToken' = w
          /\ leaseLive' = TRUE
          /\ GoTo(w, "prepare")
          /\ UNCHANGED refunded
       \/ /\ ~MayClaim(req[w])
          /\ AtRest(w)
          /\ UNCHANGED purchaseVars
    /\ UNCHANGED <<requestVars, lock, refundPayment, channelVars>>

\* createRefundPayment up to its transaction: without a refund payment the
\* channels are asked to prepare one, which may fail.
Prepare(w) ==
    /\ pc[w] = "prepare"
    /\ IF refundPayment[req[w]] = "NONE"
       THEN GoTo(w, "persistNew") \/ Throw(w)
       ELSE GoTo(w, "persistKnown")
    /\ UNCHANGED <<requestVars, purchaseVars, lock, refundPayment, channelVars>>

\* The transaction of createRefundPayment, under the lock of the request row:
\* create the refund payment with its accounting records, or resume it.
PersistRefundPayment(w) ==
    /\ pc[w] \in {"persistNew", "persistKnown"}
    /\ LET r == req[w] IN
       \/ /\ status[r] = "PENDING"
          /\ refundPayment[r] = "NONE"
          /\ pc[w] = "persistNew"
          /\ refundPayment' = [refundPayment EXCEPT ![r] = "OPEN"]
          /\ GoTo(w, "allocate")
       \/ /\ status[r] = "PENDING"
          /\ refundPayment[r] = "OPEN"
          /\ GoTo(w, "allocate")
          /\ UNCHANGED refundPayment
       \/ /\ \/ status[r] # "PENDING"
             \/ refundPayment[r] = "FAILED"
             \/ refundPayment[r] = "NONE" /\ pc[w] = "persistKnown"
          /\ Throw(w)
          /\ UNCHANGED refundPayment
    /\ UNCHANGED <<requestVars, purchaseVars, lock, channelVars>>

\* Mutant of Available: only refunds that the channel accepted count.
AvailableOfAccepted(r, c) ==
    Captured[c] - SumFunctionOnSet([x \in Requests |-> opAmount[x][c]],
                                   {x \in Requests \ {r} : opStatus[x][c] = "ACCEPTED"})

\* What other refunds leave of capture c: operations count whatever their status.
Available(r, c) ==
    Captured[c] - SumFunctionOnSet([x \in Requests |-> opAmount[x][c]], Requests \ {r})

AvailableFrom(r, c) == SumFunctionOnSet([d \in Captures |-> Available(r, d)], c..NumCaptures)

\* refundCaptureAllocations: a is the split of the refund over the captures in
\* their order, each in proportion to what is available, rounded down; the last
\* capture with anything available takes what is left.
IsCaptureAllocation(r, a) ==
    \A c \in Captures :
        LET left == RefundAmount(r) - SumFunctionOnSet(a, 1..(c - 1))
            rest == AvailableFrom(r, c)
        IN  a[c] = CASE rest = 0 -> 0
                     [] rest # 0 /\ rest = Available(r, c) -> left
                     [] OTHER -> (left * Available(r, c)) \div rest

\* "Refund exceeds the remaining captured channel amount" is not thrown.
CapturesSuffice(r) ==
    \/ RefundAmount(r) = 0
    \/ /\ \A c \in Captures : Available(r, c) >= 0
       /\ RefundAmount(r) <= AvailableFrom(r, 1)

\* startRefundPaymentOperationsForRefundRequest up to its loop: the refunds of
\* other requests are read without a lock.
Allocate(w) ==
    /\ pc[w] = "allocate"
    /\ \/ /\ CapturesSuffice(req[w])
          /\ \E a \in [Captures -> Amounts] :
                /\ IsCaptureAllocation(req[w], a)
                /\ allocation' = [allocation EXCEPT ![w] = a]
          /\ pc' = [pc EXCEPT ![w] = "reserve"]
          /\ UNCHANGED <<req, next>>
       \/ /\ ~CapturesSuffice(req[w])
          /\ Throw(w)
    /\ UNCHANGED <<requestVars, purchaseVars, lock, refundPayment, channelVars>>

\* Mutant of HasOperation: one without a recorded answer is not found.
HasAcceptedOperation(r, c) == opStatus[r][c] = "ACCEPTED"

\* The unique operation of a refund payment on a capture exists.
HasOperation(r, c) == opStatus[r][c] # "NONE"

\* Mutant of NeedsReconciliation: an unanswered operation is skipped.
NeedsReconciliationIfFailed(r, c, amount) ==
    opStatus[r][c] = "FAILED" \/ opAmount[r][c] # amount

\* An existing operation is skipped only if the channel accepted it for the
\* very amount; otherwise it needs reconciliation.
NeedsReconciliation(r, c, amount) ==
    opStatus[r][c] \in {"RESERVED", "FAILED"} \/ opAmount[r][c] # amount

\* The reserving transaction of one capture, under the lock of the refund payment.
ReserveOperation(w) ==
    /\ pc[w] = "reserve"
    /\ LET r == req[w]
           c == next[w]
           amount == allocation[w][c]
       IN \/ /\ amount = 0
             /\ Advance(w)
             /\ UNCHANGED channelVars
          \/ /\ amount # 0
             /\ ~HasOperation(r, c)
             /\ opStatus' = [opStatus EXCEPT ![r][c] = "RESERVED"]
             /\ opAmount' = [opAmount EXCEPT ![r][c] = amount]
             /\ GoTo(w, "send")
             /\ UNCHANGED sends
          \/ /\ amount # 0
             /\ HasOperation(r, c)
             /\ IF NeedsReconciliation(r, c, amount) THEN Throw(w) ELSE Advance(w)
             /\ UNCHANGED channelVars
    /\ UNCHANGED <<requestVars, purchaseVars, lock, refundPayment>>

\* initializePaymentChannelOperation: the request leaves for the channel.
SendInit(w) ==
    /\ pc[w] = "send"
    /\ sends' = [sends EXCEPT ![req[w]][next[w]] = @ + 1]
    /\ GoTo(w, "await")
    /\ UNCHANGED <<requestVars, purchaseVars, lock, refundPayment, opStatus, opAmount>>

\* A valid answer is saved with the channel's operation id.
InitAnswered(w) ==
    /\ pc[w] = "await"
    /\ \E answer \in {"ACCEPTED", "FAILED"} :
          /\ opStatus' = [opStatus EXCEPT ![req[w]][next[w]] = answer]
          /\ IF answer = "FAILED" THEN Throw(w) ELSE Advance(w)
    /\ UNCHANGED <<requestVars, purchaseVars, lock, refundPayment, opAmount, sends>>

\* The 30 s timeout, an invalid answer, or a failed save of the answer.
InitUnanswered(w) ==
    /\ pc[w] = "await"
    /\ Throw(w)
    /\ UNCHANGED <<requestVars, purchaseVars, lock, refundPayment, channelVars>>

\* What the finalising transaction asserts.
HoldsLease(w) == leaseToken = w

\* Mutant of MayFinalize: the status is not read again under the lock.
MayFinalizeResolved(w) ==
    /\ HoldsLease(w)
    /\ FitsPurchase(counts[req[w]])

MayFinalize(w) ==
    /\ HoldsLease(w)
    /\ status[req[w]] = "PENDING"
    /\ FitsPurchase(counts[req[w]])

\* The finalising transaction, the empty finally after it included.
Finalize(w) ==
    /\ PurchaseRowFree
    /\ pc[w] = "finalize"
    /\ \/ /\ MayFinalize(w)
          /\ refunded' = [i \in Items |-> refunded[i] + counts[req[w]][i]]
          /\ status' = [status EXCEPT ![req[w]] = "APPROVED"]
          /\ leaseToken' = NoWorker
          /\ leaseLive' = FALSE
          /\ AtRest(w)
       \/ /\ ~MayFinalize(w)
          /\ Throw(w)
          /\ UNCHANGED <<status, purchaseVars>>
    /\ UNCHANGED <<counts, key, lock, refundPayment, channelVars>>

\* The finally block after a throw: clear the lease if it is still this one.
ReleaseLease(w) ==
    /\ PurchaseRowFree
    /\ pc[w] = "release"
    /\ \/ /\ HoldsLease(w)
          /\ leaseToken' = NoWorker
          /\ leaseLive' = FALSE
       \/ /\ ~HoldsLease(w)
          /\ UNCHANGED <<leaseToken, leaseLive>>
    /\ AtRest(w)
    /\ UNCHANGED <<requestVars, refunded, lock, refundPayment, channelVars>>
-----------------------------------------------------------------------------
(* The environment *)

\* A process dies: no finally, an open transaction rolls back.
Crash(w) ==
    /\ pc[w] # "idle"
    /\ lock' = IF lock = w THEN NoWorker ELSE lock
    /\ AtRest(w)
    /\ UNCHANGED <<requestVars, purchaseVars, refundPayment, channelVars>>

\* Five minutes pass.
LeaseExpires ==
    /\ leaseLive
    /\ TimelyApprovals => ~InFlight(leaseToken)
    /\ leaseLive' = FALSE
    /\ UNCHANGED <<requestVars, refunded, leaseToken, lock, refundPayment,
                   channelVars, workerVars>>

\* The status poller learns that the channel failed an accepted refund.
AcceptedRefundFails(r, c) ==
    /\ opStatus[r][c] = "ACCEPTED"
    /\ opStatus' = [opStatus EXCEPT ![r][c] = "FAILED"]
    /\ UNCHANGED <<requestVars, purchaseVars, lock, refundPayment, opAmount, sends,
                   workerVars>>

\* cancelPayment on the refund payment: operations of type REFUND stay.
CancelRefundPayment(r) ==
    /\ refundPayment[r] = "OPEN"
    /\ refundPayment' = [refundPayment EXCEPT ![r] = "FAILED"]
    /\ UNCHANGED <<requestVars, purchaseVars, lock, channelVars, workerVars>>

\* A step of a running handler, as opposed to a new call or a failure.
HandlerStep(w) ==
    \/ RejectCommits(w)
    \/ Claim(w)
    \/ Prepare(w)
    \/ PersistRefundPayment(w)
    \/ Allocate(w)
    \/ ReserveOperation(w)
    \/ SendInit(w)
    \/ InitAnswered(w)
    \/ InitUnanswered(w)
    \/ Finalize(w)
    \/ ReleaseLease(w)

\* Quantities a caller asks for; more than was bought is always refused.
RequestedCounts ==
    {cnt \in [Items -> 0..MaxQuantity] : \A i \in Items : cnt[i] <= Quantity[i]}

Next ==
    \/ \E r \in Requests, cnt \in RequestedCounts : CreateRefundRequest(r, cnt)
    \/ \E w \in Workers, r \in Requests, k \in Keys, cnt \in RequestedCounts :
          StartSystemRefund(w, r, k, cnt)
    \/ \E w \in Workers, r \in Requests :
          RejectChecks(w, r) \/ ApproveRefundRequest(w, r)
    \/ \E w \in Workers : HandlerStep(w) \/ Crash(w)
    \/ LeaseExpires
    \/ \E r \in Requests :
          CancelRefundPayment(r) \/ \E c \in Captures : AcceptedRefundFails(r, c)

Spec == Init /\ [][Next]_vars

\* A handler that does not die runs on: its network calls time out after 30 s,
\* the database grants a row lock in the order of the requests (so a handler
\* that can take it again and again gets it), and clocks advance.
Fairness ==
    /\ \A w \in Workers : SF_vars(HandlerStep(w))
    /\ WF_vars(LeaseExpires)

LiveSpec == Spec /\ Fairness
-----------------------------------------------------------------------------
(* Properties *)

\* Units of an item that requests hold or have refunded never exceed the units
\* bought, and the item counters are exactly the approved requests: the
\* reservations of validateNewRefundRequest and the counters written by
\* updateOriginalItemsRefundState agree at every moment.
QuantitiesConserved ==
    \A i \in Items :
        /\ refunded[i] + Reserved(i) <= Quantity[i]
        /\ refunded[i] = SumFunctionOnSet([r \in Requests |-> counts[r][i]],
                                          {r \in Requests : status[r] = "APPROVED"})

\* No item is refunded more often than it was bought (validateRefundItems as
\* repeated by the finalising transaction).
RefundedWithinPurchase == \A i \in Items : refunded[i] <= Quantity[i]

\* Channel operations are never initialised twice, whatever times out, crashes
\* or is retried (the reservation in startRefundPaymentOperationsForRefundRequest).
NeverSentTwice == \A r \in Requests, c \in Captures : sends[r][c] <= 1

\* The operations of a request that their channel answered.
Answered(r) == {c \in Captures : opStatus[r][c] \in {"ACCEPTED", "FAILED"}}

\* An APPROVED request has a refund payment, and what the channels answered for
\* covers the refund, however often its approval failed and was resumed (the
\* allocations of startRefundPaymentOperationsForRefundRequest).
ApprovedIsCovered ==
    \A r \in Requests : status[r] = "APPROVED" =>
        /\ refundPayment[r] # "NONE"
        /\ SumFunctionOnSet(opAmount[r], Answered(r)) >= RefundAmount(r)

\* An APPROVED request has no operation whose answer is unknown ("APPROVED means
\* initialization was accepted", and an ambiguous one is reconciled first).
ApprovedMeansInitialised ==
    \A r \in Requests : status[r] = "APPROVED" =>
        \A c \in Captures : opStatus[r][c] # "RESERVED"

\* A request whose refund was initiated is never REJECTED, which would give its
\* quantities to another refund (the check in rejectRefundRequest).
InitiatedNeverRejected ==
    \A r \in Requests : status[r] = "REJECTED" => refundPayment[r] = "NONE"

\* The refunds reserved on a capture never exceed what it captured
\* (refundCaptureAllocations).
CapturesNotOverdrawn ==
    \A c \in Captures :
        SumFunctionOnSet([r \in Requests |-> opAmount[r][c]], Requests) <= Captured[c]

\* The lease lets one approval of a purchase past its claim at a time.
LeaseIsExclusive ==
    \A v, w \in Workers : InFlight(v) /\ InFlight(w) => v = w

\* A resolution is final and no refunded unit returns.
ResolutionIsFinal ==
    [][/\ \A r \in Requests :
             status[r] \in {"APPROVED", "REJECTED"} => status'[r] = status[r]
       /\ \A i \in Items : refunded'[i] >= refunded[i]]_vars

\* No crash, lost answer or refusal blocks the refunds of a purchase for ever.
PurchaseNeverBlocked == []<>NoApprovalInProgress

\* Every call returns or dies: no handler waits for a row that is never freed.
EveryCallReturns == \A w \in Workers : pc[w] # "idle" ~> pc[w] = "idle"

\* The refund system implements the ledger.
Ledger == INSTANCE RefundLedger WITH
    Requests <- Requests, Items <- Items, Captures <- Captures, Quantity <- Quantity,
    MaxQuantity <- MaxQuantity, status <- status, counts <- counts,
    refunded <- refunded, sends <- sends
ImplementsLedger == Ledger!Spec
=============================================================================
