---------------------------- MODULE PaymentLifecycle ----------------------------
(***************************************************************************)
(* One purchase from INITIATED to COMPLETED or FAILED: handlers that start a *)
(* channel operation, refresh the payment (the 15 s poller, the channel's    *)
(* status event, the browser return, the check endpoint), cancel it, and     *)
(* post its seller orders and account transactions.  Translated from         *)
(* payment.service.ts, payment-operation-management.service.ts,              *)
(* seller-payment-order.service.ts and account-payment-transaction.service.ts.*)
(*                                                                           *)
(* No transaction spans a handler.  Each database access and each network    *)
(* call is a step of its own, and a save writes back every column of the row *)
(* the handler loaded, so what others wrote in between is lost.              *)
(* Open payments and refund payments are not in this module.                 *)
(***************************************************************************)
EXTENDS Integers, FiniteSets, Functions

CONSTANTS
    Ops,            \* channel operations that may come to exist
    NoOp,
    Workers,        \* concurrent handlers
    Total,          \* Payment.totalAmount
    Requested,      \* amounts a buyer asks to capture
    FailOnChannelFailure,  \* Payment.failOnPaymentChannelFailure
    MaxFaults       \* bound: crashes and failed calls

ASSUME PaymentAssumption ==
    /\ Total \in Nat \ {0}
    /\ Requested \subseteq 1..Total
    /\ FailOnChannelFailure \in BOOLEAN
    /\ MaxFaults \in Nat
    /\ IsFiniteSet(Ops) /\ NoOp \notin Ops

VARIABLES
    payment,   \* paymentStatus and errorStatus of the Payment row
    expired,   \* it is older than PAYMENT_EXPIRE_MS
    opStatus,  \* PaymentChannelOperation.status, "NONE" without a row
    opAmount,  \* PaymentChannelOperation.amount
    channel,   \* what the channel holds of the operation
    orders,    \* number of SellerPaymentOrder rows per seller
    entries,   \* handlers whose account transactions are in the table
    handler,   \* where each handler is, and what it has read
    faults,
    covered    \* history: operations a channel ever authorised or captured

rowVars == <<payment, opStatus, opAmount>>
postVars == <<orders, entries>>
vars == <<rowVars, expired, channel, postVars, handler, faults, covered>>

Row(status, error) == [status |-> status, error |-> error]

\* A handler that does nothing.  row is the payment it loaded, todo the
\* operations it still loops over, op and answer the one it is at and what the
\* channel said of it, amount what a start captures, poll whether it asks the
\* channels about every waiting operation.
Idle == [pc |-> "idle", row |-> Row("INITIATED", "NONE"), todo |-> {}, op |-> NoOp,
         answer |-> "NONE", amount |-> 0, poll |-> FALSE, found |-> {}]

Init ==
    /\ payment = Row("INITIATED", "NONE")
    /\ expired = FALSE
    /\ opStatus = [o \in Ops |-> "NONE"]
    /\ opAmount = [o \in Ops |-> 0]
    /\ channel = [o \in Ops |-> "NONE"]
    /\ orders = 0
    /\ entries = {}
    /\ handler = [w \in Workers |-> Idle]
    /\ faults = 0
    /\ covered = {}
-----------------------------------------------------------------------------
(* What the handlers read *)

Resolved(row) == row.status \in {"COMPLETED", "FAILED"}

OpsIn(statuses) == {o \in Ops : opStatus[o] \in statuses}

\* Mutant of Paid: operations in progress count.
PaidOrWaiting ==
    SumFunctionOnSet(opAmount, OpsIn({"WAITING", "READY", "COMPLETED"}))

\* totalPaidOrAuthorizedOf.
Paid == SumFunctionOnSet(opAmount, OpsIn({"READY", "COMPLETED"}))

\* Mutant of IsCovered: any paid operation completes the payment.
AnyPaid == OpsIn({"READY", "COMPLETED"}) # {}

IsCovered == Paid >= Total

\* hasOngoingPaymentOperations.
HasOngoing == OpsIn({"READY", "WAITING", "COMPLETED"}) # {}

\* startPaymentOperation: what a requested amount becomes.
CaptureAmount(requested) ==
    LET remaining == Total - Paid
        bounded == IF requested > remaining THEN remaining ELSE requested
    IN  IF bounded <= 0 THEN Total ELSE bounded

At(w, step) == handler[w].pc = step

GoTo(w, step) == handler' = [handler EXCEPT ![w].pc = step]

Return(w) == handler' = [handler EXCEPT ![w] = Idle]

\* The loop over todo has an operation left, or is done.
LoopOver(w, o) == o \in handler[w].todo

LoopDone(w) == handler[w].todo = {}
-----------------------------------------------------------------------------
(* Refreshing a payment: updatePaymentByOperationStatuses *)

\* The poller for an unresolved payment, and the return from a payment page.
BeginPoll(w) ==
    /\ At(w, "idle")
    /\ handler' = [handler EXCEPT ![w] = [Idle EXCEPT !.pc = "load", !.poll = TRUE]]
    /\ UNCHANGED <<rowVars, expired, channel, postVars, faults, covered>>

\* The check endpoint: the operations are taken as they are recorded.
BeginCheck(w) ==
    /\ At(w, "idle")
    /\ handler' = [handler EXCEPT ![w] = [Idle EXCEPT !.pc = "load"]]
    /\ UNCHANGED <<rowVars, expired, channel, postVars, faults, covered>>

\* payment-operation-status-updated for o, delivered any number of times: o is
\* checked if it is WAITING, then the payment is refreshed.
BeginStatusEvent(w, o) ==
    /\ At(w, "idle")
    /\ opStatus[o] # "NONE"
    /\ handler' = [handler EXCEPT ![w] =
          [Idle EXCEPT !.pc = "check", !.todo = {o} \cap OpsIn({"WAITING"})]]
    /\ UNCHANGED <<rowVars, expired, channel, postVars, faults, covered>>

Load(w) ==
    /\ At(w, "load")
    /\ IF Resolved(payment)
       THEN Return(w)
       ELSE handler' = [handler EXCEPT
                ![w].row = payment,
                ![w].pc = IF handler[w].poll THEN "list" ELSE "sum"]
    /\ UNCHANGED <<rowVars, expired, channel, postVars, faults, covered>>

ListWaiting(w) ==
    /\ At(w, "list") \/ At(w, "listWaiting")
    /\ handler' = [handler EXCEPT
          ![w].todo = OpsIn({"WAITING"}),
          ![w].pc = IF At(w, "list") THEN "check" ELSE "cancel"]
    /\ UNCHANGED <<rowVars, expired, channel, postVars, faults, covered>>

\* paymentChannelStatusCheck: an answer, which may be old when it is saved.
AskChannel(w, o) ==
    /\ At(w, "check")
    /\ LoopOver(w, o)
    /\ handler' = [handler EXCEPT ![w].op = o, ![w].answer = channel[o],
                                  ![w].pc = "recordCheck"]
    /\ UNCHANGED <<rowVars, expired, channel, postVars, faults, covered>>

\* savePaymentChannelRecord, for the answer to a check and to a fire.
RecordAnswer(w) ==
    /\ At(w, "recordCheck") \/ At(w, "recordFire")
    /\ opStatus' = [opStatus EXCEPT ![handler[w].op] = handler[w].answer]
    /\ handler' = [handler EXCEPT
          ![w].todo = @ \ {handler[w].op},
          ![w].pc = IF At(w, "recordCheck") THEN "check" ELSE "fire"]
    /\ UNCHANGED <<payment, opAmount, expired, channel, postVars, faults, covered>>

\* After the checks, a poll goes on and a status event loads the payment.
ChecksDone(w) ==
    /\ At(w, "check")
    /\ LoopDone(w)
    /\ GoTo(w, IF handler[w].poll THEN "sum" ELSE "load")
    /\ UNCHANGED <<rowVars, expired, channel, postVars, faults, covered>>

\* Is the payment covered by what was paid or authorised?
Sum(w) ==
    /\ At(w, "sum")
    /\ IF IsCovered
       THEN handler' = [handler EXCEPT ![w].row.status = "COMPLETED", ![w].pc = "complete"]
       ELSE GoTo(w, "failed")
    /\ UNCHANGED <<rowVars, expired, channel, postVars, faults, covered>>

\* Mutant of HasExpired: a payment nobody tried to pay is forgotten.
HasExpiredWaiting(w) == expired /\ handler[w].row.status = "WAITING"

\* The condition of the expiry branch.
HasExpired(w) == expired /\ handler[w].row.status \in {"WAITING", "INITIATED"}

\* hasFailedPaymentOperations and the branch on it.
LookForFailures(w) ==
    /\ At(w, "failed")
    /\ \/ /\ OpsIn({"FAILED"}) # {}
          /\ FailOnChannelFailure
          /\ handler' = [handler EXCEPT ![w].row.status = "FAILED", ![w].pc = "save"]
       \/ /\ OpsIn({"FAILED"}) # {}
          /\ ~FailOnChannelFailure
          /\ GoTo(w, "ongoing")
       \/ /\ OpsIn({"FAILED"}) = {}
          /\ HasExpired(w)
          /\ handler' = [handler EXCEPT ![w].row = Row("FAILED", "EXPIRED"),
                                        ![w].pc = "listWaiting"]
       \/ /\ OpsIn({"FAILED"}) = {}
          /\ ~HasExpired(w)
          /\ GoTo(w, "save")
    /\ UNCHANGED <<rowVars, expired, channel, postVars, faults, covered>>

\* Without an ongoing operation the buyer may try again.
LookForOngoing(w) ==
    /\ At(w, "ongoing")
    /\ handler' = [handler EXCEPT
          ![w].row.status = IF HasOngoing THEN @ ELSE "INITIATED",
          ![w].pc = "save"]
    /\ UNCHANGED <<rowVars, expired, channel, postVars, faults, covered>>

\* The save at the end of a refresh and of a cancellation: the whole row.
SavePayment(w) ==
    /\ At(w, "save")
    /\ payment' = handler[w].row
    /\ Return(w)
    /\ UNCHANGED <<opStatus, opAmount, expired, channel, postVars, faults, covered>>
-----------------------------------------------------------------------------
(* Completing a payment *)

SaveCompleted(w) ==
    /\ At(w, "complete")
    /\ payment' = handler[w].row
    /\ GoTo(w, "listReady")
    /\ UNCHANGED <<opStatus, opAmount, expired, channel, postVars, faults, covered>>

\* firePaymentOperationsByPaymentId.
ListReady(w) ==
    /\ At(w, "listReady")
    /\ handler' = [handler EXCEPT ![w].todo = OpsIn({"READY"}), ![w].pc = "fire"]
    /\ UNCHANGED <<rowVars, expired, channel, postVars, faults, covered>>

\* The channel captures an authorisation, or has lost it: then the handler throws.
Fire(w, o) ==
    /\ At(w, "fire")
    /\ LoopOver(w, o)
    /\ IF channel[o] = "FAILED"
       THEN Return(w) /\ UNCHANGED channel
       ELSE /\ channel' = [channel EXCEPT ![o] = "COMPLETED"]
            /\ handler' = [handler EXCEPT ![w].op = o, ![w].answer = "COMPLETED",
                                          ![w].pc = "recordFire"]
    /\ UNCHANGED <<rowVars, expired, postVars, faults, covered>>

FiringDone(w) ==
    /\ At(w, "fire")
    /\ LoopDone(w)
    /\ GoTo(w, "findOrders")
    /\ UNCHANGED <<rowVars, expired, channel, postVars, faults, covered>>

\* addTransaction looks for the order of this payment and seller ...
FindOrders(w) ==
    /\ At(w, "findOrders")
    /\ handler' = [handler EXCEPT ![w].found = IF orders = 0 THEN {} ELSE {"order"},
                                  ![w].pc = "saveOrders"]
    /\ UNCHANGED <<rowVars, expired, channel, postVars, faults, covered>>

\* ... and updates it, or inserts one; the key of payment and seller is unique,
\* so of two inserts the second throws.
SaveOrders(w) ==
    /\ At(w, "saveOrders")
    /\ orders' = 1
    /\ IF handler[w].found = {} /\ orders = 1 THEN Return(w) ELSE GoTo(w, "findOld")
    /\ UNCHANGED <<rowVars, expired, channel, entries, faults, covered>>

\* deleteOldTransactions: find, then remove what was found.
FindOldEntries(w) ==
    /\ At(w, "findOld")
    /\ handler' = [handler EXCEPT ![w].found = entries, ![w].pc = "removeOld"]
    /\ UNCHANGED <<rowVars, expired, channel, postVars, faults, covered>>

RemoveOldEntries(w) ==
    /\ At(w, "removeOld")
    /\ entries' = entries \ handler[w].found
    /\ GoTo(w, "saveEntries")
    /\ UNCHANGED <<rowVars, expired, channel, orders, faults, covered>>

\* createNew saves the transactions; the events and webhooks that follow are
\* not awaited.
SaveEntries(w) ==
    /\ At(w, "saveEntries")
    /\ entries' = entries \cup {w}
    /\ Return(w)
    /\ UNCHANGED <<rowVars, expired, channel, orders, faults, covered>>
-----------------------------------------------------------------------------
(* Cancelling a payment, or the operations of an expired one *)

\* Mutants of BeginCancel: a resolved payment is cancelled; the operations are
\* left alone.
BeginCancelAlways(w) ==
    /\ At(w, "idle")
    /\ handler' = [handler EXCEPT ![w] =
          [Idle EXCEPT !.pc = "listWaiting", !.row = Row("FAILED", "CANCELLED")]]
    /\ UNCHANGED <<rowVars, expired, channel, postVars, faults, covered>>

BeginCancelPaymentOnly(w) ==
    /\ At(w, "idle")
    /\ ~Resolved(payment)
    /\ handler' = [handler EXCEPT ![w] =
          [Idle EXCEPT !.pc = "save", !.row = Row("FAILED", "CANCELLED")]]
    /\ UNCHANGED <<rowVars, expired, channel, postVars, faults, covered>>

\* cancelPayment: the row is loaded and must not be resolved.
BeginCancel(w) ==
    /\ At(w, "idle")
    /\ ~Resolved(payment)
    /\ handler' = [handler EXCEPT ![w] =
          [Idle EXCEPT !.pc = "listWaiting", !.row = Row("FAILED", "CANCELLED")]]
    /\ UNCHANGED <<rowVars, expired, channel, postVars, faults, covered>>

\* paymentChannelCancelled: the channel drops what it has not captured.
CancelOperation(w, o) ==
    /\ At(w, "cancel")
    /\ LoopOver(w, o)
    /\ channel' = [channel EXCEPT ![o] = IF @ = "COMPLETED" THEN @ ELSE "FAILED"]
    /\ handler' = [handler EXCEPT ![w].op = o, ![w].pc = "recordCancel"]
    /\ UNCHANGED <<rowVars, expired, postVars, faults, covered>>

\* Whatever the channel answered, the record becomes FAILED.
RecordCancel(w) ==
    /\ At(w, "recordCancel")
    /\ opStatus' = [opStatus EXCEPT ![handler[w].op] = "FAILED"]
    /\ handler' = [handler EXCEPT ![w].todo = @ \ {handler[w].op}, ![w].pc = "cancel"]
    /\ UNCHANGED <<payment, opAmount, expired, channel, postVars, faults, covered>>

CancelsDone(w) ==
    /\ At(w, "cancel")
    /\ LoopDone(w)
    /\ GoTo(w, "save")
    /\ UNCHANGED <<rowVars, expired, channel, postVars, faults, covered>>
-----------------------------------------------------------------------------
(* Starting an operation *)

\* Bound: a start needs an operation that no running start will take.
SpareOperation ==
    Cardinality({o \in Ops : channel[o] = "NONE"})
        > Cardinality({w \in Workers : handler[w].pc \in {"startLoad", "startInit"}})

\* The controller's check.
BeginStart(w) ==
    /\ At(w, "idle")
    /\ HasOngoing \/ SpareOperation
    /\ GoTo(w, IF HasOngoing THEN "fail" ELSE "startLoad")
    /\ UNCHANGED <<rowVars, expired, channel, postVars, faults, covered>>

\* startPaymentOperation loads the payment and settles the amount.
StartLoad(w) ==
    /\ At(w, "startLoad")
    /\ IF Resolved(payment)
       THEN GoTo(w, "fail")
       ELSE \E a \in Requested :
                handler' = [handler EXCEPT ![w].row = payment,
                                           ![w].amount = CaptureAmount(a),
                                           ![w].pc = "startInit"]
    /\ UNCHANGED <<rowVars, expired, channel, postVars, faults, covered>>

\* initializePaymentChannelOperation: the channel opens an operation.
StartInit(w, o) ==
    /\ At(w, "startInit")
    /\ channel[o] = "NONE"
    /\ channel' = [channel EXCEPT ![o] = "WAITING"]
    /\ handler' = [handler EXCEPT ![w].op = o, ![w].pc = "startRecord"]
    /\ UNCHANGED <<rowVars, expired, postVars, faults, covered>>

\* Its record, and then the payment: the loaded row, now WAITING.
StartRecord(w) ==
    /\ At(w, "startRecord")
    /\ opStatus' = [opStatus EXCEPT ![handler[w].op] = "WAITING"]
    /\ opAmount' = [opAmount EXCEPT ![handler[w].op] = handler[w].amount]
    /\ handler' = [handler EXCEPT ![w].row.status = "WAITING", ![w].pc = "save"]
    /\ UNCHANGED <<payment, expired, channel, postVars, faults, covered>>

\* failPaymentIfSetFailFieldTrue: one UPDATE on the flag alone.
FailPaymentIfSet(w) ==
    /\ At(w, "fail")
    /\ payment' = IF FailOnChannelFailure THEN Row("FAILED", "FAILED") ELSE payment
    /\ Return(w)
    /\ UNCHANGED <<opStatus, opAmount, expired, channel, postVars, faults, covered>>
-----------------------------------------------------------------------------
(* The environment *)

\* The buyer pays, authorises or refuses, or an authorisation lapses.
ChannelMoves(o) ==
    /\ \/ channel[o] = "WAITING" /\ \E s \in {"READY", "COMPLETED", "FAILED"} :
              channel' = [channel EXCEPT ![o] = s]
       \/ channel[o] = "READY" /\ channel' = [channel EXCEPT ![o] = "FAILED"]
    /\ covered' = IF channel'[o] \in {"READY", "COMPLETED"} THEN covered \cup {o} ELSE covered
    /\ UNCHANGED <<rowVars, expired, postVars, handler, faults>>

TimePasses ==
    /\ ~expired
    /\ expired' = TRUE
    /\ UNCHANGED <<rowVars, channel, postVars, handler, faults, covered>>

\* A channel call fails: a start fails the payment if it should, others throw.
CallFails(w) ==
    /\ faults < MaxFaults
    /\ faults' = faults + 1
    /\ \/ At(w, "startInit") /\ GoTo(w, "fail")
       \/ handler[w].pc \in {"check", "fire", "cancel"} /\ ~LoopDone(w) /\ Return(w)
    /\ UNCHANGED <<rowVars, expired, channel, postVars, covered>>

Crash(w) ==
    /\ faults < MaxFaults
    /\ faults' = faults + 1
    /\ ~At(w, "idle")
    /\ Return(w)
    /\ UNCHANGED <<rowVars, expired, channel, postVars, covered>>

\* A running handler goes on.
HandlerStep(w) ==
    \/ Load(w) \/ ListWaiting(w) \/ RecordAnswer(w) \/ ChecksDone(w) \/ Sum(w)
    \/ LookForFailures(w) \/ LookForOngoing(w) \/ SavePayment(w)
    \/ SaveCompleted(w) \/ ListReady(w) \/ FiringDone(w) \/ FindOrders(w)
    \/ SaveOrders(w) \/ FindOldEntries(w) \/ RemoveOldEntries(w) \/ SaveEntries(w)
    \/ RecordCancel(w) \/ CancelsDone(w)
    \/ StartLoad(w) \/ StartRecord(w) \/ FailPaymentIfSet(w)
    \/ \E o \in Ops : \/ AskChannel(w, o) \/ Fire(w, o) \/ CancelOperation(w, o)
                      \/ StartInit(w, o)

BeginHandler(w) ==
    \/ BeginPoll(w) \/ BeginCheck(w) \/ BeginCancel(w) \/ BeginStart(w)
    \/ \E o \in Ops : BeginStatusEvent(w, o)

Next ==
    \/ \E w \in Workers : BeginHandler(w) \/ HandlerStep(w) \/ CallFails(w) \/ Crash(w)
    \/ \E o \in Ops : ChannelMoves(o)
    \/ TimePasses

Spec == Init /\ [][Next]_vars

\* Handlers that do not die go on, the poller runs every 15 seconds, and time
\* passes.
Fairness ==
    /\ \A w \in Workers : WF_vars(HandlerStep(w)) /\ SF_vars(BeginPoll(w))
    /\ WF_vars(TimePasses)

LiveSpec == Spec /\ Fairness
-----------------------------------------------------------------------------
(* Properties *)

\* Channels authorised or captured the whole price at some time.
Covered == SumFunctionOnSet(opAmount, covered) >= Total

\* A purchase is completed, and its seller orders and account transactions are
\* written, only when channels covered its price: whatever handlers overlap,
\* overwrite each other or work on old answers (updatePaymentByOperationStatuses).
NothingDeliveredUnpaid ==
    payment.status = "COMPLETED" \/ orders > 0 \/ entries # {} => Covered

\* An authorisation is captured only when the price is covered: a purchase paid
\* in parts takes no part before it has them all (firePaymentOperationsByPaymentId).
CaptureNeedsCover ==
    [][\A o \in Ops :
          channel[o] = "READY" /\ channel'[o] = "COMPLETED" => Covered]_vars

\* A resolved purchase changes only when a start on it is refused, and then it
\* fails (assertPaymentIsNotResolved, the return of a refresh, and
\* failPaymentIfSetFailFieldTrue, which looks at neither).
ResolvedIsFinal ==
    [][Resolved(payment) => payment' \in {payment, Row("FAILED", "FAILED")}]_vars

\* A completed purchase stays completed (assertPaymentIsNotResolved, which
\* "cannot be cancelled again" a resolved one).
CompletedNeverFails ==
    [][payment.status = "COMPLETED" => payment'.status = "COMPLETED"]_vars

\* A purchase has one set of account transactions, however often its completion
\* is handled (deleteOldTransactions).
PostedOnce == Cardinality(entries) <= 1

\* A cancelled or expired purchase has no operation left that a later check may
\* find paid (cancelPaymentOperationsByPaymentId).
ClosedLeavesNothingWaiting ==
    payment.error \in {"CANCELLED", "EXPIRED"} => OpsIn({"WAITING"}) = {}

\* A purchase never stays unresolved: it is paid, it fails, or it expires.
EventuallyResolved == []<>Resolved(payment)
=============================================================================
