--------------------------- MODULE IyzicoCheckout ---------------------------
(***************************************************************************)
(* The checkout of one payment in the Iyzico channel                       *)
(* (apps/integration-iyzico): the reservation row, the hosted form at the  *)
(* provider, the browser that is sent there and posts the callback, and    *)
(* the calls of the payment service: init, check, fire and cancel.         *)
(*                                                                         *)
(* A handler is one call in progress.  Each statement on the row and each  *)
(* request to the provider is an action.  A throw ends the call without an *)
(* answer; the guards of the first action of a call are those under which  *)
(* it does not throw at once.                                              *)
(***************************************************************************)
EXTENDS Integers, FiniteSetsExt

CONSTANTS Callers,       \* calls that may be in progress at a time
          CaptureDetails,\* what an init may ask for: total, paid amount and
                         \* basket lines, in 1/10000 of the currency
          ReturnUrls,    \* validated same-origin return addresses
          NoUrl,         \* the return address of a row that is not bound
          MaxLostCalls   \* bound: provider calls that fail, and crashes

ASSUME CheckoutAssumption == NoUrl \notin ReturnUrls /\ MaxLostCalls \in Nat

VARIABLES op,            \* the IyzicoOperation row
          form,          \* the hosted form: none, open, paid or failed
          fraud,         \* fraudStatus of a paid form: -1, 0 (review) or 1
          formsOpened,   \* how many forms the provider opened
          buyerAtForm,   \* a launch has sent the browser to the form
          caller,        \* the calls in progress
          answers,       \* statuses the payment service was ever answered
          returnedTo,    \* return addresses launches accepted
          lostCalls

checkoutVars == <<op, form, fraud, formsOpened, buyerAtForm, caller, answers,
                  returnedTo, lostCalls>>

NoOp == [init |-> "NONE", status |-> "NONE"]

OpRows == [details : CaptureDetails,
           init : {"INITIALIZING", "INITIALIZED", "RECONCILIATION_REQUIRED"},
           token : BOOLEAN,
           status : {"WAITING", "COMPLETED", "FAILED"},
           callbackReceived : BOOLEAN,
           cancellation : {"none", "CANCELLED", "PAID_AFTER_CANCEL"},
           returnUrl : ReturnUrls \union {NoUrl}]

\* What client.retrieve returns: the state of the form and its fraud status.
Results == [form : {"none", "open", "paid", "failed"}, fraud : {-1, 0, 1}]
Retrieved == [form |-> form, fraud |-> fraud]

Calls == {"none", "init", "check", "fire", "cancel", "callback", "launch"}
Points == {"idle", "opening", "opened", "initialized", "load", "retrieve",
           "save", "reload", "ask", "cancelling", "cancelled", "received",
           "flag", "flagging", "bound"}

CallerStates == [pc : Points, call : Calls, cancelledSeen : BOOLEAN,
                 found : Results, url : ReturnUrls \union {NoUrl}]

IdleCaller == [pc |-> "idle", call |-> "none", cancelledSeen |-> FALSE,
               found |-> [form |-> "none", fraud |-> 0], url |-> NoUrl]

\* The payment service has the operation's id once an init was answered.
Known == answers # {}

Idle(c)  == caller[c].pc = "idle"
At(c, p) == caller[c].pc = p

Begin(c, call, p) ==
  /\ Idle(c)
  /\ caller' = [caller EXCEPT ![c] = [IdleCaller EXCEPT !.pc = p, !.call = call]]
Goto(c, p) == caller' = [caller EXCEPT ![c].pc = p]
End(c)     == caller' = [caller EXCEPT ![c] = IdleCaller]

\* A provider call that times out, is refused or returns an invalid body.
LoseCall == /\ lostCalls < MaxLostCalls
            /\ lostCalls' = lostCalls + 1

\* check answers any status; fire throws unless it is COMPLETED; a callback
\* publishes an event instead of answering.
Answer(c, status) ==
  answers' = IF caller[c].call = "check"
                \/ (caller[c].call = "fire" /\ status = "COMPLETED")
             THEN answers \union {status}
             ELSE answers

CheckoutInit ==
  /\ op = NoOp
  /\ form = "none" /\ fraud = 0 /\ formsOpened = 0
  /\ buyerAtForm = FALSE
  /\ caller = [c \in Callers |-> IdleCaller]
  /\ answers = {} /\ returnedTo = {}
  /\ lostCalls = 0

-----------------------------------------------------------------------------
(* initialize                                                              *)

CheckoutMoney(amount) == amount > 0 /\ amount % 100 = 0

\* mapCheckout: amounts of two decimals, captured in full, by lines that add
\* up.  The buyer's name, address and network address are left out.
MapCheckout(d) ==
  /\ CheckoutMoney(d.total) /\ d.paid = d.total
  /\ \A i \in DOMAIN d.lines : CheckoutMoney(d.lines[i])
  /\ MapThenSumSet(LAMBDA i : d.lines[i], DOMAIN d.lines) = d.total

Reservation(d) ==
  [details |-> d, init |-> "INITIALIZING", token |-> FALSE,
   status |-> "WAITING", callbackReceived |-> FALSE, cancellation |-> "none",
   returnUrl |-> NoUrl]

\* The insert succeeds: this call alone opens the form.
Initialize(c, d) ==
  /\ MapCheckout(d) /\ op = NoOp
  /\ Begin(c, "init", "opening")
  /\ op' = Reservation(d)
  /\ UNCHANGED <<form, fraud, formsOpened, buyerAtForm, answers, returnedTo, lostCalls>>

\* The insert finds the payment's row: it is answered when it has the same
\* details and was initialized; otherwise the call is a conflict.
InitializeAgain(c, d) ==
  /\ Idle(c)
  /\ MapCheckout(d) /\ op # NoOp
  /\ op.details = d /\ op.init = "INITIALIZED"
  /\ answers' = answers \union {op.status}
  /\ UNCHANGED <<op, form, fraud, formsOpened, buyerAtForm, caller, returnedTo, lostCalls>>

\* checkoutFormInitialize.create reaches the provider.
OpenForm(c) ==
  /\ At(c, "opening")
  /\ form' = "open"
  /\ formsOpened' = formsOpened + 1
  /\ Goto(c, "opened")
  /\ UNCHANGED <<op, fraud, buyerAtForm, answers, returnedTo, lostCalls>>

\* No valid answer, whether or not the form was opened.
InitializeFails(c) ==
  /\ At(c, "opening") \/ At(c, "opened")
  /\ LoseCall
  /\ op' = [op EXCEPT !.init = "RECONCILIATION_REQUIRED"]
  /\ End(c)
  /\ UNCHANGED <<form, fraud, formsOpened, buyerAtForm, answers, returnedTo>>

RecordForm(c) ==
  /\ At(c, "opened")
  /\ op' = [op EXCEPT !.init = "INITIALIZED", !.token = TRUE]
  /\ Goto(c, "initialized")
  /\ UNCHANGED <<form, fraud, formsOpened, buyerAtForm, answers, returnedTo, lostCalls>>

AnswerInitialize(c) ==
  /\ At(c, "initialized")
  /\ answers' = answers \union {op.status}
  /\ End(c)
  /\ UNCHANGED <<op, form, fraud, formsOpened, buyerAtForm, returnedTo, lostCalls>>

-----------------------------------------------------------------------------
(* launch: the browser asks for the form with a return address             *)

\* update ... where returnUrl is null
Bound(u) == IF op.returnUrl = NoUrl THEN [op EXCEPT !.returnUrl = u] ELSE op

BindReturnUrl(c, u) ==
  /\ Known /\ op.init = "INITIALIZED"
  /\ Idle(c)
  /\ op' = Bound(u)
  /\ caller' = [caller EXCEPT ![c] =
                  [IdleCaller EXCEPT !.pc = "bound", !.call = "launch", !.url = u]]
  /\ UNCHANGED <<form, fraud, formsOpened, buyerAtForm, answers, returnedTo, lostCalls>>

\* The saved row decides: another address is a conflict, a waiting operation
\* goes on to the form, a resolved one returns at once.
SendBrowser(c) ==
  /\ At(c, "bound")
  /\ End(c)
  /\ IF op.returnUrl # caller[c].url
     THEN UNCHANGED <<buyerAtForm, returnedTo>>
     ELSE /\ returnedTo' = returnedTo \union {caller[c].url}
          /\ buyerAtForm' = (buyerAtForm \/ op.status = "WAITING")
  /\ UNCHANGED <<op, form, fraud, formsOpened, answers, lostCalls>>

-----------------------------------------------------------------------------
(* check and fire                                                          *)

BeginCheck(c, call) ==
  /\ Known
  /\ Begin(c, call, "load")
  /\ UNCHANGED <<op, form, fraud, formsOpened, buyerAtForm, answers, returnedTo, lostCalls>>

MustRetrieve == op.status = "WAITING" /\ op.callbackReceived /\ op.token

\* Mutant of LoadForCheck: only the callback itself asks the provider.
LoadForCheckInCallback(c) ==
  /\ At(c, "load")
  /\ IF MustRetrieve /\ caller[c].call = "callback"
     THEN Goto(c, "retrieve") /\ UNCHANGED answers
     ELSE End(c) /\ Answer(c, op.status)
  /\ UNCHANGED <<op, form, fraud, formsOpened, buyerAtForm, returnedTo, lostCalls>>

LoadForCheck(c) ==
  /\ At(c, "load")
  /\ IF MustRetrieve
     THEN Goto(c, "retrieve") /\ UNCHANGED answers
     ELSE End(c) /\ Answer(c, op.status)
  /\ UNCHANGED <<op, form, fraud, formsOpened, buyerAtForm, returnedTo, lostCalls>>

\* Mutant of StatusOf: a payment under fraud review counts as captured.
StatusIgnoringReview(r) ==
  IF r.form = "failed" \/ r.fraud = -1 THEN "FAILED" ELSE "COMPLETED"

StatusOf(r) ==
  IF r.form = "failed" \/ r.fraud = -1 THEN "FAILED"
  ELSE IF r.fraud = 1 THEN "COMPLETED" ELSE "WAITING"

\* A form the buyer has not finished has no retrievable payment: it throws.
Retrieve(c) ==
  /\ At(c, "retrieve")
  /\ IF form \in {"paid", "failed"}
     THEN caller' = [caller EXCEPT ![c].pc = "save", ![c].found = Retrieved]
     ELSE End(c)
  /\ UNCHANGED <<op, form, fraud, formsOpened, buyerAtForm, answers, returnedTo, lostCalls>>

\* Mutant of Resolved: the row is updated whatever its status is by now.
ResolvedAnyway(status) == [op EXCEPT !.status = status]

\* update ... where status is WAITING
Resolved(status) ==
  IF op.status = "WAITING" THEN [op EXCEPT !.status = status] ELSE op

SaveCheck(c) ==
  /\ At(c, "save")
  /\ op' = Resolved(StatusOf(caller[c].found))
  /\ Goto(c, "reload")
  /\ UNCHANGED <<form, fraud, formsOpened, buyerAtForm, answers, returnedTo, lostCalls>>

ReloadAndAnswer(c) ==
  /\ At(c, "reload")
  /\ Answer(c, op.status)
  /\ End(c)
  /\ UNCHANGED <<op, form, fraud, formsOpened, buyerAtForm, returnedTo, lostCalls>>

-----------------------------------------------------------------------------
(* callback: the browser posts the token after the form                    *)

BeginCallback(c) ==
  /\ form \in {"paid", "failed"}
  /\ op.token
  /\ Idle(c)
  /\ caller' = [caller EXCEPT ![c] =
                  [IdleCaller EXCEPT !.pc = "received", !.call = "callback",
                     !.cancelledSeen = (op.cancellation = "CANCELLED")]]
  /\ UNCHANGED <<op, form, fraud, formsOpened, buyerAtForm, answers, returnedTo, lostCalls>>

\* What comes next was decided when the row was loaded.
RecordCallback(c) ==
  /\ At(c, "received")
  /\ op' = [op EXCEPT !.callbackReceived = TRUE]
  /\ Goto(c, IF caller[c].cancelledSeen THEN "flag" ELSE "load")
  /\ UNCHANGED <<form, fraud, formsOpened, buyerAtForm, answers, returnedTo, lostCalls>>

RetrieveAfterCancel(c) ==
  /\ At(c, "flag")
  /\ IF form = "paid" THEN Goto(c, "flagging") ELSE End(c)
  /\ UNCHANGED <<op, form, fraud, formsOpened, buyerAtForm, answers, returnedTo, lostCalls>>

\* update ... where cancellationState is CANCELLED
FlagPaidAfterCancel(c) ==
  /\ At(c, "flagging")
  /\ op' = IF op.cancellation = "CANCELLED"
           THEN [op EXCEPT !.cancellation = "PAID_AFTER_CANCEL"] ELSE op
  /\ End(c)
  /\ UNCHANGED <<form, fraud, formsOpened, buyerAtForm, answers, returnedTo, lostCalls>>

\* The retrieval of a check or of a callback fails, and the call throws.
RetrieveFails(c) ==
  /\ At(c, "retrieve") \/ At(c, "flag")
  /\ LoseCall
  /\ End(c)
  /\ UNCHANGED <<op, form, fraud, formsOpened, buyerAtForm, answers, returnedTo>>

-----------------------------------------------------------------------------
(* cancel                                                                  *)

BeginCancel(c) ==
  /\ Known
  /\ \/ /\ op.status = "FAILED"
        /\ Idle(c)
        /\ answers' = answers \union {"FAILED"}
        /\ UNCHANGED caller
     \/ /\ op.status = "WAITING"
        /\ Begin(c, "cancel", IF op.token THEN "ask" ELSE "cancelling")
        /\ UNCHANGED answers
  /\ UNCHANGED <<op, form, fraud, formsOpened, buyerAtForm, returnedTo, lostCalls>>

\* A paid form cannot be cancelled: the call throws.
AskProvider(c) ==
  /\ At(c, "ask")
  /\ IF form = "paid" THEN End(c) ELSE Goto(c, "cancelling")
  /\ UNCHANGED <<op, form, fraud, formsOpened, buyerAtForm, answers, returnedTo, lostCalls>>

\* A retrieval that fails counts as unpaid.
AskFails(c) ==
  /\ At(c, "ask")
  /\ LoseCall
  /\ Goto(c, "cancelling")
  /\ UNCHANGED <<op, form, fraud, formsOpened, buyerAtForm, answers, returnedTo>>

SaveCancel(c) ==
  /\ At(c, "cancelling")
  /\ op' = IF op.status = "WAITING"
           THEN [op EXCEPT !.status = "FAILED", !.cancellation = "CANCELLED"]
           ELSE op
  /\ Goto(c, "cancelled")
  /\ UNCHANGED <<form, fraud, formsOpened, buyerAtForm, answers, returnedTo, lostCalls>>

AnswerCancel(c) ==
  /\ At(c, "cancelled")
  /\ answers' = IF op.cancellation = "CANCELLED"
                THEN answers \union {op.status} ELSE answers
  /\ End(c)
  /\ UNCHANGED <<op, form, fraud, formsOpened, buyerAtForm, returnedTo, lostCalls>>

-----------------------------------------------------------------------------
(* The buyer, the provider and crashes                                     *)

BuyerPays ==
  /\ buyerAtForm /\ form = "open"
  /\ form' = "paid"
  /\ fraud' \in {-1, 0, 1}
  /\ UNCHANGED <<op, formsOpened, buyerAtForm, caller, answers, returnedTo, lostCalls>>

BuyerFails ==
  /\ buyerAtForm /\ form = "open"
  /\ form' = "failed"
  /\ UNCHANGED <<op, fraud, formsOpened, buyerAtForm, caller, answers, returnedTo, lostCalls>>

ReviewEnds ==
  /\ form = "paid" /\ fraud = 0
  /\ fraud' \in {-1, 1}
  /\ UNCHANGED <<op, form, formsOpened, buyerAtForm, caller, answers, returnedTo, lostCalls>>

\* The process dies, or the payment service has stopped waiting: no answer.
CallDies(c) ==
  /\ ~Idle(c)
  /\ LoseCall
  /\ End(c)
  /\ UNCHANGED <<op, form, fraud, formsOpened, buyerAtForm, answers, returnedTo>>

\* The steps of a call that has begun, other than its failing.
CallStep(c) ==
  \/ OpenForm(c) \/ RecordForm(c) \/ AnswerInitialize(c)
  \/ SendBrowser(c)
  \/ LoadForCheck(c) \/ Retrieve(c) \/ SaveCheck(c) \/ ReloadAndAnswer(c)
  \/ RecordCallback(c) \/ RetrieveAfterCancel(c) \/ FlagPaidAfterCancel(c)
  \/ AskProvider(c) \/ SaveCancel(c) \/ AnswerCancel(c)

CheckoutNext ==
  \/ \E c \in Callers :
       \/ \E d \in CaptureDetails : Initialize(c, d) \/ InitializeAgain(c, d)
       \/ \E u \in ReturnUrls : BindReturnUrl(c, u)
       \/ \E call \in {"check", "fire"} : BeginCheck(c, call)
       \/ BeginCallback(c) \/ BeginCancel(c)
       \/ CallStep(c)
       \/ InitializeFails(c) \/ RetrieveFails(c) \/ AskFails(c) \/ CallDies(c)
  \/ BuyerPays \/ BuyerFails \/ ReviewEnds

\* Calls in progress end (client calls time out after 20 s), and the poller
\* of the payment service keeps asking about an unresolved operation.
CheckoutFairness ==
  \A c \in Callers : /\ WF_checkoutVars(CallStep(c))
                     /\ SF_checkoutVars(BeginCheck(c, "check"))

CheckoutSpec == CheckoutInit /\ [][CheckoutNext]_checkoutVars /\ CheckoutFairness

-----------------------------------------------------------------------------
(* Properties                                                              *)

\* Types of the row, the form and the calls of the Iyzico checkout.
CheckoutTypeOK ==
  /\ op \in OpRows \union {NoOp}
  /\ form \in {"none", "open", "paid", "failed"} /\ fraud \in {-1, 0, 1}
  /\ formsOpened \in Nat
  /\ buyerAtForm \in BOOLEAN
  /\ caller \in [Callers -> CallerStates]
  /\ answers \subseteq {"WAITING", "COMPLETED", "FAILED"}
  /\ returnedTo \subseteq ReturnUrls
  /\ lostCalls \in 0..MaxLostCalls

\* A captured checkout was paid at the provider and passed its fraud review,
\* whatever a check read and how late it saved (check, "Only
\* paymentStatus=SUCCESS with fraudStatus=1 completes a payment").
CapturedIsPaid ==
  op.status = "COMPLETED" => form = "paid" /\ fraud = 1

\* The form of a payment is opened once, however often init is called, dies
\* or loses its answer (initialize: the reservation).
FormOpenedOnce == formsOpened <= 1

\* All launches that were accepted return to one address, the first, whatever
\* addresses other browsers ask for (launch: the update where none is bound).
OneReturnAddress == op # NoOp => returnedTo \subseteq {op.returnUrl}

\* The checkout keeps what the payment service counts on: one resolution, and
\* answers that never contradict it (check racing cancel).
Channel == INSTANCE ChannelOperation
             WITH Resolutions <- {"COMPLETED", "FAILED"},
                  status <- op.status,
                  told <- answers
CheckoutImplementsChannel == Channel!ChannelSpec

\* A payment that passed its review is recorded, or was cancelled before,
\* once its callback has come in (check after a stored callback).
PaidIsRecorded ==
  (op # NoOp /\ op.callbackReceived /\ form = "paid" /\ fraud = 1)
    ~> (op.status # "WAITING")

\* "a payment completed after this point is flagged as PAID_AFTER_CANCEL on
\* callback instead" (integration-iyzico.service.ts, cancel): when no call is
\* in progress, a cancelled operation whose paid callback came in is flagged.
PaidAfterCancelIsFlagged ==
  (op # NoOp /\ (\A c \in Callers : Idle(c)))
    => ~(op.callbackReceived /\ form = "paid" /\ op.cancellation = "CANCELLED")
=============================================================================
