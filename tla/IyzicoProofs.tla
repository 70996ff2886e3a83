---------------------------- MODULE IyzicoProofs ----------------------------
(* The Iyzico channel: checkouts, and the sub-merchants of sellers.            *)
EXTENDS IyzicoCheckout, IyzicoSubMerchant, TLAPS

-----------------------------------------------------------------------------
(***************************************************************************)
(* The checkout of the Iyzico channel opens one form, captures only what   *)
(* was paid and reviewed, returns browsers to one address, and implements  *)
(* the channel operation the payment service counts on, for every set of   *)
(* calls, of return addresses and of order amounts.                        *)
(*                                                                         *)
(* None of this is inductive by itself.  CheckoutInv adds what a call in   *)
(* progress knows: it has a row; the one call that inserted the row has    *)
(* opened no form before it asks for one; and what a retrieval read is     *)
(* still so when it is saved, because a resolved form never changes and a  *)
(* passed review is never taken back.                                      *)
(***************************************************************************)

Opening(c) == caller[c].pc \in {"opening", "opened"}

CallHolds(c) ==
  /\ caller[c].pc # "idle" => op \in OpRows
  /\ caller[c].pc = "opening" => form = "none" /\ formsOpened = 0
  /\ caller[c].pc = "bound" => caller[c].url \in ReturnUrls
  /\ caller[c].pc = "save" =>
       /\ form \in {"paid", "failed"} /\ caller[c].found.form = form
       /\ caller[c].found.fraud = 1 /\ form = "paid" => fraud = 1

CallsHold == \A c \in Callers : CallHolds(c)

OneOpens == \A c, d \in Callers : Opening(c) /\ Opening(d) => c = d

BeforeTheRow ==
  op \notin OpRows => form = "none" /\ formsOpened = 0 /\ returnedTo = {} /\ answers = {}

CheckoutInv ==
  /\ CheckoutTypeOK
  /\ CallsHold
  /\ OneOpens
  /\ BeforeTheRow
  /\ FormOpenedOnce
  /\ CapturedIsPaid
  /\ OneReturnAddress

\* A row is told from no row by its status.
LEMMA RowsHaveStatus ==
  /\ NoOp \notin OpRows
  /\ \A o \in OpRows : o.status # "NONE" /\ o # NoOp
  /\ op \in OpRows \union {NoOp} => (op \in OpRows <=> op.status # "NONE")
BY DEF OpRows, NoOp

LEMMA CheckoutInitInv == CheckoutInit => CheckoutInv
<1> SUFFICES ASSUME CheckoutInit PROVE CheckoutInv
  OBVIOUS
<1>1. \A c \in Callers : caller[c] = IdleCaller
  BY DEF CheckoutInit
<1>2. CheckoutTypeOK
  <2>1. IdleCaller \in CallerStates
    BY DEF CallerStates, IdleCaller, Points, Calls, Results
  <2>2. caller \in [Callers -> CallerStates]
    BY <2>1 DEF CheckoutInit
  <2>3. lostCalls \in 0..MaxLostCalls /\ formsOpened \in Nat /\ fraud \in {-1, 0, 1}
    BY CheckoutAssumption DEF CheckoutInit
  <2>4. /\ op \in OpRows \union {NoOp} /\ form \in {"none", "open", "paid", "failed"}
        /\ buyerAtForm \in BOOLEAN /\ returnedTo \subseteq ReturnUrls
        /\ answers \subseteq {"WAITING", "COMPLETED", "FAILED"}
    BY DEF CheckoutInit
  <2>5. QED BY <2>2, <2>3, <2>4 DEF CheckoutTypeOK
<1>3. CallsHold /\ OneOpens
  BY <1>1 DEF CallsHold, CallHolds, OneOpens, Opening, IdleCaller
<1>4. BeforeTheRow /\ FormOpenedOnce /\ CapturedIsPaid /\ OneReturnAddress
  BY DEF CheckoutInit, BeforeTheRow, FormOpenedOnce, CapturedIsPaid, OneReturnAddress, NoOp
<1>5. QED BY <1>2, <1>3, <1>4 DEF CheckoutInv
-----------------------------------------------------------------------------
(* Types *)

LEMMA CheckoutTypeStep ==
  ASSUME CheckoutInv, CheckoutNext
  PROVE  CheckoutTypeOK'
<1> USE DEF CheckoutTypeOK
<1>1. CheckoutTypeOK /\ CallsHold
  BY DEF CheckoutInv
<1> DEFINE T == [Callers -> CallerStates]
<1>0. IdleCaller \in CallerStates
  BY DEF CallerStates, IdleCaller, Points, Calls, Results
<1>2. \A c \in Callers : /\ End(c) => caller' \in T
                         /\ \A p \in Points : Goto(c, p) => caller' \in T
  <2>1. ASSUME NEW c \in Callers, End(c) PROVE caller' \in T
    BY <1>0, <1>1, <2>1 DEF End
  <2>2. ASSUME NEW c \in Callers, NEW p \in Points, Goto(c, p) PROVE caller' \in T
    <3>1. [caller[c] EXCEPT !.pc = p] \in CallerStates
      BY <1>1 DEF CallerStates
    <3>2. QED BY <1>1, <2>2, <3>1 DEF Goto
  <2>3. QED BY <2>1, <2>2
<1>3. \A c \in Callers, p \in Points, call \in Calls : Begin(c, call, p) => caller' \in T
  <2>1. ASSUME NEW c \in Callers, NEW p \in Points, NEW call \in Calls, Begin(c, call, p)
        PROVE  caller' \in T
    <3>1. [IdleCaller EXCEPT !.pc = p, !.call = call] \in CallerStates
      BY <1>0 DEF CallerStates
    <3>2. QED BY <1>1, <2>1, <3>1 DEF Begin
  <2>2. QED BY <2>1
<1>4. \A c \in Callers : caller[c].pc # "idle" => op \in OpRows
  BY <1>1 DEF CallsHold, CallHolds
<1>5. op \in OpRows => op.status \in {"WAITING", "COMPLETED", "FAILED"}
  BY DEF OpRows
<1> USE DEF At, Idle, Points, Calls, LoseCall
<1>6. ASSUME NEW c \in Callers, NEW d \in CaptureDetails, Initialize(c, d)
      PROVE  CheckoutTypeOK'
  <2>1. Reservation(d) \in OpRows
    BY DEF Reservation, OpRows
  <2>2. QED BY <1>1, <1>3, <1>6, <2>1 DEF Initialize
<1>7. ASSUME NEW c \in Callers, NEW d \in CaptureDetails, InitializeAgain(c, d)
      PROVE  CheckoutTypeOK'
  BY <1>1, <1>5, <1>7 DEF InitializeAgain
<1>8. ASSUME NEW c \in Callers, NEW u \in ReturnUrls, BindReturnUrl(c, u)
      PROVE  CheckoutTypeOK'
  <2>1. op \in OpRows
    BY <1>1, <1>8, RowsHaveStatus DEF BindReturnUrl, NoOp
  <2>2. Bound(u) \in OpRows
    BY <2>1 DEF Bound, OpRows
  <2>3. caller' \in T
    BY <1>1, <1>8 DEF BindReturnUrl, CallerStates, IdleCaller, Results
  <2>4. QED BY <1>1, <1>8, <2>2, <2>3 DEF BindReturnUrl
<1>9. ASSUME NEW c \in Callers, NEW call \in {"check", "fire"}, BeginCheck(c, call)
      PROVE  CheckoutTypeOK'
  BY <1>1, <1>3, <1>9 DEF BeginCheck
<1>10. ASSUME NEW c \in Callers, BeginCallback(c) PROVE CheckoutTypeOK'
  <2>1. caller' \in T
    BY <1>1, <1>10 DEF BeginCallback, CallerStates, IdleCaller, Results
  <2>2. QED BY <1>1, <1>10, <2>1 DEF BeginCallback
<1>11. ASSUME NEW c \in Callers, BeginCancel(c) PROVE CheckoutTypeOK'
  <2>1. caller' \in T
    <3>1. CASE op.status = "WAITING" /\ Begin(c, "cancel", IF op.token THEN "ask" ELSE "cancelling")
      BY <1>3, <3>1
    <3>2. CASE UNCHANGED caller
      BY <1>1, <3>2
    <3>3. QED BY <1>11, <3>1, <3>2 DEF BeginCancel
  <2>2. QED BY <1>1, <1>11, <2>1 DEF BeginCancel
<1>12. ASSUME NEW c \in Callers, CallStep(c) PROVE CheckoutTypeOK'
  <2>1. op \in OpRows
    BY <1>4, <1>12 DEF CallStep, OpenForm, RecordForm, AnswerInitialize, SendBrowser,
       LoadForCheck, Retrieve, SaveCheck, ReloadAndAnswer, RecordCallback,
       RetrieveAfterCancel, FlagPaidAfterCancel, AskProvider, SaveCancel, AnswerCancel
  <2>2. CASE OpenForm(c)
    <3>1. caller' \in T
      BY <1>2, <2>2 DEF OpenForm
    <3>2. QED BY <1>1, <2>2, <3>1 DEF OpenForm
  <2>3. CASE RecordForm(c)
    <3>1. [op EXCEPT !.init = "INITIALIZED", !.token = TRUE] \in OpRows
      BY <2>1 DEF OpRows
    <3>2. QED BY <1>1, <1>2, <2>3, <3>1 DEF RecordForm
  <2>4. CASE AnswerInitialize(c)
    BY <1>1, <1>2, <1>5, <2>1, <2>4 DEF AnswerInitialize
  <2>5. CASE SendBrowser(c)
    <3>1. caller[c].url \in ReturnUrls
      BY <1>1, <2>5 DEF SendBrowser, CallsHold, CallHolds
    <3>2. QED BY <1>1, <1>2, <2>5, <3>1 DEF SendBrowser
  <2>6. CASE LoadForCheck(c)
    <3>1. caller' \in T
      BY <1>2, <2>6 DEF LoadForCheck
    <3>2. QED BY <1>1, <1>5, <2>1, <2>6, <3>1 DEF LoadForCheck, Answer
  <2>7. CASE Retrieve(c)
    <3>1. Retrieved \in Results
      BY <1>1 DEF Retrieved, Results
    <3>2. [caller EXCEPT ![c].pc = "save", ![c].found = Retrieved] \in [Callers -> CallerStates]
      <4>1. [caller[c] EXCEPT !.pc = "save", !.found = Retrieved] \in CallerStates
        <5>1. PICK r \in Results : r = Retrieved
          BY <3>1
        <5>2. caller[c] \in CallerStates /\ "save" \in Points
          BY <1>1
        <5> HIDE DEF Points, Calls
        <5>3. [caller[c] EXCEPT !.pc = "save", !.found = r] \in CallerStates
          BY <5>1, <5>2 DEF CallerStates
        <5> QED BY <5>1, <5>3
      <4>2. QED BY <1>1, <4>1
    <3>3. caller' \in T
      BY <1>2, <2>7, <3>2 DEF Retrieve
    <3>4. QED BY <1>1, <2>7, <3>3 DEF Retrieve
  <2>8. CASE SaveCheck(c)
    <3>1. Resolved(StatusOf(caller[c].found)) \in OpRows
      BY <2>1 DEF Resolved, StatusOf, OpRows
    <3>2. QED BY <1>1, <1>2, <2>8, <3>1 DEF SaveCheck
  <2>9. CASE ReloadAndAnswer(c)
    BY <1>1, <1>2, <1>5, <2>1, <2>9 DEF ReloadAndAnswer, Answer
  <2>10. CASE RecordCallback(c)
    <3>1. [op EXCEPT !.callbackReceived = TRUE] \in OpRows
      BY <2>1 DEF OpRows
    <3>2. QED BY <1>1, <1>2, <2>10, <3>1 DEF RecordCallback
  <2>11. CASE RetrieveAfterCancel(c)
    <3>1. caller' \in T
      BY <1>2, <2>11 DEF RetrieveAfterCancel
    <3>2. QED BY <1>1, <2>11, <3>1 DEF RetrieveAfterCancel
  <2>12. CASE FlagPaidAfterCancel(c)
    <3>1. [op EXCEPT !.cancellation = "PAID_AFTER_CANCEL"] \in OpRows
      BY <2>1 DEF OpRows
    <3>2. QED BY <1>1, <1>2, <2>12, <3>1 DEF FlagPaidAfterCancel
  <2>13. CASE AskProvider(c)
    <3>1. caller' \in T
      BY <1>2, <2>13 DEF AskProvider
    <3>2. QED BY <1>1, <2>13, <3>1 DEF AskProvider
  <2>14. CASE SaveCancel(c)
    <3>1. [op EXCEPT !.status = "FAILED", !.cancellation = "CANCELLED"] \in OpRows
      BY <2>1 DEF OpRows
    <3>2. QED BY <1>1, <1>2, <2>14, <3>1 DEF SaveCancel
  <2>15. CASE AnswerCancel(c)
    BY <1>1, <1>2, <1>5, <2>1, <2>15 DEF AnswerCancel
  <2>16. QED
    BY <1>12, <2>2, <2>3, <2>4, <2>5, <2>6, <2>7, <2>8, <2>9, <2>10, <2>11, <2>12, <2>13,
       <2>14, <2>15 DEF CallStep
<1>13. ASSUME NEW c \in Callers,
              InitializeFails(c) \/ RetrieveFails(c) \/ AskFails(c) \/ CallDies(c)
       PROVE  CheckoutTypeOK'
  <2>1. lostCalls' \in 0..MaxLostCalls
    BY <1>1, <1>13, CheckoutAssumption DEF InitializeFails, RetrieveFails, AskFails, CallDies
  <2>2. op \in OpRows => [op EXCEPT !.init = "RECONCILIATION_REQUIRED"] \in OpRows
    BY DEF OpRows
  <2>3. caller' \in T
    BY <1>2, <1>13 DEF InitializeFails, RetrieveFails, AskFails, CallDies
  <2>4. op' \in OpRows \union {NoOp}
    <3>1. CASE InitializeFails(c)
      BY <1>4, <2>2, <3>1 DEF InitializeFails
    <3>2. CASE RetrieveFails(c) \/ AskFails(c) \/ CallDies(c)
      BY <1>1, <3>2 DEF RetrieveFails, AskFails, CallDies
    <3>3. QED BY <1>13, <3>1, <3>2
  <2>5. QED
    BY <1>1, <1>13, <2>1, <2>3, <2>4 DEF InitializeFails, RetrieveFails, AskFails, CallDies
<1>14. BuyerPays \/ BuyerFails \/ ReviewEnds => CheckoutTypeOK'
  BY <1>1 DEF BuyerPays, BuyerFails, ReviewEnds
<1>15. QED
  BY <1>6, <1>7, <1>8, <1>9, <1>10, <1>11, <1>12, <1>13, <1>14 DEF CheckoutNext
-----------------------------------------------------------------------------
(* The invariant *)

\* A step that changes neither the row's status and return address nor the form,
\* and leaves each call alone or takes it to a point that promises nothing.
LEMMA QuietStep ==
  ASSUME CheckoutInv, CheckoutTypeOK', op \in OpRows,
         op'.status = op.status, op'.returnUrl = op.returnUrl,
         UNCHANGED <<form, fraud, formsOpened, returnedTo>>,
         \A d \in Callers : \/ caller'[d] = caller[d]
                            \/ caller'[d].pc \notin {"opening", "opened", "bound", "save"}
  PROVE  CheckoutInv'
<1>1. op' \in OpRows
  BY RowsHaveStatus DEF CheckoutTypeOK, NoOp
<1>2. CallsHold'
  BY <1>1 DEF CheckoutInv, CallsHold, CallHolds
<1>3. OneOpens'
  BY DEF CheckoutInv, OneOpens, Opening
<1>4. BeforeTheRow' /\ FormOpenedOnce' /\ CapturedIsPaid' /\ OneReturnAddress'
  BY <1>1, RowsHaveStatus
     DEF CheckoutInv, BeforeTheRow, FormOpenedOnce, CapturedIsPaid, OneReturnAddress
<1>5. QED BY <1>2, <1>3, <1>4 DEF CheckoutInv

\* The row is inserted; nothing was there before.
LEMMA InitializeKeeps ==
  ASSUME CheckoutInv, CheckoutTypeOK', NEW c \in Callers, NEW d \in CaptureDetails,
         Initialize(c, d)
  PROVE  CheckoutInv'
<1>1. op \notin OpRows /\ op' = Reservation(d)
  BY RowsHaveStatus DEF Initialize
<1>2. op' \in OpRows /\ op'.status = "WAITING"
  BY <1>1 DEF Reservation, OpRows
<1>3. /\ caller'[c].pc = "opening"
      /\ \A x \in Callers : x # c => caller'[x] = caller[x]
      /\ \A x \in Callers : caller[x].pc = "idle"
  BY <1>1 DEF Initialize, Begin, CheckoutInv, CheckoutTypeOK, CallsHold, CallHolds, IdleCaller
<1>4. form = "none" /\ formsOpened = 0 /\ returnedTo = {}
  BY <1>1 DEF CheckoutInv, BeforeTheRow
<1>5. UNCHANGED <<form, fraud, formsOpened, returnedTo>>
  BY DEF Initialize
<1>6. CallsHold' /\ OneOpens'
  BY <1>2, <1>3, <1>4, <1>5 DEF CallsHold, CallHolds, OneOpens, Opening
<1>7. BeforeTheRow' /\ FormOpenedOnce' /\ CapturedIsPaid' /\ OneReturnAddress'
  BY <1>2, <1>4, <1>5
     DEF CheckoutInv, BeforeTheRow, FormOpenedOnce, CapturedIsPaid, OneReturnAddress
<1>8. QED BY <1>6, <1>7 DEF CheckoutInv

\* The inserting call opens the form, which no other call has opened.
LEMMA OpenFormKeeps ==
  ASSUME CheckoutInv, CheckoutTypeOK', NEW c \in Callers, OpenForm(c)
  PROVE  CheckoutInv'
<1>1. /\ op \in OpRows /\ op' = op /\ form = "none" /\ formsOpened = 0
      /\ form' = "open" /\ formsOpened' = 1 /\ UNCHANGED <<fraud, returnedTo>>
  BY DEF OpenForm, At, CheckoutInv, CallsHold, CallHolds
<1>2. /\ caller'[c].pc = "opened" /\ caller[c].pc = "opening"
      /\ \A x \in Callers : x # c => caller'[x] = caller[x]
  BY DEF OpenForm, At, Goto, CheckoutInv, CheckoutTypeOK, CallerStates
<1>3. \A x \in Callers : x # c => caller[x].pc \notin {"opening", "opened", "save"}
  BY <1>1, <1>2 DEF CheckoutInv, OneOpens, Opening, CallsHold, CallHolds
<1>4. CallsHold' /\ OneOpens'
  BY <1>1, <1>2, <1>3 DEF CheckoutInv, CallsHold, CallHolds, OneOpens, Opening
<1>5. BeforeTheRow' /\ FormOpenedOnce' /\ CapturedIsPaid' /\ OneReturnAddress'
  BY <1>1 DEF CheckoutInv, BeforeTheRow, FormOpenedOnce, CapturedIsPaid, OneReturnAddress
<1>6. QED BY <1>4, <1>5 DEF CheckoutInv

\* The first address is bound, and no later one.
LEMMA BindReturnUrlKeeps ==
  ASSUME CheckoutInv, CheckoutTypeOK', NEW c \in Callers, NEW u \in ReturnUrls,
         BindReturnUrl(c, u)
  PROVE  CheckoutInv'
<1>1. op \in OpRows
  BY RowsHaveStatus DEF BindReturnUrl, Known, CheckoutInv, BeforeTheRow
<1>2. op' \in OpRows /\ op'.status = op.status
  BY <1>1 DEF BindReturnUrl, Bound, OpRows
<1>3. op.returnUrl # NoUrl => op'.returnUrl = op.returnUrl
  BY <1>1 DEF BindReturnUrl, Bound, OpRows
<1>4. /\ caller'[c].pc = "bound" /\ caller'[c].url = u
      /\ \A x \in Callers : x # c => caller'[x] = caller[x]
      /\ UNCHANGED <<form, fraud, formsOpened, returnedTo>>
  BY DEF BindReturnUrl, IdleCaller, CheckoutInv, CheckoutTypeOK
<1>5. CallsHold' /\ OneOpens'
  BY <1>2, <1>4 DEF CheckoutInv, CallsHold, CallHolds, OneOpens, Opening
<1>6. OneReturnAddress'
  <2>1. returnedTo \subseteq {op.returnUrl} /\ returnedTo \subseteq ReturnUrls
    BY <1>1, RowsHaveStatus DEF CheckoutInv, OneReturnAddress, CheckoutTypeOK
  <2>2. returnedTo \subseteq {op'.returnUrl}
    BY <1>3, <2>1, CheckoutAssumption
  <2>3. QED BY <1>4, <2>2 DEF OneReturnAddress
<1>7. BeforeTheRow' /\ FormOpenedOnce' /\ CapturedIsPaid'
  BY <1>2, <1>4 DEF CheckoutInv, BeforeTheRow, FormOpenedOnce, CapturedIsPaid
<1>8. QED BY <1>5, <1>6, <1>7 DEF CheckoutInv

\* A launch returns to the address the row is bound to.
LEMMA SendBrowserKeeps ==
  ASSUME CheckoutInv, CheckoutTypeOK', NEW c \in Callers, SendBrowser(c)
  PROVE  CheckoutInv'
<1>1. op \in OpRows /\ op' = op /\ UNCHANGED <<form, fraud, formsOpened>>
  BY DEF SendBrowser, At, CheckoutInv, CallsHold, CallHolds
<1>2. /\ caller'[c].pc = "idle"
      /\ \A x \in Callers : x # c => caller'[x] = caller[x]
  BY DEF SendBrowser, End, IdleCaller, CheckoutInv, CheckoutTypeOK
<1>3. CallsHold' /\ OneOpens'
  BY <1>1, <1>2 DEF CheckoutInv, CallsHold, CallHolds, OneOpens, Opening
<1>4. OneReturnAddress'
  BY <1>1, RowsHaveStatus DEF SendBrowser, CheckoutInv, OneReturnAddress
<1>5. BeforeTheRow' /\ FormOpenedOnce' /\ CapturedIsPaid'
  BY <1>1 DEF CheckoutInv, BeforeTheRow, FormOpenedOnce, CapturedIsPaid
<1>6. QED BY <1>3, <1>4, <1>5 DEF CheckoutInv

\* A call that retrieves a finished form knows how it ended.
LEMMA RetrieveKeeps ==
  ASSUME CheckoutInv, CheckoutTypeOK', NEW c \in Callers, Retrieve(c)
  PROVE  CheckoutInv'
<1>1. op \in OpRows /\ UNCHANGED <<op, form, fraud, formsOpened, returnedTo>>
  BY DEF Retrieve, At, CheckoutInv, CallsHold, CallHolds
<1>2. CASE form \notin {"paid", "failed"}
  <2>1. \A d \in Callers : \/ caller'[d] = caller[d]
                           \/ caller'[d].pc \notin {"opening", "opened", "bound", "save"}
    BY <1>2 DEF Retrieve, End, IdleCaller, CheckoutInv, CheckoutTypeOK
  <2>2. QED BY <1>1, <2>1, QuietStep
<1>3. CASE form \in {"paid", "failed"}
  <2>1. /\ caller'[c].pc = "save" /\ caller'[c].found = Retrieved
        /\ \A x \in Callers : x # c => caller'[x] = caller[x]
    BY <1>3 DEF Retrieve, CheckoutInv, CheckoutTypeOK, CallerStates
  <2>2. CallsHold' /\ OneOpens'
    BY <1>1, <1>3, <2>1 DEF CheckoutInv, CallsHold, CallHolds, OneOpens, Opening, Retrieved
  <2>3. BeforeTheRow' /\ FormOpenedOnce' /\ CapturedIsPaid' /\ OneReturnAddress'
    BY <1>1 DEF CheckoutInv, BeforeTheRow, FormOpenedOnce, CapturedIsPaid, OneReturnAddress
  <2>4. QED BY <2>2, <2>3 DEF CheckoutInv
<1>4. QED BY <1>2, <1>3

\* The status a check or a cancel saves.  A capture is what the form still is.
LEMMA SaveStatusKeeps ==
  ASSUME CheckoutInv, CheckoutTypeOK', NEW c \in Callers, SaveCheck(c) \/ SaveCancel(c)
  PROVE  CheckoutInv'
<1>1. op \in OpRows /\ UNCHANGED <<form, fraud, formsOpened, returnedTo>>
  BY DEF SaveCheck, SaveCancel, At, CheckoutInv, CallsHold, CallHolds
<1>2. op' \in OpRows /\ op'.returnUrl = op.returnUrl
  <2>1. CASE SaveCheck(c)
    <3>1. PICK s \in {"WAITING", "COMPLETED", "FAILED"} : op' = Resolved(s)
      BY <2>1 DEF SaveCheck, StatusOf
    <3>2. QED BY <1>1, <3>1 DEF Resolved, OpRows
  <2>2. CASE SaveCancel(c)
    BY <1>1, <2>2 DEF SaveCancel, OpRows
  <2>3. QED BY <2>1, <2>2
<1>3. \A x \in Callers : caller'[x] = caller[x] \/ caller'[x].pc \in {"reload", "cancelled"}
  BY DEF SaveCheck, SaveCancel, Goto, CheckoutInv, CheckoutTypeOK, CallerStates
<1>4. CallsHold' /\ OneOpens'
  BY <1>1, <1>2, <1>3 DEF CheckoutInv, CallsHold, CallHolds, OneOpens, Opening
<1>5. CapturedIsPaid'
  <2>1. CASE SaveCancel(c)
    BY <1>1, <2>1 DEF SaveCancel, CheckoutInv, CapturedIsPaid, OpRows
  <2>2. CASE SaveCheck(c)
    <3>1. StatusOf(caller[c].found) = "COMPLETED" => form = "paid" /\ fraud = 1
      BY <2>2 DEF SaveCheck, At, StatusOf, CheckoutInv, CallsHold, CallHolds
    <3>2. op'.status = "COMPLETED" =>
            op.status = "COMPLETED" \/ StatusOf(caller[c].found) = "COMPLETED"
      BY <1>1, <2>2 DEF SaveCheck, Resolved, OpRows
    <3>3. QED BY <1>1, <3>1, <3>2 DEF CheckoutInv, CapturedIsPaid
  <2>3. QED BY <2>1, <2>2
<1>6. BeforeTheRow' /\ FormOpenedOnce' /\ OneReturnAddress'
  BY <1>1, <1>2, RowsHaveStatus DEF CheckoutInv, BeforeTheRow, FormOpenedOnce, OneReturnAddress
<1>7. QED BY <1>4, <1>5, <1>6 DEF CheckoutInv

\* The buyer finishes an open form once; a passed review is final.
LEMMA ProviderKeeps ==
  ASSUME CheckoutInv, CheckoutTypeOK', BuyerPays \/ BuyerFails \/ ReviewEnds
  PROVE  CheckoutInv'
<1>1. UNCHANGED <<op, caller, formsOpened, returnedTo, answers>>
  BY DEF BuyerPays, BuyerFails, ReviewEnds
<1>2. \/ form = "open" /\ form' \in {"paid", "failed"}
      \/ form' = form /\ form = "paid" /\ fraud # 1
  BY DEF BuyerPays, BuyerFails, ReviewEnds
<1>3. CallsHold' /\ OneOpens'
  BY <1>1, <1>2 DEF CheckoutInv, CallsHold, CallHolds, OneOpens, Opening
<1>4. BeforeTheRow' /\ FormOpenedOnce' /\ CapturedIsPaid' /\ OneReturnAddress'
  BY <1>1, <1>2
     DEF CheckoutInv, BeforeTheRow, FormOpenedOnce, CapturedIsPaid, OneReturnAddress
<1>5. QED BY <1>3, <1>4 DEF CheckoutInv

\* The other steps of a call are quiet.
LEMMA OtherStepKeeps ==
  ASSUME CheckoutInv, CheckoutTypeOK', NEW c \in Callers,
         \/ RecordForm(c) \/ AnswerInitialize(c) \/ LoadForCheck(c) \/ ReloadAndAnswer(c)
         \/ RecordCallback(c) \/ RetrieveAfterCancel(c) \/ FlagPaidAfterCancel(c)
         \/ AskProvider(c) \/ AnswerCancel(c) \/ InitializeFails(c) \/ RetrieveFails(c)
         \/ AskFails(c) \/ CallDies(c)
  PROVE  CheckoutInv'
<1> USE DEF RecordForm, AnswerInitialize, LoadForCheck, ReloadAndAnswer, RecordCallback,
       RetrieveAfterCancel, FlagPaidAfterCancel, AskProvider, AnswerCancel, InitializeFails,
       RetrieveFails, AskFails, CallDies
<1>1. op \in OpRows
  BY DEF At, Idle, CheckoutInv, CallsHold, CallHolds
<1>2. op'.status = op.status /\ op'.returnUrl = op.returnUrl
  BY <1>1 DEF OpRows
<1>3. UNCHANGED <<form, fraud, formsOpened, returnedTo>>
  OBVIOUS
<1>4. \A p \in {"initialized", "retrieve", "load", "flag", "flagging", "cancelling"} :
        Goto(c, p) => \A d \in Callers : \/ caller'[d] = caller[d]
                                         \/ caller'[d].pc = p
  BY DEF Goto, CheckoutInv, CheckoutTypeOK, CallerStates
<1>5. End(c) => \A d \in Callers : caller'[d] = caller[d] \/ caller'[d].pc = "idle"
  BY DEF End, IdleCaller, CheckoutInv, CheckoutTypeOK
<1>6. \A d \in Callers : \/ caller'[d] = caller[d]
                         \/ caller'[d].pc \notin {"opening", "opened", "bound", "save"}
  BY <1>4, <1>5
<1>7. QED BY <1>1, <1>2, <1>3, <1>6, QuietStep

\* So are the first steps of the calls that find a row.
LEMMA BeginKeeps ==
  ASSUME CheckoutInv, CheckoutTypeOK', NEW c \in Callers,
         \/ \E d \in CaptureDetails : InitializeAgain(c, d)
         \/ \E call \in {"check", "fire"} : BeginCheck(c, call)
         \/ BeginCallback(c) \/ BeginCancel(c)
  PROVE  CheckoutInv'
<1> USE DEF InitializeAgain, BeginCheck, BeginCallback, BeginCancel
<1>1. op \in OpRows
  BY DEF Known, CheckoutInv, CheckoutTypeOK, BeforeTheRow
<1>2. UNCHANGED <<op, form, fraud, formsOpened, returnedTo>>
  OBVIOUS
<1>3. \A d \in Callers : \/ caller'[d] = caller[d]
                         \/ caller'[d].pc \notin {"opening", "opened", "bound", "save"}
  <2>1. \A call \in Calls, p \in {"load", "ask", "cancelling"} :
          Begin(c, call, p) => \A d \in Callers : \/ caller'[d] = caller[d]
                                                 \/ caller'[d].pc = p
    BY DEF Begin, IdleCaller, CheckoutInv, CheckoutTypeOK
  <2>2. BeginCallback(c) => \A d \in Callers : \/ caller'[d] = caller[d]
                                               \/ caller'[d].pc = "received"
    BY DEF IdleCaller, CheckoutInv, CheckoutTypeOK
  <2>3. BeginCancel(c) =>
          \/ UNCHANGED caller
          \/ \E p \in {"ask", "cancelling"} : Begin(c, "cancel", p)
    OBVIOUS
  <2>4. QED BY <2>1, <2>2, <2>3 DEF Calls
<1>4. QED BY <1>1, <1>2, <1>3, QuietStep

LEMMA CheckoutStepInv == CheckoutInv /\ [CheckoutNext]_checkoutVars => CheckoutInv'
<1>1. ASSUME CheckoutInv, CheckoutNext PROVE CheckoutInv'
  <2>1. CheckoutTypeOK'
    BY <1>1, CheckoutTypeStep
  <2>2. ASSUME NEW c \in Callers, CallStep(c) PROVE CheckoutInv'
    BY <1>1, <2>1, <2>2, OpenFormKeeps, SendBrowserKeeps, RetrieveKeeps, SaveStatusKeeps,
       OtherStepKeeps DEF CallStep
  <2>3. QED
    BY <1>1, <2>1, <2>2, InitializeKeeps, BindReturnUrlKeeps, BeginKeeps, OtherStepKeeps,
       ProviderKeeps DEF CheckoutNext
<1>2. ASSUME CheckoutInv, UNCHANGED checkoutVars PROVE CheckoutInv'
  BY <1>2 DEF checkoutVars, CheckoutInv, CheckoutTypeOK, CallsHold, CallHolds, OneOpens,
     Opening, BeforeTheRow, FormOpenedOnce, CapturedIsPaid, OneReturnAddress
<1>3. QED BY <1>1, <1>2

LEMMA CheckoutInvHolds == CheckoutSpec => []CheckoutInv
  BY CheckoutInitInv, CheckoutStepInv, PTL DEF CheckoutSpec
-----------------------------------------------------------------------------
(* The theorems *)

\* Types of the row, the form and the calls of the checkout.
THEOREM CheckoutTypeCorrect == CheckoutSpec => []CheckoutTypeOK
<1>1. CheckoutInv => CheckoutTypeOK
  BY DEF CheckoutInv
<1>2. QED BY CheckoutInvHolds, <1>1, PTL

\* The provider opens one form for a payment, however often init is called, dies
\* or loses its answer (initialize: the reservation).
THEOREM FormOpenedOnceHolds == CheckoutSpec => []FormOpenedOnce
<1>1. CheckoutInv => FormOpenedOnce
  BY DEF CheckoutInv
<1>2. QED BY CheckoutInvHolds, <1>1, PTL

\* A captured checkout was paid at the provider and passed its review, however old
\* what the check saves is (check: the status and the update while WAITING).
THEOREM CapturedIsPaidHolds == CheckoutSpec => []CapturedIsPaid
<1>1. CheckoutInv => CapturedIsPaid
  BY DEF CheckoutInv
<1>2. QED BY CheckoutInvHolds, <1>1, PTL

\* Every launch that is accepted returns to the first address that was bound
\* (launch: the update where none is).
THEOREM OneReturnAddressHolds == CheckoutSpec => []OneReturnAddress
<1>1. CheckoutInv => OneReturnAddress
  BY DEF CheckoutInv
<1>2. QED BY CheckoutInvHolds, <1>1, PTL

\* The row and the answers of a step are those of a channel operation: no answer
\* but the status the row has, and no status but a resolution of a waiting one.
LEMMA CheckoutStepIsChannelStep ==
  ASSUME CheckoutInv, [CheckoutNext]_checkoutVars
  PROVE  [Channel!ChannelNext]_<<op.status, answers>>
<1> DEFINE Told == answers' = answers \union {op.status} /\ op'.status = op.status
           Same == answers' = answers /\ op'.status = op.status
           Step == [Channel!ChannelNext]_<<op.status, answers>>
<1>1. op \in OpRows /\ Told => Step
  BY RowsHaveStatus DEF Channel!ChannelNext, Channel!Tell
<1>2. Same => Step
  OBVIOUS
<1>3. ASSUME NEW c \in Callers, NEW d \in CaptureDetails, Initialize(c, d) PROVE Step
  <2>1. op.status = "NONE" /\ op'.status = "WAITING" /\ answers' = answers
    BY <1>3 DEF Initialize, NoOp, Reservation
  <2>2. QED BY <2>1 DEF Channel!ChannelNext, Channel!Open
<1>4. ASSUME NEW c \in Callers,
             \/ \E d \in CaptureDetails : InitializeAgain(c, d)
             \/ \E call \in {"check", "fire"} : BeginCheck(c, call)
             \/ BeginCallback(c) \/ BeginCancel(c)
      PROVE  Step
  <2>1. op \in OpRows
    BY <1>4 DEF InitializeAgain, BeginCheck, BeginCallback, BeginCancel, Known, CheckoutInv,
       CheckoutTypeOK, BeforeTheRow
  <2>2. Told \/ Same
    BY <1>4 DEF InitializeAgain, BeginCheck, BeginCallback, BeginCancel
  <2>3. QED BY <1>1, <1>2, <2>1, <2>2
<1>5. ASSUME NEW c \in Callers, NEW u \in ReturnUrls, BindReturnUrl(c, u) PROVE Step
  <2>1. op \in OpRows
    BY <1>5 DEF BindReturnUrl, Known, CheckoutInv, CheckoutTypeOK, BeforeTheRow
  <2>2. Same
    BY <1>5, <2>1 DEF BindReturnUrl, Bound, OpRows
  <2>3. QED BY <1>2, <2>2
<1>6. ASSUME NEW c \in Callers,
             \/ OpenForm(c) \/ SendBrowser(c) \/ Retrieve(c)
             \/ RecordForm(c) \/ AnswerInitialize(c) \/ LoadForCheck(c) \/ ReloadAndAnswer(c)
             \/ RecordCallback(c) \/ RetrieveAfterCancel(c) \/ FlagPaidAfterCancel(c)
             \/ AskProvider(c) \/ AnswerCancel(c) \/ InitializeFails(c) \/ RetrieveFails(c)
             \/ AskFails(c) \/ CallDies(c)
      PROVE  Step
  <2> USE DEF OpenForm, SendBrowser, Retrieve, RecordForm, AnswerInitialize, LoadForCheck,
        ReloadAndAnswer, RecordCallback, RetrieveAfterCancel, FlagPaidAfterCancel,
        AskProvider, AnswerCancel, InitializeFails, RetrieveFails, AskFails, CallDies
  <2>1. op \in OpRows
    BY <1>6 DEF At, Idle, CheckoutInv, CallsHold, CallHolds
  <2>2. op'.status = op.status
    BY <1>6, <2>1 DEF OpRows
  <2>3. answers' \in {answers, answers \union {op.status}}
    BY <1>6 DEF Answer
  <2>4. QED BY <1>1, <1>2, <2>1, <2>2, <2>3
<1>7. ASSUME NEW c \in Callers, SaveCheck(c) \/ SaveCancel(c) PROVE Step
  <2>1. op \in OpRows
    BY <1>7 DEF SaveCheck, SaveCancel, At, CheckoutInv, CallsHold, CallHolds
  <2>2. /\ answers' = answers
        /\ \/ op'.status = op.status
           \/ op.status = "WAITING" /\ op'.status \in {"COMPLETED", "FAILED"}
    BY <1>7, <2>1 DEF SaveCheck, SaveCancel, Resolved, StatusOf, OpRows
  <2>3. QED BY <2>2 DEF Channel!ChannelNext, Channel!Resolve
<1>8. BuyerPays \/ BuyerFails \/ ReviewEnds \/ UNCHANGED checkoutVars => Step
  BY DEF BuyerPays, BuyerFails, ReviewEnds, checkoutVars
<1>9. QED
  BY <1>3, <1>4, <1>5, <1>6, <1>7, <1>8 DEF CheckoutNext, CallStep

\* The checkout implements the operation the payment service counts on: it is
\* resolved once and every answer is the status of its moment.
THEOREM CheckoutIsAChannelOperation == CheckoutSpec => CheckoutImplementsChannel
<1>1. CheckoutInit => Channel!ChannelInit
  BY DEF CheckoutInit, NoOp, Channel!ChannelInit
<1>2. CheckoutInv /\ [CheckoutNext]_checkoutVars => [Channel!ChannelNext]_<<op.status, answers>>
  BY CheckoutStepIsChannelStep
<1>3. QED
  BY CheckoutInvHolds, <1>1, <1>2, PTL
     DEF CheckoutSpec, CheckoutImplementsChannel, Channel!ChannelSpec, Channel!channelVars

-----------------------------------------------------------------------------
(***************************************************************************)
(* Proof that, while no call to the provider is lost, a seller's             *)
(* sub-merchant is created once and its row says what the provider has, for  *)
(* any number of calls and any accounts.  Between the lock of the row and    *)
(* its save, the row and the provider change only by the call that holds it. *)
(***************************************************************************)

DataOf == {s.data : s \in AccountSources} \union {"NONE"}
TypesOf == MerchantTypes \union {"NONE"}
EnsurerStates ==
  [pc : {"idle", "look", "lock", "create", "update", "save"},
   payload : [type : TypesOf, of : DataOf]]

\* Calls past the lock are the one that holds it.
InsideHoldsRow ==
  /\ \A e \in Ensurers : ensurer[e].pc \in {"create", "update", "save"} => e \in lockedBy
  /\ \A e, f \in lockedBy : e = f

Saved == merchantRow.of = merchant.of /\ merchantRow.type = merchant.type

\* What the calls know of the row and the provider, while no call was lost.
ProviderInStep ==
  lostEnsures = 0 =>
    /\ creations = IF merchant.exists THEN 1 ELSE 0
    /\ \A e \in Ensurers :
         /\ ensurer[e].pc = "create" => ~merchantRow.key /\ ~merchant.exists
         /\ ensurer[e].pc = "update" =>
              /\ merchantRow.key /\ merchant.exists /\ Saved
              /\ merchantRow.type = ensurer[e].payload.type
         /\ ensurer[e].pc = "save" =>
              /\ merchant.exists
              /\ merchant.type = ensurer[e].payload.type
              /\ merchant.of = ensurer[e].payload.of
    /\ (\A e \in Ensurers : ensurer[e].pc # "save") =>
         (merchantRow.key = merchant.exists) /\ (merchantRow.key => Saved)

SubMerchantInv == SubMerchantTypeOK /\ InsideHoldsRow /\ ProviderInStep

\* The account maps to a payload of the types.
LEMMA PayloadType == \A s \in AccountSources : MapSubMerchant(s) \in [type : TypesOf, of : DataOf]
<1>1. \A s : MerchantType(s) \in MerchantTypes
  BY DEF MerchantType, MerchantTypes
<1>2. QED BY <1>1 DEF MapSubMerchant, TypesOf, DataOf

LEMMA TypesUnfolded ==
  SubMerchantTypeOK <=>
     /\ account \in AccountSources
     /\ merchantRow \in [exists : BOOLEAN, key : BOOLEAN, type : TypesOf, of : DataOf]
     /\ lockedBy \subseteq Ensurers
     /\ merchant \in [exists : BOOLEAN, type : TypesOf, of : DataOf]
     /\ ensurer \in [Ensurers -> EnsurerStates]
     /\ creations \in Nat
     /\ lostEnsures \in 0..MaxLostEnsures
  BY DEF SubMerchantTypeOK, TypesOf, DataOf, EnsurerStates

LEMMA TypesUnfoldedAfter ==
  SubMerchantTypeOK' <=>
     /\ account' \in AccountSources
     /\ merchantRow' \in [exists : BOOLEAN, key : BOOLEAN, type : TypesOf, of : DataOf]
     /\ lockedBy' \subseteq Ensurers
     /\ merchant' \in [exists : BOOLEAN, type : TypesOf, of : DataOf]
     /\ ensurer' \in [Ensurers -> EnsurerStates]
     /\ creations' \in Nat
     /\ lostEnsures' \in 0..MaxLostEnsures
  BY DEF SubMerchantTypeOK, TypesOf, DataOf, EnsurerStates

LEMMA SubMerchantInitInv == SubMerchantInit => SubMerchantInv
<1> SUFFICES ASSUME SubMerchantInit PROVE SubMerchantInv
  OBVIOUS
<1>1. NoCall \in EnsurerStates /\ NoCall.pc = "idle"
  BY DEF NoCall, NoPayload, EnsurerStates, TypesOf, DataOf
<1>2. SubMerchantTypeOK
  BY <1>1, SubMerchantAssumption, TypesUnfolded
  DEF SubMerchantInit, NoRow, NoMerchant, TypesOf, DataOf
<1>3. InsideHoldsRow /\ ProviderInStep
  BY <1>1 DEF SubMerchantInit, InsideHoldsRow, ProviderInStep, NoRow, NoMerchant, Saved
<1>4. QED BY <1>2, <1>3 DEF SubMerchantInv

\* A call that ends leaves the row to the next one.
LEMMA EndOfCall ==
  ASSUME SubMerchantInv, NEW e \in Ensurers, EndEnsure(e)
  PROVE  /\ ensurer' \in [Ensurers -> EnsurerStates] /\ lockedBy' \subseteq Ensurers
         /\ InsideHoldsRow'
         /\ \A f \in Ensurers : ensurer'[f] = IF f = e THEN NoCall ELSE ensurer[f]
         /\ NoCall.pc = "idle"
<1>1. NoCall \in EnsurerStates /\ NoCall.pc = "idle"
  BY DEF NoCall, NoPayload, EnsurerStates, TypesOf, DataOf
<1>2. \A f \in Ensurers : ensurer'[f] = IF f = e THEN NoCall ELSE ensurer[f]
  BY TypesUnfolded DEF EndEnsure, SubMerchantInv
<1>3. ensurer' \in [Ensurers -> EnsurerStates] /\ lockedBy' \subseteq Ensurers
  BY <1>1, TypesUnfolded DEF EndEnsure, SubMerchantInv
<1>4. InsideHoldsRow'
  BY <1>1, <1>2 DEF SubMerchantInv, InsideHoldsRow, EndEnsure
<1>5. QED BY <1>1, <1>2, <1>3, <1>4

\* A call that goes on changes nothing but where it is.
LEMMA CallGoesOn ==
  ASSUME SubMerchantInv, NEW e \in Ensurers,
         NEW p \in {"look", "lock", "create", "update", "save"}, EnsurerGoes(e, p)
  PROVE  /\ ensurer' \in [Ensurers -> EnsurerStates]
         /\ \A f \in Ensurers :
              /\ ensurer'[f].pc = IF f = e THEN p ELSE ensurer[f].pc
              /\ ensurer'[f].payload = ensurer[f].payload
<1>1. \A f \in Ensurers : ensurer[f] \in EnsurerStates
  BY TypesUnfolded DEF SubMerchantInv
<1>2. ensurer' = [ensurer EXCEPT ![e].pc = p] /\ ensurer \in [Ensurers -> EnsurerStates]
  BY TypesUnfolded DEF EnsurerGoes, SubMerchantInv
<1>3. QED BY <1>1, <1>2 DEF EnsurerStates

LEMMA SubMerchantStepInv ==
  SubMerchantInv /\ [SubMerchantNext]_subMerchantVars => SubMerchantInv'
<1> SUFFICES ASSUME SubMerchantInv, [SubMerchantNext]_subMerchantVars
             PROVE  SubMerchantInv'
  OBVIOUS
<1>0. /\ SubMerchantTypeOK /\ InsideHoldsRow /\ ProviderInStep
      /\ \A f \in Ensurers : ensurer[f] \in EnsurerStates
  BY TypesUnfolded DEF SubMerchantInv
<1>1. CASE EditAccount
  BY <1>0, <1>1, TypesUnfolded, TypesUnfoldedAfter
  DEF EditAccount, SubMerchantInv, InsideHoldsRow, ProviderInStep, Saved
<1>2. ASSUME NEW e \in Ensurers, ReadSource(e) PROVE SubMerchantInv'
  <2>1. [pc |-> "look", payload |-> MapSubMerchant(account)] \in EnsurerStates
    BY <1>0, PayloadType, TypesUnfolded DEF EnsurerStates
  <2>2. \A f \in Ensurers : ensurer'[f] = IF f = e
            THEN [pc |-> "look", payload |-> MapSubMerchant(account)] ELSE ensurer[f]
    BY <1>0, <1>2, TypesUnfolded DEF ReadSource
  <2>3. SubMerchantTypeOK'
    BY <1>0, <1>2, <2>1, TypesUnfolded, TypesUnfoldedAfter DEF ReadSource
  <2>4. ensurer[e].pc = "idle"
    BY <1>2 DEF ReadSource, EnsurerAt
  <2>5. InsideHoldsRow' /\ ProviderInStep'
    BY <1>0, <1>2, <2>2, <2>4 DEF ReadSource, InsideHoldsRow, ProviderInStep, Saved
  <2>6. QED BY <2>3, <2>5 DEF SubMerchantInv
<1>3. ASSUME NEW e \in Ensurers, LookAtRow(e) PROVE SubMerchantInv'
  <2>1. ensurer[e].pc = "look"
    BY <1>3 DEF LookAtRow, EnsurerAt
  <2>2. CASE UpToDate(ensurer[e].payload)
    <3>1. EndEnsure(e)
          /\ UNCHANGED <<account, merchantRow, merchant, creations, lostEnsures>>
      BY <1>3, <2>2 DEF LookAtRow
    <3>2. SubMerchantTypeOK'
      BY <1>0, <3>1, EndOfCall, TypesUnfolded, TypesUnfoldedAfter
    <3>3. ProviderInStep'
      BY <1>0, <2>1, <3>1, EndOfCall DEF ProviderInStep, Saved
    <3>4. QED BY <3>1, <3>2, <3>3, EndOfCall DEF SubMerchantInv
  <2>3. CASE ~UpToDate(ensurer[e].payload)
    <3>1. /\ merchantRow' = [merchantRow EXCEPT !.exists = TRUE]
          /\ EnsurerGoes(e, "lock")
          /\ UNCHANGED <<account, lockedBy, merchant, creations, lostEnsures>>
      BY <1>3, <2>3 DEF LookAtRow
    <3>2. /\ merchantRow'.key = merchantRow.key /\ merchantRow'.type = merchantRow.type
          /\ merchantRow'.of = merchantRow.of
          /\ merchantRow' \in [exists : BOOLEAN, key : BOOLEAN, type : TypesOf, of : DataOf]
      BY <1>0, <3>1, TypesUnfolded
    <3>3. SubMerchantTypeOK'
      BY <1>0, <3>1, <3>2, CallGoesOn, TypesUnfolded, TypesUnfoldedAfter
    <3>4. InsideHoldsRow' /\ ProviderInStep'
      BY <1>0, <2>1, <3>1, <3>2, CallGoesOn DEF InsideHoldsRow, ProviderInStep, Saved
    <3>5. QED BY <3>3, <3>4 DEF SubMerchantInv
  <2>4. QED BY <2>2, <2>3
<1>4. ASSUME NEW e \in Ensurers, LockRow(e) PROVE SubMerchantInv'
  <2> DEFINE p == ensurer[e].payload
  <2>1. ensurer[e].pc = "lock" /\ lockedBy = {}
        /\ UNCHANGED <<account, merchantRow, merchant, creations, lostEnsures>>
    BY <1>4 DEF LockRow, EnsurerAt, Lockable
  <2>2. \A f \in Ensurers : ensurer[f].pc \notin {"create", "update", "save"}
    BY <1>0, <2>1 DEF InsideHoldsRow
  <2>3. CASE EndEnsure(e)
    <3>1. SubMerchantTypeOK'
      BY <1>0, <2>1, <2>3, EndOfCall, TypesUnfolded, TypesUnfoldedAfter
    <3>2. ProviderInStep'
      BY <1>0, <2>1, <2>2, <2>3, EndOfCall DEF ProviderInStep, Saved
    <3>3. QED BY <2>3, <3>1, <3>2, EndOfCall DEF SubMerchantInv
  <2>4. CASE /\ Decided(p) \notin {"answer", "conflict"}
             /\ lockedBy' = lockedBy \union {e} /\ EnsurerGoes(e, Decided(p))
    <3>1. \/ Decided(p) = "create" /\ ~merchantRow.key
          \/ Decided(p) = "update" /\ merchantRow.key /\ merchantRow.type = p.type
      <4>1. merchantRow.key \in BOOLEAN
        BY <1>0, TypesUnfolded
      <4>2. QED BY <2>4, <4>1 DEF Decided, UpToDate
    <3>2. SubMerchantTypeOK'
      BY <1>0, <2>1, <2>4, <3>1, CallGoesOn, TypesUnfolded, TypesUnfoldedAfter
    <3>3. InsideHoldsRow'
      BY <2>1, <2>2, <2>4, <3>1, CallGoesOn DEF InsideHoldsRow
    <3>4. ProviderInStep'
      BY <1>0, <2>1, <2>2, <2>4, <3>1, CallGoesOn DEF ProviderInStep, Saved
    <3>5. QED BY <3>2, <3>3, <3>4 DEF SubMerchantInv
  <2>5. QED
    BY <1>4, <2>3, <2>4 DEF LockRow
<1>5. ASSUME NEW e \in Ensurers, CreateMerchant(e) PROVE SubMerchantInv'
  <2>1. /\ ensurer[e].pc = "create" /\ e \in lockedBy
        /\ UNCHANGED <<account, merchantRow, lockedBy>>
        /\ creations' = creations + 1
        /\ merchant' = IF merchant.exists THEN merchant
                       ELSE [exists |-> TRUE, type |-> ensurer[e].payload.type,
                             of |-> ensurer[e].payload.of]
    BY <1>0, <1>5 DEF CreateMerchant, EnsurerAt, InsideHoldsRow
  <2>2. PICK p \in {"save", "update"} :
          /\ EnsurerGoes(e, p)
          /\ \/ p = "save" /\ ~merchant.exists /\ lostEnsures' = lostEnsures
             \/ p = "update" /\ merchant.exists /\ lostEnsures' = lostEnsures
             \/ p = "update" /\ lostEnsures < MaxLostEnsures /\ lostEnsures' = lostEnsures + 1
    BY <1>5 DEF CreateMerchant
  <2>3. \A f \in Ensurers : f # e => ensurer[f].pc \notin {"create", "update", "save"}
    BY <1>0, <2>1 DEF InsideHoldsRow
  <2>4. SubMerchantTypeOK'
    <3>1. merchant' \in [exists : BOOLEAN, type : TypesOf, of : DataOf]
      BY <1>0, <2>1, TypesUnfolded DEF EnsurerStates
    <3>2. lostEnsures' \in 0..MaxLostEnsures /\ creations' \in Nat
      BY <1>0, <2>1, <2>2, TypesUnfolded, SubMerchantAssumption
    <3>3. QED BY <1>0, <2>1, <2>2, <3>1, <3>2, CallGoesOn, TypesUnfolded, TypesUnfoldedAfter
  <2>5. InsideHoldsRow'
    BY <1>0, <2>1, <2>2, CallGoesOn DEF InsideHoldsRow
  <2>6. ASSUME lostEnsures' = 0 PROVE ProviderInStep'
    <3>1. lostEnsures = 0 /\ ~merchant.exists /\ p = "save" /\ creations = 0
      <4>1. lostEnsures \in Nat
        BY <1>0, TypesUnfolded, SubMerchantAssumption
      <4>2. QED BY <1>0, <2>1, <2>2, <2>6, <4>1 DEF ProviderInStep
    <3>2. merchant' = [exists |-> TRUE, type |-> ensurer[e].payload.type,
                       of |-> ensurer[e].payload.of]
      BY <2>1, <3>1
    <3>3. \A f \in Ensurers :
             /\ ensurer'[f].pc = IF f = e THEN "save" ELSE ensurer[f].pc
             /\ ensurer'[f].payload = ensurer[f].payload
      BY <2>2, <3>1, CallGoesOn
    <3>4. /\ merchant'.exists /\ merchant'.type = ensurer[e].payload.type
          /\ merchant'.of = ensurer[e].payload.of
      BY <3>2
    <3>5. creations' = 1
      BY <2>1, <3>1
    <3>6. ensurer'[e].pc = "save"
      BY <3>3
    <3>7. \A f \in Ensurers : f # e => ensurer'[f].pc \notin {"create", "update", "save"}
      BY <2>3, <3>3
    <3>8. ensurer'[e].payload = ensurer[e].payload
      BY <3>3
    <3>9. QED BY <3>4, <3>5, <3>6, <3>7, <3>8 DEF ProviderInStep
  <2>7. QED BY <2>4, <2>5, <2>6 DEF SubMerchantInv, ProviderInStep
<1>6. ASSUME NEW e \in Ensurers, UpdateMerchant(e) PROVE SubMerchantInv'
  <2>1. /\ ensurer[e].pc = "update" /\ e \in lockedBy /\ EnsurerGoes(e, "save")
        /\ UNCHANGED <<account, merchantRow, lockedBy, creations, lostEnsures>>
        /\ merchant' = [merchant EXCEPT !.of = ensurer[e].payload.of]
    BY <1>0, <1>6 DEF UpdateMerchant, EnsurerAt, InsideHoldsRow
  <2>2. /\ merchant'.exists = merchant.exists /\ merchant'.type = merchant.type
        /\ merchant'.of = ensurer[e].payload.of
        /\ merchant' \in [exists : BOOLEAN, type : TypesOf, of : DataOf]
    BY <1>0, <2>1, TypesUnfolded DEF EnsurerStates
  <2>3. \A f \in Ensurers : f # e => ensurer[f].pc \notin {"create", "update", "save"}
    BY <1>0, <2>1 DEF InsideHoldsRow
  <2>4. SubMerchantTypeOK'
    BY <1>0, <2>1, <2>2, CallGoesOn, TypesUnfolded, TypesUnfoldedAfter
  <2>5. InsideHoldsRow'
    BY <1>0, <2>1, CallGoesOn DEF InsideHoldsRow
  <2>6. \A f \in Ensurers :
           /\ ensurer'[f].pc = IF f = e THEN "save" ELSE ensurer[f].pc
           /\ ensurer'[f].payload = ensurer[f].payload
    BY <2>1, CallGoesOn
  <2>7. ProviderInStep'
    BY <1>0, <2>1, <2>2, <2>3, <2>6 DEF ProviderInStep, Saved
  <2>8. QED BY <2>4, <2>5, <2>7 DEF SubMerchantInv
<1>7. ASSUME NEW e \in Ensurers, SaveMerchant(e) PROVE SubMerchantInv'
  <2>1. /\ ensurer[e].pc = "save" /\ e \in lockedBy /\ EndEnsure(e)
        /\ UNCHANGED <<account, merchant, creations, lostEnsures>>
        /\ merchantRow' = [exists |-> TRUE, key |-> TRUE, type |-> ensurer[e].payload.type,
                           of |-> ensurer[e].payload.of]
    BY <1>0, <1>7 DEF SaveMerchant, EnsurerAt, InsideHoldsRow
  <2>2. \A f \in Ensurers : f # e => ensurer[f].pc \notin {"create", "update", "save"}
    BY <1>0, <2>1 DEF InsideHoldsRow
  <2>3. merchantRow' \in [exists : BOOLEAN, key : BOOLEAN, type : TypesOf, of : DataOf]
    BY <1>0, <2>1 DEF EnsurerStates
  <2>4. SubMerchantTypeOK'
    BY <1>0, <2>1, <2>3, EndOfCall, TypesUnfolded, TypesUnfoldedAfter
  <2>5. InsideHoldsRow'
    BY <2>1, EndOfCall
  <2>6. \A f \in Ensurers : ensurer'[f].pc \notin {"create", "update", "save"}
    BY <2>1, <2>2, EndOfCall
  <2>7. ProviderInStep'
    BY <1>0, <2>1, <2>6 DEF ProviderInStep, Saved
  <2>8. QED BY <2>4, <2>5, <2>7 DEF SubMerchantInv
<1>8. ASSUME NEW e \in Ensurers, EnsureFails(e) PROVE SubMerchantInv'
  <2>1. /\ EndEnsure(e) /\ lostEnsures < MaxLostEnsures /\ lostEnsures' = lostEnsures + 1
        /\ UNCHANGED <<account, merchantRow, merchant, creations>>
    BY <1>8 DEF EnsureFails
  <2>2. lostEnsures' \in 0..MaxLostEnsures /\ lostEnsures' # 0
    BY <1>0, <2>1, TypesUnfolded, SubMerchantAssumption
  <2>3. SubMerchantTypeOK'
    BY <1>0, <2>1, <2>2, EndOfCall, TypesUnfolded, TypesUnfoldedAfter
  <2>4. QED BY <2>1, <2>2, <2>3, EndOfCall DEF SubMerchantInv, ProviderInStep
<1>9. CASE UNCHANGED subMerchantVars
  BY <1>0, <1>9, TypesUnfolded, TypesUnfoldedAfter
  DEF subMerchantVars, SubMerchantInv, InsideHoldsRow, ProviderInStep, Saved
<1>10. QED
  BY <1>1, <1>2, <1>3, <1>4, <1>5, <1>6, <1>7, <1>8, <1>9 DEF SubMerchantNext, EnsureStep

\* The row, the provider's sub-merchant and every call keep values of their kind.
THEOREM SubMerchantTypeCorrect == SubMerchantSpec => []SubMerchantTypeOK
<1>1. SubMerchantInv => SubMerchantTypeOK
  BY DEF SubMerchantInv
<1>2. QED
  BY SubMerchantInitInv, SubMerchantStepInv, <1>1, PTL DEF SubMerchantSpec

\* While no provider call is lost, any number of simultaneous inits of a seller
\* ask the provider once to create its sub-merchant (ensure).
THEOREM MerchantCreatedOnceHolds == SubMerchantSpec => []MerchantCreatedOnce
<1>1. SubMerchantInv => MerchantCreatedOnce
  BY DEF SubMerchantInv, ProviderInStep, MerchantCreatedOnce
<1>2. QED
  BY SubMerchantInitInv, SubMerchantStepInv, <1>1, PTL DEF SubMerchantSpec

\* While no provider call is lost and no call holds the row, the row says what
\* the provider has (ensure, pessimistic_write).
THEOREM RowMatchesProviderHolds == SubMerchantSpec => []RowMatchesProvider
<1>1. SubMerchantInv => RowMatchesProvider
  BY DEF SubMerchantInv, InsideHoldsRow, ProviderInStep, RowMatchesProvider, Saved
<1>2. QED
  BY SubMerchantInitInv, SubMerchantStepInv, <1>1, PTL DEF SubMerchantSpec
=============================================================================
