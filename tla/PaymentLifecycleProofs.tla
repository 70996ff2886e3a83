----------------------- MODULE PaymentLifecycleProofs -----------------------
(***************************************************************************)
(* Whatever handlers overlap, overwrite each other or work on old answers,   *)
(* and wherever they die, a purchase is delivered, and an authorisation      *)
(* captured, only when channels covered its price.                           *)
(*                                                                           *)
(* CoverInv carries that from step to step.  What counts as paid was         *)
(* authorised or captured by a channel at some time (PaidIsReal), the        *)
(* amounts of such operations never shrink, because the record of an         *)
(* operation is written once (OpeningHolds), and a handler that completes    *)
(* the purchase found it covered (CompletingHolds).                          *)
(*                                                                           *)
(* Handlers that overlap do break two other promises.  With one handler at a *)
(* time they hold: SerialInv says what a handler still knows of the rows it  *)
(* loaded.                                                                   *)
(***************************************************************************)
EXTENDS PaymentLifecycle, SumTheorems

OpStates == {"NONE", "WAITING", "READY", "COMPLETED", "FAILED"}
PaidStates == {"READY", "COMPLETED"}
PaymentRows == [status : {"INITIATED", "WAITING", "COMPLETED", "FAILED"},
                error : {"NONE", "FAILED", "CANCELLED", "EXPIRED"}]
Steps == {"idle", "load", "list", "check", "recordCheck", "sum", "failed", "ongoing",
          "save", "complete", "listReady", "fire", "recordFire", "findOrders",
          "saveOrders", "findOld", "removeOld", "saveEntries", "listWaiting", "cancel",
          "recordCancel", "startLoad", "startInit", "startRecord", "fail"}
Handlers == [pc : Steps, row : PaymentRows, todo : SUBSET Ops, op : Ops \cup {NoOp},
             answer : OpStates, amount : Nat, poll : BOOLEAN,
             found : SUBSET (Workers \cup {"order"})]

\* Every row, every operation and every handler has a value the code can hold.
LifecycleTypes ==
    /\ payment \in PaymentRows
    /\ expired \in BOOLEAN
    /\ opStatus \in [Ops -> OpStates]
    /\ opAmount \in [Ops -> Nat]
    /\ channel \in [Ops -> OpStates]
    /\ orders \in {0, 1}
    /\ entries \subseteq Workers
    /\ handler \in [Workers -> Handlers]
    /\ faults \in 0..MaxFaults
    /\ covered \subseteq Ops

\* An operation that counts as paid, at the channel or in its record, was covered.
PaidIsReal ==
    \A o \in Ops : channel[o] \in PaidStates \/ opStatus[o] \in PaidStates => o \in covered

\* So was one a handler will record as paid, or fires.
AnswersHold(w) ==
    /\ handler[w].pc \in {"recordCheck", "recordFire"} /\ handler[w].answer \in PaidStates
         => handler[w].op \in covered
    /\ handler[w].pc \in {"fire", "recordFire"} => handler[w].todo \subseteq covered

\* An operation nobody opened, or whose record is about to be written, has no
\* amount, and one handler writes it.
OpeningHolds ==
    /\ \A o \in Ops : channel[o] = "NONE" => opAmount[o] = 0
    /\ \A w \in Workers : At(w, "startRecord") =>
          handler[w].op \in Ops /\ opAmount[handler[w].op] = 0 /\ channel[handler[w].op] # "NONE"
    /\ \A v, w \in Workers :
          At(v, "startRecord") /\ At(w, "startRecord") /\ handler[v].op = handler[w].op => v = w

Completing(w) ==
    \/ handler[w].row.status = "COMPLETED"
    \/ handler[w].pc \in {"complete", "listReady", "fire", "recordFire", "findOrders",
                          "saveOrders", "findOld", "removeOld", "saveEntries"}

CompletingHolds == (\E w \in Workers : Completing(w)) => Covered

CoverInv ==
    /\ LifecycleTypes
    /\ PaidIsReal
    /\ \A w \in Workers : AnswersHold(w)
    /\ OpeningHolds
    /\ CompletingHolds
    /\ NothingDeliveredUnpaid

\* One handler at a time: what it does between its load and its save is based on
\* a payment that is not resolved ...
Loaded == {"list", "sum", "failed", "ongoing", "save", "complete", "listWaiting",
           "cancel", "recordCancel", "startInit", "startRecord"}
LoadHolds(w) ==
    /\ handler[w].pc \in Loaded => ~Resolved(payment)
    /\ handler[w].pc \in {"check", "recordCheck"} /\ handler[w].poll => ~Resolved(payment)

\* ... and on a list of operations that are still what they were.
ListHolds(w) ==
    /\ handler[w].pc \in {"check", "recordCheck"} => handler[w].todo \subseteq OpsIn({"WAITING"})
    /\ handler[w].pc = "recordCheck" => handler[w].op \in handler[w].todo
    /\ handler[w].pc \in {"cancel", "recordCancel"} => OpsIn({"WAITING"}) \subseteq handler[w].todo
    /\ handler[w].pc = "recordFire" => handler[w].answer = "COMPLETED"

\* Only a handler that closes the payment has the row of a closed one.
Closed(row) == row.error \in {"CANCELLED", "EXPIRED"}
RowHolds(w) ==
    /\ Closed(handler[w].row) =>
          /\ handler[w].row.status = "FAILED"
          /\ handler[w].pc \in {"listWaiting", "cancel", "recordCancel", "save"}
    /\ handler[w].pc = "save" /\ Closed(handler[w].row) => OpsIn({"WAITING"}) = {}
    /\ handler[w].pc \in {"listWaiting", "cancel", "recordCancel"} => Closed(handler[w].row)

SerialInv ==
    /\ LifecycleTypes
    /\ Closed(payment) => payment.status = "FAILED"
    /\ \A w \in Workers : LoadHolds(w) /\ ListHolds(w) /\ RowHolds(w)
    /\ ClosedLeavesNothingWaiting

\* The assumption of the claims about handlers that do not overlap.
OneHandler == \A v, w \in Workers : v = w
-----------------------------------------------------------------------------
(* Types *)

LEMMA InitTypes == Init => LifecycleTypes
<1> SUFFICES ASSUME Init PROVE LifecycleTypes
    OBVIOUS
<1>1. payment \in PaymentRows /\ Idle \in Handlers
    BY DEF Init, PaymentRows, Handlers, Steps, OpStates, Idle, Row
<1>2. handler \in [Workers -> Handlers]
    BY <1>1 DEF Init
<1>3. /\ opStatus \in [Ops -> OpStates] /\ channel \in [Ops -> OpStates]
      /\ opAmount \in [Ops -> Nat]
    BY DEF Init, OpStates
<1>4. faults \in 0..MaxFaults /\ orders \in {0, 1}
    BY PaymentAssumption DEF Init
<1>5. expired \in BOOLEAN
    BY DEF Init
<1>6. entries \subseteq Workers /\ covered \subseteq Ops
    BY DEF Init
<1>7. QED BY <1>1, <1>2, <1>3, <1>4, <1>5, <1>6 DEF LifecycleTypes

\* A handler goes on somewhere, or ends.
LEMMA HandlerTypes ==
    ASSUME LifecycleTypes, NEW w \in Workers
    PROVE  /\ Idle \in Handlers
           /\ \A p \in Steps : GoTo(w, p) => handler' \in [Workers -> Handlers]
           /\ Return(w) => handler' \in [Workers -> Handlers]
           /\ \A h \in Handlers :
                 handler' = [handler EXCEPT ![w] = h] => handler' \in [Workers -> Handlers]
<1>1. Idle \in Handlers
    BY DEF Idle, Handlers, Steps, PaymentRows, OpStates, Row
<1>2. \A h \in Handlers :
        handler' = [handler EXCEPT ![w] = h] => handler' \in [Workers -> Handlers]
    BY DEF LifecycleTypes
<1>3. \A p \in Steps : GoTo(w, p) => handler' \in [Workers -> Handlers]
    BY DEF GoTo, LifecycleTypes, Handlers
<1>4. QED BY <1>1, <1>2, <1>3 DEF Return

\* The lists, rows and answers a handler takes along.
LEMMA FieldTypes ==
    ASSUME LifecycleTypes, NEW w \in Workers, NEW p \in Steps
    PROVE  /\ \A t \in SUBSET Ops :
                 handler' = [handler EXCEPT ![w].todo = t, ![w].pc = p]
                   => handler' \in [Workers -> Handlers]
           /\ \A s \in {"INITIATED", "WAITING", "COMPLETED", "FAILED"} :
                 handler' = [handler EXCEPT ![w].row.status = s, ![w].pc = p]
                   => handler' \in [Workers -> Handlers]
           /\ \A r \in PaymentRows :
                 handler' = [handler EXCEPT ![w].row = r, ![w].pc = p]
                   => handler' \in [Workers -> Handlers]
           /\ \A r \in PaymentRows, a \in Nat :
                 handler' = [handler EXCEPT ![w].row = r, ![w].amount = a, ![w].pc = p]
                   => handler' \in [Workers -> Handlers]
           /\ \A o \in Ops, a \in OpStates :
                 handler' = [handler EXCEPT ![w].op = o, ![w].answer = a, ![w].pc = p]
                   => handler' \in [Workers -> Handlers]
<1> DEFINE h == handler[w]
<1>1. handler \in [Workers -> Handlers] /\ h \in Handlers
    BY DEF LifecycleTypes
<1>2. ASSUME NEW t \in SUBSET Ops PROVE [h EXCEPT !.todo = t, !.pc = p] \in Handlers
    BY <1>1 DEF Handlers
<1>3. ASSUME NEW s \in {"INITIATED", "WAITING", "COMPLETED", "FAILED"}
      PROVE  [h EXCEPT !.row.status = s, !.pc = p] \in Handlers
    <2>1. h.row \in PaymentRows
        BY <1>1 DEF Handlers
    <2>2. [h.row EXCEPT !.status = s] \in PaymentRows
        BY <2>1 DEF PaymentRows
    <2>3. [h EXCEPT !.row = [h.row EXCEPT !.status = s], !.pc = p] \in Handlers
        BY <1>1, <2>2 DEF Handlers
    <2>4. QED BY <1>1, <2>3 DEF Handlers
<1>4. ASSUME NEW r \in PaymentRows PROVE [h EXCEPT !.row = r, !.pc = p] \in Handlers
    BY <1>1 DEF Handlers
<1>5. ASSUME NEW r \in PaymentRows, NEW a \in Nat
      PROVE  [h EXCEPT !.row = r, !.amount = a, !.pc = p] \in Handlers
    BY <1>1 DEF Handlers
<1>6. ASSUME NEW o \in Ops, NEW a \in OpStates
      PROVE  [h EXCEPT !.op = o, !.answer = a, !.pc = p] \in Handlers
    BY <1>1 DEF Handlers
<1>7. \A t \in SUBSET Ops : handler' = [handler EXCEPT ![w].todo = t, ![w].pc = p]
        => handler' \in [Workers -> Handlers]
    BY <1>1, <1>2
<1>8. \A s \in {"INITIATED", "WAITING", "COMPLETED", "FAILED"} :
        handler' = [handler EXCEPT ![w].row.status = s, ![w].pc = p]
          => handler' \in [Workers -> Handlers]
    BY <1>1, <1>3
<1>9. \A r \in PaymentRows : handler' = [handler EXCEPT ![w].row = r, ![w].pc = p]
        => handler' \in [Workers -> Handlers]
    BY <1>1, <1>4
<1>10. \A r \in PaymentRows, a \in Nat :
        handler' = [handler EXCEPT ![w].row = r, ![w].amount = a, ![w].pc = p]
          => handler' \in [Workers -> Handlers]
    <2> SUFFICES ASSUME NEW r \in PaymentRows, NEW a \in Nat,
                        handler' = [handler EXCEPT ![w].row = r, ![w].amount = a, ![w].pc = p]
                 PROVE  handler' \in [Workers -> Handlers]
        OBVIOUS
    <2>1. handler' = [handler EXCEPT ![w] = [h EXCEPT !.row = r, !.amount = a, !.pc = p]]
        BY <1>1
    <2>2. QED BY <1>5, <2>1, HandlerTypes
<1>11. \A o \in Ops, a \in OpStates :
        handler' = [handler EXCEPT ![w].op = o, ![w].answer = a, ![w].pc = p]
          => handler' \in [Workers -> Handlers]
    <2> SUFFICES ASSUME NEW o \in Ops, NEW a \in OpStates,
                        handler' = [handler EXCEPT ![w].op = o, ![w].answer = a, ![w].pc = p]
                 PROVE  handler' \in [Workers -> Handlers]
        OBVIOUS
    <2>1. handler' = [handler EXCEPT ![w] = [h EXCEPT !.op = o, !.answer = a, !.pc = p]]
        BY <1>1
    <2>2. QED BY <1>6, <2>1, HandlerTypes
<1>12. QED BY <1>7, <1>8, <1>9, <1>10, <1>11

\* The amounts that were paid add up to an amount.
LEMMA PaidType ==
    ASSUME LifecycleTypes
    PROVE  Paid \in Nat /\ \A a \in Requested : CaptureAmount(a) \in Nat
<1>1. OpsIn(PaidStates) \subseteq Ops /\ IsFiniteSet(Ops)
    BY PaymentAssumption DEF OpsIn
<1>2. IsFiniteSet(OpsIn(PaidStates)) /\ \A o \in OpsIn(PaidStates) : opAmount[o] \in Nat
    BY <1>1, FS_Subset DEF LifecycleTypes
<1>3. SumFunctionOnSet(opAmount, OpsIn(PaidStates)) \in Nat
    BY <1>2, SumNat
<1>4. Paid \in Nat
    BY <1>3 DEF Paid, PaidStates
<1>5. ASSUME NEW a \in Requested PROVE CaptureAmount(a) \in Nat
    BY <1>4, PaymentAssumption DEF CaptureAmount
<1>6. QED BY <1>4, <1>5

\* Beginning a handler.
LEMMA BeginTypes ==
    ASSUME LifecycleTypes, NEW w \in Workers, BeginHandler(w)
    PROVE  LifecycleTypes'
<1> USE DEF Idle, Row, Handlers, Steps, PaymentRows, OpStates
<1>1. handler' \in [Workers -> Handlers]
    <2>1. CASE BeginPoll(w) \/ BeginCheck(w) \/ BeginCancel(w)
        <3>1. /\ [Idle EXCEPT !.pc = "load", !.poll = TRUE] \in Handlers
              /\ [Idle EXCEPT !.pc = "load"] \in Handlers
              /\ [Idle EXCEPT !.pc = "listWaiting", !.row = Row("FAILED", "CANCELLED")] \in Handlers
            OBVIOUS
        <3> HIDE DEF Idle, Row, Handlers
        <3>2. QED BY <2>1, <3>1, HandlerTypes DEF BeginPoll, BeginCheck, BeginCancel
    <2>2. CASE BeginStart(w)
        BY <2>2, HandlerTypes DEF BeginStart
    <2>3. ASSUME NEW o \in Ops, BeginStatusEvent(w, o) PROVE handler' \in [Workers -> Handlers]
        <3>1. \A t \in SUBSET Ops : [Idle EXCEPT !.pc = "check", !.todo = t] \in Handlers
            OBVIOUS
        <3>2. {o} \cap OpsIn({"WAITING"}) \in SUBSET Ops
            OBVIOUS
        <3> HIDE DEF Idle, Row, Handlers, Steps, PaymentRows, OpStates
        <3>3. QED BY <2>3, <3>1, <3>2, HandlerTypes DEF BeginStatusEvent
    <2>4. QED BY <2>1, <2>2, <2>3 DEF BeginHandler
<1>2. UNCHANGED <<rowVars, expired, channel, postVars, faults, covered>>
    BY DEF BeginHandler, BeginPoll, BeginCheck, BeginCancel, BeginStart, BeginStatusEvent
<1>3. QED BY <1>1, <1>2 DEF rowVars, postVars, LifecycleTypes

\* Steps that only read.
Reading(w) ==
    \/ Load(w) \/ ListWaiting(w) \/ ChecksDone(w) \/ Sum(w) \/ LookForFailures(w)
    \/ LookForOngoing(w) \/ ListReady(w) \/ FiringDone(w) \/ FindOrders(w)
    \/ FindOldEntries(w) \/ CancelsDone(w) \/ StartLoad(w)
    \/ \E o \in Ops : AskChannel(w, o)

LEMMA ReadingTypes ==
    ASSUME LifecycleTypes, NEW w \in Workers, Reading(w)
    PROVE  LifecycleTypes' /\ UNCHANGED <<rowVars, expired, channel, postVars, faults, covered>>
<1>1. UNCHANGED <<rowVars, expired, channel, postVars, faults, covered>>
    BY DEF Reading, Load, ListWaiting, ChecksDone, Sum, LookForFailures, LookForOngoing,
           ListReady, FiringDone, FindOrders, FindOldEntries, CancelsDone, StartLoad, AskChannel
<1>2. handler' \in [Workers -> Handlers]
    <2>1. CASE Load(w)
        BY <2>1, HandlerTypes DEF Load, LifecycleTypes, Handlers, Steps
    <2>2. CASE ListWaiting(w)
        <3>1. OpsIn({"WAITING"}) \in SUBSET Ops
            BY DEF OpsIn
        <3>2. PICK p \in {"check", "cancel"} :
                handler' = [handler EXCEPT ![w].todo = OpsIn({"WAITING"}), ![w].pc = p]
            BY <2>2 DEF ListWaiting
        <3>3. QED BY <3>1, <3>2, FieldTypes DEF Steps
    <2>3. CASE ChecksDone(w) \/ FiringDone(w) \/ CancelsDone(w)
        BY <2>3, HandlerTypes DEF ChecksDone, FiringDone, CancelsDone, Steps
    <2>4. CASE Sum(w)
        <3>1. \/ handler' = [handler EXCEPT ![w].row.status = "COMPLETED", ![w].pc = "complete"]
              \/ GoTo(w, "failed")
            BY <2>4 DEF Sum
        <3>2. QED BY <3>1, FieldTypes, HandlerTypes DEF Steps
    <2>5. CASE LookForFailures(w)
        <3>1. \/ handler' = [handler EXCEPT ![w].row.status = "FAILED", ![w].pc = "save"]
              \/ handler' = [handler EXCEPT ![w].row = Row("FAILED", "EXPIRED"), ![w].pc = "listWaiting"]
              \/ GoTo(w, "ongoing") \/ GoTo(w, "save")
            BY <2>5 DEF LookForFailures
        <3>2. Row("FAILED", "EXPIRED") \in PaymentRows
            BY DEF Row, PaymentRows
        <3>3. {"save", "listWaiting", "ongoing"} \subseteq Steps
            BY DEF Steps
        <3>4. GoTo(w, "ongoing") \/ GoTo(w, "save") => handler' \in [Workers -> Handlers]
            BY <3>3, HandlerTypes
        <3>5. QED BY <3>1, <3>2, <3>3, <3>4, FieldTypes
    <2>6. CASE LookForOngoing(w)
        <3>1. PICK s \in {"INITIATED", "WAITING", "COMPLETED", "FAILED"} :
                handler' = [handler EXCEPT ![w].row.status = s, ![w].pc = "save"]
            BY <2>6 DEF LookForOngoing, LifecycleTypes, Handlers, PaymentRows
        <3>2. QED BY <3>1, FieldTypes DEF Steps
    <2>7. CASE ListReady(w)
        <3>1. OpsIn({"READY"}) \in SUBSET Ops
            BY DEF OpsIn
        <3>2. QED BY <2>7, <3>1, FieldTypes DEF ListReady, Steps
    <2>8. CASE FindOrders(w) \/ FindOldEntries(w)
        BY <2>8 DEF FindOrders, FindOldEntries, LifecycleTypes, Handlers, Steps
    <2>9. CASE StartLoad(w)
        <3>1. CASE GoTo(w, "fail")
            BY <3>1, HandlerTypes DEF Steps
        <3>2. ASSUME NEW a \in Requested,
                     handler' = [handler EXCEPT ![w].row = payment,
                                   ![w].amount = CaptureAmount(a), ![w].pc = "startInit"]
              PROVE  handler' \in [Workers -> Handlers]
            <4>1. CaptureAmount(a) \in Nat /\ payment \in PaymentRows /\ "startInit" \in Steps
                BY PaidType DEF LifecycleTypes, Steps
            <4>2. QED BY <3>2, <4>1, FieldTypes
        <3>3. QED BY <2>9, <3>1, <3>2 DEF StartLoad
    <2>10. ASSUME NEW o \in Ops, AskChannel(w, o) PROVE handler' \in [Workers -> Handlers]
        <3>1. channel[o] \in OpStates
            BY DEF LifecycleTypes
        <3>2. QED BY <2>10, <3>1, FieldTypes DEF AskChannel, Steps
    <2>11. QED BY <2>1, <2>2, <2>3, <2>4, <2>5, <2>6, <2>7, <2>8, <2>9, <2>10 DEF Reading
<1>3. QED BY <1>1, <1>2 DEF rowVars, postVars, LifecycleTypes

\* Steps that write.
Writing(w) ==
    \/ RecordAnswer(w) \/ SavePayment(w) \/ SaveCompleted(w) \/ SaveOrders(w)
    \/ RemoveOldEntries(w) \/ SaveEntries(w) \/ RecordCancel(w) \/ StartRecord(w)
    \/ FailPaymentIfSet(w)
    \/ \E o \in Ops : Fire(w, o) \/ CancelOperation(w, o) \/ StartInit(w, o)

LEMMA WritingTypes ==
    ASSUME LifecycleTypes, NEW w \in Workers, Writing(w)
    PROVE  LifecycleTypes'
<1> USE DEF rowVars, postVars, LifecycleTypes
<1>1. CASE RecordAnswer(w)
    <2>1. handler' \in [Workers -> Handlers]
        <3> DEFINE left == handler[w].todo \ {handler[w].op}
        <3>1. left \in SUBSET Ops
            BY DEF Handlers
        <3>2. PICK p \in {"check", "fire"} :
                handler' = [handler EXCEPT ![w].todo = left, ![w].pc = p]
            BY <1>1 DEF RecordAnswer
        <3>3. p \in Steps
            BY DEF Steps
        <3> HIDE DEF left
        <3>4. QED BY <3>1, <3>2, <3>3, FieldTypes
    <2>2. QED BY <1>1, <2>1 DEF RecordAnswer, Handlers
<1>2. CASE SavePayment(w) \/ SaveCompleted(w)
    <2>1. handler' \in [Workers -> Handlers] /\ handler[w].row \in PaymentRows
        BY <1>2, HandlerTypes DEF SavePayment, SaveCompleted, Handlers, Steps
    <2>2. QED BY <1>2, <2>1 DEF SavePayment, SaveCompleted
<1>3. CASE SaveOrders(w)
    <2>1. handler' \in [Workers -> Handlers]
        BY <1>3, HandlerTypes DEF SaveOrders, Steps
    <2>2. QED BY <1>3, <2>1 DEF SaveOrders
<1>4. CASE RemoveOldEntries(w) \/ SaveEntries(w)
    <2>1. handler' \in [Workers -> Handlers]
        BY <1>4, HandlerTypes DEF RemoveOldEntries, SaveEntries, Steps
    <2>2. QED BY <1>4, <2>1 DEF RemoveOldEntries, SaveEntries
<1>5. CASE RecordCancel(w)
    <2>1. handler' \in [Workers -> Handlers]
        <3> DEFINE left == handler[w].todo \ {handler[w].op}
        <3>1. left \in SUBSET Ops /\ "cancel" \in Steps
            BY DEF Handlers, Steps
        <3>2. handler' = [handler EXCEPT ![w].todo = left, ![w].pc = "cancel"]
            BY <1>5 DEF RecordCancel
        <3> HIDE DEF left
        <3>3. QED BY <3>1, <3>2, FieldTypes
    <2>2. QED BY <1>5, <2>1 DEF RecordCancel, OpStates
<1>6. CASE StartRecord(w)
    <2>1. handler' \in [Workers -> Handlers] /\ handler[w].amount \in Nat
        <3>1. handler' \in [Workers -> Handlers]
            BY <1>6, FieldTypes DEF StartRecord, Steps
        <3>2. QED BY <3>1 DEF Handlers
    <2>2. QED BY <1>6, <2>1 DEF StartRecord, OpStates
<1>7. CASE FailPaymentIfSet(w)
    <2>1. handler' \in [Workers -> Handlers]
        BY <1>7, HandlerTypes DEF FailPaymentIfSet
    <2>2. QED BY <1>7, <2>1 DEF FailPaymentIfSet, PaymentRows, Row
<1>8. ASSUME NEW o \in Ops, Fire(w, o) PROVE LifecycleTypes'
    <2>1. handler' \in [Workers -> Handlers]
        BY <1>8, HandlerTypes DEF Fire, Handlers, Steps, OpStates
    <2>2. QED BY <1>8, <2>1 DEF Fire, OpStates
<1>9. ASSUME NEW o \in Ops, CancelOperation(w, o) \/ StartInit(w, o) PROVE LifecycleTypes'
    <2>1. handler' \in [Workers -> Handlers]
        BY <1>9 DEF CancelOperation, StartInit, Handlers, Steps
    <2>2. QED BY <1>9, <2>1 DEF CancelOperation, StartInit, OpStates
<1>10. QED BY <1>1, <1>2, <1>3, <1>4, <1>5, <1>6, <1>7, <1>8, <1>9 DEF Writing

\* A handler that dies, and the world outside.
LEMMA OutsideTypes ==
    ASSUME LifecycleTypes,
           \/ \E w \in Workers : CallFails(w) \/ Crash(w)
           \/ \E o \in Ops : ChannelMoves(o)
           \/ TimePasses
    PROVE  LifecycleTypes'
<1> USE DEF rowVars, postVars, LifecycleTypes
<1>1. ASSUME NEW w \in Workers, CallFails(w) \/ Crash(w) PROVE LifecycleTypes'
    <2>1. handler' \in [Workers -> Handlers]
        BY <1>1, HandlerTypes DEF CallFails, Crash, Steps
    <2>2. faults' \in 0..MaxFaults
        BY <1>1, PaymentAssumption DEF CallFails, Crash
    <2>3. QED BY <1>1, <2>1, <2>2 DEF CallFails, Crash
<1>2. ASSUME NEW o \in Ops, ChannelMoves(o) PROVE LifecycleTypes'
    BY <1>2 DEF ChannelMoves, OpStates
<1>3. CASE TimePasses
    BY <1>3 DEF TimePasses
<1>4. QED BY <1>1, <1>2, <1>3

\* Every step is one of these.
LEMMA StepKinds ==
    ASSUME Next
    PROVE  \/ \E w \in Workers : BeginHandler(w) \/ Reading(w) \/ Writing(w)
                                 \/ CallFails(w) \/ Crash(w)
           \/ \E o \in Ops : ChannelMoves(o)
           \/ TimePasses
<1>1. \A w \in Workers : HandlerStep(w) => Reading(w) \/ Writing(w)
    BY DEF HandlerStep, Reading, Writing
<1>2. QED BY <1>1 DEF Next

LEMMA StepTypes == LifecycleTypes /\ [Next]_vars => LifecycleTypes'
<1> SUFFICES ASSUME LifecycleTypes, [Next]_vars PROVE LifecycleTypes'
    OBVIOUS
<1>1. CASE Next
    BY <1>1, StepKinds, BeginTypes, ReadingTypes, WritingTypes, OutsideTypes
<1>2. CASE UNCHANGED vars
    BY <1>2 DEF vars, rowVars, postVars, LifecycleTypes
<1>3. QED BY <1>1, <1>2

\* Rows, operations and handlers have values the code can hold, for any number of
\* operations and handlers.
THEOREM LifecycleTypeCorrect == Spec => []LifecycleTypes
<1>1. QED BY InitTypes, StepTypes, PTL DEF Spec
-----------------------------------------------------------------------------
(* Nothing is delivered unpaid *)

LEMMA CoverInit == Init => CoverInv
<1> SUFFICES ASSUME Init PROVE CoverInv
    OBVIOUS
<1>1. LifecycleTypes
    BY InitTypes
<1>2. \A w \in Workers : handler[w] = Idle
    BY DEF Init
<1>3. (\A w \in Workers : AnswersHold(w)) /\ OpeningHolds /\ CompletingHolds
    BY <1>2 DEF Init, Idle, Row, AnswersHold, OpeningHolds, CompletingHolds, Completing, At
<1>4. PaidIsReal /\ NothingDeliveredUnpaid
    BY DEF Init, PaidIsReal, PaidStates, NothingDeliveredUnpaid, Row
<1>5. QED BY <1>1, <1>3, <1>4 DEF CoverInv

\* More operations and larger amounts cover what was covered.
LEMMA CoveredGrows ==
    ASSUME LifecycleTypes, LifecycleTypes', covered \subseteq covered',
           \A o \in Ops : opAmount[o] <= opAmount'[o], Covered
    PROVE  Covered'
<1>1. IsFiniteSet(covered) /\ IsFiniteSet(covered')
    BY PaymentAssumption, FS_Subset DEF LifecycleTypes
<1>2. /\ \A o \in covered : opAmount[o] \in Int /\ opAmount'[o] \in Int
                            /\ opAmount[o] <= opAmount'[o]
      /\ \A o \in covered' : opAmount'[o] \in Nat
    BY DEF LifecycleTypes
<1>3. SumFunctionOnSet(opAmount, covered) <= SumFunctionOnSet(opAmount', covered)
    BY <1>1, <1>2, SumMonotone
<1>4. SumFunctionOnSet(opAmount', covered) <= SumFunctionOnSet(opAmount', covered')
    BY <1>1, <1>2, SumOfSubset
<1>5. /\ SumFunctionOnSet(opAmount, covered) \in Int
      /\ SumFunctionOnSet(opAmount', covered) \in Int
      /\ SumFunctionOnSet(opAmount', covered') \in Int
    BY <1>1, <1>2, SumInt
<1>6. SumFunctionOnSet(opAmount', covered') >= Total
    BY <1>3, <1>4, <1>5, PaymentAssumption DEF Covered
<1>7. QED BY <1>6 DEF Covered

\* A purchase whose paid operations reach its price is covered.
LEMMA PaidCovers ==
    ASSUME LifecycleTypes, PaidIsReal, IsCovered
    PROVE  Covered
<1> DEFINE paid == OpsIn(PaidStates)
<1>1. IsFiniteSet(covered) /\ \A o \in covered : opAmount[o] \in Nat
    BY PaymentAssumption, FS_Subset DEF LifecycleTypes
<1>2. paid \in SUBSET covered
    BY DEF PaidIsReal, OpsIn
<1> HIDE DEF paid
<1>3. SumFunctionOnSet(opAmount, paid) <= SumFunctionOnSet(opAmount, covered)
    BY <1>1, <1>2, SumOfSubset
<1>4. SumFunctionOnSet(opAmount, paid) \in Nat /\ SumFunctionOnSet(opAmount, covered) \in Nat
    BY <1>1, <1>2, SumNat, FS_Subset
<1>5. SumFunctionOnSet(opAmount, paid) >= Total
    BY DEF IsCovered, Paid, PaidStates, paid
<1>6. QED BY <1>3, <1>4, <1>5, PaymentAssumption DEF Covered

\* One handler moves at a time.
LEMMA OneMoves ==
    ASSUME LifecycleTypes, NEW w \in Workers,
           BeginHandler(w) \/ Reading(w) \/ Writing(w) \/ CallFails(w) \/ Crash(w)
    PROVE  \A v \in Workers : v # w => handler'[v] = handler[v]
<1> USE DEF LifecycleTypes, GoTo, Return
<1>1. CASE BeginHandler(w)
    BY <1>1 DEF BeginHandler, BeginPoll, BeginCheck, BeginCancel, BeginStart, BeginStatusEvent
<1>2. CASE Reading(w)
    BY <1>2 DEF Reading, Load, ListWaiting, ChecksDone, Sum, LookForFailures, LookForOngoing,
           ListReady, FiringDone, FindOrders, FindOldEntries, CancelsDone, StartLoad, AskChannel
<1>3. CASE Writing(w)
    BY <1>3 DEF Writing, RecordAnswer, SavePayment, SaveCompleted, SaveOrders, RemoveOldEntries,
           SaveEntries, RecordCancel, StartRecord, FailPaymentIfSet, Fire, CancelOperation, StartInit
<1>4. CASE CallFails(w) \/ Crash(w)
    BY <1>4 DEF CallFails, Crash
<1>5. QED BY <1>1, <1>2, <1>3, <1>4

\* What is left to show of a step of w.
LEMMA CoverFromHandler ==
    ASSUME CoverInv, LifecycleTypes', NEW w \in Workers,
           \A v \in Workers : v # w => handler'[v] = handler[v],
           covered' = covered, \A o \in Ops : opAmount[o] <= opAmount'[o],
           PaidIsReal', AnswersHold(w)', OpeningHolds', Completing(w)' => Covered',
           payment'.status = "COMPLETED" \/ orders' > 0 \/ entries' # {} => Covered'
    PROVE  CoverInv'
<1>1. Covered => Covered'
    BY CoveredGrows DEF CoverInv
<1>2. ASSUME NEW v \in Workers, v # w PROVE AnswersHold(v)' /\ (Completing(v)' => Covered')
    BY <1>1, <1>2 DEF CoverInv, AnswersHold, CompletingHolds, Completing
<1>3. CompletingHolds'
    BY <1>2 DEF CompletingHolds
<1>4. \A v \in Workers : AnswersHold(v)'
    BY <1>2
<1>5. NothingDeliveredUnpaid'
    BY DEF NothingDeliveredUnpaid
<1>6. QED BY <1>3, <1>4, <1>5 DEF CoverInv

\* Beginning a handler, and its death, leave it with nothing to hold.
LEMMA QuietCover ==
    ASSUME CoverInv, LifecycleTypes', NEW w \in Workers,
           \A v \in Workers : v # w => handler'[v] = handler[v],
           UNCHANGED <<rowVars, channel, postVars, covered>>,
           handler'[w].pc \notin {"recordCheck", "recordFire", "fire", "startRecord"},
           Completing(w)' => Completing(w) \/ Covered
    PROVE  CoverInv'
<1>1. UNCHANGED <<payment, opStatus, opAmount, channel, orders, entries, covered>>
    BY DEF rowVars, postVars
<1>2. \A o \in Ops : opAmount[o] <= opAmount'[o]
    BY <1>1 DEF LifecycleTypes
<1>3. Covered => Covered'
    BY <1>1, <1>2, CoveredGrows DEF CoverInv
<1>4. PaidIsReal' /\ AnswersHold(w)'
    BY <1>1 DEF CoverInv, PaidIsReal, AnswersHold
<1>5. OpeningHolds'
    BY <1>1 DEF CoverInv, OpeningHolds, At
<1>6. Completing(w)' => Covered'
    BY <1>3 DEF CoverInv, CompletingHolds
<1>7. payment'.status = "COMPLETED" \/ orders' > 0 \/ entries' # {} => Covered'
    BY <1>1, <1>3 DEF CoverInv, NothingDeliveredUnpaid
<1>8. QED BY <1>1, <1>2, <1>4, <1>5, <1>6, <1>7, CoverFromHandler
LEMMA BeginCover ==
    ASSUME CoverInv, LifecycleTypes', NEW w \in Workers,
           BeginHandler(w) \/ CallFails(w) \/ Crash(w)
    PROVE  CoverInv'
<1> USE DEF GoTo, Return, Idle, Row
<1>1. handler \in [Workers -> Handlers] /\ LifecycleTypes
    BY DEF CoverInv, LifecycleTypes
<1>2. \A v \in Workers : v # w => handler'[v] = handler[v]
    BY <1>1, OneMoves
<1>3. UNCHANGED <<rowVars, channel, postVars, covered>>
    BY DEF BeginHandler, BeginPoll, BeginCheck, BeginCancel, BeginStart, BeginStatusEvent,
           CallFails, Crash
<1>4. /\ handler'[w].pc \in {"idle", "load", "check", "listWaiting", "fail", "startLoad"}
      /\ handler'[w].row.status # "COMPLETED" \/ handler'[w].row = handler[w].row
    <2>1. CASE BeginPoll(w) \/ BeginCheck(w)
        <3>1. handler'[w].pc = "load" /\ handler'[w].row.status = "INITIATED"
            <4>1. CASE BeginPoll(w)
                BY <1>1, <4>1 DEF BeginPoll
            <4>2. CASE BeginCheck(w)
                BY <1>1, <4>2 DEF BeginCheck
            <4>3. QED BY <2>1, <4>1, <4>2
        <3>2. QED BY <3>1
    <2>2. CASE BeginCancel(w)
        BY <1>1, <2>2 DEF BeginCancel
    <2>3. CASE BeginStart(w)
        BY <1>1, <2>3 DEF BeginStart, Handlers
    <2>4. ASSUME NEW o \in Ops, BeginStatusEvent(w, o)
          PROVE  handler'[w].pc = "check" /\ handler'[w].row.status # "COMPLETED"
        BY <1>1, <2>4 DEF BeginStatusEvent
    <2>5. CASE CallFails(w)
        BY <1>1, <2>5 DEF CallFails, Handlers
    <2>6. CASE Crash(w)
        BY <1>1, <2>6 DEF Crash
    <2>7. QED BY <2>1, <2>2, <2>3, <2>4, <2>5, <2>6 DEF BeginHandler
<1>5. Completing(w)' => Completing(w)
    BY <1>4 DEF Completing
<1>6. QED BY <1>2, <1>3, <1>4, <1>5, QuietCover

\* What a read step leaves in the handler.
LEMMA ReadingCover ==
    ASSUME CoverInv, LifecycleTypes', NEW w \in Workers, Reading(w)
    PROVE  CoverInv'
<1>1. handler \in [Workers -> Handlers] /\ LifecycleTypes
    BY DEF CoverInv, LifecycleTypes
<1>2. \A v \in Workers : v # w => handler'[v] = handler[v]
    BY <1>1, OneMoves
<1>3. UNCHANGED <<payment, opStatus, opAmount, channel, orders, entries, covered>>
    BY <1>1, ReadingTypes DEF rowVars, postVars
<1>4. CASE Load(w)
    <2>1. /\ handler'[w].pc \in {"idle", "list", "sum"}
          /\ handler'[w].row.status # "COMPLETED"
        BY <1>1, <1>4 DEF Load, Return, Idle, Row, Resolved, Handlers
    <2>2. QED BY <1>2, <1>3, <2>1, QuietCover DEF Completing, rowVars, postVars
<1>5. CASE ListWaiting(w) \/ ChecksDone(w) \/ CancelsDone(w)
    <2>1. handler'[w].pc \in {"check", "cancel", "sum", "load", "save"} /\ handler'[w].row = handler[w].row
        BY <1>1, <1>5 DEF ListWaiting, ChecksDone, CancelsDone, GoTo, Handlers
    <2>2. QED BY <1>2, <1>3, <2>1, QuietCover DEF Completing, rowVars, postVars
<1>6. CASE Sum(w)
    <2>1. CASE IsCovered
        <3>1. Covered
            BY <2>1, PaidCovers DEF CoverInv
        <3>2. handler'[w].pc = "complete"
            BY <1>1, <1>6, <2>1 DEF Sum, Handlers
        <3>3. QED BY <1>2, <1>3, <3>1, <3>2, QuietCover DEF rowVars, postVars
    <2>2. CASE ~IsCovered
        <3>1. handler'[w].pc = "failed" /\ handler'[w].row = handler[w].row
            BY <1>1, <1>6, <2>2 DEF Sum, GoTo, Handlers
        <3>2. QED BY <1>2, <1>3, <3>1, QuietCover DEF Completing, rowVars, postVars
    <2>3. QED BY <2>1, <2>2
<1>7. CASE LookForFailures(w)
    <2>1. /\ handler'[w].pc \in {"save", "ongoing", "listWaiting"}
          /\ handler'[w].row.status = "FAILED" \/ handler'[w].row = handler[w].row
        BY <1>1, <1>7 DEF LookForFailures, GoTo, Row, Handlers, PaymentRows
    <2>2. QED BY <1>2, <1>3, <2>1, QuietCover DEF Completing, rowVars, postVars
<1>8. CASE LookForOngoing(w)
    <2>1. /\ handler'[w].pc = "save"
          /\ handler'[w].row.status = "INITIATED" \/ handler'[w].row.status = handler[w].row.status
        BY <1>1, <1>8 DEF LookForOngoing, Handlers, PaymentRows
    <2>2. QED BY <1>2, <1>3, <2>1, QuietCover DEF Completing, rowVars, postVars
<1>9. CASE ListReady(w)
    <2>1. /\ At(w, "listReady") /\ handler'[w].pc = "fire"
          /\ handler'[w].todo = OpsIn({"READY"})
        BY <1>1, <1>9 DEF ListReady, At, Handlers
    <2>2. Covered /\ OpsIn({"READY"}) \subseteq covered
        BY <2>1 DEF CoverInv, CompletingHolds, Completing, At, PaidIsReal, PaidStates, OpsIn
    <2>3. AnswersHold(w)'
        BY <1>3, <2>1, <2>2 DEF AnswersHold
    <2>4. OpeningHolds'
        BY <1>2, <1>3, <2>1 DEF CoverInv, OpeningHolds, At
    <2>5. Covered' /\ PaidIsReal' /\ \A o \in Ops : opAmount[o] <= opAmount'[o]
        BY <1>1, <1>3, <2>2 DEF Covered, CoverInv, PaidIsReal, LifecycleTypes
    <2>6. QED BY <1>2, <1>3, <2>3, <2>4, <2>5, CoverFromHandler
<1>10. CASE FiringDone(w) \/ FindOrders(w) \/ FindOldEntries(w)
    <2>1. /\ Completing(w) /\ handler'[w].pc \in {"findOrders", "saveOrders", "removeOld"}
        BY <1>1, <1>10
           DEF FiringDone, FindOrders, FindOldEntries, GoTo, At, Completing, Handlers
    <2>2. QED BY <1>2, <1>3, <2>1, QuietCover DEF rowVars, postVars
<1>11. CASE StartLoad(w)
    <2>1. /\ handler'[w].pc \in {"fail", "startInit"}
          /\ handler'[w].row.status # "COMPLETED" \/ handler'[w].row = handler[w].row
        <3>1. CASE Resolved(payment)
            BY <1>1, <1>11, <3>1 DEF StartLoad, GoTo, Handlers
        <3>2. CASE ~Resolved(payment)
            <4>1. PICK n \in {CaptureAmount(a) : a \in Requested} :
                    handler' = [handler EXCEPT ![w].row = payment, ![w].amount = n,
                                               ![w].pc = "startInit"]
                BY <1>11, <3>2 DEF StartLoad
            <4>2. handler[w] \in Handlers
                BY <1>1
            <4>3. handler'[w].pc = "startInit" /\ handler'[w].row = payment
                BY <1>1, <4>1, <4>2 DEF Handlers
            <4>4. QED BY <3>2, <4>3 DEF Resolved
        <3>3. QED BY <3>1, <3>2
    <2>2. QED BY <1>2, <1>3, <2>1, QuietCover DEF Completing, rowVars, postVars
<1>12. ASSUME NEW o \in Ops, AskChannel(w, o) PROVE CoverInv'
    <2>1. /\ handler'[w].pc = "recordCheck" /\ handler'[w].row = handler[w].row
          /\ handler'[w].op = o /\ handler'[w].answer = channel[o]
        BY <1>1, <1>12 DEF AskChannel, Handlers
    <2>2. AnswersHold(w)'
        BY <1>3, <2>1 DEF AnswersHold, CoverInv, PaidIsReal
    <2>3. OpeningHolds'
        BY <1>2, <1>3, <2>1 DEF CoverInv, OpeningHolds, At
    <2>4. (Covered => Covered') /\ PaidIsReal' /\ \A x \in Ops : opAmount[x] <= opAmount'[x]
        BY <1>1, <1>3 DEF Covered, CoverInv, PaidIsReal, LifecycleTypes
    <2>5. Completing(w)' => Covered'
        BY <2>1, <2>4 DEF Completing, CoverInv, CompletingHolds
    <2>6. payment'.status = "COMPLETED" \/ orders' > 0 \/ entries' # {} => Covered'
        BY <1>3, <2>4 DEF CoverInv, NothingDeliveredUnpaid
    <2>7. QED BY <1>2, <1>3, <2>2, <2>3, <2>4, <2>5, <2>6, CoverFromHandler
<1>13. QED BY <1>4, <1>5, <1>6, <1>7, <1>8, <1>9, <1>10, <1>11, <1>12 DEF Reading
LEMMA WritingCover ==
    ASSUME CoverInv, LifecycleTypes', NEW w \in Workers, Writing(w)
    PROVE  CoverInv'
<1>1. handler \in [Workers -> Handlers] /\ LifecycleTypes
    BY DEF CoverInv, LifecycleTypes
<1>2. \A v \in Workers : v # w => handler'[v] = handler[v]
    BY <1>1, OneMoves
<1>3. covered' = covered
    BY DEF Writing, RecordAnswer, SavePayment, SaveCompleted, SaveOrders, RemoveOldEntries,
           SaveEntries, RecordCancel, StartRecord, FailPaymentIfSet, Fire, CancelOperation,
           StartInit
\* All but the record of a new operation leave the amounts alone.
<1>4. ASSUME UNCHANGED <<opAmount, channel>>, handler'[w].pc # "startRecord"
      PROVE  /\ \A o \in Ops : opAmount[o] <= opAmount'[o]
             /\ OpeningHolds' /\ (Covered <=> Covered')
    <2>1. OpeningHolds'
        BY <1>2, <1>4 DEF CoverInv, OpeningHolds, At
    <2>2. Covered <=> Covered'
        BY <1>3, <1>4 DEF Covered
    <2>3. QED BY <1>1, <1>4, <2>1, <2>2 DEF LifecycleTypes
<1>5. CASE RecordAnswer(w)
    <2>1. /\ UNCHANGED <<payment, opAmount, channel, orders, entries>>
          /\ At(w, "recordCheck") \/ At(w, "recordFire")
          /\ opStatus' = [opStatus EXCEPT ![handler[w].op] = handler[w].answer]
          /\ handler'[w].pc = (IF At(w, "recordCheck") THEN "check" ELSE "fire")
          /\ handler'[w].row = handler[w].row
          /\ handler'[w].todo \subseteq handler[w].todo
        BY <1>1, <1>5 DEF RecordAnswer, Handlers, At, postVars
    <2>2. AnswersHold(w)
        BY DEF CoverInv
    <2>3. PaidIsReal'
        BY <1>1, <1>3, <2>1, <2>2
           DEF CoverInv, PaidIsReal, AnswersHold, At, LifecycleTypes
    <2>4. AnswersHold(w)'
        BY <1>3, <2>1, <2>2 DEF AnswersHold, At
    <2>5. Completing(w)' => Completing(w)
        BY <2>1 DEF Completing, At
    <2>6. QED BY <1>2, <1>3, <1>4, <2>1, <2>3, <2>4, <2>5, CoverFromHandler
              DEF CoverInv, CompletingHolds, NothingDeliveredUnpaid
<1>6. CASE SavePayment(w)
    <2>1. /\ payment' = handler[w].row /\ handler'[w] = Idle
          /\ UNCHANGED <<opStatus, opAmount, channel, orders, entries>>
        BY <1>1, <1>6 DEF SavePayment, Return, postVars
    <2>2. payment'.status = "COMPLETED" => Covered
        BY <2>1 DEF CoverInv, CompletingHolds, Completing
    <2>3. PaidIsReal' /\ AnswersHold(w)' /\ ~Completing(w)'
        BY <1>3, <2>1 DEF CoverInv, PaidIsReal, AnswersHold, Completing, Idle, Row
    <2>4. handler'[w].pc # "startRecord"
        BY <2>1 DEF Idle
    <2>5. QED BY <1>2, <1>3, <1>4, <2>1, <2>2, <2>3, <2>4, CoverFromHandler
              DEF CoverInv, NothingDeliveredUnpaid
<1>7. CASE SaveCompleted(w) \/ SaveOrders(w) \/ RemoveOldEntries(w) \/ SaveEntries(w)
    <2>1. /\ Completing(w) /\ UNCHANGED <<opStatus, opAmount, channel>>
          /\ handler'[w].pc \in {"listReady", "findOld", "saveEntries", "idle"}
        BY <1>1, <1>7 DEF SaveCompleted, SaveOrders, RemoveOldEntries, SaveEntries, GoTo,
                          Return, At, Completing, Idle, Handlers, rowVars
    <2>2. PaidIsReal' /\ AnswersHold(w)' /\ Covered
        BY <1>3, <2>1 DEF CoverInv, PaidIsReal, AnswersHold, CompletingHolds
    <2>3. QED BY <1>2, <1>3, <1>4, <2>1, <2>2, CoverFromHandler
<1>8. CASE RecordCancel(w)
    <2>1. /\ UNCHANGED <<payment, opAmount, channel, orders, entries>>
          /\ opStatus' = [opStatus EXCEPT ![handler[w].op] = "FAILED"]
          /\ handler'[w].pc = "cancel" /\ handler'[w].row = handler[w].row
        BY <1>1, <1>8 DEF RecordCancel, Handlers, postVars
    <2>2. PaidIsReal' /\ AnswersHold(w)' /\ (Completing(w)' => Completing(w))
        BY <1>1, <1>3, <2>1
           DEF CoverInv, PaidIsReal, PaidStates, AnswersHold, Completing, LifecycleTypes
    <2>3. QED BY <1>2, <1>3, <1>4, <2>1, <2>2, CoverFromHandler
              DEF CoverInv, CompletingHolds, NothingDeliveredUnpaid
<1>9. CASE StartRecord(w)
    <2> DEFINE o == handler[w].op
    <2>1. /\ UNCHANGED <<payment, channel, orders, entries>> /\ At(w, "startRecord")
          /\ opStatus' = [opStatus EXCEPT ![o] = "WAITING"]
          /\ opAmount' = [opAmount EXCEPT ![o] = handler[w].amount]
          /\ handler'[w].pc = "save" /\ handler'[w].row.status = "WAITING"
        BY <1>1, <1>9 DEF StartRecord, Handlers, PaymentRows, postVars
    <2>2. o \in Ops /\ opAmount[o] = 0 /\ channel[o] # "NONE" /\ handler[w].amount \in Nat
        BY <1>1, <2>1 DEF CoverInv, OpeningHolds, Handlers
    <2> HIDE DEF o
    <2>3. \A x \in Ops : opAmount[x] <= opAmount'[x] /\ (x # o => opAmount'[x] = opAmount[x])
        BY <1>1, <2>1, <2>2 DEF LifecycleTypes
    <2>4. PaidIsReal' /\ AnswersHold(w)' /\ ~Completing(w)'
        BY <1>1, <1>3, <2>1
           DEF CoverInv, PaidIsReal, PaidStates, AnswersHold, Completing, LifecycleTypes
    <2>5. OpeningHolds'
        BY <1>2, <2>1, <2>2, <2>3 DEF CoverInv, OpeningHolds, At, o
    <2>6. Covered => Covered'
        BY <1>1, <1>3, <2>3, CoveredGrows
    <2>7. payment'.status = "COMPLETED" \/ orders' > 0 \/ entries' # {} => Covered'
        BY <2>1, <2>6 DEF CoverInv, NothingDeliveredUnpaid
    <2>8. QED BY <1>2, <1>3, <2>3, <2>4, <2>5, <2>7, CoverFromHandler
<1>10. CASE FailPaymentIfSet(w)
    <2>1. /\ payment' = payment \/ payment'.status = "FAILED"
          /\ handler'[w] = Idle /\ UNCHANGED <<opStatus, opAmount, channel, orders, entries>>
        BY <1>1, <1>10 DEF FailPaymentIfSet, Return, Row, postVars
    <2>2. PaidIsReal' /\ AnswersHold(w)' /\ ~Completing(w)' /\ handler'[w].pc # "startRecord"
        BY <1>3, <2>1 DEF CoverInv, PaidIsReal, AnswersHold, Completing, Idle, Row
    <2>3. QED BY <1>2, <1>3, <1>4, <2>1, <2>2, CoverFromHandler
              DEF CoverInv, NothingDeliveredUnpaid
<1>11. ASSUME NEW o \in Ops, Fire(w, o) PROVE CoverInv'
    <2>1. /\ At(w, "fire") /\ o \in handler[w].todo
          /\ UNCHANGED <<payment, opStatus, opAmount, orders, entries>>
          /\ \A x \in Ops : channel'[x] = channel[x] \/ (x = o /\ channel'[x] = "COMPLETED")
        <3>1. channel' = channel \/ channel' = [channel EXCEPT ![o] = "COMPLETED"]
            BY <1>11 DEF Fire
        <3>2. \A x \in Ops : channel'[x] = channel[x] \/ (x = o /\ channel'[x] = "COMPLETED")
            <4>1. channel \in [Ops -> OpStates]
                BY <1>1 DEF LifecycleTypes
            <4>2. CASE channel' = channel
                BY <4>2
            <4>3. CASE channel' = [channel EXCEPT ![o] = "COMPLETED"]
                BY <4>1, <4>3
            <4>4. QED BY <3>1, <4>2, <4>3
        <3>3. At(w, "fire") /\ o \in handler[w].todo
            BY <1>11 DEF Fire, LoopOver
        <3>4. UNCHANGED <<payment, opStatus, opAmount, orders, entries>>
            BY <1>11 DEF Fire, rowVars, postVars
        <3>5. QED BY <3>2, <3>3, <3>4
    <2>2. \/ handler'[w] = Idle
          \/ /\ handler'[w].pc = "recordFire" /\ handler'[w].op = o
             /\ handler'[w].todo = handler[w].todo
        BY <1>1, <1>11 DEF Fire, Return, Handlers
    <2>3. Covered /\ o \in covered /\ handler[w].todo \subseteq covered
        BY <2>1 DEF CoverInv, CompletingHolds, Completing, AnswersHold, At
    <2>4. PaidIsReal' /\ AnswersHold(w)'
        BY <1>3, <2>1, <2>2, <2>3 DEF CoverInv, PaidIsReal, AnswersHold, Idle
    <2>5. OpeningHolds'
        BY <1>2, <2>1, <2>2 DEF CoverInv, OpeningHolds, At, Idle
    <2>6. Covered' /\ \A x \in Ops : opAmount[x] <= opAmount'[x]
        BY <1>1, <1>3, <2>1, <2>3 DEF Covered, LifecycleTypes
    <2>7. QED BY <1>2, <1>3, <2>4, <2>5, <2>6, CoverFromHandler
<1>12. ASSUME NEW o \in Ops, CancelOperation(w, o) PROVE CoverInv'
    <2>1. /\ handler'[w].pc = "recordCancel" /\ handler'[w].row = handler[w].row
          /\ UNCHANGED <<payment, opStatus, opAmount, orders, entries>>
          /\ \A x \in Ops : channel'[x] = channel[x] \/ channel'[x] = "FAILED"
        BY <1>1, <1>12 DEF CancelOperation, Handlers, rowVars, postVars, LifecycleTypes
    <2>2. PaidIsReal' /\ AnswersHold(w)' /\ (Completing(w)' => Completing(w))
        BY <1>3, <2>1 DEF CoverInv, PaidIsReal, PaidStates, AnswersHold, Completing
    <2>3. OpeningHolds'
        BY <1>2, <2>1 DEF CoverInv, OpeningHolds, At
    <2>4. (Covered <=> Covered') /\ \A x \in Ops : opAmount[x] <= opAmount'[x]
        BY <1>1, <1>3, <2>1 DEF Covered, LifecycleTypes
    <2>5. QED BY <1>2, <1>3, <2>1, <2>2, <2>3, <2>4, CoverFromHandler
              DEF CoverInv, CompletingHolds, NothingDeliveredUnpaid
<1>13. ASSUME NEW o \in Ops, StartInit(w, o) PROVE CoverInv'
    <2>1. /\ handler'[w].pc = "startRecord" /\ handler'[w].row = handler[w].row
          /\ handler'[w].op = o /\ channel[o] = "NONE" /\ At(w, "startInit")
          /\ UNCHANGED <<payment, opStatus, opAmount, orders, entries>>
          /\ \A x \in Ops : channel'[x] = IF x = o THEN "WAITING" ELSE channel[x]
        BY <1>1, <1>13 DEF StartInit, Handlers, rowVars, postVars, LifecycleTypes
    <2>2. PaidIsReal' /\ AnswersHold(w)' /\ (Completing(w)' => Completing(w))
        BY <1>3, <2>1 DEF CoverInv, PaidIsReal, PaidStates, AnswersHold, Completing
    <2>3. OpeningHolds'
        BY <1>2, <2>1 DEF CoverInv, OpeningHolds, At
    <2>4. (Covered <=> Covered') /\ \A x \in Ops : opAmount[x] <= opAmount'[x]
        BY <1>1, <1>3, <2>1 DEF Covered, LifecycleTypes
    <2>5. QED BY <1>2, <1>3, <2>1, <2>2, <2>3, <2>4, CoverFromHandler
              DEF CoverInv, CompletingHolds, NothingDeliveredUnpaid
<1>14. QED BY <1>5, <1>6, <1>7, <1>8, <1>9, <1>10, <1>11, <1>12, <1>13 DEF Writing

\* What a channel authorises or captures is covered from then on.
LEMMA ChannelCover ==
    ASSUME CoverInv, LifecycleTypes', NEW o \in Ops, ChannelMoves(o)
    PROVE  CoverInv'
<1>1. /\ UNCHANGED <<payment, opStatus, opAmount, orders, entries, handler>>
      /\ covered \subseteq covered' /\ channel[o] # "NONE"
      /\ channel'[o] \in PaidStates => o \in covered'
      /\ \A x \in Ops : x # o => channel'[x] = channel[x]
    BY DEF ChannelMoves, PaidStates, rowVars, postVars, CoverInv, LifecycleTypes
<1>2. channel'[o] # "NONE"
    BY DEF ChannelMoves, CoverInv, LifecycleTypes
<1>3. Covered => Covered'
    BY <1>1, CoveredGrows DEF CoverInv, LifecycleTypes
<1>4. PaidIsReal'
    BY <1>1 DEF CoverInv, PaidIsReal, PaidStates
<1>5. \A w \in Workers : AnswersHold(w)'
    BY <1>1 DEF CoverInv, AnswersHold
<1>6. OpeningHolds'
    BY <1>1, <1>2 DEF CoverInv, OpeningHolds, At
<1>7. CompletingHolds' /\ NothingDeliveredUnpaid'
    BY <1>1, <1>3 DEF CoverInv, CompletingHolds, Completing, NothingDeliveredUnpaid
<1>8. QED BY <1>4, <1>5, <1>6, <1>7 DEF CoverInv

LEMMA CoverStep == CoverInv /\ [Next]_vars => CoverInv'
<1> SUFFICES ASSUME CoverInv, [Next]_vars PROVE CoverInv'
    OBVIOUS
<1>1. LifecycleTypes'
    BY StepTypes DEF CoverInv
<1>2. CASE Next
    <2>1. CASE TimePasses \/ UNCHANGED vars
        BY <1>1, <2>1 DEF TimePasses, vars, rowVars, postVars, CoverInv, PaidIsReal,
              AnswersHold, OpeningHolds, At, CompletingHolds, Completing, Covered,
              NothingDeliveredUnpaid
    <2>2. QED BY <1>1, <1>2, <2>1, StepKinds, BeginCover, ReadingCover, WritingCover, ChannelCover
<1>3. CASE UNCHANGED vars
    BY <1>1, <1>3 DEF vars, rowVars, postVars, CoverInv, PaidIsReal, AnswersHold,
          OpeningHolds, At, CompletingHolds, Completing, Covered, NothingDeliveredUnpaid
<1>4. QED BY <1>2, <1>3

LEMMA CoverInvHolds == Spec => []CoverInv
<1>1. QED BY CoverInit, CoverStep, PTL DEF Spec

\* A purchase is completed, and posted to its sellers, only when channels covered
\* its price (updatePaymentByOperationStatuses): for any number of handlers,
\* operations, faults and amounts.
THEOREM NothingDeliveredUnpaidHolds == Spec => []NothingDeliveredUnpaid
<1>1. CoverInv => NothingDeliveredUnpaid
    BY DEF CoverInv
<1>2. QED BY <1>1, CoverInvHolds, PTL

\* An authorisation is captured only when the whole price is covered
\* (firePaymentOperationsByPaymentId), for any number of handlers.
THEOREM CaptureNeedsCoverHolds == Spec => CaptureNeedsCover
<1> DEFINE Captured == \A o \in Ops :
              channel[o] = "READY" /\ channel'[o] = "COMPLETED" => Covered
<1>1. CoverInv /\ [Next]_vars => [Captured]_vars
    <2> SUFFICES ASSUME CoverInv, Next, NEW x \in Ops,
                        channel[x] = "READY", channel'[x] = "COMPLETED"
                 PROVE  Covered
        BY DEF Captured
    <2>1. channel \in [Ops -> OpStates] /\ LifecycleTypes
        BY DEF CoverInv, LifecycleTypes
    <2>2. ASSUME NEW w \in Workers, NEW o \in Ops, Fire(w, o) PROVE Covered
        BY <2>2 DEF Fire, At, CoverInv, CompletingHolds, Completing
    <2>3. ASSUME NEW w \in Workers, NEW o \in Ops, CancelOperation(w, o) \/ StartInit(w, o)
          PROVE  FALSE
        BY <2>1, <2>3 DEF CancelOperation, StartInit
    <2>4. ASSUME NEW o \in Ops, ChannelMoves(o) PROVE FALSE
        BY <2>1, <2>4 DEF ChannelMoves
    <2>5. ASSUME NEW w \in Workers, BeginHandler(w) \/ Reading(w) \/ CallFails(w) \/ Crash(w)
          PROVE  channel' = channel
        BY <2>1, <2>5, ReadingTypes DEF BeginHandler, BeginPoll, BeginCheck, BeginCancel,
              BeginStart, BeginStatusEvent, CallFails, Crash
    <2>6. ASSUME NEW w \in Workers,
                 RecordAnswer(w) \/ SavePayment(w) \/ SaveCompleted(w) \/ SaveOrders(w)
                 \/ RemoveOldEntries(w) \/ SaveEntries(w) \/ RecordCancel(w) \/ StartRecord(w)
                 \/ FailPaymentIfSet(w)
          PROVE  channel' = channel
        BY <2>6 DEF RecordAnswer, SavePayment, SaveCompleted, SaveOrders, RemoveOldEntries,
              SaveEntries, RecordCancel, StartRecord, FailPaymentIfSet
    <2>7. TimePasses => channel' = channel
        BY DEF TimePasses
    <2>8. QED BY <2>2, <2>3, <2>4, <2>5, <2>6, <2>7, StepKinds DEF Writing
<1>2. CoverInv /\ [Next]_vars => [\A o \in Ops :
              channel[o] = "READY" /\ channel'[o] = "COMPLETED" => Covered]_vars
    BY <1>1 DEF Captured
<1>3. QED BY <1>2, CoverInvHolds, PTL DEF CaptureNeedsCover, Spec
-----------------------------------------------------------------------------
(* One handler at a time *)

LEMMA SerialInit == Init => SerialInv
<1> SUFFICES ASSUME Init PROVE SerialInv
    OBVIOUS
<1>1. LifecycleTypes
    BY InitTypes
<1>2. \A w \in Workers : handler[w] = Idle
    BY DEF Init
<1>3. \A w \in Workers : LoadHolds(w) /\ ListHolds(w) /\ RowHolds(w)
    BY <1>2 DEF Idle, Row, LoadHolds, Loaded, ListHolds, RowHolds, Closed
<1>4. ~Closed(payment) /\ ClosedLeavesNothingWaiting
    BY DEF Init, Row, Closed, ClosedLeavesNothingWaiting
<1>5. QED BY <1>1, <1>3, <1>4 DEF SerialInv

\* What is left to show of a step of the only handler.
LEMMA SerialFromHandler ==
    ASSUME OneHandler, LifecycleTypes', NEW w \in Workers,
           LoadHolds(w)', ListHolds(w)', RowHolds(w)',
           Closed(payment') => payment'.status = "FAILED", ClosedLeavesNothingWaiting'
    PROVE  SerialInv'
<1>1. \A v \in Workers : v = w
    BY DEF OneHandler
<1>2. \A v \in Workers : LoadHolds(v)' /\ ListHolds(v)' /\ RowHolds(v)'
    BY <1>1
<1>3. QED BY <1>2 DEF SerialInv

\* A step that leaves the rows alone.
LEMMA SerialReads ==
    ASSUME OneHandler, SerialInv, LifecycleTypes', NEW w \in Workers,
           UNCHANGED <<payment, opStatus>>,
           LoadHolds(w)', ListHolds(w)', RowHolds(w)'
    PROVE  SerialInv'
<1>1. Closed(payment') => payment'.status = "FAILED"
    BY DEF SerialInv
<1>2. ClosedLeavesNothingWaiting'
    BY DEF SerialInv, ClosedLeavesNothingWaiting, OpsIn
<1>3. QED BY <1>1, <1>2, SerialFromHandler

\* A handler with no row of a closed payment, at a step that relies on nothing.
LEMMA SerialRests ==
    ASSUME OneHandler, SerialInv, LifecycleTypes', NEW w \in Workers,
           UNCHANGED <<payment, opStatus>>, ~Closed(handler'[w].row),
           handler'[w].pc \in {"idle", "load", "listReady", "fire", "findOrders", "saveOrders",
                               "findOld", "removeOld", "saveEntries", "startLoad", "fail"}
    PROVE  SerialInv'
<1>1. LoadHolds(w)' /\ ListHolds(w)' /\ RowHolds(w)'
    BY DEF LoadHolds, Loaded, ListHolds, RowHolds
<1>2. QED BY <1>1, SerialReads

\* A handler with no row of a closed payment that goes on with one it loaded.
LEMMA SerialGoesOn ==
    ASSUME OneHandler, SerialInv, LifecycleTypes', NEW w \in Workers,
           UNCHANGED <<payment, opStatus>>, ~Closed(handler'[w].row), ~Resolved(payment),
           handler'[w].pc \in {"list", "sum", "failed", "ongoing", "save", "complete",
                               "startInit", "startRecord"}
    PROVE  SerialInv'
<1>1. ~Resolved(payment') /\ ~Resolved(payment)'
    OBVIOUS
<1>2. LoadHolds(w)' /\ ListHolds(w)' /\ RowHolds(w)'
    BY <1>1 DEF LoadHolds, Loaded, ListHolds, RowHolds
<1>3. QED BY <1>2, SerialReads

\* At most of the steps no closed payment is at hand.
LEMMA NotClosed ==
    ASSUME SerialInv, NEW w \in Workers
    PROVE  /\ handler[w] \in Handlers
           /\ handler[w].pc \notin {"listWaiting", "cancel", "recordCancel", "save"}
                => ~Closed(handler[w].row)
           /\ handler[w].pc \in Loaded => ~Resolved(payment)
           /\ ~Resolved(payment) => ~Closed(payment)
BY DEF SerialInv, LifecycleTypes, LoadHolds, RowHolds, Resolved

LEMMA SerialBegin ==
    ASSUME OneHandler, SerialInv, LifecycleTypes', NEW w \in Workers,
           BeginHandler(w) \/ CallFails(w) \/ Crash(w)
    PROVE  SerialInv'
<1>1. handler \in [Workers -> Handlers] /\ handler[w] \in Handlers
    BY DEF SerialInv, LifecycleTypes
<1>2. UNCHANGED <<payment, opStatus>>
    BY DEF BeginHandler, BeginPoll, BeginCheck, BeginCancel, BeginStart, BeginStatusEvent,
           CallFails, Crash, rowVars
<1>3. Idle.pc = "idle" /\ ~Closed(Idle.row) /\ Idle.todo = {} /\ Idle.poll = FALSE
    BY DEF Idle, Row, Closed
<1>4. CASE BeginPoll(w)
    <2>1. handler'[w].pc = "load" /\ handler'[w].row = Idle.row
        BY <1>1, <1>4 DEF BeginPoll, Idle, Row
    <2>2. QED BY <1>2, <1>3, <2>1, SerialRests
<1>5. CASE BeginCheck(w)
    <2>1. handler'[w].pc = "load" /\ handler'[w].row = Idle.row
        BY <1>1, <1>5 DEF BeginCheck, Idle, Row
    <2>2. QED BY <1>2, <1>3, <2>1, SerialRests
<1>6. CASE BeginCancel(w)
    <2>1. /\ handler'[w].pc = "listWaiting" /\ handler'[w].row = Row("FAILED", "CANCELLED")
          /\ ~Resolved(payment)
        BY <1>1, <1>6 DEF BeginCancel, Idle, Row
    <2>2. LoadHolds(w)' /\ ListHolds(w)' /\ RowHolds(w)'
        BY <1>2, <2>1 DEF LoadHolds, ListHolds, RowHolds, Row, Closed, Resolved
    <2>3. QED BY <1>2, <2>2, SerialReads
<1>7. CASE BeginStart(w)
    <2>1. handler'[w].pc \in {"fail", "startLoad"} /\ handler'[w].row = handler[w].row
        BY <1>1, <1>7 DEF BeginStart, GoTo, Handlers
    <2>2. ~Closed(handler[w].row)
        BY <1>7, NotClosed DEF BeginStart, At
    <2>3. QED BY <1>2, <2>1, <2>2, SerialRests
<1>8. ASSUME NEW o \in Ops, BeginStatusEvent(w, o) PROVE SerialInv'
    <2>1. /\ handler'[w].pc = "check" /\ handler'[w].row = Idle.row
          /\ handler'[w].todo \subseteq OpsIn({"WAITING"}) /\ handler'[w].poll = FALSE
        BY <1>1, <1>8 DEF BeginStatusEvent, Idle, Row
    <2>2. OpsIn({"WAITING"})' = OpsIn({"WAITING"})
        BY <1>2 DEF OpsIn
    <2>3. LoadHolds(w)' /\ ListHolds(w)' /\ RowHolds(w)'
        BY <1>3, <2>1, <2>2 DEF LoadHolds, Loaded, ListHolds, RowHolds, Closed
    <2>4. QED BY <1>2, <2>3, SerialReads
<1>9. CASE CallFails(w) \/ Crash(w)
    <2>1. CASE handler'[w] = Idle
        BY <1>2, <1>3, <2>1, SerialRests
    <2>2. CASE handler'[w] # Idle
        <3>1. At(w, "startInit") /\ GoTo(w, "fail")
            BY <1>1, <1>9, <2>2 DEF CallFails, Crash, Return
        <3>2. handler'[w].pc = "fail" /\ handler'[w].row = handler[w].row
            BY <1>1, <3>1 DEF GoTo, Handlers
        <3>3. ~Closed(handler[w].row)
            BY <3>1, NotClosed DEF At
        <3>4. QED BY <1>2, <3>2, <3>3, SerialRests
    <2>3. QED BY <2>1, <2>2
<1>10. QED BY <1>4, <1>5, <1>6, <1>7, <1>8, <1>9 DEF BeginHandler

LEMMA SerialReading ==
    ASSUME OneHandler, SerialInv, LifecycleTypes', NEW w \in Workers, Reading(w)
    PROVE  SerialInv'
<1>1. handler \in [Workers -> Handlers] /\ handler[w] \in Handlers
    BY DEF SerialInv, LifecycleTypes
<1>2. UNCHANGED <<payment, opStatus>>
    BY ReadingTypes DEF SerialInv, rowVars
<1>3. OpsIn({"WAITING"})' = OpsIn({"WAITING"}) /\ Resolved(payment)' = Resolved(payment)
    BY <1>2 DEF OpsIn, Resolved
<1>4. LoadHolds(w) /\ ListHolds(w) /\ RowHolds(w)
    BY DEF SerialInv
<1>5. CASE Load(w)
    <2>1. CASE Resolved(payment)
        <3>1. handler'[w].pc = "idle" /\ ~Closed(handler'[w].row)
            BY <1>1, <1>5, <2>1 DEF Load, Return, Idle, Row, Closed
        <3>2. QED BY <1>2, <3>1, SerialRests
    <2>2. CASE ~Resolved(payment)
        <3>1. handler'[w].pc \in {"list", "sum"} /\ handler'[w].row = payment
            BY <1>1, <1>5, <2>2 DEF Load, Handlers
        <3>2. ~Closed(payment)
            BY <2>2, NotClosed
        <3>3. QED BY <1>2, <2>2, <3>1, <3>2, SerialGoesOn
    <2>3. QED BY <2>1, <2>2
<1>6. CASE ListWaiting(w)
    <2>1. /\ handler'[w].todo = OpsIn({"WAITING"}) /\ handler'[w].row = handler[w].row
          /\ handler'[w].pc = IF At(w, "list") THEN "check" ELSE "cancel"
          /\ At(w, "list") \/ At(w, "listWaiting")
        BY <1>1, <1>6 DEF ListWaiting, Handlers
    <2>2. LoadHolds(w)'
        BY <1>3, <1>4, <2>1 DEF LoadHolds, Loaded, At
    <2>3. ListHolds(w)' /\ RowHolds(w)'
        BY <1>3, <1>4, <2>1 DEF ListHolds, RowHolds, At
    <2>4. QED BY <1>2, <2>2, <2>3, SerialReads
<1>7. CASE ChecksDone(w)
    <2>1. handler'[w].row = handler[w].row /\ At(w, "check")
          /\ handler'[w].pc = IF handler[w].poll THEN "sum" ELSE "load"
        BY <1>1, <1>7 DEF ChecksDone, GoTo, Handlers
    <2>2. ~Closed(handler[w].row)
        BY <2>1, NotClosed DEF At
    <2>3. CASE handler[w].poll
        BY <1>2, <1>4, <2>1, <2>2, <2>3, SerialGoesOn DEF LoadHolds, At
    <2>4. CASE ~handler[w].poll
        BY <1>2, <2>1, <2>2, <2>4, SerialRests
    <2>5. QED BY <2>3, <2>4
<1>8. CASE Sum(w)
    <2>1. handler'[w].row.error = handler[w].row.error /\ At(w, "sum")
          /\ handler'[w].pc \in {"complete", "failed"}
        BY <1>1, <1>8 DEF Sum, GoTo, Handlers, PaymentRows
    <2>2. ~Closed(handler'[w].row) /\ ~Resolved(payment)
        BY <2>1, NotClosed DEF At, Closed, Loaded
    <2>3. QED BY <1>2, <2>1, <2>2, SerialGoesOn
<1>9. CASE LookForFailures(w)
    <2>1. /\ At(w, "failed")
          /\ \/ handler'[w].row = Row("FAILED", "EXPIRED") /\ handler'[w].pc = "listWaiting"
             \/ /\ handler'[w].row.error = handler[w].row.error
                /\ handler'[w].pc \in {"ongoing", "save"}
        BY <1>1, <1>9 DEF LookForFailures, GoTo, Handlers, PaymentRows
    <2>2. ~Closed(handler[w].row) /\ ~Resolved(payment)
        BY <2>1, NotClosed DEF At, Loaded
    <2>3. CASE handler'[w].row = Row("FAILED", "EXPIRED") /\ handler'[w].pc = "listWaiting"
        <3>1. LoadHolds(w)' /\ ListHolds(w)' /\ RowHolds(w)'
            BY <1>3, <2>2, <2>3 DEF LoadHolds, ListHolds, RowHolds, Closed, Row
        <3>2. QED BY <1>2, <3>1, SerialReads
    <2>4. CASE handler'[w].row.error = handler[w].row.error /\ handler'[w].pc \in {"ongoing", "save"}
        BY <1>2, <2>2, <2>4, SerialGoesOn DEF Closed
    <2>5. QED BY <2>1, <2>3, <2>4
<1>10. CASE LookForOngoing(w)
    <2>1. handler'[w].row.error = handler[w].row.error /\ At(w, "ongoing")
          /\ handler'[w].pc = "save"
        BY <1>1, <1>10 DEF LookForOngoing, Handlers, PaymentRows
    <2>2. ~Closed(handler'[w].row) /\ ~Resolved(payment)
        BY <2>1, NotClosed DEF At, Closed, Loaded
    <2>3. QED BY <1>2, <2>1, <2>2, SerialGoesOn
<1>11. CASE ListReady(w) \/ FiringDone(w) \/ FindOrders(w) \/ FindOldEntries(w)
    <2>1. /\ handler[w].pc \in {"listReady", "fire", "findOrders", "findOld"}
          /\ handler'[w].row = handler[w].row
          /\ handler'[w].pc \in {"fire", "findOrders", "saveOrders", "removeOld"}
        BY <1>1, <1>11 DEF ListReady, FiringDone, FindOrders, FindOldEntries, GoTo, At, Handlers
    <2>2. ~Closed(handler[w].row)
        BY <2>1, NotClosed
    <2>3. QED BY <1>2, <2>1, <2>2, SerialRests
<1>12. CASE CancelsDone(w)
    <2>1. /\ At(w, "cancel") /\ handler[w].todo = {}
          /\ handler'[w].row = handler[w].row /\ handler'[w].pc = "save"
        BY <1>1, <1>12 DEF CancelsDone, LoopDone, GoTo, Handlers
    <2>2. LoadHolds(w)' /\ ListHolds(w)'
        BY <1>3, <1>4, <2>1 DEF LoadHolds, Loaded, ListHolds, At
    <2>3. RowHolds(w)'
        BY <1>3, <1>4, <2>1 DEF ListHolds, RowHolds, At
    <2>4. QED BY <1>2, <2>2, <2>3, SerialReads
<1>13. CASE StartLoad(w)
    <2>1. CASE Resolved(payment)
        <3>1. handler'[w].pc = "fail" /\ handler'[w].row = handler[w].row
            BY <1>1, <1>13, <2>1 DEF StartLoad, GoTo, Handlers
        <3>2. ~Closed(handler[w].row)
            BY <1>13, NotClosed DEF StartLoad, At
        <3>3. QED BY <1>2, <3>1, <3>2, SerialRests
    <2>2. CASE ~Resolved(payment)
        <3>1. PICK n \in {CaptureAmount(a) : a \in Requested} :
                handler' = [handler EXCEPT ![w].row = payment, ![w].amount = n,
                                           ![w].pc = "startInit"]
            BY <1>13, <2>2 DEF StartLoad
        <3>2. handler'[w].pc = "startInit" /\ handler'[w].row = payment
            BY <1>1, <3>1 DEF Handlers
        <3>3. ~Closed(payment)
            BY <2>2, NotClosed
        <3>4. QED BY <1>2, <2>2, <3>2, <3>3, SerialGoesOn
    <2>3. QED BY <2>1, <2>2
<1>14. ASSUME NEW o \in Ops, AskChannel(w, o) PROVE SerialInv'
    <2>1. /\ At(w, "check") /\ o \in handler[w].todo /\ handler'[w].op = o
          /\ handler'[w].todo = handler[w].todo /\ handler'[w].row = handler[w].row
          /\ handler'[w].poll = handler[w].poll /\ handler'[w].pc = "recordCheck"
        BY <1>1, <1>14 DEF AskChannel, LoopOver, Handlers
    <2>2. LoadHolds(w)' /\ ListHolds(w)'
        BY <1>3, <1>4, <2>1 DEF LoadHolds, Loaded, ListHolds, At
    <2>3. RowHolds(w)'
        BY <1>4, <2>1 DEF RowHolds, At
    <2>4. QED BY <1>2, <2>2, <2>3, SerialReads
<1>15. QED BY <1>5, <1>6, <1>7, <1>8, <1>9, <1>10, <1>11, <1>12, <1>13, <1>14 DEF Reading

LEMMA SerialWriting ==
    ASSUME OneHandler, SerialInv, LifecycleTypes', NEW w \in Workers, Writing(w)
    PROVE  SerialInv'
<1>1. handler \in [Workers -> Handlers] /\ handler[w] \in Handlers
    BY DEF SerialInv, LifecycleTypes
<1>2. LoadHolds(w) /\ ListHolds(w) /\ RowHolds(w) /\ ClosedLeavesNothingWaiting
    BY DEF SerialInv
<1>3. opStatus \in [Ops -> OpStates]
    BY DEF SerialInv, LifecycleTypes
<1>4. CASE RecordAnswer(w)
    <2> DEFINE o == handler[w].op
    <2>1. /\ payment' = payment
          /\ At(w, "recordCheck") \/ At(w, "recordFire")
          /\ opStatus' = [opStatus EXCEPT ![o] = handler[w].answer]
          /\ handler'[w].todo = handler[w].todo \ {o}
          /\ handler'[w].row = handler[w].row /\ handler'[w].poll = handler[w].poll
          /\ handler'[w].pc = (IF At(w, "recordCheck") THEN "check" ELSE "fire")
        BY <1>1, <1>4 DEF RecordAnswer, Handlers
    <2> HIDE DEF o
    <2>2. \A x \in Ops : x # o => opStatus'[x] = opStatus[x]
        BY <1>3, <2>1
    <2>3. payment' = payment
        BY <1>4 DEF RecordAnswer
    <2>4. LoadHolds(w)'
        BY <1>2, <2>1, <2>3 DEF LoadHolds, Loaded, At, Resolved
    <2>5. ListHolds(w)'
        <3>1. CASE At(w, "recordCheck")
            BY <1>1, <1>2, <2>1, <2>2, <3>1 DEF ListHolds, At, OpsIn, Handlers
        <3>2. CASE ~At(w, "recordCheck")
            BY <2>1, <3>2 DEF ListHolds
        <3>3. QED BY <3>1, <3>2
    <2>6. RowHolds(w)'
        BY <1>2, <2>1 DEF RowHolds, At
    <2>7. ClosedLeavesNothingWaiting'
        <3>1. CASE At(w, "recordCheck")
            <4>1. o \in OpsIn({"WAITING"})
                BY <1>2, <3>1 DEF ListHolds, At, o
            <4>2. payment.error \notin {"CANCELLED", "EXPIRED"}
                BY <1>2, <4>1 DEF ClosedLeavesNothingWaiting
            <4>3. QED BY <2>3, <4>2 DEF ClosedLeavesNothingWaiting
        <3>2. CASE At(w, "recordFire")
            <4>1. OpsIn({"WAITING"})' \subseteq OpsIn({"WAITING"})
                BY <1>2, <1>3, <2>1, <3>2 DEF ListHolds, At, OpsIn
            <4>2. QED BY <1>2, <2>3, <4>1 DEF ClosedLeavesNothingWaiting
        <3>3. QED BY <1>4, <3>1, <3>2 DEF RecordAnswer
    <2>8. QED BY <2>3, <2>4, <2>5, <2>6, <2>7, SerialFromHandler DEF SerialInv
<1>5. CASE SavePayment(w)
    <2>1. /\ At(w, "save") /\ payment' = handler[w].row /\ handler'[w] = Idle
          /\ opStatus' = opStatus
        BY <1>1, <1>5 DEF SavePayment, Return
    <2>2. LoadHolds(w)' /\ ListHolds(w)' /\ RowHolds(w)'
        BY <2>1 DEF LoadHolds, Loaded, ListHolds, RowHolds, Closed, Idle, Row
    <2>3. Closed(payment') => payment'.status = "FAILED"
        BY <1>2, <2>1 DEF RowHolds
    <2>4. ClosedLeavesNothingWaiting'
        BY <1>2, <2>1 DEF RowHolds, At, Closed, ClosedLeavesNothingWaiting, OpsIn
    <2>5. QED BY <2>2, <2>3, <2>4, SerialFromHandler
<1>6. CASE SaveCompleted(w)
    <2>1. /\ At(w, "complete") /\ payment' = handler[w].row /\ opStatus' = opStatus
          /\ handler'[w].pc = "listReady" /\ handler'[w].row = handler[w].row
        BY <1>1, <1>6 DEF SaveCompleted, GoTo, Handlers
    <2>2. ~Closed(handler[w].row)
        BY <2>1, NotClosed DEF At
    <2>3. LoadHolds(w)' /\ ListHolds(w)' /\ RowHolds(w)'
        BY <2>1, <2>2 DEF LoadHolds, Loaded, ListHolds, RowHolds
    <2>4. ~Closed(payment') /\ ClosedLeavesNothingWaiting'
        BY <2>1, <2>2 DEF Closed, ClosedLeavesNothingWaiting
    <2>5. QED BY <2>3, <2>4, SerialFromHandler
<1>7. CASE SaveOrders(w) \/ RemoveOldEntries(w) \/ SaveEntries(w)
    <2>1. UNCHANGED <<payment, opStatus>>
        BY <1>7 DEF SaveOrders, RemoveOldEntries, SaveEntries, rowVars
    <2>2. /\ handler[w].pc \in {"saveOrders", "removeOld", "saveEntries"}
          /\ \/ handler'[w] = Idle
             \/ /\ handler'[w].row = handler[w].row
                /\ handler'[w].pc \in {"findOld", "saveEntries"}
        BY <1>1, <1>7 DEF SaveOrders, RemoveOldEntries, SaveEntries, GoTo, Return, At, Handlers
    <2>3. ~Closed(handler[w].row)
        BY <2>2, NotClosed
    <2>4. ~Closed(handler'[w].row) /\ handler'[w].pc \in {"idle", "findOld", "saveEntries"}
        BY <2>2, <2>3 DEF Idle, Row, Closed
    <2>5. QED BY <2>1, <2>4, SerialRests
<1>8. CASE RecordCancel(w)
    <2> DEFINE o == handler[w].op
    <2>1. /\ payment' = payment /\ At(w, "recordCancel")
          /\ opStatus' = [opStatus EXCEPT ![o] = "FAILED"]
          /\ handler'[w].todo = handler[w].todo \ {o}
          /\ handler'[w].row = handler[w].row /\ handler'[w].pc = "cancel"
        BY <1>1, <1>8 DEF RecordCancel, Handlers
    <2>2. OpsIn({"WAITING"})' \subseteq OpsIn({"WAITING"}) \ {o}
        BY <1>3, <2>1 DEF OpsIn
    <2>3. LoadHolds(w)'
        BY <1>2, <2>1 DEF LoadHolds, Loaded, At, Resolved
    <2>4. ListHolds(w)'
        BY <1>2, <2>1, <2>2 DEF ListHolds, At
    <2>5. RowHolds(w)'
        BY <1>2, <2>1 DEF RowHolds, At
    <2>6. ClosedLeavesNothingWaiting'
        BY <1>2, <2>1, <2>2 DEF ClosedLeavesNothingWaiting
    <2>7. QED BY <2>1, <2>3, <2>4, <2>5, <2>6, SerialFromHandler DEF SerialInv
<1>9. CASE StartRecord(w)
    <2>1. /\ payment' = payment /\ At(w, "startRecord")
          /\ handler'[w].row.error = handler[w].row.error /\ handler'[w].pc = "save"
        BY <1>1, <1>9 DEF StartRecord, Handlers, PaymentRows
    <2>2. ~Closed(handler'[w].row) /\ ~Resolved(payment) /\ ~Closed(payment)
        BY <2>1, NotClosed DEF At, Closed, Loaded
    <2>3. LoadHolds(w)' /\ ListHolds(w)' /\ RowHolds(w)'
        BY <2>1, <2>2 DEF LoadHolds, ListHolds, RowHolds, Resolved
    <2>4. ~Closed(payment') /\ ClosedLeavesNothingWaiting'
        BY <2>1, <2>2 DEF Closed, ClosedLeavesNothingWaiting
    <2>5. QED BY <2>3, <2>4, SerialFromHandler
<1>10. CASE FailPaymentIfSet(w)
    <2>1. /\ payment' = payment \/ payment' = Row("FAILED", "FAILED")
          /\ handler'[w] = Idle /\ opStatus' = opStatus
        BY <1>1, <1>10 DEF FailPaymentIfSet, Return
    <2>2. LoadHolds(w)' /\ ListHolds(w)' /\ RowHolds(w)'
        BY <2>1 DEF LoadHolds, Loaded, ListHolds, RowHolds, Closed, Idle, Row
    <2>3. Closed(payment') => payment'.status = "FAILED"
        BY <2>1 DEF SerialInv, Row
    <2>4. ClosedLeavesNothingWaiting'
        BY <1>2, <2>1 DEF ClosedLeavesNothingWaiting, OpsIn, Row
    <2>5. QED BY <2>2, <2>3, <2>4, SerialFromHandler
<1>11. ASSUME NEW o \in Ops, Fire(w, o) PROVE SerialInv'
    <2>1. UNCHANGED <<payment, opStatus>> /\ At(w, "fire")
        BY <1>11 DEF Fire, rowVars
    <2>2. ~Closed(handler[w].row)
        BY <2>1, NotClosed DEF At
    <2>3. \/ handler'[w] = Idle
          \/ /\ handler'[w].pc = "recordFire" /\ handler'[w].answer = "COMPLETED"
             /\ handler'[w].row = handler[w].row
        BY <1>1, <1>11 DEF Fire, Return, Handlers
    <2>4. LoadHolds(w)' /\ ListHolds(w)' /\ RowHolds(w)'
        BY <2>2, <2>3 DEF LoadHolds, Loaded, ListHolds, RowHolds, Closed, Idle, Row
    <2>5. QED BY <2>1, <2>4, SerialReads
<1>12. ASSUME NEW o \in Ops, CancelOperation(w, o) PROVE SerialInv'
    <2>1. UNCHANGED <<payment, opStatus>> /\ At(w, "cancel")
        BY <1>12 DEF CancelOperation, rowVars
    <2>2. /\ handler'[w].pc = "recordCancel" /\ handler'[w].row = handler[w].row
          /\ handler'[w].todo = handler[w].todo
        BY <1>1, <1>12 DEF CancelOperation, Handlers
    <2>3. LoadHolds(w)' /\ RowHolds(w)'
        BY <1>2, <2>1, <2>2 DEF LoadHolds, Loaded, RowHolds, At, Resolved
    <2>4. ListHolds(w)'
        BY <1>2, <2>1, <2>2 DEF ListHolds, At, OpsIn
    <2>5. QED BY <2>1, <2>3, <2>4, SerialReads
<1>13. ASSUME NEW o \in Ops, StartInit(w, o) PROVE SerialInv'
    <2>1. UNCHANGED <<payment, opStatus>> /\ At(w, "startInit")
        BY <1>13 DEF StartInit, rowVars
    <2>2. handler'[w].pc = "startRecord" /\ handler'[w].row = handler[w].row
        BY <1>1, <1>13 DEF StartInit, Handlers
    <2>3. ~Closed(handler[w].row) /\ ~Resolved(payment)
        BY <2>1, NotClosed DEF At, Loaded
    <2>4. QED BY <2>1, <2>2, <2>3, SerialGoesOn
<1>14. QED BY <1>4, <1>5, <1>6, <1>7, <1>8, <1>9, <1>10, <1>11, <1>12, <1>13 DEF Writing

LEMMA SerialStep ==
    ASSUME OneHandler
    PROVE  SerialInv /\ [Next]_vars => SerialInv'
<1> SUFFICES ASSUME SerialInv, [Next]_vars PROVE SerialInv'
    OBVIOUS
<1>1. LifecycleTypes'
    BY StepTypes DEF SerialInv
<1>2. ASSUME UNCHANGED <<payment, opStatus, handler>> PROVE SerialInv'
    BY <1>1, <1>2 DEF SerialInv, LoadHolds, ListHolds, RowHolds, OpsIn,
          ClosedLeavesNothingWaiting, Resolved
<1>3. CASE Next
    <2>1. ASSUME NEW o \in Ops, ChannelMoves(o) PROVE SerialInv'
        BY <1>2, <2>1 DEF ChannelMoves, rowVars
    <2>2. CASE TimePasses
        BY <1>2, <2>2 DEF TimePasses, rowVars
    <2>3. QED BY <1>1, <1>3, <2>1, <2>2, StepKinds, SerialBegin, SerialReading, SerialWriting
<1>4. CASE UNCHANGED vars
    BY <1>2, <1>4 DEF vars, rowVars
<1>5. QED BY <1>3, <1>4

LEMMA SerialInvHolds == ASSUME OneHandler PROVE Spec => []SerialInv
<1>1. SerialInv /\ [Next]_vars => SerialInv'
    BY SerialStep
<1>2. QED BY <1>1, SerialInit, PTL DEF Spec

\* When handlers do not overlap, a cancelled or expired purchase has no operation
\* left that a later check may find paid (cancelPaymentOperationsByPaymentId),
\* wherever a handler died, for any number of operations.
THEOREM ClosedLeavesNothingWaitingHolds ==
    ASSUME OneHandler PROVE Spec => []ClosedLeavesNothingWaiting
<1>1. SerialInv => ClosedLeavesNothingWaiting
    BY DEF SerialInv
<1>2. QED BY <1>1, SerialInvHolds, PTL

\* When handlers do not overlap, a resolved purchase changes only when a start on
\* it is refused (assertPaymentIsNotResolved, the return of a refresh, and
\* failPaymentIfSetFailFieldTrue).
THEOREM ResolvedIsFinalHolds ==
    ASSUME OneHandler PROVE Spec => ResolvedIsFinal
<1>1. SerialInv /\ [Next]_vars
        => [Resolved(payment) => payment' \in {payment, Row("FAILED", "FAILED")}]_vars
    <2> SUFFICES ASSUME SerialInv, Next, Resolved(payment)
                 PROVE  payment' \in {payment, Row("FAILED", "FAILED")}
        OBVIOUS
    <2>1. ASSUME NEW w \in Workers, SavePayment(w) \/ SaveCompleted(w) PROVE FALSE
        BY <2>1, NotClosed DEF SavePayment, SaveCompleted, At, Loaded
    <2>2. ASSUME NEW w \in Workers, FailPaymentIfSet(w)
          PROVE  payment' \in {payment, Row("FAILED", "FAILED")}
        BY <2>2 DEF FailPaymentIfSet
    <2>3. ASSUME NEW w \in Workers,
                 BeginHandler(w) \/ Reading(w) \/ CallFails(w) \/ Crash(w)
          PROVE  payment' = payment
        <3>1. CASE Reading(w)
            BY <3>1, ReadingTypes DEF SerialInv, rowVars
        <3>2. QED BY <2>3, <3>1 DEF BeginHandler, BeginPoll, BeginCheck, BeginCancel,
                  BeginStart, BeginStatusEvent, CallFails, Crash, rowVars
    <2>4. ASSUME NEW w \in Workers,
                 \/ RecordAnswer(w) \/ SaveOrders(w) \/ RemoveOldEntries(w) \/ SaveEntries(w)
                 \/ RecordCancel(w) \/ StartRecord(w)
                 \/ \E o \in Ops : Fire(w, o) \/ CancelOperation(w, o) \/ StartInit(w, o)
          PROVE  payment' = payment
        BY <2>4 DEF RecordAnswer, SaveOrders, RemoveOldEntries, SaveEntries, RecordCancel,
              StartRecord, Fire, CancelOperation, StartInit, rowVars
    <2>5. ASSUME TimePasses \/ \E o \in Ops : ChannelMoves(o) PROVE payment' = payment
        BY <2>5 DEF TimePasses, ChannelMoves, rowVars
    <2>6. QED BY <2>1, <2>2, <2>3, <2>4, <2>5, StepKinds DEF Writing
<1>2. QED BY <1>1, SerialInvHolds, PTL DEF ResolvedIsFinal, Spec
=============================================================================
