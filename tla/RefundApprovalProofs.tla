-------------------------- MODULE RefundApprovalProofs --------------------------
(***************************************************************************)
(* Theorems about RefundApproval for every number of requests, workers,      *)
(* captures and quantities.                                                  *)
(***************************************************************************)
EXTENDS RefundApproval, SumTheorems, TLAPS

(* What the helpers of the handlers do to the local state of the workers *)

\* The loop of an approval has a first capture, and a step past the last one.
LEMMA CaptureBounds ==
    /\ 1 \in Captures
    /\ Captures \subseteq 1..(NumCaptures + 1)
    /\ \A c \in Captures : /\ c + 1 \in 1..(NumCaptures + 1)
                           /\ c # NumCaptures => c + 1 \in Captures
  BY ConstantsAssumption DEF Captures

\* The quantities of a request are natural numbers.
LEMMA CountsAreNaturals == RequestedCounts \subseteq [Items -> Nat]
  BY ConstantsAssumption DEF RequestedCounts

\* Writing one column of one operation keeps the table typed.
LEMMA NestedUpdate ==
    ASSUME NEW A, NEW B, NEW S, NEW f \in [A -> [B -> S]],
           NEW a \in A, NEW b \in B, NEW v \in S
    PROVE  [f EXCEPT ![a][b] = v] \in [A -> [B -> S]]
  OBVIOUS

\* A handler that returns, throws out of its call or dies leaves typed state.
LEMMA AtRestTypes ==
    ASSUME WorkerTypes, NEW w \in Workers, AtRest(w)
    PROVE  WorkerTypes'
  BY CaptureBounds DEF WorkerTypes, AtRest, ProgramCounters

\* A handler that goes to a step of its approval keeps its request and capture.
LEMMA GoToTypes ==
    ASSUME WorkerTypes, NEW w \in Workers, NEW step \in ApprovalSteps,
           GoTo(w, step),
           \/ pc[w] \notin {"idle", "finalize", "release"}
           \/ pc[w] = "finalize" /\ step = "release"
    PROVE  WorkerTypes'
  BY DEF WorkerTypes, GoTo, ProgramCounters, ApprovalSteps

\* A throw ends the approval in its finally block.
LEMMA ThrowTypes ==
    ASSUME WorkerTypes, NEW w \in Workers, InFlight(w), pc[w] # "release", Throw(w)
    PROVE  WorkerTypes'
  BY GoToTypes DEF Throw, InFlight, ApprovalSteps

\* The loop ends after the last capture.
LEMMA AdvanceTypes ==
    ASSUME WorkerTypes, NEW w \in Workers, pc[w] \in {"reserve", "await"}, Advance(w)
    PROVE  WorkerTypes'
  BY CaptureBounds DEF WorkerTypes, Advance, ProgramCounters, ApprovalSteps

\* The type invariant: no handler of the refund system writes a column or a
\* local variable outside the values the code can hold.
THEOREM TypeCorrect == Spec => []TypeOK
<1>1. Init => TypeOK
  <2> SUFFICES ASSUME Init PROVE TypeOK
    OBVIOUS
  <2>1. RequestTypes /\ PurchaseTypes
    BY DEF Init, RequestTypes, PurchaseTypes
  <2>2. ChannelTypes
    BY DEF Init, ChannelTypes, OpStatuses
  <2>3. WorkerTypes
    BY CaptureBounds DEF Init, WorkerTypes, ProgramCounters
  <2>4. QED
    BY <2>1, <2>2, <2>3 DEF TypeOK
<1>2. TypeOK /\ [Next]_vars => TypeOK'
  <2> SUFFICES ASSUME TypeOK, [Next]_vars PROVE TypeOK'
    OBVIOUS
  <2>0. RequestTypes /\ PurchaseTypes /\ ChannelTypes /\ WorkerTypes
    BY DEF TypeOK
  <2> USE <2>0 DEF requestVars, purchaseVars, channelVars, workerVars
  <2>1. ASSUME NEW r \in Requests, NEW cnt \in RequestedCounts,
               CreateRefundRequest(r, cnt)
        PROVE  TypeOK'
    <3>1. RequestTypes' /\ PurchaseTypes'
      BY <2>1, CountsAreNaturals
         DEF CreateRefundRequest, RequestTypes, PurchaseTypes, NewRequest
    <3>2. ChannelTypes'
      BY <2>1 DEF CreateRefundRequest, ChannelTypes, OpStatuses
    <3>3. WorkerTypes'
      BY <2>1 DEF CreateRefundRequest, WorkerTypes, ProgramCounters
    <3>4. QED
      BY <3>1, <3>2, <3>3 DEF TypeOK
  <2>2. ASSUME NEW w \in Workers, NEW r \in Requests, NEW k \in Keys,
             NEW cnt \in RequestedCounts, StartSystemRefund(w, r, k, cnt)
        PROVE  TypeOK'
    <3>1. CASE UNCHANGED requestVars
      BY <2>2, <3>1
         DEF StartSystemRefund, TypeOK, RequestTypes, PurchaseTypes, ChannelTypes,
             WorkerTypes, ProgramCounters
    <3>2. CASE NewRequest(r, k, cnt)
      <4>1. RequestTypes'
        BY <2>2, <3>2, CountsAreNaturals
           DEF StartSystemRefund, NewRequest, RequestTypes
      <4>2. PurchaseTypes' /\ ChannelTypes'
        BY <2>2 DEF StartSystemRefund, PurchaseTypes, ChannelTypes
      <4>3. WorkerTypes'
        BY <2>2 DEF StartSystemRefund, WorkerTypes, ProgramCounters
      <4>4. QED
        BY <4>1, <4>2, <4>3 DEF TypeOK
    <3>3. QED
      BY <2>2, <3>1, <3>2 DEF StartSystemRefund
  <2>3. ASSUME NEW w \in Workers, NEW r \in Requests, RejectChecks(w, r)
        PROVE  TypeOK'
    <3>1. RequestTypes' /\ PurchaseTypes'
      BY <2>3 DEF MayReject, RejectChecks, RequestTypes, PurchaseTypes
    <3>2. ChannelTypes'
      BY <2>3 DEF MayReject, RejectChecks, ChannelTypes, OpStatuses
    <3>3. WorkerTypes'
      BY <2>3 DEF MayReject, RejectChecks, WorkerTypes, ProgramCounters
    <3>4. QED
      BY <3>1, <3>2, <3>3 DEF TypeOK
  <2>4. ASSUME NEW w \in Workers, NEW r \in Requests, ApproveRefundRequest(w, r)
        PROVE  TypeOK'
    <3>1. RequestTypes' /\ PurchaseTypes'
      BY <2>4 DEF ApproveRefundRequest, RequestTypes, PurchaseTypes
    <3>2. ChannelTypes'
      BY <2>4 DEF ApproveRefundRequest, ChannelTypes, OpStatuses
    <3>3. WorkerTypes'
      BY <2>4 DEF ApproveRefundRequest, WorkerTypes, ProgramCounters
    <3>4. QED
      BY <3>1, <3>2, <3>3 DEF TypeOK
  <2>5. ASSUME NEW w \in Workers, RejectCommits(w)
        PROVE  TypeOK'
    <3>1. RequestTypes' /\ PurchaseTypes'
      BY <2>5 DEF RejectCommits, RequestTypes, PurchaseTypes
    <3>2. ChannelTypes'
      BY <2>5 DEF RejectCommits, ChannelTypes, OpStatuses
    <3>3. WorkerTypes'
      BY <2>5, AtRestTypes DEF RejectCommits, InFlight, ApprovalSteps
    <3>4. QED
      BY <3>1, <3>2, <3>3 DEF TypeOK
  <2>6. ASSUME NEW w \in Workers, Claim(w)
        PROVE  TypeOK'
    <3>1. RequestTypes' /\ PurchaseTypes'
      BY <2>6 DEF Claim, RequestTypes, PurchaseTypes
    <3>2. ChannelTypes'
      BY <2>6 DEF Claim, ChannelTypes
    <3>3. CASE GoTo(w, "prepare")
      BY <2>6, <3>1, <3>2, <3>3
         DEF Claim, GoTo, TypeOK, WorkerTypes, ProgramCounters, ApprovalSteps
    <3>4. CASE AtRest(w)
      BY <3>1, <3>2, <3>4, AtRestTypes DEF TypeOK
    <3>5. QED
      BY <2>6, <3>3, <3>4 DEF Claim
  <2>7. ASSUME NEW w \in Workers, Prepare(w)
        PROVE  TypeOK'
    <3>1. RequestTypes' /\ PurchaseTypes'
      BY <2>7 DEF Prepare, RequestTypes, PurchaseTypes
    <3>2. ChannelTypes'
      BY <2>7 DEF Prepare, ChannelTypes, OpStatuses
    <3>3. WorkerTypes'
      BY <2>7, CaptureBounds, ConstantsAssumption
         DEF Prepare, WorkerTypes, ProgramCounters, ApprovalSteps, GoTo, Throw,
             AtRest, Advance
    <3>4. QED
      BY <3>1, <3>2, <3>3 DEF TypeOK
  <2>8. ASSUME NEW w \in Workers, PersistRefundPayment(w)
        PROVE  TypeOK'
    <3>1. RequestTypes' /\ PurchaseTypes'
      BY <2>8 DEF PersistRefundPayment, RequestTypes, PurchaseTypes
    <3>2. ChannelTypes'
      BY <2>8 DEF PersistRefundPayment, ChannelTypes, OpStatuses
    <3>3. WorkerTypes'
      BY <2>8, CaptureBounds, ConstantsAssumption
         DEF PersistRefundPayment, WorkerTypes, ProgramCounters, ApprovalSteps,
             GoTo, Throw, AtRest, Advance
    <3>4. QED
      BY <3>1, <3>2, <3>3 DEF TypeOK
  <2>9. ASSUME NEW w \in Workers, Allocate(w)
        PROVE  TypeOK'
    <3>1. RequestTypes' /\ PurchaseTypes' /\ ChannelTypes'
      BY <2>9 DEF Allocate, RequestTypes, PurchaseTypes, ChannelTypes
    <3>2. CASE Throw(w)
      BY <2>9, <3>1, <3>2, ThrowTypes DEF Allocate, InFlight, ApprovalSteps, TypeOK
    <3>3. ASSUME NEW a \in [Captures -> Amounts],
                 allocation' = [allocation EXCEPT ![w] = a],
                 pc' = [pc EXCEPT ![w] = "reserve"],
                 UNCHANGED <<req, next>>
          PROVE  WorkerTypes'
      <4>1. a \in [Captures -> Nat]
        BY ConstantsAssumption
      <4>2. QED
        BY <2>9, <3>3, <4>1
           DEF Allocate, WorkerTypes, ProgramCounters, ApprovalSteps
    <3>4. QED
      BY <2>9, <3>1, <3>2, <3>3 DEF Allocate, TypeOK
  <2>10. ASSUME NEW w \in Workers, ReserveOperation(w)
        PROVE  TypeOK'
    <3>1. RequestTypes' /\ PurchaseTypes'
      BY <2>10 DEF HasOperation, ReserveOperation, RequestTypes, PurchaseTypes
    <3>2. req[w] \in Requests /\ next[w] \in Captures /\ allocation[w][next[w]] \in Nat
      BY <2>10 DEF HasOperation, ReserveOperation, WorkerTypes
    <3>3. CASE opStatus[req[w]][next[w]] = "NONE" /\ allocation[w][next[w]] # 0
      <4>1. /\ opStatus' = [opStatus EXCEPT ![req[w]][next[w]] = "RESERVED"]
            /\ opAmount' = [opAmount EXCEPT ![req[w]][next[w]] = allocation[w][next[w]]]
            /\ sends' = sends
            /\ GoTo(w, "send")
        BY <2>10, <3>3 DEF HasOperation, ReserveOperation
      <4>2. ChannelTypes'
        BY <3>2, <4>1, NestedUpdate DEF ChannelTypes, OpStatuses
      <4>3. WorkerTypes'
        BY <2>10, <4>1
           DEF HasOperation, ReserveOperation, GoTo, WorkerTypes, ProgramCounters, ApprovalSteps
      <4>4. QED
        BY <3>1, <4>2, <4>3 DEF TypeOK
    <3>4. CASE ~(opStatus[req[w]][next[w]] = "NONE" /\ allocation[w][next[w]] # 0)
      <4>1. /\ UNCHANGED channelVars
            /\ Throw(w) \/ Advance(w)
        BY <2>10, <3>4 DEF HasOperation, ReserveOperation
      <4>2. ChannelTypes'
        BY <4>1 DEF ChannelTypes
      <4>3. WorkerTypes'
        BY <2>10, <4>1, ThrowTypes, AdvanceTypes
           DEF HasOperation, ReserveOperation, InFlight, ApprovalSteps
      <4>4. QED
        BY <3>1, <4>2, <4>3 DEF TypeOK
    <3>5. QED
      BY <3>3, <3>4
  <2>11. ASSUME NEW w \in Workers, SendInit(w)
        PROVE  TypeOK'
    <3>1. RequestTypes' /\ PurchaseTypes'
      BY <2>11 DEF SendInit, RequestTypes, PurchaseTypes
    <3>2. req[w] \in Requests /\ next[w] \in Captures
      BY <2>11 DEF SendInit, WorkerTypes
    <3>3. sends[req[w]][next[w]] + 1 \in Nat
      BY <3>2 DEF ChannelTypes
    <3>4. sends' = [sends EXCEPT ![req[w]][next[w]] = sends[req[w]][next[w]] + 1]
      BY <2>11 DEF SendInit
    <3>5. ChannelTypes'
      BY <2>11, <3>2, <3>3, <3>4, NestedUpdate DEF SendInit, ChannelTypes
    <3>6. WorkerTypes'
      BY <2>11 DEF SendInit, GoTo, WorkerTypes, ProgramCounters, ApprovalSteps
    <3>7. QED
      BY <3>1, <3>5, <3>6 DEF TypeOK
  <2>12. ASSUME NEW w \in Workers, InitAnswered(w)
        PROVE  TypeOK'
    <3>1. RequestTypes' /\ PurchaseTypes'
      BY <2>12 DEF InitAnswered, RequestTypes, PurchaseTypes
    <3>2. ChannelTypes'
      BY <2>12 DEF InitAnswered, ChannelTypes, OpStatuses, WorkerTypes
    <3>3. WorkerTypes'
      BY <2>12, AdvanceTypes, ThrowTypes DEF InitAnswered, InFlight, ApprovalSteps
    <3>4. QED
      BY <3>1, <3>2, <3>3 DEF TypeOK
  <2>13. ASSUME NEW w \in Workers, InitUnanswered(w)
        PROVE  TypeOK'
    <3>1. RequestTypes' /\ PurchaseTypes'
      BY <2>13 DEF InitUnanswered, RequestTypes, PurchaseTypes
    <3>2. ChannelTypes'
      BY <2>13 DEF InitUnanswered, ChannelTypes, OpStatuses
    <3>3. WorkerTypes'
      BY <2>13, ThrowTypes DEF InitUnanswered, InFlight, ApprovalSteps
    <3>4. QED
      BY <3>1, <3>2, <3>3 DEF TypeOK
  <2>14. ASSUME NEW w \in Workers, Finalize(w)
        PROVE  TypeOK'
    <3>1. RequestTypes'
      BY <2>14 DEF Finalize, RequestTypes, WorkerTypes
    <3>2. req[w] \in Requests
      BY <2>14 DEF Finalize, WorkerTypes
    <3>3. \A i \in Items : refunded[i] + counts[req[w]][i] \in Nat
      BY <3>2 DEF RequestTypes, PurchaseTypes
    <3>4. PurchaseTypes'
      BY <2>14, <3>3 DEF Finalize, PurchaseTypes
    <3>5. ChannelTypes'
      BY <2>14 DEF Finalize, ChannelTypes
    <3>6. WorkerTypes'
      BY <2>14, AtRestTypes, ThrowTypes DEF Finalize, InFlight, ApprovalSteps
    <3>7. QED
      BY <3>1, <3>4, <3>5, <3>6 DEF TypeOK
  <2>15. ASSUME NEW w \in Workers, ReleaseLease(w)
        PROVE  TypeOK'
    <3>1. RequestTypes' /\ PurchaseTypes'
      BY <2>15 DEF ReleaseLease, RequestTypes, PurchaseTypes
    <3>2. ChannelTypes'
      BY <2>15 DEF ReleaseLease, ChannelTypes, OpStatuses
    <3>3. WorkerTypes'
      BY <2>15, AtRestTypes DEF ReleaseLease, InFlight, ApprovalSteps
    <3>4. QED
      BY <3>1, <3>2, <3>3 DEF TypeOK
  <2>16. ASSUME NEW w \in Workers, Crash(w)
        PROVE  TypeOK'
    <3>1. RequestTypes' /\ PurchaseTypes'
      BY <2>16 DEF Crash, RequestTypes, PurchaseTypes
    <3>2. ChannelTypes'
      BY <2>16 DEF Crash, ChannelTypes, OpStatuses
    <3>3. WorkerTypes'
      BY <2>16, AtRestTypes DEF Crash, InFlight, ApprovalSteps
    <3>4. QED
      BY <3>1, <3>2, <3>3 DEF TypeOK
  <2>17. CASE LeaseExpires
    <3>1. RequestTypes' /\ PurchaseTypes'
      BY <2>17 DEF LeaseExpires, RequestTypes, PurchaseTypes
    <3>2. ChannelTypes'
      BY <2>17 DEF LeaseExpires, ChannelTypes, OpStatuses
    <3>3. WorkerTypes'
      BY <2>17 DEF LeaseExpires, WorkerTypes, ProgramCounters
    <3>4. QED
      BY <3>1, <3>2, <3>3 DEF TypeOK
  <2>18. ASSUME NEW r \in Requests, CancelRefundPayment(r)
        PROVE  TypeOK'
    <3>1. RequestTypes' /\ PurchaseTypes'
      BY <2>18 DEF CancelRefundPayment, RequestTypes, PurchaseTypes
    <3>2. ChannelTypes'
      BY <2>18 DEF CancelRefundPayment, ChannelTypes, OpStatuses
    <3>3. WorkerTypes'
      BY <2>18 DEF CancelRefundPayment, WorkerTypes, ProgramCounters
    <3>4. QED
      BY <3>1, <3>2, <3>3 DEF TypeOK
  <2>19. ASSUME NEW r \in Requests, NEW c \in Captures, AcceptedRefundFails(r, c)
        PROVE  TypeOK'
    <3>1. RequestTypes' /\ PurchaseTypes'
      BY <2>19 DEF AcceptedRefundFails, RequestTypes, PurchaseTypes
    <3>2. ChannelTypes'
      BY <2>19 DEF AcceptedRefundFails, ChannelTypes, OpStatuses
    <3>3. WorkerTypes'
      BY <2>19 DEF AcceptedRefundFails, WorkerTypes, ProgramCounters
    <3>4. QED
      BY <3>1, <3>2, <3>3 DEF TypeOK
  <2>20. CASE UNCHANGED vars
    BY <2>20 DEF vars, TypeOK, RequestTypes, PurchaseTypes, ChannelTypes,
           WorkerTypes
  <2>21. QED
    BY <2>1, <2>2, <2>3, <2>4, <2>5, <2>6, <2>7, <2>8, <2>9, <2>10, <2>11,
       <2>12, <2>13, <2>14, <2>15, <2>16, <2>17, <2>18, <2>19, <2>20
       DEF Next, HandlerStep
<1>3. QED
  BY <1>1, <1>2, PTL DEF Spec

-----------------------------------------------------------------------------
(* An operation is sent once *)

\* The handler holds a reserved operation that it sends or has sent.
Sending(w) == pc[w] \in {"send", "await"}

\* The reservation committed before the network call makes it the only one: an
\* operation that does not exist was not sent, one that a handler is sending is
\* RESERVED, was not sent before, and no second handler is sending it.
SendInv ==
    /\ \A r \in Requests, c \in Captures :
          /\ sends[r][c] <= 1
          /\ opStatus[r][c] = "NONE" => sends[r][c] = 0
    /\ \A w \in Workers :
          /\ Sending(w) => opStatus[req[w]][next[w]] = "RESERVED"
          /\ pc[w] = "send" => sends[req[w]][next[w]] = 0
    /\ \A v, w \in Workers :
          Sending(v) /\ Sending(w) /\ v # w
              => <<req[v], next[v]>> # <<req[w], next[w]>>

LEMMA SendInvInit == Init => SendInv
  BY DEF Init, SendInv, Sending

LEMMA SendInvStep == TypeOK /\ SendInv /\ [Next]_vars => SendInv'
<1> SUFFICES ASSUME TypeOK, SendInv, [Next]_vars PROVE SendInv'
  OBVIOUS
<1>0. RequestTypes /\ ChannelTypes /\ WorkerTypes
  BY DEF TypeOK
<1> USE <1>0
<1>1. ASSUME NEW r \in Requests, NEW cnt \in RequestedCounts, CreateRefundRequest(r, cnt)
      PROVE  SendInv'
  BY <1>1 DEF CreateRefundRequest, SendInv, Sending, workerVars, channelVars,
         purchaseVars
<1>2. ASSUME NEW w \in Workers, NEW r \in Requests, NEW k \in Keys,
           NEW cnt \in RequestedCounts, StartSystemRefund(w, r, k, cnt)
      PROVE  SendInv'
  BY <1>2 DEF StartSystemRefund, SendInv, Sending, GoTo, AtRest, Throw, Advance,
         channelVars,
        workerVars, purchaseVars, WorkerTypes
<1>3. ASSUME NEW w \in Workers, NEW r \in Requests, RejectChecks(w, r)
      PROVE  SendInv'
  BY <1>3 DEF MayReject, RejectChecks, SendInv, Sending, GoTo, AtRest, Throw,
         Advance, channelVars,
        workerVars, purchaseVars, WorkerTypes
<1>4. ASSUME NEW w \in Workers, NEW r \in Requests, ApproveRefundRequest(w, r)
      PROVE  SendInv'
  BY <1>4 DEF ApproveRefundRequest, SendInv, Sending, GoTo, AtRest, Throw,
         Advance, channelVars,
        workerVars, purchaseVars, WorkerTypes
<1>5. ASSUME NEW w \in Workers, RejectCommits(w)
      PROVE  SendInv'
  BY <1>5 DEF RejectCommits, SendInv, Sending, GoTo, AtRest, Throw, Advance,
         channelVars,
        workerVars, purchaseVars, WorkerTypes
<1>6. ASSUME NEW w \in Workers, Claim(w)
      PROVE  SendInv'
  <2>1. /\ UNCHANGED <<opStatus, sends>>
        /\ ~Sending(w)'
        /\ \A v \in Workers \ {w} :
              pc'[v] = pc[v] /\ req'[v] = req[v] /\ next'[v] = next[v]
    <3>1. CASE GoTo(w, "prepare")
      BY <1>6, <3>1 DEF Claim, GoTo, Sending, channelVars, WorkerTypes
    <3>2. CASE AtRest(w)
      BY <1>6, <3>2 DEF Claim, AtRest, Sending, channelVars, WorkerTypes
    <3>3. QED
      BY <1>6, <3>1, <3>2 DEF Claim
  <2>2. QED
    BY <2>1 DEF SendInv, Sending
<1>7. ASSUME NEW w \in Workers, Prepare(w)
      PROVE  SendInv'
  BY <1>7 DEF Prepare, SendInv, Sending, GoTo, AtRest, Throw, Advance, channelVars,
        workerVars, purchaseVars, WorkerTypes
<1>8. ASSUME NEW w \in Workers, PersistRefundPayment(w)
      PROVE  SendInv'
  BY <1>8 DEF PersistRefundPayment, SendInv, Sending, GoTo, AtRest, Throw,
         Advance, channelVars,
        workerVars, purchaseVars, WorkerTypes
<1>9. ASSUME NEW w \in Workers, Allocate(w)
      PROVE  SendInv'
  <2>1. /\ UNCHANGED <<opStatus, sends, req, next>>
        /\ \/ pc' = [pc EXCEPT ![w] = "reserve"]
           \/ pc' = [pc EXCEPT ![w] = "release"]
    BY <1>9 DEF Allocate, Throw, GoTo, channelVars
  <2>2. ~Sending(w)' /\ \A v \in Workers \ {w} : pc'[v] = pc[v]
    BY <2>1 DEF Sending, WorkerTypes
  <2>3. QED
    BY <2>1, <2>2 DEF SendInv, Sending
<1>10. ASSUME NEW w \in Workers, ReserveOperation(w)
      PROVE  SendInv'
  <2>1. req[w] \in Requests /\ next[w] \in Captures
    BY <1>10 DEF HasOperation, ReserveOperation, WorkerTypes
  <2>2. CASE opStatus[req[w]][next[w]] = "NONE" /\ allocation[w][next[w]] # 0
    <3>1. /\ opStatus' = [opStatus EXCEPT ![req[w]][next[w]] = "RESERVED"]
          /\ UNCHANGED <<sends, req, next>>
          /\ pc' = [pc EXCEPT ![w] = "send"]
      BY <1>10, <2>2 DEF HasOperation, ReserveOperation, GoTo
    <3>2. \A v \in Workers : Sending(v) => <<req[v], next[v]>> # <<req[w], next[w]>>
      BY <2>2 DEF SendInv
    <3>3. \A r \in Requests, c \in Captures :
             opStatus'[r][c] = IF r = req[w] /\ c = next[w] THEN "RESERVED"
                                                           ELSE opStatus[r][c]
      BY <2>1, <3>1 DEF ChannelTypes
    <3>4. \A v \in Workers : pc'[v] = IF v = w THEN "send" ELSE pc[v]
      BY <3>1 DEF WorkerTypes
    <3>5. QED
      BY <2>1, <2>2, <3>1, <3>2, <3>3, <3>4 DEF SendInv, Sending, WorkerTypes
  <2>3. CASE ~(opStatus[req[w]][next[w]] = "NONE" /\ allocation[w][next[w]] # 0)
    <3>1. /\ UNCHANGED <<opStatus, sends>>
          /\ Throw(w) \/ Advance(w)
      BY <1>10, <2>3 DEF HasOperation, ReserveOperation, channelVars
    <3>2. /\ req' = req /\ \A v \in Workers \ {w} : pc'[v] = pc[v] /\ next'[v] = next[v]
          /\ pc'[w] \in {"release", "finalize", "reserve"}
      BY <3>1 DEF Throw, GoTo, Advance, WorkerTypes
    <3>3. QED
      BY <3>1, <3>2 DEF SendInv, Sending
  <2>4. QED
    BY <2>2, <2>3
<1>11. ASSUME NEW w \in Workers, SendInit(w)
      PROVE  SendInv'
  <2>1. /\ req[w] \in Requests /\ next[w] \in Captures
        /\ sends[req[w]][next[w]] = 0
    BY <1>11 DEF SendInit, SendInv, WorkerTypes
  <2>2. \A r \in Requests, c \in Captures :
           sends'[r][c] = IF r = req[w] /\ c = next[w] THEN 1 ELSE sends[r][c]
    BY <1>11, <2>1 DEF SendInit, ChannelTypes
  <2>3. /\ UNCHANGED <<opStatus, req, next>>
        /\ \A v \in Workers : pc'[v] = IF v = w THEN "await" ELSE pc[v]
    BY <1>11 DEF SendInit, GoTo, WorkerTypes
  <2>4. opStatus[req[w]][next[w]] = "RESERVED"
    BY <1>11 DEF SendInit, SendInv, Sending
  <2>5. \A v \in Workers \ {w} :
           Sending(v) => <<req[v], next[v]>> # <<req[w], next[w]>>
    BY <1>11 DEF SendInit, SendInv, Sending
  <2>6. QED
    BY <1>11, <2>1, <2>2, <2>3, <2>4, <2>5
       DEF SendInit, SendInv, Sending, WorkerTypes
<1>12. ASSUME NEW w \in Workers, InitAnswered(w)
      PROVE  SendInv'
  <2>1. req[w] \in Requests /\ next[w] \in Captures /\ Sending(w)
    BY <1>12 DEF InitAnswered, WorkerTypes, Sending
  <2>2. PICK answer \in {"ACCEPTED", "FAILED"} :
           /\ opStatus' = [opStatus EXCEPT ![req[w]][next[w]] = answer]
           /\ IF answer = "FAILED" THEN Throw(w) ELSE Advance(w)
    BY <1>12 DEF InitAnswered
  <2>3. \A r \in Requests, c \in Captures :
           opStatus'[r][c] = IF r = req[w] /\ c = next[w] THEN answer
                                                         ELSE opStatus[r][c]
    BY <2>1, <2>2 DEF ChannelTypes
  <2>4. \A v \in Workers \ {w} :
           Sending(v) => <<req[v], next[v]>> # <<req[w], next[w]>>
    BY <2>1 DEF SendInv
  <2>5. /\ pc'[w] \in {"release", "reserve", "finalize"}
        /\ \A v \in Workers \ {w} : pc'[v] = pc[v] /\ next'[v] = next[v]
        /\ req' = req /\ sends' = sends
    BY <1>12, <2>2 DEF InitAnswered, Throw, GoTo, Advance, WorkerTypes
  <2>6. opStatus[req[w]][next[w]] = "RESERVED"
    BY <2>1 DEF SendInv
  <2>7. ASSUME NEW v \in Workers, Sending(v)'
        PROVE  v # w /\ Sending(v) /\ pc'[v] = pc[v] /\ next'[v] = next[v]
    BY <2>5, <2>7 DEF Sending
  <2>8. ASSUME NEW v \in Workers, Sending(v)'
        PROVE  /\ opStatus'[req[v]][next[v]] = "RESERVED"
               /\ pc[v] = "send" => sends[req[v]][next[v]] = 0
    <3>1. req[v] \in Requests /\ next[v] \in Captures
      BY <2>7, <2>8 DEF WorkerTypes, Sending
    <3>2. QED
      BY <2>3, <2>4, <2>7, <2>8, <3>1 DEF SendInv
  <2>9. \A r \in Requests, c \in Captures :
           opStatus'[r][c] = "NONE" => opStatus[r][c] = "NONE"
    BY <2>3
  <2>10. QED
    BY <2>5, <2>7, <2>8, <2>9 DEF SendInv
<1>13. ASSUME NEW w \in Workers, InitUnanswered(w)
      PROVE  SendInv'
  BY <1>13 DEF InitUnanswered, SendInv, Sending, GoTo, AtRest, Throw, Advance,
         channelVars,
        workerVars, purchaseVars, WorkerTypes
<1>14. ASSUME NEW w \in Workers, Finalize(w)
      PROVE  SendInv'
  BY <1>14 DEF Finalize, SendInv, Sending, GoTo, AtRest, Throw, Advance,
         channelVars,
        workerVars, purchaseVars, WorkerTypes
<1>15. ASSUME NEW w \in Workers, ReleaseLease(w)
      PROVE  SendInv'
  BY <1>15 DEF ReleaseLease, SendInv, Sending, GoTo, AtRest, Throw, Advance,
         channelVars,
        workerVars, purchaseVars, WorkerTypes
<1>16. ASSUME NEW w \in Workers, Crash(w)
      PROVE  SendInv'
  BY <1>16 DEF Crash, SendInv, Sending, GoTo, AtRest, Throw, Advance, channelVars,
        workerVars, purchaseVars, WorkerTypes
<1>17. CASE LeaseExpires
  BY <1>17 DEF LeaseExpires, SendInv, Sending, workerVars, channelVars, purchaseVars
<1>18. ASSUME NEW r \in Requests, CancelRefundPayment(r)
      PROVE  SendInv'
  BY <1>18 DEF CancelRefundPayment, SendInv, Sending, workerVars, channelVars,
         purchaseVars
<1>19. ASSUME NEW r \in Requests, NEW c \in Captures, AcceptedRefundFails(r, c)
      PROVE  SendInv'
  <2>1. \A x \in Requests, d \in Captures :
           opStatus'[x][d] = IF x = r /\ d = c THEN "FAILED" ELSE opStatus[x][d]
    BY <1>19 DEF AcceptedRefundFails, ChannelTypes
  <2>2. UNCHANGED <<sends, pc, req, next>>
    BY <1>19 DEF AcceptedRefundFails, workerVars
  <2>3. QED
    BY <1>19, <2>1, <2>2 DEF AcceptedRefundFails, SendInv, Sending, WorkerTypes
<1>20. CASE UNCHANGED vars
  BY <1>20 DEF vars, workerVars, channelVars, SendInv, Sending
<1>21. QED
  BY <1>1, <1>2, <1>3, <1>4, <1>5, <1>6, <1>7, <1>8, <1>9, <1>10, <1>11,
     <1>12, <1>13, <1>14, <1>15, <1>16, <1>17, <1>18, <1>19, <1>20
     DEF Next, HandlerStep

\* Channel operations are never initialised twice, whatever crashes, times out,
\* is retried, or overruns its lease.
THEOREM NeverSentTwiceHolds == Spec => []NeverSentTwice
<1>1. SendInv => NeverSentTwice
  BY DEF SendInv, NeverSentTwice
<1>2. QED
  BY <1>1, SendInvInit, SendInvStep, TypeCorrect, PTL DEF Spec

-----------------------------------------------------------------------------
(* Refunds stay within the purchase *)

\* No item is refunded more often than it was bought: the finalising
\* transaction repeats the check that was made before the lease was claimed.
THEOREM RefundedWithinPurchaseHolds == Spec => []RefundedWithinPurchase
<1>1. Init => RefundedWithinPurchase
  BY ConstantsAssumption DEF Init, RefundedWithinPurchase
<1>2. TypeOK /\ RefundedWithinPurchase /\ [Next]_vars => RefundedWithinPurchase'
  <2> SUFFICES ASSUME TypeOK, RefundedWithinPurchase, [Next]_vars
               PROVE  RefundedWithinPurchase'
    OBVIOUS
  <2>0. RequestTypes /\ WorkerTypes
    BY DEF TypeOK
  <2> USE <2>0
  <2>1. ASSUME NEW r \in Requests, NEW cnt \in RequestedCounts,
               CreateRefundRequest(r, cnt)
        PROVE  RefundedWithinPurchase'
    BY <2>1 DEF CreateRefundRequest, purchaseVars, RefundedWithinPurchase
  <2>2. ASSUME NEW w \in Workers, NEW r \in Requests, NEW k \in Keys,
             NEW cnt \in RequestedCounts, StartSystemRefund(w, r, k, cnt)
        PROVE  RefundedWithinPurchase'
    BY <2>2 DEF StartSystemRefund, purchaseVars, RefundedWithinPurchase
  <2>3. ASSUME NEW w \in Workers, NEW r \in Requests, RejectChecks(w, r)
        PROVE  RefundedWithinPurchase'
    BY <2>3 DEF MayReject, RejectChecks, purchaseVars, RefundedWithinPurchase
  <2>4. ASSUME NEW w \in Workers, NEW r \in Requests, ApproveRefundRequest(w, r)
        PROVE  RefundedWithinPurchase'
    BY <2>4 DEF ApproveRefundRequest, purchaseVars, RefundedWithinPurchase
  <2>5. ASSUME NEW w \in Workers, RejectCommits(w)
        PROVE  RefundedWithinPurchase'
    BY <2>5 DEF RejectCommits, purchaseVars, RefundedWithinPurchase
  <2>6. ASSUME NEW w \in Workers, Claim(w)
        PROVE  RefundedWithinPurchase'
    BY <2>6 DEF Claim, purchaseVars, RefundedWithinPurchase
  <2>7. ASSUME NEW w \in Workers, Prepare(w)
        PROVE  RefundedWithinPurchase'
    BY <2>7 DEF Prepare, purchaseVars, RefundedWithinPurchase
  <2>8. ASSUME NEW w \in Workers, PersistRefundPayment(w)
        PROVE  RefundedWithinPurchase'
    BY <2>8 DEF PersistRefundPayment, purchaseVars, RefundedWithinPurchase
  <2>9. ASSUME NEW w \in Workers, Allocate(w)
        PROVE  RefundedWithinPurchase'
    BY <2>9 DEF Allocate, purchaseVars, RefundedWithinPurchase
  <2>10. ASSUME NEW w \in Workers, ReserveOperation(w)
        PROVE  RefundedWithinPurchase'
    BY <2>10 DEF HasOperation, ReserveOperation, purchaseVars,
           RefundedWithinPurchase
  <2>11. ASSUME NEW w \in Workers, SendInit(w)
        PROVE  RefundedWithinPurchase'
    BY <2>11 DEF SendInit, purchaseVars, RefundedWithinPurchase
  <2>12. ASSUME NEW w \in Workers, InitAnswered(w)
        PROVE  RefundedWithinPurchase'
    BY <2>12 DEF InitAnswered, purchaseVars, RefundedWithinPurchase
  <2>13. ASSUME NEW w \in Workers, InitUnanswered(w)
        PROVE  RefundedWithinPurchase'
    BY <2>13 DEF InitUnanswered, purchaseVars, RefundedWithinPurchase
  <2>14. ASSUME NEW w \in Workers, Finalize(w)
        PROVE  RefundedWithinPurchase'
    <3>1. CASE MayFinalize(w)
      <4>1. req[w] \in Requests
        BY <2>14 DEF Finalize, WorkerTypes
      <4>2. \A i \in Items : refunded[i] + counts[req[w]][i] <= Quantity[i]
        BY <3>1, <4>1 DEF MayFinalize, FitsPurchase
      <4>3. refunded' = [i \in Items |-> refunded[i] + counts[req[w]][i]]
        BY <2>14, <3>1 DEF Finalize
      <4>4. QED
        BY <4>2, <4>3 DEF RefundedWithinPurchase
    <3>2. CASE ~MayFinalize(w)
      BY <2>14, <3>2 DEF Finalize, purchaseVars, RefundedWithinPurchase
    <3>3. QED
      BY <3>1, <3>2
  <2>15. ASSUME NEW w \in Workers, ReleaseLease(w)
        PROVE  RefundedWithinPurchase'
    BY <2>15 DEF ReleaseLease, purchaseVars, RefundedWithinPurchase
  <2>16. ASSUME NEW w \in Workers, Crash(w)
        PROVE  RefundedWithinPurchase'
    BY <2>16 DEF Crash, purchaseVars, RefundedWithinPurchase
  <2>17. CASE LeaseExpires
    BY <2>17 DEF LeaseExpires, purchaseVars, RefundedWithinPurchase
  <2>18. ASSUME NEW r \in Requests, CancelRefundPayment(r)
        PROVE  RefundedWithinPurchase'
    BY <2>18 DEF CancelRefundPayment, purchaseVars, RefundedWithinPurchase
  <2>19. ASSUME NEW r \in Requests, NEW c \in Captures, AcceptedRefundFails(r, c)
        PROVE  RefundedWithinPurchase'
    BY <2>19 DEF AcceptedRefundFails, purchaseVars, RefundedWithinPurchase
  <2>20. CASE UNCHANGED vars
    BY <2>20 DEF vars, purchaseVars, RefundedWithinPurchase
  <2>21. QED
    BY <2>1, <2>2, <2>3, <2>4, <2>5, <2>6, <2>7, <2>8, <2>9, <2>10, <2>11,
       <2>12, <2>13, <2>14, <2>15, <2>16, <2>17, <2>18, <2>19, <2>20
       DEF Next, HandlerStep
<1>3. QED
  BY <1>1, <1>2, TypeCorrect, PTL DEF Spec

-----------------------------------------------------------------------------
(* Resolutions are final *)

\* A handler at work has an existing request, and one between the checks and
\* the commit of a rejection holds the purchase row and has a PENDING request.
RejectInv ==
    \A w \in Workers :
        /\ pc[w] # "idle" => status[req[w]] # "NONE"
        /\ pc[w] = "reject" => lock = w /\ status[req[w]] = "PENDING"

LEMMA RejectInvInit == Init => RejectInv
  BY DEF Init, RejectInv

LEMMA RejectInvStep == TypeOK /\ RejectInv /\ [Next]_vars => RejectInv'
<1> SUFFICES ASSUME TypeOK, RejectInv, [Next]_vars PROVE RejectInv'
  OBVIOUS
<1>0. RequestTypes /\ PurchaseTypes /\ WorkerTypes
  BY DEF TypeOK
<1> USE <1>0
<1>1. ASSUME NEW r \in Requests, NEW cnt \in RequestedCounts, CreateRefundRequest(r, cnt)
      PROVE  RejectInv'
  BY <1>1 DEF CreateRefundRequest, NewRequest, RejectInv, workerVars,
         RequestTypes, WorkerTypes
<1>2. ASSUME NEW w \in Workers, NEW r \in Requests, NEW k \in Keys,
           NEW cnt \in RequestedCounts, StartSystemRefund(w, r, k, cnt)
      PROVE  RejectInv'
  <2>1. pc' = [pc EXCEPT ![w] = "claim"] /\ req' = [req EXCEPT ![w] = r] /\ lock' = lock
    BY <1>2 DEF StartSystemRefund
  <2>2. CASE UNCHANGED requestVars /\ status[r] = "PENDING"
    BY <2>1, <2>2 DEF RejectInv, requestVars, WorkerTypes
  <2>3. CASE NewRequest(r, k, cnt) /\ status[r] = "NONE"
    BY <2>1, <2>3 DEF RejectInv, NewRequest, WorkerTypes, RequestTypes
  <2>4. QED
    BY <1>2, <2>2, <2>3 DEF StartSystemRefund
<1>3. ASSUME NEW w \in Workers, NEW r \in Requests, RejectChecks(w, r)
      PROVE  RejectInv'
  <2>1. \A v \in Workers : pc[v] # "reject"
    BY <1>3, ConstantsAssumption
       DEF MayReject, RejectChecks, PurchaseRowFree, RejectInv
  <2>2. QED
    BY <1>3, <2>1 DEF MayReject, RejectChecks, RejectInv, WorkerTypes, requestVars
<1>4. ASSUME NEW w \in Workers, NEW r \in Requests, ApproveRefundRequest(w, r)
      PROVE  RejectInv'
  BY <1>4 DEF ApproveRefundRequest, RejectInv, GoTo, AtRest, Throw, Advance,
         requestVars, WorkerTypes
<1>5. ASSUME NEW w \in Workers, RejectCommits(w)
      PROVE  RejectInv'
  <2>1. /\ status' = [status EXCEPT ![req[w]] = "REJECTED"]
        /\ AtRest(w) /\ lock = w
    BY <1>5 DEF RejectCommits, RejectInv
  <2>2. \A v \in Workers \ {w} : pc[v] # "reject"
    BY <2>1 DEF RejectInv
  <2>3. QED
    BY <2>1, <2>2 DEF RejectInv, AtRest, WorkerTypes, RequestTypes
<1>6. ASSUME NEW w \in Workers, Claim(w)
      PROVE  RejectInv'
  <2>1. UNCHANGED <<status, lock>> /\ (GoTo(w, "prepare") \/ AtRest(w))
    BY <1>6 DEF Claim, requestVars
  <2>2. CASE GoTo(w, "prepare")
    BY <1>6, <2>1, <2>2 DEF Claim, GoTo, RejectInv, WorkerTypes
  <2>3. CASE AtRest(w)
    BY <2>1, <2>3 DEF AtRest, RejectInv, WorkerTypes
  <2>4. QED
    BY <2>1, <2>2, <2>3
<1>7. ASSUME NEW w \in Workers, Prepare(w)
      PROVE  RejectInv'
  BY <1>7 DEF Prepare, RejectInv, GoTo, AtRest, Throw, Advance, requestVars,
         WorkerTypes
<1>8. ASSUME NEW w \in Workers, PersistRefundPayment(w)
      PROVE  RejectInv'
  BY <1>8 DEF PersistRefundPayment, RejectInv, GoTo, AtRest, Throw, Advance,
         requestVars, WorkerTypes
<1>9. ASSUME NEW w \in Workers, Allocate(w)
      PROVE  RejectInv'
  <2>1. /\ UNCHANGED <<status, lock, req>>
        /\ \/ pc' = [pc EXCEPT ![w] = "reserve"]
           \/ pc' = [pc EXCEPT ![w] = "release"]
    BY <1>9 DEF Allocate, Throw, GoTo, requestVars
  <2>2. QED
    BY <1>9, <2>1 DEF Allocate, RejectInv, WorkerTypes
<1>10. ASSUME NEW w \in Workers, ReserveOperation(w)
      PROVE  RejectInv'
  BY <1>10 DEF HasOperation, ReserveOperation, RejectInv, GoTo, AtRest, Throw,
         Advance, requestVars, WorkerTypes
<1>11. ASSUME NEW w \in Workers, SendInit(w)
      PROVE  RejectInv'
  BY <1>11 DEF SendInit, RejectInv, GoTo, AtRest, Throw, Advance, requestVars,
         WorkerTypes
<1>12. ASSUME NEW w \in Workers, InitAnswered(w)
      PROVE  RejectInv'
  BY <1>12 DEF InitAnswered, RejectInv, GoTo, AtRest, Throw, Advance,
         requestVars, WorkerTypes
<1>13. ASSUME NEW w \in Workers, InitUnanswered(w)
      PROVE  RejectInv'
  BY <1>13 DEF InitUnanswered, RejectInv, GoTo, AtRest, Throw, Advance,
         requestVars, WorkerTypes
<1>14. ASSUME NEW w \in Workers, Finalize(w)
      PROVE  RejectInv'
  <2>1. CASE MayFinalize(w)
    <3>1. /\ status' = [status EXCEPT ![req[w]] = "APPROVED"]
          /\ AtRest(w) /\ lock' = lock /\ lock = NoWorker
      BY <1>14, <2>1 DEF Finalize, PurchaseRowFree
    <3>2. \A v \in Workers : pc[v] # "reject"
      BY <3>1, ConstantsAssumption DEF RejectInv
    <3>3. QED
      BY <3>1, <3>2 DEF RejectInv, AtRest, WorkerTypes, RequestTypes
  <2>2. CASE ~MayFinalize(w)
    BY <1>14, <2>2 DEF Finalize, Throw, GoTo, RejectInv, WorkerTypes
  <2>3. QED
    BY <2>1, <2>2
<1>15. ASSUME NEW w \in Workers, ReleaseLease(w)
      PROVE  RejectInv'
  BY <1>15 DEF ReleaseLease, RejectInv, GoTo, AtRest, Throw, Advance,
         requestVars, WorkerTypes
<1>16. ASSUME NEW w \in Workers, Crash(w)
      PROVE  RejectInv'
  BY <1>16 DEF Crash, RejectInv, GoTo, AtRest, Throw, Advance, requestVars,
         WorkerTypes
<1>17. CASE LeaseExpires
  BY <1>17 DEF LeaseExpires, RejectInv, workerVars, requestVars
<1>18. ASSUME NEW r \in Requests, CancelRefundPayment(r)
      PROVE  RejectInv'
  BY <1>18 DEF CancelRefundPayment, RejectInv, workerVars, requestVars
<1>19. ASSUME NEW r \in Requests, NEW c \in Captures, AcceptedRefundFails(r, c)
      PROVE  RejectInv'
  BY <1>19 DEF AcceptedRefundFails, RejectInv, workerVars, requestVars
<1>20. CASE UNCHANGED vars
  BY <1>20 DEF vars, requestVars, workerVars, RejectInv
<1>21. QED
  BY <1>1, <1>2, <1>3, <1>4, <1>5, <1>6, <1>7, <1>8, <1>9, <1>10, <1>11,
     <1>12, <1>13, <1>14, <1>15, <1>16, <1>17, <1>18, <1>19, <1>20
     DEF Next, HandlerStep

\* What a step may do to the requests and to the refunded counters.
Resolved ==
    /\ \A r \in Requests :
          status[r] \in {"APPROVED", "REJECTED"} => status'[r] = status[r]
    /\ \A i \in Items : refunded'[i] >= refunded[i]

LEMMA ResolvedStep == TypeOK /\ RejectInv /\ [Next]_vars => Resolved
<1> SUFFICES ASSUME TypeOK, RejectInv, [Next]_vars PROVE Resolved
  OBVIOUS
<1>0. RequestTypes /\ PurchaseTypes /\ WorkerTypes
  BY DEF TypeOK
<1> USE <1>0
<1>1. ASSUME NEW r \in Requests, NEW cnt \in RequestedCounts, CreateRefundRequest(r, cnt)
      PROVE  Resolved
  BY <1>1 DEF CreateRefundRequest, NewRequest, RequestTypes, PurchaseTypes,
         Resolved, requestVars, purchaseVars
<1>2. ASSUME NEW w \in Workers, NEW r \in Requests, NEW k \in Keys,
           NEW cnt \in RequestedCounts, StartSystemRefund(w, r, k, cnt)
      PROVE  Resolved
  BY <1>2 DEF StartSystemRefund, NewRequest, RequestTypes, PurchaseTypes,
         Resolved, requestVars, purchaseVars
<1>3. ASSUME NEW w \in Workers, NEW r \in Requests, RejectChecks(w, r)
      PROVE  Resolved
  BY <1>3 DEF MayReject, RejectChecks, Resolved, PurchaseTypes, requestVars,
         purchaseVars
<1>4. ASSUME NEW w \in Workers, NEW r \in Requests, ApproveRefundRequest(w, r)
      PROVE  Resolved
  BY <1>4 DEF ApproveRefundRequest, Resolved, PurchaseTypes, requestVars,
         purchaseVars
<1>5. ASSUME NEW w \in Workers, RejectCommits(w)
      PROVE  Resolved
  BY <1>5 DEF RejectCommits, RejectInv, RequestTypes, PurchaseTypes, WorkerTypes,
         Resolved,
        purchaseVars
<1>6. ASSUME NEW w \in Workers, Claim(w)
      PROVE  Resolved
  BY <1>6 DEF Claim, Resolved, PurchaseTypes, requestVars, purchaseVars
<1>7. ASSUME NEW w \in Workers, Prepare(w)
      PROVE  Resolved
  BY <1>7 DEF Prepare, Resolved, PurchaseTypes, requestVars, purchaseVars
<1>8. ASSUME NEW w \in Workers, PersistRefundPayment(w)
      PROVE  Resolved
  BY <1>8 DEF PersistRefundPayment, Resolved, PurchaseTypes, requestVars,
         purchaseVars
<1>9. ASSUME NEW w \in Workers, Allocate(w)
      PROVE  Resolved
  BY <1>9 DEF Allocate, Resolved, PurchaseTypes, requestVars, purchaseVars
<1>10. ASSUME NEW w \in Workers, ReserveOperation(w)
      PROVE  Resolved
  BY <1>10 DEF HasOperation, ReserveOperation, Resolved, PurchaseTypes,
         requestVars, purchaseVars
<1>11. ASSUME NEW w \in Workers, SendInit(w)
      PROVE  Resolved
  BY <1>11 DEF SendInit, Resolved, PurchaseTypes, requestVars, purchaseVars
<1>12. ASSUME NEW w \in Workers, InitAnswered(w)
      PROVE  Resolved
  BY <1>12 DEF InitAnswered, Resolved, PurchaseTypes, requestVars, purchaseVars
<1>13. ASSUME NEW w \in Workers, InitUnanswered(w)
      PROVE  Resolved
  BY <1>13 DEF InitUnanswered, Resolved, PurchaseTypes, requestVars, purchaseVars
<1>14. ASSUME NEW w \in Workers, Finalize(w)
      PROVE  Resolved
  <2>1. CASE MayFinalize(w)
    <3>1. req[w] \in Requests /\ status[req[w]] = "PENDING"
      BY <1>14, <2>1 DEF Finalize, MayFinalize, WorkerTypes
    <3>2. \A i \in Items : counts[req[w]][i] \in Nat /\ refunded[i] \in Nat
      BY <3>1 DEF RequestTypes, PurchaseTypes
    <3>3. /\ refunded' = [i \in Items |-> refunded[i] + counts[req[w]][i]]
          /\ status' = [status EXCEPT ![req[w]] = "APPROVED"]
      BY <1>14, <2>1 DEF Finalize
    <3>4. QED
      BY <3>1, <3>2, <3>3 DEF Resolved, RequestTypes
  <2>2. CASE ~MayFinalize(w)
    BY <1>14, <2>2 DEF Finalize, Resolved, PurchaseTypes, purchaseVars
  <2>3. QED
    BY <2>1, <2>2
<1>15. ASSUME NEW w \in Workers, ReleaseLease(w)
      PROVE  Resolved
  BY <1>15 DEF ReleaseLease, Resolved, PurchaseTypes, requestVars, purchaseVars
<1>16. ASSUME NEW w \in Workers, Crash(w)
      PROVE  Resolved
  BY <1>16 DEF Crash, Resolved, PurchaseTypes, requestVars, purchaseVars
<1>17. CASE LeaseExpires
  BY <1>17 DEF LeaseExpires, Resolved, PurchaseTypes, requestVars, purchaseVars
<1>18. ASSUME NEW r \in Requests, CancelRefundPayment(r)
      PROVE  Resolved
  BY <1>18 DEF CancelRefundPayment, Resolved, PurchaseTypes, requestVars,
         purchaseVars
<1>19. ASSUME NEW r \in Requests, NEW c \in Captures, AcceptedRefundFails(r, c)
      PROVE  Resolved
  BY <1>19 DEF AcceptedRefundFails, Resolved, PurchaseTypes, requestVars,
         purchaseVars
<1>20. CASE UNCHANGED vars
  BY <1>20 DEF vars, requestVars, purchaseVars, Resolved, PurchaseTypes
<1>21. QED
  BY <1>1, <1>2, <1>3, <1>4, <1>5, <1>6, <1>7, <1>8, <1>9, <1>10, <1>11,
     <1>12, <1>13, <1>14, <1>15, <1>16, <1>17, <1>18, <1>19, <1>20
     DEF Next, HandlerStep

\* An APPROVED request is never rejected, a REJECTED one never approved, and no
\* refunded unit returns, even when the lease of the approval has expired.
THEOREM ResolutionIsFinalHolds == Spec => ResolutionIsFinal
<1>1. TypeOK /\ RejectInv /\ [Next]_vars
        => [/\ \A r \in Requests :
                  status[r] \in {"APPROVED", "REJECTED"} => status'[r] = status[r]
            /\ \A i \in Items : refunded'[i] >= refunded[i]]_vars
  BY ResolvedStep DEF Resolved
<1>2. QED
  BY <1>1, RejectInvInit, RejectInvStep, TypeCorrect, PTL
     DEF Spec, ResolutionIsFinal

-----------------------------------------------------------------------------
(* The refund system implements the ledger *)

\* The ledger counts the quantities of pending requests as the code does.
LEMMA SameReserved == \A i \in Items : Reserved(i) = Ledger!Reserved(i)
  BY DEF Reserved, SumFunctionOnSet, FoldFunctionOnSet, MapThenFoldSet,
         Ledger!Reserved, Ledger!SumFunctionOnSet, Ledger!FoldFunctionOnSet,
         Ledger!MapThenFoldSet

LEMMA LedgerStep ==
    TypeOK /\ SendInv /\ RejectInv /\ [Next]_vars => [Ledger!Next]_(Ledger!ledgerVars)
<1> SUFFICES ASSUME TypeOK, SendInv, RejectInv, [Next]_vars
             PROVE  [Ledger!Next]_(Ledger!ledgerVars)
  OBVIOUS
<1>0. RequestTypes /\ ChannelTypes /\ WorkerTypes
  BY DEF TypeOK
<1> USE <1>0
<1>1. ASSUME NEW r \in Requests, NEW cnt \in RequestedCounts, CreateRefundRequest(r, cnt)
      PROVE  [Ledger!Next]_(Ledger!ledgerVars)
  <2>1. Ledger!Open(r, cnt)
    BY <1>1, SameReserved DEF CreateRefundRequest, NewRequest, CanReserve,
           Ledger!Open,
       purchaseVars, channelVars
  <2>2. QED
    BY <2>1 DEF Ledger!Next, RequestedCounts
<1>2. ASSUME NEW w \in Workers, NEW r \in Requests, NEW k \in Keys,
           NEW cnt \in RequestedCounts, StartSystemRefund(w, r, k, cnt)
      PROVE  [Ledger!Next]_(Ledger!ledgerVars)
  <2>1. CASE UNCHANGED requestVars
    BY <1>2, <2>1 DEF StartSystemRefund, Ledger!ledgerVars, requestVars,
           purchaseVars,
       channelVars
  <2>2. CASE status[r] = "NONE" /\ CanReserve(cnt) /\ NewRequest(r, k, cnt)
    <3>1. Ledger!Open(r, cnt)
      BY <1>2, <2>2, SameReserved DEF StartSystemRefund, NewRequest, CanReserve,
         Ledger!Open, purchaseVars, channelVars
    <3>2. QED
      BY <3>1 DEF Ledger!Next, RequestedCounts
  <2>3. QED
    BY <1>2, <2>1, <2>2 DEF StartSystemRefund
<1>3. ASSUME NEW w \in Workers, NEW r \in Requests, RejectChecks(w, r)
      PROVE  [Ledger!Next]_(Ledger!ledgerVars)
  BY <1>3 DEF MayReject, RejectChecks, Ledger!ledgerVars, requestVars,
         purchaseVars, channelVars
<1>4. ASSUME NEW w \in Workers, NEW r \in Requests, ApproveRefundRequest(w, r)
      PROVE  [Ledger!Next]_(Ledger!ledgerVars)
  BY <1>4 DEF ApproveRefundRequest, Ledger!ledgerVars, requestVars, purchaseVars,
         channelVars
<1>5. ASSUME NEW w \in Workers, RejectCommits(w)
      PROVE  [Ledger!Next]_(Ledger!ledgerVars)
  <2>1. Ledger!Reject(req[w]) /\ req[w] \in Requests
    BY <1>5 DEF RejectCommits, RejectInv, Ledger!Reject, purchaseVars, channelVars,
       WorkerTypes
  <2>2. QED
    BY <2>1 DEF Ledger!Next
<1>6. ASSUME NEW w \in Workers, Claim(w)
      PROVE  [Ledger!Next]_(Ledger!ledgerVars)
  BY <1>6 DEF Claim, Ledger!ledgerVars, requestVars, purchaseVars, channelVars
<1>7. ASSUME NEW w \in Workers, Prepare(w)
      PROVE  [Ledger!Next]_(Ledger!ledgerVars)
  BY <1>7 DEF Prepare, Ledger!ledgerVars, requestVars, purchaseVars, channelVars
<1>8. ASSUME NEW w \in Workers, PersistRefundPayment(w)
      PROVE  [Ledger!Next]_(Ledger!ledgerVars)
  BY <1>8 DEF PersistRefundPayment, Ledger!ledgerVars, requestVars, purchaseVars,
         channelVars
<1>9. ASSUME NEW w \in Workers, Allocate(w)
      PROVE  [Ledger!Next]_(Ledger!ledgerVars)
  BY <1>9 DEF Allocate, Ledger!ledgerVars, requestVars, purchaseVars, channelVars
<1>10. ASSUME NEW w \in Workers, ReserveOperation(w)
      PROVE  [Ledger!Next]_(Ledger!ledgerVars)
  BY <1>10 DEF HasOperation, ReserveOperation, Ledger!ledgerVars, requestVars,
         purchaseVars, channelVars
<1>11. ASSUME NEW w \in Workers, SendInit(w)
      PROVE  [Ledger!Next]_(Ledger!ledgerVars)
  <2>1. /\ req[w] \in Requests /\ next[w] \in Captures
        /\ sends[req[w]][next[w]] = 0 /\ status[req[w]] # "NONE"
    BY <1>11 DEF SendInit, SendInv, RejectInv, WorkerTypes
  <2>2. Ledger!Send(req[w], next[w])
    <3>1. sends' = [sends EXCEPT ![req[w]][next[w]] = 1]
      BY <1>11, <2>1 DEF SendInit, ChannelTypes
    <3>2. QED
      BY <1>11, <2>1, <3>1 DEF SendInit, Ledger!Send, requestVars, purchaseVars
  <2>3. QED
    BY <2>1, <2>2 DEF Ledger!Next
<1>12. ASSUME NEW w \in Workers, InitAnswered(w)
      PROVE  [Ledger!Next]_(Ledger!ledgerVars)
  BY <1>12 DEF InitAnswered, Ledger!ledgerVars, requestVars, purchaseVars,
         channelVars
<1>13. ASSUME NEW w \in Workers, InitUnanswered(w)
      PROVE  [Ledger!Next]_(Ledger!ledgerVars)
  BY <1>13 DEF InitUnanswered, Ledger!ledgerVars, requestVars, purchaseVars,
         channelVars
<1>14. ASSUME NEW w \in Workers, Finalize(w)
      PROVE  [Ledger!Next]_(Ledger!ledgerVars)
  <2>1. CASE MayFinalize(w)
    <3>1. Ledger!Approve(req[w]) /\ req[w] \in Requests
      BY <1>14, <2>1 DEF Finalize, MayFinalize, FitsPurchase, Ledger!Approve,
         channelVars, WorkerTypes
    <3>2. QED
      BY <3>1 DEF Ledger!Next
  <2>2. CASE ~MayFinalize(w)
    BY <1>14, <2>2 DEF Finalize, Ledger!ledgerVars, purchaseVars, channelVars
  <2>3. QED
    BY <2>1, <2>2
<1>15. ASSUME NEW w \in Workers, ReleaseLease(w)
      PROVE  [Ledger!Next]_(Ledger!ledgerVars)
  BY <1>15 DEF ReleaseLease, Ledger!ledgerVars, requestVars, purchaseVars,
         channelVars
<1>16. ASSUME NEW w \in Workers, Crash(w)
      PROVE  [Ledger!Next]_(Ledger!ledgerVars)
  BY <1>16 DEF Crash, Ledger!ledgerVars, requestVars, purchaseVars, channelVars
<1>17. CASE LeaseExpires
  BY <1>17 DEF LeaseExpires, Ledger!ledgerVars, requestVars, purchaseVars,
         channelVars
<1>18. ASSUME NEW r \in Requests, CancelRefundPayment(r)
      PROVE  [Ledger!Next]_(Ledger!ledgerVars)
  BY <1>18 DEF CancelRefundPayment, Ledger!ledgerVars, requestVars, purchaseVars,
         channelVars
<1>19. ASSUME NEW r \in Requests, NEW c \in Captures, AcceptedRefundFails(r, c)
      PROVE  [Ledger!Next]_(Ledger!ledgerVars)
  BY <1>19 DEF AcceptedRefundFails, Ledger!ledgerVars, requestVars, purchaseVars,
         channelVars
<1>20. CASE UNCHANGED vars
  BY <1>20 DEF vars, requestVars, purchaseVars, channelVars, Ledger!ledgerVars
<1>21. QED
  BY <1>1, <1>2, <1>3, <1>4, <1>5, <1>6, <1>7, <1>8, <1>9, <1>10, <1>11,
     <1>12, <1>13, <1>14, <1>15, <1>16, <1>17, <1>18, <1>19, <1>20
     DEF Next, HandlerStep

\* Every step of the refund system is a step of the ledger or changes nothing
\* the ledger shows.
THEOREM LedgerImplemented == Spec => ImplementsLedger
<1>1. Init => Ledger!Init
  BY DEF Init, Ledger!Init
<1>2. QED
  BY <1>1, LedgerStep, SendInvInit, SendInvStep, RejectInvInit, RejectInvStep,
     TypeCorrect, PTL
     DEF Spec, ImplementsLedger, Ledger!Spec

-----------------------------------------------------------------------------
(* What holds while no approval outlives its lease *)

\* An approval past its claim holds a live lease; a handler between the checks
\* and the commit of a rejection holds the purchase row, its request has no
\* refund payment and no approval is past its claim.
LeaseInv ==
    /\ \A w \in Workers : InFlight(w) => leaseToken = w /\ leaseLive
    /\ \A w \in Workers : pc[w] = "reject" =>
          /\ lock = w
          /\ refundPayment[req[w]] = "NONE"
          /\ \A v \in Workers : ~InFlight(v)
    /\ \A r \in Requests : status[r] = "REJECTED" => refundPayment[r] = "NONE"

LEMMA LeaseInvInit == Init => LeaseInv
  BY DEF Init, LeaseInv, InFlight, ApprovalSteps

LEMMA LeaseInvStep ==
    ASSUME TimelyApprovals
    PROVE  TypeOK /\ LeaseInv /\ [Next]_vars => LeaseInv'
<1> SUFFICES ASSUME TypeOK, LeaseInv, [Next]_vars PROVE LeaseInv'
  OBVIOUS
<1>0. RequestTypes /\ PurchaseTypes /\ WorkerTypes
  BY DEF TypeOK
<1> USE <1>0
<1>1. ASSUME NEW r \in Requests, NEW cnt \in RequestedCounts, CreateRefundRequest(r, cnt)
      PROVE  LeaseInv'
  BY <1>1 DEF CreateRefundRequest, NewRequest, LeaseInv, InFlight, ApprovalSteps,
         purchaseVars,
     workerVars, RequestTypes, WorkerTypes
<1>2. ASSUME NEW w \in Workers, NEW r \in Requests, NEW k \in Keys,
           NEW cnt \in RequestedCounts, StartSystemRefund(w, r, k, cnt)
      PROVE  LeaseInv'
  <2>1. /\ UNCHANGED <<purchaseVars, lock, refundPayment>>
        /\ pc' = [pc EXCEPT ![w] = "claim"] /\ req' = [req EXCEPT ![w] = r]
        /\ pc[w] = "idle"
    BY <1>2 DEF StartSystemRefund
  <2>2. \A x \in Requests : status'[x] = "REJECTED" => status[x] = "REJECTED"
    BY <1>2 DEF StartSystemRefund, NewRequest, requestVars, RequestTypes
  <2>3. QED
    BY <2>1, <2>2 DEF LeaseInv, InFlight, ApprovalSteps, purchaseVars, WorkerTypes
<1>3. ASSUME NEW w \in Workers, NEW r \in Requests, RejectChecks(w, r)
      PROVE  LeaseInv'
  <2>1. \A v \in Workers : ~InFlight(v) /\ pc[v] # "reject"
    BY <1>3, ConstantsAssumption
       DEF MayReject, RejectChecks, NoApprovalInProgress, PurchaseRowFree, LeaseInv
  <2>2. \A v \in Workers : ~InFlight(v)'
    BY <1>3, <2>1 DEF MayReject, RejectChecks, InFlight, ApprovalSteps, WorkerTypes
  <2>3. QED
    BY <1>3, <2>1, <2>2 DEF MayReject, RejectChecks, LeaseInv, purchaseVars,
           requestVars, WorkerTypes
<1>4. ASSUME NEW w \in Workers, NEW r \in Requests, ApproveRefundRequest(w, r)
      PROVE  LeaseInv'
  BY <1>4 DEF ApproveRefundRequest, LeaseInv, InFlight, ApprovalSteps, requestVars,
        purchaseVars, WorkerTypes
<1>5. ASSUME NEW w \in Workers, RejectCommits(w)
      PROVE  LeaseInv'
  <2>1. /\ status' = [status EXCEPT ![req[w]] = "REJECTED"]
        /\ AtRest(w) /\ UNCHANGED <<purchaseVars, refundPayment>>
        /\ refundPayment[req[w]] = "NONE"
        /\ req[w] \in Requests
        /\ lock = w
    BY <1>5 DEF RejectCommits, LeaseInv, WorkerTypes
  <2>2. \A v \in Workers : ~InFlight(v) /\ (v # w => pc[v] # "reject")
    BY <1>5, <2>1 DEF LeaseInv, RejectCommits
  <2>3. \A v \in Workers : ~InFlight(v)' /\ pc'[v] # "reject"
    BY <2>1, <2>2 DEF AtRest, InFlight, ApprovalSteps, WorkerTypes
  <2>4. QED
    BY <2>1, <2>3 DEF LeaseInv, RequestTypes
<1>6. ASSUME NEW w \in Workers, Claim(w)
      PROVE  LeaseInv'
  <2>1. UNCHANGED <<status, lock, refundPayment>> /\ lock = NoWorker
    BY <1>6 DEF Claim, requestVars, PurchaseRowFree
  <2>2. \A v \in Workers : pc[v] # "reject"
    BY <2>1, ConstantsAssumption DEF LeaseInv
  <2>3. CASE AtRest(w) /\ UNCHANGED purchaseVars
    BY <2>1, <2>2, <2>3
       DEF AtRest, LeaseInv, InFlight, ApprovalSteps, purchaseVars, WorkerTypes
  <2>4. CASE /\ NoApprovalInProgress
             /\ leaseToken' = w /\ leaseLive' = TRUE /\ GoTo(w, "prepare")
    <3>1. \A v \in Workers : ~InFlight(v)
      BY <2>4, ConstantsAssumption DEF NoApprovalInProgress, LeaseInv
    <3>2. QED
      BY <2>1, <2>2, <2>4, <3>1
         DEF GoTo, LeaseInv, InFlight, ApprovalSteps, WorkerTypes
  <2>5. QED
    BY <1>6, <2>3, <2>4 DEF Claim, MayClaim
<1>7. ASSUME NEW w \in Workers, Prepare(w)
      PROVE  LeaseInv'
  <2>1. UNCHANGED <<purchaseVars, lock, status, refundPayment, req>> /\ InFlight(w)
    BY <1>7 DEF Prepare, GoTo, Throw, Advance, InFlight, ApprovalSteps, requestVars
  <2>2. /\ pc'[w] \in ApprovalSteps
        /\ \A v \in Workers \ {w} : pc'[v] = pc[v]
    BY <1>7 DEF Prepare, GoTo, Throw, Advance, ApprovalSteps, WorkerTypes
  <2>3. QED
    BY <2>1, <2>2 DEF LeaseInv, InFlight, ApprovalSteps, purchaseVars
<1>8. ASSUME NEW w \in Workers, PersistRefundPayment(w)
      PROVE  LeaseInv'
  <2>1. /\ UNCHANGED <<purchaseVars, lock, status, req>>
        /\ InFlight(w)
        /\ pc' = [pc EXCEPT ![w] = "allocate"] \/ pc' = [pc EXCEPT ![w] = "release"]
        /\ \A x \in Requests :
              status[x] = "REJECTED" => refundPayment'[x] = refundPayment[x]
    BY <1>8 DEF PersistRefundPayment, GoTo, Throw, InFlight, ApprovalSteps,
           requestVars,
       RequestTypes, WorkerTypes
  <2>2. \A v \in Workers : pc[v] # "reject" /\ (InFlight(v)' => InFlight(v))
    BY <2>1 DEF LeaseInv, InFlight, ApprovalSteps, WorkerTypes
  <2>3. \A v \in Workers : pc'[v] # "reject"
    BY <2>1, <2>2 DEF WorkerTypes
  <2>4. QED
    BY <2>1, <2>2, <2>3 DEF LeaseInv, purchaseVars
<1>9. ASSUME NEW w \in Workers, Allocate(w)
      PROVE  LeaseInv'
  <2>1. UNCHANGED <<purchaseVars, lock, status, refundPayment, req>> /\ InFlight(w)
    BY <1>9 DEF Allocate, GoTo, Throw, Advance, InFlight, ApprovalSteps, requestVars
  <2>2. /\ pc'[w] \in ApprovalSteps
        /\ \A v \in Workers \ {w} : pc'[v] = pc[v]
    BY <1>9 DEF Allocate, GoTo, Throw, Advance, ApprovalSteps, WorkerTypes
  <2>3. QED
    BY <2>1, <2>2 DEF LeaseInv, InFlight, ApprovalSteps, purchaseVars
<1>10. ASSUME NEW w \in Workers, ReserveOperation(w)
      PROVE  LeaseInv'
  <2>1. UNCHANGED <<purchaseVars, lock, status, refundPayment, req>> /\ InFlight(w)
    BY <1>10 DEF HasOperation, ReserveOperation, GoTo, Throw, Advance, InFlight,
           ApprovalSteps, requestVars
  <2>2. /\ pc'[w] \in ApprovalSteps
        /\ \A v \in Workers \ {w} : pc'[v] = pc[v]
    BY <1>10 DEF HasOperation, ReserveOperation, GoTo, Throw, Advance,
           ApprovalSteps, WorkerTypes
  <2>3. QED
    BY <2>1, <2>2 DEF LeaseInv, InFlight, ApprovalSteps, purchaseVars
<1>11. ASSUME NEW w \in Workers, SendInit(w)
      PROVE  LeaseInv'
  <2>1. UNCHANGED <<purchaseVars, lock, status, refundPayment, req>> /\ InFlight(w)
    BY <1>11 DEF SendInit, GoTo, Throw, Advance, InFlight, ApprovalSteps,
           requestVars
  <2>2. /\ pc'[w] \in ApprovalSteps
        /\ \A v \in Workers \ {w} : pc'[v] = pc[v]
    BY <1>11 DEF SendInit, GoTo, Throw, Advance, ApprovalSteps, WorkerTypes
  <2>3. QED
    BY <2>1, <2>2 DEF LeaseInv, InFlight, ApprovalSteps, purchaseVars
<1>12. ASSUME NEW w \in Workers, InitAnswered(w)
      PROVE  LeaseInv'
  <2>1. UNCHANGED <<purchaseVars, lock, status, refundPayment, req>> /\ InFlight(w)
    BY <1>12 DEF InitAnswered, GoTo, Throw, Advance, InFlight, ApprovalSteps,
           requestVars
  <2>2. /\ pc'[w] \in ApprovalSteps
        /\ \A v \in Workers \ {w} : pc'[v] = pc[v]
    BY <1>12 DEF InitAnswered, GoTo, Throw, Advance, ApprovalSteps, WorkerTypes
  <2>3. QED
    BY <2>1, <2>2 DEF LeaseInv, InFlight, ApprovalSteps, purchaseVars
<1>13. ASSUME NEW w \in Workers, InitUnanswered(w)
      PROVE  LeaseInv'
  <2>1. UNCHANGED <<purchaseVars, lock, status, refundPayment, req>> /\ InFlight(w)
    BY <1>13 DEF InitUnanswered, GoTo, Throw, Advance, InFlight, ApprovalSteps,
           requestVars
  <2>2. /\ pc'[w] \in ApprovalSteps
        /\ \A v \in Workers \ {w} : pc'[v] = pc[v]
    BY <1>13 DEF InitUnanswered, GoTo, Throw, Advance, ApprovalSteps, WorkerTypes
  <2>3. QED
    BY <2>1, <2>2 DEF LeaseInv, InFlight, ApprovalSteps, purchaseVars
<1>14. ASSUME NEW w \in Workers, Finalize(w)
      PROVE  LeaseInv'
  <2>1. UNCHANGED <<refundPayment, lock>> /\ InFlight(w)
    BY <1>14 DEF Finalize, InFlight, ApprovalSteps
  <2>2. \A v \in Workers \ {w} : ~InFlight(v)
    BY <2>1 DEF LeaseInv
  <2>3. \A v \in Workers : pc[v] # "reject"
    BY <2>1 DEF LeaseInv
  <2>4. \A x \in Requests : status'[x] = "REJECTED" => status[x] = "REJECTED"
    BY <1>14 DEF Finalize, RequestTypes, WorkerTypes, requestVars
  <2>5. CASE AtRest(w)
    <3>1. \A v \in Workers : ~InFlight(v)' /\ pc'[v] # "reject"
      BY <2>2, <2>3, <2>5 DEF AtRest, InFlight, ApprovalSteps, WorkerTypes
    <3>2. QED
      BY <2>1, <2>4, <3>1 DEF LeaseInv
  <2>6. CASE Throw(w) /\ UNCHANGED purchaseVars
    BY <2>1, <2>2, <2>3, <2>4, <2>6
       DEF Throw, GoTo, LeaseInv, InFlight, ApprovalSteps, purchaseVars, WorkerTypes
  <2>7. QED
    BY <1>14, <2>5, <2>6 DEF Finalize
<1>15. ASSUME NEW w \in Workers, ReleaseLease(w)
      PROVE  LeaseInv'
  <2>1. UNCHANGED <<refundPayment, lock>> /\ InFlight(w)
    BY <1>15 DEF ReleaseLease, InFlight, ApprovalSteps
  <2>2. \A v \in Workers \ {w} : ~InFlight(v)
    BY <2>1 DEF LeaseInv
  <2>3. \A v \in Workers : pc[v] # "reject"
    BY <2>1 DEF LeaseInv
  <2>4. \A x \in Requests : status'[x] = "REJECTED" => status[x] = "REJECTED"
    BY <1>15 DEF ReleaseLease, RequestTypes, WorkerTypes, requestVars
  <2>5. CASE AtRest(w)
    <3>1. \A v \in Workers : ~InFlight(v)' /\ pc'[v] # "reject"
      BY <2>2, <2>3, <2>5 DEF AtRest, InFlight, ApprovalSteps, WorkerTypes
    <3>2. QED
      BY <2>1, <2>4, <3>1 DEF LeaseInv
  <2>6. QED
    BY <1>15, <2>5 DEF ReleaseLease
<1>16. ASSUME NEW w \in Workers, Crash(w)
      PROVE  LeaseInv'
  <2>1. /\ UNCHANGED <<purchaseVars, status, refundPayment>> /\ AtRest(w)
        /\ lock' = IF lock = w THEN NoWorker ELSE lock
    BY <1>16 DEF Crash, requestVars
  <2>2. \A v \in Workers :
           /\ InFlight(v)' => InFlight(v) /\ v # w
           /\ pc'[v] = "reject" => pc[v] = "reject" /\ v # w /\ req'[v] = req[v]
    BY <2>1 DEF AtRest, InFlight, ApprovalSteps, WorkerTypes
  <2>3. QED
    BY <2>1, <2>2 DEF LeaseInv, purchaseVars
<1>17. CASE LeaseExpires
  BY <1>17, TimelyApprovals DEF LeaseExpires, LeaseInv, InFlight, requestVars,
         workerVars
<1>18. ASSUME NEW r \in Requests, CancelRefundPayment(r)
      PROVE  LeaseInv'
  BY <1>18 DEF CancelRefundPayment, LeaseInv, InFlight, requestVars, purchaseVars,
        workerVars, RequestTypes, WorkerTypes
<1>19. ASSUME NEW r \in Requests, NEW c \in Captures, AcceptedRefundFails(r, c)
      PROVE  LeaseInv'
  BY <1>19 DEF AcceptedRefundFails, LeaseInv, InFlight, requestVars, purchaseVars,
        workerVars
<1>20. CASE UNCHANGED vars
  BY <1>20 DEF vars, requestVars, purchaseVars, workerVars, LeaseInv, InFlight
<1>21. QED
  BY <1>1, <1>2, <1>3, <1>4, <1>5, <1>6, <1>7, <1>8, <1>9, <1>10, <1>11,
     <1>12, <1>13, <1>14, <1>15, <1>16, <1>17, <1>18, <1>19, <1>20
     DEF Next, HandlerStep

\* While no approval outlives its lease, one approval of the purchase at a time
\* is past its claim.
THEOREM LeaseIsExclusiveHolds ==
    ASSUME TimelyApprovals
    PROVE  Spec => []LeaseIsExclusive
<1>1. LeaseInv => LeaseIsExclusive
  BY DEF LeaseInv, LeaseIsExclusive
<1>2. TypeOK /\ LeaseInv /\ [Next]_vars => LeaseInv'
  BY LeaseInvStep
<1>3. QED
  BY <1>1, <1>2, LeaseInvInit, TypeCorrect, PTL DEF Spec

\* While no approval outlives its lease, a request whose refund was initiated is
\* never rejected.
THEOREM InitiatedNeverRejectedHolds ==
    ASSUME TimelyApprovals
    PROVE  Spec => []InitiatedNeverRejected
<1>1. LeaseInv => InitiatedNeverRejected
  BY DEF LeaseInv, InitiatedNeverRejected
<1>2. TypeOK /\ LeaseInv /\ [Next]_vars => LeaseInv'
  BY LeaseInvStep
<1>3. QED
  BY <1>1, <1>2, LeaseInvInit, TypeCorrect, PTL DEF Spec
-----------------------------------------------------------------------------
(* The quantities are conserved *)

\* The requests that hold quantities, and those that have refunded them.
PendingRequests == {r \in Requests : status[r] = "PENDING"}
ApprovedRequests == {r \in Requests : status[r] = "APPROVED"}
CountsOf(i) == [r \in Requests |-> counts[r][i]]

\* What a request holds of an item is a natural number, now and after a step.
LEMMA CountTypes ==
    ASSUME RequestTypes, NEW i \in Items
    PROVE  /\ IsFiniteSet(PendingRequests) /\ IsFiniteSet(ApprovedRequests)
           /\ \A r \in Requests : CountsOf(i)[r] = counts[r][i] /\ CountsOf(i)[r] \in Nat
           /\ Reserved(i) = SumFunctionOnSet(CountsOf(i), PendingRequests)
           /\ Reserved(i) \in Nat
<1>1. IsFiniteSet(PendingRequests) /\ IsFiniteSet(ApprovedRequests)
  <2>1. PendingRequests \subseteq Requests /\ ApprovedRequests \subseteq Requests
    BY DEF PendingRequests, ApprovedRequests
  <2>2. QED
    BY <2>1, ConstantsAssumption, FS_Subset
<1>2. \A r \in Requests : CountsOf(i)[r] = counts[r][i] /\ CountsOf(i)[r] \in Nat
  BY DEF CountsOf, RequestTypes
<1>3. Reserved(i) = SumFunctionOnSet(CountsOf(i), PendingRequests)
  BY DEF Reserved, CountsOf, PendingRequests
<1>4. \A r \in PendingRequests : CountsOf(i)[r] \in Nat
  BY <1>2 DEF PendingRequests
<1>5. QED
  BY <1>1, <1>2, <1>3, <1>4, SumNat

\* Opening a request takes its quantities from what is free of the purchase.
LEMMA OpenConserves ==
    ASSUME TypeOK, TypeOK', QuantitiesConserved,
           NEW r \in Requests, NEW cnt \in [Items -> 0..MaxQuantity], Ledger!Open(r, cnt)
    PROVE  QuantitiesConserved'
<1>0. /\ RequestTypes /\ PurchaseTypes /\ RequestTypes'
      /\ status[r] = "NONE"
      /\ status' = [status EXCEPT ![r] = "PENDING"]
      /\ counts' = [counts EXCEPT ![r] = cnt]
      /\ refunded' = refunded
  BY DEF TypeOK, Ledger!Open
<1>1. SUFFICES ASSUME NEW i \in Items
               PROVE  /\ refunded'[i] + Reserved(i)' <= Quantity[i]
                      /\ refunded'[i] = SumFunctionOnSet(CountsOf(i)', ApprovedRequests')
  BY DEF QuantitiesConserved, CountsOf, ApprovedRequests
<1>2. /\ PendingRequests' = PendingRequests \cup {r} /\ r \notin PendingRequests
      /\ ApprovedRequests' = ApprovedRequests /\ r \notin ApprovedRequests
  BY <1>0 DEF PendingRequests, ApprovedRequests, RequestTypes
<1>3. /\ CountsOf(i)'[r] = cnt[i] /\ cnt[i] \in Nat
      /\ \A x \in Requests : CountsOf(i)[x] \in Nat /\ CountsOf(i)'[x] \in Nat
      /\ \A x \in Requests \ {r} : CountsOf(i)'[x] = CountsOf(i)[x]
  BY <1>0, ConstantsAssumption DEF CountsOf, RequestTypes
<1>4. /\ IsFiniteSet(PendingRequests) /\ IsFiniteSet(ApprovedRequests)
      /\ PendingRequests \subseteq Requests \ {r}
      /\ ApprovedRequests \subseteq Requests \ {r}
  BY <1>0, <1>2, CountTypes DEF PendingRequests, ApprovedRequests
<1>5. SumFunctionOnSet(CountsOf(i)', PendingRequests)
        = SumFunctionOnSet(CountsOf(i), PendingRequests)
  <2>1. \A x \in PendingRequests : CountsOf(i)'[x] \in Int /\ CountsOf(i)'[x] = CountsOf(i)[x]
    BY <1>3, <1>4
  <2>2. QED
    BY <2>1, <1>4, SumSame
<1>6. SumFunctionOnSet(CountsOf(i)', ApprovedRequests)
        = SumFunctionOnSet(CountsOf(i), ApprovedRequests)
  <2>1. \A x \in ApprovedRequests : CountsOf(i)'[x] \in Int /\ CountsOf(i)'[x] = CountsOf(i)[x]
    BY <1>3, <1>4
  <2>2. QED
    BY <2>1, <1>4, SumSame
<1>7. SumFunctionOnSet(CountsOf(i)', PendingRequests \cup {r})
        = SumFunctionOnSet(CountsOf(i)', PendingRequests) + cnt[i]
  <2>1. CountsOf(i)'[r] \in Int /\ \A x \in PendingRequests : CountsOf(i)'[x] \in Int
    BY <1>3, <1>4
  <2>2. QED
    BY <1>2, <1>3, <1>4, <2>1, SumAdd
<1>8. Reserved(i)' = Reserved(i) + cnt[i] /\ Reserved(i) \in Nat
  BY <1>0, <1>2, <1>5, <1>7, CountTypes DEF Reserved, CountsOf, PendingRequests
<1>9. refunded[i] + Reserved(i)' <= Quantity[i]
  <2>1. /\ cnt[i] > 0 => refunded[i] + Reserved(i) + cnt[i] <= Quantity[i]
        /\ refunded[i] + Reserved(i) <= Quantity[i]
    BY SameReserved DEF Ledger!Open, QuantitiesConserved
  <2>2. refunded[i] \in Nat /\ Quantity[i] \in Nat
    BY <1>0, ConstantsAssumption DEF PurchaseTypes
  <2>3. QED
    BY <1>3, <1>8, <2>1, <2>2
<1>10. refunded[i] = SumFunctionOnSet(CountsOf(i), ApprovedRequests)
  BY DEF QuantitiesConserved, CountsOf, ApprovedRequests
<1>11. QED
  BY <1>0, <1>2, <1>6, <1>9, <1>10

\* Resolving a request frees its quantities or moves them to the refunded ones.
LEMMA ResolveConserves ==
    ASSUME TypeOK, QuantitiesConserved, NEW r \in Requests,
           Ledger!Approve(r) \/ Ledger!Reject(r)
    PROVE  QuantitiesConserved'
<1>0. /\ RequestTypes /\ PurchaseTypes /\ counts' = counts
      /\ status[r] = "PENDING"
      /\ status' \in { [status EXCEPT ![r] = "APPROVED"], [status EXCEPT ![r] = "REJECTED"] }
  BY DEF TypeOK, Ledger!Approve, Ledger!Reject
<1>1. SUFFICES ASSUME NEW i \in Items
               PROVE  /\ refunded'[i] + Reserved(i)' <= Quantity[i]
                      /\ refunded'[i] = SumFunctionOnSet(CountsOf(i)', ApprovedRequests')
  BY DEF QuantitiesConserved, CountsOf, ApprovedRequests
<1>2. /\ PendingRequests' = PendingRequests \ {r} /\ r \in PendingRequests
      /\ r \notin ApprovedRequests
      /\ PendingRequests \subseteq Requests /\ ApprovedRequests \subseteq Requests
  BY <1>0 DEF PendingRequests, ApprovedRequests, RequestTypes
<1>3. CountsOf(i)' = CountsOf(i)
  BY <1>0 DEF CountsOf
<1>4. /\ IsFiniteSet(PendingRequests) /\ IsFiniteSet(ApprovedRequests)
      /\ \A x \in Requests : CountsOf(i)[x] = counts[x][i] /\ CountsOf(i)[x] \in Nat
      /\ Reserved(i) = SumFunctionOnSet(CountsOf(i), PendingRequests)
  BY <1>0, CountTypes
<1>5. SumFunctionOnSet(CountsOf(i), PendingRequests)
        = counts[r][i] + SumFunctionOnSet(CountsOf(i), PendingRequests \ {r})
  <2>1. \A x \in PendingRequests : CountsOf(i)[x] \in Int
    BY <1>2, <1>4
  <2>2. QED
    BY <1>2, <1>4, <2>1, SumRemove
<1>6. SumFunctionOnSet(CountsOf(i), PendingRequests \ {r}) \in Nat
  <2>1. IsFiniteSet(PendingRequests \ {r}) /\ \A x \in PendingRequests \ {r} : CountsOf(i)[x] \in Nat
    BY <1>2, <1>4, FS_Subset
  <2>2. QED
    BY <2>1, SumNat
<1>7. Reserved(i)' = SumFunctionOnSet(CountsOf(i), PendingRequests \ {r})
  BY <1>2, <1>3 DEF Reserved, CountsOf, PendingRequests
<1>8. SumFunctionOnSet(CountsOf(i), ApprovedRequests \cup {r})
        = SumFunctionOnSet(CountsOf(i), ApprovedRequests) + counts[r][i]
  <2>1. CountsOf(i)[r] \in Int /\ \A x \in ApprovedRequests : CountsOf(i)[x] \in Int
    BY <1>2, <1>4
  <2>2. QED
    BY <1>2, <1>4, <2>1, SumAdd
<1>9. /\ refunded[i] + Reserved(i) <= Quantity[i]
      /\ refunded[i] = SumFunctionOnSet(CountsOf(i), ApprovedRequests)
      /\ refunded[i] \in Nat /\ Quantity[i] \in Nat /\ counts[r][i] \in Nat
  <2>1. /\ refunded[i] + Reserved(i) <= Quantity[i]
        /\ refunded[i] = SumFunctionOnSet(CountsOf(i), ApprovedRequests)
    BY DEF QuantitiesConserved, CountsOf, ApprovedRequests
  <2>2. refunded[i] \in Nat /\ Quantity[i] \in Nat /\ counts[r][i] \in Nat
    BY <1>0, ConstantsAssumption DEF RequestTypes, PurchaseTypes
  <2>3. QED
    BY <2>1, <2>2
<1>10. CASE Ledger!Approve(r)
  <2>1. refunded'[i] = refunded[i] + counts[r][i]
    BY <1>10 DEF Ledger!Approve
  <2>2. ApprovedRequests' = ApprovedRequests \cup {r}
    BY <1>0, <1>10 DEF Ledger!Approve, ApprovedRequests, RequestTypes
  <2>3. refunded'[i] + Reserved(i)' <= Quantity[i]
    BY <2>1, <1>4, <1>5, <1>6, <1>7, <1>9
  <2>4. QED
    BY <2>1, <2>2, <2>3, <1>3, <1>8, <1>9
<1>11. CASE Ledger!Reject(r)
  <2>1. refunded'[i] = refunded[i]
    BY <1>11 DEF Ledger!Reject
  <2>2. ApprovedRequests' = ApprovedRequests
    BY <1>0, <1>11 DEF Ledger!Reject, ApprovedRequests, RequestTypes
  <2>3. refunded'[i] + Reserved(i)' <= Quantity[i]
    BY <2>1, <1>4, <1>5, <1>6, <1>7, <1>9
  <2>4. QED
    BY <2>1, <2>2, <2>3, <1>3, <1>9
<1>12. QED
  BY <1>10, <1>11

\* Held and refunded units never exceed what was bought, and the item counters
\* are the sums of the approved requests, whatever expires, crashes or races:
\* the refund system inherits it from the ledger it implements.
THEOREM QuantitiesConservedHolds == Spec => []QuantitiesConserved
<1>1. Init => QuantitiesConserved
  <2> SUFFICES ASSUME Init, NEW i \in Items
               PROVE  /\ refunded[i] + Reserved(i) <= Quantity[i]
                      /\ refunded[i] = SumFunctionOnSet(CountsOf(i), ApprovedRequests)
    BY DEF QuantitiesConserved, CountsOf, ApprovedRequests
  <2>1. PendingRequests = {} /\ ApprovedRequests = {} /\ refunded[i] = 0
    BY DEF Init, PendingRequests, ApprovedRequests
  <2>2. Reserved(i) = SumFunctionOnSet(CountsOf(i), PendingRequests)
    BY DEF Reserved, CountsOf, PendingRequests
  <2>3. Reserved(i) = 0 /\ SumFunctionOnSet(CountsOf(i), ApprovedRequests) = 0
    BY <2>1, <2>2, SumOfNone
  <2>4. Quantity[i] \in Nat
    BY ConstantsAssumption
  <2>5. QED
    BY <2>1, <2>3, <2>4
<1>2. TypeOK /\ TypeOK' /\ SendInv /\ RejectInv /\ QuantitiesConserved /\ [Next]_vars
        => QuantitiesConserved'
  <2> SUFFICES ASSUME TypeOK, TypeOK', SendInv, RejectInv, QuantitiesConserved, [Next]_vars
               PROVE  QuantitiesConserved'
    OBVIOUS
  <2>1. [Ledger!Next]_(Ledger!ledgerVars)
    BY LedgerStep
  <2>2. CASE UNCHANGED <<status, counts, refunded>>
    BY <2>2 DEF QuantitiesConserved, Reserved
  <2>3. CASE ~UNCHANGED <<status, counts, refunded>>
    <3>1. Ledger!Next
      BY <2>1, <2>3 DEF Ledger!ledgerVars
    <3>2. PICK r \in Requests :
             \/ \E cnt \in [Items -> 0..MaxQuantity] : Ledger!Open(r, cnt)
             \/ Ledger!Approve(r)
             \/ Ledger!Reject(r)
      BY <3>1, <2>3 DEF Ledger!Next, Ledger!Send
    <3>3. QED
      BY <3>2, OpenConserves, ResolveConserves
  <2>4. QED
    BY <2>2, <2>3
<1>3. QED
  BY <1>1, <1>2, SendInvInit, SendInvStep, RejectInvInit, RejectInvStep, TypeCorrect, PTL
     DEF Spec
-----------------------------------------------------------------------------
(* The split of a refund over the captures *)

\* A proportional share, rounded down, takes no more than its capture has, and
\* leaves no more than the captures after it have.
LEMMA SplitFits ==
    ASSUME NEW l \in Nat, NEW av \in Nat, NEW rest \in Nat, l <= rest, av <= rest, rest # 0,
           NEW q, q = (l * av) \div rest
    PROVE  q \in Nat /\ q <= av /\ q <= l /\ l - q <= rest - av
<1>1. l * av \in Nat
  OBVIOUS
<1>2. q \in Nat /\ q * rest <= l * av /\ l * av < (q + 1) * rest
  BY <1>1
<1>3. l * av <= rest * av /\ l * av <= l * rest
  OBVIOUS
<1>4. q <= av
  <2>1. SUFFICES ASSUME q >= av + 1 PROVE FALSE
    BY <1>2
  <2>2. q * rest >= (av + 1) * rest
    BY <1>2, <2>1
  <2>3. QED
    BY <1>2, <1>3, <2>2
<1>5. q <= l
  <2>1. SUFFICES ASSUME q >= l + 1 PROVE FALSE
    BY <1>2
  <2>2. q * rest >= (l + 1) * rest
    BY <1>2, <2>1
  <2>3. QED
    BY <1>2, <1>3, <2>2
<1>6. l - q <= rest - av
  <2>1. SUFFICES ASSUME q + 1 <= l - rest + av PROVE FALSE
    BY <1>2
  <2>2. (q + 1) * rest <= (l - rest + av) * rest
    BY <1>2, <2>1
  <2>3. (rest - l) * (rest - av) >= 0
    OBVIOUS
  <2>4. QED
    BY <1>2, <2>2, <2>3
<1>7. QED
  BY <1>2, <1>4, <1>5, <1>6

\* What is left of the refund before capture c, and what the captures from c on
\* have available for it.
LeftAt(r, a, c) == RefundAmount(r) - SumFunctionOnSet(a, 1..(c - 1))

\* The refund of a request is a natural number of money units.
LEMMA RefundAmountIsNatural ==
    ASSUME RequestTypes, NEW r \in Requests
    PROVE  RefundAmount(r) \in Nat
<1> DEFINE f == [i \in Items |-> counts[r][i] * Price[i]]
<1>1. \A i \in Items : f[i] \in Nat
  BY ConstantsAssumption DEF RequestTypes
<1> HIDE DEF f
<1>2. SumFunctionOnSet(f, Items) \in Nat
  BY <1>1, ConstantsAssumption, SumNat
<1>3. QED
  BY <1>2 DEF RefundAmount, f

\* What is available of the captures from c on, with capture c taken off.
LEMMA AvailableSplits ==
    ASSUME NEW r \in Requests, \A d \in Captures : Available(r, d) \in Nat, NEW c \in Captures
    PROVE  /\ AvailableFrom(r, c) = Available(r, c) + AvailableFrom(r, c + 1)
           /\ AvailableFrom(r, c) \in Nat /\ AvailableFrom(r, c + 1) \in Nat
<1> DEFINE f == [d \in Captures |-> Available(r, d)]
<1>0. c \in Nat /\ NumCaptures \in Nat /\ Captures = 1..NumCaptures
  BY ConstantsAssumption DEF Captures
<1>1. /\ IsFiniteSet(c..NumCaptures) /\ IsFiniteSet((c + 1)..NumCaptures)
      /\ c \in c..NumCaptures
      /\ (c..NumCaptures) \ {c} = (c + 1)..NumCaptures
      /\ c..NumCaptures \subseteq Captures /\ (c + 1)..NumCaptures \subseteq Captures
  <2>1. c \in Int /\ c + 1 \in Int /\ NumCaptures \in Int /\ c >= 1 /\ c <= NumCaptures
    BY <1>0
  <2>2. IsFiniteSet(c..NumCaptures) /\ IsFiniteSet((c + 1)..NumCaptures)
    BY <2>1, FS_Interval
  <2>3. c \in c..NumCaptures /\ (c..NumCaptures) \ {c} = (c + 1)..NumCaptures
    BY <2>1
  <2>4. c..NumCaptures \subseteq Captures /\ (c + 1)..NumCaptures \subseteq Captures
    BY <1>0, <2>1
  <2>5. QED
    BY <2>2, <2>3, <2>4
<1>2. \A d \in Captures : f[d] = Available(r, d) /\ f[d] \in Nat
  OBVIOUS
<1>3. /\ AvailableFrom(r, c) = SumFunctionOnSet(f, c..NumCaptures)
      /\ AvailableFrom(r, c + 1) = SumFunctionOnSet(f, (c + 1)..NumCaptures)
  BY DEF AvailableFrom
<1> HIDE DEF f
<1>4. \A d \in c..NumCaptures : f[d] \in Nat /\ f[d] \in Int
  BY <1>1, <1>2
<1>5. SumFunctionOnSet(f, c..NumCaptures) = f[c] + SumFunctionOnSet(f, (c..NumCaptures) \ {c})
  <2> DEFINE S == c..NumCaptures
  <2>1. IsFiniteSet(S) /\ (\A d \in S : f[d] \in Int) /\ c \in S
    BY <1>1, <1>4
  <2> HIDE DEF S
  <2>2. SumFunctionOnSet(f, S) = f[c] + SumFunctionOnSet(f, S \ {c})
    BY <2>1, SumRemove
  <2>3. QED
    BY <2>2 DEF S
<1>6. /\ SumFunctionOnSet(f, c..NumCaptures) \in Nat
      /\ SumFunctionOnSet(f, (c + 1)..NumCaptures) \in Nat
  BY <1>1, <1>2, SumNat
<1>7. QED
  BY <1>1, <1>2, <1>3, <1>5, <1>6

\* What is left after capture c is what was left before it, less its share.
LEMMA LeftSplits ==
    ASSUME NEW r \in Requests, RefundAmount(r) \in Nat,
           NEW a \in [Captures -> Nat], NEW c \in Captures
    PROVE  /\ LeftAt(r, a, c) \in Int
           /\ LeftAt(r, a, c + 1) = LeftAt(r, a, c) - a[c]
<1>0. c \in Nat /\ c >= 1 /\ NumCaptures \in Nat
  BY ConstantsAssumption DEF Captures
<1>1. /\ IsFiniteSet(1..(c - 1)) /\ c \notin 1..(c - 1)
      /\ 1..((c + 1) - 1) = (1..(c - 1)) \cup {c}
      /\ 1..(c - 1) \subseteq Captures
  <2>1. c \in Int /\ c - 1 \in Int /\ NumCaptures \in Int /\ c <= NumCaptures
    BY <1>0 DEF Captures
  <2>2. IsFiniteSet(1..(c - 1))
    BY <2>1, FS_Interval
  <2>3. c \notin 1..(c - 1) /\ 1..((c + 1) - 1) = (1..(c - 1)) \cup {c}
    BY <1>0, <2>1
  <2>4. 1..(c - 1) \subseteq Captures
    BY <1>0, <2>1 DEF Captures
  <2>5. QED
    BY <2>2, <2>3, <2>4
<1>2. a[c] \in Int /\ \A d \in 1..(c - 1) : a[d] \in Int
  BY <1>1
<1>3. SumFunctionOnSet(a, (1..(c - 1)) \cup {c}) = SumFunctionOnSet(a, 1..(c - 1)) + a[c]
  BY <1>1, <1>2, SumAdd
<1>4. SumFunctionOnSet(a, 1..(c - 1)) \in Int
  BY <1>1, <1>2, SumInt
<1>5. LeftAt(r, a, c + 1) = RefundAmount(r) - (SumFunctionOnSet(a, 1..(c - 1)) + a[c])
  BY <1>1, <1>3 DEF LeftAt
<1>6. LeftAt(r, a, c) = RefundAmount(r) - SumFunctionOnSet(a, 1..(c - 1))
  BY DEF LeftAt
<1>7. QED
  BY <1>2, <1>4, <1>5, <1>6

\* One capture of the split: it gets no more than it has available, and what is
\* left still fits the captures after it.
LEMMA ShareFits ==
    ASSUME NEW r \in Requests, RefundAmount(r) \in Nat,
           \A d \in Captures : Available(r, d) \in Nat,
           NEW a \in [Captures -> Nat], IsCaptureAllocation(r, a), NEW c \in Captures,
           LeftAt(r, a, c) >= 0, LeftAt(r, a, c) <= AvailableFrom(r, c)
    PROVE  /\ a[c] <= Available(r, c)
           /\ LeftAt(r, a, c + 1) >= 0
           /\ LeftAt(r, a, c + 1) <= AvailableFrom(r, c + 1)
<1> DEFINE left == LeftAt(r, a, c)
           rest == AvailableFrom(r, c)
           av == Available(r, c)
<1>1. /\ rest = av + AvailableFrom(r, c + 1)
      /\ rest \in Nat /\ AvailableFrom(r, c + 1) \in Nat /\ av \in Nat
  BY AvailableSplits
<1>2. left \in Nat /\ left <= rest /\ LeftAt(r, a, c + 1) = left - a[c] /\ a[c] \in Nat
  BY LeftSplits
<1>3. a[c] = CASE rest = 0 -> 0
               [] rest # 0 /\ rest = av -> left
               [] OTHER -> (left * av) \div rest
  BY DEF IsCaptureAllocation, LeftAt
<1> HIDE DEF left, rest, av
<1>4. SUFFICES a[c] <= av /\ a[c] <= left /\ left - a[c] <= AvailableFrom(r, c + 1)
  BY <1>2 DEF av
<1>5. CASE rest = 0
  BY <1>1, <1>2, <1>3, <1>5
<1>6. CASE rest # 0 /\ rest = av
  BY <1>1, <1>2, <1>3, <1>6
<1>7. CASE rest # 0 /\ rest # av
  <2>1. a[c] = (left * av) \div rest
    BY <1>3, <1>7
  <2>2. av <= rest
    BY <1>1
  <2>3. a[c] <= av /\ a[c] <= left /\ left - a[c] <= rest - av
    BY <1>1, <1>2, <1>7, <2>1, <2>2, SplitFits
  <2>4. QED
    BY <1>1, <1>2, <2>3
<1>8. QED
  BY <1>5, <1>6, <1>7

\* refundCaptureAllocations: when the captures suffice, the shares are the whole
\* refund and none exceeds what its capture has available.  Rounding down never
\* leaves the last capture more than it has.
LEMMA AllocationFits ==
    ASSUME NEW r \in Requests, RefundAmount(r) \in Nat,
           \A d \in Captures : Available(r, d) \in Nat,
           RefundAmount(r) <= AvailableFrom(r, 1),
           NEW a \in [Captures -> Nat], IsCaptureAllocation(r, a)
    PROVE  /\ \A c \in Captures : a[c] <= Available(r, c)
           /\ SumFunctionOnSet(a, Captures) = RefundAmount(r)
<1> DEFINE Fits(c) == LeftAt(r, a, c) >= 0 /\ LeftAt(r, a, c) <= AvailableFrom(r, c)
           B == {c \in 1..(NumCaptures + 1) : ~Fits(c)}
<1>0. NumCaptures \in Nat \ {0} /\ Captures = 1..NumCaptures
  BY ConstantsAssumption DEF Captures
<1>1. Fits(1)
  <2>1. 1..(1 - 1) = {}
    OBVIOUS
  <2>2. LeftAt(r, a, 1) = RefundAmount(r)
    BY <2>1, SumOfNone DEF LeftAt
  <2>3. QED
    BY <2>2
<1>2. ASSUME NEW c \in Captures, Fits(c) PROVE Fits(c + 1)
  BY <1>2, ShareFits
<1>3. B = {}
  <2>1. SUFFICES ASSUME B # {} PROVE FALSE
    OBVIOUS
  <2>2. B \subseteq Nat
    BY <1>0
  <2>3. PICK m \in B : \A k \in B : m <= k
    <3> HIDE DEF B
    <3>1. QED
      BY <2>1, <2>2, LeastNatural
  <2>4. m \in 1..(NumCaptures + 1) /\ ~Fits(m)
    OBVIOUS
  <2> HIDE DEF Fits
  <2>5. m # 1
    BY <1>1, <2>4
  <2>6. m - 1 \in Captures /\ (m - 1) + 1 = m
    BY <1>0, <2>4, <2>5
  <2>7. m - 1 \notin B
    BY <2>3, <2>4, <1>0
  <2>8. Fits(m - 1)
    BY <2>6, <2>7, <1>0
  <2>9. QED
    BY <1>2, <2>4, <2>6, <2>8
<1>4. \A c \in 1..(NumCaptures + 1) : Fits(c)
  BY <1>3
<1>5. ASSUME NEW c \in Captures PROVE a[c] <= Available(r, c)
  <2>1. Fits(c)
    BY <1>0, <1>4
  <2>2. QED
    BY <2>1, ShareFits
<1>6. SumFunctionOnSet(a, Captures) = RefundAmount(r)
  <2>1. Fits(NumCaptures + 1)
    BY <1>0, <1>4
  <2>2. (NumCaptures + 1)..NumCaptures = {} /\ 1..((NumCaptures + 1) - 1) = Captures
    BY <1>0
  <2>3. AvailableFrom(r, NumCaptures + 1) = 0
    BY <2>2, SumOfNone DEF AvailableFrom
  <2>4. LeftAt(r, a, NumCaptures + 1) = RefundAmount(r) - SumFunctionOnSet(a, Captures)
    BY <2>2 DEF LeftAt
  <2>5. SumFunctionOnSet(a, Captures) \in Int
    <3>1. IsFiniteSet(Captures) /\ \A c \in Captures : a[c] \in Int
      BY <1>0, FS_Interval
    <3>2. QED
      BY <3>1, SumInt
  <2>6. QED
    BY <2>1, <2>3, <2>4, <2>5
<1>7. QED
  BY <1>5, <1>6
-----------------------------------------------------------------------------
(* What lasts, whatever a step does *)

\* A request is approved by a handler that finalises it.
NewlyApproved(r) ==
    status'[r] = "APPROVED" /\ status[r] # "APPROVED"
        => \E w \in Workers : pc[w] = "finalize" /\ req[w] = r

\* The quantities of a request, the amount of an operation and the fact that it
\* was answered, and the existence of the refund payment do not change.
Lasting ==
    \A r \in Requests :
        /\ status[r] # "NONE" => counts'[r] = counts[r]
        /\ refundPayment[r] # "NONE" => refundPayment'[r] # "NONE"
        /\ \A c \in Captures :
              /\ opStatus[r][c] # "NONE" => opAmount'[r][c] = opAmount[r][c]
              /\ opStatus[r][c] \in {"ACCEPTED", "FAILED"}
                    => opStatus'[r][c] \in {"ACCEPTED", "FAILED"}
        /\ NewlyApproved(r)

LEMMA LastingStep == TypeOK /\ [Next]_vars => Lasting
<1> SUFFICES ASSUME TypeOK, [Next]_vars PROVE Lasting
  OBVIOUS
<1>0. RequestTypes /\ ChannelTypes /\ WorkerTypes
  BY DEF TypeOK
<1> USE <1>0
<1>1. ASSUME NEW r \in Requests, NEW cnt \in RequestedCounts, CreateRefundRequest(r, cnt)
      PROVE  Lasting
  BY <1>1 DEF CreateRefundRequest, NewRequest, Lasting, NewlyApproved, channelVars, RequestTypes
<1>2. ASSUME NEW w \in Workers, NEW r \in Requests, NEW k \in Keys,
             NEW cnt \in RequestedCounts, StartSystemRefund(w, r, k, cnt)
      PROVE  Lasting
  <2>1. UNCHANGED <<refundPayment, channelVars>>
    BY <1>2 DEF StartSystemRefund
  <2>2. CASE UNCHANGED requestVars
    BY <2>1, <2>2 DEF Lasting, NewlyApproved, requestVars, channelVars
  <2>3. CASE status[r] = "NONE" /\ NewRequest(r, k, cnt)
    BY <2>1, <2>3 DEF NewRequest, Lasting, NewlyApproved, channelVars, RequestTypes
  <2>4. QED
    BY <1>2, <2>2, <2>3 DEF StartSystemRefund
<1>3. ASSUME NEW w \in Workers, NEW r \in Requests, RejectChecks(w, r)
      PROVE  Lasting
  BY <1>3 DEF RejectChecks, Lasting, NewlyApproved, requestVars, channelVars
<1>4. ASSUME NEW w \in Workers, NEW r \in Requests, ApproveRefundRequest(w, r)
      PROVE  Lasting
  BY <1>4 DEF ApproveRefundRequest, Lasting, NewlyApproved, requestVars, channelVars
<1>5. ASSUME NEW w \in Workers, RejectCommits(w)
      PROVE  Lasting
  BY <1>5 DEF RejectCommits, Lasting, NewlyApproved, channelVars, RequestTypes, WorkerTypes
<1>6. ASSUME NEW w \in Workers, Claim(w)
      PROVE  Lasting
  BY <1>6 DEF Claim, Lasting, NewlyApproved, requestVars, channelVars
<1>7. ASSUME NEW w \in Workers, Prepare(w)
      PROVE  Lasting
  BY <1>7 DEF Prepare, Lasting, NewlyApproved, requestVars, channelVars
<1>8. ASSUME NEW w \in Workers, PersistRefundPayment(w)
      PROVE  Lasting
  <2>1. \A x \in Requests : refundPayment[x] # "NONE" => refundPayment'[x] # "NONE"
    BY <1>8 DEF PersistRefundPayment, RequestTypes, WorkerTypes
  <2>2. UNCHANGED <<requestVars, channelVars>>
    BY <1>8 DEF PersistRefundPayment
  <2>3. QED
    BY <2>1, <2>2 DEF Lasting, NewlyApproved, requestVars, channelVars
<1>9. ASSUME NEW w \in Workers, Allocate(w)
      PROVE  Lasting
  BY <1>9 DEF Allocate, Lasting, NewlyApproved, requestVars, channelVars
<1>10. ASSUME NEW w \in Workers, ReserveOperation(w)
      PROVE  Lasting
  <2>1. req[w] \in Requests /\ next[w] \in Captures
    BY <1>10 DEF ReserveOperation, WorkerTypes
  <2>2. UNCHANGED <<requestVars, refundPayment>>
    BY <1>10 DEF ReserveOperation
  <2>3. CASE UNCHANGED channelVars
    BY <2>2, <2>3 DEF Lasting, NewlyApproved, requestVars, channelVars
  <2>4. CASE /\ opStatus[req[w]][next[w]] = "NONE"
             /\ opStatus' = [opStatus EXCEPT ![req[w]][next[w]] = "RESERVED"]
             /\ opAmount' = [opAmount EXCEPT ![req[w]][next[w]] = allocation[w][next[w]]]
    <3>1. \A x \in Requests, d \in Captures :
             opStatus[x][d] # "NONE"
                 => opStatus'[x][d] = opStatus[x][d] /\ opAmount'[x][d] = opAmount[x][d]
      BY <2>1, <2>4 DEF ChannelTypes
    <3>2. QED
      BY <2>2, <3>1 DEF Lasting, NewlyApproved, requestVars
  <2>5. QED
    BY <1>10, <2>3, <2>4 DEF ReserveOperation, HasOperation
<1>11. ASSUME NEW w \in Workers, SendInit(w)
      PROVE  Lasting
  BY <1>11 DEF SendInit, Lasting, NewlyApproved, requestVars, channelVars
<1>12. ASSUME NEW w \in Workers, InitAnswered(w)
      PROVE  Lasting
  <2>1. req[w] \in Requests /\ next[w] \in Captures
    BY <1>12 DEF InitAnswered, WorkerTypes
  <2>2. UNCHANGED <<requestVars, refundPayment, opAmount>>
    BY <1>12 DEF InitAnswered
  <2>3. PICK answer \in {"ACCEPTED", "FAILED"} :
           opStatus' = [opStatus EXCEPT ![req[w]][next[w]] = answer]
    BY <1>12 DEF InitAnswered
  <2>4. \A x \in Requests, d \in Captures :
           opStatus'[x][d] \in {opStatus[x][d], "ACCEPTED", "FAILED"}
    BY <2>1, <2>3 DEF ChannelTypes
  <2>5. QED
    BY <2>2, <2>4 DEF Lasting, NewlyApproved, requestVars
<1>13. ASSUME NEW w \in Workers, InitUnanswered(w)
      PROVE  Lasting
  BY <1>13 DEF InitUnanswered, Lasting, NewlyApproved, requestVars, channelVars
<1>14. ASSUME NEW w \in Workers, Finalize(w)
      PROVE  Lasting
  <2>1. UNCHANGED <<counts, refundPayment, channelVars>>
    BY <1>14 DEF Finalize
  <2>2. \A x \in Requests : status'[x] = status[x] \/ (x = req[w] /\ pc[w] = "finalize")
    BY <1>14 DEF Finalize, RequestTypes
  <2>3. QED
    BY <2>1, <2>2 DEF Lasting, NewlyApproved, channelVars
<1>15. ASSUME NEW w \in Workers, ReleaseLease(w)
      PROVE  Lasting
  BY <1>15 DEF ReleaseLease, Lasting, NewlyApproved, requestVars, channelVars
<1>16. ASSUME NEW w \in Workers, Crash(w)
      PROVE  Lasting
  BY <1>16 DEF Crash, Lasting, NewlyApproved, requestVars, channelVars
<1>17. CASE LeaseExpires
  BY <1>17 DEF LeaseExpires, Lasting, NewlyApproved, requestVars, channelVars
<1>18. ASSUME NEW r \in Requests, CancelRefundPayment(r)
      PROVE  Lasting
  BY <1>18 DEF CancelRefundPayment, Lasting, NewlyApproved, requestVars, channelVars, RequestTypes
<1>19. ASSUME NEW r \in Requests, NEW c \in Captures, AcceptedRefundFails(r, c)
      PROVE  Lasting
  <2>1. \A x \in Requests, d \in Captures : opStatus'[x][d] \in {opStatus[x][d], "FAILED"}
    BY <1>19 DEF AcceptedRefundFails, ChannelTypes
  <2>2. QED
    BY <1>19, <2>1 DEF AcceptedRefundFails, Lasting, NewlyApproved, requestVars
<1>20. CASE UNCHANGED vars
  BY <1>20 DEF vars, Lasting, NewlyApproved, requestVars, channelVars
<1>21. QED
  BY <1>1, <1>2, <1>3, <1>4, <1>5, <1>6, <1>7, <1>8, <1>9, <1>10, <1>11,
     <1>12, <1>13, <1>14, <1>15, <1>16, <1>17, <1>18, <1>19, <1>20
     DEF Next, HandlerStep
-----------------------------------------------------------------------------
(* An approved refund is covered by what the channels answered for *)

\* The local variables of handler v.
LocalsStay(v) ==
    /\ pc'[v] = pc[v]
    /\ req'[v] = req[v]
    /\ allocation'[v] = allocation[v]
    /\ next'[v] = next[v]

InLoop(w) == pc[w] \in {"reserve", "send", "await", "finalize"}

\* The loop has passed capture d: its share was answered for, in this approval
\* or in an earlier one whose amount was the same.
Passed(w, d) ==
    allocation[w][d] # 0 =>
        /\ opStatus[req[w]][d] \in {"ACCEPTED", "FAILED"}
        /\ opAmount[req[w]][d] = allocation[w][d]

\* What an approval has achieved when it is at each step.
Covering(w) ==
    /\ pc[w] = "allocate" \/ InLoop(w) => refundPayment[req[w]] # "NONE"
    /\ InLoop(w) => /\ SumFunctionOnSet(allocation[w], Captures) >= RefundAmount(req[w])
                    /\ \A d \in Captures : d < next[w] => Passed(w, d)
    /\ Sending(w) => opAmount[req[w]][next[w]] = allocation[w][next[w]]
    /\ pc[w] = "finalize" => next[w] = NumCaptures + 1
    /\ InLoop(w) \/ pc[w] = "release" \/ next[w] = 1

CoverInv == \A w \in Workers : Covering(w)

LEMMA CapturesFinite ==
    IsFiniteSet(Captures) /\ \A r \in Requests : Answered(r) \subseteq Captures
  BY ConstantsAssumption, FS_Interval DEF Captures, Answered

\* What other refunds hold of a capture is a natural number, so what they leave
\* of it is an integer.
LEMMA AvailableIsInteger ==
    ASSUME ChannelTypes, NEW r \in Requests, NEW c \in Captures
    PROVE  Available(r, c) \in Int
<1> DEFINE f == [x \in Requests |-> opAmount[x][c]]
<1>1. IsFiniteSet(Requests \ {r}) /\ \A x \in Requests \ {r} : f[x] \in Nat
  BY ConstantsAssumption, FS_Subset DEF ChannelTypes
<1> HIDE DEF f
<1>2. SumFunctionOnSet(f, Requests \ {r}) \in Nat
  BY <1>1, SumNat
<1>3. QED
  BY <1>2, ConstantsAssumption DEF Available, f

\* An approval that starts its loop has shares that cover the refund.
LEMMA SufficientAllocation ==
    ASSUME RequestTypes, ChannelTypes, NEW r \in Requests, CapturesSuffice(r),
           NEW a \in [Captures -> Amounts], IsCaptureAllocation(r, a)
    PROVE  SumFunctionOnSet(a, Captures) >= RefundAmount(r)
<1>1. a \in [Captures -> Nat] /\ RefundAmount(r) \in Nat
  BY ConstantsAssumption, RefundAmountIsNatural
<1>2. SumFunctionOnSet(a, Captures) \in Nat
  BY <1>1, CapturesFinite, SumNat
<1>3. CASE RefundAmount(r) = 0
  BY <1>2, <1>3
<1>4. CASE (\A c \in Captures : Available(r, c) >= 0) /\ RefundAmount(r) <= AvailableFrom(r, 1)
  <2>1. \A c \in Captures : Available(r, c) \in Nat
    BY <1>4, AvailableIsInteger
  <2>2. SumFunctionOnSet(a, Captures) = RefundAmount(r)
    BY <1>1, <1>4, <2>1, AllocationFits
  <2>3. QED
    BY <1>1, <2>2
<1>5. QED
  BY <1>3, <1>4 DEF CapturesSuffice

\* Nothing another handler or the environment does takes it away.
LEMMA CoveringStays ==
    ASSUME TypeOK, SendInv, RejectInv, Lasting, NEW v \in Workers, Covering(v), LocalsStay(v)
    PROVE  Covering(v)'
<1> DEFINE r == req[v]
<1>0. WorkerTypes
  BY DEF TypeOK
<1>1. SUFFICES ASSUME pc[v] = "allocate" \/ InLoop(v) PROVE Covering(v)'
  BY DEF LocalsStay, Covering, InLoop, Sending
<1>2. r \in Requests /\ status[r] # "NONE"
  BY <1>0, <1>1 DEF InLoop, WorkerTypes, RejectInv
<1>3. counts'[r] = counts[r] /\ (refundPayment[r] # "NONE" => refundPayment'[r] # "NONE")
  BY <1>2 DEF Lasting
<1>4. \A x \in {r} : RefundAmount(x)' = RefundAmount(x)
  BY <1>3 DEF RefundAmount
<1>5. \A d \in Captures : Passed(v, d) => Passed(v, d)'
  BY <1>2 DEF Passed, Lasting, LocalsStay
<1>6. Sending(v) => opAmount'[r][next[v]] = opAmount[r][next[v]]
  BY <1>0, <1>2 DEF Sending, SendInv, Lasting, WorkerTypes
<1>7. QED
  BY <1>3, <1>4, <1>5, <1>6 DEF Covering, LocalsStay, InLoop, Sending

\* A handler that is not past the creation of its refund payment claims nothing.
LEMMA NothingToCover ==
    ASSUME NEW w \in Workers,
           pc'[w] \notin {"allocate", "reserve", "send", "await", "finalize"},
           pc'[w] = "release" \/ next'[w] = 1
    PROVE  Covering(w)'
  BY DEF Covering, InLoop, Sending

\* The loop passes a capture.
LEMMA CoveringAdvances ==
    ASSUME TypeOK, RejectInv, Lasting, NEW w \in Workers, Covering(w),
           pc[w] \in {"reserve", "await"}, Advance(w),
           \A d \in Captures : d = next[w] => Passed(w, d)'
    PROVE  Covering(w)'
<1> DEFINE r == req[w]
<1>0. WorkerTypes /\ r \in Requests /\ next[w] \in Captures /\ status[r] # "NONE"
  BY DEF TypeOK, WorkerTypes, RejectInv
<1>1. /\ req' = req /\ allocation' = allocation
      /\ next'[w] = next[w] + 1
      /\ pc'[w] = IF next[w] = NumCaptures THEN "finalize" ELSE "reserve"
  BY <1>0 DEF Advance, WorkerTypes
<1>2. counts'[r] = counts[r] /\ (refundPayment[r] # "NONE" => refundPayment'[r] # "NONE")
  BY <1>0 DEF Lasting
<1>3. RefundAmount(r)' = RefundAmount(r)
  BY <1>1, <1>2 DEF RefundAmount
<1>4. \A d \in Captures : Passed(w, d) => Passed(w, d)'
  BY <1>0, <1>1 DEF Passed, Lasting
<1>5. \A d \in Captures : d < next[w] + 1 => d < next[w] \/ d = next[w]
  BY <1>0 DEF Captures
<1>6. QED
  BY <1>0, <1>1, <1>2, <1>3, <1>4, <1>5 DEF Covering, InLoop, Sending

LEMMA CoverInvInit == Init => CoverInv
  BY DEF Init, CoverInv, Covering, InLoop, Sending

LEMMA CoverInvStep ==
    TypeOK /\ SendInv /\ RejectInv /\ CoverInv /\ [Next]_vars => CoverInv'
<1> SUFFICES ASSUME TypeOK, SendInv, RejectInv, CoverInv, [Next]_vars PROVE CoverInv'
  OBVIOUS
<1>0. RequestTypes /\ ChannelTypes /\ WorkerTypes /\ Lasting
  BY LastingStep DEF TypeOK
<1> USE <1>0
<1>1. ASSUME NEW r \in Requests, NEW cnt \in RequestedCounts, CreateRefundRequest(r, cnt)
      PROVE  CoverInv'
  BY <1>1, CoveringStays DEF CreateRefundRequest, CoverInv, LocalsStay, workerVars
<1>2. ASSUME NEW w \in Workers, NEW r \in Requests, NEW k \in Keys,
             NEW cnt \in RequestedCounts, StartSystemRefund(w, r, k, cnt)
      PROVE  CoverInv'
  <2>1. \A v \in Workers \ {w} : LocalsStay(v)
    BY <1>2 DEF StartSystemRefund, LocalsStay, GoTo, AtRest, Throw, Advance, WorkerTypes
  <2>2. pc'[w] \notin {"allocate", "reserve", "send", "await", "finalize"}
    BY <1>2 DEF StartSystemRefund, GoTo, AtRest, Throw, WorkerTypes
  <2>3. pc'[w] = "release" \/ next'[w] = 1
    BY <1>2 DEF StartSystemRefund, GoTo, AtRest, Throw, WorkerTypes, CoverInv, Covering, InLoop
  <2>4. QED
    BY <2>1, <2>2, <2>3, CoveringStays, NothingToCover DEF CoverInv
<1>3. ASSUME NEW w \in Workers, NEW r \in Requests, RejectChecks(w, r)
      PROVE  CoverInv'
  <2>1. \A v \in Workers \ {w} : LocalsStay(v)
    BY <1>3 DEF RejectChecks, LocalsStay, GoTo, AtRest, Throw, Advance, WorkerTypes
  <2>2. pc'[w] \notin {"allocate", "reserve", "send", "await", "finalize"}
    BY <1>3 DEF RejectChecks, GoTo, AtRest, Throw, WorkerTypes
  <2>3. pc'[w] = "release" \/ next'[w] = 1
    BY <1>3 DEF RejectChecks, GoTo, AtRest, Throw, WorkerTypes, CoverInv, Covering, InLoop
  <2>4. QED
    BY <2>1, <2>2, <2>3, CoveringStays, NothingToCover DEF CoverInv
<1>4. ASSUME NEW w \in Workers, NEW r \in Requests, ApproveRefundRequest(w, r)
      PROVE  CoverInv'
  <2>1. \A v \in Workers \ {w} : LocalsStay(v)
    BY <1>4 DEF ApproveRefundRequest, LocalsStay, GoTo, AtRest, Throw, Advance, WorkerTypes
  <2>2. pc'[w] \notin {"allocate", "reserve", "send", "await", "finalize"}
    BY <1>4 DEF ApproveRefundRequest, GoTo, AtRest, Throw, WorkerTypes
  <2>3. pc'[w] = "release" \/ next'[w] = 1
    BY <1>4 DEF ApproveRefundRequest, GoTo, AtRest, Throw, WorkerTypes, CoverInv, Covering, InLoop
  <2>4. QED
    BY <2>1, <2>2, <2>3, CoveringStays, NothingToCover DEF CoverInv
<1>5. ASSUME NEW w \in Workers, RejectCommits(w)
      PROVE  CoverInv'
  <2>1. \A v \in Workers \ {w} : LocalsStay(v)
    BY <1>5 DEF RejectCommits, LocalsStay, GoTo, AtRest, Throw, Advance, WorkerTypes
  <2>2. pc'[w] \notin {"allocate", "reserve", "send", "await", "finalize"}
    BY <1>5 DEF RejectCommits, GoTo, AtRest, Throw, WorkerTypes
  <2>3. pc'[w] = "release" \/ next'[w] = 1
    BY <1>5 DEF RejectCommits, GoTo, AtRest, Throw, WorkerTypes, CoverInv, Covering, InLoop
  <2>4. QED
    BY <2>1, <2>2, <2>3, CoveringStays, NothingToCover DEF CoverInv
<1>6. ASSUME NEW w \in Workers, Claim(w)
      PROVE  CoverInv'
  <2>1. \A v \in Workers \ {w} : LocalsStay(v)
    BY <1>6 DEF Claim, LocalsStay, GoTo, AtRest, Throw, Advance, WorkerTypes
  <2>2. pc'[w] \notin {"allocate", "reserve", "send", "await", "finalize"}
    BY <1>6 DEF Claim, GoTo, AtRest, Throw, WorkerTypes
  <2>3. pc'[w] = "release" \/ next'[w] = 1
    BY <1>6 DEF Claim, GoTo, AtRest, Throw, WorkerTypes, CoverInv, Covering, InLoop
  <2>4. QED
    BY <2>1, <2>2, <2>3, CoveringStays, NothingToCover DEF CoverInv
<1>7. ASSUME NEW w \in Workers, Prepare(w)
      PROVE  CoverInv'
  <2>1. \A v \in Workers \ {w} : LocalsStay(v)
    BY <1>7 DEF Prepare, LocalsStay, GoTo, AtRest, Throw, Advance, WorkerTypes
  <2>2. pc'[w] \notin {"allocate", "reserve", "send", "await", "finalize"}
    BY <1>7 DEF Prepare, GoTo, AtRest, Throw, WorkerTypes
  <2>3. pc'[w] = "release" \/ next'[w] = 1
    BY <1>7 DEF Prepare, GoTo, AtRest, Throw, WorkerTypes, CoverInv, Covering, InLoop
  <2>4. QED
    BY <2>1, <2>2, <2>3, CoveringStays, NothingToCover DEF CoverInv
<1>8. ASSUME NEW w \in Workers, PersistRefundPayment(w)
      PROVE  CoverInv'
  <2>1. \A v \in Workers \ {w} : LocalsStay(v)
    BY <1>8 DEF PersistRefundPayment, LocalsStay, GoTo, Throw, WorkerTypes
  <2>2. CASE Throw(w)
    BY <2>1, <2>2, CoveringStays, NothingToCover DEF Throw, GoTo, CoverInv, WorkerTypes
  <2>3. CASE GoTo(w, "allocate") /\ refundPayment'[req[w]] = "OPEN"
    <3>1. Covering(w)'
      BY <1>8, <2>3 DEF PersistRefundPayment, GoTo, CoverInv, Covering, InLoop, Sending, WorkerTypes
    <3>2. QED
      BY <2>1, <3>1, CoveringStays DEF CoverInv
  <2>4. req[w] \in Requests
    BY <1>8 DEF PersistRefundPayment, WorkerTypes
  <2>5. QED
    BY <1>8, <2>2, <2>3, <2>4 DEF PersistRefundPayment, RequestTypes
<1>9. ASSUME NEW w \in Workers, Allocate(w)
      PROVE  CoverInv'
  <2>1. req[w] \in Requests /\ refundPayment[req[w]] # "NONE" /\ next[w] = 1
    BY <1>9 DEF Allocate, WorkerTypes, CoverInv, Covering, InLoop
  <2>2. CASE Throw(w)
    <3>1. \A v \in Workers \ {w} : LocalsStay(v)
      BY <2>2 DEF LocalsStay, GoTo, Throw, WorkerTypes
    <3>2. QED
      BY <2>2, <3>1, CoveringStays, NothingToCover DEF Throw, GoTo, CoverInv, WorkerTypes
  <2>3. ASSUME CapturesSuffice(req[w]),
               NEW a \in [Captures -> Amounts], IsCaptureAllocation(req[w], a),
               allocation' = [allocation EXCEPT ![w] = a],
               pc' = [pc EXCEPT ![w] = "reserve"], UNCHANGED <<req, next>>
        PROVE  CoverInv'
    <3>1. \A v \in Workers \ {w} : LocalsStay(v)
      BY <2>3 DEF LocalsStay, WorkerTypes
    <3>2. SumFunctionOnSet(a, Captures) >= RefundAmount(req[w])
      BY <2>1, <2>3, SufficientAllocation
    <3>3. /\ allocation'[w] = a /\ pc'[w] = "reserve"
          /\ counts' = counts /\ refundPayment' = refundPayment
      BY <1>9, <2>3 DEF Allocate, requestVars, WorkerTypes
    <3>4. RefundAmount(req[w])' = RefundAmount(req[w])
      BY <2>3, <3>3 DEF RefundAmount
    <3>5. \A d \in Captures : ~(d < next[w])
      BY <2>1 DEF Captures
    <3>6. Covering(w)'
      BY <2>1, <2>3, <3>2, <3>3, <3>4, <3>5 DEF Covering, InLoop, Sending
    <3>7. QED
      BY <3>1, <3>6, CoveringStays DEF CoverInv
  <2>4. QED
    BY <1>9, <2>2, <2>3 DEF Allocate
<1>10. ASSUME NEW w \in Workers, ReserveOperation(w)
      PROVE  CoverInv'
  <2>1. req[w] \in Requests /\ next[w] \in Captures /\ InLoop(w) /\ Covering(w)
    BY <1>10 DEF ReserveOperation, WorkerTypes, InLoop, CoverInv
  <2>2. \A v \in Workers \ {w} : LocalsStay(v)
    BY <1>10 DEF ReserveOperation, LocalsStay, GoTo, Throw, Advance, WorkerTypes
  <2>3. CASE Throw(w)
    BY <2>2, <2>3, CoveringStays, NothingToCover DEF Throw, GoTo, CoverInv, WorkerTypes
  <2>4. CASE /\ Advance(w) /\ UNCHANGED channelVars
             /\ \/ allocation[w][next[w]] = 0
                \/ ~NeedsReconciliation(req[w], next[w], allocation[w][next[w]])
                   /\ HasOperation(req[w], next[w])
    <3>1. Passed(w, next[w])
      BY <2>1, <2>4 DEF Passed, NeedsReconciliation, HasOperation, ChannelTypes, OpStatuses
    <3>2. \A d \in Captures : d = next[w] => Passed(w, d)'
      BY <2>4, <3>1 DEF Passed, Advance, channelVars
    <3>3. Covering(w)'
      BY <1>10, <2>1, <2>4, <3>2, CoveringAdvances DEF ReserveOperation
    <3>4. QED
      BY <2>2, <3>3, CoveringStays DEF CoverInv
  <2>5. CASE /\ ~HasOperation(req[w], next[w])
             /\ opAmount' = [opAmount EXCEPT ![req[w]][next[w]] = allocation[w][next[w]]]
             /\ GoTo(w, "send")
    <3>1. /\ pc'[w] = "send" /\ UNCHANGED <<req, allocation, next, counts, refundPayment>>
          /\ opAmount'[req[w]][next[w]] = allocation[w][next[w]]
      BY <1>10, <2>1, <2>5 DEF ReserveOperation, GoTo, requestVars, WorkerTypes, ChannelTypes
    <3>2. \A d \in Captures : Passed(w, d) => Passed(w, d)'
      BY <2>1, <3>1 DEF Passed, Lasting
    <3>3. RefundAmount(req[w])' = RefundAmount(req[w])
      BY <3>1 DEF RefundAmount
    <3>4. Covering(w)'
      BY <1>10, <2>1, <3>1, <3>2, <3>3 DEF ReserveOperation, Covering, InLoop, Sending
    <3>5. QED
      BY <2>2, <3>4, CoveringStays DEF CoverInv
  <2>6. QED
    BY <1>10, <2>3, <2>4, <2>5 DEF ReserveOperation
<1>11. ASSUME NEW w \in Workers, SendInit(w)
      PROVE  CoverInv'
  <2>1. \A v \in Workers \ {w} : LocalsStay(v)
    BY <1>11 DEF SendInit, LocalsStay, GoTo, WorkerTypes
  <2>2. /\ pc'[w] = "await" /\ pc[w] = "send"
        /\ UNCHANGED <<req, allocation, next, counts, refundPayment, opStatus, opAmount>>
    BY <1>11 DEF SendInit, GoTo, requestVars, WorkerTypes
  <2>3. RefundAmount(req[w])' = RefundAmount(req[w]) /\ \A d \in Captures : Passed(w, d)' = Passed(w, d)
    BY <2>2 DEF RefundAmount, Passed
  <2>4. Covering(w)'
    BY <2>2, <2>3 DEF CoverInv, Covering, InLoop, Sending
  <2>5. QED
    BY <2>1, <2>4, CoveringStays DEF CoverInv
<1>12. ASSUME NEW w \in Workers, InitAnswered(w)
      PROVE  CoverInv'
  <2>1. /\ req[w] \in Requests /\ next[w] \in Captures /\ Covering(w)
        /\ opAmount[req[w]][next[w]] = allocation[w][next[w]]
    BY <1>12 DEF InitAnswered, WorkerTypes, CoverInv, Covering, Sending
  <2>2. \A v \in Workers \ {w} : LocalsStay(v)
    BY <1>12 DEF InitAnswered, LocalsStay, GoTo, Throw, Advance, WorkerTypes
  <2>3. PICK answer \in {"ACCEPTED", "FAILED"} :
           /\ opStatus' = [opStatus EXCEPT ![req[w]][next[w]] = answer]
           /\ IF answer = "FAILED" THEN Throw(w) ELSE Advance(w)
    BY <1>12 DEF InitAnswered
  <2>4. CASE Throw(w)
    BY <2>2, <2>4, CoveringStays, NothingToCover DEF Throw, GoTo, CoverInv, WorkerTypes
  <2>5. CASE Advance(w)
    <3>1. /\ opStatus'[req[w]][next[w]] \in {"ACCEPTED", "FAILED"}
          /\ UNCHANGED <<req, allocation, opAmount>>
      BY <1>12, <2>1, <2>3, <2>5 DEF InitAnswered, Advance, ChannelTypes
    <3>2. \A d \in Captures : d = next[w] => Passed(w, d)'
      BY <2>1, <3>1 DEF Passed
    <3>3. Covering(w)'
      BY <1>12, <2>1, <2>5, <3>2, CoveringAdvances DEF InitAnswered
    <3>4. QED
      BY <2>2, <3>3, CoveringStays DEF CoverInv
  <2>6. QED
    BY <2>3, <2>4, <2>5
<1>13. ASSUME NEW w \in Workers, InitUnanswered(w)
      PROVE  CoverInv'
  <2>1. \A v \in Workers \ {w} : LocalsStay(v)
    BY <1>13 DEF InitUnanswered, LocalsStay, GoTo, AtRest, Throw, Advance, WorkerTypes
  <2>2. pc'[w] \notin {"allocate", "reserve", "send", "await", "finalize"}
    BY <1>13 DEF InitUnanswered, GoTo, AtRest, Throw, WorkerTypes
  <2>3. pc'[w] = "release" \/ next'[w] = 1
    BY <1>13 DEF InitUnanswered, GoTo, AtRest, Throw, WorkerTypes, CoverInv, Covering, InLoop
  <2>4. QED
    BY <2>1, <2>2, <2>3, CoveringStays, NothingToCover DEF CoverInv
<1>14. ASSUME NEW w \in Workers, Finalize(w)
      PROVE  CoverInv'
  <2>1. \A v \in Workers \ {w} : LocalsStay(v)
    BY <1>14 DEF Finalize, LocalsStay, GoTo, AtRest, Throw, Advance, WorkerTypes
  <2>2. pc'[w] \notin {"allocate", "reserve", "send", "await", "finalize"}
    BY <1>14 DEF Finalize, GoTo, AtRest, Throw, WorkerTypes
  <2>3. pc'[w] = "release" \/ next'[w] = 1
    BY <1>14 DEF Finalize, GoTo, AtRest, Throw, WorkerTypes, CoverInv, Covering, InLoop
  <2>4. QED
    BY <2>1, <2>2, <2>3, CoveringStays, NothingToCover DEF CoverInv
<1>15. ASSUME NEW w \in Workers, ReleaseLease(w)
      PROVE  CoverInv'
  <2>1. \A v \in Workers \ {w} : LocalsStay(v)
    BY <1>15 DEF ReleaseLease, LocalsStay, GoTo, AtRest, Throw, Advance, WorkerTypes
  <2>2. pc'[w] \notin {"allocate", "reserve", "send", "await", "finalize"}
    BY <1>15 DEF ReleaseLease, GoTo, AtRest, Throw, WorkerTypes
  <2>3. pc'[w] = "release" \/ next'[w] = 1
    BY <1>15 DEF ReleaseLease, GoTo, AtRest, Throw, WorkerTypes, CoverInv, Covering, InLoop
  <2>4. QED
    BY <2>1, <2>2, <2>3, CoveringStays, NothingToCover DEF CoverInv
<1>16. ASSUME NEW w \in Workers, Crash(w)
      PROVE  CoverInv'
  <2>1. \A v \in Workers \ {w} : LocalsStay(v)
    BY <1>16 DEF Crash, LocalsStay, GoTo, AtRest, Throw, Advance, WorkerTypes
  <2>2. pc'[w] \notin {"allocate", "reserve", "send", "await", "finalize"}
    BY <1>16 DEF Crash, GoTo, AtRest, Throw, WorkerTypes
  <2>3. pc'[w] = "release" \/ next'[w] = 1
    BY <1>16 DEF Crash, GoTo, AtRest, Throw, WorkerTypes, CoverInv, Covering, InLoop
  <2>4. QED
    BY <2>1, <2>2, <2>3, CoveringStays, NothingToCover DEF CoverInv
<1>17. CASE LeaseExpires
  BY <1>17, CoveringStays DEF LeaseExpires, CoverInv, LocalsStay, workerVars
<1>18. ASSUME NEW r \in Requests, CancelRefundPayment(r)
      PROVE  CoverInv'
  BY <1>18, CoveringStays DEF CancelRefundPayment, CoverInv, LocalsStay, workerVars
<1>19. ASSUME NEW r \in Requests, NEW c \in Captures, AcceptedRefundFails(r, c)
      PROVE  CoverInv'
  BY <1>19, CoveringStays DEF AcceptedRefundFails, CoverInv, LocalsStay, workerVars
<1>20. CASE UNCHANGED vars
  BY <1>20, CoveringStays DEF vars, CoverInv, LocalsStay, workerVars
<1>21. QED
  BY <1>1, <1>2, <1>3, <1>4, <1>5, <1>6, <1>7, <1>8, <1>9, <1>10, <1>11,
     <1>12, <1>13, <1>14, <1>15, <1>16, <1>17, <1>18, <1>19, <1>20
     DEF Next, HandlerStep

\* What the channels answered for only grows.
LEMMA AnsweredGrows ==
    ASSUME TypeOK, TypeOK', Lasting, NEW r \in Requests
    PROVE  SumFunctionOnSet(opAmount[r], Answered(r))
              <= SumFunctionOnSet(opAmount'[r], Answered(r)')
<1>1. Answered(r) \subseteq Answered(r)' /\ Answered(r)' \subseteq Captures
  BY DEF Answered, Lasting
<1>2. IsFiniteSet(Answered(r)) /\ IsFiniteSet(Answered(r)')
  BY <1>1, CapturesFinite, FS_Subset
<1>3. /\ \A c \in Captures : opAmount[r][c] \in Nat /\ opAmount'[r][c] \in Nat
      /\ \A c \in Answered(r) : opAmount'[r][c] = opAmount[r][c]
  BY DEF TypeOK, ChannelTypes, Answered, Lasting
<1>4. \A c \in Answered(r) : opAmount[r][c] \in Int /\ opAmount[r][c] = opAmount'[r][c]
  BY <1>1, <1>3
<1>5. SumFunctionOnSet(opAmount[r], Answered(r)) = SumFunctionOnSet(opAmount'[r], Answered(r))
  BY <1>2, <1>4, SumSame
<1>6. \A c \in Answered(r)' : opAmount'[r][c] \in Nat
  BY <1>1, <1>3
<1>7. SumFunctionOnSet(opAmount'[r], Answered(r)) <= SumFunctionOnSet(opAmount'[r], Answered(r)')
  BY <1>1, <1>2, <1>6, SumOfSubset
<1>8. QED
  BY <1>5, <1>7

\* A handler that has passed every capture has the whole refund answered for.
LEMMA FinalizedIsCovered ==
    ASSUME TypeOK, NEW w \in Workers, Covering(w), pc[w] = "finalize"
    PROVE  /\ refundPayment[req[w]] # "NONE"
           /\ SumFunctionOnSet(opAmount[req[w]], Answered(req[w])) >= RefundAmount(req[w])
<1> DEFINE r == req[w]
           a == allocation[w]
           paid == {c \in Captures : a[c] # 0}
<1>1. r \in Requests /\ a \in [Captures -> Nat] /\ opAmount[r] \in [Captures -> Nat]
  BY DEF TypeOK, WorkerTypes, ChannelTypes
<1>2. /\ \A d \in Captures : Passed(w, d)
      /\ SumFunctionOnSet(a, Captures) >= RefundAmount(r)
      /\ refundPayment[r] # "NONE"
  <2>1. \A d \in Captures : d < NumCaptures + 1
    BY ConstantsAssumption DEF Captures
  <2>2. QED
    BY <2>1 DEF Covering, InLoop
<1>3. paid \subseteq Answered(r) /\ Answered(r) \subseteq Captures
      /\ \A c \in paid : opAmount[r][c] = a[c]
  BY <1>2 DEF Passed, Answered
<1>4. paid \subseteq Captures /\ \A c \in Captures \ paid : a[c] = 0
  OBVIOUS
<1>5. RefundAmount(r) \in Nat
  BY <1>1, RefundAmountIsNatural DEF TypeOK
<1> HIDE DEF r, a, paid
<1>6. IsFiniteSet(paid) /\ IsFiniteSet(Answered(r)) /\ IsFiniteSet(Captures)
  BY <1>3, <1>4, CapturesFinite, FS_Subset
<1>7. SumFunctionOnSet(a, Captures) = SumFunctionOnSet(a, paid)
  <2>1. \A c \in Captures : a[c] \in Int
    BY <1>1
  <2>2. QED
    BY <1>4, <1>6, <2>1, SumOfNonZero
<1>8. SumFunctionOnSet(a, paid) = SumFunctionOnSet(opAmount[r], paid)
  <2>1. \A c \in paid : a[c] \in Int /\ a[c] = opAmount[r][c]
    BY <1>1, <1>3, <1>4
  <2>2. QED
    BY <1>6, <2>1, SumSame
<1>9. SumFunctionOnSet(opAmount[r], paid) <= SumFunctionOnSet(opAmount[r], Answered(r))
  <2>1. \A c \in Answered(r) : opAmount[r][c] \in Nat
    BY <1>1, <1>3
  <2>2. QED
    BY <1>3, <1>6, <2>1, SumOfSubset
<1>10. SumFunctionOnSet(opAmount[r], Answered(r)) \in Int
  <2>1. \A c \in Answered(r) : opAmount[r][c] \in Int
    BY <1>1, <1>3
  <2>2. QED
    BY <1>6, <2>1, SumInt
<1>11. SumFunctionOnSet(opAmount[r], paid) \in Int
  <2>1. \A c \in paid : opAmount[r][c] \in Int
    BY <1>1, <1>4
  <2>2. QED
    BY <1>6, <2>1, SumInt
<1>12. SumFunctionOnSet(opAmount[r], Answered(r)) >= RefundAmount(r)
  BY <1>2, <1>5, <1>7, <1>8, <1>9, <1>10, <1>11
<1>13. QED
  BY <1>2, <1>12 DEF r

\* An APPROVED request has a refund payment, and the amounts the channels
\* answered for cover the refund, whatever leases expire, handlers crash or
\* answers are lost on the way: every approval that finishes its loop found or
\* made, on every capture with a share, an operation answered for that share.
THEOREM ApprovedIsCoveredHolds == Spec => []ApprovedIsCovered
<1>1. Init => ApprovedIsCovered
  BY DEF Init, ApprovedIsCovered
<1>2. TypeOK /\ TypeOK' /\ RejectInv /\ CoverInv /\ ApprovedIsCovered /\ [Next]_vars
        => ApprovedIsCovered'
  <2> SUFFICES ASSUME TypeOK, TypeOK', RejectInv, CoverInv, ApprovedIsCovered, [Next]_vars,
                      NEW r \in Requests, status'[r] = "APPROVED"
               PROVE  /\ refundPayment'[r] # "NONE"
                      /\ SumFunctionOnSet(opAmount'[r], Answered(r)') >= RefundAmount(r)'
    BY DEF ApprovedIsCovered
  <2>1. Lasting
    BY LastingStep
  <2>2. /\ status[r] # "NONE" /\ refundPayment[r] # "NONE"
        /\ SumFunctionOnSet(opAmount[r], Answered(r)) >= RefundAmount(r)
    <3>1. CASE status[r] = "APPROVED"
      BY <3>1 DEF ApprovedIsCovered
    <3>2. CASE status[r] # "APPROVED"
      <4>1. PICK w \in Workers : pc[w] = "finalize" /\ req[w] = r
        BY <2>1, <3>2 DEF Lasting, NewlyApproved
      <4>2. status[r] # "NONE"
        BY <4>1 DEF RejectInv
      <4>3. QED
        BY <4>1, <4>2, FinalizedIsCovered DEF CoverInv
    <3>3. QED
      BY <3>1, <3>2
  <2>3. refundPayment'[r] # "NONE" /\ counts'[r] = counts[r]
    BY <2>1, <2>2 DEF Lasting
  <2>4. RefundAmount(r)' = RefundAmount(r) /\ RefundAmount(r) \in Nat
    BY <2>3, RefundAmountIsNatural DEF RefundAmount, TypeOK
  <2>5. SumFunctionOnSet(opAmount[r], Answered(r))
           <= SumFunctionOnSet(opAmount'[r], Answered(r)')
    BY <2>1, AnsweredGrows
  <2>6. SumFunctionOnSet(opAmount[r], Answered(r)) \in Int
    <3>1. IsFiniteSet(Answered(r)) /\ \A c \in Answered(r) : opAmount[r][c] \in Int
      BY CapturesFinite, FS_Subset DEF Answered, TypeOK, ChannelTypes
    <3>2. QED
      BY <3>1, SumInt
  <2>7. SumFunctionOnSet(opAmount'[r], Answered(r)') \in Int
    <3>1. Answered(r)' \subseteq Captures /\ \A c \in Answered(r)' : opAmount'[r][c] \in Int
      BY DEF Answered, TypeOK, ChannelTypes
    <3>2. IsFiniteSet(Answered(r)')
      BY <3>1, CapturesFinite, FS_Subset
    <3>3. QED
      BY <3>1, <3>2, SumInt
  <2>8. QED
    BY <2>2, <2>3, <2>4, <2>5, <2>6, <2>7
<1>3. TypeOK /\ SendInv /\ RejectInv /\ CoverInv /\ [Next]_vars => CoverInv'
  BY CoverInvStep
<1>4. QED
  BY <1>1, <1>2, <1>3, CoverInvInit, SendInvInit, SendInvStep, RejectInvInit,
     RejectInvStep, TypeCorrect, PTL DEF Spec

-----------------------------------------------------------------------------
(* The refunds on a capture stay within what it captured *)

\* The shares of an approval in its loop fit what the other refunds leave.
SharesFit(w) ==
    pc[w] \in {"reserve", "send", "await"} =>
        \A c \in Captures : allocation[w][c] <= Available(req[w], c)

OverdraftInv == CapturesNotOverdrawn /\ \A w \in Workers : SharesFit(w)

\* The amounts refunds hold on capture c.
HeldOn(c) == [r \in Requests |-> opAmount[r][c]]

LEMMA HeldTypes ==
    ASSUME ChannelTypes, NEW c \in Captures, NEW r \in Requests
    PROVE  /\ \A x \in Requests : HeldOn(c)[x] = opAmount[x][c] /\ HeldOn(c)[x] \in Nat
           /\ SumFunctionOnSet(HeldOn(c), Requests)
                 = opAmount[r][c] + SumFunctionOnSet(HeldOn(c), Requests \ {r})
           /\ SumFunctionOnSet(HeldOn(c), Requests \ {r}) \in Nat
           /\ Available(r, c) = Captured[c] - SumFunctionOnSet(HeldOn(c), Requests \ {r})
           /\ Captured[c] \in Nat
<1>1. \A x \in Requests : HeldOn(c)[x] = opAmount[x][c] /\ HeldOn(c)[x] \in Nat
  BY DEF HeldOn, ChannelTypes
<1>2. IsFiniteSet(Requests) /\ IsFiniteSet(Requests \ {r}) /\ Captured[c] \in Nat
  BY ConstantsAssumption, FS_Subset
<1>3. \A x \in Requests : HeldOn(c)[x] \in Int
  BY <1>1
<1>4. SumFunctionOnSet(HeldOn(c), Requests)
         = HeldOn(c)[r] + SumFunctionOnSet(HeldOn(c), Requests \ {r})
  BY <1>2, <1>3, SumRemove
<1>5. SumFunctionOnSet(HeldOn(c), Requests \ {r}) \in Nat
  BY <1>1, <1>2, SumNat
<1>6. Available(r, c) = Captured[c] - SumFunctionOnSet(HeldOn(c), Requests \ {r})
  BY DEF Available, HeldOn
<1>7. QED
  BY <1>1, <1>2, <1>4, <1>5, <1>6

\* While no capture is overdrawn, every capture has something or nothing left.
LEMMA AvailableIsNatural ==
    ASSUME ChannelTypes, CapturesNotOverdrawn, NEW r \in Requests, NEW c \in Captures
    PROVE  Available(r, c) \in Nat
<1>1. SumFunctionOnSet(HeldOn(c), Requests) <= Captured[c]
  BY DEF CapturesNotOverdrawn, HeldOn
<1>2. opAmount[r][c] \in Nat
  BY DEF ChannelTypes
<1>3. /\ SumFunctionOnSet(HeldOn(c), Requests)
             = opAmount[r][c] + SumFunctionOnSet(HeldOn(c), Requests \ {r})
      /\ SumFunctionOnSet(HeldOn(c), Requests \ {r}) \in Nat
      /\ Available(r, c) = Captured[c] - SumFunctionOnSet(HeldOn(c), Requests \ {r})
      /\ Captured[c] \in Nat
  BY HeldTypes
<1>4. QED
  BY <1>1, <1>2, <1>3

\* A step that writes no amount, of a handler that neither starts nor continues
\* its loop with other shares.
LEMMA OverdraftQuiet ==
    ASSUME OverdraftInv, opAmount' = opAmount,
           \A v \in Workers : SharesFit(v)' \/ LocalsStay(v)
    PROVE  OverdraftInv'
<1>1. CapturesNotOverdrawn'
  BY DEF OverdraftInv, CapturesNotOverdrawn
<1>2. ASSUME NEW v \in Workers, LocalsStay(v) PROVE SharesFit(v)'
  <2>1. \A c \in Captures : \A x \in {req[v]} : Available(x, c)' = Available(x, c)
    BY DEF Available
  <2>2. QED
    BY <1>2, <2>1 DEF OverdraftInv, SharesFit, LocalsStay
<1>3. QED
  BY <1>1, <1>2 DEF OverdraftInv

LEMMA OverdraftInvInit == Init => OverdraftInv
<1> SUFFICES ASSUME Init, NEW c \in Captures
             PROVE  SumFunctionOnSet(HeldOn(c), Requests) <= Captured[c]
  BY DEF OverdraftInv, CapturesNotOverdrawn, HeldOn, SharesFit, Init
<1>1. \A r \in Requests : HeldOn(c)[r] = 0
  BY DEF Init, HeldOn
<1>2. SumFunctionOnSet(HeldOn(c), Requests) = SumFunctionOnSet(HeldOn(c), {})
  <2>1. /\ IsFiniteSet(Requests) /\ {} \in SUBSET Requests
        /\ \A r \in Requests : HeldOn(c)[r] \in Int
        /\ \A r \in Requests \ {} : HeldOn(c)[r] = 0
    BY <1>1, ConstantsAssumption
  <2>2. QED
    BY <2>1, SumOfNonZero
<1>3. QED
  BY <1>2, SumOfNone, ConstantsAssumption

\* The reserving transaction keeps the operations typed.
LEMMA ReservedTypes ==
    ASSUME ChannelTypes, WorkerTypes, NEW w \in Workers, ReserveOperation(w)
    PROVE  ChannelTypes'
<1>1. req[w] \in Requests /\ next[w] \in Captures /\ allocation[w][next[w]] \in Nat
  BY DEF ReserveOperation, WorkerTypes
<1>2. CASE UNCHANGED channelVars
  BY <1>2 DEF ChannelTypes, channelVars
<1>3. CASE /\ opStatus' = [opStatus EXCEPT ![req[w]][next[w]] = "RESERVED"]
           /\ opAmount' = [opAmount EXCEPT ![req[w]][next[w]] = allocation[w][next[w]]]
           /\ sends' = sends
  BY <1>1, <1>3, NestedUpdate DEF ChannelTypes, OpStatuses
<1>4. QED
  BY <1>2, <1>3 DEF ReserveOperation

LEMMA OverdraftInvStep ==
    ASSUME TimelyApprovals
    PROVE  TypeOK /\ LeaseInv /\ OverdraftInv /\ [Next]_vars => OverdraftInv'
<1> SUFFICES ASSUME TypeOK, LeaseInv, OverdraftInv, [Next]_vars PROVE OverdraftInv'
  OBVIOUS
<1>0. RequestTypes /\ ChannelTypes /\ WorkerTypes
  BY DEF TypeOK
<1> USE <1>0
<1>1. ASSUME NEW r \in Requests, NEW cnt \in RequestedCounts, CreateRefundRequest(r, cnt)
      PROVE  OverdraftInv'
  BY <1>1, OverdraftQuiet DEF CreateRefundRequest, LocalsStay, channelVars, workerVars
<1>2. ASSUME NEW w \in Workers, NEW r \in Requests, NEW k \in Keys,
             NEW cnt \in RequestedCounts, StartSystemRefund(w, r, k, cnt)
      PROVE  OverdraftInv'
  <2>1. \A v \in Workers \ {w} : LocalsStay(v)
    BY <1>2 DEF StartSystemRefund, LocalsStay, GoTo, AtRest, Throw, Advance, WorkerTypes
  <2>2. pc'[w] \notin {"reserve", "send", "await"} /\ opAmount' = opAmount
    BY <1>2 DEF StartSystemRefund, GoTo, AtRest, Throw, WorkerTypes, channelVars
  <2>3. QED
    BY <2>1, <2>2, OverdraftQuiet DEF SharesFit
<1>3. ASSUME NEW w \in Workers, NEW r \in Requests, RejectChecks(w, r)
      PROVE  OverdraftInv'
  <2>1. \A v \in Workers \ {w} : LocalsStay(v)
    BY <1>3 DEF RejectChecks, LocalsStay, GoTo, AtRest, Throw, Advance, WorkerTypes
  <2>2. pc'[w] \notin {"reserve", "send", "await"} /\ opAmount' = opAmount
    BY <1>3 DEF RejectChecks, GoTo, AtRest, Throw, WorkerTypes, channelVars
  <2>3. QED
    BY <2>1, <2>2, OverdraftQuiet DEF SharesFit
<1>4. ASSUME NEW w \in Workers, NEW r \in Requests, ApproveRefundRequest(w, r)
      PROVE  OverdraftInv'
  <2>1. \A v \in Workers \ {w} : LocalsStay(v)
    BY <1>4 DEF ApproveRefundRequest, LocalsStay, GoTo, AtRest, Throw, Advance, WorkerTypes
  <2>2. pc'[w] \notin {"reserve", "send", "await"} /\ opAmount' = opAmount
    BY <1>4 DEF ApproveRefundRequest, GoTo, AtRest, Throw, WorkerTypes, channelVars
  <2>3. QED
    BY <2>1, <2>2, OverdraftQuiet DEF SharesFit
<1>5. ASSUME NEW w \in Workers, RejectCommits(w)
      PROVE  OverdraftInv'
  <2>1. \A v \in Workers \ {w} : LocalsStay(v)
    BY <1>5 DEF RejectCommits, LocalsStay, GoTo, AtRest, Throw, Advance, WorkerTypes
  <2>2. pc'[w] \notin {"reserve", "send", "await"} /\ opAmount' = opAmount
    BY <1>5 DEF RejectCommits, GoTo, AtRest, Throw, WorkerTypes, channelVars
  <2>3. QED
    BY <2>1, <2>2, OverdraftQuiet DEF SharesFit
<1>6. ASSUME NEW w \in Workers, Claim(w)
      PROVE  OverdraftInv'
  <2>1. \A v \in Workers \ {w} : LocalsStay(v)
    BY <1>6 DEF Claim, LocalsStay, GoTo, AtRest, Throw, Advance, WorkerTypes
  <2>2. pc'[w] \notin {"reserve", "send", "await"} /\ opAmount' = opAmount
    BY <1>6 DEF Claim, GoTo, AtRest, Throw, WorkerTypes, channelVars
  <2>3. QED
    BY <2>1, <2>2, OverdraftQuiet DEF SharesFit
<1>7. ASSUME NEW w \in Workers, Prepare(w)
      PROVE  OverdraftInv'
  <2>1. \A v \in Workers \ {w} : LocalsStay(v)
    BY <1>7 DEF Prepare, LocalsStay, GoTo, AtRest, Throw, Advance, WorkerTypes
  <2>2. pc'[w] \notin {"reserve", "send", "await"} /\ opAmount' = opAmount
    BY <1>7 DEF Prepare, GoTo, AtRest, Throw, WorkerTypes, channelVars
  <2>3. QED
    BY <2>1, <2>2, OverdraftQuiet DEF SharesFit
<1>8. ASSUME NEW w \in Workers, PersistRefundPayment(w)
      PROVE  OverdraftInv'
  <2>1. \A v \in Workers \ {w} : LocalsStay(v)
    BY <1>8 DEF PersistRefundPayment, LocalsStay, GoTo, AtRest, Throw, Advance, WorkerTypes
  <2>2. pc'[w] \notin {"reserve", "send", "await"} /\ opAmount' = opAmount
    BY <1>8 DEF PersistRefundPayment, GoTo, AtRest, Throw, WorkerTypes, channelVars
  <2>3. QED
    BY <2>1, <2>2, OverdraftQuiet DEF SharesFit
<1>9. ASSUME NEW w \in Workers, Allocate(w)
      PROVE  OverdraftInv'
  <2>1. req[w] \in Requests /\ opAmount' = opAmount
    BY <1>9 DEF Allocate, WorkerTypes, channelVars
  <2>2. CASE Throw(w)
    <3>1. \A v \in Workers \ {w} : LocalsStay(v)
      BY <2>2 DEF LocalsStay, GoTo, Throw, WorkerTypes
    <3>2. pc'[w] = "release"
      BY <1>9, <2>2 DEF Allocate, Throw, GoTo, WorkerTypes
    <3>3. QED
      BY <2>1, <3>1, <3>2, OverdraftQuiet DEF SharesFit
  <2>3. ASSUME CapturesSuffice(req[w]),
               NEW a \in [Captures -> Amounts], IsCaptureAllocation(req[w], a),
               allocation' = [allocation EXCEPT ![w] = a],
               pc' = [pc EXCEPT ![w] = "reserve"], UNCHANGED <<req, next>>
        PROVE  OverdraftInv'
    <3>1. \A v \in Workers \ {w} : LocalsStay(v)
      BY <2>3 DEF LocalsStay, WorkerTypes
    <3>2. \A c \in Captures : a[c] <= Available(req[w], c)
      <4>1. /\ a \in [Captures -> Nat] /\ RefundAmount(req[w]) \in Nat
            /\ \A c \in Captures : Available(req[w], c) \in Nat
        BY <2>1, ConstantsAssumption, RefundAmountIsNatural, AvailableIsNatural
           DEF OverdraftInv
      <4>2. RefundAmount(req[w]) <= AvailableFrom(req[w], 1)
        <5>1. AvailableFrom(req[w], 1) \in Nat
          BY <2>1, <4>1, AvailableSplits, CaptureBounds
        <5>2. QED
          BY <2>3, <4>1, <5>1 DEF CapturesSuffice
      <4>3. QED
        BY <2>1, <2>3, <4>1, <4>2, AllocationFits
    <3>3. SharesFit(w)'
      <4>1. allocation'[w] = a /\ req' = req
        BY <2>3 DEF WorkerTypes
      <4>2. \A c \in Captures : \A x \in {req[w]} : Available(x, c)' = Available(x, c)
        BY <2>1 DEF Available
      <4>3. QED
        BY <3>2, <4>1, <4>2 DEF SharesFit
    <3>4. QED
      BY <2>1, <3>1, <3>3, OverdraftQuiet
  <2>4. QED
    BY <1>9, <2>2, <2>3 DEF Allocate
<1>10. ASSUME NEW w \in Workers, ReserveOperation(w)
      PROVE  OverdraftInv'
  <2>1. /\ req[w] \in Requests /\ next[w] \in Captures /\ InFlight(w)
        /\ pc[w] = "reserve" /\ SharesFit(w)
    BY <1>10 DEF ReserveOperation, WorkerTypes, InFlight, ApprovalSteps, OverdraftInv
  <2>2. \A v \in Workers \ {w} : LocalsStay(v) /\ ~InFlight(v)
    BY <1>10, <2>1 DEF ReserveOperation, LocalsStay, GoTo, Throw, Advance, WorkerTypes, LeaseInv
  <2>3. UNCHANGED <<req, allocation>>
    BY <1>10 DEF ReserveOperation, GoTo, Throw, Advance
  <2>4. CASE UNCHANGED channelVars
    <3>1. \A c \in Captures : \A x \in {req[w]} : Available(x, c)' = Available(x, c)
      BY <2>4 DEF Available, channelVars
    <3>2. SharesFit(w)'
      BY <2>1, <2>3, <3>1 DEF SharesFit
    <3>3. QED
      BY <2>2, <2>4, <3>2, OverdraftQuiet DEF channelVars
  <2>5. CASE opAmount' = [opAmount EXCEPT ![req[w]][next[w]] = allocation[w][next[w]]]
    <3>1. ASSUME NEW c \in Captures
          PROVE  /\ SumFunctionOnSet(HeldOn(c)', Requests) <= Captured[c]
                 /\ \A x \in {req[w]} : Available(x, c)' = Available(x, c)
      <4> DEFINE r == req[w]
                 others == SumFunctionOnSet(HeldOn(c), Requests \ {r})
      <4>1. ChannelTypes'
        BY <2>1, <2>5, <1>10, ReservedTypes DEF ReserveOperation
      <4>2. \A x \in Requests \ {r} : HeldOn(c)'[x] = HeldOn(c)[x] /\ HeldOn(c)[x] \in Int
        BY <2>1, <2>5 DEF HeldOn, ChannelTypes
      <4>3. SumFunctionOnSet(HeldOn(c)', Requests \ {r}) = others
        <5>1. IsFiniteSet(Requests \ {r})
          BY ConstantsAssumption, FS_Subset
        <5>2. QED
          BY <4>2, <5>1, SumSame
      <4>4. /\ SumFunctionOnSet(HeldOn(c), Requests) = opAmount[r][c] + others
            /\ others \in Nat /\ Available(r, c) = Captured[c] - others
            /\ Captured[c] \in Nat
        BY <2>1, HeldTypes
      <4>5. /\ SumFunctionOnSet(HeldOn(c)', Requests)
                  = opAmount'[r][c] + SumFunctionOnSet(HeldOn(c)', Requests \ {r})
        <5>1. /\ IsFiniteSet(Requests) /\ r \in Requests
              /\ HeldOn(c)'[r] = opAmount'[r][c]
              /\ \A x \in Requests : HeldOn(c)'[x] \in Int
          BY <2>1, <4>1, ConstantsAssumption DEF HeldOn, ChannelTypes
        <5>2. QED
          BY <5>1, SumRemove
      <4>6. \A x \in {r} : Available(x, c)' = Captured[c] - SumFunctionOnSet(HeldOn(c)', Requests \ {x})
        BY DEF Available, HeldOn
      <4>7. opAmount'[r][c] <= Captured[c] - others
        <5>1. CASE c = next[w]
          <6>1. opAmount'[r][c] = allocation[w][c]
            BY <2>1, <2>5, <5>1 DEF ChannelTypes
          <6>2. QED
            BY <2>1, <4>4, <6>1 DEF SharesFit
        <5>2. CASE c # next[w]
          <6>1. opAmount'[r][c] = opAmount[r][c] /\ opAmount[r][c] \in Nat
            BY <2>1, <2>5, <5>2 DEF ChannelTypes
          <6>2. SumFunctionOnSet(HeldOn(c), Requests) <= Captured[c]
            BY DEF OverdraftInv, CapturesNotOverdrawn, HeldOn
          <6>3. QED
            BY <4>4, <6>1, <6>2
        <5>3. QED
          BY <5>1, <5>2
      <4>8. opAmount'[r][c] \in Nat
        BY <2>1, <4>1 DEF ChannelTypes
      <4> HIDE DEF others
      <4>9. SumFunctionOnSet(HeldOn(c)', Requests) <= Captured[c]
        BY <4>3, <4>4, <4>5, <4>7, <4>8
      <4>10. QED
        BY <4>3, <4>4, <4>6, <4>9
    <3>2. CapturesNotOverdrawn'
      BY <3>1 DEF CapturesNotOverdrawn, HeldOn
    <3>3. SharesFit(w)'
      BY <2>1, <2>3, <3>1 DEF SharesFit
    <3>4. \A v \in Workers \ {w} : SharesFit(v)'
      BY <2>2 DEF SharesFit, LocalsStay, InFlight, ApprovalSteps
    <3>5. QED
      BY <3>2, <3>3, <3>4 DEF OverdraftInv
  <2>6. QED
    BY <1>10, <2>4, <2>5 DEF ReserveOperation
<1>11. ASSUME NEW w \in Workers, SendInit(w)
      PROVE  OverdraftInv'
  <2>1. \A v \in Workers \ {w} : LocalsStay(v)
    BY <1>11 DEF SendInit, LocalsStay, GoTo, Throw, Advance, WorkerTypes
  <2>2. UNCHANGED <<opAmount, req, allocation>> /\ pc[w] \in {"send", "await"}
    BY <1>11 DEF SendInit, GoTo, Throw, Advance
  <2>3. \A c \in Captures : \A x \in {req[w]} : Available(x, c)' = Available(x, c)
    BY <2>2 DEF Available
  <2>4. SharesFit(w)'
    BY <2>2, <2>3 DEF SharesFit, OverdraftInv
  <2>5. QED
    BY <2>1, <2>2, <2>4, OverdraftQuiet
<1>12. ASSUME NEW w \in Workers, InitAnswered(w)
      PROVE  OverdraftInv'
  <2>1. \A v \in Workers \ {w} : LocalsStay(v)
    BY <1>12 DEF InitAnswered, LocalsStay, GoTo, Throw, Advance, WorkerTypes
  <2>2. UNCHANGED <<opAmount, req, allocation>> /\ pc[w] \in {"send", "await"}
    BY <1>12 DEF InitAnswered, GoTo, Throw, Advance
  <2>3. \A c \in Captures : \A x \in {req[w]} : Available(x, c)' = Available(x, c)
    BY <2>2 DEF Available
  <2>4. SharesFit(w)'
    BY <2>2, <2>3 DEF SharesFit, OverdraftInv
  <2>5. QED
    BY <2>1, <2>2, <2>4, OverdraftQuiet
<1>13. ASSUME NEW w \in Workers, InitUnanswered(w)
      PROVE  OverdraftInv'
  <2>1. \A v \in Workers \ {w} : LocalsStay(v)
    BY <1>13 DEF InitUnanswered, LocalsStay, GoTo, AtRest, Throw, Advance, WorkerTypes
  <2>2. pc'[w] \notin {"reserve", "send", "await"} /\ opAmount' = opAmount
    BY <1>13 DEF InitUnanswered, GoTo, AtRest, Throw, WorkerTypes, channelVars
  <2>3. QED
    BY <2>1, <2>2, OverdraftQuiet DEF SharesFit
<1>14. ASSUME NEW w \in Workers, Finalize(w)
      PROVE  OverdraftInv'
  <2>1. \A v \in Workers \ {w} : LocalsStay(v)
    BY <1>14 DEF Finalize, LocalsStay, GoTo, AtRest, Throw, Advance, WorkerTypes
  <2>2. pc'[w] \notin {"reserve", "send", "await"} /\ opAmount' = opAmount
    BY <1>14 DEF Finalize, GoTo, AtRest, Throw, WorkerTypes, channelVars
  <2>3. QED
    BY <2>1, <2>2, OverdraftQuiet DEF SharesFit
<1>15. ASSUME NEW w \in Workers, ReleaseLease(w)
      PROVE  OverdraftInv'
  <2>1. \A v \in Workers \ {w} : LocalsStay(v)
    BY <1>15 DEF ReleaseLease, LocalsStay, GoTo, AtRest, Throw, Advance, WorkerTypes
  <2>2. pc'[w] \notin {"reserve", "send", "await"} /\ opAmount' = opAmount
    BY <1>15 DEF ReleaseLease, GoTo, AtRest, Throw, WorkerTypes, channelVars
  <2>3. QED
    BY <2>1, <2>2, OverdraftQuiet DEF SharesFit
<1>16. ASSUME NEW w \in Workers, Crash(w)
      PROVE  OverdraftInv'
  <2>1. \A v \in Workers \ {w} : LocalsStay(v)
    BY <1>16 DEF Crash, LocalsStay, GoTo, AtRest, Throw, Advance, WorkerTypes
  <2>2. pc'[w] \notin {"reserve", "send", "await"} /\ opAmount' = opAmount
    BY <1>16 DEF Crash, GoTo, AtRest, Throw, WorkerTypes, channelVars
  <2>3. QED
    BY <2>1, <2>2, OverdraftQuiet DEF SharesFit
<1>17. CASE LeaseExpires
  BY <1>17, OverdraftQuiet DEF LeaseExpires, LocalsStay, channelVars, workerVars
<1>18. ASSUME NEW r \in Requests, CancelRefundPayment(r)
      PROVE  OverdraftInv'
  BY <1>18, OverdraftQuiet DEF CancelRefundPayment, LocalsStay, channelVars, workerVars
<1>19. ASSUME NEW r \in Requests, NEW c \in Captures, AcceptedRefundFails(r, c)
      PROVE  OverdraftInv'
  BY <1>19, OverdraftQuiet DEF AcceptedRefundFails, LocalsStay, channelVars, workerVars
<1>20. CASE UNCHANGED vars
  BY <1>20, OverdraftQuiet DEF vars, LocalsStay, channelVars, workerVars
<1>21. QED
  BY <1>1, <1>2, <1>3, <1>4, <1>5, <1>6, <1>7, <1>8, <1>9, <1>10, <1>11,
     <1>12, <1>13, <1>14, <1>15, <1>16, <1>17, <1>18, <1>19, <1>20
     DEF Next, HandlerStep

\* While no approval outlives its lease, the refunds reserved on a capture never
\* exceed what it captured: the lease keeps every other approval from reserving
\* between the read of what is available and the last reservation of the loop.
THEOREM CapturesNotOverdrawnHolds ==
    ASSUME TimelyApprovals
    PROVE  Spec => []CapturesNotOverdrawn
<1>1. OverdraftInv => CapturesNotOverdrawn
  BY DEF OverdraftInv
<1>2. TypeOK /\ LeaseInv /\ OverdraftInv /\ [Next]_vars => OverdraftInv'
  BY OverdraftInvStep
<1>3. TypeOK /\ LeaseInv /\ [Next]_vars => LeaseInv'
  BY LeaseInvStep
<1>4. QED
  BY <1>1, <1>2, <1>3, OverdraftInvInit, LeaseInvInit, TypeCorrect, PTL DEF Spec
=============================================================================
