------------------------ MODULE RefundSettlementProofs ------------------------
(***************************************************************************)
(* Proofs about refunds of the Iyzico channel and their settlement in the    *)
(* payment service, for any number of refunds, lines and calls: no line is   *)
(* sent twice, what was settled was paid back, rounding is posted once, and  *)
(* nothing that was settled is unsettled, and a line never gives back more   *)
(* than was paid.  The channel's part rests on the claim: the row of a       *)
(* refund is SUBMITTING for one call, and what that call has not sent yet    *)
(* nobody has.                                                               *)
(*                                                                         *)
(* The last part is about the amounts of a purchase and of its refunds, and  *)
(* the rows they post.                                                       *)
(***************************************************************************)
EXTENDS RefundSettlement, RefundPosting, SumTheorems, TLAPS

\* A call that has claimed its refund and not ended it.
Submitting(c) == rcaller[c].pc \in {"line", "send", "reply", "finish"}

\* A call in progress was recorded: the row of its refund exists.
CallsHaveRow ==
  \A c \in RefundCallers :
    rcaller[c].pc # "idle" => refund[rcaller[c].refund].state # "NONE"

CallOfLine == [pc : {"line", "send", "reply", "finish", "answer"},
               refund : Refunds, line : Lines]
CallOfRefund == [pc : {"claim", "answer"}, refund : Refunds]
-----------------------------------------------------------------------------
(* Types *)

\* A call that has a refund, and one that has a line.
LEMMA CallTypes ==
  ASSUME RefundTypeOK, NEW c \in RefundCallers
  PROVE  /\ rcaller[c].pc \in RefundPoints
         /\ rcaller[c].pc # "idle" => rcaller[c].refund \in Refunds
         /\ Submitting(c) => rcaller[c] \in CallOfLine
         /\ rcaller[c].pc = "claim" => rcaller[c] \in CallOfRefund
<1>1. rcaller[c] \in RefundCallerStates
  BY DEF RefundTypeOK
<1>2. \/ rcaller[c] \in [pc : {"idle"}] \/ rcaller[c] \in CallOfRefund
      \/ rcaller[c] \in CallOfLine
  BY <1>1 DEF RefundCallerStates, CallOfRefund, CallOfLine
<1>3. QED BY <1>2 DEF CallOfRefund, CallOfLine, Submitting, RefundPoints

\* Moving a call keeps its type.
LEMMA MovesType ==
  ASSUME RefundTypeOK, NEW c \in RefundCallers, NEW p \in {"line", "send", "reply", "finish", "answer"},
         Submitting(c) \/ (rcaller[c].pc = "claim" /\ p = "answer"),
         Moves(c, p)
  PROVE  /\ rcaller' \in [RefundCallers -> RefundCallerStates]
         /\ rcaller'[c].pc = p
         /\ rcaller'[c].refund = rcaller[c].refund
         /\ Submitting(c) => rcaller'[c].line = rcaller[c].line
         /\ \A d \in RefundCallers : d # c => rcaller'[d] = rcaller[d]
<1> DEFINE moved == [rcaller[c] EXCEPT !.pc = p]
<1>1. rcaller' = [rcaller EXCEPT ![c] = moved] /\ rcaller \in [RefundCallers -> RefundCallerStates]
  BY DEF Moves, RefundTypeOK
<1>2. CASE Submitting(c)
  <2>1. moved \in CallOfLine
    BY <1>2, CallTypes DEF CallOfLine
  <2>2. moved \in RefundCallerStates
    BY <2>1 DEF CallOfLine, RefundCallerStates
  <2>3. moved.pc = p /\ moved.refund = rcaller[c].refund /\ moved.line = rcaller[c].line
    BY <1>2, CallTypes DEF CallOfLine
  <2> HIDE DEF moved
  <2>4. QED BY <1>1, <2>2, <2>3
<1>3. CASE ~Submitting(c)
  <2>1. moved \in CallOfRefund
    BY <1>3, CallTypes DEF CallOfRefund
  <2>2. moved \in RefundCallerStates
    BY <2>1 DEF CallOfRefund, RefundCallerStates
  <2>3. moved.pc = p /\ moved.refund = rcaller[c].refund
    BY <1>3, CallTypes DEF CallOfRefund
  <2> HIDE DEF moved
  <2>4. QED BY <1>1, <1>3, <2>2, <2>3
<1>4. QED BY <1>2, <1>3

\* The call goes on to a later line of its refund, or to its end.
LEMMA AfterLineType ==
  ASSUME RefundTypeOK, NEW c \in RefundCallers, Submitting(c), AfterLine(c)
  PROVE  /\ rcaller' \in [RefundCallers -> RefundCallerStates]
         /\ rcaller'[c].refund = rcaller[c].refund
         /\ \A d \in RefundCallers : d # c => rcaller'[d] = rcaller[d]
         /\ \/ rcaller'[c].pc = "finish" /\ rcaller'[c].line = rcaller[c].line
            \/ /\ rcaller'[c].pc = "line"
               /\ rcaller'[c].line \in LinesOf(rcaller[c].refund)
               /\ rcaller'[c].line > rcaller[c].line
<1>1. CASE Moves(c, "finish")
  BY <1>1, MovesType
<1>2. CASE \E i \in LinesOf(rcaller[c].refund) :
              /\ i > rcaller[c].line
              /\ rcaller' = [rcaller EXCEPT ![c].pc = "line", ![c].line = i]
  <2>1. PICK i \in LinesOf(rcaller[c].refund) :
              /\ i > rcaller[c].line
              /\ rcaller' = [rcaller EXCEPT ![c].pc = "line", ![c].line = i]
    BY <1>2
  <2> DEFINE moved == [rcaller[c] EXCEPT !.pc = "line", !.line = i]
  <2>2. i \in Lines
    BY DEF LinesOf
  <2>3. moved \in CallOfLine
    BY <2>2, CallTypes DEF CallOfLine
  <2>4. moved \in RefundCallerStates
    BY <2>3 DEF CallOfLine, RefundCallerStates
  <2>5. moved.pc = "line" /\ moved.refund = rcaller[c].refund /\ moved.line = i
    BY CallTypes DEF CallOfLine
  <2>6. rcaller' = [rcaller EXCEPT ![c] = moved]
        /\ rcaller \in [RefundCallers -> RefundCallerStates]
    BY <2>1 DEF RefundTypeOK
  <2> HIDE DEF moved
  <2>7. QED BY <2>1, <2>4, <2>5, <2>6
<1>3. QED BY <1>1, <1>2 DEF AfterLine, Firsts

\* The amount of a line is a natural number after every rounding.
LEMMA RoundedType == \A amount \in Nat, mode \in Modes : Rounded(amount, mode) \in Nat
  BY DEF Rounded, Modes, Cent

\* What a row answers is a status and lines.
LEMMA TellsType ==
  ASSUME RefundTypeOK, NEW r \in Refunds, refund[r].state # "NONE", Tells(r)
  PROVE  rAnswers' \in [Refunds -> SUBSET RefundAnswers]
<1> DEFINE a == [status |-> RefundStatus(r), settled |-> Succeeded(r)]
<1>1. a \in RefundAnswers
  BY DEF RefundAnswers, RefundStatus, Succeeded, LinesOf
<1>2. rAnswers' = [rAnswers EXCEPT ![r] = @ \union {a}]
  BY DEF Tells
<1> HIDE DEF a
<1>3. QED BY <1>1, <1>2 DEF RefundTypeOK

\* A line or the state of a row is set.
LEMMA RowType ==
  ASSUME RefundTypeOK, NEW r \in Refunds, NEW i \in Lines
  PROVE  /\ \A s \in LineStates :
              /\ SetLine(r, i, s) \in [Refunds -> [state : RefundStates, lines : [Lines -> LineStates]]]
              /\ SetLine(r, i, s)[r].state = refund[r].state
              /\ \A j \in Lines : SetLine(r, i, s)[r].lines[j] =
                                    IF j = i THEN s ELSE refund[r].lines[j]
              /\ \A x \in Refunds : x # r => SetLine(r, i, s)[x] = refund[x]
  BY DEF RefundTypeOK, SetLine
-----------------------------------------------------------------------------
(* Every step keeps the types *)

LEMMA SettlementInitType == SettlementInit => SettlementTypeOK
<1> SUFFICES ASSUME SettlementInit PROVE SettlementTypeOK
  OBVIOUS
<1>1. NoRefund \in [state : RefundStates, lines : [Lines -> LineStates]]
  BY DEF NoRefund, RefundStates, LineStates
<1>2. NoPlan \in [Lines -> Nat]
  BY DEF NoPlan
<1>3. [pc |-> "idle"] \in RefundCallerStates
  BY DEF RefundCallerStates
<1>4. RefundTypeOK
  BY <1>1, <1>2, <1>3, RefundAssumption DEF SettlementInit, RefundInit, RefundTypeOK
<1>5. record \in [Refunds -> [status : {"NONE", "WAITING", "COMPLETED", "FAILED"},
                              known : BOOLEAN, settled : SUBSET Lines]]
  BY DEF SettlementInit, NoRecord
<1>6. entries \in [Refunds -> [Lines -> Nat]] /\ redeliveries \in 0..MaxRedeliveries
  BY SettlementAssumption DEF SettlementInit
<1>7. QED BY <1>4, <1>5, <1>6 DEF SettlementTypeOK

\* The types of what the payment service keeps, when it leaves it alone.
LEMMA ServiceTypeKept ==
  ASSUME SettlementTypeOK, UNCHANGED settlementVars, RefundTypeOK'
  PROVE  SettlementTypeOK'
  BY DEF SettlementTypeOK, settlementVars

\* A step of a call in progress.
LEMMA CallStepType ==
  ASSUME RefundTypeOK, CallsHaveRow, NEW c \in RefundCallers, RefundCallStep(c)
  PROVE  RefundTypeOK'
<1> DEFINE r == rcaller[c].refund
           i == rcaller[c].line
<1>1. CASE Claim(c)
  <2>1. rcaller[c].pc = "claim" /\ r \in Refunds
    BY <1>1, CallTypes DEF Claim, AtPoint
  <2>2. CASE Claimable(r)
    <3>1. PICK j \in LinesOf(r) :
            /\ refund' = [refund EXCEPT ![r].state = "SUBMITTING"]
            /\ rcaller' = [rcaller EXCEPT ![c] = [pc |-> "line", refund |-> r, line |-> j]]
      BY <1>1, <2>2 DEF Claim, Firsts
    <3>2. [pc |-> "line", refund |-> r, line |-> j] \in RefundCallerStates
      BY <2>1 DEF RefundCallerStates, LinesOf
    <3> HIDE DEF r
    <3>3. QED BY <1>1, <2>1, <3>1, <3>2, ZenonT(30) DEF RefundTypeOK, Claim, RefundStates
  <2>3. CASE ~Claimable(r)
    <3>1. Moves(c, "answer") /\ UNCHANGED refund
      BY <1>1, <2>3 DEF Claim
    <3>2. rcaller' \in [RefundCallers -> RefundCallerStates]
      BY <2>1, <3>1, MovesType
    <3>3. QED BY <1>1, <3>1, <3>2 DEF RefundTypeOK, Claim
  <2>4. QED BY <2>2, <2>3
<1>2. CASE MarkSubmitting(c)
  <2>1. Submitting(c) /\ r \in Refunds /\ i \in Lines
    BY <1>2, CallTypes DEF MarkSubmitting, AtPoint, Submitting, CallOfLine
  <2>2. rcaller' \in [RefundCallers -> RefundCallerStates]
    BY <1>2, <2>1, MovesType DEF MarkSubmitting
  <2>3. refund' \in [Refunds -> [state : RefundStates, lines : [Lines -> LineStates]]]
    BY <1>2, <2>1, RowType DEF MarkSubmitting, LineStates
  <2>4. QED BY <1>2, <2>2, <2>3 DEF RefundTypeOK, MarkSubmitting
<1>3. CASE ProviderRefunds(c)
  <2>1. Submitting(c) /\ r \in Refunds /\ i \in Lines
    BY <1>3, CallTypes DEF ProviderRefunds, AtPoint, Submitting, CallOfLine
  <2>2. rcaller' \in [RefundCallers -> RefundCallerStates]
    BY <1>3, <2>1, MovesType DEF ProviderRefunds
  <2>3. /\ sent' = [sent EXCEPT ![r][i] = @ + 1]
        /\ \/ paidBack' = [paidBack EXCEPT ![r] = @ \union {i}]
           \/ UNCHANGED paidBack
    BY <1>3 DEF ProviderRefunds
  <2> HIDE DEF r, i
  <2>4. sent' \in [Refunds -> [Lines -> Nat]] /\ paidBack' \in [Refunds -> SUBSET Lines]
    <3>1. sent[r] \in [Lines -> Nat] /\ paidBack[r] \in SUBSET Lines
      BY <2>1 DEF RefundTypeOK
    <3>2. sent' \in [Refunds -> [Lines -> Nat]]
      <4>1. [sent[r] EXCEPT ![i] = @ + 1] \in [Lines -> Nat]
        BY <2>1, <3>1
      <4>2. sent' = [sent EXCEPT ![r] = [sent[r] EXCEPT ![i] = @ + 1]]
        BY <2>3
      <4>3. QED BY <2>1, <4>1, <4>2 DEF RefundTypeOK
    <3>3. paidBack' \in [Refunds -> SUBSET Lines]
      <4>1. paidBack[r] \union {i} \in SUBSET Lines
        BY <2>1, <3>1
      <4>2. CASE paidBack' = [paidBack EXCEPT ![r] = @ \union {i}]
        BY <4>1, <4>2 DEF RefundTypeOK
      <4>3. CASE UNCHANGED paidBack
        BY <4>3 DEF RefundTypeOK
      <4>4. QED BY <2>3, <4>2, <4>3
    <3>4. QED BY <3>2, <3>3
  <2>5. QED BY <1>3, <2>2, <2>4 DEF RefundTypeOK, ProviderRefunds
<1>4. CASE SaveSuccess(c)
  <2>1. Submitting(c) /\ r \in Refunds /\ i \in Lines
    BY <1>4, CallTypes DEF SaveSuccess, AtPoint, Submitting, CallOfLine
  <2>2. rcaller' \in [RefundCallers -> RefundCallerStates]
    BY <1>4, <2>1, AfterLineType DEF SaveSuccess
  <2>3. refund' \in [Refunds -> [state : RefundStates, lines : [Lines -> LineStates]]]
    BY <1>4, <2>1, RowType DEF SaveSuccess, LineStates
  <2>4. QED BY <1>4, <2>2, <2>3 DEF RefundTypeOK, SaveSuccess
<1>5. CASE SaveRejection(c)
  <2>1. Submitting(c) /\ r \in Refunds /\ i \in Lines
    BY <1>5, CallTypes DEF SaveRejection, AtPoint, Submitting, CallOfLine
  <2>2. /\ refund' = [refund EXCEPT ![r].lines[i] = "REJECTED",
                                    ![r].state = "RECONCILIATION_REQUIRED"]
        /\ Moves(c, "answer")
        /\ UNCHANGED <<plan, sent, paidBack, rAnswers, lostRefundCalls>>
    BY <1>5 DEF SaveRejection, LineFails, AfterFailure
  <2>3. rcaller' \in [RefundCallers -> RefundCallerStates]
    BY <2>1, <2>2, MovesType
  <2> HIDE DEF r, i
  <2>4. refund' \in [Refunds -> [state : RefundStates, lines : [Lines -> LineStates]]]
    BY <2>1, <2>2 DEF RefundTypeOK, RefundStates, LineStates
  <2>5. QED BY <2>2, <2>3, <2>4 DEF RefundTypeOK
<1>6. CASE Finish(c)
  <2>1. Submitting(c) /\ r \in Refunds
    BY <1>6, CallTypes DEF Finish, AtPoint, Submitting, CallOfLine
  <2>2. rcaller' \in [RefundCallers -> RefundCallerStates]
    BY <1>6, <2>1, MovesType DEF Finish
  <2>3. refund' = [refund EXCEPT ![r].state = "FINISHED"]
    BY <1>6 DEF Finish
  <2> HIDE DEF r
  <2>4. refund' \in [Refunds -> [state : RefundStates, lines : [Lines -> LineStates]]]
    BY <2>1, <2>3 DEF RefundTypeOK, RefundStates
  <2>5. QED BY <1>6, <2>2, <2>4 DEF RefundTypeOK, Finish
<1>7. CASE AnswerRefund(c)
  <2>1. r \in Refunds
    BY <1>7, CallTypes DEF AnswerRefund, AtPoint
  <2>2. [pc |-> "idle"] \in RefundCallerStates
    BY DEF RefundCallerStates
  <2>3. rcaller' \in [RefundCallers -> RefundCallerStates]
    BY <1>7, <2>2 DEF AnswerRefund, Ends, RefundTypeOK
  <2>4. rAnswers' \in [Refunds -> SUBSET RefundAnswers]
    BY <1>7, <2>1, TellsType DEF AnswerRefund, AtPoint, CallsHaveRow
  <2>5. QED BY <1>7, <2>3, <2>4 DEF RefundTypeOK, AnswerRefund
<1>8. QED BY <1>1, <1>2, <1>3, <1>4, <1>5, <1>6, <1>7 DEF RefundCallStep

\* A call that fails or dies.
LEMMA CallFaultType ==
  ASSUME RefundTypeOK, NEW c \in RefundCallers, RefundFault(c)
  PROVE  RefundTypeOK'
<1> DEFINE r == rcaller[c].refund
           i == rcaller[c].line
<1>1. lostRefundCalls' \in 0..MaxLostRefundCalls
  BY RefundAssumption DEF RefundFault, LineIsAmbiguous, RefundCallDies, RefundTypeOK
<1>2. CASE LineIsAmbiguous(c)
  <2>1. Submitting(c) /\ r \in Refunds /\ i \in Lines
    BY <1>2, CallTypes DEF LineIsAmbiguous, AtPoint, Submitting, CallOfLine
  <2>2. /\ refund' = [refund EXCEPT ![r].lines[i] = "RECONCILIATION_REQUIRED",
                                    ![r].state = "RECONCILIATION_REQUIRED"]
        /\ Moves(c, "answer")
        /\ UNCHANGED <<plan, sent, paidBack, rAnswers>>
    BY <1>2 DEF LineIsAmbiguous, LineFails, AfterFailure
  <2>3. rcaller' \in [RefundCallers -> RefundCallerStates]
    BY <2>1, <2>2, MovesType
  <2> HIDE DEF r, i
  <2>4. refund' \in [Refunds -> [state : RefundStates, lines : [Lines -> LineStates]]]
    BY <2>1, <2>2 DEF RefundTypeOK, RefundStates, LineStates
  <2>5. QED BY <1>1, <2>2, <2>3, <2>4 DEF RefundTypeOK
<1>3. CASE RefundCallDies(c)
  <2>1. [pc |-> "idle"] \in RefundCallerStates
    BY DEF RefundCallerStates
  <2>2. rcaller' \in [RefundCallers -> RefundCallerStates]
    BY <1>3, <2>1 DEF RefundCallDies, Ends, RefundTypeOK
  <2>3. QED BY <1>1, <1>3, <2>2 DEF RefundCallDies, RefundTypeOK
<1>4. QED BY <1>2, <1>3 DEF RefundFault

\* The steps the payment service takes.
LEMMA ServiceStepType ==
  ASSUME SettlementTypeOK, NEW r \in Refunds,
         \/ PrepareRefund(r) \/ PollRefund(r)
         \/ \E a \in rAnswers[r] : SaveSettlement(r, a)
         \/ \E c \in RefundCallers : SendRefund(c, r)
  PROVE  SettlementTypeOK'
<1>0. RefundTypeOK
  BY DEF SettlementTypeOK
<1>1. CASE PrepareRefund(r)
  <2>1. PICK mode \in Modes : Prepare(r, mode)
    BY <1>1 DEF PrepareRefund
  <2>2. \A i \in LinesOf(r) : Rounded(Nominal[r][i], mode) \in Nat
    BY RoundedType, RefundAssumption DEF LinesOf
  <2>3. [i \in Lines |-> IF i \in LinesOf(r) THEN Rounded(Nominal[r][i], mode) ELSE 0]
           \in [Lines -> Nat]
    BY <2>2
  <2>4. RefundTypeOK'
    BY <1>0, <2>1, <2>3 DEF RefundTypeOK, Prepare
  <2>5. record' \in [Refunds -> [status : {"NONE", "WAITING", "COMPLETED", "FAILED"},
                                 known : BOOLEAN, settled : SUBSET Lines]]
    BY <1>1 DEF PrepareRefund, SettlementTypeOK
  <2>6. QED BY <1>1, <2>4, <2>5 DEF PrepareRefund, SettlementTypeOK
<1>2. CASE PollRefund(r)
  <2>1. rAnswers' \in [Refunds -> SUBSET RefundAnswers]
    BY <1>0, <1>2, TellsType DEF PollRefund, CheckRefund
  <2>2. QED
    BY <1>0, <1>2, <2>1 DEF PollRefund, CheckRefund, RefundTypeOK, SettlementTypeOK,
       settlementVars
<1>3. CASE \E a \in rAnswers[r] : SaveSettlement(r, a)
  <2>1. PICK a \in rAnswers[r] : SaveSettlement(r, a)
    BY <1>3
  <2>2. a \in RefundAnswers
    BY <1>0 DEF RefundTypeOK
  <2>3. RefundTypeOK'
    BY <1>0, <2>1 DEF SaveSettlement, refundVars, RefundTypeOK, RefundCallerStates
  <2>4. record' \in [Refunds -> [status : {"NONE", "WAITING", "COMPLETED", "FAILED"},
                                 known : BOOLEAN, settled : SUBSET Lines]]
    BY <2>1, <2>2 DEF SaveSettlement, SettlementTypeOK, RefundAnswers
  <2>5. entries' \in [Refunds -> [Lines -> Nat]]
    BY <2>1 DEF SaveSettlement, SettlementTypeOK
  <2>6. QED BY <2>1, <2>3, <2>4, <2>5 DEF SaveSettlement, SettlementTypeOK
<1>4. ASSUME NEW c \in RefundCallers, SendRefund(c, r) PROVE SettlementTypeOK'
  <2>1. [pc |-> "claim", refund |-> r] \in RefundCallerStates
    BY DEF RefundCallerStates
  <2>2. rcaller' \in [RefundCallers -> RefundCallerStates]
    BY <1>0, <1>4, <2>1 DEF SendRefund, ReserveRefund, RefundTypeOK
  <2>3. refund' \in [Refunds -> [state : RefundStates, lines : [Lines -> LineStates]]]
    <3>1. \/ refund' = refund
          \/ refund' = [refund EXCEPT ![r].state = "RESERVED"]
      BY <1>4 DEF SendRefund, ReserveRefund
    <3>2. QED BY <1>0, <3>1 DEF RefundTypeOK, RefundStates
  <2>4. RefundTypeOK'
    BY <1>0, <1>4, <2>2, <2>3 DEF SendRefund, ReserveRefund, RefundTypeOK
  <2>5. redeliveries' \in 0..MaxRedeliveries
    BY <1>4, SettlementAssumption DEF SendRefund, SettlementTypeOK
  <2>6. QED BY <1>4, <2>4, <2>5 DEF SendRefund, SettlementTypeOK
<1>5. QED BY <1>1, <1>2, <1>3, <1>4
-----------------------------------------------------------------------------
(* The row of a refund and the call that submits it *)

\* What was sent, executed and recorded of the lines of a refund.
RowHolds(r) ==
  /\ refund[r].state \in {"NONE", "RESERVED"} => \A i \in Lines : sent[r][i] = 0
  /\ \A i \in Lines : sent[r][i] <= 1
  /\ paidBack[r] \subseteq LinesOf(r)
  /\ \A i \in paidBack[r] : sent[r][i] = 1
  /\ \A i \in Lines : refund[r].lines[i] = "SUCCEEDED" => i \in paidBack[r]
  /\ (\E i \in Lines : refund[r].lines[i] = "REJECTED") =>
       /\ refund[r].state = "RECONCILIATION_REQUIRED"
       /\ \A j \in paidBack[r] : refund[r].lines[j] = "SUCCEEDED"

\* A call that submits a refund: what is behind its line was never sent, and what
\* was executed before it is recorded.
SubmitHolds(c, r) ==
  /\ refund[r].state = "SUBMITTING"
  /\ rcaller[c].line \in LinesOf(r)
  /\ rcaller[c].pc \in {"line", "send"} =>
       \A j \in Lines : j >= rcaller[c].line => sent[r][j] = 0
  /\ rcaller[c].pc = "reply" => \A j \in Lines : j > rcaller[c].line => sent[r][j] = 0
  /\ \A j \in paidBack[r] :
       \/ refund[r].lines[j] = "SUCCEEDED"
       \/ rcaller[c].pc = "reply" /\ j = rcaller[c].line

CallHolds(c) == Submitting(c) => SubmitHolds(c, rcaller[c].refund)

OneSubmits ==
  \A c, d \in RefundCallers :
    Submitting(c) /\ Submitting(d) /\ rcaller[c].refund = rcaller[d].refund => c = d

ChannelInv ==
  /\ CallsHaveRow /\ OneSubmits
  /\ \A r \in Refunds : RowHolds(r)
  /\ \A c \in RefundCallers : CallHolds(c)

\* What was executed stays, and a row that needs reconciliation is frozen.
Grows(r) ==
  /\ paidBack[r] \subseteq paidBack'[r]
  /\ refund[r].state = "RECONCILIATION_REQUIRED" =>
       refund'[r].state = "RECONCILIATION_REQUIRED" /\ paidBack'[r] = paidBack[r]

\* A step of one call on the row of its refund, which no other call submits.
LEMMA RowStep ==
  ASSUME ChannelInv, NEW c \in RefundCallers, NEW r \in Refunds,
         \A x \in Refunds : x # r => /\ refund'[x] = refund[x] /\ sent'[x] = sent[x]
                                     /\ paidBack'[x] = paidBack[x],
         \A d \in RefundCallers : d # c => rcaller'[d] = rcaller[d],
         \A d \in RefundCallers : d # c /\ Submitting(d) => rcaller[d].refund # r,
         rcaller'[c].refund = r,
         refund'[r].state # "NONE",
         RowHolds(r)', CallHolds(c)', Grows(r),
         UNCHANGED rAnswers,
         \A d \in RefundCallers : rcaller[d].pc # "idle" => rcaller[d].refund \in Refunds
  PROVE  ChannelInv' /\ \A x \in Refunds : Grows(x)
<1>1. \A x \in Refunds : Grows(x)
  BY DEF Grows
<1>2. \A x \in Refunds : RowHolds(x)'
  <2>1. ASSUME NEW x \in Refunds, x # r PROVE RowHolds(x)'
    BY <2>1 DEF ChannelInv, RowHolds
  <2>2. QED BY <2>1
<1>3. \A d \in RefundCallers : CallHolds(d)'
  <2>1. ASSUME NEW d \in RefundCallers, d # c PROVE CallHolds(d)'
    BY <2>1 DEF ChannelInv, CallHolds, SubmitHolds, Submitting
  <2>2. QED BY <2>1
<1>4. CallsHaveRow'
  BY DEF ChannelInv, CallsHaveRow
<1>5. OneSubmits'
  BY DEF ChannelInv, OneSubmits, Submitting
<1>6. QED BY <1>1, <1>2, <1>3, <1>4, <1>5 DEF ChannelInv

\* A call ends, or begins, and no row changes.
LEMMA CallEnds ==
  ASSUME ChannelInv, NEW c \in RefundCallers,
         UNCHANGED <<refund, sent, paidBack>>,
         \A d \in RefundCallers : d # c => rcaller'[d] = rcaller[d],
         rcaller'[c].pc \notin {"line", "send", "reply", "finish"},
         rcaller'[c].pc # "idle" => refund[rcaller'[c].refund].state # "NONE"
  PROVE  ChannelInv' /\ \A x \in Refunds : Grows(x)
<1>1. \A x \in Refunds : Grows(x) /\ RowHolds(x)'
  BY DEF Grows, RowHolds, ChannelInv
<1>2. \A d \in RefundCallers : CallHolds(d)'
  BY DEF ChannelInv, CallHolds, SubmitHolds, Submitting
<1>3. CallsHaveRow'
  BY DEF ChannelInv, CallsHaveRow
<1>4. OneSubmits'
  BY DEF ChannelInv, OneSubmits, Submitting
<1>5. QED BY <1>1, <1>2, <1>3, <1>4 DEF ChannelInv

\* What is known of a call that submits.
LEMMA Submits ==
  ASSUME RefundTypeOK, ChannelInv, NEW c \in RefundCallers, Submitting(c)
  PROVE  /\ rcaller[c].refund \in Refunds /\ rcaller[c].line \in Lines
         /\ RowHolds(rcaller[c].refund) /\ SubmitHolds(c, rcaller[c].refund)
         /\ \A d \in RefundCallers :
              d # c /\ Submitting(d) => rcaller[d].refund # rcaller[c].refund
  BY CallTypes DEF ChannelInv, CallHolds, OneSubmits, CallOfLine

LEMMA InProgress ==
  ASSUME RefundTypeOK
  PROVE  \A d \in RefundCallers : rcaller[d].pc # "idle" => rcaller[d].refund \in Refunds
  BY CallTypes

\* The steps of a call in progress keep the invariant of the channel.
LEMMA CallStepInv ==
  ASSUME RefundTypeOK, ChannelInv, NEW c \in RefundCallers,
         RefundCallStep(c) \/ RefundFault(c)
  PROVE  ChannelInv' /\ \A x \in Refunds : Grows(x)
<1> DEFINE caller == rcaller[c]
<1>1. CASE Claim(c)
  <2>1. PICK r \in Refunds : r = rcaller[c].refund
    BY <1>1, CallTypes DEF Claim, AtPoint
  <2>2. rcaller[c].pc = "claim" /\ UNCHANGED <<sent, paidBack, rAnswers>>
    BY <1>1 DEF Claim, AtPoint
  <2>3. CASE Claimable(r)
    <3>1. PICK j \in LinesOf(r) :
            /\ refund' = [refund EXCEPT ![r].state = "SUBMITTING"]
            /\ rcaller' = [rcaller EXCEPT ![c] = [pc |-> "line", refund |-> r, line |-> j]]
      BY <1>1, <2>1, <2>3 DEF Claim, Firsts
    <3>2. rcaller'[c] = [pc |-> "line", refund |-> r, line |-> j]
          /\ \A d \in RefundCallers : d # c => rcaller'[d] = rcaller[d]
      BY <3>1 DEF RefundTypeOK
    <3>3. /\ refund'[r].state = "SUBMITTING" /\ refund'[r].lines = refund[r].lines
          /\ \A x \in Refunds : x # r => refund'[x] = refund[x]
      BY <3>1 DEF RefundTypeOK
    <3>4. refund[r].state = "RESERVED"
      BY <2>3 DEF Claimable
    <3>5. RowHolds(r)
      BY DEF ChannelInv
    <3>6. \A i \in Lines : sent[r][i] = 0 /\ refund[r].lines[i] # "REJECTED"
      BY <3>4, <3>5 DEF RowHolds
    <3>7. paidBack[r] = {}
      BY <3>5, <3>6 DEF RowHolds, LinesOf
    <3>8. RowHolds(r)'
      BY <2>2, <3>3, <3>5, <3>6, <3>7 DEF RowHolds
    <3>9. SubmitHolds(c, r)'
      BY <2>2, <3>2, <3>3, <3>6, <3>7 DEF SubmitHolds
    <3>10. CallHolds(c)'
      BY <3>2, <3>9 DEF CallHolds
    <3>11. \A d \in RefundCallers : d # c /\ Submitting(d) => rcaller[d].refund # r
      BY <3>4 DEF ChannelInv, CallHolds, SubmitHolds
    <3>12. Grows(r)
      BY <2>2, <3>4 DEF Grows
    <3>13. QED
      BY <2>2, <3>2, <3>3, <3>8, <3>10, <3>11, <3>12, RowStep, InProgress
  <2>4. CASE ~Claimable(r)
    <3>1. Moves(c, "answer") /\ UNCHANGED refund
      BY <1>1, <2>1, <2>4 DEF Claim
    <3>2. /\ rcaller'[c].pc = "answer" /\ rcaller'[c].refund = rcaller[c].refund
          /\ \A d \in RefundCallers : d # c => rcaller'[d] = rcaller[d]
      BY <2>2, <3>1, MovesType
    <3>3. refund[rcaller[c].refund].state # "NONE"
      BY <2>2 DEF ChannelInv, CallsHaveRow
    <3>4. QED BY <2>2, <3>1, <3>2, <3>3, CallEnds
  <2>5. QED BY <2>3, <2>4
<1>2. CASE MarkSubmitting(c)
  <2>1. Submitting(c) /\ rcaller[c].pc = "line"
    BY <1>2 DEF MarkSubmitting, AtPoint, Submitting
  <2>2. PICK r \in Refunds, i \in Lines : r = rcaller[c].refund /\ i = rcaller[c].line
    BY <2>1, Submits
  <2>3. /\ refund' = SetLine(r, i, "SUBMITTING") /\ Moves(c, "send")
        /\ UNCHANGED <<sent, paidBack, rAnswers>>
    BY <1>2, <2>2 DEF MarkSubmitting
  <2>4. /\ rcaller'[c].pc = "send" /\ rcaller'[c].refund = r /\ rcaller'[c].line = i
        /\ \A d \in RefundCallers : d # c => rcaller'[d] = rcaller[d]
    BY <2>1, <2>2, <2>3, MovesType
  <2>5. /\ refund'[r].state = refund[r].state
        /\ \A j \in Lines : refund'[r].lines[j] =
              IF j = i THEN "SUBMITTING" ELSE refund[r].lines[j]
        /\ \A x \in Refunds : x # r => refund'[x] = refund[x]
    BY <2>3, RowType DEF LineStates
  <2>6. RowHolds(r) /\ SubmitHolds(c, r)
    BY <2>1, <2>2, Submits
  <2>7. sent[r][i] = 0 /\ i \notin paidBack[r] /\ paidBack[r] \subseteq Lines
    BY <2>1, <2>2, <2>6 DEF SubmitHolds, RowHolds, Lines, LinesOf
  <2>8. RowHolds(r)'
    BY <2>3, <2>5, <2>6, <2>7 DEF RowHolds, SubmitHolds
  <2>9. SubmitHolds(c, r)'
    BY <2>1, <2>2, <2>3, <2>4, <2>5, <2>6, <2>7 DEF SubmitHolds
  <2>10. CallHolds(c)' /\ Grows(r) /\ refund'[r].state # "NONE"
    BY <2>3, <2>4, <2>5, <2>6, <2>9 DEF CallHolds, Grows, SubmitHolds
  <2>11. \A d \in RefundCallers : d # c /\ Submitting(d) => rcaller[d].refund # r
    BY <2>1, <2>2, Submits
  <2>12. QED
    BY <2>3, <2>4, <2>5, <2>8, <2>10, <2>11, RowStep, InProgress
<1>3. CASE ProviderRefunds(c)
  <2>1. Submitting(c) /\ rcaller[c].pc = "send"
    BY <1>3 DEF ProviderRefunds, AtPoint, Submitting
  <2>2. PICK r \in Refunds, i \in Lines : r = rcaller[c].refund /\ i = rcaller[c].line
    BY <2>1, Submits
  <2>3. /\ sent' = [sent EXCEPT ![r][i] = @ + 1]
        /\ \/ paidBack' = [paidBack EXCEPT ![r] = @ \union {i}]
           \/ UNCHANGED paidBack
        /\ Moves(c, "reply") /\ UNCHANGED <<refund, rAnswers>>
    BY <1>3, <2>2 DEF ProviderRefunds
  <2>4. /\ rcaller'[c].pc = "reply" /\ rcaller'[c].refund = r /\ rcaller'[c].line = i
        /\ \A d \in RefundCallers : d # c => rcaller'[d] = rcaller[d]
    BY <2>1, <2>2, <2>3, MovesType
  <2>5. RowHolds(r) /\ SubmitHolds(c, r)
    BY <2>1, <2>2, Submits
  <2>6. sent[r][i] = 0 /\ \A j \in Lines : j > i => sent[r][j] = 0
    BY <2>1, <2>2, <2>5 DEF SubmitHolds, Lines
  <2>7. /\ \A x \in Refunds : x # r => sent'[x] = sent[x] /\ paidBack'[x] = paidBack[x]
        /\ \A j \in Lines : sent'[r][j] = IF j = i THEN 1 ELSE sent[r][j]
        /\ paidBack'[r] = paidBack[r] \union {i} \/ paidBack'[r] = paidBack[r]
    BY <2>2, <2>3, <2>6 DEF RefundTypeOK
  <2>8. refund[r].state = "SUBMITTING" /\ i \in LinesOf(r)
    BY <2>2, <2>5 DEF SubmitHolds
  <2>9. RowHolds(r)'
    <3>1. paidBack[r] \subseteq Lines
      BY <2>5 DEF RowHolds, LinesOf
    <3>2. QED BY <2>3, <2>5, <2>6, <2>7, <2>8, <3>1 DEF RowHolds
  <2>10. SubmitHolds(c, r)'
    BY <2>2, <2>3, <2>4, <2>5, <2>6, <2>7, <2>8, <2>1 DEF SubmitHolds, Lines
  <2>11. CallHolds(c)' /\ Grows(r) /\ refund'[r].state # "NONE"
    BY <2>3, <2>4, <2>7, <2>8, <2>10 DEF CallHolds, Grows
  <2>12. \A d \in RefundCallers : d # c /\ Submitting(d) => rcaller[d].refund # r
    BY <2>1, <2>2, Submits
  <2>13. QED
    BY <2>3, <2>4, <2>7, <2>9, <2>11, <2>12, RowStep, InProgress
<1>4. CASE SaveSuccess(c)
  <2>1. Submitting(c) /\ rcaller[c].pc = "reply"
    BY <1>4 DEF SaveSuccess, AtPoint, Submitting
  <2>2. PICK r \in Refunds, i \in Lines : r = rcaller[c].refund /\ i = rcaller[c].line
    BY <2>1, Submits
  <2>3. /\ refund' = SetLine(r, i, "SUCCEEDED") /\ AfterLine(c) /\ i \in paidBack[r]
        /\ UNCHANGED <<sent, paidBack, rAnswers>>
    BY <1>4, <2>2 DEF SaveSuccess, Executed
  <2>4. /\ rcaller'[c].refund = r
        /\ \A d \in RefundCallers : d # c => rcaller'[d] = rcaller[d]
        /\ \/ rcaller'[c].pc = "finish" /\ rcaller'[c].line = i
           \/ rcaller'[c].pc = "line" /\ rcaller'[c].line \in LinesOf(r) /\ rcaller'[c].line > i
    BY <2>1, <2>2, <2>3, AfterLineType
  <2>5. /\ refund'[r].state = refund[r].state
        /\ \A j \in Lines : refund'[r].lines[j] =
              IF j = i THEN "SUCCEEDED" ELSE refund[r].lines[j]
        /\ \A x \in Refunds : x # r => refund'[x] = refund[x]
    BY <2>3, RowType DEF LineStates
  <2>6. RowHolds(r) /\ SubmitHolds(c, r)
    BY <2>1, <2>2, Submits
  <2>7. paidBack[r] \subseteq Lines
    BY <2>6 DEF RowHolds, LinesOf
  <2>8. RowHolds(r)'
    <3>1. refund[r].state = "SUBMITTING" /\ \A j \in Lines : refund'[r].lines[j] # "REJECTED"
      BY <2>5, <2>6 DEF RowHolds, SubmitHolds
    <3>2. \A j \in Lines : refund'[r].lines[j] = "SUCCEEDED" => j \in paidBack[r]
      BY <2>3, <2>5, <2>6 DEF RowHolds
    <3>3. QED BY <2>3, <2>5, <2>6, <3>1, <3>2 DEF RowHolds
  <2>9. SubmitHolds(c, r)'
    <3>1. /\ refund[r].state = "SUBMITTING" /\ i \in LinesOf(r)
          /\ \A j \in Lines : j > i => sent[r][j] = 0
          /\ \A j \in paidBack[r] : refund[r].lines[j] = "SUCCEEDED" \/ j = i
      BY <2>1, <2>2, <2>6 DEF SubmitHolds
    <3>2. rcaller'[c].line \in LinesOf(r)
      BY <2>4, <3>1
    <3>3. \A j \in paidBack[r] : refund'[r].lines[j] = "SUCCEEDED"
      BY <2>5, <2>7, <3>1
    <3>4. rcaller'[c].pc = "line" => \A j \in Lines : j >= rcaller'[c].line => sent[r][j] = 0
      BY <2>2, <2>4, <3>1 DEF Lines, LinesOf
    <3>5. QED BY <2>3, <2>4, <2>5, <3>1, <3>2, <3>3, <3>4 DEF SubmitHolds
  <2>10. CallHolds(c)' /\ Grows(r) /\ refund'[r].state # "NONE"
    BY <2>3, <2>4, <2>5, <2>6, <2>9 DEF CallHolds, Grows, SubmitHolds
  <2>11. \A d \in RefundCallers : d # c /\ Submitting(d) => rcaller[d].refund # r
    BY <2>1, <2>2, Submits
  <2>12. QED
    BY <2>3, <2>4, <2>5, <2>8, <2>10, <2>11, RowStep, InProgress
<1>5. ASSUME NEW s \in {"REJECTED", "RECONCILIATION_REQUIRED"},
             rcaller[c].pc \in {"send", "reply"}, LineFails(c, s),
             s = "REJECTED" => rcaller[c].pc = "reply" /\ ~Executed(c)
      PROVE  ChannelInv' /\ \A x \in Refunds : Grows(x)
  <2>1. Submitting(c)
    BY <1>5 DEF Submitting
  <2>2. PICK r \in Refunds, i \in Lines : r = rcaller[c].refund /\ i = rcaller[c].line
    BY <2>1, Submits
  <2>3. /\ refund' = [refund EXCEPT ![r].lines[i] = s,
                                    ![r].state = "RECONCILIATION_REQUIRED"]
        /\ Moves(c, "answer") /\ UNCHANGED <<sent, paidBack, rAnswers>>
    BY <1>5, <2>2 DEF LineFails, AfterFailure
  <2>4. /\ rcaller'[c].pc = "answer" /\ rcaller'[c].refund = r
        /\ \A d \in RefundCallers : d # c => rcaller'[d] = rcaller[d]
    BY <2>1, <2>2, <2>3, MovesType
  <2>5. /\ refund'[r].state = "RECONCILIATION_REQUIRED"
        /\ \A j \in Lines : refund'[r].lines[j] = IF j = i THEN s ELSE refund[r].lines[j]
        /\ \A x \in Refunds : x # r => refund'[x] = refund[x]
    BY <2>2, <2>3 DEF RefundTypeOK
  <2>6. /\ RowHolds(r) /\ SubmitHolds(c, r) /\ refund[r].state = "SUBMITTING"
        /\ paidBack[r] \subseteq Lines
    BY <2>1, <2>2, Submits DEF SubmitHolds, RowHolds, LinesOf
  <2>7. ~Executed(c) => \A j \in paidBack[r] : j # i /\ refund[r].lines[j] = "SUCCEEDED"
    BY <2>2, <2>6 DEF Executed, SubmitHolds
  <2>8. \A j \in Lines : refund[r].lines[j] # "REJECTED"
    BY <2>6 DEF RowHolds
  <2>9. RowHolds(r)'
    <3>1. \A j \in Lines : refund'[r].lines[j] = "SUCCEEDED" => j \in paidBack[r]
      BY <1>5, <2>5, <2>6 DEF RowHolds
    <3>2. (\E j \in Lines : refund'[r].lines[j] = "REJECTED") =>
             \A j \in paidBack[r] : refund'[r].lines[j] = "SUCCEEDED"
      <4>1. CASE s = "REJECTED"
        BY <1>5, <4>1, <2>5, <2>6, <2>7
      <4>2. CASE s # "REJECTED"
        BY <4>2, <2>5, <2>8
      <4>3. QED BY <4>1, <4>2
    <3>3. QED BY <2>3, <2>5, <2>6, <3>1, <3>2 DEF RowHolds
  <2>10. CallHolds(c)' /\ Grows(r) /\ refund'[r].state # "NONE"
    BY <2>3, <2>4, <2>5, <2>6 DEF CallHolds, Grows, Submitting
  <2>11. \A d \in RefundCallers : d # c /\ Submitting(d) => rcaller[d].refund # r
    BY <2>1, <2>2, Submits
  <2>12. QED
    BY <2>3, <2>4, <2>5, <2>9, <2>10, <2>11, RowStep, InProgress
<1>6. CASE SaveRejection(c)
  BY <1>5, <1>6 DEF SaveRejection, AtPoint
<1>7. CASE LineIsAmbiguous(c)
  BY <1>5, <1>7 DEF LineIsAmbiguous, AtPoint
<1>8. CASE Finish(c)
  <2>1. Submitting(c)
    BY <1>8 DEF Finish, AtPoint, Submitting
  <2>2. PICK r \in Refunds : r = rcaller[c].refund
    BY <2>1, Submits
  <2>3. /\ refund' = [refund EXCEPT ![r].state = "FINISHED"]
        /\ Moves(c, "answer") /\ UNCHANGED <<sent, paidBack, rAnswers>>
    BY <1>8, <2>2 DEF Finish
  <2>4. /\ rcaller'[c].pc = "answer" /\ rcaller'[c].refund = r
        /\ \A d \in RefundCallers : d # c => rcaller'[d] = rcaller[d]
    BY <2>1, <2>2, <2>3, MovesType
  <2>5. /\ refund'[r].state = "FINISHED" /\ refund'[r].lines = refund[r].lines
        /\ \A x \in Refunds : x # r => refund'[x] = refund[x]
    BY <2>3 DEF RefundTypeOK
  <2>6. RowHolds(r) /\ SubmitHolds(c, r) /\ refund[r].state = "SUBMITTING"
    BY <2>1, <2>2, Submits DEF SubmitHolds
  <2>7. RowHolds(r)'
    BY <2>3, <2>5, <2>6 DEF RowHolds
  <2>8. CallHolds(c)' /\ Grows(r) /\ refund'[r].state # "NONE"
    BY <2>3, <2>4, <2>5, <2>6 DEF CallHolds, Grows, Submitting
  <2>9. \A d \in RefundCallers : d # c /\ Submitting(d) => rcaller[d].refund # r
    BY <2>1, <2>2, Submits
  <2>10. QED
    BY <2>3, <2>4, <2>5, <2>7, <2>8, <2>9, RowStep, InProgress
<1>9. CASE AnswerRefund(c) \/ RefundCallDies(c)
  <2>1. rcaller' = [rcaller EXCEPT ![c] = [pc |-> "idle"]]
        /\ UNCHANGED <<refund, sent, paidBack>>
    BY <1>9 DEF AnswerRefund, RefundCallDies, Ends
  <2>2. rcaller'[c] = [pc |-> "idle"]
        /\ \A d \in RefundCallers : d # c => rcaller'[d] = rcaller[d]
    BY <2>1 DEF RefundTypeOK
  <2>3. QED BY <2>1, <2>2, CallEnds
<1>10. QED
  BY <1>1, <1>2, <1>3, <1>4, <1>6, <1>7, <1>8, <1>9 DEF RefundCallStep, RefundFault
-----------------------------------------------------------------------------
(* What the channel answers and the payment service records *)

\* A status and settled lines that were true when they were told are not refuted
\* by what the provider did since.
True(r, status, settled) ==
  /\ settled \subseteq paidBack[r]
  /\ status = "COMPLETED" => paidBack[r] = LinesOf(r)
  /\ status = "FAILED" => paidBack[r] = {} /\ refund[r].state = "RECONCILIATION_REQUIRED"

AnswersHold ==
  \A r \in Refunds : \A a \in rAnswers[r] : True(r, a.status, a.settled)

RecordsHold ==
  \A r \in Refunds :
    /\ True(r, record[r].status, record[r].settled)
    /\ record[r].status = "NONE" => record[r].settled = {}

SettlementInv ==
  /\ SettlementTypeOK /\ ChannelInv
  /\ AnswersHold /\ RecordsHold /\ RoundingPostedOnce

\* What is true stays true.
LEMMA TrueStays ==
  ASSUME NEW r \in Refunds, NEW status, NEW settled, True(r, status, settled), Grows(r),
         RowHolds(r)'
  PROVE  True(r, status, settled)'
  BY DEF True, Grows, RowHolds

\* What a row says is true.
LEMMA TellsTrue ==
  ASSUME NEW r \in Refunds, RowHolds(r), refund[r].state # "NONE"
  PROVE  True(r, RefundStatus(r), Succeeded(r))
<1>1. Succeeded(r) \subseteq paidBack[r] /\ paidBack[r] \subseteq LinesOf(r)
  BY DEF RowHolds, Succeeded, LinesOf
<1>2. RefundStatus(r) = "COMPLETED" => Succeeded(r) = LinesOf(r)
  BY DEF RefundStatus
<1>3. RefundStatus(r) = "FAILED" =>
         Succeeded(r) = {} /\ \E i \in LinesOf(r) : refund[r].lines[i] = "REJECTED"
  BY DEF RefundStatus
<1>4. ASSUME RefundStatus(r) = "FAILED"
      PROVE  paidBack[r] = {} /\ refund[r].state = "RECONCILIATION_REQUIRED"
  <2>1. refund[r].state = "RECONCILIATION_REQUIRED"
        /\ \A j \in paidBack[r] : refund[r].lines[j] = "SUCCEEDED"
    BY <1>3, <1>4 DEF RowHolds, LinesOf
  <2>2. \A j \in paidBack[r] : j \in Succeeded(r)
    BY <1>1, <2>1 DEF Succeeded
  <2>3. QED BY <1>3, <1>4, <2>1, <2>2
<1>5. QED BY <1>1, <1>2, <1>4 DEF True

\* A step that leaves the records alone: the channel's, or a poll.
LEMMA ChannelStepKeeps ==
  ASSUME SettlementInv, SettlementTypeOK', ChannelInv', \A x \in Refunds : Grows(x),
         UNCHANGED <<plan, record, entries>>,
         \A x \in Refunds : \/ rAnswers'[x] = rAnswers[x]
                            \/ /\ rAnswers'[x] = rAnswers[x] \union
                                   {[status |-> RefundStatus(x), settled |-> Succeeded(x)]}
                               /\ refund[x].state # "NONE"
  PROVE  SettlementInv'
<1>1. AnswersHold'
  <2>1. ASSUME NEW r \in Refunds, NEW a \in rAnswers'[r]
        PROVE  True(r, a.status, a.settled)'
    <3>1. RowHolds(r) /\ RowHolds(r)' /\ Grows(r)
      BY DEF SettlementInv, ChannelInv
    <3>2. True(r, a.status, a.settled)
      <4>1. CASE a \in rAnswers[r]
        BY <4>1 DEF SettlementInv, AnswersHold
      <4>2. CASE a \notin rAnswers[r]
        <5>1. /\ a = [status |-> RefundStatus(r), settled |-> Succeeded(r)]
              /\ refund[r].state # "NONE"
          BY <2>1, <4>2
        <5>2. a.status = RefundStatus(r) /\ a.settled = Succeeded(r)
          BY <5>1
        <5>3. QED BY <3>1, <5>1, <5>2, TellsTrue
      <4>3. QED BY <4>1, <4>2
    <3> DEFINE st == a.status
               se == a.settled
    <3>3. True(r, st, se)
      BY <3>2
    <3> HIDE DEF st, se
    <3>4. True(r, st, se)'
      BY <3>1, <3>3, TrueStays
    <3>5. QED BY <3>4 DEF st, se
  <2>2. QED BY <2>1 DEF AnswersHold
<1>2. RecordsHold'
  <2>1. ASSUME NEW r \in Refunds PROVE True(r, record[r].status, record[r].settled)'
    <3>1. RowHolds(r)' /\ Grows(r) /\ True(r, record[r].status, record[r].settled)
      BY DEF SettlementInv, ChannelInv, RecordsHold
    <3>2. QED BY <3>1 DEF True, Grows, RowHolds
  <2>2. QED BY <2>1 DEF RecordsHold, SettlementInv
<1>3. RoundingPostedOnce'
  BY DEF SettlementInv, RoundingPostedOnce, Differs
<1>4. QED BY <1>1, <1>2, <1>3 DEF SettlementInv

LEMMA SettlementInitInv == SettlementInit => SettlementInv
<1> SUFFICES ASSUME SettlementInit PROVE SettlementInv
  OBVIOUS
<1>1. SettlementTypeOK
  BY SettlementInitType
<1>2. /\ \A r \in Refunds : /\ refund[r].state = "NONE" /\ paidBack[r] = {} /\ rAnswers[r] = {}
                            /\ \A i \in Lines : sent[r][i] = 0 /\ refund[r].lines[i] = "RESERVED"
                            /\ record[r].status = "NONE" /\ record[r].settled = {}
                            /\ \A i \in Lines : entries[r][i] = 0
      /\ \A c \in RefundCallers : rcaller[c].pc = "idle"
  BY DEF SettlementInit, RefundInit, NoRefund, NoRecord
<1>3. ChannelInv
  BY <1>2 DEF ChannelInv, CallsHaveRow, OneSubmits, RowHolds, CallHolds, Submitting, LinesOf
<1>4. AnswersHold /\ RecordsHold /\ RoundingPostedOnce
  BY <1>2 DEF AnswersHold, RecordsHold, RoundingPostedOnce, True
<1>5. QED BY <1>1, <1>3, <1>4 DEF SettlementInv

\* An answer is saved.
LEMMA SaveKeeps ==
  ASSUME SettlementInv, SettlementTypeOK', NEW r \in Refunds, NEW a \in rAnswers[r],
         SaveSettlement(r, a)
  PROVE  SettlementInv'
<1>1. /\ UNCHANGED <<plan, refund, sent, paidBack, rcaller, rAnswers>>
      /\ record' = [record EXCEPT ![r] = [status |-> a.status, known |-> TRUE,
                                          settled |-> @.settled \union a.settled]]
      /\ entries' = [entries EXCEPT ![r] =
            [i \in Lines |-> IF i \in NewLines(r, a) /\ Differs(r, i) THEN @[i] + 1 ELSE @[i]]]
      /\ Valid(r, a)
  BY DEF SaveSettlement, refundVars
<1>2. /\ record'[r].status = a.status
      /\ record'[r].settled = record[r].settled \union a.settled
      /\ \A x \in Refunds : x # r => record'[x] = record[x] /\ entries'[x] = entries[x]
      /\ \A i \in Lines : entries'[r][i] =
            IF i \in NewLines(r, a) /\ Differs(r, i) THEN entries[r][i] + 1 ELSE entries[r][i]
  BY <1>1 DEF SettlementInv, SettlementTypeOK
<1>3. ChannelInv'
  BY <1>1 DEF SettlementInv, ChannelInv, CallsHaveRow, OneSubmits, RowHolds, CallHolds,
     SubmitHolds, Submitting
<1>4. AnswersHold'
  BY <1>1 DEF SettlementInv, AnswersHold, True
<1>5. RecordsHold'
  <2>1. True(r, a.status, a.settled)
    BY DEF SettlementInv, AnswersHold
  <2>2. True(r, record[r].status, record[r].settled)
    BY DEF SettlementInv, RecordsHold
  <2>3. a.status # "NONE"
    <3>1. rAnswers[r] \in SUBSET RefundAnswers
      BY DEF SettlementInv, SettlementTypeOK, RefundTypeOK
    <3>2. a \in RefundAnswers
      BY <3>1
    <3>3. QED BY <3>2 DEF RefundAnswers
  <2>4. QED
    BY <1>1, <1>2, <2>1, <2>2, <2>3 DEF SettlementInv, RecordsHold, True
<1>6. RoundingPostedOnce'
  <2>1. ASSUME NEW x \in Refunds, NEW i \in Lines
        PROVE  entries'[x][i] = IF i \in record'[x].settled /\ Differs(x, i)' THEN 1 ELSE 0
    <3>1. entries[x][i] = IF i \in record[x].settled /\ Differs(x, i) THEN 1 ELSE 0
      BY DEF SettlementInv, RoundingPostedOnce
    <3>2. Differs(x, i)' <=> Differs(x, i)
      BY <1>1 DEF Differs
    <3>3. CASE x # r
      BY <1>2, <3>1, <3>2, <3>3
    <3>4. CASE x = r
      BY <1>2, <3>1, <3>2, <3>4 DEF NewLines
    <3>5. QED BY <3>3, <3>4
  <2>2. QED BY <2>1 DEF RoundingPostedOnce
<1>7. QED BY <1>3, <1>4, <1>5, <1>6 DEF SettlementInv

\* Every step of the channel and of the payment service keeps the invariant.
LEMMA SettlementStepInv ==
  SettlementInv /\ [SettlementNext]_allRefundVars => SettlementInv'
<1> SUFFICES ASSUME SettlementInv, [SettlementNext]_allRefundVars PROVE SettlementInv'
  OBVIOUS
<1>0. SettlementTypeOK /\ RefundTypeOK /\ ChannelInv /\ CallsHaveRow
  BY DEF SettlementInv, SettlementTypeOK, ChannelInv
<1>1. ASSUME NEW r \in Refunds, PrepareRefund(r) PROVE SettlementInv'
  <2>1. SettlementTypeOK'
    BY <1>0, <1>1, ServiceStepType
  <2>2. /\ UNCHANGED <<refund, sent, paidBack, rcaller, rAnswers, entries>>
        /\ record[r] = NoRecord /\ record' = [record EXCEPT ![r].status = "WAITING"]
        /\ \A x \in Refunds : x # r => plan'[x] = plan[x]
    BY <1>0, <1>1 DEF PrepareRefund, Prepare, RefundTypeOK
  <2>3. /\ record'[r].status = "WAITING" /\ record'[r].settled = {} /\ record[r].settled = {}
        /\ \A x \in Refunds : x # r => record'[x] = record[x]
    BY <1>0, <2>2 DEF SettlementTypeOK, NoRecord
  <2>4. ChannelInv'
    BY <1>0, <2>2 DEF ChannelInv, CallsHaveRow, OneSubmits, RowHolds, CallHolds,
       SubmitHolds, Submitting
  <2>5. AnswersHold' /\ RecordsHold'
    BY <2>2, <2>3 DEF SettlementInv, AnswersHold, RecordsHold, True
  <2>6. RoundingPostedOnce'
    BY <2>2, <2>3 DEF SettlementInv, RoundingPostedOnce, Differs
  <2>7. QED BY <2>1, <2>4, <2>5, <2>6 DEF SettlementInv
<1>2. ASSUME NEW r \in Refunds, PollRefund(r) PROVE SettlementInv'
  <2>1. SettlementTypeOK'
    BY <1>0, <1>2, ServiceStepType
  <2>2. /\ UNCHANGED <<plan, refund, sent, paidBack, rcaller, record, entries>>
        /\ refund[r].state # "NONE"
        /\ rAnswers' = [rAnswers EXCEPT ![r] = @ \union
              {[status |-> RefundStatus(r), settled |-> Succeeded(r)]}]
    BY <1>2 DEF PollRefund, CheckRefund, Tells, settlementVars
  <2>3. ChannelInv' /\ \A x \in Refunds : Grows(x)
    BY <1>0, <2>2 DEF ChannelInv, CallsHaveRow, OneSubmits, RowHolds, CallHolds,
       SubmitHolds, Submitting, Grows
  <2>4. \A x \in Refunds : \/ rAnswers'[x] = rAnswers[x]
                           \/ /\ rAnswers'[x] = rAnswers[x] \union
                                   {[status |-> RefundStatus(x), settled |-> Succeeded(x)]}
                              /\ refund[x].state # "NONE"
    BY <1>0, <2>2 DEF RefundTypeOK
  <2>5. QED BY <2>1, <2>2, <2>3, <2>4, ChannelStepKeeps
<1>3. ASSUME NEW r \in Refunds, NEW a \in rAnswers[r], SaveSettlement(r, a)
      PROVE  SettlementInv'
  BY <1>0, <1>3, ServiceStepType, SaveKeeps
<1>4. ASSUME NEW r \in Refunds, NEW c \in RefundCallers, SendRefund(c, r)
      PROVE  SettlementInv'
  <2>1. SettlementTypeOK'
    BY <1>0, <1>4, ServiceStepType
  <2>2. /\ UNCHANGED <<plan, sent, paidBack, rAnswers, record, entries>>
        /\ rcaller[c].pc = "idle"
        /\ rcaller' = [rcaller EXCEPT ![c] = [pc |-> "claim", refund |-> r]]
    BY <1>4 DEF SendRefund, ReserveRefund, AtPoint
  <2>3. rcaller'[c] = [pc |-> "claim", refund |-> r]
        /\ \A d \in RefundCallers : d # c => rcaller'[d] = rcaller[d]
    BY <1>0, <2>2 DEF RefundTypeOK
  <2>4. ChannelInv' /\ \A x \in Refunds : Grows(x)
    <3>1. CASE refund[r].state = "NONE"
      <4>1. refund' = [refund EXCEPT ![r].state = "RESERVED"]
        BY <1>4, <3>1 DEF SendRefund, ReserveRefund
      <4>2. /\ refund'[r].state = "RESERVED" /\ refund'[r].lines = refund[r].lines
            /\ \A x \in Refunds : x # r => refund'[x] = refund[x]
        BY <1>0, <4>1 DEF RefundTypeOK
      <4>3. RowHolds(r)
        BY <1>0 DEF ChannelInv
      <4>4. \A i \in Lines : refund[r].lines[i] # "REJECTED"
        BY <3>1, <4>3 DEF RowHolds
      <4>5. RowHolds(r)'
        BY <2>2, <3>1, <4>2, <4>3, <4>4 DEF RowHolds
      <4>6. CallHolds(c)' /\ Grows(r)
        BY <2>2, <2>3, <3>1 DEF CallHolds, Submitting, Grows
      <4>7. \A d \in RefundCallers : d # c /\ Submitting(d) => rcaller[d].refund # r
        BY <1>0, <3>1 DEF ChannelInv, CallHolds, SubmitHolds
      <4>8. QED
        BY <1>0, <2>2, <2>3, <4>2, <4>5, <4>6, <4>7, RowStep, InProgress
    <3>2. CASE refund[r].state # "NONE"
      <4>1. UNCHANGED refund
        BY <1>4, <3>2 DEF SendRefund, ReserveRefund
      <4>2. QED BY <1>0, <2>2, <2>3, <3>2, <4>1, CallEnds
    <3>3. QED BY <3>1, <3>2
  <2>5. \A x \in Refunds : rAnswers'[x] = rAnswers[x]
    BY <2>2
  <2>6. QED BY <2>1, <2>2, <2>4, <2>5, ChannelStepKeeps
<1>5. ASSUME NEW c \in RefundCallers, RefundCallStep(c) \/ RefundFault(c),
             UNCHANGED settlementVars
      PROVE  SettlementInv'
  <2>1. RefundTypeOK'
    BY <1>0, <1>5, CallStepType, CallFaultType
  <2>2. SettlementTypeOK'
    BY <1>0, <1>5, <2>1, ServiceTypeKept
  <2>3. ChannelInv' /\ \A x \in Refunds : Grows(x)
    BY <1>0, <1>5, CallStepInv
  <2>4. UNCHANGED <<plan, record, entries>>
    BY <1>5 DEF RefundCallStep, RefundFault, Claim, MarkSubmitting, ProviderRefunds,
       SaveSuccess, SaveRejection, LineFails, Finish, AnswerRefund, LineIsAmbiguous,
       RefundCallDies, settlementVars
  <2>5. \A x \in Refunds : \/ rAnswers'[x] = rAnswers[x]
                           \/ /\ rAnswers'[x] = rAnswers[x] \union
                                   {[status |-> RefundStatus(x), settled |-> Succeeded(x)]}
                              /\ refund[x].state # "NONE"
    <3>1. CASE AnswerRefund(c)
      <4>1. PICK r \in Refunds : r = rcaller[c].refund
        BY <1>0, <3>1, CallTypes DEF AnswerRefund, AtPoint
      <4>2. refund[r].state # "NONE"
        BY <1>0, <3>1, <4>1 DEF AnswerRefund, AtPoint, CallsHaveRow
      <4>3. rAnswers' = [rAnswers EXCEPT ![r] = @ \union
              {[status |-> RefundStatus(r), settled |-> Succeeded(r)]}]
        BY <3>1, <4>1 DEF AnswerRefund, Tells
      <4>4. QED BY <1>0, <4>2, <4>3 DEF RefundTypeOK
    <3>2. CASE ~AnswerRefund(c)
      <4>1. UNCHANGED rAnswers
        BY <1>5, <3>2 DEF RefundCallStep, RefundFault, Claim, MarkSubmitting, ProviderRefunds,
           SaveSuccess, SaveRejection, LineFails, Finish, LineIsAmbiguous, RefundCallDies
      <4>2. QED BY <4>1
    <3>3. QED BY <3>1, <3>2
  <2>6. QED BY <2>2, <2>3, <2>4, <2>5, ChannelStepKeeps
<1>6. CASE UNCHANGED allRefundVars
  <2>1. UNCHANGED <<plan, refund, sent, paidBack, rcaller, rAnswers, lostRefundCalls,
                    record, entries, redeliveries>>
    BY <1>6 DEF allRefundVars, refundVars, settlementVars
  <2>2. SettlementTypeOK'
    BY <1>0, <2>1 DEF SettlementTypeOK, RefundTypeOK
  <2>3. ChannelInv' /\ \A x \in Refunds : Grows(x)
    BY <1>0, <2>1 DEF ChannelInv, CallsHaveRow, OneSubmits, RowHolds, CallHolds,
       SubmitHolds, Submitting, Grows
  <2>4. QED BY <2>1, <2>2, <2>3, ChannelStepKeeps
<1>7. QED
  BY <1>1, <1>2, <1>3, <1>4, <1>5, <1>6 DEF SettlementNext, ChannelStep
-----------------------------------------------------------------------------
(* The theorems *)

LEMMA SettlementInvHolds == SettlementSpec => []SettlementInv
  BY SettlementInitInv, SettlementStepInv, PTL DEF SettlementSpec

\* The rows, plans, calls and records keep values of their kind.
THEOREM SettlementTypeCorrect == SettlementSpec => []SettlementTypeOK
<1>1. SettlementInv => SettlementTypeOK
  BY DEF SettlementInv
<1>2. QED BY SettlementInvHolds, <1>1, PTL

\* The provider receives no line of a refund twice, however often init is called
\* again, dies or loses its answer (initialize: the reservation and the claim).
THEOREM LineSentOnceHolds == SettlementSpec => []LineSentOnce
<1>1. SettlementInv => LineSentOnce
  BY DEF SettlementInv, ChannelInv, RowHolds, LineSentOnce
<1>2. QED BY SettlementInvHolds, <1>1, PTL

\* Every line the payment service has as settled was paid back, a completed refund
\* in full and a failed one not at all (check, saveRefundSettlementRecord).
THEOREM SettledIsPaidBackHolds == SettlementSpec => []SettledIsPaidBack
<1>1. SettlementInv => SettledIsPaidBack
  BY DEF SettlementInv, RecordsHold, True, SettledIsPaidBack
<1>2. QED BY SettlementInvHolds, <1>1, PTL

\* A rounding difference is posted once for every settled line and for no other,
\* whatever order answers are saved in (saveRefundSettlementRecord).
THEOREM RoundingPostedOnceHolds == SettlementSpec => []RoundingPostedOnce
<1>1. SettlementInv => RoundingPostedOnce
  BY DEF SettlementInv
<1>2. QED BY SettlementInvHolds, <1>1, PTL

\* No late answer unsettles a line or reopens a completed refund
\* (saveRefundSettlementRecord, "Completed channel refund cannot regress").
THEOREM SettlementNeverRegressesHolds == SettlementSpec => SettlementNeverRegresses
<1>1. ASSUME SettlementInv, SettlementNext, NEW r \in Refunds
      PROVE  /\ record[r].settled \subseteq record'[r].settled
             /\ record[r].status = "COMPLETED" => record'[r].status = "COMPLETED"
  <2>1. ASSUME NEW x \in Refunds, PrepareRefund(x)
        PROVE  \/ record'[r] = record[r]
               \/ /\ record[r] = NoRecord
                  /\ record'[r] = [NoRecord EXCEPT !.status = "WAITING"]
    BY <1>1, <2>1 DEF PrepareRefund, SettlementInv, SettlementTypeOK
  <2>2. ASSUME NEW x \in Refunds, NEW a \in rAnswers[x], SaveSettlement(x, a)
        PROVE  \/ record'[r] = record[r]
               \/ /\ record'[r] = [status |-> a.status, known |-> TRUE,
                                   settled |-> record[r].settled \union a.settled]
                  /\ record[r].status = "COMPLETED" => a.status = "COMPLETED"
    BY <1>1, <2>2 DEF SaveSettlement, Valid, SettlementInv, SettlementTypeOK
  <2>3. ASSUME NEW x \in Refunds, PollRefund(x) PROVE UNCHANGED record
    BY <2>3 DEF PollRefund, settlementVars
  <2>4. ASSUME NEW x \in Refunds, NEW c \in RefundCallers, SendRefund(c, x)
        PROVE  UNCHANGED record
    BY <2>4 DEF SendRefund
  <2>5. ASSUME NEW c \in RefundCallers,
               ChannelStep(c) \/ (RefundFault(c) /\ UNCHANGED settlementVars)
        PROVE  UNCHANGED record
    BY <2>5 DEF ChannelStep, settlementVars
  <2> DEFINE Kept == /\ record[r].settled \subseteq record'[r].settled
                     /\ record[r].status = "COMPLETED" => record'[r].status = "COMPLETED"
  <2>6. record' = record => Kept
    OBVIOUS
  <2>7. ASSUME NEW x \in Refunds, PrepareRefund(x) PROVE Kept
    BY <2>1, <2>7 DEF NoRecord
  <2>8. ASSUME NEW x \in Refunds, NEW a \in rAnswers[x], SaveSettlement(x, a) PROVE Kept
    <3>1. CASE record'[r] = record[r]
      BY <3>1
    <3>2. CASE /\ record'[r] = [status |-> a.status, known |-> TRUE,
                                 settled |-> record[r].settled \union a.settled]
               /\ record[r].status = "COMPLETED" => a.status = "COMPLETED"
      <4>1. record'[r].status = a.status /\ record'[r].settled = record[r].settled \union a.settled
        BY <3>2
      <4>2. QED BY <3>2, <4>1
    <3>3. QED BY <2>2, <2>8, <3>1, <3>2
  <2>9. QED
    BY <1>1, <2>3, <2>4, <2>5, <2>6, <2>7, <2>8 DEF SettlementNext
<1>2. SettlementInv /\ [SettlementNext]_allRefundVars =>
        [\A r \in Refunds :
           /\ record[r].settled \subseteq record'[r].settled
           /\ record[r].status = "COMPLETED" => record'[r].status = "COMPLETED"]_allRefundVars
  BY <1>1
<1>3. QED
  BY SettlementInvHolds, <1>2, PTL DEF SettlementSpec, SettlementNeverRegresses
-----------------------------------------------------------------------------
(* What refunds hold of a line                                               *)

PlanOf(i) == [r \in Refunds |-> plan[r][i]]

\* A reserved refund was prepared, a plan has nothing for the lines it leaves
\* alone, and what the reserved plans hold of a line was paid for it.
CapacityInv ==
  /\ \A r \in Reserved : plan[r] # NoPlan
  /\ \A r \in Refunds : \A i \in Lines \ LinesOf(r) : plan[r][i] = 0
  /\ \A i \in Lines : HeldProvider(i) <= Price[i]

LEMMA PlanTypes ==
  ASSUME RefundTypeOK, NEW i \in Lines
  PROVE  /\ \A r \in Refunds : PlanOf(i)[r] = plan[r][i] /\ PlanOf(i)[r] \in Nat
         /\ \A S \in SUBSET Refunds : IsFiniteSet(S)
  BY RefundAssumption, FS_Subset DEF PlanOf, RefundTypeOK

\* Steps that change neither plans nor which refunds are reserved.
LEMMA CapacityKept ==
  ASSUME CapacityInv, UNCHANGED plan,
         \A r \in Refunds : refund'[r].state = "NONE" <=> refund[r].state = "NONE"
  PROVE  CapacityInv'
<1>1. Reserved' = Reserved
  BY DEF Reserved
<1>2. \A i \in Lines : HeldProvider(i)' = HeldProvider(i)
  BY <1>1, Zenon DEF HeldProvider
<1> QED BY <1>1, <1>2 DEF CapacityInv

\* A plan is made for a refund that holds nothing yet.
LEMMA PrepareKeepsCapacity ==
  ASSUME SettlementInv, CapacityInv, SettlementTypeOK', NEW r \in Refunds, PrepareRefund(r)
  PROVE  CapacityInv'
<1>1. RefundTypeOK /\ RefundTypeOK'
  BY DEF SettlementInv, SettlementTypeOK
<1>2. PICK mode \in Modes : Prepare(r, mode)
  BY DEF PrepareRefund
<1>3. /\ plan[r] = NoPlan /\ refund' = refund
      /\ \A x \in Refunds : x # r => plan'[x] = plan[x]
      /\ \A i \in Lines \ LinesOf(r) : plan'[r][i] = 0
  BY <1>1, <1>2 DEF Prepare, RefundTypeOK
<1>4. Reserved' = Reserved /\ r \notin Reserved
  BY <1>3 DEF Reserved, CapacityInv
<1>5. ASSUME NEW i \in Lines PROVE HeldProvider(i)' = HeldProvider(i)
  <2>1. /\ IsFiniteSet(Reserved)
        /\ \A x \in Reserved : PlanOf(i)[x] \in Int /\ PlanOf(i)[x] = PlanOf(i)'[x]
    <3>1. Reserved \in SUBSET Refunds
      BY DEF Reserved
    <3>2. \A x \in Refunds : PlanOf(i)'[x] = plan'[x][i]
      BY DEF PlanOf
    <3> QED BY <1>1, <1>3, <1>4, <3>1, <3>2, PlanTypes
  <2>2. \A g : g = PlanOf(i)' => SumFunctionOnSet(PlanOf(i), Reserved) = SumFunctionOnSet(g, Reserved)
    BY <2>1, SumSame
  <2>3. /\ HeldProvider(i) = SumFunctionOnSet(PlanOf(i), Reserved)
        /\ HeldProvider(i)' = SumFunctionOnSet(PlanOf(i)', Reserved')
    BY Zenon DEF HeldProvider, PlanOf
  <2> QED BY <1>4, <2>2, <2>3, Zenon
<1>6. \A x \in Reserved' : plan'[x] # NoPlan
  BY <1>3, <1>4 DEF CapacityInv, Reserved
<1>7. \A x \in Refunds : \A i \in Lines \ LinesOf(x) : plan'[x][i] = 0
  BY <1>3 DEF CapacityInv
<1> QED BY <1>5, <1>6, <1>7 DEF CapacityInv, NoPlan, LinesOf

\* A reservation fits what the reserved plans leave.
LEMMA ReserveKeepsCapacity ==
  ASSUME SettlementInv, CapacityInv, NEW r \in Refunds, NEW c \in RefundCallers,
         SendRefund(c, r)
  PROVE  CapacityInv'
<1>1. RefundTypeOK /\ UNCHANGED plan /\ plan[r] # NoPlan
  BY DEF SettlementInv, SettlementTypeOK, SendRefund, ReserveRefund
<1>2. CASE refund[r].state # "NONE"
  BY <1>1, <1>2, CapacityKept DEF SendRefund, ReserveRefund
<1>3. CASE refund[r].state = "NONE"
  <2>1. FitsCapture(r) /\ refund' = [refund EXCEPT ![r].state = "RESERVED"]
    BY <1>3 DEF SendRefund, ReserveRefund
  <2>2. Reserved' = Reserved \cup {r} /\ r \notin Reserved
    BY <1>1, <1>3, <2>1 DEF Reserved, RefundTypeOK
  <2>3. ASSUME NEW i \in Lines PROVE HeldProvider(i)' <= Price[i]
    <3>1. /\ HeldProvider(i) = SumFunctionOnSet(PlanOf(i), Reserved)
          /\ HeldProvider(i)' = SumFunctionOnSet(PlanOf(i), Reserved \cup {r})
      BY <1>1, <2>2, Zenon DEF HeldProvider, PlanOf
    <3>2. /\ IsFiniteSet(Reserved) /\ PlanOf(i)[r] = plan[r][i] /\ plan[r][i] \in Int
          /\ \A x \in Reserved : PlanOf(i)[x] \in Int
      BY <1>1, PlanTypes DEF Reserved
    <3>3. HeldProvider(i)' = HeldProvider(i) + plan[r][i]
      BY <2>2, <3>1, <3>2, SumAdd
    <3>4. CASE i \in LinesOf(r)
      BY <2>1, <3>3, <3>4 DEF FitsCapture
    <3>5. CASE i \notin LinesOf(r)
      <4>1. plan[r][i] = 0 /\ HeldProvider(i) <= Price[i]
        BY <3>5 DEF CapacityInv
      <4>2. HeldProvider(i) \in Int
        BY <3>1, <3>2, SumInt
      <4> QED BY <3>3, <4>1, <4>2
    <3> QED BY <3>4, <3>5
  <2>4. \A x \in Reserved' : plan'[x] # NoPlan
    BY <1>1, <2>2 DEF CapacityInv
  <2>5. \A x \in Refunds : \A i \in Lines \ LinesOf(x) : plan'[x][i] = 0
    BY <1>1 DEF CapacityInv
  <2> QED BY <2>3, <2>4, <2>5 DEF CapacityInv, NoPlan, LinesOf
<1> QED BY <1>2, <1>3

\* A call in progress neither makes a reservation nor drops one.
LEMMA CallKeepsReserved ==
  ASSUME RefundTypeOK, CallsHaveRow, NEW c \in RefundCallers,
         RefundCallStep(c) \/ RefundFault(c)
  PROVE  \A r \in Refunds : refund'[r].state = "NONE" <=> refund[r].state = "NONE"
<1>1. CASE UNCHANGED refund
  BY <1>1
<1>2. CASE rcaller[c].pc # "idle"
  <2> DEFINE r == rcaller[c].refund
  <2>1. r \in Refunds /\ refund[r].state # "NONE"
    BY <1>2, CallTypes DEF CallsHaveRow
  <2>2. CASE UNCHANGED refund
    BY <2>2
  <2>3. CASE \E s \in RefundStates \ {"NONE"} : refund' = [refund EXCEPT ![r].state = s]
    BY <2>1, <2>3 DEF RefundTypeOK
  <2>4. CASE \E i, s : refund' = SetLine(r, i, s)
    BY <2>1, <2>4 DEF RefundTypeOK, SetLine
  <2>5. CASE \E i, s : refund' = [refund EXCEPT ![r].lines[i] = s,
                                               ![r].state = "RECONCILIATION_REQUIRED"]
    BY <2>1, <2>5 DEF RefundTypeOK
  <2>6. \/ UNCHANGED refund
        \/ \E s \in RefundStates \ {"NONE"} : refund' = [refund EXCEPT ![r].state = s]
        \/ \E i, s : refund' = SetLine(r, i, s)
        \/ \E i, s : refund' = [refund EXCEPT ![r].lines[i] = s,
                                              ![r].state = "RECONCILIATION_REQUIRED"]
    <3>1. CASE Claim(c)
      BY <3>1 DEF Claim, RefundStates
    <3>2. CASE MarkSubmitting(c) \/ SaveSuccess(c)
      BY <3>2 DEF MarkSubmitting, SaveSuccess
    <3>3. CASE SaveRejection(c) \/ LineIsAmbiguous(c)
      BY <3>3 DEF SaveRejection, LineIsAmbiguous, LineFails
    <3>4. CASE Finish(c)
      BY <3>4 DEF Finish, RefundStates
    <3>5. CASE ProviderRefunds(c) \/ AnswerRefund(c) \/ RefundCallDies(c)
      BY <3>5 DEF ProviderRefunds, AnswerRefund, RefundCallDies
    <3> QED BY <3>1, <3>2, <3>3, <3>4, <3>5 DEF RefundCallStep, RefundFault
  <2> QED BY <2>2, <2>3, <2>4, <2>5, <2>6
<1>3. rcaller[c].pc # "idle"
  BY DEF RefundCallStep, RefundFault, Claim, MarkSubmitting, ProviderRefunds, SaveSuccess,
         SaveRejection, Finish, AnswerRefund, LineIsAmbiguous, RefundCallDies, AtPoint
<1> QED BY <1>2, <1>3

LEMMA CapacityStep ==
  SettlementInv /\ SettlementInv' /\ CapacityInv /\ [SettlementNext]_allRefundVars => CapacityInv'
<1> SUFFICES ASSUME SettlementInv, SettlementInv', CapacityInv, [SettlementNext]_allRefundVars
             PROVE  CapacityInv'
  OBVIOUS
<1>0. RefundTypeOK /\ CallsHaveRow /\ SettlementTypeOK'
  BY DEF SettlementInv, SettlementTypeOK, ChannelInv
<1>1. ASSUME NEW r \in Refunds, PrepareRefund(r) PROVE CapacityInv'
  BY <1>0, <1>1, PrepareKeepsCapacity
<1>2. ASSUME NEW r \in Refunds, NEW c \in RefundCallers, SendRefund(c, r) PROVE CapacityInv'
  BY <1>2, ReserveKeepsCapacity
<1>3. ASSUME NEW r \in Refunds, PollRefund(r) \/ \E a \in rAnswers[r] : SaveSettlement(r, a)
      PROVE  CapacityInv'
  BY <1>3, CapacityKept DEF PollRefund, CheckRefund, SaveSettlement, refundVars
<1>4. ASSUME NEW c \in RefundCallers, RefundCallStep(c) \/ RefundFault(c) PROVE CapacityInv'
  <2>1. UNCHANGED plan
    BY <1>4 DEF RefundCallStep, RefundFault, Claim, MarkSubmitting, ProviderRefunds,
       SaveSuccess, SaveRejection, LineFails, Finish, AnswerRefund, LineIsAmbiguous,
       RefundCallDies
  <2> QED BY <1>0, <1>4, <2>1, CallKeepsReserved, CapacityKept
<1>5. CASE UNCHANGED allRefundVars
  BY <1>5, CapacityKept DEF allRefundVars, refundVars
<1> QED BY <1>1, <1>2, <1>3, <1>4, <1>5 DEF SettlementNext, ChannelStep

LEMMA CapacityInit == SettlementInit => CapacityInv
<1> SUFFICES ASSUME SettlementInit PROVE CapacityInv
  OBVIOUS
<1>1. Reserved = {}
  BY DEF SettlementInit, RefundInit, NoRefund, Reserved
<1>2. \A i \in Lines : HeldProvider(i) = 0
  <2>1. \A i \in Lines : HeldProvider(i) = SumFunctionOnSet(PlanOf(i), {})
    BY <1>1, Zenon DEF HeldProvider, PlanOf
  <2> QED BY <2>1, SumOfNone
<1>3. \A i \in Lines : Price[i] \in Nat
  BY RefundAssumption
<1>4. \A r \in Refunds : \A i \in Lines : plan[r][i] = 0
  BY DEF SettlementInit, RefundInit, NoPlan
<1> QED BY <1>1, <1>2, <1>3, <1>4 DEF CapacityInv

\* What the provider gave back of a line is never more than was paid for it, for
\* any number of refunds and whatever answers were lost: lines of unknown outcome
\* count as taken (initialize: reserved capacity).
THEOREM NeverOverRefundedHolds == SettlementSpec => []NeverOverRefunded
<1>1. SettlementInv /\ CapacityInv => NeverOverRefunded
  <2> SUFFICES ASSUME SettlementInv, CapacityInv PROVE NeverOverRefunded
    OBVIOUS
  <2>0. RefundTypeOK
    BY DEF SettlementInv, SettlementTypeOK
  <2>1. ASSUME NEW i \in Lines
        PROVE  SumFunctionOnSet(PlanOf(i), {r \in Refunds : i \in paidBack[r]}) <= Price[i]
    <3> DEFINE Back == {r \in Refunds : i \in paidBack[r]}
    <3>1. Back \in SUBSET Reserved
      BY DEF Reserved, SettlementInv, ChannelInv, RowHolds
    <3>2. IsFiniteSet(Reserved) /\ \A x \in Reserved : PlanOf(i)[x] \in Nat
      BY <2>0, PlanTypes DEF Reserved
    <3>3. SumFunctionOnSet(PlanOf(i), Back) <= SumFunctionOnSet(PlanOf(i), Reserved)
      BY <3>1, <3>2, SumOfSubset
    <3>4. SumFunctionOnSet(PlanOf(i), Reserved) <= Price[i]
      BY DEF CapacityInv, HeldProvider, PlanOf
    <3>5. /\ SumFunctionOnSet(PlanOf(i), Reserved) \in Nat
          /\ SumFunctionOnSet(PlanOf(i), Back) \in Nat
      BY <2>0, <3>1, <3>2, SumNat, FS_Subset
    <3>6. Price[i] \in Nat
      BY RefundAssumption
    <3> HIDE DEF Back
    <3>7. SumFunctionOnSet(PlanOf(i), Back) <= Price[i]
      BY <3>3, <3>4, <3>5, <3>6
    <3> QED BY <3>7 DEF Back
  <2> QED BY <2>1 DEF NeverOverRefunded, PlanOf
<1>2. SettlementSpec => []CapacityInv
  BY SettlementInvHolds, CapacityInit, CapacityStep, PTL DEF SettlementSpec
<1> QED BY SettlementInvHolds, <1>1, <1>2, PTL

-----------------------------------------------------------------------------
(* The amounts of a purchase and of its refunds.                            *)

AmountKinds == {"total", "net", "fee"}
LineKinds == {"count", "total", "net", "fee"}
LineRecords == [count : Nat, total : Int, net : Int, fee : Int]
ClaimRecords ==
  [status : {"NONE", "PENDING", "APPROVED", "REJECTED"}, lines : [Pieces -> LineRecords]]

PostingTypeOK ==
  /\ delivered \in BOOLEAN
  /\ claims \in [Claims -> ClaimRecords]
  /\ givenBack \in [Pieces -> Nat]
  /\ repayment \in [Claims -> {"NONE", "WAITING", "COMPLETED", "FAILED"}]

Approved == {c \in Claims : claims[c].status = "APPROVED"}

\* What of a line is summed, over any table of requests.
KindOf(line, k) ==
  IF k = "count" THEN line.count
  ELSE IF k = "total" THEN line.total
  ELSE IF k = "net" THEN line.net
  ELSE line.fee
KindOver(table, g, k) == [c \in Claims |-> KindOf(table[c].lines[g], k)]
SumIn(table, set, g, k) == SumFunctionOnSet(KindOver(table, g, k), set)

BoughtKind(g, k) ==
  IF k = "total" THEN Bought[g].total ELSE IF k = "net" THEN Bought[g].net ELSE Bought[g].fee

\* What is given back is what approved requests count, and requests that reserve
\* stay within what was bought.
CountsAgree ==
  \A g \in Pieces : /\ givenBack[g] = SumIn(claims, Approved, g, "count")
                   /\ SumIn(claims, Reserving, g, "count") <= Bought[g].quantity

EmptyLines ==
  \A c \in Claims, g \in Pieces : claims[c].lines[g].count = 0 => claims[c].lines[g] = NoLine

\* Requests that reserve all of an item reserve all of its amounts: the last of them
\* takes what the others left.
FullIsExact ==
  \A g \in Pieces : SumIn(claims, Reserving, g, "count") = Bought[g].quantity
    => \A k \in AmountKinds : SumIn(claims, Reserving, g, k) = BoughtKind(g, k)

\* Only requests that reserve have a refund payment, and approved ones have one.
RepaidReserve ==
  \A c \in Claims : /\ repayment[c] # "NONE" => claims[c].status \in {"PENDING", "APPROVED"}
                    /\ claims[c].status = "APPROVED" => repayment[c] # "NONE"

\* The payments whose rows are posted, and the status they were posted with last.
Payments == Claims \cup {ThePurchase}
IsPosted(p) == IF p = ThePurchase THEN delivered ELSE repayment[p] # "NONE"
PostedPayments == {p \in Payments : IsPosted(p)}
PostedAs(p) ==
  IF p = ThePurchase THEN "COMPLETED"
  ELSE IF repayment[p] = "COMPLETED" THEN "COMPLETED" ELSE "WAITING"

OrdersOf(p, status) == {OrderOf(p, s, status) : s \in SellersOf(p)}

\* Nothing else is in the tables, and nothing of them is missing.
RowsArePosted ==
  /\ \A t : t \in transactions <=> \E p \in PostedPayments : t \in RowsOf(p, PostedAs(p))
  /\ \A o : o \in orders <=> \E p \in PostedPayments : o \in OrdersOf(p, PostedAs(p))

PostingInv ==
  /\ PostingTypeOK
  /\ CountsAgree
  /\ EmptyLines
  /\ FullIsExact
  /\ RepaidReserve
  /\ RowsArePosted

-----------------------------------------------------------------------------
(* Sums over requests.                                                      *)

\* What is summed are integers, and counts are natural numbers.
LEMMA KindTypes ==
    ASSUME NEW table \in [Claims -> ClaimRecords], NEW g \in Pieces, NEW k \in LineKinds
    PROVE  /\ \A c \in Claims : /\ KindOver(table, g, k)[c] = KindOf(table[c].lines[g], k)
                                /\ KindOver(table, g, k)[c] \in Int
                                /\ k = "count" => KindOver(table, g, k)[c] \in Nat
           /\ \A S \in SUBSET Claims : IsFiniteSet(S) /\ SumIn(table, S, g, k) \in Int
<1>1. ASSUME NEW c \in Claims
      PROVE  /\ KindOver(table, g, k)[c] = KindOf(table[c].lines[g], k)
             /\ KindOver(table, g, k)[c] \in Int
             /\ k = "count" => KindOver(table, g, k)[c] \in Nat
  <2>1. table[c].lines[g] \in LineRecords
    BY DEF ClaimRecords
  <2>2. QED BY <2>1 DEF KindOver, KindOf, LineKinds, LineRecords
<1>2. ASSUME NEW S \in SUBSET Claims
      PROVE  IsFiniteSet(S) /\ SumIn(table, S, g, k) \in Int
  <2>1. IsFiniteSet(S)
    BY FS_Subset, BoughtAssumption
  <2>2. \A c \in S : KindOver(table, g, k)[c] \in Int
    BY <1>1
  <2>3. QED BY <2>1, <2>2, SumInt DEF SumIn
<1>3. QED BY <1>1, <1>2

\* The sums of the model are these.
LEMMA SumsIn ==
    ASSUME NEW table \in [Claims -> ClaimRecords], NEW g \in Pieces, NEW S \in SUBSET Claims
    PROVE  /\ SumFunction([c \in S |-> table[c].lines[g].count]) = SumIn(table, S, g, "count")
           /\ SumFunction([c \in S |-> table[c].lines[g].total]) = SumIn(table, S, g, "total")
           /\ SumFunction([c \in S |-> table[c].lines[g].net]) = SumIn(table, S, g, "net")
           /\ SumFunction([c \in S |-> table[c].lines[g].fee]) = SumIn(table, S, g, "fee")
<1>1. IsFiniteSet(Claims)
  BY BoughtAssumption
<1>2. SumFunction([c \in S |-> table[c].lines[g].count]) = SumIn(table, S, g, "count")
  <2> DEFINE f == [c \in S |-> table[c].lines[g].count]
             h == KindOver(table, g, "count")
  <2>1. f = [c \in S |-> h[c]]
    BY DEF KindOver, KindOf
  <2>2. \A c \in Claims : h[c] \in Int
    BY KindTypes DEF LineKinds
  <2> HIDE DEF f, h
  <2>3. SumFunction(f) = SumFunctionOnSet(h, S)
    BY <1>1, <2>1, <2>2, SumOfField
  <2>4. QED BY <2>3 DEF SumIn, f, h
<1>3. SumFunction([c \in S |-> table[c].lines[g].total]) = SumIn(table, S, g, "total")
  <2> DEFINE f == [c \in S |-> table[c].lines[g].total]
             h == KindOver(table, g, "total")
  <2>1. f = [c \in S |-> h[c]]
    BY DEF KindOver, KindOf
  <2>2. \A c \in Claims : h[c] \in Int
    BY KindTypes DEF LineKinds
  <2> HIDE DEF f, h
  <2>3. SumFunction(f) = SumFunctionOnSet(h, S)
    BY <1>1, <2>1, <2>2, SumOfField
  <2>4. QED BY <2>3 DEF SumIn, f, h
<1>4. SumFunction([c \in S |-> table[c].lines[g].net]) = SumIn(table, S, g, "net")
  <2> DEFINE f == [c \in S |-> table[c].lines[g].net]
             h == KindOver(table, g, "net")
  <2>1. f = [c \in S |-> h[c]]
    BY DEF KindOver, KindOf
  <2>2. \A c \in Claims : h[c] \in Int
    BY KindTypes DEF LineKinds
  <2> HIDE DEF f, h
  <2>3. SumFunction(f) = SumFunctionOnSet(h, S)
    BY <1>1, <2>1, <2>2, SumOfField
  <2>4. QED BY <2>3 DEF SumIn, f, h
<1>5. SumFunction([c \in S |-> table[c].lines[g].fee]) = SumIn(table, S, g, "fee")
  <2> DEFINE f == [c \in S |-> table[c].lines[g].fee]
             h == KindOver(table, g, "fee")
  <2>1. f = [c \in S |-> h[c]]
    BY DEF KindOver, KindOf
  <2>2. \A c \in Claims : h[c] \in Int
    BY KindTypes DEF LineKinds
  <2> HIDE DEF f, h
  <2>3. SumFunction(f) = SumFunctionOnSet(h, S)
    BY <1>1, <2>1, <2>2, SumOfField
  <2>4. QED BY <2>3 DEF SumIn, f, h
<1>6. QED BY <1>2, <1>3, <1>4, <1>5

\* A table that differs at one request adds its line, where the request joins.
LEMMA SumInJoins ==
    ASSUME NEW old \in [Claims -> ClaimRecords], NEW new \in [Claims -> ClaimRecords],
           NEW c \in Claims, \A d \in Claims : d # c => new[d] = old[d],
           NEW S \in SUBSET Claims, c \notin S, NEW g \in Pieces, NEW k \in LineKinds
    PROVE  SumIn(new, S \cup {c}, g, k) = SumIn(old, S, g, k) + KindOf(new[c].lines[g], k)
<1> DEFINE f == KindOver(old, g, k)
           h == KindOver(new, g, k)
<1>1. \A d \in Claims : f[d] \in Int /\ h[d] \in Int
  BY KindTypes
<1>2. IsFiniteSet(S)
  BY FS_Subset, BoughtAssumption
<1>3. \A d \in S : f[d] = h[d]
  BY DEF KindOver
<1>4. h[c] = KindOf(new[c].lines[g], k)
  BY DEF KindOver
<1> HIDE DEF f, h
<1>5. SumFunctionOnSet(h, S \cup {c}) = SumFunctionOnSet(h, S) + h[c]
  BY <1>1, <1>2, SumAdd
<1>6. SumFunctionOnSet(f, S) = SumFunctionOnSet(h, S)
  BY <1>1, <1>2, <1>3, SumSame
<1>7. QED BY <1>4, <1>5, <1>6 DEF SumIn, f, h

\* Where lines stay, their sums do.
LEMMA SumInStays ==
    ASSUME NEW old \in [Claims -> ClaimRecords], NEW new \in [Claims -> ClaimRecords],
           NEW S \in SUBSET Claims, \A d \in S : new[d].lines = old[d].lines,
           NEW g \in Pieces, NEW k \in LineKinds
    PROVE  SumIn(new, S, g, k) = SumIn(old, S, g, k)
<1> DEFINE f == KindOver(old, g, k)
           h == KindOver(new, g, k)
<1>1. \A d \in Claims : f[d] \in Int /\ h[d] \in Int
  BY KindTypes
<1>2. IsFiniteSet(S)
  BY FS_Subset, BoughtAssumption
<1>3. \A d \in S : f[d] = h[d]
  BY DEF KindOver
<1> HIDE DEF f, h
<1>4. SumFunctionOnSet(f, S) = SumFunctionOnSet(h, S)
  BY <1>1, <1>2, <1>3, SumSame
<1>5. QED BY <1>4 DEF SumIn, f, h

\* Where a request leaves, its line does.
LEMMA SumInLeaves ==
    ASSUME NEW table \in [Claims -> ClaimRecords], NEW S \in SUBSET Claims, NEW c \in S,
           NEW g \in Pieces, NEW k \in LineKinds
    PROVE  SumIn(table, S, g, k) = KindOf(table[c].lines[g], k) + SumIn(table, S \ {c}, g, k)
<1>1. \A d \in S : KindOver(table, g, k)[d] \in Int
  BY KindTypes
<1>2. IsFiniteSet(S)
  BY FS_Subset, BoughtAssumption
<1>3. SumFunctionOnSet(KindOver(table, g, k), S)
        = KindOver(table, g, k)[c] + SumFunctionOnSet(KindOver(table, g, k), S \ {c})
  BY <1>1, <1>2, SumRemove
<1>4. KindOver(table, g, k)[c] = KindOf(table[c].lines[g], k)
  BY DEF KindOver
<1>5. QED BY <1>3, <1>4 DEF SumIn

\* A pending request and an approved one are both reserving.
LEMMA ReservingSplits ==
    ASSUME PostingTypeOK, NEW g \in Pieces
    PROVE  SumIn(claims, Reserving, g, "count")
             = SumIn(claims, Approved, g, "count") + SumIn(claims, Awaiting, g, "count")
<1>1. Reserving = Approved \cup Awaiting /\ Approved \cap Awaiting = {}
  BY DEF Reserving, Approved, Awaiting
<1>2. Approved \in SUBSET Claims /\ Awaiting \in SUBSET Claims
  BY DEF Approved, Awaiting
<1>3. IsFiniteSet(Approved) /\ IsFiniteSet(Awaiting)
  BY <1>2, FS_Subset, BoughtAssumption
<1>4. \A c \in Approved \cup Awaiting : KindOver(claims, g, "count")[c] \in Int
  BY <1>2, KindTypes DEF PostingTypeOK, LineKinds
<1> HIDE DEF Reserving, Approved, Awaiting
<1>5. SumFunctionOnSet(KindOver(claims, g, "count"), Approved \cup Awaiting)
        = SumFunctionOnSet(KindOver(claims, g, "count"), Approved)
          + SumFunctionOnSet(KindOver(claims, g, "count"), Awaiting)
  BY <1>1, <1>3, <1>4, SumOfUnion
<1>6. QED BY <1>1, <1>5, Zenon DEF SumIn

-----------------------------------------------------------------------------
(* Once all of an item is given back, requests still pending have none of it, *)
(* and any requests from the approved ones to all that reserve add up to it.  *)

\* Of an item given back whole.
LEMMA AllOfIt ==
    ASSUME PostingInv, NEW g \in Pieces, givenBack[g] = Bought[g].quantity,
           NEW S \in SUBSET Reserving, Approved \subseteq S, NEW k \in AmountKinds
    PROVE  SumIn(claims, S, g, k) = BoughtKind(g, k)
<1> USE DEF PostingInv
<1>1. claims \in [Claims -> ClaimRecords] /\ Reserving \in SUBSET Claims
      /\ Approved \in SUBSET Claims /\ S \in SUBSET Claims
  BY DEF PostingTypeOK, Reserving, Approved
<1> DEFINE n(T) == SumIn(claims, T, g, "count")
<1>2. Bought[g].quantity \in Nat
  BY BoughtAssumption
<1>3. n(Approved) = Bought[g].quantity /\ n(Reserving) <= Bought[g].quantity
  BY DEF CountsAgree
<1>4. \A T \in SUBSET Claims : n(T) \in Int /\ IsFiniteSet(T)
  BY <1>1, KindTypes DEF LineKinds
<1>5. \A c \in Claims : KindOver(claims, g, "count")[c] \in Nat
  BY <1>1, KindTypes DEF LineKinds
<1>6. n(Approved) <= n(Reserving)
  <2>1. IsFiniteSet(Reserving) /\ (\A c \in Reserving : KindOver(claims, g, "count")[c] \in Nat)
        /\ Approved \in SUBSET Reserving
    BY <1>1, <1>4, <1>5 DEF Approved, Reserving
  <2>2. QED BY <2>1, SumOfSubset DEF SumIn
<1>7. n(Reserving) = Bought[g].quantity
  BY <1>1, <1>2, <1>3, <1>4, <1>6
<1>8. ASSUME NEW c \in Reserving, c \notin Approved PROVE claims[c].lines[g] = NoLine
  <2>1. n(Reserving) = KindOf(claims[c].lines[g], "count") + n(Reserving \ {c})
    BY <1>1, SumInLeaves DEF LineKinds
  <2>2. n(Approved) <= n(Reserving \ {c})
    <3>1. IsFiniteSet(Reserving \ {c}) /\ Approved \in SUBSET (Reserving \ {c})
          /\ (\A d \in Reserving \ {c} : KindOver(claims, g, "count")[d] \in Nat)
      BY <1>1, <1>4, <1>5, <1>8 DEF Approved, Reserving
    <3>2. QED BY <3>1, SumOfSubset DEF SumIn
  <2>3. KindOf(claims[c].lines[g], "count") \in Nat
    BY <1>1, <1>5, <1>8 DEF KindOver
  <2>4. n(Reserving \ {c}) \in Int
    BY <1>1, <1>4
  <2>5. KindOf(claims[c].lines[g], "count") = 0
    BY <1>2, <1>3, <1>7, <2>1, <2>2, <2>3, <2>4
  <2>6. claims[c].lines[g].count = 0
    BY <2>5 DEF KindOf
  <2>7. QED BY <1>1, <2>6 DEF EmptyLines
<1>9. SumIn(claims, Reserving, g, k) = BoughtKind(g, k)
  BY <1>7 DEF FullIsExact
<1>10. k \in LineKinds /\ k # "count"
  BY DEF AmountKinds, LineKinds
<1>11. \A c \in Reserving \ S : KindOver(claims, g, k)[c] = 0
  BY <1>1, <1>8, <1>10 DEF KindOver, KindOf, NoLine
<1>12. IsFiniteSet(Reserving) /\ \A c \in Reserving : KindOver(claims, g, k)[c] \in Int
  BY <1>1, <1>4, <1>10, KindTypes
<1>13. SumFunctionOnSet(KindOver(claims, g, k), Reserving)
         = SumFunctionOnSet(KindOver(claims, g, k), S)
  BY <1>11, <1>12, SumOfNonZero
<1>14. QED BY <1>9, <1>13 DEF SumIn

-----------------------------------------------------------------------------
(* The requests: what they count, and what they are worth.                  *)

ClaimsInv == PostingTypeOK /\ CountsAgree /\ EmptyLines /\ FullIsExact /\ RepaidReserve

\* A request asks for natural numbers.
LEMMA CountsAreNatural ==
    ASSUME NEW counts \in PieceCounts, NEW g \in Pieces
    PROVE  counts[g] \in Nat
<1> DEFINE Q == {Bought[h].quantity : h \in Pieces}
           f == [h \in Pieces |-> Bought[h].quantity]
<1>1. IsFiniteSet(Pieces) /\ \A h \in Pieces : f[h] \in Nat
  BY BoughtAssumption
<1>2. Q \subseteq Nat /\ Q # {}
  BY BoughtAssumption
<1>3. \A q \in Q : q <= SumFunctionOnSet(f, Pieces)
  <2>1. ASSUME NEW h \in Pieces PROVE f[h] <= SumFunctionOnSet(f, Pieces)
    <3> HIDE DEF f
    <3>1. QED BY <1>1, SumCovers
  <2>2. QED BY <2>1
<1>4. SumFunctionOnSet(f, Pieces) \in Nat
  <2> HIDE DEF f
  <2>1. QED BY <1>1, SumNat
<1>5. \E m \in Q : \A q \in Q : q <= m
  <2> HIDE DEF Q, f
  <2>1. QED BY <1>2, <1>3, <1>4, GreatestNatural
<1>6. Max(Q) \in Nat
  <2>1. \E m \in Q : \A q \in Q : m >= q
    BY <1>2, <1>5
  <2> HIDE DEF Q
  <2>2. Max(Q) \in Q
    BY <2>1 DEF Max
  <2>3. QED BY <1>2, <2>2
<1>7. counts \in [Pieces -> 0..Max(Q)]
  BY DEF PieceCounts
<1> HIDE DEF Q
<1>8. QED BY <1>6, <1>7

\* What buildRefundRequestItems() makes of a count: a line of integers, none for none, and
\* for the last of an item what the other lines left of each amount.
LEMMA SharesAreInteger ==
    ASSUME ClaimsInv, NEW g \in Pieces, NEW n \in Nat
    PROVE  /\ ShareOf(g, n) \in LineRecords
           /\ ShareOf(g, n).count = n
           /\ n = 0 => ShareOf(g, n) = NoLine
           /\ n # 0 /\ SumIn(claims, Reserving, g, "count") + n = Bought[g].quantity
                => \A k \in AmountKinds :
                     KindOf(ShareOf(g, n), k) = BoughtKind(g, k) - SumIn(claims, Reserving, g, k)
<1>1. claims \in [Claims -> ClaimRecords] /\ Reserving \in SUBSET Claims
  BY DEF ClaimsInv, PostingTypeOK, Reserving
<1>2. /\ Bought[g].quantity \in Nat \ {0} /\ Bought[g].total \in Int
      /\ Bought[g].net \in Int /\ Bought[g].fee \in Int
  BY BoughtAssumption
<1>3. /\ CountIn(Reserving, g) = SumIn(claims, Reserving, g, "count")
      /\ SumFunction([c \in Reserving |-> claims[c].lines[g].total]) = SumIn(claims, Reserving, g, "total")
      /\ SumFunction([c \in Reserving |-> claims[c].lines[g].net]) = SumIn(claims, Reserving, g, "net")
      /\ SumFunction([c \in Reserving |-> claims[c].lines[g].fee]) = SumIn(claims, Reserving, g, "fee")
  <2> HIDE DEF Reserving
  <2>1. QED BY <1>1, SumsIn DEF CountIn
<1>4. \A k \in LineKinds : SumIn(claims, Reserving, g, k) \in Int
  BY <1>1, KindTypes
<1>5. ASSUME NEW amount \in Int, NEW taken \in Int
      PROVE  /\ Allocated(g, n, amount, taken) \in Int
             /\ SumIn(claims, Reserving, g, "count") + n = Bought[g].quantity
                  => Allocated(g, n, amount, taken) = amount - taken
  <2>1. RoundedShare(amount, n, Bought[g].quantity) \in Int
    <3> DEFINE q == Bought[g].quantity
    <3>1. q \in Nat \ {0}
      BY <1>2
    <3> HIDE DEF q
    <3>2. 2 * amount * n + q \in Int /\ 2 * q \in Nat \ {0}
      BY <3>1
    <3>3. (2 * amount * n + q) \div (2 * q) \in Int
      BY <3>2
    <3>4. QED BY <3>3 DEF RoundedShare, q
  <2>2. QED BY <1>3, <2>1 DEF Allocated
<1>6. CASE n = 0
  BY <1>6 DEF ShareOf, NoLine, LineRecords
<1>7. CASE n # 0
  <2> DEFINE total == Allocated(g, n, Bought[g].total, SumIn(claims, Reserving, g, "total"))
             net == Allocated(g, n, Bought[g].net, SumIn(claims, Reserving, g, "net"))
             fee == Allocated(g, n, Bought[g].fee, SumIn(claims, Reserving, g, "fee"))
  <2>1. ShareOf(g, n) = [count |-> n, total |-> total, net |-> net, fee |-> fee]
    BY <1>3, <1>7, Zenon DEF ShareOf
  <2>2. total \in Int /\ net \in Int /\ fee \in Int
    BY <1>2, <1>4, <1>5 DEF LineKinds
  <2>3. SumIn(claims, Reserving, g, "count") + n = Bought[g].quantity
          => /\ total = Bought[g].total - SumIn(claims, Reserving, g, "total")
             /\ net = Bought[g].net - SumIn(claims, Reserving, g, "net")
             /\ fee = Bought[g].fee - SumIn(claims, Reserving, g, "fee")
    BY <1>2, <1>4, <1>5 DEF LineKinds
  <2> HIDE DEF total, net, fee
  <2>4. ShareOf(g, n) \in LineRecords /\ ShareOf(g, n).count = n
    BY <2>1, <2>2 DEF LineRecords
  <2>5. QED BY <1>7, <2>1, <2>3, <2>4 DEF KindOf, BoughtKind, AmountKinds
<1>8. QED BY <1>6, <1>7

\* createRefundRequest() stays within what was bought, and the last of an item is exact.
LEMMA CreateKeepsClaims ==
    ASSUME ClaimsInv, NEW c \in Claims, NEW counts \in PieceCounts, CreateClaim(c, counts)
    PROVE  ClaimsInv'
<1> USE DEF ClaimsInv
<1> DEFINE L == [g \in Pieces |-> ShareOf(g, counts[g])]
<1>1. claims \in [Claims -> ClaimRecords] /\ Reserving \in SUBSET Claims
      /\ Approved \in SUBSET Claims /\ Awaiting \in SUBSET Claims
  BY DEF PostingTypeOK, Reserving, Approved, Awaiting
<1>2. \A g \in Pieces : counts[g] \in Nat
  BY CountsAreNatural
<1>3. \A g \in Pieces : L[g] \in LineRecords /\ L[g].count = counts[g]
                        /\ L[g] = ShareOf(g, counts[g])
  BY <1>2, SharesAreInteger
<1>4. L \in [Pieces -> LineRecords]
  BY <1>3
<1> HIDE DEF L
<1>5. claims' = [claims EXCEPT ![c] = [status |-> "PENDING", lines |-> L]]
  BY DEF CreateClaim, L
<1>6. [status |-> "PENDING", lines |-> L] \in ClaimRecords
  BY <1>4 DEF ClaimRecords
<1>7. /\ claims' \in [Claims -> ClaimRecords]
      /\ claims'[c].status = "PENDING" /\ claims'[c].lines = L
      /\ \A d \in Claims : d # c => claims'[d] = claims[d]
  BY <1>1, <1>5, <1>6
<1>8. claims[c].status = "NONE"
  BY DEF CreateClaim, NoClaim
<1>9. UNCHANGED <<delivered, givenBack, repayment>>
  BY DEF CreateClaim
<1>10. PostingTypeOK'
  BY <1>7, <1>9 DEF PostingTypeOK
<1>11. Reserving' = Reserving \cup {c} /\ c \notin Reserving /\ Approved' = Approved /\ c \notin Approved
  BY <1>7, <1>8 DEF Reserving, Approved
<1>12. ASSUME NEW g \in Pieces, NEW k \in LineKinds
       PROVE  /\ SumIn(claims', Reserving', g, k)
                   = SumIn(claims, Reserving, g, k) + KindOf(L[g], k)
              /\ SumIn(claims', Approved', g, k) = SumIn(claims, Approved, g, k)
              /\ SumIn(claims, Reserving, g, k) \in Int /\ KindOf(L[g], k) \in Int
  <2>1. SumIn(claims', Reserving \cup {c}, g, k)
          = SumIn(claims, Reserving, g, k) + KindOf(claims'[c].lines[g], k)
    <3> HIDE DEF Reserving
    <3>1. QED BY <1>1, <1>7, <1>11, SumInJoins
  <2>2. SumIn(claims', Approved, g, k) = SumIn(claims, Approved, g, k)
    <3>1. \A d \in Approved : claims'[d].lines = claims[d].lines
      BY <1>1, <1>7, <1>11
    <3> HIDE DEF Approved
    <3>2. QED BY <1>1, <1>7, <3>1, SumInStays
  <2>3. SumIn(claims, Reserving, g, k) \in Int
    BY <1>1, KindTypes
  <2>4. KindOf(L[g], k) \in Int
    BY <1>3 DEF KindOf, LineKinds, LineRecords
  <2>5. QED BY <1>7, <1>11, <2>1, <2>2, <2>3, <2>4
<1>13. ASSUME NEW g \in Pieces
       PROVE  SumIn(claims, Reserving, g, "count") + counts[g] <= Bought[g].quantity
  <2>1. CASE counts[g] = 0
    BY <1>12, <2>1 DEF CountsAgree, LineKinds
  <2>2. CASE counts[g] # 0
    <3>1. givenBack[g] + CountIn(Awaiting, g) + counts[g] <= Bought[g].quantity
      BY <2>2 DEF CreateClaim, MayClaim
    <3>2. CountIn(Awaiting, g) = SumIn(claims, Awaiting, g, "count")
      BY <1>1, SumsIn DEF CountIn
    <3>3. SumIn(claims, Reserving, g, "count") = givenBack[g] + SumIn(claims, Awaiting, g, "count")
      BY ReservingSplits DEF CountsAgree
    <3>4. QED BY <3>1, <3>2, <3>3
  <2>3. QED BY <2>1, <2>2
<1>14. \A g \in Pieces : KindOf(L[g], "count") = counts[g]
  BY <1>3 DEF KindOf
<1>15. CountsAgree'
  <2> SUFFICES ASSUME NEW g \in Pieces
               PROVE  /\ givenBack'[g] = SumIn(claims', Approved', g, "count")
                      /\ SumIn(claims', Reserving', g, "count") <= Bought[g].quantity
    BY DEF CountsAgree
  <2>1. SumIn(claims', Reserving', g, "count") = SumIn(claims, Reserving, g, "count") + counts[g]
        /\ SumIn(claims', Approved', g, "count") = SumIn(claims, Approved, g, "count")
    BY <1>12, <1>14, Zenon DEF LineKinds
  <2>2. givenBack'[g] = SumIn(claims, Approved, g, "count")
    BY <1>9 DEF CountsAgree
  <2>3. QED BY <1>13, <2>1, <2>2
<1>16. EmptyLines'
  <2> SUFFICES ASSUME NEW d \in Claims, NEW g \in Pieces, claims'[d].lines[g].count = 0
               PROVE  claims'[d].lines[g] = NoLine
    BY DEF EmptyLines
  <2>1. CASE d = c
    <3>1. counts[g] = 0
      BY <1>3, <1>7, <2>1
    <3>2. QED BY <1>2, <1>3, <1>7, <2>1, <3>1, SharesAreInteger
  <2>2. CASE d # c
    BY <1>7, <2>2 DEF EmptyLines
  <2>3. QED BY <2>1, <2>2
<1>17. FullIsExact'
  <2> SUFFICES ASSUME NEW g \in Pieces,
                      SumIn(claims', Reserving', g, "count") = Bought[g].quantity,
                      NEW k \in AmountKinds
               PROVE  SumIn(claims', Reserving', g, k) = BoughtKind(g, k)
    BY DEF FullIsExact
  <2>1. SumIn(claims, Reserving, g, "count") + counts[g] = Bought[g].quantity
    BY <1>12, <1>14 DEF LineKinds
  <2>2. k \in LineKinds
    BY DEF AmountKinds, LineKinds
  <2>3. SumIn(claims', Reserving', g, k) = SumIn(claims, Reserving, g, k) + KindOf(L[g], k)
        /\ SumIn(claims, Reserving, g, k) \in Int
    BY <1>12, <2>2
  <2>4. BoughtKind(g, k) \in Int
    BY BoughtAssumption DEF BoughtKind
  <2>5. CASE counts[g] = 0
    <3>1. SumIn(claims, Reserving, g, k) = BoughtKind(g, k)
      <4>1. SumIn(claims, Reserving, g, "count") = Bought[g].quantity
        BY <1>12, <2>1, <2>5 DEF LineKinds
      <4>2. QED BY <4>1 DEF FullIsExact
    <3>2. L[g] = NoLine
      BY <1>2, <1>3, <2>5, SharesAreInteger
    <3>3. KindOf(L[g], k) = 0
      BY <3>2 DEF KindOf, NoLine
    <3>4. QED BY <2>3, <3>1, <3>3
  <2>6. CASE counts[g] # 0
    <3>1. KindOf(L[g], k) = BoughtKind(g, k) - SumIn(claims, Reserving, g, k)
      BY <1>2, <1>3, <2>1, <2>6, SharesAreInteger
    <3>2. QED BY <2>3, <2>4, <3>1
  <2>7. QED BY <2>5, <2>6
<1>18. RepaidReserve'
  <2>1. \A d \in Claims : repayment'[d] = repayment[d]
    BY <1>9
  <2>2. repayment[c] = "NONE"
    BY <1>8 DEF RepaidReserve
  <2>3. QED BY <1>7, <2>1, <2>2 DEF RepaidReserve
<1>19. QED BY <1>10, <1>15, <1>16, <1>17, <1>18

\* A request that is rejected gives its quantities back, and its item is whole no more.
LEMMA RejectKeepsClaims ==
    ASSUME ClaimsInv, NEW c \in Claims, RejectClaim(c)
    PROVE  ClaimsInv'
<1> USE DEF ClaimsInv
<1>1. claims \in [Claims -> ClaimRecords] /\ Reserving \in SUBSET Claims
      /\ Approved \in SUBSET Claims
  BY DEF PostingTypeOK, Reserving, Approved
<1>2. /\ claims' \in [Claims -> ClaimRecords]
      /\ claims'[c].status = "REJECTED"
      /\ \A d \in Claims : claims'[d].lines = claims[d].lines
      /\ \A d \in Claims : d # c => claims'[d] = claims[d]
  <2>1. [claims[c] EXCEPT !.status = "REJECTED"] \in ClaimRecords
    BY <1>1 DEF ClaimRecords
  <2>2. claims' = [claims EXCEPT ![c] = [claims[c] EXCEPT !.status = "REJECTED"]]
    BY DEF RejectClaim
  <2>3. /\ [claims[c] EXCEPT !.status = "REJECTED"].status = "REJECTED"
        /\ [claims[c] EXCEPT !.status = "REJECTED"].lines = claims[c].lines
    BY <1>1 DEF ClaimRecords
  <2>4. QED BY <1>1, <2>1, <2>2, <2>3
<1>3. claims[c].status = "PENDING" /\ repayment[c] = "NONE"
      /\ UNCHANGED <<delivered, givenBack, repayment>>
  BY DEF RejectClaim
<1>4. PostingTypeOK'
  BY <1>2, <1>3 DEF PostingTypeOK
<1>5. c \in Reserving /\ Reserving' = Reserving \ {c} /\ Approved' = Approved
  BY <1>2, <1>3 DEF Reserving, Approved
<1>6. ASSUME NEW g \in Pieces, NEW k \in LineKinds
      PROVE  /\ SumIn(claims, Reserving, g, k)
                  = KindOf(claims[c].lines[g], k) + SumIn(claims', Reserving', g, k)
             /\ SumIn(claims', Approved', g, k) = SumIn(claims, Approved, g, k)
             /\ SumIn(claims', Reserving', g, k) \in Int
  <2>1. SumIn(claims, Reserving, g, k)
          = KindOf(claims[c].lines[g], k) + SumIn(claims, Reserving \ {c}, g, k)
    BY <1>1, <1>5, SumInLeaves
  <2>2. SumIn(claims', Reserving \ {c}, g, k) = SumIn(claims, Reserving \ {c}, g, k)
    <3> DEFINE R == Reserving \ {c}
    <3>1. R \in SUBSET Claims /\ \A d \in R : claims'[d].lines = claims[d].lines
      BY <1>1, <1>2
    <3> HIDE DEF R
    <3>2. SumIn(claims', R, g, k) = SumIn(claims, R, g, k)
      BY <1>1, <1>2, <3>1, SumInStays
    <3>3. QED BY <3>2 DEF R
  <2>3. SumIn(claims', Approved, g, k) = SumIn(claims, Approved, g, k)
    <3>1. \A d \in Approved : claims'[d].lines = claims[d].lines
      BY <1>1, <1>2
    <3> HIDE DEF Approved
    <3>2. QED BY <1>1, <1>2, <3>1, SumInStays
  <2>4. SumIn(claims', Reserving \ {c}, g, k) \in Int
    BY <1>1, <1>2, KindTypes
  <2>5. QED BY <1>5, <2>1, <2>2, <2>3, <2>4
<1>7. \A g \in Pieces : claims[c].lines[g].count \in Nat /\ KindOf(claims[c].lines[g], "count") = claims[c].lines[g].count
  BY <1>1 DEF KindOf, ClaimRecords, LineRecords
<1>8. \A g \in Pieces : Bought[g].quantity \in Nat
  BY BoughtAssumption
<1>9. CountsAgree'
  <2> SUFFICES ASSUME NEW g \in Pieces
               PROVE  /\ givenBack'[g] = SumIn(claims', Approved', g, "count")
                      /\ SumIn(claims', Reserving', g, "count") <= Bought[g].quantity
    BY DEF CountsAgree
  <2>1. /\ SumIn(claims, Reserving, g, "count")
             = claims[c].lines[g].count + SumIn(claims', Reserving', g, "count")
        /\ SumIn(claims', Approved', g, "count") = SumIn(claims, Approved, g, "count")
        /\ SumIn(claims', Reserving', g, "count") \in Int
    BY <1>6, <1>7 DEF LineKinds
  <2>2. givenBack'[g] = SumIn(claims, Approved, g, "count")
        /\ SumIn(claims, Reserving, g, "count") <= Bought[g].quantity
    BY <1>3 DEF CountsAgree
  <2>3. QED BY <1>7, <1>8, <2>1, <2>2
<1>10. EmptyLines'
  BY <1>2 DEF EmptyLines
<1>11. FullIsExact'
  <2> SUFFICES ASSUME NEW g \in Pieces,
                      SumIn(claims', Reserving', g, "count") = Bought[g].quantity,
                      NEW k \in AmountKinds
               PROVE  SumIn(claims', Reserving', g, k) = BoughtKind(g, k)
    BY DEF FullIsExact
  <2>1. SumIn(claims, Reserving, g, "count")
             = claims[c].lines[g].count + SumIn(claims', Reserving', g, "count")
    BY <1>6, <1>7 DEF LineKinds
  <2>2. claims[c].lines[g].count = 0 /\ SumIn(claims, Reserving, g, "count") = Bought[g].quantity
    BY <1>7, <1>8, <2>1 DEF CountsAgree
  <2>3. claims[c].lines[g] = NoLine
    BY <2>2 DEF EmptyLines
  <2>4. KindOf(claims[c].lines[g], k) = 0
    BY <2>3 DEF KindOf, NoLine
  <2>5. k \in LineKinds
    BY DEF AmountKinds, LineKinds
  <2>6. SumIn(claims, Reserving, g, k) = SumIn(claims', Reserving', g, k)
    BY <1>6, <2>4, <2>5
  <2>7. SumIn(claims, Reserving, g, k) = BoughtKind(g, k)
    BY <2>2 DEF FullIsExact
  <2>8. QED BY <2>6, <2>7
<1>12. RepaidReserve'
  <2>1. \A d \in Claims : repayment'[d] = repayment[d]
    BY <1>3
  <2>2. QED BY <1>2, <1>3, <2>1 DEF RepaidReserve
<1>13. QED BY <1>4, <1>9, <1>10, <1>11, <1>12

\* Approval moves quantities from the pending to what was given back.
LEMMA ApproveKeepsClaims ==
    ASSUME ClaimsInv, NEW c \in Claims, ApproveClaim(c)
    PROVE  ClaimsInv'
<1> USE DEF ClaimsInv
<1>1. claims \in [Claims -> ClaimRecords] /\ Reserving \in SUBSET Claims
      /\ Approved \in SUBSET Claims
  BY DEF PostingTypeOK, Reserving, Approved
<1>2. /\ claims' \in [Claims -> ClaimRecords]
      /\ claims'[c].status = "APPROVED"
      /\ \A d \in Claims : claims'[d].lines = claims[d].lines
      /\ \A d \in Claims : d # c => claims'[d] = claims[d]
  <2>1. [claims[c] EXCEPT !.status = "APPROVED"] \in ClaimRecords
    BY <1>1 DEF ClaimRecords
  <2>2. claims' = [claims EXCEPT ![c] = [claims[c] EXCEPT !.status = "APPROVED"]]
    BY DEF ApproveClaim
  <2>3. /\ [claims[c] EXCEPT !.status = "APPROVED"].status = "APPROVED"
        /\ [claims[c] EXCEPT !.status = "APPROVED"].lines = claims[c].lines
    BY <1>1 DEF ClaimRecords
  <2>4. QED BY <1>1, <2>1, <2>2, <2>3
<1>3. /\ claims[c].status = "PENDING" /\ repayment[c] \in {"WAITING", "COMPLETED"}
      /\ givenBack' = [g \in Pieces |-> givenBack[g] + claims[c].lines[g].count]
      /\ UNCHANGED <<delivered, repayment>>
  BY DEF ApproveClaim
<1>4. \A g \in Pieces : claims[c].lines[g].count \in Nat /\ KindOf(claims[c].lines[g], "count") = claims[c].lines[g].count
  BY <1>1 DEF KindOf, ClaimRecords, LineRecords
<1>5. PostingTypeOK'
  BY <1>2, <1>3, <1>4 DEF PostingTypeOK
<1>6. c \notin Approved /\ Reserving' = Reserving /\ Approved' = Approved \cup {c}
  BY <1>2, <1>3 DEF Reserving, Approved
<1>7. ASSUME NEW g \in Pieces, NEW k \in LineKinds
      PROVE  /\ SumIn(claims', Reserving', g, k) = SumIn(claims, Reserving, g, k)
             /\ SumIn(claims', Approved', g, k)
                  = SumIn(claims, Approved, g, k) + KindOf(claims[c].lines[g], k)
  <2>1. SumIn(claims', Reserving, g, k) = SumIn(claims, Reserving, g, k)
    <3>1. \A d \in Reserving : claims'[d].lines = claims[d].lines
      BY <1>1, <1>2
    <3> HIDE DEF Reserving
    <3>2. QED BY <1>1, <1>2, <3>1, SumInStays
  <2>2. SumIn(claims', Approved \cup {c}, g, k)
          = SumIn(claims, Approved, g, k) + KindOf(claims'[c].lines[g], k)
    <3> HIDE DEF Approved
    <3>1. QED BY <1>1, <1>2, <1>6, SumInJoins
  <2>3. KindOf(claims'[c].lines[g], k) = KindOf(claims[c].lines[g], k)
    BY <1>2
  <2>4. QED BY <1>6, <2>1, <2>2, <2>3
<1>8. CountsAgree'
  <2> SUFFICES ASSUME NEW g \in Pieces
               PROVE  /\ givenBack'[g] = SumIn(claims', Approved', g, "count")
                      /\ SumIn(claims', Reserving', g, "count") <= Bought[g].quantity
    BY DEF CountsAgree
  <2>1. /\ SumIn(claims', Reserving', g, "count") = SumIn(claims, Reserving, g, "count")
        /\ SumIn(claims', Approved', g, "count")
             = SumIn(claims, Approved, g, "count") + claims[c].lines[g].count
    BY <1>4, <1>7 DEF LineKinds
  <2>2. QED BY <1>3, <2>1 DEF CountsAgree
<1>9. EmptyLines'
  BY <1>2 DEF EmptyLines
<1>10. FullIsExact'
  <2> SUFFICES ASSUME NEW g \in Pieces,
                      SumIn(claims', Reserving', g, "count") = Bought[g].quantity,
                      NEW k \in AmountKinds
               PROVE  SumIn(claims', Reserving', g, k) = BoughtKind(g, k)
    BY DEF FullIsExact
  <2>1. k \in LineKinds /\ "count" \in LineKinds
    BY DEF AmountKinds, LineKinds
  <2>2. /\ SumIn(claims', Reserving', g, k) = SumIn(claims, Reserving, g, k)
        /\ SumIn(claims', Reserving', g, "count") = SumIn(claims, Reserving, g, "count")
    BY <1>7, <2>1
  <2>3. QED BY <2>2 DEF FullIsExact
<1>11. RepaidReserve'
  <2>1. \A d \in Claims : repayment'[d] = repayment[d]
    BY <1>3
  <2>2. QED BY <1>2, <1>3, <2>1 DEF RepaidReserve
<1>12. QED BY <1>5, <1>8, <1>9, <1>10, <1>11

\* A step that leaves requests and quantities alone and gives no request a refund
\* payment, unless it is pending.
LEMMA OtherStepsKeepClaims ==
    ASSUME ClaimsInv, UNCHANGED <<claims, givenBack>>, delivered' \in BOOLEAN,
           repayment' \in [Claims -> {"NONE", "WAITING", "COMPLETED", "FAILED"}],
           \A c \in Claims : \/ repayment'[c] = repayment[c]
                             \/ repayment'[c] # "NONE" /\ claims[c].status \in {"PENDING", "APPROVED"}
    PROVE  ClaimsInv'
<1> USE DEF ClaimsInv
<1>1. Reserving' = Reserving /\ Approved' = Approved
  BY DEF Reserving, Approved
<1>2. PostingTypeOK'
  BY DEF PostingTypeOK
<1>3. CountsAgree'
  BY <1>1 DEF CountsAgree
<1>4. EmptyLines'
  BY DEF EmptyLines
<1>5. FullIsExact'
  BY <1>1 DEF FullIsExact
<1>6. RepaidReserve'
  BY DEF RepaidReserve
<1>7. QED BY <1>2, <1>3, <1>4, <1>5, <1>6

\* What requests reserve stays within what was bought, what is given back is what
\* approved ones count, and requests that take all of an item take all it was worth.
THEOREM ClaimsInvHolds == PostingSpec => []ClaimsInv
<1>1. PostingInit => ClaimsInv
  <2> SUFFICES ASSUME PostingInit PROVE ClaimsInv
    OBVIOUS
  <2>1. claims = [c \in Claims |-> NoClaim] /\ delivered = FALSE
        /\ givenBack = [g \in Pieces |-> 0] /\ repayment = [c \in Claims |-> "NONE"]
    BY DEF PostingInit
  <2>2. NoClaim \in ClaimRecords /\ NoClaim.status = "NONE" /\ \A g \in Pieces : NoClaim.lines[g] = NoLine
    BY DEF NoClaim, NoLine, ClaimRecords, LineRecords
  <2>3. PostingTypeOK
    BY <2>1, <2>2 DEF PostingTypeOK
  <2>4. Reserving = {} /\ Approved = {}
    BY <2>1, <2>2 DEF Reserving, Approved
  <2>5. \A g \in Pieces, k \in LineKinds : SumIn(claims, {}, g, k) = 0
    BY SumOfNone DEF SumIn
  <2>6. \A g \in Pieces : Bought[g].quantity \in Nat \ {0}
    BY BoughtAssumption
  <2>7. CountsAgree
    BY <2>1, <2>4, <2>5, <2>6 DEF CountsAgree, LineKinds
  <2>8. EmptyLines
    BY <2>1, <2>2 DEF EmptyLines
  <2>9. FullIsExact
    BY <2>4, <2>5, <2>6 DEF FullIsExact, LineKinds
  <2>10. RepaidReserve
    BY <2>1, <2>2 DEF RepaidReserve
  <2>11. QED BY <2>3, <2>7, <2>8, <2>9, <2>10 DEF ClaimsInv
<1>2. ClaimsInv /\ [PostingNext]_postingVars => ClaimsInv'
  <2> SUFFICES ASSUME ClaimsInv, [PostingNext]_postingVars PROVE ClaimsInv'
    OBVIOUS
  <2>1. delivered \in BOOLEAN
        /\ repayment \in [Claims -> {"NONE", "WAITING", "COMPLETED", "FAILED"}]
    BY DEF ClaimsInv, PostingTypeOK
  <2>2. CASE CompletePurchase
    BY <2>1, <2>2, OtherStepsKeepClaims DEF CompletePurchase
  <2>3. ASSUME NEW c \in Claims, NEW counts \in PieceCounts, CreateClaim(c, counts) PROVE ClaimsInv'
    BY <2>3, CreateKeepsClaims
  <2>4. ASSUME NEW c \in Claims, RejectClaim(c) PROVE ClaimsInv'
    BY <2>4, RejectKeepsClaims
  <2>5. ASSUME NEW c \in Claims, CreateRepayment(c) PROVE ClaimsInv'
    BY <2>1, <2>5, OtherStepsKeepClaims DEF CreateRepayment
  <2>6. ASSUME NEW c \in Claims, ApproveClaim(c) PROVE ClaimsInv'
    BY <2>6, ApproveKeepsClaims
  <2>7. ASSUME NEW c \in Claims, RepaymentCompletes(c) PROVE ClaimsInv'
    <3>1. claims[c].status \in {"PENDING", "APPROVED"}
      BY <2>7 DEF RepaymentCompletes, ClaimsInv, RepaidReserve
    <3>2. QED BY <2>1, <2>7, <3>1, OtherStepsKeepClaims DEF RepaymentCompletes
  <2>8. ASSUME NEW c \in Claims, RepaymentFails(c) PROVE ClaimsInv'
    <3>1. claims[c].status \in {"PENDING", "APPROVED"}
      BY <2>8 DEF RepaymentFails, ClaimsInv, RepaidReserve
    <3>2. QED BY <2>1, <2>8, <3>1, OtherStepsKeepClaims DEF RepaymentFails
  <2>9. CASE UNCHANGED postingVars
    BY <2>1, <2>9, OtherStepsKeepClaims DEF postingVars
  <2>10. QED BY <2>2, <2>3, <2>4, <2>5, <2>6, <2>7, <2>8, <2>9 DEF PostingNext
<1>3. QED BY <1>1, <1>2, PTL DEF PostingSpec

-----------------------------------------------------------------------------
(* The rows.                                                                *)

\* Rows name their payment, and those of one payment differ in their status only.
LEMMA RowsNamePayment ==
    ASSUME NEW p, NEW status
    PROVE  /\ \A t \in RowsOf(p, status) : t.payment = p
           /\ \A o \in OrdersOf(p, status) : o.payment = p /\ o.target \in SellersOf(p)
           /\ \A other : \A t \in RowsOf(p, status) : \E u \in RowsOf(p, other) : SameKey(t, u)
<1>1. \A t \in RowsOf(p, status) : t.payment = p
  BY DEF RowsOf, Transaction
<1>2. \A o \in OrdersOf(p, status) : o.payment = p /\ o.target \in SellersOf(p)
  BY DEF OrdersOf, OrderOf
<1>3. ASSUME NEW other, NEW t \in RowsOf(p, status)
      PROVE  \E u \in RowsOf(p, other) : SameKey(t, u)
  <2>1. CASE \E s \in SellersOf(p) :
               t = Transaction(p, s, SellerSide(p), GrossOf(p, s), VatOf(p, s), status)
    <3>1. PICK s \in SellersOf(p) :
            t = Transaction(p, s, SellerSide(p), GrossOf(p, s), VatOf(p, s), status)
      BY <2>1
    <3>2. Transaction(p, s, SellerSide(p), GrossOf(p, s), VatOf(p, s), other) \in RowsOf(p, other)
      BY DEF RowsOf
    <3>3. SameKey(t, Transaction(p, s, SellerSide(p), GrossOf(p, s), VatOf(p, s), other))
      BY <3>1 DEF SameKey, Transaction
    <3>4. QED BY <3>2, <3>3
  <2>2. CASE t = Transaction(p, Buyer, BuyerSide(p), PaymentTotal(p), PaymentTax(p), status)
    <3>1. Transaction(p, Buyer, BuyerSide(p), PaymentTotal(p), PaymentTax(p), other) \in RowsOf(p, other)
      BY DEF RowsOf
    <3>2. SameKey(t, Transaction(p, Buyer, BuyerSide(p), PaymentTotal(p), PaymentTax(p), other))
      BY <2>2 DEF SameKey, Transaction
    <3>3. QED BY <3>1, <3>2
  <2>3. QED BY <2>1, <2>2 DEF RowsOf
<1>4. QED BY <1>1, <1>2, <1>3

\* What a payment posts depends on its lines only.
LEMMA RowsFollowLines ==
    ASSUME NEW p, NEW status, PostedLines(p)' = PostedLines(p)
    PROVE  /\ RowsOf(p, status)' = RowsOf(p, status)
           /\ OrdersOf(p, status)' = OrdersOf(p, status)
<1>1. SellersOf(p)' = SellersOf(p)
  BY DEF SellersOf
<1>2. \A s : ItemsOf(p, s)' = ItemsOf(p, s)
  BY DEF ItemsOf
<1>3. ASSUME NEW s PROVE GrossOf(p, s)' = GrossOf(p, s) /\ VatOf(p, s)' = VatOf(p, s)
  <2>1. /\ [g \in ItemsOf(p, s)' |-> PostedLines(p)'[g].total]
             = [g \in ItemsOf(p, s) |-> PostedLines(p)[g].total]
        /\ [g \in ItemsOf(p, s)' |-> PostedLines(p)'[g].tax]
             = [g \in ItemsOf(p, s) |-> PostedLines(p)[g].tax]
    BY <1>2
  <2>2. QED BY <2>1, Zenon DEF GrossOf, VatOf
<1>4. PaymentTotal(p)' = PaymentTotal(p) /\ PaymentTax(p)' = PaymentTax(p)
  BY Zenon DEF PaymentTotal, PaymentTax
<1>5. RowsOf(p, status)' = RowsOf(p, status)
  BY <1>1, <1>3, <1>4 DEF RowsOf, Transaction
<1>6. OrdersOf(p, status)' = OrdersOf(p, status)
  BY <1>1, <1>3 DEF OrdersOf, OrderOf
<1>7. QED BY <1>5, <1>6

\* The requests that have a refund payment keep their lines.
LEMMA PostedLinesStay ==
    ASSUME ClaimsInv, [PostingNext]_postingVars, NEW p \in PostedPayments
    PROVE  PostedLines(p)' = PostedLines(p)
<1>1. CASE p = ThePurchase
  BY <1>1 DEF PostedLines, ItemLine
<1>2. CASE p # ThePurchase
  <2>1. p \in Claims /\ repayment[p] # "NONE"
    BY <1>2 DEF PostedPayments, Payments, IsPosted
  <2>2. claims'[p].lines = claims[p].lines
    <3>1. claims \in [Claims -> ClaimRecords]
      BY DEF ClaimsInv, PostingTypeOK
    <3>2. claims[p].status # "NONE"
      BY <2>1 DEF ClaimsInv, RepaidReserve
    <3>3. ASSUME NEW c \in Claims, NEW counts \in PieceCounts, CreateClaim(c, counts)
          PROVE  claims'[p].lines = claims[p].lines
      <4>1. c # p
        BY <3>2, <3>3 DEF CreateClaim, NoClaim
      <4>2. QED BY <2>1, <3>1, <3>3, <4>1 DEF CreateClaim
    <3>4. ASSUME NEW c \in Claims, RejectClaim(c) \/ ApproveClaim(c)
          PROVE  claims'[p].lines = claims[p].lines
      <4>1. PICK status : claims' = [claims EXCEPT ![c].status = status]
        BY <3>4 DEF RejectClaim, ApproveClaim
      <4>2. QED BY <2>1, <3>1, <4>1 DEF ClaimRecords
    <3>5. CASE UNCHANGED claims
      BY <3>5
    <3>6. QED
      BY <3>3, <3>4, <3>5 DEF PostingNext, CompletePurchase, CreateRepayment, RepaymentCompletes,
                              RepaymentFails, postingVars
  <2>3. QED BY <1>2, <2>2 DEF PostedLines, ItemLine
<1>3. QED BY <1>1, <1>2

\* Posting a payment leaves the rows of the others and puts its own, with the status.
LEMMA PostReplaces ==
    ASSUME RowsArePosted, NEW p \in Payments, NEW status
    PROVE  /\ \A t : t \in Replaced(RowsOf(p, status))
                <=> \/ t \in RowsOf(p, status)
                    \/ \E q \in PostedPayments : q # p /\ t \in RowsOf(q, PostedAs(q))
           /\ \A o : o \in WithOrders(p, status)
                <=> \/ o \in OrdersOf(p, status)
                    \/ \E q \in PostedPayments : q # p /\ o \in OrdersOf(q, PostedAs(q))
<1>1. ASSUME NEW t
      PROVE  t \in Replaced(RowsOf(p, status))
               <=> \/ t \in RowsOf(p, status)
                   \/ \E q \in PostedPayments : q # p /\ t \in RowsOf(q, PostedAs(q))
  <2>1. ASSUME t \in Replaced(RowsOf(p, status)), t \notin RowsOf(p, status)
        PROVE  \E q \in PostedPayments : q # p /\ t \in RowsOf(q, PostedAs(q))
    <3>1. t \in transactions /\ ~ \E u \in RowsOf(p, status) : SameKey(t, u)
      BY <2>1 DEF Replaced
    <3>2. PICK q \in PostedPayments : t \in RowsOf(q, PostedAs(q))
      BY <3>1 DEF RowsArePosted
    <3>3. q # p
      BY <3>1, <3>2, RowsNamePayment
    <3>4. QED BY <3>2, <3>3
  <2>2. ASSUME NEW q \in PostedPayments, q # p, t \in RowsOf(q, PostedAs(q))
        PROVE  t \in Replaced(RowsOf(p, status))
    <3>1. t \in transactions
      BY <2>2 DEF RowsArePosted
    <3>2. t.payment = q /\ \A u \in RowsOf(p, status) : u.payment = p
      BY <2>2, RowsNamePayment
    <3>3. \A u \in RowsOf(p, status) : ~SameKey(t, u)
      BY <2>2, <3>2 DEF SameKey
    <3>4. QED BY <3>1, <3>3 DEF Replaced
  <2>3. t \in RowsOf(p, status) => t \in Replaced(RowsOf(p, status))
    BY DEF Replaced
  <2>4. QED BY <2>1, <2>2, <2>3
<1>2. ASSUME NEW o
      PROVE  o \in WithOrders(p, status)
               <=> \/ o \in OrdersOf(p, status)
                   \/ \E q \in PostedPayments : q # p /\ o \in OrdersOf(q, PostedAs(q))
  <2>1. \A w \in orders : w.payment = p
          => p \in PostedPayments /\ w \in OrdersOf(p, PostedAs(p))
    BY RowsNamePayment DEF RowsArePosted
  <2>2. \A s : [OrderOf(p, s, PostedAs(p)) EXCEPT !.status = status] = OrderOf(p, s, status)
    BY DEF OrderOf
  <2>3. ASSUME NEW w \in orders, w.payment = p
        PROVE  [w EXCEPT !.status = status] \in OrdersOf(p, status)
    <3>1. PICK s \in SellersOf(p) : w = OrderOf(p, s, PostedAs(p))
      BY <2>1, <2>3 DEF OrdersOf
    <3>2. [w EXCEPT !.status = status] = OrderOf(p, s, status)
      BY <2>2, <3>1
    <3>3. QED BY <3>2 DEF OrdersOf
  <2>4. ASSUME NEW s \in SellersOf(p)
        PROVE  OrderOf(p, s, status) \in WithOrders(p, status)
    <3>1. CASE \E w \in orders : w.payment = p /\ w.target = s
      <4>1. PICK w \in orders : w.payment = p /\ w.target = s
        BY <3>1
      <4>2. PICK r \in SellersOf(p) : w = OrderOf(p, r, PostedAs(p))
        BY <2>1, <4>1 DEF OrdersOf
      <4>3. r = s
        BY <4>1, <4>2 DEF OrderOf
      <4>4. [w EXCEPT !.status = status] = OrderOf(p, s, status)
        BY <2>2, <4>2, <4>3
      <4>5. [w EXCEPT !.status = status] \in WithOrders(p, status)
        BY <4>1 DEF WithOrders
      <4>6. QED BY <4>4, <4>5
    <3>2. CASE ~ \E w \in orders : w.payment = p /\ w.target = s
      BY <3>2 DEF WithOrders
    <3>3. QED BY <3>1, <3>2
  <2>5. ASSUME o \in WithOrders(p, status)
        PROVE  \/ o \in OrdersOf(p, status)
               \/ \E q \in PostedPayments : q # p /\ o \in OrdersOf(q, PostedAs(q))
    <3>1. CASE o \in orders /\ o.payment # p
      <4>1. PICK q \in PostedPayments : o \in OrdersOf(q, PostedAs(q))
        BY <3>1 DEF RowsArePosted
      <4>2. q # p
        BY <3>1, <4>1, RowsNamePayment
      <4>3. QED BY <4>1, <4>2
    <3>2. CASE \E w \in orders : w.payment = p /\ o = [w EXCEPT !.status = status]
      BY <2>3, <3>2
    <3>3. CASE \E s \in SellersOf(p) : o = OrderOf(p, s, status)
      BY <3>3 DEF OrdersOf
    <3>4. QED BY <2>5, <3>1, <3>2, <3>3 DEF WithOrders
  <2>6. ASSUME o \in OrdersOf(p, status) PROVE o \in WithOrders(p, status)
    BY <2>4, <2>6 DEF OrdersOf
  <2>7. ASSUME NEW q \in PostedPayments, q # p, o \in OrdersOf(q, PostedAs(q))
        PROVE  o \in WithOrders(p, status)
    <3>1. o \in orders /\ o.payment = q
      BY <2>7, RowsNamePayment DEF RowsArePosted
    <3>2. QED BY <2>7, <3>1 DEF WithOrders
  <2>8. QED BY <2>5, <2>6, <2>7
<1>3. QED BY <1>1, <1>2

\* A step that posts one payment, and one that posts none.
LEMMA PostingKeepsRows ==
    ASSUME ClaimsInv, RowsArePosted, [PostingNext]_postingVars,
           NEW p \in Payments, NEW status, PostedLines(p)' = PostedLines(p),
           \A t : t \in transactions'
                <=> \/ t \in RowsOf(p, status)
                    \/ \E q \in PostedPayments : q # p /\ t \in RowsOf(q, PostedAs(q)),
           \A o : o \in orders'
                <=> \/ o \in OrdersOf(p, status)
                    \/ \E q \in PostedPayments : q # p /\ o \in OrdersOf(q, PostedAs(q)),
           PostedPayments' = PostedPayments \cup {p}, PostedAs(p)' = status,
           \A q \in PostedPayments : q # p => PostedAs(q)' = PostedAs(q)
    PROVE  RowsArePosted'
<1>1. RowsOf(p, status)' = RowsOf(p, status) /\ OrdersOf(p, status)' = OrdersOf(p, status)
  BY RowsFollowLines
<1>2. ASSUME NEW q \in PostedPayments, NEW s
      PROVE  RowsOf(q, s)' = RowsOf(q, s) /\ OrdersOf(q, s)' = OrdersOf(q, s)
  BY PostedLinesStay, RowsFollowLines
<1>3. ASSUME NEW t, NEW o
      PROVE  /\ t \in transactions' <=> \E q \in PostedPayments' : t \in RowsOf(q, PostedAs(q))'
             /\ o \in orders' <=> \E q \in PostedPayments' : o \in OrdersOf(q, PostedAs(q))'
  <2>1. RowsOf(p, PostedAs(p))' = RowsOf(p, status) /\ OrdersOf(p, PostedAs(p))' = OrdersOf(p, status)
    BY <1>1
  <2>2. ASSUME NEW q \in PostedPayments, q # p
        PROVE  /\ RowsOf(q, PostedAs(q))' = RowsOf(q, PostedAs(q))
               /\ OrdersOf(q, PostedAs(q))' = OrdersOf(q, PostedAs(q))
    BY <1>2, <2>2
  <2>3. QED BY <2>1, <2>2
<1>4. QED BY <1>3 DEF RowsArePosted

\* A step that posts nothing keeps the tables, and what their rows stand for.
LEMMA OtherStepsKeepRows ==
    ASSUME ClaimsInv, RowsArePosted, [PostingNext]_postingVars, UNCHANGED <<transactions, orders>>,
           PostedPayments' = PostedPayments,
           \A q \in PostedPayments : PostedAs(q)' = PostedAs(q)
    PROVE  RowsArePosted'
<1>1. ASSUME NEW q \in PostedPayments
      PROVE  /\ RowsOf(q, PostedAs(q))' = RowsOf(q, PostedAs(q))
             /\ OrdersOf(q, PostedAs(q))' = OrdersOf(q, PostedAs(q))
  <2>1. PICK status : status = PostedAs(q)
    OBVIOUS
  <2>2. RowsOf(q, status)' = RowsOf(q, status) /\ OrdersOf(q, status)' = OrdersOf(q, status)
    BY PostedLinesStay, RowsFollowLines
  <2>3. QED BY <2>1, <2>2
<1>2. QED BY <1>1 DEF RowsArePosted

\* postPaymentOperation() and createRefundPayment(): the tables hold the rows of the
\* payments posted, with the status they were posted with last, and no other.
LEMMA RowsStayPosted ==
    ASSUME ClaimsInv, RowsArePosted, [PostingNext]_postingVars
    PROVE  RowsArePosted'
<1>1. /\ repayment \in [Claims -> {"NONE", "WAITING", "COMPLETED", "FAILED"}]
      /\ delivered \in BOOLEAN /\ ThePurchase \notin Claims
  BY BoughtAssumption DEF ClaimsInv, PostingTypeOK
<1>2. CASE CompletePurchase
  <2>1. /\ ~delivered /\ delivered' = TRUE /\ UNCHANGED repayment
        /\ orders' = WithOrders(ThePurchase, "COMPLETED")
        /\ transactions' = Replaced(RowsOf(ThePurchase, "COMPLETED"))
    BY <1>2 DEF CompletePurchase, Post
  <2>2. PostedPayments' = PostedPayments \cup {ThePurchase}
    BY <1>1, <2>1 DEF PostedPayments, Payments, IsPosted
  <2>3. \A q \in PostedPayments : q # ThePurchase => PostedAs(q)' = PostedAs(q)
    BY <2>1 DEF PostedAs
  <2>4. PostedAs(ThePurchase)' = "COMPLETED"
    BY DEF PostedAs
  <2>5. PostedLines(ThePurchase)' = PostedLines(ThePurchase) /\ ThePurchase \in Payments
    BY DEF PostedLines, ItemLine, Payments
  <2> HIDE DEF ThePurchase
  <2>6. QED BY <2>1, <2>2, <2>3, <2>4, <2>5, PostReplaces, PostingKeepsRows
<1>3. ASSUME NEW c \in Claims, CreateRepayment(c) PROVE RowsArePosted'
  <2>1. /\ repayment[c] = "NONE" /\ repayment' = [repayment EXCEPT ![c] = "WAITING"]
        /\ UNCHANGED <<delivered, claims>> /\ orders' = WithOrders(c, "WAITING")
        /\ transactions' = transactions \cup RowsOf(c, "WAITING")
    BY <1>3 DEF CreateRepayment
  <2>2. c # ThePurchase /\ c \in Payments
    BY <1>1 DEF Payments
  <2>3. c \notin PostedPayments /\ PostedPayments' = PostedPayments \cup {c}
    BY <1>1, <2>1, <2>2 DEF PostedPayments, Payments, IsPosted
  <2>4. \A q \in PostedPayments : q # c => PostedAs(q)' = PostedAs(q)
    BY <1>1, <2>1 DEF PostedAs, PostedPayments, Payments
  <2>5. PostedAs(c)' = "WAITING"
    BY <1>1, <2>1, <2>2 DEF PostedAs
  <2>6. PostedLines(c)' = PostedLines(c)
    BY <2>1 DEF PostedLines, ItemLine
  <2>7. \A t : t \in transactions'
          <=> \/ t \in RowsOf(c, "WAITING")
              \/ \E q \in PostedPayments : q # c /\ t \in RowsOf(q, PostedAs(q))
    BY <2>1, <2>3 DEF RowsArePosted
  <2>8. QED BY <2>1, <2>2, <2>3, <2>4, <2>5, <2>6, <2>7, PostReplaces, PostingKeepsRows
<1>4. ASSUME NEW c \in Claims, RepaymentCompletes(c) PROVE RowsArePosted'
  <2>1. /\ repayment[c] = "WAITING" /\ repayment' = [repayment EXCEPT ![c] = "COMPLETED"]
        /\ UNCHANGED <<delivered, claims>> /\ orders' = WithOrders(c, "COMPLETED")
        /\ transactions' = Replaced(RowsOf(c, "COMPLETED"))
    BY <1>4 DEF RepaymentCompletes, Post
  <2>2. c # ThePurchase /\ c \in Payments
    BY <1>1 DEF Payments
  <2>3. PostedPayments' = PostedPayments \cup {c}
    BY <1>1, <2>1, <2>2 DEF PostedPayments, Payments, IsPosted
  <2>4. \A q \in PostedPayments : q # c => PostedAs(q)' = PostedAs(q)
    BY <1>1, <2>1 DEF PostedAs, PostedPayments, Payments
  <2>5. PostedAs(c)' = "COMPLETED"
    BY <1>1, <2>1, <2>2 DEF PostedAs
  <2>6. PostedLines(c)' = PostedLines(c)
    BY <2>1 DEF PostedLines, ItemLine
  <2>7. QED BY <2>1, <2>2, <2>3, <2>4, <2>5, <2>6, PostReplaces, PostingKeepsRows
<1>5. ASSUME NEW c \in Claims, RepaymentFails(c) PROVE RowsArePosted'
  <2>1. /\ repayment[c] = "WAITING" /\ repayment' = [repayment EXCEPT ![c] = "FAILED"]
        /\ UNCHANGED <<delivered, transactions, orders>>
    BY <1>5 DEF RepaymentFails
  <2>2. PostedPayments' = PostedPayments
    BY <1>1, <2>1 DEF PostedPayments, Payments, IsPosted
  <2>3. \A q \in PostedPayments : PostedAs(q)' = PostedAs(q)
    BY <1>1, <2>1 DEF PostedAs, PostedPayments, Payments
  <2>4. QED BY <2>1, <2>2, <2>3, OtherStepsKeepRows
<1>6. ASSUME UNCHANGED <<delivered, repayment, transactions, orders>> PROVE RowsArePosted'
  <2>1. PostedPayments' = PostedPayments
    BY <1>6 DEF PostedPayments, IsPosted
  <2>2. \A q \in PostedPayments : PostedAs(q)' = PostedAs(q)
    BY <1>6 DEF PostedAs
  <2>3. QED BY <1>6, <2>1, <2>2, OtherStepsKeepRows
<1>7. CASE UNCHANGED postingVars
  BY <1>6, <1>7 DEF postingVars
<1>8. QED
  BY <1>2, <1>3, <1>4, <1>5, <1>6, <1>7 DEF PostingNext, CreateClaim, RejectClaim, ApproveClaim

\* So do the tables in every state: every row stands for a payment that was posted.
THEOREM PostingInvHolds == PostingSpec => []PostingInv
<1>1. PostingInit => RowsArePosted
  <2> SUFFICES ASSUME PostingInit PROVE RowsArePosted
    OBVIOUS
  <2>1. transactions = {} /\ orders = {} /\ PostedPayments = {}
    BY BoughtAssumption DEF PostingInit, PostedPayments, Payments, IsPosted
  <2>2. QED BY <2>1 DEF RowsArePosted
<1>2. ClaimsInv /\ RowsArePosted /\ [PostingNext]_postingVars => RowsArePosted'
  BY RowsStayPosted
<1>3. ClaimsInv /\ RowsArePosted => PostingInv
  BY DEF ClaimsInv, PostingInv
<1>4. QED BY <1>1, <1>2, <1>3, ClaimsInvHolds, PTL DEF PostingSpec

-----------------------------------------------------------------------------
(* What the rows add up to.                                                 *)

\* An item's amount in a payment, nothing where the payment has no line of it.
AmountsOf(p, k) ==
  [g \in Pieces |->
     LET line == IF p = ThePurchase THEN Bought[g] ELSE claims[p].lines[g]
     IN  IF k = "total" THEN line.total ELSE line.total - line.net]
RowKinds == {"total", "tax"}
PiecesOf(s) == {g \in Pieces : Bought[g].seller = s}
PostedOn(side) == {p \in PostedPayments : SellerSide(p) = side}

\* The lines of a payment say whose an item is and what it is worth there.
LEMMA LinesAre ==
    ASSUME ClaimsInv, NEW p \in Payments
    PROVE  /\ DOMAIN PostedLines(p) \in SUBSET Pieces
           /\ \A g \in DOMAIN PostedLines(p) :
                /\ PostedLines(p)[g].seller = Bought[g].seller
                /\ PostedLines(p)[g].total = AmountsOf(p, "total")[g]
                /\ PostedLines(p)[g].tax = AmountsOf(p, "tax")[g]
           /\ \A g \in Pieces, k \in RowKinds :
                /\ AmountsOf(p, k)[g] \in Int
                /\ g \notin DOMAIN PostedLines(p) => AmountsOf(p, k)[g] = 0
<1>1. CASE p = ThePurchase
  <2>1. PostedLines(p) = [g \in Pieces |-> ItemLine(g, Bought[g].total, Bought[g].net)]
    BY <1>1 DEF PostedLines
  <2>2. \A g \in Pieces : Bought[g].total \in Int /\ Bought[g].net \in Int
    BY BoughtAssumption
  <2>3. QED BY <1>1, <2>1, <2>2 DEF AmountsOf, ItemLine, RowKinds
<1>2. CASE p # ThePurchase
  <2> DEFINE D == {h \in Pieces : claims[p].lines[h].count # 0}
  <2>1. p \in Claims
    BY <1>2 DEF Payments
  <2>2. PostedLines(p) = [g \in D |-> ItemLine(g, claims[p].lines[g].total, claims[p].lines[g].net)]
    BY <1>2 DEF PostedLines
  <2>3. \A g \in Pieces : /\ claims[p].lines[g].total \in Int /\ claims[p].lines[g].net \in Int
                          /\ g \notin D => claims[p].lines[g] = NoLine
    BY <2>1 DEF ClaimsInv, PostingTypeOK, EmptyLines, ClaimRecords, LineRecords
  <2>4. \A g \in Pieces : /\ AmountsOf(p, "total")[g] = claims[p].lines[g].total
                          /\ AmountsOf(p, "tax")[g] = claims[p].lines[g].total - claims[p].lines[g].net
    BY <1>2 DEF AmountsOf
  <2>5. \A g \in D : ItemLine(g, claims[p].lines[g].total, claims[p].lines[g].net)
          = [seller |-> Bought[g].seller, total |-> claims[p].lines[g].total,
             tax |-> claims[p].lines[g].total - claims[p].lines[g].net]
    BY DEF ItemLine
  <2>6. D \in SUBSET Pieces
    OBVIOUS
  <2> HIDE DEF D
  <2>7. DOMAIN PostedLines(p) = D
        /\ \A g \in D : PostedLines(p)[g] = [seller |-> Bought[g].seller, total |-> claims[p].lines[g].total,
                                            tax |-> claims[p].lines[g].total - claims[p].lines[g].net]
    BY <2>2, <2>5
  <2>8. \A g \in D : /\ PostedLines(p)[g].seller = Bought[g].seller
                     /\ PostedLines(p)[g].total = AmountsOf(p, "total")[g]
                     /\ PostedLines(p)[g].tax = AmountsOf(p, "tax")[g]
    BY <2>4, <2>6, <2>7
  <2>9. ASSUME NEW g \in Pieces, NEW k \in RowKinds
        PROVE  /\ AmountsOf(p, k)[g] \in Int
               /\ g \notin D => AmountsOf(p, k)[g] = 0
    <3>1. CASE k = "total"
      BY <2>3, <2>4, <3>1 DEF NoLine
    <3>2. CASE k = "tax"
      BY <2>3, <2>4, <3>2 DEF NoLine
    <3>3. QED BY <3>1, <3>2 DEF RowKinds
  <2>10. QED BY <2>6, <2>7, <2>8, <2>9
<1>3. QED BY <1>1, <1>2

\* The sets that are summed over are finite.
LEMMA PaymentsAreFinite ==
    /\ IsFiniteSet(Pieces) /\ IsFiniteSet(Payments) /\ IsFiniteSet(PieceSellers)
    /\ \A s : PiecesOf(s) \in SUBSET Pieces /\ IsFiniteSet(PiecesOf(s))
    /\ \A side : PostedOn(side) \in SUBSET Payments /\ IsFiniteSet(PostedOn(side))
<1>1. IsFiniteSet(Pieces) /\ IsFiniteSet(Payments)
  BY BoughtAssumption, FS_AddElement DEF Payments
<1>2. IsFiniteSet(PieceSellers)
  <2> DEFINE m == [g \in Pieces |-> Bought[g].seller]
  <2>1. m \in Surjection(Pieces, PieceSellers)
    BY DEF Surjection, PieceSellers
  <2> HIDE DEF m
  <2>2. QED BY <1>1, <2>1, FS_Surjection
<1>3. ASSUME NEW s PROVE PiecesOf(s) \in SUBSET Pieces /\ IsFiniteSet(PiecesOf(s))
  BY <1>1, FS_Subset DEF PiecesOf
<1>4. ASSUME NEW side PROVE PostedOn(side) \in SUBSET Payments /\ IsFiniteSet(PostedOn(side))
  <2>1. PostedOn(side) \in SUBSET Payments
    BY DEF PostedOn, PostedPayments
  <2>2. QED BY <1>1, <2>1, FS_Subset
<1>5. QED BY <1>1, <1>2, <1>3, <1>4

\* A payment's rows add up its items' amounts.
LEMMA RowAmounts ==
    ASSUME ClaimsInv, NEW p \in Payments
    PROVE  /\ \A s : /\ GrossOf(p, s) = SumFunctionOnSet(AmountsOf(p, "total"), PiecesOf(s))
                     /\ VatOf(p, s) = SumFunctionOnSet(AmountsOf(p, "tax"), PiecesOf(s))
                     /\ GrossOf(p, s) \in Int /\ VatOf(p, s) \in Int
                     /\ s \notin SellersOf(p) => GrossOf(p, s) = 0 /\ VatOf(p, s) = 0
           /\ PaymentTotal(p) = SumFunctionOnSet(AmountsOf(p, "total"), Pieces)
           /\ PaymentTotal(p) \in Int
<1> DEFINE D == DOMAIN PostedLines(p)
           total == AmountsOf(p, "total")
           tax == AmountsOf(p, "tax")
<1>1. /\ D \in SUBSET Pieces
      /\ \A g \in D : /\ PostedLines(p)[g].seller = Bought[g].seller
                      /\ PostedLines(p)[g].total = total[g]
                      /\ PostedLines(p)[g].tax = tax[g]
      /\ \A g \in Pieces : /\ total[g] \in Int /\ tax[g] \in Int
                           /\ g \notin D => total[g] = 0 /\ tax[g] = 0
  BY LinesAre DEF RowKinds
<1>2. IsFiniteSet(Pieces)
  BY BoughtAssumption
<1>3. ASSUME NEW s
      PROVE  /\ ItemsOf(p, s) = D \cap PiecesOf(s)
             /\ ItemsOf(p, s) \in SUBSET PiecesOf(s)
             /\ s \notin SellersOf(p) => ItemsOf(p, s) = {}
  BY <1>1 DEF ItemsOf, PiecesOf, SellersOf
<1>4. ASSUME NEW s
      PROVE  /\ [g \in ItemsOf(p, s) |-> PostedLines(p)[g].total] = [g \in ItemsOf(p, s) |-> total[g]]
             /\ [g \in ItemsOf(p, s) |-> PostedLines(p)[g].tax] = [g \in ItemsOf(p, s) |-> tax[g]]
  <2>1. \A g \in ItemsOf(p, s) : g \in D
    BY DEF ItemsOf
  <2>2. QED BY <1>1, <2>1
<1>5. [g \in D |-> PostedLines(p)[g].total] = [g \in D |-> total[g]]
  BY <1>1
<1> HIDE DEF D, total, tax
<1>6. ASSUME NEW s
      PROVE  /\ GrossOf(p, s) = SumFunctionOnSet(total, PiecesOf(s))
             /\ GrossOf(p, s) \in Int
             /\ s \notin SellersOf(p) => GrossOf(p, s) = 0
  <2> DEFINE f == [g \in ItemsOf(p, s) |-> total[g]]
  <2>1. ItemsOf(p, s) \in SUBSET Pieces /\ PiecesOf(s) \in SUBSET Pieces
    BY <1>3 DEF PiecesOf
  <2>2. f = [g \in ItemsOf(p, s) |-> total[g]]
    OBVIOUS
  <2> HIDE DEF f
  <2>3. SumFunction(f) = SumFunctionOnSet(total, ItemsOf(p, s)) /\ SumFunction(f) \in Int
    <3> DEFINE items == ItemsOf(p, s)
    <3>1. items \in SUBSET Pieces /\ f = [g \in items |-> total[g]]
      BY <2>1, <2>2
    <3>2. \A g \in Pieces : total[g] \in Int
      BY <1>1
    <3> HIDE DEF items
    <3>3. SumFunction(f) = SumFunctionOnSet(total, items) /\ SumFunction(f) \in Int
      BY <1>2, <3>1, <3>2, SumOfField
    <3>4. QED BY <3>3 DEF items
  <2>4. GrossOf(p, s) = SumFunction(f)
    BY <1>4, <2>2, Zenon DEF GrossOf
  <2>5. SumFunctionOnSet(total, PiecesOf(s)) = SumFunctionOnSet(total, ItemsOf(p, s))
    <3>1. IsFiniteSet(PiecesOf(s)) /\ ItemsOf(p, s) \in SUBSET PiecesOf(s)
      BY <1>2, <1>3, <2>1, FS_Subset
    <3>2. \A g \in PiecesOf(s) : total[g] \in Int
      BY <1>1, <2>1
    <3>3. \A g \in PiecesOf(s) \ ItemsOf(p, s) : total[g] = 0
      BY <1>1, <1>3, <2>1
    <3>4. QED BY <3>1, <3>2, <3>3, SumOfNonZero
  <2>6. s \notin SellersOf(p) => SumFunctionOnSet(total, ItemsOf(p, s)) = 0
    BY <1>3, SumOfNone, Zenon
  <2>7. QED BY <2>3, <2>4, <2>5, <2>6
<1>7. ASSUME NEW s
      PROVE  /\ VatOf(p, s) = SumFunctionOnSet(tax, PiecesOf(s))
             /\ VatOf(p, s) \in Int
             /\ s \notin SellersOf(p) => VatOf(p, s) = 0
  <2> DEFINE f == [g \in ItemsOf(p, s) |-> tax[g]]
  <2>1. ItemsOf(p, s) \in SUBSET Pieces /\ PiecesOf(s) \in SUBSET Pieces
    BY <1>3 DEF PiecesOf
  <2>2. f = [g \in ItemsOf(p, s) |-> tax[g]]
    OBVIOUS
  <2> HIDE DEF f
  <2>3. SumFunction(f) = SumFunctionOnSet(tax, ItemsOf(p, s)) /\ SumFunction(f) \in Int
    <3> DEFINE items == ItemsOf(p, s)
    <3>1. items \in SUBSET Pieces /\ f = [g \in items |-> tax[g]]
      BY <2>1, <2>2
    <3>2. \A g \in Pieces : tax[g] \in Int
      BY <1>1
    <3> HIDE DEF items
    <3>3. SumFunction(f) = SumFunctionOnSet(tax, items) /\ SumFunction(f) \in Int
      BY <1>2, <3>1, <3>2, SumOfField
    <3>4. QED BY <3>3 DEF items
  <2>4. VatOf(p, s) = SumFunction(f)
    BY <1>4, <2>2, Zenon DEF VatOf
  <2>5. SumFunctionOnSet(tax, PiecesOf(s)) = SumFunctionOnSet(tax, ItemsOf(p, s))
    <3>1. IsFiniteSet(PiecesOf(s)) /\ ItemsOf(p, s) \in SUBSET PiecesOf(s)
      BY <1>2, <1>3, <2>1, FS_Subset
    <3>2. \A g \in PiecesOf(s) : tax[g] \in Int
      BY <1>1, <2>1
    <3>3. \A g \in PiecesOf(s) \ ItemsOf(p, s) : tax[g] = 0
      BY <1>1, <1>3, <2>1
    <3>4. QED BY <3>1, <3>2, <3>3, SumOfNonZero
  <2>6. s \notin SellersOf(p) => SumFunctionOnSet(tax, ItemsOf(p, s)) = 0
    BY <1>3, SumOfNone, Zenon
  <2>7. QED BY <2>3, <2>4, <2>5, <2>6
<1>8. PaymentTotal(p) = SumFunctionOnSet(total, Pieces) /\ PaymentTotal(p) \in Int
  <2> DEFINE f == [g \in D |-> total[g]]
  <2>1. f = [g \in D |-> total[g]]
    OBVIOUS
  <2> HIDE DEF f
  <2>2. SumFunction(f) = SumFunctionOnSet(total, D) /\ SumFunction(f) \in Int
    BY <1>1, <1>2, <2>1, SumOfField
  <2>3. PaymentTotal(p) = SumFunction(f)
    BY <1>5, <2>1, Zenon DEF PaymentTotal, D
  <2>4. SumFunctionOnSet(total, Pieces) = SumFunctionOnSet(total, D)
    BY <1>1, <1>2, SumOfNonZero
  <2>5. QED BY <2>2, <2>3, <2>4
<1>9. QED BY <1>6, <1>7, <1>8 DEF total, tax

\* A seller's items are those of the payment, over all sellers.
LEMMA SellersShareThePayment ==
    ASSUME ClaimsInv, NEW p \in Payments
    PROVE  SumFunctionOnSet([s \in PieceSellers |-> GrossOf(p, s)], PieceSellers) = PaymentTotal(p)
<1> DEFINE f == AmountsOf(p, "total")
           P == [s \in PieceSellers |-> PiecesOf(s)]
           h == [s \in PieceSellers |-> GrossOf(p, s)]
<1>1. IsFiniteSet(Pieces) /\ IsFiniteSet(PieceSellers)
  BY PaymentsAreFinite
<1>2. \A g \in Pieces : f[g] \in Int
  BY LinesAre DEF RowKinds
<1>3. /\ \A g \in Pieces : \E s \in PieceSellers : g \in P[s]
      /\ \A s \in PieceSellers : P[s] \subseteq Pieces
      /\ \A s \in PieceSellers, r \in PieceSellers, g \in Pieces : g \in P[s] /\ g \in P[r] => s = r
  BY DEF PieceSellers, PiecesOf
<1>4. \A s \in PieceSellers : h[s] = SumFunctionOnSet(f, P[s])
  BY RowAmounts
<1>5. PaymentTotal(p) = SumFunctionOnSet(f, Pieces)
  BY RowAmounts
<1> HIDE DEF f, P
<1>6. SumFunctionOnSet(h, PieceSellers) = SumFunctionOnSet(f, Pieces)
  <2> HIDE DEF h
  <2>1. QED BY <1>1, <1>2, <1>3, <1>4, SumByClass
<1>7. QED BY <1>5, <1>6

\* The table R has one row for every member of D, and h is what is added of its rows: of
\* each, the amount of its member.
OneRowEach(D, row, R, f, amount, h) ==
  /\ R = {row[p] : p \in D}
  /\ \A p \in D, q \in D : row[p] = row[q] => p = q
  /\ \A p \in D : amount[p] \in Int /\ f[row[p]] = amount[p]
  /\ h = [t \in R |-> f[t]]

\* Rows that each stand for a payment add up what the payments say.
LEMMA SumOfRows ==
    ASSUME NEW D, IsFiniteSet(D), NEW row, NEW R, NEW f, NEW amount, NEW h,
           OneRowEach(D, row, R, f, amount, h)
    PROVE  SumFunction(h) = SumFunctionOnSet(amount, D)
<1>1. /\ R = {row[p] : p \in D}
      /\ \A p \in D, q \in D : row[p] = row[q] => p = q
      /\ \A p \in D : amount[p] \in Int /\ f[row[p]] = amount[p]
      /\ h = [t \in R |-> f[t]]
  BY Zenon DEF OneRowEach
<1>2. \A t \in R : f[t] \in Int
  BY <1>1
<1> DEFINE k == [p \in D |-> f[row[p]]]
<1>3. SumFunctionOnSet(f, R) = SumFunctionOnSet(k, D) /\ IsFiniteSet(R)
  BY <1>1, <1>2, SumByImage
<1>4. \A p \in D : k[p] \in Int /\ k[p] = amount[p]
  BY <1>1
<1> HIDE DEF k
<1>5. SumFunctionOnSet(k, D) = SumFunctionOnSet(amount, D)
  BY <1>4, SumSame
<1>6. R \in SUBSET R
  OBVIOUS
<1>7. SumFunction(h) = SumFunctionOnSet(f, R)
  BY <1>1, <1>2, <1>3, <1>6, SumOfField
<1>8. QED BY <1>3, <1>5, <1>7

\* The rows of a seller on a side: one for every payment posted there that has items
\* of his.
LEMMA SellerRows ==
    ASSUME PostingInv, NEW s \in PieceSellers, NEW side \in {"CREDIT", "DEBIT"}
    PROVE  /\ Signed(s, side) = SumFunctionOnSet([p \in Payments |-> GrossOf(p, s)], PostedOn(side))
           /\ SignedTax(s, side) = SumFunctionOnSet([p \in Payments |-> VatOf(p, s)], PostedOn(side))
<1> DEFINE D == {p \in PostedOn(side) : s \in SellersOf(p)}
           row == [p \in D |-> Transaction(p, s, side, GrossOf(p, s), VatOf(p, s), PostedAs(p))]
           R == RowsUnder(s, side)
           gross == [p \in Payments |-> GrossOf(p, s)]
           vat == [p \in Payments |-> VatOf(p, s)]
<1>1. ClaimsInv /\ RowsArePosted
  BY DEF PostingInv, ClaimsInv
<1>2. D \in SUBSET PostedOn(side) /\ D \in SUBSET Payments /\ IsFiniteSet(D) /\ PostedOn(side) \in SUBSET Payments
      /\ IsFiniteSet(PostedOn(side))
  BY PaymentsAreFinite, FS_Subset
<1>3. s # Buyer
  BY BoughtAssumption DEF PieceSellers
<1>4. \A p \in D : p \in PostedPayments /\ SellerSide(p) = side /\ s \in SellersOf(p)
  BY DEF PostedOn
<1>5. R = {row[p] : p \in D}
  <2>1. ASSUME NEW t \in R PROVE \E p \in D : t = row[p]
    <3>1. t \in transactions /\ t.account = s /\ t.type = side
      BY DEF RowsUnder
    <3>2. PICK p \in PostedPayments : t \in RowsOf(p, PostedAs(p))
      BY <1>1, <3>1 DEF RowsArePosted
    <3>3. t # Transaction(p, Buyer, BuyerSide(p), PaymentTotal(p), PaymentTax(p), PostedAs(p))
      BY <1>3, <3>1 DEF Transaction
    <3>4. PICK r \in SellersOf(p) :
            t = Transaction(p, r, SellerSide(p), GrossOf(p, r), VatOf(p, r), PostedAs(p))
      BY <3>2, <3>3 DEF RowsOf
    <3>5. r = s /\ SellerSide(p) = side
      BY <3>1, <3>4 DEF Transaction
    <3>6. p \in D
      BY <3>4, <3>5 DEF PostedOn
    <3>7. row[p] = Transaction(p, s, side, GrossOf(p, s), VatOf(p, s), PostedAs(p))
      BY <3>6
    <3>8. QED BY <3>4, <3>5, <3>6, <3>7
  <2>2. ASSUME NEW p \in D PROVE row[p] \in R
    <3>1. row[p] = Transaction(p, s, SellerSide(p), GrossOf(p, s), VatOf(p, s), PostedAs(p))
      BY <1>4
    <3>2. row[p] \in RowsOf(p, PostedAs(p))
      BY <1>4, <3>1 DEF RowsOf
    <3>3. row[p] \in transactions
      BY <1>1, <1>4, <3>2 DEF RowsArePosted
    <3>4. row[p].account = s /\ row[p].type = side
      BY DEF Transaction
    <3>5. QED BY <3>3, <3>4 DEF RowsUnder
  <2> HIDE DEF D, row, R
  <2>3. QED BY <2>1, <2>2
<1>6. \A p \in D : /\ row[p].payment = p /\ row[p].total = GrossOf(p, s) /\ row[p].tax = VatOf(p, s)
  BY DEF Transaction
<1>7. \A p \in Payments : /\ GrossOf(p, s) \in Int /\ VatOf(p, s) \in Int
                          /\ gross[p] = GrossOf(p, s) /\ vat[p] = VatOf(p, s)
                          /\ s \notin SellersOf(p) => GrossOf(p, s) = 0 /\ VatOf(p, s) = 0
  BY <1>1, RowAmounts
<1>8. \A p \in PostedOn(side) : p \notin D => s \notin SellersOf(p)
  OBVIOUS
<1> HIDE DEF D, row, R, gross, vat
<1>9. \A p \in D, q \in D : row[p] = row[q] => p = q
  BY <1>6
<1>10. Signed(s, side) = SumFunctionOnSet(gross, D)
  <2> DEFINE f == [t \in R |-> t.total]
             h == [t \in R |-> f[t]]
  <2>1. \A p \in D : f[row[p]] = GrossOf(p, s)
    BY <1>5, <1>6
  <2>2. h = f /\ Signed(s, side) = SumFunction(f)
    BY DEF Signed, R
  <2>3. h = [t \in R |-> f[t]]
    OBVIOUS
  <2> HIDE DEF f, h
  <2>4. \A p \in D : gross[p] \in Int /\ f[row[p]] = gross[p]
    BY <1>2, <1>7, <2>1
  <2>5. OneRowEach(D, row, R, f, gross, h)
    BY <1>5, <1>9, <2>3, <2>4, Zenon DEF OneRowEach
  <2>6. SumFunction(h) = SumFunctionOnSet(gross, D)
    BY <1>2, <2>5, SumOfRows
  <2>7. QED BY <2>2, <2>6
<1>11. SignedTax(s, side) = SumFunctionOnSet(vat, D)
  <2> DEFINE f == [t \in R |-> t.tax]
             h == [t \in R |-> f[t]]
  <2>1. \A p \in D : f[row[p]] = VatOf(p, s)
    BY <1>5, <1>6
  <2>2. h = f /\ SignedTax(s, side) = SumFunction(f)
    BY DEF SignedTax, R
  <2>3. h = [t \in R |-> f[t]]
    OBVIOUS
  <2> HIDE DEF f, h
  <2>4. \A p \in D : vat[p] \in Int /\ f[row[p]] = vat[p]
    BY <1>2, <1>7, <2>1
  <2>5. OneRowEach(D, row, R, f, vat, h)
    BY <1>5, <1>9, <2>3, <2>4, Zenon DEF OneRowEach
  <2>6. SumFunction(h) = SumFunctionOnSet(vat, D)
    BY <1>2, <2>5, SumOfRows
  <2>7. QED BY <2>2, <2>6
<1>12. /\ \A p \in PostedOn(side) : gross[p] \in Int /\ vat[p] \in Int
       /\ \A p \in PostedOn(side) \ D : gross[p] = 0 /\ vat[p] = 0
  BY <1>2, <1>7, <1>8
<1>13. SumFunctionOnSet(gross, PostedOn(side)) = SumFunctionOnSet(gross, D)
  BY <1>2, <1>12, SumOfNonZero
<1>14. SumFunctionOnSet(vat, PostedOn(side)) = SumFunctionOnSet(vat, D)
  BY <1>2, <1>12, SumOfNonZero
<1>15. QED BY <1>10, <1>11, <1>13, <1>14 DEF gross, vat

\* Those of the buyer: one for every payment, on the other side.
LEMMA BuyerRows ==
    ASSUME PostingInv, NEW side \in {"CREDIT", "DEBIT"}, NEW other \in {"CREDIT", "DEBIT"}, other # side
    PROVE  Signed(Buyer, other) = SumFunctionOnSet([p \in Payments |-> PaymentTotal(p)], PostedOn(side))
<1> DEFINE D == PostedOn(side)
           row == [p \in D |-> Transaction(p, Buyer, other, PaymentTotal(p), PaymentTax(p), PostedAs(p))]
           R == RowsUnder(Buyer, other)
           amount == [p \in Payments |-> PaymentTotal(p)]
           f == [t \in R |-> t.total]
           h == [t \in R |-> f[t]]
<1>1. ClaimsInv /\ RowsArePosted
  BY DEF PostingInv, ClaimsInv
<1>2. D \in SUBSET Payments /\ IsFiniteSet(D)
  BY PaymentsAreFinite
<1>3. \A p \in Payments : BuyerSide(p) = other <=> SellerSide(p) = side
  BY DEF BuyerSide, SellerSide
<1>4. \A p : p \in D <=> p \in PostedPayments /\ BuyerSide(p) = other
  BY <1>2, <1>3 DEF PostedOn, PostedPayments
<1>5. R = {row[p] : p \in D}
  <2>1. ASSUME NEW t \in R PROVE \E p \in D : t = row[p]
    <3>1. t \in transactions /\ t.account = Buyer /\ t.type = other
      BY DEF RowsUnder
    <3>2. PICK p \in PostedPayments : t \in RowsOf(p, PostedAs(p))
      BY <1>1, <3>1 DEF RowsArePosted
    <3>3. ASSUME NEW r \in SellersOf(p) PROVE r # Buyer
      <4>1. p \in Payments
        BY DEF PostedPayments
      <4>2. PICK g \in DOMAIN PostedLines(p) : r = PostedLines(p)[g].seller
        BY DEF SellersOf
      <4>3. g \in Pieces /\ r = Bought[g].seller
        BY <1>1, <4>1, <4>2, LinesAre
      <4>4. QED BY <4>3, BoughtAssumption
    <3>4. \A r \in SellersOf(p) :
            t # Transaction(p, r, SellerSide(p), GrossOf(p, r), VatOf(p, r), PostedAs(p))
      BY <3>1, <3>3 DEF Transaction
    <3>5. t = Transaction(p, Buyer, BuyerSide(p), PaymentTotal(p), PaymentTax(p), PostedAs(p))
      BY <3>2, <3>4 DEF RowsOf
    <3>6. BuyerSide(p) = other
      BY <3>1, <3>5 DEF Transaction
    <3>7. p \in D
      BY <1>4, <3>6
    <3>8. row[p] = Transaction(p, Buyer, other, PaymentTotal(p), PaymentTax(p), PostedAs(p))
      BY <3>7
    <3>9. QED BY <3>5, <3>6, <3>7, <3>8
  <2>2. ASSUME NEW p \in D PROVE row[p] \in R
    <3>1. row[p] = Transaction(p, Buyer, BuyerSide(p), PaymentTotal(p), PaymentTax(p), PostedAs(p))
      BY <1>4
    <3>2. row[p] \in RowsOf(p, PostedAs(p))
      BY <3>1 DEF RowsOf
    <3>3. row[p] \in transactions
      BY <1>1, <1>4, <3>2 DEF RowsArePosted
    <3>4. row[p].account = Buyer /\ row[p].type = other
      BY DEF Transaction
    <3>5. QED BY <3>3, <3>4 DEF RowsUnder
  <2> HIDE DEF D, row, R
  <2>3. QED BY <2>1, <2>2
<1>6. \A p \in D : row[p].payment = p /\ row[p].total = PaymentTotal(p)
  BY DEF Transaction
<1>7. \A p \in Payments : PaymentTotal(p) \in Int /\ amount[p] = PaymentTotal(p)
  BY <1>1, RowAmounts
<1>8. h = f /\ Signed(Buyer, other) = SumFunction(f)
  BY DEF Signed
<1>9. h = [t \in R |-> f[t]]
  OBVIOUS
<1> HIDE DEF D, row, R, amount, h
<1>10. \A p \in D : f[row[p]] = PaymentTotal(p)
  BY <1>5, <1>6
<1> HIDE DEF f
<1>11. \A p \in D, q \in D : row[p] = row[q] => p = q
  BY <1>6
<1>12. \A p \in D : amount[p] \in Int /\ f[row[p]] = amount[p]
  BY <1>2, <1>7, <1>10
<1>13. OneRowEach(D, row, R, f, amount, h)
  BY <1>5, <1>9, <1>11, <1>12, Zenon DEF OneRowEach
<1>14. SumFunction(h) = SumFunctionOnSet(amount, D)
  BY <1>2, <1>13, SumOfRows
<1>15. QED BY <1>8, <1>14 DEF amount, D

\* What sellers are signed on a side, the buyer is signed on the other.
LEMMA SidesBalance ==
    ASSUME PostingInv, NEW side \in {"CREDIT", "DEBIT"}, NEW other \in {"CREDIT", "DEBIT"}, other # side
    PROVE  SumFunctionOnSet([s \in PieceSellers |-> Signed(s, side)], PieceSellers) = Signed(Buyer, other)
<1> DEFINE T == PostedOn(side)
           F == [s \in PieceSellers |-> [p \in Payments |-> GrossOf(p, s)]]
           bySeller == [s \in PieceSellers |-> SumFunctionOnSet(F[s], T)]
           byPayment == [p \in T |-> SumFunctionOnSet([s \in PieceSellers |-> F[s][p]], PieceSellers)]
           total == [p \in Payments |-> PaymentTotal(p)]
<1>1. ClaimsInv
  BY DEF PostingInv, ClaimsInv
<1>2. IsFiniteSet(PieceSellers) /\ IsFiniteSet(T) /\ T \in SUBSET Payments
  BY PaymentsAreFinite
<1>3. \A s \in PieceSellers, p \in T : F[s][p] = GrossOf(p, s) /\ F[s][p] \in Int
  BY <1>1, <1>2, RowAmounts
<1>4. SumFunctionOnSet(bySeller, PieceSellers) = SumFunctionOnSet(byPayment, T)
  <2> HIDE DEF T, F
  <2>1. QED BY <1>2, <1>3, SumExchange
<1>5. ASSUME NEW p \in T PROVE byPayment[p] = total[p] /\ total[p] \in Int
  <2>1. p \in Payments
    BY <1>2
  <2>2. [s \in PieceSellers |-> F[s][p]] = [s \in PieceSellers |-> GrossOf(p, s)]
    BY <1>3
  <2>3. byPayment[p] = SumFunctionOnSet([s \in PieceSellers |-> GrossOf(p, s)], PieceSellers)
    BY <2>2
  <2>4. byPayment[p] = PaymentTotal(p)
    BY <1>1, <2>1, <2>3, SellersShareThePayment
  <2>5. QED BY <1>1, <2>1, <2>4, RowAmounts
<1>6. SumFunctionOnSet(total, T) = SumFunctionOnSet(byPayment, T)
  <2> HIDE DEF T, total, byPayment
  <2>1. QED BY <1>2, <1>5, SumSame
<1>7. Signed(Buyer, other) = SumFunctionOnSet(total, T)
  BY BuyerRows
<1>8. bySeller = [s \in PieceSellers |-> Signed(s, side)]
  BY SellerRows
<1>9. QED BY <1>4, <1>6, <1>7, <1>8, Zenon

\* Once all of a seller's items are given back, the refunds posted add up to the sale.
LEMMA RefundsCoverSale ==
    ASSUME PostingInv, delivered, NEW s \in PieceSellers, AllGivenBack(s), NEW k \in RowKinds,
           NEW sums, \A p \in Payments : sums[p] = SumFunctionOnSet(AmountsOf(p, k), PiecesOf(s))
    PROVE  SumFunctionOnSet(sums, PostedOn("CREDIT")) = SumFunctionOnSet(sums, PostedOn("DEBIT"))
<1> DEFINE T == PostedOn("DEBIT")
           Ps == PiecesOf(s)
           sold == AmountsOf(ThePurchase, k)
           F == [p \in Payments |-> AmountsOf(p, k)]
           byPayment == [p \in T |-> SumFunctionOnSet(F[p], Ps)]
           col(g) == [p \in T |-> F[p][g]]
           byPiece == [g \in Ps |-> SumFunctionOnSet(col(g), T)]
<1>1. ClaimsInv
  BY DEF PostingInv, ClaimsInv
<1>2. /\ IsFiniteSet(T) /\ T \in SUBSET Payments /\ IsFiniteSet(Ps) /\ Ps \in SUBSET Pieces
      /\ ThePurchase \in Payments
  BY PaymentsAreFinite DEF Payments
<1>3. \A p \in Payments, g \in Pieces : AmountsOf(p, k)[g] \in Int
  BY <1>1, LinesAre
<1>4. PostedOn("CREDIT") = {ThePurchase}
  BY <1>2 DEF PostedOn, PostedPayments, Payments, IsPosted, SellerSide
<1>5. T \in SUBSET Reserving /\ Approved \subseteq T /\ T \in SUBSET Claims
  BY <1>1, BoughtAssumption
  DEF PostedOn, PostedPayments, Payments, IsPosted, SellerSide, Reserving, Approved, ClaimsInv,
      RepaidReserve
<1>6. SumFunctionOnSet(sums, PostedOn("CREDIT")) = SumFunctionOnSet(sold, Ps)
  <2>1. sums[ThePurchase] = SumFunctionOnSet(sold, Ps)
    BY <1>2
  <2>2. sums[ThePurchase] \in Int
    <3>1. \A g \in Ps : sold[g] \in Int
      BY <1>2, <1>3
    <3> HIDE DEF sold, Ps
    <3>2. QED BY <1>2, <2>1, <3>1, SumInt
  <2>3. SumFunctionOnSet(sums, {ThePurchase}) = sums[ThePurchase]
    BY <2>2, SumOfOne
  <2>4. QED BY <1>4, <2>1, <2>3, Zenon
<1>7. ASSUME NEW g \in Ps PROVE SumFunctionOnSet(col(g), T) = sold[g] /\ sold[g] \in Int
  <2>1. g \in Pieces /\ givenBack[g] = Bought[g].quantity
    BY <1>2 DEF AllGivenBack, PiecesOf
  <2>2. \A kind \in AmountKinds : SumIn(claims, T, g, kind) = BoughtKind(g, kind)
    <3> HIDE DEF T
    <3>1. QED BY <1>5, <2>1, AllOfIt
  <2> DEFINE total == KindOver(claims, g, "total")
             net == KindOver(claims, g, "net")
  <2>3. /\ SumFunctionOnSet(total, T) = Bought[g].total
        /\ SumFunctionOnSet(net, T) = Bought[g].net
    BY <2>2 DEF SumIn, AmountKinds, BoughtKind
  <2>4. \A p \in T : /\ total[p] = claims[p].lines[g].total /\ net[p] = claims[p].lines[g].net
                     /\ total[p] \in Int /\ net[p] \in Int
    BY <1>1, <1>5, <2>1, KindTypes DEF ClaimsInv, PostingTypeOK, LineKinds, KindOver, KindOf
  <2>5. \A p \in T : col(g)[p] = AmountsOf(p, k)[g] /\ col(g)[p] \in Int /\ p # ThePurchase
    BY <1>2, <1>3, <1>5, <2>1, BoughtAssumption
  <2>6. CASE k = "total"
    <3>1. \A p \in T : col(g)[p] = total[p]
      BY <2>1, <2>4, <2>5, <2>6 DEF AmountsOf
    <3>2. sold[g] = Bought[g].total /\ sold[g] \in Int
      BY <1>2, <1>3, <2>1, <2>6 DEF AmountsOf
    <3> HIDE DEF total, T, col, sold
    <3>3. SumFunctionOnSet(col(g), T) = SumFunctionOnSet(total, T)
      BY <1>2, <2>5, <3>1, SumSame
    <3>4. QED BY <2>3, <3>2, <3>3
  <2>7. CASE k = "tax"
    <3>1. \A p \in T : col(g)[p] = total[p] - net[p]
      BY <2>1, <2>4, <2>5, <2>7 DEF AmountsOf
    <3>2. sold[g] = Bought[g].total - Bought[g].net /\ sold[g] \in Int
      BY <1>2, <1>3, <2>1, <2>7 DEF AmountsOf
    <3> HIDE DEF total, net, T, col, sold
    <3>3. SumFunctionOnSet(col(g), T) = SumFunctionOnSet(total, T) - SumFunctionOnSet(net, T)
      BY <1>2, <2>4, <3>1, SumOfDifferences
    <3>4. QED BY <2>3, <3>2, <3>3
  <2>8. QED BY <2>6, <2>7 DEF RowKinds
<1>8. SumFunctionOnSet(byPayment, T) = SumFunctionOnSet(byPiece, Ps)
  <2>1. \A p \in T, g \in Ps : F[p][g] \in Int
    BY <1>2, <1>3
  <2> HIDE DEF T, Ps, F
  <2>2. QED BY <1>2, <2>1, SumExchange
<1>9. SumFunctionOnSet(sums, T) = SumFunctionOnSet(byPayment, T)
  <2>1. ASSUME NEW p \in T PROVE sums[p] = byPayment[p] /\ sums[p] \in Int
    <3>1. sums[p] = SumFunctionOnSet(F[p], Ps) /\ F[p] = AmountsOf(p, k)
      BY <1>2
    <3>2. \A g \in Ps : F[p][g] \in Int
      BY <1>2, <1>3, <3>1
    <3>3. SumFunctionOnSet(F[p], Ps) \in Int
      <4> HIDE DEF F, Ps
      <4>1. QED BY <1>2, <3>2, SumInt
    <3>4. QED BY <3>1, <3>3
  <2> HIDE DEF byPayment, T
  <2>2. QED BY <1>2, <2>1, SumSame
<1>10. SumFunctionOnSet(sold, Ps) = SumFunctionOnSet(byPiece, Ps)
  <2>1. \A g \in Ps : sold[g] \in Int /\ sold[g] = byPiece[g]
    BY <1>7
  <2> HIDE DEF sold, byPiece, Ps
  <2>2. QED BY <1>2, <2>1, SumSame
<1>11. QED BY <1>6, <1>8, <1>9, <1>10

\* The property follows: sums over rows are sums over payments, those are sums over
\* items, and of an item given back whole refunds return what it was sold for.
LEMMA PostingInvIsExact == PostingInv => RefundedExactly
<1> SUFFICES ASSUME PostingInv PROVE RefundedExactly
  OBVIOUS
<1>1. ClaimsInv /\ RowsArePosted
  BY DEF PostingInv, ClaimsInv
<1>2. ASSUME NEW s \in PieceSellers, delivered, AllGivenBack(s)
      PROVE  /\ Signed(s, "CREDIT") = Signed(s, "DEBIT")
             /\ SignedTax(s, "CREDIT") = SignedTax(s, "DEBIT")
  <2> DEFINE gross == [p \in Payments |-> GrossOf(p, s)]
             vat == [p \in Payments |-> VatOf(p, s)]
  <2>1. \A p \in Payments :
          /\ gross[p] = SumFunctionOnSet(AmountsOf(p, "total"), PiecesOf(s))
          /\ vat[p] = SumFunctionOnSet(AmountsOf(p, "tax"), PiecesOf(s))
    BY <1>1, RowAmounts
  <2>2. /\ Signed(s, "CREDIT") = SumFunctionOnSet(gross, PostedOn("CREDIT"))
        /\ Signed(s, "DEBIT") = SumFunctionOnSet(gross, PostedOn("DEBIT"))
        /\ SignedTax(s, "CREDIT") = SumFunctionOnSet(vat, PostedOn("CREDIT"))
        /\ SignedTax(s, "DEBIT") = SumFunctionOnSet(vat, PostedOn("DEBIT"))
    BY SellerRows
  <2> HIDE DEF gross, vat
  <2>3. SumFunctionOnSet(gross, PostedOn("CREDIT")) = SumFunctionOnSet(gross, PostedOn("DEBIT"))
    BY <1>2, <2>1, RefundsCoverSale DEF RowKinds
  <2>4. SumFunctionOnSet(vat, PostedOn("CREDIT")) = SumFunctionOnSet(vat, PostedOn("DEBIT"))
    BY <1>2, <2>1, RefundsCoverSale DEF RowKinds
  <2>5. QED BY <2>2, <2>3, <2>4
<1>3. ASSUME NEW g \in Pieces, givenBack[g] = Bought[g].quantity
      PROVE  Bought[g].fee = SumFunction([c \in Approved |-> claims[c].lines[g].fee])
  <2>1. Approved \in SUBSET Reserving /\ Approved \in SUBSET Claims
        /\ claims \in [Claims -> ClaimRecords]
    BY <1>1 DEF Approved, Reserving, ClaimsInv, PostingTypeOK
  <2> HIDE DEF Approved
  <2>2. SumIn(claims, Approved, g, "fee") = BoughtKind(g, "fee")
    BY <1>3, <2>1, AllOfIt DEF AmountKinds
  <2>3. SumFunction([c \in Approved |-> claims[c].lines[g].fee]) = SumIn(claims, Approved, g, "fee")
    BY <2>1, SumsIn
  <2>4. QED BY <2>2, <2>3 DEF BoughtKind
<1>4. Signed(Buyer, "DEBIT") - Signed(Buyer, "CREDIT")
        = SumFunction([s \in PieceSellers |-> Signed(s, "CREDIT") - Signed(s, "DEBIT")])
  <2> DEFINE credit == [s \in PieceSellers |-> Signed(s, "CREDIT")]
             debit == [s \in PieceSellers |-> Signed(s, "DEBIT")]
             rest == [s \in PieceSellers |-> Signed(s, "CREDIT") - Signed(s, "DEBIT")]
  <2>1. IsFiniteSet(PieceSellers)
    BY PaymentsAreFinite
  <2>2. ASSUME NEW s \in PieceSellers, NEW side \in {"CREDIT", "DEBIT"} PROVE Signed(s, side) \in Int
    <3> DEFINE gross == [p \in Payments |-> GrossOf(p, s)]
    <3>1. \A p \in PostedOn(side) : gross[p] \in Int
      BY <1>1, PaymentsAreFinite, RowAmounts
    <3>2. Signed(s, side) = SumFunctionOnSet(gross, PostedOn(side))
      BY SellerRows
    <3> HIDE DEF gross
    <3>3. QED BY <3>1, <3>2, PaymentsAreFinite, SumInt
  <2>3. \A s \in PieceSellers : credit[s] \in Int /\ debit[s] \in Int /\ rest[s] = credit[s] - debit[s]
    BY <2>2
  <2>4. /\ SumFunctionOnSet(credit, PieceSellers) = Signed(Buyer, "DEBIT")
        /\ SumFunctionOnSet(debit, PieceSellers) = Signed(Buyer, "CREDIT")
    BY SidesBalance
  <2>5. DOMAIN rest = PieceSellers
    OBVIOUS
  <2> HIDE DEF credit, debit
  <2>6. SumFunction(rest) = SumFunctionOnSet(rest, PieceSellers)
    BY <2>5, Zenon DEF SumFunction
  <2>7. SumFunctionOnSet(rest, PieceSellers)
          = SumFunctionOnSet(credit, PieceSellers) - SumFunctionOnSet(debit, PieceSellers)
    <3> HIDE DEF rest
    <3>1. QED BY <2>1, <2>3, SumOfDifferences
  <2>8. QED BY <2>4, <2>6, <2>7
<1>5. ASSUME NEW o \in orders
      PROVE  Transaction(o.payment, o.target, SellerSide(o.payment), o.total, o.tax, o.status) \in transactions
  <2>1. PICK p \in PostedPayments : o \in OrdersOf(p, PostedAs(p))
    BY <1>1 DEF RowsArePosted
  <2>2. PICK s \in SellersOf(p) : o = OrderOf(p, s, PostedAs(p))
    BY <2>1 DEF OrdersOf
  <2>3. Transaction(p, s, SellerSide(p), GrossOf(p, s), VatOf(p, s), PostedAs(p)) \in RowsOf(p, PostedAs(p))
    BY DEF RowsOf
  <2>4. o.payment = p /\ o.target = s /\ o.total = GrossOf(p, s) /\ o.tax = VatOf(p, s)
        /\ o.status = PostedAs(p)
    BY <2>2 DEF OrderOf
  <2>5. Transaction(p, s, SellerSide(p), GrossOf(p, s), VatOf(p, s), PostedAs(p)) \in transactions
    BY <1>1, <2>3 DEF RowsArePosted
  <2>6. QED BY <2>4, <2>5, Zenon
<1>6. QED BY <1>2, <1>3, <1>4, <1>5, Zenon DEF RefundedExactly, Approved

\* In whatever order requests for parts of an item are made, rejected, approved, paid
\* back and posted: a seller's account and tax come to nothing once all his items are
\* given back, the fee of such an item is given back, the buyer's account is the
\* sellers' turned round, and every order says what its account row says.
THEOREM RefundedExactlyHolds == PostingSpec => []RefundedExactly
  BY PostingInvHolds, PostingInvIsExact, PTL
=============================================================================
