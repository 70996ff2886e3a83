---------------------------- MODULE IyzicoRefund ----------------------------
(***************************************************************************)
(* Refunds of one captured Iyzico checkout, line by line                   *)
(* (apps/integration-iyzico, iyzico-refund.service.ts).  A refund is       *)
(* prepared (its amounts are rounded to what the provider accepts),        *)
(* reserved under a lock of the capture, claimed by one call, and then     *)
(* submitted one line after the other, never twice.                        *)
(*                                                                         *)
(* Amounts are integers of 1/10000; the provider takes multiples of 100.   *)
(* Lines are submitted in the order of their items, here numbers.          *)
(***************************************************************************)
EXTENDS Integers, FiniteSets, Functions

CONSTANTS Refunds,       \* refund operations of the payment service
          NumLines,      \* lines of the captured basket
          Price,         \* what was paid for each line
          Nominal,       \* Nominal[r][i]: what refund r gives back of line i
          RefundCallers, \* init calls that may be in progress at a time
          MaxLostRefundCalls  \* bound: provider calls that fail, and crashes

Lines == 1..NumLines
LinesOf(r) == {i \in Lines : Nominal[r][i] > 0}
Cent == 100

ASSUME RefundAssumption ==
  /\ IsFiniteSet(Refunds)
  /\ NumLines \in Nat /\ MaxLostRefundCalls \in Nat
  /\ Price \in [Lines -> Nat]
  /\ Nominal \in [Refunds -> [Lines -> Nat]]
  /\ \A r \in Refunds : LinesOf(r) # {}

VARIABLES plan,      \* plan[r][i]: the provider's amount, once prepared
          refund,    \* the IyzicoRefund row of r: its state and line states
          sent,      \* sent[r][i]: times the provider received the line
          paidBack,  \* paidBack[r]: lines the provider executed
          rcaller,   \* the init calls in progress
          rAnswers,  \* rAnswers[r]: what the payment service was answered
          lostRefundCalls

refundVars == <<plan, refund, sent, paidBack, rcaller, rAnswers, lostRefundCalls>>

Modes == {"ROUND", "FLOOR", "USE_FIRST_TWO", "THROW"}
RefundStates == {"NONE", "RESERVED", "SUBMITTING", "FINISHED", "RECONCILIATION_REQUIRED"}
LineStates == {"RESERVED", "SUBMITTING", "SUCCEEDED", "REJECTED", "RECONCILIATION_REQUIRED"}
RefundPoints == {"idle", "claim", "line", "send", "reply", "finish", "answer"}
RefundAnswers == [status : {"WAITING", "COMPLETED", "FAILED"}, settled : SUBSET Lines]

NoPlan == [i \in Lines |-> 0]
NoRefund == [state |-> "NONE", lines |-> [i \in Lines |-> "RESERVED"]]

-----------------------------------------------------------------------------
(* Rounding (refund-rounding.util.ts).  FLOOR rounds up, as configured.    *)

Rounded(amount, mode) ==
  CASE mode = "ROUND" -> ((amount + Cent \div 2) \div Cent) * Cent
    [] mode = "FLOOR" -> ((amount + Cent - 1) \div Cent) * Cent
    [] OTHER          -> (amount \div Cent) * Cent

\* A refund that rounds to nothing, or that THROW would have to round, is refused.
Accepted(amount, mode) ==
  /\ amount > 0 /\ Rounded(amount, mode) > 0
  /\ mode = "THROW" => amount % Cent = 0

-----------------------------------------------------------------------------
(* What a refund's row says (check)                                        *)

Succeeded(r) == {i \in LinesOf(r) : refund[r].lines[i] = "SUCCEEDED"}

RefundStatus(r) ==
  CASE refund[r].state = "NONE" -> "NONE"
    [] Succeeded(r) = LinesOf(r) -> "COMPLETED"
    [] /\ Succeeded(r) = {}
       /\ \E i \in LinesOf(r) : refund[r].lines[i] = "REJECTED" -> "FAILED"
    [] OTHER -> "WAITING"

Tells(r) == rAnswers' = [rAnswers EXCEPT ![r] =
              @ \union {[status |-> RefundStatus(r), settled |-> Succeeded(r)]}]

\* What earlier refunds of the line hold, whatever became of them.
Reserved == {r \in Refunds : refund[r].state # "NONE"}
HeldProvider(i) == SumFunctionOnSet([r \in Refunds |-> plan[r][i]], Reserved)
HeldNominal(i) == SumFunctionOnSet([r \in Refunds |-> Nominal[r][i]], Reserved)

-----------------------------------------------------------------------------

RefundInit ==
  /\ plan = [r \in Refunds |-> NoPlan]
  /\ refund = [r \in Refunds |-> NoRefund]
  /\ sent = [r \in Refunds |-> [i \in Lines |-> 0]]
  /\ paidBack = [r \in Refunds |-> {}]
  /\ rcaller = [c \in RefundCallers |-> [pc |-> "idle"]]
  /\ rAnswers = [r \in Refunds |-> {}]
  /\ lostRefundCalls = 0

AtPoint(c, p) == rcaller[c].pc = p
Ends(c) == rcaller' = [rcaller EXCEPT ![c] = [pc |-> "idle"]]
Moves(c, p) == rcaller' = [rcaller EXCEPT ![c].pc = p]
SetLine(r, i, s) == [refund EXCEPT ![r].lines[i] = s]

\* prepare: the plan is answered, and the payment service keeps it.
Prepare(r, mode) ==
  /\ plan[r] = NoPlan
  /\ \A i \in LinesOf(r) : Nominal[r][i] <= Price[i] /\ Accepted(Nominal[r][i], mode)
  /\ plan' = [plan EXCEPT ![r] =
                [i \in Lines |-> IF i \in LinesOf(r)
                                 THEN Rounded(Nominal[r][i], mode) ELSE 0]]
  /\ UNCHANGED <<refund, sent, paidBack, rcaller, rAnswers, lostRefundCalls>>

\* Mutant of FitsCapture: lines that are not known to have succeeded do not count.
FitsSucceeded(r) ==
  \A i \in LinesOf(r) :
    SumFunctionOnSet([x \in Refunds |-> plan[x][i]], {x \in Refunds : i \in Succeeded(x)})
      + plan[r][i] <= Price[i]

FitsCapture(r) ==
  \A i \in LinesOf(r) : /\ HeldProvider(i) + plan[r][i] <= Price[i]
                        /\ HeldNominal(i) + Nominal[r][i] <= Price[i]

\* initialize, the transaction: the row of the capture is locked, an existing
\* reservation is taken up, a new one must fit.
ReserveRefund(c, r) ==
  /\ AtPoint(c, "idle")
  /\ plan[r] # NoPlan
  /\ IF refund[r].state = "NONE"
     THEN /\ FitsCapture(r)
          /\ refund' = [refund EXCEPT ![r].state = "RESERVED"]
     ELSE UNCHANGED refund
  /\ rcaller' = [rcaller EXCEPT ![c] = [pc |-> "claim", refund |-> r]]
  /\ UNCHANGED <<plan, sent, paidBack, rAnswers, lostRefundCalls>>

Firsts(S) == {i \in S : \A j \in S : i <= j}

\* Mutant of Claimable: a call that finds the refund submitting takes it over.
ClaimableAgain(r) == refund[r].state \in {"RESERVED", "SUBMITTING"}

Claimable(r) == refund[r].state = "RESERVED"

\* update ... where state is RESERVED: one call submits, the others answer.
Claim(c) ==
  /\ AtPoint(c, "claim")
  /\ LET r == rcaller[c].refund IN
     IF Claimable(r)
     THEN /\ refund' = [refund EXCEPT ![r].state = "SUBMITTING"]
          /\ \E i \in Firsts(LinesOf(r)) :
               rcaller' = [rcaller EXCEPT ![c] = [pc |-> "line", refund |-> r, line |-> i]]
     ELSE UNCHANGED refund /\ Moves(c, "answer")
  /\ UNCHANGED <<plan, sent, paidBack, rAnswers, lostRefundCalls>>

MarkSubmitting(c) ==
  /\ AtPoint(c, "line")
  /\ refund' = SetLine(rcaller[c].refund, rcaller[c].line, "SUBMITTING")
  /\ Moves(c, "send")
  /\ UNCHANGED <<plan, sent, paidBack, rAnswers, lostRefundCalls>>

\* The provider receives the line, and executes or rejects it.
ProviderRefunds(c) ==
  /\ AtPoint(c, "send")
  /\ LET r == rcaller[c].refund
         i == rcaller[c].line
     IN /\ sent' = [sent EXCEPT ![r][i] = @ + 1]
        /\ \/ paidBack' = [paidBack EXCEPT ![r] = @ \union {i}]
           \/ UNCHANGED paidBack
  /\ Moves(c, "reply")
  /\ UNCHANGED <<plan, refund, rAnswers, lostRefundCalls>>

Executed(c) == rcaller[c].line \in paidBack[rcaller[c].refund]

\* The next line of the refund, or its end.
AfterLine(c) ==
  LET left == {i \in LinesOf(rcaller[c].refund) : i > rcaller[c].line}
  IN \/ left = {} /\ Moves(c, "finish")
     \/ \E i \in Firsts(left) : rcaller' = [rcaller EXCEPT ![c].pc = "line", ![c].line = i]

SaveSuccess(c) ==
  /\ AtPoint(c, "reply") /\ Executed(c)
  /\ refund' = SetLine(rcaller[c].refund, rcaller[c].line, "SUCCEEDED")
  /\ AfterLine(c)
  /\ UNCHANGED <<plan, sent, paidBack, rAnswers, lostRefundCalls>>

\* Mutant of AfterFailure: the lines behind the failed one are still sent.
GoOnAfterFailure(c) == AfterLine(c)

\* A line that fails stops the refund.
AfterFailure(c) == Moves(c, "answer")

LineFails(c, lineState) ==
  LET r == rcaller[c].refund IN
  /\ refund' = [refund EXCEPT ![r].lines[rcaller[c].line] = lineState,
                              ![r].state = "RECONCILIATION_REQUIRED"]
  /\ AfterFailure(c)
  /\ UNCHANGED <<plan, sent, paidBack, rAnswers>>

SaveRejection(c) ==
  /\ AtPoint(c, "reply") /\ ~Executed(c)
  /\ LineFails(c, "REJECTED")
  /\ UNCHANGED lostRefundCalls

\* No valid answer, or an answer that could not be saved: whether the line was
\* executed is not known.
LineIsAmbiguous(c) ==
  /\ AtPoint(c, "send") \/ AtPoint(c, "reply")
  /\ lostRefundCalls < MaxLostRefundCalls
  /\ lostRefundCalls' = lostRefundCalls + 1
  /\ LineFails(c, "RECONCILIATION_REQUIRED")

Finish(c) ==
  /\ AtPoint(c, "finish")
  /\ refund' = [refund EXCEPT ![rcaller[c].refund].state = "FINISHED"]
  /\ Moves(c, "answer")
  /\ UNCHANGED <<plan, sent, paidBack, rAnswers, lostRefundCalls>>

AnswerRefund(c) ==
  /\ AtPoint(c, "answer")
  /\ Tells(rcaller[c].refund)
  /\ Ends(c)
  /\ UNCHANGED <<plan, refund, sent, paidBack, lostRefundCalls>>

\* check: the row is read and answered.
CheckRefund(r) ==
  /\ refund[r].state # "NONE"
  /\ Tells(r)
  /\ UNCHANGED <<plan, refund, sent, paidBack, rcaller, lostRefundCalls>>

\* The process dies, or the payment service has stopped waiting.
RefundCallDies(c) ==
  /\ ~AtPoint(c, "idle")
  /\ lostRefundCalls < MaxLostRefundCalls
  /\ lostRefundCalls' = lostRefundCalls + 1
  /\ Ends(c)
  /\ UNCHANGED <<plan, refund, sent, paidBack, rAnswers>>

\* The steps of a call that has begun, other than its failing.
RefundCallStep(c) ==
  \/ Claim(c) \/ MarkSubmitting(c) \/ ProviderRefunds(c)
  \/ SaveSuccess(c) \/ SaveRejection(c) \/ Finish(c) \/ AnswerRefund(c)

RefundFault(c) == LineIsAmbiguous(c) \/ RefundCallDies(c)

-----------------------------------------------------------------------------
(* Properties                                                              *)

RefundCallerStates ==
  [pc : {"idle"}] \union [pc : {"claim", "answer"}, refund : Refunds]
    \union [pc : {"line", "send", "reply", "finish", "answer"},
            refund : Refunds, line : Lines]

\* Types of the plans, the rows and the calls of Iyzico refunds.
RefundTypeOK ==
  /\ plan \in [Refunds -> [Lines -> Nat]]
  /\ refund \in [Refunds -> [state : RefundStates, lines : [Lines -> LineStates]]]
  /\ sent \in [Refunds -> [Lines -> Nat]]
  /\ paidBack \in [Refunds -> SUBSET Lines]
  /\ rcaller \in [RefundCallers -> RefundCallerStates]
  /\ rAnswers \in [Refunds -> SUBSET RefundAnswers]
  /\ lostRefundCalls \in 0..MaxLostRefundCalls

\* The provider never receives a line of a refund twice, however often init
\* is called again (initialize: reservation and claim).
LineSentOnce == \A r \in Refunds, i \in Lines : sent[r][i] <= 1

\* What the provider gave back of a line is never more than was paid for it,
\* in lines whose outcome is unknown too (initialize: reserved capacity).
NeverOverRefunded ==
  \A i \in Lines :
    SumFunctionOnSet([r \in Refunds |-> plan[r][i]], {r \in Refunds : i \in paidBack[r]})
      <= Price[i]
=============================================================================
