-------------------------- MODULE RefundSettlement --------------------------
(***************************************************************************)
(* The settlement of channel refunds in the payment service                *)
(* (payment-operation-management.service.ts, saveRefundSettlementRecord),  *)
(* composed with the Iyzico channel that refunds line by line.             *)
(*                                                                         *)
(* Answers of the channel stay in rAnswers: one may be saved by any poller *)
(* or handler, late and in any order.  The save is one transaction on the  *)
(* locked operation row; what it refuses throws and changes nothing.       *)
(***************************************************************************)
EXTENDS IyzicoRefund

CONSTANT MaxRedeliveries  \* bound: inits the broker delivers again

ASSUME SettlementAssumption == MaxRedeliveries \in Nat

VARIABLES record,     \* the PaymentChannelOperation row of the refund
          entries,    \* entries[r][i]: ledger pairs posted for a rounded line
          redeliveries

settlementVars == <<record, entries, redeliveries>>
allRefundVars == <<refundVars, settlementVars>>

NoRecord == [status |-> "NONE", known |-> FALSE, settled |-> {}]

SettlementInit ==
  /\ RefundInit
  /\ record = [r \in Refunds |-> NoRecord]
  /\ entries = [r \in Refunds |-> [i \in Lines |-> 0]]
  /\ redeliveries = 0

\* prepareRefundChannelPlan, then the operation is recorded with its plan
\* before anything is sent.
PrepareRefund(r) ==
  /\ record[r] = NoRecord
  /\ \E mode \in Modes : Prepare(r, mode)
  /\ record' = [record EXCEPT ![r].status = "WAITING"]
  /\ UNCHANGED <<entries, redeliveries>>

\* The channel receives init; the broker may deliver it again.
SendRefund(c, r) ==
  /\ record[r].status # "NONE"
  /\ ReserveRefund(c, r)
  /\ IF refund[r].state = "NONE" THEN UNCHANGED redeliveries
     ELSE redeliveries < MaxRedeliveries /\ redeliveries' = redeliveries + 1
  /\ UNCHANGED <<record, entries>>

\* A poller asks about a waiting operation whose channel id is recorded.
PollRefund(r) ==
  /\ record[r].status = "WAITING" /\ record[r].known
  /\ CheckRefund(r)
  /\ UNCHANGED settlementVars

Differs(r, i) == plan[r][i] # Nominal[r][i]

\* Mutant of Valid: an answer that repeats a settled line is refused.
ValidOnlyNew(r, a) ==
  /\ a.status = "COMPLETED" => a.settled = LinesOf(r)
  /\ record[r].settled \intersect a.settled = {}

\* What the transaction accepts: a well-formed answer that neither leaves
\* COMPLETED nor loses a settled line.
Valid(r, a) ==
  /\ a.status = "COMPLETED" => a.settled = LinesOf(r)
  /\ a.status = "FAILED" => a.settled = {}
  /\ record[r].status = "COMPLETED" => a.status = "COMPLETED"
  /\ record[r].settled \subseteq a.settled

\* Mutant of NewLines: every line of the answer is posted.
NewLinesAll(r, a) == a.settled

\* Lines that were settled before are skipped.
NewLines(r, a) == a.settled \ record[r].settled

SaveSettlement(r, a) ==
  /\ record[r].status # "NONE"
  /\ Valid(r, a)
  /\ record' = [record EXCEPT ![r] =
       [status |-> a.status, known |-> TRUE, settled |-> @.settled \union a.settled]]
  /\ entries' = [entries EXCEPT ![r] =
       [i \in Lines |-> IF i \in NewLines(r, a) /\ Differs(r, i)
                        THEN @[i] + 1 ELSE @[i]]]
  /\ UNCHANGED <<refundVars, redeliveries>>

\* Steps of the channel, which leave the payment service alone.
ChannelStep(c) == RefundCallStep(c) /\ UNCHANGED settlementVars

SettlementNext ==
  \/ \E r \in Refunds :
       \/ PrepareRefund(r)
       \/ PollRefund(r)
       \/ \E a \in rAnswers[r] : SaveSettlement(r, a)
       \/ \E c \in RefundCallers : SendRefund(c, r)
  \/ \E c \in RefundCallers :
       \/ ChannelStep(c)
       \/ RefundFault(c) /\ UNCHANGED settlementVars

\* The answer that says what the row says now.
SaveCurrent(r) ==
  \E a \in rAnswers[r] : /\ a.status = RefundStatus(r) /\ a.settled = Succeeded(r)
                         /\ SaveSettlement(r, a)

\* A call in progress ends (client calls time out after 20 s), an init is
\* delivered, and the poller asks and saves until the operation is resolved.
SettlementFairness ==
  /\ \A c \in RefundCallers : WF_allRefundVars(ChannelStep(c))
  /\ \A r \in Refunds :
       /\ SF_allRefundVars(\E c \in RefundCallers : SendRefund(c, r))
       /\ WF_allRefundVars(PollRefund(r))
       /\ SF_allRefundVars(SaveCurrent(r))

SettlementSpec ==
  SettlementInit /\ [][SettlementNext]_allRefundVars /\ SettlementFairness

-----------------------------------------------------------------------------
(* Properties                                                              *)

\* Types of the records and ledger entries, and of the channel.
SettlementTypeOK ==
  /\ RefundTypeOK
  /\ record \in [Refunds -> [status : {"NONE", "WAITING", "COMPLETED", "FAILED"},
                             known : BOOLEAN, settled : SUBSET Lines]]
  /\ entries \in [Refunds -> [Lines -> Nat]]
  /\ redeliveries \in 0..MaxRedeliveries

\* A rounding difference is posted once for every settled line, and for no
\* other, whatever order answers are saved in (saveRefundSettlementRecord).
RoundingPostedOnce ==
  \A r \in Refunds, i \in Lines :
    entries[r][i] = IF i \in record[r].settled /\ Differs(r, i) THEN 1 ELSE 0

\* What the payment service believes is what the provider did: every settled
\* line was paid back, a completed refund in full, a failed one not at all.
SettledIsPaidBack ==
  \A r \in Refunds :
    /\ record[r].settled \subseteq paidBack[r]
    /\ record[r].status = "COMPLETED" => paidBack[r] = LinesOf(r)
    /\ record[r].status = "FAILED" => paidBack[r] = {}

\* A completed refund operation stays completed and no settled line is lost
\* ("Completed channel refund cannot regress").
SettlementNeverRegresses ==
  [][\A r \in Refunds :
       /\ record[r].settled \subseteq record'[r].settled
       /\ record[r].status = "COMPLETED" => record'[r].status = "COMPLETED"]_allRefundVars

\* A recorded refund is resolved in the payment service, unless a call was
\* lost, the provider rejected a line behind one it executed, or the rounded
\* lines of earlier refunds leave too little of the capture.
RefundIsSettled ==
  \A r \in Refunds :
    (record[r].status = "WAITING") ~>
      \/ record[r].status \in {"COMPLETED", "FAILED"}
      \/ lostRefundCalls > 0
      \/ refund[r].state = "RECONCILIATION_REQUIRED" /\ paidBack[r] # {}
      \/ refund[r].state = "NONE" /\ ~FitsCapture(r)
=============================================================================
