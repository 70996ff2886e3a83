------------------------------ MODULE MCIyzico ------------------------------
(***************************************************************************)
(* Small Iyzico channels for TLC.  Checkout, refunds and sub-merchants     *)
(* keep separate rows and are checked one beside the other: a behaviour    *)
(* runs the part that is chosen at its start.                              *)
(***************************************************************************)
EXTENDS IyzicoCheckout, RefundSettlement, IyzicoSubMerchant, TLC

CONSTANTS r1, r2

VARIABLE part

\* A capture in full, the same of one line, a part payment, a third of a cent.
MCDetails ==
  {[total |-> 300, paid |-> 300, lines |-> <<100, 200>>],
   [total |-> 300, paid |-> 300, lines |-> <<300>>],
   [total |-> 300, paid |-> 200, lines |-> <<300>>],
   [total |-> 333, paid |-> 333, lines |-> <<333>>]}

\* Two refunds that fit the line as they are and not when both are rounded up.
MCPrice == <<400, 200>>
MCNominal == (r1 :> <<250, 200>>) @@ (r2 :> <<150, 0>>)

Source(kind, data) ==
  [kind |-> kind, limited |-> FALSE, deactivated |-> FALSE, complete |-> TRUE,
   eleven |-> TRUE, data |-> data]

\* A person before and after an edit, two companies, and an account that
\* cannot be mapped.
MCSources ==
  {Source("INDIVIDUAL", "a"), Source("INDIVIDUAL", "b"), Source("COMMERCIAL", "c"),
   [Source("COMMERCIAL", "d") EXCEPT !.limited = TRUE, !.eleven = FALSE],
   [Source("COMMERCIAL", "c") EXCEPT !.eleven = FALSE]}

IyzicoInit ==
  /\ part \in {"checkout", "refund", "merchant"}
  /\ CheckoutInit /\ SettlementInit /\ SubMerchantInit
  /\ part # "merchant" => account = Source("INDIVIDUAL", "a")

IyzicoNext ==
  /\ UNCHANGED part
  /\ \/ part = "checkout" /\ CheckoutNext /\ UNCHANGED <<allRefundVars, subMerchantVars>>
     \/ part = "refund" /\ SettlementNext /\ UNCHANGED <<checkoutVars, subMerchantVars>>
     \/ part = "merchant" /\ SubMerchantNext /\ UNCHANGED <<checkoutVars, allRefundVars>>

iyzicoVars == <<part, checkoutVars, allRefundVars, subMerchantVars>>

\* CheckoutFairness and SettlementFairness, each of its own part.
IyzicoFairness ==
  /\ \A c \in Callers :
       /\ WF_checkoutVars(part = "checkout" /\ CallStep(c))
       /\ SF_checkoutVars(part = "checkout" /\ BeginCheck(c, "check"))
  /\ \A c \in RefundCallers : WF_allRefundVars(part = "refund" /\ ChannelStep(c))
  /\ \A r \in Refunds :
       /\ SF_allRefundVars(part = "refund" /\ \E c \in RefundCallers : SendRefund(c, r))
       /\ WF_allRefundVars(part = "refund" /\ PollRefund(r))
       /\ SF_allRefundVars(part = "refund" /\ SaveCurrent(r))

IyzicoSpec == IyzicoInit /\ [][IyzicoNext]_iyzicoVars /\ IyzicoFairness
=============================================================================
