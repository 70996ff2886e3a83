-------------------------- MODULE MCPaymentLifecycle --------------------------
(***************************************************************************)
(* Small purchases for TLC.                                                  *)
(***************************************************************************)
EXTENDS PaymentLifecycle, TLC

Symmetry == Permutations(Ops) \cup Permutations(Workers)
===============================================================================
