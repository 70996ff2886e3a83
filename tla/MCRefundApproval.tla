--------------------------- MODULE MCRefundApproval ---------------------------
(***************************************************************************)
(* Small purchases of one item, or of two with different prices, for TLC.    *)
(***************************************************************************)
EXTENDS RefundApproval, TLC

CONSTANTS book, pen

OneItem == {book}
OneItemPrice == (book :> 3)
OneItemSeller == (book :> "s1")

\* The item bought once, or twice.
Single == (book :> 1)
Pair == (book :> 2)

\* Each of two items bought once, at prices that do not divide evenly.
TwoItems == {book, pen}
TwoPrices == (book :> 2) @@ (pen :> 3)
TwoSellers == (book :> "s1") @@ (pen :> "s1")
OneOfEach == (book :> 1) @@ (pen :> 1)

\* The whole price, captured at once or in two halves.
SingleCapture == <<3>>
PairCaptures == <<3, 3>>

Symmetry == Permutations(Workers) \cup Permutations(Requests)
===============================================================================
