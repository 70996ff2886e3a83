-------------------------- MODULE ChannelOperation --------------------------
(***************************************************************************)
(* What the payment service counts on when it asks a payment channel about *)
(* one operation: an operation opens WAITING, is resolved once, and every  *)
(* answer is the status it has at that moment.  The checkout of the Iyzico *)
(* channel is shown to implement this.                                     *)
(***************************************************************************)

CONSTANT Resolutions  \* the statuses in which an operation may end

VARIABLES status,     \* "NONE" before the operation exists
          told        \* the statuses the channel ever answered

channelVars == <<status, told>>

ChannelInit == status = "NONE" /\ told = {}

\* init: the operation is recorded.
Open == /\ status = "NONE"
        /\ status' = "WAITING"
        /\ UNCHANGED told

\* The provider decided, and the channel recorded what it decided.
Resolve == /\ status = "WAITING"
           /\ status' \in Resolutions
           /\ UNCHANGED told

\* An answer to init, check, fire or cancel.
Tell == /\ status # "NONE"
        /\ told' = told \union {status}
        /\ UNCHANGED status

ChannelNext == Open \/ Resolve \/ Tell

ChannelSpec == ChannelInit /\ [][ChannelNext]_channelVars
=============================================================================
