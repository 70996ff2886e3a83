----------------------------- MODULE InvoiceDesk -----------------------------
(* Invoices of seller payment orders: invoice.service.ts, its controller, and *)
(* the consumer that copies the number of invoices, and whether one of them   *)
(* is finalized, onto the order (payment-microservice.controller.ts,          *)
(* seller-payment-order.service.ts).                                          *)
(*                                                                            *)
(* A request is a sequence of awaited database calls and several requests may *)
(* run at once.  What the order is told is counted by a call of its own after *)
(* the change, travels over the broker, and replaces what the order held.     *)
EXTENDS Naturals, Sequences, FiniteSets

CONSTANTS InvoiceIds,     \* invoice rows that can be created
          DeskOrders,     \* seller payment orders
          DeskCalls,      \* requests under way at the same time
          NoInvoice,      \* the invoice of an idle request
          MaxInvoiceCalls \* bound: requests ever started

ASSUME DeskBoundNat == MaxInvoiceCalls \in Nat

VARIABLES invoices,   \* invoice |-> "none", "draft", "final" or "removed"
          orderOf,    \* invoice |-> the order it was created for
          orderRow,   \* order |-> the invoiceCount and hasFinalizedInvoice it holds
          desk,       \* request |-> what it does, to which invoice, how far it is
          counting,   \* emitInvoiceUpdatedEvent calls under way
          wire,       \* events on 'postral/invoice-updated'
          served,     \* requests started so far
          overlapped  \* two requests, or a request and a count, were ever under way at once

deskVars == <<invoices, orderOf, orderRow, desk, counting, wire, served, overlapped>>

NoRequest == [at |-> "idle", kind |-> "none", invoice |-> NoInvoice, no |-> 0]
Present == {i \in InvoiceIds : invoices[i] \in {"draft", "final"}}
InvoicesOf(o) == {i \in Present : orderOf[i] = o}
HasFinal(o) == \E i \in InvoicesOf(o) : invoices[i] = "final"

DeskInit ==
  /\ invoices = [i \in InvoiceIds |-> "none"]
  /\ orderOf \in [InvoiceIds -> DeskOrders]
  /\ orderRow = [o \in DeskOrders |-> [count |-> 0, final |-> FALSE]]
  /\ desk = [c \in DeskCalls |-> NoRequest]
  /\ counting = {}
  /\ wire = <<>>
  /\ served = 0
  /\ overlapped = FALSE

Free(c) == desk[c].at = "idle"
Goto(c, at) == desk' = [desk EXCEPT ![c].at = at]
Done(c) == desk' = [desk EXCEPT ![c] = NoRequest]

-----------------------------------------------------------------------------
(* A request arrives.  create and createFromTransaction start at the insert,  *)
(* the others with the load of the row.                                       *)
Arrive(c, kind, i) ==
  /\ Free(c)
  /\ served < MaxInvoiceCalls
  /\ IF kind = "create"
       THEN invoices[i] = "none" /\ \A d \in DeskCalls : desk[d].invoice # i
       ELSE invoices[i] # "none"
  /\ desk' = [desk EXCEPT ![c] =
                [at |-> kind, kind |-> kind, invoice |-> i, no |-> served + 1]]
  /\ served' = served + 1
  /\ overlapped' = (overlapped \/ counting # {} \/ \E d \in DeskCalls : ~Free(d))
  /\ UNCHANGED <<invoices, orderOf, orderRow, counting, wire>>

(* create, delete and finalize announce a change.  AnnouncingNoDelete is a     *)
(* mutant: a removal goes unannounced.                                        *)
AnnouncingNoDelete == {"create", "finalize"}
Announcing == {"create", "delete", "finalize"}

(* The count is started after the change; create and delete await it, finalize *)
(* does not.                                                                  *)
StartCount(c, i) ==
  counting' = IF desk[c].kind \in Announcing
                THEN counting \cup {[no |-> desk[c].no, order |-> orderOf[i], at |-> "find"]}
                ELSE counting
AwaitCount(c) ==
  IF desk[c].kind \in Announcing THEN Goto(c, "counting") ELSE Done(c)

Create(c) ==
  /\ desk[c].at = "create"
  /\ LET i == desk[c].invoice IN
       /\ invoices' = [invoices EXCEPT ![i] = "draft"]
       /\ StartCount(c, i)
  /\ AwaitCount(c)
  /\ UNCHANGED <<orderOf, orderRow, wire, served, overlapped>>

(* update and delete refuse a row that is missing or finalized, as loaded.    *)
Load(c) ==
  /\ desk[c].at \in {"update", "delete"}
  /\ IF invoices[desk[c].invoice] = "draft"
       THEN Goto(c, IF desk[c].kind = "update" THEN "save" ELSE "remove")
       ELSE Done(c)
  /\ UNCHANGED <<invoices, orderOf, orderRow, counting, wire, served, overlapped>>

(* The save writes the row as loaded, finalized = FALSE with it; a row that   *)
(* is gone is inserted again.                                                 *)
SaveUpdate(c) ==
  /\ desk[c].at = "save"
  /\ invoices' = [invoices EXCEPT ![desk[c].invoice] = "draft"]
  /\ Done(c)
  /\ UNCHANGED <<orderOf, orderRow, counting, wire, served, overlapped>>

(* delete removes what it loaded, whatever became of it since.                *)
RemoveInvoice(c) ==
  /\ desk[c].at = "remove"
  /\ LET i == desk[c].invoice IN
       /\ invoices' = [invoices EXCEPT ![i] = "removed"]
       /\ StartCount(c, i)
  /\ AwaitCount(c)
  /\ UNCHANGED <<orderOf, orderRow, wire, served, overlapped>>

-----------------------------------------------------------------------------
(* finalize runs in a transaction.  The row read in it decides; the update is *)
(* written and the event's count started, by another connection, before the   *)
(* transaction commits.                                                       *)
LoadToFinalize(c) ==
  /\ desk[c].at = "finalize"
  /\ IF invoices[desk[c].invoice] = "draft" THEN Goto(c, "write final") ELSE Done(c)
  /\ UNCHANGED <<invoices, orderOf, orderRow, counting, wire, served, overlapped>>

WriteFinal(c) ==
  /\ desk[c].at = "write final"
  /\ StartCount(c, desk[c].invoice)
  /\ Goto(c, "commit")
  /\ UNCHANGED <<invoices, orderOf, orderRow, wire, served, overlapped>>

(* The update of a row removed meanwhile finds nothing to change.             *)
CommitFinal(c) ==
  /\ desk[c].at = "commit"
  /\ LET i == desk[c].invoice IN
       invoices' = [invoices EXCEPT ![i] = IF i \in Present THEN "final" ELSE @]
  /\ Done(c)
  /\ UNCHANGED <<orderOf, orderRow, counting, wire, served, overlapped>>

-----------------------------------------------------------------------------
(* emitInvoiceUpdatedEvent: the find, then the emit with what it counted.     *)
FindInvoices(e) ==
  /\ e \in counting /\ e.at = "find"
  /\ counting' = (counting \ {e}) \cup
       {[no |-> e.no, order |-> e.order, at |-> "emit",
         row |-> [count |-> Cardinality(InvoicesOf(e.order)), final |-> HasFinal(e.order)]]}
  /\ UNCHANGED <<invoices, orderOf, orderRow, desk, wire, served, overlapped>>

EmitUpdated(e) ==
  /\ e \in counting /\ e.at = "emit"
  /\ counting' = counting \ {e}
  /\ wire' = Append(wire, [order |-> e.order, row |-> e.row])
  /\ desk' = [c \in DeskCalls |->
                IF desk[c].at = "counting" /\ desk[c].no = e.no THEN NoRequest ELSE desk[c]]
  /\ UNCHANGED <<invoices, orderOf, orderRow, served, overlapped>>

(* handleInvoiceUpdated replaces both columns of the order.                   *)
HandleInvoiceUpdated ==
  /\ wire # <<>>
  /\ orderRow' = [orderRow EXCEPT ![Head(wire).order] = Head(wire).row]
  /\ wire' = Tail(wire)
  /\ UNCHANGED <<invoices, orderOf, desk, counting, served, overlapped>>

RequestKinds == {"create", "update", "delete", "finalize"}
DeskNext ==
  \/ \E c \in DeskCalls :
       \/ \E i \in InvoiceIds, kind \in RequestKinds : Arrive(c, kind, i)
       \/ Create(c)
       \/ Load(c)
       \/ SaveUpdate(c)
       \/ RemoveInvoice(c)
       \/ LoadToFinalize(c)
       \/ WriteFinal(c)
       \/ CommitFinal(c)
  \/ \E e \in counting : FindInvoices(e) \/ EmitUpdated(e)
  \/ HandleInvoiceUpdated

DeskSpec == DeskInit /\ [][DeskNext]_deskVars

-----------------------------------------------------------------------------
(* Once nothing is under way an order holds the number of its invoices, and   *)
(* says one is finalized only if one is: every request that changes how many  *)
(* there are announces it, with a count taken after the change.  It is stated *)
(* of requests that did not overlap; two that do can announce their counts in *)
(* the wrong order (README, known behaviour).                                 *)
Quiet == counting = {} /\ wire = <<>> /\ \A c \in DeskCalls : Free(c)
OrderCountsInvoices ==
  Quiet /\ ~overlapped =>
    \A o \in DeskOrders :
      /\ orderRow[o].count = Cardinality(InvoicesOf(o))
      /\ orderRow[o].final => HasFinal(o)
=============================================================================
