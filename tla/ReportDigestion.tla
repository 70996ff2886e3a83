---------------------------- MODULE ReportDigestion ----------------------------
(***************************************************************************)
(* How completed payments reach the reports: the event that queues a payment *)
(* for every matching report, and checkRelations, which every instance of    *)
(* the service runs each minute and after an event, one call at a time by a  *)
(* flag in memory.  A call claims the queued relations of reports no other   *)
(* call seems to work on, then adds each payment to the tables of its report *)
(* by reading and saving whole rows, without a transaction.  Translated from *)
(* report-digestion.service.ts and report-payment-relation.entity.ts.        *)
(*                                                                           *)
(* A table holds, per payment, how often its amounts are in the sums.  The   *)
(* payments here have includeInReportDigestion, and the reports an owner.    *)
(* "details" stands for the tax group, item and platform rows, which are     *)
(* read and saved alike.                                                     *)
(***************************************************************************)
EXTENDS Integers, FiniteSets

CONSTANTS
    Reports,        \* the reports every payment here belongs to
    Payments,
    Instances,      \* processes of the service
    Calls,          \* calls of checkRelations that may run at a time
    InstanceOf,     \* the process of a call
    NoCall, NoInstance,
    MaxDeliveries,  \* bound: times an event is delivered
    MaxFailures,    \* bound: calls that throw
    MaxCrashes      \* bound: processes that die

ASSUME DigestionAssumption ==
    /\ InstanceOf \in [Calls -> Instances]
    /\ NoCall \notin Calls
    /\ NoInstance \notin Instances
    /\ MaxDeliveries \in Nat
    /\ MaxFailures \in Nat
    /\ MaxCrashes \in Nat

Relations == Reports \X Payments
Tables == {"expenses", "totals", "details"}

VARIABLES
    deliveries,  \* per payment, deliveries of its event so far
    queueing,    \* its handler: the process and the reports still to queue it for
    status,      \* ReportPaymentRelation.digestionStatus, "NONE" without a row
    owner,       \* digestionId: the call that claimed it, while that call runs
    rows,        \* per report and table, how often each payment is counted
    busy,        \* checkingRelations of each process
    call,        \* where each call is, and what it has read
    failures, crashes

queueVars == <<deliveries, queueing>>
relationVars == <<status, owner>>
faultVars == <<failures, crashes>>
vars == <<queueVars, relationVars, rows, busy, call, faultVars>>

Counts == [Payments -> Nat]
NothingCounted == [p \in Payments |-> 0]

\* A call that does not run.  seen are the reports it found worked on, todo the
\* relations it claimed and has not begun, relation the one it is at, report the
\* totals it loaded for it, and read the rows of the table it is at.
Idle == [pc |-> "idle", seen |-> {}, todo |-> {}, relation |-> {},
         report |-> NothingCounted, read |-> NothingCounted]

NoHandler == [at |-> NoInstance, todo |-> {}]

TypeOK ==
    /\ deliveries \in [Payments -> 0..MaxDeliveries]
    /\ queueing \in [Payments -> [at : Instances \cup {NoInstance}, todo : SUBSET Reports]]
    /\ status \in [Relations -> {"NONE", "WAITING", "DIGESTING", "COMPLETED"}]
    /\ owner \in [Relations -> Calls \cup {NoCall}]
    /\ rows \in [Reports -> [Tables -> Counts]]
    /\ busy \in [Instances -> BOOLEAN]
    /\ call \in [Calls -> [pc : {"idle", "list", "claim", "next", "expenses", "saveExpenses",
                                 "totals", "details", "saveDetails", "complete"},
                           seen : SUBSET Reports, todo : SUBSET Relations,
                           relation : SUBSET Relations, report : Counts, read : Counts]]
    /\ failures \in 0..MaxFailures
    /\ crashes \in 0..MaxCrashes

Init ==
    /\ deliveries = [p \in Payments |-> 0]
    /\ queueing = [p \in Payments |-> NoHandler]
    /\ status = [x \in Relations |-> "NONE"]
    /\ owner = [x \in Relations |-> NoCall]
    /\ rows = [r \in Reports |-> [t \in Tables |-> NothingCounted]]
    /\ busy = [i \in Instances |-> FALSE]
    /\ call = [c \in Calls |-> Idle]
    /\ failures = 0
    /\ crashes = 0
-----------------------------------------------------------------------------
(* Queueing a payment *)

\* postral/report-digestion-queue-insertion reaches a process, once or again.
DeliverEvent(p, i) ==
    /\ deliveries[p] < MaxDeliveries
    /\ queueing[p] = NoHandler
    /\ deliveries' = [deliveries EXCEPT ![p] = @ + 1]
    /\ queueing' = [queueing EXCEPT ![p] = [at |-> i, todo |-> Reports]]
    /\ UNCHANGED <<relationVars, rows, busy, call, faultVars>>

\* Mutant of QueueFor: a relation that exists is queued again.
QueueForUpsert(p, r) ==
    /\ r \in queueing[p].todo
    /\ status' = [status EXCEPT ![<<r, p>>] = "WAITING"]
    /\ queueing' = [queueing EXCEPT ![p].todo = @ \ {r}]
    /\ UNCHANGED <<deliveries, owner, rows, busy, call, faultVars>>

\* One turn of the loop over the matching queries: the relation is inserted, or
\* exists (unique by report and payment), and the handler throws.
QueueFor(p, r) ==
    /\ r \in queueing[p].todo
    /\ \/ /\ status[<<r, p>>] = "NONE"
          /\ status' = [status EXCEPT ![<<r, p>>] = "WAITING"]
          /\ queueing' = [queueing EXCEPT ![p].todo = @ \ {r}]
       \/ /\ status[<<r, p>>] # "NONE"
          /\ queueing' = [queueing EXCEPT ![p] = NoHandler]
          /\ UNCHANGED status
    /\ UNCHANGED <<deliveries, owner, rows, busy, call, faultVars>>

QueueingDone(p) ==
    /\ queueing[p] # NoHandler
    /\ queueing[p].todo = {}
    /\ queueing' = [queueing EXCEPT ![p] = NoHandler]
    /\ UNCHANGED <<deliveries, relationVars, rows, busy, call, faultVars>>
-----------------------------------------------------------------------------
(* checkRelations *)

At(c, step) == call[c].pc = step

GoTo(c, step) == call' = [call EXCEPT ![c].pc = step]

\* Nobody works under the digestionId of an ended call: what it claimed and did
\* not complete stays DIGESTING.
Disown(calls) == owner' = [x \in Relations |-> IF owner[x] \in calls THEN NoCall ELSE owner[x]]

\* Mutant of Begin: the flag is not looked at.
BeginAlways(c) ==
    /\ At(c, "idle")
    /\ busy' = [busy EXCEPT ![InstanceOf[c]] = TRUE]
    /\ GoTo(c, "list")
    /\ UNCHANGED <<queueVars, relationVars, rows, faultVars>>

\* The cron, or the end of an event's handler; the flag keeps a second call out.
Begin(c) ==
    /\ At(c, "idle")
    /\ ~busy[InstanceOf[c]]
    /\ busy' = [busy EXCEPT ![InstanceOf[c]] = TRUE]
    /\ GoTo(c, "list")
    /\ UNCHANGED <<queueVars, relationVars, rows, faultVars>>

\* The reports with a DIGESTING relation.
ListWorkedOn(c) ==
    /\ At(c, "list")
    /\ call' = [call EXCEPT
          ![c].seen = {r \in Reports : \E p \in Payments : status[<<r, p>>] = "DIGESTING"},
          ![c].pc = "claim"]
    /\ UNCHANGED <<queueVars, relationVars, rows, busy, faultVars>>

\* The WAITING relations of the other reports.
Claimable(c) == {x \in Relations : status[x] = "WAITING" /\ x[1] \notin call[c].seen}

\* One UPDATE gives them the fresh digestionId; the relations it reads back by
\* that id are the ones it updated.
Claim(c) ==
    /\ At(c, "claim")
    /\ LET claimed == Claimable(c) IN
          /\ status' = [x \in Relations |-> IF x \in claimed THEN "DIGESTING" ELSE status[x]]
          /\ owner' = [x \in Relations |-> IF x \in claimed THEN c ELSE owner[x]]
          /\ call' = [call EXCEPT ![c].todo = claimed, ![c].pc = "next"]
    /\ UNCHANGED <<queueVars, rows, busy, faultVars>>

\* The next relation: its report is loaded.
LoadReport(c, x) ==
    /\ At(c, "next")
    /\ x \in call[c].todo
    /\ call' = [call EXCEPT ![c].todo = @ \ {x}, ![c].relation = {x},
                            ![c].report = rows[x[1]]["totals"], ![c].pc = "expenses"]
    /\ UNCHANGED <<queueVars, relationVars, rows, busy, faultVars>>

\* Mutant of EndCall: the flag stays set.
EndCallBusy(c) ==
    /\ At(c, "next")
    /\ call[c].todo = {}
    /\ call' = [call EXCEPT ![c] = Idle]
    /\ UNCHANGED <<queueVars, relationVars, rows, busy, faultVars>>

\* Nothing is left; the finally block clears the flag.
EndCall(c) ==
    /\ At(c, "next")
    /\ call[c].todo = {}
    /\ call' = [call EXCEPT ![c] = Idle]
    /\ busy' = [busy EXCEPT ![InstanceOf[c]] = FALSE]
    /\ UNCHANGED <<queueVars, relationVars, rows, faultVars>>

\* The rows of a table are read ...
Read(c, from, table, to) ==
    /\ At(c, from)
    /\ \E x \in call[c].relation :
          call' = [call EXCEPT ![c].read = rows[x[1]][table], ![c].pc = to]
    /\ UNCHANGED <<queueVars, relationVars, rows, busy, faultVars>>

\* ... and saved with the payment of the relation added to what was read.
Save(c, from, table, base, to) ==
    /\ At(c, from)
    /\ \E x \in call[c].relation :
          rows' = [rows EXCEPT ![x[1]][table] = [base EXCEPT ![x[2]] = @ + 1]]
    /\ GoTo(c, to)
    /\ UNCHANGED <<queueVars, relationVars, busy, faultVars>>

\* updateExpensesForReport and the provider fees.
ReadExpenses(c) == Read(c, "expenses", "expenses", "saveExpenses")
SaveExpenses(c) == Save(c, "saveExpenses", "expenses", call[c].read, "totals")

\* digestPayment, digestPlatformFlowReport, digestComissionIncomeForReport: the
\* report loaded before the expenses is saved.
SaveReport(c) == Save(c, "totals", "totals", call[c].report, "details")

\* Tax groups, items and platforms.
ReadDetails(c) == Read(c, "details", "details", "saveDetails")
SaveDetails(c) == Save(c, "saveDetails", "details", call[c].read, "complete")

Complete(c) ==
    /\ At(c, "complete")
    /\ \E x \in call[c].relation :
          /\ status' = [status EXCEPT ![x] = "COMPLETED"]
          /\ owner' = [owner EXCEPT ![x] = NoCall]
    /\ call' = [call EXCEPT ![c].relation = {}, ![c].pc = "next"]
    /\ UNCHANGED <<queueVars, rows, busy, faultVars>>

\* A query or a check of the data throws: the error is logged, the flag cleared.
Fail(c) ==
    /\ failures < MaxFailures
    /\ failures' = failures + 1
    /\ ~At(c, "idle")
    /\ call' = [call EXCEPT ![c] = Idle]
    /\ busy' = [busy EXCEPT ![InstanceOf[c]] = FALSE]
    /\ Disown({c})
    /\ UNCHANGED <<queueVars, status, rows, crashes>>

\* A process dies with its calls and its handlers, and starts again.
Crash(i) ==
    /\ crashes < MaxCrashes
    /\ crashes' = crashes + 1
    /\ call' = [c \in Calls |-> IF InstanceOf[c] = i THEN Idle ELSE call[c]]
    /\ busy' = [busy EXCEPT ![i] = FALSE]
    /\ queueing' = [p \in Payments |-> IF queueing[p].at = i THEN NoHandler ELSE queueing[p]]
    /\ Disown({c \in Calls : InstanceOf[c] = i})
    /\ UNCHANGED <<deliveries, status, rows, failures>>

CallStep(c) ==
    \/ ListWorkedOn(c) \/ Claim(c) \/ EndCall(c)
    \/ \E x \in Relations : LoadReport(c, x)
    \/ ReadExpenses(c) \/ SaveExpenses(c) \/ SaveReport(c)
    \/ ReadDetails(c) \/ SaveDetails(c) \/ Complete(c)

QueueStep(p) == QueueingDone(p) \/ \E r \in Reports : QueueFor(p, r)

Next ==
    \/ \E p \in Payments : QueueStep(p) \/ \E i \in Instances : DeliverEvent(p, i)
    \/ \E c \in Calls : Begin(c) \/ CallStep(c) \/ Fail(c)
    \/ \E i \in Instances : Crash(i)

Spec == Init /\ [][Next]_vars

\* Handlers and calls run on, and the cron starts a call whenever the process is
\* free to run one.
Fairness ==
    /\ \A p \in Payments : WF_vars(QueueStep(p))
    /\ \A c \in Calls : WF_vars(CallStep(c))
    /\ \A i \in Instances : WF_vars(\E c \in Calls : InstanceOf[c] = i /\ Begin(c))

LiveSpec == Spec /\ Fairness
-----------------------------------------------------------------------------
(* Properties *)

\* The amounts of a payment are never added twice to a table of a report,
\* whatever is delivered again, throws, dies or overlaps (the unique relation and
\* the claim of checkRelations).
NeverCountedTwice ==
    \A r \in Reports, t \in Tables, p \in Payments : rows[r][t][p] <= 1

\* A COMPLETED relation is in every table of its report, and stays there: no
\* other call writes back rows it read before (the flag and the claim of
\* checkRelations).
CompletedIsCounted ==
    \A x \in Relations : status[x] = "COMPLETED" =>
        \A t \in Tables : rows[x[1]][t][x[2]] = 1

\* Every payment whose event was delivered reaches every report it belongs to,
\* unless a call threw or a process died on the way: calls that compete for the
\* flag, and deliveries in between, only delay it (checkRelations).
EventuallyReported ==
    \A p \in Payments :
        deliveries[p] > 0 ~> \/ failures + crashes > 0
                             \/ \A r \in Reports : status[<<r, p>>] = "COMPLETED"
=============================================================================
