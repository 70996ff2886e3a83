----------------------------- MODULE ReportBuckets -----------------------------
(***************************************************************************)
(* The report rows of one query, period and currency.  Handlers of payment   *)
(* events find or create the current one, an administrator has it rebuilt    *)
(* (renamed, archived, replaced, and its payments queued again), and the     *)
(* digestion writes back the row it read before.  The unique key of the      *)
(* table and a map of the creations under way in each process keep it one.   *)
(* Translated from report-digestion.service.ts, report.service.ts and        *)
(* report.entity.ts.                                                         *)
(*                                                                           *)
(* A row's label is the period's, or one of its own after the renaming.      *)
(***************************************************************************)
EXTENDS Integers, Sequences

CONSTANTS
    EventHandlers,    \* calls of the event's handler
    Rebuilders,       \* calls of reportReconstruct
    Digesters,        \* calls that digest one payment into a report
    BucketProcesses,
    ProcessOf,        \* the process of a handler or rebuilder
    BucketPayment,    \* the payment of a handler
    OldPayments,      \* payments of the period that were queued nowhere
    NoBucketCall,
    MaxRows           \* bound: report rows

BucketCalls == EventHandlers \cup Rebuilders
BucketPayments == {BucketPayment[h] : h \in EventHandlers} \cup OldPayments

ASSUME BucketAssumption ==
    /\ EventHandlers \cap Rebuilders = {}
    /\ NoBucketCall \notin BucketCalls
    /\ ProcessOf \in [BucketCalls -> BucketProcesses]
    /\ MaxRows \in Nat

VARIABLES
    reportRows,   \* Report: [current |-> it has the period's label and is not archived]
    queuedFor,    \* ReportPaymentRelation: the payments queued for each row
    inflight,     \* reportsFetchInflight of each process: the call that creates
    bucketCall,   \* where each call is: its row, the one it rebuilds, the call it
                  \* joined, the payments still to queue
    digester      \* the row a digestion read, and how

bucketVars == <<reportRows, queuedFor, inflight, bucketCall, digester>>

Current == {r \in DOMAIN reportRows : reportRows[r].current}

NotCalled == [pc |-> "idle", row |-> 0, old |-> 0, joins |-> NoBucketCall, todo |-> {}]
NotDigesting == [row |-> 0, current |-> FALSE]

BucketInit ==
    /\ reportRows = <<>>
    /\ queuedFor = <<>>
    /\ inflight = [p \in BucketProcesses |-> NoBucketCall]
    /\ bucketCall = [c \in BucketCalls |-> NotCalled]
    /\ digester = [d \in Digesters |-> NotDigesting]

BucketAt(c, step) == bucketCall[c].pc = step
BucketGoto(c, step) == bucketCall' = [bucketCall EXCEPT ![c].pc = step]
-----------------------------------------------------------------------------
(* findOrCreateByQuery *)

\* The call has its row: a handler queues its payment there, a rebuild goes on.
Found(c, row) ==
    IF c \in EventHandlers
    THEN [bucketCall[c] EXCEPT !.row = row, !.pc = "queue", !.todo = {BucketPayment[c]}]
    ELSE [bucketCall[c] EXCEPT !.row = row, !.pc = "older"]

\* The promise of c is settled, for itself and the calls that joined it.
Settle(c, row) ==
    bucketCall' = [d \in BucketCalls |->
        IF d # c /\ ~(BucketAt(d, "joined") /\ bucketCall[d].joins = c) THEN bucketCall[d]
        ELSE IF row = 0 THEN [bucketCall[d] EXCEPT !.pc = "failed"] ELSE Found(d, row)]

\* A creation under way in the process is joined; else the row is looked for.
FindReport(c) ==
    /\ BucketAt(c, "find")
    /\ bucketCall' = [bucketCall EXCEPT ![c] =
          IF inflight[ProcessOf[c]] # NoBucketCall
          THEN [@ EXCEPT !.pc = "joined", !.joins = inflight[ProcessOf[c]]]
          ELSE IF Current = {} THEN [@ EXCEPT !.pc = "announce"]
          ELSE Found(c, CHOOSE r \in Current : TRUE)]
    /\ UNCHANGED <<reportRows, queuedFor, inflight, digester>>

AnnounceCreation(c) ==
    /\ BucketAt(c, "announce")
    /\ inflight' = [inflight EXCEPT ![ProcessOf[c]] = c]
    /\ BucketGoto(c, "insert")
    /\ UNCHANGED <<reportRows, queuedFor, digester>>

\* Mutant of MayInsert: the table has no unique key.
MayInsertAlways == TRUE

\* Unique by query, type, label and currency.
MayInsert == Current = {}

InsertReport(c) ==
    /\ BucketAt(c, "insert")
    /\ IF MayInsert
       THEN /\ Len(reportRows) < MaxRows
            /\ reportRows' = Append(reportRows, [current |-> TRUE])
            /\ queuedFor' = Append(queuedFor, {})
            /\ inflight' = [inflight EXCEPT ![ProcessOf[c]] = NoBucketCall]
            /\ Settle(c, Len(reportRows) + 1)
       ELSE /\ BucketGoto(c, "refetch")
            /\ UNCHANGED <<reportRows, queuedFor, inflight>>
    /\ UNCHANGED digester

\* Another one was first: its row, unless it has been archived since.
RefetchReport(c) ==
    /\ BucketAt(c, "refetch")
    /\ inflight' = [inflight EXCEPT ![ProcessOf[c]] = NoBucketCall]
    /\ Settle(c, IF Current = {} THEN 0 ELSE CHOOSE r \in Current : TRUE)
    /\ UNCHANGED <<reportRows, queuedFor, digester>>

\* insertPaymentToReportDigestionSingle: a relation that exists makes it throw.
QueuePayment(c, p) ==
    /\ BucketAt(c, "queue")
    /\ p \in bucketCall[c].todo
    /\ IF p \in queuedFor[bucketCall[c].row]
       THEN BucketGoto(c, "failed") /\ UNCHANGED queuedFor
       ELSE /\ queuedFor' = [queuedFor EXCEPT ![bucketCall[c].row] = @ \cup {p}]
            /\ bucketCall' = [bucketCall EXCEPT ![c].todo = @ \ {p}]
    /\ UNCHANGED <<reportRows, inflight, digester>>
-----------------------------------------------------------------------------
(* The calls *)

HandleEvent(h) ==
    /\ BucketAt(h, "idle")
    /\ BucketGoto(h, "find")
    /\ UNCHANGED <<reportRows, queuedFor, inflight, digester>>

\* reportReconstruct: a report that is not archived ...
LoadForRebuild(c, r) ==
    /\ BucketAt(c, "idle")
    /\ bucketCall' = [bucketCall EXCEPT
          ![c].pc = IF reportRows[r].current THEN "archive" ELSE "failed", ![c].old = r]
    /\ UNCHANGED <<reportRows, queuedFor, inflight, digester>>

\* ... is saved under another label ...
ArchiveOld(c) ==
    /\ BucketAt(c, "archive")
    /\ reportRows' = [reportRows EXCEPT ![bucketCall[c].old].current = FALSE]
    /\ BucketGoto(c, "find")
    /\ UNCHANGED <<queuedFor, inflight, digester>>

\* ... its successor gets, if asked for, the payments the old one lacks, in one
\* statement whose failure is only logged ...
IncludeOlder(c, asked) ==
    /\ BucketAt(c, "older")
    /\ LET older == OldPayments \ queuedFor[bucketCall[c].old]
           fits == older \cap queuedFor[bucketCall[c].row] = {} IN
       queuedFor' = IF asked /\ fits
                    THEN [queuedFor EXCEPT ![bucketCall[c].row] = @ \cup older]
                    ELSE queuedFor
    /\ BucketGoto(c, "list")
    /\ UNCHANGED <<reportRows, inflight, digester>>

\* ... and then, one by one, those the old one has.
ListOld(c) ==
    /\ BucketAt(c, "list")
    /\ bucketCall' = [bucketCall EXCEPT ![c].todo = queuedFor[bucketCall[c].old],
                                        ![c].pc = "queue"]
    /\ UNCHANGED <<reportRows, queuedFor, inflight, digester>>

EndBucketCall(c) ==
    /\ BucketAt(c, "queue")
    /\ bucketCall[c].todo = {}
    /\ BucketGoto(c, "done")
    /\ UNCHANGED <<reportRows, queuedFor, inflight, digester>>

\* checkRelations loads a report ...
LoadForDigestion(d, r) ==
    /\ digester[d] = NotDigesting
    /\ digester' = [digester EXCEPT ![d] = [row |-> r, current |-> reportRows[r].current]]
    /\ UNCHANGED <<reportRows, queuedFor, inflight, bucketCall>>

\* ... and saves it as a whole, with the label it had then, unless another
\* report has that label now.
SaveDigested(d) ==
    /\ digester[d] # NotDigesting
    /\ LET r == digester[d].row IN
       reportRows' = IF digester[d].current /\ Current \ {r} # {} THEN reportRows
                     ELSE [reportRows EXCEPT ![r].current = digester[d].current]
    /\ digester' = [digester EXCEPT ![d] = NotDigesting]
    /\ UNCHANGED <<queuedFor, inflight, bucketCall>>

BucketStep(c) ==
    \/ FindReport(c) \/ AnnounceCreation(c) \/ InsertReport(c) \/ RefetchReport(c)
    \/ \E p \in BucketPayments : QueuePayment(c, p)
    \/ EndBucketCall(c)

BucketNext ==
    \/ \E c \in BucketCalls : BucketStep(c)
    \/ \E h \in EventHandlers : HandleEvent(h)
    \/ \E c \in Rebuilders :
          \/ \E r \in DOMAIN reportRows : LoadForRebuild(c, r)
          \/ ArchiveOld(c) \/ ListOld(c)
          \/ \E asked \in BOOLEAN : IncludeOlder(c, asked)
    \/ \E d \in Digesters :
          \/ \E r \in DOMAIN reportRows : LoadForDigestion(d, r)
          \/ SaveDigested(d)

BucketSpec == BucketInit /\ [][BucketNext]_bucketVars
-----------------------------------------------------------------------------
\* A period has one current report, however handlers in several processes,
\* rebuilds and stale saves of the digestion overlap (findOrCreateByQuery and the
\* unique key it relies on).
OneCurrentReport == \A r, q \in Current : r = q
=============================================================================
