---------------------------- MODULE PaymentCleanup ----------------------------
(* Archiving and deleting old payments (payment-cleanup.service.ts).          *)
(*                                                                            *)
(* An archive is a dump of the database and a manifest; a cleanup names an    *)
(* archive, previews what it would delete, compares the NUMBER of payments    *)
(* with the manifest's, and deletes in one transaction.  Meanwhile the rest   *)
(* of the system goes on writing rows that point at payments and reports.     *)
EXTENDS Naturals, FiniteSets

CONSTANTS CleanPayments,  \* payments
          CleanReports,   \* reports
          Archives,       \* archive identifiers
          Cleaners,       \* archive or cleanup requests under way at the same time
          Cutoffs,        \* the values of 'before' a request may carry
          Traffic,        \* which rows the rest of the system writes
          Unset           \* an option left out, a file not there

ASSUME CleanAssumption == IsFiniteSet(CleanPayments)

VARIABLES stored,    \* payment |-> its order of creation, 0 before it is created
          known,     \* the reports that exist
          rows,      \* the rows that point at a payment or a report
          manifests, \* archive |-> its manifest and the payments in its dump
          cleaner,   \* request |-> how far it is and what it read
          deleted    \* <<payment, archive>>: what was deleted on which archive's word

pcVars == <<stored, known, rows, manifests, cleaner, deleted>>

Max0(S) == IF S = {} THEN 0 ELSE CHOOSE n \in S : \A k \in S : k <= n
Stored == {p \in CleanPayments : stored[p] # 0}
NoCleaner == [at |-> "idle", archive |-> Unset, before |-> Unset,
              payments |-> {}, reports |-> {}, doomed |-> {}]

CleanInit ==
  /\ stored = [p \in CleanPayments |-> 0]
  /\ known = {}
  /\ rows = {}
  /\ manifests = [a \in Archives |-> Unset]
  /\ cleaner = [c \in Cleaners |-> NoCleaner]
  /\ deleted = {}

-----------------------------------------------------------------------------
(* The rest of the system.  A row holds its table and what it points at.  A   *)
(* row written while a cleanup has already chosen its payment, or its report, *)
(* is late: only the database's foreign keys protect it.                      *)
Row(table, p, r, late) == [table |-> table, payment |-> p, report |-> r, late |-> late]
ChosenPayment(p) == \E c \in Cleaners : p \in cleaner[c].payments
ChosenReport(r) == \E c \in Cleaners : r \in cleaner[c].reports

CreatePayment(p) ==
  /\ stored[p] = 0 /\ \A d \in deleted : d[1] # p
  /\ stored' = [stored EXCEPT ![p] = Max0({stored[q] : q \in CleanPayments}) + 1]
  /\ rows' = rows \cup {Row(t, p, Unset, FALSE) : t \in {"item", "tax", "operation", "event"}}
  /\ UNCHANGED <<known, manifests, cleaner, deleted>>

(* Completion writes rows of the payment, and so do a refund request and an   *)
(* invoice once it is completed.                                              *)
Written == [complete |-> {"seller order", "transaction"},
            refund   |-> {"refund", "refund item"},
            invoice  |-> {"invoice"}]
Completed(p) == \E row \in rows : row.table = "seller order" /\ row.payment = p
WriteRows(p, what) ==
  /\ what \in Traffic
  /\ p \in Stored
  /\ what # "complete" => Completed(p)
  /\ rows' = rows \cup {Row(t, p, Unset, ChosenPayment(p)) : t \in Written[what]}
  /\ UNCHANGED <<stored, known, manifests, cleaner, deleted>>

Digest(p, r) ==
  /\ "digest" \in Traffic
  /\ p \in Stored /\ Completed(p)
  /\ known' = known \cup {r}
  /\ rows' = rows \cup {Row("relation", p, r, ChosenPayment(p) \/ ChosenReport(r))}
                  \cup {Row(t, Unset, r, ChosenReport(r)) : t \in {"tax group", "expense"}}
  /\ UNCHANGED <<stored, manifests, cleaner, deleted>>

-----------------------------------------------------------------------------
(* findPaymentIds and findAffectedReportIds.                                  *)
Before(p, before) == before = Unset \/ stored[p] < before
PaymentIds(before) == {p \in Stored : Before(p, before)}
AffectedReports(ps) == {row.report : row \in {w \in rows : w.table = "relation" /\ w.payment \in ps}}

(* createArchive: the preview counts, then mysqldump copies the whole         *)
(* database, then the manifest records the count.                             *)
StartArchive(c, a, before) ==
  /\ cleaner[c].at = "idle"
  /\ manifests[a] = Unset
  /\ \A d \in Cleaners : cleaner[d].archive # a
  /\ cleaner' = [cleaner EXCEPT ![c] =
       [NoCleaner EXCEPT !.at = "dump", !.archive = a, !.before = before,
                         !.doomed = PaymentIds(before)]]
  /\ UNCHANGED <<stored, known, rows, manifests, deleted>>

Dump(c) ==
  /\ cleaner[c].at = "dump"
  /\ manifests' = [manifests EXCEPT ![cleaner[c].archive] =
       [before |-> cleaner[c].before, count |-> Cardinality(cleaner[c].doomed),
        dumped |-> Stored]]
  /\ cleaner' = [cleaner EXCEPT ![c] = NoCleaner]
  /\ UNCHANGED <<stored, known, rows, deleted>>

(* cleanup: the request's own 'before', or the manifest's, decides which      *)
(* payments; the manifest of an archive whose files are intact is compared    *)
(* with them by count alone.                                                  *)
ScopeMatches(manifest, ps) == Cardinality(ps) = manifest.count
StartCleanup(c, a, before) ==
  /\ cleaner[c].at = "idle"
  /\ manifests[a] # Unset
  /\ LET ps == PaymentIds(IF before = Unset THEN manifests[a].before ELSE before) IN
       /\ ScopeMatches(manifests[a], ps)
       /\ cleaner' = [cleaner EXCEPT ![c] =
            [NoCleaner EXCEPT !.at = "preview", !.archive = a, !.payments = ps]]
  /\ UNCHANGED <<stored, known, rows, manifests, deleted>>

PreviewReports(c) ==
  /\ cleaner[c].at = "preview"
  /\ cleaner' = [cleaner EXCEPT ![c].at = "reports",
                                ![c].reports = AffectedReports(cleaner[c].payments)]
  /\ UNCHANGED <<stored, known, rows, manifests, deleted>>

(* What each delete of the transaction names.  LedgerTablesShort, without the *)
(* account transactions, is a mutant of it.                                   *)
ReportTables == {"tax group", "expense", "relation"}
LedgerTablesShort == {"refund", "refund item", "operation", "event", "invoice",
                      "seller order", "item", "tax"}
LedgerTables == {"refund", "refund item", "transaction", "operation", "event", "invoice",
                 "seller order", "item", "tax"}

DeleteReports(c) ==
  /\ cleaner[c].at = "reports"
  /\ cleaner' = [cleaner EXCEPT ![c].at = "ledger",
       ![c].doomed = {row \in rows : row.table \in ReportTables
                                       /\ row.report \in cleaner[c].reports}]
  /\ UNCHANGED <<stored, known, rows, manifests, deleted>>

DeleteLedger(c) ==
  /\ cleaner[c].at = "ledger"
  /\ cleaner' = [cleaner EXCEPT ![c].at = "payments",
       ![c].doomed = @ \cup {row \in rows : row.table \in LedgerTables
                                              /\ row.payment \in cleaner[c].payments}]
  /\ UNCHANGED <<stored, known, rows, manifests, deleted>>

(* Deleting the payments and the commit.  Items, taxes and report relations   *)
(* go with their payment or report (ON DELETE CASCADE), an item of a refund   *)
(* request with the request; an invoice that appeared meanwhile keeps its     *)
(* payment and its order, the delete fails and the transaction rolls back.    *)
Cascades(row, c) ==
  \/ row.table \in {"item", "tax", "relation"} /\ row.payment \in cleaner[c].payments
  \/ row.table = "relation" /\ row.report \in cleaner[c].reports
  \/ row.table = "refund item"
     /\ \E w \in cleaner[c].doomed : w.table = "refund" /\ w.payment = row.payment
Held(c) == \E row \in rows \ cleaner[c].doomed :
             row.table = "invoice" /\ row.payment \in cleaner[c].payments

Commit(c) ==
  /\ cleaner[c].at = "payments"
  /\ IF Held(c)
       THEN UNCHANGED <<stored, known, rows, deleted>>
       ELSE /\ stored' = [p \in CleanPayments |-> IF p \in cleaner[c].payments THEN 0 ELSE stored[p]]
            /\ known' = known \ cleaner[c].reports
            /\ rows' = {row \in rows \ cleaner[c].doomed : ~Cascades(row, c)}
            /\ deleted' = deleted \cup {<<p, cleaner[c].archive>> : p \in cleaner[c].payments \cap Stored}
  /\ cleaner' = [cleaner EXCEPT ![c] = NoCleaner]
  /\ UNCHANGED manifests

(* Any call of it may fail; the transaction rolls back, a dump leaves no      *)
(* manifest.                                                                  *)
Fail(c) ==
  /\ cleaner[c].at # "idle"
  /\ cleaner' = [cleaner EXCEPT ![c] = NoCleaner]
  /\ UNCHANGED <<stored, known, rows, manifests, deleted>>

CleanNext ==
  \/ \E p \in CleanPayments :
       \/ CreatePayment(p)
       \/ \E what \in DOMAIN Written : WriteRows(p, what)
       \/ \E r \in CleanReports : Digest(p, r)
  \/ \E c \in Cleaners :
       \/ \E a \in Archives, before \in Cutoffs : StartArchive(c, a, before) \/ StartCleanup(c, a, before)
       \/ Dump(c)
       \/ PreviewReports(c)
       \/ DeleteReports(c)
       \/ DeleteLedger(c)
       \/ Commit(c)
       \/ Fail(c)

CleanSpec == CleanInit /\ [][CleanNext]_pcVars

-----------------------------------------------------------------------------
(* No cleanup leaves a row that points at a payment or a report it deleted,   *)
(* whatever other requests did between its steps, but for rows written after  *)
(* it had chosen what to delete.                                              *)
Dangling(row) ==
  \/ row.payment # Unset /\ row.payment \notin Stored
  \/ row.report # Unset /\ row.report \notin known
NothingDangling == \A row \in rows : Dangling(row) => row.late

(* A payment is deleted only on the word of an archive whose dump holds it    *)
(* ("The archive manifest does not match the current cleanup scope").         *)
DeletedIsArchived == \A d \in deleted : manifests[d[2]] # Unset /\ d[1] \in manifests[d[2]].dumped
=============================================================================
