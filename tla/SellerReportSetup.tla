--------------------------- MODULE SellerReportSetup ---------------------------
(***************************************************************************)
(* The report queries of a seller account in one currency: a user sets them  *)
(* up for the groupings he chooses, and the first payment of a day adds the  *)
(* daily ones a seller lacks.  No key of the table keeps two queries of the  *)
(* same kind apart; both paths lock the account row first.  Translated from  *)
(* seller-report-setup.service.ts, seller-report-series.service.ts and       *)
(* report-query.entity.ts.                                                   *)
(***************************************************************************)
EXTENDS Integers, FiniteSets

CONSTANTS
    SetupCalls,        \* calls of setup and ensureDailyQueries
    NoSetup,
    MaxAccountChanges  \* bound: edits of the account

ASSUME SetupAssumption == NoSetup \notin SetupCalls /\ MaxAccountChanges \in Nat

Groupings == {"DAILY", "MONTHLY", "YEARLY"}
QueryKinds == Groupings \X {"SELLER", "PLATFORM_SELLER"}

VARIABLES
    queryRows,     \* per kind, how many queries the seller has
    accountLock,   \* the transaction that holds the account row
    eligible,      \* the account is commercial, internal and active
    accountChanges,
    setupCall,     \* where each call is, and what its transaction saw and made
    series         \* the answer of the last call for a series of reports

setupVars == <<queryRows, accountLock, eligible, accountChanges, setupCall, series>>

NoSetupCall == [pc |-> "idle", wanted |-> {}, found |-> {}, made |-> {}, answer |-> "NONE"]

SetupInit ==
    /\ queryRows = [k \in QueryKinds |-> 0]
    /\ accountLock = NoSetup
    /\ eligible = TRUE
    /\ accountChanges = 0
    /\ setupCall = [c \in SetupCalls |-> NoSetupCall]
    /\ series = "NONE"
-----------------------------------------------------------------------------
SetupAt(c, step) == setupCall[c].pc = step

\* setup takes groupings with DAILY among them, of a user who may edit the account.
Setup(c, groupings, authorized) ==
    /\ SetupAt(c, "idle")
    /\ setupCall' = [setupCall EXCEPT ![c] =
          IF "DAILY" \in groupings /\ authorized
          THEN [@ EXCEPT !.pc = "lock", !.wanted = groupings \X {"SELLER"}]
          ELSE [@ EXCEPT !.pc = "done", !.answer = "REFUSED"]]
    /\ UNCHANGED <<queryRows, accountLock, eligible, accountChanges, series>>

\* ensureDailyQueries of the event's handler, for any seller of the payment.
EnsureDaily(c) ==
    /\ SetupAt(c, "idle")
    /\ setupCall' = [setupCall EXCEPT
          ![c].pc = "lock", ![c].wanted = {"DAILY"} \X {"SELLER", "PLATFORM_SELLER"}]
    /\ UNCHANGED <<queryRows, accountLock, eligible, accountChanges, series>>

\* The two are told apart by what they want: only setup asks for an eligible account.
OfUser(c) == \A k \in setupCall[c].wanted : k[2] = "SELLER"

\* Mutant of MayLock: the account is read without a lock.
MayLockAlways(c) == SetupAt(c, "lock")

MayLock(c) == SetupAt(c, "lock") /\ accountLock = NoSetup

\* findAccount in the transaction, which waits for the row.
LockAccount(c) ==
    /\ MayLock(c)
    /\ IF OfUser(c) /\ ~eligible
       THEN /\ setupCall' = [setupCall EXCEPT ![c].pc = "done", ![c].answer = "REFUSED"]
            /\ UNCHANGED accountLock
       ELSE /\ setupCall' = [setupCall EXCEPT ![c].pc = "find"]
            /\ accountLock' = c
    /\ UNCHANGED <<queryRows, eligible, accountChanges, series>>

\* The queries there are ...
FindQueries(c) ==
    /\ SetupAt(c, "find")
    /\ setupCall' = [setupCall EXCEPT
          ![c].found = {k \in QueryKinds : queryRows[k] > 0}, ![c].pc = "create"]
    /\ UNCHANGED <<queryRows, accountLock, eligible, accountChanges, series>>

\* ... and one for each kind that is missing, seen by others at the commit.
CreateQuery(c, kind) ==
    /\ SetupAt(c, "create")
    /\ kind \in setupCall[c].wanted \ (setupCall[c].found \cup setupCall[c].made)
    /\ setupCall' = [setupCall EXCEPT ![c].made = @ \cup {kind}]
    /\ UNCHANGED <<queryRows, accountLock, eligible, accountChanges, series>>

Commit(c) ==
    /\ SetupAt(c, "create")
    /\ setupCall[c].wanted \subseteq setupCall[c].found \cup setupCall[c].made
    /\ queryRows' = [k \in QueryKinds |->
          queryRows[k] + IF k \in setupCall[c].made THEN 1 ELSE 0]
    /\ accountLock' = NoSetup
    /\ setupCall' = [setupCall EXCEPT ![c].pc = "done", ![c].answer = "READY"]
    /\ UNCHANGED <<eligible, accountChanges, series>>

\* A query fails or the process dies: the transaction is rolled back.
Rollback(c) ==
    /\ setupCall[c].pc \in {"find", "create"}
    /\ accountLock' = NoSetup
    /\ setupCall' = [setupCall EXCEPT ![c].pc = "done", ![c].answer = "FAILED"]
    /\ UNCHANGED <<queryRows, eligible, accountChanges, series>>

\* The account is edited, which its row lock delays too.
ChangeAccount ==
    /\ accountLock = NoSetup
    /\ accountChanges < MaxAccountChanges
    /\ accountChanges' = accountChanges + 1
    /\ eligible' = ~eligible
    /\ UNCHANGED <<queryRows, accountLock, setupCall, series>>

\* fetch without a queryId: the reports of the one query there is; with none or
\* several it chooses nothing.
FetchSeries(grouping) ==
    /\ series' = IF ~eligible THEN "REFUSED"
                 ELSE IF queryRows[<<grouping, "SELLER">>] = 1 THEN "SELECTED" ELSE "NOTHING"
    /\ UNCHANGED <<queryRows, accountLock, eligible, accountChanges, setupCall>>

SetupStep(c) ==
    \/ LockAccount(c) \/ FindQueries(c) \/ Commit(c)
    \/ \E k \in QueryKinds : CreateQuery(c, k)

SetupNext ==
    \/ \E c \in SetupCalls :
          \/ \E g \in SUBSET Groupings, authorized \in BOOLEAN : Setup(c, g, authorized)
          \/ EnsureDaily(c) \/ SetupStep(c) \/ Rollback(c)
    \/ ChangeAccount
    \/ \E g \in Groupings : FetchSeries(g)

SetupSpec == SetupInit /\ [][SetupNext]_setupVars
-----------------------------------------------------------------------------
\* Setups and payments at the same time give a seller at most one query of a
\* kind (others he can only have from the editor of report queries): his sales are
\* not split over two reports and no series is ambiguous (ensureSellerQueries and
\* ensureDailyQueries lock the same account).
OneQueryOfAKind == \A k \in QueryKinds : queryRows[k] <= 1
=============================================================================
