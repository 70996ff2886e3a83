-------------------------- MODULE ReportingProofs ---------------------------
(* The services behind the reports: the set-up of report queries, the rows of  *)
(* the periods, and the billing of what the reports add up.                    *)
EXTENDS SellerReportSetup, ReportBuckets, ReportAmounts, Billing, SequenceTheorems,
        SumTheorems, TLAPS

-----------------------------------------------------------------------------
(***************************************************************************)
(* Proof that a seller never gets two report queries of a kind, for any      *)
(* number of calls: a call that has found which queries there are holds the  *)
(* account's row until it commits, so that what it found stays true.         *)
(***************************************************************************)

CallStates ==
    [pc : {"idle", "lock", "find", "create", "done"}, wanted : SUBSET QueryKinds,
     found : SUBSET QueryKinds, made : SUBSET QueryKinds,
     answer : {"NONE", "REFUSED", "READY", "FAILED"}]

\* Every variable and every call has a value of its kind.
SetupTypeOK ==
    /\ queryRows \in [QueryKinds -> Nat]
    /\ accountLock \in SetupCalls \cup {NoSetup}
    /\ setupCall \in [SetupCalls -> CallStates]

\* Only the call that holds the account's row is inside its transaction.
InsideHoldsLock ==
    \A c \in SetupCalls : setupCall[c].pc \in {"find", "create"} => accountLock = c

\* What a call found is what there is, until it commits.
FoundIsCurrent ==
    \A c \in SetupCalls : setupCall[c].pc = "create" =>
        setupCall[c].found = {k \in QueryKinds : queryRows[k] > 0}

\* A call makes nothing before it has looked, and nothing it found.
MadeIsNew ==
    \A c \in SetupCalls :
        /\ setupCall[c].pc \in {"idle", "lock", "find"} => setupCall[c].made = {}
        /\ setupCall[c].pc = "create" => setupCall[c].made \cap setupCall[c].found = {}

SetupInv ==
    SetupTypeOK /\ InsideHoldsLock /\ FoundIsCurrent /\ MadeIsNew /\ OneQueryOfAKind

\* Nothing is set up at the start.
LEMMA SetupInitInv == SetupInit => SetupInv
  BY SetupAssumption DEF SetupInit, SetupInv, SetupTypeOK, InsideHoldsLock,
     FoundIsCurrent, MadeIsNew, OneQueryOfAKind, NoSetupCall, CallStates

\* What a call is about to be, when its step changes neither queries nor the lock.
LEMMA CallStep ==
    ASSUME SetupInv, NEW c \in SetupCalls, NEW next \in CallStates,
           setupCall' = [setupCall EXCEPT ![c] = next],
           UNCHANGED <<queryRows, accountLock>>,
           next.pc \in {"find", "create"} => accountLock = c,
           next.pc = "create" =>
               /\ next.found = {k \in QueryKinds : queryRows[k] > 0}
               /\ next.made \cap next.found = {},
           next.pc \in {"idle", "lock", "find"} => next.made = {}
    PROVE  SetupInv'
<1>1. \A d \in SetupCalls : setupCall'[d] = IF d = c THEN next ELSE setupCall[d]
  BY DEF SetupInv, SetupTypeOK
<1>2. SetupTypeOK'
  BY DEF SetupInv, SetupTypeOK
<1>3. InsideHoldsLock' /\ FoundIsCurrent' /\ MadeIsNew' /\ OneQueryOfAKind'
  BY <1>1 DEF SetupInv, InsideHoldsLock, FoundIsCurrent, MadeIsNew, OneQueryOfAKind
<1>4. QED BY <1>2, <1>3 DEF SetupInv

\* What the call that leaves its transaction does to the lock and the queries.
LEMMA EndOfTransaction ==
    ASSUME SetupInv, NEW c \in SetupCalls, setupCall[c].pc \in {"find", "create"},
           NEW next \in CallStates, next.pc = "done",
           setupCall' = [setupCall EXCEPT ![c] = next],
           accountLock' = NoSetup,
           queryRows' \in [QueryKinds -> Nat], OneQueryOfAKind'
    PROVE  SetupInv'
<1>1. \A d \in SetupCalls : setupCall'[d] = IF d = c THEN next ELSE setupCall[d]
  BY DEF SetupInv, SetupTypeOK
<1>2. \A d \in SetupCalls : setupCall'[d].pc \notin {"find", "create"}
  BY <1>1 DEF SetupInv, InsideHoldsLock
<1>3. SetupTypeOK'
  BY DEF SetupInv, SetupTypeOK
<1>4. InsideHoldsLock' /\ FoundIsCurrent' /\ MadeIsNew'
  BY <1>1, <1>2 DEF SetupInv, InsideHoldsLock, FoundIsCurrent, MadeIsNew
<1>5. QED BY <1>3, <1>4 DEF SetupInv

\* Every step of every call and of the account's editor keeps the invariant.
LEMMA SetupStepInv == SetupInv /\ [SetupNext]_setupVars => SetupInv'
<1> SUFFICES ASSUME SetupInv, [SetupNext]_setupVars PROVE SetupInv'
  OBVIOUS
<1>0. \A c \in SetupCalls : setupCall[c] \in CallStates
  BY DEF SetupInv, SetupTypeOK
<1>1. ASSUME NEW c \in SetupCalls, NEW g \in SUBSET Groupings, NEW authorized \in BOOLEAN,
             Setup(c, g, authorized)
      PROVE  SetupInv'
  <2> DEFINE next == IF "DAILY" \in g /\ authorized
          THEN [setupCall[c] EXCEPT !.pc = "lock", !.wanted = g \X {"SELLER"}]
          ELSE [setupCall[c] EXCEPT !.pc = "done", !.answer = "REFUSED"]
  <2>1. g \X {"SELLER"} \in SUBSET QueryKinds
    BY DEF QueryKinds
  <2>2. next \in CallStates /\ next.pc \in {"lock", "done"} /\ next.made = {}
    BY <1>0, <1>1, <2>1 DEF CallStates, Setup, SetupAt, SetupInv, MadeIsNew
  <2>3. setupCall' = [setupCall EXCEPT ![c] = next]
    BY <1>1 DEF Setup, SetupInv, SetupTypeOK
  <2> HIDE DEF next
  <2>4. QED BY <1>1, <2>2, <2>3, CallStep DEF Setup
<1>2. ASSUME NEW c \in SetupCalls, EnsureDaily(c) PROVE SetupInv'
  <2> DEFINE kinds == {"DAILY"} \X {"SELLER", "PLATFORM_SELLER"}
             next == [setupCall[c] EXCEPT !.pc = "lock", !.wanted = kinds]
  <2>1. kinds \in SUBSET QueryKinds
    BY DEF QueryKinds, Groupings
  <2>2. next \in CallStates /\ next.pc = "lock" /\ next.made = {}
    BY <1>0, <1>2, <2>1 DEF CallStates, EnsureDaily, SetupAt, SetupInv, MadeIsNew
  <2>3. setupCall' = [setupCall EXCEPT ![c] = next]
    BY <1>2 DEF EnsureDaily, SetupInv, SetupTypeOK
  <2> HIDE DEF next
  <2>4. QED BY <1>2, <2>2, <2>3, CallStep DEF EnsureDaily
<1>3. ASSUME NEW c \in SetupCalls, LockAccount(c) PROVE SetupInv'
  <2>1. setupCall[c].pc = "lock" /\ accountLock = NoSetup /\ setupCall[c].made = {}
    BY <1>3 DEF LockAccount, MayLock, SetupAt, SetupInv, MadeIsNew
  <2>2. CASE OfUser(c) /\ ~eligible
    <3> DEFINE next == [setupCall[c] EXCEPT !.pc = "done", !.answer = "REFUSED"]
    <3>1. next \in CallStates /\ next.pc = "done"
      BY <1>0 DEF CallStates
    <3>2. setupCall' = [setupCall EXCEPT ![c] = next]
      BY <1>3, <2>2 DEF LockAccount, SetupInv, SetupTypeOK
    <3> HIDE DEF next
    <3>3. QED BY <1>3, <2>2, <3>1, <3>2, CallStep DEF LockAccount
  <2>3. CASE ~(OfUser(c) /\ ~eligible)
    <3>1. \A d \in SetupCalls : setupCall[d].pc \notin {"find", "create"}
      BY <2>1, SetupAssumption DEF SetupInv, InsideHoldsLock
    <3>2. setupCall' = [setupCall EXCEPT ![c].pc = "find"] /\ accountLock' = c
          /\ queryRows' = queryRows
      BY <1>3, <2>3 DEF LockAccount
    <3>3. \A d \in SetupCalls :
             setupCall'[d] = IF d = c THEN [setupCall[c] EXCEPT !.pc = "find"] ELSE setupCall[d]
      BY <3>2 DEF SetupInv, SetupTypeOK
    <3>4. SetupTypeOK'
      BY <1>0, <3>2 DEF SetupInv, SetupTypeOK, CallStates
    <3>5. [setupCall[c] EXCEPT !.pc = "find"].pc = "find"
          /\ [setupCall[c] EXCEPT !.pc = "find"].made = {}
      BY <1>0, <2>1 DEF CallStates
    <3>6. InsideHoldsLock' /\ FoundIsCurrent' /\ MadeIsNew' /\ OneQueryOfAKind'
      BY <3>1, <3>2, <3>3, <3>5 DEF SetupInv, InsideHoldsLock, FoundIsCurrent, MadeIsNew,
         OneQueryOfAKind
    <3>7. QED BY <3>4, <3>6 DEF SetupInv
  <2>4. QED BY <2>2, <2>3
<1>4. ASSUME NEW c \in SetupCalls, FindQueries(c) PROVE SetupInv'
  <2> DEFINE there == {k \in QueryKinds : queryRows[k] > 0}
             next == [setupCall[c] EXCEPT !.found = there, !.pc = "create"]
  <2>1. setupCall[c].pc = "find" /\ setupCall[c].made = {} /\ accountLock = c
    BY <1>4 DEF FindQueries, SetupAt, SetupInv, MadeIsNew, InsideHoldsLock
  <2>2. next \in CallStates /\ next.pc = "create" /\ next.made = {} /\ next.found = there
    BY <1>0, <2>1 DEF CallStates
  <2>3. setupCall' = [setupCall EXCEPT ![c] = next]
    BY <1>4 DEF FindQueries, SetupInv, SetupTypeOK
  <2> HIDE DEF next
  <2>4. QED BY <1>4, <2>1, <2>2, <2>3, CallStep DEF FindQueries
<1>5. ASSUME NEW c \in SetupCalls, NEW k \in QueryKinds, CreateQuery(c, k) PROVE SetupInv'
  <2> DEFINE next == [setupCall[c] EXCEPT !.made = @ \cup {k}]
  <2>1. /\ setupCall[c].pc = "create" /\ accountLock = c /\ k \notin setupCall[c].found
        /\ setupCall[c].made \cap setupCall[c].found = {}
        /\ setupCall[c].found = {q \in QueryKinds : queryRows[q] > 0}
    BY <1>5 DEF CreateQuery, SetupAt, SetupInv, MadeIsNew, InsideHoldsLock, FoundIsCurrent
  <2>2. /\ next \in CallStates /\ next.pc = "create" /\ next.found = setupCall[c].found
        /\ next.made = setupCall[c].made \cup {k}
    BY <1>0, <2>1 DEF CallStates
  <2>3. setupCall' = [setupCall EXCEPT ![c] = next]
    BY <1>5 DEF CreateQuery, SetupInv, SetupTypeOK
  <2> HIDE DEF next
  <2>4. next.made \cap next.found = {}
    BY <2>1, <2>2
  <2>5. next.pc \notin {"idle", "lock", "find"}
    BY <2>2
  <2>6. UNCHANGED <<queryRows, accountLock>>
    BY <1>5 DEF CreateQuery
  <2>7. QED BY <2>1, <2>2, <2>3, <2>4, <2>5, <2>6, CallStep
<1>6. ASSUME NEW c \in SetupCalls, Commit(c) PROVE SetupInv'
  <2> DEFINE next == [setupCall[c] EXCEPT !.pc = "done", !.answer = "READY"]
  <2>1. \A k \in QueryKinds : k \in setupCall[c].made => queryRows[k] = 0
    BY <1>6 DEF Commit, SetupAt, SetupInv, SetupTypeOK, FoundIsCurrent, MadeIsNew
  <2>2. \A k \in QueryKinds :
           queryRows'[k] = queryRows[k] + (IF k \in setupCall[c].made THEN 1 ELSE 0)
    BY <1>6 DEF Commit
  <2>3. queryRows' \in [QueryKinds -> Nat] /\ OneQueryOfAKind'
    BY <1>6, <2>1, <2>2 DEF Commit, SetupInv, SetupTypeOK, OneQueryOfAKind
  <2>4. next \in CallStates /\ next.pc = "done"
    BY <1>0 DEF CallStates
  <2>5. setupCall' = [setupCall EXCEPT ![c] = next]
    BY <1>6 DEF Commit, SetupInv, SetupTypeOK
  <2> HIDE DEF next
  <2>6. QED BY <1>6, <2>3, <2>4, <2>5, EndOfTransaction DEF Commit, SetupAt
<1>7. ASSUME NEW c \in SetupCalls, Rollback(c) PROVE SetupInv'
  <2> DEFINE next == [setupCall[c] EXCEPT !.pc = "done", !.answer = "FAILED"]
  <2>1. next \in CallStates /\ next.pc = "done"
    BY <1>0 DEF CallStates
  <2>2. setupCall' = [setupCall EXCEPT ![c] = next]
    BY <1>7 DEF Rollback, SetupInv, SetupTypeOK
  <2>3. queryRows' \in [QueryKinds -> Nat] /\ OneQueryOfAKind'
    BY <1>7 DEF Rollback, SetupInv, SetupTypeOK, OneQueryOfAKind
  <2> HIDE DEF next
  <2>4. QED BY <1>7, <2>1, <2>2, <2>3, EndOfTransaction DEF Rollback
<1>8. ASSUME UNCHANGED <<queryRows, accountLock, setupCall>> PROVE SetupInv'
  BY <1>8 DEF SetupInv, SetupTypeOK, InsideHoldsLock, FoundIsCurrent, MadeIsNew,
     OneQueryOfAKind
<1>9. ChangeAccount => UNCHANGED <<queryRows, accountLock, setupCall>>
  BY DEF ChangeAccount
<1>10. \A g \in Groupings : FetchSeries(g) => UNCHANGED <<queryRows, accountLock, setupCall>>
  BY DEF FetchSeries
<1>11. UNCHANGED setupVars => UNCHANGED <<queryRows, accountLock, setupCall>>
  BY DEF setupVars
<1>12. QED
  BY <1>1, <1>2, <1>3, <1>4, <1>5, <1>6, <1>7, <1>8, <1>9, <1>10, <1>11
  DEF SetupNext, SetupStep

\* Setups by users and by payment events, overlapping in any number, leave at
\* most one query of a kind (ensureSellerQueries, ensureDailyQueries).
THEOREM OneQueryOfAKindHolds == SetupSpec => []OneQueryOfAKind
<1>1. SetupInv => OneQueryOfAKind
  BY DEF SetupInv
<1>2. QED
  BY SetupInitInv, SetupStepInv, <1>1, PTL DEF SetupSpec

-----------------------------------------------------------------------------
(***************************************************************************)
(* Proof that a period has one current report, for any number of processes,  *)
(* handlers, reconstructions and digestions.  A row becomes current when it  *)
(* is inserted or when a digestion writes back the label it read; the unique *)
(* key lets neither happen beside another current row.                       *)
(***************************************************************************)

ReportRow == [current : BOOLEAN]

\* The rows and what the digestions keep of them have values of their kind.
BucketTypeOK ==
    /\ reportRows \in Seq(ReportRow)
    /\ digester \in [Digesters -> [row : Nat, current : BOOLEAN]]

BucketInv == BucketTypeOK /\ OneCurrentReport

LEMMA BucketInitInv == BucketInit => BucketInv
  BY DEF BucketInit, BucketInv, BucketTypeOK, OneCurrentReport, Current, NotDigesting

\* Labelling one row changes whether this row is current, and nothing else.
LEMMA LabelRow ==
    ASSUME reportRows \in Seq(ReportRow), NEW r, NEW label \in BOOLEAN,
           reportRows' = [reportRows EXCEPT ![r].current = label]
    PROVE  /\ reportRows' \in Seq(ReportRow)
           /\ Current' \subseteq Current \cup {r}
           /\ ~label => Current' \subseteq Current
<1> DEFINE n == Len(reportRows)
<1>1. n \in Nat /\ reportRows \in [1..n -> ReportRow] /\ DOMAIN reportRows = 1..n
  OBVIOUS
<1>2. reportRows' \in Seq(ReportRow)
  <2>1. reportRows' \in [1..n -> ReportRow]
    BY <1>1 DEF ReportRow
  <2>2. QED BY <1>1, <2>1, SeqDef
<1>3. DOMAIN reportRows' = DOMAIN reportRows
  OBVIOUS
<1>4. \A i \in DOMAIN reportRows :
         reportRows'[i] = IF i = r THEN [reportRows[i] EXCEPT !.current = label]
                                   ELSE reportRows[i]
  OBVIOUS
<1>5. \A i \in DOMAIN reportRows :
         reportRows'[i].current = IF i = r THEN label ELSE reportRows[i].current
  BY <1>1, <1>4 DEF ReportRow
<1>6. QED
  BY <1>2, <1>3, <1>5 DEF Current

LEMMA BucketStepInv == BucketInv /\ [BucketNext]_bucketVars => BucketInv'
<1> SUFFICES ASSUME BucketInv, [BucketNext]_bucketVars PROVE BucketInv'
  OBVIOUS
<1>1. ASSUME UNCHANGED <<reportRows, digester>> PROVE BucketInv'
  BY <1>1 DEF BucketInv, BucketTypeOK, OneCurrentReport, Current
<1>2. ASSUME NEW c \in BucketCalls, BucketStep(c) PROVE BucketInv'
  <2>1. CASE InsertReport(c) /\ MayInsert
    <3>1. reportRows' = Append(reportRows, [current |-> TRUE]) /\ digester' = digester
      BY <2>1 DEF InsertReport
    <3>2. reportRows' \in Seq(ReportRow)
      BY <3>1 DEF BucketInv, BucketTypeOK, ReportRow
    <3>3. Current' \subseteq Current \cup {Len(reportRows) + 1}
      BY <3>1 DEF BucketInv, BucketTypeOK, Current
    <3>4. Current = {}
      BY <2>1 DEF MayInsert
    <3>5. OneCurrentReport'
      BY <3>3, <3>4 DEF OneCurrentReport
    <3>6. QED BY <3>1, <3>2, <3>5 DEF BucketInv, BucketTypeOK
  <2>2. CASE InsertReport(c) /\ ~MayInsert
    BY <2>2, <1>1 DEF InsertReport
  <2>3. CASE FindReport(c)
    BY <2>3, <1>1 DEF FindReport
  <2>4. CASE AnnounceCreation(c)
    BY <2>4, <1>1 DEF AnnounceCreation
  <2>5. CASE RefetchReport(c)
    BY <2>5, <1>1 DEF RefetchReport
  <2>6. CASE \E p \in BucketPayments : QueuePayment(c, p)
    BY <2>6, <1>1 DEF QueuePayment
  <2>7. CASE EndBucketCall(c)
    BY <2>7, <1>1 DEF EndBucketCall
  <2>8. QED
    BY <1>2, <2>1, <2>2, <2>3, <2>4, <2>5, <2>6, <2>7 DEF BucketStep
<1>3. ASSUME NEW h \in EventHandlers, HandleEvent(h) PROVE BucketInv'
  BY <1>3, <1>1 DEF HandleEvent
<1>4. ASSUME NEW c \in Rebuilders, NEW r \in DOMAIN reportRows, LoadForRebuild(c, r)
      PROVE  BucketInv'
  BY <1>4, <1>1 DEF LoadForRebuild
<1>5. ASSUME NEW c \in Rebuilders, ArchiveOld(c) PROVE BucketInv'
  <2> DEFINE r == bucketCall[c].old
  <2>1. reportRows' = [reportRows EXCEPT ![r].current = FALSE] /\ digester' = digester
    BY <1>5 DEF ArchiveOld
  <2> HIDE DEF r
  <2>2. reportRows' \in Seq(ReportRow) /\ Current' \subseteq Current
    BY <2>1, LabelRow DEF BucketInv, BucketTypeOK
  <2>3. QED BY <2>1, <2>2 DEF BucketInv, BucketTypeOK, OneCurrentReport
<1>6. ASSUME NEW c \in Rebuilders, ListOld(c) PROVE BucketInv'
  BY <1>6, <1>1 DEF ListOld
<1>7. ASSUME NEW c \in Rebuilders, NEW asked \in BOOLEAN, IncludeOlder(c, asked)
      PROVE  BucketInv'
  BY <1>7, <1>1 DEF IncludeOlder
<1>8. ASSUME NEW d \in Digesters, NEW r \in DOMAIN reportRows, LoadForDigestion(d, r)
      PROVE  BucketInv'
  <2>1. reportRows[r].current \in BOOLEAN /\ r \in Nat
    <3>1. reportRows[r] \in ReportRow /\ r \in Nat
      BY DEF BucketInv, BucketTypeOK
    <3>2. QED BY <3>1 DEF ReportRow
  <2>2. digester' \in [Digesters -> [row : Nat, current : BOOLEAN]]
    BY <1>8, <2>1 DEF LoadForDigestion, BucketInv, BucketTypeOK
  <2>3. QED
    BY <1>8, <2>2 DEF LoadForDigestion, BucketInv, BucketTypeOK, OneCurrentReport, Current
<1>9. ASSUME NEW d \in Digesters, SaveDigested(d) PROVE BucketInv'
  <2> DEFINE r == digester[d].row
             label == digester[d].current
  <2>1. r \in Nat /\ label \in BOOLEAN
    BY DEF BucketInv, BucketTypeOK
  <2>2. digester' \in [Digesters -> [row : Nat, current : BOOLEAN]]
    BY <1>9 DEF SaveDigested, NotDigesting, BucketInv, BucketTypeOK
  <2>3. CASE label /\ Current \ {r} # {}
    <3>1. reportRows' = reportRows
      BY <1>9, <2>3 DEF SaveDigested
    <3>2. QED BY <2>2, <3>1 DEF BucketInv, BucketTypeOK, OneCurrentReport, Current
  <2>4. CASE ~(label /\ Current \ {r} # {})
    <3>1. reportRows' = [reportRows EXCEPT ![r].current = label]
      BY <1>9, <2>4 DEF SaveDigested
    <3> HIDE DEF r, label
    <3>2. /\ reportRows' \in Seq(ReportRow) /\ Current' \subseteq Current \cup {r}
          /\ ~label => Current' \subseteq Current
      BY <2>1, <3>1, LabelRow DEF BucketInv, BucketTypeOK
    <3>3. OneCurrentReport'
      BY <2>1, <2>4, <3>2 DEF BucketInv, OneCurrentReport
    <3>4. QED BY <2>2, <3>2, <3>3 DEF BucketInv, BucketTypeOK
  <2>5. QED BY <2>3, <2>4
<1>10. CASE UNCHANGED bucketVars
  BY <1>10, <1>1 DEF bucketVars
<1>11. QED
  BY <1>2, <1>3, <1>4, <1>5, <1>6, <1>7, <1>8, <1>9, <1>10 DEF BucketNext

\* However handlers in any number of processes, reconstructions and stale saves
\* of the digestion overlap, a period has at most one current report
\* (findOrCreateByQuery and the unique key it relies on).
THEOREM OneCurrentReportHolds == BucketSpec => []OneCurrentReport
<1>1. BucketInv => OneCurrentReport
  BY DEF BucketInv
<1>2. QED
  BY BucketInitInv, BucketStepInv, <1>1, PTL DEF BucketSpec

-----------------------------------------------------------------------------
(***************************************************************************)
(* Billing marks no report it has not invoiced, and closes no open payment    *)
(* that was not completed and posted, for any reports, runs, confirmations    *)
(* and days, and wherever a run fails or dies.                                *)
(*                                                                           *)
(* BillingInv adds to the two claims what carries them from step to step: a   *)
(* run that is about to mark has its payment, operation and orders; a row a   *)
(* digestion read and will save says "billed" only of an invoiced report; a   *)
(* confirmation knows what it has done.  Billing payments only ever gain.     *)
(***************************************************************************)

Invoiced(r) ==
    \E p \in DOMAIN billings :
        r \in billings[p].reports /\ billings[p].operation /\ billings[p].orders # "NONE"

DailyRows == [count : Nat, amount : Int, billed : BOOLEAN]

\* The totals are sums that no step reads again: any values T will do.
BillRows(T) ==
    [reports : SUBSET DailyReports, total : T, status : {"WAITING", "COMPLETED"},
     open : BOOLEAN, operation : BOOLEAN, orders : {"NONE", "OPEN", "CLOSED"}, posted : BOOLEAN]

RunStates ==
    [pc : {"idle", "done", "currencies", "find", "operation", "orders", "mark"},
     kind : BillingKinds, reports : SUBSET DailyReports, payment : Nat]

ConfirmerStates ==
    [pc : {"idle", "done", "complete", "post", "closeOrders", "close"}, payment : Nat]

\* Kinds of values; a row a digestion holds has a payment left to add.
BillingTypes ==
    /\ daily \in [DailyReports -> DailyRows]
    /\ staleReport \in [DailyReports -> SUBSET DailyRows]
    /\ \A r \in DailyReports : \A row \in staleReport[r] : row.count < Len(Digested[r])
    /\ billingRun \in [BillingRuns -> RunStates]
    /\ confirmer \in [Confirmers -> ConfirmerStates]
    /\ \E T : billings \in Seq(BillRows(T))

StaleIsInvoiced ==
    \A r \in DailyReports : \A row \in staleReport[r] : row.billed => Invoiced(r)

RunHolds(b) ==
    billingRun[b].pc \in {"operation", "orders", "mark"} =>
        LET p == billingRun[b].payment IN
        /\ p \in DOMAIN billings
        /\ billings[p].reports = billingRun[b].reports
        /\ billingRun[b].pc \in {"orders", "mark"} => billings[p].operation
        /\ billingRun[b].pc = "mark" => billings[p].orders # "NONE"

ConfirmerHolds(c) ==
    confirmer[c].pc \notin {"idle", "done"} =>
        LET p == confirmer[c].payment IN
        /\ p \in DOMAIN billings
        /\ confirmer[c].pc # "complete" => billings[p].status = "COMPLETED"
        /\ confirmer[c].pc \in {"closeOrders", "close"} => billings[p].posted

BillingInv ==
    /\ BillingTypes
    /\ BilledIsInvoiced
    /\ StaleIsInvoiced
    /\ ClosedIsPosted
    /\ \A b \in BillingRuns : RunHolds(b)
    /\ \A c \in Confirmers : ConfirmerHolds(c)

LEMMA BillingInitInv == BillingInit => BillingInv
<1> SUFFICES ASSUME BillingInit PROVE BillingInv
    OBVIOUS
<1>1. billings = <<>> /\ DOMAIN billings = {} /\ billings \in Seq(BillRows({}))
    BY DEF BillingInit
<1>2. daily \in [DailyReports -> DailyRows] /\ staleReport \in [DailyReports -> SUBSET DailyRows]
    BY DEF BillingInit, DailyRows
<1>3. NoRun \in RunStates
    BY DEF NoRun, RunStates, BillingKinds
<1>4. billingRun \in [BillingRuns -> RunStates] /\ confirmer \in [Confirmers -> ConfirmerStates]
    BY <1>3 DEF BillingInit, ConfirmerStates
<1>5. BillingTypes
    BY <1>1, <1>2, <1>4 DEF BillingInit, BillingTypes
<1>6. BilledIsInvoiced /\ StaleIsInvoiced /\ ClosedIsPosted
    BY <1>1 DEF BillingInit, BilledIsInvoiced, StaleIsInvoiced, ClosedIsPosted
<1>7. \A b \in BillingRuns : RunHolds(b)
    BY DEF BillingInit, RunHolds, NoRun
<1>8. \A c \in Confirmers : ConfirmerHolds(c)
    BY DEF BillingInit, ConfirmerHolds
<1>9. QED BY <1>5, <1>6, <1>7, <1>8 DEF BillingInv
-----------------------------------------------------------------------------
(* Billing payments *)

\* What no step takes back from a billing payment.
Kept(p) ==
    /\ p \in DOMAIN billings'
    /\ billings'[p].reports = billings[p].reports
    /\ billings[p].operation => billings'[p].operation
    /\ billings[p].orders # "NONE" => billings'[p].orders # "NONE"
    /\ billings[p].status = "COMPLETED" => billings'[p].status = "COMPLETED"
    /\ billings[p].posted => billings'[p].posted

BillsKept == \A p \in DOMAIN billings : Kept(p)

\* One payment is replaced by another that lacks nothing the old one had.
LEMMA ReplaceBill ==
    ASSUME BillingTypes, NEW k \in DOMAIN billings, NEW T, NEW new \in BillRows(T),
           billings \in Seq(BillRows(T)), billings' = [billings EXCEPT ![k] = new]
    PROVE  /\ billings' \in Seq(BillRows(T))
           /\ DOMAIN billings' = DOMAIN billings
           /\ billings'[k] = new
           /\ \A p \in DOMAIN billings : p # k => billings'[p] = billings[p]
<1>1. k \in 1..Len(billings) /\ DOMAIN billings = 1..Len(billings)
    BY LenProperties
<1>2. QED BY <1>1, ExceptSeq, LenProperties

\* An invoiced report stays invoiced, and runs and confirmations that do not move
\* keep what they hold.
LEMMA KeptHolds ==
    ASSUME BillsKept
    PROVE  /\ \A r : Invoiced(r) => Invoiced(r)'
           /\ \A b \in BillingRuns :
                 RunHolds(b) /\ billingRun'[b] = billingRun[b] => RunHolds(b)'
           /\ \A c \in Confirmers :
                 ConfirmerHolds(c) /\ confirmer'[c] = confirmer[c] => ConfirmerHolds(c)'
BY DEF BillsKept, Kept, Invoiced, RunHolds, ConfirmerHolds

\* A step that leaves the reports alone and the payments better off: what is left is
\* what the moving run or confirmation holds, and that closed payments are posted.
LEMMA PaymentStep ==
    ASSUME BillingInv, BillingTypes', BillsKept, UNCHANGED <<daily, staleReport>>,
           ClosedIsPosted',
           \A b \in BillingRuns : billingRun'[b] = billingRun[b] \/ RunHolds(b)',
           \A c \in Confirmers : confirmer'[c] = confirmer[c] \/ ConfirmerHolds(c)'
    PROVE  BillingInv'
<1>1. BilledIsInvoiced' /\ StaleIsInvoiced'
    BY KeptHolds DEF BillingInv, BilledIsInvoiced, StaleIsInvoiced, Invoiced
<1>2. QED BY <1>1, KeptHolds DEF BillingInv

LEMMA SameBills == UNCHANGED billings => BillsKept
BY DEF BillsKept, Kept
-----------------------------------------------------------------------------
(* The digestion *)

LEMMA DailyKeeps ==
    ASSUME BillingInv, NEW r \in DailyReports, ReadDaily(r) \/ SaveDaily(r)
    PROVE  BillingInv'
<1>1. UNCHANGED <<billings, billingRun, confirmer>>
    BY DEF ReadDaily, SaveDaily
<1>2. BillingTypes
    BY DEF BillingInv
<1>3. /\ \A x : Invoiced(x)' <=> Invoiced(x)
      /\ ClosedIsPosted'
      /\ \A b \in BillingRuns : RunHolds(b)'
      /\ \A c \in Confirmers : ConfirmerHolds(c)'
    BY <1>1 DEF BillingInv, Invoiced, ClosedIsPosted, RunHolds, ConfirmerHolds
<1>4. BilledIsInvoiced <=> \A x \in DailyReports : daily[x].billed => Invoiced(x)
    BY DEF BilledIsInvoiced, Invoiced
<1>5. BilledIsInvoiced' <=> \A x \in DailyReports : daily'[x].billed => Invoiced(x)'
    BY DEF BilledIsInvoiced, Invoiced
<1>6. CASE ReadDaily(r)
    <2>1. UNCHANGED daily /\ staleReport' = [staleReport EXCEPT ![r] = {daily[r]}]
          /\ daily[r].count < Len(Digested[r])
        BY <1>6 DEF ReadDaily
    <2>2. BillingTypes'
        BY <1>1, <1>2, <2>1 DEF BillingTypes
    <2>3. StaleIsInvoiced'
        BY <1>2, <1>3, <1>4, <2>1 DEF BillingInv, StaleIsInvoiced, BillingTypes
    <2>4. QED BY <1>3, <1>4, <1>5, <2>1, <2>2, <2>3 DEF BillingInv
<1>7. CASE SaveDaily(r)
    <2>1. PICK row \in staleReport[r] :
              daily' = [daily EXCEPT ![r] = [row EXCEPT
                 !.count = @ + 1, !.amount = @ + Digested[r][row.count + 1]]]
        BY <1>7 DEF SaveDaily
    <2> DEFINE new == [row EXCEPT !.count = @ + 1,
                                  !.amount = @ + Digested[r][row.count + 1]]
    <2>2. row \in DailyRows /\ row.count < Len(Digested[r]) /\ (row.billed => Invoiced(r))
        BY <1>2 DEF BillingTypes, BillingInv, StaleIsInvoiced
    <2>3. Digested[r] \in Seq(Int)
        BY BillingAssumption
    <2>4. Digested[r][row.count + 1] \in Int
        <3>1. row.count + 1 \in 1..Len(Digested[r])
            BY <2>2, <2>3, LenProperties DEF DailyRows
        <3>2. QED BY <2>3, <3>1, ElementOfSeq
    <2>5. new \in DailyRows /\ new.billed = row.billed
        <3>1. /\ row \in [count : Nat, amount : Int, billed : BOOLEAN]
              /\ row.count \in Nat /\ row.amount \in Int
            BY <2>2 DEF DailyRows
        <3> DEFINE n == row.count + 1
                   a == row.amount + Digested[r][row.count + 1]
        <3>2. n \in Nat /\ a \in Int
            BY <2>4, <3>1
        <3>3. new = [row EXCEPT !.count = n, !.amount = a]
            OBVIOUS
        <3> HIDE DEF n, a, new
        <3>4. QED BY <3>1, <3>2, <3>3 DEF DailyRows
    <2> HIDE DEF new
    <2>6. daily' = [daily EXCEPT ![r] = new]
        BY <2>1 DEF new
    <2>7. staleReport' = [staleReport EXCEPT ![r] = {}]
        BY <1>7 DEF SaveDaily
    <2>8. BillingTypes'
        BY <1>1, <1>2, <2>5, <2>6, <2>7 DEF BillingTypes
    <2>9. \A x \in DailyReports : daily'[x].billed => Invoiced(x)'
        BY <1>2, <1>3, <1>4, <2>2, <2>5, <2>6 DEF BillingInv, BillingTypes
    <2>10. StaleIsInvoiced'
        BY <1>2, <1>3, <2>7 DEF BillingInv, StaleIsInvoiced, BillingTypes
    <2>11. QED BY <1>3, <1>5, <2>8, <2>9, <2>10 DEF BillingInv
<1>8. QED BY <1>6, <1>7
-----------------------------------------------------------------------------
(* The runs *)

\* A run moves on, or to a kind.
LEMMA RunTypes ==
    ASSUME BillingTypes, NEW b \in BillingRuns
    PROVE  /\ billingRun[b] \in RunStates
           /\ \A p \in {"done", "currencies", "find", "operation", "orders", "mark"} :
                RunGoes(b, p) =>
                  /\ billingRun' \in [BillingRuns -> RunStates]
                  /\ billingRun'[b].pc = p
                  /\ billingRun'[b].payment = billingRun[b].payment
                  /\ billingRun'[b].reports = billingRun[b].reports
                  /\ \A x \in BillingRuns : x # b => billingRun'[x] = billingRun[x]
           /\ billingRun' = [billingRun EXCEPT ![b] = AfterKind(b)] =>
                  /\ billingRun' \in [BillingRuns -> RunStates]
                  /\ billingRun'[b].pc \in {"find", "done"}
                  /\ \A x \in BillingRuns : x # b => billingRun'[x] = billingRun[x]
<1>1. billingRun \in [BillingRuns -> RunStates] /\ billingRun[b] \in RunStates
    BY DEF BillingTypes
<1>2. ASSUME NEW p \in {"done", "currencies", "find", "operation", "orders", "mark"}, RunGoes(b, p)
      PROVE  /\ billingRun' \in [BillingRuns -> RunStates]
             /\ billingRun'[b].pc = p
             /\ billingRun'[b].payment = billingRun[b].payment
             /\ billingRun'[b].reports = billingRun[b].reports
             /\ \A x \in BillingRuns : x # b => billingRun'[x] = billingRun[x]
    <2> DEFINE new == [billingRun[b] EXCEPT !.pc = p]
    <2>1. /\ new \in RunStates /\ new.pc = p /\ new.payment = billingRun[b].payment
          /\ new.reports = billingRun[b].reports
        BY <1>1 DEF RunStates
    <2>2. billingRun' = [billingRun EXCEPT ![b] = new]
        BY <1>2 DEF RunGoes
    <2> HIDE DEF new
    <2>3. QED BY <1>1, <2>1, <2>2
<1>3. AfterKind(b) \in RunStates /\ AfterKind(b).pc \in {"find", "done"}
    BY <1>1 DEF AfterKind, RunStates, BillingKinds
<1>4. QED BY <1>1, <1>2, <1>3

LEMMA RunKeeps ==
    ASSUME BillingInv, NEW b \in BillingRuns,
           \/ \E byCron, configured \in BOOLEAN : BeginBilling(b, byCron, configured)
           \/ FindCurrencies(b) \/ FindUnbilled(b) \/ CreateOperation(b) \/ CreateOrders(b)
           \/ MarkBilled(b) \/ BillingFails(b)
    PROVE  BillingInv'
<1>1. BillingTypes /\ RunHolds(b) /\ billingRun[b] \in RunStates
    BY RunTypes DEF BillingInv
<1>2. CASE \/ \E byCron, configured \in BOOLEAN : BeginBilling(b, byCron, configured)
           \/ FindCurrencies(b) \/ BillingFails(b)
    <2>1. /\ UNCHANGED <<daily, staleReport, billings, confirmer>>
          /\ \E p \in {"done", "currencies", "find"} : RunGoes(b, p)
        BY <1>2 DEF BeginBilling, FindCurrencies, BillingFails
    <2>2. /\ billingRun' \in [BillingRuns -> RunStates]
          /\ billingRun'[b].pc \in {"done", "currencies", "find"}
          /\ \A x \in BillingRuns : x # b => billingRun'[x] = billingRun[x]
        BY <1>1, <2>1, RunTypes
    <2>3. BillingTypes'
        BY <1>1, <2>1, <2>2 DEF BillingTypes
    <2>4. RunHolds(b)'
        BY <2>2 DEF RunHolds
    <2>5. ClosedIsPosted'
        BY <2>1 DEF BillingInv, ClosedIsPosted
    <2>6. QED BY <2>1, <2>2, <2>3, <2>4, <2>5, SameBills, PaymentStep
<1>3. CASE FindUnbilled(b)
    <2> DEFINE found == UnbilledOf(billingRun[b].kind)
               bill == [reports |-> found, total |-> TotalOf(found), status |-> "WAITING",
                        open |-> TRUE, operation |-> FALSE, orders |-> "NONE", posted |-> FALSE]
    <2>1. UNCHANGED <<daily, staleReport, confirmer>>
        BY <1>3 DEF FindUnbilled
    <2>2. CASE billingRun' = [billingRun EXCEPT ![b] = AfterKind(b)] /\ UNCHANGED billings
        <3>1. /\ billingRun' \in [BillingRuns -> RunStates]
              /\ billingRun'[b].pc \in {"find", "done"}
              /\ \A x \in BillingRuns : x # b => billingRun'[x] = billingRun[x]
            BY <1>1, <2>2, RunTypes
        <3>2. BillingTypes'
            BY <1>1, <2>1, <2>2, <3>1 DEF BillingTypes
        <3>3. RunHolds(b)' /\ ClosedIsPosted'
            BY <2>2, <3>1 DEF BillingInv, ClosedIsPosted, RunHolds
        <3>4. QED BY <2>1, <2>2, <3>1, <3>2, <3>3, SameBills, PaymentStep
    <2>3. CASE /\ billingRun' = [billingRun EXCEPT ![b].pc = "operation", ![b].reports = found,
                                                   ![b].payment = Len(billings) + 1]
               /\ billings' = Append(billings, bill)
        <3>1. PICK T : billings \in Seq(BillRows(T))
            BY <1>1 DEF BillingTypes
        <3> DEFINE U == T \cup {TotalOf(found)}
        <3>2. found \in SUBSET DailyReports
            BY DEF UnbilledOf, Unbilled
        <3>3. bill \in BillRows(U) /\ BillRows(T) \subseteq BillRows(U)
            BY <3>2 DEF BillRows
        <3>4. billings \in Seq(BillRows(U)) /\ Len(billings) \in Nat
              /\ DOMAIN billings = 1..Len(billings)
            BY <3>1, <3>3, SeqMonotonic, LenProperties
        <3>5. /\ bill.reports = found /\ bill.open = TRUE
            OBVIOUS
        <3> HIDE DEF bill, U, found
        <3>6. /\ billings' \in Seq(BillRows(U)) /\ DOMAIN billings' = 1..(Len(billings) + 1)
              /\ \A p \in DOMAIN billings : billings'[p] = billings[p]
              /\ billings'[Len(billings) + 1] = bill
            BY <2>3, <3>3, <3>4, LenProperties
        <3>7. BillsKept
            BY <3>4, <3>6 DEF BillsKept, Kept
        <3> DEFINE new == [billingRun[b] EXCEPT !.pc = "operation", !.reports = found,
                                                !.payment = Len(billings) + 1]
        <3>8. /\ new \in RunStates /\ new.pc = "operation" /\ new.reports = found
              /\ new.payment = Len(billings) + 1
            <4> DEFINE nr == Len(billings) + 1
            <4>1. nr \in Nat /\ new = [billingRun[b] EXCEPT !.pc = "operation", !.reports = found,
                                                             !.payment = nr]
                BY <3>4
            <4> HIDE DEF nr, new
            <4>2. /\ new \in RunStates /\ new.pc = "operation" /\ new.reports = found
                  /\ new.payment = nr
                BY <1>1, <3>2, <4>1 DEF RunStates
            <4>3. QED BY <4>2 DEF nr
        <3>9. billingRun' = [billingRun EXCEPT ![b] = new] /\ billingRun \in [BillingRuns -> RunStates]
            BY <1>1, <2>3 DEF BillingTypes
        <3> HIDE DEF new
        <3>10. /\ billingRun' \in [BillingRuns -> RunStates] /\ billingRun'[b] = new
               /\ \A x \in BillingRuns : x # b => billingRun'[x] = billingRun[x]
            BY <3>8, <3>9
        <3>11. BillingTypes'
            BY <1>1, <2>1, <3>6, <3>10 DEF BillingTypes
        <3>12. RunHolds(b)'
            BY <3>4, <3>5, <3>6, <3>8, <3>10 DEF RunHolds
        <3>13. ClosedIsPosted'
            BY <3>4, <3>5, <3>6 DEF BillingInv, ClosedIsPosted
        <3>14. QED BY <2>1, <3>7, <3>10, <3>11, <3>12, <3>13, PaymentStep
    <2>4. QED BY <1>3, <2>2, <2>3 DEF FindUnbilled
<1>4. CASE CreateOperation(b) \/ CreateOrders(b)
    <2> DEFINE k == billingRun[b].payment
    <2>1. PICK T : billings \in Seq(BillRows(T))
        BY <1>1 DEF BillingTypes
    <2>2. k \in DOMAIN billings /\ billings[k] \in BillRows(T)
          /\ billings[k].reports = billingRun[b].reports
          /\ (CreateOrders(b) => billings[k].operation)
        <3>1. /\ k \in DOMAIN billings /\ billings[k].reports = billingRun[b].reports
              /\ (CreateOrders(b) => billings[k].operation)
            BY <1>1, <1>4 DEF CreateOperation, CreateOrders, RunAt, RunHolds
        <3>2. QED BY <2>1, <3>1, LenProperties, ElementOfSeq
    <2>3. PICK new \in BillRows(T) :
            /\ billings' = [billings EXCEPT ![k] = new]
            /\ new.reports = billings[k].reports /\ new.status = billings[k].status
            /\ new.posted = billings[k].posted /\ new.open = billings[k].open
            /\ billings[k].operation => new.operation
            /\ CreateOperation(b) => new.operation /\ new.orders = billings[k].orders
            /\ CreateOrders(b) => new.orders # "NONE"
        <3>1. CASE CreateOperation(b)
            <4> DEFINE n == [billings[k] EXCEPT !.operation = TRUE]
            <4>1. billings' = [billings EXCEPT ![k] = n] /\ ~CreateOrders(b)
                BY <3>1 DEF CreateOperation, CreateOrders, RunAt
            <4>2. /\ n \in BillRows(T) /\ n.reports = billings[k].reports
                  /\ n.status = billings[k].status /\ n.posted = billings[k].posted
                  /\ n.open = billings[k].open /\ n.operation /\ n.orders = billings[k].orders
                BY <2>2 DEF BillRows
            <4> HIDE DEF n
            <4>3. QED BY <4>1, <4>2
        <3>2. CASE CreateOrders(b)
            <4> DEFINE n == [billings[k] EXCEPT !.orders = "OPEN"]
            <4>1. billings' = [billings EXCEPT ![k] = n] /\ ~CreateOperation(b)
                BY <3>2 DEF CreateOperation, CreateOrders, RunAt
            <4>2. /\ n \in BillRows(T) /\ n.reports = billings[k].reports
                  /\ n.status = billings[k].status /\ n.posted = billings[k].posted
                  /\ n.open = billings[k].open /\ n.operation = billings[k].operation
                  /\ n.orders = "OPEN"
                BY <2>2 DEF BillRows
            <4> HIDE DEF n
            <4>3. QED BY <4>1, <4>2
        <3>3. QED BY <1>4, <3>1, <3>2
    <2>4. /\ billings' \in Seq(BillRows(T)) /\ DOMAIN billings' = DOMAIN billings
          /\ billings'[k] = new /\ \A p \in DOMAIN billings : p # k => billings'[p] = billings[p]
        BY <1>1, <2>1, <2>2, <2>3, ReplaceBill
    <2>5. new.orders # "NONE" \/ billings[k].orders = "NONE"
        BY <1>4, <2>3
    <2>6. BillsKept
        BY <2>3, <2>4, <2>5 DEF BillsKept, Kept
    <2>7. ClosedIsPosted'
        BY <2>2, <2>3, <2>4 DEF BillingInv, ClosedIsPosted
    <2>8. /\ UNCHANGED <<daily, staleReport, confirmer>>
          /\ CreateOperation(b) => RunGoes(b, "orders")
          /\ CreateOrders(b) => RunGoes(b, "mark")
        BY <1>4 DEF CreateOperation, CreateOrders, RunAt
    <2>9. /\ billingRun' \in [BillingRuns -> RunStates]
          /\ CreateOperation(b) => billingRun'[b].pc = "orders"
          /\ CreateOrders(b) => billingRun'[b].pc = "mark"
          /\ billingRun'[b].payment = k /\ billingRun'[b].reports = billingRun[b].reports
          /\ \A x \in BillingRuns : x # b => billingRun'[x] = billingRun[x]
        BY <1>1, <1>4, <2>8, RunTypes
    <2>10. RunHolds(b)'
        BY <1>4, <2>2, <2>3, <2>4, <2>9 DEF RunHolds
    <2>11. BillingTypes'
        BY <1>1, <2>4, <2>8, <2>9 DEF BillingTypes
    <2>12. QED BY <2>6, <2>7, <2>8, <2>9, <2>10, <2>11, PaymentStep
<1>5. CASE MarkBilled(b)
    <2>1. /\ billingRun[b].pc = "mark" /\ UNCHANGED <<staleReport, billings, confirmer>>
          /\ billingRun' = [billingRun EXCEPT ![b] = AfterKind(b)]
          /\ daily' = [r \in DailyReports |->
                IF r \in billingRun[b].reports THEN [daily[r] EXCEPT !.billed = TRUE] ELSE daily[r]]
        BY <1>5 DEF MarkBilled, ReadyToMark, RunAt
    <2>2. \A r \in billingRun[b].reports : Invoiced(r)
        BY <1>1, <2>1 DEF RunHolds, Invoiced
    <2>3. /\ billingRun' \in [BillingRuns -> RunStates]
          /\ billingRun'[b].pc \in {"find", "done"}
          /\ \A x \in BillingRuns : x # b => billingRun'[x] = billingRun[x]
        BY <1>1, <2>1, RunTypes
    <2>4. daily' \in [DailyReports -> DailyRows]
        BY <1>1, <2>1 DEF BillingTypes, DailyRows
    <2>5. BillingTypes'
        BY <1>1, <2>1, <2>3, <2>4 DEF BillingTypes
    <2>6. \A r \in DailyReports :
              daily'[r].billed => daily[r].billed \/ r \in billingRun[b].reports
        BY <1>1, <2>1 DEF BillingTypes, DailyRows
    <2>7. BilledIsInvoiced'
        BY <2>1, <2>2, <2>6 DEF BillingInv, BilledIsInvoiced, Invoiced
    <2>8. StaleIsInvoiced' /\ ClosedIsPosted'
        BY <2>1 DEF BillingInv, StaleIsInvoiced, ClosedIsPosted, Invoiced
    <2>9. \A x \in BillingRuns : RunHolds(x)'
        BY <2>1, <2>3 DEF BillingInv, RunHolds
    <2>10. \A c \in Confirmers : ConfirmerHolds(c)'
        BY <2>1 DEF BillingInv, ConfirmerHolds
    <2>11. QED BY <2>5, <2>7, <2>8, <2>9, <2>10 DEF BillingInv
<1>6. QED BY <1>2, <1>3, <1>4, <1>5
-----------------------------------------------------------------------------
(* The confirmations *)

LEMMA ConfirmerTypes ==
    ASSUME BillingTypes, NEW c \in Confirmers
    PROVE  /\ confirmer[c] \in ConfirmerStates
           /\ \A p \in {"done", "post", "closeOrders", "close"} :
                ConfirmerGoes(c, p) =>
                  /\ confirmer' \in [Confirmers -> ConfirmerStates]
                  /\ confirmer'[c].pc = p
                  /\ confirmer'[c].payment = confirmer[c].payment
                  /\ \A x \in Confirmers : x # c => confirmer'[x] = confirmer[x]
<1>1. confirmer \in [Confirmers -> ConfirmerStates] /\ confirmer[c] \in ConfirmerStates
    BY DEF BillingTypes
<1>2. ASSUME NEW p \in {"done", "post", "closeOrders", "close"}, ConfirmerGoes(c, p)
      PROVE  /\ confirmer' \in [Confirmers -> ConfirmerStates]
             /\ confirmer'[c].pc = p
             /\ confirmer'[c].payment = confirmer[c].payment
             /\ \A x \in Confirmers : x # c => confirmer'[x] = confirmer[x]
    <2> DEFINE new == [confirmer[c] EXCEPT !.pc = p]
    <2>1. new \in ConfirmerStates /\ new.pc = p /\ new.payment = confirmer[c].payment
        BY <1>1 DEF ConfirmerStates
    <2>2. confirmer' = [confirmer EXCEPT ![c] = new]
        BY <1>2 DEF ConfirmerGoes
    <2> HIDE DEF new
    <2>3. QED BY <1>1, <2>1, <2>2
<1>3. QED BY <1>1, <1>2

\* A step of a confirmation that changes its payment for the better.
LEMMA ConfirmStep ==
    ASSUME BillingInv, NEW c \in Confirmers, NEW T, NEW new \in BillRows(T),
           NEW p \in {"post", "closeOrders", "close", "done"},
           billings \in Seq(BillRows(T)),
           confirmer[c].payment \in DOMAIN billings,
           billings' = [billings EXCEPT ![confirmer[c].payment] = new],
           new.reports = billings[confirmer[c].payment].reports,
           new.operation = billings[confirmer[c].payment].operation,
           new.orders # "NONE" \/ new.orders = billings[confirmer[c].payment].orders,
           billings[confirmer[c].payment].status = "COMPLETED" => new.status = "COMPLETED",
           billings[confirmer[c].payment].posted => new.posted,
           ~new.open => \/ new.status = "COMPLETED" /\ new.posted
                        \/ ~billings[confirmer[c].payment].open,
           ConfirmerGoes(c, p), UNCHANGED <<daily, staleReport, billingRun>>,
           p # "done" => new.status = "COMPLETED",
           p \in {"closeOrders", "close"} => new.posted
    PROVE  BillingInv'
<1> DEFINE k == confirmer[c].payment
<1>1. BillingTypes
    BY DEF BillingInv
<1>2. /\ billings' \in Seq(BillRows(T)) /\ DOMAIN billings' = DOMAIN billings
      /\ billings'[k] = new /\ \A q \in DOMAIN billings : q # k => billings'[q] = billings[q]
    BY <1>1, ReplaceBill
<1>3. /\ confirmer' \in [Confirmers -> ConfirmerStates]
      /\ confirmer'[c].pc = p /\ confirmer'[c].payment = k
      /\ \A x \in Confirmers : x # c => confirmer'[x] = confirmer[x]
    BY <1>1, ConfirmerTypes
<1>4. BillsKept
    BY <1>2 DEF BillsKept, Kept
<1>5. ClosedIsPosted'
    BY <1>2 DEF BillingInv, ClosedIsPosted
<1>6. ConfirmerHolds(c)'
    BY <1>2, <1>3 DEF ConfirmerHolds
<1>7. BillingTypes'
    BY <1>1, <1>2, <1>3 DEF BillingTypes
<1>8. QED BY <1>3, <1>4, <1>5, <1>6, <1>7, PaymentStep

LEMMA ConfirmKeeps ==
    ASSUME BillingInv, NEW c \in Confirmers,
           \/ \E p \in DOMAIN billings, authorized \in BOOLEAN : LoadOpenPayment(c, p, authorized)
           \/ CompleteOpenPayment(c) \/ PostOpenPayment(c) \/ CloseOrders(c)
           \/ CloseOpenPayment(c) \/ ConfirmFails(c)
    PROVE  BillingInv'
<1>1. BillingTypes /\ ConfirmerHolds(c) /\ confirmer[c] \in ConfirmerStates
    BY ConfirmerTypes DEF BillingInv
<1>2. PICK T : billings \in Seq(BillRows(T))
    BY <1>1 DEF BillingTypes
<1>3. DOMAIN billings \subseteq Nat /\ \A p \in DOMAIN billings : billings[p] \in BillRows(T)
    BY <1>2, LenProperties, ElementOfSeq
<1>4. ASSUME NEW p \in DOMAIN billings, NEW authorized \in BOOLEAN,
             LoadOpenPayment(c, p, authorized)
      PROVE  BillingInv'
    <2>1. PICK q \in {"complete", "done"} :
              confirmer' = [confirmer EXCEPT ![c] = [payment |-> p, pc |-> q]]
        BY <1>4 DEF LoadOpenPayment
    <2>2. [payment |-> p, pc |-> q] \in ConfirmerStates
        BY <1>3 DEF ConfirmerStates
    <2>3. /\ confirmer' \in [Confirmers -> ConfirmerStates]
          /\ confirmer'[c] = [payment |-> p, pc |-> q]
          /\ \A x \in Confirmers : x # c => confirmer'[x] = confirmer[x]
        BY <1>1, <2>1, <2>2 DEF BillingTypes
    <2>4. UNCHANGED <<daily, staleReport, billingRun, billings>>
        BY <1>4 DEF LoadOpenPayment
    <2>5. BillingTypes'
        BY <1>1, <2>3, <2>4 DEF BillingTypes
    <2>6. ConfirmerHolds(c)' /\ ClosedIsPosted'
        BY <2>3, <2>4 DEF ConfirmerHolds, BillingInv, ClosedIsPosted
    <2>7. QED BY <2>3, <2>4, <2>5, <2>6, SameBills, PaymentStep
<1>5. CASE ConfirmFails(c)
    <2>1. /\ UNCHANGED <<daily, staleReport, billingRun, billings>>
          /\ confirmer' \in [Confirmers -> ConfirmerStates] /\ confirmer'[c].pc = "done"
          /\ \A x \in Confirmers : x # c => confirmer'[x] = confirmer[x]
        BY <1>1, <1>5, ConfirmerTypes DEF ConfirmFails
    <2>2. BillingTypes'
        BY <1>1, <2>1 DEF BillingTypes
    <2>3. ConfirmerHolds(c)' /\ ClosedIsPosted'
        BY <2>1 DEF ConfirmerHolds, BillingInv, ClosedIsPosted
    <2>4. QED BY <2>1, <2>2, <2>3, SameBills, PaymentStep
<1> DEFINE k == confirmer[c].payment
<1>6. CASE CompleteOpenPayment(c)
    <2> DEFINE new == [billings[k] EXCEPT !.status = "COMPLETED"]
    <2>1. /\ k \in DOMAIN billings /\ ConfirmerGoes(c, "post")
          /\ billings' = [billings EXCEPT ![k] = new] /\ UNCHANGED <<daily, staleReport, billingRun>>
        BY <1>1, <1>6 DEF CompleteOpenPayment, ConfirmerAt, ConfirmerHolds
    <2>2. /\ new \in BillRows(T) /\ new.reports = billings[k].reports
          /\ new.operation = billings[k].operation /\ new.orders = billings[k].orders
          /\ new.status = "COMPLETED" /\ new.posted = billings[k].posted
          /\ new.open = billings[k].open
        BY <1>3, <2>1 DEF BillRows
    <2> HIDE DEF new
    <2>3. QED BY <1>2, <2>1, <2>2, ConfirmStep
<1>7. CASE PostOpenPayment(c)
    <2> DEFINE new == [billings[k] EXCEPT !.posted = TRUE, !.orders = "OPEN"]
    <2>1. /\ k \in DOMAIN billings /\ ConfirmerGoes(c, "closeOrders")
          /\ billings[k].status = "COMPLETED"
          /\ billings' = [billings EXCEPT ![k] = new] /\ UNCHANGED <<daily, staleReport, billingRun>>
        BY <1>1, <1>7 DEF PostOpenPayment, ConfirmerAt, ConfirmerHolds
    <2>2. /\ new \in BillRows(T) /\ new.reports = billings[k].reports
          /\ new.operation = billings[k].operation /\ new.orders # "NONE"
          /\ new.status = billings[k].status /\ new.posted
          /\ new.open = billings[k].open
        <3>1. billings[k] \in BillRows(T)
            BY <1>3, <2>1
        <3>2. /\ new.reports = billings[k].reports /\ new.operation = billings[k].operation
              /\ new.orders = "OPEN" /\ new.status = billings[k].status /\ new.posted = TRUE
              /\ new.open = billings[k].open
            BY <3>1 DEF BillRows
        <3>3. new \in BillRows(T)
            BY <3>1 DEF BillRows
        <3>4. QED BY <3>2, <3>3
    <2> HIDE DEF new
    <2>3. QED BY <1>2, <2>1, <2>2, ConfirmStep
<1>8. CASE CloseOrders(c)
    <2> DEFINE new == [billings[k] EXCEPT !.orders = "CLOSED"]
    <2>1. /\ k \in DOMAIN billings /\ ConfirmerGoes(c, "close")
          /\ billings[k].status = "COMPLETED" /\ billings[k].posted
          /\ billings' = [billings EXCEPT ![k] = new] /\ UNCHANGED <<daily, staleReport, billingRun>>
        BY <1>1, <1>8 DEF CloseOrders, ConfirmerAt, ConfirmerHolds
    <2>2. /\ new \in BillRows(T) /\ new.reports = billings[k].reports
          /\ new.operation = billings[k].operation /\ new.orders # "NONE"
          /\ new.status = billings[k].status /\ new.posted = billings[k].posted
          /\ new.open = billings[k].open
        BY <1>3, <2>1 DEF BillRows
    <2> HIDE DEF new
    <2>3. QED BY <1>2, <2>1, <2>2, ConfirmStep
<1>9. CASE CloseOpenPayment(c)
    <2> DEFINE new == [billings[k] EXCEPT !.open = FALSE]
    <2>1. /\ k \in DOMAIN billings /\ ConfirmerGoes(c, "done")
          /\ billings[k].status = "COMPLETED" /\ billings[k].posted
          /\ billings' = [billings EXCEPT ![k] = new] /\ UNCHANGED <<daily, staleReport, billingRun>>
        BY <1>1, <1>9 DEF CloseOpenPayment, ConfirmerAt, ConfirmerHolds
    <2>2. /\ new \in BillRows(T) /\ new.reports = billings[k].reports
          /\ new.operation = billings[k].operation /\ new.orders = billings[k].orders
          /\ new.status = billings[k].status /\ new.posted = billings[k].posted
        BY <1>3, <2>1 DEF BillRows
    <2> HIDE DEF new
    <2>3. QED BY <1>2, <2>1, <2>2, ConfirmStep
<1>10. QED BY <1>4, <1>5, <1>6, <1>7, <1>8, <1>9
-----------------------------------------------------------------------------

LEMMA BillingStepInv == BillingInv /\ [BillingNext]_billingVars => BillingInv'
<1>1. ASSUME BillingInv, UNCHANGED <<daily, staleReport, billingRun, billings, confirmer>>
      PROVE  BillingInv'
    BY <1>1 DEF BillingInv, BillingTypes, BilledIsInvoiced, StaleIsInvoiced, ClosedIsPosted,
       Invoiced, RunHolds, ConfirmerHolds
<1>2. ASSUME BillingInv, BillingNext PROVE BillingInv'
    <2>1. CASE NextDay
        BY <1>1, <1>2, <2>1 DEF NextDay
    <2>2. QED BY <1>2, <2>1, DailyKeeps, RunKeeps, ConfirmKeeps DEF BillingNext
<1>3. QED BY <1>1, <1>2 DEF billingVars

LEMMA BillingInvHolds == BillingSpec => []BillingInv
  BY BillingInitInv, BillingStepInv, PTL DEF BillingSpec

\* A report marked as billed is part of a billing payment with its operation and
\* its orders, wherever runs fail or die and digestions overwrite (runBilling).
THEOREM BilledIsInvoicedHolds == BillingSpec => []BilledIsInvoiced
<1>1. BillingInv => BilledIsInvoiced
    BY DEF BillingInv
<1>2. QED BY BillingInvHolds, <1>1, PTL

\* An open payment is closed only after it was completed and posted, by whichever
\* of several confirmations (confirmOpenPayment).
THEOREM ClosedIsPostedHolds == BillingSpec => []ClosedIsPosted
<1>1. BillingInv => ClosedIsPosted
    BY DEF BillingInv
<1>2. QED BY BillingInvHolds, <1>1, PTL

-----------------------------------------------------------------------------
(***************************************************************************)
(* Proof that the reports agree, for any sellers, payments and order of      *)
(* digestion.  A digested payment adds the same to both sides of every       *)
(* equality: what it adds to a report is what it adds to the classes the     *)
(* report's items split into (Splits, GrowsByClass), or to the one row it    *)
(* belongs to (GrowsByOne).                                                  *)
(***************************************************************************)

SumsRecord == [sale : Int, saleTax : Int, refund : Int, refundTax : Int]

\* Every report and every table has a value of its kind.
AmountsTypeOK ==
    /\ reportSums \in [AllReports -> SumsRecord]
    /\ taxGroupRows \in [AllReports -> [Rates -> SumsRecord]]
    /\ itemRows \in [AllReports -> [ItemKeys -> SumsRecord]]
    /\ platformRows \in [AllReports -> [SoldOn -> SumsRecord]]
    /\ expenseRows \in [AllReports -> [ExpenseAccounts -> [Expenses -> Int]]]
    /\ totalExpense \in [AllReports -> Int]

AmountsInv == AmountsTypeOK /\ ReportsAgree

-----------------------------------------------------------------------------
\* What an amount of a payment adds to the net sale.
Signed(p, x) == IF p.type = "PURCHASE" THEN x ELSE 0 - x

\* The three sums over items are sums over the payment's.
LEMMA ItemSums ==
    ASSUME NEW p \in DigestedPayments, NEW items \in SUBSET p.items
    PROVE  /\ Total(items) = SumFunctionOnSet([i \in p.items |-> i.total], items)
           /\ Tax(items) = SumFunctionOnSet([i \in p.items |-> i.tax], items)
           /\ Commission(items) = SumFunctionOnSet([i \in p.items |-> i.commission], items)
           /\ Total(items) \in Int /\ Tax(items) \in Int /\ Commission(items) \in Int
<1>1. IsFiniteSet(p.items)
      /\ \A i \in p.items : i.total \in Int /\ i.tax \in Int /\ i.commission \in Int
  BY AmountsAssumption
<1>2. ASSUME NEW g, \A i \in p.items : g[i] \in Int, NEW f, f = [i \in items |-> g[i]]
      PROVE  SumFunction(f) = SumFunctionOnSet(g, items) /\ SumFunction(f) \in Int
  BY <1>1, <1>2, SumOfField
<1>3. Total(items) = SumFunctionOnSet([i \in p.items |-> i.total], items) /\ Total(items) \in Int
  <2> DEFINE g == [i \in p.items |-> i.total]
             f == [i \in items |-> i.total]
  <2>1. f = [i \in items |-> g[i]] /\ \A i \in p.items : g[i] \in Int
    BY <1>1
  <2>2. Total(items) = SumFunction(f)
    BY DEF Total
  <2> HIDE DEF f, g
  <2>3. SumFunction(f) = SumFunctionOnSet(g, items) /\ SumFunction(f) \in Int
    BY <1>2, <2>1
  <2>4. QED BY <2>2, <2>3 DEF g
<1>4. Tax(items) = SumFunctionOnSet([i \in p.items |-> i.tax], items) /\ Tax(items) \in Int
  <2> DEFINE g == [i \in p.items |-> i.tax]
             f == [i \in items |-> i.tax]
  <2>1. f = [i \in items |-> g[i]] /\ \A i \in p.items : g[i] \in Int
    BY <1>1
  <2>2. Tax(items) = SumFunction(f)
    BY DEF Tax
  <2> HIDE DEF f, g
  <2>3. SumFunction(f) = SumFunctionOnSet(g, items) /\ SumFunction(f) \in Int
    BY <1>2, <2>1
  <2>4. QED BY <2>2, <2>3 DEF g
<1>5. Commission(items) = SumFunctionOnSet([i \in p.items |-> i.commission], items)
      /\ Commission(items) \in Int
  <2> DEFINE g == [i \in p.items |-> i.commission]
             f == [i \in items |-> i.commission]
  <2>1. f = [i \in items |-> g[i]] /\ \A i \in p.items : g[i] \in Int
    BY <1>1
  <2>2. Commission(items) = SumFunction(f)
    BY DEF Commission
  <2> HIDE DEF f, g
  <2>3. SumFunction(f) = SumFunctionOnSet(g, items) /\ SumFunction(f) \in Int
    BY <1>2, <2>1
  <2>4. QED BY <2>2, <2>3 DEF g
<1>6. QED BY <1>3, <1>4, <1>5

\* No items, no amounts.
LEMMA NoItemSums ==
    ASSUME NEW p \in DigestedPayments
    PROVE  Total({}) = 0 /\ Tax({}) = 0 /\ Commission({}) = 0
<1>1. {} \in SUBSET p.items
  OBVIOUS
<1>2. QED BY <1>1, ItemSums, SumOfNone

\* P gives each item of a set to one of the classes T.
Splits(P, T, items) ==
    /\ \A t \in T : P[t] \subseteq items
    /\ \A i \in items : \E t \in T : i \in P[t]
    /\ \A t \in T, u \in T, i \in items : i \in P[t] /\ i \in P[u] => t = u

\* What each class of some items adds, signed, is what all of them add.
LEMMA SignedByClass ==
    ASSUME NEW p, NEW items, IsFiniteSet(items),
           NEW T, IsFiniteSet(T), NEW P, Splits(P, T, items),
           NEW f, \A i \in items : f[i] \in Int
    PROVE  /\ SumFunctionOnSet([t \in T |-> Signed(p, SumFunctionOnSet(f, P[t]))], T)
                = Signed(p, SumFunctionOnSet(f, items))
           /\ \A t \in T : Signed(p, SumFunctionOnSet(f, P[t])) \in Int
<1> DEFINE g == [i \in items |-> Signed(p, f[i])]
           h == [t \in T |-> Signed(p, SumFunctionOnSet(f, P[t]))]
<1>h. \A t \in T : h[t] = Signed(p, SumFunctionOnSet(f, P[t]))
  OBVIOUS
<1>1. IsFiniteSet(items)
  OBVIOUS
<1>2. \A i \in items : g[i] \in Int
  BY DEF Signed
<1>3. ASSUME NEW S \in SUBSET items
      PROVE  /\ SumFunctionOnSet(g, S) = Signed(p, SumFunctionOnSet(f, S))
             /\ SumFunctionOnSet(g, S) \in Int
  <2>1. IsFiniteSet(S)
    BY <1>1, FS_Subset
  <2>2. CASE p.type = "PURCHASE"
    <3>1. \A i \in S : f[i] \in Int /\ f[i] = g[i]
      BY <2>2 DEF Signed
    <3> HIDE DEF g
    <3>2. SumFunctionOnSet(f, S) = SumFunctionOnSet(g, S) /\ SumFunctionOnSet(f, S) \in Int
      BY <2>1, <3>1, SumSame, SumInt
    <3> QED BY <2>2, <3>2 DEF Signed
  <2>3. CASE p.type # "PURCHASE"
    <3> DEFINE z == [i \in items |-> 0]
    <3>1. \A i \in S : f[i] \in Int /\ g[i] \in Int /\ z[i] = 0 /\ z[i] = f[i] + g[i]
      BY <2>3 DEF Signed
    <3> HIDE DEF g, z
    <3>2. SumFunctionOnSet(z, S) = SumFunctionOnSet(f, S) + SumFunctionOnSet(g, S)
      BY <2>1, <3>1, SumPlus
    <3>3. SumFunctionOnSet(z, S) = 0
      <4>1. {} \in SUBSET S /\ \A i \in S : z[i] \in Int /\ z[i] = 0
        BY <3>1
      <4>2. SumFunctionOnSet(z, S) = SumFunctionOnSet(z, {})
        BY <2>1, <4>1, SumOfNonZero
      <4>3. QED BY <4>2, SumOfNone
    <3>4. SumFunctionOnSet(f, S) \in Int /\ SumFunctionOnSet(g, S) \in Int
      BY <2>1, <3>1, SumInt
    <3> QED BY <2>3, <3>2, <3>3, <3>4 DEF Signed
  <2>4. QED BY <2>2, <2>3
<1>4. \A t \in T : h[t] = SumFunctionOnSet(g, P[t]) /\ h[t] \in Int
  <2> HIDE DEF g, h
  <2>1. \A t \in T : P[t] \in SUBSET items
    BY DEF Splits
  <2>2. QED BY <1>h, <1>3, <2>1
<1>5. SumFunctionOnSet(h, T) = SumFunctionOnSet(g, items)
  <2> HIDE DEF g, h
  <2>1. QED BY <1>1, <1>2, <1>4, SumByClass DEF Splits
<1>6. items \in SUBSET items
  OBVIOUS
<1>7. \A t \in T : Signed(p, SumFunctionOnSet(f, P[t])) \in Int
  <2> HIDE DEF g, h
  <2>1. QED BY <1>h, <1>4
<1>8. SumFunctionOnSet(h, T) = Signed(p, SumFunctionOnSet(f, items))
  <2> HIDE DEF g, h
  <2>1. QED BY <1>3, <1>5, <1>6
<1>9. QED BY <1>7, <1>8

\* A sum whose terms grow by what the classes of some items add grows by what all
\* of them add.
LEMMA GrowsByClass ==
    ASSUME NEW p, NEW items, IsFiniteSet(items),
           NEW T, IsFiniteSet(T), NEW P, Splits(P, T, items),
           NEW f, \A i \in items : f[i] \in Int,
           NEW before, NEW after, DOMAIN before = T, DOMAIN after = T,
           \A t \in T : /\ before[t] \in Int
                        /\ after[t] = before[t] + Signed(p, SumFunctionOnSet(f, P[t]))
    PROVE  SumFunction(after)
             = SumFunction(before) + Signed(p, SumFunctionOnSet(f, items))
<1> DEFINE h == [t \in T |-> Signed(p, SumFunctionOnSet(f, P[t]))]
<1>1. \A t \in T : h[t] = Signed(p, SumFunctionOnSet(f, P[t]))
  OBVIOUS
<1>2. \A t \in T : after[t] = before[t] + h[t] /\ before[t] \in Int
  BY <1>1
<1> HIDE DEF h
<1>3. SumFunctionOnSet(h, T) = Signed(p, SumFunctionOnSet(f, items)) /\ \A t \in T : h[t] \in Int
  <2>1. /\ SumFunctionOnSet([t \in T |-> Signed(p, SumFunctionOnSet(f, P[t]))], T)
             = Signed(p, SumFunctionOnSet(f, items))
        /\ \A t \in T : Signed(p, SumFunctionOnSet(f, P[t])) \in Int
    BY SignedByClass
  <2>2. QED BY <1>1, <2>1 DEF h
<1>4. SumFunctionOnSet(after, T) = SumFunctionOnSet(before, T) + SumFunctionOnSet(h, T)
  BY <1>2, <1>3, SumPlus
<1>5. SumFunction(after) = SumFunctionOnSet(after, T)
      /\ SumFunction(before) = SumFunctionOnSet(before, T)
  BY Zenon DEF SumFunction
<1>6. QED BY <1>3, <1>4, <1>5

\* A sum of which one term grows grows as that term.
LEMMA GrowsByOne ==
    ASSUME NEW T, IsFiniteSet(T), NEW x \in T, NEW d \in Int,
           NEW before, NEW after, DOMAIN before = T, DOMAIN after = T,
           \A t \in T : before[t] \in Int /\ after[t] = before[t] + (IF t = x THEN d ELSE 0)
    PROVE  SumFunction(after) = SumFunction(before) + d
<1>1. \A t \in T : before[t] \in Int /\ after[t] \in Int
  OBVIOUS
<1>2. \A t \in T : t # x => after[t] = before[t]
  OBVIOUS
<1>3. SumFunctionOnSet(after, T) = SumFunctionOnSet(before, T) - before[x] + after[x]
  BY <1>1, <1>2, SumChange
<1>4. SumFunctionOnSet(before, T) \in Int
  BY <1>1, SumInt
<1>5. SumFunction(after) = SumFunctionOnSet(after, T)
      /\ SumFunction(before) = SumFunctionOnSet(before, T)
  BY Zenon DEF SumFunction
<1>6. QED BY <1>1, <1>3, <1>4, <1>5

-----------------------------------------------------------------------------
AllItems == UNION {p.items : p \in DigestedPayments}

\* The tables have finitely many rows.
LEMMA FiniteTables == IsFiniteSet(Rates) /\ IsFiniteSet(ItemKeys) /\ IsFiniteSet(SoldOn)
<1>1. IsFiniteSet(AllItems)
  <2> DEFINE T == {p.items : p \in DigestedPayments}
             f == [p \in DigestedPayments |-> p.items]
  <2>1. f \in Surjection(DigestedPayments, T)
    BY DEF Surjection
  <2>2. IsFiniteSet(DigestedPayments) /\ \A S \in T : IsFiniteSet(S)
    BY AmountsAssumption
  <2>3. AllItems = UNION T
    BY DEF AllItems
  <2> HIDE DEF f, T
  <2>4. QED BY <2>1, <2>2, <2>3, FS_Surjection, FS_UNION
<1>2. IsFiniteSet({i.rate : i \in AllItems})
  <2> DEFINE T == {i.rate : i \in AllItems}
             f == [i \in AllItems |-> i.rate]
  <2>1. f \in Surjection(AllItems, T)
    BY DEF Surjection
  <2> HIDE DEF f
  <2>2. QED BY <1>1, <2>1, FS_Surjection
<1>3. IsFiniteSet({i.item : i \in AllItems})
  <2> DEFINE T == {i.item : i \in AllItems}
             f == [i \in AllItems |-> i.item]
  <2>1. f \in Surjection(AllItems, T)
    BY DEF Surjection
  <2> HIDE DEF f
  <2>2. QED BY <1>1, <2>1, FS_Surjection
<1>4. IsFiniteSet({i.rate : i \in AllItems} \cup {CommissionRate})
  BY <1>2, FS_AddElement
<1>5. IsFiniteSet({"POSTRAL_INSTANCE"} \cup {"external"})
  BY FS_Singleton, FS_AddElement
<1>6. SoldOn = {"POSTRAL_INSTANCE"} \cup {"external"}
  BY DEF SoldOn
<1>7. QED BY <1>3, <1>4, <1>5, <1>6 DEF Rates, ItemKeys, AllItems

\* The keys of the tables, and which are different.
LEMMA ExpenseKeys ==
    /\ <<"REPORT_TOTAL">> \in Expenses
    /\ \A x \in SoldOn : <<"COMISSION_TOTAL", x>> \in Expenses
    /\ <<"PAYMENT_SERVICE_FEE">> \in Expenses
    /\ <<"REFUND_ROUNDING_ADJUSTMENT">> \in Expenses
    /\ <<"COMISSION_TOTAL", "POSTRAL_INSTANCE">> # <<"COMISSION_TOTAL", "external">>
    /\ \A x : /\ <<"REPORT_TOTAL">> # <<"COMISSION_TOTAL", x>>
              /\ <<"PAYMENT_SERVICE_FEE">> # <<"COMISSION_TOTAL", x>>
              /\ <<"REFUND_ROUNDING_ADJUSTMENT">> # <<"COMISSION_TOTAL", x>>
              /\ <<"COMISSION_TOTAL", x>>[1] = "COMISSION_TOTAL"
    /\ <<"REPORT_TOTAL">> # <<"PAYMENT_SERVICE_FEE">>
    /\ <<"REPORT_TOTAL">> # <<"REFUND_ROUNDING_ADJUSTMENT">>
    /\ <<"PAYMENT_SERVICE_FEE">> # <<"REFUND_ROUNDING_ADJUSTMENT">>
    /\ <<"REPORT_TOTAL">>[1] = "REPORT_TOTAL"
    /\ <<"PAYMENT_SERVICE_FEE">>[1] = "PAYMENT_SERVICE_FEE"
    /\ <<"REFUND_ROUNDING_ADJUSTMENT">>[1] = "REFUND_ROUNDING_ADJUSTMENT"
<1>1. /\ <<"REPORT_TOTAL">> \in Expenses
      /\ \A x \in SoldOn : <<"COMISSION_TOTAL", x>> \in Expenses
      /\ <<"PAYMENT_SERVICE_FEE">> \in Expenses
      /\ <<"REFUND_ROUNDING_ADJUSTMENT">> \in Expenses
  BY DEF Expenses
<1>2. /\ <<"REPORT_TOTAL">>[1] = "REPORT_TOTAL"
      /\ <<"PAYMENT_SERVICE_FEE">>[1] = "PAYMENT_SERVICE_FEE"
      /\ <<"REFUND_ROUNDING_ADJUSTMENT">>[1] = "REFUND_ROUNDING_ADJUSTMENT"
      /\ \A x : <<"COMISSION_TOTAL", x>>[1] = "COMISSION_TOTAL"
  OBVIOUS
<1>3. <<"COMISSION_TOTAL", "POSTRAL_INSTANCE">> # <<"COMISSION_TOTAL", "external">>
  OBVIOUS
<1>4. /\ "REPORT_TOTAL" # "COMISSION_TOTAL" /\ "PAYMENT_SERVICE_FEE" # "COMISSION_TOTAL"
      /\ "REFUND_ROUNDING_ADJUSTMENT" # "COMISSION_TOTAL"
      /\ "REPORT_TOTAL" # "PAYMENT_SERVICE_FEE"
      /\ "REPORT_TOTAL" # "REFUND_ROUNDING_ADJUSTMENT"
      /\ "PAYMENT_SERVICE_FEE" # "REFUND_ROUNDING_ADJUSTMENT"
  OBVIOUS
<1>5. QED BY <1>1, <1>2, <1>3, <1>4, Zenon

\* Which reports there are.
LEMMA ReportNames ==
    /\ Flow \in AllReports /\ SalesReport(Flow) /\ Flow[1] = "PLATFORM_FLOW"
    /\ Platform \in AllReports /\ ~SalesReport(Platform) /\ Platform[1] = "PLATFORM"
    /\ \A s \in ReportSellers :
          /\ <<"SELLER", s>> \in AllReports /\ SalesReport(<<"SELLER", s>>)
          /\ <<"PLATFORM_SELLER", s>> \in AllReports /\ ~SalesReport(<<"PLATFORM_SELLER", s>>)
    /\ \A r \in AllReports :
          /\ SalesReport(r) => r[1] \in {"SELLER", "PLATFORM_FLOW"}
          /\ ~SalesReport(r) => r[1] \in {"PLATFORM", "PLATFORM_SELLER"}
          /\ r[1] \in {"PLATFORM", "PLATFORM_FLOW"} => r \in OwnReports
  BY DEF AllReports, OwnReports, ReportsOf, SalesReport, Flow, Platform

\* The items of a report are the payment's; all reports of the platform itself have
\* all of them, and the two of a seller the same.
LEMMA ReportItems ==
    ASSUME NEW p \in DigestedPayments
    PROVE  /\ \A r \in AllReports : ItemsOf(p, r) \in SUBSET p.items
           /\ ItemsOf(p, Flow) = p.items /\ ItemsOf(p, Platform) = p.items
           /\ \A s \in ReportSellers :
                 /\ ItemsOf(p, <<"SELLER", s>>) = {i \in p.items : i.seller = s}
                 /\ ItemsOf(p, <<"PLATFORM_SELLER", s>>) = {i \in p.items : i.seller = s}
           /\ \A r \in AllReports \ ReportsFor(p) : ItemsOf(p, r) = {}
<1>1. \A r \in AllReports : ItemsOf(p, r) \in SUBSET p.items
  BY DEF ItemsOf
<1>2. ItemsOf(p, Flow) = p.items /\ ItemsOf(p, Platform) = p.items
  BY DEF ItemsOf, Flow, Platform
<1>3. ASSUME NEW s \in ReportSellers
      PROVE  /\ ItemsOf(p, <<"SELLER", s>>) = {i \in p.items : i.seller = s}
             /\ ItemsOf(p, <<"PLATFORM_SELLER", s>>) = {i \in p.items : i.seller = s}
  BY DEF ItemsOf
<1>4. ASSUME NEW r \in AllReports, r \notin ReportsFor(p) PROVE ItemsOf(p, r) = {}
  BY <1>4, ReportNames DEF ItemsOf, ReportsFor
<1>5. QED BY <1>1, <1>2, <1>3, <1>4

\* Adding an amount changes the net amounts by it.
LEMMA AddedGrows ==
    ASSUME NEW p, NEW sums \in SumsRecord, NEW a \in Int, NEW t \in Int
    PROVE  /\ Added(sums, p.type, a, t) \in SumsRecord
           /\ NetSale(Added(sums, p.type, a, t)) = NetSale(sums) + Signed(p, a)
           /\ NetRevenue(Added(sums, p.type, a, t)) = NetRevenue(sums) + Signed(p, a - t)
           /\ NetSale(sums) \in Int /\ NetRevenue(sums) \in Int
<1>1. CASE p.type = "PURCHASE"
  <2> DEFINE m == [sums EXCEPT !.sale = sums.sale + a]
             n == [sums EXCEPT !.sale = sums.sale + a, !.saleTax = sums.saleTax + t]
  <2>1. n \in SumsRecord
    <3>1. m \in SumsRecord
      BY DEF SumsRecord
    <3>2. n = [m EXCEPT !.saleTax = sums.saleTax + t]
      OBVIOUS
    <3>3. sums.saleTax + t \in Int
      BY DEF SumsRecord
    <3> HIDE DEF m, n
    <3>4. QED BY <3>1, <3>2, <3>3 DEF SumsRecord
  <2>2. /\ n.sale = sums.sale + a /\ n.saleTax = sums.saleTax + t
        /\ n.refund = sums.refund /\ n.refundTax = sums.refundTax
    BY DEF SumsRecord
  <2>3. Added(sums, p.type, a, t) = n /\ Signed(p, a) = a /\ Signed(p, a - t) = a - t
    BY <1>1 DEF Added, Signed
  <2> HIDE DEF n
  <2>4. QED BY <2>1, <2>2, <2>3 DEF NetSale, NetRevenue, SumsRecord
<1>2. CASE p.type # "PURCHASE"
  <2> DEFINE m == [sums EXCEPT !.refund = sums.refund + a]
             n == [sums EXCEPT !.refund = sums.refund + a, !.refundTax = sums.refundTax + t]
  <2>1. n \in SumsRecord
    <3>1. m \in SumsRecord
      BY DEF SumsRecord
    <3>2. n = [m EXCEPT !.refundTax = sums.refundTax + t]
      OBVIOUS
    <3>3. sums.refundTax + t \in Int
      BY DEF SumsRecord
    <3> HIDE DEF m, n
    <3>4. QED BY <3>1, <3>2, <3>3 DEF SumsRecord
  <2>2. /\ n.refund = sums.refund + a /\ n.refundTax = sums.refundTax + t
        /\ n.sale = sums.sale /\ n.saleTax = sums.saleTax
    BY DEF SumsRecord
  <2>3. Added(sums, p.type, a, t) = n /\ Signed(p, a) = -a /\ Signed(p, a - t) = -(a - t)
    BY <1>2 DEF Added, Signed
  <2> HIDE DEF n
  <2>4. QED BY <2>1, <2>2, <2>3 DEF NetSale, NetRevenue, SumsRecord
<1>3. QED BY <1>1, <1>2

\* The same with the amounts of items.
LEMMA AddedItemsGrow ==
    ASSUME NEW p \in DigestedPayments, NEW sums \in SumsRecord, NEW items \in SUBSET p.items
    PROVE  /\ AddedItems(sums, p.type, items) \in SumsRecord
           /\ NetSale(AddedItems(sums, p.type, items)) = NetSale(sums) + Signed(p, Total(items))
           /\ NetRevenue(AddedItems(sums, p.type, items))
                = NetRevenue(sums) + Signed(p, Total(items) - Tax(items))
<1>1. Total(items) \in Int /\ Tax(items) \in Int
  BY ItemSums
<1>2. QED BY <1>1, AddedGrows DEF AddedItems

\* The commission of a report's items and the tax in it are amounts.
LEMMA CommissionIsAmount ==
    ASSUME NEW p \in DigestedPayments, NEW items \in SUBSET p.items
    PROVE  Commission(items) \in Int /\ CommissionTax(items) \in Int
<1>1. Commission(items) \in Int
  BY ItemSums
<1>2. CommissionRate \in Nat
  BY AmountsAssumption
<1>3. Commission(items) * CommissionRate \in Int
  BY <1>1, <1>2
<1>4. \A x \in Int : x \div (100 + CommissionRate) \in Int
  BY <1>2
<1>5. QED BY <1>1, <1>3, <1>4 DEF CommissionTax

\* The net revenue of items is the sum of theirs.
LEMMA NetOfItems ==
    ASSUME NEW p \in DigestedPayments, NEW items \in SUBSET p.items
    PROVE  Total(items) - Tax(items)
             = SumFunctionOnSet([i \in p.items |-> i.total - i.tax], items)
<1> DEFINE f == [i \in p.items |-> i.total - i.tax]
           g == [i \in p.items |-> i.tax]
           h == [i \in p.items |-> i.total]
<1>1. \A i \in items : f[i] \in Int /\ g[i] \in Int /\ h[i] = f[i] + g[i]
  BY AmountsAssumption
<1>2. IsFiniteSet(items)
  BY AmountsAssumption, FS_Subset
<1>3. Total(items) = SumFunctionOnSet(h, items) /\ Tax(items) = SumFunctionOnSet(g, items)
  BY ItemSums
<1> HIDE DEF f, g, h
<1>4. SumFunctionOnSet(h, items) = SumFunctionOnSet(f, items) + SumFunctionOnSet(g, items)
  BY <1>1, <1>2, SumPlus
<1>5. SumFunctionOnSet(f, items) \in Int /\ SumFunctionOnSet(g, items) \in Int
  BY <1>1, <1>2, SumInt
<1>6. SumFunctionOnSet(f, items) = Total(items) - Tax(items)
  BY <1>3, <1>4, <1>5
<1>7. QED BY <1>6 DEF f

\* What a payment adds to a report's net sale: its sales, or the commission in them
\* where the report is one of income.
Gain(p, r) ==
    Signed(p, IF SalesReport(r) THEN Total(ItemsOf(p, r))
              ELSE IF p.external THEN 0 ELSE Commission(ItemsOf(p, r)))

\* Of a report that is not queued nothing changes.
LEMMA NotQueued ==
    ASSUME AmountsTypeOK, NEW p \in DigestedPayments, Digest(p),
           NEW r \in AllReports, r \notin ReportsFor(p)
    PROVE  /\ reportSums'[r] = reportSums[r]
           /\ \A t \in Rates : taxGroupRows'[r][t] = taxGroupRows[r][t]
           /\ \A x \in ItemKeys : itemRows'[r][x] = itemRows[r][x]
           /\ \A x \in SoldOn : platformRows'[r][x] = platformRows[r][x]
           /\ totalExpense'[r] = totalExpense[r]
           /\ \A k \in Expenses : expenseRows'[r]["owner"][k] = expenseRows[r]["owner"][k]
<1>1. /\ reportSums'[r] = reportSums[r]
      /\ \A t \in Rates : taxGroupRows'[r][t] = taxGroupRows[r][t]
  BY DEF Digest
<1>2. /\ \A x \in ItemKeys : itemRows'[r][x] = itemRows[r][x]
      /\ \A x \in SoldOn : platformRows'[r][x] = platformRows[r][x]
      /\ totalExpense'[r] = totalExpense[r]
  BY DEF Digest
<1>3. \A k \in Expenses : expenseRows'[r]["owner"][k] = expenseRows[r]["owner"][k]
  <2>1. "owner" \in ExpenseAccounts
    BY DEF ExpenseAccounts
  <2>2. \A k \in Expenses : expenseRows[r]["owner"][k] \in Int
    BY <2>1 DEF AmountsTypeOK
  <2>3. \A k \in Expenses : expenseRows'[r]["owner"][k] = expenseRows[r]["owner"][k] + 0
    BY <2>1 DEF Digest
  <2>4. QED BY <2>2, <2>3
<1>4. QED BY <1>1, <1>2, <1>3

\* A report of sales that is queued grows, with its rows.
LEMMA SalesStep ==
    ASSUME NEW p \in DigestedPayments, Digest(p),
           NEW r \in AllReports, r \in ReportsFor(p), SalesReport(r)
    PROVE  /\ reportSums'[r] = AddedItems(reportSums[r], p.type, ItemsOf(p, r))
           /\ \A t \in Rates : taxGroupRows'[r][t] =
                 AddedItems(taxGroupRows[r][t], p.type, {i \in ItemsOf(p, r) : i.rate = t})
           /\ \A x \in ItemKeys : itemRows'[r][x] =
                 AddedItems(itemRows[r][x], p.type, {i \in ItemsOf(p, r) : i.item = x})
           /\ \A x \in SoldOn : platformRows'[r][x] =
                 IF x = PlatformOf(p)
                 THEN AddedItems(platformRows[r][x], p.type, ItemsOf(p, r))
                 ELSE platformRows[r][x]
           /\ totalExpense'[r] = expenseRows'[r]["owner"][<<"REPORT_TOTAL">>]
<1> DEFINE sales == {x \in ReportsFor(p) : SalesReport(x)}
           income == {x \in ReportsFor(p) : IncomeReport(p, x)}
<1>1. r \in sales
  OBVIOUS
<1>2. r \notin income
  BY DEF IncomeReport, SalesReport
<1>3. /\ reportSums' = [x \in AllReports |->
            CASE x \in sales -> AddedItems(reportSums[x], p.type, ItemsOf(p, x))
              [] x \in income -> Added(reportSums[x], p.type, Commission(ItemsOf(p, x)),
                                       CommissionTax(ItemsOf(p, x)))
              [] OTHER -> reportSums[x]]
      /\ totalExpense' = [x \in AllReports |->
             IF x \in sales \/ (x \in income /\ p.rounding # 0 /\ x[1] = "PLATFORM")
             THEN expenseRows'[x]["owner"][<<"REPORT_TOTAL">>] ELSE totalExpense[x]]
  BY DEF Digest
<1>4. taxGroupRows' = [x \in AllReports |-> [t \in Rates |->
             CASE x \in sales -> AddedItems(taxGroupRows[x][t], p.type,
                                            {i \in ItemsOf(p, x) : i.rate = t})
               [] x \in income /\ t = CommissionRate ->
                     Added(taxGroupRows[x][t], p.type, Commission(ItemsOf(p, x)),
                           CommissionTax(ItemsOf(p, x)))
               [] OTHER -> taxGroupRows[x][t]]]
  BY DEF Digest
<1>5. itemRows' = [x \in AllReports |-> [y \in ItemKeys |->
             IF x \in sales
             THEN AddedItems(itemRows[x][y], p.type, {i \in ItemsOf(p, x) : i.item = y})
             ELSE itemRows[x][y]]]
  BY DEF Digest
<1>6. platformRows' = [x \in AllReports |-> [y \in SoldOn |->
             IF x \in sales /\ y = PlatformOf(p)
             THEN AddedItems(platformRows[x][y], p.type, ItemsOf(p, x))
             ELSE platformRows[x][y]]]
  BY DEF Digest
<1> HIDE DEF sales, income
<1>7. QED BY <1>1, <1>2, <1>3, <1>4, <1>5, <1>6

\* A report of income grows by the commission, at its rate, when the sale was not
\* imported.
LEMMA IncomeStep ==
    ASSUME NEW p \in DigestedPayments, Digest(p),
           NEW r \in AllReports, r \in ReportsFor(p), ~SalesReport(r)
    PROVE  /\ reportSums'[r] =
                 IF p.external THEN reportSums[r]
                 ELSE Added(reportSums[r], p.type, Commission(ItemsOf(p, r)),
                            CommissionTax(ItemsOf(p, r)))
           /\ \A t \in Rates : taxGroupRows'[r][t] =
                 IF ~p.external /\ t = CommissionRate
                 THEN Added(taxGroupRows[r][t], p.type, Commission(ItemsOf(p, r)),
                            CommissionTax(ItemsOf(p, r)))
                 ELSE taxGroupRows[r][t]
<1> DEFINE sales == {x \in ReportsFor(p) : SalesReport(x)}
           income == {x \in ReportsFor(p) : IncomeReport(p, x)}
<1>1. r \notin sales
  OBVIOUS
<1>2. r \in income <=> ~p.external
  BY ReportNames DEF IncomeReport
<1>3. reportSums' = [x \in AllReports |->
            CASE x \in sales -> AddedItems(reportSums[x], p.type, ItemsOf(p, x))
              [] x \in income -> Added(reportSums[x], p.type, Commission(ItemsOf(p, x)),
                                       CommissionTax(ItemsOf(p, x)))
              [] OTHER -> reportSums[x]]
  BY DEF Digest
<1>4. taxGroupRows' = [x \in AllReports |-> [t \in Rates |->
             CASE x \in sales -> AddedItems(taxGroupRows[x][t], p.type,
                                            {i \in ItemsOf(p, x) : i.rate = t})
               [] x \in income /\ t = CommissionRate ->
                     Added(taxGroupRows[x][t], p.type, Commission(ItemsOf(p, x)),
                           CommissionTax(ItemsOf(p, x)))
               [] OTHER -> taxGroupRows[x][t]]]
  BY DEF Digest
<1> HIDE DEF sales, income
<1>5. QED BY <1>1, <1>2, <1>3, <1>4

\* The net sale of every report grows by its gain.
LEMMA NetSaleGrows ==
    ASSUME AmountsTypeOK, NEW p \in DigestedPayments, Digest(p), NEW r \in AllReports
    PROVE  /\ Gain(p, r) \in Int /\ NetSale(reportSums[r]) \in Int
           /\ reportSums'[r] \in SumsRecord
           /\ NetSale(reportSums'[r]) = NetSale(reportSums[r]) + Gain(p, r)
<1>1. reportSums[r] \in SumsRecord
  BY DEF AmountsTypeOK
<1>2. ItemsOf(p, r) \in SUBSET p.items
  BY ReportItems
<1>3. /\ Total(ItemsOf(p, r)) \in Int /\ Commission(ItemsOf(p, r)) \in Int
      /\ CommissionTax(ItemsOf(p, r)) \in Int
  BY <1>2, ItemSums, CommissionIsAmount
<1>4. Gain(p, r) \in Int
  BY <1>3 DEF Gain, Signed
<1>5. NetSale(reportSums[r]) \in Int
  BY <1>1, <1>3, AddedGrows
<1>6. CASE r \notin ReportsFor(p)
  <2>1. reportSums'[r] = reportSums[r]
    BY <1>6, NotQueued
  <2>2. ItemsOf(p, r) = {}
    BY <1>6, ReportItems
  <2>3. Gain(p, r) = 0
    <3>1. Total(ItemsOf(p, r)) = 0 /\ Commission(ItemsOf(p, r)) = 0
      BY <2>2, NoItemSums, Zenon
    <3> DEFINE amount == IF SalesReport(r) THEN Total(ItemsOf(p, r))
                         ELSE IF p.external THEN 0 ELSE Commission(ItemsOf(p, r))
    <3>2. Gain(p, r) = Signed(p, amount)
      BY DEF Gain
    <3>3. amount = 0
      BY <3>1, Zenon
    <3> HIDE DEF amount
    <3>4. Signed(p, 0) = 0
      BY DEF Signed
    <3>5. QED BY <3>2, <3>3, <3>4, Zenon
  <2>4. QED BY <1>1, <1>5, <2>1, <2>3
<1>7. CASE r \in ReportsFor(p) /\ SalesReport(r)
  <2>1. reportSums'[r] = AddedItems(reportSums[r], p.type, ItemsOf(p, r))
    BY <1>7, SalesStep
  <2>2. Gain(p, r) = Signed(p, Total(ItemsOf(p, r)))
    BY <1>7 DEF Gain
  <2>3. QED BY <1>1, <1>2, <1>4, <1>5, <2>1, <2>2, AddedItemsGrow
<1>8. CASE r \in ReportsFor(p) /\ ~SalesReport(r)
  <2>1. reportSums'[r] =
          IF p.external THEN reportSums[r]
          ELSE Added(reportSums[r], p.type, Commission(ItemsOf(p, r)),
                     CommissionTax(ItemsOf(p, r)))
    BY <1>8, IncomeStep
  <2>2. Gain(p, r) = IF p.external THEN 0 ELSE Signed(p, Commission(ItemsOf(p, r)))
    BY <1>8 DEF Gain, Signed
  <2>3. CASE p.external
    BY <1>1, <1>4, <1>5, <2>1, <2>2, <2>3
  <2>4. CASE ~p.external
    BY <1>1, <1>3, <1>4, <1>5, <2>1, <2>2, <2>4, AddedGrows
  <2>5. QED BY <2>3, <2>4
<1>9. QED BY <1>4, <1>5, <1>6, <1>7, <1>8

\* The reports of all sellers together gain what the platform's gains.
LEMMA SellersGain ==
    ASSUME AmountsTypeOK, NEW p \in DigestedPayments, Digest(p)
    PROVE  /\ SumFunction([s \in ReportSellers |-> NetSale(reportSums'[<<"SELLER", s>>])])
              = SumFunction([s \in ReportSellers |-> NetSale(reportSums[<<"SELLER", s>>])])
                + Gain(p, Flow)
           /\ SumFunction([s \in ReportSellers |->
                             NetSale(reportSums'[<<"PLATFORM_SELLER", s>>])])
              = SumFunction([s \in ReportSellers |->
                               NetSale(reportSums[<<"PLATFORM_SELLER", s>>])])
                + Gain(p, Platform)
<1> DEFINE P == [s \in ReportSellers |-> {i \in p.items : i.seller = s}]
<1>1. Splits(P, ReportSellers, p.items)
  BY AmountsAssumption DEF Splits
<1>2. IsFiniteSet(ReportSellers) /\ IsFiniteSet(p.items)
  BY AmountsAssumption
<1>3. \A s \in ReportSellers : P[s] \in SUBSET p.items
  OBVIOUS
<1>4. \A s \in ReportSellers : /\ ItemsOf(p, <<"SELLER", s>>) = P[s]
                               /\ ItemsOf(p, <<"PLATFORM_SELLER", s>>) = P[s]
  BY ReportItems
<1>5. p.items \in SUBSET p.items
  OBVIOUS
<1> HIDE DEF P
<1>6. SumFunction([s \in ReportSellers |-> NetSale(reportSums'[<<"SELLER", s>>])])
      = SumFunction([s \in ReportSellers |-> NetSale(reportSums[<<"SELLER", s>>])])
        + Gain(p, Flow)
  <2> DEFINE f == [i \in p.items |-> i.total]
             before == [s \in ReportSellers |-> NetSale(reportSums[<<"SELLER", s>>])]
             after == [s \in ReportSellers |-> NetSale(reportSums'[<<"SELLER", s>>])]
  <2>1. \A i \in p.items : f[i] \in Int
    BY AmountsAssumption
  <2>2. ASSUME NEW s \in ReportSellers
        PROVE  before[s] \in Int /\ after[s] = before[s] + Signed(p, SumFunctionOnSet(f, P[s]))
    <3>1. <<"SELLER", s>> \in AllReports /\ SalesReport(<<"SELLER", s>>)
      BY ReportNames
    <3>2. Gain(p, <<"SELLER", s>>) = Signed(p, Total(P[s]))
      BY <1>4, <3>1 DEF Gain
    <3>3. Total(P[s]) = SumFunctionOnSet(f, P[s])
      BY <1>3, ItemSums
    <3>4. before[s] \in Int /\ after[s] = before[s] + Gain(p, <<"SELLER", s>>)
      BY <3>1, NetSaleGrows
    <3> HIDE DEF f, before, after
    <3>5. QED BY <3>2, <3>3, <3>4
  <2>3. DOMAIN before = ReportSellers /\ DOMAIN after = ReportSellers
    OBVIOUS
  <2>4. Total(p.items) = SumFunctionOnSet(f, p.items)
    BY <1>5, ItemSums
  <2>5. Gain(p, Flow) = Signed(p, Total(p.items))
    BY ReportItems, ReportNames DEF Gain
  <2> HIDE DEF f, before, after
  <2>6. SumFunction(after) = SumFunction(before) + Signed(p, SumFunctionOnSet(f, p.items))
    BY <1>1, <1>2, <2>1, <2>2, <2>3, GrowsByClass
  <2>7. QED BY <2>4, <2>5, <2>6 DEF before, after
<1>7. SumFunction([s \in ReportSellers |-> NetSale(reportSums'[<<"PLATFORM_SELLER", s>>])])
      = SumFunction([s \in ReportSellers |-> NetSale(reportSums[<<"PLATFORM_SELLER", s>>])])
        + Gain(p, Platform)
  <2> DEFINE f == [i \in p.items |-> IF p.external THEN 0 ELSE i.commission]
             g == [i \in p.items |-> i.commission]
             before == [s \in ReportSellers |-> NetSale(reportSums[<<"PLATFORM_SELLER", s>>])]
             after == [s \in ReportSellers |-> NetSale(reportSums'[<<"PLATFORM_SELLER", s>>])]
  <2>1. \A i \in p.items : f[i] \in Int
    BY AmountsAssumption
  <2>2. ASSUME NEW S \in SUBSET p.items
        PROVE  SumFunctionOnSet(f, S) = IF p.external THEN 0 ELSE Commission(S)
    <3>1. IsFiniteSet(S)
      BY <1>2, FS_Subset
    <3>2. Commission(S) = SumFunctionOnSet(g, S)
      BY ItemSums
    <3>3. CASE p.external
      <4>1. {} \in SUBSET S /\ \A i \in S : f[i] \in Int /\ f[i] = 0
        BY <3>3
      <4> HIDE DEF f
      <4>2. SumFunctionOnSet(f, S) = SumFunctionOnSet(f, {})
        BY <3>1, <4>1, SumOfNonZero
      <4>3. QED BY <3>3, <4>2, SumOfNone
    <3>4. CASE ~p.external
      <4>1. \A i \in S : f[i] \in Int /\ f[i] = g[i]
        BY <2>1, <3>4
      <4> HIDE DEF f, g
      <4>2. SumFunctionOnSet(f, S) = SumFunctionOnSet(g, S)
        BY <3>1, <4>1, SumSame
      <4>3. QED BY <3>2, <3>4, <4>2
    <3>5. QED BY <3>3, <3>4
  <2>3. ASSUME NEW s \in ReportSellers
        PROVE  before[s] \in Int /\ after[s] = before[s] + Signed(p, SumFunctionOnSet(f, P[s]))
    <3>1. <<"PLATFORM_SELLER", s>> \in AllReports /\ ~SalesReport(<<"PLATFORM_SELLER", s>>)
      BY ReportNames
    <3>2. Gain(p, <<"PLATFORM_SELLER", s>>)
            = Signed(p, IF p.external THEN 0 ELSE Commission(P[s]))
      BY <1>4, <3>1 DEF Gain
    <3>3. SumFunctionOnSet(f, P[s]) = IF p.external THEN 0 ELSE Commission(P[s])
      BY <1>3, <2>2
    <3>4. before[s] \in Int /\ after[s] = before[s] + Gain(p, <<"PLATFORM_SELLER", s>>)
      BY <3>1, NetSaleGrows
    <3> HIDE DEF f, g, before, after
    <3>5. QED BY <3>2, <3>3, <3>4
  <2>4. DOMAIN before = ReportSellers /\ DOMAIN after = ReportSellers
    OBVIOUS
  <2>5. Gain(p, Platform) = Signed(p, SumFunctionOnSet(f, p.items))
    <3>1. Gain(p, Platform) = Signed(p, IF p.external THEN 0 ELSE Commission(p.items))
      BY ReportItems, ReportNames DEF Gain
    <3>2. SumFunctionOnSet(f, p.items) = IF p.external THEN 0 ELSE Commission(p.items)
      BY <1>5, <2>2
    <3> HIDE DEF f, g
    <3>3. QED BY <3>1, <3>2
  <2> HIDE DEF f, g, before, after
  <2>6. SumFunction(after) = SumFunction(before) + Signed(p, SumFunctionOnSet(f, p.items))
    BY <1>1, <1>2, <2>1, <2>3, <2>4, GrowsByClass
  <2>7. QED BY <2>5, <2>6 DEF before, after
<1>8. QED BY <1>6, <1>7

\* The tax groups of a report together gain what it gains.
LEMMA RatesGain ==
    ASSUME AmountsTypeOK, NEW p \in DigestedPayments, Digest(p), NEW r \in AllReports
    PROVE  /\ \A t \in Rates : taxGroupRows'[r][t] \in SumsRecord
           /\ SumFunction([t \in Rates |-> NetSale(taxGroupRows'[r][t])])
              = SumFunction([t \in Rates |-> NetSale(taxGroupRows[r][t])]) + Gain(p, r)
<1> DEFINE before == [t \in Rates |-> NetSale(taxGroupRows[r][t])]
           after == [t \in Rates |-> NetSale(taxGroupRows'[r][t])]
           items == ItemsOf(p, r)
<1>1. \A t \in Rates : taxGroupRows[r][t] \in SumsRecord
  BY DEF AmountsTypeOK
<1>2. items \in SUBSET p.items
  BY ReportItems
<1>3. /\ Total(items) \in Int /\ Commission(items) \in Int /\ CommissionTax(items) \in Int
      /\ Gain(p, r) \in Int
  BY <1>2, ItemSums, CommissionIsAmount, NetSaleGrows
<1>4. \A t \in Rates : before[t] \in Int
  <2>1. \A t \in Rates : NetSale(taxGroupRows[r][t]) \in Int
    BY <1>1, <1>3, AddedGrows
  <2>2. QED BY <2>1
<1>5. DOMAIN before = Rates /\ DOMAIN after = Rates /\ IsFiniteSet(Rates)
  BY FiniteTables
<1>6. IsFiniteSet(items)
  BY <1>2, AmountsAssumption, FS_Subset
<1>7. CASE r \notin ReportsFor(p)
  <2>1. \A t \in Rates : taxGroupRows'[r][t] = taxGroupRows[r][t]
    BY <1>7, NotQueued
  <2>2. items = {}
    BY <1>7, ReportItems
  <2>3. Gain(p, r) = 0
    <3>1. Total(ItemsOf(p, r)) = 0 /\ Commission(ItemsOf(p, r)) = 0
      BY <2>2, NoItemSums, Zenon
    <3> DEFINE amount == IF SalesReport(r) THEN Total(ItemsOf(p, r))
                         ELSE IF p.external THEN 0 ELSE Commission(ItemsOf(p, r))
    <3>2. Gain(p, r) = Signed(p, amount)
      BY DEF Gain
    <3>3. amount = 0
      BY <3>1, Zenon
    <3> HIDE DEF amount
    <3>4. Signed(p, 0) = 0
      BY DEF Signed
    <3>5. QED BY <3>2, <3>3, <3>4, Zenon
  <2>4. after = before
    BY <2>1
  <2>5. SumFunction(before) \in Int
    <3>1. SumFunction(before) = SumFunctionOnSet(before, Rates)
      BY <1>5, Zenon DEF SumFunction
    <3> HIDE DEF before
    <3>2. QED BY <1>4, <1>5, <3>1, SumInt
  <2> HIDE DEF before, after
  <2>6. SumFunction(after) = SumFunction(before) + Gain(p, r)
    BY <2>3, <2>4, <2>5
  <2>7. QED BY <1>1, <2>1, <2>6 DEF before, after
<1>8. CASE r \in ReportsFor(p) /\ SalesReport(r)
  <2> DEFINE P == [t \in Rates |-> {i \in items : i.rate = t}]
             f == [i \in p.items |-> i.total]
  <2>1. \A t \in Rates : taxGroupRows'[r][t] =
             AddedItems(taxGroupRows[r][t], p.type, {i \in items : i.rate = t})
    BY <1>8, SalesStep
  <2>2. Splits(P, Rates, items)
    <3>1. \A i \in items : i.rate \in Rates
      BY <1>2 DEF Rates
    <3>2. QED BY <3>1 DEF Splits
  <2>3. \A t \in Rates : P[t] = {i \in items : i.rate = t} /\ P[t] \in SUBSET p.items
    BY <1>2
  <2>4. \A i \in items : f[i] \in Int
    BY <1>2, AmountsAssumption
  <2>5. Total(items) = SumFunctionOnSet(f, items)
        /\ \A t \in Rates : Total(P[t]) = SumFunctionOnSet(f, P[t])
    BY <1>2, <2>3, ItemSums
  <2> HIDE DEF P, f, items
  <2>6. ASSUME NEW t \in Rates
        PROVE  /\ taxGroupRows'[r][t] \in SumsRecord
               /\ after[t] = before[t] + Signed(p, SumFunctionOnSet(f, P[t]))
    <3>1. taxGroupRows'[r][t] = AddedItems(taxGroupRows[r][t], p.type, P[t])
      BY <2>1, <2>3
    <3>2. /\ taxGroupRows'[r][t] \in SumsRecord
          /\ NetSale(taxGroupRows'[r][t])
               = NetSale(taxGroupRows[r][t]) + Signed(p, Total(P[t]))
      <4>1. taxGroupRows[r][t] \in SumsRecord /\ P[t] \in SUBSET p.items
        BY <1>1, <2>3, Zenon
      <4>2. /\ AddedItems(taxGroupRows[r][t], p.type, P[t]) \in SumsRecord
            /\ NetSale(AddedItems(taxGroupRows[r][t], p.type, P[t]))
                 = NetSale(taxGroupRows[r][t]) + Signed(p, Total(P[t]))
        BY <4>1, AddedItemsGrow
      <4>3. QED BY <3>1, <4>2, Zenon
    <3>3. Total(P[t]) = SumFunctionOnSet(f, P[t])
      BY <2>5
    <3>4. QED BY <3>2, <3>3
  <2>7. Gain(p, r) = Signed(p, SumFunctionOnSet(f, items))
    BY <1>8, <2>5 DEF Gain, items
  <2> HIDE DEF before, after
  <2>8. SumFunction(after) = SumFunction(before) + Signed(p, SumFunctionOnSet(f, items))
    BY <1>4, <1>5, <1>6, <2>2, <2>4, <2>6, GrowsByClass
  <2>9. QED BY <2>6, <2>7, <2>8 DEF before, after
<1>9. CASE r \in ReportsFor(p) /\ ~SalesReport(r)
  <2>1. \A t \in Rates : taxGroupRows'[r][t] =
           IF ~p.external /\ t = CommissionRate
           THEN Added(taxGroupRows[r][t], p.type, Commission(items), CommissionTax(items))
           ELSE taxGroupRows[r][t]
    BY <1>9, IncomeStep
  <2>2. Gain(p, r) = IF p.external THEN 0 ELSE Signed(p, Commission(items))
    BY <1>9 DEF Gain, Signed
  <2>3. CommissionRate \in Rates
    BY DEF Rates
  <2> HIDE DEF items
  <2>4. ASSUME NEW t \in Rates
        PROVE  /\ taxGroupRows'[r][t] \in SumsRecord
               /\ after[t] = before[t] + (IF t = CommissionRate THEN Gain(p, r) ELSE 0)
    <3>1. before[t] = NetSale(taxGroupRows[r][t]) /\ after[t] = NetSale(taxGroupRows'[r][t])
      OBVIOUS
    <3> HIDE DEF before, after
    <3>2. CASE ~p.external /\ t = CommissionRate
      <4>1. /\ taxGroupRows'[r][t] \in SumsRecord
            /\ NetSale(taxGroupRows'[r][t])
                 = NetSale(taxGroupRows[r][t]) + Signed(p, Commission(items))
        <5>1. /\ Added(taxGroupRows[r][t], p.type, Commission(items), CommissionTax(items))
                   \in SumsRecord
              /\ NetSale(Added(taxGroupRows[r][t], p.type, Commission(items),
                               CommissionTax(items)))
                   = NetSale(taxGroupRows[r][t]) + Signed(p, Commission(items))
          BY <1>1, <1>3, AddedGrows
        <5>2. taxGroupRows'[r][t] =
                Added(taxGroupRows[r][t], p.type, Commission(items), CommissionTax(items))
          BY <2>1, <3>2
        <5>3. QED BY <5>1, <5>2, Zenon
      <4>2. QED BY <2>2, <3>1, <3>2, <4>1
    <3>3. CASE p.external \/ t # CommissionRate
      <4>1. taxGroupRows'[r][t] = taxGroupRows[r][t]
        BY <2>1, <3>3
      <4>2. (IF t = CommissionRate THEN Gain(p, r) ELSE 0) = 0
        BY <2>2, <3>3
      <4>3. QED BY <1>1, <1>4, <3>1, <4>1, <4>2
    <3>4. QED BY <3>2, <3>3
  <2> HIDE DEF before, after
  <2>5. SumFunction(after) = SumFunction(before) + Gain(p, r)
    BY <1>3, <1>4, <1>5, <2>3, <2>4, GrowsByOne
  <2>6. QED BY <2>4, <2>5 DEF before, after
<1>10. QED BY <1>7, <1>8, <1>9

\* The net revenue of some items of a payment.
Net(items) == Total(items) - Tax(items)

\* A report of sales, and its items and platforms together, gain the net revenue of
\* the report's items.
LEMMA RevenueGain ==
    ASSUME AmountsTypeOK, NEW p \in DigestedPayments, Digest(p), NEW r \in AllReports,
           SalesReport(r)
    PROVE  /\ NetRevenue(reportSums'[r])
                = NetRevenue(reportSums[r]) + Signed(p, Net(ItemsOf(p, r)))
           /\ SumFunction([x \in ItemKeys |-> NetRevenue(itemRows'[r][x])])
              = SumFunction([x \in ItemKeys |-> NetRevenue(itemRows[r][x])])
                + Signed(p, Net(ItemsOf(p, r)))
           /\ SumFunction([x \in SoldOn |-> NetRevenue(platformRows'[r][x])])
              = SumFunction([x \in SoldOn |-> NetRevenue(platformRows[r][x])])
                + Signed(p, Net(ItemsOf(p, r)))
<1> DEFINE items == ItemsOf(p, r)
           rowsBefore == [x \in ItemKeys |-> NetRevenue(itemRows[r][x])]
           rowsAfter == [x \in ItemKeys |-> NetRevenue(itemRows'[r][x])]
           soldBefore == [x \in SoldOn |-> NetRevenue(platformRows[r][x])]
           soldAfter == [x \in SoldOn |-> NetRevenue(platformRows'[r][x])]
<1>1. /\ reportSums[r] \in SumsRecord
      /\ \A x \in ItemKeys : itemRows[r][x] \in SumsRecord
      /\ \A x \in SoldOn : platformRows[r][x] \in SumsRecord
  BY DEF AmountsTypeOK
<1>2. items \in SUBSET p.items
  BY ReportItems
<1>3. ASSUME NEW S \in SUBSET p.items
      PROVE  /\ Total(S) \in Int /\ Tax(S) \in Int /\ Net(S) \in Int
             /\ Net(S) = SumFunctionOnSet([i \in p.items |-> i.total - i.tax], S)
  <2>1. Total(S) \in Int /\ Tax(S) \in Int
    BY ItemSums
  <2>2. Net(S) = SumFunctionOnSet([i \in p.items |-> i.total - i.tax], S)
    BY NetOfItems, Zenon DEF Net
  <2>3. Net(S) \in Int
    BY <2>1 DEF Net
  <2>4. QED BY <2>1, <2>2, <2>3
<1>4. Signed(p, Net(items)) \in Int
  <2>1. Net(items) \in Int
    BY <1>2, <1>3
  <2> HIDE DEF items
  <2>2. QED BY <2>1 DEF Signed
<1>5. ASSUME NEW sums \in SumsRecord PROVE NetRevenue(sums) \in Int
  BY DEF NetRevenue, NetSale, SumsRecord
<1>6. /\ \A x \in ItemKeys : rowsBefore[x] \in Int
      /\ \A x \in SoldOn : soldBefore[x] \in Int
      /\ NetRevenue(reportSums[r]) \in Int
  BY <1>1, <1>5
<1>7. /\ DOMAIN rowsBefore = ItemKeys /\ DOMAIN rowsAfter = ItemKeys
      /\ DOMAIN soldBefore = SoldOn /\ DOMAIN soldAfter = SoldOn
  OBVIOUS
<1>8. IsFiniteSet(ItemKeys) /\ IsFiniteSet(SoldOn)
  BY FiniteTables
<1>9. IsFiniteSet(items)
  BY <1>2, AmountsAssumption, FS_Subset
<1>10. SumFunction(rowsBefore) \in Int /\ SumFunction(soldBefore) \in Int
  <2>1. SumFunction(rowsBefore) = SumFunctionOnSet(rowsBefore, ItemKeys)
        /\ SumFunction(soldBefore) = SumFunctionOnSet(soldBefore, SoldOn)
    BY <1>7, Zenon DEF SumFunction
  <2> HIDE DEF rowsBefore, soldBefore
  <2>2. QED BY <1>6, <1>8, <2>1, SumInt
<1>11. CASE r \notin ReportsFor(p)
  <2>1. /\ reportSums'[r] = reportSums[r]
        /\ \A x \in ItemKeys : itemRows'[r][x] = itemRows[r][x]
        /\ \A x \in SoldOn : platformRows'[r][x] = platformRows[r][x]
    BY <1>11, NotQueued
  <2>2. rowsAfter = rowsBefore /\ soldAfter = soldBefore
    BY <2>1
  <2>3. Signed(p, Net(items)) = 0
    <3>1. items = {}
      BY <1>11, ReportItems
    <3>2. Net({}) = 0
      BY NoItemSums DEF Net
    <3>3. Signed(p, 0) = 0
      BY DEF Signed
    <3>4. QED BY <3>1, <3>2, <3>3, Zenon
  <2> HIDE DEF rowsBefore, rowsAfter, soldBefore, soldAfter, items
  <2>4. /\ NetRevenue(reportSums'[r]) = NetRevenue(reportSums[r]) + Signed(p, Net(items))
        /\ SumFunction(rowsAfter) = SumFunction(rowsBefore) + Signed(p, Net(items))
        /\ SumFunction(soldAfter) = SumFunction(soldBefore) + Signed(p, Net(items))
    BY <1>6, <1>10, <2>1, <2>2, <2>3
  <2>5. QED BY <2>4 DEF rowsBefore, rowsAfter, soldBefore, soldAfter, items
<1>12. CASE r \in ReportsFor(p)
  <2> DEFINE P == [x \in ItemKeys |-> {i \in items : i.item = x}]
             f == [i \in p.items |-> i.total - i.tax]
  <2>1. /\ reportSums'[r] = AddedItems(reportSums[r], p.type, items)
        /\ \A x \in ItemKeys : itemRows'[r][x] =
                 AddedItems(itemRows[r][x], p.type, {i \in items : i.item = x})
        /\ \A x \in SoldOn : platformRows'[r][x] =
                 IF x = PlatformOf(p) THEN AddedItems(platformRows[r][x], p.type, items)
                 ELSE platformRows[r][x]
    BY <1>12, SalesStep
  <2>2. ASSUME NEW sums \in SumsRecord, NEW S \in SUBSET p.items
        PROVE  NetRevenue(AddedItems(sums, p.type, S)) = NetRevenue(sums) + Signed(p, Net(S))
    BY AddedItemsGrow DEF Net
  <2>3. Splits(P, ItemKeys, items)
    <3>1. \A i \in items : i.item \in ItemKeys
      BY <1>2 DEF ItemKeys
    <3>2. QED BY <3>1 DEF Splits
  <2>4. \A x \in ItemKeys : P[x] = {i \in items : i.item = x} /\ P[x] \in SUBSET p.items
    BY <1>2
  <2>5. \A i \in items : f[i] \in Int
    BY <1>2, AmountsAssumption
  <2>6. Net(items) = SumFunctionOnSet(f, items)
        /\ \A x \in ItemKeys : Net(P[x]) = SumFunctionOnSet(f, P[x])
    BY <1>2, <1>3, <2>4
  <2> HIDE DEF P, f, items
  <2>7. NetRevenue(reportSums'[r]) = NetRevenue(reportSums[r]) + Signed(p, Net(items))
    BY <1>1, <1>2, <2>1, <2>2
  <2>8. ASSUME NEW x \in ItemKeys
        PROVE  rowsAfter[x] = rowsBefore[x] + Signed(p, SumFunctionOnSet(f, P[x]))
    <3>1. itemRows'[r][x] = AddedItems(itemRows[r][x], p.type, P[x])
      BY <2>1, <2>4
    <3>2. itemRows[r][x] \in SumsRecord /\ P[x] \in SUBSET p.items
      BY <1>1, <2>4, Zenon
    <3>3. NetRevenue(itemRows'[r][x]) = NetRevenue(itemRows[r][x]) + Signed(p, Net(P[x]))
      BY <2>2, <3>1, <3>2
    <3>4. Net(P[x]) = SumFunctionOnSet(f, P[x])
      BY <2>6
    <3>5. rowsBefore[x] = NetRevenue(itemRows[r][x])
          /\ rowsAfter[x] = NetRevenue(itemRows'[r][x])
      OBVIOUS
    <3> HIDE DEF rowsBefore, rowsAfter
    <3>6. QED BY <3>3, <3>4, <3>5, Zenon
  <2>9. SumFunction(rowsAfter) = SumFunction(rowsBefore) + Signed(p, Net(items))
    <3> HIDE DEF rowsBefore, rowsAfter
    <3>1. SumFunction(rowsAfter)
            = SumFunction(rowsBefore) + Signed(p, SumFunctionOnSet(f, items))
      BY <1>6, <1>7, <1>8, <1>9, <2>3, <2>5, <2>8, GrowsByClass
    <3>2. QED BY <2>6, <3>1, Zenon
  <2>10. PlatformOf(p) \in SoldOn
    BY DEF PlatformOf, SoldOn
  <2>11. ASSUME NEW x \in SoldOn
         PROVE  soldAfter[x] = soldBefore[x]
                  + (IF x = PlatformOf(p) THEN Signed(p, Net(items)) ELSE 0)
    <3>1. soldBefore[x] = NetRevenue(platformRows[r][x])
          /\ soldAfter[x] = NetRevenue(platformRows'[r][x])
      OBVIOUS
    <3>2. soldBefore[x] \in Int /\ platformRows[r][x] \in SumsRecord
      BY <1>1, <1>6, Zenon
    <3> HIDE DEF soldBefore, soldAfter
    <3>3. CASE x = PlatformOf(p)
      <4>1. platformRows'[r][x] = AddedItems(platformRows[r][x], p.type, items)
        BY <2>1, <3>3
      <4>2. NetRevenue(AddedItems(platformRows[r][x], p.type, items))
              = NetRevenue(platformRows[r][x]) + Signed(p, Net(items))
        BY <1>2, <2>2, <3>2
      <4>3. QED BY <3>1, <3>3, <4>1, <4>2, Zenon
    <3>4. CASE x # PlatformOf(p)
      <4>1. platformRows'[r][x] = platformRows[r][x]
        BY <2>1, <3>4
      <4>2. QED BY <3>1, <3>2, <3>4, <4>1
    <3>5. QED BY <3>3, <3>4
  <2>12. SumFunction(soldAfter) = SumFunction(soldBefore) + Signed(p, Net(items))
    <3> HIDE DEF soldBefore, soldAfter
    <3>1. QED BY <1>4, <1>6, <1>7, <1>8, <2>10, <2>11, GrowsByOne
  <2> HIDE DEF rowsBefore, rowsAfter, soldBefore, soldAfter
  <2>13. QED BY <2>7, <2>9, <2>12 DEF rowsBefore, rowsAfter, soldBefore, soldAfter, items
<1>13. QED BY <1>11, <1>12

-----------------------------------------------------------------------------
\* A share of a fee is an amount: who is debited has a price to be debited by.
LEMMA FeesAreAmounts ==
    ASSUME NEW p \in DigestedPayments, NEW r \in AllReports,
           NEW operations \in SUBSET FeesOf(p, r)
    PROVE  FeesTotal(p, r, operations) \in Int
<1> DEFINE share == [o \in operations |->
              IF r[1] = "SELLER" THEN (o.fee * Total(ItemsOf(p, r))) \div Total(p.items)
              ELSE o.fee]
<1>1. operations \subseteq p.operations
      /\ \A o \in operations : r[1] = "SELLER" => Total(ItemsOf(p, r)) > 0
  BY DEF FeesOf
<1>2. \A o \in operations : o.fee \in Int
  BY <1>1, AmountsAssumption
<1>3. Total(ItemsOf(p, r)) \in Int /\ Total(p.items) \in Int
      /\ Total(ItemsOf(p, r)) <= Total(p.items)
  <2> DEFINE f == [i \in p.items |-> i.total]
  <2>1. ItemsOf(p, r) \in SUBSET p.items /\ p.items \in SUBSET p.items
    BY ReportItems
  <2>2. \A i \in p.items : f[i] \in Nat
    BY AmountsAssumption
  <2>3. Total(ItemsOf(p, r)) = SumFunctionOnSet(f, ItemsOf(p, r))
        /\ Total(p.items) = SumFunctionOnSet(f, p.items)
        /\ Total(ItemsOf(p, r)) \in Int /\ Total(p.items) \in Int
    BY <2>1, ItemSums
  <2>4. IsFiniteSet(p.items)
    BY AmountsAssumption
  <2> HIDE DEF f
  <2>5. SumFunctionOnSet(f, ItemsOf(p, r)) <= SumFunctionOnSet(f, p.items)
    BY <2>1, <2>2, <2>4, SumOfSubset
  <2>6. QED BY <2>3, <2>5
<1>4. \A o \in operations : share[o] \in Int
  <2>1. SUFFICES ASSUME NEW o \in operations PROVE share[o] \in Int
    OBVIOUS
  <2>2. CASE r[1] # "SELLER"
    BY <1>2, <2>2
  <2>3. CASE r[1] = "SELLER"
    <3>1. share[o] = (o.fee * Total(ItemsOf(p, r))) \div Total(p.items)
      BY <2>3
    <3>2. Total(p.items) > 0
      BY <1>1, <1>3, <2>3
    <3>3. o.fee * Total(ItemsOf(p, r)) \in Int
      BY <1>2, <1>3
    <3>4. \A x \in Int : x \div Total(p.items) \in Int
      BY <1>3, <3>2
    <3> HIDE DEF share
    <3>5. QED BY <3>1, <3>3, <3>4
  <2>4. QED BY <2>2, <2>3
<1>5. IsFiniteSet(operations) /\ DOMAIN share = operations
  BY <1>1, AmountsAssumption, FS_Subset
<1>6. FeesTotal(p, r, operations) = SumFunction(share)
  BY DEF FeesTotal
<1> HIDE DEF share
<1>7. SumFunction(share) = SumFunctionOnSet(share, operations)
  BY <1>5, Zenon DEF SumFunction
<1>8. QED BY <1>4, <1>5, <1>6, <1>7, SumInt

\* The change of commissions is the gain of an income report.
LEMMA CommissionChanges ==
    ASSUME NEW p \in DigestedPayments, NEW items \in SUBSET p.items
    PROVE  /\ CommissionChange(p.type, items) \in Int
           /\ CommissionChange(p.type, items) = Signed(p, Commission(items))
<1>1. Commission(items) \in Int
  BY ItemSums
<1>2. QED BY <1>1 DEF CommissionChange, Signed

\* Every entry among the expenses is an amount.
LEMMA ExpensesAreAmounts ==
    ASSUME NEW p \in DigestedPayments, NEW r \in AllReports,
           NEW a \in ExpenseAccounts, NEW k \in Expenses
    PROVE  /\ CommissionExpense(p, r, k) \in Int /\ FeeExpense(p, r, k) \in Int
           /\ RoundingExpense(p, k) \in Int /\ ExpenseOf(p, r, a, k) \in Int
<1>1. CommissionExpense(p, r, k) \in Int
  <2>1. ItemsOf(p, r) \in SUBSET p.items
    BY ReportItems
  <2>2. {i \in ItemsOf(p, r) : i.class = k[3]} \in SUBSET p.items
    BY <2>1
  <2>3. CommissionChange(p.type, ItemsOf(p, r)) \in Int
    BY <2>1, CommissionChanges
  <2>4. CommissionChange(p.type, {i \in ItemsOf(p, r) : i.class = k[3]}) \in Int
    BY <2>2, CommissionChanges
  <2>5. QED BY <2>3, <2>4 DEF CommissionExpense
<1>2. FeeExpense(p, r, k) \in Int
  <2>1. FeesOf(p, r) \in SUBSET FeesOf(p, r)
        /\ {o \in FeesOf(p, r) : o.channel = k[2]} \in SUBSET FeesOf(p, r)
    OBVIOUS
  <2>2. FeesTotal(p, r, FeesOf(p, r)) \in Int
    BY <2>1, FeesAreAmounts
  <2>3. FeesTotal(p, r, {o \in FeesOf(p, r) : o.channel = k[2]}) \in Int
    BY <2>1, FeesAreAmounts
  <2>4. QED BY <2>2, <2>3 DEF FeeExpense
<1>3. RoundingExpense(p, k) \in Int
  BY AmountsAssumption DEF RoundingExpense
<1>4. QED BY <1>1, <1>2, <1>3 DEF ExpenseOf

\* What a payment adds to the expenses under REPORT_TOTAL it adds under the keys that
\* make it up, and to its own platform's commissions alone.
LEMMA ExpenseParts ==
    ASSUME NEW p \in DigestedPayments, NEW r \in AllReports, SalesReport(r)
    PROVE  /\ ExpenseOf(p, r, "owner", <<"REPORT_TOTAL">>)
                = ExpenseOf(p, r, "owner", <<"COMISSION_TOTAL", PlatformOf(p)>>)
                  + ExpenseOf(p, r, "owner", <<"PAYMENT_SERVICE_FEE">>)
                  + ExpenseOf(p, r, "owner", <<"REFUND_ROUNDING_ADJUSTMENT">>)
           /\ \A x \in SoldOn : ExpenseOf(p, r, "owner", <<"COMISSION_TOTAL", x>>)
                = IF x = PlatformOf(p) THEN CommissionChange(p.type, ItemsOf(p, r)) ELSE 0
<1> DEFINE total == <<"REPORT_TOTAL">>
           sold(x) == <<"COMISSION_TOTAL", x>>
           service == <<"PAYMENT_SERVICE_FEE">>
           round == <<"REFUND_ROUNDING_ADJUSTMENT">>
           change == CommissionChange(p.type, ItemsOf(p, r))
<1>1. ItemsOf(p, r) \in SUBSET p.items
  BY ReportItems
<1>2. change \in Int
  BY <1>1, CommissionChanges
<1>3. FeesTotal(p, r, FeesOf(p, r)) \in Int
  <2>1. FeesOf(p, r) \in SUBSET FeesOf(p, r)
    OBVIOUS
  <2>2. QED BY <2>1, FeesAreAmounts
<1>4. p.rounding \in Int
  BY AmountsAssumption
<1>5. /\ total # service /\ total # round /\ service # round
      /\ total[1] = "REPORT_TOTAL" /\ service[1] = "PAYMENT_SERVICE_FEE"
      /\ round[1] = "REFUND_ROUNDING_ADJUSTMENT"
      /\ \A x : /\ total # sold(x) /\ service # sold(x) /\ round # sold(x)
                /\ sold(x)[1] = "COMISSION_TOTAL"
      /\ \A x \in SoldOn : \A y \in SoldOn : sold(x) = sold(y) => x = y
  BY ExpenseKeys DEF SoldOn
<1>6. PlatformOf(p) \in SoldOn
  BY DEF PlatformOf, SoldOn
<1>7. /\ CommissionExpense(p, r, total) = change
      /\ CommissionExpense(p, r, service) = 0
      /\ CommissionExpense(p, r, round) = 0
      /\ \A x \in SoldOn : CommissionExpense(p, r, sold(x)) = IF x = PlatformOf(p) THEN change ELSE 0
  <2> HIDE DEF total, sold, service, round, change
  <2>1. \A k : CommissionExpense(p, r, k) =
          CASE k \in {total, sold(PlatformOf(p))} -> change
            [] k[1] = "ITEM_CLASS_COMISSION" /\ k[2] = PlatformOf(p) ->
                  CommissionChange(p.type, {i \in ItemsOf(p, r) : i.class = k[3]})
            [] OTHER -> 0
    BY DEF CommissionExpense, total, sold, change
  <2>2. \A k : k[1] # "ITEM_CLASS_COMISSION" =>
          CommissionExpense(p, r, k) = IF k \in {total, sold(PlatformOf(p))} THEN change ELSE 0
    BY <2>1
  <2>3. QED BY <1>5, <1>6, <2>2
<1>8. /\ FeeExpense(p, r, total) = FeesTotal(p, r, FeesOf(p, r))
      /\ FeeExpense(p, r, service) = FeesTotal(p, r, FeesOf(p, r))
      /\ FeeExpense(p, r, round) = 0
      /\ \A x \in SoldOn : FeeExpense(p, r, sold(x)) = 0
  <2> HIDE DEF total, sold, service, round, change
  <2>1. \A k : FeeExpense(p, r, k) =
          CASE k \in {total, service} -> FeesTotal(p, r, FeesOf(p, r))
            [] k[1] = "PAYMENT_CHANNEL_FEE" ->
                  FeesTotal(p, r, {o \in FeesOf(p, r) : o.channel = k[2]})
            [] OTHER -> 0
    BY DEF FeeExpense, total, service
  <2>2. \A k : k[1] # "PAYMENT_CHANNEL_FEE" =>
          FeeExpense(p, r, k) = IF k \in {total, service} THEN FeesTotal(p, r, FeesOf(p, r)) ELSE 0
    BY <2>1
  <2>3. QED BY <1>5, <2>2
<1>9. /\ RoundingExpense(p, total) = RoundingExpense(p, round)
      /\ RoundingExpense(p, total) \in Int
      /\ RoundingExpense(p, service) = 0
      /\ \A x \in SoldOn : RoundingExpense(p, sold(x)) = 0
  <2> HIDE DEF total, sold, service, round, change
  <2>1. \A k : RoundingExpense(p, k) =
          IF p.type = "REFUND" /\ k \in {total, round} THEN p.rounding ELSE 0
    BY DEF RoundingExpense, total, round
  <2>2. QED BY <1>4, <1>5, <2>1
<1>10. \A k : ExpenseOf(p, r, "owner", k)
          = CommissionExpense(p, r, k)
            + (IF r[1] = "SELLER" THEN FeeExpense(p, r, k) ELSE 0)
            + (IF r[1] = "PLATFORM_FLOW" THEN RoundingExpense(p, k) ELSE 0)
  BY DEF ExpenseOf, SalesReport
<1> HIDE DEF total, sold, service, round, change
<1>11. /\ ExpenseOf(p, r, "owner", total)
            = ExpenseOf(p, r, "owner", sold(PlatformOf(p)))
              + ExpenseOf(p, r, "owner", service) + ExpenseOf(p, r, "owner", round)
       /\ \A x \in SoldOn : ExpenseOf(p, r, "owner", sold(x))
            = IF x = PlatformOf(p) THEN change ELSE 0
  BY <1>2, <1>3, <1>6, <1>7, <1>8, <1>9, <1>10
<1>12. QED BY <1>11 DEF total, sold, service, round, change

\* What a payment adds to a row of the expenses of the owner of a report.
Spent(p, r, k) == IF r \in ReportsFor(p) THEN ExpenseOf(p, r, "owner", k) ELSE 0

\* A row of the owner's expenses grows by what is spent.
LEMMA ExpensesGrow ==
    ASSUME AmountsTypeOK, NEW p \in DigestedPayments, Digest(p), NEW r \in AllReports,
           NEW k \in Expenses
    PROVE  /\ OwnerExpense(r, k) \in Int /\ Spent(p, r, k) \in Int
           /\ OwnerExpense(r, k)' = OwnerExpense(r, k) + Spent(p, r, k)
<1>1. "owner" \in ExpenseAccounts
  BY DEF ExpenseAccounts
<1>2. OwnerExpense(r, k) \in Int
  BY <1>1 DEF AmountsTypeOK, OwnerExpense
<1>3. Spent(p, r, k) \in Int
  BY <1>1, ExpensesAreAmounts DEF Spent
<1>4. expenseRows' = [x \in AllReports |-> [a \in ExpenseAccounts |-> [y \in Expenses |->
          expenseRows[x][a][y] + IF x \in ReportsFor(p) THEN ExpenseOf(p, x, a, y) ELSE 0]]]
  BY DEF Digest
<1>5. OwnerExpense(r, k)' = OwnerExpense(r, k) + Spent(p, r, k)
  BY <1>1, <1>4 DEF OwnerExpense, Spent
<1>6. QED BY <1>2, <1>3, <1>5

\* The four keys that make up the total.
LEMMA TotalOfKeys ==
    ASSUME NEW f, DOMAIN f = TotalledExpenses, \A k \in TotalledExpenses : f[k] \in Int
    PROVE  SumFunction(f) = f[<<"COMISSION_TOTAL", "POSTRAL_INSTANCE">>]
                            + f[<<"COMISSION_TOTAL", "external">>]
                            + f[<<"PAYMENT_SERVICE_FEE">>]
                            + f[<<"REFUND_ROUNDING_ADJUSTMENT">>]
<1> DEFINE a == <<"COMISSION_TOTAL", "POSTRAL_INSTANCE">>
           b == <<"COMISSION_TOTAL", "external">>
           c == <<"PAYMENT_SERVICE_FEE">>
           d == <<"REFUND_ROUNDING_ADJUSTMENT">>
<1>1. a # b /\ a # c /\ a # d /\ b # c /\ b # d /\ c # d
  BY ExpenseKeys
<1>2. TotalledExpenses = {a, b, c, d}
  BY DEF TotalledExpenses, SoldOn
<1> HIDE DEF a, b, c, d
<1>3. f[a] \in Int /\ f[b] \in Int /\ f[c] \in Int /\ f[d] \in Int
  BY <1>2
<1>4. SumFunctionOnSet(f, {}) = 0 /\ IsFiniteSet({})
  BY SumOfNone, FS_EmptySet
<1>5. IsFiniteSet({a}) /\ SumFunctionOnSet(f, {a}) = f[a]
  <2>1. {} \cup {a} = {a} /\ a \notin {}
    OBVIOUS
  <2>2. SumFunctionOnSet(f, {} \cup {a}) = SumFunctionOnSet(f, {}) + f[a]
    BY <1>3, <1>4, SumAdd
  <2>3. IsFiniteSet({} \cup {a})
    BY <1>4, FS_AddElement
  <2>4. QED BY <1>3, <1>4, <2>1, <2>2, <2>3
<1>6. IsFiniteSet({a, b}) /\ SumFunctionOnSet(f, {a, b}) = f[a] + f[b]
  <2>1. {a} \cup {b} = {a, b} /\ b \notin {a} /\ \A y \in {a} : f[y] \in Int
    BY <1>1, <1>3
  <2>2. SumFunctionOnSet(f, {a} \cup {b}) = SumFunctionOnSet(f, {a}) + f[b]
    BY <1>3, <1>5, <2>1, SumAdd
  <2>3. IsFiniteSet({a} \cup {b})
    BY <1>5, FS_AddElement
  <2>4. QED BY <1>5, <2>1, <2>2, <2>3
<1>7. IsFiniteSet({a, b, c}) /\ SumFunctionOnSet(f, {a, b, c}) = f[a] + f[b] + f[c]
  <2>1. {a, b} \cup {c} = {a, b, c} /\ c \notin {a, b} /\ \A y \in {a, b} : f[y] \in Int
    BY <1>1, <1>3
  <2>2. SumFunctionOnSet(f, {a, b} \cup {c}) = SumFunctionOnSet(f, {a, b}) + f[c]
    BY <1>3, <1>6, <2>1, SumAdd
  <2>3. IsFiniteSet({a, b} \cup {c})
    BY <1>6, FS_AddElement
  <2>4. QED BY <1>6, <2>1, <2>2, <2>3
<1>8. SumFunctionOnSet(f, {a, b, c, d}) = f[a] + f[b] + f[c] + f[d]
  <2>1. {a, b, c} \cup {d} = {a, b, c, d} /\ d \notin {a, b, c}
        /\ \A y \in {a, b, c} : f[y] \in Int
    BY <1>1, <1>3
  <2>2. SumFunctionOnSet(f, {a, b, c} \cup {d}) = SumFunctionOnSet(f, {a, b, c}) + f[d]
    BY <1>3, <1>7, <2>1, SumAdd
  <2>3. QED BY <1>7, <2>1, <2>2
<1>9. SumFunction(f) = SumFunctionOnSet(f, {a, b, c, d})
  BY <1>2, Zenon DEF SumFunction
<1>10. QED BY <1>8, <1>9 DEF a, b, c, d

-----------------------------------------------------------------------------
\* What digesting leaves in every report and table is an amount again.
LEMMA DigestType ==
    ASSUME AmountsTypeOK, NEW p \in DigestedPayments, Digest(p)
    PROVE  AmountsTypeOK'
<1>1. reportSums' \in [AllReports -> SumsRecord]
  <2>1. \E f : reportSums' = [r \in AllReports |-> f[r]]
    <3> DEFINE sales == {r \in ReportsFor(p) : SalesReport(r)}
               income == {r \in ReportsFor(p) : IncomeReport(p, r)}
               f == [r \in AllReports |->
             CASE r \in sales -> AddedItems(reportSums[r], p.type, ItemsOf(p, r))
               [] r \in income -> Added(reportSums[r], p.type, Commission(ItemsOf(p, r)),
                                        CommissionTax(ItemsOf(p, r)))
               [] OTHER -> reportSums[r]]
    <3>1. reportSums' = f
      BY DEF Digest
    <3>2. f = [r \in AllReports |-> f[r]]
      OBVIOUS
    <3> HIDE DEF f
    <3>3. QED BY <3>1, <3>2
  <2>2. \A r \in AllReports : reportSums'[r] \in SumsRecord
    BY NetSaleGrows
  <2>3. QED BY <2>1, <2>2
<1>2. taxGroupRows' \in [AllReports -> [Rates -> SumsRecord]]
  <2>1. \A r \in AllReports : \A t \in Rates : taxGroupRows'[r][t] \in SumsRecord
    BY RatesGain
  <2>2. taxGroupRows' = [r \in AllReports |-> [t \in Rates |-> taxGroupRows'[r][t]]]
    BY DEF Digest
  <2>3. QED BY <2>1, <2>2
<1>3. itemRows' \in [AllReports -> [ItemKeys -> SumsRecord]]
  <2>1. ASSUME NEW r \in AllReports, NEW x \in ItemKeys
        PROVE  itemRows'[r][x] \in SumsRecord
    <3>1. itemRows[r][x] \in SumsRecord
      BY DEF AmountsTypeOK
    <3>2. ItemsOf(p, r) \in SUBSET p.items
      BY ReportItems
    <3>3. {i \in ItemsOf(p, r) : i.item = x} \in SUBSET p.items
      BY <3>2
    <3>4. AddedItems(itemRows[r][x], p.type, {i \in ItemsOf(p, r) : i.item = x}) \in SumsRecord
      BY <3>1, <3>3, AddedItemsGrow
    <3>5. itemRows'[r][x] = itemRows[r][x]
          \/ itemRows'[r][x]
               = AddedItems(itemRows[r][x], p.type, {i \in ItemsOf(p, r) : i.item = x})
      BY DEF Digest
    <3>6. QED BY <3>1, <3>4, <3>5, Zenon
  <2>2. itemRows' = [r \in AllReports |-> [x \in ItemKeys |-> itemRows'[r][x]]]
    BY DEF Digest
  <2>3. QED BY <2>1, <2>2
<1>4. platformRows' \in [AllReports -> [SoldOn -> SumsRecord]]
  <2>1. ASSUME NEW r \in AllReports, NEW x \in SoldOn
        PROVE  platformRows'[r][x] \in SumsRecord
    <3>1. platformRows[r][x] \in SumsRecord
      BY DEF AmountsTypeOK
    <3>2. ItemsOf(p, r) \in SUBSET p.items
      BY ReportItems
    <3>3. AddedItems(platformRows[r][x], p.type, ItemsOf(p, r)) \in SumsRecord
      BY <3>1, <3>2, AddedItemsGrow
    <3>4. platformRows'[r][x] = platformRows[r][x]
          \/ platformRows'[r][x] = AddedItems(platformRows[r][x], p.type, ItemsOf(p, r))
      BY DEF Digest
    <3>5. QED BY <3>1, <3>3, <3>4, Zenon
  <2>2. platformRows' = [r \in AllReports |-> [x \in SoldOn |-> platformRows'[r][x]]]
    BY DEF Digest
  <2>3. QED BY <2>1, <2>2
<1>5. expenseRows' \in [AllReports -> [ExpenseAccounts -> [Expenses -> Int]]]
  <2>1. ASSUME NEW r \in AllReports, NEW a \in ExpenseAccounts, NEW k \in Expenses
        PROVE  expenseRows'[r][a][k] \in Int
    <3>1. expenseRows[r][a][k] \in Int
      BY DEF AmountsTypeOK
    <3>2. ExpenseOf(p, r, a, k) \in Int
      BY ExpensesAreAmounts
    <3>3. expenseRows'[r][a][k] = expenseRows[r][a][k]
            + (IF r \in ReportsFor(p) THEN ExpenseOf(p, r, a, k) ELSE 0)
      BY DEF Digest
    <3>4. QED BY <3>1, <3>2, <3>3
  <2>2. expenseRows' = [r \in AllReports |-> [a \in ExpenseAccounts |-> [k \in Expenses |->
                           expenseRows'[r][a][k]]]]
    BY DEF Digest
  <2>3. QED BY <2>1, <2>2
<1>6. totalExpense' \in [AllReports -> Int]
  <2>1. ASSUME NEW r \in AllReports PROVE totalExpense'[r] \in Int
    <3>1. totalExpense[r] \in Int
      BY DEF AmountsTypeOK
    <3>2. expenseRows'[r]["owner"][<<"REPORT_TOTAL">>] \in Int
      BY <1>5, ExpenseKeys DEF ExpenseAccounts
    <3>3. totalExpense'[r] = totalExpense[r]
          \/ totalExpense'[r] = expenseRows'[r]["owner"][<<"REPORT_TOTAL">>]
      BY DEF Digest
    <3>4. QED BY <3>1, <3>2, <3>3, Zenon
  <2>2. totalExpense' = [r \in AllReports |-> totalExpense'[r]]
    BY DEF Digest
  <2>3. QED BY <2>1, <2>2
<1>7. QED BY <1>1, <1>2, <1>3, <1>4, <1>5, <1>6 DEF AmountsTypeOK

\* The totals of a report of sales grow with their parts.
LEMMA TotalsGrow ==
    ASSUME AmountsTypeOK, NEW p \in DigestedPayments, Digest(p),
           NEW r \in AllReports, SalesReport(r)
    PROVE  /\ totalExpense[r] = OwnerExpense(r, <<"REPORT_TOTAL">>)
                 => totalExpense'[r] = OwnerExpense(r, <<"REPORT_TOTAL">>)'
           /\ SumFunction([k \in TotalledExpenses |-> OwnerExpense(r, k)'])
              = SumFunction([k \in TotalledExpenses |-> OwnerExpense(r, k)])
                + Spent(p, r, <<"REPORT_TOTAL">>)
<1>1. totalExpense[r] = OwnerExpense(r, <<"REPORT_TOTAL">>)
         => totalExpense'[r] = OwnerExpense(r, <<"REPORT_TOTAL">>)'
  <2>1. CASE r \in ReportsFor(p)
    BY <2>1, SalesStep DEF OwnerExpense
  <2>2. CASE r \notin ReportsFor(p)
    BY <2>2, NotQueued, ExpenseKeys DEF OwnerExpense
  <2>3. QED BY <2>1, <2>2
<1> DEFINE a == <<"COMISSION_TOTAL", "POSTRAL_INSTANCE">>
           b == <<"COMISSION_TOTAL", "external">>
           c == <<"PAYMENT_SERVICE_FEE">>
           d == <<"REFUND_ROUNDING_ADJUSTMENT">>
           before == [k \in TotalledExpenses |-> OwnerExpense(r, k)]
           after == [k \in TotalledExpenses |-> OwnerExpense(r, k)']
<1>2. {a, b, c, d} \subseteq Expenses /\ <<"REPORT_TOTAL">> \in Expenses
  BY ExpenseKeys DEF SoldOn
<1>3. TotalledExpenses = {a, b, c, d}
  BY DEF TotalledExpenses, SoldOn
<1>4. ASSUME NEW k \in TotalledExpenses
      PROVE  /\ before[k] = OwnerExpense(r, k) /\ after[k] = OwnerExpense(r, k)'
             /\ before[k] \in Int /\ Spent(p, r, k) \in Int
             /\ after[k] = before[k] + Spent(p, r, k)
  <2>1. k \in Expenses
    BY <1>2, <1>3
  <2>2. before[k] = OwnerExpense(r, k) /\ after[k] = OwnerExpense(r, k)'
    OBVIOUS
  <2> HIDE DEF before, after
  <2>3. QED BY <2>1, <2>2, ExpensesGrow
<1>5. DOMAIN before = TotalledExpenses /\ DOMAIN after = TotalledExpenses
  OBVIOUS
<1>6. Spent(p, r, <<"REPORT_TOTAL">>)
        = Spent(p, r, a) + Spent(p, r, b) + Spent(p, r, c) + Spent(p, r, d)
  <2>1. CASE r \notin ReportsFor(p)
    BY <2>1 DEF Spent
  <2>2. CASE r \in ReportsFor(p)
    <3>1. PlatformOf(p) = "POSTRAL_INSTANCE" \/ PlatformOf(p) = "external"
      BY DEF PlatformOf
    <3>2. "POSTRAL_INSTANCE" \in SoldOn /\ "external" \in SoldOn
          /\ "POSTRAL_INSTANCE" # "external"
      BY DEF SoldOn
    <3>3. /\ ExpenseOf(p, r, "owner", a) =
                IF "POSTRAL_INSTANCE" = PlatformOf(p)
                THEN CommissionChange(p.type, ItemsOf(p, r)) ELSE 0
          /\ ExpenseOf(p, r, "owner", b) =
                IF "external" = PlatformOf(p)
                THEN CommissionChange(p.type, ItemsOf(p, r)) ELSE 0
      BY <3>2, ExpenseParts
    <3>4. ExpenseOf(p, r, "owner", <<"REPORT_TOTAL">>)
            = ExpenseOf(p, r, "owner", <<"COMISSION_TOTAL", PlatformOf(p)>>)
              + ExpenseOf(p, r, "owner", c) + ExpenseOf(p, r, "owner", d)
      BY ExpenseParts
    <3>5. /\ Spent(p, r, a) = ExpenseOf(p, r, "owner", a)
          /\ Spent(p, r, b) = ExpenseOf(p, r, "owner", b)
          /\ Spent(p, r, c) = ExpenseOf(p, r, "owner", c)
          /\ Spent(p, r, d) = ExpenseOf(p, r, "owner", d)
          /\ Spent(p, r, <<"REPORT_TOTAL">>) = ExpenseOf(p, r, "owner", <<"REPORT_TOTAL">>)
      BY <2>2, Zenon DEF Spent
    <3>6. /\ Spent(p, r, a) \in Int /\ Spent(p, r, b) \in Int
          /\ Spent(p, r, c) \in Int /\ Spent(p, r, d) \in Int
      BY <1>2, ExpensesGrow
    <3>7. CASE PlatformOf(p) = "POSTRAL_INSTANCE"
      <4>1. ExpenseOf(p, r, "owner", <<"COMISSION_TOTAL", PlatformOf(p)>>)
              = ExpenseOf(p, r, "owner", a)
        BY <3>7, Zenon
      <4>2. ExpenseOf(p, r, "owner", b) = 0
        BY <3>2, <3>3, <3>7
      <4> HIDE DEF a, b, c, d
      <4>3. QED BY <3>4, <3>5, <3>6, <4>1, <4>2
    <3>8. CASE PlatformOf(p) = "external"
      <4>1. ExpenseOf(p, r, "owner", <<"COMISSION_TOTAL", PlatformOf(p)>>)
              = ExpenseOf(p, r, "owner", b)
        BY <3>8, Zenon
      <4>2. ExpenseOf(p, r, "owner", a) = 0
        BY <3>2, <3>3, <3>8
      <4> HIDE DEF a, b, c, d
      <4>3. QED BY <3>4, <3>5, <3>6, <4>1, <4>2
    <3>9. QED BY <3>1, <3>7, <3>8
  <2>3. QED BY <2>1, <2>2
<1>7. /\ SumFunction(before) = before[a] + before[b] + before[c] + before[d]
      /\ SumFunction(after) = after[a] + after[b] + after[c] + after[d]
  <2>1. \A k \in TotalledExpenses : before[k] \in Int /\ after[k] \in Int
    <3> HIDE DEF before, after
    <3>1. QED BY <1>4
  <2> HIDE DEF before, after
  <2>2. QED BY <1>5, <2>1, TotalOfKeys
<1>8. a \in TotalledExpenses /\ b \in TotalledExpenses
      /\ c \in TotalledExpenses /\ d \in TotalledExpenses
  BY <1>3
<1>9. SumFunction(after) = SumFunction(before) + Spent(p, r, <<"REPORT_TOTAL">>)
  <2> HIDE DEF before, after, a, b, c, d
  <2>1. QED BY <1>4, <1>6, <1>7, <1>8
<1>10. QED BY <1>1, <1>9 DEF before, after

\* What a seller owes for sales of the platform's own is its income from him.
LEMMA OwedIsIncome ==
    ASSUME AmountsTypeOK, NEW p \in DigestedPayments, Digest(p), NEW s \in ReportSellers
    PROVE  Spent(p, <<"SELLER", s>>, <<"COMISSION_TOTAL", "POSTRAL_INSTANCE">>)
             = Gain(p, <<"PLATFORM_SELLER", s>>)
<1> DEFINE items == {i \in p.items : i.seller = s}
           r == <<"SELLER", s>>
           k == <<"COMISSION_TOTAL", "POSTRAL_INSTANCE">>
<1>1. /\ r \in AllReports /\ SalesReport(r)
      /\ <<"PLATFORM_SELLER", s>> \in AllReports /\ ~SalesReport(<<"PLATFORM_SELLER", s>>)
  BY ReportNames
<1>2. ItemsOf(p, r) = items /\ ItemsOf(p, <<"PLATFORM_SELLER", s>>) = items
  BY ReportItems
<1>3. items \in SUBSET p.items
  OBVIOUS
<1>4. CommissionChange(p.type, items) = Signed(p, Commission(items))
  BY <1>3, CommissionChanges
<1>5. Signed(p, 0) = 0
  BY DEF Signed
<1>6. Gain(p, <<"PLATFORM_SELLER", s>>)
        = IF p.external THEN 0 ELSE Signed(p, Commission(items))
  BY <1>1, <1>2, <1>5 DEF Gain
<1>7. ExpenseOf(p, r, "owner", k) = IF p.external THEN 0 ELSE CommissionChange(p.type, items)
  <2>1. "POSTRAL_INSTANCE" \in SoldOn
    BY DEF SoldOn
  <2>2. ExpenseOf(p, r, "owner", k) =
          IF "POSTRAL_INSTANCE" = PlatformOf(p) THEN CommissionChange(p.type, ItemsOf(p, r)) ELSE 0
    BY <1>1, <2>1, ExpenseParts
  <2>3. ("POSTRAL_INSTANCE" = PlatformOf(p)) <=> ~p.external
    BY DEF PlatformOf
  <2> HIDE DEF items, r, k
  <2>4. QED BY <1>2, <2>2, <2>3
<1>8. CASE r \in ReportsFor(p)
  <2> HIDE DEF items, r, k
  <2>1. Spent(p, r, k) = Gain(p, <<"PLATFORM_SELLER", s>>)
    BY <1>4, <1>6, <1>7, <1>8 DEF Spent
  <2>2. QED BY <2>1 DEF r, k
<1>9. CASE r \notin ReportsFor(p)
  <2>1. items = {}
    BY <1>1, <1>2, <1>9, ReportItems
  <2>2. Commission(items) = 0
    BY <2>1, NoItemSums, Zenon
  <2>3. Signed(p, Commission(items)) = 0
    BY <1>5, <2>2, Zenon
  <2>4. Spent(p, r, k) = 0
    BY <1>9 DEF Spent
  <2> HIDE DEF items, r, k
  <2>5. Spent(p, r, k) = Gain(p, <<"PLATFORM_SELLER", s>>)
    BY <1>6, <2>3, <2>4
  <2>6. QED BY <2>5 DEF r, k
<1>10. QED BY <1>8, <1>9

\* Every conjunct of the agreement has both sides grow by the same.
LEMMA DigestAgrees ==
    ASSUME AmountsInv, NEW p \in DigestedPayments, Digest(p)
    PROVE  ReportsAgree'
<1>0. AmountsTypeOK /\ ReportsAgree
  BY DEF AmountsInv
<1>1. NetSale(reportSums'[Flow]) =
         SumFunction([s \in ReportSellers |-> NetSale(reportSums'[<<"SELLER", s>>])])
  <2>1. NetSale(reportSums'[Flow]) = NetSale(reportSums[Flow]) + Gain(p, Flow)
    BY <1>0, ReportNames, NetSaleGrows
  <2>2. NetSale(reportSums[Flow]) =
          SumFunction([s \in ReportSellers |-> NetSale(reportSums[<<"SELLER", s>>])])
    BY <1>0 DEF ReportsAgree
  <2>3. SumFunction([s \in ReportSellers |-> NetSale(reportSums'[<<"SELLER", s>>])])
        = SumFunction([s \in ReportSellers |-> NetSale(reportSums[<<"SELLER", s>>])])
          + Gain(p, Flow)
    BY <1>0, SellersGain
  <2>4. QED BY <2>1, <2>2, <2>3, Zenon
<1>2. NetSale(reportSums'[Platform]) =
         SumFunction([s \in ReportSellers |-> NetSale(reportSums'[<<"PLATFORM_SELLER", s>>])])
  <2>1. NetSale(reportSums'[Platform]) = NetSale(reportSums[Platform]) + Gain(p, Platform)
    BY <1>0, ReportNames, NetSaleGrows
  <2>2. NetSale(reportSums[Platform]) =
          SumFunction([s \in ReportSellers |-> NetSale(reportSums[<<"PLATFORM_SELLER", s>>])])
    BY <1>0 DEF ReportsAgree
  <2>3. SumFunction([s \in ReportSellers |-> NetSale(reportSums'[<<"PLATFORM_SELLER", s>>])])
        = SumFunction([s \in ReportSellers |-> NetSale(reportSums[<<"PLATFORM_SELLER", s>>])])
          + Gain(p, Platform)
    BY <1>0, SellersGain
  <2>4. QED BY <2>1, <2>2, <2>3, Zenon
<1>3. ASSUME NEW s \in ReportSellers
      PROVE  OwnerExpense(<<"SELLER", s>>, <<"COMISSION_TOTAL", "POSTRAL_INSTANCE">>)' =
                NetSale(reportSums'[<<"PLATFORM_SELLER", s>>])
  <2> DEFINE k == <<"COMISSION_TOTAL", "POSTRAL_INSTANCE">>
             r == <<"SELLER", s>>
             q == <<"PLATFORM_SELLER", s>>
  <2>1. r \in AllReports /\ q \in AllReports /\ k \in Expenses
    BY ReportNames, ExpenseKeys DEF SoldOn
  <2>2. OwnerExpense(r, k) = NetSale(reportSums[q])
    BY <1>0 DEF ReportsAgree
  <2>3. Spent(p, r, k) = Gain(p, q)
    BY <1>0, OwedIsIncome
  <2>4. /\ OwnerExpense(r, k)' = OwnerExpense(r, k) + Spent(p, r, k)
        /\ NetSale(reportSums'[q]) = NetSale(reportSums[q]) + Gain(p, q)
    BY <1>0, <2>1, ExpensesGrow, NetSaleGrows
  <2>5. QED BY <2>2, <2>3, <2>4, Zenon
<1>4. ASSUME NEW r \in AllReports
      PROVE  NetSale(reportSums'[r]) = SumFunction([t \in Rates |-> NetSale(taxGroupRows'[r][t])])
  <2>1. NetSale(reportSums[r]) = SumFunction([t \in Rates |-> NetSale(taxGroupRows[r][t])])
    BY <1>0 DEF ReportsAgree
  <2>2. NetSale(reportSums'[r]) = NetSale(reportSums[r]) + Gain(p, r)
    BY <1>0, NetSaleGrows
  <2>3. SumFunction([t \in Rates |-> NetSale(taxGroupRows'[r][t])])
        = SumFunction([t \in Rates |-> NetSale(taxGroupRows[r][t])]) + Gain(p, r)
    BY <1>0, RatesGain
  <2>4. QED BY <2>1, <2>2, <2>3, Zenon
<1>5. ASSUME NEW r \in AllReports, SalesReport(r)
      PROVE  /\ NetRevenue(reportSums'[r]) =
                   SumFunction([x \in ItemKeys |-> NetRevenue(itemRows'[r][x])])
             /\ NetRevenue(reportSums'[r]) =
                   SumFunction([x \in SoldOn |-> NetRevenue(platformRows'[r][x])])
             /\ totalExpense'[r] = OwnerExpense(r, <<"REPORT_TOTAL">>)'
             /\ OwnerExpense(r, <<"REPORT_TOTAL">>)' =
                   SumFunction([k \in TotalledExpenses |-> OwnerExpense(r, k)'])
  <2>1. /\ NetRevenue(reportSums[r]) =
             SumFunction([x \in ItemKeys |-> NetRevenue(itemRows[r][x])])
        /\ NetRevenue(reportSums[r]) =
             SumFunction([x \in SoldOn |-> NetRevenue(platformRows[r][x])])
        /\ totalExpense[r] = OwnerExpense(r, <<"REPORT_TOTAL">>)
        /\ OwnerExpense(r, <<"REPORT_TOTAL">>) =
             SumFunction([k \in TotalledExpenses |-> OwnerExpense(r, k)])
    BY <1>0, <1>5, Zenon DEF ReportsAgree
  <2>2. /\ NetRevenue(reportSums'[r])
             = NetRevenue(reportSums[r]) + Signed(p, Net(ItemsOf(p, r)))
        /\ SumFunction([x \in ItemKeys |-> NetRevenue(itemRows'[r][x])])
           = SumFunction([x \in ItemKeys |-> NetRevenue(itemRows[r][x])])
             + Signed(p, Net(ItemsOf(p, r)))
        /\ SumFunction([x \in SoldOn |-> NetRevenue(platformRows'[r][x])])
           = SumFunction([x \in SoldOn |-> NetRevenue(platformRows[r][x])])
             + Signed(p, Net(ItemsOf(p, r)))
    BY <1>0, <1>5, RevenueGain
  <2>3. /\ totalExpense[r] = OwnerExpense(r, <<"REPORT_TOTAL">>)
              => totalExpense'[r] = OwnerExpense(r, <<"REPORT_TOTAL">>)'
        /\ SumFunction([k \in TotalledExpenses |-> OwnerExpense(r, k)'])
           = SumFunction([k \in TotalledExpenses |-> OwnerExpense(r, k)])
             + Spent(p, r, <<"REPORT_TOTAL">>)
    BY <1>0, <1>5, TotalsGrow
  <2>4. OwnerExpense(r, <<"REPORT_TOTAL">>)'
          = OwnerExpense(r, <<"REPORT_TOTAL">>) + Spent(p, r, <<"REPORT_TOTAL">>)
    BY <1>0, ExpenseKeys, ExpensesGrow
  <2>5. QED BY <2>1, <2>2, <2>3, <2>4, Zenon
<1>6. QED BY <1>1, <1>2, <1>3, <1>4, <1>5, Zenon DEF ReportsAgree

\* Nothing has been digested at the start.
LEMMA AmountsInitInv == AmountsInit => AmountsInv
<1> SUFFICES ASSUME AmountsInit PROVE AmountsInv
  OBVIOUS
<1>1. AmountsTypeOK
  BY DEF AmountsInit, AmountsTypeOK, NoSums, SumsRecord
<1>2. NetSale(NoSums) = 0 /\ NetRevenue(NoSums) = 0
  BY DEF NetSale, NetRevenue, NoSums
<1>3. /\ \A r \in AllReports : reportSums[r] = NoSums /\ totalExpense[r] = 0
      /\ \A r \in AllReports : \A t \in Rates : taxGroupRows[r][t] = NoSums
      /\ \A r \in AllReports : \A x \in ItemKeys : itemRows[r][x] = NoSums
      /\ \A r \in AllReports : \A x \in SoldOn : platformRows[r][x] = NoSums
  BY DEF AmountsInit
<1>4. \A r \in AllReports : \A k \in Expenses : OwnerExpense(r, k) = 0
  BY DEF AmountsInit, OwnerExpense, ExpenseAccounts
<1>5. ASSUME NEW T, IsFiniteSet(T), NEW f, DOMAIN f = T, \A t \in T : f[t] = 0
      PROVE  SumFunction(f) = 0
  BY <1>5, SumOfZeros, Zenon DEF SumFunction
<1>6. IsFiniteSet(ReportSellers) /\ IsFiniteSet(Rates) /\ IsFiniteSet(ItemKeys)
      /\ IsFiniteSet(SoldOn)
  BY FiniteTables, AmountsAssumption
<1>7. /\ SumFunction([s \in ReportSellers |-> NetSale(reportSums[<<"SELLER", s>>])]) = 0
      /\ SumFunction([s \in ReportSellers |-> NetSale(reportSums[<<"PLATFORM_SELLER", s>>])]) = 0
  <2> DEFINE f == [s \in ReportSellers |-> NetSale(reportSums[<<"SELLER", s>>])]
             g == [s \in ReportSellers |-> NetSale(reportSums[<<"PLATFORM_SELLER", s>>])]
  <2>1. \A s \in ReportSellers : reportSums[<<"SELLER", s>>] = NoSums
                                 /\ reportSums[<<"PLATFORM_SELLER", s>>] = NoSums
    BY <1>3, ReportNames
  <2>2. \A s \in ReportSellers : f[s] = 0 /\ g[s] = 0
    BY <1>2, <2>1
  <2>3. DOMAIN f = ReportSellers /\ DOMAIN g = ReportSellers
    OBVIOUS
  <2> HIDE DEF f, g
  <2>4. SumFunction(f) = 0 /\ SumFunction(g) = 0
    BY <1>5, <1>6, <2>2, <2>3
  <2>5. QED BY <2>4 DEF f, g
<1>8. ASSUME NEW r \in AllReports
      PROVE  /\ SumFunction([t \in Rates |-> NetSale(taxGroupRows[r][t])]) = 0
             /\ SumFunction([x \in ItemKeys |-> NetRevenue(itemRows[r][x])]) = 0
             /\ SumFunction([x \in SoldOn |-> NetRevenue(platformRows[r][x])]) = 0
  <2> DEFINE f == [t \in Rates |-> NetSale(taxGroupRows[r][t])]
             g == [x \in ItemKeys |-> NetRevenue(itemRows[r][x])]
             h == [x \in SoldOn |-> NetRevenue(platformRows[r][x])]
  <2>1. /\ \A t \in Rates : f[t] = 0
        /\ \A x \in ItemKeys : g[x] = 0
        /\ \A x \in SoldOn : h[x] = 0
    BY <1>2, <1>3
  <2>2. DOMAIN f = Rates /\ DOMAIN g = ItemKeys /\ DOMAIN h = SoldOn
    OBVIOUS
  <2> HIDE DEF f, g, h
  <2>3. SumFunction(f) = 0 /\ SumFunction(g) = 0 /\ SumFunction(h) = 0
    BY <1>5, <1>6, <2>1, <2>2
  <2>4. QED BY <2>3 DEF f, g, h
<1>9. ASSUME NEW r \in AllReports
      PROVE  SumFunction([k \in TotalledExpenses |-> OwnerExpense(r, k)]) = 0
  <2> DEFINE f == [k \in TotalledExpenses |-> OwnerExpense(r, k)]
  <2>1. TotalledExpenses \subseteq Expenses
    BY ExpenseKeys DEF TotalledExpenses
  <2>2. DOMAIN f = TotalledExpenses /\ \A k \in TotalledExpenses : f[k] = 0 /\ f[k] \in Int
    BY <1>4, <2>1
  <2>3. <<"COMISSION_TOTAL", "POSTRAL_INSTANCE">> \in TotalledExpenses
        /\ <<"COMISSION_TOTAL", "external">> \in TotalledExpenses
        /\ <<"PAYMENT_SERVICE_FEE">> \in TotalledExpenses
        /\ <<"REFUND_ROUNDING_ADJUSTMENT">> \in TotalledExpenses
    BY DEF TotalledExpenses, SoldOn
  <2> HIDE DEF f
  <2>4. SumFunction(f) = f[<<"COMISSION_TOTAL", "POSTRAL_INSTANCE">>]
                            + f[<<"COMISSION_TOTAL", "external">>]
                            + f[<<"PAYMENT_SERVICE_FEE">>]
                            + f[<<"REFUND_ROUNDING_ADJUSTMENT">>]
    BY <2>2, TotalOfKeys
  <2>5. SumFunction(f) = 0
    BY <2>2, <2>3, <2>4
  <2>6. QED BY <2>5 DEF f
<1>10. /\ NetSale(reportSums[Flow]) = 0 /\ NetSale(reportSums[Platform]) = 0
       /\ \A s \in ReportSellers : NetSale(reportSums[<<"PLATFORM_SELLER", s>>]) = 0
       /\ \A r \in AllReports : NetSale(reportSums[r]) = 0 /\ NetRevenue(reportSums[r]) = 0
  <2>1. \A r \in AllReports : NetSale(reportSums[r]) = 0 /\ NetRevenue(reportSums[r]) = 0
    BY <1>2, <1>3, Zenon
  <2>2. QED BY <2>1, ReportNames
<1>11. \A s \in ReportSellers :
          OwnerExpense(<<"SELLER", s>>, <<"COMISSION_TOTAL", "POSTRAL_INSTANCE">>) = 0
  BY <1>4, ReportNames, ExpenseKeys DEF SoldOn
<1>12. \A r \in AllReports : totalExpense[r] = 0 /\ OwnerExpense(r, <<"REPORT_TOTAL">>) = 0
  BY <1>3, <1>4, ExpenseKeys
<1>13. ReportsAgree
  <2>1. /\ NetSale(reportSums[Flow]) =
             SumFunction([s \in ReportSellers |-> NetSale(reportSums[<<"SELLER", s>>])])
        /\ NetSale(reportSums[Platform]) =
             SumFunction([s \in ReportSellers |-> NetSale(reportSums[<<"PLATFORM_SELLER", s>>])])
    BY <1>7, <1>10, Zenon
  <2>2. \A s \in ReportSellers :
          OwnerExpense(<<"SELLER", s>>, <<"COMISSION_TOTAL", "POSTRAL_INSTANCE">>) =
             NetSale(reportSums[<<"PLATFORM_SELLER", s>>])
    BY <1>10, <1>11, Zenon
  <2>3. \A r \in AllReports :
          NetSale(reportSums[r]) = SumFunction([t \in Rates |-> NetSale(taxGroupRows[r][t])])
    BY <1>8, <1>10, Zenon
  <2>4. \A r \in {x \in AllReports : SalesReport(x)} :
          /\ NetRevenue(reportSums[r]) =
                SumFunction([x \in ItemKeys |-> NetRevenue(itemRows[r][x])])
          /\ NetRevenue(reportSums[r]) =
                SumFunction([x \in SoldOn |-> NetRevenue(platformRows[r][x])])
          /\ totalExpense[r] = OwnerExpense(r, <<"REPORT_TOTAL">>)
          /\ OwnerExpense(r, <<"REPORT_TOTAL">>) =
                SumFunction([k \in TotalledExpenses |-> OwnerExpense(r, k)])
    BY <1>8, <1>9, <1>10, <1>12, Zenon
  <2>5. QED BY <2>1, <2>2, <2>3, <2>4 DEF ReportsAgree
<1>14. QED BY <1>1, <1>13 DEF AmountsInv

\* Every report and every table keeps amounts (Report, ReportTaxGroup, ReportItem,
\* ReportPlatform, ReportExpense), and they agree.
THEOREM AmountsInvHolds == AmountsSpec => []AmountsInv
<1>1. AmountsInv /\ AmountsNext => AmountsInv'
  <2> SUFFICES ASSUME AmountsInv, AmountsNext PROVE AmountsInv'
    OBVIOUS
  <2>1. PICK p \in DigestedPayments : Digest(p)
    BY DEF AmountsNext
  <2>2. AmountsTypeOK
    BY DEF AmountsInv
  <2>3. QED BY <2>1, <2>2, DigestType, DigestAgrees DEF AmountsInv
<1>2. AmountsInv /\ UNCHANGED amountVars => AmountsInv'
  BY DEF amountVars, AmountsInv, AmountsTypeOK, ReportsAgree, OwnerExpense
<1>3. QED BY AmountsInitInv, <1>1, <1>2, PTL DEF AmountsSpec

\* The reports of the sellers, of the platform and of its income are sums that
\* report-digestion.service.ts keeps apart; for any sellers, payments and order of
\* digestion they agree, and every breakdown adds up to its report.
THEOREM ReportsAgreeHolds == AmountsSpec => []ReportsAgree
<1>1. AmountsInv => ReportsAgree
  BY DEF AmountsInv
<1>2. QED BY AmountsInvHolds, <1>1, PTL
=============================================================================
