------------------------- MODULE ReportDigestionProofs -------------------------
(***************************************************************************)
(* Types of the digestion for any processes and calls, and its two sums for  *)
(* one process: whatever payments, reports and calls there are, however      *)
(* often events are delivered, calls throw or the process dies, no payment   *)
(* is counted twice and a COMPLETED one is in every table.                   *)
(*                                                                           *)
(* The invariant follows one relation through the call that claimed it:      *)
(* Progress says which tables hold it at each step, and that what the call   *)
(* read is still what the table holds.  The flag checkingRelations makes the *)
(* second part true, and only within one process, hence SingleProcess.       *)
(***************************************************************************)
EXTENDS ReportDigestion, TLAPS

SingleProcess == \A c, d \in Calls : InstanceOf[c] = InstanceOf[d]

\* The flag keeps all calls but one out.
OneCallRuns ==
    \A c \in Calls : ~At(c, "idle") =>
        busy[InstanceOf[c]] /\ \A d \in Calls : At(d, "idle") \/ d = c

InTable(x, t) == rows[x[1]][t][x[2]]
Nowhere(x) == \A t \in Tables : InTable(x, t) = 0
Everywhere(x) == \A t \in Tables : InTable(x, t) = 1

\* A relation that no call ever began is in no table, a COMPLETED one in all.
StatusTells ==
    \A x \in Relations :
        /\ status[x] \in {"NONE", "WAITING"} => Nowhere(x)
        /\ status[x] = "COMPLETED" => Everywhere(x)

\* What a call claimed is DIGESTING; what it has not begun is in no table.
ClaimHolds(c) ==
    /\ \A x \in call[c].todo : status[x] = "DIGESTING" /\ Nowhere(x) /\ x \notin call[c].relation
    /\ \A x \in call[c].relation : status[x] = "DIGESTING" /\ \A y \in call[c].relation : x = y

Progress(c) ==
    \A x \in call[c].relation :
        /\ InTable(x, "expenses") =
              IF call[c].pc \in {"expenses", "saveExpenses"} THEN 0 ELSE 1
        /\ InTable(x, "totals") =
              IF call[c].pc \in {"expenses", "saveExpenses", "totals"} THEN 0 ELSE 1
        /\ InTable(x, "details") = IF call[c].pc = "complete" THEN 1 ELSE 0
        /\ call[c].pc \in {"expenses", "saveExpenses", "totals"} =>
              call[c].report = rows[x[1]]["totals"]
        /\ call[c].pc = "saveExpenses" => call[c].read = rows[x[1]]["expenses"]
        /\ call[c].pc = "saveDetails" => call[c].read = rows[x[1]]["details"]

\* Before a call claims and between two relations it is at none.
BetweenRelations(c) ==
    /\ call[c].pc \in {"idle", "list", "claim", "next"} => call[c].relation = {}
    /\ call[c].pc \in {"idle", "list", "claim"} => call[c].todo = {}

DigestionInv ==
    /\ TypeOK
    /\ OneCallRuns
    /\ StatusTells
    /\ NeverCountedTwice
    /\ \A c \in Calls : ClaimHolds(c) /\ Progress(c) /\ BetweenRelations(c)
-----------------------------------------------------------------------------
(* Types *)

Points == {"idle", "list", "claim", "next", "expenses", "saveExpenses",
           "totals", "details", "saveDetails", "complete"}
CallStates == [pc : Points, seen : SUBSET Reports, todo : SUBSET Relations,
               relation : SUBSET Relations, report : Counts, read : Counts]

LEMMA InitType == Init => TypeOK
<1> SUFFICES ASSUME Init PROVE TypeOK
    OBVIOUS
<1>1. NothingCounted \in Counts
    BY DEF NothingCounted, Counts
<1>2. Idle \in CallStates
    BY <1>1 DEF Idle, CallStates, Points
<1>3. call \in [Calls -> CallStates]
    BY <1>2 DEF Init
<1>4. rows \in [Reports -> [Tables -> Counts]]
    BY <1>1 DEF Init
<1>5. queueing \in [Payments -> [at : Instances \cup {NoInstance}, todo : SUBSET Reports]]
    BY DEF Init, NoHandler
<1>6. /\ deliveries \in [Payments -> 0..MaxDeliveries]
      /\ failures \in 0..MaxFailures /\ crashes \in 0..MaxCrashes
    BY DigestionAssumption DEF Init
<1>7. /\ status \in [Relations -> {"NONE", "WAITING", "DIGESTING", "COMPLETED"}]
      /\ owner \in [Relations -> Calls \cup {NoCall}]
      /\ busy \in [Instances -> BOOLEAN]
    BY DEF Init
<1>8. QED BY <1>3, <1>4, <1>5, <1>6, <1>7 DEF TypeOK, CallStates, Points

\* A call moves to a point, or ends.
LEMMA CallType ==
    ASSUME TypeOK, NEW c \in Calls
    PROVE  /\ \A p \in Points : GoTo(c, p) => call' \in [Calls -> CallStates]
           /\ [call EXCEPT ![c] = Idle] \in [Calls -> CallStates]
<1>1. call \in [Calls -> CallStates]
    BY DEF TypeOK, CallStates, Points
<1>2. ASSUME NEW p \in Points, GoTo(c, p) PROVE call' \in [Calls -> CallStates]
    <2>1. [call[c] EXCEPT !.pc = p] \in CallStates
        BY <1>1 DEF CallStates
    <2>2. QED BY <1>1, <1>2, <2>1 DEF GoTo
<1>3. Idle \in CallStates
    BY DEF Idle, CallStates, Points, NothingCounted, Counts
<1>4. QED BY <1>1, <1>2, <1>3

\* The queueing of payments.
LEMMA QueueType ==
    ASSUME TypeOK, NEW p \in Payments, QueueStep(p) \/ \E i \in Instances : DeliverEvent(p, i)
    PROVE  TypeOK'
<1>1. ASSUME NEW i \in Instances, DeliverEvent(p, i) PROVE TypeOK'
    BY <1>1, DigestionAssumption DEF DeliverEvent, TypeOK, relationVars, faultVars
<1>2. ASSUME NEW r \in Reports, QueueFor(p, r) PROVE TypeOK'
    <2>1. queueing' \in [Payments -> [at : Instances \cup {NoInstance}, todo : SUBSET Reports]]
        <3>1. \/ queueing' = [queueing EXCEPT ![p].todo = @ \ {r}]
              \/ queueing' = [queueing EXCEPT ![p] = NoHandler]
            BY <1>2 DEF QueueFor
        <3>2. queueing \in [Payments -> [at : Instances \cup {NoInstance}, todo : SUBSET Reports]]
            BY DEF TypeOK
        <3>3. QED BY <3>1, <3>2 DEF NoHandler
    <2>2. status' \in [Relations -> {"NONE", "WAITING", "DIGESTING", "COMPLETED"}]
        BY <1>2 DEF QueueFor, TypeOK, Relations
    <2>3. QED BY <1>2, <2>1, <2>2 DEF QueueFor, TypeOK, faultVars
<1>3. CASE QueueingDone(p)
    BY <1>3 DEF QueueingDone, TypeOK, NoHandler, relationVars, faultVars
<1>4. QED BY <1>1, <1>2, <1>3 DEF QueueStep

LEMMA DigestType ==
    ASSUME TypeOK, NEW c \in Calls, Begin(c) \/ CallStep(c) \/ Fail(c)
    PROVE  TypeOK'
<1> USE DEF queueVars, relationVars, faultVars
<1> DEFINE T == [Calls -> CallStates]
<1>1. call \in T /\ (call' \in T => call' \in [Calls -> CallStates])
    BY DEF TypeOK, CallStates, Points
<1>2. SUFFICES /\ call' \in T
               /\ status' \in [Relations -> {"NONE", "WAITING", "DIGESTING", "COMPLETED"}]
               /\ owner' \in [Relations -> Calls \cup {NoCall}]
               /\ rows' \in [Reports -> [Tables -> Counts]]
               /\ busy' \in [Instances -> BOOLEAN]
               /\ failures' \in 0..MaxFailures
               /\ UNCHANGED <<deliveries, queueing, crashes>>
    BY DEF TypeOK, CallStates, Points
<1> DEFINE Rest == /\ status' \in [Relations -> {"NONE", "WAITING", "DIGESTING", "COMPLETED"}]
                   /\ owner' \in [Relations -> Calls \cup {NoCall}]
                   /\ rows' \in [Reports -> [Tables -> Counts]]
                   /\ busy' \in [Instances -> BOOLEAN]
                   /\ failures' \in 0..MaxFailures
                   /\ UNCHANGED <<deliveries, queueing, crashes>>
<1>3. CASE Begin(c)
    <2>1. call' \in T
        BY <1>3, CallType DEF Begin, Points
    <2>2. Rest
        BY <1>3, DigestionAssumption DEF Begin, TypeOK
    <2>3. QED BY <2>1, <2>2
<1>4. CASE ListWorkedOn(c)
    <2> DEFINE worked == {r \in Reports : \E p \in Payments : status[<<r, p>>] = "DIGESTING"}
    <2>1. [call[c] EXCEPT !.seen = worked, !.pc = "claim"] \in CallStates
        BY <1>1 DEF CallStates, Points
    <2>2. call' \in T
        BY <1>1, <1>4, <2>1 DEF ListWorkedOn
    <2>3. Rest
        BY <1>4 DEF ListWorkedOn, TypeOK
    <2>4. QED BY <2>2, <2>3
<1>5. CASE Claim(c)
    <2>1. [call[c] EXCEPT !.todo = Claimable(c), !.pc = "next"] \in CallStates
        BY <1>1 DEF CallStates, Points, Claimable
    <2>2. call' \in T
        BY <1>1, <1>5, <2>1 DEF Claim
    <2>3. Rest
        BY <1>5 DEF Claim, TypeOK
    <2>4. QED BY <2>2, <2>3
<1>6. ASSUME NEW x \in Relations, LoadReport(c, x) PROVE call' \in T /\ Rest
    <2>1. rows[x[1]]["totals"] \in Counts
        BY DEF TypeOK, Tables, Relations
    <2>2. [call[c] EXCEPT !.todo = @ \ {x}, !.relation = {x},
                          !.report = rows[x[1]]["totals"], !.pc = "expenses"] \in CallStates
        BY <1>1, <2>1 DEF CallStates, Points
    <2>3. call' \in T
        BY <1>1, <1>6, <2>2 DEF LoadReport
    <2>4. Rest
        BY <1>6 DEF LoadReport, TypeOK
    <2>5. QED BY <2>3, <2>4
<1>7. CASE EndCall(c)
    <2>1. call' \in T
        BY <1>7, CallType DEF EndCall
    <2>2. Rest
        BY <1>7, DigestionAssumption DEF EndCall, TypeOK
    <2>3. QED BY <2>1, <2>2
<1>8. ASSUME NEW from \in Points, NEW table \in Tables, NEW to \in Points,
             Read(c, from, table, to)
      PROVE  call' \in T /\ Rest
    <2>1. PICK x \in call[c].relation :
              call' = [call EXCEPT ![c].read = rows[x[1]][table], ![c].pc = to]
        BY <1>8 DEF Read
    <2>2. rows[x[1]][table] \in Counts
        BY <1>1 DEF TypeOK, CallStates, Relations
    <2>3. [call[c] EXCEPT !.read = rows[x[1]][table], !.pc = to] \in CallStates
        BY <1>1, <2>2 DEF CallStates
    <2>4. call' \in T
        BY <1>1, <2>1, <2>3
    <2>5. Rest
        BY <1>8 DEF Read, TypeOK
    <2>6. QED BY <2>4, <2>5
<1>9. ASSUME NEW from \in Points, NEW table \in Tables, NEW base \in Counts, NEW to \in Points,
             Save(c, from, table, base, to)
      PROVE  call' \in T /\ Rest
    <2>1. PICK x \in call[c].relation :
              rows' = [rows EXCEPT ![x[1]][table] = [base EXCEPT ![x[2]] = @ + 1]]
        BY <1>9 DEF Save
    <2>2. x \in Relations
        BY <1>1 DEF CallStates
    <2>3. [base EXCEPT ![x[2]] = @ + 1] \in Counts
        BY <2>2 DEF Counts, Relations
    <2>4. rows' \in [Reports -> [Tables -> Counts]]
        BY <2>1, <2>2, <2>3 DEF TypeOK, Relations
    <2>5. call' \in T
        BY <1>9, CallType DEF Save
    <2>6. QED BY <1>9, <2>4, <2>5 DEF Save, TypeOK
<1>10. CASE Complete(c)
    <2>1. [call[c] EXCEPT !.relation = {}, !.pc = "next"] \in CallStates
        BY <1>1 DEF CallStates, Points
    <2>2. call' \in T
        BY <1>1, <1>10, <2>1 DEF Complete
    <2>3. Rest
        BY <1>1, <1>10 DEF Complete, TypeOK, CallStates
    <2>4. QED BY <2>2, <2>3
<1>11. CASE Fail(c)
    <2>1. call' \in T
        BY <1>11, CallType DEF Fail
    <2>2. Rest
        <3>1. failures' \in 0..MaxFailures
            BY <1>11, DigestionAssumption DEF Fail, TypeOK
        <3>2. owner' \in [Relations -> Calls \cup {NoCall}]
            BY <1>11 DEF Fail, TypeOK, Disown
        <3>3. busy' \in [Instances -> BOOLEAN]
            BY <1>11, DigestionAssumption DEF Fail, TypeOK
        <3>4. QED BY <1>11, <3>1, <3>2, <3>3 DEF Fail, TypeOK
    <2>3. QED BY <2>1, <2>2
<1>12. call[c].read \in Counts /\ call[c].report \in Counts
    BY <1>1 DEF CallStates
<1>13. CASE ReadExpenses(c) \/ ReadDetails(c)
    BY <1>8, <1>13 DEF ReadExpenses, ReadDetails, Points, Tables
<1>14. CASE SaveExpenses(c) \/ SaveReport(c) \/ SaveDetails(c)
    BY <1>9, <1>12, <1>14 DEF SaveExpenses, SaveReport, SaveDetails, Points, Tables
<1>15. QED
    BY <1>3, <1>4, <1>5, <1>6, <1>7, <1>10, <1>11, <1>13, <1>14 DEF CallStep

LEMMA CrashType ==
    ASSUME TypeOK, NEW i \in Instances, Crash(i)
    PROVE  TypeOK'
<1>1. Idle \in CallStates
    BY DEF Idle, CallStates, Points, NothingCounted, Counts
<1>2. call' \in [Calls -> CallStates]
    BY <1>1 DEF Crash, TypeOK, CallStates, Points
<1>3. /\ queueing' \in [Payments -> [at : Instances \cup {NoInstance}, todo : SUBSET Reports]]
      /\ busy' \in [Instances -> BOOLEAN] /\ owner' \in [Relations -> Calls \cup {NoCall}]
      /\ crashes' \in 0..MaxCrashes
    BY DigestionAssumption DEF Crash, TypeOK, Disown, NoHandler
<1>4. QED BY <1>2, <1>3 DEF Crash, TypeOK, CallStates, Points

LEMMA TypeStep == TypeOK /\ [Next]_vars => TypeOK'
<1>1. ASSUME TypeOK, Next PROVE TypeOK'
    BY <1>1, QueueType, DigestType, CrashType DEF Next
<1>2. ASSUME TypeOK, UNCHANGED vars PROVE TypeOK'
    BY <1>2 DEF vars, queueVars, relationVars, faultVars, TypeOK
<1>3. QED BY <1>1, <1>2

\* The relations, the rows and the calls keep values of their kind.
THEOREM DigestionTypeCorrect == Spec => []TypeOK
BY InitType, TypeStep, PTL DEF Spec
-----------------------------------------------------------------------------
(* One payment, one table *)

\* What a call holds has its kind.
LEMMA CallFields ==
    ASSUME TypeOK, NEW c \in Calls
    PROVE  /\ call[c] \in CallStates
           /\ call[c].todo \subseteq Relations /\ call[c].relation \subseteq Relations
           /\ call[c].read \in Counts /\ call[c].report \in Counts
           /\ call[c].pc \in Points
BY DEF TypeOK, CallStates, Points

\* Adding the payment of a relation to what its table holds adds it there and
\* nowhere else.
LEMMA SaveAdds ==
    ASSUME TypeOK, NEW x \in Relations, NEW t \in Tables, NEW base,
           base = rows[x[1]][t],
           rows' = [rows EXCEPT ![x[1]][t] = [base EXCEPT ![x[2]] = @ + 1]]
    PROVE  /\ rows'[x[1]][t][x[2]] = rows[x[1]][t][x[2]] + 1
           /\ \A s \in Tables : s # t => rows'[x[1]][s] = rows[x[1]][s]
           /\ \A y \in Relations, s \in Tables : y # x => InTable(y, s)' = InTable(y, s)
<1>1. /\ x[1] \in Reports /\ x[2] \in Payments /\ base \in Counts
      /\ rows \in [Reports -> [Tables -> Counts]]
    BY DEF Relations, TypeOK
<1> DEFINE new == [base EXCEPT ![x[2]] = @ + 1]
<1>2. /\ new[x[2]] = base[x[2]] + 1 /\ \A q \in Payments : q # x[2] => new[q] = base[q]
    BY <1>1 DEF Counts
<1>3. /\ rows'[x[1]][t] = new
      /\ \A s \in Tables : s # t => rows'[x[1]][s] = rows[x[1]][s]
      /\ \A r \in Reports : r # x[1] => rows'[r] = rows[r]
    BY <1>1
<1> HIDE DEF new
<1>4. ASSUME NEW y \in Relations, NEW s \in Tables, y # x PROVE InTable(y, s)' = InTable(y, s)
    <2>1. y[1] \in Reports /\ y[2] \in Payments /\ (y[1] # x[1] \/ y[2] # x[2])
        BY <1>4 DEF Relations
    <2>2. QED BY <1>2, <1>3, <2>1 DEF InTable
<1>5. QED BY <1>2, <1>3, <1>4

\* Another call is idle, or it is the same call.
LEMMA OthersIdle ==
    ASSUME SingleProcess, DigestionInv, NEW c \in Calls, ~At(c, "idle")
    PROVE  \A d \in Calls : d # c => At(d, "idle") /\ call[d].relation = {} /\ call[d].todo = {}
BY DEF DigestionInv, OneCallRuns, BetweenRelations, At
-----------------------------------------------------------------------------
(* Every step keeps the invariant *)

LEMMA DigestionInitInv == Init => DigestionInv
<1> SUFFICES ASSUME Init PROVE DigestionInv
    OBVIOUS
<1>1. \A c \in Calls : call[c] = Idle
    BY DEF Init
<1>2. \A x \in Relations, t \in Tables : InTable(x, t) = 0 /\ status[x] = "NONE"
    BY DEF Init, InTable, NothingCounted, Relations
<1>3. \A r \in Reports, t \in Tables, p \in Payments : rows[r][t][p] = 0
    BY DEF Init, NothingCounted
<1>4. NeverCountedTwice
    BY <1>3 DEF NeverCountedTwice
<1>5. OneCallRuns /\ StatusTells
    <2>1. \A c \in Calls : At(c, "idle")
        BY <1>1 DEF At, Idle
    <2>2. OneCallRuns
        BY <2>1 DEF OneCallRuns
    <2>3. \A x \in Relations : Nowhere(x) /\ status[x] = "NONE"
        BY DEF Init, Nowhere, InTable, NothingCounted, Relations
    <2>4. StatusTells
        BY <2>3 DEF StatusTells
    <2>5. QED BY <2>2, <2>4
<1>6. \A c \in Calls : ClaimHolds(c) /\ Progress(c) /\ BetweenRelations(c)
    BY <1>1 DEF ClaimHolds, Progress, BetweenRelations, Idle
<1>7. QED BY InitType, <1>4, <1>5, <1>6 DEF DigestionInv

\* Queueing adds relations no call has seen.
LEMMA QueueKeeps ==
    ASSUME DigestionInv, TypeOK', NEW p \in Payments,
           QueueStep(p) \/ \E i \in Instances : DeliverEvent(p, i)
    PROVE  DigestionInv'
<1>1. UNCHANGED <<rows, busy, call>>
    BY DEF QueueStep, QueueFor, QueueingDone, DeliverEvent
<1>2. \A x \in Relations :
        status'[x] = status[x] \/ (status[x] = "NONE" /\ status'[x] = "WAITING")
    <2>1. status \in [Relations -> {"NONE", "WAITING", "DIGESTING", "COMPLETED"}]
        BY DEF DigestionInv, TypeOK
    <2>2. ASSUME NEW r \in Reports, QueueFor(p, r), NEW x \in Relations
          PROVE  status'[x] = status[x] \/ (status[x] = "NONE" /\ status'[x] = "WAITING")
        <3> DEFINE k == <<r, p>>
        <3>1. k \in Relations
            BY DEF Relations
        <3>2. \/ UNCHANGED status
              \/ /\ status[k] = "NONE"
                 /\ status' = [status EXCEPT ![k] = "WAITING"]
            BY <2>2 DEF QueueFor
        <3> HIDE DEF k
        <3>3. QED BY <2>1, <3>1, <3>2
    <2>3. QueueingDone(p) \/ (\E i \in Instances : DeliverEvent(p, i)) => UNCHANGED status
        BY DEF QueueingDone, DeliverEvent, relationVars
    <2>4. QED BY <2>2, <2>3 DEF QueueStep
<1>3. OneCallRuns' /\ NeverCountedTwice'
    BY <1>1 DEF DigestionInv, OneCallRuns, NeverCountedTwice, At
<1>4. StatusTells'
    BY <1>1, <1>2 DEF DigestionInv, StatusTells, Nowhere, Everywhere, InTable
<1>5. ASSUME NEW c \in Calls PROVE (ClaimHolds(c) /\ Progress(c) /\ BetweenRelations(c))'
    <2>1. ClaimHolds(c) /\ Progress(c) /\ BetweenRelations(c)
        BY DEF DigestionInv
    <2>2. call[c].todo \subseteq Relations /\ call[c].relation \subseteq Relations
        BY CallFields DEF DigestionInv
    <2>3. ClaimHolds(c)'
        BY <1>1, <1>2, <2>1, <2>2 DEF ClaimHolds, Nowhere, InTable
    <2>4. Progress(c)' /\ BetweenRelations(c)'
        BY <1>1, <2>1 DEF Progress, BetweenRelations, InTable
    <2>5. QED BY <2>3, <2>4
<1>6. QED BY <1>3, <1>4, <1>5 DEF DigestionInv

\* A step of one call that leaves the tables and the relations alone and changes
\* no other call: what is left is what the call itself then holds.
LEMMA QuietCallStep ==
    ASSUME SingleProcess, DigestionInv, TypeOK', NEW c \in Calls,
           UNCHANGED <<status, rows>>,
           \A d \in Calls : d # c => call'[d] = call[d] /\ At(d, "idle"),
           ~At(c, "idle")' => busy'[InstanceOf[c]],
           ClaimHolds(c)', Progress(c)', BetweenRelations(c)'
    PROVE  DigestionInv'
<1>1. OneCallRuns'
    BY DEF OneCallRuns, At
<1>2. StatusTells' /\ NeverCountedTwice'
    BY DEF DigestionInv, StatusTells, Nowhere, Everywhere, InTable, NeverCountedTwice
<1>3. ASSUME NEW d \in Calls, d # c
      PROVE  (ClaimHolds(d) /\ Progress(d) /\ BetweenRelations(d))'
    BY <1>3 DEF DigestionInv, ClaimHolds, Progress, BetweenRelations, Nowhere, InTable
<1>4. QED BY <1>1, <1>2, <1>3 DEF DigestionInv

\* A call begins where the flag is clear, so no other runs.
LEMMA BeginKeeps ==
    ASSUME SingleProcess, DigestionInv, TypeOK', NEW c \in Calls, Begin(c)
    PROVE  DigestionInv'
<1>1. \A d \in Calls : At(d, "idle")
    BY DEF SingleProcess, DigestionInv, OneCallRuns, Begin
<1>2. /\ UNCHANGED <<status, rows>> /\ call' = [call EXCEPT ![c].pc = "list"]
      /\ busy'[InstanceOf[c]]
    BY DigestionAssumption DEF Begin, GoTo, relationVars, DigestionInv, TypeOK
<1>3. /\ \A d \in Calls : d # c => call'[d] = call[d]
      /\ call'[c] = [call[c] EXCEPT !.pc = "list"]
    BY <1>2 DEF DigestionInv, TypeOK
<1>4. /\ call'[c].pc = "list" /\ call'[c].relation = {} /\ call'[c].todo = {}
    BY <1>1, <1>3, CallFields DEF At, DigestionInv, BetweenRelations, CallStates
<1>5. ClaimHolds(c)' /\ Progress(c)' /\ BetweenRelations(c)'
    BY <1>4 DEF ClaimHolds, Progress, BetweenRelations
<1>6. QED BY <1>1, <1>2, <1>3, <1>5, QuietCallStep

\* Reading, beginning with a relation, and ending.
LEMMA ReadingKeeps ==
    ASSUME SingleProcess, DigestionInv, TypeOK', NEW c \in Calls,
           \/ ListWorkedOn(c) \/ EndCall(c) \/ ReadExpenses(c) \/ ReadDetails(c)
           \/ \E x \in Relations : LoadReport(c, x)
           \/ Fail(c)
    PROVE  DigestionInv'
<1>0. ~At(c, "idle") /\ UNCHANGED <<status, rows>>
    BY DEF ListWorkedOn, EndCall, ReadExpenses, ReadDetails, Read, LoadReport, Fail, At,
       relationVars
<1>1. /\ ClaimHolds(c) /\ Progress(c) /\ BetweenRelations(c) /\ busy[InstanceOf[c]]
      /\ call[c] \in CallStates /\ call \in [Calls -> CallStates]
      /\ \A d \in Calls : d # c => At(d, "idle")
    BY <1>0, CallFields DEF DigestionInv, OneCallRuns, TypeOK, CallStates, Points
<1>2. CASE ListWorkedOn(c)
    <2>1. /\ \A d \in Calls : d # c => call'[d] = call[d]
          /\ call'[c].pc = "claim" /\ call[c].pc = "list" /\ UNCHANGED busy
          /\ call'[c].relation = call[c].relation /\ call'[c].todo = call[c].todo
        BY <1>1, <1>2 DEF ListWorkedOn, At, CallStates
    <2>2. ClaimHolds(c)' /\ Progress(c)' /\ BetweenRelations(c)'
        BY <1>1, <2>1 DEF ClaimHolds, Progress, BetweenRelations
    <2>3. QED BY <1>0, <1>1, <2>1, <2>2, QuietCallStep
<1>3. CASE EndCall(c) \/ Fail(c)
    <2>1. call' = [call EXCEPT ![c] = Idle]
        BY <1>3 DEF EndCall, Fail
    <2>2. /\ \A d \in Calls : d # c => call'[d] = call[d]
          /\ call'[c].pc = "idle" /\ call'[c].relation = {} /\ call'[c].todo = {}
        BY <1>1, <2>1 DEF Idle
    <2>3. ClaimHolds(c)' /\ Progress(c)' /\ BetweenRelations(c)'
        BY <2>2 DEF ClaimHolds, Progress, BetweenRelations
    <2>4. QED BY <1>0, <1>1, <2>2, <2>3, QuietCallStep DEF At
<1>4. ASSUME NEW x \in Relations, LoadReport(c, x) PROVE DigestionInv'
    <2>1. /\ \A d \in Calls : d # c => call'[d] = call[d]
          /\ call[c].pc = "next" /\ call'[c].pc = "expenses" /\ UNCHANGED busy
          /\ call'[c].relation = {x} /\ call'[c].todo = call[c].todo \ {x}
          /\ call'[c].report = rows[x[1]]["totals"] /\ x \in call[c].todo
        BY <1>1, <1>4 DEF LoadReport, At, CallStates
    <2>2. status[x] = "DIGESTING" /\ Nowhere(x)
        BY <1>1, <2>1 DEF ClaimHolds
    <2>3. ClaimHolds(c)'
        BY <1>0, <1>1, <2>1, <2>2 DEF ClaimHolds, Nowhere, InTable
    <2>4. Progress(c)' /\ BetweenRelations(c)'
        BY <1>0, <2>1, <2>2 DEF Progress, BetweenRelations, Nowhere, InTable, Tables
    <2>5. QED BY <1>0, <1>1, <2>1, <2>3, <2>4, QuietCallStep
<1>5. CASE ReadExpenses(c)
    <2>1. PICK x \in call[c].relation :
              call' = [call EXCEPT ![c].read = rows[x[1]]["expenses"], ![c].pc = "saveExpenses"]
        BY <1>5 DEF ReadExpenses, Read
    <2>2. /\ \A d \in Calls : d # c => call'[d] = call[d]
          /\ call[c].pc = "expenses" /\ call'[c].pc = "saveExpenses" /\ UNCHANGED busy
          /\ call'[c].relation = call[c].relation /\ call'[c].todo = call[c].todo
          /\ call'[c].report = call[c].report /\ call'[c].read = rows[x[1]]["expenses"]
          /\ \A y \in call[c].relation : y = x
        BY <1>1, <1>5, <2>1 DEF ReadExpenses, Read, At, CallStates, ClaimHolds
    <2>3. ClaimHolds(c)' /\ BetweenRelations(c)'
        BY <1>0, <1>1, <2>2 DEF ClaimHolds, BetweenRelations, Nowhere, InTable
    <2>4. Progress(c)'
        BY <1>0, <1>1, <2>2 DEF Progress, InTable
    <2>5. QED BY <1>0, <1>1, <2>2, <2>3, <2>4, QuietCallStep
<1>6. CASE ReadDetails(c)
    <2>1. PICK x \in call[c].relation :
              call' = [call EXCEPT ![c].read = rows[x[1]]["details"], ![c].pc = "saveDetails"]
        BY <1>6 DEF ReadDetails, Read
    <2>2. /\ \A d \in Calls : d # c => call'[d] = call[d]
          /\ call[c].pc = "details" /\ call'[c].pc = "saveDetails" /\ UNCHANGED busy
          /\ call'[c].relation = call[c].relation /\ call'[c].todo = call[c].todo
          /\ call'[c].read = rows[x[1]]["details"]
          /\ \A y \in call[c].relation : y = x
        BY <1>1, <1>6, <2>1 DEF ReadDetails, Read, At, CallStates, ClaimHolds
    <2>3. ClaimHolds(c)' /\ BetweenRelations(c)'
        BY <1>0, <1>1, <2>2 DEF ClaimHolds, BetweenRelations, Nowhere, InTable
    <2>4. Progress(c)'
        BY <1>0, <1>1, <2>2 DEF Progress, InTable
    <2>5. QED BY <1>0, <1>1, <2>2, <2>3, <2>4, QuietCallStep
<1>7. QED BY <1>2, <1>3, <1>4, <1>5, <1>6

\* A claim takes relations no call began.
LEMMA ClaimKeeps ==
    ASSUME SingleProcess, DigestionInv, TypeOK', NEW c \in Calls, Claim(c)
    PROVE  DigestionInv'
<1>1. /\ ~At(c, "idle") /\ call[c].pc = "claim" /\ call[c].relation = {}
      /\ busy[InstanceOf[c]] /\ UNCHANGED <<rows, busy>>
      /\ call \in [Calls -> CallStates]
    BY DEF Claim, At, DigestionInv, BetweenRelations, OneCallRuns, TypeOK, CallStates, Points
<1>2. \A d \in Calls : d # c => At(d, "idle") /\ call[d].relation = {} /\ call[d].todo = {}
    BY <1>1, OthersIdle
<1>3. /\ \A d \in Calls : d # c => call'[d] = call[d]
      /\ call'[c].pc = "next" /\ call'[c].relation = {} /\ call'[c].todo = Claimable(c)
    BY <1>1 DEF Claim, CallStates
<1>4. \A x \in Relations : status'[x] = IF x \in Claimable(c) THEN "DIGESTING" ELSE status[x]
    BY DEF Claim
<1>5. \A x \in Claimable(c) : x \in Relations /\ status[x] = "WAITING" /\ Nowhere(x)
    BY DEF Claimable, DigestionInv, StatusTells
<1>6. OneCallRuns' /\ NeverCountedTwice'
    BY <1>1, <1>2, <1>3 DEF OneCallRuns, At, DigestionInv, NeverCountedTwice
<1>7. StatusTells'
    BY <1>1, <1>4, <1>5 DEF DigestionInv, StatusTells, Nowhere, Everywhere, InTable
<1>8. ClaimHolds(c)' /\ Progress(c)' /\ BetweenRelations(c)'
    BY <1>1, <1>3, <1>4, <1>5 DEF ClaimHolds, Progress, BetweenRelations, Nowhere, InTable
<1>9. ASSUME NEW d \in Calls, d # c PROVE (ClaimHolds(d) /\ Progress(d) /\ BetweenRelations(d))'
    BY <1>2, <1>3, <1>9 DEF ClaimHolds, Progress, BetweenRelations, At
<1>10. QED BY <1>6, <1>7, <1>8, <1>9 DEF DigestionInv

\* A payment is added to the table its call is at.
LEMMA SavingKeeps ==
    ASSUME SingleProcess, DigestionInv, TypeOK', NEW c \in Calls,
           SaveExpenses(c) \/ SaveReport(c) \/ SaveDetails(c)
    PROVE  DigestionInv'
<1> USE DEF SaveExpenses, SaveReport, SaveDetails, Save
<1>1. /\ ~At(c, "idle") /\ UNCHANGED <<status, busy>> /\ busy[InstanceOf[c]]
      /\ call \in [Calls -> CallStates] /\ ClaimHolds(c) /\ Progress(c) /\ BetweenRelations(c)
    BY DEF At, relationVars, DigestionInv, OneCallRuns, TypeOK, CallStates, Points
<1>2. \A d \in Calls : d # c => At(d, "idle") /\ call[d].relation = {} /\ call[d].todo = {}
    BY <1>1, OthersIdle
<1>3. PICK x \in call[c].relation, t \in Tables, to \in Points, base \in Counts :
        /\ base = rows[x[1]][t]
        /\ rows' = [rows EXCEPT ![x[1]][t] = [base EXCEPT ![x[2]] = @ + 1]]
        /\ call' = [call EXCEPT ![c].pc = to]
        /\ \/ call[c].pc = "saveExpenses" /\ t = "expenses" /\ to = "totals"
           \/ call[c].pc = "totals" /\ t = "totals" /\ to = "details"
           \/ call[c].pc = "saveDetails" /\ t = "details" /\ to = "complete"
    <2>1. call[c].read \in Counts /\ call[c].report \in Counts
        BY CallFields DEF DigestionInv
    <2>2. CASE SaveExpenses(c)
        BY <1>1, <2>1, <2>2 DEF GoTo, At, Progress, Tables, Points
    <2>3. CASE SaveReport(c)
        BY <1>1, <2>1, <2>3 DEF GoTo, At, Progress, Tables, Points
    <2>4. CASE SaveDetails(c)
        BY <1>1, <2>1, <2>4 DEF GoTo, At, Progress, Tables, Points
    <2>5. QED BY <2>2, <2>3, <2>4
<1>4. x \in Relations /\ status[x] = "DIGESTING" /\ \A y \in call[c].relation : y = x
    BY <1>1, CallFields DEF DigestionInv, ClaimHolds
<1>5. /\ InTable(x, t)' = InTable(x, t) + 1
      /\ \A s \in Tables : s # t => rows'[x[1]][s] = rows[x[1]][s]
      /\ \A y \in Relations, s \in Tables : y # x => InTable(y, s)' = InTable(y, s)
    BY <1>3, <1>4, SaveAdds DEF DigestionInv, InTable
<1>6. /\ \A d \in Calls : d # c => call'[d] = call[d]
      /\ call'[c].pc = to /\ call'[c].relation = call[c].relation
      /\ call'[c].todo = call[c].todo /\ call'[c].report = call[c].report
    BY <1>1, <1>3 DEF CallStates
<1>7. InTable(x, t) = 0
    BY <1>1, <1>3 DEF Progress
<1>8. Progress(c)'
    <2>1. x \in call[c].relation /\ call'[c].relation = {x}
        BY <1>3, <1>4, <1>6
    <2>2. InTable(x, t)' = 1 /\ \A s \in Tables : s # t => InTable(x, s)' = InTable(x, s)
        BY <1>4, <1>5, <1>7 DEF InTable
    <2>3. CASE call[c].pc = "saveExpenses" /\ t = "expenses" /\ to = "totals"
        <3>1. /\ InTable(x, "expenses")' = 1 /\ InTable(x, "totals")' = 0
              /\ InTable(x, "details")' = 0 /\ call[c].report = rows[x[1]]["totals"]
            BY <1>1, <2>1, <2>2, <2>3 DEF Progress, Tables
        <3>2. rows'[x[1]]["totals"] = rows[x[1]]["totals"]
            BY <1>5, <2>3 DEF Tables
        <3>3. QED BY <1>6, <2>1, <2>3, <3>1, <3>2 DEF Progress
    <2>4. CASE call[c].pc = "totals" /\ t = "totals" /\ to = "details"
        <3>1. /\ InTable(x, "expenses")' = 1 /\ InTable(x, "totals")' = 1
              /\ InTable(x, "details")' = 0
            BY <1>1, <2>1, <2>2, <2>4 DEF Progress, Tables
        <3>2. QED BY <1>6, <2>1, <2>4, <3>1 DEF Progress
    <2>5. CASE call[c].pc = "saveDetails" /\ t = "details" /\ to = "complete"
        <3>1. /\ InTable(x, "expenses")' = 1 /\ InTable(x, "totals")' = 1
              /\ InTable(x, "details")' = 1
            BY <1>1, <2>1, <2>2, <2>5 DEF Progress, Tables
        <3>2. QED BY <1>6, <2>1, <2>5, <3>1 DEF Progress
    <2>6. QED BY <1>3, <2>3, <2>4, <2>5
<1>9. ClaimHolds(c)' /\ BetweenRelations(c)'
    <2>1. \A y \in call[c].todo : y \in Relations /\ y # x
        BY <1>1, CallFields DEF DigestionInv, ClaimHolds
    <2>2. ClaimHolds(c)'
        BY <1>1, <1>5, <1>6, <2>1 DEF ClaimHolds, Nowhere
    <2>3. QED BY <1>3, <1>6, <2>2 DEF BetweenRelations
<1>10. StatusTells'
    BY <1>1, <1>4, <1>5 DEF DigestionInv, StatusTells, Nowhere, Everywhere
<1>11. NeverCountedTwice'
    <2>1. \A y \in Relations, s \in Tables : InTable(y, s)' <= 1
        <3>1. \A y \in Relations, s \in Tables : InTable(y, s) <= 1
            BY DEF DigestionInv, NeverCountedTwice, InTable, Relations
        <3>2. \A s \in Tables : s # t => InTable(x, s)' = InTable(x, s)
            BY <1>5 DEF InTable
        <3>3. QED BY <1>4, <1>5, <1>7, <3>1, <3>2
    <2>2. \A r \in Reports, s \in Tables, p \in Payments :
            <<r, p>> \in Relations /\ InTable(<<r, p>>, s)' = rows'[r][s][p]
        BY DEF Relations, InTable
    <2>3. ASSUME NEW r \in Reports, NEW s \in Tables, NEW p \in Payments
          PROVE  rows'[r][s][p] <= 1
        <3>1. <<r, p>> \in Relations /\ InTable(<<r, p>>, s)' = rows'[r][s][p]
            BY <2>2
        <3>2. InTable(<<r, p>>, s)' <= 1
            BY <2>1, <3>1
        <3>3. QED BY <3>1, <3>2
    <2>4. QED BY <2>3 DEF NeverCountedTwice
<1>12. OneCallRuns'
    BY <1>1, <1>2, <1>6 DEF OneCallRuns, At
<1>13. ASSUME NEW d \in Calls, d # c PROVE (ClaimHolds(d) /\ Progress(d) /\ BetweenRelations(d))'
    BY <1>2, <1>6, <1>13 DEF ClaimHolds, Progress, BetweenRelations, At
<1>14. QED BY <1>8, <1>9, <1>10, <1>11, <1>12, <1>13 DEF DigestionInv

\* The relation that is COMPLETED was added to every table.
LEMMA CompleteKeeps ==
    ASSUME SingleProcess, DigestionInv, TypeOK', NEW c \in Calls, Complete(c)
    PROVE  DigestionInv'
<1>1. /\ ~At(c, "idle") /\ call[c].pc = "complete" /\ UNCHANGED <<rows, busy>>
      /\ busy[InstanceOf[c]] /\ call \in [Calls -> CallStates]
      /\ ClaimHolds(c) /\ Progress(c)
    BY DEF Complete, At, DigestionInv, OneCallRuns, TypeOK, CallStates, Points
<1>2. \A d \in Calls : d # c => At(d, "idle") /\ call[d].relation = {} /\ call[d].todo = {}
    BY <1>1, OthersIdle
<1>3. PICK x \in call[c].relation : status' = [status EXCEPT ![x] = "COMPLETED"]
    BY DEF Complete
<1>4. x \in Relations /\ Everywhere(x)
    BY <1>1, CallFields DEF DigestionInv, Progress, Everywhere, Tables
<1>5. /\ \A d \in Calls : d # c => call'[d] = call[d]
      /\ call'[c].pc = "next" /\ call'[c].relation = {} /\ call'[c].todo = call[c].todo
    BY <1>1 DEF Complete, CallStates
<1>6. status'[x] = "COMPLETED" /\ \A y \in Relations : y # x => status'[y] = status[y]
    BY <1>3, <1>4 DEF DigestionInv, TypeOK
<1>7. \A y \in call[c].todo : y \in Relations /\ y # x
    BY <1>1, CallFields DEF DigestionInv, ClaimHolds
<1>8. ClaimHolds(c)' /\ Progress(c)' /\ BetweenRelations(c)'
    BY <1>1, <1>5, <1>6, <1>7 DEF ClaimHolds, Progress, BetweenRelations, Nowhere, InTable
<1>9. StatusTells'
    BY <1>1, <1>4, <1>6 DEF DigestionInv, StatusTells, Nowhere, Everywhere, InTable
<1>10. OneCallRuns' /\ NeverCountedTwice'
    BY <1>1, <1>2, <1>5 DEF OneCallRuns, At, DigestionInv, NeverCountedTwice
<1>11. ASSUME NEW d \in Calls, d # c PROVE (ClaimHolds(d) /\ Progress(d) /\ BetweenRelations(d))'
    BY <1>2, <1>5, <1>11 DEF ClaimHolds, Progress, BetweenRelations, At
<1>12. QED BY <1>8, <1>9, <1>10, <1>11 DEF DigestionInv

\* The process dies with its calls, or another one that ran none.
LEMMA CrashKeeps ==
    ASSUME SingleProcess, DigestionInv, TypeOK', NEW i \in Instances, Crash(i)
    PROVE  DigestionInv'
<1>1. /\ UNCHANGED <<status, rows>>
      /\ \A d \in Calls : IF InstanceOf[d] = i THEN call'[d] = Idle ELSE call'[d] = call[d]
      /\ \A j \in Instances : j # i => busy'[j] = busy[j]
    BY DEF Crash, DigestionInv, TypeOK
<1>2. \A d \in Calls : InstanceOf[d] \in Instances
    BY DigestionAssumption
<1>3. Idle.pc = "idle" /\ Idle.relation = {} /\ Idle.todo = {}
    BY DEF Idle
<1>4. OneCallRuns'
    BY <1>1, <1>2, <1>3 DEF DigestionInv, OneCallRuns, At
<1>5. StatusTells' /\ NeverCountedTwice'
    BY <1>1 DEF DigestionInv, StatusTells, Nowhere, Everywhere, InTable, NeverCountedTwice
<1>6. ASSUME NEW d \in Calls PROVE (ClaimHolds(d) /\ Progress(d) /\ BetweenRelations(d))'
    <2>1. CASE InstanceOf[d] = i
        BY <1>1, <1>3, <2>1 DEF ClaimHolds, Progress, BetweenRelations
    <2>2. CASE InstanceOf[d] # i
        BY <1>1, <2>2 DEF DigestionInv, ClaimHolds, Progress, BetweenRelations, Nowhere, InTable
    <2>3. QED BY <2>1, <2>2
<1>7. QED BY <1>4, <1>5, <1>6 DEF DigestionInv

LEMMA DigestionStepInv == SingleProcess /\ DigestionInv /\ [Next]_vars => DigestionInv'
<1>1. ASSUME SingleProcess, DigestionInv, Next PROVE DigestionInv'
    <2>1. TypeOK'
        BY <1>1, TypeStep DEF DigestionInv
    <2>2. ASSUME NEW c \in Calls, Begin(c) \/ CallStep(c) \/ Fail(c) PROVE DigestionInv'
        BY <1>1, <2>1, <2>2, BeginKeeps, ReadingKeeps, ClaimKeeps, SavingKeeps, CompleteKeeps
           DEF CallStep
    <2>3. QED BY <1>1, <2>1, <2>2, QueueKeeps, CrashKeeps DEF Next
<1>2. ASSUME DigestionInv, UNCHANGED vars PROVE DigestionInv'
    BY <1>2 DEF vars, queueVars, relationVars, faultVars, DigestionInv, TypeOK, OneCallRuns,
       StatusTells, NeverCountedTwice, ClaimHolds, Progress, BetweenRelations, Nowhere,
       Everywhere, InTable, At
<1>3. QED BY <1>1, <1>2
-----------------------------------------------------------------------------
(* The theorems *)

LEMMA DigestionInvHolds == ASSUME SingleProcess PROVE Spec => []DigestionInv
<1>1. DigestionInv /\ [Next]_vars => DigestionInv'
    BY DigestionStepInv
<1>2. QED BY DigestionInitInv, <1>1, PTL DEF Spec

\* With one process of the service, no payment is added twice to a table of a
\* report, whatever is delivered again, throws or dies (the unique relation and
\* the claim of checkRelations).
THEOREM NeverCountedTwiceHolds == ASSUME SingleProcess PROVE Spec => []NeverCountedTwice
<1>1. DigestionInv => NeverCountedTwice
    BY DEF DigestionInv
<1>2. QED BY DigestionInvHolds, <1>1, PTL

\* With one process, a COMPLETED relation is in every table of its report and
\* stays there (the flag and the claim of checkRelations).
THEOREM CompletedIsCountedHolds == ASSUME SingleProcess PROVE Spec => []CompletedIsCounted
<1>1. DigestionInv => CompletedIsCounted
    BY DEF DigestionInv, StatusTells, Everywhere, InTable, CompletedIsCounted
<1>2. QED BY DigestionInvHolds, <1>1, PTL
=============================================================================
