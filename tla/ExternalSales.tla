---------------------------- MODULE ExternalSales ----------------------------
(***************************************************************************)
(* Sales made on external platforms and recorded here afterwards             *)
(* (ExternalPlatformPaymentService): the row of the platform is locked, an    *)
(* order already recorded is refused, the customer and the billing address   *)
(* are found or made, and the payment is saved COMPLETED in one transaction; *)
(* orders, accounts and reports are posted after it, and may fail.           *)
(***************************************************************************)
EXTENDS OrderQuote

CONSTANTS
    Recorders,      \* requests that record an external sale
    ExternalOrders, \* order ids of the platforms
    Identities,     \* what identifies a customer: name, legal identity, type, phone
    CustomerIds,    \* the platforms' customer ids (General when not given)
    MaxRecords      \* bound on recorded sales

ASSUME ExternalAssumption == General \notin Recorders

VARIABLES
    active,         \* ExternalPlatform.active
    platformLock,   \* the request that holds the platform's row, or General
    customers,      \* external accounts: [identity, platform, id]
    recorded,       \* payments of external orders
    posted,         \* those whose completion was processed
    recording       \* the request of each recorder

esVars == <<active, platformLock, customers, recorded, posted, recording>>

NoRecording == [at |-> "idle"]

ExternalInit ==
    /\ active = [p \in Platforms |-> TRUE]
    /\ platformLock = [p \in Platforms |-> General]
    /\ customers = {}
    /\ recorded = <<>>
    /\ posted = {}
    /\ recording = [r \in Recorders |-> NoRecording]

\* ExternalPlatformService.edit(): a platform is switched on or off.
SwitchPlatform(p) ==
    /\ active' = [active EXCEPT ![p] = ~@]
    /\ UNCHANGED <<platformLock, customers, recorded, posted, recording, oqVars>>

\* The input was valid and the sellers are the caller's: they have to be active,
\* commercial and to have an address.
BeginRecord(r, p, o, g, who, id) ==
    /\ recording[r].at = "idle"
    /\ Len(recorded) < MaxRecords
    /\ g.seller \in Commercial /\ g.rate # NoRate
    /\ recording' = [recording EXCEPT ![r] =
            [at |-> "lock", platform |-> p, order |-> o, good |-> g, who |-> who, id |-> id]]
    /\ UNCHANGED <<active, platformLock, customers, recorded, posted, oqVars>>

IsRecorded(p, o) == \E i \in DOMAIN recorded : recorded[i].platform = p /\ recorded[i].order = o

\* The row of the platform is read without a lock.
MayLockPlatformAlways(p) == TRUE

MayLockPlatform(p) == platformLock[p] = General

\* The pessimistic lock, and what is refused under it.
LockPlatform(r) ==
    /\ recording[r].at = "lock"
    /\ LET p == recording[r].platform
       IN /\ MayLockPlatform(p)
          /\ IF active[p] /\ ~IsRecorded(p, recording[r].order)
             THEN /\ platformLock' = [platformLock EXCEPT ![p] = r]
                  /\ recording' = [recording EXCEPT ![r].at = "resolve"]
             ELSE /\ recording' = [recording EXCEPT ![r] = NoRecording]
                  /\ UNCHANGED platformLock
    /\ UNCHANGED <<active, customers, recorded, posted, oqVars>>

ById(p, id) == {c \in customers : id # General /\ c.platform = p /\ c.id = id}
ByIdentity(who) == {c \in customers : c.identity = who}

\* resolveOrCreateForExternalPlatform(): by the platform's id, then by identity on
\* any platform, else a new external account.
Candidates(r) ==
    LET c == recording[r]
        fresh == [identity |-> c.who, platform |-> c.platform, id |-> c.id]
    IN IF ById(c.platform, c.id) # {} THEN ById(c.platform, c.id)
       ELSE IF ByIdentity(c.who) # {} THEN ByIdentity(c.who)
       ELSE {fresh}

\* Reads outside the lock's reach: customers of other platforms, commission rules.
Resolve(r) ==
    /\ recording[r].at = "resolve"
    /\ LET g == recording[r].good
       IN \E c \in Candidates(r), rule \in Chosen(g.seller, g.class, recording[r].platform) :
            recording' = [recording EXCEPT ![r] =
              [at |-> "commit", platform |-> @.platform, order |-> @.order,
               customer |-> c, rule |-> rule,
               seen |-> Matching(g.seller, g.class, @.platform)]]
    /\ UNCHANGED <<active, platformLock, customers, recorded, posted, oqVars>>

\* The transaction commits, or fails and leaves nothing.
CommitRecord(r) ==
    /\ recording[r].at = "commit"
    /\ LET c == recording[r]
       IN /\ platformLock' = [platformLock EXCEPT ![c.platform] = General]
          /\ \/ /\ customers' = customers \cup {c.customer}
                /\ recorded' = Append(recorded,
                     [platform |-> c.platform, order |-> c.order, customer |-> c.customer,
                      rule |-> c.rule, seen |-> c.seen])
                /\ recording' = [recording EXCEPT ![r] = [at |-> "post", nr |-> Len(recorded) + 1]]
             \/ /\ recording' = [recording EXCEPT ![r] = NoRecording]
                /\ UNCHANGED <<customers, recorded>>
    /\ UNCHANGED <<active, posted, oqVars>>

\* onPaymentCompleted() outside the transaction: done, or failed for good.
PostRecord(r) ==
    /\ recording[r].at = "post"
    /\ posted' \in {posted, posted \cup {recording[r].nr}}
    /\ recording' = [recording EXCEPT ![r] = NoRecording]
    /\ UNCHANGED <<active, platformLock, customers, recorded, oqVars>>

\* The process dies: the database rolls back and drops its lock.
RecorderCrashes(r) ==
    /\ recording[r].at # "idle"
    /\ recording' = [recording EXCEPT ![r] = NoRecording]
    /\ platformLock' = [p \in Platforms |-> IF platformLock[p] = r THEN General ELSE platformLock[p]]
    /\ UNCHANGED <<active, customers, recorded, posted, oqVars>>

ExternalNext ==
    \/ \E p \in Platforms : SwitchPlatform(p)
    \/ \E r \in Recorders :
         \/ \E p \in Platforms, o \in ExternalOrders, g \in Goods, who \in Identities,
               id \in CustomerIds \cup {General} : BeginRecord(r, p, o, g, who, id)
         \/ LockPlatform(r) \/ Resolve(r) \/ CommitRecord(r) \/ PostRecord(r)
         \/ RecorderCrashes(r)

\* Sales are recorded while rules, prices and purchases change.
ExternalSpec ==
    /\ ExternalInit /\ QuoteInit
    /\ [][ExternalNext \/ (QuoteNext /\ UNCHANGED esVars)]_<<esVars, oqVars>>

-----------------------------------------------------------------------------

\* An order of an external platform is recorded at most once, and a platform's
\* customer id stands for one account, however requests overlap, fail or repeat.
OneSalePerOrder ==
    /\ \A i, j \in DOMAIN recorded :
         (recorded[i].platform = recorded[j].platform /\ recorded[i].order = recorded[j].order)
            => i = j
    /\ \A c, d \in customers :
         (c.platform = d.platform /\ c.id = d.id /\ c.id # General) => c = d

\* Every line of a purchase and of an external sale is charged by a rule that no
\* other rule in force was more specific than, and the taxes kept with a purchase
\* add up to its total.
QuoteIsRight ==
    /\ \A p \in sales :
         /\ \A i \in DOMAIN p.lines : MostSpecific(p.lines[i].rule, p.lines[i].seen)
         /\ TaxesAddUp(p)
    /\ \A i \in DOMAIN recorded : MostSpecific(recorded[i].rule, recorded[i].seen)
===============================================================================
