----------------------------- MODULE PartyRecords -----------------------------
(***************************************************************************)
(* The personal data of accounts and addresses, the copies a payment keeps    *)
(* of them, and their encryption: fields are encrypted and decrypted by the   *)
(* mappers, and all rows at once by an administrator (account.service.ts,     *)
(* address.service.ts, payment.service.ts, admin-operations.service.ts,       *)
(* cryption-util.ts).                                                         *)
(*                                                                            *)
(* A row has one sensitive field: what was entered, under how many layers of  *)
(* encryption.  The snapshots of one party stand for those of all.            *)
(***************************************************************************)
EXTENDS Naturals, FiniteSets, Sequences

CONSTANTS
    Keys,          \* primary keys, numbers in the order rows are read in
    Entries,       \* what people enter
    NoKey,
    Administrators,
    Directions,    \* what administrators run: "ENCRYPTED", "DECRYPTED"
    BatchSize,
    MaxEntered     \* bound: rows written by requests

ASSUME PartyAssumption == Keys \subseteq Nat /\ NoKey \notin Keys /\ BatchSize \in Nat \ {0}

VARIABLES
    encryption,    \* POSTRAL_SENSITIVE_DATA_ENCRYPTION_ENABLED of the service
    records,       \* table |-> (key of an existing row |-> row)
    conversions,   \* administrator |-> changeAllSensitiveData() under way
    cleared,       \* an undisturbed decryption ended since encryption was on
    entered        \* rows written by requests

partyVars == <<encryption, records, conversions, cleared, entered>>

\* Mutant of Tables: the snapshots are forgotten.
TablesNoSnapshots == <<"account", "address">>

\* The tables of an administrator's conversion, in its order.
Tables == <<"account", "address", "invoice_account", "invoice_address">>

\* of: the default address of an account, or what a snapshot was taken of.
RecordRow(field, external, of) ==
    [value |-> field.value, layers |-> field.layers, external |-> external, of |-> of]
Typed(v) == [value |-> v, layers |-> 0]

NoConversion == [at |-> "idle"]

PartyInit ==
    /\ encryption \in {"true", "false"}
    /\ records = [t \in {"account", "address", "invoice_account", "invoice_address"} |-> <<>>]
    /\ conversions = [a \in Administrators |-> NoConversion]
    /\ cleared = (encryption = "false")
    /\ entered = 0

-----------------------------------------------------------------------------
\* encryptWithConfig(): nothing unless encryption is on.
Encrypted(row) ==
    IF encryption = "true" THEN [row EXCEPT !.layers = @ + 1] ELSE row

\* decryptWithConfig() of the mappers: a text that does not decrypt is kept.
Decrypted(row) ==
    IF encryption = "false" \/ row.layers = 0 THEN row ELSE [row EXCEPT !.layers = @ - 1]

Existing(t) == DOMAIN records[t]

\* A row, or the rows of a batch, written over what a table holds.
Put(table, k, row) == [j \in DOMAIN table \cup {k} |-> IF j = k THEN row ELSE table[j]]
PutAll(table, batch) ==
    [j \in DOMAIN table \cup DOMAIN batch |-> IF j \in DOMAIN batch THEN batch[j] ELSE table[j]]

With(t, k, row) == [records EXCEPT ![t] = Put(@, k, row)]

Entering == entered < MaxEntered /\ entered' = entered + 1

\* Create or edit of an account, its default address one on record.
SaveAccountRow(k, v, address) ==
    /\ Entering
    /\ address \in Existing("address") \cup {NoKey}
    /\ records' = With("account", k, RecordRow(Encrypted(Typed(v)), FALSE, address))
    /\ UNCHANGED <<encryption, conversions, cleared>>

SaveAddressRow(k, v) ==
    /\ Entering
    /\ records' = With("address", k, RecordRow(Encrypted(Typed(v)), FALSE, NoKey))
    /\ UNCHANGED <<encryption, conversions, cleared>>

\* Foreign keys hold an address that an account or a payment refers to.
RemoveAddressRow(k) ==
    /\ k \in Existing("address")
    /\ \A t \in {"account", "invoice_address"} : \A j \in Existing(t) : records[t][j].of # k
    /\ records' = [records EXCEPT !["address"] = [j \in DOMAIN @ \ {k} |-> @[j]]]
    /\ conversions' = [a \in Administrators |->
         IF conversions[a] = NoConversion THEN NoConversion
         ELSE [conversions[a] EXCEPT !.undisturbed = FALSE]]
    /\ UNCHANGED <<encryption, cleared, entered>>

-----------------------------------------------------------------------------
\* What requests read: the DTOs of the mappers.
AccountRead(row) == Decrypted(row)
AddressRead(row) == Decrypted(row)
SnapshotRead(row) == Decrypted(row)

\* toEntityFromNormalAccount() of a DTO encrypts, toEntityFromAccountAddress()
\* copies whatever it is given.
SnapshotOfAccount(row, k) == RecordRow(Encrypted(AccountRead(row)), row.external, k)
SnapshotOfAddress(row, k) == RecordRow(row, row.external, k)

\* Both snapshots of a party, saved with the payment.
WithSnapshots(tables, k, account, address) ==
    [tables EXCEPT !["invoice_account"] = Put(@, k, account),
                   !["invoice_address"] = Put(@, k, address)]

FreePair(k) == k \notin Existing("invoice_account") \cup Existing("invoice_address")

\* A payment is created: account and default address are read as DTOs.
SnapshotParty(k, account) ==
    /\ Entering
    /\ FreePair(k)
    /\ account \in Existing("account")
    /\ LET party == records["account"][account]
       IN /\ party.of \in Existing("address")
          /\ records' = WithSnapshots(records, k,
               SnapshotOfAccount(party, account),
               SnapshotOfAddress(AddressRead(records["address"][party.of]), party.of))
    /\ UNCHANGED <<encryption, conversions, cleared>>

\* findByIdentityMatch(), findByFieldMatch(): rows match as they are stored, so
\* the field looked for is encrypted first.
MatchesIn(t, v) ==
    {k \in Existing(t) : /\ records[t][k].external
                         /\ records[t][k].value = v
                         /\ records[t][k].layers = Encrypted(Typed(v)).layers}

Resolvable(t, v) == IF MatchesIn(t, v) # {} THEN MatchesIn(t, v) ELSE Keys \ Existing(t)

\* resolveOrCreateForExternalPlatform() of either service; the address becomes
\* the customer's default.
WithAddress(tables, k, v) ==
    IF k \in Existing("address") THEN tables
    ELSE [tables EXCEPT !["address"] = Put(@, k, RecordRow(Encrypted(Typed(v)), TRUE, NoKey))]

WithCustomer(tables, k, v, address) ==
    IF k \in Existing("account") THEN [tables EXCEPT !["account"][k].of = address]
    ELSE [tables EXCEPT !["account"] = Put(@, k, RecordRow(Encrypted(Typed(v)), TRUE, address))]

\* The sale of an external platform copies the address as it is stored.
SnapshotExternalSale(k, account, address, who, where) ==
    /\ Entering
    /\ FreePair(k)
    /\ account \in Resolvable("account", who)
    /\ address \in Resolvable("address", where)
    /\ LET found == WithCustomer(WithAddress(records, address, where), account, who, address)
       IN records' = WithSnapshots(found, k,
            SnapshotOfAccount(found["account"][account], account),
            SnapshotOfAddress(found["address"][address], address))
    /\ UNCHANGED <<encryption, conversions, cleared>>

-----------------------------------------------------------------------------
(* changeAllSensitiveData(), a batch at a time and without a transaction.    *)

StartConversion(a, to) ==
    /\ conversions[a] = NoConversion
    /\ to = "ENCRYPTED" => encryption = "true"
    /\ to = "DECRYPTED" => encryption # "false"
    /\ conversions' = [conversions EXCEPT ![a] =
         [at |-> "find", to |-> to, table |-> 1, skip |-> 0, batch |-> <<>>, undisturbed |-> TRUE]]
    /\ UNCHANGED <<encryption, records, cleared, entered>>

Position(t, k) == Cardinality({j \in Existing(t) : j < k})
BatchAt(t, skip) == {k \in Existing(t) : Position(t, k) \in skip .. skip + BatchSize - 1}

\* Reads a batch and converts it in memory.
FindBatch(a) ==
    LET c == conversions[a]
        t == Tables[c.table]
        found == BatchAt(t, c.skip)
    IN /\ c.at = "find"
       /\ found # {}
       /\ conversions' = [conversions EXCEPT
            ![a].at = "save",
            ![a].batch = [k \in found |-> IF c.to = "ENCRYPTED" THEN Encrypted(records[t][k])
                                          ELSE Decrypted(records[t][k])]]
       /\ UNCHANGED <<encryption, records, cleared, entered>>

\* Writes it over what the rows hold now; a row that is gone is inserted again.
SaveBatch(a) ==
    LET c == conversions[a]
    IN /\ c.at = "save"
       /\ records' = [records EXCEPT ![Tables[c.table]] = PutAll(@, c.batch)]
       /\ conversions' = [conversions EXCEPT
            ![a].at = "find", ![a].skip = @ + Cardinality(DOMAIN c.batch), ![a].batch = <<>>]
       /\ UNCHANGED <<encryption, cleared, entered>>

\* No rows left: the next table, or the end.
TableDone(a) ==
    LET c == conversions[a]
        last == c.table = Len(Tables)
    IN /\ c.at = "find"
       /\ BatchAt(Tables[c.table], c.skip) = {}
       /\ conversions' = [conversions EXCEPT ![a] =
            IF last THEN NoConversion ELSE [c EXCEPT !.table = @ + 1, !.skip = 0]]
       /\ cleared' = (cleared \/ (last /\ c.to = "DECRYPTED" /\ c.undisturbed
                                    /\ encryption = "false-decrypt"))
       /\ UNCHANGED <<encryption, records, entered>>

ConversionDies(a) ==
    /\ conversions[a] # NoConversion
    /\ conversions' = [conversions EXCEPT ![a] = NoConversion]
    /\ UNCHANGED <<encryption, records, cleared, entered>>

\* The operator restarts the service in another mode; he turns decryption off
\* when a decryption ran to its end with no address removed meanwhile.
Redeploy(mode) ==
    /\ mode # encryption
    /\ mode = "false" => encryption = "false-decrypt" /\ cleared
    /\ encryption' = mode
    /\ cleared' = (cleared /\ mode # "true")
    /\ conversions' = [a \in Administrators |-> NoConversion]
    /\ UNCHANGED <<records, entered>>

PartyNext ==
    \/ \E k \in Keys, v \in Entries :
         \/ \E address \in Keys \cup {NoKey} : SaveAccountRow(k, v, address)
         \/ SaveAddressRow(k, v)
    \/ \E k \in Keys : RemoveAddressRow(k)
    \/ \E k, account \in Keys : SnapshotParty(k, account)
    \/ \E k, account, address \in Keys, who, where \in Entries :
         SnapshotExternalSale(k, account, address, who, where)
    \/ \E a \in Administrators :
         \/ \E to \in Directions : StartConversion(a, to)
         \/ FindBatch(a) \/ SaveBatch(a) \/ TableDone(a) \/ ConversionDies(a)
    \/ \E mode \in {"true", "false", "false-decrypt"} : Redeploy(mode)

PartySpec == PartyInit /\ [][PartyNext]_partyVars

-----------------------------------------------------------------------------
\* What is encrypted while encryption is on stays readable however the service
\* goes on to other modes: with edits and payments meanwhile, a decryption that is
\* interrupted, repeated or run by two, every reader of an account, an address or a
\* snapshot is shown what was entered and never its cipher.
ReadsBack ==
    \A t \in DOMAIN records : \A k \in DOMAIN records[t] :
        SnapshotRead(records[t][k]).layers = 0
===============================================================================
