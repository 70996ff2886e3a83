-------------------------- MODULE IyzicoSubMerchant --------------------------
(***************************************************************************)
(* The sub-merchant of one seller account at Iyzico                        *)
(* (apps/integration-iyzico, iyzico-sub-merchant.service.ts).  Every init  *)
(* with a seller ensures it: the account is read from the payment service, *)
(* and the provider is told what changed since the row was last written.   *)
(* The provider calls are made inside the transaction that locks the row.  *)
(***************************************************************************)
EXTENDS Integers

CONSTANTS Ensurers,       \* calls of ensure that may be in progress at a time
          AccountSources, \* what the account may say, see MapSubMerchant
          MaxLostEnsures  \* bound: provider calls that fail, and crashes

ASSUME SubMerchantAssumption == MaxLostEnsures \in Nat

VARIABLES account,      \* the account, as the payment service has it
          merchantRow,  \* the IyzicoSubMerchant row: key, type, payload
          lockedBy,     \* the call whose transaction holds the row
          merchant,     \* the sub-merchant at the provider
          ensurer,      \* the calls in progress
          creations,    \* create requests the provider received
          lostEnsures

subMerchantVars == <<account, merchantRow, lockedBy, merchant, ensurer,
                     creations, lostEnsures>>

NoPayload == [type |-> "NONE", of |-> "NONE"]
NoMerchant == [exists |-> FALSE, type |-> "NONE", of |-> "NONE"]
NoRow == [exists |-> FALSE, key |-> FALSE, type |-> "NONE", of |-> "NONE"]
NoCall == [pc |-> "idle", payload |-> NoPayload]

MerchantTypes == {"PERSONAL", "PRIVATE_COMPANY", "LIMITED_OR_JOINT_STOCK_COMPANY"}

-----------------------------------------------------------------------------
(* mapSubMerchant: of names the account data that the payload digests      *)

MerchantType(s) ==
  CASE s.kind = "INDIVIDUAL" -> "PERSONAL"
    [] s.kind = "COMMERCIAL" /\ s.limited -> "LIMITED_OR_JOINT_STOCK_COMPANY"
    [] OTHER -> "PRIVATE_COMPANY"

\* Otherwise it throws: name, address, IBAN, a contact of two names, an
\* identity number of 11 digits are what complete and eleven stand for.
Mappable(s) ==
  /\ ~s.deactivated /\ s.complete
  /\ MerchantType(s) = "PRIVATE_COMPANY" => s.eleven

MapSubMerchant(s) == [type |-> MerchantType(s), of |-> s.data]

-----------------------------------------------------------------------------

SubMerchantInit ==
  /\ account \in AccountSources
  /\ merchantRow = NoRow /\ merchant = NoMerchant
  /\ lockedBy = {}
  /\ ensurer = [e \in Ensurers |-> NoCall]
  /\ creations = 0 /\ lostEnsures = 0

EnsurerAt(e, p) == ensurer[e].pc = p
EnsurerGoes(e, p) == ensurer' = [ensurer EXCEPT ![e].pc = p]

\* The key is answered, or the call throws: the transaction ends, committed or
\* rolled back.  The inserted row stays.
EndEnsure(e) ==
  /\ ensurer' = [ensurer EXCEPT ![e] = NoCall]
  /\ lockedBy' = lockedBy \ {e}

UpToDate(p) == merchantRow.key /\ merchantRow.of = p.of

EditAccount ==
  /\ account' \in AccountSources
  /\ UNCHANGED <<merchantRow, lockedBy, merchant, ensurer, creations, lostEnsures>>

\* get-sub-merchant-source is answered, and can be mapped.
ReadSource(e) ==
  /\ EnsurerAt(e, "idle")
  /\ Mappable(account)
  /\ ensurer' = [ensurer EXCEPT ![e] = [pc |-> "look", payload |-> MapSubMerchant(account)]]
  /\ UNCHANGED <<account, merchantRow, lockedBy, merchant, creations, lostEnsures>>

\* findOneBy without a lock; the row is inserted when it is not there.
LookAtRow(e) ==
  /\ EnsurerAt(e, "look")
  /\ IF UpToDate(ensurer[e].payload)
     THEN EndEnsure(e) /\ UNCHANGED merchantRow
     ELSE /\ merchantRow' = [merchantRow EXCEPT !.exists = TRUE]
          /\ EnsurerGoes(e, "lock")
          /\ UNCHANGED lockedBy
  /\ UNCHANGED <<account, merchant, creations, lostEnsures>>

\* Mutant of Lockable: the row is read without a lock.
LockableAnyTime == TRUE
Lockable == lockedBy = {}

\* Mutant of Decided: the row is not looked at again under the lock.
DecidedBefore(p) == IF merchantRow.key THEN "update" ELSE "create"

\* Another call may have finished while this one waited for the lock.
Decided(p) ==
  CASE UpToDate(p) -> "answer"
    [] merchantRow.key /\ merchantRow.type # p.type -> "conflict"
    [] merchantRow.key /\ merchantRow.type = p.type /\ ~UpToDate(p) -> "update"
    [] OTHER -> "create"

LockRow(e) ==
  /\ EnsurerAt(e, "lock")
  /\ Lockable
  /\ LET next == Decided(ensurer[e].payload)
     IN IF next \in {"answer", "conflict"} THEN EndEnsure(e)
        ELSE lockedBy' = lockedBy \union {e} /\ EnsurerGoes(e, next)
  /\ UNCHANGED <<account, merchantRow, merchant, creations, lostEnsures>>

\* The provider knows an account by its id: a second create is refused.  A
\* create that is refused, or whose answer is lost, recovers the key by that id.
CreateMerchant(e) ==
  /\ EnsurerAt(e, "create")
  /\ creations' = creations + 1
  /\ merchant' = IF merchant.exists THEN merchant
                 ELSE [exists |-> TRUE, type |-> ensurer[e].payload.type,
                       of |-> ensurer[e].payload.of]
  /\ \/ /\ ~merchant.exists
        /\ EnsurerGoes(e, "save")
        /\ UNCHANGED lostEnsures
     \/ /\ merchant.exists
        /\ EnsurerGoes(e, "update")
        /\ UNCHANGED lostEnsures
     \/ /\ ~merchant.exists /\ lostEnsures < MaxLostEnsures
        /\ EnsurerGoes(e, "update")
        /\ lostEnsures' = lostEnsures + 1
  /\ UNCHANGED <<account, merchantRow, lockedBy>>

\* The type is not part of an update.
UpdateMerchant(e) ==
  /\ EnsurerAt(e, "update")
  /\ merchant' = [merchant EXCEPT !.of = ensurer[e].payload.of]
  /\ EnsurerGoes(e, "save")
  /\ UNCHANGED <<account, merchantRow, lockedBy, creations, lostEnsures>>

SaveMerchant(e) ==
  /\ EnsurerAt(e, "save")
  /\ merchantRow' = [exists |-> TRUE, key |-> TRUE, type |-> ensurer[e].payload.type,
                     of |-> ensurer[e].payload.of]
  /\ EndEnsure(e)
  /\ UNCHANGED <<account, merchant, creations, lostEnsures>>

\* A provider call that is refused or gets no valid answer, after it was
\* executed or not, a failed commit, or the death of the process.
EnsureFails(e) ==
  /\ ~EnsurerAt(e, "idle")
  /\ lostEnsures < MaxLostEnsures
  /\ lostEnsures' = lostEnsures + 1
  /\ EndEnsure(e)
  /\ UNCHANGED <<account, merchantRow, merchant, creations>>

EnsureStep(e) ==
  \/ LookAtRow(e) \/ LockRow(e)
  \/ CreateMerchant(e) \/ UpdateMerchant(e) \/ SaveMerchant(e)

SubMerchantNext ==
  \/ EditAccount
  \/ \E e \in Ensurers : ReadSource(e) \/ EnsureStep(e) \/ EnsureFails(e)

SubMerchantSpec == SubMerchantInit /\ [][SubMerchantNext]_subMerchantVars

-----------------------------------------------------------------------------
(* Properties                                                              *)

\* Types of the row, the provider's sub-merchant and the calls of ensure.
SubMerchantTypeOK ==
  LET data == {s.data : s \in AccountSources} \union {"NONE"}
      types == MerchantTypes \union {"NONE"}
  IN /\ account \in AccountSources
     /\ merchantRow \in [exists : BOOLEAN, key : BOOLEAN, type : types, of : data]
     /\ lockedBy \subseteq Ensurers
     /\ merchant \in [exists : BOOLEAN, type : types, of : data]
     /\ ensurer \in [Ensurers -> [pc : {"idle", "look", "lock", "create", "update", "save"},
                                  payload : [type : types, of : data]]]
     /\ creations \in Nat
     /\ lostEnsures \in 0..MaxLostEnsures

\* While no call was lost, the provider was asked once to create the
\* sub-merchant, however many inits of the seller run at a time (ensure).
MerchantCreatedOnce == lostEnsures = 0 => creations <= 1

\* What the row says was sent is what the provider has, unless a call was
\* lost: two updates never cross (ensure, pessimistic_write).
RowMatchesProvider ==
  (lostEnsures = 0 /\ lockedBy = {} /\ merchantRow.key)
    => /\ merchant.exists
       /\ merchantRow.of = merchant.of /\ merchantRow.type = merchant.type
=============================================================================
