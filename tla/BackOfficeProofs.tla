---------------------------- MODULE BackOfficeProofs ----------------------------
(***************************************************************************)
(* Proofs about the back office: the first-run setup of a platform, the     *)
(* cleanup of old payments, external sales, invoices and personal data.     *)
(* Each part has its invariant, a lemma per action or group of actions, and *)
(* its theorems.                                                            *)
(*                                                                         *)
(* The setup: what a request holding the lease knows of the row stays so    *)
(* until it lets go, and what must outlast the lease (a name that was kept, *)
(* settings a completion found) is never replaced in the row.               *)
(***************************************************************************)
EXTENDS PlatformSetup, PaymentCleanup, ExternalSales, InvoiceDesk, PartyRecords,
        SumTheorems, SequenceTheorems, TLAPS

SetupEntities == {"address", "account", "sellerAddress", "sellerAccount", "tax", "extraTax"}

\* What a completion vouches for, as a set.
Vouched(s) ==
  {"address", "account"}
    \cup (IF s.sells THEN {"sellerAddress", "sellerAccount"} ELSE {})
    \cup (IF s.market THEN {"tax"} ELSE {})
    \cup (IF s.extra THEN {"extraTax"} ELSE {})

SetupSteps == {"TEAM", "KEEP", "SETTINGS", "PLATFORM", "SELLER", "COMPLETE"}
TeamPoints == {"keepName", "makeTeam", "keepTeam"}

\* The points a request reaches with the lease.
Leased == SetupSteps \cup TeamPoints \cup {"accountReady", "commit"}

SetupRequests ==
  [at : Leased \cup {"idle", "initialize", "enter", "finally"},
   step : SetupSteps \cup {Nothing}, user : SetupAdmins \cup {Nothing},
   input : TeamNames \cup SetupSettings \cup {Nothing}, todo : Seq(SetupEntities)]

\* A request is at the steps of its kind, and brought what they need.
InputFits(r) ==
  /\ r.at = "idle" => r.todo = <<>>
  /\ r.at # "idle"
      => /\ r.user \in SetupAdmins /\ r.step \in SetupSteps
         /\ r.at \in SetupSteps => r.step = r.at
         /\ r.at \in TeamPoints => r.step = "TEAM"
         /\ r.step = "TEAM" => r.input \in TeamNames
         /\ r.step = "SETTINGS" => r.input \in SetupSettings

PlatformTypeOK ==
  /\ setup \in SetupRows \cup {Nothing}
  /\ lease \in [token : Setters \cup {Nothing}, live : BOOLEAN]
  /\ userTeam \in TeamNames \cup {Nothing}
  /\ request \in [Setters -> SetupRequests]
  /\ \A w \in Setters : InputFits(request[w])

\* What a request has made sure of: with the lease, that the setup is not
\* completed and the name is free or its own; whatever became of the lease, that a
\* name it kept and settings it found are there to stay.
Knows(w) ==
  /\ request[w].at \in Leased /\ Holds(w) => setup.status # "COMPLETED"
  /\ request[w].at = "keepName" /\ Holds(w) => setup.teamName \in {Nothing, request[w].input}
  /\ request[w].at \in {"makeTeam", "keepTeam"}
       => setup # Nothing /\ setup.teamName = request[w].input
  /\ request[w].at = "commit"
       => /\ setup # Nothing /\ setup.settings # Nothing
          /\ \A d \in Vouched(setup.settings) :
               d \in owned \/ \E k \in DOMAIN request[w].todo : request[w].todo[k] = d

\* An installation that was kept is completed and has no name.
KeptIsDone ==
  setup # Nothing /\ setup.kept => setup.status = "COMPLETED" /\ setup.teamName = Nothing

DoneIsOwned ==
  setup # Nothing /\ setup.status = "COMPLETED" /\ ~setup.kept
    => setup.settings # Nothing /\ Vouched(setup.settings) \subseteq owned

\* A lease is on a row.
LeaseHasRow == lease.live => setup # Nothing

SetupInv ==
  /\ PlatformTypeOK /\ LeaseHasRow
  /\ \A w \in Setters : Knows(w)
  /\ KeptIsDone /\ DoneIsOwned /\ TeamAgrees

-----------------------------------------------------------------------------
\* The list of ownership calls names everything a completion vouches for.
LEMMA DutiesAreVouched ==
  ASSUME NEW s \in SetupSettings
  PROVE  /\ Duties(s) \in Seq(SetupEntities)
         /\ TaxesOf(s) \in Seq(SetupEntities)
         /\ \A d \in Vouched(s) : \E k \in DOMAIN Duties(s) : Duties(s)[k] = d
<1> DEFINE A == AccountOf(FALSE)
           B == IF s.sells THEN AccountOf(TRUE) ELSE <<>>
           T1 == IF s.market THEN <<"tax">> ELSE <<>>
           T2 == IF s.extra THEN <<"extraTax">> ELSE <<>>
<1>1. /\ A \in Seq(SetupEntities) /\ Len(A) = 2 /\ A[1] = "address" /\ A[2] = "account"
      /\ AccountOf(TRUE) \in Seq(SetupEntities) /\ Len(AccountOf(TRUE)) = 2
      /\ AccountOf(TRUE)[1] = "sellerAddress" /\ AccountOf(TRUE)[2] = "sellerAccount"
  BY DEF AccountOf, SetupEntities
<1>2. /\ B \in Seq(SetupEntities)
      /\ s.sells => Len(B) = 2 /\ B[1] = "sellerAddress" /\ B[2] = "sellerAccount"
  <2>1. CASE s.sells
    <3>1. B = AccountOf(TRUE)
      BY <2>1, Zenon
    <3> HIDE DEF B
    <3> QED BY <1>1, <3>1
  <2>2. CASE ~s.sells
    <3>1. B = <<>>
      BY <2>2, Zenon
    <3>2. <<>> \in Seq(SetupEntities)
      OBVIOUS
    <3> HIDE DEF B
    <3> QED BY <2>2, <3>1, <3>2, Zenon
  <2> QED BY <2>1, <2>2
<1>3. /\ T1 \in Seq(SetupEntities) /\ (s.market => Len(T1) = 1 /\ T1[1] = "tax")
      /\ T2 \in Seq(SetupEntities) /\ (s.extra => Len(T2) = 1 /\ T2[1] = "extraTax")
  <2>1. /\ T1 \in Seq(SetupEntities) /\ (s.market => Len(T1) = 1 /\ T1[1] = "tax")
    <3>1. CASE s.market
      <4>1. T1 = <<"tax">>
        BY <3>1, Zenon
      <4>2. <<"tax">> \in Seq(SetupEntities) /\ Len(<<"tax">>) = 1 /\ <<"tax">>[1] = "tax"
        BY DEF SetupEntities
      <4> HIDE DEF T1
      <4> QED BY <4>1, <4>2, Zenon
    <3>2. CASE ~s.market
      <4>1. T1 = <<>>
        BY <3>2, Zenon
      <4>2. <<>> \in Seq(SetupEntities)
        OBVIOUS
      <4> HIDE DEF T1
      <4> QED BY <3>2, <4>1, <4>2, Zenon
    <3> QED BY <3>1, <3>2
  <2>2. /\ T2 \in Seq(SetupEntities) /\ (s.extra => Len(T2) = 1 /\ T2[1] = "extraTax")
    <3>1. CASE s.extra
      <4>1. T2 = <<"extraTax">>
        BY <3>1, Zenon
      <4>2. <<"extraTax">> \in Seq(SetupEntities) /\ Len(<<"extraTax">>) = 1 /\ <<"extraTax">>[1] = "extraTax"
        BY DEF SetupEntities
      <4> HIDE DEF T2
      <4> QED BY <4>1, <4>2, Zenon
    <3>2. CASE ~s.extra
      <4>1. T2 = <<>>
        BY <3>2, Zenon
      <4>2. <<>> \in Seq(SetupEntities)
        OBVIOUS
      <4> HIDE DEF T2
      <4> QED BY <3>2, <4>1, <4>2, Zenon
    <3> QED BY <3>1, <3>2
  <2> QED BY <2>1, <2>2
<1>4. TaxesOf(s) = T1 \o T2
  BY DEF TaxesOf
<1>5. Duties(s) = (A \o B) \o (T1 \o T2)
  BY <1>4 DEF Duties
<1> HIDE DEF A, B, T1, T2
<1>6. /\ A \o B \in Seq(SetupEntities) /\ Len(A \o B) = Len(A) + Len(B)
      /\ \A k \in 1 .. Len(A) : (A \o B)[k] = A[k]
      /\ \A k \in 1 .. Len(B) : (A \o B)[Len(A) + k] = B[k]
  <2>1. A \in Seq(SetupEntities) /\ B \in Seq(SetupEntities)
    BY <1>1, <1>2
  <2>2. Len(A) \in Nat /\ Len(B) \in Nat
    BY <2>1
  <2> QED BY <2>1, <2>2, ConcatProperties
<1>7. /\ T1 \o T2 \in Seq(SetupEntities) /\ Len(T1 \o T2) = Len(T1) + Len(T2)
      /\ \A k \in 1 .. Len(T1) : (T1 \o T2)[k] = T1[k]
      /\ \A k \in 1 .. Len(T2) : (T1 \o T2)[Len(T1) + k] = T2[k]
  BY <1>3
<1> DEFINE P == A \o B
           Q == T1 \o T2
<1> HIDE DEF P, Q
<1>8. /\ P \o Q \in Seq(SetupEntities) /\ Len(P \o Q) = Len(P) + Len(Q)
      /\ \A k \in 1 .. Len(P) : (P \o Q)[k] = P[k]
      /\ \A k \in 1 .. Len(Q) : (P \o Q)[Len(P) + k] = Q[k]
  BY <1>6, <1>7 DEF P, Q
<1>9. Duties(s) = P \o Q /\ TaxesOf(s) = Q
  BY <1>4, <1>5 DEF P, Q
<1>10. /\ Len(A) \in Nat /\ Len(B) \in Nat /\ Len(T1) \in Nat /\ Len(T2) \in Nat
  BY <1>1, <1>2, <1>3
<1>11. \A k \in 1 .. Len(P) : k \in DOMAIN (P \o Q) /\ (P \o Q)[k] = P[k]
  BY <1>6, <1>7, <1>8, <1>10 DEF P, Q
<1>12. \A k \in 1 .. Len(Q) : Len(P) + k \in DOMAIN (P \o Q) /\ (P \o Q)[Len(P) + k] = Q[k]
  BY <1>6, <1>7, <1>8, <1>10 DEF P, Q
<1>13. ASSUME NEW d \in Vouched(s) PROVE \E k \in DOMAIN (P \o Q) : (P \o Q)[k] = d
  <2>1. CASE d \in {"address", "account"}
    <3>1. \E k \in 1 .. Len(P) : P[k] = d
      BY <1>1, <1>6, <1>10, <2>1 DEF P
    <3> QED BY <1>11, <3>1
  <2>2. CASE s.sells /\ d \in {"sellerAddress", "sellerAccount"}
    <3>1. PICK k \in 1 .. Len(B) : B[k] = d
      BY <1>2, <2>2
    <3>2. Len(A) + k \in 1 .. Len(P) /\ P[Len(A) + k] = d
      BY <1>6, <1>10, <3>1 DEF P
    <3> QED BY <1>11, <3>2
  <2>3. CASE s.market /\ d = "tax"
    <3>0. Len(T1) = 1 /\ T1[1] = d
      BY <1>3, <2>3
    <3>1. 1 \in 1 .. Len(Q) /\ Q[1] = d
      BY <1>7, <1>10, <3>0 DEF Q
    <3> QED BY <1>12, <3>1
  <2>4. CASE s.extra /\ d = "extraTax"
    <3>0. Len(T2) = 1 /\ T2[1] = d
      BY <1>3, <2>4
    <3>1. Len(T1) + 1 \in 1 .. Len(Q) /\ Q[Len(T1) + 1] = d
      BY <1>7, <1>10, <3>0 DEF Q
    <3> QED BY <1>12, <3>1
  <2> QED BY <2>1, <2>2, <2>3, <2>4 DEF Vouched
<1> QED BY <1>7, <1>8, <1>9, <1>13 DEF Q

-----------------------------------------------------------------------------
LEMMA SetupStarts == SetupInit => SetupInv
<1> SUFFICES ASSUME SetupInit PROVE SetupInv
  OBVIOUS
<1>1. Idle \in SetupRequests /\ InputFits(Idle) /\ Idle.at = "idle"
  <2>1. <<>> \in Seq(SetupEntities)
    OBVIOUS
  <2> QED BY <2>1 DEF Idle, SetupRequests, InputFits
<1>2. PlatformTypeOK /\ LeaseHasRow
  BY <1>1 DEF SetupInit, PlatformTypeOK, LeaseHasRow
<1>3. \A w \in Setters : Knows(w)
  BY <1>1 DEF SetupInit, Knows, Leased, SetupSteps, TeamPoints
<1> QED BY <1>2, <1>3 DEF SetupInit, SetupInv, KeptIsDone, DoneIsOwned, TeamAgrees

\* The row never disappears, and a name or settings it has are not replaced.
RowGrows ==
  \/ setup' = setup
  \/ /\ setup' # Nothing
     /\ setup # Nothing
          => /\ setup.teamName # Nothing => setup'.teamName = setup.teamName
             /\ setup.settings # Nothing => setup'.settings = setup.settings

\* What another request knows survives a step of this one: the row changes only
\* under the lease, which is this one's, or before there is one.
LEMMA OthersKnow ==
  ASSUME SetupInv, NEW w, NEW x \in Setters \ {w}, request'[x] = request[x],
         RowGrows, setup' = setup \/ lease.token = w \/ ~lease.live,
         lease' = lease \/ ~lease'.live \/ lease'.token = w,
         owned \subseteq owned'
  PROVE  Knows(x)'
<1>1. Holds(x)' => Holds(x) /\ setup' = setup
  BY DEF Holds, SetupInv, LeaseHasRow
<1>2. /\ request[x].at \in {"makeTeam", "keepTeam"} => request[x].input # Nothing
      /\ InputFits(request[x])
  BY SetupAssumption DEF SetupInv, PlatformTypeOK, InputFits, TeamPoints
<1>3. Knows(x)
  BY DEF SetupInv
<1>4. request[x].at \in {"makeTeam", "keepTeam"}
        => setup' # Nothing /\ setup'.teamName = request[x].input
  BY <1>2, <1>3 DEF Knows, RowGrows
<1>5. request[x].at = "commit"
        => /\ setup' # Nothing /\ setup'.settings # Nothing
           /\ \A d \in Vouched(setup'.settings) :
                d \in owned' \/ \E k \in DOMAIN request[x].todo : request[x].todo[k] = d
  <2> SUFFICES ASSUME request[x].at = "commit"
               PROVE  /\ setup' # Nothing /\ setup'.settings # Nothing
                      /\ \A d \in Vouched(setup'.settings) :
                           d \in owned' \/ \E k \in DOMAIN request[x].todo : request[x].todo[k] = d
    OBVIOUS
  <2>1. /\ setup # Nothing /\ setup.settings # Nothing
        /\ \A d \in Vouched(setup.settings) :
             d \in owned \/ \E k \in DOMAIN request[x].todo : request[x].todo[k] = d
    BY <1>3 DEF Knows
  <2>2. setup' # Nothing /\ setup'.settings = setup.settings
    BY <2>1 DEF RowGrows
  <2> QED BY <2>1, <2>2
<1>6. \A rq : rq = request'[x] => rq = request[x]
  OBVIOUS
<1>7. /\ request[x].at \in Leased /\ Holds(x)' => setup'.status # "COMPLETED"
      /\ request[x].at = "keepName" /\ Holds(x)' => setup'.teamName \in {Nothing, request[x].input}
  BY <1>1, <1>3 DEF Knows
<1> QED BY <1>4, <1>5, <1>7 DEF Knows

\* The conditions under which a step of one request keeps the invariant.
LEMMA RequestStep ==
  ASSUME SetupInv, NEW w \in Setters,
         NEW r \in SetupRequests, InputFits(r), request' = [request EXCEPT ![w] = r],
         setup' \in SetupRows \cup {Nothing}, RowGrows,
         setup' = setup \/ Holds(w) \/ setup = Nothing,
         lease' \in [token : Setters \cup {Nothing}, live : BOOLEAN],
         lease' = lease \/ ~lease'.live \/ lease'.token = w,
         lease'.live => setup' # Nothing,
         userTeam' \in TeamNames \cup {Nothing}, owned \subseteq owned',
         Knows(w)', KeptIsDone', DoneIsOwned', TeamAgrees'
  PROVE  SetupInv'
<1>1. /\ request' \in [Setters -> SetupRequests]
      /\ request'[w] = r /\ \A x \in Setters \ {w} : request'[x] = request[x]
  BY DEF SetupInv, PlatformTypeOK
<1>2. \A x \in Setters : InputFits(request'[x])
  BY <1>1 DEF SetupInv, PlatformTypeOK
<1>3. setup' = setup \/ lease.token = w \/ ~lease.live
  BY DEF SetupInv, LeaseHasRow, Holds
<1>4. \A x \in Setters \ {w} : Knows(x)'
  BY <1>1, <1>3, OthersKnow
<1>5. PlatformTypeOK' /\ LeaseHasRow'
  BY <1>1, <1>2 DEF PlatformTypeOK, LeaseHasRow, InputFits
<1> QED BY <1>4, <1>5 DEF SetupInv

\* Steps that leave the row and the team alone.
LEMMA RowSame ==
  ASSUME SetupInv, setup' = setup, userTeam' = userTeam, owned \subseteq owned'
  PROVE  /\ KeptIsDone' /\ DoneIsOwned' /\ TeamAgrees'
         /\ RowGrows /\ setup' \in SetupRows \cup {Nothing}
         /\ userTeam' \in TeamNames \cup {Nothing}
  BY DEF SetupInv, KeptIsDone, DoneIsOwned, TeamAgrees, RowGrows, PlatformTypeOK

\* A request that moves on, keeping who asked for what.
LEMMA MovesFit ==
  ASSUME PlatformTypeOK, NEW w \in Setters, request[w].at # "idle",
         NEW at \in (Leased \cup {"initialize", "enter", "finally"}),
         at \in SetupSteps => request[w].step = at,
         at \in TeamPoints => request[w].step = "TEAM",
         NEW todo \in Seq(SetupEntities),
         \/ request' = [request EXCEPT ![w].at = at, ![w].todo = todo]
         \/ request' = [request EXCEPT ![w].at = at] /\ todo = request[w].todo
         \/ request' = [request EXCEPT ![w].todo = todo] /\ at = request[w].at
  PROVE  /\ request' = [request EXCEPT ![w] = request'[w]]
         /\ request'[w] \in SetupRequests /\ InputFits(request'[w])
         /\ request'[w].at = at /\ request'[w].todo = todo
         /\ request'[w].input = request[w].input
<1>1. /\ request[w] \in SetupRequests /\ InputFits(request[w])
      /\ request \in [Setters -> SetupRequests]
  BY DEF PlatformTypeOK
<1>2. /\ request'[w].at = at /\ request'[w].todo = todo /\ request'[w].input = request[w].input
      /\ request'[w].step = request[w].step /\ request'[w].user = request[w].user
      /\ request' \in [Setters -> SetupRequests]
      /\ request' = [request EXCEPT ![w] = request'[w]]
  <2>1. CASE request' = [request EXCEPT ![w].at = at, ![w].todo = todo]
    BY <1>1, <2>1 DEF SetupRequests
  <2>2. CASE request' = [request EXCEPT ![w].at = at] /\ todo = request[w].todo
    BY <1>1, <2>2 DEF SetupRequests
  <2>3. CASE request' = [request EXCEPT ![w].todo = todo] /\ at = request[w].at
    BY <1>1, <2>3 DEF SetupRequests
  <2> QED BY <2>1, <2>2, <2>3
<1>3. InputFits(request'[w])
  <2>1. \A q : /\ q.at = at /\ q.input = request[w].input
               /\ q.step = request[w].step /\ q.user = request[w].user
               => InputFits(q)
    BY <1>1 DEF InputFits, Leased, SetupSteps, TeamPoints
  <2> QED BY <1>2, <2>1
<1> QED BY <1>2, <1>3

\* The two forms of it that the long steps below cite.
LEMMA MovesBoth ==
  ASSUME PlatformTypeOK, NEW w \in Setters, request[w].at # "idle",
         NEW at \in (Leased \cup {"initialize", "enter", "finally"}),
         at \in SetupSteps => request[w].step = at,
         at \in TeamPoints => request[w].step = "TEAM",
         NEW todo \in Seq(SetupEntities),
         request' = [request EXCEPT ![w].at = at, ![w].todo = todo]
  PROVE  /\ request' = [request EXCEPT ![w] = request'[w]]
         /\ request'[w] \in SetupRequests /\ InputFits(request'[w])
         /\ request'[w].at = at /\ request'[w].todo = todo
         /\ request'[w].input = request[w].input
  BY MovesFit

LEMMA MovesTodo ==
  ASSUME PlatformTypeOK, NEW w \in Setters, request[w].at # "idle",
         request[w].at \in (Leased \cup {"initialize", "enter", "finally"}),
         request[w].at \in SetupSteps => request[w].step = request[w].at,
         request[w].at \in TeamPoints => request[w].step = "TEAM",
         NEW todo \in Seq(SetupEntities),
         request' = [request EXCEPT ![w].todo = todo]
  PROVE  /\ request' = [request EXCEPT ![w] = request'[w]]
         /\ request'[w] \in SetupRequests /\ InputFits(request'[w])
         /\ request'[w].at = request[w].at /\ request'[w].todo = todo
         /\ request'[w].input = request[w].input
  BY MovesFit

LEMMA OutsideKnows ==
  ASSUME NEW w, request'[w].at \in {"idle", "initialize", "enter", "finally"}
  PROVE  Knows(w)'
  BY DEF Knows, Leased, SetupSteps, TeamPoints

\* A request that ends, fails or goes back to where it holds nothing.
LEMMA RequestRests ==
  ASSUME SetupInv, NEW w \in Setters,
         NEW r \in SetupRequests, InputFits(r), request' = [request EXCEPT ![w] = r],
         r.at \in {"idle", "initialize", "enter", "finally"},
         UNCHANGED <<setup, userTeam>>, owned \subseteq owned',
         \/ UNCHANGED lease
         \/ lease' = [lease EXCEPT !.live = FALSE]
  PROVE  SetupInv'
<1>1. request'[w] = r
  BY DEF SetupInv, PlatformTypeOK
<1>2. Knows(w)'
  BY <1>1, OutsideKnows
<1>3. /\ lease' \in [token : Setters \cup {Nothing}, live : BOOLEAN]
      /\ lease' = lease \/ ~lease'.live
      /\ lease'.live => setup' # Nothing
  BY DEF SetupInv, PlatformTypeOK, LeaseHasRow
<1>4. setup' = setup /\ userTeam' = userTeam
  OBVIOUS
<1> QED BY <1>2, <1>3, <1>4, RowSame, RequestStep

LEMMA GivesUp ==
  ASSUME SetupInv, NEW w \in Setters, request[w].at # "idle",
         NEW todo \in Seq(SetupEntities),
         \/ request' = [request EXCEPT ![w].at = "finally", ![w].todo = todo]
         \/ GoTo(w, "finally") /\ todo = request[w].todo,
         UNCHANGED <<setup, lease, userTeam>>, owned \subseteq owned'
  PROVE  SetupInv'
<1>1. PlatformTypeOK
  BY DEF SetupInv
<1>2. /\ request' = [request EXCEPT ![w] = request'[w]]
      /\ request'[w] \in SetupRequests /\ InputFits(request'[w]) /\ request'[w].at = "finally"
  <2>1. "finally" \notin SetupSteps /\ "finally" \notin TeamPoints
    BY DEF SetupSteps, TeamPoints
  <2> QED BY <1>1, <2>1, MovesFit DEF GoTo
<1> QED BY <1>2, RequestRests

LEMMA IdleFits == Idle \in SetupRequests /\ InputFits(Idle) /\ Idle.at = "idle"
<1>1. <<>> \in Seq(SetupEntities)
  OBVIOUS
<1> QED BY <1>1 DEF Idle, SetupRequests, InputFits

LEMMA StartsKeepSetup ==
  ASSUME SetupInv, NEW w \in Setters, NEW u \in SetupAdmins,
         \/ \E n \in TeamNames : StartTeam(w, u, n)
         \/ StartKeep(w, u)
         \/ \E s \in SetupChoices : StartSettings(w, u, s)
         \/ StartOther(w, u)
  PROVE  SetupInv'
<1>1. PICK step \in SetupSteps, input \in TeamNames \cup SetupSettings \cup {Nothing},
           at \in {"initialize", "enter"} :
         /\ Start(w, step, u, input, at)
         /\ step = "TEAM" => input \in TeamNames
         /\ step = "SETTINGS" => input \in SetupSettings
  <2>1. CASE \E n \in TeamNames : StartTeam(w, u, n)
    BY <2>1 DEF StartTeam, SetupSteps
  <2>2. CASE StartKeep(w, u)
    BY <2>2 DEF StartKeep, SetupSteps
  <2>3. CASE \E s \in SetupChoices : StartSettings(w, u, s)
    <3>1. \A s \in SetupChoices : Normalized(s) \in SetupSettings
      BY SetupAssumption DEF Normalized, SetupSettings
    <3> QED BY <2>3, <3>1 DEF StartSettings, SetupSteps
  <2>4. CASE StartOther(w, u)
    BY <2>4 DEF StartOther, SetupSteps
  <2> QED BY <2>1, <2>2, <2>3, <2>4
<1> DEFINE r == [at |-> at, step |-> step, user |-> u, input |-> input, todo |-> <<>>]
<1>2. r \in SetupRequests /\ InputFits(r) /\ r.at = at
  <2>1. <<>> \in Seq(SetupEntities)
    OBVIOUS
  <2> QED BY <1>1, <2>1 DEF SetupRequests, InputFits, SetupSteps, TeamPoints
<1>3. request' = [request EXCEPT ![w] = r] /\ UNCHANGED <<setup, lease, userTeam, owned>>
  BY <1>1 DEF Start
<1> HIDE DEF r
<1> QED BY <1>2, <1>3, RequestRests

LEMMA InitializeKeepsSetup ==
  ASSUME SetupInv, NEW w \in Setters, Initialize(w)
  PROVE  SetupInv'
<1>1. PlatformTypeOK /\ request[w].at = "initialize" /\ UNCHANGED <<lease, userTeam, owned>>
  BY DEF Initialize, SetupInv
<1>2. /\ request' = [request EXCEPT ![w] = request'[w]]
      /\ request'[w] \in SetupRequests /\ InputFits(request'[w]) /\ request'[w].at = "enter"
  <2>1. "enter" \notin SetupSteps /\ "enter" \notin TeamPoints
    BY DEF SetupSteps, TeamPoints
  <2>2. request[w].todo \in Seq(SetupEntities)
    BY <1>1 DEF PlatformTypeOK, SetupRequests
  <2> QED BY <1>1, <2>1, <2>2, MovesFit DEF GoTo, Initialize
<1>3. CASE setup # Nothing
  <2>1. UNCHANGED setup
    BY <1>3 DEF Initialize
  <2> QED BY <1>1, <1>2, <2>1, RequestRests
<1>4. CASE setup = Nothing
  <2> DEFINE row == FreshRow(request[w].user)
  <2>1. setup' = row
    BY <1>4 DEF Initialize
  <2>2. request[w].user \in SetupAdmins
    BY <1>1 DEF PlatformTypeOK, InputFits
  <2>3. row \in SetupRows
    BY <2>2 DEF FreshRow, SetupRows
  <2>4. row # Nothing
    BY <2>3, SetupAssumption
  <2>5. row.status # "COMPLETED" /\ ~row.kept
    BY DEF FreshRow
  <2>6. userTeam = Nothing /\ ~lease.live
    BY <1>4 DEF SetupInv, TeamAgrees, LeaseHasRow
  <2> HIDE DEF row
  <2>7. KeptIsDone' /\ DoneIsOwned' /\ TeamAgrees'
    BY <1>1, <2>1, <2>5, <2>6 DEF KeptIsDone, DoneIsOwned, TeamAgrees
  <2>8. RowGrows
    BY <1>4, <2>1, <2>4 DEF RowGrows
  <2>9. Knows(w)'
    BY <1>2, OutsideKnows
  <2>10. /\ lease' \in [token : Setters \cup {Nothing}, live : BOOLEAN] /\ lease' = lease
         /\ userTeam' \in TeamNames \cup {Nothing} /\ owned \subseteq owned'
         /\ setup' \in SetupRows \cup {Nothing} /\ setup' # Nothing
    BY <1>1, <2>1, <2>3, <2>4 DEF PlatformTypeOK
  <2> QED BY <1>2, <1>4, <2>7, <2>8, <2>9, <2>10, RequestStep
<1> QED BY <1>3, <1>4

LEMMA EnterKeepsSetup ==
  ASSUME SetupInv, NEW w \in Setters, Enter(w)
  PROVE  SetupInv'
<1>1. PlatformTypeOK /\ request[w].at = "enter" /\ UNCHANGED <<setup, userTeam, owned>>
  BY DEF Enter, SetupInv
<1>2. CASE ~MayEnter(w)
  <2>1. request' = [request EXCEPT ![w] = Idle] /\ UNCHANGED lease
    BY <1>2 DEF Enter
  <2> QED BY <1>1, <2>1, IdleFits, RequestRests
<1>3. CASE MayEnter(w)
  <2>1. /\ lease' = [token |-> w, live |-> TRUE] /\ GoTo(w, request[w].step)
        /\ setup # Nothing /\ setup.status # "COMPLETED"
    BY <1>3 DEF Enter, MayEnter
  <2>2. request[w].step \in SetupSteps /\ request[w].todo \in Seq(SetupEntities)
    BY <1>1 DEF PlatformTypeOK, InputFits, SetupRequests
  <2>3. request[w].step \notin TeamPoints
    BY <2>2 DEF SetupSteps, TeamPoints
  <2>4. /\ request' = [request EXCEPT ![w] = request'[w]]
        /\ request'[w] \in SetupRequests /\ InputFits(request'[w])
        /\ request'[w].at = request[w].step
    BY <1>1, <2>1, <2>2, <2>3, MovesFit DEF GoTo, Leased
  <2>5. Knows(w)'
    BY <1>1, <2>1, <2>2, <2>4 DEF Knows, SetupSteps
  <2>6. /\ lease' \in [token : Setters \cup {Nothing}, live : BOOLEAN] /\ lease'.token = w
        /\ setup' # Nothing /\ setup' = setup /\ userTeam' = userTeam
    BY <1>1, <2>1
  <2> QED BY <1>1, <2>4, <2>5, <2>6, RowSame, RequestStep
<1> QED BY <1>2, <1>3

LEMMA LeavingKeepsSetup ==
  ASSUME SetupInv, NEW w \in Setters, Leave(w) \/ SetterCrashes(w)
  PROVE  SetupInv'
<1>1. /\ request' = [request EXCEPT ![w] = Idle] /\ UNCHANGED <<setup, userTeam, owned>>
      /\ UNCHANGED lease \/ lease' = [lease EXCEPT !.live = FALSE]
  BY DEF Leave, SetterCrashes
<1> QED BY <1>1, IdleFits, RequestRests

LEMMA ExpiryKeepsSetup ==
  ASSUME SetupInv, LeaseExpires
  PROVE  SetupInv'
<1>1. /\ UNCHANGED <<setup, userTeam, owned, request>>
      /\ lease' \in [token : Setters \cup {Nothing}, live : BOOLEAN] /\ ~lease'.live
  BY DEF LeaseExpires, SetupInv, PlatformTypeOK
<1>2. Nothing \notin Setters /\ setup' = setup /\ userTeam' = userTeam
  BY <1>1, SetupAssumption
<1>3. KeptIsDone' /\ DoneIsOwned' /\ TeamAgrees' /\ RowGrows
  BY <1>1, <1>2, RowSame
<1>4. ASSUME NEW x \in Setters PROVE Knows(x)'
  <2>1. x \in Setters \ {Nothing} /\ request'[x] = request[x]
    BY <1>1, <1>2
  <2> QED BY <1>1, <1>2, <1>3, <2>1, OthersKnow
<1>5. PlatformTypeOK' /\ LeaseHasRow'
  BY <1>1 DEF SetupInv, PlatformTypeOK, LeaseHasRow, InputFits
<1> QED BY <1>3, <1>4, <1>5 DEF SetupInv

LEMMA AttachKeepsSetup ==
  ASSUME SetupInv, NEW w \in Setters, Attach(w)
  PROVE  SetupInv'
<1> DEFINE todo == request[w].todo
<1>1. /\ PlatformTypeOK /\ request[w].at # "idle" /\ todo # <<>>
      /\ request[w] \in SetupRequests /\ todo \in Seq(SetupEntities)
      /\ UNCHANGED <<setup, lease, userTeam>>
  BY DEF Attach, SetupInv, PlatformTypeOK, InputFits, SetupRequests
<1>2. /\ todo # <<>> => Tail(todo) \in Seq(SetupEntities)
      /\ <<>> \in Seq(SetupEntities)
  BY <1>1
<1>3. CASE /\ request' = [request EXCEPT ![w].todo = <<>>, ![w].at = "finally"]
           /\ owned \subseteq owned'
  <2>1. request' = [request EXCEPT ![w].at = "finally", ![w].todo = <<>>]
    BY <1>1, <1>3 DEF PlatformTypeOK, SetupRequests
  <2> QED BY <1>1, <1>2, <1>3, <2>1, GivesUp
<1>4. CASE /\ request' = [request EXCEPT ![w].todo = Tail(@)]
           /\ owned' = owned \cup {Head(todo)}
  <2>1. request[w].at \in Leased \cup {"initialize", "enter", "finally"}
    BY <1>1 DEF SetupRequests
  <2>2. InputFits(request[w])
    BY <1>1 DEF PlatformTypeOK
  <2>3. /\ request' = [request EXCEPT ![w] = request'[w]]
        /\ request'[w] \in SetupRequests /\ InputFits(request'[w])
        /\ request'[w].at = request[w].at /\ request'[w].input = request[w].input
        /\ request'[w].todo = Tail(todo)
    <3>1. request' = [request EXCEPT ![w].todo = Tail(todo)]
      BY <1>4
    <3>2. /\ request[w].at \in SetupSteps => request[w].step = request[w].at
          /\ request[w].at \in TeamPoints => request[w].step = "TEAM"
      BY <1>1, <2>2 DEF InputFits
    <3>3. Tail(todo) \in Seq(SetupEntities)
      BY <1>1, <1>2
    <3> HIDE DEF todo
    <3> QED BY <1>1, <2>1, <3>1, <3>2, <3>3, MovesTodo
  <2>4. ASSUME NEW k \in DOMAIN todo
        PROVE  todo[k] \in owned' \/ \E j \in DOMAIN Tail(todo) : Tail(todo)[j] = todo[k]
    <3>1. CASE k = 1
      BY <1>1, <1>4, <3>1
    <3>2. CASE k # 1
      <4>1. k - 1 \in DOMAIN Tail(todo) /\ Tail(todo)[k - 1] = todo[k]
        BY <1>1, <3>2
      <4> QED BY <4>1
    <3> QED BY <3>1, <3>2
  <2>5. Knows(w)
    BY DEF SetupInv
  <2>6. Holds(w)' <=> Holds(w)
    BY <1>1 DEF Holds
  <2>7. request[w].at = "commit"
          => \A d \in Vouched(setup.settings) :
               d \in owned' \/ \E k \in DOMAIN Tail(todo) : Tail(todo)[k] = d
    BY <1>4, <2>4, <2>5 DEF Knows
  <2>8. Knows(w)'
    <3>1. setup' = setup
      BY <1>1
    <3> HIDE DEF todo
    <3> QED BY <2>3, <2>5, <2>6, <2>7, <3>1 DEF Knows
  <2>9. /\ lease' \in [token : Setters \cup {Nothing}, live : BOOLEAN] /\ lease' = lease
        /\ lease'.live => setup' # Nothing
        /\ setup' = setup /\ userTeam' = userTeam /\ owned \subseteq owned'
    BY <1>1, <1>4 DEF PlatformTypeOK, SetupInv, LeaseHasRow
  <2> QED BY <2>3, <2>8, <2>9, RowSame, RequestStep
<1> QED BY <1>1, <1>3, <1>4 DEF Attach

-----------------------------------------------------------------------------
(* The transactions of a request.                                            *)

\* A transaction that is refused.
LEMMA RefusedKeepsSetup ==
  ASSUME SetupInv, NEW w \in Setters, request[w].at # "idle", GoTo(w, "finally"),
         UNCHANGED <<setup, lease, userTeam, owned>>
  PROVE  SetupInv'
<1>1. request[w].todo \in Seq(SetupEntities)
  BY DEF SetupInv, PlatformTypeOK, SetupRequests
<1> QED BY <1>1, GivesUp

\* A transaction that is accepted: what the row may become.
LEMMA AcceptedKeepsSetup ==
  ASSUME SetupInv, NEW w \in Setters, Holds(w),
         request' = [request EXCEPT ![w] = request'[w]],
         request'[w] \in SetupRequests, InputFits(request'[w]), NEW at, request'[w].at = at,
         request'[w].input = request[w].input,
         UNCHANGED <<lease, userTeam, owned>>,
         NEW row \in SetupRows, setup' = row,
         setup.teamName # Nothing => row.teamName = setup.teamName,
         setup.settings # Nothing => row.settings = setup.settings,
         row.kept => row.status = "COMPLETED" /\ row.teamName = Nothing,
         row.status = "COMPLETED" /\ ~row.kept
           => row.settings # Nothing /\ Vouched(row.settings) \subseteq owned,
         at \in Leased => row.status # "COMPLETED",
         at = "keepName" => row.teamName \in {Nothing, request[w].input},
         at \in {"makeTeam", "keepTeam"} => row.teamName = request[w].input,
         at # "commit"
  PROVE  SetupInv'
<1>1. PlatformTypeOK /\ setup # Nothing /\ row # Nothing
  BY SetupAssumption DEF SetupInv, Holds
<1>2. /\ request' = [request EXCEPT ![w] = request'[w]]
      /\ request'[w] \in SetupRequests /\ InputFits(request'[w])
      /\ request'[w].at = at /\ request'[w].input = request[w].input
  OBVIOUS
<1>3. RowGrows
  BY <1>1 DEF RowGrows
<1>4. Knows(w)'
  BY <1>1, <1>2 DEF Knows
<1>5. KeptIsDone' /\ DoneIsOwned'
  BY DEF KeptIsDone, DoneIsOwned
<1>6. TeamAgrees'
  <2>1. TeamAgrees /\ KeptIsDone
    BY DEF SetupInv
  <2>2. userTeam # Nothing => row.teamName = userTeam
    BY <2>1 DEF TeamAgrees
  <2> QED BY <1>1, <2>2 DEF TeamAgrees
<1>7. /\ lease' \in [token : Setters \cup {Nothing}, live : BOOLEAN] /\ lease' = lease
      /\ lease'.live => setup' # Nothing
      /\ userTeam' \in TeamNames \cup {Nothing} /\ owned \subseteq owned'
      /\ setup' \in SetupRows \cup {Nothing}
  BY <1>1 DEF PlatformTypeOK
<1> QED BY <1>2, <1>3, <1>4, <1>5, <1>6, <1>7, RequestStep

\* Every transaction but the last two keeps the status and what it found there.
LEMMA EditsKeepSetup ==
  ASSUME SetupInv, NEW w \in Setters,
         CheckName(w) \/ KeepName(w) \/ KeepTeam(w) \/ AccountReady(w)
  PROVE  SetupInv'
<1>1. /\ PlatformTypeOK /\ request[w].at # "idle" /\ request[w].todo = <<>>
      /\ request[w] \in SetupRequests /\ InputFits(request[w])
      /\ <<>> \in Seq(SetupEntities) /\ UNCHANGED <<lease, userTeam, owned>>
  <2>1. <<>> \in Seq(SetupEntities)
    OBVIOUS
  <2> QED BY <2>1 DEF SetupInv, PlatformTypeOK, CheckName, KeepName, KeepTeam, AccountReady, At, Edit
<1>2. Knows(w) /\ KeptIsDone
  BY DEF SetupInv
<1>3. CASE GoTo(w, "finally") /\ UNCHANGED setup
  BY <1>1, <1>3, RefusedKeepsSetup
<1>4. ASSUME Holds(w), setup \in SetupRows, setup.status # "COMPLETED", ~setup.kept,
             NEW at \in (Leased \cup {"initialize", "enter", "finally"}), GoTo(w, at),
             at \notin SetupSteps, at \in TeamPoints => request[w].step = "TEAM",
             setup' \in SetupRows,
             setup'.status = setup.status, setup'.kept = setup.kept,
             setup'.settings = setup.settings,
             setup.teamName # Nothing => setup'.teamName = setup.teamName,
             at = "keepName" => setup'.teamName \in {Nothing, request[w].input},
             at \in {"makeTeam", "keepTeam"} => setup'.teamName = request[w].input,
             at # "commit"
      PROVE  SetupInv'
  <2>1. PICK row \in SetupRows : setup' = row
    BY <1>4
  <2>2. /\ request' = [request EXCEPT ![w] = request'[w]]
        /\ request'[w] \in SetupRequests /\ InputFits(request'[w])
        /\ request'[w].at = at /\ request'[w].input = request[w].input
    <3>1. request' = [request EXCEPT ![w].at = at] /\ request[w].todo \in Seq(SetupEntities)
      BY <1>1, <1>4 DEF GoTo
    <3> QED BY <1>1, <1>4, <3>1, MovesFit
  <2>3. /\ setup.teamName # Nothing => row.teamName = setup.teamName
        /\ setup.settings # Nothing => row.settings = setup.settings
        /\ row.kept => row.status = "COMPLETED" /\ row.teamName = Nothing
        /\ ~(row.status = "COMPLETED")
        /\ at = "keepName" => row.teamName \in {Nothing, request[w].input}
        /\ at \in {"makeTeam", "keepTeam"} => row.teamName = request[w].input
    BY <1>4, <2>1
  <2> QED BY <1>1, <1>4, <2>1, <2>2, <2>3, AcceptedKeepsSetup
<1>5. CASE Holds(w) /\ ~(GoTo(w, "finally") /\ UNCHANGED setup)
  <2>1. setup \in SetupRows /\ setup.status # "COMPLETED" /\ ~setup.kept
    <3>1. request[w].at \in Leased
      BY <1>1 DEF CheckName, KeepName, KeepTeam, AccountReady, At, Leased, SetupSteps, TeamPoints
    <3> QED BY <1>1, <1>2, <1>5, <3>1 DEF Holds, PlatformTypeOK, Knows, KeptIsDone
  <2>2. CASE CheckName(w)
    <3>1. /\ setup.teamName \in {Nothing, request[w].input}
          /\ setup' = setup /\ GoTo(w, "keepName") /\ request[w].step = "TEAM"
      BY <1>1, <1>5, <2>2 DEF CheckName, Edit, At, InputFits, SetupSteps
    <3>2. "keepName" \in Leased /\ "keepName" \notin SetupSteps
      BY DEF Leased, SetupSteps, TeamPoints
    <3> QED BY <1>4, <1>5, <2>1, <3>1, <3>2
  <2>3. CASE KeepName(w)
    <3>1. /\ setup' = [setup EXCEPT !.teamName = request[w].input]
          /\ GoTo(w, "makeTeam") /\ request[w].at = "keepName"
      BY <1>5, <2>3 DEF KeepName, Edit, At
    <3>2. /\ request[w].step = "TEAM" /\ request[w].input \in TeamNames
          /\ setup.teamName \in {Nothing, request[w].input}
      BY <1>1, <1>2, <1>5, <3>1 DEF InputFits, TeamPoints, Knows
    <3>3. setup' \in SetupRows
      BY <2>1, <3>1, <3>2 DEF SetupRows
    <3>4. /\ setup'.status = setup.status /\ setup'.kept = setup.kept
          /\ setup'.settings = setup.settings /\ setup'.teamName = request[w].input
      BY <2>1, <3>1 DEF SetupRows
    <3>5. "makeTeam" \in Leased /\ "makeTeam" \notin SetupSteps
      BY DEF Leased, SetupSteps, TeamPoints
    <3> QED BY <1>4, <1>5, <2>1, <3>1, <3>2, <3>3, <3>4, <3>5
  <2>4. CASE KeepTeam(w)
    <3>1. setup' = [setup EXCEPT !.teamId = TRUE] /\ GoTo(w, "finally")
      BY <1>5, <2>4 DEF KeepTeam, Edit
    <3>2. setup' \in SetupRows
      BY <2>1, <3>1 DEF SetupRows
    <3>3. /\ setup'.status = setup.status /\ setup'.kept = setup.kept
          /\ setup'.settings = setup.settings /\ setup'.teamName = setup.teamName
      BY <2>1, <3>1 DEF SetupRows
    <3>4. "finally" \notin SetupSteps /\ "finally" \notin TeamPoints
      BY DEF SetupSteps, TeamPoints
    <3> QED BY <1>4, <1>5, <2>1, <3>1, <3>2, <3>3, <3>4
  <2>5. CASE AccountReady(w)
    <3>1. /\ \/ setup' = [setup EXCEPT !.sellerReady = TRUE]
             \/ setup' = [setup EXCEPT !.platformReady = TRUE]
          /\ GoTo(w, "finally")
      BY <1>5, <2>5 DEF AccountReady, Edit
    <3>2. setup' \in SetupRows
      BY <2>1, <3>1 DEF SetupRows
    <3>3. /\ setup'.status = setup.status /\ setup'.kept = setup.kept
          /\ setup'.settings = setup.settings /\ setup'.teamName = setup.teamName
      BY <2>1, <3>1 DEF SetupRows
    <3>4. "finally" \notin SetupSteps /\ "finally" \notin TeamPoints
      BY DEF SetupSteps, TeamPoints
    <3> QED BY <1>4, <1>5, <2>1, <3>1, <3>2, <3>3, <3>4
  <2> QED BY <2>2, <2>3, <2>4, <2>5
<1> QED BY <1>3, <1>5 DEF CheckName, KeepName, KeepTeam, AccountReady, Edit

\* The call that cannot be undone is made for the name the row keeps.
LEMMA MakeTeamKeepsSetup ==
  ASSUME SetupInv, NEW w \in Setters, MakeTeam(w)
  PROVE  SetupInv'
<1>1. /\ PlatformTypeOK /\ request[w].at = "makeTeam" /\ request[w].todo \in Seq(SetupEntities)
      /\ InputFits(request[w]) /\ UNCHANGED <<setup, lease, owned>>
      /\ Knows(w) /\ KeptIsDone /\ DoneIsOwned /\ TeamAgrees
  BY DEF SetupInv, PlatformTypeOK, SetupRequests, MakeTeam, At
<1>2. /\ setup # Nothing /\ setup.teamName = request[w].input
      /\ request[w].input \in TeamNames /\ request[w].step = "TEAM"
  BY <1>1 DEF Knows, InputFits, TeamPoints
<1>3. ~setup.kept
  BY <1>1, <1>2, SetupAssumption DEF KeptIsDone
<1>4. userTeam' \in TeamNames \cup {Nothing} /\ TeamAgrees'
  BY <1>1, <1>2, <1>3 DEF MakeTeam, PlatformTypeOK, TeamAgrees
<1>5. PICK at \in {"keepTeam", "finally"} : GoTo(w, at)
  BY DEF MakeTeam
<1>6. /\ request' = [request EXCEPT ![w] = request'[w]]
      /\ request'[w] \in SetupRequests /\ InputFits(request'[w])
      /\ request'[w].at = at /\ request'[w].input = request[w].input
  <2>1. at \in Leased \cup {"finally"} /\ at \notin SetupSteps
    BY <1>5 DEF Leased, SetupSteps, TeamPoints
  <2> QED BY <1>1, <1>2, <1>5, <2>1, MovesFit DEF GoTo
<1>7. Knows(w)'
  <2>1. request[w].at \in Leased
    BY <1>1 DEF Leased, TeamPoints
  <2>2. Holds(w)' <=> Holds(w)
    BY <1>1 DEF Holds
  <2>3. request'[w].at # "keepName" /\ request'[w].at # "commit"
    BY <1>5, <1>6
  <2> QED BY <1>1, <1>2, <1>5, <1>6, <2>1, <2>2, <2>3 DEF Knows
<1>8. /\ KeptIsDone' /\ DoneIsOwned' /\ RowGrows /\ setup' = setup
      /\ setup' \in SetupRows \cup {Nothing}
      /\ lease' \in [token : Setters \cup {Nothing}, live : BOOLEAN] /\ lease' = lease
      /\ lease'.live => setup' # Nothing
      /\ owned \subseteq owned'
  BY <1>1, <1>2 DEF KeptIsDone, DoneIsOwned, RowGrows, PlatformTypeOK
<1> QED BY <1>4, <1>6, <1>7, <1>8, RequestStep

LEMMA SavesKeepSetup ==
  ASSUME SetupInv, NEW w \in Setters, SaveAccount(w) \/ Configure(w)
  PROVE  SetupInv'
<1>1. /\ PlatformTypeOK /\ request[w].at # "idle" /\ request[w].at \in SetupSteps
      /\ request[w] \in SetupRequests /\ InputFits(request[w])
      /\ UNCHANGED <<lease, userTeam, owned>>
  BY DEF SetupInv, PlatformTypeOK, SaveAccount, Configure, At, Edit, SetupSteps
<1>2. Knows(w) /\ KeptIsDone
  BY DEF SetupInv
<1>3. CASE GoTo(w, "finally") /\ UNCHANGED setup
  BY <1>1, <1>3, RefusedKeepsSetup
<1>4. CASE Holds(w) /\ ~(GoTo(w, "finally") /\ UNCHANGED setup)
  <2>1. setup \in SetupRows /\ setup.status # "COMPLETED" /\ ~setup.kept
    BY <1>1, <1>2, <1>4 DEF Holds, PlatformTypeOK, Knows, KeptIsDone, Leased
  <2>2. CASE SaveAccount(w)
    <3>1. /\ \/ setup' = [setup EXCEPT !.sellerSaved = TRUE]
             \/ setup' = [setup EXCEPT !.platformSaved = TRUE]
          /\ \E seller \in BOOLEAN :
               request' = [request EXCEPT ![w].at = "accountReady", ![w].todo = AccountOf(seller)]
      BY <1>4, <2>2 DEF SaveAccount, Edit
    <3>2. setup' \in SetupRows
      BY <2>1, <3>1 DEF SetupRows
    <3>3. /\ setup'.status = setup.status /\ setup'.kept = setup.kept
          /\ setup'.settings = setup.settings /\ setup'.teamName = setup.teamName
      BY <2>1, <3>1 DEF SetupRows
    <3>4. \A seller \in BOOLEAN : AccountOf(seller) \in Seq(SetupEntities)
      <4>1. /\ <<"sellerAddress", "sellerAccount">> \in Seq(SetupEntities)
            /\ <<"address", "account">> \in Seq(SetupEntities)
        BY DEF SetupEntities
      <4> QED BY <4>1 DEF AccountOf
    <3>5. "accountReady" \in Leased /\ "accountReady" \notin SetupSteps /\ "accountReady" \notin TeamPoints
      BY DEF Leased, SetupSteps, TeamPoints
    <3>6. /\ request' = [request EXCEPT ![w] = request'[w]]
          /\ request'[w] \in SetupRequests /\ InputFits(request'[w])
          /\ request'[w].at = "accountReady" /\ request'[w].input = request[w].input
      BY <1>1, <3>1, <3>4, <3>5, MovesFit
    <3>7. PICK row \in SetupRows : setup' = row
      BY <3>2
    <3> QED BY <1>1, <1>4, <2>1, <3>3, <3>6, <3>7, AcceptedKeepsSetup
  <2>3. CASE Configure(w)
    <3>1. /\ setup' = [setup EXCEPT !.settings = request[w].input]
          /\ request' = [request EXCEPT ![w].at = "finally", ![w].todo = TaxesOf(request[w].input)]
          /\ setup.settings \in {Nothing, request[w].input} /\ request[w].at = "SETTINGS"
      BY <1>4, <2>3 DEF Configure, Edit, At
    <3>2. request[w].input \in SetupSettings
      BY <1>1, <3>1 DEF InputFits
    <3>3. setup' \in SetupRows
      BY <2>1, <3>1, <3>2 DEF SetupRows
    <3>4. /\ setup'.status = setup.status /\ setup'.kept = setup.kept
          /\ setup'.settings = request[w].input /\ setup'.teamName = setup.teamName
      BY <2>1, <3>1 DEF SetupRows
    <3>5. "finally" \notin SetupSteps /\ "finally" \notin TeamPoints /\ "finally" \notin Leased
      BY DEF Leased, SetupSteps, TeamPoints
    <3>6. /\ request' = [request EXCEPT ![w] = request'[w]]
          /\ request'[w] \in SetupRequests /\ InputFits(request'[w])
          /\ request'[w].at = "finally" /\ request'[w].input = request[w].input
      BY <1>1, <3>1, <3>2, <3>5, DutiesAreVouched, MovesFit, ZenonT(30)
    <3>7. PICK row \in SetupRows : setup' = row
      BY <3>3
    <3>8. /\ row.status # "COMPLETED" /\ ~row.kept /\ row.teamName = setup.teamName
          /\ setup.settings # Nothing => row.settings = setup.settings
      BY <2>1, <3>1, <3>4, <3>7
    <3> QED BY <1>1, <1>4, <3>5, <3>6, <3>7, <3>8, AcceptedKeepsSetup
  <2> QED BY <2>2, <2>3
<1> QED BY <1>3, <1>4 DEF SaveAccount, Configure, Edit

LEMMA ReviewKeepsSetup ==
  ASSUME SetupInv, NEW w \in Setters, Review(w)
  PROVE  SetupInv'
<1>1. /\ PlatformTypeOK /\ request[w].at = "COMPLETE" /\ UNCHANGED <<setup, lease, userTeam, owned>>
  BY DEF SetupInv, Review, At
<1>2. CASE GoTo(w, "finally")
  BY <1>1, <1>2, RefusedKeepsSetup
<1>3. CASE /\ Holds(w) /\ CurrentStep = "REVIEW"
           /\ request' = [request EXCEPT ![w].at = "commit", ![w].todo = Duties(setup.settings)]
  <2>1. setup \in SetupRows /\ setup # Nothing
    BY <1>1, <1>3 DEF PlatformTypeOK, Holds
  <2>2. setup.status # "COMPLETED" /\ setup.settings # Nothing
    BY <1>3, <2>1 DEF CurrentStep, SetupRows
  <2>3. setup.settings \in SetupSettings
    BY <2>1, <2>2 DEF SetupRows
  <2>4. /\ Duties(setup.settings) \in Seq(SetupEntities)
        /\ \A d \in Vouched(setup.settings) :
             \E k \in DOMAIN Duties(setup.settings) : Duties(setup.settings)[k] = d
    BY <2>3, DutiesAreVouched
  <2>5. "commit" \in Leased /\ "commit" \notin SetupSteps /\ "commit" \notin TeamPoints
    BY DEF Leased, SetupSteps, TeamPoints
  <2>6. /\ request' = [request EXCEPT ![w] = request'[w]]
        /\ request'[w] \in SetupRequests /\ InputFits(request'[w])
        /\ request'[w].at = "commit" /\ request'[w].todo = Duties(setup.settings)
    <3>1. PICK todo \in Seq(SetupEntities) : todo = Duties(setup.settings)
      BY <2>4
    <3>2. request' = [request EXCEPT ![w].at = "commit", ![w].todo = todo]
      BY <1>3, <3>1
    <3>3. "commit" \in Leased \cup {"initialize", "enter", "finally"} /\ request[w].at # "idle"
      BY <1>1, <2>5
    <3>4. /\ request' = [request EXCEPT ![w] = request'[w]]
          /\ request'[w] \in SetupRequests /\ InputFits(request'[w])
          /\ request'[w].at = "commit" /\ request'[w].todo = todo
          /\ request'[w].input = request[w].input
      BY <1>1, <2>5, <3>2, <3>3, MovesBoth
    <3> QED BY <3>1, <3>4
  <2>7. Knows(w)'
    <3>1. setup' = setup
      BY <1>1
    <3> QED BY <2>1, <2>2, <2>4, <2>6, <3>1 DEF Knows
  <2>8. /\ lease' \in [token : Setters \cup {Nothing}, live : BOOLEAN] /\ lease' = lease
        /\ lease'.live => setup' # Nothing
        /\ setup' = setup /\ userTeam' = userTeam /\ owned \subseteq owned'
    BY <1>1, <2>1 DEF PlatformTypeOK
  <2> QED BY <2>6, <2>7, <2>8, RowSame, RequestStep
<1> QED BY <1>2, <1>3 DEF Review

LEMMA EndsKeepSetup ==
  ASSUME SetupInv, NEW w \in Setters, Complete(w) \/ KeepExisting(w)
  PROVE  SetupInv'
<1>1. /\ PlatformTypeOK /\ request[w].at # "idle" /\ request[w].at \in {"commit", "KEEP"}
      /\ request[w] \in SetupRequests /\ request[w].todo = <<>>
      /\ UNCHANGED <<lease, userTeam, owned>> /\ GoTo(w, "finally")
  BY DEF SetupInv, PlatformTypeOK, Complete, KeepExisting, At, Edit
<1>2. Knows(w) /\ KeptIsDone
  BY DEF SetupInv
<1>3. CASE UNCHANGED setup
  BY <1>1, <1>3, RefusedKeepsSetup
<1>4. /\ request' = [request EXCEPT ![w] = request'[w]]
      /\ request'[w] \in SetupRequests /\ InputFits(request'[w])
      /\ request'[w].at = "finally" /\ request'[w].input = request[w].input
  <2>1. "finally" \notin SetupSteps /\ "finally" \notin TeamPoints
    BY DEF SetupSteps, TeamPoints
  <2>2. request[w].todo \in Seq(SetupEntities)
    BY <1>1 DEF SetupRequests
  <2> QED BY <1>1, <2>1, <2>2, MovesFit DEF GoTo
<1>5. CASE Holds(w) /\ setup' # setup
  <2>1. setup \in SetupRows /\ setup # Nothing /\ setup.status # "COMPLETED" /\ ~setup.kept
    BY <1>1, <1>2, <1>5 DEF Holds, PlatformTypeOK, Knows, KeptIsDone, Leased, SetupSteps
  <2>2. "finally" \notin Leased
    BY DEF Leased, SetupSteps, TeamPoints
  <2>3. CASE Complete(w)
    <3>1. setup' = [setup EXCEPT !.status = "COMPLETED"] /\ request[w].at = "commit"
      BY <1>5, <2>3 DEF Complete, Edit, At
    <3>2. setup' \in SetupRows
      BY <2>1, <3>1 DEF SetupRows
    <3>3. /\ setup'.status = "COMPLETED" /\ setup'.kept = setup.kept
          /\ setup'.settings = setup.settings /\ setup'.teamName = setup.teamName
      BY <2>1, <3>1 DEF SetupRows
    <3>4. setup.settings # Nothing /\ Vouched(setup.settings) \subseteq owned
      BY <1>1, <1>2, <3>1 DEF Knows
    <3>5. PICK row \in SetupRows : setup' = row
      BY <3>2
    <3>6. row.settings = setup.settings /\ ~row.kept /\ row.teamName = setup.teamName
      BY <2>1, <3>3, <3>5
    <3> QED BY <1>1, <1>4, <1>5, <2>2, <3>4, <3>5, <3>6, AcceptedKeepsSetup
  <2>4. CASE KeepExisting(w)
    <3>1. /\ setup' = [setup EXCEPT !.platformSaved = TRUE, !.status = "COMPLETED", !.kept = TRUE]
          /\ setup.teamName = Nothing
      BY <1>5, <2>4 DEF KeepExisting, Edit
    <3>2. setup' \in SetupRows
      BY <2>1, <3>1 DEF SetupRows
    <3>3. /\ setup'.status = "COMPLETED" /\ setup'.kept
          /\ setup'.settings = setup.settings /\ setup'.teamName = Nothing
      BY <2>1, <3>1 DEF SetupRows
    <3>4. PICK row \in SetupRows : setup' = row
      BY <3>2
    <3>5. row.settings = setup.settings /\ row.kept /\ row.status = "COMPLETED" /\ row.teamName = Nothing
      BY <2>1, <3>3, <3>4
    <3> QED BY <1>1, <1>4, <1>5, <2>2, <3>1, <3>4, <3>5, AcceptedKeepsSetup
  <2> QED BY <2>3, <2>4
<1> QED BY <1>3, <1>5 DEF Complete, KeepExisting, Edit

LEMMA SetupStep == SetupInv /\ [SetupNext]_suVars => SetupInv'
<1> SUFFICES ASSUME SetupInv, [SetupNext]_suVars PROVE SetupInv'
  OBVIOUS
<1>1. ASSUME UNCHANGED <<setup, lease, userTeam, owned, request>> PROVE SetupInv'
  BY <1>1 DEF SetupInv, PlatformTypeOK, LeaseHasRow, Knows, Holds, KeptIsDone, DoneIsOwned,
              TeamAgrees, InputFits
<1>2. CASE UNCHANGED suVars \/ SetBilling
  BY <1>1, <1>2 DEF suVars, SetBilling
<1>3. CASE LeaseExpires
  BY <1>3, ExpiryKeepsSetup
<1>4. CASE \E w \in Setters : \E u \in SetupAdmins :
             \/ \E n \in TeamNames : StartTeam(w, u, n)
             \/ StartKeep(w, u)
             \/ \E s \in SetupChoices : StartSettings(w, u, s)
             \/ StartOther(w, u)
  BY <1>4, StartsKeepSetup
<1>5. ASSUME NEW w \in Setters,
             Initialize(w) \/ Enter(w) \/ Leave(w) \/ SetterCrashes(w) \/ Attach(w)
      PROVE  SetupInv'
  BY <1>5, InitializeKeepsSetup, EnterKeepsSetup, LeavingKeepsSetup, AttachKeepsSetup
<1>6. ASSUME NEW w \in Setters,
             \/ CheckName(w) \/ KeepName(w) \/ MakeTeam(w) \/ KeepTeam(w)
             \/ SaveAccount(w) \/ AccountReady(w) \/ Configure(w)
             \/ Review(w) \/ Complete(w) \/ KeepExisting(w)
      PROVE  SetupInv'
  BY <1>6, EditsKeepSetup, MakeTeamKeepsSetup, SavesKeepSetup, ReviewKeepsSetup, EndsKeepSetup
<1> QED BY <1>2, <1>3, <1>4, <1>5, <1>6 DEF SetupNext

LEMMA SetupInvHolds == SetupSpec => []SetupInv
  BY SetupStarts, SetupStep, PTL DEF SetupSpec

\* The team of the users service bears the name the row remembers, and an
\* installation that was kept has none beside it, however many requests run, crash,
\* or outlive their lease (team, keepExisting, lock).
THEOREM TeamAgreesHolds == SetupSpec => []TeamAgrees
<1>1. SetupInv => TeamAgrees
  BY DEF SetupInv
<1> QED BY <1>1, SetupInvHolds, PTL

\* What a completed setup vouches for is the team's, whatever calls were lost: the
\* completion attaches all of it again before it commits (complete).
THEOREM CompletedIsOwnedHolds == SetupSpec => []CompletedIsOwned
<1>1. SetupInv => CompletedIsOwned
  BY DEF SetupInv, DoneIsOwned, CompletedIsOwned, Vouched
<1> QED BY <1>1, SetupInvHolds, PTL

-----------------------------------------------------------------------------
(* The cleanup of old payments.                                              *)

CleanRows ==
  [table : LedgerTables \cup ReportTables, payment : CleanPayments \cup {Unset},
   report : CleanReports \cup {Unset}, late : BOOLEAN]

CleanRequests ==
  [at : {"idle", "dump", "preview", "reports", "ledger", "payments"},
   archive : Archives \cup {Unset}, before : Cutoffs \cup {Unset},
   payments : SUBSET CleanPayments, reports : SUBSET (CleanReports \cup {Unset}),
   doomed : SUBSET (CleanRows \cup CleanPayments)]

CleanTypeOK ==
  /\ stored \in [CleanPayments -> Nat]
  /\ rows \subseteq CleanRows
  /\ \A row \in rows : /\ row.payment # Unset => row.table \in LedgerTables \cup {"relation"}
                       /\ row.report # Unset => row.table \in ReportTables
  /\ cleaner \in [Cleaners -> CleanRequests]

\* What a cleanup has chosen, and what its transaction is going to delete: every
\* row it must delete but those written since it chose.
Dooms(c) ==
  /\ \A p \in cleaner[c].payments : stored[p] # 0 \/ \E d \in deleted : d[1] = p
  /\ cleaner[c].at \in {"ledger", "payments"}
       => \A row \in rows : /\ row.table \in {"tax group", "expense"}
                            /\ row.report \in cleaner[c].reports
                            /\ ~row.late
                            => row \in cleaner[c].doomed
  /\ cleaner[c].at = "payments"
       => \A row \in rows : /\ row.table \in LedgerTables
                            /\ row.payment \in cleaner[c].payments
                            /\ ~row.late
                            => row \in cleaner[c].doomed

CleanInv == CleanTypeOK /\ NothingDangling /\ \A c \in Cleaners : Dooms(c)

-----------------------------------------------------------------------------
\* The order of creation goes up: a payment is never created with number 0.
LEMMA OrderGoesUp ==
  ASSUME NEW f \in [CleanPayments -> Nat]
  PROVE  Max0({f[q] : q \in CleanPayments}) \in Nat
<1> DEFINE S == {f[q] : q \in CleanPayments}
<1>1. ASSUME S # {} PROVE \E n \in S : \A k \in S : k <= n
  <2>1. IsFiniteSet(CleanPayments)
    BY CleanAssumption
  <2>2. SumFunctionOnSet(f, CleanPayments) \in Nat
    BY <2>1, SumNat
  <2>3. ASSUME NEW q \in CleanPayments PROVE f[q] <= SumFunctionOnSet(f, CleanPayments)
    BY <2>1, SumCovers
  <2>4. S \subseteq Nat /\ \A k \in S : k <= SumFunctionOnSet(f, CleanPayments)
    BY <2>3
  <2> HIDE DEF S
  <2> QED BY <1>1, <2>2, <2>4, GreatestNatural
<1>2. CASE S = {}
  BY <1>2 DEF Max0
<1>3. CASE S # {}
  <2>1. Max0(S) \in S
    BY <1>1, <1>3 DEF Max0
  <2> QED BY <2>1
<1> QED BY <1>2, <1>3

LEMMA CleanStarts == CleanInit => CleanInv
  BY DEF CleanInit, CleanInv, CleanTypeOK, NothingDangling, Dooms, NoCleaner, CleanRequests

\* Rows are added that point at what there is, late if a cleanup has chosen it.
LEMMA RowsAdded ==
  ASSUME CleanInv, NEW new, rows' = rows \cup new, new \subseteq CleanRows,
         stored' \in [CleanPayments -> Nat], \A p \in Stored : stored'[p] # 0,
         known \subseteq known', UNCHANGED <<cleaner, deleted>>,
         \A row \in new :
           /\ row.payment # Unset
                => /\ row.table \in LedgerTables \cup {"relation"}
                   /\ row.payment \in CleanPayments /\ stored'[row.payment] # 0
           /\ row.report # Unset
                => row.table \in ReportTables /\ row.report \in known'
           /\ row.table \in {"tax group", "expense"} /\ ~row.late => ~ChosenReport(row.report)
           /\ row.table \in LedgerTables /\ ~row.late => ~ChosenPayment(row.payment)
  PROVE  CleanInv'
<1>1. CleanTypeOK'
  BY DEF CleanInv, CleanTypeOK
<1>2. ASSUME NEW row \in rows', Dangling(row)' PROVE row.late
  <2>1. CASE row \in rows
    <3>1. Dangling(row)
      <4>1. row.payment # Unset => row.payment \in CleanPayments
        BY <2>1 DEF CleanInv, CleanTypeOK, CleanRows
      <4> QED BY <1>2, <4>1 DEF Dangling, Stored
    <3> QED BY <2>1, <3>1 DEF CleanInv, NothingDangling
  <2>2. CASE row \in new
    BY <1>2, <2>2 DEF Dangling, Stored
  <2> QED BY <2>1, <2>2
<1>3. ASSUME NEW c \in Cleaners PROVE Dooms(c)'
  <2>1. Dooms(c) /\ cleaner[c].payments \subseteq CleanPayments
    BY DEF CleanInv, CleanTypeOK, CleanRequests
  <2>2. \A p \in cleaner[c].payments : stored'[p] # 0 \/ \E d \in deleted' : d[1] = p
    BY <2>1 DEF Dooms, Stored
  <2>3. \A row \in new : /\ row.table \in {"tax group", "expense"} /\ ~row.late
                            => row.report \notin cleaner[c].reports
                         /\ row.table \in LedgerTables /\ ~row.late
                            => row.payment \notin cleaner[c].payments
    BY <2>1 DEF ChosenPayment, ChosenReport
  <2> QED BY <2>1, <2>2, <2>3 DEF Dooms
<1> QED BY <1>1, <1>2, <1>3 DEF CleanInv, NothingDangling

LEMMA RowFits ==
  ASSUME NEW t \in LedgerTables \cup ReportTables, NEW p \in CleanPayments \cup {Unset},
         NEW r \in CleanReports \cup {Unset}, NEW late \in BOOLEAN
  PROVE  /\ Row(t, p, r, late) \in CleanRows
         /\ Row(t, p, r, late).table = t /\ Row(t, p, r, late).payment = p
         /\ Row(t, p, r, late).report = r /\ Row(t, p, r, late).late = late
  BY DEF Row, CleanRows

LEMMA TrafficKeepsClean ==
  ASSUME CleanInv, NEW p \in CleanPayments,
         \/ CreatePayment(p)
         \/ \E what \in DOMAIN Written : WriteRows(p, what)
         \/ \E r \in CleanReports : Digest(p, r)
  PROVE  CleanInv'
<1>1. CleanTypeOK
  BY DEF CleanInv
<1>2. CASE CreatePayment(p)
  <2> DEFINE new == {Row(t, p, Unset, FALSE) : t \in {"item", "tax", "operation", "event"}}
             m == Max0({stored[q] : q \in CleanPayments})
  <2>1. m \in Nat
    BY <1>1, OrderGoesUp DEF CleanTypeOK
  <2> HIDE DEF m
  <2>2. /\ stored' = [stored EXCEPT ![p] = m + 1] /\ rows' = rows \cup new
        /\ UNCHANGED <<known, cleaner, deleted>>
    BY <1>2 DEF CreatePayment, m
  <2>3. /\ stored' \in [CleanPayments -> Nat] /\ stored'[p] # 0
        /\ \A q \in Stored : stored'[q] # 0
    BY <1>1, <2>1, <2>2 DEF CleanTypeOK, Stored
  <2>4. ~ChosenPayment(p)
    BY <1>2 DEF CreatePayment, ChosenPayment, CleanInv, Dooms
  <2>5. \A row \in new : /\ row.payment = p /\ row.report = Unset /\ row.late = FALSE
                         /\ row.table \in {"item", "tax", "operation", "event"}
                         /\ row \in CleanRows
    <3>1. {"item", "tax", "operation", "event"} \subseteq LedgerTables
      BY DEF LedgerTables
    <3>2. \A t \in {"item", "tax", "operation", "event"} :
            /\ Row(t, p, Unset, FALSE) \in CleanRows
            /\ Row(t, p, Unset, FALSE).table = t /\ Row(t, p, Unset, FALSE).payment = p
            /\ Row(t, p, Unset, FALSE).report = Unset /\ Row(t, p, Unset, FALSE).late = FALSE
      BY <3>1 DEF Row, CleanRows
    <3>3. \A row \in new : \E t \in {"item", "tax", "operation", "event"} :
            row = Row(t, p, Unset, FALSE)
      OBVIOUS
    <3> HIDE DEF new
    <3> QED BY <3>2, <3>3
  <2>6. \A row \in new : row.table \in LedgerTables /\ row.table \notin {"tax group", "expense"}
    BY <2>5 DEF LedgerTables
  <2> HIDE DEF new
  <2>7. new \subseteq CleanRows
    BY <2>5
  <2> QED BY <2>2, <2>3, <2>4, <2>5, <2>6, <2>7, RowsAdded
<1>3. ASSUME NEW what \in DOMAIN Written, WriteRows(p, what) PROVE CleanInv'
  <2> DEFINE new == {Row(t, p, Unset, ChosenPayment(p)) : t \in Written[what]}
  <2>1. Written[what] \subseteq {"seller order", "transaction", "refund", "refund item", "invoice"}
    <3>1. /\ Written["complete"] = {"seller order", "transaction"}
          /\ Written["refund"] = {"refund", "refund item"}
          /\ Written["invoice"] = {"invoice"}
      BY DEF Written
    <3>2. what \in {"complete", "refund", "invoice"}
      BY DEF Written
    <3> QED BY <3>1, <3>2
  <2>2. rows' = rows \cup new /\ UNCHANGED <<stored, known, cleaner, deleted>> /\ p \in Stored
    BY <1>3 DEF WriteRows
  <2>3. ChosenPayment(p) \in BOOLEAN
    BY DEF ChosenPayment
  <2>4. \A row \in new : /\ row.payment = p /\ row.report = Unset /\ row.late = ChosenPayment(p)
                         /\ row.table \in Written[what]
                         /\ row \in CleanRows
    <3>1. Written[what] \subseteq LedgerTables
      BY <2>1 DEF LedgerTables
    <3> QED BY <2>3, <3>1, RowFits
  <2>5. \A row \in new : row.table \in LedgerTables /\ row.table \notin {"tax group", "expense"}
    BY <2>1, <2>4 DEF LedgerTables
  <2> HIDE DEF new
  <2>6. /\ new \subseteq CleanRows /\ stored' \in [CleanPayments -> Nat]
        /\ \A q \in Stored : stored'[q] # 0
        /\ stored'[p] # 0
    BY <1>1, <2>2, <2>4 DEF Stored, CleanTypeOK
  <2> QED BY <2>2, <2>4, <2>5, <2>6, RowsAdded
<1>4. ASSUME NEW r \in CleanReports, Digest(p, r) PROVE CleanInv'
  <2> DEFINE new == {Row("relation", p, r, ChosenPayment(p) \/ ChosenReport(r))}
                      \cup {Row(t, Unset, r, ChosenReport(r)) : t \in {"tax group", "expense"}}
  <2>2. /\ rows' = rows \cup new /\ UNCHANGED <<stored, cleaner, deleted>> /\ p \in Stored
        /\ known' = known \cup {r}
    BY <1>4 DEF Digest
  <2>3. ChosenPayment(p) \in BOOLEAN /\ ChosenReport(r) \in BOOLEAN
    BY DEF ChosenPayment, ChosenReport
  <2>4. \A row \in new :
          /\ row.report = r /\ row.table \in ReportTables /\ row \in CleanRows
          /\ \/ /\ row.table = "relation" /\ row.payment = p
                /\ row.late = (ChosenPayment(p) \/ ChosenReport(r))
             \/ /\ row.table \in {"tax group", "expense"} /\ row.payment = Unset
                /\ row.late = ChosenReport(r)
    <3>1. {"relation", "tax group", "expense"} \subseteq ReportTables
      BY DEF ReportTables
    <3> DEFINE x == Row("relation", p, r, ChosenPayment(p) \/ ChosenReport(r))
               y == Row("tax group", Unset, r, ChosenReport(r))
               z == Row("expense", Unset, r, ChosenReport(r))
    <3>2. new = {x, y, z}
      OBVIOUS
    <3>3. /\ x \in CleanRows /\ x.table = "relation" /\ x.payment = p /\ x.report = r
          /\ x.late = (ChosenPayment(p) \/ ChosenReport(r))
      BY <2>3, <3>1 DEF Row, CleanRows
    <3>4. /\ y \in CleanRows /\ y.table = "tax group" /\ y.payment = Unset /\ y.report = r
          /\ y.late = ChosenReport(r)
      BY <2>3, <3>1 DEF Row, CleanRows
    <3>5. /\ z \in CleanRows /\ z.table = "expense" /\ z.payment = Unset /\ z.report = r
          /\ z.late = ChosenReport(r)
      BY <2>3, <3>1 DEF Row, CleanRows
    <3> HIDE DEF x, y, z, new
    <3> QED BY <3>1, <3>2, <3>3, <3>4, <3>5
  <2>5. \A row \in new : row.table \notin LedgerTables
    BY <2>4 DEF LedgerTables
  <2> HIDE DEF new
  <2>6. /\ new \subseteq CleanRows /\ stored' \in [CleanPayments -> Nat]
        /\ \A q \in Stored : stored'[q] # 0
        /\ stored'[p] # 0 /\ known \subseteq known' /\ r \in known'
    BY <1>1, <2>2, <2>4 DEF Stored, CleanTypeOK
  <2> QED BY <2>2, <2>4, <2>5, <2>6, RowsAdded
<1> QED BY <1>2, <1>3, <1>4

\* A step of one request on its own memory.
LEMMA MemoryChanged ==
  ASSUME CleanInv, NEW c \in Cleaners, UNCHANGED <<stored, known, rows, deleted>>,
         NEW r \in CleanRequests, cleaner' = [cleaner EXCEPT ![c] = r],
         \A p \in r.payments : stored[p] # 0 \/ \E d \in deleted : d[1] = p,
         r.at \in {"ledger", "payments"}
           => \A row \in rows : /\ row.table \in {"tax group", "expense"}
                                /\ row.report \in r.reports /\ ~row.late
                                => row \in r.doomed,
         r.at = "payments"
           => \A row \in rows : /\ row.table \in LedgerTables
                                /\ row.payment \in r.payments /\ ~row.late
                                => row \in r.doomed
  PROVE  CleanInv'
<1>1. /\ cleaner' \in [Cleaners -> CleanRequests] /\ cleaner'[c] = r
      /\ \A x \in Cleaners \ {c} : cleaner'[x] = cleaner[x]
  BY DEF CleanInv, CleanTypeOK
<1>2. CleanTypeOK' /\ NothingDangling'
  BY <1>1 DEF CleanInv, CleanTypeOK, NothingDangling, Dangling, Stored
<1>3. ASSUME NEW x \in Cleaners PROVE Dooms(x)'
  <2>1. CASE x = c
    BY <1>1, <2>1 DEF Dooms
  <2>2. CASE x # c
    BY <1>1, <2>2 DEF CleanInv, Dooms
  <2> QED BY <2>1, <2>2
<1> QED BY <1>2, <1>3 DEF CleanInv

\* Requests that choose, ask and prepare.
LEMMA ChoosingKeepsClean ==
  ASSUME CleanInv, NEW c \in Cleaners,
         \/ \E a \in Archives, before \in Cutoffs :
              StartArchive(c, a, before) \/ StartCleanup(c, a, before)
         \/ Dump(c) \/ PreviewReports(c) \/ DeleteReports(c) \/ DeleteLedger(c) \/ Fail(c)
  PROVE  CleanInv'
<1>1. /\ CleanTypeOK /\ UNCHANGED <<stored, known, rows, deleted>> /\ Dooms(c)
      /\ cleaner[c] \in CleanRequests /\ cleaner \in [Cleaners -> CleanRequests]
  BY DEF CleanInv, CleanTypeOK, StartArchive, StartCleanup, Dump, PreviewReports, DeleteReports,
         DeleteLedger, Fail
<1>2. NoCleaner \in CleanRequests /\ NoCleaner.payments = {} /\ NoCleaner.at = "idle"
  BY DEF NoCleaner, CleanRequests
<1>3. \A before : PaymentIds(before) \subseteq Stored /\ Stored \subseteq CleanPayments
  BY DEF PaymentIds, Stored
<1>4. CASE Dump(c) \/ Fail(c)
  <2>1. cleaner' = [cleaner EXCEPT ![c] = NoCleaner]
    BY <1>4 DEF Dump, Fail
  <2> QED BY <1>1, <1>2, <2>1, MemoryChanged
<1>5. ASSUME NEW a \in Archives, NEW before \in Cutoffs, StartArchive(c, a, before) PROVE CleanInv'
  <2> DEFINE r == [NoCleaner EXCEPT !.at = "dump", !.archive = a, !.before = before,
                                    !.doomed = PaymentIds(before)]
  <2>1. r \in CleanRequests
    BY <1>3 DEF NoCleaner, CleanRequests
  <2>2. r.at = "dump" /\ r.payments = {}
    BY DEF NoCleaner
  <2>3. cleaner' = [cleaner EXCEPT ![c] = r]
    BY <1>5 DEF StartArchive
  <2> HIDE DEF r
  <2> QED BY <1>1, <2>1, <2>2, <2>3, MemoryChanged
<1>6. ASSUME NEW a \in Archives, NEW before \in Cutoffs, StartCleanup(c, a, before) PROVE CleanInv'
  <2> DEFINE ps == PaymentIds(IF before = Unset THEN manifests[a].before ELSE before)
             r == [NoCleaner EXCEPT !.at = "preview", !.archive = a, !.payments = ps]
  <2>1. ps \subseteq Stored /\ ps \subseteq CleanPayments
    BY <1>3
  <2>2. cleaner' = [cleaner EXCEPT ![c] = r]
    BY <1>6 DEF StartCleanup
  <2> HIDE DEF ps
  <2>3. r \in CleanRequests /\ r.at = "preview" /\ r.payments = ps
    BY <2>1 DEF NoCleaner, CleanRequests
  <2> HIDE DEF r
  <2> QED BY <1>1, <2>1, <2>2, <2>3, MemoryChanged DEF Stored
<1>7. CASE PreviewReports(c)
  <2> DEFINE rs == AffectedReports(cleaner[c].payments)
             r == [cleaner[c] EXCEPT !.at = "reports", !.reports = rs]
  <2>1. rs \subseteq CleanReports \cup {Unset}
    BY <1>1 DEF AffectedReports, CleanTypeOK, CleanRows
  <2>2. cleaner' = [cleaner EXCEPT ![c] = r]
    BY <1>1, <1>7 DEF PreviewReports
  <2> HIDE DEF rs
  <2>3. r \in CleanRequests /\ r.at = "reports" /\ r.payments = cleaner[c].payments
    BY <1>1, <2>1 DEF CleanRequests
  <2> HIDE DEF r
  <2> QED BY <1>1, <2>2, <2>3, MemoryChanged DEF Dooms
<1>8. CASE DeleteReports(c)
  <2> DEFINE d == {row \in rows : row.table \in ReportTables /\ row.report \in cleaner[c].reports}
             r == [cleaner[c] EXCEPT !.at = "ledger", !.doomed = d]
  <2>1. /\ d \subseteq CleanRows
        /\ \A row \in rows : row.table \in {"tax group", "expense"} /\ row.report \in cleaner[c].reports
                               => row \in d
    BY <1>1 DEF CleanTypeOK, ReportTables
  <2>2. cleaner' = [cleaner EXCEPT ![c] = r]
    BY <1>1, <1>8 DEF DeleteReports
  <2> HIDE DEF d
  <2>3. /\ r \in CleanRequests /\ r.at = "ledger" /\ r.payments = cleaner[c].payments
        /\ r.reports = cleaner[c].reports /\ r.doomed = d
    BY <1>1, <2>1 DEF CleanRequests
  <2> HIDE DEF r
  <2> QED BY <1>1, <2>1, <2>2, <2>3, MemoryChanged DEF Dooms
<1>9. CASE DeleteLedger(c)
  <2> DEFINE d == cleaner[c].doomed \cup
                    {row \in rows : row.table \in LedgerTables /\ row.payment \in cleaner[c].payments}
             r == [cleaner[c] EXCEPT !.at = "payments", !.doomed = d]
  <2>1. /\ d \subseteq CleanRows \cup CleanPayments
        /\ \A row \in rows : row.table \in LedgerTables /\ row.payment \in cleaner[c].payments
                               => row \in d
        /\ cleaner[c].doomed \subseteq d /\ cleaner[c].at = "ledger"
    BY <1>1, <1>9 DEF CleanTypeOK, CleanRequests, DeleteLedger
  <2>2. cleaner' = [cleaner EXCEPT ![c] = r]
    BY <1>1, <1>9 DEF DeleteLedger
  <2> HIDE DEF d
  <2>3. /\ r \in CleanRequests /\ r.at = "payments" /\ r.payments = cleaner[c].payments
        /\ r.reports = cleaner[c].reports /\ r.doomed = d
    BY <1>1, <2>1 DEF CleanRequests
  <2> HIDE DEF r
  <2> QED BY <1>1, <2>1, <2>2, <2>3, MemoryChanged DEF Dooms
<1> QED BY <1>4, <1>5, <1>6, <1>7, <1>8, <1>9

\* A commit removes every row that points at what it removes, but the late ones.
LEMMA CommitKeepsClean ==
  ASSUME CleanInv, NEW c \in Cleaners, Commit(c)
  PROVE  CleanInv'
<1>1. /\ CleanTypeOK /\ Dooms(c) /\ cleaner[c].at = "payments"
      /\ cleaner' = [cleaner EXCEPT ![c] = NoCleaner]
      /\ NoCleaner \in CleanRequests /\ NoCleaner.payments = {} /\ NoCleaner.at = "idle"
  BY DEF Commit, CleanInv, NoCleaner, CleanRequests
<1>2. CASE Held(c)
  <2>1. UNCHANGED <<stored, known, rows, deleted>>
    BY <1>2 DEF Commit
  <2> QED BY <1>1, <2>1, MemoryChanged
<1>3. CASE ~Held(c)
  <2>1. /\ stored' = [p \in CleanPayments |-> IF p \in cleaner[c].payments THEN 0 ELSE stored[p]]
        /\ known' = known \ cleaner[c].reports
        /\ rows' = {row \in rows \ cleaner[c].doomed : ~Cascades(row, c)}
        /\ deleted' = deleted \cup {<<p, cleaner[c].archive>> : p \in cleaner[c].payments \cap Stored}
    BY <1>3 DEF Commit
  <2>2. CleanTypeOK'
    BY <1>1, <2>1 DEF CleanTypeOK
  <2>3. ASSUME NEW row \in rows', Dangling(row)' PROVE row.late
    <3>1. SUFFICES ASSUME ~row.late PROVE FALSE
      OBVIOUS
    <3>2. /\ row \in rows /\ row \notin cleaner[c].doomed /\ ~Cascades(row, c)
          /\ ~Dangling(row)
      BY <2>1, <3>1 DEF CleanInv, NothingDangling
    <3>3. CASE row.payment # Unset /\ row.payment \notin Stored'
      <4>1. row.payment \in cleaner[c].payments
        BY <2>1, <3>2, <3>3 DEF Dangling, Stored
      <4>2. row.table \in LedgerTables \cup {"relation"}
        BY <1>1, <3>2, <3>3 DEF CleanTypeOK
      <4>3. row.table \notin LedgerTables
        BY <1>1, <3>1, <3>2, <4>1 DEF Dooms
      <4> QED BY <3>2, <4>1, <4>2, <4>3 DEF Cascades
    <3>4. CASE row.report # Unset /\ row.report \notin known'
      <4>1. row.report \in cleaner[c].reports
        BY <2>1, <3>2, <3>4 DEF Dangling
      <4>2. row.table \in ReportTables
        BY <1>1, <3>2, <3>4 DEF CleanTypeOK
      <4>3. row.table \notin {"tax group", "expense"}
        BY <1>1, <3>1, <3>2, <4>1 DEF Dooms
      <4> QED BY <3>2, <4>1, <4>2, <4>3 DEF Cascades, ReportTables
    <3> QED BY <2>3, <3>3, <3>4 DEF Dangling
  <2>4. ASSUME NEW x \in Cleaners PROVE Dooms(x)'
    <3>1. CASE x = c
      BY <1>1, <3>1 DEF Dooms, CleanTypeOK
    <3>2. CASE x # c
      <4>1. cleaner'[x] = cleaner[x] /\ Dooms(x) /\ cleaner[x].payments \subseteq CleanPayments
        BY <1>1, <3>2 DEF CleanInv, CleanTypeOK, CleanRequests
      <4>2. \A p \in cleaner[x].payments : stored'[p] # 0 \/ \E d \in deleted' : d[1] = p
        <5> SUFFICES ASSUME NEW p \in cleaner[x].payments, stored'[p] = 0
                     PROVE  \E d \in deleted' : d[1] = p
          OBVIOUS
        <5>1. CASE \E d \in deleted : d[1] = p
          BY <2>1, <5>1
        <5>2. CASE stored[p] # 0
          <6>1. p \in cleaner[c].payments \cap Stored
            BY <2>1, <4>1, <5>2 DEF Stored
          <6>2. <<p, cleaner[c].archive>> \in deleted' /\ <<p, cleaner[c].archive>>[1] = p
            BY <2>1, <6>1
          <6> QED BY <6>2
        <5> QED BY <4>1, <5>1, <5>2 DEF Dooms
      <4>3. rows' \subseteq rows
        BY <2>1
      <4> QED BY <4>1, <4>2, <4>3 DEF Dooms
    <3> QED BY <3>1, <3>2
  <2> QED BY <2>2, <2>3, <2>4 DEF CleanInv, NothingDangling
<1> QED BY <1>2, <1>3

LEMMA CleanStep == CleanInv /\ [CleanNext]_pcVars => CleanInv'
<1> SUFFICES ASSUME CleanInv, [CleanNext]_pcVars PROVE CleanInv'
  OBVIOUS
<1>1. ASSUME NEW p \in CleanPayments,
             \/ CreatePayment(p)
             \/ \E what \in DOMAIN Written : WriteRows(p, what)
             \/ \E r \in CleanReports : Digest(p, r)
      PROVE  CleanInv'
  BY <1>1, TrafficKeepsClean
<1>2. ASSUME NEW c \in Cleaners,
             \/ \E a \in Archives, before \in Cutoffs :
                  StartArchive(c, a, before) \/ StartCleanup(c, a, before)
             \/ Dump(c) \/ PreviewReports(c) \/ DeleteReports(c) \/ DeleteLedger(c) \/ Fail(c)
      PROVE  CleanInv'
  BY <1>2, ChoosingKeepsClean
<1>3. ASSUME NEW c \in Cleaners, Commit(c) PROVE CleanInv'
  BY <1>3, CommitKeepsClean
<1>4. CASE UNCHANGED pcVars
  BY <1>4 DEF pcVars, CleanInv, CleanTypeOK, NothingDangling, Dangling, Stored, Dooms
<1> QED BY <1>1, <1>2, <1>3, <1>4 DEF CleanNext

\* No cleanup leaves a row that points at a payment or report it deleted, whatever
\* other requests and cleanups did between its statements, but for rows written
\* after it had chosen what to delete (cleanup, deleteScope).
THEOREM NothingDanglingHolds == CleanSpec => []NothingDangling
<1>1. CleanInv => NothingDangling
  BY DEF CleanInv
<1> QED BY CleanStarts, CleanStep, <1>1, PTL DEF CleanSpec

-----------------------------------------------------------------------------
(* The commission rules.                                                     *)

RuleRows ==
  [seller : Sellers \cup {General}, class : ItemClasses \cup {General},
   platform : Platforms \cup {General}, percent : Percents, bias : Nat]

\* Every row carries the weight of what it is about.
Weighs(r) == r.bias = BiasOf(r.seller, r.class, r.platform)

RulesInv ==
  /\ rules \in [RuleIds -> RuleRows \cup {General}]
  /\ \A i \in RuleIds : rules[i] # General => rules[i] \in RuleRows /\ Weighs(rules[i])

\* The weights order the rules as their dimensions do.
LEMMA WeightsDecide ==
  ASSUME NEW a, NEW b, Weighs(a), Weighs(b), MoreSpecific(a, b)
  PROVE  ~(a.bias <= b.bias)
<1>1. /\ a["platform"] = a.platform /\ a["seller"] = a.seller /\ a["class"] = a.class
      /\ b["platform"] = b.platform /\ b["seller"] = b.seller /\ b["class"] = b.class
  OBVIOUS
<1>2. QED
  BY <1>1 DEF Weighs, BiasOf, MoreSpecific

\* The rule a line is charged by is among those in force, and none of them is more
\* specific.
LEMMA ChosenIsMostSpecific ==
  ASSUME RulesInv, NEW s, NEW c, NEW p, NEW rule \in Chosen(s, c, p)
  PROVE  /\ MostSpecific(rule, Matching(s, c, p))
         /\ rule = General \/ rule \in RuleRows
         /\ Matching(s, c, p) \subseteq RuleRows
<1>1. \A r \in Matching(s, c, p) : r # General /\ r \in RuleRows /\ Weighs(r)
  BY DEF Matching, RulesInv
<1>2. CASE Matching(s, c, p) = {}
  BY <1>2 DEF Chosen, MostSpecific
<1>3. CASE Matching(s, c, p) # {}
  <2>1. rule \in Matching(s, c, p) /\ \A r \in Matching(s, c, p) : r.bias <= rule.bias
    BY <1>3 DEF Chosen
  <2>2. \A r \in Matching(s, c, p) : ~MoreSpecific(r, rule)
    BY <1>1, <2>1, WeightsDecide
  <2>3. QED BY <1>1, <2>1, <2>2 DEF MostSpecific
<1>4. QED BY <1>2, <1>3

LEMMA RulesStart == QuoteInit => RulesInv
  BY DEF QuoteInit, RulesInv

LEMMA SaveRuleFits ==
  ASSUME RulesInv, NEW i \in RuleIds, NEW s \in Sellers \cup {General},
         NEW c \in ItemClasses \cup {General}, NEW p \in Platforms \cup {General},
         NEW x \in Percents, SaveRule(i, s, c, p, x)
  PROVE  RulesInv'
<1> DEFINE r == [seller |-> s, class |-> c, platform |-> p, percent |-> x,
                 bias |-> BiasOf(s, c, p)]
<1>1. rules' = [rules EXCEPT ![i] = r]
  BY DEF SaveRule
<1>2. BiasOf(s, c, p) \in Nat
  BY DEF BiasOf
<1>3. r \in RuleRows /\ Weighs(r)
  BY <1>2 DEF RuleRows, Weighs
<1> HIDE DEF r
<1>4. QED BY <1>1, <1>3 DEF RulesInv

LEMMA RemoveRuleFits ==
  ASSUME RulesInv, NEW i \in RuleIds, RemoveRule(i)
  PROVE  RulesInv'
  BY DEF RulesInv, RemoveRule

-----------------------------------------------------------------------------
(* One sale per order.                                                       *)

ExternalCustomers ==
  [identity : Identities, platform : Platforms, id : CustomerIds \cup {General}]

\* What a request holds at each of its points.
AskedRows ==
  [at : {"lock", "resolve"}, platform : Platforms, order : ExternalOrders, good : Goods,
   who : Identities, id : CustomerIds \cup {General}]
FoundRows ==
  [at : {"commit"}, platform : Platforms, order : ExternalOrders,
   customer : ExternalCustomers, rule : RuleRows \cup {General}, seen : SUBSET RuleRows]
PostRows == [at : {"post"}, nr : Nat]
RecordingRows == {NoRecording} \cup AskedRows \cup FoundRows \cup PostRows

SaleRows ==
  [platform : Platforms, order : ExternalOrders, customer : ExternalCustomers,
   rule : RuleRows \cup {General}, seen : SUBSET RuleRows]

ExternalTypeOK ==
  /\ platformLock \in [Platforms -> Recorders \cup {General}]
  /\ customers \subseteq ExternalCustomers
  /\ recorded \in Seq(SaleRows)
  /\ recording \in [Recorders -> RecordingRows]

\* A request that passed the check holds the platform's lock and its order is not
\* recorded yet.
HoldsLock(r) ==
  recording[r].at \in {"resolve", "commit"}
    => /\ platformLock[recording[r].platform] = r
       /\ ~IsRecorded(recording[r].platform, recording[r].order)

\* The customer it found exists, or is new to its platform.
CustomerFits(r) ==
  recording[r].at = "commit"
    => LET c == recording[r].customer
       IN \/ c \in customers
          \/ /\ c.platform = recording[r].platform
             /\ c.id # General => \A d \in customers : ~(d.platform = c.platform /\ d.id = c.id)

RecordingSays(r) ==
  /\ HoldsLock(r)
  /\ CustomerFits(r)
  /\ recording[r].at = "commit" => MostSpecific(recording[r].rule, recording[r].seen)

RecordedRight == \A i \in DOMAIN recorded : MostSpecific(recorded[i].rule, recorded[i].seen)

ExternalInv ==
  /\ RulesInv
  /\ ExternalTypeOK
  /\ \A r \in Recorders : RecordingSays(r)
  /\ RecordedRight
  /\ OneSalePerOrder

LEMMA PointTells ==
  ASSUME NEW c \in RecordingRows
  PROVE  /\ c.at \in {"lock", "resolve"} => c \in AskedRows
         /\ c.at = "commit" => c \in FoundRows
  BY DEF RecordingRows, NoRecording, AskedRows, FoundRows, PostRows

LEMMA ExternalStarts == ExternalInit /\ QuoteInit => ExternalInv
<1> SUFFICES ASSUME ExternalInit, QuoteInit PROVE ExternalInv
  OBVIOUS
<1>1. RulesInv
  BY RulesStart
<1>2. ExternalTypeOK
  <2>1. <<>> \in Seq(SaleRows)
    OBVIOUS
  <2>2. recording \in [Recorders -> RecordingRows]
    BY DEF ExternalInit, RecordingRows
  <2> QED BY <2>1, <2>2 DEF ExternalInit, ExternalTypeOK
<1>3. \A r \in Recorders : RecordingSays(r)
  BY DEF ExternalInit, RecordingSays, HoldsLock, CustomerFits, NoRecording
<1>4. RecordedRight /\ OneSalePerOrder
  BY DEF ExternalInit, RecordedRight, OneSalePerOrder
<1> QED BY <1>1, <1>2, <1>3, <1>4 DEF ExternalInv

\* One request moves on, and what is recorded stays: the others know what they
\* knew as long as their locks are left to them.
LEMMA RequestMoves ==
  ASSUME ExternalInv, RulesInv', UNCHANGED <<customers, recorded>>,
         NEW r \in Recorders, NEW c \in RecordingRows,
         recording' = [recording EXCEPT ![r] = c],
         platformLock' \in [Platforms -> Recorders \cup {General}],
         \A q \in Recorders, p \in Platforms :
           q # r /\ platformLock[p] = q => platformLock'[p] = q,
         RecordingSays(r)'
  PROVE  ExternalInv'
<1>1. ExternalTypeOK'
  BY DEF ExternalInv, ExternalTypeOK
<1>2. ASSUME NEW q \in Recorders, q # r PROVE RecordingSays(q)'
  <2>1. recording'[q] = recording[q] /\ recording[q] \in RecordingRows
    BY <1>2 DEF ExternalInv, ExternalTypeOK
  <2>2. RecordingSays(q)
    BY DEF ExternalInv
  <2>3. recording[q].at \in {"resolve", "commit"} => recording[q].platform \in Platforms
    BY <2>1, PointTells DEF AskedRows, FoundRows
  <2>4. HoldsLock(q)'
    BY <1>2, <2>1, <2>2, <2>3 DEF RecordingSays, HoldsLock, IsRecorded
  <2>5. CustomerFits(q)'
    BY <2>1, <2>2 DEF RecordingSays, CustomerFits
  <2> QED BY <2>1, <2>2, <2>4, <2>5 DEF RecordingSays
<1>3. RecordedRight' /\ OneSalePerOrder'
  BY DEF ExternalInv, RecordedRight, OneSalePerOrder
<1> QED BY <1>1, <1>2, <1>3 DEF ExternalInv

\* A request at a point where it claims nothing.
LEMMA ClaimsNothing ==
  ASSUME NEW r \in Recorders, recording'[r].at \notin {"resolve", "commit"}
  PROVE  RecordingSays(r)'
  BY DEF RecordingSays, HoldsLock, CustomerFits

LEMMA BeginKeepsExternal ==
  ASSUME ExternalInv, NEW r \in Recorders, NEW p \in Platforms, NEW o \in ExternalOrders,
         NEW g \in Goods, NEW who \in Identities, NEW id \in CustomerIds \cup {General},
         BeginRecord(r, p, o, g, who, id)
  PROVE  ExternalInv'
<1> DEFINE c == [at |-> "lock", platform |-> p, order |-> o, good |-> g, who |-> who, id |-> id]
<1>1. /\ recording' = [recording EXCEPT ![r] = c]
      /\ UNCHANGED <<platformLock, customers, recorded, oqVars>>
  BY DEF BeginRecord
<1>2. c \in RecordingRows /\ c.at = "lock"
  BY DEF RecordingRows, AskedRows
<1> HIDE DEF c
<1>3. recording'[r] = c
  BY <1>1 DEF ExternalInv, ExternalTypeOK
<1>4. RecordingSays(r)'
  BY <1>2, <1>3, ClaimsNothing
<1>5. RulesInv'
  BY <1>1 DEF ExternalInv, RulesInv, oqVars
<1> QED BY <1>1, <1>2, <1>4, <1>5, RequestMoves DEF ExternalInv, ExternalTypeOK

LEMMA LockKeepsExternal ==
  ASSUME ExternalInv, NEW r \in Recorders, LockPlatform(r)
  PROVE  ExternalInv'
<1> DEFINE p == recording[r].platform
<1>1. /\ recording[r].at = "lock" /\ recording[r] \in AskedRows
      /\ recording \in [Recorders -> RecordingRows]
      /\ platformLock \in [Platforms -> Recorders \cup {General}]
  BY PointTells DEF LockPlatform, ExternalInv, ExternalTypeOK
<1>2. RulesInv' /\ UNCHANGED <<customers, recorded>> /\ platformLock[p] = General
  BY DEF LockPlatform, MayLockPlatform, ExternalInv, RulesInv, oqVars
<1>3. p \in Platforms
  BY <1>1 DEF AskedRows
<1>4. CASE active[p] /\ ~IsRecorded(p, recording[r].order)
  <2> DEFINE c == [recording[r] EXCEPT !.at = "resolve"]
  <2>1. platformLock' = [platformLock EXCEPT ![p] = r] /\ recording' = [recording EXCEPT ![r] = c]
    BY <1>4 DEF LockPlatform
  <2>2. /\ c \in AskedRows /\ c.at = "resolve" /\ c.platform = p
        /\ c.order = recording[r].order
    BY <1>1 DEF AskedRows
  <2>3. c \in RecordingRows
    BY <2>2 DEF RecordingRows
  <2> HIDE DEF c
  <2>4. recording'[r] = c /\ platformLock'[p] = r
    BY <1>1, <1>3, <2>1
  <2>5. RecordingSays(r)'
    BY <1>2, <1>4, <2>2, <2>4 DEF RecordingSays, HoldsLock, CustomerFits, IsRecorded
  <2>6. \A q \in Recorders, f \in Platforms : platformLock[f] = q => platformLock'[f] = q
    BY <1>1, <1>2, <1>3, <2>1, ExternalAssumption
  <2>7. platformLock' \in [Platforms -> Recorders \cup {General}]
    BY <1>1, <2>1
  <2> QED BY <1>2, <2>1, <2>3, <2>5, <2>6, <2>7, RequestMoves
<1>5. CASE ~(active[p] /\ ~IsRecorded(p, recording[r].order))
  <2>1. UNCHANGED platformLock /\ recording' = [recording EXCEPT ![r] = NoRecording]
    BY <1>5 DEF LockPlatform
  <2>2. NoRecording \in RecordingRows /\ NoRecording.at = "idle"
    BY DEF RecordingRows, NoRecording
  <2>3. RecordingSays(r)'
    BY <1>1, <2>1, <2>2, ClaimsNothing
  <2> QED BY <1>1, <1>2, <2>1, <2>2, <2>3, RequestMoves
<1> QED BY <1>4, <1>5

LEMMA ResolveKeepsExternal ==
  ASSUME ExternalInv, NEW r \in Recorders, Resolve(r)
  PROVE  ExternalInv'
<1> DEFINE a == recording[r]
           seen == Matching(a.good.seller, a.good.class, a.platform)
<1>1. /\ a.at = "resolve" /\ a \in AskedRows
      /\ recording \in [Recorders -> RecordingRows] /\ customers \subseteq ExternalCustomers
      /\ platformLock \in [Platforms -> Recorders \cup {General}]
  BY PointTells DEF Resolve, ExternalInv, ExternalTypeOK
<1>2. RulesInv' /\ UNCHANGED <<platformLock, customers, recorded>> /\ RulesInv
  BY DEF Resolve, ExternalInv, RulesInv, oqVars
<1>3. PICK k \in Candidates(r), rule \in Chosen(a.good.seller, a.good.class, a.platform) :
        recording' = [recording EXCEPT ![r] =
          [at |-> "commit", platform |-> a.platform, order |-> a.order,
           customer |-> k, rule |-> rule, seen |-> seen]]
  BY <1>1 DEF Resolve
<1> DEFINE c == [at |-> "commit", platform |-> a.platform, order |-> a.order,
                 customer |-> k, rule |-> rule, seen |-> seen]
<1>4. /\ MostSpecific(rule, seen) /\ rule \in RuleRows \cup {General}
      /\ seen \in SUBSET RuleRows
  BY <1>2, ChosenIsMostSpecific
<1>5. /\ k \in ExternalCustomers
      /\ \/ k \in customers
         \/ /\ k.platform = a.platform
            /\ k.id # General => \A d \in customers : ~(d.platform = k.platform /\ d.id = k.id)
  <2> DEFINE fresh == [identity |-> a.who, platform |-> a.platform, id |-> a.id]
  <2>1. CASE k \in customers
    BY <1>1, <2>1
  <2>2. CASE k \notin customers
    <3>1. k = fresh /\ ById(a.platform, a.id) = {}
      BY <1>3, <2>2 DEF Candidates, ById, ByIdentity
    <3>2. fresh \in ExternalCustomers
      BY <1>1 DEF AskedRows, ExternalCustomers
    <3>3. k.platform = a.platform /\ k.id = a.id
      BY <3>1
    <3> QED BY <3>1, <3>2, <3>3 DEF ById
  <2> QED BY <2>1, <2>2
<1>6. a.platform \in Platforms /\ a.order \in ExternalOrders
  BY <1>1 DEF AskedRows
<1> HIDE DEF seen
<1>7. c \in FoundRows
  <2> HIDE DEF a
  <2> QED BY <1>4, <1>5, <1>6 DEF FoundRows
<1>8. /\ c.at = "commit" /\ c.platform = a.platform /\ c.order = a.order
      /\ c.customer = k /\ c.rule = rule /\ c.seen = seen
  OBVIOUS
<1>9. recording' = [recording EXCEPT ![r] = c]
  BY <1>3
<1> HIDE DEF c
<1>10. recording'[r] = c /\ c \in RecordingRows
  BY <1>1, <1>7, <1>9 DEF RecordingRows
<1>11. HoldsLock(r)'
  <2>1. HoldsLock(r)
    BY DEF ExternalInv, RecordingSays
  <2> QED BY <1>1, <1>2, <1>8, <1>10, <2>1 DEF HoldsLock, IsRecorded
<1>12. CustomerFits(r)'
  BY <1>2, <1>5, <1>8, <1>10 DEF CustomerFits
<1>13. RecordingSays(r)'
  BY <1>4, <1>8, <1>10, <1>11, <1>12 DEF RecordingSays
<1> QED BY <1>1, <1>2, <1>9, <1>10, <1>13, RequestMoves

LEMMA CommitKeepsExternal ==
  ASSUME ExternalInv, NEW r \in Recorders, CommitRecord(r)
  PROVE  ExternalInv'
<1> DEFINE c == recording[r]
           p == c.platform
           o == c.order
<1>1. /\ c.at = "commit" /\ c \in FoundRows
      /\ recording \in [Recorders -> RecordingRows] /\ customers \subseteq ExternalCustomers
      /\ recorded \in Seq(SaleRows)
      /\ platformLock \in [Platforms -> Recorders \cup {General}]
  BY PointTells DEF CommitRecord, ExternalInv, ExternalTypeOK
<1>2. RulesInv'
  BY DEF CommitRecord, ExternalInv, RulesInv, oqVars
<1>3. /\ p \in Platforms /\ o \in ExternalOrders /\ c.customer \in ExternalCustomers
      /\ c.rule \in RuleRows \cup {General} /\ c.seen \in SUBSET RuleRows
  BY <1>1 DEF FoundRows
<1>4. /\ platformLock' = [platformLock EXCEPT ![p] = General] /\ platformLock[p] = r
      /\ ~IsRecorded(p, o) /\ MostSpecific(c.rule, c.seen) /\ CustomerFits(r)
  BY <1>1 DEF CommitRecord, ExternalInv, RecordingSays, HoldsLock
<1>5. /\ platformLock' \in [Platforms -> Recorders \cup {General}]
      /\ \A q \in Recorders, f \in Platforms :
           q # r /\ platformLock[f] = q => platformLock'[f] = q /\ f # p
  BY <1>1, <1>3, <1>4
<1>6. CASE recording' = [recording EXCEPT ![r] = NoRecording] /\ UNCHANGED <<customers, recorded>>
  <2>1. NoRecording \in RecordingRows /\ NoRecording.at = "idle"
    BY DEF RecordingRows, NoRecording
  <2>2. RecordingSays(r)'
    BY <1>1, <1>6, <2>1, ClaimsNothing
  <2> QED BY <1>2, <1>5, <1>6, <2>1, <2>2, RequestMoves
<1>7. ASSUME customers' = customers \cup {c.customer},
             recorded' = Append(recorded, [platform |-> p, order |-> o, customer |-> c.customer,
                                           rule |-> c.rule, seen |-> c.seen]),
             recording' = [recording EXCEPT ![r] = [at |-> "post", nr |-> Len(recorded) + 1]]
      PROVE  ExternalInv'
  <2> DEFINE sale == [platform |-> p, order |-> o, customer |-> c.customer,
                      rule |-> c.rule, seen |-> c.seen]
             done == [at |-> "post", nr |-> Len(recorded) + 1]
             n == Len(recorded)
  <2>1. sale \in SaleRows
    <3> HIDE DEF c
    <3> QED BY <1>3 DEF SaleRows
  <2>2. n \in Nat /\ DOMAIN recorded = 1..n
    BY <1>1
  <2>3. done \in RecordingRows /\ done.at = "post"
    BY <2>2 DEF RecordingRows, PostRows
  <2>4. sale.platform = p /\ sale.order = o /\ sale.rule = c.rule /\ sale.seen = c.seen
    OBVIOUS
  <2>5. recorded' = Append(recorded, sale) /\ recording' = [recording EXCEPT ![r] = done]
    BY <1>7
  <2> HIDE DEF sale, done
  <2>6. /\ recorded' \in Seq(SaleRows) /\ DOMAIN recorded' = 1..(n + 1)
        /\ recorded'[n + 1] = sale /\ \A i \in 1..n : recorded'[i] = recorded[i]
    BY <1>1, <2>1, <2>5, AppendProperties
  <2> HIDE DEF n
  <2>7. ExternalTypeOK'
    BY <1>1, <1>3, <1>5, <1>7, <2>3, <2>5, <2>6 DEF ExternalTypeOK
  <2>8. RecordedRight'
    BY <1>4, <2>2, <2>4, <2>6 DEF RecordedRight, ExternalInv
  <2>9. \A i \in 1..n : ~(recorded[i].platform = p /\ recorded[i].order = o)
    BY <1>4, <2>2 DEF IsRecorded
  <2>10. ASSUME NEW i \in DOMAIN recorded', NEW j \in DOMAIN recorded',
                recorded'[i].platform = recorded'[j].platform,
                recorded'[i].order = recorded'[j].order
         PROVE  i = j
    <3>1. CASE i \in 1..n /\ j \in 1..n
      BY <2>2, <2>6, <2>10, <3>1 DEF ExternalInv, OneSalePerOrder
    <3>2. CASE i = n + 1 \/ j = n + 1
      BY <2>2, <2>4, <2>6, <2>9, <2>10, <3>2
    <3> QED BY <2>2, <2>6, <2>10, <3>1, <3>2
  <2>11. ASSUME NEW x \in customers', NEW y \in customers',
                x.platform = y.platform, x.id = y.id, x.id # General
         PROVE  x = y
    <3>1. \/ c.customer \in customers
          \/ c.customer.id # General =>
               \A d \in customers : ~(d.platform = c.customer.platform /\ d.id = c.customer.id)
      BY <1>1, <1>4 DEF CustomerFits
    <3>2. CASE x \in customers /\ y \in customers
      BY <2>11, <3>2 DEF ExternalInv, OneSalePerOrder
    <3> HIDE DEF c
    <3>3. CASE c.customer \notin customers
      BY <1>7, <2>11, <3>1, <3>2, <3>3
    <3> QED BY <1>7, <2>11, <3>2, <3>3
  <2>12. OneSalePerOrder'
    BY <2>10, <2>11 DEF OneSalePerOrder
  <2>13. ASSUME NEW q \in Recorders, q # r PROVE RecordingSays(q)'
    <3>1. recording'[q] = recording[q] /\ recording[q] \in RecordingRows /\ RecordingSays(q)
      BY <1>1, <2>5, <2>13 DEF ExternalInv
    <3>2. recording[q].at \in {"resolve", "commit"}
            => recording[q].platform \in Platforms /\ platformLock[recording[q].platform] = q
      BY <3>1, PointTells DEF AskedRows, FoundRows, RecordingSays, HoldsLock
    <3>3. recording[q].at \in {"resolve", "commit"} => recording[q].platform # p
      BY <1>5, <2>13, <3>2
    <3>4. HoldsLock(q)'
      <4>1. ASSUME recording[q].at \in {"resolve", "commit"},
                   IsRecorded(recording[q].platform, recording[q].order)'
            PROVE  IsRecorded(recording[q].platform, recording[q].order)
        BY <2>2, <2>4, <2>6, <3>1, <3>3, <4>1 DEF IsRecorded
      <4> QED BY <1>5, <2>13, <3>1, <3>2, <4>1 DEF RecordingSays, HoldsLock, IsRecorded
    <3>5. CustomerFits(q)'
      <4>1. ASSUME recording[q].at = "commit", recording[q].customer \notin customers,
                   recording[q].customer.id # General
            PROVE  /\ recording[q].customer.platform = recording[q].platform
                   /\ \A d \in customers' : ~(/\ d.platform = recording[q].customer.platform
                                              /\ d.id = recording[q].customer.id)
        <5>1. /\ recording[q].customer.platform = recording[q].platform
              /\ \A d \in customers : ~(/\ d.platform = recording[q].customer.platform
                                        /\ d.id = recording[q].customer.id)
          BY <3>1, <4>1 DEF RecordingSays, CustomerFits
        <5>2. c.customer \in customers \/ c.customer.platform = p
          BY <1>1, <1>4 DEF CustomerFits
        <5> HIDE DEF c, p
        <5> QED BY <1>7, <3>3, <4>1, <5>1, <5>2
      <4>2. CASE recording[q].customer \in customers
        BY <1>7, <3>1, <4>2 DEF CustomerFits
      <4>3. CASE recording[q].customer \notin customers
        <5>1. recording[q].at = "commit" =>
                 recording[q].customer.platform = recording[q].platform
          BY <3>1, <4>3 DEF RecordingSays, CustomerFits
        <5> HIDE DEF c, p
        <5> QED BY <3>1, <4>1, <4>3, <5>1 DEF CustomerFits
      <4> QED BY <4>2, <4>3
    <3> QED BY <3>1, <3>4, <3>5 DEF RecordingSays
  <2>14. RecordingSays(r)'
    BY <1>1, <2>3, <2>5, ClaimsNothing
  <2> QED BY <1>2, <2>7, <2>8, <2>12, <2>13, <2>14 DEF ExternalInv
<1> QED BY <1>6, <1>7 DEF CommitRecord

LEMMA EndingKeepsExternal ==
  ASSUME ExternalInv, NEW r \in Recorders, PostRecord(r) \/ RecorderCrashes(r)
  PROVE  ExternalInv'
<1>1. /\ recording' = [recording EXCEPT ![r] = NoRecording]
      /\ UNCHANGED <<customers, recorded>> /\ RulesInv'
  BY DEF PostRecord, RecorderCrashes, ExternalInv, RulesInv, oqVars
<1>2. /\ platformLock' \in [Platforms -> Recorders \cup {General}]
      /\ \A q \in Recorders, f \in Platforms :
           q # r /\ platformLock[f] = q => platformLock'[f] = q
  BY DEF PostRecord, RecorderCrashes, ExternalInv, ExternalTypeOK
<1>3. NoRecording \in RecordingRows /\ NoRecording.at = "idle"
  BY DEF RecordingRows, NoRecording
<1>4. RecordingSays(r)'
  BY <1>1, <1>3, ClaimsNothing DEF ExternalInv, ExternalTypeOK
<1> QED BY <1>1, <1>2, <1>3, <1>4, RequestMoves

\* A step of another component, or of the rules.
LEMMA RulesMove ==
  ASSUME ExternalInv, RulesInv', UNCHANGED <<platformLock, customers, recorded, recording>>
  PROVE  ExternalInv'
  BY DEF ExternalInv, ExternalTypeOK, RecordingSays, HoldsLock, CustomerFits, IsRecorded,
         RecordedRight, OneSalePerOrder

LEMMA QuoteKeepsRules == RulesInv /\ QuoteNext => RulesInv'
<1> SUFFICES ASSUME RulesInv, QuoteNext PROVE RulesInv'
  OBVIOUS
<1>1. CASE UNCHANGED rules
  BY <1>1 DEF RulesInv
<1>2. CASE \E i \in RuleIds, s \in Sellers \cup {General}, c \in ItemClasses \cup {General},
              p \in Platforms \cup {General}, x \in Percents : SaveRule(i, s, c, p, x)
  BY <1>2, SaveRuleFits
<1>3. CASE \E i \in RuleIds : RemoveRule(i)
  BY <1>3, RemoveRuleFits
<1> QED BY <1>1, <1>2, <1>3
    DEF QuoteNext, PriceEnds, SetDefaultPrice, BeginInit, FindRule, PriceLine, SavePurchase,
        SaleEnds

LEMMA ExternalStep ==
  ExternalInv /\ [ExternalNext \/ (QuoteNext /\ UNCHANGED esVars)]_<<esVars, oqVars>>
    => ExternalInv'
<1> SUFFICES ASSUME ExternalInv,
                    [ExternalNext \/ (QuoteNext /\ UNCHANGED esVars)]_<<esVars, oqVars>>
             PROVE  ExternalInv'
  OBVIOUS
<1>1. ASSUME NEW p \in Platforms, SwitchPlatform(p) PROVE ExternalInv'
  <2>1. RulesInv'
    BY <1>1 DEF SwitchPlatform, ExternalInv, RulesInv, oqVars
  <2> QED BY <1>1, <2>1, RulesMove DEF SwitchPlatform
<1>2. ASSUME NEW r \in Recorders, NEW p \in Platforms, NEW o \in ExternalOrders,
             NEW g \in Goods, NEW who \in Identities, NEW id \in CustomerIds \cup {General},
             BeginRecord(r, p, o, g, who, id)
      PROVE  ExternalInv'
  BY <1>2, BeginKeepsExternal
<1>3. ASSUME NEW r \in Recorders,
             \/ LockPlatform(r) \/ Resolve(r) \/ CommitRecord(r) \/ PostRecord(r)
             \/ RecorderCrashes(r)
      PROVE  ExternalInv'
  BY <1>3, LockKeepsExternal, ResolveKeepsExternal, CommitKeepsExternal, EndingKeepsExternal
<1>4. CASE QuoteNext /\ UNCHANGED esVars
  <2>1. RulesInv'
    BY <1>4, QuoteKeepsRules DEF ExternalInv
  <2> QED BY <1>4, <2>1, RulesMove DEF esVars
<1>5. CASE UNCHANGED <<esVars, oqVars>>
  <2>1. RulesInv'
    BY <1>5 DEF ExternalInv, RulesInv, oqVars
  <2> QED BY <1>5, <2>1, RulesMove DEF esVars
<1> QED BY <1>1, <1>2, <1>3, <1>4, <1>5 DEF ExternalNext

LEMMA ExternalInvHolds == ExternalSpec => []ExternalInv
<1> QED BY ExternalStarts, ExternalStep, PTL DEF ExternalSpec

\* An order of an external platform is recorded once, and a platform's customer id
\* stands for one account (createExternalPlatformPayment).
THEOREM OneSalePerOrderHolds == ExternalSpec => []OneSalePerOrder
<1>1. ExternalInv => OneSalePerOrder
  BY DEF ExternalInv
<1> QED BY <1>1, ExternalInvHolds, PTL

-----------------------------------------------------------------------------
(* Purchases.                                                                *)

\* No commission takes more than what the tax leaves of a price.
RatesFit == \A x \in Percents, g \in Goods : g.rate # NoRate => x * (100 + g.rate) <= 10000

OrderRows == [good : Goods, quantity : Nat]
Picks == [rule : RuleRows \cup {General}, seen : SUBSET RuleRows]
LineRows ==
  [good : Goods, full : Nat, rate : Nat, tax : Nat, fee : Nat,
   rule : RuleRows \cup {General}, seen : SUBSET RuleRows]
TaxRows == [rate : Nat, full : Nat, tax : Nat]

QuoteRows ==
  [at : {"idle", "rule", "price", "save"}, order : Seq(OrderRows),
   session : Sessions \cup {General}, lines : Seq(LineRows), picked : Picks \cup {General}]
Purchases ==
  [buyer : Buyers, session : Sessions \cup {General}, open : BOOLEAN, lines : Seq(LineRows),
   total : Nat, tax : Nat, taxes : SUBSET TaxRows]

LineRight(l) ==
  /\ MostSpecific(l.rule, l.seen)
  /\ RatesFit => l.fee + l.tax <= l.full

\* A request in the middle of an order has a line left to price, and a rule that
\* was right when it was picked.
QuoteFits(q) ==
  /\ q.at \in {"rule", "price"} => Len(q.lines) < Len(q.order)
  /\ q.at = "price" => q.picked \in Picks /\ MostSpecific(q.picked.rule, q.picked.seen)
  /\ \A i \in DOMAIN q.lines : LineRight(q.lines[i])

SumsRight(p) ==
  /\ p.total = SumFunctionOnSet([t \in p.taxes |-> t.full], p.taxes)
  /\ p.tax = SumFunctionOnSet([t \in p.taxes |-> t.tax], p.taxes)

QuoteInv ==
  /\ RulesInv
  /\ prices \in [Goods -> [base : Nat, live : BOOLEAN, offer : Nat]]
  /\ fromNet \in BOOLEAN
  /\ quotes \in [Buyers -> QuoteRows]
  /\ \A b \in Buyers : QuoteFits(quotes[b])
  /\ sales \subseteq Purchases
  /\ \A p \in sales : SumsRight(p) /\ \A i \in DOMAIN p.lines : LineRight(p.lines[i])

LEMMA Quotient ==
  ASSUME NEW a \in Nat, NEW b \in Nat, b > 0
  PROVE  a \div b \in Nat /\ (a \div b) * b <= a
  OBVIOUS

LEMMA Cancel ==
  ASSUME NEW a \in Nat, NEW b \in Nat, NEW k \in Nat, k > 0, a * k <= b * k
  PROVE  a <= b
<1>1. ASSUME a > b PROVE FALSE
  <2>1. a * k >= (b + 1) * k
    BY <1>1
  <2>2. (b + 1) * k = b * k + k
    OBVIOUS
  <2>3. a * k \in Nat /\ b * k \in Nat
    OBVIOUS
  <2> QED BY <2>1, <2>2, <2>3
<1> QED BY <1>1

\* The fee and the tax of a line leave something of its price.
LEMMA LineLeaves ==
  ASSUME NEW full \in Nat, NEW rate \in Nat, NEW rule,
         rule = General \/ rule.percent \in Nat, fromNet \in BOOLEAN
  PROVE  /\ TaxOf(full, rate) \in Nat /\ Commission(full, rate, rule) \in Nat
         /\ (rule # General => rule.percent * (100 + rate) <= 10000)
              => Commission(full, rate, rule) + TaxOf(full, rate) <= full
<1> DEFINE x == PercentOf(rule)
           t == TaxOf(full, rate)
           c == Commission(full, rate, rule)
           base == IF fromNet THEN full - t ELSE full
<1>1. x \in Nat /\ 100 + rate \in Nat /\ 100 + rate > 0
  BY DEF PercentOf
<1>2. rate * full \in Nat /\ t = (rate * full) \div (100 + rate)
  BY DEF TaxOf
<1>3. t \in Nat /\ t * (100 + rate) <= rate * full
  <2> HIDE DEF t
  <2> QED BY <1>1, <1>2, Quotient
<1>4. rate * full <= (100 + rate) * full
  OBVIOUS
<1>5. t <= full
  <2> HIDE DEF t
  <2>1. t * (100 + rate) <= full * (100 + rate)
    BY <1>3, <1>4
  <2> QED BY <1>1, <1>3, <2>1, Cancel
<1>6. base \in Nat /\ base <= full /\ base * x \in Nat
  <2> HIDE DEF t, x
  <2> QED BY <1>1, <1>3, <1>5
<1>7. c = (base * x) \div 100
  BY DEF Commission
<1> HIDE DEF t, c, x, base
<1>8. c \in Nat /\ c * 100 <= base * x
  BY <1>6, <1>7, Quotient
<1>9. ASSUME rule # General => rule.percent * (100 + rate) <= 10000
      PROVE  c + t <= full
  <2>1. x * (100 + rate) <= 10000
    BY <1>9 DEF PercentOf, x
  <2>2. base * x <= full * x
    BY <1>1, <1>6
  <2>3. c * 100 <= full * x
    BY <1>1, <1>6, <1>8, <2>2
  <2>4. (c * 100) * (100 + rate) <= (full * x) * (100 + rate)
    BY <1>1, <1>8, <2>3
  <2>5. (full * x) * (100 + rate) = full * (x * (100 + rate))
    BY <1>1
  <2>6. full * (x * (100 + rate)) <= full * 10000
    BY <1>1, <2>1
  <2>7. c * (100 + rate) <= full * 100
    <3>1. (c * 100) * (100 + rate) = (c * (100 + rate)) * 100
      BY <1>1, <1>8
    <3>2. c * (100 + rate) \in Nat
      BY <1>1, <1>8
    <3> QED BY <1>1, <1>8, <2>4, <2>5, <2>6, <3>1, <3>2
  <2>8. (c + t) * (100 + rate) <= full * (100 + rate)
    BY <1>1, <1>3, <1>8, <2>7
  <2>9. c + t \in Nat
    BY <1>3, <1>8
  <2> QED BY <1>1, <2>8, <2>9, Cancel
<1> QED BY <1>3, <1>8, <1>9 DEF t, c

\* The taxes kept with a purchase add up to its totals.
LEMMA MergedTaxesAddUp ==
  ASSUME NEW ls \in Seq(LineRows)
  PROVE  /\ Total(ls) \in Nat /\ TaxTotal(ls) \in Nat /\ MergedTaxes(ls) \in SUBSET TaxRows
         /\ Total(ls) = SumFunctionOnSet([t \in MergedTaxes(ls) |-> t.full], MergedTaxes(ls))
         /\ TaxTotal(ls) = SumFunctionOnSet([t \in MergedTaxes(ls) |-> t.tax], MergedTaxes(ls))
<1> DEFINE S == DOMAIN ls
           Of(x) == {i \in S : ls[i].rate = x}
           TaxRow(x) == [rate |-> x, full |-> FullOf(ls, Of(x)), tax |-> TaxIn(ls, Of(x))]
           full == [i \in S |-> ls[i].full]
           tax == [i \in S |-> ls[i].tax]
           T == MergedTaxes(ls)
           k == [t \in T |-> Of(t.rate)]
<1>1. /\ S = 1..Len(ls) /\ Len(ls) \in Nat
      /\ \A i \in S : /\ ls[i].full \in Nat /\ ls[i].tax \in Nat /\ ls[i].rate \in Nat
  <2>1. S = 1..Len(ls) /\ Len(ls) \in Nat /\ \A i \in 1..Len(ls) : ls[i] \in LineRows
    BY ElementOfSeq, LenProperties
  <2> QED BY <2>1 DEF LineRows
<1>2. IsFiniteSet(S)
  <2>1. IsFiniteSet(1..Len(ls))
    BY <1>1, FS_Interval
  <2> HIDE DEF S
  <2> QED BY <1>1, <2>1
<1>3. \A i \in S : full[i] \in Nat /\ tax[i] \in Nat
  BY <1>1
<1>4. T = {TaxRow(x) : x \in {ls[i].rate : i \in S}}
  BY DEF MergedTaxes
<1>5. \A U : FullOf(ls, U) = SumFunctionOnSet(full, U) /\ TaxIn(ls, U) = SumFunctionOnSet(tax, U)
  BY DEF FullOf, TaxIn
<1>6. \A x : IsFiniteSet(Of(x)) /\ Of(x) \subseteq S
  BY <1>2, FS_Subset
<1>7. ASSUME NEW U \in SUBSET S
      PROVE  SumFunctionOnSet(full, U) \in Nat /\ SumFunctionOnSet(tax, U) \in Nat
  <2>1. IsFiniteSet(U) /\ \A i \in U : full[i] \in Nat /\ tax[i] \in Nat
    BY <1>2, <1>3, FS_Subset
  <2> HIDE DEF full, tax, S
  <2> QED BY <2>1, SumNat
<1>8. \A x : /\ TaxRow(x).rate = x
             /\ TaxRow(x).full = SumFunctionOnSet(full, Of(x)) /\ TaxRow(x).full \in Nat
             /\ TaxRow(x).tax = SumFunctionOnSet(tax, Of(x)) /\ TaxRow(x).tax \in Nat
  <2> HIDE DEF full, tax, S, Of
  <2> QED BY <1>5, <1>6, <1>7
<1>9. \A i \in S : TaxRow(ls[i].rate) \in T
  <2> HIDE DEF TaxRow, T
  <2> QED BY <1>4
<1>10. T \in SUBSET TaxRows
  <2>1. ASSUME NEW x \in Nat PROVE TaxRow(x) \in TaxRows
    <3>1. FullOf(ls, Of(x)) \in Nat /\ TaxIn(ls, Of(x)) \in Nat
      <4> HIDE DEF full, tax, S, Of
      <4> QED BY <1>5, <1>6, <1>7
    <3> HIDE DEF Of
    <3> QED BY <3>1 DEF TaxRows
  <2> HIDE DEF TaxRow, T
  <2> QED BY <1>1, <1>4, <2>1
<1>11. IsFiniteSet(T)
  <2> DEFINE rowOf == [i \in S |-> TaxRow(ls[i].rate)]
  <2>1. rowOf \in [S -> T] /\ \A t \in T : \E i \in S : rowOf[i] = t
    <3> HIDE DEF TaxRow, T
    <3> QED BY <1>4
  <2> HIDE DEF S, T, rowOf
  <2>2. rowOf \in Surjection(S, T)
    BY <2>1 DEF Surjection
  <2> QED BY <1>2, <2>2, FS_Surjection
<1>12. ASSUME NEW t \in T
       PROVE  /\ t.full = SumFunctionOnSet(full, k[t])
              /\ t.tax = SumFunctionOnSet(tax, k[t])
              /\ k[t] = Of(t.rate) /\ t = TaxRow(t.rate)
  <2>1. PICK x : t = TaxRow(x)
    <3> HIDE DEF TaxRow, T
    <3> QED BY <1>4
  <2>2. t.rate = x
    <3> HIDE DEF TaxRow
    <3> QED BY <1>8, <2>1, Zenon
  <2>3. k[t] = Of(x)
    <3> HIDE DEF Of, T
    <3> QED BY <2>2
  <2> HIDE DEF TaxRow, Of, k, full, tax
  <2> QED BY <1>8, <2>1, <2>2, <2>3, Zenon
<1> DEFINE hf == [t \in T |-> t.full]
           ht == [t \in T |-> t.tax]
<1>13. /\ \A t \in T : hf[t] = SumFunctionOnSet(full, k[t])
       /\ \A t \in T : ht[t] = SumFunctionOnSet(tax, k[t])
  <2> HIDE DEF T, k, full, tax, S, TaxRow, Of
  <2> QED BY <1>12
<1>14. Total(ls) = SumFunctionOnSet(full, S) /\ TaxTotal(ls) = SumFunctionOnSet(tax, S)
  BY <1>5 DEF Total, TaxTotal
<1>15. /\ \A i \in S : full[i] \in Int /\ tax[i] \in Int
       /\ \A i \in S : \E t \in T : i \in k[t]
       /\ \A t \in T : k[t] \subseteq S
       /\ \A t \in T, u \in T, i \in S : i \in k[t] /\ i \in k[u] => t = u
  <2>1. \A i \in S : full[i] \in Int /\ tax[i] \in Int
    BY <1>3
  <2>2. \A t \in T, i \in S : i \in k[t] <=> ls[i].rate = t.rate
    <3>1. \A t \in T, i \in S : i \in Of(t.rate) <=> ls[i].rate = t.rate
      OBVIOUS
    <3>2. \A t \in T : k[t] = Of(t.rate)
      <4> HIDE DEF Of, T, k, S, TaxRow, full, tax
      <4> QED BY <1>12
    <3> HIDE DEF Of, T, k, S, TaxRow
    <3> QED BY <3>1, <3>2, ZenonT(30)
  <2>3. \A i \in S : \E t \in T : i \in k[t]
    <3> HIDE DEF Of, T, k, S, TaxRow
    <3> QED BY <1>8, <1>9, <2>2
  <2>4. \A t \in T : k[t] \subseteq S
    <3> HIDE DEF Of, T, k, S, TaxRow
    <3> QED BY <1>6, <1>12
  <2>5. \A t \in T, u \in T, i \in S : i \in k[t] /\ i \in k[u] => t = u
    <3>1. ASSUME NEW t \in T, NEW u \in T, t.rate = u.rate PROVE t = u
      <4> HIDE DEF Of, T, k, S, TaxRow
      <4> QED BY <1>12, <3>1, Zenon
    <3> HIDE DEF Of, T, k, S, TaxRow
    <3> QED BY <2>2, <3>1
  <2> QED BY <2>1, <2>3, <2>4, <2>5
<1>16. SumFunctionOnSet(full, S) \in Nat /\ SumFunctionOnSet(tax, S) \in Nat
  BY <1>7
<1> HIDE DEF S, T, k, full, tax, hf, ht
<1>17. SumFunctionOnSet(hf, T) = SumFunctionOnSet(full, S)
  BY <1>2, <1>11, <1>13, <1>15, SumByClass
<1>18. SumFunctionOnSet(ht, T) = SumFunctionOnSet(tax, S)
  BY <1>2, <1>11, <1>13, <1>15, SumByClass
<1>19. hf = [t \in T |-> t.full] /\ ht = [t \in T |-> t.tax]
  BY DEF hf, ht
<1>20. T = MergedTaxes(ls)
  BY DEF T
<1> QED BY <1>10, <1>14, <1>16, <1>17, <1>18, <1>19, <1>20, Zenon

LEMMA NoQuoteFits ==
  /\ NoQuote \in QuoteRows /\ QuoteFits(NoQuote)
  /\ NoQuote.lines = <<>> /\ Len(<<>>) = 0 /\ DOMAIN <<>> = {}
<1>1. /\ <<>> \in Seq(OrderRows) /\ <<>> \in Seq(LineRows)
      /\ DOMAIN <<>> = {} /\ Len(<<>>) = 0
  OBVIOUS
<1>2. NoQuote \in QuoteRows
  BY <1>1 DEF NoQuote, QuoteRows
<1> QED BY <1>1, <1>2 DEF NoQuote, QuoteFits

LEMMA QuoteStarts == QuoteInit => QuoteInv
<1> SUFFICES ASSUME QuoteInit PROVE QuoteInv
  OBVIOUS
<1>1. NoQuote \in QuoteRows /\ QuoteFits(NoQuote)
  BY NoQuoteFits
<1>2. quotes \in [Buyers -> QuoteRows] /\ \A b \in Buyers : QuoteFits(quotes[b])
  BY <1>1 DEF QuoteInit
<1>3. prices \in [Goods -> [base : Nat, live : BOOLEAN, offer : Nat]]
  BY QuoteAssumption DEF QuoteInit
<1> QED BY <1>2, <1>3, RulesStart DEF QuoteInit, QuoteInv

\* One request moves on.
LEMMA QuoteMoves ==
  ASSUME QuoteInv, NEW b \in Buyers, NEW q \in QuoteRows, QuoteFits(q),
         quotes' = [quotes EXCEPT ![b] = q], UNCHANGED <<rules, prices, fromNet>>,
         sales' \subseteq Purchases,
         \A p \in sales' : SumsRight(p) /\ \A i \in DOMAIN p.lines : LineRight(p.lines[i])
  PROVE  QuoteInv'
<1>1. RulesInv'
  BY DEF QuoteInv, RulesInv
<1>2. quotes' \in [Buyers -> QuoteRows] /\ \A c \in Buyers : QuoteFits(quotes'[c])
  BY DEF QuoteInv
<1> QED BY <1>1, <1>2 DEF QuoteInv

LEMMA BeginKeepsQuote ==
  ASSUME QuoteInv, NEW b \in Buyers, NEW o \in Orders, NEW s \in Sessions, BeginInit(b, o, s)
  PROVE  QuoteInv'
<1> DEFINE q == [NoQuote EXCEPT !.at = "rule", !.order = o, !.session = s]
<1>1. quotes' = [quotes EXCEPT ![b] = q] /\ UNCHANGED <<rules, prices, fromNet, sales>>
  BY DEF BeginInit
<1>2. o \in Seq(OrderRows) /\ Len(o) > 0
  <2>1. o \in Seq(OrderRows) /\ o # <<>>
    BY QuoteAssumption DEF OrderRows
  <2> QED BY <2>1, EmptySeq
<1>3. /\ q \in QuoteRows /\ q.at = "rule" /\ q.order = o /\ q.lines = <<>>
  <2>1. NoQuote \in QuoteRows /\ NoQuote.lines = <<>>
    BY NoQuoteFits
  <2> HIDE DEF NoQuote
  <2> QED BY <1>2, <2>1 DEF QuoteRows
<1> HIDE DEF q
<1>4. QuoteFits(q)
  BY <1>2, <1>3, NoQuoteFits DEF QuoteFits
<1> QED BY <1>1, <1>3, <1>4, QuoteMoves DEF QuoteInv

LEMMA FindKeepsQuote ==
  ASSUME QuoteInv, NEW b \in Buyers, FindRule(b)
  PROVE  QuoteInv'
<1> DEFINE g == Line(b).good
           seen == Matching(g.seller, g.class, General)
<1>1. PICK rule \in Chosen(g.seller, g.class, General) :
        quotes' = [quotes EXCEPT ![b].at = "price", ![b].picked = [rule |-> rule, seen |-> seen]]
  BY DEF FindRule
<1>2. quotes[b] \in QuoteRows /\ quotes[b].at = "rule" /\ QuoteFits(quotes[b]) /\ RulesInv
      /\ quotes \in [Buyers -> QuoteRows]
  BY DEF FindRule, QuoteInv
<1>3. MostSpecific(rule, seen) /\ rule \in RuleRows \cup {General} /\ seen \in SUBSET RuleRows
  BY <1>2, ChosenIsMostSpecific
<1> DEFINE pick == [rule |-> rule, seen |-> seen]
           q == [quotes[b] EXCEPT !.at = "price", !.picked = pick]
<1> HIDE DEF seen
<1>4. pick \in Picks /\ pick.rule = rule /\ pick.seen = seen
  BY <1>3 DEF Picks
<1>5. quotes' = [quotes EXCEPT ![b].at = "price", ![b].picked = pick]
  BY <1>1
<1> HIDE DEF pick
<1>6. quotes' = [quotes EXCEPT ![b] = q]
  BY <1>2, <1>5
<1>7. /\ q \in QuoteRows /\ q.at = "price" /\ q.picked = pick
      /\ q.order = quotes[b].order /\ q.lines = quotes[b].lines
  BY <1>2, <1>4 DEF QuoteRows
<1> HIDE DEF q
<1>8. QuoteFits(q)
  BY <1>2, <1>3, <1>4, <1>7 DEF QuoteFits
<1> QED BY <1>6, <1>7, <1>8, QuoteMoves DEF QuoteInv, FindRule

LEMMA PriceKeepsQuote ==
  ASSUME QuoteInv, NEW b \in Buyers, PriceLine(b)
  PROVE  QuoteInv'
<1> DEFINE q == quotes[b]
           l == Line(b)
           full == ActivePrice(l.good) * l.quantity
           line == [good |-> l.good, full |-> full, rate |-> l.good.rate,
                    tax |-> TaxOf(full, l.good.rate),
                    fee |-> Commission(full, l.good.rate, q.picked.rule),
                    rule |-> q.picked.rule, seen |-> q.picked.seen]
           point == IF Len(q.lines) + 1 = Len(q.order) THEN "save" ELSE "rule"
           next == [q EXCEPT !.lines = Append(@, line), !.picked = General, !.at = point]
<1>1. /\ quotes' = [quotes EXCEPT ![b] = IF ~Sellable(l.good) THEN NoQuote ELSE next]
      /\ UNCHANGED <<rules, prices, fromNet, sales>> /\ q.at = "price"
  <2>1. UNCHANGED <<rules, prices, fromNet, sales>> /\ q.at = "price"
    BY DEF PriceLine
  <2>2. quotes' = [quotes EXCEPT ![b] = IF ~Sellable(l.good) THEN NoQuote ELSE next]
    BY DEF PriceLine
  <2> QED BY <2>1, <2>2
<1>2. q \in QuoteRows /\ QuoteFits(q) /\ quotes \in [Buyers -> QuoteRows] /\ fromNet \in BOOLEAN
  BY DEF QuoteInv
<1>3. CASE ~Sellable(l.good)
  <2>1. quotes' = [quotes EXCEPT ![b] = NoQuote]
    BY <1>1, <1>3
  <2> QED BY <1>1, <2>1, NoQuoteFits, QuoteMoves DEF QuoteInv
<1>4. CASE Sellable(l.good)
  <2>1. /\ q.lines \in Seq(LineRows) /\ q.order \in Seq(OrderRows)
        /\ Len(q.lines) < Len(q.order)
        /\ q.picked \in Picks /\ MostSpecific(q.picked.rule, q.picked.seen)
        /\ \A i \in DOMAIN q.lines : LineRight(q.lines[i])
    BY <1>1, <1>2 DEF QuoteRows, QuoteFits
  <2>2. l \in OrderRows
    <3>1. Len(q.lines) + 1 \in 1..Len(q.order)
      BY <2>1, LenProperties
    <3> QED BY <2>1, <3>1, ElementOfSeq DEF Line
  <2>3. l.good \in Goods /\ l.quantity \in Nat
    BY <2>2 DEF OrderRows
  <2>4. l.good.rate \in Nat /\ l.good.rate # NoRate
    BY <1>4, <2>3, QuoteAssumption DEF Sellable
  <2>5. full \in Nat
    <3>1. ActivePrice(l.good) \in Nat
      BY <2>3 DEF ActivePrice, QuoteInv
    <3> HIDE DEF l
    <3> QED BY <2>3, <3>1
  <2>6. /\ q.picked.rule \in RuleRows \cup {General} /\ q.picked.seen \in SUBSET RuleRows
        /\ q.picked.rule # General => q.picked.rule.percent \in Percents
    BY <2>1 DEF Picks, RuleRows
  <2>7. q.picked.rule = General \/ q.picked.rule.percent \in Nat
    BY <2>6, QuoteAssumption
  <2> DEFINE tax == TaxOf(full, l.good.rate)
             fee == Commission(full, l.good.rate, q.picked.rule)
  <2>8. tax \in Nat /\ fee \in Nat /\ (RatesFit => fee + tax <= full)
    <3>1. RatesFit => (q.picked.rule # General => q.picked.rule.percent * (100 + l.good.rate) <= 10000)
      BY <2>3, <2>4, <2>6 DEF RatesFit
    <3> DEFINE rate == l.good.rate
               rule == q.picked.rule
    <3>2. /\ rate \in Nat /\ (rule = General \/ rule.percent \in Nat)
          /\ RatesFit => (rule # General => rule.percent * (100 + rate) <= 10000)
      BY <2>4, <2>7, <3>1
    <3> HIDE DEF full, l, q, rate, rule
    <3>3. /\ TaxOf(full, rate) \in Nat /\ Commission(full, rate, rule) \in Nat
          /\ RatesFit => Commission(full, rate, rule) + TaxOf(full, rate) <= full
      BY <1>2, <2>5, <3>2, LineLeaves
    <3> QED BY <3>3 DEF rate, rule
  <2>9. line = [good |-> l.good, full |-> full, rate |-> l.good.rate, tax |-> tax, fee |-> fee,
                rule |-> q.picked.rule, seen |-> q.picked.seen]
    OBVIOUS
  <2> HIDE DEF full, l, tax, fee, line
  <2>10. line \in LineRows
    <3> HIDE DEF q
    <3> QED BY <2>3, <2>4, <2>5, <2>6, <2>8, <2>9 DEF LineRows
  <2>11. LineRight(line)
    <3> HIDE DEF q
    <3> QED BY <2>1, <2>8, <2>9 DEF LineRight
  <2> DEFINE ls == Append(q.lines, line)
  <2>12. /\ ls \in Seq(LineRows) /\ Len(ls) = Len(q.lines) + 1 /\ Len(q.lines) \in Nat
         /\ Len(q.order) \in Nat /\ \A i \in DOMAIN ls : LineRight(ls[i])
    <3>1. /\ ls \in Seq(LineRows) /\ Len(ls) = Len(q.lines) + 1 /\ Len(q.lines) \in Nat
          /\ \A i \in 1..Len(q.lines) : ls[i] = q.lines[i]
          /\ ls[Len(q.lines) + 1] = line
          /\ DOMAIN ls = 1..(Len(q.lines) + 1) /\ DOMAIN q.lines = 1..Len(q.lines)
      BY <2>1, <2>10, AppendProperties, LenProperties
    <3>2. Len(q.order) \in Nat
      BY <2>1, LenProperties
    <3> HIDE DEF ls, q
    <3> QED BY <2>1, <2>11, <3>1, <3>2
  <2>13. next = [q EXCEPT !.lines = ls, !.picked = General, !.at = point]
    OBVIOUS
  <2> HIDE DEF ls, next
  <2>14. point \in {"rule", "save"} /\ (point = "rule" => Len(q.lines) + 1 # Len(q.order))
    OBVIOUS
  <2> HIDE DEF point
  <2>15. /\ next \in QuoteRows /\ next.at = point /\ next.lines = ls /\ next.order = q.order
    BY <1>2, <2>12, <2>13, <2>14 DEF QuoteRows
  <2>16. QuoteFits(next)
    <3> HIDE DEF q
    <3> QED BY <2>1, <2>12, <2>14, <2>15 DEF QuoteFits
  <2>17. quotes' = [quotes EXCEPT ![b] = next]
    BY <1>1, <1>4 DEF l
  <2> QED BY <1>1, <2>15, <2>16, <2>17, QuoteMoves DEF QuoteInv
<1> QED BY <1>3, <1>4

LEMMA SaveKeepsQuote ==
  ASSUME QuoteInv, NEW b \in Buyers, SavePurchase(b)
  PROVE  QuoteInv'
<1> DEFINE ls == quotes[b].lines
           sale == [buyer |-> b, session |-> quotes[b].session, open |-> TRUE, lines |-> ls,
                    total |-> Total(ls), tax |-> TaxTotal(ls), taxes |-> MergedTaxes(ls)]
<1>1. /\ sales' = sales \cup {sale} /\ quotes' = [quotes EXCEPT ![b] = NoQuote]
      /\ UNCHANGED <<rules, prices, fromNet>>
  BY DEF SavePurchase
<1>2. /\ ls \in Seq(LineRows) /\ quotes[b].session \in Sessions \cup {General}
      /\ \A i \in DOMAIN ls : LineRight(ls[i])
  BY DEF QuoteInv, QuoteRows, QuoteFits
<1> HIDE DEF ls
<1>3. sale \in Purchases
  BY <1>2, MergedTaxesAddUp DEF Purchases
<1>4. /\ sale.lines = ls /\ sale.total = Total(ls) /\ sale.tax = TaxTotal(ls)
      /\ sale.taxes = MergedTaxes(ls)
  OBVIOUS
<1> HIDE DEF sale
<1>5. SumsRight(sale)
  BY <1>2, <1>4, MergedTaxesAddUp, Zenon DEF SumsRight
<1>6. /\ sales' \subseteq Purchases
      /\ \A p \in sales' : SumsRight(p) /\ \A i \in DOMAIN p.lines : LineRight(p.lines[i])
  BY <1>1, <1>2, <1>3, <1>4, <1>5 DEF QuoteInv
<1>7. NoQuote \in QuoteRows /\ QuoteFits(NoQuote)
  BY NoQuoteFits
<1> QED BY <1>1, <1>6, <1>7, QuoteMoves

LEMMA SaleEndsKeepsQuote ==
  ASSUME QuoteInv, NEW p \in sales, SaleEnds(p)
  PROVE  QuoteInv'
<1> DEFINE closed == [p EXCEPT !.open = FALSE]
<1>1. sales' = (sales \ {p}) \cup {closed} /\ UNCHANGED <<rules, prices, fromNet, quotes>>
  BY DEF SaleEnds
<1>2. p \in Purchases /\ SumsRight(p) /\ \A i \in DOMAIN p.lines : LineRight(p.lines[i])
  BY DEF QuoteInv
<1>3. /\ closed \in Purchases /\ closed.lines = p.lines /\ closed.total = p.total
      /\ closed.tax = p.tax /\ closed.taxes = p.taxes
  BY <1>2 DEF Purchases
<1> HIDE DEF closed
<1>4. SumsRight(closed) /\ \A i \in DOMAIN closed.lines : LineRight(closed.lines[i])
  BY <1>2, <1>3, Zenon DEF SumsRight
<1>5. /\ sales' \subseteq Purchases
      /\ \A s \in sales' : SumsRight(s) /\ \A i \in DOMAIN s.lines : LineRight(s.lines[i])
  BY <1>1, <1>3, <1>4 DEF QuoteInv
<1>6. RulesInv'
  BY <1>1 DEF QuoteInv, RulesInv
<1> QED BY <1>1, <1>5, <1>6 DEF QuoteInv

LEMMA EditsKeepQuote ==
  ASSUME QuoteInv, RulesInv',
         \/ \E i \in RuleIds : \/ RemoveRule(i)
                               \/ \E s \in Sellers \cup {General}, c \in ItemClasses \cup {General},
                                     p \in Platforms \cup {General}, x \in Percents :
                                    SaveRule(i, s, c, p, x)
         \/ \E g \in Goods : PriceEnds(g) \/ \E p \in Prices : SetDefaultPrice(g, p)
  PROVE  QuoteInv'
<1>1. UNCHANGED <<fromNet, quotes, sales>>
  BY DEF RemoveRule, SaveRule, PriceEnds, SetDefaultPrice
<1>2. prices' \in [Goods -> [base : Nat, live : BOOLEAN, offer : Nat]]
  <2>1. ASSUME NEW g \in Goods, PriceEnds(g) PROVE prices' \in [Goods -> [base : Nat, live : BOOLEAN, offer : Nat]]
    <3>1. prices \in [Goods -> [base : Nat, live : BOOLEAN, offer : Nat]]
      BY DEF QuoteInv
    <3> DEFINE r == prices[g]
    <3>2. r \in [base : Nat, live : BOOLEAN, offer : Nat]
      BY <3>1
    <3>3. /\ [r EXCEPT !.live = FALSE] \in [base : Nat, live : BOOLEAN, offer : Nat]
          /\ [r EXCEPT !.base = 0, !.live = FALSE] \in [base : Nat, live : BOOLEAN, offer : Nat]
          /\ [r EXCEPT !.offer = 0] \in [base : Nat, live : BOOLEAN, offer : Nat]
      BY <3>2
    <3>4. \/ prices' = [prices EXCEPT ![g] = [r EXCEPT !.live = FALSE]]
          \/ prices' = [prices EXCEPT ![g] = [r EXCEPT !.base = 0, !.live = FALSE]]
          \/ prices' = [prices EXCEPT ![g] = [r EXCEPT !.offer = 0]]
      BY <2>1, <3>1 DEF PriceEnds
    <3> HIDE DEF r
    <3> QED BY <3>1, <3>3, <3>4
  <2>2. ASSUME NEW g \in Goods, NEW p \in Prices, SetDefaultPrice(g, p)
        PROVE  prices' \in [Goods -> [base : Nat, live : BOOLEAN, offer : Nat]]
    BY <2>2, QuoteAssumption DEF SetDefaultPrice, QuoteInv
  <2>3. CASE UNCHANGED prices
    BY <2>3 DEF QuoteInv
  <2> QED BY <2>1, <2>2, <2>3 DEF RemoveRule, SaveRule
<1> QED BY <1>1, <1>2 DEF QuoteInv

LEMMA QuoteStep == QuoteInv /\ [QuoteNext]_oqVars => QuoteInv'
<1> SUFFICES ASSUME QuoteInv, [QuoteNext]_oqVars PROVE QuoteInv'
  OBVIOUS
<1>1. RulesInv'
  <2>1. CASE QuoteNext
    BY <2>1, QuoteKeepsRules DEF QuoteInv
  <2>2. CASE UNCHANGED oqVars
    BY <2>2 DEF QuoteInv, RulesInv, oqVars
  <2> QED BY <2>1, <2>2
<1>2. CASE UNCHANGED oqVars
  BY <1>1, <1>2 DEF QuoteInv, oqVars
<1>3. CASE QuoteNext
  BY <1>1, <1>3, EditsKeepQuote, BeginKeepsQuote, FindKeepsQuote, PriceKeepsQuote,
     SaveKeepsQuote, SaleEndsKeepsQuote DEF QuoteNext
<1> QED BY <1>2, <1>3

\* A purchase meanwhile, or a sale of an external platform.
LEMMA QuoteInvHolds == ExternalSpec => []QuoteInv
<1>1. QuoteInv /\ [ExternalNext \/ (QuoteNext /\ UNCHANGED esVars)]_<<esVars, oqVars>> => QuoteInv'
  <2> SUFFICES ASSUME QuoteInv,
                      [ExternalNext \/ (QuoteNext /\ UNCHANGED esVars)]_<<esVars, oqVars>>
               PROVE  QuoteInv'
    OBVIOUS
  <2>1. [QuoteNext]_oqVars
    BY DEF ExternalNext, SwitchPlatform, BeginRecord, LockPlatform, Resolve, CommitRecord,
           PostRecord, RecorderCrashes
  <2> QED BY <2>1, QuoteStep
<1> QED BY <1>1, QuoteStarts, PTL DEF ExternalSpec

\* Every line of a purchase and of an external sale is charged by a rule that no
\* other rule in force was more specific than, and taxes and fees of a purchase add
\* up, where no commission takes more than the tax leaves (fetchOneForCalculation,
\* mergeTaxesByPercent).
THEOREM QuoteIsRightHolds ==
    ASSUME RatesFit PROVE ExternalSpec => []QuoteIsRight
<1>1. QuoteInv /\ ExternalInv => QuoteIsRight
  <2>1. QuoteInv => \A p \in sales : /\ \A i \in DOMAIN p.lines : MostSpecific(p.lines[i].rule, p.lines[i].seen)
                                     /\ TaxesAddUp(p)
    BY DEF QuoteInv, LineRight, SumsRight, TaxesAddUp
  <2>2. ExternalInv => \A i \in DOMAIN recorded : MostSpecific(recorded[i].rule, recorded[i].seen)
    BY DEF ExternalInv, RecordedRight
  <2> QED BY <2>1, <2>2 DEF QuoteIsRight
<1> QED BY <1>1, ExternalInvHolds, QuoteInvHolds, PTL

-----------------------------------------------------------------------------
(* Invoices.  As long as requests come one after the other, the last thing    *)
(* said about an order (the last event on the wire, or else its row) is true  *)
(* of its invoices whenever no count is under way.                            *)

InvoiceStates == {"none", "draft", "final", "removed"}
DeskPoints ==
  {"idle", "create", "update", "delete", "finalize", "save", "remove", "write final",
   "commit", "counting"}
ToldRows == [count : {Cardinality(S) : S \in SUBSET InvoiceIds}, final : BOOLEAN]
DeskRows ==
  [at : DeskPoints, kind : RequestKinds \cup {"none"}, invoice : InvoiceIds \cup {NoInvoice},
   no : Nat]
CountRows ==
  [no : Nat, order : DeskOrders, at : {"find"}]
    \cup [no : Nat, order : DeskOrders, at : {"emit"}, row : ToldRows]

\* A request is at the points of its kind, about an invoice.
DeskFits(r) ==
  r.at # "idle" =>
    /\ r.invoice \in InvoiceIds
    /\ r.at = "create" => r.kind = "create"
    /\ r.at = "remove" => r.kind = "delete"
    /\ r.at \in {"finalize", "write final", "commit"} => r.kind = "finalize"
    /\ r.at \in {"update", "delete"} => r.kind = r.at
    /\ r.at = "save" => r.kind = "update"

DeskTypeOK ==
  /\ invoices \in [InvoiceIds -> InvoiceStates]
  /\ orderOf \in [InvoiceIds -> DeskOrders]
  /\ orderRow \in [DeskOrders -> ToldRows]
  /\ desk \in [DeskCalls -> DeskRows]
  /\ \A c \in DeskCalls : DeskFits(desk[c])
  /\ counting \subseteq CountRows
  /\ wire \in Seq([order : DeskOrders, row : ToldRows])
  /\ served \in Nat
  /\ overlapped \in BOOLEAN

\* What a row says of an order is so.
TrueOf(row, o) == row.count = Cardinality(InvoicesOf(o)) /\ (row.final => HasFinal(o))

\* The last event about the order, or its row when there is none, is true.
LastIsTrue(o) ==
  /\ \A k \in DOMAIN wire :
       wire[k].order = o /\ (\A j \in DOMAIN wire : j > k => wire[j].order # o)
         => TrueOf(wire[k].row, o)
  /\ (\A k \in DOMAIN wire : wire[k].order # o) => TrueOf(orderRow[o], o)

\* One request, one count of its own.
OneAtATime ==
  /\ \A c, d \in DeskCalls : ~Free(c) /\ ~Free(d) => c = d
  /\ \A e, f \in counting : e = f
  /\ \A e \in counting, c \in DeskCalls :
       ~Free(c) => desk[c].at \in {"counting", "commit"} /\ desk[c].no = e.no
  /\ \A c \in DeskCalls : desk[c].at = "counting" => counting # {}
  /\ \A c \in DeskCalls : desk[c].at = "create" => invoices[desk[c].invoice] = "none"
  /\ \A c \in DeskCalls : desk[c].at \in {"save", "remove", "write final", "commit"}
                            => invoices[desk[c].invoice] = "draft"

\* A count under way is about to correct what is said of its order.
ToldRight ==
  \A o \in DeskOrders :
    /\ (\A e \in counting : e.order # o) => LastIsTrue(o)
    /\ \A e \in counting : e.at = "emit" /\ e.order = o => TrueOf(e.row, o)

DeskInv ==
  /\ DeskTypeOK
  /\ ~overlapped => OneAtATime /\ ToldRight

LEMMA DeskStarts == DeskInit => DeskInv
<1> SUFFICES ASSUME DeskInit PROVE DeskInv
  OBVIOUS
<1>1. Cardinality({}) = 0 /\ \A o : InvoicesOf(o) = {}
  BY FS_EmptySet DEF DeskInit, InvoicesOf, Present
<1>2. 0 \in {Cardinality(S) : S \in SUBSET InvoiceIds}
  BY <1>1
<1>3. orderRow \in [DeskOrders -> ToldRows] /\ \A o \in DeskOrders : TrueOf(orderRow[o], o)
  BY <1>1, <1>2 DEF DeskInit, ToldRows, TrueOf
<1>4. NoRequest \in DeskRows /\ NoRequest.at = "idle"
  BY DEF NoRequest, DeskRows, DeskPoints
<1>5. wire \in Seq([order : DeskOrders, row : ToldRows]) /\ DOMAIN wire = {}
  BY DEF DeskInit
<1>6. DeskTypeOK
  BY <1>3, <1>4, <1>5 DEF DeskInit, DeskTypeOK, DeskFits, InvoiceStates
<1>7. OneAtATime
  BY <1>4 DEF DeskInit, OneAtATime, Free
<1>8. ToldRight
  BY <1>3, <1>5 DEF DeskInit, ToldRight, LastIsTrue
<1> QED BY <1>6, <1>7, <1>8 DEF DeskInv

\* A request goes on to a point of its kind, or ends.
LEMMA DeskMoves ==
  ASSUME DeskTypeOK, NEW c \in DeskCalls, NEW at \in DeskPoints,
         Goto(c, at), DeskFits([desk[c] EXCEPT !.at = at])
  PROVE  /\ desk' \in [DeskCalls -> DeskRows] /\ \A d \in DeskCalls : DeskFits(desk'[d])
         /\ desk'[c].at = at /\ desk'[c].invoice = desk[c].invoice /\ desk'[c].no = desk[c].no
         /\ \A d \in DeskCalls : d # c => desk'[d] = desk[d]
<1> DEFINE r == [desk[c] EXCEPT !.at = at]
<1>1. desk \in [DeskCalls -> DeskRows] /\ desk' = [desk EXCEPT ![c] = r]
  BY DEF DeskTypeOK, Goto
<1>2. r \in DeskRows /\ r.at = at /\ r.invoice = desk[c].invoice /\ r.no = desk[c].no
  BY <1>1 DEF DeskRows
<1>3. DeskFits(r)
  OBVIOUS
<1> HIDE DEF r
<1> QED BY <1>1, <1>2, <1>3 DEF DeskTypeOK

LEMMA DeskEnds ==
  ASSUME DeskTypeOK, NEW c \in DeskCalls, Done(c)
  PROVE  /\ desk' \in [DeskCalls -> DeskRows] /\ \A d \in DeskCalls : DeskFits(desk'[d])
         /\ desk'[c].at = "idle"
         /\ \A d \in DeskCalls : d # c => desk'[d] = desk[d]
<1>1. NoRequest \in DeskRows /\ NoRequest.at = "idle" /\ DeskFits(NoRequest)
  BY DEF NoRequest, DeskRows, DeskPoints, DeskFits
<1> HIDE DEF NoRequest
<1> QED BY <1>1 DEF DeskTypeOK, Done

\* The step leaves invoices and what is told of orders alone.
LEMMA NothingTold ==
  ASSUME ToldRight, UNCHANGED <<invoices, orderOf, orderRow, wire, counting>>
  PROVE  ToldRight'
  BY DEF ToldRight, LastIsTrue, TrueOf, InvoicesOf, HasFinal, Present

LEMMA ArriveKeepsDesk ==
  ASSUME DeskInv, NEW c \in DeskCalls, NEW kind \in RequestKinds, NEW i \in InvoiceIds,
         Arrive(c, kind, i)
  PROVE  DeskInv'
<1> DEFINE r == [at |-> kind, kind |-> kind, invoice |-> i, no |-> served + 1]
<1>1. /\ desk' = [desk EXCEPT ![c] = r] /\ served' = served + 1
      /\ overlapped' = (overlapped \/ counting # {} \/ \E d \in DeskCalls : ~Free(d))
      /\ UNCHANGED <<invoices, orderOf, orderRow, counting, wire>>
      /\ kind = "create" => invoices[i] = "none"
  BY DEF Arrive
<1>2. /\ r \in DeskRows /\ DeskFits(r) /\ r.at = kind /\ r.invoice = i
      /\ kind \in {"create", "update", "delete", "finalize"}
  <2>1. served + 1 \in Nat
    BY DEF DeskInv, DeskTypeOK
  <2> QED BY <2>1 DEF DeskRows, DeskPoints, RequestKinds, DeskFits
<1> HIDE DEF r
<1>3. DeskTypeOK'
  BY <1>1, <1>2 DEF DeskInv, DeskTypeOK
<1>4. ASSUME ~overlapped' PROVE OneAtATime' /\ ToldRight'
  <2>1. ~overlapped /\ counting = {} /\ \A d \in DeskCalls : Free(d)
    BY <1>1, <1>4
  <2>2. ToldRight'
    BY <1>1, <2>1, NothingTold DEF DeskInv
  <2>3. desk'[c] = r /\ \A d \in DeskCalls : d # c => desk'[d].at = "idle"
    BY <1>1, <2>1 DEF DeskInv, DeskTypeOK, Free
  <2>4. OneAtATime'
    BY <1>1, <1>2, <2>1, <2>3 DEF OneAtATime, Free
  <2> QED BY <2>2, <2>4
<1> QED BY <1>3, <1>4 DEF DeskInv

\* A request that is not counted yet is alone.
LEMMA Alone ==
  ASSUME OneAtATime, NEW c \in DeskCalls, desk[c].at \notin {"idle", "counting", "commit"}
  PROVE  counting = {} /\ \A d \in DeskCalls : d # c => desk[d].at = "idle"
<1>1. ~Free(c)
  BY DEF Free
<1>2. \A e \in counting : desk[c].at \in {"counting", "commit"}
  BY <1>1 DEF OneAtATime
<1>3. \A d \in DeskCalls : d # c => Free(d)
  BY <1>1 DEF OneAtATime
<1> QED BY <1>2, <1>3 DEF Free

\* A request that moves on by itself, with no count under way.
LEMMA QuietMove ==
  ASSUME DeskInv, DeskTypeOK', NEW c \in DeskCalls,
         UNCHANGED <<invoices, orderOf, orderRow, counting, wire, overlapped>>,
         desk[c].at \notin {"idle", "counting", "commit"},
         \A d \in DeskCalls : d # c => desk'[d] = desk[d],
         desk'[c].at \notin {"create", "counting"},
         desk'[c].at \in {"save", "remove", "write final", "commit"}
            => invoices[desk'[c].invoice] = "draft"
  PROVE  DeskInv'
<1>1. ASSUME ~overlapped' PROVE OneAtATime' /\ ToldRight'
  <2>1. OneAtATime /\ ToldRight
    BY <1>1 DEF DeskInv
  <2>2. ToldRight'
    BY <2>1, NothingTold
  <2>3. counting = {} /\ \A d \in DeskCalls : d # c => desk'[d].at = "idle"
    BY <2>1, Alone
  <2>4. OneAtATime'
    BY <2>3 DEF OneAtATime, Free
  <2> QED BY <2>2, <2>4
<1> QED BY <1>1 DEF DeskInv

LEMMA LoadsKeepDesk ==
  ASSUME DeskInv, NEW c \in DeskCalls, Load(c) \/ LoadToFinalize(c)
  PROVE  DeskInv'
<1>1. /\ UNCHANGED <<invoices, orderOf, orderRow, counting, wire, served, overlapped>>
      /\ desk[c].at \in {"update", "delete", "finalize"} /\ DeskTypeOK
      /\ DeskFits(desk[c]) /\ desk[c] \in DeskRows
  BY DEF Load, LoadToFinalize, DeskInv, DeskTypeOK
<1>2. CASE Done(c)
  <2>1. DeskTypeOK'
    BY <1>1, <1>2, DeskEnds DEF DeskTypeOK
  <2> QED BY <1>1, <1>2, <2>1, DeskEnds, QuietMove
<1>3. ASSUME NEW at \in {"save", "remove", "write final"}, Goto(c, at),
             invoices[desk[c].invoice] = "draft",
             at = "save" => desk[c].kind = "update",
             at = "remove" => desk[c].kind = "delete",
             at = "write final" => desk[c].kind = "finalize"
      PROVE  DeskInv'
  <2>1. at \in DeskPoints
    BY DEF DeskPoints
  <2>2. DeskFits([desk[c] EXCEPT !.at = at])
    BY <1>1, <1>3 DEF DeskFits, DeskRows
  <2>3. /\ desk' \in [DeskCalls -> DeskRows] /\ \A d \in DeskCalls : DeskFits(desk'[d])
        /\ desk'[c].at = at /\ desk'[c].invoice = desk[c].invoice
        /\ \A d \in DeskCalls : d # c => desk'[d] = desk[d]
    BY <1>1, <1>3, <2>1, <2>2, DeskMoves
  <2>4. DeskTypeOK'
    BY <1>1, <2>3 DEF DeskTypeOK
  <2> QED BY <1>1, <1>3, <2>3, <2>4, QuietMove
<1>4. CASE Load(c)
  <2>1. CASE invoices[desk[c].invoice] = "draft" /\ desk[c].kind = "update"
    BY <1>3, <1>4, <2>1 DEF Load
  <2>2. CASE invoices[desk[c].invoice] = "draft" /\ desk[c].kind # "update"
    <3>1. desk[c].kind = "delete"
      BY <1>1, <1>4, <2>2 DEF Load, DeskFits
    <3> QED BY <1>3, <1>4, <2>2, <3>1 DEF Load
  <2> QED BY <1>2, <1>4, <2>1, <2>2 DEF Load
<1>5. CASE LoadToFinalize(c)
  <2>1. desk[c].kind = "finalize"
    BY <1>1, <1>5 DEF LoadToFinalize, DeskFits
  <2> QED BY <1>2, <1>3, <1>5, <2>1 DEF LoadToFinalize
<1> QED BY <1>4, <1>5

LEMMA SaveKeepsDesk ==
  ASSUME DeskInv, NEW c \in DeskCalls, SaveUpdate(c)
  PROVE  DeskInv'
<1>1. /\ desk[c].at = "save" /\ DeskTypeOK /\ Done(c)
      /\ invoices' = [invoices EXCEPT ![desk[c].invoice] = "draft"]
      /\ UNCHANGED <<orderOf, orderRow, counting, wire, served, overlapped>>
  BY DEF SaveUpdate, DeskInv
<1>2. DeskTypeOK'
  BY <1>1, DeskEnds DEF DeskTypeOK, InvoiceStates
<1>3. CASE overlapped
  BY <1>1, <1>2, <1>3 DEF DeskInv
<1>4. CASE ~overlapped
  <2>1. invoices[desk[c].invoice] = "draft"
    BY <1>1, <1>4 DEF DeskInv, OneAtATime
  <2>2. UNCHANGED invoices
    BY <1>1, <2>1 DEF DeskTypeOK
  <2> QED BY <1>1, <1>2, <2>2, DeskEnds, QuietMove
<1> QED BY <1>3, <1>4

\* The invoices of other orders are as they were.
LEMMA OthersTold ==
  ASSUME NEW o, \A i \in InvoiceIds : orderOf[i] = o => invoices'[i] = invoices[i],
         UNCHANGED <<orderOf, orderRow, wire>>, LastIsTrue(o)
  PROVE  LastIsTrue(o)'
<1>1. InvoicesOf(o)' = InvoicesOf(o)
  BY DEF InvoicesOf, Present
<1>2. \A i \in InvoicesOf(o) : invoices'[i] = invoices[i]
  BY DEF InvoicesOf, Present
<1>3. HasFinal(o)' = HasFinal(o)
  BY <1>1, <1>2 DEF HasFinal
<1> QED BY <1>1, <1>3 DEF LastIsTrue, TrueOf

\* The change is made and its count started.
LEMMA CountKeepsDesk ==
  ASSUME DeskInv, NEW c \in DeskCalls, NEW at \in {"counting", "commit"},
         desk[c].at \in {"create", "remove", "write final"}, Goto(c, at),
         at = "commit" => /\ desk[c].kind = "finalize" /\ UNCHANGED invoices
                          /\ invoices[desk[c].invoice] = "draft" \/ overlapped,
         StartCount(c, desk[c].invoice),
         invoices' \in [InvoiceIds -> InvoiceStates],
         \A i \in InvoiceIds : i # desk[c].invoice => invoices'[i] = invoices[i],
         UNCHANGED <<orderOf, orderRow, wire, served, overlapped>>
  PROVE  DeskInv'
<1> DEFINE i == desk[c].invoice
           e == [no |-> desk[c].no, order |-> orderOf[i], at |-> "find"]
<1>1. DeskTypeOK /\ DeskFits(desk[c]) /\ desk[c] \in DeskRows
  BY DEF DeskInv, DeskTypeOK
<1>2. desk[c].kind \in Announcing /\ i \in InvoiceIds
  BY <1>1 DEF DeskFits, Announcing
<1>3. counting' = counting \cup {e} /\ e \in CountRows /\ e.no = desk[c].no
      /\ e.order = orderOf[i] /\ e.at = "find"
  BY <1>1, <1>2 DEF StartCount, CountRows, DeskRows, DeskTypeOK
<1>4. /\ desk' \in [DeskCalls -> DeskRows] /\ \A d \in DeskCalls : DeskFits(desk'[d])
      /\ desk'[c].at = at /\ desk'[c].invoice = i /\ desk'[c].no = desk[c].no
      /\ \A d \in DeskCalls : d # c => desk'[d] = desk[d]
  <2>1. at \in DeskPoints
    BY DEF DeskPoints
  <2>2. DeskFits([desk[c] EXCEPT !.at = at])
    BY <1>1, <1>2 DEF DeskFits, DeskRows
  <2> QED BY <1>1, <2>1, <2>2, DeskMoves
<1>5. DeskTypeOK'
  BY <1>1, <1>3, <1>4 DEF DeskTypeOK
<1> HIDE DEF e
<1>6. ASSUME ~overlapped' PROVE OneAtATime' /\ ToldRight'
  <2>1. OneAtATime /\ ToldRight /\ ~overlapped
    BY <1>6 DEF DeskInv
  <2>2. counting = {} /\ \A d \in DeskCalls : d # c => desk[d].at = "idle"
    BY <2>1, Alone
  <2>3. counting' = {e} /\ \A d \in DeskCalls : d # c => desk'[d].at = "idle"
    BY <1>3, <1>4, <2>2
  <2>4. OneAtATime'
    BY <1>3, <1>4, <2>1, <2>3, ZenonT(30) DEF OneAtATime, Free
  <2>5. ASSUME NEW o \in DeskOrders, o # orderOf[i] PROVE LastIsTrue(o)'
    BY <2>1, <2>2, <2>5, OthersTold DEF ToldRight
  <2>6. ToldRight'
    BY <1>3, <2>3, <2>5 DEF ToldRight
  <2> QED BY <2>4, <2>6
<1> QED BY <1>5, <1>6 DEF DeskInv

LEMMA ChangesKeepDesk ==
  ASSUME DeskInv, NEW c \in DeskCalls, Create(c) \/ RemoveInvoice(c) \/ WriteFinal(c)
  PROVE  DeskInv'
<1>1. DeskTypeOK /\ DeskFits(desk[c])
  BY DEF DeskInv, DeskTypeOK
<1>2. CASE Create(c) \/ RemoveInvoice(c)
  <2>1. desk[c].kind \in Announcing /\ desk[c].invoice \in InvoiceIds
    BY <1>1, <1>2 DEF DeskFits, Announcing, Create, RemoveInvoice
  <2>2. /\ desk[c].at \in {"create", "remove"} /\ StartCount(c, desk[c].invoice)
        /\ Goto(c, "counting") /\ UNCHANGED <<orderOf, orderRow, wire, served, overlapped>>
        /\ \/ invoices' = [invoices EXCEPT ![desk[c].invoice] = "draft"]
           \/ invoices' = [invoices EXCEPT ![desk[c].invoice] = "removed"]
    BY <1>2, <2>1 DEF Create, RemoveInvoice, AwaitCount
  <2>3. /\ invoices' \in [InvoiceIds -> InvoiceStates]
        /\ \A i \in InvoiceIds : i # desk[c].invoice => invoices'[i] = invoices[i]
    BY <1>1, <2>2 DEF DeskTypeOK, InvoiceStates
  <2> QED BY <2>2, <2>3, CountKeepsDesk
<1>3. CASE WriteFinal(c)
  <2>1. /\ desk[c].at = "write final" /\ StartCount(c, desk[c].invoice) /\ Goto(c, "commit")
        /\ UNCHANGED <<invoices, orderOf, orderRow, wire, served, overlapped>>
    BY <1>3 DEF WriteFinal
  <2>2. desk[c].kind = "finalize" /\ (invoices[desk[c].invoice] = "draft" \/ overlapped)
    BY <1>1, <2>1 DEF DeskFits, DeskInv, OneAtATime
  <2> QED BY <1>1, <2>1, <2>2, CountKeepsDesk DEF DeskTypeOK
<1> QED BY <1>2, <1>3

\* A finalization adds a finalized invoice, and what was said stays true.
LEMMA CommitKeepsDesk ==
  ASSUME DeskInv, NEW c \in DeskCalls, CommitFinal(c)
  PROVE  DeskInv'
<1> DEFINE i == desk[c].invoice
<1>1. /\ desk[c].at = "commit" /\ Done(c) /\ DeskTypeOK /\ DeskFits(desk[c])
      /\ invoices' = [invoices EXCEPT ![i] = IF i \in Present THEN "final" ELSE @]
      /\ UNCHANGED <<orderOf, orderRow, counting, wire, served, overlapped>>
  BY DEF CommitFinal, DeskInv, DeskTypeOK
<1>2. i \in InvoiceIds
  BY <1>1 DEF DeskFits
<1>3. /\ desk' \in [DeskCalls -> DeskRows] /\ \A d \in DeskCalls : DeskFits(desk'[d])
      /\ desk'[c].at = "idle" /\ \A d \in DeskCalls : d # c => desk'[d] = desk[d]
  BY <1>1, DeskEnds
<1>4. DeskTypeOK'
  BY <1>1, <1>3 DEF DeskTypeOK, InvoiceStates
<1>5. /\ Present' = Present
      /\ \A j \in InvoiceIds : invoices[j] = "final" => invoices'[j] = "final"
  BY <1>1, <1>2 DEF DeskTypeOK, Present
<1>6. \A o : InvoicesOf(o)' = InvoicesOf(o)
  BY <1>1, <1>5 DEF InvoicesOf
<1>7. \A o : HasFinal(o) => HasFinal(o)'
  BY <1>5, <1>6 DEF HasFinal, InvoicesOf, Present
<1>8. ASSUME ~overlapped' PROVE OneAtATime' /\ ToldRight'
  <2>1. OneAtATime /\ ToldRight /\ ~Free(c)
    BY <1>1, <1>8 DEF DeskInv, Free
  <2>2. \A d \in DeskCalls : d # c => desk[d].at = "idle"
    BY <2>1 DEF OneAtATime, Free
  <2>3. \A d \in DeskCalls : desk'[d].at = "idle"
    BY <1>3, <2>2
  <2>4. OneAtATime'
    BY <1>1, <2>1, <2>3 DEF OneAtATime, Free
  <2>5. ToldRight'
    BY <1>1, <1>6, <1>7, <2>1 DEF ToldRight, LastIsTrue, TrueOf
  <2> QED BY <2>4, <2>5
<1> QED BY <1>4, <1>8 DEF DeskInv

\* The invoices stay as they are.
LEMMA SameTruth ==
  ASSUME UNCHANGED <<invoices, orderOf>>, NEW o
  PROVE  InvoicesOf(o)' = InvoicesOf(o) /\ HasFinal(o)' = HasFinal(o)
<1>1. InvoicesOf(o)' = InvoicesOf(o)
  BY DEF InvoicesOf, Present
<1> QED BY <1>1 DEF HasFinal

LEMMA FindKeepsDesk ==
  ASSUME DeskInv, NEW e \in counting, FindInvoices(e)
  PROVE  DeskInv'
<1> DEFINE row == [count |-> Cardinality(InvoicesOf(e.order)), final |-> HasFinal(e.order)]
           f == [no |-> e.no, order |-> e.order, at |-> "emit", row |-> row]
<1>1. /\ counting' = (counting \ {e}) \cup {f} /\ DeskTypeOK
      /\ UNCHANGED <<invoices, orderOf, orderRow, desk, wire, served, overlapped>>
  BY DEF FindInvoices, DeskInv
<1>2. e.order \in DeskOrders /\ e.no \in Nat
  BY <1>1 DEF DeskTypeOK, CountRows
<1>3. row \in ToldRows /\ TrueOf(row, e.order)
  <2>1. InvoicesOf(e.order) \in SUBSET InvoiceIds /\ HasFinal(e.order) \in BOOLEAN
    BY DEF InvoicesOf, Present, HasFinal
  <2>2. row \in ToldRows
    BY <2>1 DEF ToldRows
  <2> QED BY <2>2 DEF TrueOf
<1> HIDE DEF row
<1>4. f \in CountRows /\ f.no = e.no /\ f.order = e.order /\ f.row = row
  BY <1>2, <1>3 DEF CountRows
<1> HIDE DEF f
<1>5. DeskTypeOK'
  BY <1>1, <1>4 DEF DeskTypeOK
<1>6. ASSUME ~overlapped' PROVE OneAtATime' /\ ToldRight'
  <2>1. OneAtATime /\ ToldRight
    BY <1>1, <1>6 DEF DeskInv
  <2>2. counting = {e}
    BY <2>1 DEF OneAtATime
  <2>3. counting' = {f}
    BY <1>1, <2>2
  <2>4. OneAtATime'
    BY <1>1, <1>4, <2>1, <2>3, ZenonT(30) DEF OneAtATime, Free
  <2>5. ASSUME NEW o \in DeskOrders, o # e.order PROVE LastIsTrue(o)'
    BY <1>1, <2>1, <2>2, <2>5, SameTruth DEF ToldRight, LastIsTrue, TrueOf
  <2>6. ASSUME NEW g \in counting', NEW o \in DeskOrders, g.order = o PROVE TrueOf(g.row, o)'
    BY <1>1, <1>3, <1>4, <2>3, <2>6, SameTruth DEF TrueOf
  <2>7. ToldRight'
    BY <1>4, <2>3, <2>5, <2>6 DEF ToldRight
  <2> QED BY <2>4, <2>7
<1> QED BY <1>5, <1>6 DEF DeskInv

LEMMA EmitKeepsDesk ==
  ASSUME DeskInv, NEW e \in counting, EmitUpdated(e)
  PROVE  DeskInv'
<1> DEFINE event == [order |-> e.order, row |-> e.row]
           n == Len(wire)
<1>1. /\ e.at = "emit" /\ counting' = counting \ {e} /\ wire' = Append(wire, event)
      /\ desk' = [c \in DeskCalls |->
                    IF desk[c].at = "counting" /\ desk[c].no = e.no THEN NoRequest ELSE desk[c]]
      /\ UNCHANGED <<invoices, orderOf, orderRow, served, overlapped>> /\ DeskTypeOK
  BY DEF EmitUpdated, DeskInv
<1>2. e.order \in DeskOrders /\ e.row \in ToldRows
  BY <1>1 DEF DeskTypeOK, CountRows
<1>3. /\ event \in [order : DeskOrders, row : ToldRows] /\ event.order = e.order
      /\ event.row = e.row
  BY <1>2
<1> HIDE DEF event
<1>4. /\ n \in Nat /\ DOMAIN wire = 1..n /\ DOMAIN wire' = 1..(n + 1)
      /\ wire' \in Seq([order : DeskOrders, row : ToldRows])
      /\ wire'[n + 1] = event /\ \A k \in 1..n : wire'[k] = wire[k]
  BY <1>1, <1>3, AppendProperties, LenProperties DEF DeskTypeOK
<1> HIDE DEF n
<1>5. DeskTypeOK'
  <2>1. NoRequest \in DeskRows /\ DeskFits(NoRequest)
    BY DEF NoRequest, DeskRows, DeskPoints, DeskFits
  <2>2. desk' \in [DeskCalls -> DeskRows] /\ \A c \in DeskCalls : DeskFits(desk'[c])
    BY <1>1, <2>1 DEF DeskTypeOK
  <2> QED BY <1>1, <1>4, <2>2 DEF DeskTypeOK
<1>6. ASSUME ~overlapped' PROVE OneAtATime' /\ ToldRight'
  <2>1. OneAtATime /\ ToldRight
    BY <1>1, <1>6 DEF DeskInv
  <2>2. counting = {e} /\ counting' = {}
    BY <1>1, <2>1 DEF OneAtATime
  <2>3. \A c \in DeskCalls : desk'[c].at # "counting" /\ (desk'[c] = desk[c] \/ desk'[c].at = "idle")
    BY <1>1, <2>1, <2>2 DEF OneAtATime, Free, NoRequest
  <2>4. OneAtATime'
    BY <1>1, <2>1, <2>2, <2>3 DEF OneAtATime, Free
  <2>6. ASSUME NEW o \in DeskOrders PROVE LastIsTrue(o)'
    <3>1. CASE o = e.order
      <4>1. TrueOf(e.row, o)
        BY <1>1, <2>1, <3>1 DEF ToldRight
      <4> QED BY <1>1, <1>3, <1>4, <3>1, <4>1, SameTruth DEF LastIsTrue, TrueOf
    <3>2. CASE o # e.order
      <4>1. LastIsTrue(o)
        BY <2>1, <2>2, <3>2 DEF ToldRight
      <4>2. ASSUME NEW k \in DOMAIN wire', wire'[k].order = o,
                   \A j \in DOMAIN wire' : j > k => wire'[j].order # o
            PROVE  TrueOf(wire'[k].row, o)
        <5>1. k \in 1..n /\ wire'[k] = wire[k]
          BY <1>3, <1>4, <3>2, <4>2
        <5>2. \A j \in 1..n : j > k => wire[j].order # o
          BY <1>4, <4>2
        <5>3. TrueOf(wire[k].row, o)
          BY <1>4, <4>1, <4>2, <5>1, <5>2 DEF LastIsTrue
        <5> QED BY <5>1, <5>3
      <4>3. (\A k \in DOMAIN wire' : wire'[k].order # o) => TrueOf(orderRow[o], o)
        BY <1>4, <4>1 DEF LastIsTrue
      <4> QED BY <1>1, <4>2, <4>3, SameTruth DEF LastIsTrue, TrueOf
    <3> QED BY <3>1, <3>2
  <2>7. ToldRight'
    BY <2>2, <2>6 DEF ToldRight
  <2> QED BY <2>4, <2>7
<1> QED BY <1>5, <1>6 DEF DeskInv

\* The first event on the wire becomes the row of its order.
LEMMA HandleKeepsDesk ==
  ASSUME DeskInv, HandleInvoiceUpdated
  PROVE  DeskInv'
<1> DEFINE h == Head(wire)
           n == Len(wire)
<1>1. /\ wire # <<>> /\ wire' = Tail(wire) /\ DeskTypeOK
      /\ orderRow' = [orderRow EXCEPT ![h.order] = h.row]
      /\ UNCHANGED <<invoices, orderOf, desk, counting, served, overlapped>>
  BY DEF HandleInvoiceUpdated, DeskInv
<1>2. /\ n \in Nat /\ n >= 1 /\ DOMAIN wire = 1..n /\ h = wire[1]
      /\ h \in [order : DeskOrders, row : ToldRows]
      /\ wire' \in Seq([order : DeskOrders, row : ToldRows])
      /\ DOMAIN wire' = 1..(n - 1) /\ \A k \in 1..(n - 1) : wire'[k] = wire[k + 1]
  <2>1. wire \in Seq([order : DeskOrders, row : ToldRows])
    BY <1>1 DEF DeskTypeOK
  <2>2. Len(wire) \in Nat /\ Len(wire) # 0 /\ DOMAIN wire = 1..Len(wire) /\ Head(wire) = wire[1]
    BY <1>1, <2>1, EmptySeq, LenProperties
  <2>3. /\ h \in [order : DeskOrders, row : ToldRows]
        /\ wire' \in Seq([order : DeskOrders, row : ToldRows]) /\ Len(wire') = Len(wire) - 1
        /\ \A k \in 1..Len(wire') : wire'[k] = wire[k + 1]
    BY <1>1, <2>1, HeadTailProperties
  <2>4. DOMAIN wire' = 1..Len(wire')
    BY <2>3, LenProperties
  <2> QED BY <2>2, <2>3, <2>4
<1> HIDE DEF h, n
<1>3. h.order \in DeskOrders /\ h.row \in ToldRows
  BY <1>2
<1>4. DeskTypeOK'
  BY <1>1, <1>2, <1>3 DEF DeskTypeOK
<1>6. ASSUME NEW o \in DeskOrders, LastIsTrue(o) PROVE LastIsTrue(o)'
  <2>1. ASSUME NEW k \in DOMAIN wire', wire'[k].order = o,
               \A j \in DOMAIN wire' : j > k => wire'[j].order # o
        PROVE  TrueOf(wire'[k].row, o)
    <3>1. k \in 1..(n - 1) /\ k + 1 \in 1..n /\ wire'[k] = wire[k + 1]
      BY <1>2, <2>1
    <3>2. ASSUME NEW j \in 1..n, j > k + 1 PROVE wire[j].order # o
      <4>1. j - 1 \in 1..(n - 1) /\ j - 1 > k /\ (j - 1) + 1 = j
        BY <1>2, <3>1, <3>2
      <4> QED BY <1>2, <2>1, <4>1
    <3>3. TrueOf(wire[k + 1].row, o)
      BY <1>2, <1>6, <2>1, <3>1, <3>2 DEF LastIsTrue
    <3> QED BY <3>1, <3>3
  <2>2. ASSUME \A k \in DOMAIN wire' : wire'[k].order # o PROVE TrueOf(orderRow'[o], o)
    <3>1. ASSUME NEW j \in 1..n, j > 1 PROVE wire[j].order # o
      <4>1. j - 1 \in 1..(n - 1) /\ (j - 1) + 1 = j
        BY <1>2, <3>1
      <4> QED BY <1>2, <2>2, <4>1
    <3>2. CASE h.order = o
      <4>1. TrueOf(h.row, o)
        BY <1>2, <1>6, <3>1, <3>2 DEF LastIsTrue
      <4>2. orderRow'[o] = h.row
        BY <1>1, <3>2 DEF DeskTypeOK
      <4> QED BY <4>1, <4>2
    <3>3. CASE h.order # o
      <4>1. \A k \in 1..n : wire[k].order # o
        BY <1>2, <3>1, <3>3
      <4>2. TrueOf(orderRow[o], o) /\ orderRow'[o] = orderRow[o]
        BY <1>1, <1>2, <1>6, <3>3, <4>1 DEF LastIsTrue, DeskTypeOK
      <4> QED BY <4>2
    <3> QED BY <3>2, <3>3
  <2> QED BY <1>1, <2>1, <2>2, SameTruth DEF LastIsTrue, TrueOf
<1>7. ASSUME ~overlapped' PROVE OneAtATime' /\ ToldRight'
  <2>1. OneAtATime /\ ToldRight
    BY <1>1, <1>7 DEF DeskInv
  <2>2. OneAtATime'
    BY <1>1, <2>1 DEF OneAtATime, Free
  <2>3. ToldRight'
    BY <1>1, <1>6, <2>1, SameTruth DEF ToldRight, TrueOf
  <2> QED BY <2>2, <2>3
<1> QED BY <1>4, <1>7 DEF DeskInv

LEMMA DeskStep == DeskInv /\ [DeskNext]_deskVars => DeskInv'
<1> SUFFICES ASSUME DeskInv, [DeskNext]_deskVars PROVE DeskInv'
  OBVIOUS
<1>1. ASSUME NEW c \in DeskCalls,
             \/ \E i \in InvoiceIds, kind \in RequestKinds : Arrive(c, kind, i)
             \/ Create(c) \/ Load(c) \/ SaveUpdate(c) \/ RemoveInvoice(c)
             \/ LoadToFinalize(c) \/ WriteFinal(c) \/ CommitFinal(c)
      PROVE  DeskInv'
  BY <1>1, ArriveKeepsDesk, LoadsKeepDesk, SaveKeepsDesk, ChangesKeepDesk, CommitKeepsDesk
<1>2. ASSUME NEW e \in counting, FindInvoices(e) \/ EmitUpdated(e) PROVE DeskInv'
  BY <1>2, FindKeepsDesk, EmitKeepsDesk
<1>3. CASE UNCHANGED deskVars
  <2>1. DeskTypeOK'
    BY <1>3 DEF deskVars, DeskInv, DeskTypeOK
  <2>2. OneAtATime => OneAtATime'
    BY <1>3 DEF deskVars, OneAtATime, Free
  <2>3. ToldRight => ToldRight'
    BY <1>3, NothingTold DEF deskVars
  <2> QED BY <1>3, <2>1, <2>2, <2>3 DEF deskVars, DeskInv
<1> QED BY <1>1, <1>2, <1>3, HandleKeepsDesk DEF DeskNext

\* Once nothing is under way an order holds the number of its invoices, and says one
\* is finalized only if one is, when requests did not overlap
\* (emitInvoiceUpdatedEvent, handleInvoiceUpdated).
THEOREM OrderCountsInvoicesHolds == DeskSpec => []OrderCountsInvoices
<1>1. DeskInv => OrderCountsInvoices
  <2> SUFFICES ASSUME DeskInv, Quiet, ~overlapped, NEW o \in DeskOrders
               PROVE  /\ orderRow[o].count = Cardinality(InvoicesOf(o))
                      /\ orderRow[o].final => HasFinal(o)
    BY DEF OrderCountsInvoices
  <2>1. LastIsTrue(o) /\ DOMAIN wire = {}
    BY DEF DeskInv, ToldRight, Quiet
  <2> QED BY <2>1 DEF LastIsTrue, TrueOf
<1> QED BY <1>1, DeskStarts, DeskStep, PTL DEF DeskSpec
-----------------------------------------------------------------------------
(* The rows of accounts and addresses.  Every row is under one layer of       *)
(* encryption at most, and where nothing is decrypted under none.  The work   *)
(* is in the decryption by batches: what it has passed is in the clear though *)
(* rows enter before its place, other handlers write and snapshots copy rows  *)
(* as they are stored; the order of its tables is what makes the last so.     *)
\* Administrators only decrypt: a second encryption of a row adds a layer that one
\* reading does not take off.
OnlyDecrypts == Directions \subseteq {"DECRYPTED"}

TableNames == {"account", "address", "invoice_account", "invoice_address"}

RecordRows ==
  [value : Entries, layers : {0, 1}, external : BOOLEAN, of : Keys \cup {NoKey}]
ClearRows == {row \in RecordRows : row.layers = 0}
RecordTables == {table \in UNION {[D -> RecordRows] : D \in SUBSET Keys} :
                   IsFiniteSet(DOMAIN table)}
ClearBatches == {table \in UNION {[D -> ClearRows] : D \in SUBSET Keys} :
                   IsFiniteSet(DOMAIN table)}

PartyConversions ==
  [at : {"find", "save"}, to : {"DECRYPTED"}, table : 1..4, skip : Nat,
   batch : ClearBatches, undisturbed : BOOLEAN]

PartyTypeOK ==
  /\ encryption \in {"true", "false", "false-decrypt"}
  /\ records \in [TableNames -> RecordTables]
  /\ conversions \in [Administrators -> PartyConversions \cup {NoConversion}]
  /\ cleared \in BOOLEAN
  /\ entered \in Nat

ClearTable(table) == \A k \in DOMAIN table : table[k].layers = 0

\* How many rows come before a key.
Rank(D, k) == Cardinality({j \in D : j < k})

\* The rows that a decryption has passed are in the clear, and stay so: whatever is
\* written while encryption is off is, and a row that enters moves others back only.
Passed(table, n) == \A k \in DOMAIN table : Rank(DOMAIN table, k) < n => table[k].layers = 0

PassedSave(table, n, batch) ==
  \A k \in DOMAIN table :
    Rank(DOMAIN table, k) < n + Cardinality(DOMAIN batch)
      => table[k].layers = 0 \/ k \in DOMAIN batch

Decrypting(c, tables) ==
  /\ \A i \in 1..4 : i < c.table => ClearTable(tables[Tables[i]])
  /\ Passed(tables[Tables[c.table]], c.skip)
  /\ c.at = "save" => PassedSave(tables[Tables[c.table]], c.skip, c.batch)

\* A service that does not decrypt holds rows in the clear and converts nothing; one
\* that encrypts has not been cleared; a decryption no removal disturbed has done
\* what it is past.
PartyInv ==
  /\ PartyTypeOK
  /\ encryption = "true" => ~cleared
  /\ encryption = "false" => cleared /\ \A a \in Administrators : conversions[a] = NoConversion
  /\ cleared => \A t \in TableNames : ClearTable(records[t])
  /\ \A a \in Administrators :
       (conversions[a] # NoConversion /\ encryption = "false-decrypt"
          /\ conversions[a].undisturbed)
       => Decrypting(conversions[a], records)

\* What a write leaves of the rows while nothing is encrypted: new rows are in the
\* clear, but for the copy an external sale makes of an address.
Writes(old, new) ==
  \A t \in TableNames :
    /\ DOMAIN old[t] \subseteq DOMAIN new[t]
    /\ \A k \in DOMAIN new[t] :
         \/ new[t][k].layers = 0
         \/ k \in DOMAIN old[t] /\ new[t][k].layers = old[t][k].layers
         \/ /\ t = "invoice_address"
            /\ \E j \in DOMAIN old["address"] : new[t][k].layers = old["address"][j].layers

-----------------------------------------------------------------------------
\* The places of rows: in the order of their keys, without gaps, and moved back only
\* by rows that enter.
LEMMA RankNat ==
  ASSUME NEW D, IsFiniteSet(D), NEW k
  PROVE  Rank(D, k) \in Nat /\ IsFiniteSet({j \in D : j < k})
<1>1. {j \in D : j < k} \in SUBSET D
  OBVIOUS
<1>2. IsFiniteSet({j \in D : j < k})
  BY <1>1, FS_Subset, Zenon
<1> QED BY <1>2, FS_CardinalityType DEF Rank

LEMMA RankGrows ==
  ASSUME NEW D, NEW E, D \subseteq E, IsFiniteSet(E), NEW k
  PROVE  Rank(D, k) <= Rank(E, k)
<1>1. {j \in D : j < k} \in SUBSET {j \in E : j < k}
  OBVIOUS
<1>2. IsFiniteSet({j \in E : j < k})
  BY RankNat
<1> QED BY <1>1, <1>2, FS_Subset DEF Rank

LEMMA RankOrders ==
  ASSUME NEW D, D \subseteq Nat, IsFiniteSet(D), NEW j \in D, NEW k \in D, j < k
  PROVE  Rank(D, j) < Rank(D, k)
<1> DEFINE A == {i \in D : i < j}
           B == {i \in D : i < k}
<1>1. A \in SUBSET B /\ A # B
  <2>1. j \in Nat /\ k \in Nat /\ \A i \in D : i \in Nat
    OBVIOUS
  <2>2. ~(j < j) /\ \A i \in D : i < j => i < k
    BY <2>1
  <2>3. j \in B /\ j \notin A
    BY <2>2
  <2>4. A \subseteq B
    BY <2>2
  <2> HIDE DEF A, B
  <2> QED BY <2>3, <2>4
<1>2. IsFiniteSet(A) /\ IsFiniteSet(B) /\ Cardinality(A) \in Nat /\ Cardinality(B) \in Nat
  BY RankNat DEF Rank
<1>3. Rank(D, j) = Cardinality(A) /\ Rank(D, k) = Cardinality(B)
  BY DEF Rank
<1> HIDE DEF A, B
<1>4. Cardinality(A) <= Cardinality(B) /\ Cardinality(A) # Cardinality(B)
  BY <1>1, <1>2, FS_Subset
<1> QED BY <1>2, <1>3, <1>4

LEMMA EveryRank ==
  ASSUME NEW D, D \subseteq Nat, IsFiniteSet(D), NEW key \in D,
         NEW n \in Nat, n <= Rank(D, key)
  PROVE  \E k \in D : Rank(D, k) = n
<1> DEFINE B == {k \in D : n <= Rank(D, k)}
<1>1. PICK k \in B : \A j \in B : k <= j
  <2>1. B # {} /\ B \subseteq Nat
    OBVIOUS
  <2> HIDE DEF B
  <2> QED BY <2>1, LeastNatural
<1>2. k \in D /\ k \in Nat /\ Rank(D, k) \in Nat /\ n <= Rank(D, k)
  BY <1>1, RankNat
<1>3. ASSUME Rank(D, k) # n PROVE FALSE
  <2> DEFINE S == {j \in D : j < k}
  <2>1. IsFiniteSet(S) /\ Cardinality(S) = Rank(D, k)
    BY RankNat DEF Rank
  <2>2. S # {}
    BY <1>2, <1>3, <2>1, FS_EmptySet
  <2>3. S \subseteq Nat /\ \A j \in S : j <= k
    <3>1. \A j \in D : j \in Nat /\ (j < k => j <= k)
      BY <1>2
    <3> QED BY <3>1
  <2>4. PICK m \in S : \A j \in S : j <= m
    <3> HIDE DEF S
    <3> QED BY <1>2, <2>2, <2>3, GreatestNatural
  <2>5. {j \in D : j < m} = S \ {m}
    <3>1. m \in D /\ m \in Nat /\ m < k /\ \A j \in D : j < k => j <= m
      BY <2>4
    <3>2. \A j \in D : j < m <=> (j < k /\ j # m)
      BY <1>2, <3>1
    <3> QED BY <3>2
  <2>6. Cardinality(S \ {m}) = Cardinality(S) - 1
    <3> HIDE DEF S
    <3> QED BY <2>1, <2>4, FS_RemoveElement
  <2>7. Rank(D, m) = Rank(D, k) - 1
    BY <2>1, <2>5, <2>6 DEF Rank
  <2>8. m \in B /\ m < k /\ m \in Nat
    BY <1>2, <1>3, <2>4, <2>7
  <2> QED BY <1>1, <1>2, <2>8
<1> QED BY <1>2, <1>3

LEMMA BatchFits ==
  ASSUME NEW D, D \subseteq Nat, IsFiniteSet(D), NEW n \in Nat, NEW size \in Nat,
         NEW found \in SUBSET D, \A k \in found : Rank(D, k) \in n .. n + size - 1
  PROVE  IsFiniteSet(found) /\ Cardinality(found) \in Nat /\ Cardinality(found) <= size
<1> DEFINE places == n .. n + size - 1
           f == [k \in found |-> Rank(D, k)]
<1>1. IsFiniteSet(found) /\ Cardinality(found) \in Nat
  BY FS_Subset, FS_CardinalityType
<1>2. IsFiniteSet(places) /\ Cardinality(places) = size
  BY FS_Interval
<1>3. \A j, k \in found : j # k => Rank(D, j) # Rank(D, k)
  <2>1. TAKE j, k \in found
  <2>2. j \in D /\ k \in D /\ j \in Nat /\ k \in Nat /\ Rank(D, j) \in Nat /\ Rank(D, k) \in Nat
    BY RankNat
  <2>3. j < k => Rank(D, j) < Rank(D, k)
    BY <2>2, RankOrders
  <2>4. k < j => Rank(D, k) < Rank(D, j)
    BY <2>2, RankOrders
  <2> QED BY <2>2, <2>3, <2>4
<1>4. f \in Injection(found, places)
  BY <1>3 DEF Injection, IsInjective
<1>5. Cardinality(found) <= Cardinality(places)
  <2> HIDE DEF f, places
  <2> QED BY <1>2, <1>4, FS_Injection
<1> QED BY <1>1, <1>2, <1>5

-----------------------------------------------------------------------------
\* The rows that are written.
LEMMA RecordFits ==
  ASSUME NEW field, field.value \in Entries, field.layers \in {0, 1},
         NEW external \in BOOLEAN, NEW of \in Keys \cup {NoKey}
  PROVE  /\ RecordRow(field, external, of) \in RecordRows
         /\ RecordRow(field, external, of).layers = field.layers
  BY DEF RecordRow, RecordRows

LEMMA TypedFits ==
  ASSUME NEW v \in Entries
  PROVE  /\ Encrypted(Typed(v)).value \in Entries
         /\ Encrypted(Typed(v)).layers = IF encryption = "true" THEN 1 ELSE 0
  BY DEF Encrypted, Typed

LEMMA ReadingFits ==
  ASSUME NEW row \in RecordRows, encryption = "false" => row.layers = 0
  PROVE  /\ Decrypted(row) \in ClearRows
         /\ Encrypted(Decrypted(row)).value \in Entries
         /\ Encrypted(Decrypted(row)).layers = IF encryption = "true" THEN 1 ELSE 0
<1>1. Decrypted(row) \in RecordRows /\ Decrypted(row).layers = 0
  BY DEF Decrypted, RecordRows
<1>2. PICK read \in RecordRows : read = Decrypted(row) /\ read.layers = 0
  BY <1>1
<1>3. /\ Encrypted(read).value \in Entries
      /\ Encrypted(read).layers = IF encryption = "true" THEN 1 ELSE 0
  BY <1>2 DEF Encrypted, RecordRows
<1> QED BY <1>1, <1>2, <1>3 DEF ClearRows

\* What is in a table.
LEMMA TableFits ==
  ASSUME NEW table
  PROVE  table \in RecordTables <=>
           /\ table = [k \in DOMAIN table |-> table[k]]
           /\ DOMAIN table \subseteq Keys /\ IsFiniteSet(DOMAIN table)
           /\ \A k \in DOMAIN table : table[k] \in RecordRows
<1>1. ASSUME table \in RecordTables
      PROVE  /\ table = [k \in DOMAIN table |-> table[k]]
             /\ DOMAIN table \subseteq Keys /\ IsFiniteSet(DOMAIN table)
             /\ \A k \in DOMAIN table : table[k] \in RecordRows
  <2>1. PICK D \in SUBSET Keys : table \in [D -> RecordRows]
    BY <1>1 DEF RecordTables
  <2> QED BY <1>1, <2>1 DEF RecordTables
<1>2. ASSUME /\ table = [k \in DOMAIN table |-> table[k]]
             /\ DOMAIN table \subseteq Keys /\ IsFiniteSet(DOMAIN table)
             /\ \A k \in DOMAIN table : table[k] \in RecordRows
      PROVE  table \in RecordTables
  <2>1. table \in [DOMAIN table -> RecordRows]
    BY <1>2
  <2> QED BY <1>2, <2>1 DEF RecordTables
<1> QED BY <1>1, <1>2

LEMMA BatchIsClear ==
  ASSUME NEW batch \in ClearBatches
  PROVE  /\ DOMAIN batch \subseteq Keys /\ IsFiniteSet(DOMAIN batch)
         /\ \A k \in DOMAIN batch : batch[k] \in RecordRows /\ batch[k].layers = 0
<1>1. PICK D \in SUBSET Keys : batch \in [D -> ClearRows]
  BY DEF ClearBatches
<1> QED BY <1>1 DEF ClearBatches, ClearRows

LEMMA NothingIsClear == <<>> \in ClearBatches /\ <<>> \in RecordTables
<1>1. <<>> \in [{} -> ClearRows] /\ <<>> \in [{} -> RecordRows] /\ DOMAIN <<>> = {}
  OBVIOUS
<1> QED BY <1>1, FS_EmptySet DEF ClearBatches, RecordTables

LEMMA PutFits ==
  ASSUME NEW table \in RecordTables, NEW k \in Keys, NEW row \in RecordRows
  PROVE  /\ Put(table, k, row) \in RecordTables
         /\ DOMAIN Put(table, k, row) = DOMAIN table \cup {k}
         /\ Put(table, k, row)[k] = row
         /\ \A j \in DOMAIN table : j # k => Put(table, k, row)[j] = table[j]
<1>1. DOMAIN table \subseteq Keys /\ IsFiniteSet(DOMAIN table)
      /\ \A j \in DOMAIN table : table[j] \in RecordRows
  BY TableFits
<1>2. IsFiniteSet(DOMAIN table \cup {k})
  BY <1>1, FS_AddElement
<1>3. Put(table, k, row) \in [DOMAIN table \cup {k} -> RecordRows]
  BY <1>1 DEF Put
<1>4. DOMAIN table \cup {k} \in SUBSET Keys
  BY <1>1
<1> QED BY <1>2, <1>3, <1>4 DEF Put, RecordTables

LEMMA PutAllFits ==
  ASSUME NEW table \in RecordTables, NEW batch \in ClearBatches
  PROVE  /\ PutAll(table, batch) \in RecordTables
         /\ DOMAIN PutAll(table, batch) = DOMAIN table \cup DOMAIN batch
         /\ \A j \in DOMAIN batch : PutAll(table, batch)[j].layers = 0
         /\ \A j \in DOMAIN table : j \notin DOMAIN batch => PutAll(table, batch)[j] = table[j]
<1>1. DOMAIN table \subseteq Keys /\ IsFiniteSet(DOMAIN table)
      /\ \A j \in DOMAIN table : table[j] \in RecordRows
  BY TableFits
<1>2. /\ DOMAIN batch \subseteq Keys /\ IsFiniteSet(DOMAIN batch)
      /\ \A k \in DOMAIN batch : batch[k] \in RecordRows /\ batch[k].layers = 0
  BY BatchIsClear
<1>3. IsFiniteSet(DOMAIN table \cup DOMAIN batch)
  BY <1>1, <1>2, FS_Union
<1>4. PutAll(table, batch) \in [DOMAIN table \cup DOMAIN batch -> RecordRows]
  BY <1>1, <1>2 DEF PutAll
<1>5. DOMAIN table \cup DOMAIN batch \in SUBSET Keys
  BY <1>1, <1>2
<1> QED BY <1>2, <1>3, <1>4, <1>5 DEF PutAll, RecordTables

-----------------------------------------------------------------------------
\* A write leaves a decryption as far as it was.
LEMMA DecryptingKept ==
  ASSUME NEW old \in [TableNames -> RecordTables], NEW new \in [TableNames -> RecordTables],
         NEW c \in PartyConversions, Decrypting(c, old), Writes(old, new)
  PROVE  Decrypting(c, new)
<1>1. /\ \A i \in 1..4 : Tables[i] \in TableNames
      /\ \A i \in 1..4 : Tables[i] = "invoice_address" => i = 4
      /\ Tables[2] = "address"
  BY DEF Tables, TableNames
<1>2. c.table \in 1..4 /\ c.skip \in Nat /\ IsFiniteSet(DOMAIN c.batch)
  BY BatchIsClear DEF PartyConversions
<1>3. Cardinality(DOMAIN c.batch) \in Nat
  BY <1>2, FS_CardinalityType
<1>4. ASSUME NEW i \in 1..4, i <= c.table, NEW k \in DOMAIN new[Tables[i]]
      PROVE  \/ new[Tables[i]][k].layers = 0
             \/ /\ k \in DOMAIN old[Tables[i]]
                /\ new[Tables[i]][k].layers = old[Tables[i]][k].layers
  <2>1. \/ new[Tables[i]][k].layers = 0
        \/ k \in DOMAIN old[Tables[i]] /\ new[Tables[i]][k].layers = old[Tables[i]][k].layers
        \/ /\ Tables[i] = "invoice_address"
           /\ \E j \in DOMAIN old["address"] : new[Tables[i]][k].layers = old["address"][j].layers
    BY <1>1, <1>4 DEF Writes
  <2>2. CASE /\ Tables[i] = "invoice_address"
             /\ \E j \in DOMAIN old["address"] : new[Tables[i]][k].layers = old["address"][j].layers
    <3>1. i = 4 /\ 2 \in 1..4 /\ 2 < c.table
      BY <1>1, <1>2, <1>4, <2>2
    <3>2. ClearTable(old["address"])
      BY <1>1, <3>1 DEF Decrypting
    <3> QED BY <2>2, <3>2 DEF ClearTable
  <2> QED BY <2>1, <2>2
<1>5. ASSUME NEW i \in 1..4, i < c.table
      PROVE  ClearTable(new[Tables[i]])
  <2>1. ClearTable(old[Tables[i]]) /\ i <= c.table
    BY <1>2, <1>5 DEF Decrypting
  <2> QED BY <1>4, <2>1 DEF ClearTable
<1> DEFINE T == Tables[c.table]
<1>6. ASSUME NEW k \in DOMAIN new[T], k \in DOMAIN old[T]
      PROVE  /\ Rank(DOMAIN old[T], k) <= Rank(DOMAIN new[T], k)
             /\ Rank(DOMAIN old[T], k) \in Nat /\ Rank(DOMAIN new[T], k) \in Nat
  <2>1. T \in TableNames
    BY <1>1, <1>2
  <2>2. DOMAIN old[T] \subseteq DOMAIN new[T] /\ IsFiniteSet(DOMAIN new[T]) /\ IsFiniteSet(DOMAIN old[T])
    BY <2>1, TableFits DEF Writes
  <2> HIDE DEF T
  <2> QED BY <2>2, RankGrows, RankNat
<1>7. c.table \in 1..4 /\ c.table <= c.table
  BY <1>2
<1>8. Passed(old[T], c.skip) /\ (c.at = "save" => PassedSave(old[T], c.skip, c.batch))
  BY DEF Decrypting
<1>9. \A k \in DOMAIN new[T] :
        new[T][k].layers = 0 \/ (k \in DOMAIN old[T] /\ new[T][k].layers = old[T][k].layers)
  BY <1>4, <1>7
<1> HIDE DEF T
<1>10. Passed(new[T], c.skip)
  <2>1. SUFFICES ASSUME NEW k \in DOMAIN new[T], Rank(DOMAIN new[T], k) < c.skip,
                        k \in DOMAIN old[T], new[T][k].layers = old[T][k].layers
                 PROVE  new[T][k].layers = 0
    BY <1>9 DEF Passed
  <2>2. Rank(DOMAIN old[T], k) < c.skip
    BY <1>2, <1>6, <2>1
  <2> QED BY <1>8, <2>1, <2>2 DEF Passed
<1>11. ASSUME c.at = "save" PROVE PassedSave(new[T], c.skip, c.batch)
  <2> DEFINE n == c.skip + Cardinality(DOMAIN c.batch)
  <2>1. SUFFICES ASSUME NEW k \in DOMAIN new[T], Rank(DOMAIN new[T], k) < n,
                        k \in DOMAIN old[T], new[T][k].layers = old[T][k].layers
                 PROVE  new[T][k].layers = 0 \/ k \in DOMAIN c.batch
    BY <1>9 DEF PassedSave
  <2>2. n \in Nat
    BY <1>2, <1>3
  <2>3. Rank(DOMAIN old[T], k) < n
    <3> HIDE DEF n
    <3> QED BY <1>6, <2>1, <2>2
  <2> QED BY <1>8, <1>11, <2>1, <2>3 DEF PassedSave
<1> QED BY <1>5, <1>10, <1>11 DEF Decrypting, T

\* A write of a request: rows of the right kind, and in the clear where nothing is
\* encrypted.
LEMMA WriteKeepsParty ==
  ASSUME PartyInv, records' \in [TableNames -> RecordTables],
         encryption # "true" => Writes(records, records'),
         UNCHANGED <<encryption, conversions, cleared>>, entered' \in Nat
  PROVE  PartyInv'
<1>1. PartyTypeOK'
  BY DEF PartyInv, PartyTypeOK
<1>2. ASSUME cleared PROVE \A t \in TableNames : ClearTable(records'[t])
  <2>1. Writes(records, records') /\ \A t \in TableNames : ClearTable(records[t])
    BY <1>2 DEF PartyInv
  <2>2. "address" \in TableNames
    BY DEF TableNames
  <2> QED BY <2>1, <2>2 DEF Writes, ClearTable
<1>3. ASSUME NEW a \in Administrators, conversions[a] # NoConversion,
             encryption = "false-decrypt", conversions[a].undisturbed
      PROVE  Decrypting(conversions[a], records')
  <2>1. Decrypting(conversions[a], records) /\ conversions[a] \in PartyConversions
    BY <1>3 DEF PartyInv, PartyTypeOK
  <2>2. records \in [TableNames -> RecordTables] /\ Writes(records, records')
    BY <1>3 DEF PartyInv, PartyTypeOK
  <2> QED BY <2>1, <2>2, DecryptingKept
<1>4. \A r, c : r = records' /\ c = conversions'
        => \A a \in Administrators :
             (c[a] # NoConversion /\ encryption = "false-decrypt" /\ c[a].undisturbed)
               => Decrypting(c[a], r)
  BY <1>3
<1> QED BY <1>1, <1>2, <1>4 DEF PartyInv

\* One row written, and the others left.
LEMMA PutWrites ==
  ASSUME NEW old \in [TableNames -> RecordTables], NEW t \in TableNames, NEW k \in Keys,
         NEW row \in RecordRows,
         NEW new, new = [old EXCEPT ![t] = Put(old[t], k, row)]
  PROVE  /\ new \in [TableNames -> RecordTables]
         /\ row.layers = 0 => Writes(old, new)
<1>1. /\ Put(old[t], k, row) \in RecordTables
      /\ DOMAIN Put(old[t], k, row) = DOMAIN old[t] \cup {k}
      /\ Put(old[t], k, row)[k] = row
      /\ \A j \in DOMAIN old[t] : j # k => Put(old[t], k, row)[j] = old[t][j]
  BY PutFits
<1>2. PICK table \in RecordTables : table = Put(old[t], k, row)
  BY <1>1
<1>3. new[t] = table /\ \A u \in TableNames : u # t => new[u] = old[u]
  BY <1>2
<1>4. new \in [TableNames -> RecordTables]
  BY <1>2
<1> QED BY <1>1, <1>2, <1>3, <1>4 DEF Writes

LEMMA EnteringFits ==
  ASSUME PartyInv, Entering
  PROVE  entered' \in Nat
  BY DEF PartyInv, PartyTypeOK, Entering

LEMMA SaveAccountKeepsParty ==
  ASSUME PartyInv, NEW k \in Keys, NEW v \in Entries, NEW address \in Keys \cup {NoKey},
         SaveAccountRow(k, v, address)
  PROVE  PartyInv'
<1>1. PICK row \in RecordRows : row = RecordRow(Encrypted(Typed(v)), FALSE, address)
                              /\ row.layers = Encrypted(Typed(v)).layers
  BY TypedFits, RecordFits
<1>2. row.layers = IF encryption = "true" THEN 1 ELSE 0
  BY <1>1, TypedFits
<1>3. records' = [records EXCEPT !["account"] = Put(records["account"], k, row)]
  BY <1>1 DEF SaveAccountRow, With
<1>4. "account" \in TableNames /\ records \in [TableNames -> RecordTables]
  BY DEF TableNames, PartyInv, PartyTypeOK
<1>5. records' \in [TableNames -> RecordTables] /\ (row.layers = 0 => Writes(records, records'))
  BY <1>3, <1>4, PutWrites
<1>6. entered' \in Nat /\ UNCHANGED <<encryption, conversions, cleared>>
  BY EnteringFits DEF SaveAccountRow
<1> QED BY <1>2, <1>5, <1>6, WriteKeepsParty

LEMMA SaveAddressKeepsParty ==
  ASSUME PartyInv, NEW k \in Keys, NEW v \in Entries, SaveAddressRow(k, v)
  PROVE  PartyInv'
<1>1. PICK row \in RecordRows : row = RecordRow(Encrypted(Typed(v)), FALSE, NoKey)
                              /\ row.layers = Encrypted(Typed(v)).layers
  BY TypedFits, RecordFits
<1>2. row.layers = IF encryption = "true" THEN 1 ELSE 0
  BY <1>1, TypedFits
<1>3. records' = [records EXCEPT !["address"] = Put(records["address"], k, row)]
  BY <1>1 DEF SaveAddressRow, With
<1>4. "address" \in TableNames /\ records \in [TableNames -> RecordTables]
  BY DEF TableNames, PartyInv, PartyTypeOK
<1>5. records' \in [TableNames -> RecordTables] /\ (row.layers = 0 => Writes(records, records'))
  BY <1>3, <1>4, PutWrites
<1>6. entered' \in Nat /\ UNCHANGED <<encryption, conversions, cleared>>
  BY EnteringFits DEF SaveAddressRow
<1> QED BY <1>2, <1>5, <1>6, WriteKeepsParty

\* The two copies a payment keeps.
LEMMA SnapshotsWrite ==
  ASSUME NEW old \in [TableNames -> RecordTables], NEW between \in [TableNames -> RecordTables],
         NEW k \in Keys, NEW account \in RecordRows, NEW address \in RecordRows
  PROVE  /\ WithSnapshots(between, k, account, address) \in [TableNames -> RecordTables]
         /\ (/\ account.layers = 0
             /\ \/ address.layers = 0
                \/ \E j \in DOMAIN old["address"] : address.layers = old["address"][j].layers
             /\ Writes(old, between)
             /\ between["invoice_address"] = old["invoice_address"])
            => Writes(old, WithSnapshots(between, k, account, address))
<1> DEFINE one == Put(between["invoice_account"], k, account)
           two == Put(between["invoice_address"], k, address)
           new == [between EXCEPT !["invoice_account"] = one, !["invoice_address"] = two]
<1>0. "invoice_account" \in TableNames /\ "invoice_address" \in TableNames
  BY DEF TableNames
<1>1. /\ one \in RecordTables /\ DOMAIN one = DOMAIN between["invoice_account"] \cup {k}
      /\ one[k] = account
      /\ \A j \in DOMAIN between["invoice_account"] : j # k => one[j] = between["invoice_account"][j]
  <2>1. between["invoice_account"] \in RecordTables
    BY <1>0
  <2> QED BY <2>1, PutFits
<1>2. /\ two \in RecordTables /\ DOMAIN two = DOMAIN between["invoice_address"] \cup {k}
      /\ two[k] = address
      /\ \A j \in DOMAIN between["invoice_address"] : j # k => two[j] = between["invoice_address"][j]
  <2>1. between["invoice_address"] \in RecordTables
    BY <1>0
  <2> QED BY <2>1, PutFits
<1>3. WithSnapshots(between, k, account, address) = new
  BY DEF WithSnapshots
<1> HIDE DEF one, two
<1>4. /\ new \in [TableNames -> RecordTables]
      /\ new["invoice_account"] = one /\ new["invoice_address"] = two
      /\ \A t \in TableNames : t \notin {"invoice_account", "invoice_address"} => new[t] = between[t]
  BY <1>0, <1>1, <1>2
<1> HIDE DEF new
<1>5. ASSUME account.layers = 0,
             address.layers = 0
               \/ \E j \in DOMAIN old["address"] : address.layers = old["address"][j].layers,
             Writes(old, between), between["invoice_address"] = old["invoice_address"]
      PROVE  Writes(old, new)
  <2>1. ASSUME NEW t \in TableNames, t \notin {"invoice_account", "invoice_address"}
        PROVE  /\ DOMAIN old[t] \subseteq DOMAIN new[t]
               /\ \A j \in DOMAIN new[t] :
                    \/ new[t][j].layers = 0
                    \/ j \in DOMAIN old[t] /\ new[t][j].layers = old[t][j].layers
    BY <1>4, <1>5, <2>1 DEF Writes
  <2>2. /\ DOMAIN old["invoice_account"] \subseteq DOMAIN one
        /\ \A j \in DOMAIN one :
             \/ one[j].layers = 0
             \/ j \in DOMAIN old["invoice_account"]
                /\ one[j].layers = old["invoice_account"][j].layers
    BY <1>0, <1>1, <1>5 DEF Writes
  <2>3. /\ DOMAIN old["invoice_address"] \subseteq DOMAIN two
        /\ \A j \in DOMAIN two :
             \/ two[j].layers = 0
             \/ j \in DOMAIN old["invoice_address"]
                /\ two[j].layers = old["invoice_address"][j].layers
             \/ \E i \in DOMAIN old["address"] : two[j].layers = old["address"][i].layers
    BY <1>0, <1>2, <1>5
  <2> QED BY <1>4, <2>1, <2>2, <2>3 DEF Writes
<1> QED BY <1>3, <1>4, <1>5

\* A row that a request reads.
LEMMA RowRead ==
  ASSUME PartyInv, NEW t \in TableNames, NEW k \in DOMAIN records[t]
  PROVE  /\ records[t][k] \in RecordRows
         /\ encryption = "false" => records[t][k].layers = 0
<1>1. records[t] \in RecordTables
  BY DEF PartyInv, PartyTypeOK
<1> QED BY <1>1, TableFits DEF PartyInv, ClearTable

LEMMA SnapshotPartyKeepsParty ==
  ASSUME PartyInv, NEW k \in Keys, NEW account \in Keys, SnapshotParty(k, account)
  PROVE  PartyInv'
<1> DEFINE party == records["account"][account]
           home == records["address"][party.of]
<1>0. records \in [TableNames -> RecordTables] /\ "account" \in TableNames /\ "address" \in TableNames
  BY DEF PartyInv, PartyTypeOK, TableNames
<1>1. account \in DOMAIN records["account"] /\ party.of \in DOMAIN records["address"]
  BY DEF SnapshotParty, Existing
<1>2. party \in RecordRows /\ (encryption = "false" => party.layers = 0)
  BY <1>0, <1>1, RowRead
<1>3. home \in RecordRows /\ (encryption = "false" => home.layers = 0)
  BY <1>0, <1>1, RowRead
<1>4. party.of \in Keys \cup {NoKey} /\ party.external \in BOOLEAN
  BY <1>2 DEF RecordRows
<1>5. /\ SnapshotOfAccount(party, account) \in RecordRows
      /\ SnapshotOfAccount(party, account).layers = IF encryption = "true" THEN 1 ELSE 0
  <2> HIDE DEF party
  <2> QED BY <1>2, <1>4, ReadingFits, RecordFits DEF SnapshotOfAccount, AccountRead
<1>6. /\ SnapshotOfAddress(AddressRead(home), party.of) \in RecordRows
      /\ SnapshotOfAddress(AddressRead(home), party.of).layers = 0
  <2> HIDE DEF party, home
  <2>1. Decrypted(home) \in ClearRows
    BY <1>3, ReadingFits
  <2>2. PICK read \in RecordRows : read = Decrypted(home) /\ read.layers = 0
    BY <2>1 DEF ClearRows
  <2>3. read.value \in Entries /\ read.external \in BOOLEAN
    BY DEF RecordRows
  <2> QED BY <1>4, <2>2, <2>3, RecordFits DEF SnapshotOfAddress, AddressRead
<1>7. records' = WithSnapshots(records, k, SnapshotOfAccount(party, account),
                               SnapshotOfAddress(AddressRead(home), party.of))
  BY DEF SnapshotParty
<1>8. entered' \in Nat /\ UNCHANGED <<encryption, conversions, cleared>>
  BY EnteringFits DEF SnapshotParty
<1> HIDE DEF party, home
<1>9. Writes(records, records)
  BY DEF Writes
<1>10. /\ records' \in [TableNames -> RecordTables]
       /\ encryption # "true" => Writes(records, records')
  BY <1>0, <1>5, <1>6, <1>7, <1>9, SnapshotsWrite
<1> QED BY <1>8, <1>10, WriteKeepsParty

\* The customer and the address an external sale finds or makes.
LEMMA FoundWrites ==
  ASSUME PartyInv, NEW account \in Keys, NEW address \in Keys,
         NEW who \in Entries, NEW where \in Entries,
         NEW found, found = WithCustomer(WithAddress(records, address, where), account, who, address)
  PROVE  /\ found \in [TableNames -> RecordTables]
         /\ encryption # "true" => Writes(records, found)
         /\ found["invoice_address"] = records["invoice_address"]
         /\ found["account"][account] \in RecordRows /\ found["address"][address] \in RecordRows
         /\ encryption = "false" => found["account"][account].layers = 0
         /\ encryption # "true" =>
              \/ found["address"][address].layers = 0
              \/ \E j \in DOMAIN records["address"] :
                   found["address"][address].layers = records["address"][j].layers
<1>0. /\ records \in [TableNames -> RecordTables] /\ "account" \in TableNames
      /\ "address" \in TableNames /\ "invoice_address" \in TableNames
  BY DEF PartyInv, PartyTypeOK, TableNames
<1> DEFINE housed == WithAddress(records, address, where)
<1>1. PICK home \in RecordRows : /\ home = RecordRow(Encrypted(Typed(where)), TRUE, NoKey)
                               /\ home.layers = IF encryption = "true" THEN 1 ELSE 0
  <2>1. NoKey \in Keys \cup {NoKey} /\ TRUE \in BOOLEAN
    OBVIOUS
  <2>2. PICK field : /\ field = Encrypted(Typed(where)) /\ field.value \in Entries
                     /\ field.layers = IF encryption = "true" THEN 1 ELSE 0
    BY TypedFits
  <2>3. field.layers \in {0, 1}
    BY <2>2
  <2> QED BY <2>1, <2>2, <2>3, RecordFits
<1>2. PICK person \in RecordRows : /\ person = RecordRow(Encrypted(Typed(who)), TRUE, address)
                                 /\ person.layers = IF encryption = "true" THEN 1 ELSE 0
  <2>1. address \in Keys \cup {NoKey} /\ TRUE \in BOOLEAN
    OBVIOUS
  <2>2. PICK field : /\ field = Encrypted(Typed(who)) /\ field.value \in Entries
                     /\ field.layers = IF encryption = "true" THEN 1 ELSE 0
    BY TypedFits
  <2>3. field.layers \in {0, 1}
    BY <2>2
  <2> QED BY <2>1, <2>2, <2>3, RecordFits
<1>3. /\ housed \in [TableNames -> RecordTables]
      /\ encryption # "true" => Writes(records, housed)
      /\ \A t \in TableNames : t # "address" => housed[t] = records[t]
      /\ housed["address"][address] \in RecordRows
      /\ encryption # "true" =>
           \/ housed["address"][address].layers = 0
           \/ \E j \in DOMAIN records["address"] :
                housed["address"][address].layers = records["address"][j].layers
  <2>1. CASE address \in Existing("address")
    <3>1. housed = records /\ records["address"][address] \in RecordRows
      BY <1>0, <2>1, RowRead DEF WithAddress, Existing
    <3>2. Writes(records, records)
      BY DEF Writes
    <3> HIDE DEF housed
    <3> QED BY <1>0, <2>1, <3>1, <3>2 DEF Existing
  <2>2. CASE address \notin Existing("address")
    <3>1. housed = [records EXCEPT !["address"] = Put(records["address"], address, home)]
      BY <1>1, <2>2 DEF WithAddress
    <3>2. Put(records["address"], address, home)[address] = home
      BY <1>0, PutFits
    <3> HIDE DEF housed
    <3>3. /\ housed \in [TableNames -> RecordTables]
          /\ home.layers = 0 => Writes(records, housed)
      BY <1>0, <3>1, PutWrites
    <3>4. housed["address"][address] = home /\ \A t \in TableNames : t # "address" => housed[t] = records[t]
      BY <1>0, <3>1, <3>2
    <3> QED BY <1>1, <3>3, <3>4
  <2> QED BY <2>1, <2>2
<1>4. found = WithCustomer(housed, account, who, address)
  OBVIOUS
<1> HIDE DEF housed
<1>5. CASE account \in Existing("account")
  <2>1. found = [housed EXCEPT !["account"][account].of = address]
    BY <1>4, <1>5 DEF WithCustomer
  <2>2. housed["account"] = records["account"]
    BY <1>0, <1>3
  <2>3. /\ records["account"] \in RecordTables /\ account \in DOMAIN records["account"]
        /\ records["account"][account] \in RecordRows
        /\ encryption = "false" => records["account"][account].layers = 0
    BY <1>0, <1>5, RowRead DEF Existing
  <2> DEFINE old == records["account"]
             row == [old[account] EXCEPT !.of = address]
             table == [old EXCEPT ![account] = row]
  <2>4. row \in RecordRows /\ row.layers = old[account].layers
    BY <2>3 DEF RecordRows
  <2>5. found = [housed EXCEPT !["account"] = table]
    BY <1>0, <1>3, <2>1, <2>2
  <2>6. table \in RecordTables /\ DOMAIN table = DOMAIN old /\ table[account] = row
        /\ \A j \in DOMAIN old : j # account => table[j] = old[j]
    <3>1. /\ DOMAIN old \subseteq Keys /\ IsFiniteSet(DOMAIN old)
          /\ \A j \in DOMAIN old : old[j] \in RecordRows
      BY <2>3, TableFits
    <3> HIDE DEF old, row
    <3>2. table \in [DOMAIN old -> RecordRows] /\ DOMAIN table = DOMAIN old
      BY <2>3, <2>4, <3>1
    <3>3. table[account] = row /\ \A j \in DOMAIN old : j # account => table[j] = old[j]
      BY <2>3 DEF old
    <3>4. table \in UNION {[D -> RecordRows] : D \in SUBSET Keys}
      BY <3>1, <3>2
    <3> QED BY <3>1, <3>2, <3>3, <3>4 DEF RecordTables
  <2>7. /\ \A j \in DOMAIN table : table[j].layers = records["account"][j].layers
        /\ DOMAIN table = DOMAIN records["account"] /\ table \in RecordTables
        /\ table[account] \in RecordRows
        /\ encryption = "false" => table[account].layers = 0
    BY <2>3, <2>4, <2>6
  <2> HIDE DEF table, row, old
  <2>8. /\ found \in [TableNames -> RecordTables] /\ found["account"] = table
        /\ \A t \in TableNames : t # "account" => found[t] = housed[t]
    BY <1>0, <1>3, <2>5, <2>7
  <2>9. ASSUME encryption # "true" PROVE Writes(records, found)
    <3>1. Writes(records, housed)
      BY <1>3, <2>9
    <3> QED BY <2>7, <2>8, <3>1 DEF Writes
  <2> QED BY <1>0, <1>3, <2>7, <2>8, <2>9
<1>6. CASE account \notin Existing("account")
  <2>1. found = [housed EXCEPT !["account"] = Put(housed["account"], account, person)]
    BY <1>2, <1>4, <1>6 DEF WithCustomer
  <2>2. Put(housed["account"], account, person)[account] = person
    <3>1. housed["account"] \in RecordTables
      BY <1>0, <1>3
    <3> QED BY <3>1, PutFits
  <2>3. /\ found \in [TableNames -> RecordTables]
        /\ person.layers = 0 => Writes(housed, found)
    <3>1. housed \in [TableNames -> RecordTables]
      BY <1>3
    <3> QED BY <1>0, <2>1, <3>1, PutWrites
  <2>4. found["account"][account] = person /\ \A t \in TableNames : t # "account" => found[t] = housed[t]
    BY <1>0, <1>3, <2>1, <2>2
  <2>5. ASSUME encryption # "true" PROVE Writes(records, found)
    <3>1. Writes(records, housed) /\ Writes(housed, found) /\ housed["account"] = records["account"]
      BY <1>0, <1>2, <1>3, <2>3, <2>5
    <3>2. \A t \in TableNames : t # "account" => found[t] = housed[t]
      BY <2>4
    <3> QED BY <3>1, <3>2 DEF Writes
  <2> QED BY <1>0, <1>2, <1>3, <2>3, <2>4, <2>5
<1> QED BY <1>5, <1>6

LEMMA SnapshotExternalKeepsParty ==
  ASSUME PartyInv, NEW k \in Keys, NEW account \in Keys, NEW address \in Keys,
         NEW who \in Entries, NEW where \in Entries,
         SnapshotExternalSale(k, account, address, who, where)
  PROVE  PartyInv'
<1>1. PICK found : found = WithCustomer(WithAddress(records, address, where), account, who, address)
  OBVIOUS
<1>2. /\ found \in [TableNames -> RecordTables]
      /\ encryption # "true" => Writes(records, found)
      /\ found["invoice_address"] = records["invoice_address"]
      /\ found["account"][account] \in RecordRows /\ found["address"][address] \in RecordRows
      /\ encryption = "false" => found["account"][account].layers = 0
      /\ encryption # "true" =>
           \/ found["address"][address].layers = 0
           \/ \E j \in DOMAIN records["address"] :
                found["address"][address].layers = records["address"][j].layers
  BY <1>1, FoundWrites, SMTT(30)
<1> DEFINE person == found["account"][account]
           home == found["address"][address]
<1>3. /\ person.external \in BOOLEAN /\ home.external \in BOOLEAN
      /\ home.value \in Entries /\ home.layers \in {0, 1}
      /\ account \in Keys \cup {NoKey} /\ address \in Keys \cup {NoKey}
  BY <1>2 DEF RecordRows
<1>4. /\ SnapshotOfAccount(person, account) \in RecordRows
      /\ SnapshotOfAccount(person, account).layers = IF encryption = "true" THEN 1 ELSE 0
  <2>1. person \in RecordRows /\ (encryption = "false" => person.layers = 0)
    BY <1>2
  <2> HIDE DEF person, home
  <2> QED BY <1>3, <2>1, ReadingFits, RecordFits DEF SnapshotOfAccount, AccountRead
<1>5. /\ SnapshotOfAddress(home, address) \in RecordRows
      /\ SnapshotOfAddress(home, address).layers = home.layers
  <2> HIDE DEF person, home
  <2> QED BY <1>3, RecordFits DEF SnapshotOfAddress
<1>6. records' = WithSnapshots(found, k, SnapshotOfAccount(person, account),
                               SnapshotOfAddress(home, address))
  BY <1>1 DEF SnapshotExternalSale
<1>7. entered' \in Nat /\ UNCHANGED <<encryption, conversions, cleared>>
  BY EnteringFits DEF SnapshotExternalSale
<1>8. records \in [TableNames -> RecordTables]
  BY DEF PartyInv, PartyTypeOK
<1>9. encryption # "true" =>
        \/ home.layers = 0
        \/ \E j \in DOMAIN records["address"] : home.layers = records["address"][j].layers
  BY <1>2
<1> HIDE DEF person, home
<1>10. PICK a \in RecordRows, b \in RecordRows :
         a = SnapshotOfAccount(person, account) /\ b = SnapshotOfAddress(home, address)
  BY <1>4, <1>5
<1>11. /\ records' = WithSnapshots(found, k, a, b)
       /\ encryption # "true" =>
            /\ a.layers = 0
            /\ \/ b.layers = 0
               \/ \E j \in DOMAIN records["address"] : b.layers = records["address"][j].layers
  BY <1>4, <1>5, <1>6, <1>9, <1>10
<1>12. /\ records' \in [TableNames -> RecordTables]
       /\ encryption # "true" => Writes(records, records')
  BY <1>2, <1>8, <1>11, SnapshotsWrite
<1> QED BY <1>7, <1>12, WriteKeepsParty

\* A removal: what is left of the table was there, and nobody counts on its places.
LEMMA RemoveKeepsParty ==
  ASSUME PartyInv, NEW k \in Keys, RemoveAddressRow(k)
  PROVE  PartyInv'
<1> DEFINE old == records["address"]
           table == [j \in DOMAIN old \ {k} |-> old[j]]
<1>1. records \in [TableNames -> RecordTables] /\ "address" \in TableNames
  BY DEF PartyInv, PartyTypeOK, TableNames
<1>2. /\ old \in RecordTables /\ DOMAIN old \subseteq Keys /\ IsFiniteSet(DOMAIN old)
      /\ \A j \in DOMAIN old : old[j] \in RecordRows
  BY <1>1, TableFits
<1>3. records' = [records EXCEPT !["address"] = table]
  BY DEF RemoveAddressRow
<1>4. table \in RecordTables /\ DOMAIN table \subseteq DOMAIN old
      /\ \A j \in DOMAIN table : table[j] = old[j]
  <2> HIDE DEF old
  <2>1. IsFiniteSet(DOMAIN old \ {k}) /\ DOMAIN old \ {k} \in SUBSET Keys
    BY <1>2, FS_RemoveElement
  <2>2. table \in [DOMAIN old \ {k} -> RecordRows]
    BY <1>2
  <2> QED BY <2>1, <2>2 DEF RecordTables
<1> HIDE DEF table
<1>5. /\ records' \in [TableNames -> RecordTables]
      /\ \A t \in TableNames : ClearTable(records[t]) => ClearTable(records'[t])
  BY <1>1, <1>3, <1>4 DEF ClearTable
<1>6. /\ conversions' = [a \in Administrators |->
           IF conversions[a] = NoConversion THEN NoConversion
           ELSE [conversions[a] EXCEPT !.undisturbed = FALSE]]
      /\ UNCHANGED <<encryption, cleared, entered>>
  BY DEF RemoveAddressRow
<1>7. \A a \in Administrators :
        /\ conversions'[a] \in PartyConversions \cup {NoConversion}
        /\ conversions'[a] = NoConversion \/ ~conversions'[a].undisturbed
        /\ conversions[a] = NoConversion => conversions'[a] = NoConversion
  BY <1>6 DEF PartyInv, PartyTypeOK, PartyConversions
<1>8. conversions' \in [Administrators -> PartyConversions \cup {NoConversion}]
  BY <1>6, <1>7
<1>9. PartyTypeOK'
  BY <1>5, <1>6, <1>8 DEF PartyInv, PartyTypeOK
<1> QED BY <1>5, <1>6, <1>7, <1>9 DEF PartyInv

-----------------------------------------------------------------------------
\* A step of one conversion.
LEMMA StepKeepsParty ==
  ASSUME PartyInv, NEW a \in Administrators, NEW d \in PartyConversions \cup {NoConversion},
         conversions' = [conversions EXCEPT ![a] = d],
         UNCHANGED <<encryption, entered>>,
         records' \in [TableNames -> RecordTables], Writes(records, records'),
         encryption = "false" => d = NoConversion,
         cleared' = cleared \/ (cleared' = TRUE /\ encryption = "false-decrypt"
                                /\ \A t \in TableNames : ClearTable(records'[t])),
         (d # NoConversion /\ encryption = "false-decrypt" /\ d.undisturbed)
           => Decrypting(d, records')
  PROVE  PartyInv'
<1>1. records \in [TableNames -> RecordTables] /\ "address" \in TableNames
  BY DEF PartyInv, PartyTypeOK, TableNames
<1>2. conversions' \in [Administrators -> PartyConversions \cup {NoConversion}]
  BY DEF PartyInv, PartyTypeOK
<1>3. PartyTypeOK'
  BY <1>2 DEF PartyInv, PartyTypeOK
<1>4. ASSUME cleared' PROVE \A t \in TableNames : ClearTable(records'[t])
  <2>1. CASE cleared
    <3>1. \A t \in TableNames : ClearTable(records[t])
      BY <2>1 DEF PartyInv
    <3> QED BY <1>1, <3>1 DEF Writes, ClearTable
  <2> QED BY <1>4, <2>1
<1>5. ASSUME NEW b \in Administrators, conversions'[b] # NoConversion,
             encryption = "false-decrypt", conversions'[b].undisturbed
      PROVE  Decrypting(conversions'[b], records')
  <2>1. CASE b = a
    <3>1. conversions'[b] = d
      BY <2>1 DEF PartyInv, PartyTypeOK
    <3> QED BY <1>5, <3>1
  <2>2. CASE b # a
    <3>1. conversions'[b] = conversions[b] /\ conversions[b] \in PartyConversions
      BY <1>5, <2>2 DEF PartyInv, PartyTypeOK
    <3>2. Decrypting(conversions[b], records)
      BY <1>5, <3>1 DEF PartyInv
    <3> QED BY <1>1, <3>1, <3>2, DecryptingKept
  <2> QED BY <2>1, <2>2
<1>6. \A r, c : r = records' /\ c = conversions'
        => \A b \in Administrators :
             (c[b] # NoConversion /\ encryption = "false-decrypt" /\ c[b].undisturbed)
               => Decrypting(c[b], r)
  BY <1>5
<1>7. encryption = "false" => \A b \in Administrators : conversions'[b] = NoConversion
  BY DEF PartyInv, PartyTypeOK
<1>8. (encryption = "true" => ~cleared') /\ (encryption = "false" => cleared')
  BY DEF PartyInv
<1> QED BY <1>3, <1>4, <1>6, <1>7, <1>8 DEF PartyInv

LEMMA StartKeepsParty ==
  ASSUME PartyInv, OnlyDecrypts, NEW a \in Administrators, NEW to \in Directions,
         StartConversion(a, to)
  PROVE  PartyInv'
<1> DEFINE d == [at |-> "find", to |-> to, table |-> 1, skip |-> 0, batch |-> <<>>,
                 undisturbed |-> TRUE]
<1>1. to = "DECRYPTED" /\ encryption # "false"
  BY DEF OnlyDecrypts, StartConversion
<1>2. d \in PartyConversions
  BY <1>1, NothingIsClear DEF PartyConversions
<1>3. /\ conversions' = [conversions EXCEPT ![a] = d]
      /\ UNCHANGED <<encryption, records, cleared, entered>>
  BY DEF StartConversion
<1>4. records \in [TableNames -> RecordTables]
  BY DEF PartyInv, PartyTypeOK
<1>5. Decrypting(d, records)
  <2>1. d.table = 1 /\ d.skip = 0 /\ d.at = "find"
    OBVIOUS
  <2>2. Tables[1] \in TableNames
    BY DEF Tables, TableNames
  <2>3. \A k : Rank(DOMAIN records[Tables[1]], k) \in Nat
    BY <1>4, <2>2, TableFits, RankNat
  <2> HIDE DEF d
  <2> QED BY <2>1, <2>3 DEF Decrypting, Passed
<1>6. Writes(records, records')
  BY <1>3 DEF Writes
<1> HIDE DEF d
<1> QED BY <1>1, <1>2, <1>3, <1>4, <1>5, <1>6, StepKeepsParty

\* What a conversion at a point knows.
LEMMA AtWork ==
  ASSUME PartyInv, NEW a \in Administrators, conversions[a].at \in {"find", "save"}
  PROVE  /\ conversions[a] \in PartyConversions /\ conversions[a] # NoConversion
         /\ conversions[a].to = "DECRYPTED" /\ encryption # "false"
         /\ conversions[a].table \in 1..4 /\ Tables[conversions[a].table] \in TableNames
         /\ records \in [TableNames -> RecordTables]
         /\ (encryption = "false-decrypt" /\ conversions[a].undisturbed)
              => Decrypting(conversions[a], records)
<1>1. conversions[a] # NoConversion
  BY DEF NoConversion
<1>2. conversions[a] \in PartyConversions /\ encryption # "false"
  BY <1>1 DEF PartyInv, PartyTypeOK
<1>3. conversions[a].table \in 1..4 /\ conversions[a].to = "DECRYPTED"
  BY <1>2 DEF PartyConversions
<1>4. \A i \in 1..4 : Tables[i] \in TableNames
  BY DEF Tables, TableNames
<1> QED BY <1>1, <1>2, <1>3, <1>4 DEF PartyInv, PartyTypeOK

LEMMA FindKeepsParty ==
  ASSUME PartyInv, NEW a \in Administrators, FindBatch(a)
  PROVE  PartyInv'
<1> DEFINE c == conversions[a]
           t == Tables[c.table]
           table == records[t]
           found == BatchAt(t, c.skip)
           batch == [k \in found |-> IF c.to = "ENCRYPTED" THEN Encrypted(records[t][k])
                                     ELSE Decrypted(records[t][k])]
           d == [conversions[a] EXCEPT !.at = "save", !.batch = batch]
<1>1. /\ c \in PartyConversions /\ c.to = "DECRYPTED" /\ encryption # "false" /\ c.at = "find"
      /\ t \in TableNames /\ records \in [TableNames -> RecordTables]
      /\ (encryption = "false-decrypt" /\ c.undisturbed) => Decrypting(c, records)
  BY AtWork DEF FindBatch
<1>2. /\ conversions' = [conversions EXCEPT ![a].at = "save", ![a].batch = batch]
      /\ UNCHANGED <<encryption, records, cleared, entered>>
  BY DEF FindBatch
<1>3. conversions' = [conversions EXCEPT ![a] = d]
  <2> HIDE DEF batch
  <2> QED BY <1>2 DEF PartyInv, PartyTypeOK
<1>4. table \in RecordTables /\ DOMAIN table \subseteq Keys /\ IsFiniteSet(DOMAIN table)
      /\ \A k \in DOMAIN table : table[k] \in RecordRows
  BY <1>1, TableFits
<1>5. c.skip \in Nat /\ BatchSize \in Nat /\ Keys \subseteq Nat
  BY <1>1, PartyAssumption DEF PartyConversions
<1>6. found = {k \in DOMAIN table : Rank(DOMAIN table, k) \in c.skip .. c.skip + BatchSize - 1}
  BY DEF BatchAt, Position, Existing, Rank
<1>7. IsFiniteSet(found) /\ Cardinality(found) \in Nat /\ Cardinality(found) <= BatchSize
  <2> HIDE DEF table, c, found
  <2>1. DOMAIN table \subseteq Nat
    BY <1>4, <1>5
  <2> DEFINE D == DOMAIN table
             n == c.skip
  <2>2. D \subseteq Nat /\ IsFiniteSet(D) /\ n \in Nat /\ BatchSize \in Nat
        /\ found \in SUBSET D /\ \A k \in found : Rank(D, k) \in n .. n + BatchSize - 1
    BY <1>4, <1>5, <1>6, <2>1
  <2> HIDE DEF D, n
  <2> QED BY <2>2, BatchFits
<1>8. batch \in ClearBatches /\ DOMAIN batch = found
  <2>1. \A k \in found : batch[k] = Decrypted(table[k]) /\ table[k] \in RecordRows
    <3>1. \A k \in found : k \in DOMAIN table
      BY <1>6
    <3> QED BY <1>1, <1>4, <3>1
  <2>2. \A k \in found : Decrypted(table[k]) \in ClearRows
    BY <1>1, <2>1, ReadingFits
  <2>3. batch \in [found -> ClearRows]
    <3> HIDE DEF found, table
    <3> QED BY <2>1, <2>2
  <2>4. found \in SUBSET Keys
    BY <1>4, <1>6
  <2> HIDE DEF batch, found
  <2> QED BY <1>7, <2>3, <2>4 DEF ClearBatches
<1> HIDE DEF batch
<1>9. /\ d \in PartyConversions
      /\ d.at = "save" /\ d.batch = batch /\ d.skip = c.skip /\ d.table = c.table
      /\ d.undisturbed = c.undisturbed
  BY <1>1, <1>8 DEF PartyConversions
<1>10. ASSUME encryption = "false-decrypt", d.undisturbed PROVE Decrypting(d, records)
  <2>1. Decrypting(c, records)
    BY <1>1, <1>9, <1>10
  <2>2. /\ \A i \in 1..4 : i < c.table => ClearTable(records[Tables[i]])
        /\ Passed(table, c.skip)
    BY <2>1 DEF Decrypting
  <2>3. PassedSave(table, c.skip, batch)
    <3>1. SUFFICES ASSUME NEW k \in DOMAIN table,
                          Rank(DOMAIN table, k) < c.skip + Cardinality(found)
                   PROVE  table[k].layers = 0 \/ k \in found
      BY <1>8 DEF PassedSave
    <3>2. Rank(DOMAIN table, k) \in Nat
      BY <1>4, RankNat
    <3>3. CASE Rank(DOMAIN table, k) < c.skip
      BY <2>2, <3>3 DEF Passed
    <3>4. CASE ~(Rank(DOMAIN table, k) < c.skip)
      <4>1. Rank(DOMAIN table, k) \in c.skip .. c.skip + BatchSize - 1
        <5> HIDE DEF found, table, c
        <5> QED BY <1>5, <1>7, <3>1, <3>2, <3>4
      <4> QED BY <1>6, <4>1
    <3> QED BY <3>3, <3>4
  <2> HIDE DEF d, c
  <2> QED BY <1>9, <2>2, <2>3 DEF Decrypting
<1>11. Writes(records, records')
  BY <1>2 DEF Writes
<1> HIDE DEF d, c, t, table, found
<1> QED BY <1>1, <1>2, <1>3, <1>9, <1>10, <1>11, StepKeepsParty

LEMMA SaveBatchKeepsParty ==
  ASSUME PartyInv, NEW a \in Administrators, SaveBatch(a)
  PROVE  PartyInv'
<1> DEFINE c == conversions[a]
           t == Tables[c.table]
           table == records[t]
           size == Cardinality(DOMAIN c.batch)
           d == [conversions[a] EXCEPT !.at = "find", !.skip = c.skip + size, !.batch = <<>>]
<1>1. /\ c \in PartyConversions /\ encryption # "false" /\ c.at = "save"
      /\ t \in TableNames /\ records \in [TableNames -> RecordTables]
      /\ (encryption = "false-decrypt" /\ c.undisturbed) => Decrypting(c, records)
  BY AtWork DEF SaveBatch
<1>2. /\ records' = [records EXCEPT ![t] = PutAll(table, c.batch)]
      /\ conversions' = [conversions EXCEPT ![a].at = "find", ![a].skip = c.skip + size,
                                            ![a].batch = <<>>]
      /\ UNCHANGED <<encryption, cleared, entered>>
  BY DEF SaveBatch, PartyInv, PartyTypeOK
<1>3. conversions' = [conversions EXCEPT ![a] = d]
  <2> HIDE DEF size
  <2> QED BY <1>2 DEF PartyInv, PartyTypeOK
<1>4. /\ c.batch \in ClearBatches /\ table \in RecordTables /\ c.skip \in Nat
      /\ IsFiniteSet(DOMAIN c.batch) /\ size \in Nat
  <2>1. c.batch \in ClearBatches /\ table \in RecordTables /\ c.skip \in Nat
    BY <1>1 DEF PartyConversions
  <2>2. IsFiniteSet(DOMAIN c.batch)
    BY <2>1, BatchIsClear
  <2> QED BY <2>1, <2>2, FS_CardinalityType
<1> DEFINE new == PutAll(table, c.batch)
<1>5. /\ new \in RecordTables /\ DOMAIN new = DOMAIN table \cup DOMAIN c.batch
      /\ \A j \in DOMAIN c.batch : new[j].layers = 0
      /\ \A j \in DOMAIN table : j \notin DOMAIN c.batch => new[j] = table[j]
  BY <1>4, PutAllFits
<1>6. /\ d \in PartyConversions
      /\ d.at = "find" /\ d.skip = c.skip + size /\ d.table = c.table
      /\ d.undisturbed = c.undisturbed
  <2>1. c.skip + size \in Nat
    BY <1>4
  <2> HIDE DEF size
  <2> QED BY <1>1, <2>1, NothingIsClear DEF PartyConversions
<1> HIDE DEF new, size, d
<1>7. /\ records' \in [TableNames -> RecordTables] /\ records'[t] = new
      /\ \A u \in TableNames : u # t => records'[u] = records[u]
  BY <1>1, <1>2, <1>5 DEF new
<1>8. Writes(records, records')
  BY <1>1, <1>5, <1>7 DEF Writes
<1>9. ASSUME encryption = "false-decrypt", d.undisturbed PROVE Decrypting(d, records')
  <2>1. Decrypting(c, records)
    BY <1>1, <1>6, <1>9
  <2>2. Decrypting(c, records')
    BY <1>1, <1>7, <1>8, <2>1, DecryptingKept
  <2>3. /\ \A i \in 1..4 : i < c.table => ClearTable(records'[Tables[i]])
        /\ PassedSave(new, c.skip, c.batch)
    BY <1>1, <1>7, <2>2 DEF Decrypting
  <2>4. Passed(new, c.skip + size)
    BY <1>5, <2>3 DEF Passed, PassedSave, size
  <2> QED BY <1>6, <1>7, <2>3, <2>4 DEF Decrypting
<1> HIDE DEF c, t, table
<1> QED BY <1>1, <1>2, <1>3, <1>6, <1>7, <1>8, <1>9, StepKeepsParty

LEMMA TableDoneKeepsParty ==
  ASSUME PartyInv, NEW a \in Administrators, TableDone(a)
  PROVE  PartyInv'
<1> DEFINE c == conversions[a]
           t == Tables[c.table]
           table == records[t]
           last == c.table = Len(Tables)
           next == [conversions[a] EXCEPT !.table = c.table + 1, !.skip = 0]
           d == IF last THEN NoConversion ELSE next
<1>1. /\ c \in PartyConversions /\ c.to = "DECRYPTED" /\ encryption # "false" /\ c.at = "find"
      /\ c.table \in 1..4 /\ t \in TableNames /\ records \in [TableNames -> RecordTables]
      /\ (encryption = "false-decrypt" /\ c.undisturbed) => Decrypting(c, records)
  BY AtWork DEF TableDone
<1>2. /\ BatchAt(t, c.skip) = {}
      /\ conversions' = [conversions EXCEPT ![a] = d]
      /\ cleared' = (cleared \/ (last /\ c.to = "DECRYPTED" /\ c.undisturbed
                                   /\ encryption = "false-decrypt"))
      /\ UNCHANGED <<encryption, records, entered>>
  BY DEF TableDone
<1>3. Len(Tables) = 4
  BY DEF Tables
<1>4. /\ \A i \in 1..4 : Tables[i] \in TableNames
      /\ \A u \in TableNames : \E i \in 1..4 : u = Tables[i]
  <2>1. Tables[1] = "account" /\ Tables[2] = "address" /\ Tables[3] = "invoice_account"
        /\ Tables[4] = "invoice_address"
    BY DEF Tables
  <2> QED BY <2>1 DEF TableNames
<1>5. /\ DOMAIN table \subseteq Nat /\ IsFiniteSet(DOMAIN table)
      /\ c.skip \in Nat /\ BatchSize \in Nat /\ BatchSize > 0
  <2>1. table \in RecordTables
    BY <1>1
  <2>2. DOMAIN table \subseteq Keys /\ IsFiniteSet(DOMAIN table)
    BY <2>1, TableFits
  <2>3. c.skip \in Nat
    BY <1>1 DEF PartyConversions
  <2>4. BatchSize \in Nat /\ BatchSize > 0 /\ Keys \subseteq Nat
    BY PartyAssumption
  <2> HIDE DEF table, c
  <2> QED BY <2>2, <2>3, <2>4
<1>6. \A k \in DOMAIN table : Rank(DOMAIN table, k) < c.skip
  <2>1. SUFFICES ASSUME NEW k \in DOMAIN table, ~(Rank(DOMAIN table, k) < c.skip) PROVE FALSE
    OBVIOUS
  <2>2. c.skip <= Rank(DOMAIN table, k)
    <3>1. Rank(DOMAIN table, k) \in Nat
      BY <1>5, RankNat
    <3> HIDE DEF table, c
    <3> QED BY <1>5, <2>1, <3>1
  <2>3. PICK j \in DOMAIN table : Rank(DOMAIN table, j) = c.skip
    BY <1>5, <2>2, EveryRank
  <2>4. BatchAt(t, c.skip)
          = {i \in DOMAIN table : Rank(DOMAIN table, i) \in c.skip .. c.skip + BatchSize - 1}
    BY DEF BatchAt, Position, Existing, Rank
  <2>5. c.skip \in c.skip .. c.skip + BatchSize - 1
    BY <1>5
  <2> QED BY <1>2, <2>3, <2>4, <2>5
<1>7. ASSUME encryption = "false-decrypt", c.undisturbed
      PROVE  /\ ClearTable(table)
             /\ \A i \in 1..4 : i < c.table => ClearTable(records[Tables[i]])
  BY <1>1, <1>6, <1>7 DEF Decrypting, Passed, ClearTable
<1>8. ASSUME last, encryption = "false-decrypt", c.undisturbed
      PROVE  \A u \in TableNames : ClearTable(records[u])
  <2>1. TAKE u \in TableNames
  <2>2. PICK i \in 1..4 : u = Tables[i]
    BY <1>4
  <2>3. i < c.table \/ i = c.table
    BY <1>3, <1>8
  <2> QED BY <1>7, <1>8, <2>2, <2>3
<1>9. ASSUME ~last
      PROVE  /\ next \in PartyConversions /\ next.table = c.table + 1 /\ next.skip = 0
             /\ next.at = "find" /\ next.undisturbed = c.undisturbed /\ next.table \in 1..4
  <2>1. c.table + 1 \in 1..4
    BY <1>1, <1>3, <1>9
  <2> QED BY <1>1, <2>1 DEF PartyConversions
<1>10. ASSUME ~last, encryption = "false-decrypt", c.undisturbed
       PROVE  Decrypting(next, records)
  <2>1. \A i \in 1..4 : i < c.table + 1 => ClearTable(records[Tables[i]])
    <3>1. \A i \in 1..4 : i < c.table + 1 => (i < c.table \/ i = c.table)
      BY <1>1
    <3> QED BY <1>7, <1>10, <3>1
  <2>2. Tables[c.table + 1] \in TableNames
    BY <1>4, <1>9, <1>10
  <2>3. \A k : Rank(DOMAIN records[Tables[c.table + 1]], k) \in Nat
    BY <1>1, <2>2, TableFits, RankNat
  <2>4. next.table = c.table + 1 /\ next.skip = 0 /\ next.at = "find"
    BY <1>9, <1>10
  <2> HIDE DEF next, c, last
  <2>5. Passed(records[Tables[c.table + 1]], 0)
    BY <2>3 DEF Passed
  <2> QED BY <2>1, <2>4, <2>5 DEF Decrypting
<1>11. Writes(records, records')
  BY <1>2 DEF Writes
<1>12. /\ d \in PartyConversions \cup {NoConversion}
       /\ (d # NoConversion /\ encryption = "false-decrypt" /\ d.undisturbed)
            => Decrypting(d, records')
  <2> HIDE DEF next, last
  <2> QED BY <1>2, <1>9, <1>10
<1>13. cleared' = cleared \/ (cleared' = TRUE /\ encryption = "false-decrypt"
                                 /\ \A u \in TableNames : ClearTable(records'[u]))
  <2>1. cleared \in BOOLEAN
    BY DEF PartyInv, PartyTypeOK
  <2>2. CASE last /\ c.to = "DECRYPTED" /\ c.undisturbed /\ encryption = "false-decrypt"
    <3>1. cleared' = TRUE
      BY <1>2, <2>2
    <3>2. \A u \in TableNames : ClearTable(records'[u])
      BY <1>2, <1>8, <2>2
    <3> QED BY <2>2, <3>1, <3>2
  <2>3. CASE ~(last /\ c.to = "DECRYPTED" /\ c.undisturbed /\ encryption = "false-decrypt")
    BY <1>2, <2>1, <2>3
  <2> QED BY <2>2, <2>3
<1> HIDE DEF c, t, table, d, next
<1> QED BY <1>1, <1>2, <1>11, <1>12, <1>13, StepKeepsParty

LEMMA DiesKeepsParty ==
  ASSUME PartyInv, NEW a \in Administrators, ConversionDies(a)
  PROVE  PartyInv'
<1>1. /\ conversions' = [conversions EXCEPT ![a] = NoConversion]
      /\ UNCHANGED <<encryption, records, cleared, entered>>
  BY DEF ConversionDies
<1>2. records \in [TableNames -> RecordTables] /\ Writes(records, records')
  BY <1>1 DEF PartyInv, PartyTypeOK, Writes
<1> QED BY <1>1, <1>2, StepKeepsParty

\* A restart ends every conversion.
LEMMA RedeployKeepsParty ==
  ASSUME PartyInv, NEW mode \in {"true", "false", "false-decrypt"}, Redeploy(mode)
  PROVE  PartyInv'
<1>1. UNCHANGED <<records, entered>> /\ encryption' = mode
  BY DEF Redeploy
<1>2. conversions' = [a \in Administrators |-> NoConversion]
  BY DEF Redeploy
<1>3. /\ conversions' \in [Administrators -> PartyConversions \cup {NoConversion}]
      /\ \A a \in Administrators : conversions'[a] = NoConversion
  BY <1>2
<1>4. cleared' = (cleared /\ mode # "true") /\ (mode = "false" => cleared) /\ cleared \in BOOLEAN
  BY DEF Redeploy, PartyInv, PartyTypeOK
<1>5. /\ mode = "true" => ~cleared'
      /\ mode = "false" => cleared'
      /\ cleared' => cleared
      /\ cleared' \in BOOLEAN
  BY <1>4, Zenon
<1>6. PartyTypeOK'
  BY <1>1, <1>3, <1>5 DEF PartyInv, PartyTypeOK
<1> QED BY <1>1, <1>3, <1>5, <1>6 DEF PartyInv

LEMMA PartyInvHolds ==
  ASSUME OnlyDecrypts
  PROVE  PartySpec => []PartyInv
<1>1. ASSUME PartyInit PROVE PartyInv
  <2>1. records \in [TableNames -> RecordTables]
    BY <1>1, NothingIsClear DEF PartyInit, TableNames
  <2>2. PartyTypeOK
    BY <1>1, <2>1 DEF PartyInit, PartyTypeOK
  <2>3. \A t \in TableNames : ClearTable(records[t])
    <3>1. \A t \in TableNames : records[t] = <<>>
      BY <1>1 DEF PartyInit, TableNames
    <3> QED BY <3>1 DEF ClearTable
  <2> QED BY <1>1, <2>2, <2>3 DEF PartyInit, PartyInv
<1>2. ASSUME PartyInv, [PartyNext]_partyVars PROVE PartyInv'
  <2>1. CASE UNCHANGED partyVars
    <3>1. records \in [TableNames -> RecordTables] /\ entered \in Nat /\ Writes(records, records)
      BY <1>2 DEF PartyInv, PartyTypeOK, Writes
    <3> QED BY <1>2, <2>1, <3>1, WriteKeepsParty DEF partyVars
  <2>2. CASE \E k \in Keys, v \in Entries :
               \/ \E address \in Keys \cup {NoKey} : SaveAccountRow(k, v, address)
               \/ SaveAddressRow(k, v)
    BY <1>2, <2>2, SaveAccountKeepsParty, SaveAddressKeepsParty
  <2>3. CASE \E k \in Keys : RemoveAddressRow(k)
    BY <1>2, <2>3, RemoveKeepsParty
  <2>4. CASE \E k, account \in Keys : SnapshotParty(k, account)
    BY <1>2, <2>4, SnapshotPartyKeepsParty
  <2>5. CASE \E k, account, address \in Keys, who, where \in Entries :
               SnapshotExternalSale(k, account, address, who, where)
    BY <1>2, <2>5, SnapshotExternalKeepsParty
  <2>6. CASE \E a \in Administrators :
               \/ \E to \in Directions : StartConversion(a, to)
               \/ FindBatch(a) \/ SaveBatch(a) \/ TableDone(a) \/ ConversionDies(a)
    BY <1>2, <2>6, StartKeepsParty, FindKeepsParty, SaveBatchKeepsParty, TableDoneKeepsParty,
       DiesKeepsParty
  <2>7. CASE \E mode \in {"true", "false", "false-decrypt"} : Redeploy(mode)
    BY <1>2, <2>7, RedeployKeepsParty
  <2> QED BY <1>2, <2>1, <2>2, <2>3, <2>4, <2>5, <2>6, <2>7 DEF PartyNext
<1> QED BY <1>1, <1>2, PTL DEF PartySpec

\* What was entered reads back, whoever reads it and in whatever mode the service
\* runs, as long as administrators only decrypt.
THEOREM ReadsBackHolds ==
  ASSUME OnlyDecrypts
  PROVE  PartySpec => []ReadsBack
<1>1. ASSUME PartyInv PROVE ReadsBack
  <2>1. SUFFICES ASSUME NEW t \in DOMAIN records, NEW k \in DOMAIN records[t]
                 PROVE  SnapshotRead(records[t][k]).layers = 0
    BY DEF ReadsBack
  <2>2. t \in TableNames
    BY <1>1, <2>1 DEF PartyInv, PartyTypeOK
  <2>3. Decrypted(records[t][k]) \in ClearRows
    BY <1>1, <2>1, <2>2, RowRead, ReadingFits
  <2> QED BY <2>3 DEF SnapshotRead, ClearRows
<1> QED BY <1>1, PartyInvHolds, PTL
===============================================================================
