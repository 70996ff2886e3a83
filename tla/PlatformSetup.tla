---------------------------- MODULE PlatformSetup ----------------------------
(***************************************************************************)
(* The first-run setup of a platform (PlatformSetupService): a single row    *)
(* remembers how far the steps got, every request takes a lease on that row  *)
(* and checks it again in each of its transactions, and between them calls   *)
(* the users service, whose answers may be lost.  Requests may crash, and a  *)
(* slow one may outlive its lease.                                           *)
(*                                                                         *)
(* Abstracted: names, rates and other contents of accounts, addresses and    *)
(* taxes; a lease token is the worker that drew it, since a worker runs one  *)
(* request at a time and draws a new token for each.                         *)
(***************************************************************************)
EXTENDS Naturals, Sequences, SequencesExt

CONSTANTS
    Setters,        \* workers that serve setup requests
    SetupAdmins,    \* administrators who may call it
    TeamNames,      \* names a team may be given
    SetupChoices,   \* settings records, [market, sells, extra : BOOLEAN]
    Nothing         \* a column that is still null

SetupSettings == [market : BOOLEAN, sells : BOOLEAN, extra : BOOLEAN]

\* Rows of platform_setup.
SetupRows ==
    [status : {"IN_PROGRESS", "COMPLETED"}, startedBy : SetupAdmins,
     teamName : TeamNames \cup {Nothing}, teamId : BOOLEAN,
     platformSaved : BOOLEAN, platformReady : BOOLEAN,
     settings : SetupSettings \cup {Nothing},
     sellerSaved : BOOLEAN, sellerReady : BOOLEAN, kept : BOOLEAN]

ASSUME SetupAssumption ==
    /\ SetupChoices \subseteq SetupSettings
    /\ Nothing \notin Setters /\ Nothing \notin SetupAdmins /\ Nothing \notin TeamNames
    /\ Nothing \notin SetupSettings /\ Nothing \notin SetupRows

VARIABLES
    setup,      \* the platform_setup row, or Nothing
    lease,      \* its leaseToken and whether leaseUntil is set and not past
    userTeam,   \* name of the team made under the row's creation key, or Nothing
    owned,      \* entities the users service holds as the team's
    billing,    \* admin_settings.billingAccountId
    request     \* the request each worker runs

suVars == <<setup, lease, userTeam, owned, billing, request>>

Idle == [at |-> "idle", step |-> Nothing, user |-> Nothing, input |-> Nothing, todo |-> <<>>]

FreshRow(u) ==
    [status |-> "IN_PROGRESS", startedBy |-> u, teamName |-> Nothing, teamId |-> FALSE,
     platformSaved |-> FALSE, platformReady |-> FALSE, settings |-> Nothing,
     sellerSaved |-> FALSE, sellerReady |-> FALSE, kept |-> FALSE]

SetupInit ==
    /\ setup = Nothing
    /\ lease = [token |-> Nothing, live |-> FALSE]
    /\ userTeam = Nothing
    /\ owned = {}
    /\ billing \in {Nothing, "legacy"}
    /\ request = [w \in Setters |-> Idle]

-----------------------------------------------------------------------------
(* What the row says.                                                        *)

\* step(): the first thing still missing.
CurrentStep ==
    CASE setup.status = "COMPLETED" -> "COMPLETED"
      [] setup.status # "COMPLETED" /\ ~setup.teamId -> "TEAM"
      [] setup.status # "COMPLETED" /\ setup.teamId /\ ~setup.platformReady -> "PLATFORM"
      [] setup.status # "COMPLETED" /\ setup.teamId /\ setup.platformReady
            /\ setup.settings = Nothing -> "SETTINGS"
      [] OTHER -> IF setup.settings.market /\ setup.settings.sells /\ ~setup.sellerReady
                  THEN "SELLER" ELSE "REVIEW"

LegacyAvailable ==
    /\ setup = Nothing \/ (setup.teamName = Nothing /\ ~setup.platformSaved
                              /\ setup.status # "COMPLETED")
    /\ billing # Nothing

\* Taxes configure() creates for the settings, and everything complete() vouches for.
TaxesOf(s) ==
    (IF s.market THEN <<"tax">> ELSE <<>>) \o (IF s.extra THEN <<"extraTax">> ELSE <<>>)
AccountOf(seller) ==
    IF seller THEN <<"sellerAddress", "sellerAccount">> ELSE <<"address", "account">>

\* complete() trusts that configure() attached the taxes.
DutiesTrusted(s) ==
    AccountOf(FALSE) \o (IF s.sells THEN AccountOf(TRUE) ELSE <<>>)

Duties(s) ==
    AccountOf(FALSE) \o (IF s.sells THEN AccountOf(TRUE) ELSE <<>>) \o TaxesOf(s)

\* lock() reads the row without comparing the token.
HoldsUnfenced(w) == setup # Nothing

\* lock(): the row is still this request's.
Holds(w) == setup # Nothing /\ lease.token = w /\ lease.live

-----------------------------------------------------------------------------
(* The life of a request: start, lease, transactions and calls, finally.     *)

GoTo(w, at) == request' = [request EXCEPT ![w].at = at]

Start(w, step, u, input, at) ==
    /\ request[w].at = "idle"
    /\ request' = [request EXCEPT ![w] =
                     [at |-> at, step |-> step, user |-> u, input |-> input, todo |-> <<>>]]
    /\ UNCHANGED <<setup, lease, userTeam, owned, billing>>

StartTeam(w, u, name) == ~LegacyAvailable /\ Start(w, "TEAM", u, name, "initialize")
StartKeep(w, u) == Start(w, "KEEP", u, Nothing, "initialize")
\* Settings that pass validateSettings(), and what normalizeSettings() makes of them:
\* only a marketplace also sells under an account of its own.
Normalized(s) == [s EXCEPT !.sells = s.market /\ @]
StartSettings(w, u, s) == Start(w, "SETTINGS", u, Normalized(s), "enter")

\* The accounts that pass validateAccount() and validateAddress().
StartOther(w, u) ==
    \E step \in {"PLATFORM", "SELLER", "COMPLETE"} : Start(w, step, u, Nothing, "enter")

\* initialize(): insert the single row; a duplicate key means somebody else did.
Initialize(w) ==
    /\ request[w].at = "initialize"
    /\ setup' = IF setup = Nothing THEN FreshRow(request[w].user) ELSE setup
    /\ GoTo(w, "enter")
    /\ UNCHANGED <<lease, userTeam, owned, billing>>

MayEnter(w) ==
    /\ setup # Nothing
    /\ setup.status # "COMPLETED"
    /\ setup.startedBy = request[w].user
    /\ ~lease.live

\* run(): take the lease, or answer at once.
Enter(w) ==
    /\ request[w].at = "enter"
    /\ IF MayEnter(w)
       THEN /\ lease' = [token |-> w, live |-> TRUE]
            /\ GoTo(w, request[w].step)
       ELSE /\ request' = [request EXCEPT ![w] = Idle]
            /\ UNCHANGED lease
    /\ UNCHANGED <<setup, userTeam, owned, billing>>

\* The finally of run(): give the lease back if it is still this request's.
Leave(w) ==
    /\ request[w].at = "finally"
    /\ lease' = IF lease.token = w THEN [lease EXCEPT !.live = FALSE] ELSE lease
    /\ request' = [request EXCEPT ![w] = Idle]
    /\ UNCHANGED <<setup, userTeam, owned, billing>>

\* The process dies, or the five minutes pass.
SetterCrashes(w) ==
    /\ request[w].at # "idle"
    /\ request' = [request EXCEPT ![w] = Idle]
    /\ UNCHANGED <<setup, lease, userTeam, owned, billing>>
LeaseExpires ==
    /\ lease.live
    /\ lease' = [lease EXCEPT !.live = FALSE]
    /\ UNCHANGED <<setup, userTeam, owned, billing, request>>

\* A transaction of a request: refused unless the lease is still held and `ok',
\* and then rolled back; `next' is where the request goes on.
Edit(w, ok, row, next) ==
    /\ IF Holds(w) /\ ok
       THEN setup' = row /\ GoTo(w, next)
       ELSE GoTo(w, "finally") /\ UNCHANGED setup
    /\ UNCHANGED <<lease, userTeam, owned, billing>>

\* attachOwnership() for the head of the list; the answer may be lost.
Attach(w) ==
    /\ request[w].todo # <<>>
    /\ \/ /\ owned' = owned \cup {Head(request[w].todo)}
          /\ \/ request' = [request EXCEPT ![w].todo = Tail(@)]
             \/ request' = [request EXCEPT ![w].todo = <<>>, ![w].at = "finally"]
       \/ /\ request' = [request EXCEPT ![w].todo = <<>>, ![w].at = "finally"]
          /\ UNCHANGED owned
    /\ UNCHANGED <<setup, lease, userTeam, billing>>

At(w, at) == request[w].at = at /\ request[w].todo = <<>>

-----------------------------------------------------------------------------
(* team().                                                                   *)

CheckName(w) ==
    /\ At(w, "TEAM")
    /\ LET ok == /\ ~setup.teamId
                 /\ setup.teamName \in {Nothing, request[w].input}
       IN Edit(w, ok, setup, "keepName")

\* The name is kept before the call that cannot be undone.
KeepName(w) ==
    /\ At(w, "keepName")
    /\ Edit(w, TRUE, [setup EXCEPT !.teamName = request[w].input], "makeTeam")

\* groups.insert() with the creation key: made once, then answered again.
MakeTeam(w) ==
    /\ At(w, "makeTeam")
    /\ userTeam' \in (IF userTeam = Nothing THEN {Nothing, request[w].input} ELSE {userTeam})
    /\ \/ userTeam' # Nothing /\ GoTo(w, "keepTeam")
       \/ GoTo(w, "finally")
    /\ UNCHANGED <<setup, lease, owned, billing>>

KeepTeam(w) ==
    /\ At(w, "keepTeam")
    /\ Edit(w, TRUE, [setup EXCEPT !.teamId = TRUE], "finally")

-----------------------------------------------------------------------------
(* saveAccount(), for the platform or for its own seller.                    *)

SaveAccount(w) ==
    /\ request[w].step \in {"PLATFORM", "SELLER"}
    /\ At(w, request[w].step)
    /\ LET seller == request[w].step = "SELLER"
           saved == IF seller THEN setup.sellerSaved ELSE setup.platformSaved
           ready == IF seller THEN setup.sellerReady ELSE setup.platformReady
           ok == /\ setup.teamId
                 /\ seller => /\ setup.settings # Nothing
                              /\ setup.settings.market /\ setup.settings.sells
                              /\ saved \/ setup.platformReady
           row == IF seller THEN [setup EXCEPT !.sellerSaved = TRUE]
                            ELSE [setup EXCEPT !.platformSaved = TRUE]
       IN IF Holds(w) /\ ok /\ ~ready
          THEN /\ setup' = row
               /\ request' = [request EXCEPT ![w].at = "accountReady", ![w].todo = AccountOf(seller)]
               /\ UNCHANGED <<lease, userTeam, owned, billing>>
          ELSE Edit(w, FALSE, row, "finally")

AccountReady(w) ==
    /\ At(w, "accountReady")
    /\ Edit(w, TRUE, IF request[w].step = "SELLER" THEN [setup EXCEPT !.sellerReady = TRUE]
                                                  ELSE [setup EXCEPT !.platformReady = TRUE],
            "finally")

-----------------------------------------------------------------------------
(* configure(): settings and taxes in one transaction, ownership after it.   *)

Configure(w) ==
    /\ At(w, "SETTINGS")
    /\ LET ok == setup.platformReady /\ setup.settings \in {Nothing, request[w].input}
       IN IF Holds(w) /\ ok
          THEN /\ setup' = [setup EXCEPT !.settings = request[w].input]
               /\ request' = [request EXCEPT ![w].at = "finally",
                                             ![w].todo = TaxesOf(request[w].input)]
               /\ UNCHANGED <<lease, userTeam, owned, billing>>
          ELSE Edit(w, FALSE, setup, "finally")

-----------------------------------------------------------------------------
(* complete().                                                               *)

\* Everything is ready, the administrator still owns the team (the users service
\* may deny it, or not answer), and ownership is attached again.
Review(w) ==
    /\ At(w, "COMPLETE")
    /\ \/ /\ Holds(w) /\ CurrentStep = "REVIEW"
          /\ request' = [request EXCEPT ![w].at = "commit", ![w].todo = Duties(setup.settings)]
       \/ GoTo(w, "finally")
    /\ UNCHANGED <<setup, lease, userTeam, owned, billing>>

\* One transaction activates it all; accounts, taxes, commissions or report
\* sources that were changed elsewhere in the meantime make it roll back.
Complete(w) ==
    /\ At(w, "commit")
    /\ \E changed \in BOOLEAN :
         IF Holds(w) /\ ~changed /\ billing \in {Nothing, "platform"}
         THEN /\ setup' = [setup EXCEPT !.status = "COMPLETED"]
              /\ billing' = "platform"
              /\ GoTo(w, "finally")
              /\ UNCHANGED <<lease, userTeam, owned>>
         ELSE Edit(w, FALSE, setup, "finally")

\* keepExisting(): adopt the installation that was there.
KeepExisting(w) ==
    /\ At(w, "KEEP")
    /\ LET ok == /\ setup.teamName = Nothing /\ ~setup.teamId /\ ~setup.platformSaved
                 /\ billing # Nothing
       IN Edit(w, ok, [setup EXCEPT !.platformSaved = TRUE, !.status = "COMPLETED",
                                    !.kept = TRUE], "finally")

\* AdminSettingsService.upsertAdminSettings(): the settings page names a billing account.
SetBilling ==
    /\ billing = Nothing
    /\ billing' = "legacy"
    /\ UNCHANGED <<setup, lease, userTeam, owned, request>>

SetupNext ==
    \/ \E w \in Setters :
         \/ \E u \in SetupAdmins :
              \/ \E n \in TeamNames : StartTeam(w, u, n)
              \/ StartKeep(w, u)
              \/ \E s \in SetupChoices : StartSettings(w, u, s)
              \/ StartOther(w, u)
         \/ Initialize(w) \/ Enter(w) \/ Leave(w) \/ SetterCrashes(w)
         \/ Attach(w)
         \/ CheckName(w) \/ KeepName(w) \/ MakeTeam(w) \/ KeepTeam(w)
         \/ SaveAccount(w) \/ AccountReady(w)
         \/ Configure(w)
         \/ Review(w) \/ Complete(w) \/ KeepExisting(w)
    \/ LeaseExpires
    \/ SetBilling

SetupSpec == SetupInit /\ [][SetupNext]_suVars

-----------------------------------------------------------------------------
(* What must hold.                                                           *)

\* A setup is completed only when the users service holds everything it created
\* as the team's, whatever calls failed or were lost in the steps before.
CompletedIsOwned ==
    (setup # Nothing /\ setup.status = "COMPLETED" /\ ~setup.kept)
        => /\ {"address", "account"} \subseteq owned
           /\ setup.settings.sells => {"sellerAddress", "sellerAccount"} \subseteq owned
           /\ setup.settings.market => "tax" \in owned
           /\ setup.settings.extra => "extraTax" \in owned

\* An installation that was kept has no team of an abandoned setup beside it, and
\* a team that was made bears the name the row remembers: the remote call that
\* cannot be undone comes after the name is kept, under a lease that still holds.
TeamAgrees ==
    userTeam # Nothing =>
        /\ setup # Nothing /\ setup.teamName = userTeam
        /\ ~setup.kept
===============================================================================
