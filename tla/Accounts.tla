------------------------------ MODULE Accounts ------------------------------
(***************************************************************************)
(* Local accounts: invitations and sign-up, sessions, suspension, password *)
(* reset keys, and the names accounts share with local communities         *)
(* (src/src/routes/api/users.rs, invitations.rs, forgot_password.rs,       *)
(* communities.rs, mod.rs, src/src/main.rs).                               *)
(*                                                                         *)
(* A handler reads what it decides on, spends a long time hashing or       *)
(* checking a password on another thread, and only then writes.  So each   *)
(* has two steps here, and any others may come in between.  Which password *)
(* is set, profile fields and avatars are not modelled; whether a password *)
(* matches is left open.  Keys are random and taken to be distinct.        *)
(***************************************************************************)
EXTENDS Naturals, FiniteSets

CONSTANTS
  Names,       \* names of local actors, in lower case
  Root,        \* the administrator's
  Invites,     \* invitation keys
  ResetKeys,   \* password reset keys
  Settings,    \* settings of the site row an administrator may choose
  Handlers,    \* bound: requests under way at a time
  MaxCommits   \* bound: writes

ASSUME AccountAssumption ==
  /\ Root \in Names
  /\ Invites \cap ResetKeys = {}
  /\ Settings \subseteq [open : BOOLEAN, invites : BOOLEAN, all : BOOLEAN, reserved : BOOLEAN]
  /\ MaxCommits \in Nat
  /\ \A k \in Invites \cup ResetKeys : k # "none"

VARIABLES
  actor,     \* actor[n] : who has the name, with the last suspension of a person
  key,       \* key[k] : an invitation or a reset key
  session,   \* rows of login
  site,      \* the settings of the site row that govern sign-up and communities
  request,   \* request[h] : what a handler under way has read
  commits    \* writes so far, the clock of this module

accountVars == <<actor, key, session, site, request, commits>>

NoKey == "none"
Now   == commits + 1
Write == commits < MaxCommits /\ commits' = Now

\* `since` is when a suspension was committed, `cleared` when it looked for sessions.
Person(suspended, at, looked) ==
  [kind |-> "person", suspended |-> suspended, since |-> at, cleared |-> looked]
Community == [kind |-> "community", suspended |-> FALSE, since |-> 0, cleared |-> 0]
Vacant    == [kind |-> "vacant", suspended |-> FALSE, since |-> 0, cleared |-> 0]

\* A key is "unknown" until it is issued, and "spent" from the commit `at` on.
KeyRow(state, owner, at) == [state |-> state, owner |-> owner, at |-> at]

Free == [pc |-> "idle"]
\* A request about name n that read its rows at time `read`.
Pending(pc, n, k, stay, read) ==
  [pc |-> pc, name |-> n, key |-> k, stay |-> stay, read |-> read]

IsPerson(n) == actor[n].kind = "person"
\* authenticate, require_login: any row of login will do.
LoggedIn(n) == \E t \in session : t.name = n

Begin(h, req) == request[h] = Free /\ request' = [request EXCEPT ![h] = req]
Done(h)       == request' = [request EXCEPT ![h] = Free]

AccountsInit ==
  /\ actor = [n \in Names |-> IF n = Root THEN Person(FALSE, 0, 0) ELSE Vacant]
  /\ key = [k \in Invites \cup ResetKeys |-> KeyRow("unknown", Root, 0)]
  /\ session = {[name |-> Root, checked |-> 0, issued |-> 0]}
  /\ site = [open |-> FALSE, invites |-> TRUE, all |-> FALSE, reserved |-> FALSE]
  /\ request = [h \in Handlers |-> Free]
  /\ commits = 0

-----------------------------------------------------------------------------
\* insert_token
IssueToken(n, checked) ==
  session' = session \cup {[name |-> n, checked |-> checked, issued |-> Now]}

\* route_unstable_invitations_create
Invite(n, k) ==
  /\ LoggedIn(n) /\ site.invites /\ (site.all \/ n = Root)
  /\ k \in Invites /\ key[k].state = "unknown"
  /\ Write
  /\ key' = [key EXCEPT ![k] = KeyRow("unused", n, 0)]
  /\ UNCHANGED <<actor, session, site, request>>

\* Mutant: used_by is not looked at.
AdmitsUsed(k) ==
  \/ site.open /\ k = NoKey
  \/ ~site.open /\ site.invites /\ k \in Invites /\ key[k].state # "unknown"

\* The invitation is looked at only while sign-up is closed.
Admits(k) ==
  \/ site.open /\ k = NoKey
  \/ ~site.open /\ site.invites /\ k \in Invites /\ key[k].state = "unused"

\* route_unstable_users_create up to the hash of the password.  `stay` asks for
\* a session.
SignUp(h, n, k, stay) ==
  /\ Admits(k)
  /\ Begin(h, Pending("sign-up", n, k, stay, commits))
  /\ UNCHANGED <<actor, key, session, site, commits>>

\* Mutant: a sign-up whose name is taken goes on to its session.
RegisterAnyway(h) ==
  LET r == request[h] IN
  /\ r.pc = "sign-up"
  /\ Write
  /\ request' = [request EXCEPT ![h] =
                   IF r.stay THEN Pending("issue", r.name, NoKey, TRUE, Now) ELSE Free]
  /\ UNCHANGED <<actor, key, session, site>>

\* Its transaction: the unique name, the account, the mark on the invitation,
\* whoever has marked it meanwhile.
Register(h) ==
  LET r == request[h] IN
  /\ r.pc = "sign-up"
  /\ IF actor[r.name] # Vacant
     THEN Done(h) /\ UNCHANGED <<actor, key, commits>>
     ELSE /\ Write
          /\ actor' = [actor EXCEPT ![r.name] = Person(FALSE, 0, 0)]
          /\ key' = IF r.key = NoKey THEN key
                    ELSE [key EXCEPT ![r.key] =
                            KeyRow("spent", r.name, IF key[r.key].state = "spent"
                                                    THEN key[r.key].at ELSE Now)]
          /\ request' = [request EXCEPT ![h] =
                           IF r.stay THEN Pending("issue", r.name, NoKey, TRUE, Now) ELSE Free]
  /\ UNCHANGED <<session, site>>

\* Mutant: a suspended user may start a session.
LogInAnyone(h, n) ==
  /\ IsPerson(n)
  /\ Begin(h, Pending("issue", n, NoKey, TRUE, commits))
  /\ UNCHANGED <<actor, key, session, site, commits>>

\* route_unstable_logins_create: `suspended` is read with the hash that the
\* password is then checked against.
LogIn(h, n) ==
  /\ IsPerson(n) /\ ~actor[n].suspended
  /\ Begin(h, Pending("issue", n, NoKey, TRUE, commits))
  /\ UNCHANGED <<actor, key, session, site, commits>>

\* The end of a log-in, or of a sign-up that asked for a session.
OpenSession(h) ==
  /\ request[h].pc = "issue"
  /\ Write
  /\ IssueToken(request[h].name, request[h].read)
  /\ Done(h)
  /\ UNCHANGED <<actor, key, site>>

\* The password was wrong.
LogInFails(h) ==
  /\ request[h].pc = "issue"
  /\ Done(h)
  /\ UNCHANGED <<actor, key, session, site, commits>>

\* route_unstable_users_patch with `suspended`, up to its transaction: the
\* caller has a session and is an administrator, the target is a local user.
StartSuspension(h, n, suspend) ==
  /\ LoggedIn(Root) /\ IsPerson(n)
  /\ Begin(h, Pending(IF suspend THEN "suspend" ELSE "lift", n, NoKey, FALSE, commits))
  /\ UNCHANGED <<actor, key, session, site, commits>>

\* An open transaction has updated the row of this person: another UPDATE waits.
Held(n) == \E h \in Handlers : request[h].pc = "cleared" /\ request[h].name = n

\* Its transaction up to the DELETE of the user's sessions, which finds those that
\* are committed by now.  Nobody else sees any of it, a log-in may still read the
\* account as it was, and its token, which takes no lock that matters, be inserted.
ClearLogins(h) ==
  /\ request[h].pc = "suspend" /\ ~Held(request[h].name)
  /\ request' = [request EXCEPT ![h] =
                   Pending("cleared", request[h].name, NoKey, FALSE, commits)]
  /\ UNCHANGED <<actor, key, session, site, commits>>

\* The COMMIT: the user is suspended, and the sessions that were found are gone.  A
\* suspension that is lifted ends none.
CommitSuspension(h) ==
  LET n == request[h].name
      looked == request[h].read
  IN
  /\ \/ /\ request[h].pc = "cleared"
        /\ actor' = [actor EXCEPT ![n] = Person(TRUE, Now, looked)]
        /\ session' = {t \in session : t.name = n => looked < t.issued}
     \/ /\ request[h].pc = "lift" /\ ~Held(n)
        /\ actor' = [actor EXCEPT ![n] = Person(FALSE, 0, 0)]
        /\ UNCHANGED session
  /\ Write
  /\ Done(h)
  /\ UNCHANGED <<key, site>>

\* The transaction is not committed: an error, or the connection is lost.
RollBack(h) ==
  /\ request[h].pc = "cleared"
  /\ Done(h)
  /\ UNCHANGED <<actor, key, session, site, commits>>

\* route_unstable_logins_current_delete, which waits for a row that is being deleted.
LogOut(t) ==
  /\ \A h \in Handlers : request[h].pc = "cleared" /\ request[h].name = t.name =>
                           request[h].read < t.issued
  /\ Write
  /\ session' = session \ {t}
  /\ UNCHANGED <<actor, key, site, request>>

\* route_unstable_forgot_password_keys_create.  Anyone may ask.
ForgotPassword(n, k) ==
  /\ IsPerson(n)
  /\ k \in ResetKeys /\ key[k].state = "unknown"
  /\ Write
  /\ key' = [key EXCEPT ![k] = KeyRow("unused", n, 0)]
  /\ UNCHANGED <<actor, session, site, request>>

\* An hour passes.
KeyExpires(k) ==
  /\ k \in ResetKeys /\ key[k].state = "unused"
  /\ key' = [key EXCEPT ![k].state = "expired"]
  /\ UNCHANGED <<actor, session, site, request, commits>>

\* route_unstable_forgot_password_keys_get, and the same test of the reset.
KeyFound(k) == key[k].state = "unused"

\* route_unstable_forgot_password_keys_reset up to the hash of the password.
StartReset(h, k) ==
  /\ k \in ResetKeys /\ KeyFound(k)
  /\ Begin(h, Pending("reset", key[k].owner, k, FALSE, commits))
  /\ UNCHANGED <<actor, key, session, site, commits>>

\* Mutant: the key is left in place.
CommitResetKeepingKey(h) ==
  LET k == request[h].key IN
  /\ request[h].pc = "reset"
  /\ Write
  /\ key' = [key EXCEPT ![k].at = IF @ = 0 THEN Now ELSE @]
  /\ Done(h)
  /\ UNCHANGED <<actor, session, site>>

\* Its transaction: UPDATE person, DELETE of the key, which may be gone already.
CommitReset(h) ==
  LET k == request[h].key IN
  /\ request[h].pc = "reset" /\ ~Held(request[h].name)
  /\ Write
  /\ key' = [key EXCEPT ![k] = KeyRow("spent", key[k].owner,
                                       IF key[k].state = "spent" THEN key[k].at ELSE Now)]
  /\ Done(h)
  /\ UNCHANGED <<actor, session, site>>

\* route_unstable_communities_create: communities and persons share
\* local_actor_name.  Deleting a community does not free its name.  The site may
\* reserve it to administrators (community_creation_requirement).
FoundCommunity(n, by) ==
  /\ LoggedIn(by) /\ (site.reserved => by = Root)
  /\ actor[n] = Vacant
  /\ Write
  /\ actor' = [actor EXCEPT ![n] = Community]
  /\ UNCHANGED <<key, session, site, request>>

\* route_unstable_instance_patch, as far as sign-up and communities go.
PatchSite(settings) ==
  /\ LoggedIn(Root)
  /\ settings # site
  /\ Write
  /\ site' = settings
  /\ UNCHANGED <<actor, key, session, request>>

AccountsNext ==
  \/ \E n \in Names, k \in Invites : Invite(n, k)
  \/ \E h \in Handlers, n \in Names, k \in Invites \cup {NoKey}, stay \in BOOLEAN :
       SignUp(h, n, k, stay)
  \/ \E h \in Handlers : Register(h)
  \/ \E h \in Handlers, n \in Names : LogIn(h, n)
  \/ \E h \in Handlers : OpenSession(h)
  \/ \E h \in Handlers : LogInFails(h)
  \/ \E t \in session : LogOut(t)
  \/ \E h \in Handlers, n \in Names, suspend \in BOOLEAN : StartSuspension(h, n, suspend)
  \/ \E h \in Handlers : ClearLogins(h) \/ CommitSuspension(h) \/ RollBack(h)
  \/ \E n \in Names, k \in ResetKeys : ForgotPassword(n, k)
  \/ \E k \in ResetKeys : KeyExpires(k)
  \/ \E h \in Handlers, k \in ResetKeys : StartReset(h, k)
  \/ \E h \in Handlers : CommitReset(h)
  \/ \E n, by \in Names : FoundCommunity(n, by)
  \/ \E settings \in Settings : PatchSite(settings)

AccountsSpec == AccountsInit /\ [][AccountsNext]_accountVars

-----------------------------------------------------------------------------
Actors == {Vacant, Community} \cup
          [kind : {"person"}, suspended : BOOLEAN, since : 0..MaxCommits, cleared : 0..MaxCommits]
KeyRows == [state : {"unknown", "unused", "expired", "spent"}, owner : Names,
            at : 0..MaxCommits]
Requests == [pc : {"sign-up", "issue", "suspend", "cleared", "lift", "reset"}, name : Names,
             key : Invites \cup ResetKeys \cup {NoKey}, stay : BOOLEAN, read : 0..MaxCommits]

(***************************************************************************)
(* Accounts, keys, sessions and requests are what they are declared to be, *)
(* and whoever has a session is a person (login.person references person,  *)
(* src/src/routes/api/mod.rs:737).                                         *)
(***************************************************************************)
AccountsTypeOK ==
  /\ actor \in [Names -> Actors]
  /\ key \in [Invites \cup ResetKeys -> KeyRows]
  /\ session \subseteq [name : Names, checked : 0..MaxCommits, issued : 0..MaxCommits]
  /\ site \in [open : BOOLEAN, invites : BOOLEAN, all : BOOLEAN, reserved : BOOLEAN]
  /\ request \in [Handlers -> {Free} \cup Requests]
  /\ commits \in 0..MaxCommits
  /\ \A t \in session : IsPerson(t.name)

(***************************************************************************)
(* Suspending a user ends the sessions the user has: a session that a      *)
(* suspended user still holds comes from a log-in that had read the        *)
(* account before the suspension was committed and wrote its token after   *)
(* the suspension's DELETE had looked for sessions, be it before or after  *)
(* the COMMIT (route_unstable_users_patch, "just suspended, need to clear  *)
(* out current logins", and route_unstable_logins_create).                 *)
(***************************************************************************)
SuspensionEndsSessions ==
  \A t \in session : actor[t.name].suspended =>
    t.checked < actor[t.name].since /\ actor[t.name].cleared < t.issued

(***************************************************************************)
(* An invitation or a reset key serves only requests that had found it     *)
(* unspent: from the first use on, no new request gets as far as hashing a *)
(* password with it (route_unstable_users_create,                          *)
(* route_unstable_forgot_password_keys_reset).                             *)
(***************************************************************************)
KeysDie ==
  \A h \in Handlers :
    request[h].pc \in {"sign-up", "reset"} /\ request[h].key # NoKey
      /\ key[request[h].key].at # 0
    => request[h].read < key[request[h].key].at
=============================================================================
