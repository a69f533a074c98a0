--------------------------- MODULE AccountsProofs ---------------------------
(***************************************************************************)
(* Proofs about modules Accounts and Moderation, for any accounts, keys,   *)
(* handlers, moderators without a time and bounds.                         *)
(***************************************************************************)
EXTENDS Accounts, Moderation, TLAPS

-----------------------------------------------------------------------------
(***************************************************************************)
(* Accounts.  SuspensionEndsSessions and KeysDie are about what is written *)
(* after a decision was taken, so the invariant must know what the         *)
(* requests under way have read (UnderWay) and that no recorded time is    *)
(* ahead of the clock (Clocks).  A suspension that has looked for sessions *)
(* and is not committed knows when it looked; whatever token is written    *)
(* from then on has a later time.                                          *)
(***************************************************************************)

\* Times are past, and a key has a time of use only when it is spent.
Clocks ==
  /\ \A n \in Names : actor[n].since <= commits /\ actor[n].cleared <= commits
  /\ \A t \in session : t.checked <= commits
  /\ \A k \in Invites \cup ResetKeys :
       /\ key[k].at <= commits
       /\ key[k].at # 0 => key[k].state = "spent"
  /\ \A h \in Handlers : request[h] # Free => request[h].read <= commits

\* A session about to be opened is for a person whose suspension, if there is
\* one, came after the check.
UnderWay ==
  \A h \in Handlers :
    /\ request[h].pc \in {"issue", "suspend", "cleared", "lift"} => actor[request[h].name].kind = "person"
    /\ request[h].pc = "issue" /\ actor[request[h].name].suspended =>
         request[h].read < actor[request[h].name].since
    /\ request[h].pc = "reset" => request[h].key \in ResetKeys

AccountsInv ==
  AccountsTypeOK /\ Clocks /\ UnderWay /\ SuspensionEndsSessions /\ KeysDie

-----------------------------------------------------------------------------
LEMMA InitEstablishesInv == AccountsInit => AccountsInv
<1>1. AccountsInit => AccountsTypeOK
  BY AccountAssumption DEF AccountsInit, AccountsTypeOK, Actors, KeyRows, Requests,
     Person,
     Vacant, KeyRow, Free, IsPerson
<1>2. AccountsInit => Clocks /\ UnderWay /\ SuspensionEndsSessions /\ KeysDie
  BY AccountAssumption DEF AccountsInit, Clocks, UnderWay, SuspensionEndsSessions,
     KeysDie,
     Person, Vacant, KeyRow, Free
<1>3. QED BY <1>1, <1>2 DEF AccountsInv


\* All recorded times are natural numbers.
LEMMA TimesAreNat ==
  ASSUME AccountsTypeOK
  PROVE  /\ commits \in Nat
         /\ \A n \in Names : actor[n].since \in Nat /\ actor[n].cleared \in Nat
         /\ \A k \in Invites \cup ResetKeys : key[k].at \in Nat
         /\ \A h \in Handlers : request[h] # Free => request[h].read \in Nat
         /\ \A t \in session : t.checked \in Nat /\ t.issued \in Nat
<1>1. commits \in Nat
  BY AccountAssumption DEF AccountsTypeOK
<1>2. \A n \in Names : actor[n].since \in Nat /\ actor[n].cleared \in Nat
  <2> SUFFICES ASSUME NEW n \in Names PROVE actor[n].since \in Nat /\ actor[n].cleared \in Nat
    OBVIOUS
  <2>1. actor[n] \in Actors
    BY DEF AccountsTypeOK
  <2>2. QED BY <2>1, AccountAssumption DEF Actors, Vacant, Community
<1>3. \A k \in Invites \cup ResetKeys : key[k].at \in Nat
  BY AccountAssumption DEF AccountsTypeOK, KeyRows
<1>4. \A h \in Handlers : request[h] # Free => request[h].read \in Nat
  BY AccountAssumption DEF AccountsTypeOK, Requests
<1>5. \A t \in session : t.checked \in Nat /\ t.issued \in Nat
  BY AccountAssumption DEF AccountsTypeOK
<1>6. QED BY <1>1, <1>2, <1>3, <1>4, <1>5

\* Who commits a suspension, or lifts one, has read the account.
LEMMA Suspending ==
  ASSUME AccountsInv, NEW h \in Handlers, CommitSuspension(h)
  PROVE  /\ request[h] # Free /\ request[h] \in Requests /\ request[h].name \in Names
         /\ request[h].read \in 0..MaxCommits /\ request[h].read <= commits
<1>1. request[h].pc \in {"cleared", "lift"}
  BY DEF CommitSuspension
<1>2. request[h] # Free
  BY <1>1 DEF Free
<1>3. request[h] \in Requests /\ request[h].read <= commits
  BY <1>2 DEF AccountsInv, AccountsTypeOK, Clocks
<1>4. QED BY <1>2, <1>3 DEF Requests

LEMMA TypesPreserved == AccountsInv /\ [AccountsNext]_accountVars => AccountsTypeOK'
<1> SUFFICES ASSUME AccountsInv, [AccountsNext]_accountVars PROVE AccountsTypeOK'
  OBVIOUS
<1> USE AccountAssumption DEF AccountsInv
<1>1. ASSUME NEW n \in Names, NEW k \in Invites, Invite(n, k) PROVE AccountsTypeOK'
  BY <1>1 DEF AccountsTypeOK, Actors, KeyRows, Requests, IsPerson, UnderWay, Invite,
     Write, Now, KeyRow
<1>2. ASSUME NEW h \in Handlers, NEW n \in Names, NEW k \in Invites \cup {NoKey},
   NEW stay \in BOOLEAN, SignUp(h, n, k, stay) PROVE AccountsTypeOK'
  BY <1>2 DEF AccountsTypeOK, Actors, KeyRows, Requests, IsPerson, UnderWay, SignUp,
     Admits, Begin, Pending, NoKey
<1>3. ASSUME NEW h \in Handlers, Register(h) PROVE AccountsTypeOK'
  <2> DEFINE r == request[h]
  <2>1. r \in Requests
    BY <1>3 DEF AccountsTypeOK, Register, Free
  <2>2. CASE actor[r.name] # Vacant
    BY <1>3, <2>2 DEF AccountsTypeOK, Register, Done, IsPerson
  <2>3. CASE actor[r.name] = Vacant
    <3>1. r.name \in Names /\ r.key \in Invites \cup ResetKeys \cup {NoKey}
      BY <2>1 DEF Requests
    <3>2. Now \in 0..MaxCommits /\ commits' = Now
      BY <1>3, <2>3 DEF Register, Write, Now, AccountsTypeOK
    <3>3. Person(FALSE, 0, 0) \in Actors
      BY DEF Person, Actors
    <3>4. actor' = [actor EXCEPT ![r.name] = Person(FALSE, 0, 0)]
      BY <1>3, <2>3 DEF Register
    <3>5. actor' \in [Names -> Actors]
      BY <3>1, <3>3, <3>4 DEF AccountsTypeOK
    <3>6. key' \in [Invites \cup ResetKeys -> KeyRows]
      <4>1. CASE r.key = NoKey
        BY <1>3, <2>3, <4>1 DEF Register, AccountsTypeOK
      <4>2. CASE r.key # NoKey
        <5> DEFINE row == KeyRow("spent", r.name, IF key[r.key].state = "spent"
                                                  THEN key[r.key].at ELSE Now)
        <5>1. r.key \in Invites \cup ResetKeys
          BY <3>1, <4>2
        <5>2. key[r.key].at \in 0..MaxCommits
          BY <5>1 DEF AccountsTypeOK, KeyRows
        <5>3. row \in KeyRows
          BY <3>1, <3>2, <5>2 DEF KeyRow, KeyRows
        <5>4. key' = [key EXCEPT ![r.key] = row]
          BY <1>3, <2>3, <4>2 DEF Register
        <5> HIDE DEF row
        <5>5. QED BY <5>1, <5>3, <5>4 DEF AccountsTypeOK
      <4>3. QED BY <4>1, <4>2
    <3>7. request' \in [Handlers -> {Free} \cup Requests]
      <4>1. Pending("issue", r.name, NoKey, TRUE, Now) \in Requests
        BY <3>1, <3>2 DEF Pending, Requests
      <4>2. QED BY <1>3, <2>3, <4>1 DEF Register, AccountsTypeOK
    <3>8. session' = session /\ site' = site
      BY <1>3 DEF Register
    <3>9. \A t \in session' : actor'[t.name].kind = "person"
      <4>1. \A t \in session : t.name \in Names /\ actor[t.name].kind = "person"
        BY DEF AccountsTypeOK, IsPerson
      <4>2. Person(FALSE, 0, 0).kind = "person"
        BY DEF Person
      <4>3. actor \in [Names -> Actors]
        BY DEF AccountsTypeOK
      <4>4. QED BY <3>1, <3>4, <3>8, <4>1, <4>2, <4>3
    <3>10. QED BY <3>2, <3>5, <3>6, <3>7, <3>8, <3>9 DEF AccountsTypeOK, IsPerson
  <2>4. QED BY <2>2, <2>3
<1>4. ASSUME NEW h \in Handlers, NEW n \in Names, LogIn(h, n) PROVE AccountsTypeOK'
  BY <1>4 DEF AccountsTypeOK, Actors, KeyRows, Requests, IsPerson, UnderWay, LogIn,
     Begin, Pending, NoKey
<1>5. ASSUME NEW h \in Handlers, OpenSession(h) PROVE AccountsTypeOK'
  BY <1>5 DEF AccountsTypeOK, Actors, KeyRows, Requests, IsPerson, UnderWay,
     OpenSession, IssueToken, Write, Now, Done, Free
<1>6. ASSUME NEW h \in Handlers, LogInFails(h) PROVE AccountsTypeOK'
  BY <1>6 DEF AccountsTypeOK, Actors, KeyRows, Requests, IsPerson, UnderWay,
     LogInFails, Done, Free
<1>7. ASSUME NEW t \in session, LogOut(t) PROVE AccountsTypeOK'
  BY <1>7 DEF AccountsTypeOK, Actors, KeyRows, Requests, IsPerson, UnderWay, LogOut,
     Write, Now
<1>8. ASSUME NEW h \in Handlers, NEW n \in Names, NEW suspend \in BOOLEAN,
   StartSuspension(h, n, suspend) PROVE AccountsTypeOK'
  BY <1>8 DEF AccountsTypeOK, Actors, KeyRows, Requests, IsPerson, UnderWay,
     StartSuspension, Begin, Pending, NoKey
<1>9. ASSUME NEW h \in Handlers, CommitSuspension(h) PROVE AccountsTypeOK'
  <2> DEFINE n == request[h].name
             looked == request[h].read
  <2>1. request[h] \in Requests
    BY <1>9, Suspending
  <2>2. n \in Names /\ looked \in 0..MaxCommits /\ Now \in 0..MaxCommits /\ commits' = Now
    BY <1>9, <2>1 DEF CommitSuspension, Write, Now, Requests, AccountsTypeOK
  <2>3. \/ actor' = [actor EXCEPT ![n] = Person(TRUE, Now, looked)]
        \/ actor' = [actor EXCEPT ![n] = Person(FALSE, 0, 0)]
    BY <1>9 DEF CommitSuspension
  <2>4. /\ Person(TRUE, Now, looked) \in Actors /\ Person(FALSE, 0, 0) \in Actors
        /\ Person(TRUE, Now, looked).kind = "person" /\ Person(FALSE, 0, 0).kind = "person"
    BY <2>2 DEF Person, Actors
  <2>5. actor \in [Names -> Actors]
    BY DEF AccountsTypeOK
  <2> HIDE DEF looked
  <2>6. actor' \in [Names -> Actors] /\ actor'[n].kind = "person"
    BY <2>2, <2>3, <2>4, <2>5
  <2>7. session' \subseteq session
    BY <1>9 DEF CommitSuspension
  <2>8. \A t \in session' : actor'[t.name].kind = "person"
    <3>1. \A t \in session : t.name \in Names /\ actor[t.name].kind = "person"
      BY DEF AccountsTypeOK, IsPerson
    <3>2. QED BY <2>2, <2>3, <2>5, <2>6, <2>7, <3>1
  <2>9. request' \in [Handlers -> {Free} \cup Requests] /\ key' = key /\ site' = site
    BY <1>9 DEF CommitSuspension, Done, AccountsTypeOK
  <2>10. QED BY <2>2, <2>6, <2>7, <2>8, <2>9 DEF AccountsTypeOK, IsPerson
<1>10. ASSUME NEW n \in Names, NEW k \in ResetKeys, ForgotPassword(n, k)
   PROVE AccountsTypeOK'
  BY <1>10 DEF AccountsTypeOK, Actors, KeyRows, Requests, IsPerson, UnderWay,
     ForgotPassword, Write, Now, KeyRow
<1>11. ASSUME NEW k \in ResetKeys, KeyExpires(k) PROVE AccountsTypeOK'
  BY <1>11 DEF AccountsTypeOK, Actors, KeyRows, Requests, IsPerson, UnderWay, KeyExpires
<1>12. ASSUME NEW h \in Handlers, NEW k \in ResetKeys, StartReset(h, k)
   PROVE AccountsTypeOK'
  BY <1>12 DEF AccountsTypeOK, Actors, KeyRows, Requests, IsPerson, UnderWay,
     StartReset, KeyFound, Begin, Pending, NoKey
<1>13. ASSUME NEW h \in Handlers, CommitReset(h) PROVE AccountsTypeOK'
  BY <1>13 DEF AccountsTypeOK, Actors, KeyRows, Requests, IsPerson, UnderWay,
     CommitReset, Write, Now, Done, KeyRow, Free
<1>14. ASSUME NEW n \in Names, NEW by \in Names, FoundCommunity(n, by)
   PROVE AccountsTypeOK'
  BY <1>14 DEF AccountsTypeOK, Actors, KeyRows, Requests, IsPerson, UnderWay,
     FoundCommunity, Write, Now, Community, Vacant
<1>15. ASSUME NEW settings \in Settings, PatchSite(settings) PROVE AccountsTypeOK'
  BY <1>15 DEF AccountsTypeOK, Actors, KeyRows, Requests, IsPerson, UnderWay,
     PatchSite, Write, Now
<1>18. ASSUME NEW h \in Handlers, ClearLogins(h) PROVE AccountsTypeOK'
  BY <1>18 DEF AccountsTypeOK, Actors, KeyRows, Requests, IsPerson, UnderWay,
     ClearLogins, Pending, NoKey, Free
<1>19. ASSUME NEW h \in Handlers, RollBack(h) PROVE AccountsTypeOK'
  BY <1>19 DEF AccountsTypeOK, Actors, KeyRows, Requests, IsPerson, UnderWay,
     RollBack, Done, Free
<1>16. CASE UNCHANGED accountVars
  BY <1>16 DEF accountVars, AccountsTypeOK, Actors, KeyRows, Requests, IsPerson,
     UnderWay
<1>17. QED
  BY <1>1, <1>2, <1>3, <1>4, <1>5, <1>6, <1>7, <1>8, <1>9, <1>10, <1>11, <1>12, <1>13,
     <1>14, <1>15, <1>16, <1>18, <1>19 DEF AccountsNext

LEMMA ClockPreserved == AccountsInv /\ [AccountsNext]_accountVars => Clocks'
<1> SUFFICES ASSUME AccountsInv, [AccountsNext]_accountVars PROVE Clocks'
  OBVIOUS
<1> USE TimesAreNat DEF AccountsInv
<1>1. ASSUME NEW n \in Names, NEW k \in Invites, Invite(n, k) PROVE Clocks'
  BY <1>1 DEF Clocks, Invite, Write, Now, KeyRow
<1>2. ASSUME NEW h \in Handlers, NEW n \in Names, NEW k \in Invites \cup {NoKey},
   NEW stay \in BOOLEAN, SignUp(h, n, k, stay) PROVE Clocks'
  BY <1>2 DEF Clocks, SignUp, Admits, Begin, Pending, NoKey
<1>3. ASSUME NEW h \in Handlers, Register(h) PROVE Clocks'
  <2> DEFINE r == request[h]
  <2>1. CASE actor[r.name] # Vacant
    BY <1>3, <2>1 DEF Clocks, Register, Done, Free, AccountsTypeOK
  <2>2. CASE actor[r.name] = Vacant
    <3>1. commits' = commits + 1 /\ commits \in Nat /\ Now = commits + 1
      BY <1>3, <2>2 DEF Register, Write, Now
    <3>2. \A n \in Names : actor'[n].since <= commits' /\ actor'[n].cleared <= commits'
      <4>1. \A n \in Names : actor'[n] = actor[n] \/ actor'[n] = Person(FALSE, 0, 0)
        BY <1>3, <2>2 DEF Register, AccountsTypeOK
      <4>2. Person(FALSE, 0, 0).since = 0 /\ Person(FALSE, 0, 0).cleared = 0
        BY DEF Person
      <4> SUFFICES ASSUME NEW n \in Names
                   PROVE actor'[n].since <= commits' /\ actor'[n].cleared <= commits'
        OBVIOUS
      <4>3. /\ actor[n].since \in Nat /\ actor[n].since <= commits
            /\ actor[n].cleared \in Nat /\ actor[n].cleared <= commits
        BY DEF Clocks
      <4>4. CASE actor'[n] = actor[n]
        BY <3>1, <4>3, <4>4
      <4>5. CASE actor'[n] = Person(FALSE, 0, 0)
        <5>1. actor'[n].since = 0 /\ actor'[n].cleared = 0
          BY <4>2, <4>5
        <5>2. QED BY <3>1, <5>1
      <4>6. QED BY <4>1, <4>4, <4>5
    <3>3. \A k \in Invites \cup ResetKeys :
            key'[k].at <= commits' /\ (key'[k].at # 0 => key'[k].state = "spent")
      <4> DEFINE row == KeyRow("spent", r.name, IF key[r.key].state = "spent"
                                                THEN key[r.key].at ELSE Now)
      <4>1. key' = key \/ (r.key # NoKey /\ key' = [key EXCEPT ![r.key] = row])
        BY <1>3, <2>2 DEF Register
      <4>2. row.state = "spent" /\ row.at = (IF key[r.key].state = "spent"
                                             THEN key[r.key].at ELSE Now)
        BY DEF KeyRow
      <4> HIDE DEF row
      <4>3. \A k \in Invites \cup ResetKeys : key'[k] = key[k] \/ (k = r.key /\ key'[k] = row)
        BY <4>1 DEF AccountsTypeOK
      <4>4. QED BY <3>1, <4>2, <4>3 DEF Clocks
    <3>4. \A g \in Handlers : request'[g] # Free => request'[g].read <= commits'
      <4> DEFINE next == Pending("issue", r.name, NoKey, TRUE, Now)
      <4>1. next.read = Now
        BY DEF Pending
      <4>2. \A g \in Handlers : request'[g] \in {request[g], next, Free}
        BY <1>3, <2>2 DEF Register, AccountsTypeOK
      <4> HIDE DEF next
      <4>3. QED BY <3>1, <4>1, <4>2 DEF Clocks
    <3>5. session' = session
      BY <1>3 DEF Register
    <3>6. QED BY <3>1, <3>2, <3>3, <3>4, <3>5 DEF Clocks
  <2>3. QED BY <2>1, <2>2
<1>4. ASSUME NEW h \in Handlers, NEW n \in Names, LogIn(h, n) PROVE Clocks'
  BY <1>4 DEF Clocks, LogIn, Begin, Pending, NoKey, IsPerson
<1>5. ASSUME NEW h \in Handlers, OpenSession(h) PROVE Clocks'
  BY <1>5 DEF Clocks, OpenSession, IssueToken, Write, Now, Done, Free, AccountsTypeOK
<1>6. ASSUME NEW h \in Handlers, LogInFails(h) PROVE Clocks'
  BY <1>6 DEF Clocks, LogInFails, Done, Free
<1>7. ASSUME NEW t \in session, LogOut(t) PROVE Clocks'
  BY <1>7 DEF Clocks, LogOut, Write, Now
<1>8. ASSUME NEW h \in Handlers, NEW n \in Names, NEW suspend \in BOOLEAN,
   StartSuspension(h, n, suspend) PROVE Clocks'
  BY <1>8 DEF Clocks, StartSuspension, Begin, Pending, NoKey, IsPerson
<1>9. ASSUME NEW h \in Handlers, CommitSuspension(h) PROVE Clocks'
  <2> DEFINE looked == request[h].read
  <2>1. commits' = commits + 1 /\ commits \in Nat /\ Now = commits + 1
    BY <1>9 DEF CommitSuspension, Write, Now
  <2>2. looked \in Nat /\ looked <= commits
    BY <1>9, Suspending
  <2>3. \A n \in Names : actor'[n] \in {actor[n], Person(TRUE, Now, looked), Person(FALSE, 0, 0)}
    BY <1>9 DEF CommitSuspension, AccountsTypeOK
  <2>4. /\ Person(TRUE, Now, looked).since = Now /\ Person(FALSE, 0, 0).since = 0
        /\ Person(TRUE, Now, looked).cleared = looked /\ Person(FALSE, 0, 0).cleared = 0
    BY DEF Person
  <2> HIDE DEF looked
  <2>5. ASSUME NEW n \in Names PROVE actor'[n].since <= commits' /\ actor'[n].cleared <= commits'
    <3>1. /\ actor[n].since \in Nat /\ actor[n].since <= commits
          /\ actor[n].cleared \in Nat /\ actor[n].cleared <= commits
      BY DEF Clocks
    <3>2. CASE actor'[n] = actor[n]
      BY <2>1, <3>1, <3>2
    <3>3. CASE actor'[n] # actor[n]
      <4>1. actor'[n].since \in {0, commits + 1} /\ actor'[n].cleared \in {0, looked}
        BY <2>1, <2>3, <2>4, <3>3
      <4>2. QED BY <2>1, <2>2, <4>1
    <3>4. QED BY <3>2, <3>3
  <2>6. \A g \in Handlers : request'[g] \in {request[g], Free}
    BY <1>9 DEF CommitSuspension, Done, AccountsTypeOK
  <2>7. key' = key /\ session' \subseteq session
    BY <1>9 DEF CommitSuspension
  <2>8. QED BY <2>1, <2>5, <2>6, <2>7 DEF Clocks
<1>10. ASSUME NEW n \in Names, NEW k \in ResetKeys, ForgotPassword(n, k) PROVE Clocks'
  BY <1>10 DEF Clocks, ForgotPassword, Write, Now, KeyRow
<1>11. ASSUME NEW k \in ResetKeys, KeyExpires(k) PROVE Clocks'
  BY <1>11 DEF Clocks, KeyExpires
<1>12. ASSUME NEW h \in Handlers, NEW k \in ResetKeys, StartReset(h, k) PROVE Clocks'
  BY <1>12 DEF Clocks, StartReset, KeyFound, Begin, Pending, NoKey
<1>13. ASSUME NEW h \in Handlers, CommitReset(h) PROVE Clocks'
  BY <1>13 DEF Clocks, CommitReset, Write, Now, Done, KeyRow, Free
<1>14. ASSUME NEW n \in Names, NEW by \in Names, FoundCommunity(n, by) PROVE Clocks'
  BY <1>14 DEF Clocks, FoundCommunity, Write, Now, Community, Vacant
<1>15. ASSUME NEW settings \in Settings, PatchSite(settings) PROVE Clocks'
  BY <1>15 DEF Clocks, PatchSite, Write, Now
<1>18. ASSUME NEW h \in Handlers, ClearLogins(h) PROVE Clocks'
  BY <1>18 DEF Clocks,
     ClearLogins, Pending, NoKey, Free
<1>19. ASSUME NEW h \in Handlers, RollBack(h) PROVE Clocks'
  BY <1>19 DEF Clocks,
     RollBack, Done, Free
<1>16. CASE UNCHANGED accountVars
  BY <1>16 DEF accountVars, Clocks
<1>17. QED
  BY <1>1, <1>2, <1>3, <1>4, <1>5, <1>6, <1>7, <1>8, <1>9, <1>10, <1>11, <1>12, <1>13,
     <1>14, <1>15, <1>16, <1>18, <1>19 DEF AccountsNext

LEMMA UnderWayPreserved == AccountsInv /\ [AccountsNext]_accountVars => UnderWay'
<1> SUFFICES ASSUME AccountsInv, [AccountsNext]_accountVars PROVE UnderWay'
  OBVIOUS
<1> USE AccountAssumption DEF AccountsInv
<1>1. ASSUME NEW n \in Names, NEW k \in Invites, Invite(n, k) PROVE UnderWay'
  BY <1>1 DEF UnderWay, Clocks, AccountsTypeOK, Actors, KeyRows, Requests, Invite,
     Write, Now, KeyRow
<1>2. ASSUME NEW h \in Handlers, NEW n \in Names, NEW k \in Invites \cup {NoKey},
   NEW stay \in BOOLEAN, SignUp(h, n, k, stay) PROVE UnderWay'
  BY <1>2 DEF UnderWay, Clocks, AccountsTypeOK, Actors, KeyRows, Requests, SignUp,
     Admits, Begin, Pending, NoKey
<1>3. ASSUME NEW h \in Handlers, Register(h) PROVE UnderWay'
  BY <1>3 DEF UnderWay, Clocks, AccountsTypeOK, Actors, KeyRows, Requests, Register,
     Write, Now, Done, KeyRow, Pending, Person, Vacant, Free, NoKey
<1>4. ASSUME NEW h \in Handlers, NEW n \in Names, LogIn(h, n) PROVE UnderWay'
  BY <1>4 DEF UnderWay, Clocks, AccountsTypeOK, Actors, KeyRows, Requests, LogIn,
     Begin, Pending, NoKey, IsPerson
<1>5. ASSUME NEW h \in Handlers, OpenSession(h) PROVE UnderWay'
  BY <1>5 DEF UnderWay, Clocks, AccountsTypeOK, Actors, KeyRows, Requests,
     OpenSession, IssueToken, Write, Now, Done, Free
<1>6. ASSUME NEW h \in Handlers, LogInFails(h) PROVE UnderWay'
  BY <1>6 DEF UnderWay, Clocks, AccountsTypeOK, Actors, KeyRows, Requests, LogInFails,
     Done, Free
<1>7. ASSUME NEW t \in session, LogOut(t) PROVE UnderWay'
  BY <1>7 DEF UnderWay, Clocks, AccountsTypeOK, Actors, KeyRows, Requests, LogOut,
     Write, Now
<1>8. ASSUME NEW h \in Handlers, NEW n \in Names, NEW suspend \in BOOLEAN,
   StartSuspension(h, n, suspend) PROVE UnderWay'
  BY <1>8 DEF UnderWay, Clocks, AccountsTypeOK, Actors, KeyRows, Requests,
     StartSuspension, Begin, Pending, NoKey, IsPerson
<1>9. ASSUME NEW h \in Handlers, CommitSuspension(h) PROVE UnderWay'
  BY <1>9 DEF UnderWay, Clocks, AccountsTypeOK, Actors, KeyRows, Requests,
     CommitSuspension, Write, Now, Done, Person, Free, IsPerson
<1>10. ASSUME NEW n \in Names, NEW k \in ResetKeys, ForgotPassword(n, k) PROVE UnderWay'
  BY <1>10 DEF UnderWay, Clocks, AccountsTypeOK, Actors, KeyRows, Requests,
     ForgotPassword, Write, Now, KeyRow
<1>11. ASSUME NEW k \in ResetKeys, KeyExpires(k) PROVE UnderWay'
  BY <1>11 DEF UnderWay, Clocks, AccountsTypeOK, Actors, KeyRows, Requests, KeyExpires
<1>12. ASSUME NEW h \in Handlers, NEW k \in ResetKeys, StartReset(h, k) PROVE UnderWay'
  BY <1>12 DEF UnderWay, Clocks, AccountsTypeOK, Actors, KeyRows, Requests,
     StartReset, KeyFound, Begin, Pending, NoKey
<1>13. ASSUME NEW h \in Handlers, CommitReset(h) PROVE UnderWay'
  BY <1>13 DEF UnderWay, Clocks, AccountsTypeOK, Actors, KeyRows, Requests,
     CommitReset, Write, Now, Done, KeyRow, Free
<1>14. ASSUME NEW n \in Names, NEW by \in Names, FoundCommunity(n, by) PROVE UnderWay'
  BY <1>14 DEF UnderWay, Clocks, AccountsTypeOK, Actors, KeyRows, Requests,
     FoundCommunity, Write, Now, Community, Vacant
<1>15. ASSUME NEW settings \in Settings, PatchSite(settings) PROVE UnderWay'
  BY <1>15 DEF UnderWay, Clocks, AccountsTypeOK, Actors, KeyRows, Requests, PatchSite,
     Write, Now
<1>18. ASSUME NEW h \in Handlers, ClearLogins(h) PROVE UnderWay'
  BY <1>18 DEF UnderWay, Clocks, AccountsTypeOK, Actors, KeyRows, Requests,
     ClearLogins, Pending, NoKey, Free
<1>19. ASSUME NEW h \in Handlers, RollBack(h) PROVE UnderWay'
  BY <1>19 DEF UnderWay, Clocks, AccountsTypeOK, Actors, KeyRows, Requests,
     RollBack, Done, Free
<1>16. CASE UNCHANGED accountVars
  BY <1>16 DEF accountVars, UnderWay, Clocks, AccountsTypeOK, Actors, KeyRows, Requests
<1>17. QED
  BY <1>1, <1>2, <1>3, <1>4, <1>5, <1>6, <1>7, <1>8, <1>9, <1>10, <1>11, <1>12, <1>13,
     <1>14, <1>15, <1>16, <1>18, <1>19 DEF AccountsNext

LEMMA SuspensionPreserved == AccountsInv /\ [AccountsNext]_accountVars => SuspensionEndsSessions'
<1> SUFFICES ASSUME AccountsInv, [AccountsNext]_accountVars
   PROVE SuspensionEndsSessions'
  OBVIOUS
<1> USE AccountAssumption DEF AccountsInv
<1>1. ASSUME NEW n \in Names, NEW k \in Invites, Invite(n, k)
   PROVE SuspensionEndsSessions'
  BY <1>1 DEF SuspensionEndsSessions, UnderWay, Clocks, AccountsTypeOK, Actors,
     Requests, Invite, Write, Now, KeyRow
<1>2. ASSUME NEW h \in Handlers, NEW n \in Names, NEW k \in Invites \cup {NoKey},
   NEW stay \in BOOLEAN, SignUp(h, n, k, stay) PROVE SuspensionEndsSessions'
  BY <1>2 DEF SuspensionEndsSessions, UnderWay, Clocks, AccountsTypeOK, Actors,
     Requests, SignUp, Admits, Begin, Pending, NoKey
<1>3. ASSUME NEW h \in Handlers, Register(h) PROVE SuspensionEndsSessions'
  BY <1>3 DEF SuspensionEndsSessions, UnderWay, Clocks, AccountsTypeOK, Actors,
     Requests, Register, Write, Now, Done, KeyRow, Pending, Person, Vacant, Free, NoKey
<1>4. ASSUME NEW h \in Handlers, NEW n \in Names, LogIn(h, n)
   PROVE SuspensionEndsSessions'
  BY <1>4 DEF SuspensionEndsSessions, UnderWay, Clocks, AccountsTypeOK, Actors,
     Requests, LogIn, Begin, Pending, NoKey, IsPerson
<1>5. ASSUME NEW h \in Handlers, OpenSession(h) PROVE SuspensionEndsSessions'
  <2> DEFINE n == request[h].name
             token == [name |-> n, checked |-> request[h].read, issued |-> Now]
  <2>1. session' = session \cup {token} /\ actor' = actor /\ commits \in Nat
    BY <1>5, TimesAreNat DEF OpenSession, IssueToken
  <2>2. request[h] \in Requests /\ n \in Names
    BY <1>5 DEF OpenSession, AccountsTypeOK, Free, Requests
  <2>3. actor[n].suspended => request[h].read < actor[n].since
    BY <1>5 DEF OpenSession, UnderWay
  <2>4. actor[n].cleared < Now
    BY <2>1, <2>2, TimesAreNat DEF Clocks, Now
  <2>5. QED BY <2>1, <2>3, <2>4 DEF SuspensionEndsSessions
<1>6. ASSUME NEW h \in Handlers, LogInFails(h) PROVE SuspensionEndsSessions'
  BY <1>6 DEF SuspensionEndsSessions, UnderWay, Clocks, AccountsTypeOK, Actors,
     Requests, LogInFails, Done, Free
<1>7. ASSUME NEW t \in session, LogOut(t) PROVE SuspensionEndsSessions'
  BY <1>7 DEF SuspensionEndsSessions, UnderWay, Clocks, AccountsTypeOK, Actors,
     Requests, LogOut, Write, Now
<1>8. ASSUME NEW h \in Handlers, NEW n \in Names, NEW suspend \in BOOLEAN,
   StartSuspension(h, n, suspend) PROVE SuspensionEndsSessions'
  BY <1>8 DEF SuspensionEndsSessions, UnderWay, Clocks, AccountsTypeOK, Actors,
     Requests, StartSuspension, Begin, Pending, NoKey, IsPerson
<1>9. ASSUME NEW h \in Handlers, CommitSuspension(h) PROVE SuspensionEndsSessions'
  <2> DEFINE n == request[h].name
             looked == request[h].read
  <2>6. n \in Names
    BY <1>9, Suspending
  <2>7. commits \in Nat /\ actor \in [Names -> Actors]
    BY TimesAreNat DEF AccountsTypeOK
  <2>1. n \in Names /\ commits \in Nat /\ actor \in [Names -> Actors]
    BY <2>6, <2>7
  <2> SUFFICES ASSUME NEW t \in session', actor'[t.name].suspended
               PROVE  t.checked < actor'[t.name].since /\ actor'[t.name].cleared < t.issued
    BY DEF SuspensionEndsSessions
  <2>8. session' \subseteq session
    BY <1>9 DEF CommitSuspension
  <2>2. t \in session /\ t.name \in Names
    BY <2>8 DEF AccountsTypeOK
  <2>3. CASE t.name # n
    <3>1. actor'[t.name] = actor[t.name]
      BY <1>9, <2>1, <2>2, <2>3 DEF CommitSuspension
    <3>2. QED BY <2>2, <3>1 DEF SuspensionEndsSessions
  <2>4. CASE t.name = n
    <3>1. actor'[n] = Person(TRUE, Now, looked) /\ looked < t.issued
      BY <1>9, <2>1, <2>4 DEF CommitSuspension, Person
    <3>2. actor'[n].since = Now /\ actor'[n].cleared = looked
      BY <3>1 DEF Person
    <3>3. t.checked \in Nat /\ t.checked <= commits
      BY <2>2, TimesAreNat DEF Clocks
    <3>4. t.checked < Now
      BY <2>7, <3>3 DEF Now
    <3> HIDE DEF n, looked
    <3>5. QED BY <2>4, <3>1, <3>2, <3>4
  <2>5. QED BY <2>3, <2>4
<1>10. ASSUME NEW n \in Names, NEW k \in ResetKeys, ForgotPassword(n, k)
   PROVE SuspensionEndsSessions'
  BY <1>10 DEF SuspensionEndsSessions, UnderWay, Clocks, AccountsTypeOK, Actors,
     Requests, ForgotPassword, Write, Now, KeyRow
<1>11. ASSUME NEW k \in ResetKeys, KeyExpires(k) PROVE SuspensionEndsSessions'
  BY <1>11 DEF SuspensionEndsSessions, UnderWay, Clocks, AccountsTypeOK, Actors,
     Requests, KeyExpires
<1>12. ASSUME NEW h \in Handlers, NEW k \in ResetKeys, StartReset(h, k)
   PROVE SuspensionEndsSessions'
  BY <1>12 DEF SuspensionEndsSessions, UnderWay, Clocks, AccountsTypeOK, Actors,
     Requests, StartReset, KeyFound, Begin, Pending, NoKey
<1>13. ASSUME NEW h \in Handlers, CommitReset(h) PROVE SuspensionEndsSessions'
  BY <1>13 DEF SuspensionEndsSessions, UnderWay, Clocks, AccountsTypeOK, Actors,
     Requests, CommitReset, Write, Now, Done, KeyRow, Free
<1>14. ASSUME NEW n \in Names, NEW by \in Names, FoundCommunity(n, by)
   PROVE SuspensionEndsSessions'
  BY <1>14 DEF SuspensionEndsSessions, UnderWay, Clocks, AccountsTypeOK, Actors,
     Requests, FoundCommunity, Write, Now, Community, Vacant
<1>15. ASSUME NEW settings \in Settings, PatchSite(settings)
   PROVE SuspensionEndsSessions'
  BY <1>15 DEF SuspensionEndsSessions, UnderWay, Clocks, AccountsTypeOK, Actors,
     Requests, PatchSite, Write, Now
<1>18. ASSUME NEW h \in Handlers, ClearLogins(h) PROVE SuspensionEndsSessions'
  BY <1>18 DEF SuspensionEndsSessions, UnderWay, Clocks, AccountsTypeOK, Actors,
     Requests,
     ClearLogins, Pending, NoKey, Free
<1>19. ASSUME NEW h \in Handlers, RollBack(h) PROVE SuspensionEndsSessions'
  BY <1>19 DEF SuspensionEndsSessions, UnderWay, Clocks, AccountsTypeOK, Actors,
     Requests,
     RollBack, Done, Free
<1>16. CASE UNCHANGED accountVars
  BY <1>16 DEF accountVars, SuspensionEndsSessions, UnderWay, Clocks, AccountsTypeOK,
     Actors, Requests
<1>17. QED
  BY <1>1, <1>2, <1>3, <1>4, <1>5, <1>6, <1>7, <1>8, <1>9, <1>10, <1>11, <1>12, <1>13,
     <1>14, <1>15, <1>16, <1>18, <1>19 DEF AccountsNext

LEMMA KeyPreserved == AccountsInv /\ [AccountsNext]_accountVars => KeysDie'
<1> SUFFICES ASSUME AccountsInv, [AccountsNext]_accountVars PROVE KeysDie'
  OBVIOUS
<1> USE AccountAssumption DEF AccountsInv
<1>1. ASSUME NEW n \in Names, NEW k \in Invites, Invite(n, k) PROVE KeysDie'
  BY <1>1 DEF KeysDie, UnderWay, Clocks, AccountsTypeOK, KeyRows, Requests, Invite,
     Write, Now, KeyRow
<1>2. ASSUME NEW h \in Handlers, NEW n \in Names, NEW k \in Invites \cup {NoKey},
   NEW stay \in BOOLEAN, SignUp(h, n, k, stay) PROVE KeysDie'
  BY <1>2 DEF KeysDie, UnderWay, Clocks, AccountsTypeOK, KeyRows, Requests, SignUp,
     Admits, Begin, Pending, NoKey
<1>3. ASSUME NEW h \in Handlers, Register(h) PROVE KeysDie'
  BY <1>3 DEF KeysDie, UnderWay, Clocks, AccountsTypeOK, KeyRows, Requests, Register,
     Write, Now, Done, KeyRow, Pending, Person, Vacant, Free, NoKey
<1>4. ASSUME NEW h \in Handlers, NEW n \in Names, LogIn(h, n) PROVE KeysDie'
  BY <1>4 DEF KeysDie, UnderWay, Clocks, AccountsTypeOK, KeyRows, Requests, LogIn,
     Begin, Pending, NoKey, IsPerson
<1>5. ASSUME NEW h \in Handlers, OpenSession(h) PROVE KeysDie'
  BY <1>5 DEF KeysDie, UnderWay, Clocks, AccountsTypeOK, KeyRows, Requests,
     OpenSession, IssueToken, Write, Now, Done, Free
<1>6. ASSUME NEW h \in Handlers, LogInFails(h) PROVE KeysDie'
  BY <1>6 DEF KeysDie, UnderWay, Clocks, AccountsTypeOK, KeyRows, Requests,
     LogInFails, Done, Free
<1>7. ASSUME NEW t \in session, LogOut(t) PROVE KeysDie'
  BY <1>7 DEF KeysDie, UnderWay, Clocks, AccountsTypeOK, KeyRows, Requests, LogOut,
     Write, Now
<1>8. ASSUME NEW h \in Handlers, NEW n \in Names, NEW suspend \in BOOLEAN,
   StartSuspension(h, n, suspend) PROVE KeysDie'
  BY <1>8 DEF KeysDie, UnderWay, Clocks, AccountsTypeOK, KeyRows, Requests,
     StartSuspension, Begin, Pending, NoKey, IsPerson
<1>9. ASSUME NEW h \in Handlers, CommitSuspension(h) PROVE KeysDie'
  BY <1>9 DEF KeysDie, UnderWay, Clocks, AccountsTypeOK, KeyRows, Requests,
     CommitSuspension, Write, Now, Done, Person, Free, IsPerson
<1>10. ASSUME NEW n \in Names, NEW k \in ResetKeys, ForgotPassword(n, k) PROVE KeysDie'
  BY <1>10 DEF KeysDie, UnderWay, Clocks, AccountsTypeOK, KeyRows, Requests,
     ForgotPassword, Write, Now, KeyRow
<1>11. ASSUME NEW k \in ResetKeys, KeyExpires(k) PROVE KeysDie'
  BY <1>11 DEF KeysDie, UnderWay, Clocks, AccountsTypeOK, KeyRows, Requests, KeyExpires
<1>12. ASSUME NEW h \in Handlers, NEW k \in ResetKeys, StartReset(h, k) PROVE KeysDie'
  BY <1>12 DEF KeysDie, UnderWay, Clocks, AccountsTypeOK, KeyRows, Requests,
     StartReset, KeyFound, Begin, Pending, NoKey
<1>13. ASSUME NEW h \in Handlers, CommitReset(h) PROVE KeysDie'
  BY <1>13 DEF KeysDie, UnderWay, Clocks, AccountsTypeOK, KeyRows, Requests,
     CommitReset, Write, Now, Done, KeyRow, Free
<1>14. ASSUME NEW n \in Names, NEW by \in Names, FoundCommunity(n, by) PROVE KeysDie'
  BY <1>14 DEF KeysDie, UnderWay, Clocks, AccountsTypeOK, KeyRows, Requests,
     FoundCommunity, Write, Now, Community, Vacant
<1>15. ASSUME NEW settings \in Settings, PatchSite(settings) PROVE KeysDie'
  BY <1>15 DEF KeysDie, UnderWay, Clocks, AccountsTypeOK, KeyRows, Requests,
     PatchSite, Write, Now
<1>18. ASSUME NEW h \in Handlers, ClearLogins(h) PROVE KeysDie'
  BY <1>18 DEF KeysDie, UnderWay, Clocks, AccountsTypeOK, KeyRows, Requests,
     ClearLogins, Pending, NoKey, Free
<1>19. ASSUME NEW h \in Handlers, RollBack(h) PROVE KeysDie'
  BY <1>19 DEF KeysDie, UnderWay, Clocks, AccountsTypeOK, KeyRows, Requests,
     RollBack, Done, Free
<1>16. CASE UNCHANGED accountVars
  BY <1>16 DEF accountVars, KeysDie, UnderWay, Clocks, AccountsTypeOK, KeyRows, Requests
<1>17. QED
  BY <1>1, <1>2, <1>3, <1>4, <1>5, <1>6, <1>7, <1>8, <1>9, <1>10, <1>11, <1>12, <1>13,
     <1>14, <1>15, <1>16, <1>18, <1>19 DEF AccountsNext

-----------------------------------------------------------------------------
LEMMA InvariantHolds == AccountsSpec => []AccountsInv
<1>1. AccountsInv /\ [AccountsNext]_accountVars => AccountsInv'
  BY TypesPreserved, ClockPreserved, UnderWayPreserved, SuspensionPreserved,
     KeyPreserved
     DEF AccountsInv
<1>2. QED BY InitEstablishesInv, <1>1, PTL DEF AccountsSpec

(***************************************************************************)
(* Accounts, keys, sessions and requests are what they are declared to be. *)
(***************************************************************************)
THEOREM AccountsTypeCorrect == AccountsSpec => []AccountsTypeOK
<1>1. AccountsInv => AccountsTypeOK
  BY DEF AccountsInv
<1>2. QED BY InvariantHolds, <1>1, PTL

(***************************************************************************)
(* Only log-ins survive a suspension that had read the account before it   *)
(* was committed and wrote their token after its DELETE had looked         *)
(* (route_unstable_users_patch), for any number of requests at a time.     *)
(***************************************************************************)
THEOREM SuspensionIsEffective == AccountsSpec => []SuspensionEndsSessions
<1>1. AccountsInv => SuspensionEndsSessions
  BY DEF AccountsInv
<1>2. QED BY InvariantHolds, <1>1, PTL

(***************************************************************************)
(* A spent invitation or reset key admits no new request                   *)
(* (route_unstable_users_create, route_unstable_forgot_password_keys_reset)*)
(***************************************************************************)
THEOREM SpentKeysStayDead == AccountsSpec => []KeysDie
<1>1. AccountsInv => KeysDie
  BY DEF AccountsInv
<1>2. QED BY InvariantHolds, <1>1, PTL

-----------------------------------------------------------------------------
(***************************************************************************)
(* Moderation.  What a handler writes depends on what it saw.  So the      *)
(* invariant says what the reading of an open removal was worth            *)
(* (RemovalsOK), that the first moment is the founder's alone (Seniority), *)
(* and, as long as no two decisions have met, that an open one still sees  *)
(* the post as it is (DecisionsOK).  The jobs there are tell the truth of  *)
(* it (TellingOK), and a deletion has its one job, or had it (ForwardOK).  *)
(***************************************************************************)

Decisions == {"approve", "reject"}
Duties ==
  [pc : {"add", "remove", "describe", "delete", "delete post", "dismiss"} \cup Decisions,
   by : People \cup {Anyone}, about : People \cup {Anyone}, saw : 0..NoTime]
Jobs == [of : Activities, undo : BOOLEAN, n : Nat]

Types ==
  /\ since \in [People -> 0..NoTime]
  /\ community \in [deleted : BOOLEAN, described : BOOLEAN]
  /\ forward \in [jobs : Nat, sent : Nat, lost : BOOLEAN]
  /\ post \in [approved : BOOLEAN, rejected : BOOLEAN, sticky : BOOLEAN, deleted : BOOLEAN]
  /\ log \in {"none", "approve", "reject", "delete"} /\ flag \in {"none", "open", "dismissed"}
  /\ duty \in [Slots -> {NoDuty} \cup Duties]
  /\ telling \subseteq Jobs
  /\ queued \in [Activities -> {"nothing", "done", "undone"}] /\ missed \subseteq Activities
  /\ ticks \in 1..MaxTicks /\ raced \in BOOLEAN

\* Times are past, rows without one are old, and nobody but the founder was a
\* moderator from the first moment on.
Seniority ==
  \A p \in People : /\ since[p] \in 0..ticks \/ (since[p] = NoTime /\ p \in Legacy)
                    /\ since[p] = 1 => p = Founder

\* No job is ahead of the clock.
JobsPast == \A job \in telling : job.n <= ticks

\* Whoever removes was a moderator when that was read, and was the founder or
\* has no time if the reading is as old as the founder's.
RemovalsOK ==
  \A h \in Slots : duty[h].pc = "remove" =>
    /\ duty[h].saw # NoRow
    /\ duty[h].saw = NoTime => duty[h].by \in Legacy
    /\ duty[h].saw = 1 => duty[h].by = Founder

\* While nothing raced, an open decision sees the post as it is.
DecisionsOK ==
  ~raced => \A h \in Slots : duty[h].pc \in Decisions => (duty[h].saw = 1) = post.approved

\* A job tells what the post is, unless decisions raced; and what the post is has
\* been handed to the queue or has a job.
Truthful(job) ==
  IF job.of = "Delete" THEN ~job.undo /\ post.deleted ELSE raced \/ job.undo = ~post.approved
ToldOrToBe(a) ==
  \/ a \in missed \/ (a \in Announcing /\ raced)
  \/ \E job \in telling : job.of = a
  \/ Matches(a)
TellingOK ==
  /\ \A job \in telling : Truthful(job)
  /\ \A a \in Activities : ToldOrToBe(a)

\* Only a deletion's job can be lost.
ForwardOK == DeleteForwardedOnce /\ (forward.lost => community.deleted)

\* While nothing raced the moderation log agrees with the post.
LogOK ==
  ~raced => /\ log = "approve" => post.approved
            /\ log = "reject" => ~post.approved

Settled == DecisionsOK /\ TellingOK /\ LogOK
ModerationInv ==
  Types /\ Seniority /\ JobsPast /\ RemovalsOK /\ Settled /\ ForwardOK

-----------------------------------------------------------------------------
LEMMA ModerationInitInv == ModerationInit => ModerationInv
<1> SUFFICES ASSUME ModerationInit PROVE ModerationInv
  OBVIOUS
<1> USE ModerationAssumption DEF ModerationInit, NoTime, NoRow
<1>1. Types
  <2>1. since \in [People -> 0..NoTime] /\ ticks \in 1..MaxTicks
    OBVIOUS
  <2>2. duty \in [Slots -> {NoDuty} \cup Duties] /\ telling \subseteq Jobs
    <3>1. \A a \in Announcing : Job(a, FALSE, 0) \in Jobs
      BY DEF Jobs, Job, Activities
    <3>2. QED BY <3>1
  <2>3. queued \in [Activities -> {"nothing", "done", "undone"}]
    OBVIOUS
  <2>4. QED BY <2>1, <2>2, <2>3 DEF Types
<1>2. Seniority /\ JobsPast /\ RemovalsOK /\ ForwardOK
  BY DEF Seniority, JobsPast, RemovalsOK, NoDuty, ForwardOK, DeleteForwardedOnce, Job
<1>3. DecisionsOK /\ LogOK
  BY DEF DecisionsOK, LogOK, NoDuty, Decisions
<1>4. TellingOK
  <2>1. \A job \in telling : Truthful(job)
    <3>1. \A a \in Announcing : Truthful(Job(a, FALSE, 0))
      BY DEF Truthful, Job, Announcing
    <3>2. QED BY <3>1
  <2>2. \A a \in Announcing : \E job \in telling : job.of = a
    <3>1. \A a \in Announcing : Job(a, FALSE, 0) \in telling /\ Job(a, FALSE, 0).of = a
      BY DEF Job
    <3>2. QED BY <3>1
  <2>3. Matches("Delete")
    BY DEF Matches, Activities
  <2>4. QED BY <2>1, <2>2, <2>3 DEF TellingOK, ToldOrToBe, Activities
<1>5. QED BY <1>1, <1>2, <1>3, <1>4 DEF ModerationInv, Settled

-----------------------------------------------------------------------------
\* A check only adds a duty, of which the invariant holds.
Sound(d) ==
  /\ d \in Duties
  /\ d.pc = "remove" => /\ d.saw # NoRow
                        /\ d.saw = NoTime => d.by \in Legacy
                        /\ d.saw = 1 => d.by = Founder
  /\ d.pc \in Decisions => (d.saw = 1) = post.approved

ButDuty == <<since, community, forward, post, log, flag, telling, queued, missed, ticks, raced>>

\* A handler between its checks and its write.
Checks ==
  \E h \in Slots, by, p \in People :
    \/ BeginAdd(h, by, p) \/ BeginRemove(h, by, p) \/ BeginDescribe(h, by) \/ BeginDelete(h, by)
    \/ BeginDeletePost(h, by) \/ BeginDismiss(h, by)
    \/ \E approve \in BOOLEAN : BeginDecide(h, by, approve)

LEMMA ChecksAreSound ==
  ASSUME ModerationInv, Checks
  PROVE  \E h \in Slots, d \in Duties :
           Sound(d) /\ duty' = [duty EXCEPT ![h] = d] /\ UNCHANGED ButDuty
<1> USE ModerationAssumption DEF Take, ButDuty
<1>1. PICK h \in Slots, by \in People, p \in People :
        \/ BeginAdd(h, by, p) \/ BeginRemove(h, by, p) \/ BeginDescribe(h, by) \/ BeginDelete(h, by)
        \/ BeginDeletePost(h, by) \/ BeginDismiss(h, by)
        \/ \E approve \in BOOLEAN : BeginDecide(h, by, approve)
  BY DEF Checks
<1>2. /\ since[by] \in 0..NoTime /\ 0 \in 0..NoTime /\ 1 \in 0..NoTime
      /\ since[by] \in 0..ticks \/ (since[by] = NoTime /\ by \in Legacy)
      /\ since[by] = 1 => by = Founder
      /\ ticks < NoTime /\ post.approved \in BOOLEAN
  BY DEF ModerationInv, Types, Seniority, NoTime
<1>3. CASE BeginAdd(h, by, p)
  <2>1. Sound(Duty("add", Anyone, p, 0))
    BY <1>2 DEF Sound, Duties, Duty, Decisions
  <2>2. QED BY <1>3, <2>1 DEF BeginAdd, Sound
<1>4. CASE BeginRemove(h, by, p)
  <2>1. since[by] # NoRow
    BY <1>4 DEF BeginRemove, IsMod
  <2> DEFINE d == Duty("remove", by, p, since[by])
  <2>2. d \in Duties
    BY <1>2 DEF Duties, Duty
  <2>3. d.pc = "remove" /\ d.by = by /\ d.saw = since[by]
    BY DEF Duty
  <2>4. duty' = [duty EXCEPT ![h] = d] /\ UNCHANGED ButDuty
    BY <1>4 DEF BeginRemove
  <2> HIDE DEF d
  <2>5. (since[by] = NoTime => by \in Legacy) /\ d.pc \notin Decisions
    BY <1>2, <2>3, ModerationAssumption DEF ModerationInv, Types, NoTime, Decisions
  <2>6. Sound(d)
    BY <1>2, <2>1, <2>2, <2>3, <2>5 DEF Sound
  <2>7. QED BY <2>2, <2>4, <2>6
<1>5. CASE BeginDescribe(h, by)
  <2>1. Sound(Duty("describe", Anyone, Anyone, 0))
    BY <1>2 DEF Sound, Duties, Duty, Decisions
  <2>2. QED BY <1>5, <2>1 DEF BeginDescribe, Sound
<1>6. CASE BeginDelete(h, by)
  <2>1. Sound(Duty("delete", Anyone, Anyone, 0))
    BY <1>2 DEF Sound, Duties, Duty, Decisions
  <2>2. QED BY <1>6, <2>1 DEF BeginDelete, Sound
<1>7. CASE BeginDeletePost(h, by)
  <2>1. Sound(Duty("delete post", by, Anyone, 0))
    BY <1>2 DEF Sound, Duties, Duty, Decisions
  <2>2. QED BY <1>7, <2>1 DEF BeginDeletePost, Sound
<1>8. CASE BeginDismiss(h, by)
  <2>1. Sound(Duty("dismiss", Anyone, Anyone, 0))
    BY <1>2 DEF Sound, Duties, Duty, Decisions
  <2>2. QED BY <1>8, <2>1 DEF BeginDismiss, Sound
<1>9. CASE \E approve \in BOOLEAN : BeginDecide(h, by, approve)
  <2>1. PICK approve \in BOOLEAN : BeginDecide(h, by, approve)
    BY <1>9
  <2> DEFINE pc == IF approve THEN "approve" ELSE "reject"
             saw == IF post.approved THEN 1 ELSE 0
             d == Duty(pc, Anyone, Anyone, saw)
  <2>2. duty' = [duty EXCEPT ![h] = d] /\ UNCHANGED ButDuty
    BY <2>1 DEF BeginDecide
  <2>3. pc \in Decisions /\ pc # "remove"
    BY DEF Decisions
  <2>4. saw \in 0..NoTime /\ (saw = 1) = post.approved
    <3>1. CASE post.approved
      BY <1>2, <3>1
    <3>2. CASE ~post.approved
      BY <1>2, <3>2
    <3>3. QED BY <3>1, <3>2
  <2> HIDE DEF pc, saw
  <2>5. d \in Duties
    BY <2>3, <2>4 DEF Duties, Duty
  <2>6. d.pc = pc /\ d.saw = saw
    BY DEF Duty
  <2> HIDE DEF d
  <2>7. Sound(d)
    BY <2>3, <2>4, <2>5, <2>6 DEF Sound
  <2>8. QED BY <2>2, <2>5, <2>7
<1>10. QED BY <1>1, <1>3, <1>4, <1>5, <1>6, <1>7, <1>8, <1>9

LEMMA ChecksPreserveInv == ModerationInv /\ Checks => ModerationInv'
<1> SUFFICES ASSUME ModerationInv, Checks PROVE ModerationInv'
  OBVIOUS
<1>1. PICK h \in Slots, d \in Duties :
        Sound(d) /\ duty' = [duty EXCEPT ![h] = d] /\ UNCHANGED ButDuty
  BY ChecksAreSound
<1>2. Types'
  BY <1>1 DEF ModerationInv, Types, ButDuty
<1>3. Seniority' /\ JobsPast' /\ ForwardOK'
  BY <1>1 DEF ModerationInv, Seniority, JobsPast, ForwardOK, DeleteForwardedOnce, ButDuty
<1>4. \A g \in Slots : duty'[g] = IF g = h THEN d ELSE duty[g]
  BY <1>1 DEF ModerationInv, Types
<1>5. RemovalsOK' /\ DecisionsOK'
  BY <1>1, <1>4 DEF ModerationInv, Settled, RemovalsOK, DecisionsOK, Sound, ButDuty
<1>6. TellingOK' /\ LogOK'
  BY <1>1 DEF ModerationInv, Settled, TellingOK, Truthful, ToldOrToBe, LogOK, Matches, ButDuty
<1>7. QED BY <1>2, <1>3, <1>5, <1>6 DEF ModerationInv, Settled

-----------------------------------------------------------------------------
\* A handler that ends leaves the others' duties as they were.
LEMMA LeaveKeepsDuties ==
  ASSUME Types, NEW h \in Slots, Leave(h)
  PROVE  /\ duty' \in [Slots -> {NoDuty} \cup Duties]
         /\ \A g \in Slots : duty'[g] = IF g = h THEN NoDuty ELSE duty[g]
BY DEF Types, Leave

\* Without a change of rows, the readings of the removals keep what they are worth.
LEMMA LeaveKeepsRemovals ==
  ASSUME Types, RemovalsOK, NEW h \in Slots, Leave(h)
  PROVE  RemovalsOK'
<1>1. NoDuty.pc = "none"
  BY DEF NoDuty
<1>2. QED BY <1>1, LeaveKeepsDuties DEF RemovalsOK

\* What is not about the post leaves it and the telling about it settled.
LEMMA LeaveKeepsSettled ==
  ASSUME Types, Settled, NEW h \in Slots, Leave(h), UNCHANGED <<post, log, telling, queued, missed, raced>>
  PROVE  Settled'
<1>1. NoDuty.pc \notin Decisions
  BY DEF NoDuty, Decisions
<1>2. DecisionsOK'
  BY <1>1, LeaveKeepsDuties DEF Settled, DecisionsOK
<1>3. TellingOK' /\ LogOK'
  BY DEF Settled, TellingOK, Truthful, ToldOrToBe, LogOK, Matches
<1>4. QED BY <1>2, <1>3 DEF Settled

\* The clock goes on within its bound.
LEMMA TickGoesOn ==
  ASSUME Types, Tick
  PROVE  ticks' = ticks + 1 /\ ticks' \in 1..MaxTicks /\ ticks' # 1 /\ 0..ticks \subseteq 0..ticks'
BY ModerationAssumption DEF Types, Tick

\* A write of the moderators' rows, of the community or of the flag.
Rows == \E h \in Slots : CommitAdd(h) \/ CommitRemove(h)
Words == \E h \in Slots : CommitDescribe(h) \/ CommitDelete(h) \/ CommitDismiss(h)

LEMMA RowsPreserveInv == ModerationInv /\ Rows => ModerationInv'
<1> SUFFICES ASSUME ModerationInv, NEW h \in Slots, CommitAdd(h) \/ CommitRemove(h)
             PROVE  ModerationInv'
  BY DEF Rows
<1> DEFINE p == duty[h].about
<1>1. /\ Leave(h) /\ UNCHANGED <<community, forward, post, log, flag, telling, queued, missed, raced>>
      /\ \/ UNCHANGED <<since, ticks>>
         \/ Tick /\ since' = [since EXCEPT ![p] = ticks']
         \/ Tick /\ since' = [since EXCEPT ![p] = NoRow]
  <2>1. CASE CommitAdd(h)
    BY <2>1 DEF CommitAdd
  <2>2. CASE CommitRemove(h)
    BY <2>2 DEF CommitRemove
  <2>3. QED BY <2>1, <2>2
<1> HIDE DEF p
<1>2. Types
  BY DEF ModerationInv
<1>3. \/ UNCHANGED <<since, ticks>>
      \/ /\ Tick
         /\ \E new \in {ticks', NoRow} : since' = [since EXCEPT ![p] = new]
  BY <1>1
<1>4. CASE UNCHANGED <<since, ticks>>
  <2>1. Types'
    BY <1>1, <1>2, <1>4, LeaveKeepsDuties DEF Types
  <2>2. Seniority' /\ JobsPast' /\ ForwardOK'
    BY <1>1, <1>4 DEF ModerationInv, Seniority, JobsPast, ForwardOK, DeleteForwardedOnce
  <2>3. RemovalsOK' /\ Settled'
    BY <1>1, <1>2, LeaveKeepsRemovals, LeaveKeepsSettled DEF ModerationInv
  <2>4. QED BY <2>1, <2>2, <2>3 DEF ModerationInv
<1>5. CASE Tick /\ \E new \in {ticks', NoRow} : since' = [since EXCEPT ![p] = new]
  <2>1. PICK new \in {ticks', NoRow} : since' = [since EXCEPT ![p] = new]
    BY <1>5
  <2>2. /\ ticks' = ticks + 1 /\ ticks' \in 1..MaxTicks /\ ticks' # 1
        /\ ticks \in 1..MaxTicks
    BY <1>2, <1>5, TickGoesOn DEF Types
  <2>3. new \in 0..ticks' /\ new # 1 /\ new \in 0..NoTime
    BY <2>1, <2>2, ModerationAssumption DEF NoRow, NoTime
  <2>4. since' \in [People -> 0..NoTime]
    BY <1>2, <2>1, <2>3 DEF Types
  <2>5. Types'
    BY <1>1, <1>2, <2>2, <2>4, LeaveKeepsDuties DEF Types
  <2>6. \A q \in People : since'[q] = new \/ since'[q] = since[q]
    BY <1>2, <2>1 DEF Types
  <2>7. Seniority'
    BY <2>2, <2>3, <2>6 DEF ModerationInv, Seniority
  <2>8. JobsPast' /\ ForwardOK'
    BY <1>1, <1>2, <2>2 DEF ModerationInv, Types, Jobs, JobsPast, ForwardOK, DeleteForwardedOnce
  <2>9. RemovalsOK' /\ Settled'
    BY <1>1, <1>2, LeaveKeepsRemovals, LeaveKeepsSettled DEF ModerationInv
  <2>10. QED BY <2>5, <2>7, <2>8, <2>9 DEF ModerationInv
<1>6. QED BY <1>3, <1>4, <1>5

\* Time that goes on alone ages no row and no job.
LEMMA TimeAlone ==
  ASSUME Types, Seniority, JobsPast, Tick, UNCHANGED since,
         \A job \in telling' : job \in telling \/ job.n <= ticks'
  PROVE  Seniority' /\ JobsPast'
<1>1. ticks' = ticks + 1 /\ ticks \in Nat
  BY TickGoesOn DEF Types
<1>2. Seniority'
  BY <1>1 DEF Seniority
<1>3. JobsPast'
  BY <1>1 DEF Types, Jobs, JobsPast
<1>4. QED BY <1>2, <1>3

LEMMA WordsPreserveInv == ModerationInv /\ Words => ModerationInv'
<1> SUFFICES ASSUME ModerationInv, NEW h \in Slots,
                    CommitDescribe(h) \/ CommitDelete(h) \/ CommitDismiss(h)
             PROVE  ModerationInv'
  BY DEF Words
<1>1. Types
  BY DEF ModerationInv
<1>2. Leave(h) /\ UNCHANGED <<since, post, log, telling, queued, missed, raced>> /\ (Tick \/ UNCHANGED ticks)
  BY DEF CommitDescribe, CommitDelete, CommitDismiss
<1>3. /\ community' \in [deleted : BOOLEAN, described : BOOLEAN]
      /\ forward' \in [jobs : Nat, sent : Nat, lost : BOOLEAN]
      /\ flag' \in {"none", "open", "dismissed"} /\ ForwardOK'
  <2> USE DEF ForwardOK, DeleteForwardedOnce
  <2>1. CASE CommitDescribe(h)
    BY <1>1, <2>1 DEF CommitDescribe, Types, ModerationInv
  <2>2. CASE CommitDelete(h)
    <3>1. UNCHANGED flag /\ flag \in {"none", "open", "dismissed"}
      BY <1>1, <2>2 DEF CommitDelete, Types
    <3>2. CASE community.deleted
      BY <1>1, <2>2, <3>1, <3>2 DEF CommitDelete, Types, ModerationInv
    <3>3. CASE ~community.deleted
      <4>1. forward.jobs = 0 /\ forward.sent = 0 /\ forward.lost = FALSE
        BY <1>1, <3>3 DEF ModerationInv, Types
      <4>2. community' = [deleted |-> TRUE, described |-> FALSE]
        BY <2>2, <3>3 DEF CommitDelete
      <4>3. forward' = [jobs |-> 1, sent |-> 0, lost |-> FALSE]
        BY <1>1, <2>2, <3>3, <4>1 DEF CommitDelete, Types
      <4>4. QED BY <3>1, <4>2, <4>3
    <3>4. QED BY <3>2, <3>3
  <2>3. CASE CommitDismiss(h)
    BY <1>1, <2>3 DEF CommitDismiss, Types, ModerationInv
  <2>4. QED BY <2>1, <2>2, <2>3
<1>4. ticks' \in 1..MaxTicks
  BY <1>1, <1>2, TickGoesOn DEF Types
<1>5. Types'
  BY <1>1, <1>2, <1>3, <1>4, LeaveKeepsDuties DEF Types
<1>6. Seniority' /\ JobsPast'
  <2>1. CASE UNCHANGED ticks
    BY <1>2, <2>1 DEF ModerationInv, Seniority, JobsPast
  <2>2. CASE Tick
    BY <1>1, <1>2, <2>2, TimeAlone DEF ModerationInv
  <2>3. QED BY <1>2, <2>1, <2>2
<1>7. RemovalsOK' /\ Settled'
  BY <1>1, <1>2, LeaveKeepsRemovals, LeaveKeepsSettled DEF ModerationInv
<1>8. QED BY <1>3, <1>5, <1>6, <1>7 DEF ModerationInv

\* The Delete's one job ends, and it was handed to the queue or lost.
LEMMA ForwardPreservesInv ==
  ModerationInv /\ (\E fails \in BOOLEAN : ForwardDelete(fails)) => ModerationInv'
<1> SUFFICES ASSUME ModerationInv, NEW fails \in BOOLEAN, ForwardDelete(fails)
             PROVE  ModerationInv'
  OBVIOUS
<1>1. /\ forward.jobs > 0
      /\ forward' = IF fails THEN [forward EXCEPT !.jobs = @ - 1, !.lost = TRUE]
                    ELSE [forward EXCEPT !.jobs = @ - 1, !.sent = @ + 1]
      /\ UNCHANGED <<since, community, post, log, flag, duty, telling, queued, missed, ticks, raced>>
  BY DEF ForwardDelete
<1>2. forward \in [jobs : Nat, sent : Nat, lost : BOOLEAN]
  BY DEF ModerationInv, Types
<1>3. community.deleted /\ ~forward.lost /\ forward.jobs = 1 /\ forward.sent = 0
  <2>1. forward.jobs + forward.sent = IF community.deleted /\ ~forward.lost THEN 1 ELSE 0
    BY DEF ModerationInv, ForwardOK, DeleteForwardedOnce
  <2>2. QED BY <1>1, <1>2, <2>1
<1>4. /\ forward' \in [jobs : Nat, sent : Nat, lost : BOOLEAN] /\ forward'.jobs = 0
      /\ (forward'.lost /\ forward'.sent = 0) \/ (~forward'.lost /\ forward'.sent = 1)
  <2>1. CASE fails
    <3>1. forward' = [forward EXCEPT !.jobs = forward.jobs - 1, !.lost = TRUE]
      BY <1>1, <2>1
    <3>2. forward.jobs - 1 = 0 /\ 0 \in Nat
      BY <1>3
    <3>3. forward' = [forward EXCEPT !.jobs = 0, !.lost = TRUE]
      BY <3>1, <3>2
    <3>4. QED BY <1>2, <1>3, <3>2, <3>3
  <2>2. CASE ~fails
    <3>1. forward' = [forward EXCEPT !.jobs = forward.jobs - 1, !.sent = forward.sent + 1]
      BY <1>1, <2>2
    <3>2. forward.jobs - 1 = 0 /\ forward.sent + 1 = 1 /\ 0 \in Nat /\ 1 \in Nat
      BY <1>3
    <3>3. forward' = [forward EXCEPT !.jobs = 0, !.sent = 1]
      BY <3>1, <3>2
    <3>4. QED BY <1>2, <1>3, <3>2, <3>3
  <2>3. QED BY <2>1, <2>2
<1>5. ForwardOK'
  BY <1>1, <1>3, <1>4 DEF ForwardOK, DeleteForwardedOnce
<1>6. Types'
  BY <1>1, <1>4 DEF ModerationInv, Types
<1>7. Seniority' /\ JobsPast' /\ RemovalsOK'
  BY <1>1 DEF ModerationInv, Seniority, JobsPast, RemovalsOK
<1>8. Settled'
  BY <1>1 DEF ModerationInv, Settled, DecisionsOK, TellingOK, Truthful, ToldOrToBe, LogOK, Matches
<1>9. QED BY <1>5, <1>6, <1>7, <1>8 DEF ModerationInv

\* What is written about the post, by a decision or its deletion.
About == \E h \in Slots : CommitDecide(h) \/ CommitDeletePost(h)

\* A decision that does not race: no job of another was there, none other is open.
LEMMA AloneWhenNotRaced ==
  ASSUME NEW h \in Slots, raced' = (raced \/ Races(h)), ~raced'
  PROVE  /\ ~raced /\ \A job \in telling : job.of \notin Announcing
         /\ \A g \in Slots \ {h} : duty[g].pc \notin Decisions
BY DEF Races, Decisions

\* What is told of a deletion stays true when the post's approval changes.
LEMMA DeleteStaysTold ==
  ASSUME Types, Settled, post'.deleted = post.deleted, UNCHANGED <<queued, missed>>,
         telling \subseteq telling'
  PROVE  ToldOrToBe("Delete")'
BY DEF Types, Settled, TellingOK, ToldOrToBe, Matches, Announcing, Activities

\* A decision keeps what is settled: the row, the log and the jobs all say the same.
LEMMA DecideKeepsSettled ==
  ASSUME Types, Settled, Tick, NEW h \in Slots, CommitDecide(h)
  PROVE  Settled'
<1> DEFINE approve == duty[h].pc = "approve"
           changes == approve # (duty[h].saw = 1)
<1>1. /\ duty[h].pc \in Decisions /\ Leave(h) /\ raced' = (raced \/ Races(h))
      /\ post' = [post EXCEPT !.approved = approve, !.rejected = ~approve]
      /\ UNCHANGED <<queued, missed>>
      /\ log' = IF changes THEN duty[h].pc ELSE log
      /\ IF changes THEN Tell(Announcing, ~approve) ELSE UNCHANGED telling
  BY DEF CommitDecide, Decisions
<1>2. post'.approved = approve /\ post'.deleted = post.deleted
  BY <1>1 DEF Types
<1>3. approve \in BOOLEAN /\ (approve => duty[h].pc = "approve") /\ (~approve => duty[h].pc = "reject")
  BY <1>1 DEF Decisions
<1>4. changes \in BOOLEAN
  OBVIOUS
<1>5. ~raced' => (duty[h].saw = 1) = post.approved
  BY <1>1, AloneWhenNotRaced DEF Settled, DecisionsOK
<1>6. ~raced' /\ ~changes => post'.approved = post.approved
  BY <1>2, <1>5 DEF Types
<1> HIDE DEF approve, changes
<1>7. DecisionsOK'
  <2>1. NoDuty.pc \notin Decisions
    BY DEF NoDuty, Decisions
  <2>2. QED BY <1>1, <2>1, AloneWhenNotRaced, LeaveKeepsDuties DEF DecisionsOK
<1>8. LogOK'
  <2> SUFFICES ASSUME ~raced' PROVE (log' = "approve" => post'.approved) /\ (log' = "reject" => ~post'.approved)
    BY DEF LogOK
  <2>1. ~raced
    BY <1>1, AloneWhenNotRaced
  <2>2. CASE changes
    BY <1>1, <1>2, <1>3, <2>2
  <2>3. CASE ~changes
    BY <1>1, <1>6, <2>1, <2>3 DEF Settled, LogOK
  <2>4. QED BY <1>4, <2>2, <2>3
<1>9. telling \subseteq telling'
  BY <1>1, <1>4 DEF Tell
<1>10. \A job \in telling' : Truthful(job)'
  <2> SUFFICES ASSUME NEW job \in telling' PROVE Truthful(job)'
    OBVIOUS
  <2>1. CASE job \in telling
    <3>1. Truthful(job)
      BY <2>1 DEF Settled, TellingOK
    <3>2. ~raced' => job.of = "Delete"
      BY <1>1, <2>1, AloneWhenNotRaced DEF Types, Jobs, Activities
    <3>3. QED BY <1>2, <3>1, <3>2 DEF Truthful
  <2>2. CASE job \notin telling
    <3>1. PICK a \in Announcing : job = Job(a, ~approve, ticks')
      BY <1>1, <1>4, <2>2 DEF Tell
    <3>2. job.of # "Delete" /\ job.undo = ~post'.approved
      BY <1>2, <3>1 DEF Job, Announcing
    <3>3. QED BY <3>2 DEF Truthful
  <2>3. QED BY <2>1, <2>2
<1>11. \A a \in Announcing : ToldOrToBe(a)'
  <2> SUFFICES ASSUME NEW a \in Announcing, ~raced' PROVE ToldOrToBe(a)'
    BY DEF ToldOrToBe
  <2>1. CASE changes
    <3>1. Job(a, ~approve, ticks') \in telling' /\ Job(a, ~approve, ticks').of = a
      BY <1>1, <2>1 DEF Tell, Job
    <3>2. QED BY <3>1 DEF ToldOrToBe
  <2>2. CASE ~changes
    <3>1. ToldOrToBe(a) /\ ~raced
      BY <1>1, AloneWhenNotRaced DEF Settled, TellingOK, Activities
    <3>2. post'.approved = post.approved /\ UNCHANGED <<telling, queued, missed>>
      BY <1>1, <1>6, <2>2
    <3>3. QED BY <1>2, <3>1, <3>2 DEF ToldOrToBe, Matches
  <2>3. QED BY <1>4, <2>1, <2>2
<1>12. ToldOrToBe("Delete")'
  BY <1>1, <1>2, <1>9, DeleteStaysTold
<1>13. QED BY <1>7, <1>8, <1>10, <1>11, <1>12 DEF Settled, TellingOK, Activities

\* So does the deletion of the post.
LEMMA DeletePostKeepsSettled ==
  ASSUME Types, Settled, Tick, NEW h \in Slots, CommitDeletePost(h)
  PROVE  Settled'
<1> DEFINE new == Job("Delete", FALSE, ticks')
<1>1. /\ Leave(h) /\ UNCHANGED <<queued, missed, raced>>
      /\ post' = [post EXCEPT !.deleted = TRUE]
      /\ log' \in {log, "delete"} /\ telling' = telling \cup {new}
  BY DEF CommitDeletePost, Tell
<1>2. post'.approved = post.approved /\ post'.deleted = TRUE
  BY <1>1 DEF Types
<1>3. new.of = "Delete" /\ ~new.undo
  BY DEF Job
<1> HIDE DEF new
<1>4. DecisionsOK'
  <2>1. NoDuty.pc \notin Decisions
    BY DEF NoDuty, Decisions
  <2>2. QED BY <1>1, <1>2, <2>1, LeaveKeepsDuties DEF Settled, DecisionsOK
<1>5. LogOK'
  BY <1>1, <1>2 DEF Settled, LogOK
<1>6. \A job \in telling' : Truthful(job)'
  BY <1>1, <1>2, <1>3 DEF Settled, TellingOK, Truthful
<1>7. \A a \in Announcing : ToldOrToBe(a)'
  <2> SUFFICES ASSUME NEW a \in Announcing PROVE ToldOrToBe(a)'
    OBVIOUS
  <2>1. ToldOrToBe(a) /\ a # "Delete"
    BY DEF Settled, TellingOK, Activities, Announcing
  <2>2. QED BY <1>1, <1>2, <2>1 DEF ToldOrToBe, Matches
<1>8. ToldOrToBe("Delete")'
  BY <1>1, <1>3 DEF ToldOrToBe
<1>9. QED BY <1>4, <1>5, <1>6, <1>7, <1>8 DEF Settled, TellingOK, Activities

LEMMA AboutPreservesInv == ModerationInv /\ About => ModerationInv'
<1> SUFFICES ASSUME ModerationInv, NEW h \in Slots, CommitDecide(h) \/ CommitDeletePost(h)
             PROVE  ModerationInv'
  BY DEF About
<1>1. Types
  BY DEF ModerationInv
<1>2. /\ Leave(h) /\ Tick /\ UNCHANGED <<since, community, forward, flag, queued, missed>>
      /\ raced' \in {raced, raced \/ Races(h)}
      /\ \/ UNCHANGED telling
         \/ \E activities \in SUBSET Activities, undo \in BOOLEAN : Tell(activities, undo)
      /\ post' \in [approved : BOOLEAN, rejected : BOOLEAN, sticky : BOOLEAN, deleted : BOOLEAN]
      /\ log' \in {"none", "approve", "reject", "delete"}
  <2>1. CASE CommitDecide(h)
    <3>1. /\ Leave(h) /\ Tick /\ UNCHANGED <<since, community, forward, flag, queued, missed>>
          /\ raced' = (raced \/ Races(h))
      BY <2>1 DEF CommitDecide
    <3>2. \/ UNCHANGED telling
          \/ \E undo \in BOOLEAN : Tell(Announcing, undo)
      BY <2>1 DEF CommitDecide
    <3>3. log' \in {"none", "approve", "reject", "delete"}
      BY <1>1, <2>1 DEF CommitDecide, Types
    <3>4. post' \in [approved : BOOLEAN, rejected : BOOLEAN, sticky : BOOLEAN, deleted : BOOLEAN]
      BY <1>1, <2>1 DEF CommitDecide, Types
    <3>5. Announcing \in SUBSET Activities
      BY DEF Activities
    <3>6. QED BY <3>1, <3>2, <3>3, <3>4, <3>5
  <2>2. CASE CommitDeletePost(h)
    <3>1. {"Delete"} \in SUBSET Activities /\ FALSE \in BOOLEAN /\ Tell({"Delete"}, FALSE)
      BY <2>2 DEF CommitDeletePost, Activities
    <3>2. QED BY <1>1, <2>2, <3>1 DEF CommitDeletePost, Types
  <2>3. QED BY <2>1, <2>2
<1>3. ticks' \in 1..MaxTicks /\ ticks' \in Nat
  BY <1>1, <1>2, TickGoesOn
<1>4. telling' \subseteq Jobs /\ \A job \in telling' : job \in telling \/ job.n <= ticks'
  <2>1. CASE UNCHANGED telling
    BY <1>1, <2>1 DEF Types
  <2>2. ASSUME NEW activities \in SUBSET Activities, NEW undo \in BOOLEAN, Tell(activities, undo)
        PROVE  telling' \subseteq Jobs /\ \A job \in telling' : job \in telling \/ job.n <= ticks'
    <3>1. \A a \in activities : Job(a, undo, ticks') \in Jobs /\ Job(a, undo, ticks').n <= ticks'
      BY <1>3 DEF Job, Jobs
    <3>2. telling' = telling \cup {Job(a, undo, ticks') : a \in activities} /\ telling \subseteq Jobs
      BY <1>1, <2>2 DEF Tell, Types
    <3>3. QED BY <3>1, <3>2
  <2>3. QED BY <1>2, <2>1, <2>2
<1>5. raced' \in BOOLEAN
  BY <1>1, <1>2 DEF Types
<1>6. Types'
  BY <1>1, <1>2, <1>3, <1>4, <1>5, LeaveKeepsDuties DEF Types
<1>7. Seniority' /\ JobsPast'
  BY <1>1, <1>2, <1>4, TimeAlone DEF ModerationInv
<1>8. RemovalsOK' /\ ForwardOK'
  BY <1>1, <1>2, LeaveKeepsRemovals DEF ModerationInv, ForwardOK, DeleteForwardedOnce
<1>9. Settled'
  BY <1>1, <1>2, DecideKeepsSettled, DeletePostKeepsSettled DEF ModerationInv
<1>10. QED BY <1>6, <1>7, <1>8, <1>9 DEF ModerationInv

-----------------------------------------------------------------------------
\* What is one statement, without a duty: the sticky bit and a flag.
Alone == \/ \E by \in People, sticky \in BOOLEAN : Stick(by, sticky)
         \/ FlagPost

LEMMA AlonePreservesInv == ModerationInv /\ Alone => ModerationInv'
<1> SUFFICES ASSUME ModerationInv, Alone PROVE ModerationInv'
  OBVIOUS
<1>1. Types
  BY DEF ModerationInv
<1>2. /\ Tick /\ UNCHANGED <<since, community, forward, log, duty, telling, queued, missed, raced>>
      /\ post' \in [approved : BOOLEAN, rejected : BOOLEAN, sticky : BOOLEAN, deleted : BOOLEAN]
      /\ post'.approved = post.approved /\ post'.deleted = post.deleted
      /\ flag' \in {"none", "open", "dismissed"}
  BY <1>1 DEF Alone, Stick, FlagPost, Types
<1>3. ticks' \in 1..MaxTicks
  BY <1>1, <1>2, TickGoesOn
<1>4. Types'
  BY <1>1, <1>2, <1>3 DEF Types
<1>5. Seniority' /\ JobsPast'
  BY <1>1, <1>2, TimeAlone DEF ModerationInv
<1>6. RemovalsOK' /\ ForwardOK'
  BY <1>2 DEF ModerationInv, RemovalsOK, ForwardOK, DeleteForwardedOnce
<1>7. Settled'
  BY <1>2 DEF ModerationInv, Settled, DecisionsOK, TellingOK, Truthful, ToldOrToBe, LogOK, Matches
<1>8. QED BY <1>4, <1>5, <1>6, <1>7 DEF ModerationInv

\* What a job leaves behind is settled: handed to the queue, or missed.
LEMMA TellingPreservesInv ==
  ModerationInv /\ (\E job \in telling : RunTelling(job) \/ FailTelling(job)) => ModerationInv'
<1> SUFFICES ASSUME ModerationInv, NEW job \in telling, RunTelling(job) \/ FailTelling(job)
             PROVE  ModerationInv'
  OBVIOUS
<1>1. /\ telling' = telling \ {job} /\ queued' \in {queued, [queued EXCEPT ![job.of] = IF job.undo THEN "undone" ELSE "done"]}
      /\ missed' \in {missed \ {job.of}, missed \cup {job.of}}
      /\ UNCHANGED <<since, community, forward, post, log, flag, duty, ticks, raced>>
  BY DEF RunTelling, FailTelling
<1>2. job \in Jobs /\ Types /\ job.of \in Activities
  BY DEF ModerationInv, Types, Jobs
<1>3. Types'
  <2>1. telling' \subseteq Jobs /\ missed' \subseteq Activities
    BY <1>1, <1>2 DEF Types
  <2>2. queued' \in [Activities -> {"nothing", "done", "undone"}]
    BY <1>1, <1>2 DEF Types
  <2>3. QED BY <1>1, <1>2, <2>1, <2>2 DEF Types
<1>4. Seniority' /\ JobsPast' /\ RemovalsOK' /\ ForwardOK'
  BY <1>1 DEF ModerationInv, Seniority, JobsPast, RemovalsOK, ForwardOK, DeleteForwardedOnce
<1>5. DecisionsOK' /\ LogOK'
  BY <1>1 DEF ModerationInv, Settled, DecisionsOK, LogOK
<1>6. \A j \in telling' : Truthful(j)'
  BY <1>1 DEF ModerationInv, Settled, TellingOK, Truthful
<1>7. \A a \in Activities \ {job.of} : ToldOrToBe(a)'
  <2> SUFFICES ASSUME NEW a \in Activities \ {job.of} PROVE ToldOrToBe(a)'
    OBVIOUS
  <2>1. ToldOrToBe(a)
    BY DEF ModerationInv, Settled, TellingOK
  <2>2. queued'[a] = queued[a] /\ (a \in missed => a \in missed')
    BY <1>1, <1>2 DEF Types
  <2>3. (\E j \in telling : j.of = a) => \E j \in telling' : j.of = a
    BY <1>1
  <2>4. QED BY <1>1, <2>1, <2>2, <2>3 DEF ToldOrToBe, Matches
<1>8. ToldOrToBe(job.of)'
  <2>1. CASE RunTelling(job)
    <3>1. queued'[job.of] = IF job.undo THEN "undone" ELSE "done"
      BY <1>2, <2>1 DEF RunTelling, Types
    <3>2. Truthful(job) /\ UNCHANGED <<post, raced>>
      BY <1>1 DEF ModerationInv, Settled, TellingOK
    <3>3. job.of \in Announcing \/ job.of = "Delete"
      BY <1>2 DEF Activities
    <3>4. "Delete" \notin Announcing /\ job.undo \in BOOLEAN /\ post.approved \in BOOLEAN
      BY <1>2 DEF Announcing, Jobs, Types
    <3>5. QED BY <3>1, <3>2, <3>3, <3>4 DEF ToldOrToBe, Truthful, Matches
  <2>2. CASE FailTelling(job)
    BY <2>2 DEF FailTelling, ToldOrToBe
  <2>3. QED BY <2>1, <2>2
<1>9. TellingOK'
  BY <1>6, <1>7, <1>8 DEF TellingOK
<1>10. QED BY <1>3, <1>4, <1>5, <1>9 DEF ModerationInv, Settled

LEMMA StopPreservesInv == ModerationInv /\ StopServer => ModerationInv'
<1> SUFFICES ASSUME ModerationInv, StopServer PROVE ModerationInv'
  OBVIOUS
<1>1. /\ telling' = {} /\ duty' = [h \in Slots |-> NoDuty]
      /\ forward' = [forward EXCEPT !.jobs = 0, !.lost = @ \/ forward.jobs > 0]
      /\ missed' = missed \cup {job.of : job \in telling}
      /\ UNCHANGED <<since, community, post, log, flag, queued, ticks, raced>>
  BY DEF StopServer
<1>2. NoDuty.pc # "remove" /\ NoDuty.pc \notin Decisions
  BY DEF NoDuty, Decisions
<1>3. Types
  BY DEF ModerationInv
<1>4. forward' = [jobs |-> 0, sent |-> forward.sent, lost |-> (forward.lost \/ forward.jobs > 0)]
  BY <1>1, <1>3 DEF Types
<1>5. Types'
  <2>1. duty' \in [Slots -> {NoDuty} \cup Duties] /\ telling' \subseteq Jobs
    BY <1>1
  <2>2. missed' \subseteq Activities
    BY <1>1, <1>3 DEF Types, Jobs
  <2>3. forward' \in [jobs : Nat, sent : Nat, lost : BOOLEAN]
    BY <1>3, <1>4 DEF Types
  <2>4. QED BY <1>1, <1>3, <2>1, <2>2, <2>3 DEF Types
<1>6. ForwardOK'
  <2>1. /\ forward.jobs \in Nat /\ forward.sent \in Nat /\ forward.lost \in BOOLEAN
        /\ forward.jobs + forward.sent = IF community.deleted /\ ~forward.lost THEN 1 ELSE 0
        /\ forward.lost => community.deleted
    BY <1>3 DEF Types, ModerationInv, ForwardOK, DeleteForwardedOnce
  <2>2. /\ forward'.jobs = 0 /\ forward'.sent = forward.sent
        /\ forward'.lost = (forward.lost \/ forward.jobs > 0) /\ community' = community
    BY <1>1, <1>4
  <2>3. CASE forward.jobs = 0
    BY <2>1, <2>2, <2>3 DEF ForwardOK, DeleteForwardedOnce
  <2>4. CASE forward.jobs > 0
    <3>1. community.deleted /\ forward.sent = 0
      BY <2>1, <2>4
    <3>2. forward'.lost /\ forward'.sent = 0
      BY <2>2, <2>4, <3>1
    <3>3. QED BY <2>2, <3>1, <3>2 DEF ForwardOK, DeleteForwardedOnce
  <2>5. QED BY <2>1, <2>3, <2>4
<1>7. Seniority' /\ JobsPast' /\ RemovalsOK'
  BY <1>1, <1>2 DEF ModerationInv, Seniority, JobsPast, RemovalsOK
<1>8. DecisionsOK' /\ LogOK'
  BY <1>1, <1>2 DEF ModerationInv, Settled, DecisionsOK, LogOK
<1>9. TellingOK'
  BY <1>1 DEF ModerationInv, Settled, TellingOK, ToldOrToBe, Matches
<1>10. QED BY <1>5, <1>6, <1>7, <1>8, <1>9 DEF ModerationInv, Settled

LEMMA StepsPreserveInv == ModerationInv /\ [ModerationNext]_moderationVars => ModerationInv'
<1> SUFFICES ASSUME ModerationInv, [ModerationNext]_moderationVars PROVE ModerationInv'
  OBVIOUS
<1>1. CASE ModerationNext
  <2>1. \/ Checks \/ Rows \/ Words \/ About \/ Alone \/ StopServer
        \/ \E fails \in BOOLEAN : ForwardDelete(fails)
        \/ \E job \in telling : RunTelling(job) \/ FailTelling(job)
    BY <1>1 DEF ModerationNext, Checks, Rows, Words, About, Alone
  <2>2. QED BY <2>1, ChecksPreserveInv, RowsPreserveInv, WordsPreserveInv, AboutPreservesInv,
               AlonePreservesInv, ForwardPreservesInv, TellingPreservesInv, StopPreservesInv
<1>2. CASE UNCHANGED moderationVars
  BY <1>2 DEF moderationVars, ModerationInv, Types, Seniority, JobsPast, RemovalsOK, Settled,
              DecisionsOK, TellingOK, Truthful, ToldOrToBe, LogOK, Matches, ForwardOK,
              DeleteForwardedOnce
<1>3. QED BY <1>1, <1>2

LEMMA ModerationInvHolds == ModerationSpec => []ModerationInv
BY ModerationInitInv, StepsPreserveInv, PTL DEF ModerationSpec

-----------------------------------------------------------------------------
\* Every row, duty and job is what it is declared to be, and no time but that of
\* a legacy moderator is ahead of the clock, whatever the number of accounts,
\* requests and writes (the moderators' routes of routes/api/communities.rs).
THEOREM ModerationTypeCorrect == ModerationSpec => []ModerationTypeOK
<1>1. ModerationInv => ModerationTypeOK
  <2> SUFFICES ASSUME ModerationInv PROVE ModerationTypeOK
    OBVIOUS
  <2>1. \A p \in People : since[p] \in 0..ticks \/ (since[p] = NoTime /\ p \in Legacy)
    BY DEF ModerationInv, Seniority
  <2>2. \A h \in Slots : duty[h] = NoDuty \/ ({duty[h].by, duty[h].about} \subseteq People \cup {Anyone})
    BY DEF ModerationInv, Types, Duties
  <2>3. \A job \in telling : job.of \in Activities /\ job.undo \in BOOLEAN /\ job.n <= ticks
    BY DEF ModerationInv, Types, Jobs, JobsPast
  <2>4. QED BY <2>1, <2>2, <2>3 DEF ModerationInv, Types, ModerationTypeOK
<1>2. QED BY <1>1, ModerationInvHolds, PTL

\* Whoever founded a community is removed from its moderators by nobody but
\* themselves or a moderator whose row has no time, however many requests to
\* add and remove are under way (the comparison of created_local in
\* route_unstable_communities_moderators_remove).
THEOREM FounderIsSafe == ModerationSpec => FounderStays
<1>1. ModerationInv /\ [ModerationNext]_moderationVars =>
        [FounderGoes => SeniorRemovesFounder]_moderationVars
  <2> SUFFICES ASSUME ModerationInv, ModerationNext, since[Founder] = 1, since'[Founder] # 1
               PROVE  SeniorRemovesFounder
    BY DEF FounderGoes
  <2>1. PICK h \in Slots : CommitAdd(h) \/ CommitRemove(h)
    BY DEF ModerationNext, BeginAdd, BeginRemove, BeginDescribe, CommitDescribe, BeginDelete,
           CommitDelete, BeginDecide, CommitDecide, Stick, BeginDeletePost, CommitDeletePost,
           FlagPost, BeginDismiss, CommitDismiss, ForwardDelete, RunTelling, FailTelling,
           StopServer
  <2>2. Founder \in People /\ since \in [People -> 0..NoTime] /\ NoTime # 1
    BY ModerationAssumption DEF ModerationInv, Types, NoTime
  <2>3. CASE CommitAdd(h)
    <3>1. duty[h].about # Founder
      BY <2>2, <2>3 DEF CommitAdd, IsMod, NoRow
    <3>2. QED BY <2>2, <2>3, <3>1 DEF CommitAdd
  <2>4. CASE CommitRemove(h)
    <3>1. duty[h].pc = "remove" /\ duty[h].about = Founder
      BY <2>2, <2>4 DEF CommitRemove
    <3>2. MayRemove(duty[h].saw, Founder)
      BY <2>4, <3>1 DEF CommitRemove
    <3>3. duty[h].saw = NoTime \/ 1 >= duty[h].saw
      BY <3>2 DEF MayRemove, NoRow
    <3>4. duty[h].saw \in 0..NoTime
      <4>1. duty[h] # NoDuty
        BY <3>1 DEF NoDuty
      <4>2. duty[h] \in Duties
        BY <4>1 DEF ModerationInv, Types
      <4>3. QED BY <4>2 DEF Duties
    <3>5. duty[h].saw = NoTime \/ duty[h].saw = 1
      BY <2>2, <3>1, <3>3, <3>4, ModerationAssumption DEF ModerationInv, RemovalsOK, NoRow, NoTime
    <3>6. duty[h].by \in Legacy \cup {Founder}
      BY <3>1, <3>5 DEF ModerationInv, RemovalsOK
    <3>7. QED BY <3>1, <3>6 DEF SeniorRemovesFounder
  <2>5. QED BY <2>1, <2>3, <2>4
<1>2. QED BY <1>1, ModerationInvHolds, PTL DEF ModerationSpec, FounderStays

\* However many requests to delete a community overlap, its followers' Delete is
\* handed to the queue once at most; and it is, or has a job, unless that job
\* failed or was lost with a stop (the WHERE of the UPDATE and the job spawned
\* after it in route_unstable_communities_delete).
THEOREM OneDeleteForwarded == ModerationSpec => []DeleteForwardedOnce
<1>1. ModerationInv => DeleteForwardedOnce
  BY DEF ModerationInv, ForwardOK
<1>2. QED BY <1>1, ModerationInvHolds, PTL

\* As long as no two decisions on a post met, the moderation log agrees with the
\* post, and so does what was last handed to the queue of each activity that has
\* no job and whose last job was not lost (route_unstable_communities_posts_patch,
\* route_unstable_posts_delete and the jobs they spawn).
THEOREM FollowersAreTold == ModerationSpec => []FollowersTold
<1>1. ModerationInv => FollowersTold
  BY DEF ModerationInv, Settled, TellingOK, ToldOrToBe, LogOK, FollowersTold
<1>2. QED BY <1>1, ModerationInvHolds, PTL
=============================================================================
