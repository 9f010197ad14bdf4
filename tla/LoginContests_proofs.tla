------------------------- MODULE LoginContests_proofs -------------------------
(***************************************************************************)
(* The theorem about LoginContests, for any number of users, logins and     *)
(* requests in flight, and any operations that are called.                  *)
(***************************************************************************)
EXTENDS LoginContests, Accounts_proofs

-------------------------------------------------------------------------------
(* The inductive invariant. *)

\* What is true of a login that was never contested: at most one account has it,
\* none has it that is still to be inserted with it, and all requests that would
\* write it back do so to the same account.
Kept(login) ==
    /\ ~Contest(login)
    /\ \A i, j \in ByLogin(login) : i = j
    /\ \A p \in Procs : login \in Claims(p) => ~Taken(login)
    /\ \A p \in Procs : login \in Restores(p) => ByLogin(login) \subseteq {who[p]}
    /\ \A p, q \in Procs : login \in Restores(p) /\ login \in Restores(q) => who[p] = who[q]

LoginsKept == \A login \in Texts \ contested : Kept(login)

-------------------------------------------------------------------------------
(* Claims and logins. *)

\* What a request claims and restores depends on its own state only.
LEMMA OwnClaims ==
    ASSUME NEW p \in Procs, pc'[p] = pc[p], copy'[p] = copy[p]
    PROVE  Claims(p)' = Claims(p) /\ Restores(p)' = Restores(p)
BY DEF Claims, Restores, Logins

\* The requests that do not take the step keep their claims.
LEMMA OthersKeepClaims ==
    ASSUME NEW p \in Procs, Turn(p), NEW q \in Procs, q # p
    PROVE  Claims(q)' = Claims(q) /\ Restores(q)' = Restores(q) /\ who'[q] = who[q]
BY OwnClaims DEF Turn

\* A request at one of the other statements claims and restores nothing.
LEMMA NoClaims ==
    ASSUME NEW p \in Procs,
           pc'[p] \notin {"registerEmail", "registerPhone", "create", "seedCreate"} \cup Writing
    PROVE  Claims(p)' = {} /\ Restores(p)' = {}
BY DEF Claims, Restores, Writing

\* Logins depend on the identity only.
LEMMA IdentityHasLogins ==
    ASSUME NEW u, NEW v, IdentityOf(u) = IdentityOf(v)
    PROVE  Logins(u) = Logins(v)
BY DEF IdentityOf, Logins

\* A login that is still uncontested was so before, and is no contest now.
LEMMA StillUncontested ==
    ASSUME LoginsKept, ContestsNoted, NEW login \in Texts \ contested'
    PROVE  Kept(login) /\ ~Contest(login)' /\ ~Unasked(login)
BY DEF ContestsNoted, LoginsKept

-------------------------------------------------------------------------------
(* The steps. *)

\* Nothing happens to users and claims.
LEMMA StutterKeepsLogins ==
    ASSUME LoginsKept, UNCHANGED <<users, pc, who, copy>>, contested \subseteq contested'
    PROVE  LoginsKept'
<1>1. \A p \in Procs : Claims(p)' = Claims(p) /\ Restores(p)' = Restores(p)
    BY OwnClaims
<1>2. \A login : ByLogin(login)' = ByLogin(login)
    BY DEF ByLogin, Existing, Logins
<1> SUFFICES ASSUME NEW login \in Texts \ contested' PROVE Kept(login)'
    BY DEF LoginsKept
<1>3. Kept(login)
    BY DEF LoginsKept
<1>4. ByLogin(login)' = ByLogin(login)
    BY <1>2
<1> QED
    BY <1>1, <1>3, <1>4 DEF Kept, Contest, Taken

\* A request reads, and what it claims anew is free, or named without asking.
LEMMA ReadKeepsLogins ==
    ASSUME LoginsKept, ContestsNoted, NEW p \in Procs, Turn(p), users' = users,
           Restores(p)' = {},
           \A login \in Claims(p)' : \/ login \in Claims(p) \/ ~Taken(login)
                                     \/ Unasked(login)
    PROVE  LoginsKept'
<1> SUFFICES ASSUME NEW login \in Texts \ contested' PROVE Kept(login)'
    BY DEF LoginsKept
<1>1. Kept(login) /\ ~Contest(login)' /\ ~Unasked(login)
    BY StillUncontested
<1>2. ByLogin(login)' = ByLogin(login)
    BY DEF ByLogin, Existing, Logins
<1>3. ASSUME NEW q \in Procs, login \in Claims(q)' PROVE ~Taken(login)
  <2>1. CASE q = p
      BY <1>1, <1>3, <2>1 DEF Kept
  <2>2. CASE q # p
      BY <1>1, <1>3, <2>2, OthersKeepClaims DEF Kept
  <2> QED
      BY <2>1, <2>2
<1>4. \A q \in Procs : login \in Restores(q)'
                         => q # p /\ login \in Restores(q) /\ who'[q] = who[q]
    BY OthersKeepClaims
<1> QED
    BY <1>1, <1>2, <1>3, <1>4 DEF Kept, Taken

\* A request ends or goes on without a claim, and no user was written.
LEMMA IdleKeepsLogins ==
    ASSUME LoginsKept, ContestsNoted, NEW p \in Procs, Turn(p), users' = users,
           pc'[p] \notin {"registerEmail", "registerPhone", "create", "seedCreate"} \cup Writing
    PROVE  LoginsKept'
BY NoClaims, ReadKeepsLogins

\* A request reads a user that it will write back.
LEMMA HoldKeepsLogins ==
    ASSUME Inv, LoginsKept, ContestsNoted, NEW p \in Procs, users' = users,
           NEW i \in Existing, NEW u \in User, IdentityOf(u) = IdentityOf(users[i]),
           NEW s \in Writing, Holds(p, i, u, s)
    PROVE  LoginsKept'
<1>1. pc'[p] = s /\ who'[p] = i /\ copy'[p] = u /\ Turn(p)
    BY DEF Holds, Inv, TypeOK, Turn
<1>2. Claims(p)' = {} /\ Restores(p)' = Logins(users[i])
    BY <1>1, IdentityHasLogins DEF Claims, Restores, Writing, Logins
<1> SUFFICES ASSUME NEW login \in Texts \ contested' PROVE Kept(login)'
    BY DEF LoginsKept
<1>3. Kept(login) /\ ~Contest(login)'
    BY StillUncontested
<1>4. ByLogin(login)' = ByLogin(login)
    BY DEF ByLogin, Existing, Logins
<1>5. ASSUME NEW q \in Procs, login \in Claims(q)' PROVE ~Taken(login)
  <2>1. q # p
      BY <1>2, <1>5
  <2>2. login \in Claims(q)
      BY <1>1, <1>5, <2>1, OthersKeepClaims
  <2> QED
      BY <1>3, <2>2 DEF Kept
<1>6. login \in Restores(p)' => ByLogin(login) = {i}
    BY <1>2, <1>3 DEF Kept, ByLogin
<1>7. \A q \in Procs : login \in Restores(q)' => ByLogin(login) \subseteq {who'[q]}
    BY <1>1, <1>3, <1>6, OthersKeepClaims DEF Kept
<1>8. \A q, r \in Procs : login \in Restores(q)' /\ login \in Restores(r)'
                            => who'[q] = who'[r]
    BY <1>1, <1>3, <1>6, <1>7, OthersKeepClaims DEF Kept
<1> QED
    BY <1>3, <1>4, <1>5, <1>7, <1>8 DEF Kept, Taken

\* A user is deleted.
LEMMA DeleteKeepsLogins ==
    ASSUME Inv, LoginsKept, ContestsNoted, NEW p \in Procs, Delete(p)
    PROVE  LoginsKept'
<1>1. users' = [users EXCEPT ![who[p]] = None] /\ EndRequest(p)
    BY DEF Delete, Deleted
<1>2. Turn(p) /\ pc'[p] = "idle"
    BY <1>1, EndForgets DEF EndRequest, Inv, TypeOK
<1>3. Claims(p)' = {} /\ Restores(p)' = {}
    BY <1>2, NoClaims DEF Writing
<1> SUFFICES ASSUME NEW login \in Texts \ contested' PROVE Kept(login)'
    BY DEF LoginsKept
<1>4. Kept(login) /\ ~Contest(login)'
    BY StillUncontested
<1>5. ByLogin(login)' \subseteq ByLogin(login)
    BY <1>1 DEF ByLogin, Existing, Rows, Logins, Inv, TypeOK
<1>6. \A q \in Procs : /\ login \in Claims(q)' => login \in Claims(q)
                       /\ login \in Restores(q)' => login \in Restores(q) /\ who'[q] = who[q]
    BY <1>2, <1>3, OthersKeepClaims
<1> QED
    BY <1>4, <1>5, <1>6 DEF Kept, Taken

\* A user is written back, be it that the account was deleted in between.
LEMMA WriteKeepsLogins ==
    ASSUME Inv, LoginsKept, ContestsNoted, NEW p \in Procs,
           pc[p] \in Writing, WritesBack(p, pc[p])
    PROVE  LoginsKept'
<1>1. users' = [users EXCEPT ![who[p]] = copy[p]] /\ EndRequest(p)
    BY DEF WritesBack, Saved
<1>2. Turn(p) /\ pc'[p] = "idle"
    BY <1>1, EndForgets DEF EndRequest, Inv, TypeOK
<1>3. Claims(p)' = {} /\ Restores(p)' = {}
    BY <1>2, NoClaims DEF Writing
<1>4. /\ who[p] \in Ids /\ copy[p] \in User /\ copy[p] # None
      /\ IdentityOf(copy[p]) = born[who[p]]
    BY UserFields DEF Inv, Ready, IsItself
<1>5. Restores(p) = Logins(copy[p])
    BY DEF Restores, Writing
<1>6. who[p] \in Existing => Logins(users[who[p]]) = Logins(copy[p])
    BY <1>4, IdentityHasLogins DEF Inv, AccountsStayThemselves
<1> SUFFICES ASSUME NEW login \in Texts \ contested' PROVE Kept(login)'
    BY DEF LoginsKept
<1>7. Kept(login) /\ ~Contest(login)'
    BY StillUncontested
<1>8. \A q \in Procs : /\ login \in Claims(q)' => login \in Claims(q) /\ q # p
                       /\ login \in Restores(q)' => login \in Restores(q) /\ who'[q] = who[q]
    BY <1>2, <1>3, OthersKeepClaims
<1>9. CASE login \in Logins(copy[p])
  <2>1. ByLogin(login)' \subseteq {who[p]}
      BY <1>1, <1>4, <1>5, <1>7, <1>9 DEF Kept, ByLogin, Existing, Rows, Logins, Inv, TypeOK
  <2>2. \A q \in Procs : login \notin Claims(q)'
      BY <1>5, <1>7, <1>8, <1>9 DEF Kept, Contest
  <2>3. \A q \in Procs : login \in Restores(q)' => who'[q] = who[p]
      BY <1>5, <1>7, <1>8, <1>9 DEF Kept
  <2> QED
      BY <1>7, <2>1, <2>2, <2>3 DEF Kept
<1>10. CASE login \notin Logins(copy[p])
  <2>1. ByLogin(login)' = ByLogin(login)
      BY <1>1, <1>4, <1>6, <1>10 DEF ByLogin, Existing, Rows, Logins, Inv, TypeOK
  <2> QED
      BY <1>7, <1>8, <2>1 DEF Kept, Taken
<1> QED
    BY <1>9, <1>10

\* A user is inserted with the logins that its request claimed, and may be held
\* to be written once more.
LEMMA InsertKeepsLogins ==
    ASSUME Inv, LoginsKept, ContestsNoted, NEW p \in Procs, Turn(p),
           NEW i \in Ids, NEW u \in User, Insert(i, u), Logins(u) = Claims(p),
           Claims(p)' = {},
           Restores(p)' # {} => Restores(p)' = Logins(u) /\ who'[p] = i
    PROVE  LoginsKept'
<1>1. users[i] = None /\ users' = [users EXCEPT ![i] = u]
  <2>1. users[i] = None
      BY StoredUsers DEF Existing, Rows, Insert
  <2> QED
      BY <2>1 DEF Insert, Created, Inv, TypeOK
<1>2. u # None
    BY UserFields
<1> SUFFICES ASSUME NEW login \in Texts \ contested' PROVE Kept(login)'
    BY DEF LoginsKept
<1>3. Kept(login) /\ ~Contest(login)'
    BY StillUncontested
<1>4. \A q \in Procs : login \in Claims(q)' => login \in Claims(q) /\ q # p
    BY OthersKeepClaims
<1>5. \A q \in Procs \ {p} : login \in Restores(q)'
                               => login \in Restores(q) /\ who'[q] = who[q]
    BY OthersKeepClaims
<1>6. CASE login \in Logins(u)
  <2>1. ByLogin(login)' \subseteq {i}
      BY <1>1, <1>3, <1>6 DEF Kept, Taken, ByLogin, Existing, Rows, Logins, Inv, TypeOK
  <2>2. \A q \in Procs \ {p} : login \notin Claims(q) /\ login \notin Restores(q)
      BY <1>3, <1>6 DEF Kept, Contest
  <2>3. \A q \in Procs : login \notin Claims(q)'
      BY <1>4, <2>2
  <2>4. \A q \in Procs : login \in Restores(q)' => who'[q] = i
      BY <1>5, <2>2
  <2> QED
      BY <1>3, <2>1, <2>3, <2>4 DEF Kept
<1>7. CASE login \notin Logins(u)
  <2>1. ByLogin(login)' = ByLogin(login)
      BY <1>1, <1>2, <1>7 DEF ByLogin, Existing, Rows, Logins, Inv, TypeOK
  <2>2. \A q \in Procs : login \in Restores(q)' => login \in Restores(q) /\ who'[q] = who[q]
      BY <1>5, <1>7
  <2> QED
      BY <1>3, <1>4, <2>1, <2>2 DEF Kept, Taken
<1> QED
    BY <1>6, <1>7

\* What a request knows of a user it dated anew are the same logins.
LEMMA DatedLogins ==
    ASSUME Inv, NEW p \in Procs, copy[p] \in User, NEW u \in Dated(p)
    PROVE  u \in User /\ Logins(u) = Logins(copy[p])
BY DatedUsers, IdentityHasLogins

\* A request builds the user that it will insert: it claims the logins that this
\* statement finds free, those it claimed before, and a name it did not ask for.
LEMMA BuildKeepsLogins ==
    ASSUME Inv, LoginsKept, ContestsNoted, NEW p \in Procs, users' = users,
           NEW u \in User, NEW s \in {"registerEmail", "create", "seedCreate"},
           Builds(p, u, s),
           \A login \in Logins(u) \ {u.username} :
               s # "registerEmail" => login \in Claims(p) \/ ~Taken(login),
           \/ u.username \in Claims(p) \/ ~Taken(u.username)
           \/ pc[p] = "idle" /\ s = "create"
           \/ pc[p] = "seedFind" /\ s = "seedCreate"
    PROVE  LoginsKept'
<1>1. pc'[p] = s /\ copy'[p] = u /\ Turn(p)
    BY DEF Builds, Inv, TypeOK, Turn
<1>2. Restores(p)' = {} /\ Claims(p)' \subseteq Logins(u)
      /\ (s = "registerEmail" => Claims(p)' = {u.username})
  <2>1. u.username # None
      BY UserFields, Parameters DEF Texts
  <2> QED
      BY <1>1, <2>1 DEF Restores, Claims, Logins
<1>3. u.username \in Claims(p) \/ ~Taken(u.username) \/ Unasked(u.username)
    BY <1>1 DEF Unasked
<1>4. \A login \in Claims(p)' : login \in Claims(p) \/ ~Taken(login) \/ Unasked(login)
    BY <1>2, <1>3
<1> QED
    BY <1>1, <1>2, <1>4, ReadKeepsLogins

\* A request goes on to a statement that it claims nothing by, or ends.
LEMMA GoesOrEnds ==
    ASSUME Inv, NEW p \in Procs,
           EndRequest(p) \/ \E s \in {"seedRoleFind", "seedRole", "seedFind"} : Goes(p, s)
    PROVE  /\ Turn(p)
           /\ pc'[p] \notin {"registerEmail", "registerPhone", "create", "seedCreate"}
                              \cup Writing
BY DEF Inv, TypeOK, EndRequest, Goes, Turn, Writing

-------------------------------------------------------------------------------
(* The operations. *)

\* POST /oauth/register: three checks, and the insert.
LEMMA RegistrationKeepsLogins ==
    ASSUME Inv, LoginsKept, ContestsNoted, NEW p \in Procs, Registration(p)
    PROVE  LoginsKept'
<1>1. ASSUME NEW name \in Names, NEW email \in Emails \cup {None},
             NEW ph \in Phones \cup {None}, NEW password \in Passwords,
             RegisterName(p, name, email, ph, password)
      PROVE  LoginsKept'
  <2> DEFINE u == Registered(name, email, ph, password)
  <2>1. u \in User /\ u.username = name
    <3>1. clock \in Nat
        BY DEF Inv, TypeOK
    <3> QED
        BY <3>1, BuiltUsers DEF Registered, NewUser
  <2>2. Builds(p, u, "registerEmail") /\ users' = users /\ ~Taken(name)
      BY <1>1 DEF RegisterName, OnlyReads
  <2> HIDE DEF u
  <2> QED
      BY <2>1, <2>2, BuildKeepsLogins
<1>2. CASE \E name \in Names : RegisterRefused(p, name)
    BY <1>2, StutterKeepsLogins DEF RegisterRefused, vars, ContestsNoted
<1>3. CASE RegisterEmail(p)
  <2>1. pc[p] = "registerEmail" /\ users' = users
      BY <1>3 DEF RegisterEmail, OnlyReads
  <2>2. CASE EndRequest(p)
      BY <2>1, <2>2, GoesOrEnds, IdleKeepsLogins
  <2>3. CASE ~Taken(copy[p].email) /\ Goes(p, "registerPhone")
    <3>1. pc'[p] = "registerPhone" /\ copy'[p] = copy[p] /\ Turn(p)
        BY <2>3 DEF Goes, Inv, TypeOK, Turn
    <3>2. Restores(p)' = {} /\ Claims(p)' = {copy[p].username, copy[p].email} \ {None}
        BY <3>1 DEF Restores, Claims
    <3>3. copy[p].username \in Claims(p)
        BY <2>1 DEF Claims
    <3> QED
        BY <2>1, <2>3, <3>1, <3>2, <3>3, ReadKeepsLogins
  <2> QED
      BY <1>3, <2>2, <2>3 DEF RegisterEmail
<1>4. CASE RegisterPhone(p)
  <2>1. pc[p] = "registerPhone" /\ users' = users /\ copy[p] \in User
      BY <1>4 DEF RegisterPhone, OnlyReads, Inv, Ready, Building
  <2>2. CASE EndRequest(p)
      BY <2>1, <2>2, GoesOrEnds, IdleKeepsLogins
  <2>3. CASE ~Taken(copy[p].phone) /\ Builds(p, [copy[p] EXCEPT !.created = clock], "create")
    <3> DEFINE u == [copy[p] EXCEPT !.created = clock]
    <3>1. u \in User /\ IdentityOf(u) = IdentityOf(copy[p]) /\ u.username = copy[p].username
      <4>1. clock \in Nat
          BY DEF Inv, TypeOK
      <4> QED
          BY <2>1, <4>1, AlteredUsers
    <3>2. Logins(u) = {copy[p].username, copy[p].email, copy[p].phone} \ {None}
        BY <3>1, IdentityHasLogins DEF Logins
    <3> HIDE DEF u
    <3>3. Claims(p) = {copy[p].username, copy[p].email} \ {None}
        BY <2>1 DEF Claims
    <3>4. \A login \in Logins(u) : login \in Claims(p) \/ ~Taken(login)
        BY <2>3, <3>2, <3>3
    <3>5. u.username \in Claims(p)
        BY <2>1, <3>1, <3>3, UserFields, Parameters DEF Texts
    <3>6. Builds(p, u, "create")
        BY <2>3 DEF u
    <3> QED
        BY <2>1, <3>1, <3>4, <3>5, <3>6, BuildKeepsLogins
  <2> QED
      BY <1>4, <2>2, <2>3 DEF RegisterPhone
<1>5. ASSUME NEW i \in Ids, Create(p, i) PROVE LoginsKept'
  <2>1. PICK u \in Dated(p) : Insert(i, u)
      BY <1>5 DEF Create
  <2>2. pc[p] = "create" /\ EndRequest(p)
      BY <1>5 DEF Create
  <2>3. u \in User /\ Logins(u) = Claims(p)
    <3>1. copy[p] \in User
        BY <2>2 DEF Inv, Ready, Building
    <3> QED
        BY <2>2, <3>1, DatedLogins DEF Claims
  <2>4. Turn(p) /\ Claims(p)' = {} /\ Restores(p)' = {}
      BY <2>2, GoesOrEnds, NoClaims
  <2> QED
      BY <2>1, <2>3, <2>4, InsertKeepsLogins
<1> QED
    BY <1>1, <1>2, <1>3, <1>4, <1>5 DEF Registration

\* The account part of an SMS login.
LEMMA SmsLoginKeepsLogins ==
    ASSUME Inv, LoginsKept, ContestsNoted, NEW p \in Procs, SmsLogin(p)
    PROVE  LoginsKept'
<1>1. PICK ph \in Phones : \/ SmsUnknown(p, ph)
                           \/ \E i \in Ids : SmsUnverified(p, ph, i) \/ SmsVerified(p, ph, i)
    BY DEF SmsLogin
<1>2. CASE SmsUnknown(p, ph)
  <2> DEFINE u == FromSms(ph)
  <2>1. u \in User /\ u.username = ph /\ Logins(u) \ {u.username} = {}
    <3>1. clock \in Nat
        BY DEF Inv, TypeOK
    <3> QED
        BY <3>1, BuiltUsers DEF FromSms, NewUser, Logins
  <2>2. pc[p] = "idle" /\ Builds(p, u, "create") /\ users' = users
      BY <1>2 DEF SmsUnknown, Proves, Called
  <2> HIDE DEF u
  <2> QED
      BY <2>1, <2>2, BuildKeepsLogins
<1>3. ASSUME NEW i \in Ids, SmsUnverified(p, ph, i) PROVE LoginsKept'
  <2> DEFINE u == [users[i] EXCEPT !.verified = TRUE]
  <2>1. i \in Existing /\ users' = users /\ Holds(p, i, u, "write")
      BY <1>3 DEF SmsUnverified, First, IsFirst, ByPhone, Proves
  <2>2. u \in User /\ IdentityOf(u) = IdentityOf(users[i])
      BY <2>1, StoredUsers, AlteredUsers
  <2> HIDE DEF u
  <2> QED
      BY <2>1, <2>2, HoldKeepsLogins DEF Writing
<1>4. ASSUME NEW i \in Ids, SmsVerified(p, ph, i) PROVE LoginsKept'
    BY <1>4, StutterKeepsLogins DEF SmsVerified, Proves, ContestsNoted
<1> QED
    BY <1>1, <1>2, <1>3, <1>4

\* The change of the password, the update of the profile, and the saves.
LEMMA OwnAccountKeepsLogins ==
    ASSUME Inv, LoginsKept, ContestsNoted, NEW p \in Procs, OwnAccount(p)
    PROVE  LoginsKept'
<1>1. ASSUME NEW i \in Ids, NEW before \in Passwords, NEW after \in Passwords,
             ChangePassword(p, i, before, after)
      PROVE  LoginsKept'
  <2> DEFINE u == Rehashed(users[i], after)
  <2>1. i \in Existing /\ users' = users /\ Holds(p, i, u, "write")
      BY <1>1 DEF ChangePassword, OnlyReads
  <2>2. u \in User /\ IdentityOf(u) = IdentityOf(users[i])
      BY <2>1, StoredUsers, AlteredUsers
  <2> HIDE DEF u
  <2> QED
      BY <2>1, <2>2, HoldKeepsLogins DEF Writing
<1>2. ASSUME NEW i \in Ids, NEW nickname \in Nicks, UpdateUserInfo(p, i, nickname)
      PROVE  LoginsKept'
  <2> DEFINE u == [users[i] EXCEPT !.nickname = nickname]
  <2>1. i \in Existing /\ users' = users /\ Holds(p, i, u, "profileWrite")
      BY <1>2 DEF UpdateUserInfo, OnlyReads
  <2>2. u \in User /\ IdentityOf(u) = IdentityOf(users[i])
      BY <2>1, StoredUsers, AlteredUsers
  <2> HIDE DEF u
  <2> QED
      BY <2>1, <2>2, HoldKeepsLogins DEF Writing
<1>3. CASE WriteBack(p) \/ ProfileWrite(p)
  <2>1. pc[p] \in Writing /\ WritesBack(p, pc[p])
      BY <1>3 DEF WriteBack, ProfileWrite, WritesBack, Writing
  <2> QED
      BY <2>1, WriteKeepsLogins
<1>4. CASE \E i \in Ids : UserGone(p, i)
    BY <1>4, StutterKeepsLogins DEF UserGone, vars, ContestsNoted
<1> QED
    BY <1>1, <1>2, <1>3, <1>4 DEF OwnAccount

\* /admin/users: authorize, find, write.
LEMMA AdministrationKeepsLogins ==
    ASSUME Inv, LoginsKept, ContestsNoted, NEW p \in Procs, Administration(p)
    PROVE  LoginsKept'
<1>1. ASSUME NEW i \in Ids, NEW op, NEW s \in {"deleteFind", "roleFind"},
             Authorize(p, i, op, s)
      PROVE  LoginsKept'
  <2>1. Turn(p) /\ pc'[p] = s /\ users' = users
      BY <1>1 DEF Authorize, OnlyReads, Turn, Inv, TypeOK
  <2> QED
      BY <2>1, IdleKeepsLogins DEF Writing
<1>2. CASE \E i \in Ids : Forbidden(p, i)
    BY <1>2, StutterKeepsLogins DEF Forbidden, vars, ContestsNoted
<1>3. ASSUME NEW login \in Texts, NEW i \in Ids, DeleteFind(p, login, i) PROVE LoginsKept'
  <2>1. Turn(p) /\ pc'[p] = "delete" /\ users' = users
      BY <1>3 DEF DeleteFind, OnlyReads, Turn, Inv, TypeOK
  <2> QED
      BY <2>1, IdleKeepsLogins DEF Writing
<1>4. ASSUME NEW login \in Texts, NEW role \in roles \cup {None}, NEW i \in Ids,
             RoleFind(p, login, role, i)
      PROVE  LoginsKept'
  <2> DEFINE u == [users[i] EXCEPT !.role = role]
  <2>1. i \in Existing /\ users' = users /\ Holds(p, i, u, "roleWrite")
      BY <1>4 DEF RoleFind, First, IsFirst, ByLogin, OnlyReads
  <2>2. role \in Role \cup {None}
      BY DEF Inv, TypeOK, Role
  <2>3. u \in User /\ IdentityOf(u) = IdentityOf(users[i])
      BY <2>1, <2>2, StoredUsers, AlteredUsers
  <2> HIDE DEF u
  <2> QED
      BY <2>1, <2>3, HoldKeepsLogins DEF Writing
<1>5. CASE RoleWrite(p)
  <2>1. pc[p] \in Writing /\ WritesBack(p, pc[p])
      BY <1>5 DEF RoleWrite, WritesBack, Writing
  <2> QED
      BY <2>1, WriteKeepsLogins
<1> QED
    BY <1>1, <1>2, <1>3, <1>4, <1>5, DeleteKeepsLogins DEF Administration

\* An instance starts: the role, the search, the insert or the write.
LEMMA StartingKeepsLogins ==
    ASSUME Inv, LoginsKept, ContestsNoted, NEW p \in Procs, Starting(p)
    PROVE  LoginsKept'
<1>1. CASE \/ Start(p) \/ SeedRoleThere(p) \/ SeedRoleMissing(p) \/ SeedRoleUnread(p)
           \/ SeedRole(p) \/ SeedRoleConflict(p) \/ SeedFindDone(p)
  <2>1. users' = users
      BY <1>1 DEF Start, SeedRoleThere, SeedRoleMissing, SeedRoleUnread, SeedRole,
         SeedRoleConflict, SeedFindDone, OnlyReads
  <2>2. EndRequest(p) \/ \E s \in {"seedRoleFind", "seedRole", "seedFind"} : Goes(p, s)
      BY <1>1 DEF Start, SeedRoleThere, SeedRoleMissing, SeedRoleUnread, SeedRole,
         SeedRoleConflict, SeedFindDone
  <2> QED
      BY <2>1, <2>2, GoesOrEnds, IdleKeepsLogins
<1>2. ASSUME NEW i \in Ids, SeedFindBare(p, i) PROVE LoginsKept'
  <2> DEFINE u == [users[i] EXCEPT !.role = AdminRole]
  <2>1. i \in Existing /\ users' = users /\ Holds(p, i, u, "seedWrite")
      BY <1>2 DEF SeedFindBare, First, IsFirst, ByUsername, OnlyReads
  <2>2. AdminRole \in Role \cup {None}
      BY DEF Role
  <2>3. u \in User /\ IdentityOf(u) = IdentityOf(users[i])
      BY <2>1, <2>2, StoredUsers, AlteredUsers
  <2> HIDE DEF u
  <2> QED
      BY <2>1, <2>3, HoldKeepsLogins DEF Writing
<1>3. ASSUME NEW password \in Passwords, SeedFindNone(p, password) PROVE LoginsKept'
  <2> DEFINE u == Administrator(Hashed(password))
  <2>1. pc[p] = "seedFind" /\ Builds(p, u, "seedCreate") /\ users' = users
      BY <1>3 DEF SeedFindNone, OnlyReads
  <2>2. clock \in Nat /\ Hashed(password) \in Hash
      BY DEF Inv, TypeOK, Hashed, Hash
  <2>3. u \in User
      BY <2>2, BuiltUsers
  <2>4. Logins(u) \ {u.username} = {}
      BY DEF Administrator, NewUser, Logins
  <2> HIDE DEF u
  <2> QED
      BY <2>1, <2>3, <2>4, BuildKeepsLogins
<1>4. ASSUME NEW i \in Ids, SeedCreate(p, i) PROVE LoginsKept'
  <2>1. PICK u \in Dated(p) : Insert(i, u) /\ Holds(p, i, u, "seedWrite")
      BY <1>4 DEF SeedCreate
  <2>2. pc[p] = "seedCreate"
      BY <1>4 DEF SeedCreate
  <2>3. u \in User /\ Logins(u) = Claims(p)
    <3>1. copy[p] \in User
        BY <2>2 DEF Inv, Ready
    <3> QED
        BY <2>2, <3>1, DatedLogins DEF Claims
  <2>4. Turn(p) /\ pc'[p] = "seedWrite" /\ who'[p] = i /\ copy'[p] = u
      BY <2>1 DEF Holds, Turn, Inv, TypeOK
  <2>5. Claims(p)' = {} /\ Restores(p)' = Logins(u)
      BY <2>4 DEF Claims, Restores, Logins
  <2> QED
      BY <2>1, <2>3, <2>4, <2>5, InsertKeepsLogins
<1>5. CASE SeedWrite(p)
  <2>1. pc[p] \in Writing /\ WritesBack(p, pc[p])
      BY <1>5 DEF SeedWrite, WritesBack, Writing
  <2> QED
      BY <2>1, WriteKeepsLogins
<1> QED
    BY <1>1, <1>2, <1>3, <1>4, <1>5 DEF Starting

\* Nothing is claimed at the start, and at most one account exists.
LEMMA InitKeepsLogins == ContestInit => LoginsKept
<1> SUFFICES ASSUME Init, NEW login \in Texts PROVE Kept(login)
    BY DEF ContestInit, LoginsKept
<1>1. pc = [p \in Procs |-> "idle"]
    BY DEF Init, Idle
<1>2. \A p \in Procs : Claims(p) = {} /\ Restores(p) = {}
    BY <1>1 DEF Claims, Restores
<1>3. \A i, j \in Existing : i = j
  <2>1. CASE users = Empty
      BY <2>1 DEF Existing, Rows, Empty
  <2>2. ASSUME NEW i \in Ids, NEW hash, users = Created(Empty, i, Administrator(hash))
        PROVE  \A j \in Existing : j = i
      BY <2>2 DEF Created, Empty, Existing, Rows
  <2> QED
      BY <2>1, <2>2 DEF Init
<1> QED
    BY <1>2, <1>3 DEF Kept, Contest, ByLogin

\* Every step keeps what is true of uncontested logins.
LEMMA NextKeepsLogins == Inv /\ LoginsKept /\ [ContestNext]_contestVars => LoginsKept'
<1> SUFFICES ASSUME Inv, LoginsKept, [ContestNext]_contestVars PROVE LoginsKept'
    OBVIOUS
<1>1. CASE UNCHANGED contestVars
    BY <1>1, StutterKeepsLogins DEF contestVars, vars
<1>2. CASE ContestNext
  <2>1. Next /\ ContestsNoted
      BY <1>2 DEF ContestNext
  <2>2. ASSUME NEW p \in Procs, Abandon(p) PROVE LoginsKept'
      BY <2>1, <2>2, GoesOrEnds, IdleKeepsLogins DEF Abandon, OnlyReads
  <2>3. CASE Tick
      BY <2>1, <2>3, StutterKeepsLogins DEF Tick, ContestsNoted
  <2> QED
      BY <2>1, <2>2, <2>3, RegistrationKeepsLogins, SmsLoginKeepsLogins,
         OwnAccountKeepsLogins, AdministrationKeepsLogins, StartingKeepsLogins DEF Next
<1> QED
    BY <1>1, <1>2

-------------------------------------------------------------------------------

\* However many requests register, sign in, administer or seed at a time, stop
\* anywhere and write stale or deleted users back, a login that two accounts share
\* was contested: two requests were about to write it, or an account was named
\* after it without asking.
THEOREM SharedLoginsWereContested == ContestSpec => []OnlyContestedLoginsAreShared
<1>1. ContestInit => Inv /\ LoginsKept
    BY InitInv, InitKeepsLogins DEF ContestInit
<1>2. Inv /\ LoginsKept /\ [ContestNext]_contestVars => (Inv /\ LoginsKept)'
  <2>1. [ContestNext]_contestVars => [Next]_vars
      BY DEF ContestNext, contestVars
  <2> QED
      BY <2>1, NextKeepsInv, NextKeepsLogins
<1>3. Inv /\ LoginsKept => OnlyContestedLoginsAreShared
    BY DEF LoginsKept, Kept, OnlyContestedLoginsAreShared
<1> QED
    BY <1>1, <1>2, <1>3, PTL DEF ContestSpec
===============================================================================
