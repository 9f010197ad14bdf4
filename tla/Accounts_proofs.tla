---------------------------- MODULE Accounts_proofs ----------------------------
(***************************************************************************)
(* Theorems about Accounts, for any number of users, logins, roles and      *)
(* requests in flight, and any operations that are called.                  *)
(***************************************************************************)
EXTENDS Accounts, TLAPS

-------------------------------------------------------------------------------
(* The inductive invariant. *)

Role == OtherRoles \cup {AdminRole}

\* the statements at which a request has built a user that it will insert, or
\* holds the copy of one that it will write back
Building == {"registerEmail", "registerPhone", "create"}
Writing == {"write", "profileWrite", "roleWrite", "seedWrite"}

\* u may be what account i is, its role apart, whether it is stored or not.
IsItself(i, u) ==
    /\ u \in User
    /\ IdentityOf(u) = born[i]
    /\ u.verified => u.phone \in proved

HasItsRole(i, u) == u.role # None => <<i, u.role>> \in granted

\* What a request has found out by its statement s about user i and its copy u of
\* that user, and what stays true of them whatever other requests do.
Ready(s, i, u) ==
    /\ s \in Building => /\ u \in User /\ u.role = None
                         /\ u.verified => u.phone \in proved
    /\ s = "seedCreate" => u \in User /\ ~u.verified
    /\ s \in {"seedCreate", "seedWrite"} => u.role = AdminRole /\ u.username = AdminName
    /\ s \in {"seedFind", "seedCreate", "seedWrite"} => AdminRole \in roles
    /\ s \in Writing => i \in Ids /\ IsItself(i, u)
    /\ s \in {"write", "profileWrite"} => HasItsRole(i, u)
    /\ s = "delete" => i \in Ids

Inv ==
    /\ TypeOK
    /\ AccountsStayThemselves
    /\ \A p \in Procs : Ready(pc[p], who[p], copy[p])

-------------------------------------------------------------------------------
(* Users and their histories. *)

Steps == {"idle", "registerEmail", "registerPhone", "create", "write",
          "profileWrite", "deleteFind", "delete", "roleFind", "roleWrite",
          "seedRoleFind", "seedRole", "seedFind", "seedCreate", "seedWrite"}

RequestsOK ==
    /\ pc \in [Procs -> Steps]
    /\ who \in [Procs -> Ids \cup {None}]
    /\ copy \in [Procs -> User \cup {None}]
    /\ actor \in [Procs -> Texts \cup {AdminToken, None}]

\* The fields of a user have their types.
LEMMA UserFields ==
    ASSUME NEW u \in User
    PROVE  /\ u.username \in Texts /\ u.email \in Emails \cup {None}
           /\ u.phone \in Phones \cup {None} /\ u.hash \in Hash \cup {None}
           /\ u.verified \in BOOLEAN /\ u.nickname \in Nicks \cup {None}
           /\ u.role \in Role \cup {None} /\ u.created \in Nat
           /\ u # None
           /\ IdentityOf(u) \in Identity /\ IdentityOf(u) # None
BY NoneIsNoUser DEF User, Role, IdentityOf, Identity

\* The users that operations build.
LEMMA BuiltUsers ==
    ASSUME clock \in Nat
    PROVE  /\ \A name \in Names, email \in Emails \cup {None}, ph \in Phones \cup {None},
                 password \in Passwords :
                LET u == Registered(name, email, ph, password)
                IN  u \in User /\ u.role = None /\ ~u.verified
           /\ \A ph \in Phones :
                LET u == FromSms(ph)
                IN  u \in User /\ u.role = None /\ u.phone = ph
           /\ \A hash \in Hash :
                LET u == Administrator(hash)
                IN  /\ u \in User /\ u.role = AdminRole /\ u.username = AdminName
                    /\ ~u.verified
BY DEF Registered, FromSms, Administrator, NewUser, User, Texts, Hashed, Hash

\* Setting one attribute of a user leaves its identity and the others alone.
LEMMA AlteredUsers ==
    ASSUME NEW u \in User
    PROVE  /\ \A t \in Nat : LET n == [u EXCEPT !.created = t]
                             IN  /\ n \in User /\ IdentityOf(n) = IdentityOf(u)
                                 /\ n.role = u.role /\ n.verified = u.verified
                                 /\ n.phone = u.phone /\ n.username = u.username
           /\ LET n == [u EXCEPT !.verified = TRUE]
              IN  n \in User /\ IdentityOf(n) = IdentityOf(u) /\ n.role = u.role
                  /\ n.phone = u.phone
           /\ \A password \in Passwords :
                LET n == Rehashed(u, password)
                IN  /\ n \in User /\ IdentityOf(n) = IdentityOf(u) /\ n.role = u.role
                    /\ n.verified = u.verified /\ n.phone = u.phone
           /\ \A nickname \in Nicks :
                LET n == [u EXCEPT !.nickname = nickname]
                IN  /\ n \in User /\ IdentityOf(n) = IdentityOf(u) /\ n.role = u.role
                    /\ n.verified = u.verified /\ n.phone = u.phone
           /\ \A role \in Role \cup {None} :
                LET n == [u EXCEPT !.role = role]
                IN  /\ n \in User /\ IdentityOf(n) = IdentityOf(u) /\ n.role = role
                    /\ n.verified = u.verified /\ n.phone = u.phone
                    /\ n.username = u.username
BY DEF User, Role, IdentityOf, Rehashed, Hashed, Hash

\* A stored user is itself.
LEMMA StoredUsers ==
    ASSUME Inv, NEW i \in Existing
    PROVE  /\ i \in Ids /\ users[i] \in User /\ users[i] # None /\ born[i] # None
           /\ IsItself(i, users[i]) /\ HasItsRole(i, users[i])
<1>1. i \in Ids /\ users[i] \in User /\ users[i] # None
    BY DEF Existing, Rows, Inv, TypeOK
<1>2. IsItself(i, users[i]) /\ HasItsRole(i, users[i])
    BY <1>1 DEF Inv, AccountsStayThemselves, IsItself, HasItsRole
<1> QED
    BY <1>1, <1>2, UserFields DEF IsItself

-------------------------------------------------------------------------------
(* The invariant holds at the start and every action keeps it. *)

\* The empty tables, or those with the seeded administrator.
LEMMA InitInv == Init => Inv
<1> SUFFICES ASSUME Init PROVE Inv
    OBVIOUS
<1>1. /\ clock = 0 /\ pc = [p \in Procs |-> "idle"] /\ who = [p \in Procs |-> None]
      /\ copy = [p \in Procs |-> None] /\ actor = [p \in Procs |-> None] /\ proved = {}
    BY DEF Init, Idle
<1>2. \A p \in Procs : Ready(pc[p], who[p], copy[p])
    BY <1>1 DEF Ready, Building, Writing
<1>3. CASE users = Empty /\ born = Empty /\ roles = OtherRoles /\ granted = {}
  <2>1. TypeOK
      BY <1>1, <1>3 DEF TypeOK, Empty
  <2>2. AccountsStayThemselves
      BY <1>3 DEF AccountsStayThemselves, Existing, Rows, Empty
  <2> QED
      BY <1>2, <2>1, <2>2 DEF Inv
<1>4. ASSUME NEW i \in Ids, NEW hash \in [scheme : Schemes, of : Passwords],
             users = Created(Empty, i, Administrator(hash)),
             born = Created(Empty, i, IdentityOf(Administrator(hash))),
             granted = {<<i, AdminRole>>}, roles = OtherRoles \cup {AdminRole}
      PROVE  Inv
  <2>1. hash \in Hash
      BY Parameters DEF Hash
  <2>2. /\ Administrator(hash) \in User
        /\ Administrator(hash).role = AdminRole /\ ~Administrator(hash).verified
    <3>1. clock \in Nat
        BY <1>1
    <3> QED
        BY <2>1, <3>1, BuiltUsers
  <2>3. IdentityOf(Administrator(hash)) \in Identity
      BY <2>2, UserFields
  <2>4. /\ users = [j \in Ids |-> IF j = i THEN Administrator(hash) ELSE None]
        /\ born = [j \in Ids |-> IF j = i THEN IdentityOf(Administrator(hash)) ELSE None]
      BY <1>4 DEF Created, Empty
  <2>5. TypeOK
      BY <1>1, <1>4, <2>2, <2>3, <2>4 DEF TypeOK
  <2>6. AccountsStayThemselves
      BY <1>4, <2>2, <2>4 DEF AccountsStayThemselves, Existing, Rows
  <2> QED
      BY <1>2, <2>5, <2>6 DEF Inv
<1> QED
    BY <1>3, <1>4 DEF Init

\* Accounts keep their identity, and what was given, proved or seeded stays so.
Grows ==
    /\ \A i \in Ids : born[i] # None => born'[i] = born[i]
    /\ granted \subseteq granted'
    /\ proved \subseteq proved'
    /\ roles \subseteq roles'

\* p takes a step; the other requests are where they were.
Turn(p) ==
    \A q \in Procs \ {p} : pc'[q] = pc[q] /\ who'[q] = who[q] /\ copy'[q] = copy[q]

\* What other requests found out stays true while p takes its step.
LEMMA OthersStayReady ==
    ASSUME Inv, Grows, NEW p \in Procs, Turn(p), Ready(pc[p], who[p], copy[p])'
    PROVE  (\A q \in Procs : Ready(pc[q], who[q], copy[q]))'
<1> SUFFICES ASSUME NEW q \in Procs PROVE Ready(pc[q], who[q], copy[q])'
    OBVIOUS
<1>1. CASE q = p
    BY <1>1
<1>2. CASE q # p
  <2>1. pc'[q] = pc[q] /\ who'[q] = who[q] /\ copy'[q] = copy[q]
      BY <1>2 DEF Turn
  <2>2. Ready(pc[q], who[q], copy[q])
      BY DEF Inv
  <2>3. copy[q] \in User => IdentityOf(copy[q]) # None
      BY UserFields
  <2> QED
      BY <2>1, <2>2, <2>3 DEF Grows, Ready, IsItself, HasItsRole, IdentityOf
<1> QED
    BY <1>1, <1>2

\* The steps that write no user.
LEMMA ReadKeepsInv ==
    ASSUME Inv, NEW p \in Procs, Turn(p), RequestsOK', Ready(pc[p], who[p], copy[p])',
           UNCHANGED <<clock, users, born, granted>>,
           roles \subseteq roles', roles' \subseteq Role,
           proved \subseteq proved', proved' \subseteq Phones
    PROVE  Inv'
<1>1. TypeOK'
    BY DEF Inv, TypeOK, RequestsOK, Steps, Role
<1>2. AccountsStayThemselves'
    BY DEF Inv, AccountsStayThemselves, Existing
<1>3. Grows
    BY DEF Grows
<1> QED
    BY <1>1, <1>2, <1>3, OthersStayReady DEF Inv

\* The end of a request, which forgets all it knew.
LEMMA EndForgets ==
    ASSUME Inv, NEW p \in Procs, EndRequest(p)
    PROVE  Turn(p) /\ RequestsOK' /\ Ready(pc[p], who[p], copy[p])'
BY DEF Inv, TypeOK, EndRequest, Turn, RequestsOK, Steps, Ready, Building, Writing

\* The write of a whole user that may have been read long ago: the row is
\* itself, be it that the account was deleted in between.
LEMMA WriteKeepsInv ==
    ASSUME Inv, NEW p \in Procs, pc[p] \in Writing, WritesBack(p, pc[p]),
           granted \subseteq granted', granted' \subseteq Ids \X Role,
           copy[p].role # None => <<who[p], copy[p].role>> \in granted'
    PROVE  Inv'
<1>1. /\ users' = [users EXCEPT ![who[p]] = copy[p]]
      /\ EndRequest(p) /\ UNCHANGED <<clock, roles, born, proved>>
    BY DEF WritesBack, Saved
<1>2. /\ who[p] \in Ids /\ copy[p] \in User /\ copy[p] # None
      /\ IdentityOf(copy[p]) = born[who[p]]
      /\ copy[p].verified => copy[p].phone \in proved
    BY UserFields DEF Inv, Ready, IsItself
<1>3. TypeOK'
    BY <1>1, <1>2, EndForgets DEF Inv, TypeOK, RequestsOK, Steps, Role
<1>4. AccountsStayThemselves'
  <2> SUFFICES ASSUME NEW i \in Existing'
               PROVE  /\ IdentityOf(users'[i]) = born'[i]
                      /\ users'[i].role # None => <<i, users'[i].role>> \in granted'
                      /\ users'[i].verified => users'[i].phone \in proved'
      BY DEF AccountsStayThemselves, IdentityOf
  <2>1. CASE i = who[p]
      BY <1>1, <1>2, <2>1 DEF Inv, TypeOK
  <2>2. CASE i # who[p]
    <3>1. i \in Existing /\ users'[i] = users[i]
        BY <1>1, <2>2 DEF Existing, Rows, Inv, TypeOK
    <3> QED
        BY <1>1, <3>1 DEF Inv, AccountsStayThemselves
  <2> QED
      BY <2>1, <2>2
<1>5. Grows
    BY <1>1 DEF Grows
<1> QED
    BY <1>1, <1>3, <1>4, <1>5, EndForgets, OthersStayReady DEF Inv

\* The insert of a user under an ID that never was one.
LEMMA InsertKeepsInv ==
    ASSUME Inv, NEW p \in Procs, NEW i \in Ids, NEW u \in User, Insert(i, u),
           UNCHANGED <<clock, roles, proved>>,
           granted \subseteq granted', granted' \subseteq Ids \X Role,
           u.role # None => <<i, u.role>> \in granted',
           u.verified => u.phone \in proved,
           Turn(p), RequestsOK', Ready(pc[p], who[p], copy[p])'
    PROVE  Inv'
<1>1. /\ born[i] = None /\ users[i] = None
      /\ born' = [born EXCEPT ![i] = IdentityOf(u)]
      /\ users' = [users EXCEPT ![i] = u]
  <2>1. born[i] = None /\ born' = [born EXCEPT ![i] = IdentityOf(u)]
      BY DEF Insert
  <2>2. users[i] = None
      BY <2>1, StoredUsers DEF Existing, Rows
  <2> QED
      BY <2>1, <2>2 DEF Insert, Created, Inv, TypeOK
<1>2. IdentityOf(u) \in Identity /\ u # None
    BY UserFields
<1>3. TypeOK'
    BY <1>1, <1>2 DEF Inv, TypeOK, RequestsOK, Steps, Role
<1>4. AccountsStayThemselves'
  <2> SUFFICES ASSUME NEW j \in Existing'
               PROVE  /\ IdentityOf(users'[j]) = born'[j]
                      /\ users'[j].role # None => <<j, users'[j].role>> \in granted'
                      /\ users'[j].verified => users'[j].phone \in proved'
      BY DEF AccountsStayThemselves, IdentityOf
  <2>1. CASE j = i
      BY <1>1, <2>1 DEF Inv, TypeOK
  <2>2. CASE j # i
    <3>1. j \in Existing /\ users'[j] = users[j] /\ born'[j] = born[j]
        BY <1>1, <2>2 DEF Existing, Rows, Inv, TypeOK
    <3> QED
        BY <3>1 DEF Inv, AccountsStayThemselves
  <2> QED
      BY <2>1, <2>2
<1>5. Grows
    BY <1>1 DEF Grows, Inv, TypeOK
<1> QED
    BY <1>3, <1>4, <1>5, OthersStayReady DEF Inv

\* A user dated anew is otherwise the one that was built.
LEMMA DatedUsers ==
    ASSUME Inv, NEW p \in Procs, copy[p] \in User, NEW u \in Dated(p)
    PROVE  /\ u \in User /\ IdentityOf(u) = IdentityOf(copy[p])
           /\ u.role = copy[p].role /\ u.verified = copy[p].verified
           /\ u.phone = copy[p].phone /\ u.username = copy[p].username
<1>1. PICK t \in copy[p].created .. clock : u = [copy[p] EXCEPT !.created = t]
    BY DEF Dated
<1>2. t \in Nat
    BY UserFields DEF Inv, TypeOK
<1> QED
    BY <1>1, <1>2, AlteredUsers

\* Nothing happens.
LEMMA StutterKeepsInv == Inv /\ UNCHANGED vars => Inv'
BY DEF vars, observed, Inv, TypeOK, AccountsStayThemselves, Existing, Ready, IsItself,
       HasItsRole

\* A request ends without a write.
LEMMA EndsKeepInv ==
    ASSUME Inv, NEW p \in Procs, EndRequest(p), OnlyReads
    PROVE  Inv'
BY EndForgets, ReadKeepsInv DEF OnlyReads, observed, Inv, TypeOK, Role

\* A request goes on to a statement it is ready for.
LEMMA GoesKeepsInv ==
    ASSUME Inv, NEW p \in Procs, NEW s \in Steps, Goes(p, s), OnlyReads,
           Ready(s, who[p], copy[p])
    PROVE  Inv'
<1>1. /\ pc' = [pc EXCEPT ![p] = s]
      /\ UNCHANGED <<who, copy, actor, clock, users, roles, born, proved, granted>>
    BY DEF Goes, OnlyReads, observed
<1>2. Turn(p) /\ RequestsOK'
    BY <1>1 DEF Inv, TypeOK, Turn, RequestsOK, Steps
<1>3. Ready(pc[p], who[p], copy[p])'
    BY <1>1 DEF Inv, TypeOK, Ready, IsItself, HasItsRole
<1> QED
    BY <1>1, <1>2, <1>3, ReadKeepsInv DEF Inv, TypeOK, Role

\* A request has read a user and holds the copy that it will write back.
LEMMA HoldsKeepsInv ==
    ASSUME Inv, NEW p \in Procs, NEW i \in Ids, NEW u \in User, NEW s \in Writing,
           Holds(p, i, u, s),
           UNCHANGED <<clock, users, roles, born, granted>>,
           proved \subseteq proved', proved' \subseteq Phones,
           IdentityOf(u) = born[i],
           u.verified => u.phone \in proved',
           s \in {"write", "profileWrite"} => HasItsRole(i, u),
           s = "seedWrite" => /\ u.role = AdminRole /\ u.username = AdminName
                              /\ AdminRole \in roles
    PROVE  Inv'
<1>1. /\ who' = [who EXCEPT ![p] = i] /\ copy' = [copy EXCEPT ![p] = u]
      /\ pc' = [pc EXCEPT ![p] = s] /\ UNCHANGED actor
    BY DEF Holds
<1>2. Turn(p) /\ RequestsOK'
    BY <1>1 DEF Inv, TypeOK, Turn, RequestsOK, Steps, Writing
<1>3. Ready(s, i, u)'
    BY <1>1 DEF Ready, Building, Writing, IsItself, HasItsRole, IdentityOf
<1>4. Ready(pc[p], who[p], copy[p])'
    BY <1>1, <1>3 DEF Inv, TypeOK, Ready, IsItself, HasItsRole
<1> QED
    BY <1>2, <1>4, ReadKeepsInv DEF Inv, TypeOK, Role

\* A request has built a user that it will insert.
LEMMA BuildsKeepsInv ==
    ASSUME Inv, NEW p \in Procs, NEW u \in User, NEW s \in {"registerEmail", "create",
           "seedCreate"}, Builds(p, u, s),
           UNCHANGED <<clock, users, roles, born, granted>>,
           proved \subseteq proved', proved' \subseteq Phones,
           s # "seedCreate" => u.role = None /\ (u.verified => u.phone \in proved'),
           s = "seedCreate" => /\ u.role = AdminRole /\ u.username = AdminName
                               /\ ~u.verified /\ AdminRole \in roles
    PROVE  Inv'
<1>1. /\ copy' = [copy EXCEPT ![p] = u] /\ pc' = [pc EXCEPT ![p] = s]
      /\ UNCHANGED <<who, actor>>
    BY DEF Builds
<1>2. Turn(p) /\ RequestsOK'
    BY <1>1 DEF Inv, TypeOK, Turn, RequestsOK, Steps
<1>3. pc'[p] = s /\ copy'[p] = u
    BY <1>1 DEF Inv, TypeOK
<1>4. Ready(pc[p], who[p], copy[p])'
    BY <1>3 DEF Ready, Building, Writing
<1> QED
    BY <1>2, <1>4, ReadKeepsInv DEF Inv, TypeOK, Role

-------------------------------------------------------------------------------
(* The operations. *)

\* POST /oauth/register, up to its insert.
LEMMA RegistrationKeepsInv ==
    ASSUME Inv, NEW p \in Procs, Registration(p)
    PROVE  Inv'
<1>1. ASSUME NEW name \in Names, NEW email \in Emails \cup {None},
             NEW ph \in Phones \cup {None}, NEW password \in Passwords,
             RegisterName(p, name, email, ph, password)
      PROVE  Inv'
  <2> DEFINE u == Registered(name, email, ph, password)
  <2>1. u \in User /\ u.role = None /\ ~u.verified
    <3>1. clock \in Nat
        BY DEF Inv, TypeOK
    <3> QED
        BY <3>1, BuiltUsers
  <2>2. /\ Builds(p, u, "registerEmail")
        /\ UNCHANGED <<clock, users, roles, born, proved, granted>>
      BY <1>1 DEF RegisterName, OnlyReads, observed
  <2> HIDE DEF u
  <2> QED
      BY <2>1, <2>2, BuildsKeepsInv DEF Inv, TypeOK
<1>2. CASE \E name \in Names : RegisterRefused(p, name)
  <2>1. UNCHANGED vars
      BY <1>2 DEF RegisterRefused
  <2> QED
      BY <2>1, StutterKeepsInv
<1>3. CASE RegisterEmail(p)
  <2>1. /\ pc[p] = "registerEmail" /\ OnlyReads
        /\ EndRequest(p) \/ Goes(p, "registerPhone")
      BY <1>3 DEF RegisterEmail
  <2>2. CASE EndRequest(p)
      BY <2>1, <2>2, EndsKeepInv
  <2>3. CASE Goes(p, "registerPhone")
      BY <2>1, <2>3, GoesKeepsInv DEF Ready, Building, Writing, Steps, Inv
  <2> QED
      BY <2>1, <2>2, <2>3
<1>4. CASE RegisterPhone(p)
  <2>1. /\ pc[p] = "registerPhone" /\ OnlyReads
        /\ EndRequest(p) \/ Builds(p, [copy[p] EXCEPT !.created = clock], "create")
      BY <1>4 DEF RegisterPhone
  <2>2. CASE EndRequest(p)
      BY <2>1, <2>2, EndsKeepInv
  <2>3. CASE Builds(p, [copy[p] EXCEPT !.created = clock], "create")
    <3> DEFINE u == [copy[p] EXCEPT !.created = clock]
    <3>1. /\ copy[p] \in User /\ copy[p].role = None
          /\ copy[p].verified => copy[p].phone \in proved
        BY <2>1 DEF Inv, Ready, Building
    <3>2. u \in User /\ u.role = None /\ (u.verified => u.phone \in proved)
      <4>1. clock \in Nat
          BY DEF Inv, TypeOK
      <4> QED
          BY <3>1, <4>1, AlteredUsers
    <3>3. /\ Builds(p, u, "create")
          /\ UNCHANGED <<clock, users, roles, born, proved, granted>>
        BY <2>1, <2>3 DEF OnlyReads, observed
    <3> HIDE DEF u
    <3> QED
        BY <3>2, <3>3, BuildsKeepsInv DEF Inv, TypeOK
  <2> QED
      BY <2>1, <2>2, <2>3
<1>5. ASSUME NEW i \in Ids, Create(p, i) PROVE Inv'
  <2>1. /\ pc[p] = "create" /\ EndRequest(p) /\ UNCHANGED <<clock, roles, proved, granted>>
      BY <1>5 DEF Create
  <2>2. PICK u \in Dated(p) : Insert(i, u)
      BY <1>5 DEF Create
  <2>3. /\ copy[p] \in User /\ copy[p].role = None
        /\ copy[p].verified => copy[p].phone \in proved
      BY <2>1 DEF Inv, Ready, Building
  <2>4. u \in User /\ u.role = None /\ (u.verified => u.phone \in proved)
      BY <2>3, DatedUsers
  <2> QED
      BY <2>1, <2>2, <2>4, EndForgets, InsertKeepsInv DEF Inv, TypeOK, Role
<1> QED
    BY <1>1, <1>2, <1>3, <1>4, <1>5 DEF Registration

\* The account part of an SMS login: the number is proved now.
LEMMA SmsLoginKeepsInv ==
    ASSUME Inv, NEW p \in Procs, SmsLogin(p)
    PROVE  Inv'
<1> PICK ph \in Phones : \/ SmsUnknown(p, ph)
                         \/ \E i \in Ids : SmsUnverified(p, ph, i) \/ SmsVerified(p, ph, i)
    BY DEF SmsLogin
<1>1. ASSUME Proves(p, ph)
      PROVE  /\ proved' = proved \cup {ph} /\ proved' \subseteq Phones
             /\ UNCHANGED <<clock, users, roles, born, granted>>
    BY <1>1 DEF Proves, Inv, TypeOK
<1>2. CASE SmsUnknown(p, ph)
  <2>1. FromSms(ph) \in User /\ FromSms(ph).role = None /\ FromSms(ph).phone = ph
    <3>1. clock \in Nat
        BY DEF Inv, TypeOK
    <3> QED
        BY <3>1, BuiltUsers
  <2>2. Builds(p, FromSms(ph), "create") /\ Proves(p, ph)
      BY <1>2 DEF SmsUnknown
  <2> QED
      BY <1>1, <2>1, <2>2, BuildsKeepsInv
<1>3. ASSUME NEW i \in Ids, SmsUnverified(p, ph, i) PROVE Inv'
  <2> DEFINE u == [users[i] EXCEPT !.verified = TRUE]
  <2>1. i \in Existing /\ users[i].phone = ph
      BY <1>3 DEF SmsUnverified, First, IsFirst, ByPhone
  <2>2. /\ users[i] \in User /\ IdentityOf(users[i]) = born[i]
        /\ HasItsRole(i, users[i])
      BY <2>1, StoredUsers DEF IsItself
  <2>3. /\ u \in User /\ IdentityOf(u) = IdentityOf(users[i]) /\ u.role = users[i].role
        /\ u.phone = ph
      BY <2>1, <2>2, AlteredUsers
  <2>4. Holds(p, i, u, "write") /\ Proves(p, ph)
      BY <1>3 DEF SmsUnverified
  <2> HIDE DEF u
  <2>5. HasItsRole(i, u)
      BY <2>2, <2>3 DEF HasItsRole
  <2> QED
      BY <1>1, <2>2, <2>3, <2>4, <2>5, HoldsKeepsInv DEF Writing
<1>4. ASSUME NEW i \in Ids, SmsVerified(p, ph, i) PROVE Inv'
  <2>1. Proves(p, ph) /\ UNCHANGED <<pc, who, copy, actor>>
      BY <1>4 DEF SmsVerified
  <2>2. Turn(p) /\ RequestsOK'
      BY <2>1 DEF Inv, TypeOK, Turn, RequestsOK, Steps
  <2>3. pc[p] = "idle"
      BY <2>1 DEF Proves, Called
  <2>4. Ready(pc[p], who[p], copy[p])'
      BY <2>1, <2>3 DEF Ready, Building, Writing
  <2> QED
      BY <1>1, <2>1, <2>2, <2>4, ReadKeepsInv DEF Inv, TypeOK, Role
<1> QED
    BY <1>2, <1>3, <1>4

\* The change of the password, the update of the profile, and the saves of these
\* and of an SMS login.
LEMMA OwnAccountKeepsInv ==
    ASSUME Inv, NEW p \in Procs, OwnAccount(p)
    PROVE  Inv'
<1>1. ASSUME NEW i \in Existing, NEW u \in User, IdentityOf(u) = IdentityOf(users[i]),
             u.role = users[i].role, u.verified = users[i].verified,
             u.phone = users[i].phone,
             NEW s \in {"write", "profileWrite"}, Holds(p, i, u, s), OnlyReads
      PROVE  Inv'
  <2>1. /\ i \in Ids /\ IdentityOf(u) = born[i] /\ HasItsRole(i, u)
        /\ u.verified => u.phone \in proved
      BY <1>1, StoredUsers DEF IsItself, HasItsRole
  <2>2. UNCHANGED <<clock, users, roles, born, proved, granted>>
      BY <1>1 DEF OnlyReads, observed
  <2> QED
      BY <1>1, <2>1, <2>2, HoldsKeepsInv DEF Writing, Inv, TypeOK
<1>2. ASSUME NEW i \in Ids, NEW before \in Passwords, NEW after \in Passwords,
             ChangePassword(p, i, before, after)
      PROVE  Inv'
  <2>1. /\ i \in Existing /\ OnlyReads
        /\ Holds(p, i, Rehashed(users[i], after), "write")
      BY <1>2 DEF ChangePassword
  <2>2. users[i] \in User
      BY <2>1, StoredUsers
  <2> QED
      BY <1>1, <2>1, <2>2, AlteredUsers
<1>3. ASSUME NEW i \in Ids, NEW nickname \in Nicks, UpdateUserInfo(p, i, nickname)
      PROVE  Inv'
  <2> DEFINE u == [users[i] EXCEPT !.nickname = nickname]
  <2>1. i \in Existing /\ OnlyReads /\ Holds(p, i, u, "profileWrite")
      BY <1>3 DEF UpdateUserInfo
  <2>2. users[i] \in User
      BY <2>1, StoredUsers
  <2>3. /\ u \in User /\ IdentityOf(u) = IdentityOf(users[i]) /\ u.role = users[i].role
        /\ u.verified = users[i].verified /\ u.phone = users[i].phone
      BY <2>2, AlteredUsers
  <2> HIDE DEF u
  <2> QED
      BY <1>1, <2>1, <2>3
<1>4. CASE WriteBack(p) \/ ProfileWrite(p)
  <2>1. /\ pc[p] \in {"write", "profileWrite"} /\ WritesBack(p, pc[p]) /\ UNCHANGED granted
      BY <1>4 DEF WriteBack, ProfileWrite, WritesBack
  <2>2. HasItsRole(who[p], copy[p])
      BY <2>1 DEF Inv, Ready
  <2> QED
      BY <2>1, <2>2, WriteKeepsInv DEF Writing, HasItsRole, Inv, TypeOK, Role
<1>5. CASE \E i \in Ids : UserGone(p, i)
  <2>1. UNCHANGED vars
      BY <1>5 DEF UserGone
  <2> QED
      BY <2>1, StutterKeepsInv
<1> QED
    BY <1>2, <1>3, <1>4, <1>5 DEF OwnAccount

\* /admin/users: authorize, find, write.
LEMMA AdministrationKeepsInv ==
    ASSUME Inv, NEW p \in Procs, Administration(p)
    PROVE  Inv'
<1>1. ASSUME NEW i \in Ids, NEW op, NEW s \in {"deleteFind", "roleFind"},
             Authorize(p, i, op, s)
      PROVE  Inv'
  <2>1. /\ pc' = [pc EXCEPT ![p] = s] /\ UNCHANGED <<copy, clock, users, roles>>
        /\ UNCHANGED <<born, proved, granted>>
      BY <1>1 DEF Authorize, OnlyReads, observed
  <2>2. \/ /\ i \in Existing /\ actor' = [actor EXCEPT ![p] = users[i].username]
           /\ who' = [who EXCEPT ![p] = i]
        \/ actor' = [actor EXCEPT ![p] = AdminToken] /\ who' = who
      BY <1>1 DEF Authorize
  <2>3. i \in Existing => users[i].username \in Texts
      BY StoredUsers, UserFields
  <2>4. Turn(p) /\ RequestsOK'
      BY <2>1, <2>2, <2>3 DEF Inv, TypeOK, Turn, RequestsOK, Steps
  <2>5. pc'[p] = s
      BY <2>1 DEF Inv, TypeOK
  <2>6. Ready(pc[p], who[p], copy[p])'
      BY <2>5 DEF Ready, Building, Writing
  <2> QED
      BY <2>1, <2>4, <2>6, ReadKeepsInv DEF Inv, TypeOK, Role
<1>2. CASE \E i \in Ids : Forbidden(p, i)
  <2>1. UNCHANGED vars
      BY <1>2 DEF Forbidden
  <2> QED
      BY <2>1, StutterKeepsInv
<1>3. ASSUME NEW login \in Texts, NEW i \in Ids, DeleteFind(p, login, i) PROVE Inv'
  <2>1. /\ pc' = [pc EXCEPT ![p] = "delete"] /\ who' = [who EXCEPT ![p] = i]
        /\ UNCHANGED <<copy, actor, clock, users, roles, born, proved, granted>>
      BY <1>3 DEF DeleteFind, OnlyReads, observed
  <2>2. Turn(p) /\ RequestsOK'
      BY <2>1 DEF Inv, TypeOK, Turn, RequestsOK, Steps
  <2>3. pc'[p] = "delete" /\ who'[p] = i
      BY <2>1 DEF Inv, TypeOK
  <2>4. Ready(pc[p], who[p], copy[p])'
      BY <2>3 DEF Ready, Building, Writing
  <2> QED
      BY <2>1, <2>2, <2>4, ReadKeepsInv DEF Inv, TypeOK, Role
<1>4. CASE Delete(p)
  <2>1. /\ users' = [users EXCEPT ![who[p]] = None] /\ EndRequest(p)
        /\ UNCHANGED <<clock, roles, born, proved, granted>>
      BY <1>4 DEF Delete, Deleted, observed
  <2>2. TypeOK'
      BY <2>1, EndForgets DEF Inv, TypeOK, RequestsOK, Steps
  <2>3. \A i \in Existing' : i \in Existing /\ users'[i] = users[i]
      BY <2>1 DEF Existing, Rows, Inv, TypeOK
  <2>4. AccountsStayThemselves'
      BY <2>1, <2>3 DEF Inv, AccountsStayThemselves, IdentityOf
  <2>5. Grows
      BY <2>1 DEF Grows
  <2> QED
      BY <2>1, <2>2, <2>4, <2>5, EndForgets, OthersStayReady DEF Inv
<1>5. ASSUME NEW login \in Texts, NEW role \in roles \cup {None}, NEW i \in Ids,
             RoleFind(p, login, role, i)
      PROVE  Inv'
  <2> DEFINE u == [users[i] EXCEPT !.role = role]
  <2>1. i \in Existing /\ Holds(p, i, u, "roleWrite")
        /\ UNCHANGED <<clock, users, roles, born, proved, granted>>
      BY <1>5 DEF RoleFind, First, IsFirst, ByLogin, OnlyReads, observed
  <2>2. /\ users[i] \in User /\ IdentityOf(users[i]) = born[i]
        /\ users[i].verified => users[i].phone \in proved
      BY <2>1, StoredUsers DEF IsItself
  <2>3. role \in Role \cup {None}
      BY DEF Inv, TypeOK, Role
  <2>4. /\ u \in User /\ IdentityOf(u) = IdentityOf(users[i])
        /\ u.verified = users[i].verified /\ u.phone = users[i].phone
      BY <2>2, <2>3, AlteredUsers
  <2> HIDE DEF u
  <2> QED
      BY <2>1, <2>2, <2>4, HoldsKeepsInv DEF Writing, Inv, TypeOK
<1>6. CASE RoleWrite(p)
  <2>1. /\ pc[p] = "roleWrite" /\ WritesBack(p, pc[p])
        /\ granted' = IF copy[p].role = None THEN granted
                      ELSE granted \cup {<<who[p], copy[p].role>>}
      BY <1>6 DEF RoleWrite, WritesBack
  <2>2. who[p] \in Ids /\ copy[p].role \in Role \cup {None}
      BY <2>1, UserFields DEF Inv, Ready, Writing, IsItself
  <2>3. granted' \subseteq Ids \X Role
      BY <2>1, <2>2 DEF Inv, TypeOK, Role
  <2> QED
      BY <2>1, <2>3, WriteKeepsInv DEF Writing
<1> QED
    BY <1>1, <1>2, <1>3, <1>4, <1>5, <1>6 DEF Administration

\* An instance starts: the role, the search, the insert or the write.
LEMMA StartingKeepsInv ==
    ASSUME Inv, NEW p \in Procs, Starting(p)
    PROVE  Inv'
<1>1. CASE Start(p) \/ SeedRoleMissing(p) \/ SeedRoleUnread(p)
  <2>1. OnlyReads /\ \E s \in {"seedRoleFind", "seedRole"} : Goes(p, s)
      BY <1>1 DEF Start, SeedRoleMissing, SeedRoleUnread
  <2> QED
      BY <2>1, GoesKeepsInv DEF Ready, Building, Writing, Steps
<1>2. CASE SeedRoleThere(p)
  <2>1. OnlyReads /\ Goes(p, "seedFind") /\ AdminRole \in roles
      BY <1>2 DEF SeedRoleThere
  <2> QED
      BY <2>1, GoesKeepsInv DEF Ready, Building, Writing, Steps
<1>3. CASE SeedRole(p)
  <2>1. /\ roles' = roles \cup {AdminRole} /\ pc' = [pc EXCEPT ![p] = "seedFind"]
        /\ UNCHANGED <<who, copy, actor, clock, users, born, proved, granted>>
      BY <1>3 DEF SeedRole, WithAdminRole, Goes, observed
  <2>2. Turn(p) /\ RequestsOK'
      BY <2>1 DEF Inv, TypeOK, Turn, RequestsOK, Steps
  <2>3. pc'[p] = "seedFind" /\ AdminRole \in roles'
      BY <2>1 DEF Inv, TypeOK
  <2>4. Ready(pc[p], who[p], copy[p])'
      BY <2>3 DEF Ready, Building, Writing
  <2> QED
      BY <2>1, <2>2, <2>4, ReadKeepsInv DEF Inv, TypeOK, Role
<1>4. CASE SeedRoleConflict(p) \/ SeedFindDone(p)
    BY <1>4, EndsKeepInv DEF SeedRoleConflict, SeedFindDone
<1>5. ASSUME NEW i \in Ids, SeedFindBare(p, i) PROVE Inv'
  <2> DEFINE u == [users[i] EXCEPT !.role = AdminRole]
  <2>1. /\ i \in Existing /\ users[i].username = AdminName /\ pc[p] = "seedFind"
        /\ Holds(p, i, u, "seedWrite")
        /\ UNCHANGED <<clock, users, roles, born, proved, granted>>
      BY <1>5 DEF SeedFindBare, First, IsFirst, ByUsername, OnlyReads, observed
  <2>2. /\ users[i] \in User /\ IdentityOf(users[i]) = born[i]
        /\ users[i].verified => users[i].phone \in proved
      BY <2>1, StoredUsers DEF IsItself
  <2>3. AdminRole \in Role \cup {None} /\ AdminRole \in roles
      BY <2>1 DEF Role, Inv, Ready
  <2>4. /\ u \in User /\ IdentityOf(u) = IdentityOf(users[i]) /\ u.role = AdminRole
        /\ u.verified = users[i].verified /\ u.phone = users[i].phone
        /\ u.username = AdminName
      BY <2>1, <2>2, <2>3, AlteredUsers
  <2> HIDE DEF u
  <2> QED
      BY <2>1, <2>2, <2>3, <2>4, HoldsKeepsInv DEF Writing, Inv, TypeOK
<1>6. ASSUME NEW password \in Passwords, SeedFindNone(p, password) PROVE Inv'
  <2> DEFINE u == Administrator(Hashed(password))
  <2>1. /\ pc[p] = "seedFind" /\ Builds(p, u, "seedCreate")
        /\ UNCHANGED <<clock, users, roles, born, proved, granted>>
      BY <1>6 DEF SeedFindNone, OnlyReads, observed
  <2>2. clock \in Nat /\ Hashed(password) \in Hash /\ AdminRole \in roles
      BY <2>1 DEF Inv, TypeOK, Hashed, Hash, Ready
  <2>3. u \in User /\ u.role = AdminRole /\ u.username = AdminName /\ ~u.verified
      BY <2>2, BuiltUsers
  <2> HIDE DEF u
  <2> QED
      BY <2>1, <2>2, <2>3, BuildsKeepsInv DEF Inv, TypeOK
<1>7. ASSUME NEW i \in Ids, SeedCreate(p, i) PROVE Inv'
  <2>1. PICK u \in Dated(p) : Insert(i, u) /\ Holds(p, i, u, "seedWrite")
      BY <1>7 DEF SeedCreate
  <2>2. /\ pc[p] = "seedCreate" /\ granted' = granted \cup {<<i, AdminRole>>}
        /\ UNCHANGED <<clock, roles, proved>>
      BY <1>7 DEF SeedCreate
  <2>3. /\ copy[p] \in User /\ ~copy[p].verified /\ copy[p].role = AdminRole
        /\ copy[p].username = AdminName /\ AdminRole \in roles
      BY <2>2 DEF Inv, Ready
  <2>4. u \in User /\ ~u.verified /\ u.role = AdminRole /\ u.username = AdminName
      BY <2>3, DatedUsers
  <2>5. /\ who' = [who EXCEPT ![p] = i] /\ copy' = [copy EXCEPT ![p] = u]
        /\ pc' = [pc EXCEPT ![p] = "seedWrite"] /\ UNCHANGED actor
      BY <2>1 DEF Holds
  <2>6. Turn(p) /\ RequestsOK'
      BY <2>4, <2>5 DEF Inv, TypeOK, Turn, RequestsOK, Steps
  <2>7. pc'[p] = "seedWrite" /\ who'[p] = i /\ copy'[p] = u /\ born'[i] = IdentityOf(u)
      BY <2>1, <2>5 DEF Inv, TypeOK, Insert
  <2>8. Ready(pc[p], who[p], copy[p])'
      BY <2>2, <2>3, <2>4, <2>7 DEF Ready, Building, Writing, IsItself, IdentityOf
  <2>9. granted' \subseteq Ids \X Role
      BY <2>2 DEF Inv, TypeOK, Role
  <2> QED
      BY <2>1, <2>2, <2>4, <2>6, <2>8, <2>9, InsertKeepsInv
<1>8. CASE SeedWrite(p)
  <2>1. /\ pc[p] = "seedWrite" /\ WritesBack(p, pc[p])
        /\ granted' = granted \cup {<<who[p], AdminRole>>}
      BY <1>8 DEF SeedWrite, WritesBack
  <2>2. who[p] \in Ids /\ copy[p].role = AdminRole
      BY <2>1 DEF Inv, Ready, Writing
  <2>3. granted' \subseteq Ids \X Role
      BY <2>1, <2>2 DEF Inv, TypeOK, Role
  <2> QED
      BY <2>1, <2>2, <2>3, WriteKeepsInv DEF Writing
<1> QED
    BY <1>1, <1>2, <1>3, <1>4, <1>5, <1>6, <1>7, <1>8 DEF Starting

\* Every step keeps the invariant.
LEMMA NextKeepsInv == Inv /\ [Next]_vars => Inv'
<1> SUFFICES ASSUME Inv, [Next]_vars PROVE Inv'
    OBVIOUS
<1>1. ASSUME NEW p \in Procs, Abandon(p) PROVE Inv'
    BY <1>1, EndsKeepInv DEF Abandon
<1>2. CASE Tick
  <2>1. /\ clock' = clock + 1 /\ clock \in Nat
        /\ UNCHANGED <<users, roles, pc, who, copy, actor, born, proved, granted>>
      BY <1>2 DEF Tick, observed, Inv, TypeOK
  <2>2. TypeOK' /\ AccountsStayThemselves'
      BY <2>1 DEF Inv, TypeOK, AccountsStayThemselves, Existing, IdentityOf
  <2>3. \A p \in Procs : Ready(pc[p], who[p], copy[p])'
      BY <2>1 DEF Inv, Ready, IsItself, HasItsRole
  <2> QED
      BY <2>2, <2>3 DEF Inv
<1>3. CASE UNCHANGED vars
    BY <1>3, StutterKeepsInv
<1> QED
    BY <1>1, <1>2, <1>3, RegistrationKeepsInv, SmsLoginKeepsInv, OwnAccountKeepsInv,
       AdministrationKeepsInv, StartingKeepsInv DEF Next

-------------------------------------------------------------------------------
(* What the invariant says of the provider. *)

\* The inductive invariant holds in every state that requests can reach.
THEOREM Invariance == Spec => []Inv
BY InitInv, NextKeepsInv, PTL DEF Spec

\* Every variable keeps its type, whatever requests interleave or stop.
THEOREM TypeCorrect == Spec => []TypeOK
<1>1. Inv => TypeOK
    BY DEF Inv
<1> QED
    BY <1>1, Invariance, PTL

\* However many requests write whole users back from stale copies, and whichever
\* of them stop where, an account keeps the logins it was created with, has no
\* role that it was not given, and no verified number that nobody proved.
THEOREM Selfhood == Spec => []AccountsStayThemselves
<1>1. Inv => AccountsStayThemselves
    BY DEF Inv
<1> QED
    BY <1>1, Invariance, PTL

\* An instance that gets past its seeding leaves an administrator and the admin
\* role, whatever other instances and requests do meanwhile.
THEOREM SeedingLeavesAdmin == Spec => SeedLeavesAdmin
<1>1. ASSUME Inv, [Next]_vars, NEW p \in Procs, pc[p] = "seedWrite", SeedWrite(p)
      PROVE  AdminRole \in roles' /\ \E i \in ByUsername(AdminName)' : users'[i].role # None
  <2>1. /\ who[p] \in Ids /\ copy[p] \in User /\ copy[p] # None
        /\ copy[p].role = AdminRole /\ copy[p].username = AdminName /\ AdminRole \in roles
      BY <1>1, UserFields DEF Inv, Ready, Writing, IsItself
  <2>2. users' = [users EXCEPT ![who[p]] = copy[p]] /\ roles' = roles
      BY <1>1 DEF SeedWrite, WritesBack, Saved
  <2>3. users'[who[p]] = copy[p]
      BY <1>1, <2>1, <2>2 DEF Inv, TypeOK
  <2> QED
      BY <2>1, <2>2, <2>3, Parameters DEF ByUsername, Existing, Rows
<1>2. ASSUME Inv, [Next]_vars, NEW p \in Procs, pc[p] = "seedFind", SeedFindDone(p)
      PROVE  AdminRole \in roles' /\ \E i \in ByUsername(AdminName)' : users'[i].role # None
  <2>1. AdminRole \in roles /\ UNCHANGED <<users, roles>>
      BY <1>2 DEF Inv, Ready, SeedFindDone, OnlyReads
  <2>2. \E i \in ByUsername(AdminName) : users[i].role # None
      BY <1>2 DEF SeedFindDone, First, IsFirst
  <2> QED
      BY <2>1, <2>2 DEF ByUsername, Existing
<1>3. ASSUME Inv, [Next]_vars
      PROVE  \A p \in Procs :
               \/ pc[p] = "seedWrite" /\ SeedWrite(p)
               \/ pc[p] = "seedFind" /\ pc'[p] = "idle" /\ SeedFindDone(p)
               => /\ AdminRole \in roles'
                  /\ \E i \in ByUsername(AdminName)' : users'[i].role # None
    BY <1>1, <1>2, <1>3
<1> QED
    BY <1>3, Invariance, PTL DEF Spec, SeedLeavesAdmin
===============================================================================
