------------------------------- MODULE Accounts -------------------------------
(***************************************************************************)
(* The users and roles of the provider and every operation that writes      *)
(* them: registration and the account part of an SMS login (api/oauth.go),  *)
(* changing the password (api/password_change.go) and the profile           *)
(* (api/profile.go), the administration of users (api/admin.go), and the    *)
(* start of an instance with its seeding of the administrator               *)
(* (cmd/server/main.go, EnsureAdmin in api/handler.go).                     *)
(*                                                                          *)
(* The table has a primary key and no other constraint (model/user.go).     *)
(* Each operation reads whole users, decides, changes its copy and writes   *)
(* the whole copy back (Saved in Collections: an insert when the row is     *)
(* gone).  Every read and every write is one database statement; nothing    *)
(* ties them together, so those of different requests interleave, and a     *)
(* request may stop after any of them.                                      *)
(***************************************************************************)
EXTENDS Collections

CONSTANTS
    Names,          \* usernames that may be registered; any text of 3 to 64
                    \* characters, a phone number for instance
    Emails, Phones, Passwords, Nicks,
    OtherRoles,     \* roles put into the table by hand, without admin permission
    AdminName, AdminRole,
    AdminToken,     \* stands for a caller with the shared X-Admin-Token
    Procs,          \* request slots
    Ops,            \* the operations that are called: among "register", "sms",
                    \* "password", "profile", "role", "delete", "token", "seed"
    FirstStart,     \* does the model begin with empty tables, before any instance
                    \* has started?  Otherwise one has already seeded them
    Schemes,        \* how the hash of the seeded administrator may be encoded
    MaxClock        \* bound of the model: the last second that is explored

ASSUME Parameters ==
    /\ None \notin Names \cup Emails \cup Phones \cup Passwords \cup Nicks
                     \cup OtherRoles \cup {AdminName, AdminRole, AdminToken}
    /\ FirstStart \in BOOLEAN
    /\ FirstStart => Ops = {"seed"}
    /\ Schemes \subseteq {"argon2id", "bcrypt"}
    /\ MaxClock \in Nat

VARIABLES
    clock,      \* seconds: created_at has no finer resolution
    users,      \* the users table: a record or None for every ID
    roles,      \* the roles table: IDs only, permissions never change
    pc,         \* the next statement of each request
    who,        \* the ID of the user a request works on
    copy,       \* the copy of the user that it will write
    actor,      \* the administrator that an admin request acts for
    \* what an observer knows and the program does not keep:
    born,       \* the logins each account was created with
    proved,     \* phone numbers somebody proved to hold by an SMS code
    granted     \* pairs of an account and a role that was given to it

observed == <<born, proved, granted>>
vars == <<clock, users, roles, pc, who, copy, actor, observed>>

Texts == Names \cup Emails \cup Phones \cup {AdminName}

\* A PHC string; the salt is left out, since hashes are never compared with
\* each other.
Hash == [scheme : {"argon2id", "bcrypt"}, of : Passwords]

User == [username : Texts, email : Emails \cup {None}, phone : Phones \cup {None},
         hash : Hash \cup {None}, verified : BOOLEAN, nickname : Nicks \cup {None},
         role : OtherRoles \cup {AdminRole, None}, created : Nat]

Identity == [username : Texts, email : Emails \cup {None}, phone : Phones \cup {None}]

ASSUME NoneIsNoUser == None \notin User \cup Hash \cup Identity

Hashed(password) == [scheme |-> "argon2id", of |-> password]

\* verifyPassword: the empty text and other schemes never match.
Verified(password, hash) == hash = Hashed(password)

Existing == Rows(users)

Logins(u) == {u.username, u.email, u.phone} \ {None}

\* Mutant of ByLogin: only usernames are compared.
ByLoginUsernameOnly(login) == {i \in Existing : users[i].username = login}

\* Mutant of ByPhone: the number is searched for in every field.
ByPhoneOrName(ph) == {i \in Existing : ph \in Logins(users[i])}

\* the users that findUserByLogin, findUserByPhone and findUserByUsername
\* stop at the first of
ByLogin(login) == {i \in Existing : login \in Logins(users[i])}
ByPhone(ph) == {i \in Existing : users[i].phone = ph}
ByUsername(name) == {i \in Existing : users[i].username = name}

First(i, S) == IsFirst(users, i, S)

\* Mutant of Taken: a login is compared with usernames only.
TakenAsName(login) == ByUsername(login) # {}

Taken(login) == ByLogin(login) # {}

IdentityOf(u) == [username |-> u.username, email |-> u.email, phone |-> u.phone]

HasAdminPermission(u) == u.role = AdminRole /\ AdminRole \in roles

\* password grant: the user that a login and a password name.
SignsIn(login, password, i) ==
    First(i, ByLogin(login)) /\ Verified(password, users[i].hash)

NewUser(name, email, ph, hash, verified, role) ==
    [username |-> name, email |-> email, phone |-> ph, hash |-> hash,
     verified |-> verified, nickname |-> None, role |-> role, created |-> clock]

\* Mutant of Registered: a phone number that is given counts as verified.
RegisteredVerified(name, email, ph, password) ==
    NewUser(name, email, ph, Hashed(password), ph # None, None)

Registered(name, email, ph, password) ==
    NewUser(name, email, ph, Hashed(password), FALSE, None)

FromSms(ph) == NewUser(ph, None, ph, None, TRUE, None)

Administrator(hash) == NewUser(AdminName, None, None, hash, FALSE, AdminRole)

Idle ==
    /\ pc = [p \in Procs |-> "idle"]
    /\ who = [p \in Procs |-> None]
    /\ copy = [p \in Procs |-> None]
    /\ actor = [p \in Procs |-> None]

Empty == [i \in Ids |-> None]

\* The first instance starts on empty tables, or has already seeded them: main
\* serves requests after EnsureAdmin only.
Init ==
    /\ clock = 0
    /\ Idle
    /\ proved = {}
    /\ \/ /\ FirstStart
          /\ users = Empty /\ born = Empty
          /\ roles = OtherRoles
          /\ granted = {}
       \/ /\ ~FirstStart
          /\ \E i \in Ids, hash \in [scheme : Schemes, of : Passwords] :
               /\ users = Created(Empty, i, Administrator(hash))
               /\ born = Created(Empty, i, IdentityOf(Administrator(hash)))
               /\ granted = {<<i, AdminRole>>}
          /\ roles = OtherRoles \cup {AdminRole}

-------------------------------------------------------------------------------
(* Steps that operations share. *)

Called(p, op) == op \in Ops /\ pc[p] = "idle"

OnlyReads == UNCHANGED <<clock, users, roles, observed>>

Goes(p, next) ==
    /\ pc' = [pc EXCEPT ![p] = next]
    /\ UNCHANGED <<who, copy, actor>>

\* The request has built a user that it will insert.
Builds(p, u, next) ==
    /\ copy' = [copy EXCEPT ![p] = u]
    /\ pc' = [pc EXCEPT ![p] = next]
    /\ UNCHANGED <<who, actor>>

\* The request has read user i and will write it back as u.
Holds(p, i, u, next) ==
    /\ who' = [who EXCEPT ![p] = i]
    /\ copy' = [copy EXCEPT ![p] = u]
    /\ pc' = [pc EXCEPT ![p] = next]
    /\ UNCHANGED actor

EndRequest(p) ==
    /\ pc' = [pc EXCEPT ![p] = "idle"]
    /\ who' = [who EXCEPT ![p] = None]
    /\ copy' = [copy EXCEPT ![p] = None]
    /\ actor' = [actor EXCEPT ![p] = None]

\* The user that the request has built after its last check, and dated by then
\* or later.
Dated(p) == {[copy[p] EXCEPT !.created = t] : t \in copy[p].created .. clock}

\* A row under a new UUID.
Insert(i, u) ==
    /\ born[i] = None
    /\ users' = Created(users, i, u)
    /\ born' = [born EXCEPT ![i] = IdentityOf(u)]

\* The user is written back and the request is over.
WritesBack(p, from) ==
    /\ pc[p] = from
    /\ users' = Saved(users, who[p], copy[p])
    /\ EndRequest(p)
    /\ UNCHANGED <<clock, roles, born, proved>>

-------------------------------------------------------------------------------
(* POST /oauth/register: three checks, then the insert. *)

RegisterName(p, name, email, ph, password) ==
    /\ Called(p, "register")
    /\ ~Taken(name)
    /\ Builds(p, Registered(name, email, ph, password), "registerEmail")
    /\ OnlyReads

\* 409
RegisterRefused(p, name) ==
    /\ Called(p, "register")
    /\ Taken(name)
    /\ UNCHANGED vars

RegisterEmail(p) ==
    /\ pc[p] = "registerEmail"
    /\ IF Taken(copy[p].email) THEN EndRequest(p) ELSE Goes(p, "registerPhone")
    /\ OnlyReads

RegisterPhone(p) ==
    /\ pc[p] = "registerPhone"
    /\ IF Taken(copy[p].phone) THEN EndRequest(p)
       ELSE Builds(p, [copy[p] EXCEPT !.created = clock], "create")
    /\ OnlyReads

\* The insert of a registration or of a first SMS login.
Create(p, i) ==
    /\ pc[p] = "create"
    /\ \E u \in Dated(p) : Insert(i, u)
    /\ EndRequest(p)
    /\ UNCHANGED <<clock, roles, proved, granted>>

-------------------------------------------------------------------------------
(* POST /oauth/token, grant sms_code: the code has been accepted. *)

Proves(p, ph) ==
    /\ Called(p, "sms")
    /\ proved' = proved \cup {ph}
    /\ UNCHANGED <<clock, users, roles, born, granted>>

\* Unknown number: an account named after it is created.
SmsUnknown(p, ph) ==
    /\ ByPhone(ph) = {}
    /\ Proves(p, ph)
    /\ Builds(p, FromSms(ph), "create")

\* Known number, not verified yet: it is verified now.
SmsUnverified(p, ph, i) ==
    /\ First(i, ByPhone(ph)) /\ ~users[i].verified
    /\ Proves(p, ph)
    /\ Holds(p, i, [users[i] EXCEPT !.verified = TRUE], "write")

\* Known and verified: nothing to write.
SmsVerified(p, ph, i) ==
    /\ First(i, ByPhone(ph)) /\ users[i].verified
    /\ Proves(p, ph)
    /\ UNCHANGED <<pc, who, copy, actor>>

\* The save of an SMS login and of a password change.
WriteBack(p) == WritesBack(p, "write") /\ UNCHANGED granted

-------------------------------------------------------------------------------
(* POST /oauth/password/change and POST /userinfo, for the user of the JWT. *)

\* Mutant of Rehashed: the nickname is lost.
RehashedBare(u, new) == [u EXCEPT !.hash = Hashed(new), !.nickname = None]

Rehashed(u, new) == [u EXCEPT !.hash = Hashed(new)]

ChangePassword(p, i, before, after) ==
    /\ Called(p, "password")
    /\ i \in Existing
    /\ Verified(before, users[i].hash)
    /\ Holds(p, i, Rehashed(users[i], after), "write")
    /\ OnlyReads

UpdateUserInfo(p, i, nickname) ==
    /\ Called(p, "profile")
    /\ i \in Existing
    /\ Holds(p, i, [users[i] EXCEPT !.nickname = nickname], "profileWrite")
    /\ OnlyReads

ProfileWrite(p) == WritesBack(p, "profileWrite") /\ UNCHANGED granted

\* 401: the user of the JWT is gone.
UserGone(p, i) ==
    /\ Called(p, "password") \/ Called(p, "profile")
    /\ born[i] # None /\ ~Has(users, i)
    /\ UNCHANGED vars

-------------------------------------------------------------------------------
(* /admin/users/{login}: authorize, find, write.  An instance serves requests *)
(* only after its own seeding, and roles are never removed, so the admin role *)
(* is there and the lookups of roles are not statements of their own.         *)

\* By the JWT of an administrator, or with the shared token.
Authorize(p, i, op, next) ==
    /\ Called(p, op)
    /\ \/ /\ i \in Existing
          /\ HasAdminPermission(users[i])
          /\ actor' = [actor EXCEPT ![p] = users[i].username]
          /\ who' = [who EXCEPT ![p] = i]
       \/ /\ "token" \in Ops
          /\ actor' = [actor EXCEPT ![p] = AdminToken]
          /\ who' = who
    /\ pc' = [pc EXCEPT ![p] = next]
    /\ OnlyReads /\ UNCHANGED copy

\* 403
Forbidden(p, i) ==
    /\ Called(p, "role") \/ Called(p, "delete")
    /\ ~(i \in Existing /\ HasAdminPermission(users[i]))
    /\ UNCHANGED vars

DeleteFind(p, login, i) ==
    /\ pc[p] = "deleteFind"
    /\ First(i, ByLogin(login))
    /\ who' = [who EXCEPT ![p] = i]
    /\ pc' = [pc EXCEPT ![p] = "delete"]
    /\ OnlyReads /\ UNCHANGED <<copy, actor>>

Delete(p) ==
    /\ pc[p] = "delete"
    /\ users' = Deleted(users, who[p])
    /\ EndRequest(p)
    /\ UNCHANGED <<clock, roles, observed>>

\* The login of the target must not be the username of the actor; the role is
\* none, or one that exists.
RoleFind(p, login, role, i) ==
    /\ pc[p] = "roleFind"
    /\ login # actor[p]
    /\ First(i, ByLogin(login))
    /\ Holds(p, i, [users[i] EXCEPT !.role = role], "roleWrite")
    /\ OnlyReads

RoleWrite(p) ==
    /\ WritesBack(p, "roleWrite")
    /\ granted' = IF copy[p].role = None THEN granted
                  ELSE granted \cup {<<who[p], copy[p].role>>}

-------------------------------------------------------------------------------
(* main: an instance starts.  An error ends the process (os.Exit), and the    *)
(* instance manager starts another one.                                       *)

\* The database, the token table, the SMS sender and the JWT key are there; as
\* long as one of them is not, starting changes nothing.
Start(p) ==
    /\ Called(p, "seed")
    /\ Goes(p, "seedRoleFind")
    /\ OnlyReads

SeedRoleThere(p) ==
    /\ pc[p] = "seedRoleFind"
    /\ AdminRole \in roles
    /\ Goes(p, "seedFind")
    /\ OnlyReads

\* Mutant of SeedRoleMissing: the role is never created.
SeedRoleMissingSkips(p) ==
    /\ pc[p] = "seedRoleFind"
    /\ AdminRole \notin roles
    /\ Goes(p, "seedFind")
    /\ OnlyReads

SeedRoleMissing(p) ==
    /\ pc[p] = "seedRoleFind"
    /\ AdminRole \notin roles
    /\ Goes(p, "seedRole")
    /\ OnlyReads

\* The role is there and the lookup fails: any error counts as not found.
SeedRoleUnread(p) ==
    /\ pc[p] = "seedRoleFind"
    /\ AdminRole \in roles
    /\ Goes(p, "seedRole")
    /\ OnlyReads

\* Mutant of WithAdminRole: the insert is lost.
WithoutAdminRole == roles

WithAdminRole == roles \cup {AdminRole}

SeedRole(p) ==
    /\ pc[p] = "seedRole"
    /\ AdminRole \notin roles
    /\ roles' = WithAdminRole
    /\ Goes(p, "seedFind")
    /\ UNCHANGED <<clock, users, observed>>

\* The primary key is taken: EnsureAdmin fails and the process exits.
SeedRoleConflict(p) ==
    /\ pc[p] = "seedRole"
    /\ AdminRole \in roles
    /\ EndRequest(p)
    /\ OnlyReads

\* A user "admin" without a role is given the admin role.
SeedFindBare(p, i) ==
    /\ pc[p] = "seedFind"
    /\ First(i, ByUsername(AdminName))
    /\ users[i].role = None
    /\ Holds(p, i, [users[i] EXCEPT !.role = AdminRole], "seedWrite")
    /\ OnlyReads

SeedFindDone(p) ==
    /\ pc[p] = "seedFind"
    /\ \E i \in Ids : First(i, ByUsername(AdminName)) /\ users[i].role # None
    /\ EndRequest(p)
    /\ OnlyReads

SeedFindNone(p, password) ==
    /\ pc[p] = "seedFind"
    /\ ByUsername(AdminName) = {}
    /\ Builds(p, Administrator(Hashed(password)), "seedCreate")
    /\ OnlyReads

\* The new user is inserted and then written once more, as it was built, under
\* the ID the insert returned.
SeedCreate(p, i) ==
    /\ pc[p] = "seedCreate"
    /\ \E u \in Dated(p) : Insert(i, u) /\ Holds(p, i, u, "seedWrite")
    /\ granted' = granted \cup {<<i, AdminRole>>}
    /\ UNCHANGED <<clock, roles, proved>>

SeedWrite(p) ==
    /\ WritesBack(p, "seedWrite")
    /\ granted' = granted \cup {<<who[p], AdminRole>>}

-------------------------------------------------------------------------------

\* A failed statement, nothing found, a bad request, or a stopped instance.
Abandon(p) ==
    /\ pc[p] # "idle"
    /\ EndRequest(p)
    /\ OnlyReads

Tick ==
    /\ clock < MaxClock
    /\ clock' = clock + 1
    /\ UNCHANGED <<users, roles, pc, who, copy, actor, observed>>

Registration(p) ==
    \/ \E name \in Names, email \in Emails \cup {None}, ph \in Phones \cup {None},
          password \in Passwords : RegisterName(p, name, email, ph, password)
    \/ \E name \in Names : RegisterRefused(p, name)
    \/ RegisterEmail(p) \/ RegisterPhone(p)
    \/ \E i \in Ids : Create(p, i)

SmsLogin(p) ==
    \E ph \in Phones :
        \/ SmsUnknown(p, ph)
        \/ \E i \in Ids : SmsUnverified(p, ph, i) \/ SmsVerified(p, ph, i)

OwnAccount(p) ==
    \/ \E i \in Ids, before, after \in Passwords : ChangePassword(p, i, before, after)
    \/ WriteBack(p)
    \/ \E i \in Ids, nickname \in Nicks : UpdateUserInfo(p, i, nickname)
    \/ ProfileWrite(p)
    \/ \E i \in Ids : UserGone(p, i)

Administration(p) ==
    \/ \E i \in Ids : \/ Authorize(p, i, "delete", "deleteFind")
                      \/ Authorize(p, i, "role", "roleFind")
                      \/ Forbidden(p, i)
    \/ \E login \in Texts, i \in Ids : DeleteFind(p, login, i)
    \/ Delete(p)
    \/ \E login \in Texts, role \in roles \cup {None}, i \in Ids :
          RoleFind(p, login, role, i)
    \/ RoleWrite(p)

Starting(p) ==
    \/ Start(p)
    \/ SeedRoleThere(p) \/ SeedRoleMissing(p) \/ SeedRoleUnread(p)
    \/ SeedRole(p) \/ SeedRoleConflict(p)
    \/ \E i \in Ids : SeedFindBare(p, i)
    \/ SeedFindDone(p)
    \/ \E password \in Passwords : SeedFindNone(p, password)
    \/ \E i \in Ids : SeedCreate(p, i)
    \/ SeedWrite(p)

Next ==
    \/ \E p \in Procs : \/ Registration(p) \/ SmsLogin(p) \/ OwnAccount(p)
                        \/ Administration(p) \/ Starting(p) \/ Abandon(p)
    \/ Tick

Spec == Init /\ [][Next]_vars

-------------------------------------------------------------------------------
(* Properties. *)

\* Every variable has its type.
TypeOK ==
    /\ clock \in Nat
    /\ users \in [Ids -> User \cup {None}]
    /\ roles \in SUBSET (OtherRoles \cup {AdminRole})
    /\ pc \in [Procs -> {"idle", "registerEmail", "registerPhone", "create", "write",
                         "profileWrite", "deleteFind", "delete", "roleFind", "roleWrite",
                         "seedRoleFind", "seedRole", "seedFind", "seedCreate", "seedWrite"}]
    /\ who \in [Procs -> Ids \cup {None}]
    /\ copy \in [Procs -> User \cup {None}]
    /\ actor \in [Procs -> Texts \cup {AdminToken, None}]
    /\ born \in [Ids -> Identity \cup {None}]
    /\ proved \in SUBSET Phones
    /\ granted \in SUBSET (Ids \X (OtherRoles \cup {AdminRole}))

\* Requests write whole rows back from copies that may be stale, and may even
\* put a deleted account back: an account is nevertheless never anything but
\* itself.  Its logins are those it was created with, a role it has was given
\* to it, and a verified number was proved.  An older role or nickname of its own
\* may come back, another account's never.
AccountsStayThemselves ==
    \A i \in Existing :
        /\ IdentityOf(users[i]) = born[i]
        /\ users[i].role # None => <<i, users[i].role>> \in granted
        /\ users[i].verified => users[i].phone \in proved

\* Usernames, e-mail addresses and phone numbers are one space of logins, and
\* no login belongs to two accounts (provider.md, oauth.go:206).
LoginsAreUnique ==
    \A i, j \in Existing :
        i # j => Logins(users[i]) \cap Logins(users[j]) = {}

\* Any login of an account that has a password of the current scheme signs in to
\* that account with that password, and to no other account with any password.
OwnLoginWorks ==
    \A i \in Existing, login \in Texts :
        login \in Logins(users[i]) =>
            \A j \in Ids, password \in Passwords :
                SignsIn(login, password, j) <=> j = i /\ users[i].hash = Hashed(password)

\* What profile.go:3 says: an update of the profile changes the nickname only.
ProfileChangesNicknameOnly ==
    [][\A p \in Procs, i \in Existing :
          pc[p] = "profileWrite" /\ pc'[p] = "idle" /\ users'[i] # None
            => \E k \in Nicks \cup {None} : users'[i] = [users[i] EXCEPT !.nickname = k]]_vars

\* One request at a time, the row-by-row reads and writes of all operations, cut
\* off anywhere, come to what the atomic operations of Directory do.
AsDirectory == INSTANCE Directory WITH accounts <- users

ImplementsDirectory == AsDirectory!Spec

\* An instance that gets past EnsureAdmin finds an "admin" with a role and the
\* admin role in the table, whatever earlier attempts were cut off where.
SeedLeavesAdmin ==
    [][\A p \in Procs :
          \/ pc[p] = "seedWrite" /\ SeedWrite(p)
          \/ pc[p] = "seedFind" /\ pc'[p] = "idle" /\ SeedFindDone(p)
          => /\ AdminRole \in roles'
             /\ \E i \in ByUsername(AdminName)' : users'[i].role # None]_vars

\* An instance that exits or is stopped is replaced, and one that runs takes its
\* next statement.
SeedFairness ==
    \A p \in Procs :
        /\ WF_vars(Start(p))
        /\ WF_vars(SeedRoleThere(p) \/ SeedRoleMissing(p))
        /\ WF_vars(SeedRole(p) \/ SeedRoleConflict(p))
        /\ WF_vars(SeedFindDone(p) \/ (\E i \in Ids : SeedFindBare(p, i))
                     \/ (\E password \in Passwords : SeedFindNone(p, password)))
        /\ WF_vars(SeedWrite(p) \/ (\E i \in Ids : SeedCreate(p, i)))

SeedingSpec == Spec /\ SeedFairness

HasAdmin == \E i \in Existing : HasAdminPermission(users[i])

\* A statement of a starting instance fails, or the instance is stopped.  Stopping
\* where nothing is left to do looks like having finished.
Fails(p) ==
    \/ SeedRoleUnread(p)
    \/ Abandon(p) /\ ~SeedFindDone(p) /\ ~SeedWrite(p) /\ ~SeedRoleConflict(p)

\* If at some time no more starts are cut off or misled by a failed lookup, an
\* administrator exists from some time on, however many instances were started
\* together and whatever they had done before they failed.
AdminIsSeeded == <>[][\A p \in Procs : ~Fails(p)]_vars => <>[]HasAdmin
===============================================================================
