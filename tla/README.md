# qtcloud-auth: specifications, model checks and proofs

This directory specifies the authentication provider of qtcloud-auth (`src/provider`, Go)
and its account centre (`src/lite`, Flutter) in TLA+, checks the specifications with TLC on
small instances and proves theorems about every component with TLAPS, for instances of every
size. Paths below are relative to the repository; `token_store.go`, `oauth.go` and so on are
files of `src/provider/internal/{store,api}`, Dart files are below `src/lite/lib`.

    tlc -workers 2 -config MCTokens_concurrent.cfg MCTokens     # one run
    tlapm Tokens_proofs.tla             # one module's proofs; X_proofs for each other X

## 1. Inventory

The provider runs as function instances (Alibaba Cloud FC) that share one SQL database
(manifests/terraform). An instance keeps no state of its own: every handler is a sequence of
single database statements and local computation. There are no transactions, no row locks
and, apart from primary keys and the two key columns of `oauth_tokens`, no constraints.
Therefore statements of different requests interleave freely, and a request that fails or
whose instance is stopped leaves whatever it has done.

| Component | State | Operations | Interacts with | Hard behaviour | What makes it correct |
|---|---|---|---|---|---|
| Token store (`token_store.go`) and token life (`oauth.go`, go-oauth2 manager) | table `oauth_tokens`: two nullable unique keys, the pair as JSON, two expiry dates | sign-in (password, SMS, registration) stores a pair; refresh loads, mints, stores, retires; lazy expiry; purge | every sign-in; the clock | interleaving, cut-off rotations, expiry of two keys, whole-second JWT claims | a refresh token is bound to one login, dies when traded, lives otherwise; keys independent |
| SMS codes (`sms.go`, `oauth.go` tokenSMS) | table `verification_codes` | send: limit, store, send; login: find, mark, go on | the SMS provider; accounts | check-then-act twice, ignored errors, truncated times | a code is good for its lifetime, used once; messages keep apart |
| Users (`oauth.go` Register and tokenSMS, `password_change.go`, `profile.go`) | table `users`, primary key only | register; account of an SMS login; change password; change nickname | JWT names the user; SMS codes before; tokens after | uniqueness by three reads, whole stale rows written back, upsert of deleted rows | an account stays itself; a login names one account and opens it |
| Administration (`admin.go`) | `users`, `roles` | authorize; delete a user; set a role | JWT or shared token | as above | roles only as granted |
| Seeding (`handler.go` EnsureAdmin, `cmd/server/main.go`) | `users`, `roles` | role, user, second write; exit on error | instance manager restarts | several instances start at once, crashes between statements | complete whenever an instance serves; happens in the end |
| Collections store (`store.go`) | the three tables | list in order of date and ID; get; insert; upsert; delete | all of the above | Save inserts what is gone | (through its users) |
| JWT verification (`handler.go` parseToken, `middleware.go`) and UserInfo | none | verify a signature and a date; look the user up | tokens, users | tokens outlive users, refreshes do not look at users | access ends with the session and with the account |
| Password hashing (`password.go`) | none | hash, verify | users | old schemes match nothing | a password opens its own account |
| Responses, CORS, configuration, `app.OpenDB` | none | pure, or once at start | | | |
| SMS senders (`sms_aliyun.go`, console) | none | call a service | SMS codes | may fail after the record is stored | |
| Account centre client (`src/lite`, Flutter) | one stored JWT, in a cache and on the device; flags of the gate, the login page, the account page, its dialog and the password page | sign in, log out, show the account, change nickname and password | the provider over HTTP, 15 s timeouts; the device | late answers, double submission, pages that have gone, given-up calls that take effect, the app being killed | what is shown follows what is stored and announced; nothing is busy for ever |
| Studio client, runners, deployment | none | placeholder; generated; declarative | | | |

`PROJECT.json` lists the same components with their status, and under "hazards" each place of
the code where something hard to test can go wrong, with the properties that watch it.

## 2. Modules

| Module | Models |
|---|---|
| `Collections` | the tables of `store.go`: what its five operations do, and the order of a list |
| `TokenStore` | the token table: rows, and the effect of each single statement on it; when a JWT, an access and a refresh key expire |
| `Tokens` | the life of tokens: requests as processes whose steps are the statements of TokenStore; the abstract view of the table |
| `SessionKeys` | what the token table promises: two independent maps from keys to pairs, each refresh key bound once |
| `Tokens_proofs`, `TokensTrade_proofs` | the theorems about Tokens |
| `SmsCodes_proofs` | the theorems about SmsCodes |
| `Accounts_proofs`, `LoginContests_proofs` | the theorems about Accounts, and about which logins can be shared |
| `AuthProvider_proofs` | the theorems about AuthProvider, from those lemmas about its parts |
| `AccountCentre_proofs` | the theorems about LiteClient with the provider behind it |
| `SmsCodes` | sending, looking up and marking of codes |
| `Accounts` | users and roles, all operations that write them, and the start of an instance |
| `LoginContests` | Accounts with an observer who notes the logins that requests get in each other's way about |
| `Directory` | what the users promise: accounts with disjoint logins that are opened, altered in one attribute at a time, and closed |
| `AuthProvider` | SmsCodes, Accounts and Tokens as one provider: the requests that go through several of them, and what a JWT gives access to |
| `LiteClient` | the app: gate, screens, device, calls; what the provider answers is left open |
| `AccountCentre` | LiteClient with the provider's users (Accounts) behind its calls |
| `MCTokens`, `MCSmsCodes`, `MCAccounts`, `MCLoginContests`, `MCAuthProvider`, `MCAccountCentre` | the instances for TLC, with symmetry sets where there are symmetries |

    TokenStore  <- Tokens <- Tokens_proofs <- TokensTrade_proofs
    Collections <- SmsCodes <- SmsCodes_proofs
    Collections <- Accounts <- LoginContests
    Accounts_proofs + LoginContests <- LoginContests_proofs
    SessionKeys <= Tokens, Directory <= Accounts            (refinement)
    AuthProvider  = SmsCodes + Accounts + Tokens            (INSTANCE ... WITH, one clock)
    AccountCentre = LiteClient + Accounts
    AuthProvider  <- AuthProvider_proofs, with the lemmas of SmsCodes_proofs,
                     Accounts_proofs and Tokens_proofs      (INSTANCE ... WITH)
    AccountCentre <- AccountCentre_proofs, with those of Accounts_proofs

Operators whose comment begins with "Mutant of" are faulty variants of the
definition after them. No specification uses them; they serve to see that each property
notices a plausible bug: replace the body of the definition by the variant and run the
configuration that `PROJECT.json` names under "mutants".

### How state and steps correspond to the code

**Tokens.** `rows` is the table. A row's dates are functions of the pair in its data column,
because Create computes them from it and nothing writes them again. A request is a process
slot: `pc` names its next statement, `old` the pair that a refresh has loaded, `tok` the pair
it will store. The steps of a sign-in are Login, Purge, Upsert, Answer; those of a refresh
Load, Mint, Purge, Upsert, DropAccess, DropRefresh, Answer. This order, the unchanged date
of the refresh lifetime and the default lifetimes come from go-oauth2, which is outside of
the repository; the definitions for it are marked external. An access token is a record of
its claims, subject and expiry in whole seconds: the signature is deterministic, so equal
claims are equal strings. Abandon ends a request anywhere: a failed statement, a stopped
instance, an answer that is lost. `origin` and `answered` are what an observer knows (who
signed in, which token was traded for which, which answers arrived).

**SmsCodes.** `codes` is the table. Send is Check (list and limit), Store, Send; login is
Find, Pick, Save and then the account part. Pick keeps the whole record it has read in `target`,
and Save writes that reading back, marked, whatever has become of the row meanwhile. `checked`
remembers when a request to send was let through, because the record is dated between that and
its insert. Dates are cut to seconds (`CutToSecond`), comparisons are not. `Faults` says which
statements may fail; a login whose listing or saving for the mark fails goes on. `sentAt`,
`finds`, `accepts`, `slips`, `overlapped`, `covered` are the observer's: `overlapped` holds the
logins beside which another with the same number and code was under way, `slips` the accepted
logins that were overlapped or whose mark failed.

**Accounts.** `users` and `roles` are the tables; a request holds in `copy` the row it has read
and changed, and WritesBack puts all of it back, also where the row is gone. Usernames, e-mail
addresses and phone numbers are texts of one space; a configuration may let a phone number be a
username too. `Ops` selects the operations of a run, and `FirstStart` whether it begins with empty
tables, in which case instances only start. A hash is its scheme and its password (`Hashed`,
`Verified`); `Schemes` lets the administrator have one of an older scheme. Nicknames are
abstracted to the ones that are set by an update, roles to the admin role and others. Start stands
for what main does before EnsureAdmin: it opens the database, makes the token table and the SMS
sender and reads the key, or exits. `born`, `proved`, `granted` are the observer's. LoginContests
adds one more variable of the observer's: `contested`, the logins that one request had found free
while another was about to write them, or that an account was named after without a lookup.
`Directory` is the abstract specification: its only variable is the table of accounts, and each of
its steps is a whole operation.

**AuthProvider.** Each part keeps its variables and actions; a request is in one part at a
time. `stage` is what the handler keeps between the parts (`phone` and `user` in tokenSMS).
CodeAccepted ends the part of SmsCodes and hands the number on, SmsAccount begins that of
Accounts, AccountVerified and AccountMade end it, Issue begins that of Tokens. A refresh is
Tokens alone, a deletion Accounts alone: that is the composition GhostSessionsEnd is about.
`UserIDFrom` and `UserInfo` say what a JWT gives access to at a moment; they change nothing.
Statements of SmsCodes may fail here as they may there, the mark included. `via`, `deletedAt`
and `contested` (numbers for which two requests were about to write an account at once, one of
them a new one) are the observer's.

**LiteClient.** Dart runs one callback at a time, so a handler is cut only where it awaits.
`gate` is `_AuthGateState`, `page`, `dialog`, `route` and `signingIn` the states of the
screens, `stored` the cache of SharedPreferences, `disk` the device and `writes` the writes
on their way to it, which complete in their order or fail (WriteFails), the cache having been set
in any case: a login then shows an error, a logout ends in an exception that nothing catches.
`calls` are the calls to the provider with
how far each got, whether the app still waits for it (`heard`), and whether the screen that
made it is there (`mounted`). Timeout is the 15 seconds of each call; a call that was given up
may still take effect at the provider. Kill is the end of the app at any time, with some of
its writes done. A password page that is left while its call is under way stays mounted for the
length of its exit transition (`route` is "closing" until PasswordGone); an answer that comes
then pops once more, and takes the page of the gate with it (`gate` is "gone"). Of an error
only its kind is kept (no token, or a load that failed); which text it has is left out, as
are the fields that are checked before a call is made. Of JWTs only that there is one is
kept: they expire at the provider, which is one of the failures in ServeFails. `loggedOut`,
`saved` and `confirmed` are the observer's.

**AccountCentre.** A call has a request slot of its own name in Accounts; ServeX is the first
statement of its handler, XSaved its last. ServeFails is any error, a connection that is lost
before or after the write included. The user of the app is the one account there is, and
changes it nowhere else.

A local computation is joined to the read before it. Where it reads the clock, the
result may lie anywhere between the read and the next statement (`Now` in SmsCodes,
`Dated` in Accounts). Where a handler reads a row and then compares its date with the clock
(codes, refresh keys), a later reading could only refuse more.

## 3. Runs

All constants are in the .cfg files. Each run explores its whole state space.

| Run | Result | What it shows | Bounds |
|---|---|---|---|
| tokens_concurrent | pass | TypeOK, KeysAreUnique, RefreshKeepsLogin, SpentStaysDead, UnspentSurvives, TradeLeavesHeir, RefreshLifetimeIsAbsolute; ImplementsSessionKeys | 2 requests at a time, 2 users, 3 refresh tokens, 4 ticks, seconds of 2 ticks, access 2, refresh 3 |
| tokens_purge | violated | RefreshOutlivesAccess | 1 request at a time |
| tokens_same_second | violated | CreateKeepsOtherRefreshKeys | 1 request at a time |
| sms_concurrent | pass | TypeOK, CodeLivesItsTTL, LimitLastsItsTime, UsedByItsLogin, LoginsUseUpMessages | 2 requests, 2 records, 2 codes that may repeat, 1 number, 5 ticks, 2 logins that find a record, all faults |
| sms_race_use | violated | OneTimeUse | 2 requests |
| accounts_interleaved | pass | TypeOK, AccountsStayThemselves, OnlyContestedLoginsAreShared | 2 requests at a time (registration, SMS login, profile, deletion), 3 accounts, a name and a number |
| accounts_serial | pass | LoginsAreUnique, OwnLoginWorks; ImplementsDirectory | 1 request of all operations, by an administrator's JWT where they are administrative, 3 accounts, 2 passwords, an e-mail address that is also a username, an old hash |
| accounts_seed | pass | SeedLeavesAdmin, AdminIsSeeded | 2 instances, empty tables, failures and restarts |
| accounts_sms_name | violated | LoginsAreUnique | 1 request, a phone number that is also a username |
| accounts_lost_update | violated | ProfileChangesNicknameOnly | 2 requests |
| provider | pass | TypeOK, SessionsBoundedByMessages, SameNumberSameAccount, GhostSessionsEnd, InfoNeedsSignIn | 1 request, failing statements, 3 accounts, 1 record at most, 2 logins that find it, 2 refresh tokens, 3 moments, a number that is also a username |
| lite_centre | pass | TypeOK, GateFollowsStore, LogoutHolds, PageHasInfo, SavedNicknameShows, ConfirmedPasswordHolds; BusyEnds | 2 calls under way, given-up ones included, 2 passwords, 1 nickname beside none, 2 logouts the device has not done, failing device writes |

Why the bounds are enough to be interesting. Three refresh tokens give a chain of two trades
beside nothing else, a trade beside a sign-in, or two trades of one token. The access lifetime
is over before the refresh lifetime and both before the last tick, so every kind of expiry
happens; two ticks to a second make two sign-ins within a second and two in different seconds
possible. A race here is between two requests; a third adds no new kind of overtaking between
two statements of one request for the properties checked, and the theorems cover any number.
The SMS run has a second of two ticks, a limit of one second and a lifetime of two, so that
truncation, expiry and the end of the limit all fall inside the run. In accounts, two accounts
beside the administrator's and two slots suffice for a stale copy, a deletion, a registration
of what the deletion freed, and the write back. In the provider, three moments are a sign-in, a
deletion and a refresh, and a look at what is left; the one message is good for two of them, so
that it can sign in again where its mark failed; three accounts are the administrator, one that
took the number as its name or phone, and the one the first SMS login makes, or one that follows
a deleted one. Codes that repeat in a second message are in sms_concurrent, two requests of
AuthProvider were checked beside the runs (`Procs = {p1, p2}`, `UserIds = {1, 2}`,
`MaxClock = 0`: 272 118 states, no violation). In the account centre two calls are a call and one
that was given up or overtakes it, on any two screens, and two logouts with a login between
them show the account page without a token in the cache (account_screen.dart:38-40).

Two configurations name a VIEW, by which TLC takes states for the same that differ in
what an observer has noted only: `Unobserved` (accounts_serial) leaves `proved`, `granted` and
the contents of `born` out, on which none of the properties and no step of that run depends;
`LivingOnly` (accounts_interleaved) leaves out what was noted of accounts that are deleted
and that no request works on, which cannot come back.

Bounds that are not in the code:

- `MaxClock` (all modules with a clock), `MaxLogins` in SmsCodes (`FewLogins`: logins that find a
  record, a counter), `MaxLogouts` and the slots `Calls` in LiteClient; the finite sets of refresh
  tokens and IDs (UUIDs and random strings never run out and never repeat: `Fresh`, `Insert`).
- AuthProvider: in the run, one request at a time. In the specification, a request takes less
  than a tick (`Tick`), so in the code the spans of GhostSessionsEnd and InfoNeedsSignIn are longer
  by the duration of a request; what cut-off refreshes leave is explored in Tokens, failures of
  the other parts are in; IDs are taken in order (`InOrder`), since other orders of rows of one
  second are explored in Accounts; accounts have no e-mail address, which is one more text of the
  space that accounts_serial explores; the administrator has the ID 1 and neither signs in nor is
  deleted.
- Accounts: changes of passwords run beside profile updates only (accounts_lost_update), changes
  of roles one at a time, seeding beside other instances that start; beside other requests they
  are covered by the theorems. The shared administrator token (AdminToken) is an alternative of
  `Authorize` that no run takes: what it lets happen is what an administrator's JWT does, but for
  the changes of one's own role.
- AccountCentre: the user does not submit the password that is in force as the new one, and
  presses nothing during the exit transition of the password page. A device write fails by an
  exception; that `setString` and `remove` may also return false, which the code never looks at,
  is left out.

### Disagreements between code and documentation

Five runs end in a violation that a statement of the repository contradicts; the findings
of `PROJECT.json` quote it.

- *tokens_purge*: Create's DELETE takes a row as soon as its access key has expired, so a
  refresh token that is good for days is lost at the next sign-in of anybody.
- *tokens_same_second*: two sign-ins of a user in one second get the same JWT, and the
  second one's upsert takes the first one's refresh token away.
- *sms_race_use*: two logins can use one code, since the lookup and the mark are separate.
- *accounts_sms_name*: a first SMS login makes an account whose username may be taken.
- *accounts_lost_update*: a nickname update can undo a password change.

Others can be seen by changing a configuration and are kept out of the runs:

- Two trades of one refresh token at a time both succeed and leave two sessions ("刷新即轮换，旧
  token 作废", docs/dev-guide/auth.md:26), and of two sign-ins of a user within a second one takes
  the other's row before it answers: see the counterexample of tokens_same_second.
- `SpentStaysDead` and `TradeLeavesHeir` say what is left: the old token is void once an answer
  got through, and it is not void without a successor. A client whose answer was lost has
  nothing, though: the successor is in the table and nobody holds it.
- When a code repeats, the oldest unused record is marked, expired or not, and the valid one
  stays usable: `OneTimeUse` is violated with `CodesRepeat = TRUE` and one request at a time too.
- Two requests pass the rate limit together, and even one at a time the limit may be up to a
  second short ("60s 内只能发送一次", sms.go:74): LimitLastsItsTime allows that second.
- A login whose mark fails is accepted, and the message signs in again, also with one request at
  a time: LoginsUseUpMessages and SessionsBoundedByMessages without the logins in `slips` are
  violated.
- `LoginsAreUnique` in `MCLoginContests.cfg`: two registrations pass the checks together, or a
  deleted user is written back after somebody else registered the login. `contested` names these
  cases, and OnlyContestedLoginsAreShared says that there are no others.
- Also met: two starting instances may both create an `admin`; a write in flight brings a
  deleted user back; SetupOAuth sets the lifetimes of a grant nobody uses (oauth.go:26-31), so
  access tokens live the library's 2 hours and not 7 days; an administrator who names himself
  by e-mail or phone gets past the comparison that is to keep him from changing his own role
  (admin.go:117-118), since only the username is compared.
- In the app: the Enter key submits a login that is under way again (login_screen.dart:86, while
  the button is off), and the second answer brings the account page back when the user has logged
  out meanwhile (main.dart:32), which is why LogoutHolds speaks of logouts with no login under
  way. The write of a nickname that was given up may come after a password change that was begun
  beside it and undo it, which is why ConfirmedPasswordHolds speaks of changes that were alone;
  SavedNicknameShows does so because two loads may be answered out of order. An expired JWT leaves
  the user on an error page whose retry cannot help, until he logs out. An account page that is
  built without a token in the cache stays busy (account_screen.dart:38-40): logout, login, logout
  while the device is slow shows it. It goes when the device has done the second logout, and if
  the device fails to remove the token it stays until the app is started again; BusyEnds says the
  former and excepts the latter. A password page that is left while its call is under way pops the
  page below it when the answer comes within its exit transition
  (change_password_screen.dart:43-46): nothing is shown from then on. A device write that fails
  leaves the cache ahead of the device; after a logout the account page remains, and the token is
  there again at the next start. GateFollowsStore therefore speaks of the device. Two calls of
  setState are made without asking whether the login page is still there (login_screen.dart:36,
  38).

## 4. Fairness

`SeedingSpec` states weak fairness of the statements of an instance that starts, and of its
being started again after it exits: a running process takes its next step, and the instance
manager replaces a process that ended (`os.Exit(1)` in main.go). Nothing is assumed of
failures except in AdminIsSeeded itself, which speaks of behaviours in which statements fail
finitely often (no step `Fails` from some point on).

`AccountCentre!Fairness` is weak fairness of two things: a write that the device was given ends,
by its completion or by an exception, and the timer of a call goes off after its 15 seconds unless
it was answered. BusyEnds itself speaks of behaviours in which finitely many writes fail. Neither
the provider nor the user need ever do anything: BusyEnds holds when no call is ever answered, and
whatever the user presses meanwhile. The other specifications have no fairness, and no property of
theirs needs any.

## 5. Theorems

Every property of every passing run is a theorem, save the two liveness properties and those of
accounts_serial (section 6), for all values of the constants that satisfy the assumptions of
section 5.7: any number of
users, records, tokens and requests in flight, lifetimes of any length. None of the properties
is inductive. Each module strengthens them to an invariant `Inv`, proves `Init => Inv` and,
with a lemma for each action, `Inv /\ [Next]_vars => Inv'`, and concludes `Invariance`; the
theorems below are consequences. TLC checked each of the invariants on a small instance before.

### 5.1 Tokens (`Tokens_proofs`, `TokensTrade_proofs`)

| Theorem | Statement |
|---|---|
| TypeCorrect | `Spec => []TypeOK` |
| KeysStayUnique | `Spec => []KeysAreUnique` |
| LoginIsKept | `Spec => []RefreshKeepsLogin` |
| RotationVoids | `Spec => []SpentStaysDead` |
| UndisturbedSessionsSurvive | `Spec => []UnspentSurvives` |
| LifetimeIsAbsolute | `Spec => RefreshLifetimeIsAbsolute` |
| StoreRefines | `Spec => ImplementsSessionKeys` |
| TradesLeaveHeirs | `Spec => []TradeLeavesHeir` |

The inductive invariant:

- `RowsMatchTheirData`: the keys of a row are the keys of its pair or NULL, a pair has one
  row, and what the observer has written down about the pair agrees with it. Without it an
  Upsert could meet a row whose keys say one thing and whose data another.
- `RequestsHoldPairs`: what a request holds at each step (a loaded pair and a minted pair with
  the loaded one as parent). Mint needs it to keep the user and the date.
- `PendingIsUnseen`: a pair that is not stored yet is in no row, no other request and no
  answer. With it an Upsert never gives an existing key a second row: the access column by
  the conflict clause, the refresh column because the key is new.
- `TradesAreMinted`: parents are minted tokens, so a fresh token is nobody's parent and
  Undisturbed cannot be upset by reuse.
- `ParentsAreDead`: the parent of an answered pair is on no row, nor is the old token of a
  request that is about to answer. This is rotation; it needs PendingIsUnseen, because a
  dead key would come back if a pair could be stored twice.
- `StoredSurvives`: UnspentSurvives for every pair stored so far, answered or not.

Steps that only delete rows or set keys to NULL are treated alike: the table after them is a
*fading* of the table before (`Faded`), and the lemmas about fading serve the purge, both
detachments and both expiries, for the invariant and again for the refinement. The refinement
maps a row with a key to a binding of that key; an Upsert is `Bind`, a fading is `Forget` or a
stutter, and every other step is a stutter.

TradeLeavesHeir speaks of two generations of a session at once, so `TradeInv` adds how
pairs stand to each other, stored or in flight: a refresh token belongs to one pair and an heir
is not older than its parent (`PairsAreOrdered`), a trade keeps the date of the login
(`TradesKeepTheDate`), only tokens that a client was handed are traded (`HandedIsTraded`), the
pair of a request in flight is nobody else's (`PairsAreOwn`). Then a request that detaches the
old token has stored an heir whose row no statement of another request can have taken, unless
that JWT was issued twice, which the property excludes.

### 5.2 SMS codes (`SmsCodes_proofs`)

| Theorem | Statement |
|---|---|
| TypeCorrect | `Spec => []TypeOK` |
| CodesLive | `Spec => []CodeLivesItsTTL` |
| LimitLasts | `Spec => []LimitLastsItsTime` |
| UsedByLogins | `Spec => []UsedByItsLogin` |
| LoginsUseUpRecords | `Spec => []LoginsUseUpMessages` |

`RecordsAreDated` says that the two dates of a record are cuts of one moment; with the lemmas
about `CutToSecond` (it takes less than a second off, and keeps an order) it gives the exact
bounds of lifetime and limit. `RequestsKnowTheirCode` keeps the record that a login picked to
its number and code. `NewestExists`: the list of a number has a last record, which
RateLimited looks at. `LoginsAreCounted` is the strengthening of UsedByItsLogin: used records
*and* logins that are still between Find and Save are no more than were counted, since
each of the latter may still use a record up.

LoginsUseUpMessages is a bound from the other side and needs two invariants. `LoginsHaveARecord`:
a login between Find and Save that no other has run beside still has an unused record of its
number and code, and the one that it has picked is unused. `LoginsArePaid` then counts: what was
accepted is at most the used records and the slips. A login that is not overlapped adds one to
the left and one to the right when it saves; any other adds itself to `slips`.

### 5.3 Users (`Accounts_proofs`, `LoginContests_proofs`)

| Theorem | Statement |
|---|---|
| TypeCorrect | `Spec => []TypeOK` |
| Selfhood | `Spec => []AccountsStayThemselves` |
| SeedingLeavesAdmin | `Spec => SeedLeavesAdmin` |
| SharedLoginsWereContested | `ContestSpec => []OnlyContestedLoginsAreShared` |

Whole rows are written back from copies, so the first three need `Ready`: what a request knows
of its copy at each statement, all of it stable under whatever other requests do (identity
of an account, verified numbers, granted roles), none of it about the table now.

That a login belongs to one account is false of this code: two registrations pass the checks
together, a deleted user is written back, and a first SMS login takes a username that is not free.
SharedLoginsWereContested says that there is no other way, without any hypothesis on which
requests run beside each other or which texts are usernames. Its invariant (`Kept`) says for every
login that is not contested: at most one account has it; while a request is about to insert it
(`Claims`) no account has it and no other request is about to write it; and all requests that hold
a copy with that login are about the same account. Deletions only take logins away, so that they
cannot disturb it, and a write back of a deleted user is covered by the last part.

### 5.4 The provider (`AuthProvider_proofs`)

| Theorem | Statement |
|---|---|
| TypeCorrect | `Spec => []TypeOK` |
| GhostsEnd | `Spec => []GhostSessionsEnd` |
| InfoFollowsSignIn | `Spec => []InfoNeedsSignIn` |
| SessionsArePaidFor | `Spec => []SessionsBoundedByMessages` |
| NumberHasOneAccount | `Spec => []SameNumberSameAccount` |

The proof is compositional: the proof modules of the three parts are instantiated, a step
of AuthProvider is a step of one part and leaves the others alone, and the parts' lemmas give
their invariants again. What ties the parts together is:

- `OnePart`: a request is in one part at a time, and what the handler keeps is empty but
  between parts.
- `KnowsUser`: whom a request is about to sign in has been there within the tick and holds
  the number that was proved. Deletions may come in between, so it cannot say more.
- `SignInsKnowUsers`: whoever a chain of tokens belongs to exists, or was deleted no earlier
  than the login; the account of an SMS login has its number for ever.
- `PairsAreTimely`: no pair is older than its refresh lifetime admits. From the last two
  follow GhostSessionsEnd and InfoNeedsSignIn, for requests that interleave in any way
  within a tick, which is more than the run explores.

SessionsBoundedByMessages rests on the invariant `Marks` of SmsCodes_proofs: `SessionsArePaid` says
that the sign-ins of a number, and the requests that are between the code and their tokens, are
no more than the used records and the slips of that number.
SameNumberSameAccount rests on `NumbersHaveOneAccount`, for every number that is not contested: at
most one account has it as its phone, there is none while a request is about to make one, and
those who are about to write one back mean that one. An account keeps its number, so that all the
sign-ins of the number lead to it.

### 5.5 The account centre (`AccountCentre_proofs`)

| Theorem | Statement |
|---|---|
| TypeCorrect | `Spec => []TypeOK` |
| GateTellsTheTruth | `Spec => []GateFollowsStore` |
| LogoutLasts | `Spec => []LogoutHolds` |
| PageNeverLacksInfo | `Spec => []PageHasInfo` |
| NicknameLasts | `Spec => []SavedNicknameShows` |
| PasswordLasts | `Spec => []ConfirmedPasswordHolds` |

`AppInv` is about the app alone: which calls may be in which state under which screen
(`CallsAreSound`, `ScreensAreSound`), that every token on its way to the device belongs to a login
of its own and the cache is what the last write under way will make of the device
(`WritesAreSound`; when none is under way, a write that failed may have left them apart), that a
logout that counts leaves no token anywhere (`OutEverywhere`), and that an edit that was alone had
no other call beside it that could undo it (`AloneIsAlone`). The rest ties the app to the
provider: there is one account (`OnlyAdministrator`), what a request is about to write is what its
call asks for (`ServedIsAsked`), and an edit that was answered alone is in the table *and in every
copy that may still be written back* (`EditsAreDone`, `ConfirmedIsWritten`, `SavedIsWritten`). The
last point is the reason for the word alone: without it a copy read before the edit undoes it.

### 5.6 Lemmas

The lemmas the proofs keep needing are stated once: of `Faded` tables, of the identity of
built, altered and dated users (`BuiltUsers`, `AlteredUsers`, `DatedUsers`), of cut dates and
the order of records (`CutKeepsOrder`, `BeforeIsTotal`), of counting used records
(`CountIsKept`), and of queues of writes (`AppendedWrite`, `WrittenWrites`, `TailOfWrites`).

### 5.7 Assumptions

They are named ASSUMEs in the modules that declare the constants, and TLC evaluates them in the
runs. Lifetimes, limits and bounds are naturals, the second and the token lifetimes positive; IDs
are naturals (ordering rows of one date needs an order); and `None` is not a value of any other
kind. `ProviderParameters` in AuthProvider and AccountCentre say so of the parts that these
modules instantiate, whose own ASSUMEs nobody evaluates there; the lemmas `PartAssumptions` and
`ProviderAssumptions` derive the parts' assumptions from it. Sets of IDs, tokens, users, requests
and the like may be infinite, and the bound of a clock as large as one likes.

## 6. Only model-checked, not modelled, out of reach

- Only model-checked: AdminIsSeeded and BusyEnds, liveness properties, which the prover does not
  reach (nor does it reach ENABLED or induction over data); LoginsAreUnique, OwnLoginWorks and
  ImplementsDirectory, which hold of one operation at a time and where no phone number is also a
  username, neither of which the code ensures, so that no theorem of Spec says them: the run
  shows that the operations are right by themselves, and OnlyContestedLoginsAreShared what is
  left of it when they run together; and the violations.
- Not modelled: parsing and validation of requests (the inputs of the models are valid
  ones; invalid ones end before any statement), the cryptography of hashes and signatures, JSON,
  response bodies, logging, CORS, the values of configuration, the client of the SMS service,
  the deployment. The Studio client is a placeholder page, the runners are generated.
- Two requests at a time of all parts of AuthProvider, over several ticks, are beyond an exhaustive
  run of TLC; the theorems of section 5.4 cover them for all of its properties.

## 7. Plan

1. *Done*: TokenStore, Tokens, SessionKeys; SmsCodes; Accounts with seeding and
   Directory; AuthProvider; LiteClient and AccountCentre.
2. *Done*: the theorems of section 5.
3. *Done*: the bounds on sign-ins by SMS and on accounts of a number for requests that
   interleave and fail, with the logins that were contested or slipped counted.
4. Next: the refinement of Directory by interleaved requests that contest no login.
