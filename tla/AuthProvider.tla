------------------------------ MODULE AuthProvider ------------------------------
(***************************************************************************)
(* The provider as one: SmsCodes, Accounts and Tokens over one clock, and   *)
(* the requests that go through more than one of them.                      *)
(*                                                                          *)
(*   sms_code grant   code accepted -> account found or made -> tokens      *)
(*   registration     account made -> tokens                                *)
(*   password grant   account found -> tokens                               *)
(*   userinfo         JWT accepted -> account found                         *)
(*                                                                          *)
(* A refresh and a deletion are requests of one part; that a refresh does   *)
(* not look at the account is what composes with the deletion.              *)
(***************************************************************************)
EXTENDS Naturals, FiniteSets

CONSTANTS
    UserIds, CodeIds, Refreshes, Procs,
    Names, Phones, Passwords, Codes,
    AdminName, AdminRole, AdminToken, None,
    AccessExp, RefreshExp, RateLimit, TTL,
    MaxLogins, MaxClock     \* bounds of the model

VARIABLES
    clock,
    \* of SmsCodes
    codes, smsPc, phone, code, checked, target, overlapped,
    sentAt, finds, accepts, slips, covered,
    \* of Accounts
    users, roles, accPc, who, copy, actor, born, proved, granted,
    \* of Tokens
    rows, tokPc, tok, old, origin, answered,
    stage,      \* what a request hands from part to part: the number whose code was
                \* accepted, and the user that tokens are to be issued for
    \* what an observer knows and the program does not keep:
    via,        \* the phone number of each sign-in by SMS, by its refresh token
    deletedAt,  \* when each user was last deleted
    contested   \* numbers for which two requests were about to write an account at
                \* once, at least one of them a new one

smsVars == <<codes, smsPc, phone, code, checked, target, overlapped,
             sentAt, finds, accepts, slips, covered>>
accVars == <<users, roles, accPc, who, copy, actor, born, proved, granted>>
tokVars == <<rows, tokPc, tok, old, origin, answered>>
vars == <<clock, smsVars, accVars, tokVars, stage, via, deletedAt, contested>>

Sms == INSTANCE SmsCodes WITH
    Ids <- CodeIds, SecondTicks <- 1, CodesRepeat <- TRUE,
    Faults <- {"list", "store", "save"}, pc <- smsPc

Account == INSTANCE Accounts WITH
    Ids <- UserIds, Emails <- {}, Nicks <- {}, OtherRoles <- {}, FirstStart <- FALSE,
    Schemes <- {"argon2id"}, Ops <- {"register", "sms", "delete"},
    pc <- accPc

Token == INSTANCE Tokens WITH
    Users <- UserIds, SecondTicks <- 1, pc <- tokPc

ASSUME ProviderParameters ==
    /\ UserIds \subseteq Nat /\ CodeIds \subseteq Nat
    /\ AccessExp \in Nat \ {0} /\ RefreshExp \in Nat \ {0}
    /\ RateLimit \in Nat /\ TTL \in Nat
    /\ MaxLogins \in Nat /\ MaxClock \in Nat
    /\ None \notin Nat \cup Refreshes \cup {AdminName, AdminRole, AdminToken}
    /\ None \notin Names \cup Phones \cup Passwords \cup Codes
    /\ None \notin Sms!Record
    /\ None \notin Account!User \cup Account!Hash \cup Account!Identity
    /\ None \notin Token!Access /\ None \notin Token!Token /\ None \notin Token!Origin

Stage == [phone : Phones \cup {None}, user : UserIds \cup {None}]

Begun == [phone |-> None, user |-> None]

\* Bound of the model: IDs are taken in their order, so that a list is in the order
\* of the inserts, as it is between different seconds.
InOrder(S, ids) == \A i \in S, j \in ids : j < i => j \in S

\* Bounds of the model: the administrator has the ID 1, and is left alone.
Logins == Names \cup Phones

Init ==
    /\ Sms!Init /\ Account!Init /\ Token!Init
    /\ Account!Has(users, 1)
    /\ stage = [p \in Procs |-> Begun]
    /\ via = [r \in Refreshes |-> None]
    /\ deletedAt = [i \in UserIds |-> None]
    /\ contested = {}

NoRequest(p) ==
    smsPc[p] = "idle" /\ accPc[p] = "idle" /\ tokPc[p] = "idle" /\ stage[p] = Begun

Comes(p, to) == stage' = [stage EXCEPT ![p] = to]

\* The steps of a request that is in one part, or begins there.
InSms(p) ==
    /\ smsPc[p] # "idle" \/ NoRequest(p)
    /\ UNCHANGED <<accVars, tokVars, via, deletedAt, contested>>

InAccounts(p) ==
    /\ accPc[p] # "idle" \/ NoRequest(p)
    /\ UNCHANGED <<smsVars, tokVars, via>>

InTokens(p) ==
    /\ tokPc[p] # "idle" \/ NoRequest(p)
    /\ UNCHANGED <<smsVars, accVars, deletedAt, contested>>

-------------------------------------------------------------------------------
(* POST /oauth/sms/send, and the sms_code grant.                              *)
(*                                                                            *)
(* Bound of the model: what cut-off refreshes leave is seen in Tokens.         *)

SmsStep(p) ==
    /\ InSms(p)
    /\ \/ \E ph \in Phones : Sms!Check(p, ph)
       \/ Sms!Store(p) \/ Sms!StoreFails(p) \/ Sms!Send(p)
       \/ \E ph \in Phones, c \in Codes : Sms!FewLogins /\ Sms!Find(p, ph, c)
       \/ Sms!Pick(p)
       \/ Sms!Abandon(p)
    /\ InOrder(Sms!Rows(codes'), CodeIds)
    /\ UNCHANGED stage

CodeAccepted(p) ==
    /\ InSms(p)
    /\ Sms!PickNothing(p) \/ Sms!Save(p)
    /\ Comes(p, [phone |-> phone[p], user |-> None])

\* Two requests are about to write accounts with a number, at least one a new one.
Making(ph) == {p \in Procs : accPc[p] = "create" /\ copy[p].phone = ph}
Writing(ph) == {p \in Procs : accPc[p] = "write" /\ copy[p].phone = ph}

Contest(ph) == \E p \in Making(ph), q \in Making(ph) \cup Writing(ph) : p # q

ContestsNoted == contested' = contested \cup {ph \in Phones : Contest(ph)'}

\* The account of the number is there, is written, or is made.
SmsAccount(p) ==
    LET ph == stage[p].phone
    IN /\ ph # None /\ stage[p].user = None /\ accPc[p] = "idle"
       /\ \/ Account!SmsUnknown(p, ph) /\ UNCHANGED stage
          \/ \E i \in UserIds :
               \/ Account!SmsUnverified(p, ph, i) /\ UNCHANGED stage
               \/ Account!SmsVerified(p, ph, i) /\ Comes(p, [phone |-> ph, user |-> i])
       /\ ContestsNoted
       /\ UNCHANGED <<smsVars, tokVars, via, deletedAt>>

\* The result of the save is ignored.
AccountVerified(p) ==
    /\ InAccounts(p)
    /\ Account!WriteBack(p) \/ (accPc[p] = "write" /\ Account!Abandon(p))
    /\ Comes(p, [stage[p] EXCEPT !.user = who[p]])
    /\ UNCHANGED <<deletedAt, contested>>

-------------------------------------------------------------------------------
(* POST /oauth/register *)

RegisterStep(p) ==
    /\ InAccounts(p)
    /\ \/ \E name \in Names, ph \in Phones \cup {None}, password \in Passwords :
            Account!RegisterName(p, name, None, ph, password)
       \/ Account!RegisterEmail(p) \/ Account!RegisterPhone(p)
    /\ ContestsNoted
    /\ UNCHANGED <<stage, deletedAt>>

\* The insert of a registration or of a first SMS login.
AccountMade(p) ==
    /\ InAccounts(p)
    /\ \E i \in UserIds : Account!Create(p, i) /\ Comes(p, [stage[p] EXCEPT !.user = i])
    /\ InOrder({i \in UserIds : born'[i] # None}, UserIds)
    /\ UNCHANGED <<deletedAt, contested>>

-------------------------------------------------------------------------------
(* Tokens *)

\* Of an SMS login or a registration.
Issue(p) ==
    /\ stage[p].user # None
    /\ Token!Login(p, stage[p].user)
    /\ via' = [via EXCEPT ![tok'[p].refresh] = stage[p].phone]
    /\ Comes(p, Begun)
    /\ UNCHANGED <<smsVars, accVars, deletedAt, contested>>

PasswordLogin(p) ==
    /\ InTokens(p) /\ tokPc[p] = "idle"
    /\ \E login \in Logins, password \in Passwords, i \in UserIds : Account!SignsIn(login, password, i) /\ Token!Login(p, i)
    /\ UNCHANGED <<stage, via>>

\* The rest of a request that issues tokens, and the refresh_token grant, which
\* looks at no account.
TokenStep(p) ==
    /\ InTokens(p)
    /\ \/ \E t \in answered : Token!LoadExpired(p, t.refresh) \/ Token!LoadHit(p, t.refresh)
       \/ Token!Mint(p) \/ Token!Purge(p) \/ Token!Upsert(p)
       \/ Token!DropAccess(p) \/ Token!DropRefresh(p)
       \/ Token!Answer(p)
       \/ (tokPc[p] = "mint" /\ Token!Abandon(p))
    /\ UNCHANGED <<stage, via>>

-------------------------------------------------------------------------------
(* What a JWT gives access to, and the administration *)

AuthMiddleware(access) == Token!JWTAccepted(access, clock)

\* The user that a handler behind the middleware serves.
UserIDFrom(access, i) == AuthMiddleware(access) /\ access.sub = i

\* GET /userinfo: the JWT is still good, and so is its user.
UserInfo(access, i) == UserIDFrom(access, i) /\ Account!Has(users, i)

\* DELETE /admin/users/{login} by the administrator's JWT.
DeleteStep(p) ==
    /\ InAccounts(p)
    /\ \/ \E i \in UserIds : Account!Authorize(p, i, "delete", "deleteFind")
       \/ \E i \in UserIds, login \in Logins : Account!DeleteFind(p, login, i)
    /\ UNCHANGED <<stage, deletedAt, contested>>

DeleteDone(p) ==
    /\ InAccounts(p)
    /\ Account!Delete(p)
    /\ deletedAt' = [deletedAt EXCEPT ![who[p]] = clock]
    /\ UNCHANGED <<stage, contested>>

\* A request fails or is cut off in or before the part of the accounts.
AccountFails(p) ==
    /\ \/ Account!Abandon(p)
       \/ accPc[p] = "idle" /\ stage[p] # Begun /\ UNCHANGED <<clock, accVars>>
    /\ Comes(p, Begun)
    /\ UNCHANGED <<smsVars, tokVars, via, deletedAt, contested>>

\* Bound of the model: a request takes less than a tick.
Tick ==
    /\ clock < MaxClock
    /\ \A p \in Procs : NoRequest(p)
    /\ clock' = clock + 1
    /\ UNCHANGED <<smsVars, accVars, tokVars, stage, via, deletedAt, contested>>

Request(p) ==
    \/ SmsStep(p) \/ CodeAccepted(p) \/ SmsAccount(p) \/ AccountVerified(p)
    \/ RegisterStep(p) \/ AccountMade(p)
    \/ Issue(p) \/ PasswordLogin(p) \/ TokenStep(p)
    \/ DeleteStep(p) \/ DeleteDone(p) \/ AccountFails(p)

Next == (\E p \in Procs : Request(p)) \/ Tick

Spec == Init /\ [][Next]_vars

-------------------------------------------------------------------------------
(* Properties. *)

\* Every variable has its type.
TypeOK ==
    /\ Sms!TypeOK /\ Account!TypeOK /\ Token!TypeOK
    /\ stage \in [Procs -> Stage]
    /\ via \in [Refreshes -> Phones \cup {None}]
    /\ deletedAt \in [UserIds -> Nat \cup {None}]
    /\ contested \in SUBSET Phones

SmsSessions(ph) == {r \in Token!Minted : via[r] = ph}

\* Every message that was stored for a number signs in at most once, whatever the
\* repetitions of codes, their expiry, and requests that were cut off.  What goes
\* beyond is as many sign-ins as had the mark of their message fail, which is
\* ignored, or ran beside another with the same number and code.
SessionsBoundedByMessages ==
    \A ph \in Phones :
        Cardinality(SmsSessions(ph)) <= Cardinality(Sms!To(ph))
                                      + Cardinality({s \in slips : s[1] = ph})

\* Who proves to hold a number comes to the account that has this phone number,
\* always the same until it is deleted: an account that was registered with the
\* number, one that was made by the first message, never another.  This fails for
\* a number only after an account for it was about to be made while another was
\* about to be made or written.
SameNumberSameAccount ==
    \A ph \in Phones \ contested : \A r, q \in SmsSessions(ph) :
        LET i == origin[r].user
            j == origin[q].user
        IN Account!Has(users, i) /\ Account!Has(users, j) => i = j /\ users[i].phone = ph

\* A refresh does not look at the account, so a deleted user's sessions go on; but
\* nobody holds an accepted JWT of the user longer than the lifetimes of a refresh
\* and of an access token after the deletion.
GhostSessionsEnd ==
    \A t \in answered :
        /\ deletedAt[t.user] # None
        /\ ~Account!Has(users, t.user)
        /\ clock >= deletedAt[t.user] + RefreshExp + AccessExp
        => ~UserIDFrom(t.access, t.user)

\* A JWT shows an account only while its user has signed in within the lifetimes
\* of a refresh and of an access token, however often tokens were refreshed.
InfoNeedsSignIn ==
    \A t \in answered, i \in UserIds : UserInfo(t.access, i) =>
        \E r \in Token!Minted :
            origin[r].user = i /\ clock < origin[r].since + RefreshExp + AccessExp
===============================================================================
