-------------------------- MODULE AuthProvider_proofs --------------------------
(***************************************************************************)
(* Theorems about AuthProvider: what holds of users, their sign-ins and     *)
(* their tokens across the parts of the provider, for any number of users,  *)
(* messages, tokens and requests in flight.                                 *)
(***************************************************************************)
EXTENDS AuthProvider, TLAPS, FiniteSetTheorems

S == INSTANCE SmsCodes_proofs WITH
    Ids <- CodeIds, SecondTicks <- 1, CodesRepeat <- TRUE,
    Faults <- {"list", "store", "save"}, pc <- smsPc

A == INSTANCE Accounts_proofs WITH
    Ids <- UserIds, Emails <- {}, Nicks <- {}, OtherRoles <- {}, FirstStart <- FALSE,
    Schemes <- {"argon2id"}, Ops <- {"register", "sms", "delete"},
    pc <- accPc

T == INSTANCE Tokens_proofs WITH
    Users <- UserIds, SecondTicks <- 1, pc <- tokPc

-------------------------------------------------------------------------------
(* The inductive invariant: what the parts know of themselves, and what ties   *)
(* them together.                                                              *)

StageTypeOK ==
    /\ stage \in [Procs -> Stage]
    /\ via \in [Refreshes -> Phones \cup {None}]
    /\ deletedAt \in [UserIds -> Nat \cup {None}]

\* A request is in one part at a time, and a part hands over when it is done.
OnePart(p) ==
    /\ smsPc[p] # "idle" => accPc[p] = "idle" /\ tokPc[p] = "idle" /\ stage[p] = Begun
    /\ accPc[p] # "idle" => tokPc[p] = "idle" /\ stage[p].user = None
    /\ accPc[p] \notin {"idle", "write", "create"} => stage[p] = Begun
    /\ tokPc[p] # "idle" => stage[p] = Begun

\* The user is there, or was deleted within the tick.
Recent(u) == A!Has(users, u) \/ deletedAt[u] = clock

\* Whoever a request signs in is there, or was until a moment ago, and holds the
\* number that was proved.
KnowsUser(p) ==
    /\ stage[p].user # None =>
         /\ born[stage[p].user] # None
         /\ Recent(stage[p].user)
         /\ stage[p].phone # None => born[stage[p].user].phone = stage[p].phone
    /\ accPc[p] = "write" => Recent(who[p]) /\ born[who[p]].phone = stage[p].phone
    /\ accPc[p] = "create" /\ stage[p].phone # None => copy[p].phone = stage[p].phone

\* Nobody signed in after being deleted for the last time, and a sign-in by SMS
\* belongs to the account with the number.
SignInsKnowUsers ==
    /\ \A r \in T!Minted :
         LET u == origin[r].user
         IN /\ origin[r].since <= clock
            /\ \/ A!Has(users, u)
               \/ deletedAt[u] # None /\ origin[r].since <= deletedAt[u]
            /\ born[u] # None
            /\ via[r] # None => born[u].phone = via[r]
    /\ \A r \in Refreshes \ T!Minted : via[r] = None

\* A pair is signed for its user, within RefreshExp of the login of its chain.
Timely(t) ==
    /\ t.access = T!JWT(t.user, t.acreate)
    /\ t.acreate <= t.rcreate + RefreshExp

PairsAreTimely ==
    /\ \A t \in answered : Timely(t)
    /\ \A row \in rows : Timely(row.data)
    /\ \A p \in Procs :
         /\ tok[p] # None => Timely(tok[p])
         /\ tokPc[p] = "mint" => clock <= old[p].rcreate + RefreshExp

Inv ==
    /\ S!Inv /\ A!Inv /\ T!Inv
    /\ StageTypeOK
    /\ \A p \in Procs : OnePart(p) /\ KnowsUser(p)
    /\ SignInsKnowUsers
    /\ PairsAreTimely

-------------------------------------------------------------------------------
(* What sign-ins by SMS have used up. *)

\* Logins whose code was accepted and that have no tokens yet.
Pending(ph) == {p \in Procs : stage[p].phone = ph}

Used(ph) == {i \in S!To(ph) : codes[i].used}
SlipsTo(ph) == {s \in slips : s[1] = ph}

\* Every sign-in by SMS has used a message up or is one of the slips, and so has
\* every one under way.
SessionsArePaid ==
    \A ph \in Phones :
        /\ IsFiniteSet(S!To(ph)) /\ IsFiniteSet(SmsSessions(ph))
        /\ IsFiniteSet(Pending(ph)) /\ IsFiniteSet(SlipsTo(ph))
        /\ Cardinality(SmsSessions(ph)) + Cardinality(Pending(ph))
             <= Cardinality(Used(ph)) + Cardinality(SlipsTo(ph))

-------------------------------------------------------------------------------
(* What accounts there are of a number. *)

\* What a request that is about to write an account with the number has read is
\* still so; that is, unless another made it untrue meanwhile.
OneAccount(ph) ==
    /\ ~Contest(ph)
    /\ \A i, j \in A!ByPhone(ph) : i = j
    /\ \A p \in Making(ph) : A!ByPhone(ph) = {}
    /\ \A p \in Writing(ph) : A!ByPhone(ph) \subseteq {who[p]}
    /\ \A p, q \in Writing(ph) : who[p] = who[q]

NumbersHaveOneAccount == \A ph \in Phones \ contested : OneAccount(ph)

-------------------------------------------------------------------------------
(* The parts of the provider, seen as what their theorems are about. *)

\* What the theorems about the parts take for granted holds here.
LEMMA PartAssumptions ==
    /\ S!KeysAreNumbers /\ S!Parameters /\ S!NoneIsNoRecord
    /\ A!KeysAreNumbers /\ A!Parameters /\ A!NoneIsNoUser
    /\ T!LifetimesPositive /\ T!NoneIsNoValue /\ T!ClockIsBounded /\ T!NoneIsNoOrigin
<1>1. S!KeysAreNumbers /\ S!Parameters /\ S!NoneIsNoRecord
  <2>1. S!KeysAreNumbers /\ S!Parameters
    <3>1. TRUE \in BOOLEAN
        OBVIOUS
    <3>2. CodeIds \subseteq Nat /\ None \notin CodeIds
        BY ProviderParameters
    <3>3. None \notin Phones \cup Codes
        BY ProviderParameters
    <3>4. /\ RateLimit \in Nat /\ TTL \in Nat /\ MaxClock \in Nat /\ MaxLogins \in Nat
          /\ 1 \in Nat \ {0}
        BY ProviderParameters
    <3> QED
        BY <3>1, <3>2, <3>3, <3>4 DEF S!KeysAreNumbers, S!Parameters
  <2>2. S!NoneIsNoRecord
      BY ProviderParameters DEF S!NoneIsNoRecord, S!Record, Sms!Record
  <2> QED
      BY <2>1, <2>2
<1>2. A!KeysAreNumbers /\ A!Parameters
    BY ProviderParameters DEF A!KeysAreNumbers, A!Parameters
<1>3. A!NoneIsNoUser
    BY ProviderParameters
       DEF A!NoneIsNoUser, A!User, A!Hash, A!Identity, A!Texts,
           Account!User, Account!Hash, Account!Identity, Account!Texts
<1>4. T!LifetimesPositive /\ T!ClockIsBounded
    BY ProviderParameters DEF T!LifetimesPositive, T!ClockIsBounded
<1>5. T!NoneIsNoValue /\ T!NoneIsNoOrigin
    BY ProviderParameters
       DEF T!NoneIsNoValue, T!NoneIsNoOrigin, T!Token, T!Access, T!Origin,
           Token!Token, Token!Access, Token!Origin
<1> QED
    BY <1>1, <1>2, <1>3, <1>4, <1>5

\* The steps of the token part.
LEMMA TokenNames ==
    ASSUME NEW p \in Procs
    PROVE  /\ \A u \in UserIds : Token!Login(p, u) <=> T!Login(p, u)
           /\ \A r : Token!LoadExpired(p, r) <=> T!LoadExpired(p, r)
           /\ \A r : Token!LoadHit(p, r) <=> T!LoadHit(p, r)
           /\ Token!Mint(p) <=> T!Mint(p)
           /\ Token!Purge(p) <=> T!Purge(p)
           /\ Token!Upsert(p) <=> T!Upsert(p)
           /\ Token!DropAccess(p) <=> T!DropAccess(p)
           /\ Token!DropRefresh(p) <=> T!DropRefresh(p)
           /\ Token!Answer(p) <=> T!Answer(p)
           /\ Token!Abandon(p) <=> T!Abandon(p)
<1>1. \A u \in UserIds : Token!Login(p, u) <=> T!Login(p, u)
    BY DEF Token!Login, T!Login, Token!Fresh, T!Fresh, Token!Minted, T!Minted,
           Token!JWT, T!JWT
<1>2. \A r : Token!LoadExpired(p, r) <=> T!LoadExpired(p, r)
    BY DEF Token!LoadExpired, T!LoadExpired, Token!RefreshExpired, T!RefreshExpired,
           Token!RefreshDetached, T!RefreshDetached
<1>3. \A r : Token!LoadHit(p, r) <=> T!LoadHit(p, r)
    BY DEF Token!LoadHit, T!LoadHit, Token!RefreshExpired, T!RefreshExpired
<1>4. Token!Mint(p) <=> T!Mint(p)
    BY DEF Token!Mint, T!Mint, Token!Fresh, T!Fresh, Token!Minted, T!Minted,
           Token!JWT, T!JWT
<1>5. Token!Purge(p) <=> T!Purge(p)
    BY DEF Token!Purge, T!Purge, Token!Purged, T!Purged, Token!AccessExpired,
           T!AccessExpired, Token!RefreshExpired, T!RefreshExpired
<1>6. Token!Upsert(p) <=> T!Upsert(p)
    BY DEF Token!Upsert, T!Upsert, Token!Upserted, T!Upserted
<1>7. Token!DropAccess(p) <=> T!DropAccess(p)
    BY DEF Token!DropAccess, T!DropAccess, Token!AccessDetached, T!AccessDetached
<1>8. Token!DropRefresh(p) <=> T!DropRefresh(p)
    BY DEF Token!DropRefresh, T!DropRefresh, Token!RefreshDetached, T!RefreshDetached
<1>9. Token!Answer(p) <=> T!Answer(p)
    BY DEF Token!Answer, T!Answer, Token!EndRequest, T!EndRequest
<1>10. Token!Abandon(p) <=> T!Abandon(p)
    BY DEF Token!Abandon, T!Abandon, Token!EndRequest, T!EndRequest
<1> QED
    BY <1>1, <1>2, <1>3, <1>4, <1>5, <1>6, <1>7, <1>8, <1>9, <1>10

\* The steps of the account part.
LEMMA AccountNames ==
    ASSUME NEW p \in Procs
    PROVE  /\ \A ph \in Phones : Account!SmsUnknown(p, ph) <=> A!SmsUnknown(p, ph)
           /\ \A ph \in Phones, i \in UserIds :
                Account!SmsUnverified(p, ph, i) <=> A!SmsUnverified(p, ph, i)
           /\ \A ph \in Phones, i \in UserIds :
                Account!SmsVerified(p, ph, i) <=> A!SmsVerified(p, ph, i)
           /\ Account!WriteBack(p) <=> A!WriteBack(p)
           /\ \A name \in Names, ph \in Phones \cup {None}, password \in Passwords :
                Account!RegisterName(p, name, None, ph, password)
                  <=> A!RegisterName(p, name, None, ph, password)
           /\ Account!RegisterEmail(p) <=> A!RegisterEmail(p)
           /\ Account!RegisterPhone(p) <=> A!RegisterPhone(p)
           /\ \A i \in UserIds : Account!Create(p, i) <=> A!Create(p, i)
           /\ \A i \in UserIds : Account!Authorize(p, i, "delete", "deleteFind")
                                   <=> A!Authorize(p, i, "delete", "deleteFind")
           /\ \A i \in UserIds, login \in Logins :
                Account!DeleteFind(p, login, i) <=> A!DeleteFind(p, login, i)
           /\ Account!Delete(p) <=> A!Delete(p)
           /\ Account!Abandon(p) <=> A!Abandon(p)
<1>1. \A ph \in Phones : Account!SmsUnknown(p, ph) <=> A!SmsUnknown(p, ph)
    BY DEF Account!SmsUnknown, A!SmsUnknown, Account!ByPhone, A!ByPhone, Account!Existing,
           A!Existing, Account!Rows, A!Rows, Account!Proves, A!Proves, Account!Called,
           A!Called, Account!Builds, A!Builds, Account!FromSms, A!FromSms,
           Account!NewUser, A!NewUser
<1>2. \A ph \in Phones, i \in UserIds :
         /\ Account!SmsUnverified(p, ph, i) <=> A!SmsUnverified(p, ph, i)
         /\ Account!SmsVerified(p, ph, i) <=> A!SmsVerified(p, ph, i)
    BY DEF Account!SmsUnverified, A!SmsUnverified, Account!SmsVerified, A!SmsVerified,
           Account!First, A!First, Account!IsFirst, A!IsFirst, Account!Before, A!Before,
           Account!ByPhone, A!ByPhone, Account!Existing, A!Existing, Account!Rows, A!Rows,
           Account!Proves, A!Proves, Account!Called, A!Called, Account!Holds, A!Holds
<1>3. Account!WriteBack(p) <=> A!WriteBack(p)
    BY DEF Account!WriteBack, A!WriteBack, Account!WritesBack, A!WritesBack,
           Account!Saved, A!Saved, Account!EndRequest, A!EndRequest
<1>4. \A name \in Names, ph \in Phones \cup {None}, password \in Passwords :
         Account!RegisterName(p, name, None, ph, password)
           <=> A!RegisterName(p, name, None, ph, password)
    BY DEF Account!RegisterName, A!RegisterName, Account!Called, A!Called, Account!Taken,
           A!Taken, Account!ByLogin, A!ByLogin, Account!Logins, A!Logins, Account!Existing,
           A!Existing, Account!Rows, A!Rows, Account!Builds, A!Builds, Account!Registered,
           A!Registered, Account!NewUser, A!NewUser, Account!Hashed, A!Hashed,
           Account!OnlyReads, A!OnlyReads, Account!observed, A!observed
<1>5. /\ Account!RegisterEmail(p) <=> A!RegisterEmail(p)
      /\ Account!RegisterPhone(p) <=> A!RegisterPhone(p)
    BY DEF Account!RegisterEmail, A!RegisterEmail, Account!RegisterPhone, A!RegisterPhone,
           Account!Taken, A!Taken, Account!ByLogin, A!ByLogin, Account!Logins, A!Logins,
           Account!Existing, A!Existing, Account!Rows, A!Rows, Account!Builds, A!Builds,
           Account!Goes, A!Goes, Account!EndRequest, A!EndRequest,
           Account!OnlyReads, A!OnlyReads, Account!observed, A!observed
<1>6. \A i \in UserIds : Account!Create(p, i) <=> A!Create(p, i)
    BY DEF Account!Create, A!Create, Account!Dated, A!Dated, Account!Insert, A!Insert,
           Account!Created, A!Created, Account!IdentityOf, A!IdentityOf,
           Account!EndRequest, A!EndRequest
<1>7. \A i \in UserIds : Account!Authorize(p, i, "delete", "deleteFind")
                           <=> A!Authorize(p, i, "delete", "deleteFind")
    BY DEF Account!Authorize, A!Authorize, Account!Called, A!Called, Account!Existing,
           A!Existing, Account!Rows, A!Rows, Account!HasAdminPermission,
           A!HasAdminPermission, Account!OnlyReads, A!OnlyReads,
           Account!observed, A!observed
<1>8. \A i \in UserIds, login \in Logins :
         Account!DeleteFind(p, login, i) <=> A!DeleteFind(p, login, i)
    BY DEF Account!DeleteFind, A!DeleteFind, Account!First, A!First, Account!IsFirst,
           A!IsFirst, Account!Before, A!Before, Account!ByLogin, A!ByLogin,
           Account!Logins, A!Logins, Account!Existing, A!Existing, Account!Rows, A!Rows,
           Account!OnlyReads, A!OnlyReads, Account!observed, A!observed
<1>9. Account!Delete(p) <=> A!Delete(p)
    BY DEF Account!Delete, A!Delete, Account!Deleted, A!Deleted, Account!EndRequest,
           A!EndRequest, Account!observed, A!observed
<1>10. Account!Abandon(p) <=> A!Abandon(p)
    BY DEF Account!Abandon, A!Abandon, Account!EndRequest, A!EndRequest,
           Account!OnlyReads, A!OnlyReads, Account!observed, A!observed
<1> QED
    BY <1>1, <1>2, <1>3, <1>4, <1>5, <1>6, <1>7, <1>8, <1>9, <1>10

\* The steps of the SMS part.
LEMMA SmsNames ==
    ASSUME NEW p \in Procs
    PROVE  /\ \A ph \in Phones : Sms!Check(p, ph) <=> S!Check(p, ph)
           /\ Sms!Store(p) <=> S!Store(p)
           /\ Sms!StoreFails(p) <=> S!StoreFails(p)
           /\ Sms!Send(p) <=> S!Send(p)
           /\ \A ph \in Phones, c \in Codes : Sms!Find(p, ph, c) <=> S!Find(p, ph, c)
           /\ Sms!Pick(p) <=> S!Pick(p)
           /\ Sms!PickNothing(p) <=> S!PickNothing(p)
           /\ Sms!Save(p) <=> S!Save(p)
           /\ Sms!Abandon(p) <=> S!Abandon(p)
<1>1. \A ph \in Phones : Sms!Check(p, ph) <=> S!Check(p, ph)
    BY DEF Sms!Check, S!Check, Sms!RateLimited, S!RateLimited, Sms!IsLast, S!IsLast,
           Sms!Before, S!Before, Sms!To, S!To, Sms!Rows, S!Rows, Sms!Generated,
           S!Generated, Sms!Begin, S!Begin, Sms!observed, S!observed
<1>2. Sms!Store(p) <=> S!Store(p)
    BY DEF Sms!Store, S!Store, Sms!Rows, S!Rows, Sms!Now, S!Now, Sms!Created, S!Created,
           Sms!NewRecord, S!NewRecord, Sms!CutToSecond, S!CutToSecond
<1>3. /\ Sms!StoreFails(p) <=> S!StoreFails(p)
      /\ Sms!Send(p) <=> S!Send(p)
    BY DEF Sms!StoreFails, S!StoreFails, Sms!Send, S!Send, Sms!EndRequest, S!EndRequest, Sms!observed, S!observed
<1>4. \A ph \in Phones, c \in Codes : Sms!Find(p, ph, c) <=> S!Find(p, ph, c)
    BY DEF Sms!Find, S!Find, Sms!Valid, S!Valid, Sms!Unused, S!Unused, Sms!To, S!To,
           Sms!Rows, S!Rows, Sms!Begin, S!Begin, Sms!Logging, S!Logging
<1>5. /\ Sms!Pick(p) <=> S!Pick(p)
      /\ Sms!PickNothing(p) <=> S!PickNothing(p)
    BY DEF Sms!Pick, S!Pick, Sms!IsFirst, S!IsFirst, Sms!Before, S!Before,
           Sms!PickNothing, S!PickNothing, Sms!Unused, S!Unused, Sms!To, S!To,
           Sms!Rows, S!Rows, Sms!Accept, S!Accept, Sms!EndRequest, S!EndRequest,
           Sms!observed, S!observed
<1>6. Sms!Save(p) <=> S!Save(p)
    BY DEF Sms!Save, S!Save, Sms!Saved, S!Saved, Sms!Marked, S!Marked, Sms!Accept,
           S!Accept, Sms!EndRequest, S!EndRequest
<1>7. Sms!Abandon(p) <=> S!Abandon(p)
    BY DEF Sms!Abandon, S!Abandon, Sms!EndRequest, S!EndRequest, Sms!observed, S!observed
<1> QED
    BY <1>1, <1>2, <1>3, <1>4, <1>5, <1>6, <1>7

\* A part that takes no step keeps its invariant.
LEMMA PartsAtRest ==
    /\ S!Inv /\ UNCHANGED <<clock, smsVars>> => S!Inv'
    /\ A!Inv /\ UNCHANGED <<clock, accVars>> => A!Inv'
    /\ T!Inv /\ UNCHANGED <<clock, tokVars>> => T!Inv'
<1>1. S!Inv /\ UNCHANGED <<clock, smsVars>> => S!Inv'
    BY PartAssumptions, S!NextKeepsInv DEF smsVars, S!vars, S!request, S!observed
<1>2. A!Inv /\ UNCHANGED <<clock, accVars>> => A!Inv'
    BY PartAssumptions, A!NextKeepsInv DEF accVars, A!vars, A!observed
<1>3. T!Inv /\ UNCHANGED <<clock, tokVars>> => T!Inv'
    BY PartAssumptions, T!NextKeepsInv DEF tokVars, T!vars
<1> QED
    BY <1>1, <1>2, <1>3

\* The steps of a part keep its invariant.
LEMMA PartsKeepInv ==
    ASSUME NEW p \in Procs
    PROVE  /\ S!Inv /\ (\/ \E ph \in Phones : S!Check(p, ph)
                        \/ S!Store(p) \/ S!StoreFails(p) \/ S!Send(p)
                        \/ \E ph \in Phones, c \in Codes : S!Find(p, ph, c)
                        \/ S!Pick(p) \/ S!PickNothing(p) \/ S!Save(p) \/ S!Abandon(p))
              => S!Inv'
           /\ A!Inv /\ (\/ A!Registration(p) \/ A!SmsLogin(p) \/ A!OwnAccount(p)
                        \/ A!Administration(p) \/ A!Abandon(p))
              => A!Inv'
           /\ T!Inv /\ (\/ \E u \in UserIds : T!Login(p, u)
                        \/ \E r \in T!Handed : T!LoadExpired(p, r) \/ T!LoadHit(p, r)
                        \/ T!Mint(p) \/ T!Purge(p) \/ T!Upsert(p) \/ T!DropAccess(p)
                        \/ T!DropRefresh(p) \/ T!Answer(p) \/ T!Abandon(p))
              => T!Inv'
<1>1. ASSUME S!Inv, NEW ph \in Phones, NEW c \in Codes, S!Find(p, ph, c) PROVE S!Inv'
    BY <1>1, PartAssumptions, S!FindKeepsInv
<1>2. ASSUME S!Inv,
             \/ \E ph \in Phones : S!Check(p, ph)
             \/ S!Store(p) \/ S!StoreFails(p) \/ S!Send(p)
             \/ S!Pick(p) \/ S!PickNothing(p) \/ S!Save(p) \/ S!Abandon(p)
      PROVE  S!Inv'
  <2>1. S!Next
      BY <1>2 DEF S!Next, S!Request
  <2> QED
      BY <1>2, <2>1, PartAssumptions, S!NextKeepsInv
<1>3. ASSUME A!Inv,
             \/ A!Registration(p) \/ A!SmsLogin(p) \/ A!OwnAccount(p)
             \/ A!Administration(p) \/ A!Abandon(p)
      PROVE  A!Inv'
  <2>1. A!Next
      BY <1>3 DEF A!Next
  <2> QED
      BY <1>3, <2>1, PartAssumptions, A!NextKeepsInv
<1>4. ASSUME T!Inv,
             \/ \E u \in UserIds : T!Login(p, u)
             \/ \E r \in T!Handed : T!LoadExpired(p, r) \/ T!LoadHit(p, r)
             \/ T!Mint(p) \/ T!Purge(p) \/ T!Upsert(p) \/ T!DropAccess(p)
             \/ T!DropRefresh(p) \/ T!Answer(p) \/ T!Abandon(p)
      PROVE  T!Inv'
  <2>1. T!Next
      BY <1>4 DEF T!Next, T!Request, T!Load
  <2> QED
      BY <1>4, <2>1, PartAssumptions, T!NextKeepsInv
<1> QED
    BY <1>1, <1>2, <1>3, <1>4

-------------------------------------------------------------------------------
(* What steps have in common. *)

\* p takes a step; the other requests are where they were.
Turn(p) ==
    \A q \in Procs \ {p} :
        /\ smsPc'[q] = smsPc[q] /\ accPc'[q] = accPc[q] /\ tokPc'[q] = tokPc[q]
        /\ who'[q] = who[q] /\ copy'[q] = copy[q] /\ stage'[q] = stage[q]

\* Within a tick accounts stay what they are or are deleted.
PeopleStay ==
    /\ clock' = clock
    /\ \A i \in UserIds :
         /\ born[i] # None => born'[i] = born[i]
         /\ A!Has(users, i) => A!Has(users', i) \/ deletedAt'[i] = clock
         /\ deletedAt'[i] \in {deletedAt[i], clock}

\* The types of what ties the parts together.
LEMMA TiesHaveTypes ==
    ASSUME Inv
    PROVE  /\ clock \in Nat
           /\ \A p \in Procs : /\ stage[p].user \in UserIds \cup {None}
                               /\ stage[p].phone \in Phones \cup {None}
                               /\ accPc[p] = "write" => who[p] \in UserIds
           /\ \A r \in T!Minted : /\ r \in Refreshes /\ origin[r] \in T!Origin
                                  /\ origin[r].user \in UserIds /\ origin[r].since \in Nat
           /\ None \notin UserIds /\ None \notin Nat
<1>1. A!TypeOK /\ (\A p \in Procs : A!Ready(accPc[p], who[p], copy[p])) /\ T!TypeOK
    BY DEF Inv, A!Inv, T!Inv
<1>2. \A p \in Procs : accPc[p] = "write" => who[p] \in UserIds
    BY <1>1 DEF A!Ready, A!Writing
<1>3. \A p \in Procs : /\ stage[p].user \in UserIds \cup {None}
                       /\ stage[p].phone \in Phones \cup {None}
    BY DEF Inv, StageTypeOK, Stage
<1>4. \A r \in T!Minted : /\ r \in Refreshes /\ origin[r] \in T!Origin
                          /\ origin[r].user \in UserIds /\ origin[r].since \in Nat
    BY <1>1 DEF T!TypeOK, T!Minted, T!Origin
<1> QED
    BY <1>1, <1>2, <1>3, <1>4, ProviderParameters DEF A!TypeOK

\* What is known of requests that take no step stays known.
LEMMA OthersStay ==
    ASSUME Inv, PeopleStay, NEW p \in Procs, Turn(p), OnePart(p)', KnowsUser(p)'
    PROVE  (\A q \in Procs : OnePart(q) /\ KnowsUser(q))'
<1> SUFFICES ASSUME NEW q \in Procs PROVE (OnePart(q) /\ KnowsUser(q))'
    OBVIOUS
<1>1. CASE q = p
    BY <1>1
<1>2. CASE q # p
  <2>1. OnePart(q) /\ KnowsUser(q)
      BY DEF Inv
  <2>2. /\ smsPc'[q] = smsPc[q] /\ accPc'[q] = accPc[q] /\ tokPc'[q] = tokPc[q]
        /\ who'[q] = who[q] /\ copy'[q] = copy[q] /\ stage'[q] = stage[q]
      BY <1>2 DEF Turn
  <2>3. ASSUME NEW u \in UserIds, Recent(u) PROVE Recent(u)'
      BY <2>3 DEF PeopleStay, Recent, A!Has
  <2>4. /\ stage[q].user \in UserIds \cup {None}
        /\ accPc[q] = "write" => who[q] \in UserIds /\ born[who[q]] # None
    <3>1. accPc[q] = "write" => A!IsItself(who[q], copy[q]) /\ who[q] \in UserIds
        BY DEF Inv, A!Inv, A!Ready, A!Writing
    <3>2. A!IsItself(who[q], copy[q]) => born[who[q]] # None
        BY PartAssumptions, A!UserFields DEF A!IsItself
    <3> QED
        BY <3>1, <3>2, TiesHaveTypes
  <2>5. OnePart(q)'
      BY <2>1, <2>2 DEF OnePart
  <2>6. KnowsUser(q)'
      BY <2>1, <2>2, <2>3, <2>4 DEF KnowsUser, PeopleStay
  <2> QED
      BY <2>5, <2>6
<1> QED
    BY <1>1, <1>2

\* What is known of sign-ins stays known.
LEMMA SignInsStay ==
    ASSUME Inv, PeopleStay, UNCHANGED <<origin, via>>
    PROVE  SignInsKnowUsers'
<1>1. T!Minted' = T!Minted
    BY DEF T!Minted
<1>2. ASSUME NEW r \in T!Minted
      PROVE  LET u == origin[r].user
             IN /\ origin[r].since <= clock
                /\ \/ A!Has(users', u)
                   \/ deletedAt'[u] # None /\ origin[r].since <= deletedAt'[u]
                /\ born'[u] # None
                /\ via[r] # None => born'[u].phone = via[r]
  <2>1. /\ origin[r].user \in UserIds /\ origin[r].since \in Nat /\ clock \in Nat
        /\ clock # None
      BY TiesHaveTypes
  <2> QED
      BY <2>1 DEF Inv, SignInsKnowUsers, PeopleStay
<1>3. \A r \in Refreshes \ T!Minted : via[r] = None
    BY DEF Inv, SignInsKnowUsers
<1> QED
    BY <1>1, <1>2, <1>3 DEF SignInsKnowUsers, PeopleStay, A!Has

\* A step of one request keeps the invariant if it keeps the invariants of the parts
\* and what is known of this request, of sign-ins and of pairs.
LEMMA StepKeepsInv ==
    ASSUME Inv, NEW p \in Procs, Turn(p), PeopleStay,
           S!Inv', A!Inv', T!Inv', StageTypeOK', OnePart(p)', KnowsUser(p)',
           SignInsKnowUsers', PairsAreTimely'
    PROVE  Inv'
BY OthersStay DEF Inv

\* Without a token step nothing changes about pairs.
LEMMA PairsStay ==
    ASSUME Inv, UNCHANGED <<clock, tokVars>>
    PROVE  PairsAreTimely'
BY DEF Inv, PairsAreTimely, Timely, tokVars, T!JWT

-------------------------------------------------------------------------------
(* The SMS part. *)

\* A step of the SMS part leaves the other parts alone.
LEMMA InSmsKeepsInv ==
    ASSUME Inv, NEW p \in Procs, InSms(p), S!Inv', clock' = clock,
           \A q \in Procs \ {p} : smsPc'[q] = smsPc[q],
           \/ stage' = stage
           \/ /\ smsPc'[p] = "idle"
              /\ \E ph \in Phones : Comes(p, [phone |-> ph, user |-> None])
    PROVE  Inv'
<1>1. UNCHANGED <<clock, accVars, tokVars, via, deletedAt>>
    BY DEF InSms
<1>2. OnePart(p) /\ KnowsUser(p) /\ StageTypeOK
    BY DEF Inv
<1>3. accPc[p] = "idle" /\ tokPc[p] = "idle" /\ stage[p] = Begun
    BY <1>2 DEF InSms, NoRequest, OnePart
<1>4. \A q \in Procs \ {p} : stage'[q] = stage[q]
    BY <1>2 DEF Comes, StageTypeOK
<1>5. stage'[p] = Begun \/ (smsPc'[p] = "idle" /\ stage'[p].user = None)
    BY <1>2, <1>3 DEF Comes, StageTypeOK
<1>6. Turn(p) /\ PeopleStay
  <2>1. Turn(p)
      BY <1>1, <1>4 DEF Turn, accVars, tokVars
  <2>2. PeopleStay
      BY <1>1 DEF PeopleStay, accVars
  <2> QED
      BY <2>1, <2>2
<1>7. A!Inv' /\ T!Inv' /\ PairsAreTimely' /\ SignInsKnowUsers'
    BY <1>1, <1>6, PartsAtRest, PairsStay, SignInsStay DEF Inv, tokVars
<1>8. StageTypeOK'
  <2>1. \A ph \in Phones : [phone |-> ph, user |-> None] \in Stage
      BY DEF Stage
  <2> QED
      BY <1>1, <1>2, <2>1 DEF StageTypeOK, Comes
<1>9. OnePart(p)'
    BY <1>1, <1>3, <1>5 DEF OnePart, accVars, tokVars
<1>10. KnowsUser(p)'
    BY <1>1, <1>3, <1>5 DEF KnowsUser, accVars, Begun
<1> QED
    BY <1>6, <1>7, <1>8, <1>9, <1>10, StepKeepsInv

\* Messages are sent and codes looked up.
LEMMA SmsStepKeepsInv ==
    ASSUME Inv, NEW p \in Procs, SmsStep(p)
    PROVE  Inv'
<1>1. \/ \E ph \in Phones : S!Check(p, ph)
      \/ S!Store(p) \/ S!StoreFails(p) \/ S!Send(p)
      \/ \E ph \in Phones, c \in Codes : S!Find(p, ph, c)
      \/ S!Pick(p) \/ S!Abandon(p)
    BY SmsNames DEF SmsStep
<1>2. S!Inv'
    BY <1>1, PartsKeepInv DEF Inv
<1>3. clock' = clock /\ \A q \in Procs \ {p} : smsPc'[q] = smsPc[q]
    BY <1>1 DEF S!Check, S!Store, S!StoreFails, S!Send, S!Find, S!Pick, S!Abandon,
                S!Begin, S!EndRequest, Inv, S!Inv, S!TypeOK
<1> QED
    BY <1>2, <1>3, InSmsKeepsInv DEF SmsStep

\* A code is accepted, and the request goes on with the number.
LEMMA CodeAcceptedKeepsInv ==
    ASSUME Inv, NEW p \in Procs, CodeAccepted(p)
    PROVE  Inv'
<1>1. S!PickNothing(p) \/ S!Save(p)
    BY SmsNames DEF CodeAccepted
<1>2. S!Inv'
    BY <1>1, PartsKeepInv DEF Inv
<1>3. /\ clock' = clock /\ smsPc' = [smsPc EXCEPT ![p] = "idle"]
      /\ smsPc[p] \in {"pick", "save"}
    BY <1>1 DEF S!PickNothing, S!Save, S!Accept, S!EndRequest
<1>4. phone[p] \in Phones
    BY <1>3 DEF Inv, S!Inv, S!RequestsKnowTheirCode
<1>5. smsPc'[p] = "idle" /\ \A q \in Procs \ {p} : smsPc'[q] = smsPc[q]
    BY <1>3 DEF Inv, S!Inv, S!TypeOK
<1> QED
    BY <1>2, <1>3, <1>4, <1>5, InSmsKeepsInv DEF CodeAccepted

-------------------------------------------------------------------------------
(* The account part. *)

\* A step of the account part leaves the other parts alone.
LEMMA AccountStepKeepsInv ==
    ASSUME Inv, NEW p \in Procs, PeopleStay, A!Inv',
           UNCHANGED <<smsVars, tokVars, via>>,
           smsPc[p] = "idle" /\ tokPc[p] = "idle",
           \A q \in Procs \ {p} :
             accPc'[q] = accPc[q] /\ who'[q] = who[q] /\ copy'[q] = copy[q],
           NEW to \in Stage, Comes(p, to),
           deletedAt' \in [UserIds -> Nat \cup {None}],
           accPc'[p] # "idle" => to.user = None,
           accPc'[p] \notin {"idle", "write", "create"} => to = Begun,
           KnowsUser(p)'
    PROVE  Inv'
<1>1. stage' = [stage EXCEPT ![p] = to] /\ stage'[p] = to /\ StageTypeOK
    BY DEF Comes, Inv, StageTypeOK
<1>2. clock' = clock
    BY DEF PeopleStay
<1>3. S!Inv' /\ T!Inv' /\ PairsAreTimely' /\ SignInsKnowUsers'
    BY <1>2, PartsAtRest, PairsStay, SignInsStay DEF Inv, tokVars
<1>4. StageTypeOK'
    BY <1>1 DEF StageTypeOK
<1>5. Turn(p)
    BY <1>1 DEF Turn, smsVars, tokVars, StageTypeOK
<1>6. OnePart(p)'
    BY <1>1 DEF OnePart, smsVars, tokVars
<1> QED
    BY <1>3, <1>4, <1>5, <1>6, StepKeepsInv

\* Where a request to the account part is.
LEMMA AtAccounts ==
    ASSUME Inv, NEW p \in Procs,
           accPc[p] # "idle" \/ NoRequest(p) \/ stage[p] # Begun
    PROVE  smsPc[p] = "idle" /\ tokPc[p] = "idle"
BY DEF Inv, OnePart, NoRequest

\* As long as no user is written, people stay.
LEMMA ReadersLeavePeople ==
    ASSUME UNCHANGED <<clock, users, born, deletedAt>>
    PROVE  PeopleStay
BY DEF PeopleStay

\* The stages of requests.
LEMMA Stages ==
    /\ Begun \in Stage /\ Begun.user = None /\ Begun.phone = None
    /\ \A ph \in Phones \cup {None}, i \in UserIds \cup {None} :
         [phone |-> ph, user |-> i] \in Stage
    /\ \A s \in Stage, i \in UserIds : [s EXCEPT !.user = i] \in Stage
BY DEF Begun, Stage

\* What the steps of the account part leave of other requests.
LEMMA AccountTurn ==
    ASSUME Inv, NEW p \in Procs, NEW s, NEW u, NEW i,
           accPc' = [accPc EXCEPT ![p] = s],
           copy' = copy \/ copy' = [copy EXCEPT ![p] = u],
           who' = who \/ who' = [who EXCEPT ![p] = i]
    PROVE  /\ accPc'[p] = s
           /\ copy'[p] = IF copy' = copy THEN copy[p] ELSE u
           /\ who'[p] = IF who' = who THEN who[p] ELSE i
           /\ \A q \in Procs \ {p} :
                accPc'[q] = accPc[q] /\ who'[q] = who[q] /\ copy'[q] = copy[q]
BY DEF Inv, A!Inv, A!TypeOK

\* The account of the number is looked up.
LEMMA SmsAccountKeepsInv ==
    ASSUME Inv, NEW p \in Procs, SmsAccount(p)
    PROVE  Inv'
<1> DEFINE ph == stage[p].phone
<1>1. /\ ph # None /\ stage[p].user = None /\ accPc[p] = "idle"
      /\ UNCHANGED <<smsVars, tokVars, via, deletedAt>>
      /\ stage \in [Procs -> Stage] /\ stage[p] \in Stage
    BY DEF SmsAccount, Inv, StageTypeOK
<1>2. ph \in Phones
    BY <1>1 DEF Stage
<1>3. smsPc[p] = "idle" /\ tokPc[p] = "idle"
    BY <1>1, AtAccounts, Stages
<1>4. Comes(p, stage[p]) <=> stage' = stage
    BY <1>1 DEF Comes
<1>5. deletedAt' \in [UserIds -> Nat \cup {None}]
    BY <1>1 DEF Inv, StageTypeOK
<1> HIDE DEF ph
<1>6. ASSUME A!SmsUnknown(p, ph), UNCHANGED stage
      PROVE  Inv'
  <2>1. A!Inv'
      BY <1>2, <1>6, PartsKeepInv DEF A!SmsLogin, Inv
  <2>2. /\ accPc' = [accPc EXCEPT ![p] = "create"]
        /\ copy' = [copy EXCEPT ![p] = A!FromSms(ph)] /\ who' = who
        /\ UNCHANGED <<clock, users, born>>
      BY <1>6 DEF A!SmsUnknown, A!Proves, A!Builds
  <2>3. /\ accPc'[p] = "create" /\ copy'[p] = A!FromSms(ph)
        /\ \A q \in Procs \ {p} :
             accPc'[q] = accPc[q] /\ who'[q] = who[q] /\ copy'[q] = copy[q]
      BY <2>2, AccountTurn DEF Inv, A!Inv, A!TypeOK
  <2>4. KnowsUser(p)'
      BY <1>1, <1>6, <2>3 DEF KnowsUser, A!FromSms, A!NewUser, ph
  <2>5. PeopleStay
      BY <1>1, <2>2, ReadersLeavePeople
  <2> QED
      BY <1>1, <1>3, <1>4, <1>5, <1>6, <2>1, <2>3, <2>4, <2>5, AccountStepKeepsInv
<1>7. ASSUME NEW i \in UserIds, A!SmsUnverified(p, ph, i), UNCHANGED stage
      PROVE  Inv'
  <2>1. A!Inv'
      BY <1>2, <1>7, PartsKeepInv DEF A!SmsLogin, Inv
  <2>2. /\ accPc' = [accPc EXCEPT ![p] = "write"]
        /\ copy' = [copy EXCEPT ![p] = [users[i] EXCEPT !.verified = TRUE]]
        /\ who' = [who EXCEPT ![p] = i]
        /\ UNCHANGED <<clock, users, born>>
        /\ i \in A!Existing /\ users[i].phone = ph
      BY <1>7 DEF A!SmsUnverified, A!Proves, A!Holds, A!First, A!IsFirst, A!ByPhone
  <2>3. /\ accPc'[p] = "write" /\ who'[p] = i
        /\ \A q \in Procs \ {p} :
             accPc'[q] = accPc[q] /\ who'[q] = who[q] /\ copy'[q] = copy[q]
      BY <2>2, AccountTurn DEF Inv, A!Inv, A!TypeOK
  <2>4. A!Has(users, i) /\ born[i].phone = ph
    <3>1. A!IsItself(i, users[i])
        BY <2>2, PartAssumptions, A!StoredUsers DEF Inv
    <3> QED
        BY <2>2, <3>1 DEF A!IsItself, A!IdentityOf, A!Existing, A!Rows, A!Has
  <2>5. KnowsUser(p)'
      BY <1>1, <1>7, <2>2, <2>3, <2>4 DEF KnowsUser, Recent, A!Has, ph
  <2>6. PeopleStay
      BY <1>1, <2>2, ReadersLeavePeople
  <2> QED
      BY <1>1, <1>3, <1>4, <1>5, <1>7, <2>1, <2>3, <2>5, <2>6, AccountStepKeepsInv
<1>8. ASSUME NEW i \in UserIds, A!SmsVerified(p, ph, i),
             Comes(p, [phone |-> ph, user |-> i])
      PROVE  Inv'
  <2>1. A!Inv'
      BY <1>2, <1>8, PartsKeepInv DEF A!SmsLogin, Inv
  <2>2. /\ UNCHANGED <<clock, users, born, accPc, who, copy>>
        /\ i \in A!Existing /\ users[i].phone = ph
      BY <1>8 DEF A!SmsVerified, A!Proves, A!First, A!IsFirst, A!ByPhone
  <2>3. A!Has(users, i) /\ born[i].phone = ph /\ born[i] # None
    <3>1. A!IsItself(i, users[i]) /\ born[i] # None
        BY <2>2, PartAssumptions, A!StoredUsers DEF Inv
    <3> QED
        BY <2>2, <3>1 DEF A!IsItself, A!IdentityOf, A!Existing, A!Rows, A!Has
  <2>4. stage'[p] = [phone |-> ph, user |-> i]
      BY <1>1, <1>8 DEF Comes
  <2>5. KnowsUser(p)'
      BY <1>1, <2>2, <2>3, <2>4 DEF KnowsUser, Recent, A!Has
  <2>6. PeopleStay
      BY <1>1, <2>2, ReadersLeavePeople
  <2>7. [phone |-> ph, user |-> i] \in Stage
      BY <1>2, Stages
  <2> QED
      BY <1>1, <1>3, <1>5, <1>8, <2>1, <2>2, <2>5, <2>6, <2>7, AccountStepKeepsInv
<1>9. \/ A!SmsUnknown(p, ph) /\ UNCHANGED stage
      \/ \E i \in UserIds :
           \/ A!SmsUnverified(p, ph, i) /\ UNCHANGED stage
           \/ A!SmsVerified(p, ph, i) /\ Comes(p, [phone |-> ph, user |-> i])
    BY <1>2, AccountNames DEF SmsAccount, ph
<1> QED
    BY <1>6, <1>7, <1>8, <1>9

\* The end of a request to the account part.
LEMMA AccountEnd ==
    ASSUME Inv, NEW p \in Procs, A!EndRequest(p)
    PROVE  /\ accPc'[p] = "idle"
           /\ \A q \in Procs \ {p} :
                accPc'[q] = accPc[q] /\ who'[q] = who[q] /\ copy'[q] = copy[q]
BY DEF A!EndRequest, Inv, A!Inv, A!TypeOK

\* The verified number is written, or that write fails.
LEMMA AccountVerifiedKeepsInv ==
    ASSUME Inv, NEW p \in Procs, AccountVerified(p)
    PROVE  Inv'
<1> DEFINE to == [stage[p] EXCEPT !.user = who[p]]
<1>1. /\ InAccounts(p) /\ accPc[p] = "write" /\ deletedAt' = deletedAt
      /\ A!WriteBack(p) \/ A!Abandon(p)
      /\ Comes(p, to)
    BY AccountNames DEF AccountVerified, A!WriteBack, A!WritesBack
<1>2. /\ A!EndRequest(p) /\ UNCHANGED <<clock, born, smsVars, tokVars, via>>
      /\ users' = users \/ users' = [users EXCEPT ![who[p]] = copy[p]]
    BY <1>1 DEF A!WriteBack, A!WritesBack, A!Saved, A!Abandon, A!OnlyReads, A!observed,
                InAccounts
<1>3. A!Inv'
    BY <1>1, PartsKeepInv DEF A!OwnAccount, Inv
<1>4. /\ who[p] \in UserIds /\ copy[p] # None
      /\ KnowsUser(p) /\ stage[p] \in Stage /\ stage \in [Procs -> Stage]
      /\ born[who[p]] # None
  <2>1. A!IsItself(who[p], copy[p]) /\ who[p] \in UserIds
      BY <1>1 DEF Inv, A!Inv, A!Ready, A!Writing
  <2>2. copy[p] # None /\ A!IdentityOf(copy[p]) # None
      BY <2>1, PartAssumptions, A!UserFields DEF A!IsItself
  <2> QED
      BY <2>1, <2>2 DEF Inv, StageTypeOK, A!IsItself
<1>5. PeopleStay
  <2>1. ASSUME NEW i \in UserIds, A!Has(users, i) PROVE A!Has(users', i)
      BY <1>2, <1>4, <2>1 DEF A!Has, Inv, A!Inv, A!TypeOK
  <2> QED
      BY <1>1, <1>2, <2>1 DEF PeopleStay
<1>6. /\ to \in Stage /\ to.user = who[p] /\ to.phone = stage[p].phone
      /\ stage'[p] = to
    BY <1>1, <1>4, Stages DEF Comes, Stage
<1> HIDE DEF to
<1>7. KnowsUser(p)'
  <2>1. A!Has(users', who[p]) \/ deletedAt'[who[p]] = clock
      BY <1>1, <1>4, <1>5 DEF KnowsUser, Recent, PeopleStay, A!Has
  <2> QED
      BY <1>1, <1>2, <1>4, <1>6, <2>1, AccountEnd DEF KnowsUser, Recent, A!Has
<1>8. smsPc[p] = "idle" /\ tokPc[p] = "idle"
    BY <1>1, AtAccounts
<1>9. deletedAt' \in [UserIds -> Nat \cup {None}]
    BY <1>1 DEF Inv, StageTypeOK
<1> QED
    BY <1>1, <1>2, <1>3, <1>5, <1>6, <1>7, <1>8, <1>9, AccountEnd, AccountStepKeepsInv

\* A registration is checked, an administrator's deletion is prepared.
LEMMA ReadingKeepsInv ==
    ASSUME Inv, NEW p \in Procs, RegisterStep(p) \/ DeleteStep(p)
    PROVE  Inv'
<1> DEFINE Reads ==
             /\ A!Registration(p) \/ A!Administration(p)
             /\ UNCHANGED <<clock, users, born>>
             /\ accPc[p] \in {"idle", "registerEmail", "registerPhone", "deleteFind"}
             /\ \E s \in {"idle", "registerEmail", "registerPhone", "create",
                          "deleteFind", "delete"} : accPc' = [accPc EXCEPT ![p] = s]
             /\ \A q \in Procs \ {p} : who'[q] = who[q] /\ copy'[q] = copy[q]
<1>1. InAccounts(p) /\ UNCHANGED <<stage, deletedAt>>
    BY DEF RegisterStep, DeleteStep
<1>2. ASSUME NEW name \in Names, NEW ph \in Phones \cup {None},
             NEW password \in Passwords, A!RegisterName(p, name, None, ph, password)
      PROVE  Reads
    BY <1>2 DEF A!RegisterName, A!Registration, A!Builds, A!Called, A!OnlyReads,
                A!observed, Inv, A!Inv, A!TypeOK
<1>3. ASSUME A!RegisterEmail(p) \/ A!RegisterPhone(p) PROVE Reads
    BY <1>3 DEF A!RegisterEmail, A!RegisterPhone, A!Registration, A!Builds, A!Goes,
                A!EndRequest, A!OnlyReads, A!observed, Inv, A!Inv, A!TypeOK
<1>4. ASSUME NEW i \in UserIds, A!Authorize(p, i, "delete", "deleteFind") PROVE Reads
    BY <1>4 DEF A!Authorize, A!Administration, A!Called, A!OnlyReads, A!observed,
                Inv, A!Inv, A!TypeOK
<1>5. ASSUME NEW i \in UserIds, NEW login \in Logins, A!DeleteFind(p, login, i)
      PROVE  Reads
    BY <1>5 DEF A!DeleteFind, A!Administration, A!OnlyReads, A!observed, Logins, A!Texts,
                Inv, A!Inv, A!TypeOK
<1>6. Reads
  <2>1. CASE RegisterStep(p)
      BY <1>2, <1>3, <2>1, AccountNames DEF RegisterStep
  <2>2. CASE DeleteStep(p)
      BY <1>4, <1>5, <2>2, AccountNames DEF DeleteStep
  <2> QED
      BY <2>1, <2>2
<1>7. A!Inv'
    BY <1>6, PartsKeepInv DEF Inv
<1>8. PeopleStay
    BY <1>1, <1>6, ReadersLeavePeople
<1>9. stage[p] = Begun /\ Comes(p, Begun) /\ stage'[p] = Begun
    BY <1>1, <1>6 DEF InAccounts, NoRequest, Comes, Inv, OnePart, StageTypeOK
<1>10. /\ accPc'[p] # "write"
       /\ \A q \in Procs \ {p} :
            accPc'[q] = accPc[q] /\ who'[q] = who[q] /\ copy'[q] = copy[q]
    BY <1>6 DEF Inv, A!Inv, A!TypeOK
<1>11. KnowsUser(p)'
    BY <1>9, <1>10, Stages DEF KnowsUser
<1>12. deletedAt' \in [UserIds -> Nat \cup {None}]
    BY <1>1 DEF Inv, StageTypeOK
<1>13. smsPc[p] = "idle" /\ tokPc[p] = "idle" /\ UNCHANGED <<smsVars, tokVars, via>>
    BY <1>1, AtAccounts DEF InAccounts
<1> HIDE DEF Reads
<1> QED
    BY <1>7, <1>8, <1>9, <1>10, <1>11, <1>12, <1>13, Stages, AccountStepKeepsInv

\* The account is inserted.
LEMMA AccountMadeKeepsInv ==
    ASSUME Inv, NEW p \in Procs, AccountMade(p)
    PROVE  Inv'
<1>1. PICK i \in UserIds : A!Create(p, i) /\ Comes(p, [stage[p] EXCEPT !.user = i])
    BY AccountNames DEF AccountMade
<1> DEFINE to == [stage[p] EXCEPT !.user = i]
<1>2. /\ InAccounts(p) /\ UNCHANGED <<clock, deletedAt, smsVars, tokVars, via>>
      /\ accPc[p] = "create" /\ A!EndRequest(p) /\ Comes(p, to)
    BY <1>1 DEF AccountMade, InAccounts, A!Create
<1>3. PICK u \in A!Dated(p) : A!Insert(i, u)
    BY <1>1 DEF A!Create
<1>4. copy[p] \in A!User
    BY <1>2 DEF Inv, A!Inv, A!Ready, A!Building
<1>5. u \in A!User /\ u.phone = copy[p].phone /\ u # None
      /\ A!IdentityOf(u) # None /\ A!IdentityOf(u).phone = u.phone
  <2>1. u \in A!User /\ u.phone = copy[p].phone
      BY <1>3, <1>4, PartAssumptions, A!DatedUsers DEF Inv
  <2> QED
      BY <2>1, PartAssumptions, A!UserFields DEF A!IdentityOf
<1>6. /\ born[i] = None /\ born' = [born EXCEPT ![i] = A!IdentityOf(u)]
      /\ users' = [users EXCEPT ![i] = IF @ = None THEN u ELSE @]
    BY <1>3 DEF A!Insert, A!Created
<1>7. born'[i] = A!IdentityOf(u) /\ A!Has(users', i)
    BY <1>5, <1>6 DEF Inv, A!Inv, A!TypeOK, A!Has
<1>8. PeopleStay
  <2>1. ASSUME NEW j \in UserIds, A!Has(users, j) PROVE A!Has(users', j)
      BY <1>6, <2>1 DEF Inv, A!Inv, A!TypeOK, A!Has
  <2>2. ASSUME NEW j \in UserIds, born[j] # None PROVE born'[j] = born[j]
      BY <1>6, <2>2 DEF Inv, A!Inv, A!TypeOK
  <2> QED
      BY <1>2, <2>1, <2>2 DEF PeopleStay
<1>9. A!Inv'
    BY <1>1, PartsKeepInv DEF A!Registration, Inv
<1>10. /\ stage \in [Procs -> Stage] /\ stage[p] \in Stage /\ KnowsUser(p)
    BY DEF Inv, StageTypeOK
<1>11. /\ to \in Stage /\ to.user = i /\ to.phone = stage[p].phone
       /\ stage'[p] = to
    BY <1>2, <1>10, Stages DEF Comes, Stage
<1> HIDE DEF to
<1>12. KnowsUser(p)'
    BY <1>2, <1>5, <1>7, <1>10, <1>11, AccountEnd DEF KnowsUser, Recent, A!Has
<1>13. smsPc[p] = "idle" /\ tokPc[p] = "idle"
    BY <1>2, AtAccounts
<1>14. deletedAt' \in [UserIds -> Nat \cup {None}]
    BY <1>2 DEF Inv, StageTypeOK
<1> QED
    BY <1>2, <1>8, <1>9, <1>11, <1>12, <1>13, <1>14, AccountEnd, AccountStepKeepsInv

\* The user is deleted.
LEMMA DeleteDoneKeepsInv ==
    ASSUME Inv, NEW p \in Procs, DeleteDone(p)
    PROVE  Inv'
<1>1. /\ InAccounts(p) /\ A!Delete(p) /\ stage' = stage
      /\ deletedAt' = [deletedAt EXCEPT ![who[p]] = clock]
    BY AccountNames DEF DeleteDone
<1>2. /\ accPc[p] = "delete" /\ users' = [users EXCEPT ![who[p]] = None]
      /\ A!EndRequest(p) /\ UNCHANGED <<clock, born, smsVars, tokVars, via>>
    BY <1>1 DEF A!Delete, A!Deleted, A!observed, InAccounts
<1>3. who[p] \in UserIds /\ stage[p] = Begun /\ clock \in Nat
    BY <1>2 DEF Inv, A!Inv, A!Ready, A!TypeOK, OnePart
<1>4. A!Inv'
    BY <1>1, PartsKeepInv DEF A!Administration, Inv
<1>5. /\ deletedAt' \in [UserIds -> Nat \cup {None}]
      /\ deletedAt'[who[p]] = clock
      /\ \A i \in UserIds : deletedAt'[i] \in {deletedAt[i], clock}
    BY <1>1, <1>3 DEF Inv, StageTypeOK
<1>6. PeopleStay
  <2>1. ASSUME NEW i \in UserIds, A!Has(users, i), i # who[p] PROVE A!Has(users', i)
      BY <1>2, <2>1 DEF Inv, A!Inv, A!TypeOK, A!Has
  <2> QED
      BY <1>2, <1>5, <2>1 DEF PeopleStay
<1>7. Comes(p, Begun) /\ stage'[p] = Begun
    BY <1>1, <1>3 DEF Comes, Inv, StageTypeOK
<1>8. KnowsUser(p)'
    BY <1>2, <1>7, AccountEnd, Stages DEF KnowsUser
<1>9. smsPc[p] = "idle" /\ tokPc[p] = "idle"
    BY <1>2, AtAccounts
<1>10. /\ accPc'[p] = "idle"
       /\ \A q \in Procs \ {p} :
            accPc'[q] = accPc[q] /\ who'[q] = who[q] /\ copy'[q] = copy[q]
    BY <1>2, AccountEnd
<1>11. UNCHANGED <<smsVars, tokVars, via>> /\ deletedAt' \in [UserIds -> Nat \cup {None}]
    BY <1>2, <1>5
<1> QED
    BY <1>4, <1>6, <1>7, <1>8, <1>9, <1>10, <1>11, Stages, AccountStepKeepsInv

\* A request fails in or before the account part.
LEMMA AccountFailsKeepsInv ==
    ASSUME Inv, NEW p \in Procs, AccountFails(p)
    PROVE  Inv'
<1>1. /\ Comes(p, Begun) /\ UNCHANGED <<smsVars, tokVars, via, deletedAt>>
      /\ \/ A!Abandon(p)
         \/ accPc[p] = "idle" /\ stage[p] # Begun /\ UNCHANGED <<clock, accVars>>
    BY AccountNames DEF AccountFails
<1>2. stage'[p] = Begun /\ deletedAt' \in [UserIds -> Nat \cup {None}]
    BY <1>1 DEF Comes, Inv, StageTypeOK
<1>3. /\ smsPc[p] = "idle" /\ tokPc[p] = "idle" /\ accPc'[p] = "idle"
      /\ UNCHANGED <<clock, users, born>>
      /\ \A q \in Procs \ {p} :
           accPc'[q] = accPc[q] /\ who'[q] = who[q] /\ copy'[q] = copy[q]
      /\ A!Inv'
  <2>1. CASE A!Abandon(p)
    <3>1. /\ A!EndRequest(p) /\ accPc[p] # "idle" /\ UNCHANGED <<clock, users, born>>
        BY <2>1 DEF A!Abandon, A!OnlyReads, A!observed
    <3>2. A!Inv'
        BY <2>1, PartsKeepInv DEF Inv
    <3> QED
        BY <3>1, <3>2, AtAccounts, AccountEnd
  <2>2. CASE accPc[p] = "idle" /\ stage[p] # Begun /\ UNCHANGED <<clock, accVars>>
    <3>1. A!Inv'
        BY <2>2, PartsAtRest DEF Inv
    <3> QED
        BY <2>2, <3>1, AtAccounts DEF accVars
  <2> QED
      BY <1>1, <2>1, <2>2
<1>4. KnowsUser(p)'
    BY <1>2, <1>3, Stages DEF KnowsUser
<1>5. PeopleStay
    BY <1>1, <1>3, ReadersLeavePeople
<1> QED
    BY <1>1, <1>2, <1>3, <1>4, <1>5, Stages, AccountStepKeepsInv

-------------------------------------------------------------------------------
(* The token part. *)

\* A step of the token part leaves the other parts alone.
LEMMA TokenStepKeepsInv ==
    ASSUME Inv, NEW p \in Procs, T!Inv', clock' = clock,
           UNCHANGED <<smsVars, accVars, deletedAt>>,
           smsPc[p] = "idle" /\ accPc[p] = "idle",
           \A q \in Procs \ {p} : tokPc'[q] = tokPc[q],
           Comes(p, Begun),
           via' \in [Refreshes -> Phones \cup {None}],
           SignInsKnowUsers', PairsAreTimely'
    PROVE  Inv'
<1>1. stage' = [stage EXCEPT ![p] = Begun] /\ stage'[p] = Begun /\ StageTypeOK
    BY DEF Comes, Inv, StageTypeOK
<1>2. S!Inv' /\ A!Inv'
    BY PartsAtRest DEF Inv
<1>3. PeopleStay
    BY ReadersLeavePeople DEF accVars
<1>4. StageTypeOK'
    BY <1>1, Stages DEF StageTypeOK
<1>5. Turn(p)
    BY <1>1 DEF Turn, smsVars, accVars, StageTypeOK
<1>6. OnePart(p)'
    BY <1>1 DEF OnePart, smsVars, accVars
<1>7. KnowsUser(p)'
    BY <1>1, Stages DEF KnowsUser, accVars
<1> QED
    BY <1>2, <1>3, <1>4, <1>5, <1>6, <1>7, StepKeepsInv

\* Tokens are issued to a user who has just signed in.
LEMMA SigningInKeepsInv ==
    ASSUME Inv, NEW p \in Procs, NEW u \in UserIds, T!Login(p, u),
           UNCHANGED <<smsVars, accVars, deletedAt>>,
           smsPc[p] = "idle" /\ accPc[p] = "idle",
           Comes(p, Begun),
           Recent(u), born[u] # None,
           NEW ph \in Phones \cup {None}, ph # None => born[u].phone = ph,
           via' = [via EXCEPT ![tok'[p].refresh] = ph] \/ (via' = via /\ ph = None)
    PROVE  Inv'
<1>1. PICK r \in T!Fresh :
         /\ tok' = [tok EXCEPT ![p] =
                [user |-> u, access |-> T!JWT(u, clock), refresh |-> r,
                 acreate |-> clock, rcreate |-> clock]]
         /\ origin' = [origin EXCEPT ![r] =
                [user |-> u, since |-> clock, parent |-> None,
                 access |-> T!JWT(u, clock)]]
    BY DEF T!Login
<1> DEFINE t == [user |-> u, access |-> T!JWT(u, clock), refresh |-> r,
                 acreate |-> clock, rcreate |-> clock]
           o == [user |-> u, since |-> clock, parent |-> None,
                 access |-> T!JWT(u, clock)]
<1>2. /\ clock' = clock /\ UNCHANGED <<rows, old, answered>>
      /\ tokPc' = [tokPc EXCEPT ![p] = "purge"]
    BY DEF T!Login
<1>3. T!Inv'
    BY PartsKeepInv DEF Inv
<1>4. r \in Refreshes /\ origin[r] = None /\ r \notin T!Minted
    BY DEF T!Fresh, T!Minted
<1>5. tok'[p] = t /\ t.refresh = r /\ T!TypeOK /\ T!TypeOK'
    BY <1>1, <1>3 DEF Inv, T!Inv, T!TypeOK
<1>6. via' = [via EXCEPT ![r] = ph]
  <2>1. via \in [Refreshes -> Phones \cup {None}] /\ via[r] = None
      BY <1>4 DEF Inv, StageTypeOK, SignInsKnowUsers
  <2> QED
      BY <1>4, <1>5, <2>1
<1>7. origin' = [origin EXCEPT ![r] = o] /\ o.user = u /\ o.since = clock /\ o # None
  <2>1. o \in T!Origin
    <3>1. clock \in Nat
        BY <1>5 DEF T!TypeOK
    <3>2. T!JWT(u, clock) \in T!Access
        BY <3>1, PartAssumptions, T!JWTType
    <3> QED
        BY <3>1, <3>2 DEF T!Origin
  <2> QED
      BY <1>1, <2>1, PartAssumptions DEF T!NoneIsNoOrigin
<1> HIDE DEF o
<1>8. /\ T!Minted' = T!Minted \cup {r}
      /\ origin'[r] = o /\ via'[r] = ph
      /\ \A q \in Refreshes \ {r} : origin'[q] = origin[q] /\ via'[q] = via[q]
      /\ via' \in [Refreshes -> Phones \cup {None}]
    BY <1>4, <1>5, <1>6, <1>7 DEF T!TypeOK, T!Minted, Inv, StageTypeOK
<1>9. SignInsKnowUsers'
  <2>1. clock \in Nat /\ clock # None
      BY TiesHaveTypes
  <2>2. ASSUME NEW q \in T!Minted'
        PROVE  LET v == origin'[q].user
               IN /\ origin'[q].since <= clock
                  /\ \/ A!Has(users, v)
                     \/ deletedAt[v] # None /\ origin'[q].since <= deletedAt[v]
                  /\ born[v] # None
                  /\ via'[q] # None => born[v].phone = via'[q]
    <3>1. CASE q = r
        BY <1>7, <1>8, <2>1, <3>1 DEF Recent
    <3>2. CASE q # r
      <4>1. q \in T!Minted /\ origin'[q] = origin[q] /\ via'[q] = via[q]
          BY <1>8, <3>2 DEF T!Minted
      <4> QED
          BY <4>1 DEF Inv, SignInsKnowUsers
    <3> QED
        BY <3>1, <3>2
  <2>3. \A q \in Refreshes \ T!Minted' : via'[q] = None
      BY <1>8 DEF Inv, SignInsKnowUsers
  <2> QED
      BY <1>2, <2>2, <2>3 DEF SignInsKnowUsers, accVars, A!Has
<1>10. PairsAreTimely'
  <2>1. clock \in Nat /\ RefreshExp \in Nat
      BY TiesHaveTypes, ProviderParameters
  <2>2. Timely(t) /\ \A s : Timely(s)' <=> Timely(s)
      BY <2>1 DEF Timely, T!JWT
  <2>3. \A q \in Procs \ {p} : tok'[q] = tok[q] /\ tokPc'[q] = tokPc[q]
      BY <1>1, <1>2, <1>5 DEF T!TypeOK
  <2>4. tokPc'[p] = "purge"
      BY <1>2, <1>5 DEF T!TypeOK
  <2> HIDE DEF t
  <2>5. ASSUME NEW q \in Procs
        PROVE  /\ tok'[q] # None => Timely(tok'[q])
               /\ tokPc'[q] = "mint" => clock <= old[q].rcreate + RefreshExp
      BY <1>5, <2>2, <2>3, <2>4 DEF Inv, PairsAreTimely
  <2>6. (\A s \in answered : Timely(s)) /\ (\A row \in rows : Timely(row.data))
      BY DEF Inv, PairsAreTimely
  <2> QED
      BY <1>2, <2>5, <2>6 DEF PairsAreTimely, Timely, T!JWT
<1>11. \A q \in Procs \ {p} : tokPc'[q] = tokPc[q]
    BY <1>2, <1>5 DEF T!TypeOK
<1> QED
    BY <1>2, <1>3, <1>8, <1>9, <1>10, <1>11, TokenStepKeepsInv

\* Tokens for an SMS login or a registration.
LEMMA IssueKeepsInv ==
    ASSUME Inv, NEW p \in Procs, Issue(p)
    PROVE  Inv'
<1> DEFINE u == stage[p].user
           ph == stage[p].phone
<1>1. /\ u \in UserIds /\ ph \in Phones \cup {None} /\ u # None
      /\ Recent(u) /\ born[u] # None /\ (ph # None => born[u].phone = ph)
      /\ smsPc[p] = "idle" /\ accPc[p] = "idle"
    BY TiesHaveTypes, Stages DEF Issue, Inv, KnowsUser, OnePart
<1>2. T!Login(p, u)
    BY <1>1, TokenNames DEF Issue
<1>3. /\ via' = [via EXCEPT ![tok'[p].refresh] = ph]
      /\ Comes(p, Begun) /\ UNCHANGED <<smsVars, accVars, deletedAt>>
    BY DEF Issue
<1> HIDE DEF u, ph
<1> QED
    BY <1>1, <1>2, <1>3, SigningInKeepsInv

\* Tokens for a login with a password.
LEMMA PasswordLoginKeepsInv ==
    ASSUME Inv, NEW p \in Procs, PasswordLogin(p)
    PROVE  Inv'
<1>1. PICK login \in Logins, password \in Passwords, u \in UserIds :
         Account!SignsIn(login, password, u) /\ Token!Login(p, u)
    BY DEF PasswordLogin
<1>2. /\ NoRequest(p) /\ UNCHANGED <<smsVars, accVars, deletedAt, stage, via>>
    BY DEF PasswordLogin, InTokens, NoRequest
<1>3. T!Login(p, u)
    BY <1>1, TokenNames
<1>4. u \in A!Existing
    BY <1>1 DEF Account!SignsIn, Account!First, Account!IsFirst, Account!ByLogin,
                Account!Existing, Account!Rows, A!Existing, A!Rows
<1>5. A!Has(users, u) /\ born[u] # None
    BY <1>4, PartAssumptions, A!StoredUsers DEF Inv, A!Has
<1>6. Comes(p, Begun)
    BY <1>2 DEF Comes, NoRequest, Inv, StageTypeOK
<1> QED
    BY <1>2, <1>3, <1>5, <1>6, SigningInKeepsInv DEF NoRequest, Recent

\* A refresh has loaded a pair and generates the next one.
LEMMA MintKeepsInv ==
    ASSUME Inv, NEW p \in Procs, T!Mint(p), InTokens(p), UNCHANGED <<stage, via>>
    PROVE  Inv'
<1>1. PICK r \in T!Fresh :
         /\ tok' = [tok EXCEPT ![p] =
                [user |-> old[p].user, access |-> T!JWT(old[p].user, clock), refresh |-> r,
                 acreate |-> clock, rcreate |-> old[p].rcreate]]
         /\ origin' = [origin EXCEPT ![r] =
                [user |-> origin[old[p].refresh].user, since |-> origin[old[p].refresh].since,
                 parent |-> old[p].refresh, access |-> T!JWT(old[p].user, clock)]]
    BY DEF T!Mint
<1> DEFINE was == origin[old[p].refresh]
           t == [user |-> old[p].user, access |-> T!JWT(old[p].user, clock), refresh |-> r,
                 acreate |-> clock, rcreate |-> old[p].rcreate]
           o == [user |-> was.user, since |-> was.since, parent |-> old[p].refresh,
                 access |-> T!JWT(old[p].user, clock)]
<1>2. /\ clock' = clock /\ UNCHANGED <<rows, old, answered, stage, via>>
      /\ tokPc[p] = "mint" /\ tokPc' = [tokPc EXCEPT ![p] = "purge"]
      /\ UNCHANGED <<smsVars, accVars, deletedAt>>
    BY DEF T!Mint, InTokens
<1>3. T!Inv'
    BY PartsKeepInv DEF Inv
<1>4. r \in Refreshes /\ origin[r] = None /\ r \notin T!Minted
    BY DEF T!Fresh, T!Minted
<1>5. tok'[p] = t /\ T!TypeOK
    BY <1>1 DEF Inv, T!Inv, T!TypeOK
<1>6. /\ old[p] \in T!Token /\ old[p].refresh \in T!Minted /\ old[p].rcreate \in Nat
      /\ was \in T!Origin
  <2>1. old[p] \in T!Token /\ old[p].refresh \in Refreshes /\ old[p].rcreate \in Nat
      BY <1>2, <1>5 DEF Inv, T!Inv, T!RequestsHoldPairs, T!TypeOK, T!Token
  <2>2. was # None
      BY <1>2 DEF Inv, T!Inv, T!RequestsHoldPairs, T!Known
  <2> QED
      BY <1>5, <2>1, <2>2 DEF T!Minted, T!TypeOK
<1>7. origin' = [origin EXCEPT ![r] = o] /\ o.user = was.user /\ o.since = was.since
      /\ o # None
  <2>1. o \in T!Origin
    <3>1. clock \in Nat /\ old[p].user \in UserIds
        BY <1>5, <1>6 DEF T!TypeOK, T!Token
    <3>2. T!JWT(old[p].user, clock) \in T!Access
        BY <3>1, PartAssumptions, T!JWTType
    <3> QED
        BY <1>6, <3>1, <3>2 DEF T!Origin, T!Minted
  <2> QED
      BY <1>1, <2>1, PartAssumptions DEF T!NoneIsNoOrigin
<1> HIDE DEF o
<1>8. /\ T!Minted' = T!Minted \cup {r}
      /\ origin'[r] = o /\ via[r] = None
      /\ \A q \in Refreshes \ {r} : origin'[q] = origin[q]
    BY <1>4, <1>5, <1>7 DEF T!TypeOK, T!Minted, Inv, SignInsKnowUsers
<1>9. SignInsKnowUsers'
  <2>1. ASSUME NEW q \in T!Minted'
        PROVE  LET v == origin'[q].user
               IN /\ origin'[q].since <= clock
                  /\ \/ A!Has(users, v)
                     \/ deletedAt[v] # None /\ origin'[q].since <= deletedAt[v]
                  /\ born[v] # None
                  /\ via[q] # None => born[v].phone = via[q]
    <3>1. CASE q = r
        BY <1>6, <1>7, <1>8, <3>1 DEF Inv, SignInsKnowUsers
    <3>2. CASE q # r
      <4>1. q \in T!Minted /\ origin'[q] = origin[q]
          BY <1>8, <3>2 DEF T!Minted
      <4> QED
          BY <4>1 DEF Inv, SignInsKnowUsers
    <3> QED
        BY <3>1, <3>2
  <2>2. \A q \in Refreshes \ T!Minted' : via[q] = None
      BY <1>8 DEF Inv, SignInsKnowUsers
  <2> QED
      BY <1>2, <2>1, <2>2 DEF SignInsKnowUsers, accVars, A!Has
<1>10. PairsAreTimely'
  <2>1. Timely(t) /\ \A s : Timely(s)' <=> Timely(s)
      BY <1>2 DEF Timely, T!JWT, Inv, PairsAreTimely
  <2>2. \A q \in Procs \ {p} : tok'[q] = tok[q] /\ tokPc'[q] = tokPc[q]
      BY <1>1, <1>2, <1>5 DEF T!TypeOK
  <2>3. tokPc'[p] = "purge"
      BY <1>2, <1>5 DEF T!TypeOK
  <2> HIDE DEF t
  <2>4. ASSUME NEW q \in Procs
        PROVE  /\ tok'[q] # None => Timely(tok'[q])
               /\ tokPc'[q] = "mint" => clock <= old[q].rcreate + RefreshExp
      BY <1>5, <2>1, <2>2, <2>3 DEF Inv, PairsAreTimely
  <2>5. (\A s \in answered : Timely(s)) /\ (\A row \in rows : Timely(row.data))
      BY DEF Inv, PairsAreTimely
  <2> QED
      BY <1>2, <2>4, <2>5 DEF PairsAreTimely, Timely, T!JWT
<1>11. \A q \in Procs \ {p} : tokPc'[q] = tokPc[q]
    BY <1>2, <1>5 DEF T!TypeOK
<1>12. smsPc[p] = "idle" /\ accPc[p] = "idle" /\ Comes(p, Begun)
    BY <1>2 DEF Inv, OnePart, Comes, StageTypeOK
<1>13. via' \in [Refreshes -> Phones \cup {None}]
    BY <1>2 DEF Inv, StageTypeOK
<1> QED
    BY <1>2, <1>3, <1>9, <1>10, <1>11, <1>12, <1>13, TokenStepKeepsInv

\* The steps that mint nothing, in which a row or an answer has only pairs that were
\* on a row, in an answer or about to be stored.
LEMMA StoringKeepsInv ==
    ASSUME Inv, NEW p \in Procs, T!Inv', InTokens(p), UNCHANGED <<stage, via>>,
           UNCHANGED <<clock, origin>>,
           NEW s,
           \/ UNCHANGED <<tokPc, old>>
           \/ /\ tokPc' = [tokPc EXCEPT ![p] = s] /\ s # "mint"
              /\ old' = old \/ old' = [old EXCEPT ![p] = None]
           \/ /\ tokPc' = [tokPc EXCEPT ![p] = "mint"]
              /\ \E row \in rows : /\ ~T!RefreshExpired(row, clock)
                                   /\ old' = [old EXCEPT ![p] = row.data],
           tok' = tok \/ tok' = [tok EXCEPT ![p] = None],
           \A row \in rows' : row.data = tok[p] \/ \E w \in rows : row.data = w.data,
           \A t \in answered' : t = tok[p] \/ t \in answered
    PROVE  Inv'
<1>1. /\ T!TypeOK /\ UNCHANGED <<smsVars, accVars, deletedAt>>
    BY DEF Inv, T!Inv, InTokens
<1>2. /\ smsPc[p] = "idle" /\ accPc[p] = "idle" /\ stage[p] = Begun
      /\ Comes(p, Begun) /\ \A q \in Procs \ {p} : tokPc'[q] = tokPc[q]
    BY <1>1 DEF Inv, OnePart, InTokens, NoRequest, Comes, StageTypeOK, T!TypeOK
<1>3. SignInsKnowUsers'
  <2>1. PeopleStay
      BY <1>1, ReadersLeavePeople DEF accVars
  <2> QED
      BY <2>1, SignInsStay
<1>4. PairsAreTimely'
  <2>1. \A t : Timely(t)' <=> Timely(t)
      BY DEF Timely, T!JWT
  <2>2. tok[p] # None => Timely(tok[p])
      BY DEF Inv, PairsAreTimely
  <2>3. \A row \in rows' : Timely(row.data)
    <3>1. \A row \in rows' : row.data # None
        BY PartAssumptions DEF T!NoneIsNoValue, T!Inv, T!TypeOK, T!Row
    <3> QED
        BY <2>2, <3>1 DEF Inv, PairsAreTimely
  <2>4. \A t \in answered' : Timely(t)
    <3>1. None \notin answered'
        BY PartAssumptions DEF T!NoneIsNoValue, T!Inv, T!TypeOK
    <3> QED
        BY <2>2, <3>1 DEF Inv, PairsAreTimely
  <2>5. ASSUME NEW q \in Procs
        PROVE  tok'[q] # None => Timely(tok'[q])
      BY <1>1 DEF Inv, PairsAreTimely, T!TypeOK
  <2>6. ASSUME NEW q \in Procs, tokPc'[q] = "mint"
        PROVE  clock <= old'[q].rcreate + RefreshExp
    <3>1. CASE tokPc[q] = "mint" /\ old'[q] = old[q]
        BY <3>1 DEF Inv, PairsAreTimely
    <3>2. ASSUME q = p, NEW row \in rows, ~T!RefreshExpired(row, clock),
                 old' = [old EXCEPT ![p] = row.data]
          PROVE  clock <= old'[q].rcreate + RefreshExp
      <4>1. old'[p] = row.data
          BY <1>1, <3>2 DEF T!TypeOK
      <4>2. row.data.rcreate \in Nat /\ RefreshExp \in Nat /\ clock \in Nat
          BY <1>1, ProviderParameters DEF T!TypeOK, T!Row, T!Token
      <4> QED
          BY <3>2, <4>1, <4>2 DEF T!RefreshExpired
    <3> QED
        BY <1>1, <2>6, <3>1, <3>2 DEF T!TypeOK
  <2> QED
      BY <2>1, <2>3, <2>4, <2>5, <2>6 DEF PairsAreTimely
<1>5. via' \in [Refreshes -> Phones \cup {None}]
    BY DEF Inv, StageTypeOK
<1> QED
    BY <1>1, <1>2, <1>3, <1>4, <1>5, TokenStepKeepsInv

\* The rest of a request that issues tokens, and the loading of a refresh token.
LEMMA TokenStepsKeepInv ==
    ASSUME Inv, NEW p \in Procs, TokenStep(p)
    PROVE  Inv'
<1>1. InTokens(p) /\ UNCHANGED <<stage, via>> /\ T!OneRowPerPair(rows)
      /\ rows \subseteq T!Row /\ old \in [Procs -> T!Token \cup {None}]
    BY PartAssumptions, T!RowsArePairs DEF TokenStep, Inv, T!Inv, T!TypeOK
<1>2. \/ \E t \in answered : T!LoadExpired(p, t.refresh) \/ T!LoadHit(p, t.refresh)
      \/ T!Mint(p) \/ T!Purge(p) \/ T!Upsert(p) \/ T!DropAccess(p) \/ T!DropRefresh(p)
      \/ T!Answer(p)
      \/ (tokPc[p] = "mint" /\ T!Abandon(p))
    BY TokenNames DEF TokenStep
<1>3. T!Inv'
    BY <1>2, PartsKeepInv DEF Inv, T!Handed
<1>4. ASSUME NEW t \in answered, T!LoadExpired(p, t.refresh) PROVE Inv'
  <2>1. /\ UNCHANGED <<clock, tokPc, tok, old, origin, answered>>
        /\ rows' = rows \/ rows' = T!RefreshDetached(rows, t.refresh)
      BY <1>4 DEF T!LoadExpired
  <2>2. \A row \in T!RefreshDetached(rows, t.refresh) : \E w \in rows : row.data = w.data
      BY <1>1 DEF T!RefreshDetached, T!Row
  <2> QED
      BY <1>1, <1>3, <2>1, <2>2, StoringKeepsInv
<1>5. ASSUME NEW t \in answered, T!LoadHit(p, t.refresh) PROVE Inv'
    BY <1>1, <1>3, <1>5, StoringKeepsInv DEF T!LoadHit
<1>6. CASE T!Mint(p)
    BY <1>1, <1>6, MintKeepsInv
<1>7. CASE T!Purge(p)
    BY <1>1, <1>3, <1>7, StoringKeepsInv DEF T!Purge, T!Purged
<1>8. CASE T!Upsert(p)
  <2>1. /\ tokPc' = [tokPc EXCEPT ![p] = IF old[p] = None THEN "answer" ELSE "dropAccess"]
        /\ UNCHANGED <<clock, tok, old, origin, answered>>
        /\ \A row \in rows' : row.data = tok[p] \/ \E w \in rows : row.data = w.data
      BY <1>8 DEF T!Upsert, T!Upserted
  <2> QED
      BY <1>1, <1>3, <2>1, StoringKeepsInv
<1>9. CASE T!DropAccess(p) \/ T!DropRefresh(p)
  <2>1. \A k : \A row \in T!AccessDetached(rows, k) \cup T!RefreshDetached(rows, k) :
           \E w \in rows : row.data = w.data
      BY <1>1 DEF T!AccessDetached, T!RefreshDetached, T!Row
  <2> QED
      BY <1>1, <1>3, <1>9, <2>1, StoringKeepsInv DEF T!DropAccess, T!DropRefresh
<1>10. CASE T!Answer(p)
    BY <1>1, <1>3, <1>10, StoringKeepsInv DEF T!Answer, T!EndRequest
<1>11. CASE tokPc[p] = "mint" /\ T!Abandon(p)
    BY <1>1, <1>3, <1>11, StoringKeepsInv DEF T!Abandon, T!EndRequest
<1> QED
    BY <1>2, <1>4, <1>5, <1>6, <1>7, <1>8, <1>9, <1>10, <1>11

-------------------------------------------------------------------------------
(* All steps. *)

\* Time passes between requests.
LEMMA TickKeepsInv ==
    ASSUME Inv, Tick
    PROVE  Inv'
<1>1. /\ clock < MaxClock /\ clock' = clock + 1 /\ clock \in Nat
      /\ \A p \in Procs : NoRequest(p)
      /\ UNCHANGED <<smsVars, accVars, tokVars, stage, via, deletedAt>>
    BY TiesHaveTypes DEF Tick
<1>2. S!Inv'
  <2>1. S!Tick
      BY <1>1 DEF S!Tick, smsVars, S!request, S!observed
  <2> QED
      BY <2>1, PartAssumptions, S!NextKeepsInv DEF S!Next, Inv
<1>3. A!Inv'
  <2>1. A!Tick
      BY <1>1 DEF A!Tick, accVars, A!observed
  <2> QED
      BY <2>1, PartAssumptions, A!NextKeepsInv DEF A!Next, Inv
<1>4. T!Inv'
  <2>1. T!Tick
      BY <1>1 DEF T!Tick, tokVars
  <2> QED
      BY <2>1, PartAssumptions, T!NextKeepsInv DEF T!Next, Inv
<1>5. StageTypeOK'
    BY <1>1 DEF Inv, StageTypeOK
<1>6. (\A p \in Procs : OnePart(p) /\ KnowsUser(p))'
    BY <1>1, Stages DEF NoRequest, OnePart, KnowsUser, smsVars, accVars, tokVars
<1>7. SignInsKnowUsers'
  <2>1. T!Minted' = T!Minted
      BY <1>1 DEF T!Minted, tokVars
  <2>2. \A r \in T!Minted : origin[r].since \in Nat
      BY TiesHaveTypes
  <2> QED
      BY <1>1, <2>1, <2>2 DEF Inv, SignInsKnowUsers, A!Has, accVars, tokVars
<1>8. PairsAreTimely'
    BY <1>1 DEF NoRequest, Inv, PairsAreTimely, Timely, T!JWT, tokVars
<1> QED
    BY <1>2, <1>3, <1>4, <1>5, <1>6, <1>7, <1>8 DEF Inv

\* The invariant holds at the start.
LEMMA InitInv == Init => Inv
<1> SUFFICES ASSUME Init PROVE Inv
    OBVIOUS
<1>1. S!Inv
  <2>1. S!Init
      BY DEF Init, Sms!Init, S!Init
  <2> QED
      BY <2>1, PartAssumptions, S!InitInv
<1>2. A!Inv
  <2>1. A!Init
      BY DEF Init, Account!Init, A!Init, Account!Idle, A!Idle, Account!Empty, A!Empty,
             Account!Created, A!Created, Account!Administrator, A!Administrator,
             Account!NewUser, A!NewUser, Account!IdentityOf, A!IdentityOf
  <2> QED
      BY <2>1, PartAssumptions, A!InitInv
<1>3. T!Inv
  <2>1. T!Init
      BY DEF Init, Token!Init, T!Init
  <2> QED
      BY <2>1, PartAssumptions, T!InitInv
<1>4. /\ smsPc = [p \in Procs |-> "idle"] /\ accPc = [p \in Procs |-> "idle"]
      /\ tokPc = [p \in Procs |-> "idle"] /\ tok = [p \in Procs |-> None]
      /\ rows = {} /\ answered = {} /\ origin = [r \in Refreshes |-> None]
      /\ stage = [p \in Procs |-> Begun] /\ via = [r \in Refreshes |-> None]
      /\ deletedAt = [i \in UserIds |-> None]
    BY DEF Init, Sms!Init, Account!Init, Account!Idle, Token!Init
<1>5. StageTypeOK
    BY <1>4, Stages DEF StageTypeOK
<1>6. \A p \in Procs : OnePart(p) /\ KnowsUser(p)
    BY <1>4, Stages DEF OnePart, KnowsUser
<1>7. SignInsKnowUsers
    BY <1>4 DEF SignInsKnowUsers, T!Minted
<1>8. PairsAreTimely
    BY <1>4 DEF PairsAreTimely
<1> QED
    BY <1>1, <1>2, <1>3, <1>5, <1>6, <1>7, <1>8 DEF Inv

\* Every step keeps the invariant.
LEMMA NextKeepsInv == Inv /\ [Next]_vars => Inv'
<1> SUFFICES ASSUME Inv, [Next]_vars PROVE Inv'
    OBVIOUS
<1>1. ASSUME NEW p \in Procs, Request(p) PROVE Inv'
    BY <1>1, SmsStepKeepsInv, CodeAcceptedKeepsInv, SmsAccountKeepsInv,
       AccountVerifiedKeepsInv, ReadingKeepsInv, AccountMadeKeepsInv, IssueKeepsInv,
       PasswordLoginKeepsInv, TokenStepsKeepInv, DeleteDoneKeepsInv, AccountFailsKeepsInv
       DEF Request
<1>2. CASE Tick
    BY <1>2, TickKeepsInv
<1>3. CASE UNCHANGED vars
  <2>1. S!Inv' /\ A!Inv' /\ T!Inv'
      BY <1>3, PartsAtRest DEF vars, Inv
  <2>2. PairsAreTimely' /\ SignInsKnowUsers'
    <3>1. PeopleStay
        BY <1>3, ReadersLeavePeople DEF vars, accVars
    <3> QED
        BY <1>3, <3>1, PairsStay, SignInsStay DEF vars, tokVars
  <2>3. StageTypeOK' /\ (\A p \in Procs : OnePart(p) /\ KnowsUser(p))'
      BY <1>3 DEF vars, smsVars, accVars, tokVars, Inv, StageTypeOK, OnePart, KnowsUser,
                  Recent, A!Has
  <2> QED
      BY <2>1, <2>2, <2>3 DEF Inv
<1> QED
    BY <1>1, <1>2, <1>3 DEF Next

\* The invariant holds of any number of users, messages, tokens and requests.
THEOREM Invariance == Spec => []Inv
BY InitInv, NextKeepsInv, PTL DEF Spec

ContestsTypeOK == contested \in SUBSET Phones

\* Contests are about phone numbers.
LEMMA ContestsAreNumbers == Spec => []ContestsTypeOK
<1>1. Init => ContestsTypeOK
    BY DEF Init, ContestsTypeOK
<1>2. ContestsTypeOK /\ [Next]_vars => ContestsTypeOK'
  <2> SUFFICES ASSUME ContestsTypeOK, [Next]_vars PROVE ContestsTypeOK'
      OBVIOUS
  <2>1. contested' = contested \/ ContestsNoted
      BY DEF Next, Request, Tick, vars, SmsStep, CodeAccepted, InSms, SmsAccount,
             AccountVerified, RegisterStep, AccountMade, Issue, PasswordLogin, TokenStep,
             InTokens, DeleteStep, DeleteDone, AccountFails
  <2> QED
      BY <2>1 DEF ContestsNoted, ContestsTypeOK
<1> QED
    BY <1>1, <1>2, PTL DEF Spec

\* Every variable of the provider keeps its type.
THEOREM TypeCorrect == Spec => []TypeOK
<1>1. Inv /\ ContestsTypeOK => TypeOK
  <2>1. S!TypeOK <=> Sms!TypeOK
      BY DEF S!TypeOK, Sms!TypeOK, S!Record, Sms!Record, S!Reading, Sms!Reading
  <2>2. A!TypeOK <=> Account!TypeOK
      BY DEF A!TypeOK, Account!TypeOK, A!User, Account!User, A!Hash, Account!Hash,
             A!Identity, Account!Identity, A!Texts, Account!Texts
  <2>3. T!TypeOK <=> Token!TypeOK
      BY DEF T!TypeOK, Token!TypeOK, T!Row, Token!Row, T!Token, Token!Token,
             T!Access, Token!Access, T!Origin, Token!Origin, T!Steps, Token!Steps
  <2> QED
      BY <2>1, <2>2, <2>3 DEF TypeOK, Inv, StageTypeOK, ContestsTypeOK, S!Inv, A!Inv, T!Inv
<1> QED
    BY <1>1, Invariance, ContestsAreNumbers, PTL

\* The pair of an answer is of a chain of refreshes, and its JWT ends with the
\* lifetimes of a refresh and of an access token after the sign-in.
LEMMA AnswersEnd ==
    ASSUME Inv, NEW t \in answered
    PROVE  /\ t.refresh \in T!Minted
           /\ origin[t.refresh].user = t.user
           /\ t.user \in UserIds
           /\ t.access.sub = t.user
           /\ origin[t.refresh].since \in Nat
           /\ t.access.exp <= origin[t.refresh].since + RefreshExp + AccessExp
<1>1. /\ t \in T!Token /\ T!Known(t) /\ Timely(t)
    BY DEF Inv, T!Inv, T!TypeOK, T!ParentsAreDead, PairsAreTimely
<1>2. /\ t.acreate \in Nat /\ t.rcreate \in Nat /\ t.user \in UserIds
      /\ t.refresh \in Refreshes /\ AccessExp \in Nat /\ RefreshExp \in Nat
    BY <1>1, ProviderParameters DEF T!Token
<1>3. t.access.exp = t.acreate + AccessExp /\ t.access.sub = t.user
    BY <1>1, <1>2 DEF Timely, T!JWT
<1> QED
    BY <1>1, <1>2, <1>3 DEF Timely, T!Known, T!Minted

\* A deleted user's sessions may be refreshed for a while, but the last JWT ends
\* with the lifetimes of a refresh and of an access token after the deletion.
THEOREM GhostsEnd == Spec => []GhostSessionsEnd
<1>1. Inv => GhostSessionsEnd
  <2> SUFFICES ASSUME Inv, NEW t \in answered, deletedAt[t.user] # None,
                      ~Account!Has(users, t.user),
                      clock >= deletedAt[t.user] + RefreshExp + AccessExp,
                      UserIDFrom(t.access, t.user)
               PROVE  FALSE
      BY DEF GhostSessionsEnd
  <2>1. /\ t.refresh \in T!Minted /\ origin[t.refresh].user = t.user
        /\ t.user \in UserIds /\ origin[t.refresh].since \in Nat
        /\ t.access.exp <= origin[t.refresh].since + RefreshExp + AccessExp
      BY AnswersEnd
  <2>2. origin[t.refresh].since <= deletedAt[t.user] /\ deletedAt[t.user] \in Nat
      BY <2>1 DEF Inv, SignInsKnowUsers, StageTypeOK, A!Has, Account!Has
  <2>3. clock < t.access.exp * 1 /\ t.access.exp \in Nat
      BY DEF UserIDFrom, AuthMiddleware, Token!JWTAccepted, Inv, T!Inv, T!TypeOK, T!Token,
             T!Access
  <2> QED
      BY <2>1, <2>2, <2>3, TiesHaveTypes, ProviderParameters
<1> QED
    BY <1>1, Invariance, PTL

\* However often tokens are refreshed, a JWT opens an account only within the
\* lifetimes of a refresh and of an access token after a sign-in of its user.
THEOREM InfoFollowsSignIn == Spec => []InfoNeedsSignIn
<1>1. Inv => InfoNeedsSignIn
  <2> SUFFICES ASSUME Inv, NEW t \in answered, NEW i \in UserIds, UserInfo(t.access, i)
               PROVE  \E r \in Token!Minted :
                         /\ origin[r].user = i
                         /\ clock < origin[r].since + RefreshExp + AccessExp
      BY DEF InfoNeedsSignIn
  <2>1. /\ t.refresh \in T!Minted /\ origin[t.refresh].user = t.access.sub
        /\ origin[t.refresh].since \in Nat
        /\ t.access.exp <= origin[t.refresh].since + RefreshExp + AccessExp
      BY AnswersEnd
  <2>2. clock < t.access.exp * 1 /\ t.access.exp \in Nat /\ t.access.sub = i
      BY DEF UserInfo, UserIDFrom, AuthMiddleware, Token!JWTAccepted, Inv, T!Inv, T!TypeOK,
             T!Token, T!Access
  <2>3. clock < origin[t.refresh].since + RefreshExp + AccessExp
      BY <2>1, <2>2, TiesHaveTypes, ProviderParameters
  <2> QED
      BY <2>1, <2>2, <2>3 DEF T!Minted, Token!Minted
<1> QED
    BY <1>1, Invariance, PTL

-------------------------------------------------------------------------------
(* Sign-ins by SMS are paid for. *)

SessionsKnown == \A ph \in Phones : SmsSessions(ph) = {r \in Refreshes : via[r] = ph}

\* The sessions of a number, by what is remembered of sign-ins alone.
LEMMA SessionsAre == Inv => SessionsKnown
BY ProviderParameters DEF SessionsKnown, Inv, SignInsKnowUsers, SmsSessions, T!Minted, Token!Minted

\* Sign-ins stay paid for as long as none comes on its way and no message is used up.
LEMMA PaidStays ==
    ASSUME Inv, Inv', SessionsArePaid, via' = via, slips' = slips,
           \A ph \in Phones : /\ IsFiniteSet(S!To(ph)') /\ Used(ph)' = Used(ph)
                              /\ Pending(ph)' \subseteq Pending(ph)
    PROVE  SessionsArePaid'
<1>1. \A ph \in Phones : SmsSessions(ph)' = SmsSessions(ph)
  <2>1. SessionsKnown /\ SessionsKnown'
      BY SessionsAre, PTL
  <2> QED
      BY <2>1 DEF SessionsKnown
<1> SUFFICES ASSUME NEW ph \in Phones
             PROVE  (/\ IsFiniteSet(S!To(ph)) /\ IsFiniteSet(SmsSessions(ph))
                     /\ IsFiniteSet(Pending(ph)) /\ IsFiniteSet(SlipsTo(ph))
                     /\ Cardinality(SmsSessions(ph)) + Cardinality(Pending(ph))
                          <= Cardinality(Used(ph)) + Cardinality(SlipsTo(ph)))'
    BY DEF SessionsArePaid
<1>2. /\ IsFiniteSet(S!To(ph)) /\ IsFiniteSet(SmsSessions(ph))
      /\ IsFiniteSet(Pending(ph)) /\ IsFiniteSet(SlipsTo(ph)) /\ IsFiniteSet(Used(ph))
      /\ Cardinality(SmsSessions(ph)) + Cardinality(Pending(ph))
           <= Cardinality(Used(ph)) + Cardinality(SlipsTo(ph))
    BY FS_Subset DEF SessionsArePaid, Used
<1>3. /\ Cardinality(SmsSessions(ph)) \in Nat /\ Cardinality(Pending(ph)) \in Nat
      /\ Cardinality(Used(ph)) \in Nat /\ Cardinality(SlipsTo(ph)) \in Nat
    BY <1>2, FS_CardinalityType
<1>4. /\ IsFiniteSet(Pending(ph)') /\ Cardinality(Pending(ph)') \in Nat
      /\ Cardinality(Pending(ph)') <= Cardinality(Pending(ph))
    BY <1>2, FS_Subset, FS_CardinalityType
<1>5. SlipsTo(ph)' = SlipsTo(ph)
    BY DEF SlipsTo
<1> QED
    BY <1>1, <1>2, <1>3, <1>4, <1>5

\* Messages are stored and codes looked up.
LEMMA SmsStepIsPaid ==
    ASSUME Inv, Inv', SessionsArePaid, NEW p \in Procs, SmsStep(p)
    PROVE  SessionsArePaid'
<1>1. /\ UNCHANGED <<via, stage>>
      /\ \/ \E ph \in Phones : S!Check(p, ph)
         \/ S!Store(p) \/ S!StoreFails(p) \/ S!Send(p)
         \/ \E ph \in Phones, c \in Codes : S!Find(p, ph, c)
         \/ S!Pick(p) \/ S!Abandon(p)
    BY SmsNames DEF SmsStep, InSms
<1>2. slips' = slips
    BY <1>1 DEF S!Check, S!Store, S!StoreFails, S!Send, S!Find, S!Pick, S!Abandon, S!observed
<1>3. \A ph \in Phones : IsFiniteSet(S!To(ph)') /\ Used(ph)' = Used(ph)
  <2>1. CASE S!Store(p)
    <3>1. PICK i \in CodeIds \ S!Rows(codes), t \in S!Now(p) :
             codes' = S!Created(codes, i, S!NewRecord(p, t))
        BY <2>1 DEF S!Store
    <3>2. S!TypeOK
        BY DEF Inv, S!Inv
    <3>3. /\ codes' = [codes EXCEPT ![i] = S!NewRecord(p, t)]
          /\ codes[i] = None /\ ~S!NewRecord(p, t).used
        BY <3>1, <3>2 DEF S!Created, S!Rows, S!TypeOK, S!NewRecord
    <3> SUFFICES ASSUME NEW ph \in Phones
                 PROVE  IsFiniteSet(S!To(ph)') /\ Used(ph)' = Used(ph)
        OBVIOUS
    <3>4. Used(ph)' = Used(ph)
        BY <3>2, <3>3 DEF Used, S!To, S!Rows, S!TypeOK
    <3>5. S!To(ph)' \subseteq S!To(ph) \cup {i}
        BY <3>2, <3>3 DEF S!To, S!Rows, S!TypeOK
    <3>6. IsFiniteSet(S!To(ph) \cup {i})
        BY FS_AddElement DEF SessionsArePaid
    <3> QED
        BY <3>4, <3>5, <3>6, FS_Subset
  <2>2. CASE codes' = codes
      BY <2>2 DEF SessionsArePaid, Used, S!To, S!Rows
  <2> QED
      BY <1>1, <2>1, <2>2 DEF S!Check, S!StoreFails, S!Send, S!Find, S!Pick, S!Abandon
<1>4. \A ph \in Phones : Pending(ph)' = Pending(ph)
    BY <1>1 DEF Pending
<1> QED
    BY <1>1, <1>2, <1>3, <1>4, PaidStays

\* A code is accepted: a message of its number is used up, or this is a slip.
LEMMA CodeAcceptedIsPaid ==
    ASSUME Inv, Inv', S!Marks, SessionsArePaid, NEW p \in Procs, CodeAccepted(p)
    PROVE  SessionsArePaid'
<1> DEFINE ph == phone[p]
           c == code[p]
           slip == <<ph, c, accepts[<<ph, c>>] + 1>>
<1>1. /\ via' = via
      /\ S!PickNothing(p) \/ S!Save(p)
      /\ stage' = [stage EXCEPT ![p] = [phone |-> ph, user |-> None]]
    BY SmsNames DEF CodeAccepted, InSms, Comes
<1>2. /\ ph \in Phones /\ c \in Codes /\ smsPc[p] \in {"pick", "save"}
      /\ stage[p] = Begun /\ stage \in [Procs -> Stage]
    BY <1>1 DEF S!PickNothing, S!Save, Inv, S!Inv, S!RequestsKnowTheirCode, OnePart, StageTypeOK
<1>3. \/ /\ slips' = slips
         /\ \E i \in S!Unused(ph, c) : codes' = [codes EXCEPT ![i] = S!Marked(codes[i])]
      \/ /\ slips' = slips \cup {slip} /\ slip \notin slips
         /\ \/ codes' = codes
            \/ \E i \in S!WithCode(ph, c) : codes' = [codes EXCEPT ![i] = S!Marked(codes[i])]
    BY <1>1, PartAssumptions, S!AcceptIsPaid DEF Inv
<1>4. slip[1] = ph
    OBVIOUS
<1> HIDE DEF ph, c, slip
<1>5. ASSUME NEW i \in S!WithCode(ph, c), codes' = [codes EXCEPT ![i] = S!Marked(codes[i])],
             NEW n \in Phones
      PROVE  /\ S!To(n)' = S!To(n)
             /\ n # ph => Used(n)' = Used(n)
             /\ n = ph => Used(n)' = Used(n) \cup {i}
  <2>1. /\ i \in CodeIds /\ codes'[i].used
        /\ \A j \in CodeIds \ {i} : codes'[j] = codes[j]
        /\ S!To(n)' = S!To(n)
      BY <1>2, <1>5, PartAssumptions, S!MarkUsesUp DEF Inv
  <2>2. i \in S!To(n) <=> n = ph
      BY <1>5 DEF S!WithCode, S!To
  <2>3. S!To(n) \subseteq CodeIds
      BY DEF S!To, S!Rows
  <2> QED
      BY <2>1, <2>2, <2>3 DEF Used
<1> SUFFICES ASSUME NEW n \in Phones
             PROVE  (/\ IsFiniteSet(S!To(n)) /\ IsFiniteSet(SmsSessions(n))
                     /\ IsFiniteSet(Pending(n)) /\ IsFiniteSet(SlipsTo(n))
                     /\ Cardinality(SmsSessions(n)) + Cardinality(Pending(n))
                          <= Cardinality(Used(n)) + Cardinality(SlipsTo(n)))'
    BY DEF SessionsArePaid
<1>6. /\ IsFiniteSet(S!To(n)) /\ IsFiniteSet(SmsSessions(n))
      /\ IsFiniteSet(Pending(n)) /\ IsFiniteSet(SlipsTo(n)) /\ IsFiniteSet(Used(n))
      /\ Cardinality(SmsSessions(n)) + Cardinality(Pending(n))
           <= Cardinality(Used(n)) + Cardinality(SlipsTo(n))
    BY FS_Subset DEF SessionsArePaid, Used
<1>7. /\ Cardinality(SmsSessions(n)) \in Nat /\ Cardinality(Pending(n)) \in Nat
      /\ Cardinality(Used(n)) \in Nat /\ Cardinality(SlipsTo(n)) \in Nat
    BY <1>6, FS_CardinalityType
<1>8. SmsSessions(n)' = SmsSessions(n)
  <2>1. SessionsKnown /\ SessionsKnown'
      BY SessionsAre, PTL
  <2> QED
      BY <1>1, <2>1 DEF SessionsKnown
<1>9. S!To(n)' = S!To(n)
  <2>1. CASE codes' = codes
      BY <2>1 DEF S!To, S!Rows
  <2> QED
      BY <1>3, <1>5, <2>1 DEF S!Unused, S!WithCode
<1>10. CASE n # ph
  <2>1. Pending(n)' = Pending(n)
      BY <1>1, <1>2, <1>10, Stages, ProviderParameters DEF Pending
  <2>2. SlipsTo(n)' = SlipsTo(n)
      BY <1>3, <1>4, <1>10 DEF SlipsTo
  <2>3. Used(n)' = Used(n)
    <3>1. CASE codes' = codes
        BY <3>1 DEF Used, S!To, S!Rows
    <3> QED
        BY <1>3, <1>5, <1>10, <3>1 DEF S!Unused, S!WithCode
  <2> QED
      BY <1>6, <1>8, <1>9, <2>1, <2>2, <2>3
<1>11. CASE n = ph
  <2>1. /\ IsFiniteSet(Pending(n)')
        /\ Cardinality(Pending(n)') = Cardinality(Pending(n)) + 1
    <3>1. p \notin Pending(n)
        BY <1>2, Stages, ProviderParameters DEF Pending
    <3>2. Pending(n)' = Pending(n) \cup {p}
        BY <1>1, <1>2, <1>11 DEF Pending
    <3> QED
        BY <1>6, <3>1, <3>2, FS_AddElement
  <2>2. CASE /\ slips' = slips
             /\ \E i \in S!Unused(ph, c) : codes' = [codes EXCEPT ![i] = S!Marked(codes[i])]
    <3>1. PICK i \in S!Unused(ph, c) : codes' = [codes EXCEPT ![i] = S!Marked(codes[i])]
        BY <2>2
    <3>2. i \in S!WithCode(ph, c) /\ i \notin Used(n)
        BY DEF S!Unused, S!WithCode, Used
    <3>3. Used(n)' = Used(n) \cup {i}
        BY <1>5, <1>11, <3>1, <3>2
    <3>4. Cardinality(Used(n)') = Cardinality(Used(n)) + 1
        BY <1>6, <3>2, <3>3, FS_AddElement
    <3>5. SlipsTo(n)' = SlipsTo(n)
        BY <2>2 DEF SlipsTo
    <3> QED
        BY <1>6, <1>7, <1>8, <1>9, <2>1, <3>4, <3>5
  <2>3. CASE /\ slips' = slips \cup {slip} /\ slip \notin slips
             /\ \/ codes' = codes
                \/ \E i \in S!WithCode(ph, c) :
                      codes' = [codes EXCEPT ![i] = S!Marked(codes[i])]
    <3>1. SlipsTo(n)' = SlipsTo(n) \cup {slip} /\ slip \notin SlipsTo(n)
        BY <1>4, <1>11, <2>3 DEF SlipsTo
    <3>2. /\ IsFiniteSet(SlipsTo(n)')
          /\ Cardinality(SlipsTo(n)') = Cardinality(SlipsTo(n)) + 1
        BY <1>6, <3>1, FS_AddElement
    <3>3. /\ Cardinality(Used(n)') \in Nat
          /\ Cardinality(Used(n)) <= Cardinality(Used(n)')
      <4>1. CASE codes' = codes
          BY <1>7, <4>1 DEF Used, S!To, S!Rows
      <4>2. ASSUME NEW i \in S!WithCode(ph, c),
                   codes' = [codes EXCEPT ![i] = S!Marked(codes[i])]
            PROVE  /\ Cardinality(Used(n)') \in Nat
                   /\ Cardinality(Used(n)) <= Cardinality(Used(n)')
        <5>1. Used(n)' = Used(n) \cup {i}
            BY <1>5, <1>11, <4>2
        <5>2. Cardinality(Used(n)') \in {Cardinality(Used(n)), Cardinality(Used(n)) + 1}
            BY <1>6, <5>1, FS_AddElement
        <5> QED
            BY <1>7, <5>2
      <4> QED
          BY <2>3, <4>1, <4>2
    <3> QED
        BY <1>6, <1>7, <1>8, <1>9, <2>1, <3>2, <3>3
  <2> QED
      BY <1>3, <2>2, <2>3
<1> QED
    BY <1>10, <1>11

\* A step of the account part uses no code up.
LEMMA AccountStepIsPaid ==
    ASSUME Inv, Inv', SessionsArePaid, NEW p \in Procs,
           \/ SmsAccount(p) \/ AccountVerified(p) \/ RegisterStep(p) \/ AccountMade(p)
           \/ DeleteStep(p) \/ DeleteDone(p) \/ AccountFails(p)
    PROVE  SessionsArePaid'
<1>1. UNCHANGED <<smsVars, via>>
    BY DEF SmsAccount, AccountVerified, RegisterStep, AccountMade, DeleteStep, DeleteDone,
           AccountFails, InAccounts
<1>2. slips' = slips /\ \A ph \in Phones : IsFiniteSet(S!To(ph)') /\ Used(ph)' = Used(ph)
    BY <1>1 DEF SessionsArePaid, Used, S!To, S!Rows, smsVars
<1>3. stage \in [Procs -> Stage] /\ stage[p] \in Stage
    BY DEF Inv, StageTypeOK
<1>4. \A q \in Procs : stage'[q].phone \in {stage[q].phone, None}
  <2>1. CASE stage' = stage \/ Comes(p, Begun)
      BY <1>3, <2>1, Stages DEF Comes
  <2>2. CASE \E i : Comes(p, [stage[p] EXCEPT !.user = i])
      BY <1>3, <2>2 DEF Comes, Stage
  <2>3. CASE \E i : Comes(p, [phone |-> stage[p].phone, user |-> i])
      BY <1>3, <2>3 DEF Comes
  <2> QED
      BY <2>1, <2>2, <2>3 DEF SmsAccount, AccountVerified, RegisterStep, AccountMade,
         DeleteStep, DeleteDone, AccountFails
<1>5. \A ph \in Phones : Pending(ph)' \subseteq Pending(ph)
    BY <1>4, ProviderParameters DEF Pending
<1> QED
    BY <1>1, <1>2, <1>5, PaidStays

\* Tokens are issued for a sign-in, which was paid when its code was accepted.
LEMMA IssueIsPaid ==
    ASSUME Inv, Inv', SessionsArePaid, NEW p \in Procs, Issue(p)
    PROVE  SessionsArePaid'
<1> DEFINE ph == stage[p].phone
           r == tok'[p].refresh
<1>1. /\ UNCHANGED <<smsVars, accVars>> /\ stage' = [stage EXCEPT ![p] = Begun]
      /\ via' = [via EXCEPT ![r] = ph] /\ stage[p].user # None
      /\ Token!Login(p, stage[p].user)
    BY DEF Issue, Comes
<1>2. /\ ph \in Phones \cup {None} /\ stage \in [Procs -> Stage] /\ T!TypeOK
      /\ via \in [Refreshes -> Phones \cup {None}]
    BY <1>1, TiesHaveTypes DEF Inv, StageTypeOK, T!Inv
<1>3. r \in T!Fresh
  <2>1. T!Login(p, stage[p].user)
      BY <1>1, TiesHaveTypes, TokenNames
  <2> QED
      BY <1>2, <2>1 DEF T!Login, T!TypeOK
<1>4. r \in Refreshes /\ via[r] = None
    BY <1>3 DEF T!Fresh, Inv, SignInsKnowUsers
<1> HIDE DEF r
<1> SUFFICES ASSUME NEW n \in Phones
             PROVE  (/\ IsFiniteSet(S!To(n)) /\ IsFiniteSet(SmsSessions(n))
                     /\ IsFiniteSet(Pending(n)) /\ IsFiniteSet(SlipsTo(n))
                     /\ Cardinality(SmsSessions(n)) + Cardinality(Pending(n))
                          <= Cardinality(Used(n)) + Cardinality(SlipsTo(n)))'
    BY DEF SessionsArePaid
<1>5. /\ IsFiniteSet(S!To(n)) /\ IsFiniteSet(SmsSessions(n))
      /\ IsFiniteSet(Pending(n)) /\ IsFiniteSet(SlipsTo(n))
      /\ Cardinality(SmsSessions(n)) + Cardinality(Pending(n))
           <= Cardinality(Used(n)) + Cardinality(SlipsTo(n))
    BY DEF SessionsArePaid
<1>6. /\ Cardinality(SmsSessions(n)) \in Nat /\ Cardinality(Pending(n)) \in Nat
    BY <1>5, FS_CardinalityType
<1>7. S!To(n)' = S!To(n) /\ Used(n)' = Used(n) /\ SlipsTo(n)' = SlipsTo(n)
    BY <1>1 DEF Used, S!To, S!Rows, SlipsTo, smsVars
<1>8. /\ n = ph => SmsSessions(n)' = SmsSessions(n) \cup {r} /\ r \notin SmsSessions(n)
      /\ n # ph => SmsSessions(n)' = SmsSessions(n)
  <2>1. SessionsKnown /\ SessionsKnown'
      BY SessionsAre, PTL
  <2>2. n # None
      BY ProviderParameters
  <2> HIDE DEF ph
  <2> QED
      BY <1>1, <1>2, <1>4, <2>1, <2>2 DEF SessionsKnown
<1>9. CASE n = ph
  <2>1. p \in Pending(n) /\ Pending(n)' = Pending(n) \ {p}
      BY <1>1, <1>2, <1>9, Stages, ProviderParameters DEF Pending
  <2>2. /\ IsFiniteSet(Pending(n)')
        /\ Cardinality(Pending(n)') = Cardinality(Pending(n)) - 1
      BY <1>5, <2>1, FS_RemoveElement
  <2>3. /\ IsFiniteSet(SmsSessions(n)')
        /\ Cardinality(SmsSessions(n)') = Cardinality(SmsSessions(n)) + 1
      BY <1>5, <1>8, <1>9, FS_AddElement
  <2> QED
      BY <1>5, <1>6, <1>7, <2>2, <2>3
<1>10. CASE n # ph
  <2>1. Pending(n)' = Pending(n)
      BY <1>1, <1>2, <1>10, Stages, ProviderParameters DEF Pending
  <2> QED
      BY <1>5, <1>7, <1>8, <1>10, <2>1
<1> QED
    BY <1>9, <1>10

\* Every step keeps sign-ins paid for, and the messages and slips they are paid with.
LEMMA NextIsPaid ==
    Inv /\ Inv' /\ S!Marks /\ SessionsArePaid /\ [Next]_vars => (S!Marks /\ SessionsArePaid)'
<1> SUFFICES ASSUME Inv, Inv', S!Marks, SessionsArePaid, [Next]_vars
             PROVE  S!Marks' /\ SessionsArePaid'
    OBVIOUS
<1>1. S!Marks'
  <2>1. ASSUME NEW p \in Procs, SmsStep(p) \/ CodeAccepted(p) PROVE S!Marks'
    <3>1. ASSUME NEW ph \in Phones, NEW c \in Codes, S!Find(p, ph, c) PROVE S!Marks'
        BY <3>1, PartAssumptions, S!FindKeepsMarks DEF Inv
    <3>2. ASSUME \/ \E ph \in Phones : S!Check(p, ph)
                 \/ S!Store(p) \/ S!StoreFails(p) \/ S!Send(p)
                 \/ S!Pick(p) \/ S!Abandon(p) \/ S!PickNothing(p) \/ S!Save(p)
          PROVE  S!Marks'
      <4>1. S!Next
          BY <3>2 DEF S!Next, S!Request
      <4> QED
          BY <4>1, PartAssumptions, S!NextKeepsMarks DEF Inv
    <3> QED
        BY <2>1, <3>1, <3>2, SmsNames DEF SmsStep, CodeAccepted
  <2>2. CASE Tick
    <3>1. S!Tick
        BY <2>2 DEF Tick, S!Tick, smsVars, S!request, S!observed
    <3> QED
        BY <3>1, PartAssumptions, S!NextKeepsMarks DEF S!Next, Inv
  <2>3. ASSUME UNCHANGED <<clock, smsVars>> PROVE S!Marks'
      BY <2>3, PartAssumptions, S!NextKeepsMarks DEF Inv, smsVars, S!vars, S!request,
         S!observed
  <2>4. ASSUME NEW p \in Procs, Request(p), ~SmsStep(p), ~CodeAccepted(p)
        PROVE  UNCHANGED <<clock, smsVars>>
    <3>1. CASE \/ SmsAccount(p) \/ AccountVerified(p) \/ RegisterStep(p)
               \/ AccountMade(p) \/ DeleteStep(p) \/ DeleteDone(p) \/ AccountFails(p)
        BY <3>1 DEF SmsAccount, AccountVerified, RegisterStep, AccountMade, DeleteStep,
           DeleteDone, AccountFails, InAccounts,
           Account!SmsUnknown, Account!SmsUnverified, Account!SmsVerified, Account!Proves,
           Account!WriteBack, Account!WritesBack, Account!Abandon, Account!RegisterName,
           Account!RegisterEmail, Account!RegisterPhone, Account!Create, Account!Insert,
           Account!Authorize, Account!DeleteFind, Account!Delete, Account!OnlyReads,
           Account!observed
    <3>2. CASE Issue(p) \/ PasswordLogin(p) \/ TokenStep(p)
        BY <3>2 DEF Issue, PasswordLogin, TokenStep, InTokens, Token!Login,
           Token!LoadExpired, Token!LoadHit, Token!Mint, Token!Purge, Token!Upsert,
           Token!DropAccess, Token!DropRefresh, Token!Answer, Token!Abandon
    <3> QED
        BY <2>4, <3>1, <3>2 DEF Request
  <2>5. CASE UNCHANGED vars
      BY <2>3, <2>5 DEF vars
  <2> QED
      BY <2>1, <2>2, <2>3, <2>4, <2>5 DEF Next
<1>2. SessionsArePaid'
  <2>1. ASSUME UNCHANGED <<smsVars, stage, via>> PROVE SessionsArePaid'
    <3>1. \A ph \in Phones : /\ IsFiniteSet(S!To(ph)') /\ Used(ph)' = Used(ph)
                             /\ Pending(ph)' \subseteq Pending(ph)
        BY <2>1 DEF SessionsArePaid, Used, S!To, S!Rows, Pending, smsVars
    <3> QED
        BY <2>1, <3>1, PaidStays DEF smsVars
  <2>2. ASSUME NEW p \in Procs, Request(p) PROVE SessionsArePaid'
    <3>1. CASE PasswordLogin(p) \/ TokenStep(p)
        BY <2>1, <3>1 DEF PasswordLogin, TokenStep, InTokens
    <3> QED
        BY <2>2, <3>1, SmsStepIsPaid, CodeAcceptedIsPaid, AccountStepIsPaid, IssueIsPaid
           DEF Request
  <2>3. CASE Tick \/ UNCHANGED vars
      BY <2>1, <2>3 DEF Tick, vars
  <2> QED
      BY <2>2, <2>3 DEF Next
<1> QED
    BY <1>1, <1>2

\* Nobody has signed in at the start.
LEMMA InitIsPaid == Init => S!Marks /\ SessionsArePaid
<1> SUFFICES ASSUME Init PROVE S!Marks /\ SessionsArePaid
    OBVIOUS
<1>1. S!Marks
  <2>1. S!Init
      BY DEF Init, Sms!Init, S!Init
  <2> QED
      BY <2>1, PartAssumptions, S!InitMarks
<1>2. /\ codes = [i \in CodeIds |-> None] /\ stage = [p \in Procs |-> Begun]
      /\ origin = [r \in Refreshes |-> None] /\ slips = {}
    BY DEF Init, Sms!Init, Token!Init
<1>3. \A ph \in Phones : /\ S!To(ph) = {} /\ Used(ph) = {} /\ SmsSessions(ph) = {}
                         /\ SlipsTo(ph) = {} /\ Pending(ph) = {}
    BY <1>2, Stages, ProviderParameters
       DEF S!To, S!Rows, Used, SmsSessions, Token!Minted, SlipsTo, Pending
<1>4. SessionsArePaid
    BY <1>3, FS_EmptySet DEF SessionsArePaid
<1> QED
    BY <1>1, <1>4

\* Every message that was stored for a number signs in at most once, but for those
\* whose mark failed and for sign-ins with one number and code beside each other.
THEOREM SessionsArePaidFor == Spec => []SessionsBoundedByMessages
<1>1. SessionsArePaid => SessionsBoundedByMessages
  <2> SUFFICES ASSUME SessionsArePaid, NEW ph \in Phones
               PROVE  Cardinality(SmsSessions(ph))
                        <= Cardinality(Sms!To(ph)) + Cardinality({s \in slips : s[1] = ph})
      BY DEF SessionsBoundedByMessages
  <2>1. /\ IsFiniteSet(S!To(ph)) /\ IsFiniteSet(SmsSessions(ph))
        /\ IsFiniteSet(Pending(ph)) /\ IsFiniteSet(SlipsTo(ph))
        /\ Cardinality(SmsSessions(ph)) + Cardinality(Pending(ph))
             <= Cardinality(Used(ph)) + Cardinality(SlipsTo(ph))
      BY DEF SessionsArePaid
  <2>2. IsFiniteSet(Used(ph)) /\ Cardinality(Used(ph)) <= Cardinality(S!To(ph))
      BY <2>1, FS_Subset DEF Used
  <2>3. /\ Cardinality(SmsSessions(ph)) \in Nat /\ Cardinality(Used(ph)) \in Nat
        /\ Cardinality(S!To(ph)) \in Nat /\ Cardinality(Pending(ph)) \in Nat
        /\ Cardinality(SlipsTo(ph)) \in Nat
      BY <2>1, <2>2, FS_CardinalityType
  <2>4. Sms!To(ph) = S!To(ph)
      BY DEF Sms!To, S!To, Sms!Rows, S!Rows
  <2> QED
      BY <2>1, <2>2, <2>3, <2>4 DEF SlipsTo
<1>2. Inv /\ Inv' /\ S!Marks /\ SessionsArePaid /\ [Next]_vars => (S!Marks /\ SessionsArePaid)'
    BY NextIsPaid
<1> QED
    BY <1>1, <1>2, InitIsPaid, Invariance, PTL DEF Spec

-------------------------------------------------------------------------------
(* Numbers have one account. *)

\* What a number's accounts are stays so as long as none is written or about to be.
LEMMA NumbersStay ==
    ASSUME NumbersHaveOneAccount, contested \subseteq contested',
           \A ph \in Phones :
               /\ A!ByPhone(ph)' \subseteq A!ByPhone(ph)
               /\ Making(ph)' \subseteq Making(ph)
               /\ Writing(ph)' \subseteq Writing(ph)
               /\ \A q \in Writing(ph)' : who'[q] = who[q]
    PROVE  NumbersHaveOneAccount'
<1> SUFFICES ASSUME NEW ph \in Phones \ contested' PROVE OneAccount(ph)'
    BY DEF NumbersHaveOneAccount
<1>1. OneAccount(ph)
    BY DEF NumbersHaveOneAccount
<1> QED
    BY <1>1 DEF OneAccount, Contest

\* The accounts of a number depend on the users alone.
LEMMA ByPhoneIs ==
    ASSUME users' = users
    PROVE  \A ph \in Phones : A!ByPhone(ph)' = A!ByPhone(ph)
BY DEF A!ByPhone, A!Existing, A!Rows

\* A request comes to its last statement: it has just read what there is.
LEMMA ArrivalsKeepNumbers ==
    ASSUME Inv, Inv', NumbersHaveOneAccount, ContestsNoted, users' = users,
           NEW p \in Procs, accPc[p] \notin {"create", "write"},
           \A q \in Procs \ {p} :
             accPc'[q] = accPc[q] /\ who'[q] = who[q] /\ copy'[q] = copy[q],
           \A ph \in Phones :
               /\ p \in Making(ph)' => A!ByPhone(ph) = {}
               /\ p \in Writing(ph)' => who'[p] \in A!ByPhone(ph)
    PROVE  NumbersHaveOneAccount'
<1> SUFFICES ASSUME NEW ph \in Phones \ contested' PROVE OneAccount(ph)'
    BY DEF NumbersHaveOneAccount
<1>1. ~Contest(ph)' /\ OneAccount(ph)
    BY DEF ContestsNoted, NumbersHaveOneAccount
<1>2. A!ByPhone(ph)' = A!ByPhone(ph)
    BY ByPhoneIs
<1>3. /\ p \notin Making(ph) /\ p \notin Writing(ph)
      /\ Making(ph)' \ {p} = Making(ph) /\ Writing(ph)' \ {p} = Writing(ph)
    BY DEF Making, Writing
<1>4. CASE p \notin Making(ph)' /\ p \notin Writing(ph)'
    BY <1>1, <1>2, <1>3, <1>4 DEF OneAccount, Writing
<1>5. CASE p \in Making(ph)'
  <2>1. A!ByPhone(ph) = {} /\ Making(ph)' = {p} /\ Writing(ph)' \subseteq {p}
      BY <1>1, <1>5 DEF Contest
  <2>2. p \notin Writing(ph)'
      BY <1>5 DEF Making, Writing
  <2> QED
      BY <1>1, <1>2, <2>1, <2>2 DEF OneAccount
<1>6. CASE p \in Writing(ph)'
  <2>1. Making(ph)' = {}
    <3>1. p \notin Making(ph)'
        BY <1>6 DEF Making, Writing
    <3> QED
        BY <1>1, <1>6, <3>1 DEF Contest
  <2>2. A!ByPhone(ph) = {who'[p]}
      BY <1>1, <1>6 DEF OneAccount
  <2>3. \A q \in Writing(ph) : who'[q] = who[q] /\ who[q] = who'[p]
    <3> SUFFICES ASSUME NEW q \in Writing(ph) PROVE who'[q] = who[q] /\ who[q] = who'[p]
        OBVIOUS
    <3>1. q \in Procs \ {p}
        BY <1>3 DEF Writing
    <3> QED
        BY <1>1, <2>2, <3>1 DEF OneAccount
  <2>4. \A q \in Writing(ph)' : who'[q] = who'[p]
      BY <1>3, <2>3
  <2> QED
      BY <1>1, <1>2, <2>1, <2>2, <2>4 DEF OneAccount
<1> QED
    BY <1>4, <1>5, <1>6

\* The account of a number is looked up.
LEMMA SmsAccountKeepsNumbers ==
    ASSUME Inv, Inv', NumbersHaveOneAccount, NEW p \in Procs, SmsAccount(p)
    PROVE  NumbersHaveOneAccount'
<1> DEFINE n == stage[p].phone
<1>1. /\ n \in Phones /\ accPc[p] = "idle" /\ A!TypeOK /\ ContestsNoted
      /\ \/ A!SmsUnknown(p, n)
         \/ \E i \in UserIds : A!SmsUnverified(p, n, i) \/ A!SmsVerified(p, n, i)
  <2>1. n \in Phones
      BY TiesHaveTypes DEF SmsAccount
  <2> QED
      BY <2>1, AccountNames DEF SmsAccount, Inv, A!Inv
<1> HIDE DEF n
<1>2. users' = users
    BY <1>1 DEF A!SmsUnknown, A!SmsUnverified, A!SmsVerified, A!Proves
<1>3. \A q \in Procs \ {p} : accPc'[q] = accPc[q] /\ who'[q] = who[q] /\ copy'[q] = copy[q]
    BY <1>1 DEF A!SmsUnknown, A!SmsUnverified, A!SmsVerified, A!Builds, A!Holds, A!TypeOK
<1>4. CASE A!SmsUnknown(p, n)
  <2>1. accPc'[p] = "create" /\ copy'[p].phone = n /\ A!ByPhone(n) = {}
      BY <1>1, <1>4 DEF A!SmsUnknown, A!Builds, A!FromSms, A!NewUser, A!TypeOK
  <2>2. \A ph \in Phones : /\ p \in Making(ph)' => A!ByPhone(ph) = {}
                           /\ p \in Writing(ph)' => who'[p] \in A!ByPhone(ph)
      BY <2>1 DEF Making, Writing
  <2> QED
      BY <1>1, <1>2, <1>3, <2>2, ArrivalsKeepNumbers
<1>5. ASSUME NEW i \in UserIds, A!SmsUnverified(p, n, i)
      PROVE  NumbersHaveOneAccount'
  <2>1. /\ accPc'[p] = "write" /\ who'[p] = i /\ i \in A!ByPhone(n)
        /\ copy'[p] = [users[i] EXCEPT !.verified = TRUE]
      BY <1>1, <1>5 DEF A!SmsUnverified, A!Holds, A!First, A!IsFirst, A!TypeOK
  <2>2. copy'[p].phone = n
    <3>1. users[i] \in A!User /\ users[i].phone = n
        BY <1>1, <2>1 DEF A!TypeOK, A!ByPhone, A!Existing, A!Rows
    <3> QED
        BY <2>1, <3>1 DEF A!User
  <2>3. \A ph \in Phones : /\ p \in Making(ph)' => A!ByPhone(ph) = {}
                           /\ p \in Writing(ph)' => who'[p] \in A!ByPhone(ph)
      BY <2>1, <2>2 DEF Making, Writing
  <2> QED
      BY <1>1, <1>2, <1>3, <2>3, ArrivalsKeepNumbers
<1>6. ASSUME NEW i \in UserIds, A!SmsVerified(p, n, i)
      PROVE  NumbersHaveOneAccount'
  <2>1. accPc'[p] = "idle"
      BY <1>1, <1>6 DEF A!SmsVerified
  <2>2. \A ph \in Phones : /\ p \in Making(ph)' => A!ByPhone(ph) = {}
                           /\ p \in Writing(ph)' => who'[p] \in A!ByPhone(ph)
      BY <2>1 DEF Making, Writing
  <2> QED
      BY <1>1, <1>2, <1>3, <2>2, ArrivalsKeepNumbers
<1> QED
    BY <1>1, <1>4, <1>5, <1>6

\* A registration checks its number last of all.
LEMMA RegisterStepKeepsNumbers ==
    ASSUME Inv, Inv', NumbersHaveOneAccount, NEW p \in Procs, RegisterStep(p)
    PROVE  NumbersHaveOneAccount'
<1>1. /\ ContestsNoted /\ A!TypeOK
      /\ \/ A!RegisterEmail(p) \/ A!RegisterPhone(p)
         \/ \E name \in Names, ph \in Phones \cup {None}, password \in Passwords :
               A!RegisterName(p, name, None, ph, password)
    BY AccountNames DEF RegisterStep, Inv, A!Inv
<1>2. /\ users' = users /\ accPc[p] \notin {"create", "write"}
      /\ \A q \in Procs \ {p} :
            accPc'[q] = accPc[q] /\ who'[q] = who[q] /\ copy'[q] = copy[q]
    BY <1>1 DEF A!RegisterEmail, A!RegisterPhone, A!RegisterName, A!Called, A!Builds,
       A!Goes, A!EndRequest, A!OnlyReads, A!TypeOK
<1>3. CASE A!RegisterPhone(p) /\ ~A!Taken(copy[p].phone)
  <2>1. copy[p] \in A!User
      BY <1>3 DEF A!RegisterPhone, Inv, A!Inv, A!Ready, A!Building
  <2>2. accPc'[p] = "create" /\ copy'[p].phone = copy[p].phone
      BY <1>1, <1>3, <2>1 DEF A!RegisterPhone, A!Builds, A!TypeOK, A!User
  <2>3. copy[p].phone # None => A!ByPhone(copy[p].phone) = {}
      BY <1>3 DEF A!Taken, A!ByLogin, A!Logins, A!ByPhone
  <2>4. \A ph \in Phones : /\ p \in Making(ph)' => A!ByPhone(ph) = {}
                           /\ p \in Writing(ph)' => who'[p] \in A!ByPhone(ph)
      BY <2>2, <2>3, ProviderParameters DEF Making, Writing
  <2> QED
      BY <1>1, <1>2, <2>4, ArrivalsKeepNumbers
<1>4. CASE ~(A!RegisterPhone(p) /\ ~A!Taken(copy[p].phone))
  <2>1. accPc'[p] \notin {"create", "write"}
      BY <1>1, <1>4 DEF A!RegisterEmail, A!RegisterPhone, A!RegisterName, A!Builds,
         A!Goes, A!EndRequest, A!TypeOK
  <2>2. \A ph \in Phones : /\ p \in Making(ph)' => A!ByPhone(ph) = {}
                           /\ p \in Writing(ph)' => who'[p] \in A!ByPhone(ph)
      BY <2>1 DEF Making, Writing
  <2> QED
      BY <1>1, <1>2, <2>2, ArrivalsKeepNumbers
<1> QED
    BY <1>3, <1>4

\* A deletion and a failure leave no statement to come.
LEMMA EndsKeepNumbers ==
    ASSUME Inv, Inv', NumbersHaveOneAccount, NEW p \in Procs,
           DeleteStep(p) \/ DeleteDone(p) \/ AccountFails(p)
    PROVE  NumbersHaveOneAccount'
<1>1. A!TypeOK /\ contested' = contested
    BY DEF Inv, A!Inv, DeleteStep, DeleteDone, AccountFails
<1>2. \A i \in UserIds : users'[i] \in {users[i], None}
    BY <1>1 DEF DeleteStep, DeleteDone, AccountFails, Account!Authorize,
       Account!DeleteFind, Account!Abandon, Account!OnlyReads, accVars,
       Account!Delete, Account!Deleted, A!TypeOK
<1>3. \A ph \in Phones : A!ByPhone(ph)' \subseteq A!ByPhone(ph)
    BY <1>2 DEF A!ByPhone, A!Existing, A!Rows
<1>4. \A q \in Procs : accPc'[q] \in {"create", "write"} =>
        accPc'[q] = accPc[q] /\ who'[q] = who[q] /\ copy'[q] = copy[q]
    BY <1>1 DEF DeleteStep, DeleteDone, AccountFails, Account!Authorize,
       Account!DeleteFind, Account!Delete, Account!Abandon, Account!EndRequest, A!TypeOK,
       accVars
<1>5. \A ph \in Phones : /\ Making(ph)' \subseteq Making(ph)
                         /\ Writing(ph)' \subseteq Writing(ph)
                         /\ \A q \in Writing(ph)' : who'[q] = who[q]
    BY <1>4 DEF Making, Writing
<1> QED
    BY <1>1, <1>3, <1>5, NumbersStay

\* The account that is made has a number that no account had.
LEMMA AccountMadeKeepsNumbers ==
    ASSUME Inv, Inv', NumbersHaveOneAccount, NEW p \in Procs, AccountMade(p)
    PROVE  NumbersHaveOneAccount'
<1>1. PICK i \in UserIds : A!Create(p, i)
    BY AccountNames DEF AccountMade
<1>2. PICK u \in A!Dated(p) : A!Insert(i, u)
    BY <1>1 DEF A!Create
<1>3. /\ accPc[p] = "create" /\ A!EndRequest(p) /\ A!TypeOK /\ copy[p] \in A!User
      /\ contested' = contested
    BY <1>1 DEF A!Create, Inv, A!Inv, A!Ready, A!Building, AccountMade
<1>4. u.phone = copy[p].phone
    BY <1>2, <1>3, PartAssumptions, A!DatedUsers DEF Inv
<1>5. \A j \in UserIds : users'[j] = users[j] \/ (j = i /\ users'[j] = u)
    BY <1>2, <1>3 DEF A!Insert, A!Created, A!TypeOK
<1>6. \A ph \in Phones :
        /\ Making(ph)' = Making(ph) \ {p} /\ Writing(ph)' = Writing(ph)
        /\ \A q \in Writing(ph) : who'[q] = who[q]
    BY <1>3, AccountEnd DEF Making, Writing
<1>7. \A ph \in Phones :
        A!ByPhone(ph)' \subseteq (IF copy[p].phone = ph THEN A!ByPhone(ph) \cup {i} ELSE A!ByPhone(ph))
    BY <1>4, <1>5 DEF A!ByPhone, A!Existing, A!Rows
<1> SUFFICES ASSUME NEW ph \in Phones \ contested' PROVE OneAccount(ph)'
    BY DEF NumbersHaveOneAccount
<1>8. OneAccount(ph)
    BY <1>3 DEF NumbersHaveOneAccount
<1>9. CASE copy[p].phone = ph
  <2>1. p \in Making(ph) /\ p \notin Writing(ph)
      BY <1>3, <1>9 DEF Making, Writing
  <2>2. Making(ph)' = {} /\ Writing(ph)' = {} /\ A!ByPhone(ph)' \subseteq {i}
    <3>1. Making(ph) = {p} /\ Writing(ph) = {} /\ A!ByPhone(ph) = {}
        BY <1>8, <2>1 DEF OneAccount, Contest
    <3> QED
        BY <1>6, <1>7, <1>9, <3>1
  <2>3. ~Contest(ph)'
      BY <2>2 DEF Contest
  <2>4. \A j, k \in A!ByPhone(ph)' : j = k
      BY <2>2
  <2> QED
      BY <2>2, <2>3, <2>4 DEF OneAccount
<1>10. CASE copy[p].phone # ph
  <2>1. A!ByPhone(ph)' \subseteq A!ByPhone(ph)
      BY <1>7, <1>10
  <2> QED
      BY <1>6, <1>8, <2>1 DEF OneAccount, Contest
<1> QED
    BY <1>9, <1>10

\* The account that is written back, or comes back so, is the one that had the number.
LEMMA AccountVerifiedKeepsNumbers ==
    ASSUME Inv, Inv', NumbersHaveOneAccount, NEW p \in Procs, AccountVerified(p)
    PROVE  NumbersHaveOneAccount'
<1> DEFINE i == who[p]
<1>1. /\ accPc[p] = "write" /\ A!EndRequest(p) /\ A!TypeOK /\ contested' = contested
      /\ users' = users \/ users' = [users EXCEPT ![i] = copy[p]]
    BY AccountNames DEF AccountVerified, A!WriteBack, A!WritesBack, A!Saved, A!Abandon,
       A!OnlyReads, A!observed, Inv, A!Inv
<1>2. \A ph \in Phones :
        /\ Making(ph)' = Making(ph) /\ Writing(ph)' = Writing(ph) \ {p}
        /\ \A q \in Writing(ph)' : who'[q] = who[q]
    BY <1>1, AccountEnd DEF Making, Writing
<1> HIDE DEF i
<1>3. \A ph \in Phones :
        A!ByPhone(ph)' \subseteq (IF copy[p].phone = ph THEN A!ByPhone(ph) \cup {i} ELSE A!ByPhone(ph))
    BY <1>1 DEF A!ByPhone, A!Existing, A!Rows, A!TypeOK
<1> SUFFICES ASSUME NEW ph \in Phones \ contested' PROVE OneAccount(ph)'
    BY DEF NumbersHaveOneAccount
<1>4. OneAccount(ph)
    BY <1>1 DEF NumbersHaveOneAccount
<1>5. CASE copy[p].phone = ph
  <2>1. p \in Writing(ph)
      BY <1>1, <1>5 DEF Writing
  <2>2. /\ Making(ph)' = {} /\ A!ByPhone(ph)' \subseteq {i}
        /\ \A q \in Writing(ph)' : who'[q] = i
    <3>1. Making(ph) = {}
      <4>1. p \notin Making(ph)
          BY <1>1 DEF Making
      <4> QED
          BY <1>4, <2>1, <4>1 DEF OneAccount, Contest
    <3>2. A!ByPhone(ph)' \subseteq {i}
        BY <1>3, <1>4, <1>5, <2>1 DEF OneAccount, i
    <3>3. \A q \in Writing(ph) : who[q] = i
        BY <1>4, <2>1 DEF OneAccount, i
    <3> QED
        BY <1>2, <3>1, <3>2, <3>3
  <2> QED
      BY <2>2 DEF OneAccount, Contest
<1>6. CASE copy[p].phone # ph
  <2>1. A!ByPhone(ph)' \subseteq A!ByPhone(ph)
      BY <1>3, <1>6
  <2> QED
      BY <1>2, <1>4, <2>1 DEF OneAccount, Contest
<1> QED
    BY <1>5, <1>6

\* Every step keeps numbers with one account.
LEMMA NextKeepsNumbers ==
    Inv /\ Inv' /\ NumbersHaveOneAccount /\ [Next]_vars => NumbersHaveOneAccount'
<1> SUFFICES ASSUME Inv, Inv', NumbersHaveOneAccount, [Next]_vars
             PROVE  NumbersHaveOneAccount'
    OBVIOUS
<1>1. ASSUME UNCHANGED <<accVars, contested>> PROVE NumbersHaveOneAccount'
    BY <1>1 DEF NumbersHaveOneAccount, OneAccount, Contest, Making, Writing, A!ByPhone,
       A!Existing, A!Rows, accVars
<1>2. ASSUME NEW p \in Procs, Request(p) PROVE NumbersHaveOneAccount'
  <2>1. CASE \/ SmsStep(p) \/ CodeAccepted(p) \/ Issue(p) \/ PasswordLogin(p)
             \/ TokenStep(p)
      BY <1>1, <2>1 DEF SmsStep, CodeAccepted, InSms, Issue, PasswordLogin, TokenStep,
         InTokens
  <2> QED
      BY <1>2, <2>1, SmsAccountKeepsNumbers, AccountVerifiedKeepsNumbers,
         RegisterStepKeepsNumbers, AccountMadeKeepsNumbers, EndsKeepNumbers DEF Request
<1>3. CASE Tick \/ UNCHANGED vars
    BY <1>1, <1>3 DEF Tick, vars
<1> QED
    BY <1>2, <1>3 DEF Next

\* There is one account at the start.
LEMMA InitNumbers == Init => NumbersHaveOneAccount
<1> SUFFICES ASSUME Init PROVE NumbersHaveOneAccount
    OBVIOUS
<1>1. accPc = [p \in Procs |-> "idle"]
    BY DEF Init, Account!Init, Account!Idle
<1>2. PICK i \in UserIds :
        \E hash : users = Account!Created(Account!Empty, i, Account!Administrator(hash))
    BY DEF Init, Account!Init
<1>3. A!Existing \subseteq {i}
    BY <1>2 DEF A!Existing, A!Rows, Account!Created, Account!Empty
<1>4. \A ph : A!ByPhone(ph) \subseteq {i} /\ Making(ph) = {} /\ Writing(ph) = {}
    BY <1>1, <1>3 DEF A!ByPhone, Making, Writing
<1> QED
    BY <1>4 DEF NumbersHaveOneAccount, OneAccount, Contest

\* Who proves to hold a number comes to the one account that has it, unless accounts
\* for it were about to be written at once.
THEOREM NumberHasOneAccount == Spec => []SameNumberSameAccount
<1>1. Inv /\ NumbersHaveOneAccount => SameNumberSameAccount
  <2> SUFFICES ASSUME Inv, NumbersHaveOneAccount, NEW ph \in Phones \ contested,
                      NEW r \in SmsSessions(ph), NEW q \in SmsSessions(ph),
                      Account!Has(users, origin[r].user), Account!Has(users, origin[q].user)
               PROVE  origin[r].user = origin[q].user /\ users[origin[r].user].phone = ph
      BY DEF SameNumberSameAccount
  <2>1. ASSUME NEW s \in SmsSessions(ph), Account!Has(users, origin[s].user)
        PROVE  origin[s].user \in A!ByPhone(ph)
    <3> DEFINE u == origin[s].user
    <3>1. s \in T!Minted /\ via[s] = ph /\ ph # None
        BY ProviderParameters DEF SmsSessions, T!Minted, Token!Minted
    <3>2. u \in UserIds /\ born[u].phone = ph
        BY <3>1, TiesHaveTypes DEF Inv, SignInsKnowUsers
    <3>3. u \in A!Existing
        BY <2>1, <3>2 DEF Account!Has, A!Existing, A!Rows
    <3>4. A!IsItself(u, users[u])
        BY <3>3, PartAssumptions, A!StoredUsers DEF Inv
    <3> QED
        BY <3>2, <3>3, <3>4 DEF A!IsItself, A!IdentityOf, A!ByPhone
  <2>2. OneAccount(ph)
      BY DEF NumbersHaveOneAccount
  <2> QED
      BY <2>1, <2>2 DEF OneAccount, A!ByPhone
<1>2. Inv /\ Inv' /\ NumbersHaveOneAccount /\ [Next]_vars => NumbersHaveOneAccount'
    BY NextKeepsNumbers
<1> QED
    BY <1>1, <1>2, InitNumbers, Invariance, PTL DEF Spec

===============================================================================
