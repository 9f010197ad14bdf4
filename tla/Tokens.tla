-------------------------------- MODULE Tokens --------------------------------
(***************************************************************************)
(* The life of the provider's tokens: POST /oauth/token with the password,  *)
(* sms_code and refresh_token grants, and the token a registration issues.  *)
(*                                                                          *)
(* Every request is served by a goroutine of some function instance and     *)
(* runs the go-oauth2 manager over the shared table of TokenStore, one      *)
(* database statement at a time and with no transaction around them:        *)
(*                                                                          *)
(*   login    Login -> Purge -> Upsert -> Answer                            *)
(*   refresh  Load -> Mint -> Purge -> Upsert -> DropAccess -> DropRefresh  *)
(*                 -> Answer                                                *)
(*                                                                          *)
(* Statements of different requests interleave freely.  A statement may     *)
(* fail, an instance may be stopped and an answer may be lost at any point  *)
(* (Abandon): the request is over and its remaining statements never run.   *)
(***************************************************************************)
EXTENDS TokenStore

CONSTANTS
    Procs,          \* request slots: at most Cardinality(Procs) in flight
    MaxClock        \* bound of the model: the last tick that is explored

ASSUME ClockIsBounded == MaxClock \in Nat

VARIABLES
    clock,      \* time.Now(), the same for every instance
    rows,       \* the oauth_tokens table
    pc,         \* the next statement of each request
    tok,        \* the token pair a request is about to store, or None
    old,        \* the token pair a refresh has loaded, or None
    \* what an observer knows and the program does not keep:
    origin,     \* for every minted refresh token: whose it is, since when,
                \* the refresh token it was traded for, its access token
    answered    \* the pairs that reached a client in a 200 answer

vars == <<clock, rows, pc, tok, old, origin, answered>>

\* who signed in and when, by which trade, and together with which access
Origin == [user : Users, since : Nat, parent : Refreshes \cup {None}, access : Access]

Steps == {"idle", "mint", "purge", "upsert", "dropAccess", "dropRefresh", "answer"}

ASSUME NoneIsNoOrigin == None \notin Origin

Minted == {r \in Refreshes : origin[r] # None}
Fresh == Refreshes \ Minted
Handed == {t.refresh : t \in answered}

\* The refresh tokens whose trade was answered with a new pair.
Spent == {origin[t.refresh].parent : t \in answered} \ {None}

Init ==
    /\ clock = 0
    /\ rows = {}
    /\ pc = [p \in Procs |-> "idle"]
    /\ tok = [p \in Procs |-> None]
    /\ old = [p \in Procs |-> None]
    /\ origin = [r \in Refreshes |-> None]
    /\ answered = {}

-------------------------------------------------------------------------------
(* Signing in: a password, an SMS code or a registration has named the user. *)

Login(p, u) ==
    /\ pc[p] = "idle"
    /\ \E r \in Fresh :
         /\ tok' = [tok EXCEPT ![p] =
                [user |-> u, access |-> JWT(u, clock), refresh |-> r,
                 acreate |-> clock, rcreate |-> clock]]
         /\ origin' = [origin EXCEPT ![r] =
                [user |-> u, since |-> clock, parent |-> None, access |-> JWT(u, clock)]]
    /\ pc' = [pc EXCEPT ![p] = "purge"]
    /\ UNCHANGED <<clock, rows, old, answered>>

(* Trading a refresh token: GetByRefresh through LoadRefreshToken. *)

\* No token was sent, or no row has the key: invalid_grant.
LoadMiss(p, r) ==
    /\ pc[p] = "idle"
    /\ r = None \/ ~Live(rows, r)
    /\ UNCHANGED vars

\* The key is past its date: it is taken off the row and invalid_grant is
\* answered.  The result of that UPDATE is ignored, so it may have failed.
LoadExpired(p, r) ==
    /\ pc[p] = "idle"
    /\ r # None
    /\ \E row \in rows : row.refresh = r /\ RefreshExpired(row, clock)
    /\ rows' \in {rows, RefreshDetached(rows, r)}
    /\ UNCHANGED <<clock, pc, tok, old, origin, answered>>

LoadHit(p, r) ==
    /\ pc[p] = "idle"
    /\ \E row \in rows :
         /\ row.refresh = r
         /\ ~RefreshExpired(row, clock)
         /\ row.data.refresh = r
         /\ old' = [old EXCEPT ![p] = row.data]
    /\ pc' = [pc EXCEPT ![p] = "mint"]
    /\ UNCHANGED <<clock, rows, tok, origin, answered>>

Load(p, r) == LoadMiss(p, r) \/ LoadExpired(p, r) \/ LoadHit(p, r)

\* Mutant of Mint: the refresh lifetime starts again (IsResetRefreshTime on).
MintSliding(p) ==
    /\ pc[p] = "mint"
    /\ \E r \in Fresh :
         LET was == origin[old[p].refresh]
             access == JWT(old[p].user, clock)
         IN /\ tok' = [tok EXCEPT ![p] =
                   [user |-> old[p].user, access |-> access, refresh |-> r,
                    acreate |-> clock, rcreate |-> clock]]
            /\ origin' = [origin EXCEPT ![r] =
                   [user |-> was.user, since |-> was.since,
                    parent |-> old[p].refresh, access |-> access]]
    /\ pc' = [pc EXCEPT ![p] = "purge"]
    /\ UNCHANGED <<clock, rows, old, answered>>

\* A new access and a new refresh token; the refresh lifetime still counts
\* from the login (IsResetRefreshTime is off).
Mint(p) ==
    /\ pc[p] = "mint"
    /\ \E r \in Fresh :
         LET was == origin[old[p].refresh]
             access == JWT(old[p].user, clock)
         IN /\ tok' = [tok EXCEPT ![p] =
                   [user |-> old[p].user, access |-> access, refresh |-> r,
                    acreate |-> clock, rcreate |-> old[p].rcreate]]
            /\ origin' = [origin EXCEPT ![r] =
                   [user |-> was.user, since |-> was.since,
                    parent |-> old[p].refresh, access |-> access]]
    /\ pc' = [pc EXCEPT ![p] = "purge"]
    /\ UNCHANGED <<clock, rows, old, answered>>

-------------------------------------------------------------------------------
(* TokenStore.Create: two statements. *)

Purge(p) ==
    /\ pc[p] = "purge"
    /\ rows' = Purged(rows, clock)
    /\ pc' = [pc EXCEPT ![p] = "upsert"]
    /\ UNCHANGED <<clock, tok, old, origin, answered>>

\* Mutant of Upsert: an error of the statement is not looked at.
UpsertUnchecked(p) ==
    /\ pc[p] = "upsert"
    /\ rows' \in {rows, Upserted(rows, tok[p])}
    /\ pc' = [pc EXCEPT ![p] = IF old[p] = None THEN "answer" ELSE "dropAccess"]
    /\ UNCHANGED <<clock, tok, old, origin, answered>>

Upsert(p) ==
    /\ pc[p] = "upsert"
    /\ rows' = Upserted(rows, tok[p])
    /\ pc' = [pc EXCEPT ![p] = IF old[p] = None THEN "answer" ELSE "dropAccess"]
    /\ UNCHANGED <<clock, tok, old, origin, answered>>

(* A refresh then retires the keys of the pair it has loaded. *)

DropAccess(p) ==
    /\ pc[p] = "dropAccess"
    /\ rows' = AccessDetached(rows, old[p].access)
    /\ pc' = [pc EXCEPT ![p] = "dropRefresh"]
    /\ UNCHANGED <<clock, tok, old, origin, answered>>

DropRefresh(p) ==
    /\ pc[p] = "dropRefresh"
    /\ rows' = RefreshDetached(rows, old[p].refresh)
    /\ pc' = [pc EXCEPT ![p] = "answer"]
    /\ UNCHANGED <<clock, tok, old, origin, answered>>

EndRequest(p) ==
    /\ pc' = [pc EXCEPT ![p] = "idle"]
    /\ tok' = [tok EXCEPT ![p] = None]
    /\ old' = [old EXCEPT ![p] = None]

\* 200 with the pair.
Answer(p) ==
    /\ pc[p] = "answer"
    /\ answered' = answered \cup {tok[p]}
    /\ EndRequest(p)
    /\ UNCHANGED <<clock, rows, origin>>

\* A failed statement, a stopped instance or a lost answer.
Abandon(p) ==
    /\ pc[p] # "idle"
    /\ EndRequest(p)
    /\ UNCHANGED <<clock, rows, origin, answered>>

\* GetByAccess of the store's interface; the key of an expired row is taken
\* off as above.  JWTs are verified without the table, so no request waits
\* for it.
ProbeAccess(a) ==
    /\ \E row \in rows : row.access = a /\ AccessExpired(row, clock)
    /\ rows' = AccessDetached(rows, a)
    /\ UNCHANGED <<clock, pc, tok, old, origin, answered>>

Tick ==
    /\ clock < MaxClock
    /\ clock' = clock + 1
    /\ UNCHANGED <<rows, pc, tok, old, origin, answered>>

Request(p) ==
    \/ \E u \in Users : Login(p, u)
    \/ \E r \in Handed \cup {None} : Load(p, r)
    \/ Mint(p)
    \/ Purge(p)
    \/ Upsert(p)
    \/ DropAccess(p)
    \/ DropRefresh(p)
    \/ Answer(p)
    \/ Abandon(p)

Next ==
    \/ \E p \in Procs : Request(p)
    \/ \E row \in rows : row.access # None /\ ProbeAccess(row.access)
    \/ Tick

Spec == Init /\ [][Next]_vars

-------------------------------------------------------------------------------
(* Invariants. *)

\* Every variable has its type.
TypeOK ==
    /\ clock \in Nat
    /\ rows \in SUBSET Row
    /\ pc \in [Procs -> Steps]
    /\ tok \in [Procs -> Token \cup {None}]
    /\ old \in [Procs -> Token \cup {None}]
    /\ origin \in [Refreshes -> Origin \cup {None}]
    /\ answered \in SUBSET Token

\* No interleaving of statements makes two rows share a key, so the unique
\* indexes never refuse a Create and a lookup by key has at most one answer.
KeysAreUnique ==
    \A row1, row2 \in rows :
        \/ row1.access = row2.access /\ row1.access # None
        \/ row1.refresh = row2.refresh /\ row1.refresh # None
        => row1 = row2

\* Over any chain of refreshes, by any interleaving of requests, a refresh
\* token that works belongs to the user whose login started the chain, and its
\* lifetime counts from that login.
RefreshKeepsLogin ==
    \A row \in rows :
        row.refresh # None =>
            /\ row.refresh \in Minted
            /\ row.data.user = origin[row.refresh].user
            /\ row.data.rcreate = origin[row.refresh].since

\* Once a client has been given the pair that a refresh token was traded for,
\* that refresh token leads nowhere for good: rotation voids the old token even
\* when other requests had already loaded it.
SpentStaysDead == \A r \in Spent : ~Live(rows, r)

\* Nobody has begun to trade r and nobody was issued the same access token.
Undisturbed(r) ==
    \A q \in Minted \ {r} :
        /\ origin[q].parent # r
        /\ origin[q].access # origin[r].access

\* A client that was handed a pair and is left alone can refresh as long as
\* both tokens of the pair are within their lifetimes, whatever other requests,
\* failed requests and purges do to the table.
UnspentSurvives ==
    \A t \in answered :
        /\ Undisturbed(t.refresh)
        /\ clock <= t.acreate + AccessExp
        /\ clock <= t.rcreate + RefreshExp
        => Live(rows, t.refresh)

\* No other pair was issued the access token of the pair of r.
OwnAccess(r) == \A q \in Minted \ {r} : origin[q].access # origin[r].access

\* A trade that fails, is cut off or whose answer is lost may leave the client
\* with a refresh token that is void; it never voids it without a successor: the
\* token still works, or one that it was traded for works or was handed out.
TradeLeavesHeir ==
    \A t \in answered :
        LET heirs == {q \in Minted : origin[q].parent = t.refresh}
        IN /\ \A q \in heirs \cup {t.refresh} : OwnAccess(q)
           /\ clock <= t.acreate + AccessExp
           /\ clock <= t.rcreate + RefreshExp
           => \E q \in heirs \cup {t.refresh} :
                 Live(rows, q) \/ (q # t.refresh /\ q \in Handed)

(* Properties of steps. *)

\* A refresh request is admitted only within RefreshExp of the login that
\* started the session: refreshing often does not stretch it.
RefreshLifetimeIsAbsolute ==
    [][\A p \in Procs :
          pc[p] = "idle" /\ pc'[p] = "mint"
            => clock <= origin[old'[p].refresh].since + RefreshExp]_vars

\* What token_store.go:112 says of the two keys of a row: that the access key
\* is past its date takes nothing from a refresh key that is not.  Only the
\* trade of the refresh token itself may take it away.
RefreshOutlivesAccess ==
    [][\A row \in rows :
          /\ row.refresh # None
          /\ AccessExpired(row, clock)
          /\ ~RefreshExpired(row, clock)
          /\ ~Live(rows', row.refresh)
          => \E p \in Procs : pc[p] = "dropRefresh" /\ old[p].refresh = row.refresh]_vars

\* What token_store.go:41 says of a Create on a taken access key, that it has
\* the set semantics of the in-memory store: setting one key again leaves the
\* refresh keys of other pairs where they are.
CreateKeepsOtherRefreshKeys ==
    [][\A row \in rows, p \in Procs :
          /\ pc[p] = "upsert" /\ pc'[p] \in {"answer", "dropAccess"}
          /\ row.refresh # None
          => Live(rows', row.refresh)]_vars

-------------------------------------------------------------------------------
(* The table seen through its two keys implements SessionKeys. *)

\* a request that has generated its pair and not stored it yet
Pending(p) == pc[p] \in {"purge", "upsert"}

AccessBindings ==
    {[key |-> row.access, token |-> row.data] : row \in {w \in rows : w.access # None}}

RefreshBindings ==
    {[key |-> row.refresh, token |-> row.data] : row \in {w \in rows : w.refresh # None}}

Keys == INSTANCE SessionKeys WITH
    RefreshKeys <- Refreshes,
    byAccess <- AccessBindings,
    byRefresh <- RefreshBindings,
    unused <- Fresh \cup {tok[p].refresh : p \in {q \in Procs : Pending(q)}}

\* Whatever requests do to the table, in whatever order and wherever they are
\* cut off, a refresh token is stored once, leads to the pair stored with it,
\* and once gone never works again; an access token leads to the last pair
\* stored under it.
ImplementsSessionKeys == Keys!Spec
===============================================================================
