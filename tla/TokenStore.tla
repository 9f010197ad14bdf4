------------------------------ MODULE TokenStore ------------------------------
(***************************************************************************)
(* The token table of the provider (internal/store/token_store.go): what a  *)
(* row holds and what each single database statement does to the table.     *)
(*                                                                          *)
(* A row is reachable through two nullable, unique keys.  RemoveBy* and the *)
(* lazy expiry of getBy set one key to NULL and leave the row; only the     *)
(* purge of Create deletes rows.  The two expiry columns are computed by    *)
(* Create from the token it stores and never written again, so they are     *)
(* functions of the row's data here.                                        *)
(*                                                                          *)
(* Time is a number of ticks, SecondTicks of them to a second: columns and  *)
(* comparisons have the clock's resolution, the claims of a JWT only whole  *)
(* seconds.                                                                 *)
(***************************************************************************)
EXTENDS Naturals

CONSTANTS
    Users,          \* user IDs (the sub claim)
    Refreshes,      \* the random refresh tokens the generator may return
    None,           \* NULL in a key column; no token; no parent
    AccessExp,      \* lifetime of an access token, in ticks
    RefreshExp,     \* lifetime of a refresh token, in ticks
    SecondTicks     \* ticks in a second

\* An access token is an RS256 JWT of sub and exp: signing is deterministic,
\* so two tokens with the same claims are the same string.
Access == [sub : Users, exp : Nat]

\* The models.Token that the Data column carries as JSON.
Token == [user : Users, access : Access, refresh : Refreshes,
          acreate : Nat, rcreate : Nat]

Row == [access : Access \cup {None}, refresh : Refreshes \cup {None}, data : Token]

ASSUME LifetimesPositive ==
    /\ AccessExp \in Nat \ {0}
    /\ RefreshExp \in Nat \ {0}
    /\ SecondTicks \in Nat \ {0}

ASSUME NoneIsNoValue ==
    /\ None \notin Users \cup Refreshes
    /\ None \notin Access
    /\ None \notin Token

\* The JWT that the access generator signs for a user at a moment.
JWT(user, now) == [sub |-> user, exp |-> (now + AccessExp) \div SecondTicks]

\* Mutant of JWTAccepted: the exp claim is not looked at.
JWTNeverExpires(access, now) == TRUE

\* AuthMiddleware and UserInfo accept a JWT until the second its exp names.
JWTAccepted(access, now) == now < access.exp * SecondTicks

\* Mutant of AccessExpired: expired one tick early.
AccessExpiredEarly(row, now) == row.data.acreate + AccessExp <= now

AccessExpired(row, now) == row.data.acreate + AccessExp < now

\* Mutant of RefreshExpired: the date of the key is not looked at.
RefreshNeverExpired(row, now) == FALSE

RefreshExpired(row, now) == row.data.rcreate + RefreshExp < now

\* DELETE of Create: rows with an expired key, or with no key left.
Purged(table, now) ==
    {row \in table : /\ ~AccessExpired(row, now)
                     /\ ~RefreshExpired(row, now)
                     /\ ~(row.access = None /\ row.refresh = None)}

\* Mutant of Upserted: a plain INSERT.
Inserted(table, t) ==
    table \cup {[access |-> t.access, refresh |-> t.refresh, data |-> t]}

\* Mutant of Upserted: the conflict updates the data column only.
UpsertedDataOnly(table, t) ==
    {IF row.access = t.access THEN [row EXCEPT !.data = t] ELSE row : row \in table}
      \cup {row \in {[access |-> t.access, refresh |-> t.refresh, data |-> t]} :
               \A other \in table : other.access # t.access}

\* INSERT ... ON CONFLICT (access) DO UPDATE SET every column.
Upserted(table, t) ==
    {row \in table : row.access # t.access}
      \cup {[access |-> t.access, refresh |-> t.refresh, data |-> t]}

\* Mutant of AccessDetached: the refresh key goes as well, and with it the data.
RowEmptied(table, a) ==
    {IF row.access = a THEN [access |-> None, refresh |-> None] ELSE row : row \in table}

\* UPDATE ... SET access = NULL WHERE access = a.
AccessDetached(table, a) ==
    {IF row.access = a THEN [row EXCEPT !.access = None] ELSE row : row \in table}

\* Mutant of RefreshDetached: the condition names the other key.
RefreshDetachedByAccess(table, r) ==
    {IF row.access = r THEN [row EXCEPT !.refresh = None] ELSE row : row \in table}

\* UPDATE ... SET refresh = NULL WHERE refresh = r.
RefreshDetached(table, r) ==
    {IF row.refresh = r THEN [row EXCEPT !.refresh = None] ELSE row : row \in table}

\* A refresh token leads to some row of the table.
Live(table, r) == \E row \in table : row.refresh = r
===============================================================================
