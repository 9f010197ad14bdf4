---------------------------- MODULE LoginContests ----------------------------
(***************************************************************************)
(* Accounts, watched by an observer who notes the logins that requests get  *)
(* in each other's way about.  Nothing but the lookups before an insert     *)
(* keeps a login to one account (there is no unique index on it), and what  *)
(* a lookup has found is not held until the insert.                         *)
(***************************************************************************)
EXTENDS Accounts

VARIABLE contested      \* logins that were up for two accounts at a time

contestVars == <<vars, contested>>

\* The logins that a request has found free, or needs not search for any more,
\* of the account that it will insert.
Claims(p) ==
    IF pc[p] = "registerEmail" THEN {copy[p].username}
    ELSE IF pc[p] = "registerPhone" THEN {copy[p].username, copy[p].email} \ {None}
    ELSE IF pc[p] \in {"create", "seedCreate"} THEN Logins(copy[p]) ELSE {}

\* The logins of the account that a request will write back, which may have been
\* deleted since.
Restores(p) ==
    IF pc[p] \in {"write", "profileWrite", "roleWrite", "seedWrite"}
    THEN Logins(copy[p]) ELSE {}

\* A request is to insert the login, and another one to insert it or to write it
\* back.
Contest(login) ==
    \E p, q \in Procs : p # q /\ login \in Claims(p) /\ login \in Claims(q) \cup Restores(q)

\* An account is to be named after a phone number or the administrator, and the
\* name is a login of another one: it is not searched for, or not in every field.
Unasked(login) ==
    /\ Taken(login)
    /\ \E p \in Procs :
          /\ \/ pc[p] = "idle" /\ pc'[p] = "create"
             \/ pc[p] = "seedFind" /\ pc'[p] = "seedCreate"
          /\ copy'[p].username = login

ContestsNoted ==
    contested' = contested \cup {login \in Texts : Contest(login)' \/ Unasked(login)}

ContestInit == Init /\ contested = {}

ContestNext == Next /\ ContestsNoted

ContestSpec == ContestInit /\ [][ContestNext]_contestVars

-------------------------------------------------------------------------------

\* Usernames, e-mail addresses and phone numbers are one space of logins
\* (provider.md, oauth.go:206).  A login belongs to two accounts only where two
\* requests were about to write it at a time, or an account was named without
\* asking whether the name is free; the three checks of a registration, stale
\* copies written back and deletions in between never make one otherwise.
OnlyContestedLoginsAreShared ==
    \A login \in Texts \ contested : \A i, j \in ByLogin(login) : i = j
===============================================================================
