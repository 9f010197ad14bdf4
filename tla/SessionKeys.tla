----------------------------- MODULE SessionKeys ------------------------------
(***************************************************************************)
(* What a token store promises to the OAuth manager, whatever it is made    *)
(* of.  It answers lookups by two separate kinds of key, an access token    *)
(* and a refresh token, each with the token pair that was stored under it.  *)
(*                                                                          *)
(*   - storing a pair binds its refresh token, which was never bound before,*)
(*     and (re)binds its access token;                                      *)
(*   - a binding never changes, except that an access token may be bound    *)
(*     anew by a later pair;                                                *)
(*   - a binding may disappear (removal, expiry, cleaning up), and a refresh*)
(*     token whose binding has disappeared is never bound again.            *)
(*                                                                          *)
(* When a binding may disappear is left open here: it is where the table of *)
(* TokenStore and the in-memory store of the library differ.                *)
(***************************************************************************)

CONSTANT RefreshKeys

VARIABLES
    byAccess,   \* the bindings [key, token] a lookup by access token finds
    byRefresh,  \* the bindings [key, token] a lookup by refresh token finds
    unused      \* refresh tokens that may still be bound

keys == <<byAccess, byRefresh, unused>>

Binding(k, t) == [key |-> k, token |-> t]

Init ==
    /\ byAccess = {}
    /\ byRefresh = {}
    /\ unused = RefreshKeys

\* Store a pair; other bindings may disappear with it.
Bind(b) ==
    /\ b.key \in unused
    /\ b.token.refresh = b.key
    /\ byRefresh' \subseteq byRefresh \cup {b}
    /\ byAccess' \subseteq {c \in byAccess : c.key # b.token.access}
                             \cup {Binding(b.token.access, b.token)}
    /\ unused' = unused \ {b.key}

\* Bindings disappear; a refresh token that was generated and never stored
\* is used up.
Forget ==
    /\ byAccess' \subseteq byAccess
    /\ byRefresh' \subseteq byRefresh
    /\ unused' \subseteq unused

Next == (\E b \in byRefresh' : Bind(b)) \/ Forget

Spec == Init /\ [][Next]_keys
===============================================================================
