------------------------------- MODULE MCTokens -------------------------------
(***************************************************************************)
(* Tokens on small instances.  The two lifetimes and the second keep the    *)
(* order they have in the deployment: a second is shorter than the access   *)
(* lifetime, which is shorter than the refresh lifetime.                    *)
(***************************************************************************)
EXTENDS Tokens, FiniteSets, TLC

\* Users, request slots and refresh tokens are interchangeable.
Interchangeable ==
    Permutations(Users) \cup Permutations(Procs) \cup Permutations(Refreshes)
===============================================================================
