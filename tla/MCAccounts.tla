------------------------------ MODULE MCAccounts ------------------------------
(***************************************************************************)
(* Accounts on small instances.  A phone number is also a text that can be  *)
(* registered as a username: the configurations with SMS logins put one in  *)
(* both sets.                                                               *)
(***************************************************************************)
EXTENDS Accounts, TLC

Interchangeable == Permutations(Procs) \cup Permutations(Passwords)

\* The state without what only an observer knows, apart from the IDs that are
\* used up: nothing else of it decides what happens next.
Unobserved == <<clock, users, roles, pc, who, copy, actor, Rows(born)>>
===============================================================================
