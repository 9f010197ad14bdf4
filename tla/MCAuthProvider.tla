---------------------------- MODULE MCAuthProvider ----------------------------
(***************************************************************************)
(* AuthProvider on a small instance.  The phone number is also a username   *)
(* that can be registered.                                                  *)
(***************************************************************************)
EXTENDS AuthProvider, TLC

Interchangeable == Permutations(Refreshes)
===============================================================================
