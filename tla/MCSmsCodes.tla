------------------------------ MODULE MCSmsCodes ------------------------------
(***************************************************************************)
(* SmsCodes on small instances.  The record IDs are numbers, since a list   *)
(* is ordered by them; phones, codes and request slots are interchangeable. *)
(***************************************************************************)
EXTENDS SmsCodes, TLC

Interchangeable ==
    Permutations(Phones) \cup Permutations(Codes) \cup Permutations(Procs)
===============================================================================
