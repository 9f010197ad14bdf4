--------------------------- MODULE MCAccountCentre ---------------------------
(***************************************************************************)
(* AccountCentre on a small instance: every screen with two calls under way.*)
(***************************************************************************)
EXTENDS AccountCentre
===============================================================================
