-------------------------- MODULE MCCollectionAgent --------------------------
(***************************************************************************)
(* An instance of CollectionAgent for TLC: two overlapping polls over one  *)
(* loan of two instalments.                                                *)
(***************************************************************************)
EXTENDS CollectionAgent, TLC

=============================================================================
