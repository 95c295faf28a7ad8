-------------------------- MODULE MCProviderEvents --------------------------
(***************************************************************************)
(* One delivery or reconciliation, two queue workers, two operators.       *)
(***************************************************************************)
EXTENDS ProviderEvents
=============================================================================
