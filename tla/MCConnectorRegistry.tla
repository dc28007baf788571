------------------------ MODULE MCConnectorRegistry ------------------------
(***************************************************************************)
(* Handlers are interchangeable.                                           *)
(***************************************************************************)
EXTENDS ConnectorRegistry, TLC

Symmetry == Permutations(Handler)
============================================================================
