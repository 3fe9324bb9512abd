------------------------- MODULE MCSessionHandshake -------------------------
(***************************************************************************)
(* SessionHandshake on small instances: the configurations choose how many *)
(* boots and frames there are.                                             *)
(***************************************************************************)
EXTENDS SessionHandshake
=============================================================================
