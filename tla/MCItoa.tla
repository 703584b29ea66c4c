--------------------------------- MODULE MCItoa ---------------------------------
(***************************************************************************)
(* itoa on every number the plugin prints: a byte, the index of an item,   *)
(* and a byte less five.                                                   *)
(***************************************************************************)
EXTENDS Itoa

MCValues == -5..255
=============================================================================
