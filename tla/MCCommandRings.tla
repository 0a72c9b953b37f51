--------------------------- MODULE MCCommandRings ---------------------------
(***************************************************************************)
(* The smallest rings the controller offers (2 slots each), one codec that *)
(* is there and one that is not, and enough commands to go around both.    *)
(***************************************************************************)
EXTENDS CommandRings
=============================================================================
