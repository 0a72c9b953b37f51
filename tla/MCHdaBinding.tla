---------------------------- MODULE MCHdaBinding ----------------------------
(***************************************************************************)
(* Two controllers with up to two codecs each, two handles for children    *)
(* (fewer than contexts, so that handles are used again), and enough       *)
(* contexts to start a controller, stop it and start it again.             *)
(***************************************************************************)
EXTENDS HdaBinding
=============================================================================
