--------------------------- MODULE MCAc97Playback ---------------------------
(***************************************************************************)
(* A list of three descriptors for four samples each; writes of nothing,   *)
(* of one buffer and a single sample, and of more buffers than the list    *)
(* has; tones of nothing and of a whole buffer; two calls, so that the     *)
(* second meets the events and the engine the first left behind.           *)
(***************************************************************************)
EXTENDS Ac97Playback
=============================================================================
