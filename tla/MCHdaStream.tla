---------------------------- MODULE MCHdaStream ----------------------------
(***************************************************************************)
(* A ring of four buffers of two samples; samples shorter and longer than  *)
(* the ring, none of them a divisor of it; two playbacks one after the     *)
(* other.                                                                  *)
(***************************************************************************)
EXTENDS HdaStream
=============================================================================
