----------------------------- MODULE AudioOutput -----------------------------
(***************************************************************************)
(* What write() of the simple audio output protocol promises to its        *)
(* caller, as far as both drivers keep it: the samples are heard from      *)
(* the first on, in order, none left out and none heard again before the   *)
(* rest was; the driver for HDA starts them over until the time is up, the *)
(* one for AC97 plays them once.  How much of them is heard depends on the *)
(* call's timer and is not promised here.                                  *)
(*                                                                         *)
(* HdaStream and Ac97Playback implement it, each with its own notion of    *)
(* what is heard at a time: a sample, or a buffer of them.                 *)
(***************************************************************************)
EXTENDS Naturals

CONSTANTS
  Block,      \* how many samples are heard at a time, at least 1
  Cyclic      \* are the samples started over?

VARIABLES
  phase,      \* "none", "called", or "playing"
  total,      \* the number of samples of the call, 0 if there is none
  heard,      \* the position, in them, of what is heard; 0 if nothing is
  count       \* how often something else was heard before it in this call

outputVars == <<phase, total, heard, count>>

OutputInit == phase = "none" /\ total = 0 /\ heard = 0 /\ count = 0

Call ==
  /\ phase = "none"
  /\ phase' = "called"
  /\ total' \in Nat /\ heard' = 0 /\ count' = 0

First ==
  /\ phase = "called" /\ total > 0
  /\ phase' = "playing"
  /\ heard' = 0 /\ UNCHANGED <<total, count>>

Following ==
  /\ phase = "playing" /\ heard + Block < total
  /\ heard' = heard + Block /\ count' = count + 1
  /\ UNCHANGED <<phase, total>>

StartOver ==
  /\ Cyclic
  /\ phase = "playing" /\ heard + Block >= total
  /\ heard' = 0 /\ count' = count + 1
  /\ UNCHANGED <<phase, total>>

(* The call ends, or fails and promises nothing any more. *)
End ==
  /\ phase # "none"
  /\ phase' = "none" /\ total' = 0 /\ heard' = 0 /\ count' = 0

OutputNext == Call \/ First \/ Following \/ StartOver \/ End

OutputSpec == OutputInit /\ [][OutputNext]_outputVars
=============================================================================
