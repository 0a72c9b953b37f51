----------------------------- MODULE AudioDrivers -----------------------------
(***************************************************************************)
(* The AC97 driver and the test bus driver on one handle database, with    *)
(* agents that hold audio interfaces open.  The drivers meet in pcm_unload,*)
(* which goes over the audio interfaces of both.                           *)
(***************************************************************************)
EXTENDS PcmBinding, TestBusBinding

vars == <<firmwareVars, pcmVars, busVars>>

TypeOK == DatabaseTypeOK /\ PcmTypeOK /\ BusTypeOK

Init == DatabaseInit /\ PcmInit /\ BusInit

Agents == \E h \in Handle : Hold(h) \/ Release(h)

Next ==
  \/ PcmNext /\ UNCHANGED busVars
  \/ BusNext /\ UNCHANGED pcmVars
  \/ Agents /\ UNCHANGED <<pcmVars, busVars>>

Spec == Init /\ [][Next]_vars
-----------------------------------------------------------------------------
(* A driver that was unloaded has left no interface of its own behind, to  *)
(* be called when its code is gone ("Unload() must fail if something went  *)
(* wrong", efi-pcm-dxe/src/main.rs 1192): whatever other handles its loop  *)
(* has met, and whatever was refused on the way.  What is excepted: an     *)
(* interface whose context had been dropped already, and a controller that *)
(* a callback started after the unload had looked for the last time.       *)
UnloadedClean ==
  /\ "pcm" \notin loaded \cup late /\ ~dumpFailed =>
       \A c \in PcmController : audio[c] = None
  /\ "bus" \notin loaded \cup late /\ ~orphaned =>
       \A h \in Child : audio[h] = None
=============================================================================
