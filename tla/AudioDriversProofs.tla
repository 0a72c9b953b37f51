-------------------------- MODULE AudioDriversProofs --------------------------
(***************************************************************************)
(* Proofs about AudioDrivers, for any controllers, handles, addresses and  *)
(* numbers of children.                                                    *)
(***************************************************************************)
EXTENDS AudioDrivers, TLAPS

(***************************************************************************)
(* The inductive invariant.                                                *)
(***************************************************************************)
(* Each driver publishes on its own handles, and holds its own controllers.*)
Territories ==
  /\ \A c \in PcmController : audio[c] \in PcmAddress \cup {None}
  /\ \A c \in BusController : audio[c] = None
  /\ \A h \in Child : audio[h] \in BusAddress \cup {None}
  /\ byDriver["bus"] \subseteq BusController

(* What is on top is what has begun. *)
FramesInStep ==
  /\ running = "none" => starting = None /\ stopping = None
  /\ running = "start" => starting # None
  /\ running = "stop" => stopping # None
  /\ unloading = "pcm" => "pcm" \in loaded
  /\ unloading \in {"bus", "checked"} => "bus" \in loaded

(* pcm_unload still has before it every interface it must not leave. *)
PcmUnloadCovers ==
  unloading = "pcm" /\ "pcm" \notin late /\ ~dumpFailed =>
    \A c \in PcmController : audio[c] # None => c \in left

PcmUnloadedClean ==
  "pcm" \notin loaded \cup late /\ ~dumpFailed => \A c \in PcmController : audio[c] = None

(* Contexts are in different places. *)
PcmAddressesUnique == \A x, y \in pcmContexts : x.addr = y.addr => x = y

PcmInv == PcmAddressesUnique /\ PcmBacked /\ PcmReachable /\ PcmUnloadCovers /\ PcmUnloadedClean

AddressesUnique ==
  /\ \A x, y \in busContexts : x.addr = y.addr => x = y
  /\ new # None => \A x \in busContexts : x.addr # new.addr

(* The context that hdbus_stop_child has at hand is that of the child it   *)
(* was given.  When the interface is gone the handle may be that of another*)
(* child, but of none of the disconnected controller, unless that was      *)
(* started in the middle of its disconnect.                                *)
StopHolds ==
  ~orphaned =>
    /\ device # None => device.child = child
    /\ stopStep = "unregister" =>
         \A x \in busContexts \ {device} : x.child = child => x.ctl # stopping \/ x.ctl \in cut

(* What a disconnect can still find. *)
StartHolds ==
  starting # None /\ starting \notin cut => starting \in byDriver["bus"] /\ starting # stopping

StopCovers ==
  "bus" \in loaded /\ ~orphaned => \A x \in busContexts :
    x.ctl \notin cut =>
      /\ x.ctl \in byDriver["bus"] \/ x.ctl = stopping
      /\ x.ctl = stopping => x.child \in children

ChildrenRecorded ==
  "bus" \in loaded =>
    /\ \A x \in busContexts : <<x.ctl, x.child>> \in byChild
    /\ step = "register" => <<starting, new.child>> \in byChild

(* Nothing comes after hdbus_unload's check, unless it is started late. *)
BusEmptied ==
  "bus" \notin late /\ (unloading = "checked" \/ "bus" \notin loaded)
    => busContexts = {} /\ starting = None /\ running # "undefined"

BusInv ==
  /\ AddressesUnique /\ BusBacked
  /\ StartHolds /\ StopHolds /\ StopCovers /\ ChildrenRecorded /\ BusEmptied

IInv == TypeOK /\ Territories /\ FramesInStep /\ PcmInv /\ BusInv
-----------------------------------------------------------------------------
LEMMA InitHolds == Init => IInv
<1> SUFFICES ASSUME Init PROVE IInv
  OBVIOUS
<1> USE DatabaseAssumption, BusAssumption
<1> USE DEF Init, DatabaseInit, PcmInit, BusInit
<1>1. TypeOK
  <2>1. dumpFailed \in BOOLEAN /\ orphaned \in BOOLEAN
    BY Zenon
  <2>2. DatabaseTypeOK
    BY DEF DatabaseTypeOK, Driver
  <2>3. PcmTypeOK /\ BusTypeOK
    BY <2>1 DEF PcmTypeOK, BusTypeOK
  <2>4. QED
    BY <2>2, <2>3 DEF TypeOK
<1>2. Territories /\ FramesInStep
  BY DEF Territories, FramesInStep, Handle, Controller, Driver
<1>3. PcmInv
  BY DEF PcmInv, PcmAddressesUnique, PcmBacked, PcmReachable, PcmUnloadCovers, PcmUnloadedClean, Handle, Controller
<1>4. BusInv
  BY DEF BusInv, AddressesUnique, BusBacked, Withdrawn, StartHolds, StopHolds, StopCovers,
     ChildrenRecorded, BusEmptied, Handle, Driver
<1>5. QED
  BY <1>1, <1>2, <1>3, <1>4 DEF IInv
-----------------------------------------------------------------------------
(* Types. *)

LEMMA PcmTypeStep == ASSUME TypeOK, PcmNext, UNCHANGED busVars PROVE TypeOK'
<1> USE DatabaseAssumption
<1>1. DatabaseTypeOK /\ PcmTypeOK /\ BusTypeOK
  BY DEF TypeOK
<1>2. PcmController \subseteq Handle /\ PcmController \subseteq Controller
      /\ PcmAddress \subseteq Address /\ Freed \subseteq PcmAddress /\ {"pcm", "bus"} \subseteq Driver
  BY DEF Handle, Controller, Address, Freed, Driver
<1>3. BusTypeOK'
  BY <1>1 DEF busVars, startVars, stopVars, BusTypeOK
<1>4. ASSUME NEW c \in PcmController, PcmStart(c) PROVE DatabaseTypeOK' /\ PcmTypeOK'
  BY <1>1, <1>2, <1>4 DEF PcmStart, PcmStartable, OpenByDriver, Install, DatabaseTypeOK, PcmTypeOK
<1>5. ASSUME NEW c \in PcmController, PcmStartDumpFails(c) PROVE DatabaseTypeOK' /\ PcmTypeOK'
  <2>1. dumpFailed' \in BOOLEAN
    BY <1>5, Zenon DEF PcmStartDumpFails
  <2>2. QED
    BY <1>1, <1>2, <1>5, <2>1 DEF PcmStartDumpFails, Install, DatabaseTypeOK, PcmTypeOK, loadVars
<1>6. ASSUME NEW c, PcmStop(c) \/ PcmStopTwice(c)
      PROVE  /\ audio' \in [Handle -> Address \cup {None}]
             /\ byDriver' \in [Driver -> SUBSET Controller] /\ byChild' = byChild /\ held' = held
             /\ running' \in {"none", "start", "stop", "halted", "undefined"}
             /\ PcmTypeOK'
  <2>1. CASE PcmStop(c)
    BY <1>1, <1>2, <2>1 DEF PcmStop, Uninstall, DatabaseTypeOK, PcmTypeOK
  <2>2. CASE PcmStopTwice(c)
    BY <1>1, <1>2, <2>2 DEF PcmStopTwice, Uninstall, DatabaseTypeOK, PcmTypeOK, pcmVars
  <2>3. QED
    BY <1>6, <2>1, <2>2
<1>7. ASSUME NEW c \in PcmController, PcmDisconnect(c) PROVE DatabaseTypeOK' /\ PcmTypeOK'
  <2>1. (PcmStop(c) \/ PcmStopTwice(c)) /\ UNCHANGED loadVars
    BY <1>7 DEF PcmDisconnect
  <2>2. QED
    BY <1>1, <1>6, <2>1 DEF DatabaseTypeOK, loadVars
<1>8. ASSUME NEW h \in Handle, PcmUnloadStop(h) PROVE DatabaseTypeOK' /\ PcmTypeOK'
  <2>1. (PcmStop(h) \/ PcmStopTwice(h)) /\ left' = left \ {h} /\ UNCHANGED <<loaded, unloading, late>>
    BY <1>8 DEF PcmUnloadStop
  <2>2. QED
    BY <1>1, <1>6, <2>1 DEF DatabaseTypeOK
<1>9. ASSUME NEW h \in Handle, PcmUnloadSkip(h) \/ PcmUnloadFails(h) PROVE DatabaseTypeOK' /\ PcmTypeOK'
  BY <1>1, <1>9 DEF PcmUnloadSkip, PcmUnloadFails, UnloadReturns, DatabaseTypeOK, PcmTypeOK, dbVars, pcmVars
<1>10. CASE PcmUnload \/ PcmUnloadKept
  BY <1>1, <1>3, <1>10 DEF PcmUnload, PcmUnloadKept, UnloadReturns, Published, TypeOK, DatabaseTypeOK,
     PcmTypeOK, dbVars, pcmVars
<1>11. CASE PcmUnloadEnds
  BY <1>1, <1>2, <1>3, <1>11 DEF PcmUnloadEnds, ImageGoes, UnloadReturns, TypeOK, DatabaseTypeOK, PcmTypeOK, pcmVars
<1>12. QED
  BY <1>3, <1>4, <1>5, <1>7, <1>8, <1>9, <1>10, <1>11 DEF PcmNext, TypeOK

LEMMA BusTypeStep ==
  ASSUME TypeOK, Territories, FramesInStep, BusNext, UNCHANGED pcmVars
  PROVE  TypeOK'
<1> USE DatabaseAssumption, BusAssumption
<1>1. DatabaseTypeOK /\ PcmTypeOK /\ BusTypeOK
  BY DEF TypeOK
<1>2. /\ BusController \subseteq Controller /\ Child \subseteq Handle
      /\ BusAddress \subseteq Address /\ {"pcm", "bus"} \subseteq Driver
      /\ None \notin BusController /\ None \notin Child
  BY DEF Handle, Controller, Address, Driver
<1>3. PcmTypeOK'
  BY <1>1 DEF pcmVars, PcmTypeOK
<1>4. byDriver["bus"] \subseteq BusController
  BY DEF Territories
<1>5. ASSUME NEW c \in BusController, BusStart(c) PROVE DatabaseTypeOK' /\ BusTypeOK'
  <2>1. DatabaseTypeOK'
    BY <1>1, <1>2, <1>5 DEF BusStart, OpenByDriver, DatabaseTypeOK
  <2>2. BusTypeOK'
    BY <1>1, <1>2, <1>5 DEF BusStart, BusTypeOK, stopVars
  <2>3. QED
    BY <2>1, <2>2
<1>6. CASE BusCreate
  <2>1. PICK a \in BusAddress, h \in Child : Install(h, a) /\ new' = [addr |-> a, child |-> h]
    BY <1>6 DEF BusCreate
  <2>2. DatabaseTypeOK'
    BY <1>1, <1>2, <1>6, <2>1 DEF BusCreate, Install, DatabaseTypeOK, loadVars
  <2>3. new' \in NewChild /\ new' # None
    BY <2>1 DEF NewChild
  <2>4. BusTypeOK'
    BY <1>1, <1>2, <1>6, <2>3 DEF BusCreate, Starting, FramesInStep, BusTypeOK, stopVars
  <2>5. QED
    BY <2>2, <2>4, <1>3 DEF TypeOK
<1>7. ASSUME StartReturns, UNCHANGED <<busContexts, stopVars, cut>>, orphaned' \in BOOLEAN
      PROVE  BusTypeOK' /\ running' \in {"none", "start", "stop", "halted", "undefined"}
  BY <1>1, <1>7 DEF StartReturns, BusTypeOK, stopVars
<1>8. CASE BusCreateFails \/ BusStartEnds
  <2>1. StartReturns /\ UNCHANGED <<dbVars, loadVars, busContexts, stopVars, orphaned, cut>>
    BY <1>8 DEF BusCreateFails, BusStartEnds
  <2>2. orphaned' \in BOOLEAN
    BY <1>1, <2>1 DEF BusTypeOK
  <2>3. BusTypeOK' /\ DatabaseTypeOK'
    BY <1>1, <1>7, <2>1, <2>2 DEF DatabaseTypeOK, dbVars, loadVars
  <2>4. QED
    BY <2>3, <1>3 DEF TypeOK
<1>9. CASE BusTakeBack
  <2>1. orphaned' \in BOOLEAN
    <3>1. orphaned' = TRUE \/ orphaned' = orphaned
      BY <1>9, Zenon DEF BusTakeBack
    <3>2. QED
      BY <1>1, <3>1, Zenon DEF BusTypeOK
  <2>2. BusTypeOK' /\ running' \in {"none", "start", "stop", "halted", "undefined"}
    BY <1>7, <1>9, <2>1 DEF BusTakeBack
  <2>3. DatabaseTypeOK'
    BY <1>1, <1>9, <2>2 DEF BusTakeBack, Uninstall, DatabaseTypeOK, loadVars
  <2>4. QED
    BY <2>2, <2>3, <1>3 DEF TypeOK
<1>10. CASE BusOpenChild \/ BusRegister
  <2>1. starting \in BusController /\ new \in NewChild
    BY <1>1, <1>10 DEF BusOpenChild, BusRegister, Starting, BusTypeOK, FramesInStep
  <2>2. new.addr \in BusAddress /\ new.child \in Child
    BY <2>1 DEF NewChild
  <2>3. DatabaseTypeOK'
    BY <1>1, <1>2, <1>10, <2>1, <2>2 DEF BusOpenChild, BusRegister, DatabaseTypeOK, dbVars, loadVars
  <2>4. BusTypeOK'
    BY <1>1, <1>10, <2>1, <2>2 DEF BusOpenChild, BusRegister, Registered, BusContext, Starting, BusTypeOK, stopVars
  <2>5. QED
    BY <2>3, <2>4, <1>3 DEF TypeOK
<1>11. ASSUME NEW c, Disconnecting(c) PROVE BusTypeOK' /\ running' = "stop" /\ UNCHANGED dbVars
  <2>1. c \in BusController
    BY <1>4, <1>11 DEF Disconnecting
  <2>2. QED
    BY <1>1, <1>11, <2>1 DEF Disconnecting, BusTypeOK, startVars
<1>12. ASSUME NEW c \in BusController, BusDisconnect(c) PROVE DatabaseTypeOK' /\ BusTypeOK'
  BY <1>1, <1>11, <1>12 DEF BusDisconnect, DatabaseTypeOK, dbVars, loadVars
<1>13. ASSUME NEW c \in Controller, BusUnloadDisconnect(c) PROVE DatabaseTypeOK' /\ BusTypeOK'
  <2>1. left' = left \ {c} /\ UNCHANGED <<loaded, unloading, late>>
    BY <1>13 DEF BusUnloadDisconnect
  <2>2. CASE Disconnecting(c)
    BY <1>1, <1>11, <2>1, <2>2 DEF DatabaseTypeOK, dbVars
  <2>3. CASE UNCHANGED <<dbVars, running, busVars>>
    BY <1>1, <2>1, <2>3 DEF DatabaseTypeOK, BusTypeOK, dbVars, busVars, startVars, stopVars
  <2>4. QED
    BY <1>13, <2>2, <2>3 DEF BusUnloadDisconnect
<1>14. ASSUME StopReturns, UNCHANGED <<startVars, orphaned>>, busContexts' = busContexts,
              cut' \subseteq cut \cup {stopping}, stopping # None
       PROVE  BusTypeOK' /\ running' \in {"none", "start", "stop", "halted", "undefined"}
  BY <1>1, <1>14 DEF StopReturns, BusTypeOK, startVars
<1>15. ASSUME NEW h \in Child, BusStopChildCloses(h) PROVE DatabaseTypeOK' /\ BusTypeOK'
  <2>1. byDriver' \in [Driver -> SUBSET Controller] /\ device' \in BusContext
    BY <1>1, <1>15 DEF BusStopChildCloses, Close, DatabaseTypeOK, BusTypeOK
  <2>2. DatabaseTypeOK'
    BY <1>1, <1>15, <2>1 DEF BusStopChildCloses, DatabaseTypeOK, loadVars
  <2>3. BusTypeOK'
    <3>1. /\ child' = h /\ stopStep' = "uninstall" /\ h \in children
          /\ UNCHANGED <<busContexts, startVars, stopping, children, orphaned, cut>>
      BY <1>15 DEF BusStopChildCloses
    <3>2. stopping # None /\ child' # None /\ device' # None
      BY <1>2, <1>15, <2>1, <3>1 DEF BusStopChildCloses, Stopping, FramesInStep
    <3>3. QED
      BY <1>1, <2>1, <3>1, <3>2 DEF BusTypeOK, startVars
  <2>4. QED
    BY <2>2, <2>3
<1>16. ASSUME NEW h \in Child, BusStopChildStale(h) PROVE DatabaseTypeOK' /\ BusTypeOK'
  <2>1. BusTypeOK' /\ running' \in {"none", "start", "stop", "halted", "undefined"}
    BY <1>14, <1>16 DEF BusStopChildStale, Stopping, FramesInStep
  <2>2. QED
    BY <1>1, <1>16, <2>1 DEF BusStopChildStale, DatabaseTypeOK, dbVars, loadVars
<1>20. CASE BusStopChildRefused
  <2>1. BusTypeOK' /\ running' \in {"none", "start", "stop", "halted", "undefined"}
    BY <1>14, <1>20 DEF BusStopChildRefused, Stopping, FramesInStep
  <2>2. DatabaseTypeOK'
    BY <1>1, <1>20, <2>1 DEF BusStopChildRefused, DatabaseTypeOK, dbVars, loadVars
  <2>3. QED
    BY <2>1, <2>2, <1>3 DEF TypeOK
<1>21. CASE BusStopChildUninstalls
  <2>1. child \in Child
    BY <1>1, <1>21 DEF BusStopChildUninstalls, BusTypeOK
  <2>2. DatabaseTypeOK'
    BY <1>1, <1>2, <1>21, <2>1 DEF BusStopChildUninstalls, Uninstall, DatabaseTypeOK, loadVars
  <2>3. BusTypeOK'
    BY <1>1, <1>21 DEF BusStopChildUninstalls, BusTypeOK, startVars
  <2>4. QED
    BY <2>2, <2>3, <1>3 DEF TypeOK
<1>22. CASE BusStopChildUnregisters
  <2>1. DatabaseTypeOK'
    BY <1>1, <1>22 DEF BusStopChildUnregisters, DatabaseTypeOK, dbVars, loadVars
  <2>2. BusTypeOK'
    BY <1>1, <1>22 DEF BusStopChildUnregisters, BusTypeOK, startVars
  <2>3. QED
    BY <2>1, <2>2, <1>3 DEF TypeOK
<1>23. CASE BusRace
  <2>1. starting \in BusController /\ new \in NewChild
    BY <1>1, <1>23 DEF BusRace, BusTypeOK
  <2>2. new.addr \in BusAddress /\ new.child \in Child
    BY <2>1 DEF NewChild
  <2>3. Registered \subseteq BusContext
    BY <1>1, <2>1, <2>2 DEF Registered, BusContext, BusTypeOK
  <2>4. DatabaseTypeOK'
    BY <1>1, <1>23 DEF BusRace, DatabaseTypeOK, dbVars, loadVars
  <2>5. BusTypeOK'
    BY <1>1, <1>23, <2>3 DEF BusRace, BusTypeOK, stopVars
  <2>6. QED
    BY <2>4, <2>5, <1>3 DEF TypeOK
<1>17. CASE BusStopBus
  <2>1. byDriver' \in [Driver -> SUBSET Controller]
    BY <1>1, <1>17 DEF BusStopBus, Close, DatabaseTypeOK
  <2>2. BusTypeOK' /\ running' \in {"none", "start", "stop", "halted", "undefined"}
    BY <1>14, <1>17 DEF BusStopBus, Stopping, FramesInStep
  <2>3. DatabaseTypeOK'
    BY <1>1, <1>17, <2>1, <2>2 DEF BusStopBus, DatabaseTypeOK, loadVars
  <2>4. QED
    BY <2>2, <2>3, <1>3 DEF TypeOK
<1>18. CASE BusUnload \/ BusUnloadCheck \/ BusUnloadFails \/ BusUnloadEnds
  <2>1. busVars' = busVars
    BY <1>18 DEF BusUnload, BusUnloadCheck, BusUnloadFails, BusUnloadEnds
  <2>2. BusTypeOK'
    BY <1>1, <2>1 DEF BusTypeOK, busVars, startVars, stopVars
  <2>3. DatabaseTypeOK'
    BY <1>1, <1>2, <1>18 DEF BusUnload, BusUnloadCheck, BusUnloadFails, BusUnloadEnds, ImageGoes,
       UnloadReturns, DatabaseTypeOK, dbVars, Handle
  <2>4. QED
    BY <2>2, <2>3, <1>3 DEF TypeOK
<1>19. QED
  BY <1>3, <1>5, <1>6, <1>8, <1>9, <1>10, <1>12, <1>13, <1>15, <1>16, <1>17, <1>18, <1>20,
     <1>21, <1>22, <1>23 DEF BusNext, TypeOK
-----------------------------------------------------------------------------
(* What a step of one driver leaves to the other. *)

LEMMA PcmStopFrame ==
  ASSUME TypeOK, Territories, NEW c, PcmStop(c) \/ PcmStopTwice(c)
  PROVE  /\ c \in PcmController
         /\ audio' = [audio EXCEPT ![c] = None]
         /\ byDriver' = byDriver /\ byChild' = byChild
         /\ running' \in {running, "halted"}
<1>1. CASE PcmStop(c)
  BY <1>1 DEF PcmStop, Uninstall
<1>2. CASE PcmStopTwice(c)
  BY <1>2 DEF PcmStopTwice, Uninstall
<1>3. QED
  BY <1>1, <1>2

PcmKeeps ==
  /\ \A h \in Handle \ PcmController : audio'[h] = audio[h]
  /\ \A c \in PcmController : audio'[c] \in PcmAddress \cup {None}
  /\ byDriver'["bus"] = byDriver["bus"] /\ byChild' = byChild
  /\ "bus" \in loaded' <=> "bus" \in loaded
  /\ "bus" \in late' <=> "bus" \in late
  /\ running' \in {running, "halted"} /\ (running = "undefined" => running' = running)
  /\ unloading' = unloading \/ (unloading \in {"none", "pcm"} /\ unloading' \in {"none", "pcm"})
  /\ unloading' = "pcm" => "pcm" \in loaded'

LEMMA PcmFrame ==
  ASSUME TypeOK, Territories, FramesInStep, PcmNext
  PROVE  PcmKeeps
<1> USE DatabaseAssumption
<1>1. /\ audio \in [Handle -> Address \cup {None}] /\ byDriver \in [Driver -> SUBSET Controller]
      /\ PcmController \subseteq Handle /\ Freed \subseteq PcmAddress /\ "bus" \in Driver
  BY DEF TypeOK, DatabaseTypeOK, Handle, Controller, Freed, Driver
<1>2. \A c \in PcmController : audio[c] \in PcmAddress \cup {None}
  BY DEF Territories
<1>3. ASSUME NEW c \in PcmController, PcmStart(c) \/ PcmStartDumpFails(c) PROVE PcmKeeps
  <2>1. PICK a \in Freed : audio' = [audio EXCEPT ![c] = a]
    BY <1>3 DEF PcmStart, PcmStartDumpFails, Install
  <2>2. /\ \A h \in Handle \ PcmController : audio'[h] = audio[h]
        /\ \A d \in PcmController : audio'[d] \in PcmAddress \cup {None}
    BY <1>1, <1>2, <2>1
  <2>3. byDriver'["bus"] = byDriver["bus"] /\ byChild' = byChild
    BY <1>1, <1>3 DEF PcmStart, PcmStartDumpFails, OpenByDriver
  <2>4. /\ "bus" \in late' <=> "bus" \in late
        /\ loaded' = loaded /\ running' = running /\ unloading' = unloading
    BY <1>3 DEF PcmStart, PcmStartDumpFails, loadVars
  <2>5. QED
    BY <2>2, <2>3, <2>4 DEF PcmKeeps, FramesInStep
<1>4. ASSUME NEW c, PcmStop(c) \/ PcmStopTwice(c), UNCHANGED <<loaded, unloading, late>>,
             running # "undefined"
      PROVE  PcmKeeps
  <2>1. /\ c \in PcmController /\ audio' = [audio EXCEPT ![c] = None]
        /\ byDriver' = byDriver /\ byChild' = byChild /\ running' \in {running, "halted"}
    BY <1>4, PcmStopFrame
  <2>2. /\ \A h \in Handle \ PcmController : audio'[h] = audio[h]
        /\ \A d \in PcmController : audio'[d] \in PcmAddress \cup {None}
    BY <1>1, <1>2, <2>1
  <2>3. QED
    BY <1>4, <2>1, <2>2 DEF PcmKeeps, FramesInStep
<1>5. ASSUME NEW c, PcmDisconnect(c) \/ PcmUnloadStop(c) PROVE PcmKeeps
  BY <1>4, <1>5 DEF PcmDisconnect, PcmUnloadStop, Up, Unloading, loadVars
<1>6. ASSUME NEW h, PcmUnloadSkip(h) \/ PcmUnloadFails(h) PROVE PcmKeeps
  BY <1>2, <1>6 DEF PcmUnloadSkip, PcmUnloadFails, Unloading, UnloadReturns, dbVars, PcmKeeps, FramesInStep
<1>7. CASE PcmUnload \/ PcmUnloadKept
  BY <1>2, <1>7 DEF PcmUnload, PcmUnloadKept, Unloading, UnloadReturns, dbVars, PcmKeeps, FramesInStep
<1>8. CASE PcmUnloadEnds
  BY <1>1, <1>2, <1>8 DEF PcmUnloadEnds, Unloading, ImageGoes, UnloadReturns, PcmKeeps, FramesInStep
<1>9. QED
  BY <1>3, <1>5, <1>6, <1>7, <1>8 DEF PcmNext

BusKeeps ==
  /\ \A c \in Controller : audio'[c] = audio[c]
  /\ \A h \in Child : audio'[h] \in BusAddress \cup {None}
  /\ byDriver'["pcm"] = byDriver["pcm"] /\ byDriver'["bus"] \subseteq BusController
  /\ "pcm" \in loaded' <=> "pcm" \in loaded
  /\ "pcm" \in late' <=> "pcm" \in late
  /\ unloading' = "pcm" <=> unloading = "pcm"
  /\ unloading = "pcm" => left' = left

LEMMA BusFrame ==
  ASSUME TypeOK, Territories, FramesInStep, BusNext
  PROVE  BusKeeps
<1> USE DatabaseAssumption
<1>1. /\ audio \in [Handle -> Address \cup {None}] /\ byDriver \in [Driver -> SUBSET Controller]
      /\ Child \subseteq Handle /\ Controller \subseteq Handle /\ Child \cap Controller = {}
      /\ {"pcm", "bus"} \subseteq Driver
  BY DEF TypeOK, DatabaseTypeOK, Handle, Driver
<1>2. /\ \A h \in Child : audio[h] \in BusAddress \cup {None}
      /\ byDriver["bus"] \subseteq BusController
  BY DEF Territories
<1>3. ASSUME NEW h \in Child, NEW a \in BusAddress \cup {None}, audio' = [audio EXCEPT ![h] = a]
      PROVE  /\ \A c \in Controller : audio'[c] = audio[c]
             /\ \A k \in Child : audio'[k] \in BusAddress \cup {None}
  BY <1>1, <1>2, <1>3
<1>4. ASSUME NEW c, Close("bus", c)
      PROVE  byDriver'["pcm"] = byDriver["pcm"] /\ byDriver'["bus"] \subseteq BusController
  BY <1>1, <1>2, <1>4 DEF Close
<1>5. ASSUME NEW c \in BusController, BusStart(c) PROVE BusKeeps
  <2>1. byDriver'["pcm"] = byDriver["pcm"] /\ byDriver'["bus"] \subseteq BusController
    BY <1>1, <1>2, <1>5 DEF BusStart, OpenByDriver
  <2>2. QED
    BY <1>2, <1>5, <2>1 DEF BusStart, BusKeeps
<1>6. CASE BusCreate
  <2>1. PICK a \in BusAddress, h \in Child : audio' = [audio EXCEPT ![h] = a]
    BY <1>6 DEF BusCreate, Install
  <2>2. /\ \A c \in Controller : audio'[c] = audio[c]
        /\ \A k \in Child : audio'[k] \in BusAddress \cup {None}
    BY <1>3, <2>1
  <2>3. QED
    BY <1>2, <1>6, <2>2 DEF BusCreate, loadVars, BusKeeps
<1>7. CASE BusTakeBack
  <2>1. new.child \in Child
    BY <1>7 DEF BusTakeBack, TypeOK, BusTypeOK, NewChild
  <2>2. /\ \A c \in Controller : audio'[c] = audio[c]
        /\ \A k \in Child : audio'[k] \in BusAddress \cup {None}
    BY <1>2, <1>3, <1>7, <2>1 DEF BusTakeBack, Uninstall
  <2>3. QED
    BY <1>2, <1>7, <2>2 DEF BusTakeBack, loadVars, BusKeeps
<1>8. CASE BusOpenChild \/ BusCreateFails \/ BusRegister \/ BusStartEnds
  BY <1>2, <1>8 DEF BusOpenChild, BusCreateFails, BusRegister, BusStartEnds, loadVars, dbVars, BusKeeps
<1>9. ASSUME NEW h \in Child, BusStopChildCloses(h) PROVE BusKeeps
  <2>1. Close("bus", stopping) \/ byDriver' = byDriver
    BY <1>9 DEF BusStopChildCloses
  <2>2. byDriver'["pcm"] = byDriver["pcm"] /\ byDriver'["bus"] \subseteq BusController
    BY <1>2, <1>4, <2>1
  <2>3. QED
    BY <1>2, <1>9, <2>2 DEF BusStopChildCloses, loadVars, BusKeeps
<1>10. CASE BusStopChildUninstalls
  <2>1. child \in Child
    BY <1>10 DEF BusStopChildUninstalls, TypeOK, BusTypeOK
  <2>2. /\ \A c \in Controller : audio'[c] = audio[c]
        /\ \A k \in Child : audio'[k] \in BusAddress \cup {None}
    BY <1>3, <1>10, <2>1 DEF BusStopChildUninstalls, Uninstall
  <2>3. QED
    BY <1>2, <1>10, <2>2 DEF BusStopChildUninstalls, loadVars, BusKeeps
<1>11. ASSUME NEW h, BusStopChildStale(h) PROVE BusKeeps
  BY <1>2, <1>11 DEF BusStopChildStale, dbVars, loadVars, BusKeeps
<1>17. CASE BusStopChildRefused \/ BusStopChildUnregisters \/ BusRace
  BY <1>2, <1>17 DEF BusStopChildRefused, BusStopChildUnregisters, BusRace, dbVars, loadVars, BusKeeps
<1>12. CASE BusStopBus
  <2>1. byDriver'["pcm"] = byDriver["pcm"] /\ byDriver'["bus"] \subseteq BusController
    BY <1>4, <1>12 DEF BusStopBus
  <2>2. QED
    BY <1>2, <1>12, <2>1 DEF BusStopBus, loadVars, BusKeeps
<1>13. ASSUME NEW c, BusDisconnect(c) PROVE BusKeeps
  BY <1>2, <1>13 DEF BusDisconnect, Disconnecting, dbVars, loadVars, BusKeeps
<1>14. ASSUME NEW c, BusUnloadDisconnect(c) PROVE BusKeeps
  BY <1>2, <1>14 DEF BusUnloadDisconnect, Disconnecting, Unloading, dbVars, BusKeeps
<1>15. CASE BusUnload \/ BusUnloadCheck \/ BusUnloadFails
  BY <1>2, <1>15 DEF BusUnload, BusUnloadCheck, BusUnloadFails, Unloading, UnloadReturns, dbVars, BusKeeps
<1>16. CASE BusUnloadEnds
  BY <1>1, <1>2, <1>16 DEF BusUnloadEnds, Unloading, ImageGoes, UnloadReturns, BusKeeps
<1>18. QED
  BY <1>5, <1>6, <1>7, <1>8, <1>9, <1>10, <1>11, <1>12, <1>13, <1>14, <1>15, <1>16, <1>17 DEF BusNext
-----------------------------------------------------------------------------
(* The AC97 driver's part of the invariant. *)

LEMMA PcmInvStep ==
  ASSUME TypeOK, Territories, FramesInStep, PcmInv, PcmNext
  PROVE  PcmInv'
<1> USE DatabaseAssumption
<1>1. /\ audio \in [Handle -> Address \cup {None}] /\ byDriver \in [Driver -> SUBSET Controller]
      /\ PcmController \subseteq Handle /\ PcmController \cap Child = {}
      /\ {"pcm", "bus"} \subseteq Driver /\ None \notin PcmAddress
      /\ pcmContexts \subseteq [addr : PcmAddress, ctl : PcmController]
  BY DEF TypeOK, DatabaseTypeOK, PcmTypeOK, Handle, Controller, Address, Driver
<1>2. PcmAddressesUnique /\ PcmBacked /\ PcmReachable /\ PcmUnloadCovers /\ PcmUnloadedClean
  BY DEF PcmInv
<1>3. \A c \in PcmController : audio[c] \in PcmAddress \cup {None}
  BY DEF Territories
<1>4. ASSUME NEW c \in PcmController, PcmStart(c) PROVE PcmInv'
  <2>1. PICK a \in Freed : /\ audio' = [audio EXCEPT ![c] = a]
                           /\ pcmContexts' = pcmContexts \cup {[addr |-> a, ctl |-> c]}
    BY <1>4 DEF PcmStart, Install
  <2>2. a \in PcmAddress /\ \A x \in pcmContexts : x.addr # a
    BY DEF Freed
  <2>3. "pcm" \in loaded /\ audio[c] = None /\ loaded' = loaded /\ unloading' = unloading /\ left' = left
        /\ dumpFailed' = dumpFailed /\ byDriver' = [byDriver EXCEPT !["pcm"] = @ \cup {c}]
        /\ (unloading = "pcm" => "pcm" \in late')
    BY <1>4 DEF PcmStart, PcmStartable, OpenByDriver
  <2>4. PcmAddressesUnique'
    BY <1>1, <1>2, <2>1, <2>2 DEF PcmAddressesUnique
  <2>5. PcmBacked'
    BY <1>1, <1>2, <2>1, <2>2, <2>3 DEF PcmBacked
  <2>6. PcmReachable'
    BY <1>1, <1>2, <2>1, <2>3 DEF PcmReachable
  <2>7. PcmUnloadCovers' /\ PcmUnloadedClean'
    BY <2>3 DEF PcmUnloadCovers, PcmUnloadedClean
  <2>8. QED
    BY <2>4, <2>5, <2>6, <2>7 DEF PcmInv
<1>5. ASSUME NEW c \in PcmController, PcmStartDumpFails(c) PROVE PcmInv'
  <2>1. dumpFailed' /\ pcmContexts' = pcmContexts
    BY <1>5 DEF PcmStartDumpFails
  <2>2. QED
    BY <1>2, <2>1 DEF PcmInv, PcmAddressesUnique, PcmBacked, PcmReachable, PcmUnloadCovers, PcmUnloadedClean
<1>6. ASSUME NEW c, PcmStop(c) \/ PcmStopTwice(c), UNCHANGED <<loaded, unloading, late>>,
             left' = left \/ left' = left \ {c}
      PROVE  PcmInv'
  <2>1. /\ c \in PcmController /\ audio' = [audio EXCEPT ![c] = None]
        /\ byDriver' = byDriver /\ dumpFailed' = dumpFailed /\ pcmContexts' \subseteq pcmContexts
    <3>1. dumpFailed' = dumpFailed /\ pcmContexts' \subseteq pcmContexts
      BY <1>6 DEF PcmStop, PcmStopTwice, pcmVars
    <3>2. QED
      BY <1>6, <3>1, PcmStopFrame
  <2>2. ASSUME ~dumpFailed, NEW y \in pcmContexts PROVE y \in pcmContexts' <=> y.ctl # c
    <3>1. PcmStop(c)
      <4>1. CASE PcmStopTwice(c)
        <5>1. audio[c] \in PcmAddress /\ \A x \in pcmContexts : x.addr # audio[c]
          BY <4>1 DEF PcmStopTwice, Freed
        <5>2. [addr |-> audio[c], ctl |-> c] \in pcmContexts
          BY <1>1, <1>2, <2>1, <2>2, <5>1 DEF PcmBacked
        <5>3. QED
          BY <5>1, <5>2
      <4>2. QED
        BY <1>6, <4>1
    <3>2. PICK x \in pcmContexts : x.addr = audio[c] /\ pcmContexts' = pcmContexts \ {x}
      BY <3>1 DEF PcmStop
    <3>3. audio[c] # None
      BY <1>1, <3>2
    <3>4. [addr |-> audio[c], ctl |-> c] \in pcmContexts
      BY <1>2, <2>1, <2>2, <3>3 DEF PcmBacked
    <3>5. x.ctl = c
      BY <1>2, <3>2, <3>4 DEF PcmAddressesUnique
    <3>6. y.ctl = c => y = x
      BY <1>1, <1>2, <2>2, <3>2 DEF PcmBacked, PcmAddressesUnique
    <3>7. QED
      BY <3>2, <3>5, <3>6
  <2>3. PcmAddressesUnique' /\ PcmReachable'
    BY <1>2, <1>6, <2>1 DEF PcmAddressesUnique, PcmReachable
  <2>4. PcmBacked'
    <3>1. SUFFICES ASSUME ~dumpFailed PROVE PcmBacked'
      BY <2>1 DEF PcmBacked
    <3>2. ASSUME NEW d \in PcmController, audio'[d] # None PROVE [addr |-> audio'[d], ctl |-> d] \in pcmContexts'
      <4>1. d # c /\ audio'[d] = audio[d]
        BY <1>1, <2>1, <3>2
      <4>2. [addr |-> audio[d], ctl |-> d] \in pcmContexts
        BY <1>2, <3>1, <3>2, <4>1 DEF PcmBacked
      <4>3. QED
        BY <2>2, <3>1, <4>1, <4>2
    <3>3. ASSUME NEW x \in pcmContexts' PROVE audio'[x.ctl] = x.addr
      <4>1. x \in pcmContexts /\ x.ctl # c /\ x.ctl \in Handle
        BY <1>1, <2>1, <2>2, <3>1
      <4>2. QED
        BY <1>1, <1>2, <2>1, <3>1, <4>1 DEF PcmBacked
    <3>4. QED
      BY <3>2, <3>3 DEF PcmBacked
  <2>5. PcmUnloadCovers' /\ PcmUnloadedClean'
    BY <1>1, <1>2, <1>6, <2>1 DEF PcmUnloadCovers, PcmUnloadedClean
  <2>6. QED
    BY <2>3, <2>4, <2>5 DEF PcmInv
<1>7. ASSUME NEW c, PcmDisconnect(c) \/ PcmUnloadStop(c) PROVE PcmInv'
  BY <1>6, <1>7 DEF PcmDisconnect, PcmUnloadStop, loadVars
<1>8. ASSUME NEW h \in Handle, PcmUnloadSkip(h) PROVE PcmInv'
  <2>1. /\ UNCHANGED <<audio, byDriver, loaded, unloading, late, pcmContexts, dumpFailed>>
        /\ left' = left \ {h} /\ PcmInvalid(h)
    BY <1>8 DEF PcmUnloadSkip, dbVars, pcmVars
  <2>2. h \in PcmController /\ ~dumpFailed => audio[h] = None
    <3>1. SUFFICES ASSUME h \in PcmController, ~dumpFailed, audio[h] # None PROVE FALSE
      OBVIOUS
    <3>2. \A x \in pcmContexts : x.addr # audio[h]
      BY <1>1, <2>1, <3>1 DEF PcmInvalid, Freed
    <3>3. QED
      BY <1>2, <3>1, <3>2 DEF PcmBacked
  <2>3. PcmUnloadCovers'
    BY <1>2, <2>1, <2>2 DEF PcmUnloadCovers
  <2>4. QED
    BY <1>2, <2>1, <2>3 DEF PcmInv, PcmAddressesUnique, PcmBacked, PcmReachable, PcmUnloadedClean
<1>9. ASSUME NEW h \in Handle, PcmUnloadFails(h) PROVE PcmInv'
  BY <1>2, <1>9 DEF PcmUnloadFails, UnloadReturns, dbVars, pcmVars,
     PcmInv, PcmAddressesUnique, PcmBacked, PcmReachable, PcmUnloadCovers, PcmUnloadedClean
<1>10. CASE PcmUnloadKept
  BY <1>2, <1>10 DEF PcmUnloadKept, UnloadReturns, dbVars, pcmVars,
     PcmInv, PcmAddressesUnique, PcmBacked, PcmReachable, PcmUnloadCovers, PcmUnloadedClean
<1>11. CASE PcmUnload
  BY <1>1, <1>2, <1>11 DEF PcmUnload, Published, dbVars, pcmVars,
     PcmInv, PcmAddressesUnique, PcmBacked, PcmReachable, PcmUnloadCovers, PcmUnloadedClean
<1>12. CASE PcmUnloadEnds
  BY <1>1, <1>2, <1>12 DEF PcmUnloadEnds, Unloading, ImageGoes, UnloadReturns, pcmVars,
     PcmInv, PcmAddressesUnique, PcmBacked, PcmReachable, PcmUnloadCovers, PcmUnloadedClean
<1>13. QED
  BY <1>4, <1>5, <1>7, <1>8, <1>9, <1>10, <1>11, <1>12 DEF PcmNext

LEMMA PcmInvOther ==
  ASSUME TypeOK, PcmInv, UNCHANGED pcmVars, BusKeeps
  PROVE  PcmInv'
<1>1. PcmController \subseteq Controller /\ \A x \in pcmContexts : x.ctl \in Controller
  BY DEF TypeOK, PcmTypeOK, Controller
<1>2. QED
  BY <1>1 DEF BusKeeps, pcmVars,
     PcmInv, PcmAddressesUnique, PcmBacked, PcmReachable, PcmUnloadCovers, PcmUnloadedClean
-----------------------------------------------------------------------------
(* The test bus driver's part of the invariant. *)

LEMMA BusInvOther ==
  ASSUME TypeOK, BusInv, UNCHANGED busVars, PcmKeeps
  PROVE  BusInv'
<1> USE DatabaseAssumption
<1>1. /\ Child \subseteq Handle \ PcmController
      /\ \A x \in busContexts : x.child \in Child
      /\ new # None => new.child \in Child
  BY DEF TypeOK, BusTypeOK, NewChild, BusContext, Handle, Controller
<1>2. /\ \A h \in Child : audio'[h] = audio[h]
      /\ byDriver'["bus"] = byDriver["bus"] /\ byChild' = byChild
      /\ "bus" \in loaded' <=> "bus" \in loaded
      /\ "bus" \in late' <=> "bus" \in late
      /\ unloading' = "checked" <=> unloading = "checked"
      /\ running' # "undefined" <=> running # "undefined"
  BY <1>1 DEF PcmKeeps
<1>3. UNCHANGED <<busContexts, starting, step, new, stopping, children, child, device, stopStep, orphaned, cut>>
  BY DEF busVars, startVars, stopVars
<1>4. /\ AddressesUnique' /\ StartHolds' /\ StopHolds' /\ StopCovers'
      /\ ChildrenRecorded' /\ BusEmptied'
  BY <1>2, <1>3 DEF BusInv, AddressesUnique, StartHolds, StopHolds, StopCovers, ChildrenRecorded, BusEmptied
<1>5. BusBacked'
  BY <1>1, <1>2, <1>3 DEF BusInv, BusBacked, Withdrawn
<1>6. QED
  BY <1>4, <1>5 DEF BusInv

(* hdbus_start *)
LEMMA BusStartsStep ==
  ASSUME TypeOK, Territories, FramesInStep, BusInv,
         \/ \E c \in BusController : BusStart(c)
         \/ BusCreate \/ BusCreateFails \/ BusOpenChild \/ BusTakeBack \/ BusRegister \/ BusStartEnds
         \/ BusRace
  PROVE  BusInv'
<1> USE DatabaseAssumption, BusAssumption
<1>1. /\ audio \in [Handle -> Address \cup {None}] /\ byDriver \in [Driver -> SUBSET Controller]
      /\ Child \subseteq Handle /\ {"pcm", "bus"} \subseteq Driver
      /\ None \notin BusAddress /\ None \notin BusController
  BY DEF TypeOK, DatabaseTypeOK, Handle, Controller, Address, Driver
<1>2. /\ busContexts \subseteq BusContext
      /\ \A x \in BusContext : x.addr \in BusAddress /\ x.ctl \in BusController /\ x.child \in Child
      /\ starting \in BusController \cup {None}
      /\ new \in NewChild \cup {None} /\ (new = None <=> step = "create")
      /\ (starting = None => step = "create")
      /\ (Starting => starting # None)
  BY DEF TypeOK, BusTypeOK, BusContext, FramesInStep, Starting
<1>3. /\ AddressesUnique /\ BusBacked /\ StartHolds /\ StopHolds /\ StopCovers
      /\ ChildrenRecorded /\ BusEmptied
  BY DEF BusInv
<1>11. running # "undefined"
  BY DEF BusStart, BusCreate, BusCreateFails, BusOpenChild, BusTakeBack, BusRegister, BusStartEnds, BusRace,
     Up, Starting
<1>4. ASSUME NEW c \in BusController, BusStart(c) PROVE BusInv'
  <2>1. /\ UNCHANGED <<audio, byChild, loaded, unloading, busContexts, step, new, stopping, children, child, device, stopStep, orphaned>>
        /\ "bus" \in loaded /\ step = "create" /\ starting' = c
        /\ byDriver'["bus"] = byDriver["bus"] \cup {c}
        /\ cut \subseteq cut' /\ (c = stopping => c \in cut')
        /\ unloading = "checked" => "bus" \in late'
    BY <1>1, <1>2, <1>4 DEF BusStart, OpenByDriver, stopVars
  <2>2. AddressesUnique' /\ BusBacked'
    BY <1>3, <1>11, <2>1 DEF AddressesUnique, BusBacked, Withdrawn
  <2>3. StartHolds' /\ StopHolds' /\ StopCovers' /\ ChildrenRecorded' /\ BusEmptied'
    BY <1>3, <2>1 DEF StartHolds, StopHolds, StopCovers, ChildrenRecorded, BusEmptied
  <2>4. QED
    BY <2>2, <2>3 DEF BusInv
<1>5. CASE BusCreate
  <2>1. PICK a \in BusAddress \ InUse, h \in Child \ Published :
          audio' = [audio EXCEPT ![h] = a] /\ new' = [addr |-> a, child |-> h]
    BY <1>5 DEF BusCreate, Install
  <2>2. /\ UNCHANGED <<byDriver, byChild, loaded, unloading, late, busContexts, starting,
                       stopping, children, child, device, stopStep, orphaned, cut>>
        /\ starting # None /\ step' = "open" /\ new = None
    BY <1>2, <1>5 DEF BusCreate, loadVars, stopVars
  <2>3. audio[h] = None /\ \A x \in busContexts : x.addr # a
    BY <1>1, <2>1 DEF Published, InUse
  <2>4. AddressesUnique'
    BY <1>3, <2>1, <2>2, <2>3 DEF AddressesUnique
  <2>5. BusBacked'
    <3>1. SUFFICES ASSUME ~orphaned PROVE BusBacked'
      BY <2>2 DEF BusBacked
    <3>0. Withdrawn' = Withdrawn
      BY <2>2 DEF Withdrawn
    <3>2. ASSUME NEW x \in busContexts \ Withdrawn PROVE audio'[x.child] = x.addr
      <4>1. x.child \in Child /\ x.addr \in BusAddress /\ audio[x.child] = x.addr
        BY <1>2, <1>3, <1>11, <3>1 DEF BusBacked
      <4>2. x.child # h
        BY <1>1, <2>3, <4>1
      <4>3. QED
        BY <1>1, <2>1, <4>1, <4>2
    <3>3. audio'[new'.child] = new'.addr
      BY <1>1, <2>1
    <3>4. ASSUME NEW k \in Child, audio'[k] # None, k # h
          PROVE  \E x \in busContexts \ Withdrawn : x.addr = audio'[k] /\ x.child = k
      BY <1>1, <1>3, <1>11, <2>1, <2>2, <3>1, <3>4 DEF BusBacked
    <3>5. h \in Child /\ audio'[h] = new'.addr /\ new'.child = h /\ new' # None
      BY <1>1, <2>1 DEF NewChild
    <3>6. QED
      BY <1>3, <1>11, <2>2, <3>0, <3>1, <3>2, <3>3, <3>4, <3>5 DEF BusBacked
  <2>6. StartHolds' /\ StopHolds' /\ StopCovers' /\ ChildrenRecorded' /\ BusEmptied'
    BY <1>3, <2>2 DEF StartHolds, StopHolds, StopCovers, ChildrenRecorded, BusEmptied
  <2>7. QED
    BY <2>4, <2>5, <2>6 DEF BusInv
<1>6. CASE BusCreateFails \/ BusStartEnds
  <2>1. /\ UNCHANGED <<audio, byDriver, byChild, loaded, unloading, late, busContexts, new,
                       stopping, children, child, device, stopStep, orphaned, cut>>
        /\ starting # None /\ starting' = None /\ step' = "create"
    BY <1>2, <1>6 DEF Starting, BusCreateFails, BusStartEnds, StartReturns, dbVars, loadVars, stopVars
  <2>2. AddressesUnique' /\ BusBacked'
    BY <1>3, <1>11, <2>1 DEF AddressesUnique, BusBacked, Withdrawn
  <2>3. StartHolds' /\ StopHolds' /\ StopCovers' /\ ChildrenRecorded' /\ BusEmptied'
    BY <1>3, <2>1 DEF StartHolds, StopHolds, StopCovers, ChildrenRecorded, BusEmptied
  <2>4. QED
    BY <2>2, <2>3 DEF BusInv
<1>7. CASE BusOpenChild
  <2>1. /\ UNCHANGED <<audio, byDriver, loaded, unloading, late, busContexts, starting, new,
                       stopping, children, child, device, stopStep, orphaned, cut>>
        /\ starting # None /\ byChild' = byChild \cup {<<starting, new.child>>}
    BY <1>2, <1>7 DEF BusOpenChild, loadVars, stopVars
  <2>2. AddressesUnique' /\ BusBacked'
    BY <1>3, <1>11, <2>1 DEF AddressesUnique, BusBacked, Withdrawn
  <2>3. StartHolds' /\ StopHolds' /\ StopCovers' /\ ChildrenRecorded' /\ BusEmptied'
    BY <1>3, <2>1 DEF StartHolds, StopHolds, StopCovers, ChildrenRecorded, BusEmptied
  <2>4. QED
    BY <2>2, <2>3 DEF BusInv
<1>8. CASE BusTakeBack
  <2>1. /\ UNCHANGED <<byDriver, byChild, loaded, unloading, late, busContexts, stopping, children, child, device,
                       stopStep, cut>>
        /\ starting # None /\ starting' = None /\ new' = None /\ step' = "create"
        /\ new \in NewChild /\ new.child \in Child /\ new.addr \in BusAddress
        /\ \/ orphaned'
           \/ orphaned' = orphaned /\ audio' = [audio EXCEPT ![new.child] = None]
    <3>1. new \in NewChild
      BY <1>2, <1>8 DEF BusTakeBack
    <3>2. QED
      BY <1>2, <1>8, <3>1 DEF BusTakeBack, Uninstall, StartReturns, loadVars, stopVars, NewChild
  <2>2. AddressesUnique'
    BY <1>3, <2>1 DEF AddressesUnique
  <2>3. BusBacked'
    <3>1. SUFFICES ASSUME ~orphaned' PROVE BusBacked'
      BY DEF BusBacked
    <3>2. ~orphaned /\ audio' = [audio EXCEPT ![new.child] = None]
      BY <2>1, <3>1
    <3>0. Withdrawn' = Withdrawn
      BY <2>1 DEF Withdrawn
    <3>3. audio[new.child] = new.addr /\ new # None
      BY <1>2, <1>3, <1>11, <2>1, <3>2 DEF BusBacked
    <3>4. ASSUME NEW x \in busContexts \ Withdrawn PROVE audio'[x.child] = x.addr /\ x.child # new.child
      <4>1. x.child \in Child /\ audio[x.child] = x.addr /\ x.addr # new.addr
        BY <1>2, <1>3, <1>11, <3>2, <3>3 DEF BusBacked, AddressesUnique
      <4>2. QED
        BY <1>1, <3>2, <3>3, <4>1
    <3>5. ASSUME NEW k \in Child, audio'[k] # None
          PROVE  \E x \in busContexts \ Withdrawn : x.addr = audio'[k] /\ x.child = k
      <4>1. k # new.child /\ audio'[k] = audio[k]
        BY <1>1, <2>1, <3>2, <3>5
      <4>2. QED
        BY <1>3, <1>11, <3>2, <3>5, <4>1 DEF BusBacked
    <3>6. QED
      BY <1>3, <1>11, <2>1, <3>0, <3>2, <3>4, <3>5 DEF BusBacked
  <2>4. StopHolds' /\ StopCovers'
    BY <1>3, <2>1 DEF StopHolds, StopCovers
  <2>5. StartHolds' /\ ChildrenRecorded' /\ BusEmptied'
    BY <1>3, <2>1 DEF StartHolds, ChildrenRecorded, BusEmptied
  <2>6. QED
    BY <2>2, <2>3, <2>4, <2>5 DEF BusInv
<1>9. CASE BusRegister
  <2> DEFINE y == [addr |-> new.addr, ctl |-> starting, child |-> new.child]
  <2>1. /\ UNCHANGED <<audio, byDriver, byChild, loaded, unloading, late, starting,
                       stopping, children, child, device, stopStep, orphaned, cut>>
        /\ busContexts' = busContexts \cup {y} /\ new' = None /\ step' = "create"
        /\ starting # None /\ step = "register" /\ new # None /\ new \in NewChild
    BY <1>2, <1>9 DEF BusRegister, Registered, dbVars, loadVars, stopVars
  <2>2. y.addr = new.addr /\ y.ctl = starting /\ y.child = new.child
    OBVIOUS
  <2> HIDE DEF y
  <2>3. AddressesUnique'
    BY <1>3, <2>1, <2>2 DEF AddressesUnique
  <2>4. BusBacked'
    <3>1. SUFFICES ASSUME ~orphaned PROVE BusBacked'
      BY <2>1 DEF BusBacked
    <3>2. Withdrawn' = Withdrawn
      BY <2>1 DEF Withdrawn
    <3>3. y \notin Withdrawn
      <4>1. device # None => device \in busContexts
        BY <1>3, <1>11, <3>1 DEF BusBacked
      <4>2. stopStep = "unregister" => device # None
        BY DEF TypeOK, BusTypeOK
      <4>3. QED
        BY <1>3, <2>1, <2>2, <4>1, <4>2 DEF AddressesUnique, Withdrawn
    <3>4. QED
      BY <1>3, <1>11, <2>1, <2>2, <3>1, <3>2, <3>3 DEF BusBacked
  <2>5. StopHolds' /\ StopCovers'
    BY <1>3, <2>1, <2>2 DEF StopHolds, StopCovers, StartHolds
  <2>6. StartHolds' /\ ChildrenRecorded' /\ BusEmptied'
    BY <1>3, <2>1, <2>2 DEF StartHolds, ChildrenRecorded, BusEmptied
  <2>7. QED
    BY <2>3, <2>4, <2>5, <2>6 DEF BusInv
<1>12. CASE BusRace
  <2> DEFINE y == [addr |-> new.addr, ctl |-> starting, child |-> new.child]
  <2>1. /\ UNCHANGED <<audio, byDriver, byChild, loaded, unloading, late, starting,
                       stopping, children, child, device, stopStep, orphaned, cut>>
        /\ busContexts' \subseteq busContexts \cup {y} /\ new' = None /\ step' = "create"
        /\ starting # None /\ step = "register" /\ new # None /\ running' = "undefined"
    BY <1>2, <1>12 DEF BusRace, Registered, dbVars, loadVars, stopVars
  <2>2. y.addr = new.addr /\ y.ctl = starting /\ y.child = new.child
    OBVIOUS
  <2> HIDE DEF y
  <2>3. AddressesUnique' /\ BusBacked'
    BY <1>3, <2>1, <2>2 DEF AddressesUnique, BusBacked
  <2>4. StopHolds' /\ StopCovers'
    BY <1>3, <2>1, <2>2 DEF StopHolds, StopCovers, StartHolds
  <2>5. StartHolds' /\ ChildrenRecorded' /\ BusEmptied'
    BY <1>3, <2>1, <2>2 DEF StartHolds, ChildrenRecorded, BusEmptied
  <2>6. QED
    BY <2>3, <2>4, <2>5 DEF BusInv
<1>10. QED
  BY <1>4, <1>5, <1>6, <1>7, <1>8, <1>9, <1>12

(* DisconnectController() and hdbus_stop_entry *)
LEMMA BusStopsStep ==
  ASSUME TypeOK, Territories, FramesInStep, BusInv,
         \/ \E c \in Controller : Disconnecting(c) /\ UNCHANGED <<loaded, late>>
                                  /\ (unloading' = "checked" <=> unloading = "checked")
         \/ \E h \in Child : BusStopChildCloses(h) \/ BusStopChildStale(h)
         \/ BusStopChildUninstalls \/ BusStopChildRefused \/ BusStopChildUnregisters \/ BusStopBus
  PROVE  BusInv'
<1> USE DatabaseAssumption, BusAssumption
<1>1. /\ audio \in [Handle -> Address \cup {None}] /\ byDriver \in [Driver -> SUBSET Controller]
      /\ Child \subseteq Handle /\ {"pcm", "bus"} \subseteq Driver
      /\ None \notin BusAddress /\ None \notin BusController /\ None \notin Child
  BY DEF TypeOK, DatabaseTypeOK, Handle, Controller, Address, Driver
<1>2. /\ busContexts \subseteq BusContext
      /\ \A x \in BusContext : x.addr \in BusAddress /\ x.ctl \in BusController /\ x.child \in Child
      /\ new \in NewChild \cup {None}
      /\ (Stopping => stopping # None) /\ (stopping = None => stopStep = "close")
      /\ child \in Child \cup {None} /\ device \in BusContext \cup {None}
      /\ (device = None <=> stopStep = "close") /\ (child = None <=> stopStep = "close")
      /\ child \in children \cup {None}
  BY DEF TypeOK, BusTypeOK, BusContext, FramesInStep, Stopping
<1>3. /\ AddressesUnique /\ BusBacked /\ StartHolds /\ StopHolds /\ StopCovers
      /\ ChildrenRecorded /\ BusEmptied
  BY DEF BusInv
<1>11. running # "undefined"
  BY DEF Disconnecting, BusStopChildCloses, BusStopChildStale, BusStopChildUninstalls, BusStopChildRefused,
     BusStopChildUnregisters, BusStopBus, Up, Stopping
<1>15. running' # "undefined"
  BY <1>11 DEF Disconnecting, BusStopChildCloses, BusStopChildStale, BusStopChildUninstalls, BusStopChildRefused,
     BusStopChildUnregisters, BusStopBus, StopReturns
<1>4. ASSUME NEW c, Close("bus", c) PROVE byDriver'["bus"] = byDriver["bus"] \ {c}
  BY <1>1, <1>4 DEF Close
<1>5. ASSUME NEW c, Disconnecting(c), UNCHANGED <<loaded, late>>,
             unloading' = "checked" <=> unloading = "checked"
      PROVE  BusInv'
  <2>1. /\ UNCHANGED <<audio, byDriver, byChild, busContexts, starting, step, new, child, device, stopStep,
                       orphaned>>
        /\ stopping = None /\ stopping' = c /\ children' = {h \in Child : <<c, h>> \in byChild}
        /\ cut \subseteq cut' /\ (c = starting => c \in cut')
    BY <1>5 DEF Disconnecting, dbVars, startVars
  <2>2. AddressesUnique' /\ BusBacked'
    BY <1>3, <1>11, <2>1 DEF AddressesUnique, BusBacked, Withdrawn
  <2>3. StopCovers'
    <3>1. ASSUME NEW x \in busContexts, "bus" \in loaded, ~orphaned, x.ctl \notin cut
          PROVE  x.ctl \in byDriver["bus"] /\ (x.ctl = c => x.child \in children')
      <4>1. x.ctl # None /\ x.child \in Child
        BY <1>1, <1>2
      <4>2. x.ctl \in byDriver["bus"] /\ <<x.ctl, x.child>> \in byChild
        BY <1>3, <2>1, <3>1, <4>1 DEF StopCovers, ChildrenRecorded
      <4>3. QED
        BY <2>1, <4>1, <4>2
    <3>2. QED
      BY <1>5, <2>1, <3>1 DEF StopCovers
  <2>4. StartHolds' /\ ChildrenRecorded' /\ BusEmptied'
    BY <1>3, <1>15, <1>5, <2>1 DEF StartHolds, ChildrenRecorded, BusEmptied
  <2>5. StopHolds'
    BY <1>2, <2>1 DEF StopHolds
  <2>6. QED
    BY <2>2, <2>3, <2>4, <2>5 DEF BusInv
<1>6. ASSUME NEW h \in Child, BusStopChildCloses(h) PROVE BusInv'
  <2>1. PICK x \in busContexts :
          /\ x.addr = audio[h]
          /\ IF x.ctl = stopping THEN Close("bus", stopping) ELSE UNCHANGED byDriver
          /\ device' = x
    BY <1>6 DEF BusStopChildCloses
  <2>2. /\ UNCHANGED <<audio, byChild, loaded, unloading, late, busContexts, starting, step, new,
                       stopping, children, orphaned, cut>>
        /\ stopStep = "close" /\ stopStep' = "uninstall" /\ child' = h
    BY <1>6 DEF BusStopChildCloses, loadVars, startVars
  <2>3. byDriver["bus"] \ {stopping} \subseteq byDriver'["bus"]
    BY <1>4, <2>1
  <2>4. audio[h] # None
    BY <1>1, <1>2, <2>1
  <2>5. ASSUME ~orphaned PROVE x.child = h
    <3>1. \/ \E y \in busContexts : y.addr = audio[h] /\ y.child = h
          \/ new # None /\ new.addr = audio[h]
      BY <1>3, <1>11, <2>4, <2>5 DEF BusBacked
    <3>2. QED
      BY <1>3, <2>1, <3>1 DEF AddressesUnique
  <2>6. AddressesUnique' /\ BusBacked'
    BY <1>3, <1>11, <2>1, <2>2 DEF AddressesUnique, BusBacked, Withdrawn
  <2>7. StopHolds'
    BY <2>1, <2>2, <2>5 DEF StopHolds
  <2>8. StartHolds' /\ StopCovers' /\ ChildrenRecorded' /\ BusEmptied'
    BY <1>3, <1>15, <2>2, <2>3 DEF StartHolds, StopCovers, ChildrenRecorded, BusEmptied
  <2>9. QED
    BY <2>6, <2>7, <2>8 DEF BusInv
<1>12. CASE BusStopChildUninstalls
  <2>1. /\ UNCHANGED <<byDriver, byChild, loaded, unloading, late, busContexts, starting, step, new,
                       stopping, children, child, device, orphaned, cut>>
        /\ audio' = [audio EXCEPT ![child] = None]
        /\ stopStep = "uninstall" /\ stopStep' = "unregister"
        /\ child \in Child /\ device \in BusContext /\ device # None
    BY <1>2, <1>12 DEF BusStopChildUninstalls, Uninstall, loadVars, startVars
  <2>2. ASSUME ~orphaned
        PROVE  /\ device \in busContexts /\ device.child = child /\ audio[child] = device.addr
               /\ \A x \in busContexts : audio[x.child] = x.addr
               /\ \A x \in busContexts \ {device} : x.child # child
               /\ new # None => new.child # child
    <3>1. /\ device \in busContexts /\ device.child = child
          /\ \A x \in busContexts : audio[x.child] = x.addr
          /\ new # None => audio[new.child] = new.addr
      BY <1>3, <1>11, <2>1, <2>2 DEF BusBacked, StopHolds, Withdrawn
    <3>2. \A x \in busContexts \ {device} : x.addr # device.addr
      BY <1>3, <3>1 DEF AddressesUnique
    <3>3. new # None => new.addr # device.addr
      BY <1>3, <3>1 DEF AddressesUnique
    <3>4. QED
      BY <3>1, <3>2, <3>3
  <2>3. AddressesUnique'
    BY <1>3, <2>1 DEF AddressesUnique
  <2>4. BusBacked'
    <3>1. SUFFICES ASSUME ~orphaned PROVE BusBacked'
      BY <2>1 DEF BusBacked
    <3>2. Withdrawn = {} /\ Withdrawn' = {device}
      BY <2>1 DEF Withdrawn
    <3>3. ASSUME NEW x \in busContexts \ {device} PROVE audio'[x.child] = x.addr
      BY <1>1, <1>2, <2>1, <2>2, <3>1
    <3>4. ASSUME new # None PROVE audio'[new.child] = new.addr
      <4>1. new.child \in Child /\ audio[new.child] = new.addr
        BY <1>2, <1>3, <1>11, <3>1, <3>4 DEF BusBacked, NewChild
      <4>2. QED
        BY <1>1, <2>1, <2>2, <3>1, <3>4, <4>1
    <3>5. ASSUME NEW k \in Child, audio'[k] # None
          PROVE  \/ \E x \in busContexts \ {device} : x.addr = audio'[k] /\ x.child = k
                 \/ new # None /\ new.addr = audio'[k] /\ new.child = k
      <4>1. k # child /\ audio'[k] = audio[k]
        BY <1>1, <2>1, <3>5
      <4>2. \/ \E x \in busContexts : x.addr = audio[k] /\ x.child = k
            \/ new # None /\ new.addr = audio[k] /\ new.child = k
        BY <1>3, <1>11, <3>1, <3>5, <4>1 DEF BusBacked
      <4>3. QED
        BY <2>2, <3>1, <4>1, <4>2
    <3>6. QED
      BY <2>1, <2>2, <3>1, <3>2, <3>3, <3>4, <3>5 DEF BusBacked
  <2>5. StopHolds'
    BY <2>1, <2>2 DEF StopHolds
  <2>6. StartHolds' /\ StopCovers' /\ ChildrenRecorded' /\ BusEmptied'
    BY <1>3, <1>15, <2>1 DEF StartHolds, StopCovers, ChildrenRecorded, BusEmptied
  <2>7. QED
    BY <2>3, <2>4, <2>5, <2>6 DEF BusInv
<1>13. CASE BusStopChildUnregisters
  <2>1. /\ UNCHANGED <<audio, byDriver, byChild, loaded, unloading, late, starting, step, new,
                       stopping, orphaned, cut>>
        /\ busContexts' = busContexts \ {device} /\ children' = children \ {child}
        /\ device' = None /\ stopStep = "unregister" /\ stopStep' = "close"
    BY <1>13 DEF BusStopChildUnregisters, dbVars, loadVars, startVars
  <2>2. AddressesUnique'
    BY <1>3, <2>1 DEF AddressesUnique
  <2>3. BusBacked'
    BY <1>3, <1>11, <2>1 DEF BusBacked, Withdrawn
  <2>4. StopHolds'
    BY <2>1 DEF StopHolds
  <2>5. StopCovers'
    BY <1>3, <1>15, <2>1 DEF StopCovers, StopHolds
  <2>6. StartHolds' /\ ChildrenRecorded' /\ BusEmptied'
    BY <1>3, <1>15, <2>1 DEF StartHolds, ChildrenRecorded, BusEmptied
  <2>7. QED
    BY <2>2, <2>3, <2>4, <2>5, <2>6 DEF BusInv
<1>7. ASSUME UNCHANGED <<audio, byChild, loaded, unloading, late, busContexts, starting, step, new, orphaned>>,
             byDriver["bus"] \ {stopping} \subseteq byDriver'["bus"], stopStep # "unregister",
             stopping' = None, device' = None, stopStep' = "close", cut' = cut \cup {stopping}
      PROVE  BusInv'
  <2>1. AddressesUnique' /\ BusBacked' /\ ChildrenRecorded' /\ BusEmptied'
    BY <1>3, <1>15, <1>7, <1>11 DEF AddressesUnique, BusBacked, Withdrawn, ChildrenRecorded, BusEmptied
  <2>2. StartHolds' /\ StopHolds' /\ StopCovers'
    BY <1>1, <1>2, <1>3, <1>7 DEF StartHolds, StopHolds, StopCovers
  <2>3. QED
    BY <2>1, <2>2 DEF BusInv
<1>8. ASSUME NEW h \in Child, BusStopChildStale(h) PROVE BusInv'
  BY <1>7, <1>8 DEF BusStopChildStale, StopReturns, dbVars, loadVars, startVars
<1>14. CASE BusStopChildRefused
  BY <1>7, <1>14 DEF BusStopChildRefused, StopReturns, dbVars, loadVars, startVars
<1>9. CASE BusStopBus
  <2>1. /\ UNCHANGED <<audio, byChild, loaded, unloading, late, busContexts, starting, step, new, orphaned, cut>>
        /\ children = {} /\ stopping' = None /\ device' = None /\ stopStep' = "close"
        /\ byDriver'["bus"] = byDriver["bus"] \ {stopping}
    BY <1>4, <1>9 DEF BusStopBus, StopReturns, loadVars, startVars
  <2>2. stopStep = "close"
    BY <1>2, <2>1
  <2>3. AddressesUnique' /\ BusBacked' /\ ChildrenRecorded' /\ BusEmptied'
    BY <1>3, <1>15, <1>11, <2>1, <2>2 DEF AddressesUnique, BusBacked, Withdrawn, ChildrenRecorded, BusEmptied
  <2>4. StartHolds' /\ StopHolds' /\ StopCovers'
    BY <1>1, <1>2, <1>3, <2>1 DEF StartHolds, StopHolds, StopCovers
  <2>5. QED
    BY <2>3, <2>4 DEF BusInv
<1>10. QED
  BY <1>5, <1>6, <1>8, <1>9, <1>12, <1>13, <1>14

(* hdbus_unload *)
LEMMA BusUnloadsStep ==
  ASSUME TypeOK, Territories, FramesInStep, BusInv,
         BusUnload \/ BusUnloadCheck \/ BusUnloadFails \/ BusUnloadEnds
  PROVE  BusInv'
<1>1. /\ AddressesUnique /\ BusBacked /\ StartHolds /\ StopHolds /\ StopCovers
      /\ ChildrenRecorded /\ BusEmptied
  BY DEF BusInv
<1>2. UNCHANGED <<audio, busContexts, starting, step, new, stopping, children, child, device, stopStep,
                 orphaned, cut>>
  BY DEF BusUnload, BusUnloadCheck, BusUnloadFails, BusUnloadEnds, dbVars, busVars, startVars, stopVars
<1>4. running = "none" /\ running' = "none" /\ starting = None
  BY DEF BusUnload, BusUnloadCheck, BusUnloadFails, BusUnloadEnds, Unloading, FramesInStep
<1>3. AddressesUnique' /\ BusBacked' /\ StopHolds'
  BY <1>1, <1>2, <1>4 DEF AddressesUnique, BusBacked, Withdrawn, StopHolds
<1>5. CASE BusUnload
  BY <1>1, <1>2, <1>3, <1>4, <1>5 DEF BusUnload, dbVars, BusInv, StartHolds, StopCovers, ChildrenRecorded, BusEmptied
<1>6. CASE BusUnloadCheck
  BY <1>1, <1>2, <1>3, <1>4, <1>6
     DEF BusUnloadCheck, dbVars, BusInv, StartHolds, StopCovers, ChildrenRecorded, BusEmptied
<1>7. CASE BusUnloadFails
  BY <1>1, <1>2, <1>3, <1>4, <1>7 DEF BusUnloadFails, UnloadReturns, FramesInStep, dbVars,
     BusInv, StartHolds, StopCovers, ChildrenRecorded, BusEmptied
<1>8. CASE BusUnloadEnds
  <2>1. /\ unloading = "checked" /\ unloading' = "none" /\ late' = late /\ "bus" \notin loaded'
    BY <1>8 DEF BusUnloadEnds, Unloading, ImageGoes, UnloadReturns
  <2>2. QED
    BY <1>1, <1>2, <1>3, <1>4, <2>1 DEF BusInv, StartHolds, StopCovers, ChildrenRecorded, BusEmptied
<1>9. QED
  BY <1>5, <1>6, <1>7, <1>8

LEMMA BusInvStep ==
  ASSUME TypeOK, Territories, FramesInStep, BusInv, BusNext
  PROVE  BusInv'
<1>1. byDriver["bus"] \subseteq Controller
  BY DEF Territories, Controller
<1>2. ASSUME NEW c, BusDisconnect(c) PROVE BusInv'
  <2>1. Disconnecting(c) /\ c \in Controller /\ UNCHANGED <<loaded, unloading, late>>
    BY <1>1, <1>2 DEF BusDisconnect, Disconnecting, loadVars
  <2>2. QED
    BY <2>1, BusStopsStep
<1>3. ASSUME NEW c \in Controller, BusUnloadDisconnect(c) PROVE BusInv'
  <2>1. UNCHANGED <<loaded, unloading, late>>
    BY <1>3 DEF BusUnloadDisconnect
  <2>2. CASE Disconnecting(c)
    BY <1>3, <2>1, <2>2, BusStopsStep
  <2>3. CASE UNCHANGED <<dbVars, running, busVars>>
    BY <2>1, <2>3 DEF dbVars, busVars, startVars, stopVars, BusInv, AddressesUnique, BusBacked, Withdrawn,
       StartHolds, StopHolds, StopCovers, ChildrenRecorded, BusEmptied
  <2>4. QED
    BY <1>3, <2>2, <2>3 DEF BusUnloadDisconnect
<1>4. QED
  BY <1>2, <1>3, BusStartsStep, BusStopsStep, BusUnloadsStep DEF BusNext
-----------------------------------------------------------------------------
(* Territories and frames, and every step. *)

LEMMA BusFramesStep ==
  ASSUME TypeOK, Territories, FramesInStep, BusNext
  PROVE  FramesInStep'
<1> USE DatabaseAssumption, BusAssumption
<1>1. None \notin BusController /\ byDriver["bus"] \subseteq BusController
  BY DEF Territories, Handle, Controller
<1>2. ASSUME NEW c \in BusController, BusStart(c) PROVE FramesInStep'
  BY <1>1, <1>2 DEF BusStart, stopVars, FramesInStep, Up
<1>3. CASE BusCreate \/ BusOpenChild \/ BusRegister
  BY <1>3 DEF BusCreate, BusOpenChild, BusRegister, loadVars, stopVars, FramesInStep
<1>4. CASE BusCreateFails \/ BusTakeBack \/ BusStartEnds
  BY <1>4 DEF BusCreateFails, BusTakeBack, BusStartEnds, StartReturns, loadVars, stopVars, FramesInStep
<1>5. ASSUME NEW c, Disconnecting(c), UNCHANGED <<loaded, unloading>> PROVE FramesInStep'
  BY <1>1, <1>5 DEF Disconnecting, startVars, FramesInStep
<1>6. ASSUME NEW c, BusDisconnect(c) \/ BusUnloadDisconnect(c) PROVE FramesInStep'
  BY <1>5, <1>6 DEF BusDisconnect, BusUnloadDisconnect, loadVars, busVars, startVars, stopVars, FramesInStep
<1>7. ASSUME NEW h, BusStopChildCloses(h) PROVE FramesInStep'
  BY <1>7 DEF BusStopChildCloses, loadVars, startVars, FramesInStep
<1>8. ASSUME NEW h, BusStopChildStale(h) PROVE FramesInStep'
  BY <1>8 DEF BusStopChildStale, StopReturns, loadVars, startVars, FramesInStep
<1>11. CASE BusStopChildRefused \/ BusStopBus
  BY <1>11 DEF BusStopChildRefused, BusStopBus, StopReturns, loadVars, startVars, FramesInStep
<1>12. CASE BusStopChildUninstalls \/ BusStopChildUnregisters
  BY <1>12 DEF BusStopChildUninstalls, BusStopChildUnregisters, loadVars, startVars, FramesInStep
<1>13. CASE BusRace
  BY <1>13 DEF BusRace, loadVars, stopVars, FramesInStep
<1>9. CASE BusUnload \/ BusUnloadCheck \/ BusUnloadFails \/ BusUnloadEnds
  BY <1>9 DEF BusUnload, BusUnloadCheck, BusUnloadFails, BusUnloadEnds, Unloading, ImageGoes, UnloadReturns,
     busVars, startVars, stopVars, FramesInStep
<1>10. QED
  BY <1>2, <1>3, <1>4, <1>6, <1>7, <1>8, <1>9, <1>11, <1>12, <1>13 DEF BusNext

LEMMA StepKeeps == IInv /\ [Next]_vars => IInv'
<1> SUFFICES ASSUME IInv, [Next]_vars PROVE IInv'
  OBVIOUS
<1>1. TypeOK /\ Territories /\ FramesInStep /\ PcmInv /\ BusInv
  BY DEF IInv
<1>2. CASE PcmNext /\ UNCHANGED busVars
  <2>1. PcmKeeps
    BY <1>1, <1>2, PcmFrame
  <2>2. Territories'
    <3>1. Child \subseteq Handle \ PcmController /\ BusController \subseteq Handle \ PcmController
      BY DatabaseAssumption DEF Handle, Controller
    <3>2. QED
      BY <1>1, <2>1, <3>1 DEF PcmKeeps, Territories
  <2>3. FramesInStep'
    BY <1>1, <1>2, <2>1 DEF PcmKeeps, FramesInStep, busVars, startVars, stopVars
  <2>4. QED
    BY <1>1, <1>2, <2>1, <2>2, <2>3, PcmTypeStep, PcmInvStep, BusInvOther DEF IInv
<1>3. CASE BusNext /\ UNCHANGED pcmVars
  <2>1. BusKeeps
    BY <1>1, <1>3, BusFrame
  <2>2. Territories'
    BY <1>1, <2>1 DEF BusKeeps, Territories, Controller
  <2>3. QED
    BY <1>1, <1>3, <2>1, <2>2, BusTypeStep, BusFramesStep, BusInvStep, PcmInvOther DEF IInv
<1>4. CASE Agents /\ UNCHANGED <<pcmVars, busVars>>
  <2>1. /\ UNCHANGED <<audio, byDriver, byChild, loadVars, running, pcmVars, busVars>>
        /\ held \subseteq Handle => held' \subseteq Handle
    BY <1>4 DEF Agents, Hold, Release, Published
  <2>2. TypeOK'
    BY <1>1, <2>1 DEF TypeOK, DatabaseTypeOK, PcmTypeOK, BusTypeOK, loadVars, pcmVars, busVars, startVars, stopVars
  <2>3. Territories' /\ FramesInStep'
    BY <1>1, <2>1 DEF Territories, FramesInStep, loadVars, busVars, startVars, stopVars
  <2>4. PcmInv'
    BY <1>1, <2>1 DEF PcmInv, PcmAddressesUnique, PcmBacked, PcmReachable, PcmUnloadCovers, PcmUnloadedClean,
       loadVars, pcmVars
  <2>5. BusInv'
    BY <1>1, <2>1 DEF BusInv, AddressesUnique, BusBacked, Withdrawn, StartHolds, StopHolds, StopCovers,
       ChildrenRecorded, BusEmptied, loadVars, busVars, startVars, stopVars
  <2>6. QED
    BY <2>2, <2>3, <2>4, <2>5 DEF IInv
<1>5. CASE UNCHANGED vars
  <2>1. UNCHANGED <<audio, byDriver, byChild, held, loadVars, running, pcmVars, busVars>>
    BY <1>5 DEF vars, firmwareVars, dbVars
  <2>2. TypeOK'
    BY <1>1, <2>1 DEF TypeOK, DatabaseTypeOK, PcmTypeOK, BusTypeOK, loadVars, pcmVars, busVars, startVars, stopVars
  <2>3. Territories' /\ FramesInStep'
    BY <1>1, <2>1 DEF Territories, FramesInStep, loadVars, busVars, startVars, stopVars
  <2>4. PcmInv'
    BY <1>1, <2>1 DEF PcmInv, PcmAddressesUnique, PcmBacked, PcmReachable, PcmUnloadCovers, PcmUnloadedClean,
       loadVars, pcmVars
  <2>5. BusInv'
    BY <1>1, <2>1 DEF BusInv, AddressesUnique, BusBacked, Withdrawn, StartHolds, StopHolds, StopCovers,
       ChildrenRecorded, BusEmptied, loadVars, busVars, startVars, stopVars
  <2>6. QED
    BY <2>2, <2>3, <2>4, <2>5 DEF IInv
<1>6. QED
  BY <1>2, <1>3, <1>4, <1>5 DEF Next

LEMMA Invariance == Spec => []IInv
<1>1. QED
  BY InitHolds, StepKeeps, PTL DEF Spec
-----------------------------------------------------------------------------
(* Theorems. *)

(* The variables of the two drivers and of the handle database they share  *)
(* keep their types: in particular a context is at work exactly between    *)
(* create_child and register_device_context.                               *)
THEOREM AudioDriversTyped == Spec => []TypeOK
<1>1. IInv => TypeOK
  BY DEF IInv
<1>2. QED
  BY <1>1, Invariance, PTL

(* No call of pcm_start, pcm_stop or pcm_unload works on a context that was*)
(* freed, and none is lost, whatever is refused and whatever the test bus  *)
(* driver does meanwhile.                                                  *)
THEOREM PcmIsBacked == Spec => []PcmBacked
<1>1. IInv => PcmBacked
  BY DEF IInv, PcmInv
<1>2. QED
  BY <1>1, Invariance, PTL

(* A controller of the AC97 driver that has a context can be disconnected: *)
(* no pcm_stop that failed has taken its BY_DRIVER record away.            *)
THEOREM PcmIsReachable == Spec => []PcmReachable
<1>1. IInv => PcmReachable
  BY DEF IInv, PcmInv
<1>2. QED
  BY <1>1, Invariance, PTL

(* Every child of the test bus driver has its context, and every context   *)
(* its child, through failed starts, refused stops, disconnects that       *)
(* interrupt hdbus_start and starts that interrupt hdbus_stop_child: but   *)
(* for the child whose interface hdbus_stop_child has just uninstalled,    *)
(* and until two callers meet in the middle of changing DEVICE_CONTEXTS.   *)
THEOREM BusIsBacked == Spec => []BusBacked
<1>1. IInv => BusBacked
  BY DEF IInv, BusInv
<1>2. QED
  BY <1>1, Invariance, PTL

(* A disconnect finds every child of a controller, those of an hdbus_start *)
(* that failed half way included; a record of either kind is missing only  *)
(* after a disconnect was refused or came in between.                      *)
THEOREM BusIsReachable == Spec => []BusReachable
<1>1. IInv => BusReachable
  <2>1. ASSUME TypeOK, BusInv PROVE BusReachable
    BY <2>1 DEF BusInv, StopCovers, ChildrenRecorded, BusReachable
  <2>2. QED
    BY <2>1 DEF IInv
<1>2. QED
  BY <1>1, Invariance, PTL

(* Neither pcm_unload nor hdbus_unload succeeds with an interface of its   *)
(* own left, although the first steps over errors and the second looks at  *)
(* its contexts once, with callbacks coming in before and after.           *)
THEOREM UnloadLeavesNothing == Spec => []UnloadedClean
<1>1. IInv => UnloadedClean
  <2>1. ASSUME PcmInv PROVE "pcm" \notin loaded \cup late /\ ~dumpFailed =>
                              \A c \in PcmController : audio[c] = None
    BY <2>1 DEF PcmInv, PcmUnloadedClean
  <2>2. ASSUME FramesInStep, TypeOK, BusInv, "bus" \notin loaded \cup late, ~orphaned, NEW h \in Child
        PROVE  audio[h] = None
    <3>1. busContexts = {} /\ starting = None /\ running # "undefined" /\ BusBacked
      BY <2>2 DEF BusInv, BusEmptied
    <3>2. new = None
      BY <2>2, <3>1 DEF TypeOK, BusTypeOK
    <3>3. QED
      BY <2>2, <3>1, <3>2 DEF BusBacked
  <2>3. QED
    BY <2>1, <2>2 DEF IInv, UnloadedClean
<1>2. QED
  BY <1>1, Invariance, PTL
-----------------------------------------------------------------------------
(* A controller that the AC97 driver has started once and stopped stays    *)
(* without an audio interface as long as the driver is loaded: pcm_stop    *)
(* leaves the BY_DRIVER open behind (main.rs 1150), and pcm_supported and  *)
(* pcm_start cannot open PCI I/O a second time.                            *)
StoppedStaysSilent ==
  [][\A c \in PcmController \cap byDriver["pcm"] :
       "pcm" \in loaded' => c \in byDriver'["pcm"] /\ (audio[c] = None => audio'[c] = None)]_vars

(* What pcm_stop has stopped, pcm_start does not start again.              *)
THEOREM StopIsFinal == Spec => StoppedStaysSilent
<1> USE DatabaseAssumption DEF Driver
<1>1. ASSUME IInv, [Next]_vars, NEW c \in PcmController \cap byDriver["pcm"], "pcm" \in loaded'
      PROVE  c \in byDriver'["pcm"] /\ (audio[c] = None => audio'[c] = None)
  <2>1. /\ audio \in [Handle -> Address \cup {None}] /\ byDriver \in [Driver -> SUBSET Controller]
        /\ c \in Handle /\ c \notin Child
    BY <1>1 DEF IInv, TypeOK, DatabaseTypeOK, Handle, Controller
  <2>2. CASE PcmNext /\ UNCHANGED busVars
    <3>1. CASE \E d \in PcmController : PcmStart(d) \/ PcmStartDumpFails(d)
      <4>1. PICK d \in PcmController : PcmStart(d) \/ PcmStartDumpFails(d)
        BY <3>1
      <4>2. d # c
        BY <4>1 DEF PcmStart, PcmStartDumpFails, PcmStartable
      <4>3. byDriver["pcm"] \subseteq byDriver'["pcm"]
        BY <2>1, <4>1 DEF PcmStart, PcmStartDumpFails, OpenByDriver
      <4>4. audio'[c] = audio[c]
        BY <2>1, <4>1, <4>2 DEF PcmStart, PcmStartDumpFails, Install
      <4>5. QED
        BY <4>3, <4>4
    <3>2. CASE \E h \in Handle : (PcmDisconnect(h) \/ PcmUnloadStop(h))
      <4>1. PICK h \in Handle : PcmStop(h) \/ PcmStopTwice(h)
        BY <3>2 DEF PcmDisconnect, PcmUnloadStop
      <4>2. byDriver' = byDriver /\ audio' = [audio EXCEPT ![h] = None]
        BY <4>1 DEF PcmStop, PcmStopTwice, Uninstall
      <4>3. QED
        BY <2>1, <4>2
    <3>3. CASE PcmUnloadEnds
      BY <1>1, <3>3 DEF PcmUnloadEnds, ImageGoes
    <3>4. CASE PcmUnload \/ PcmUnloadKept \/ \E h \in Handle : PcmUnloadSkip(h) \/ PcmUnloadFails(h)
      BY <3>4 DEF PcmUnload, PcmUnloadKept, PcmUnloadSkip, PcmUnloadFails, dbVars
    <3>5. QED
      BY <2>2, <3>1, <3>2, <3>3, <3>4 DEF PcmNext, Handle, Controller
  <2>3. CASE BusNext /\ UNCHANGED pcmVars
    <3>1. byDriver'["pcm"] = byDriver["pcm"] /\ \A h \in Handle \ Child : audio'[h] = audio[h]
      <4>1. TypeOK /\ Territories /\ FramesInStep
        BY <1>1 DEF IInv
      <4>2. BusKeeps
        BY <2>3, <4>1, BusFrame
      <4>3. QED
        BY <4>2 DEF BusKeeps, Handle
    <3>2. QED
      BY <2>1, <3>1
  <2>4. CASE Agents \/ UNCHANGED vars
    BY <2>4 DEF Agents, Hold, Release, vars, firmwareVars, dbVars
  <2>5. QED
    BY <1>1, <2>2, <2>3, <2>4 DEF Next
<1>2. IInv /\ [Next]_vars
        => [\A c \in PcmController \cap byDriver["pcm"] :
              "pcm" \in loaded' => c \in byDriver'["pcm"] /\ (audio[c] = None => audio'[c] = None)]_vars
  BY <1>1
<1>3. QED
  BY <1>2, Invariance, PTL DEF Spec, StoppedStaysSilent
=============================================================================
