---------------------------- MODULE HandleDatabase ----------------------------
(***************************************************************************)
(* The firmware as two drivers of this repository share it: the AC97       *)
(* driver (efi-pcm-dxe, PcmBinding) and the test bus driver                *)
(* (efi-test-bus-dxe, TestBusBinding).  Both produce SimpleAudioOut        *)
(* interfaces in one handle database, the first on its controllers, the    *)
(* second on child handles; both record there which controllers they hold. *)
(*                                                                         *)
(* All of this is external, and modelled from how the drivers use it:      *)
(* opening a protocol BY_DRIVER fails when it is open BY_DRIVER already;   *)
(* closing it removes every record of that agent and that controller,      *)
(* whatever the attributes; an agent that holds an interface makes its     *)
(* uninstallation fail; a handle without interfaces may be used for        *)
(* another child; unloading an image closes all it has open.               *)
(***************************************************************************)
CONSTANTS
  PcmController,   \* PCI handles pcm_supported accepts
  BusController,   \* PCI handles hdbus_supported accepts
  Child,           \* handles the firmware can give to children
  PcmAddress,      \* memory for the contexts of the AC97 driver
  BusAddress,      \* memory for the contexts of the test bus driver
  None

Controller == PcmController \cup BusController      \* these carry PCI I/O
Handle  == Controller \cup Child
Address == PcmAddress \cup BusAddress
Driver  == {"pcm", "bus"}

ASSUME DatabaseAssumption ==
  /\ PcmController \cap BusController = {} /\ Controller \cap Child = {}
  /\ PcmAddress \cap BusAddress = {}
  /\ None \notin Address \cup Handle

VARIABLES
  audio,      \* handle -> the address of the SimpleAudioOut it carries, or None
  byDriver,   \* driver -> controllers whose PCI I/O it has open BY_DRIVER
  byChild,    \* <<controller, child>>: opened BY_CHILD (test bus driver only)
  held,       \* handles whose audio interface an agent holds and will not close
  loaded,     \* drivers whose DriverBinding is installed
  running,    \* the interruptible call on top: "start" or "stop" of the test bus
              \* driver, or "none"; "halted" when the machine was shut down,
              \* "undefined" when the test bus driver has corrupted its memory
  unloading,  \* the unload at work: "none", "pcm", "bus", or "checked", when
              \* hdbus_unload has looked at its contexts
  left,       \* handles that unload has still to visit
  late        \* history: drivers started after their unload looked for the last time

dbVars   == <<audio, byDriver, byChild, held>>
loadVars == <<loaded, unloading, left, late>>
firmwareVars == <<dbVars, loadVars, running>>

DatabaseTypeOK ==
  /\ audio \in [Handle -> Address \cup {None}]
  /\ byDriver \in [Driver -> SUBSET Controller]
  /\ byChild \subseteq Controller \X Child
  /\ held \subseteq Handle
  /\ loaded \subseteq Driver
  /\ running \in {"none", "start", "stop", "halted", "undefined"}
  /\ unloading \in {"none", "pcm", "bus", "checked"}
  /\ left \subseteq Handle
  /\ late \subseteq Driver

DatabaseInit ==
  /\ audio = [h \in Handle |-> None]
  /\ byDriver = [d \in Driver |-> {}] /\ byChild = {} /\ held = {}
  /\ loaded = Driver
  /\ running = "none" /\ unloading = "none" /\ left = {} /\ late = {}

Up == running \notin {"halted", "undefined"}

Published == {h \in Handle : audio[h] # None}

Install(h, a) == audio' = [audio EXCEPT ![h] = a]
Uninstall(h)  == audio' = [audio EXCEPT ![h] = None]

OpenByDriver(d, c) == byDriver' = [byDriver EXCEPT ![d] = @ \cup {c}]
Close(d, c)        == byDriver' = [byDriver EXCEPT ![d] = @ \ {c}]

(* UnloadImage() is available at TPL_APPLICATION only: it begins when      *)
(* nothing else is under way, and callbacks it is interrupted by have      *)
(* ended when it goes on.                                                  *)
Unloading(step) == running = "none" /\ unloading = step

UnloadReturns == unloading' = "none" /\ left' = {}

(* The unload routine succeeded: the image and its open records go.        *)
ImageGoes(d) ==
  /\ UnloadReturns
  /\ loaded' = loaded \ {d}
  /\ byDriver' = [byDriver EXCEPT ![d] = {}]
  /\ byChild' = IF d = "bus" THEN {} ELSE byChild

(* Another agent opens an audio interface and will not close it, ... *)
Hold(h) ==
  /\ Up /\ h \in Published \ held
  /\ held' = held \cup {h}
  /\ UNCHANGED <<audio, byDriver, byChild, loadVars, running>>

(* ... or closes it after all.                                             *)
Release(h) ==
  /\ Up /\ h \in held
  /\ held' = held \ {h}
  /\ UNCHANGED <<audio, byDriver, byChild, loadVars, running>>
=============================================================================
