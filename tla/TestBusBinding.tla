---------------------------- MODULE TestBusBinding ----------------------------
(***************************************************************************)
(* The test bus driver as a UEFI bus driver: hdbus_supported, hdbus_start, *)
(* hdbus_stop_entry and hdbus_unload (efi-test-bus-dxe/src/main.rs 104-486).*)
(*                                                                         *)
(* Unlike the two audio drivers it raises no TPL: a callback may come in   *)
(* between any two of its steps, disconnect the controller that            *)
(* hdbus_start is at work on, or connect one while hdbus_stop_child has    *)
(* dropped half of a child.  Callbacks end before what they interrupt goes *)
(* on; disconnects do not nest, nor do connects.                           *)
(*                                                                         *)
(* A callback may even come into the middle of register_device_context or  *)
(* unregister_device_context, and call the other (BusRace).  What becomes  *)
(* of the vector then is undefined, and the model goes no further.         *)
(***************************************************************************)
EXTENDS HandleDatabase, Naturals

CONSTANT Children     \* child handles of a controller: five in the code

NewChild   == [addr : BusAddress, child : Child]
BusContext == [addr : BusAddress, ctl : BusController, child : Child]

ASSUME BusAssumption == Children \in Nat /\ None \notin NewChild \cup BusContext

VARIABLES
  busContexts,        \* DEVICE_CONTEXTS: address, controller and child handle
  starting, todo,     \* the controller of hdbus_start, and children still to do
  step, new,          \* what it does to the next child ("create", "open",
                      \* "register"), and that child's address and handle
  stopping, children, \* DisconnectController(): its controller, and the handles
                      \* of BY_CHILD records it has still to hand over
  child, device,      \* the handle hdbus_stop_child is at work on, and its context
  stopStep,           \* what it does next ("close", "uninstall", "unregister")
  orphaned,           \* history: an interface could not be taken back
  cut                 \* history: controllers with a disconnect that was refused
                      \* or that overlapped with hdbus_start

startVars == <<starting, todo, step, new>>
stopVars  == <<stopping, children, child, device, stopStep>>
busVars   == <<busContexts, startVars, stopVars, orphaned, cut>>

BusTypeOK ==
  /\ busContexts \subseteq BusContext
  /\ starting \in BusController \cup {None} /\ todo \in 0..Children
  /\ step \in {"create", "open", "register"}
  /\ new \in NewChild \cup {None} /\ (new = None <=> step = "create")
  /\ (starting = None => step = "create") /\ (step # "create" => todo > 0)
  /\ stopping \in BusController \cup {None} /\ children \subseteq Child
  /\ child \in children \cup {None} /\ device \in BusContext \cup {None}
  /\ stopStep \in {"close", "uninstall", "unregister"}
  /\ (child = None <=> stopStep = "close") /\ (device = None <=> stopStep = "close")
  /\ (stopping = None => stopStep = "close")
  /\ orphaned \in BOOLEAN /\ cut \subseteq BusController

(* efi_main has installed the driver binding. *)
BusInit ==
  /\ busContexts = {}
  /\ starting = None /\ todo = 0 /\ step = "create" /\ new = None
  /\ stopping = None /\ children = {} /\ child = None /\ device = None /\ stopStep = "close"
  /\ orphaned = FALSE /\ cut = {}

(* The contexts in memory: those that are registered, and the one at work. *)
InUse == {x.addr : x \in busContexts} \cup (IF new = None THEN {} ELSE {new.addr})
-----------------------------------------------------------------------------
(* ConnectController(): hdbus_supported and hdbus_start.  Both open PCI    *)
(* I/O BY_DRIVER.                                                          *)

Starting == running = "start"

StartReturnsLeaks ==                  \* mutant of StartReturns: the child's context is not dropped
  /\ starting' = None /\ todo' = 0 /\ step' = "create" /\ new' = new
  /\ running' = IF stopping = None THEN "none" ELSE "stop"

StartReturns ==
  /\ starting' = None /\ todo' = 0 /\ step' = "create" /\ new' = None
  /\ running' = IF stopping = None THEN "none" ELSE "stop"

BusStart(c) ==
  /\ Up /\ "bus" \in loaded /\ starting = None /\ c \notin byDriver["bus"]
  /\ OpenByDriver("bus", c)
  /\ starting' = c /\ todo' = Children /\ running' = "start"
  /\ cut'  = IF c = stopping THEN cut \cup {c} ELSE cut
  /\ late' = IF unloading = "checked" THEN late \cup {"bus"} ELSE late
  /\ UNCHANGED <<audio, byChild, held, loaded, unloading, left, busContexts, step, new,
                 stopVars, orphaned>>

(* create_child: a new handle with the interface of a new context. *)
BusCreate ==
  /\ Starting /\ step = "create" /\ todo > 0
  /\ \E a \in BusAddress \ InUse, h \in Child \ Published :
       Install(h, a) /\ new' = [addr |-> a, child |-> h]
  /\ step' = "open"
  /\ UNCHANGED <<byDriver, byChild, held, loadVars, running, busContexts, starting, todo,
                 stopVars, orphaned, cut>>

BusCreateFailsCloses ==               \* mutant of BusCreateFails: dont_close only after the loop
  /\ Starting /\ step = "create" /\ todo > 0
  /\ Close("bus", starting)
  /\ StartReturns
  /\ UNCHANGED <<audio, byChild, held, loadVars, busContexts, stopVars, orphaned, cut>>

(* ... or it fails, and hdbus_start returns: the children made before and  *)
(* the BY_DRIVER record stay ("TBD: what to do when some child controllers *)
(* failed to be created?").                                                *)
BusCreateFails ==
  /\ Starting /\ step = "create" /\ todo > 0
  /\ StartReturns
  /\ UNCHANGED <<dbVars, loadVars, busContexts, stopVars, orphaned, cut>>

(* PCI I/O is opened on behalf of the child. *)
BusOpenChild ==
  /\ Starting /\ step = "open"
  /\ byChild' = byChild \cup {<<starting, new.child>>}
  /\ step' = "register"
  /\ UNCHANGED <<audio, byDriver, held, loadVars, running, busContexts, starting, todo, new,
                 stopVars, orphaned, cut>>

(* ... or not: the interface is taken back, which may be refused, and the  *)
(* context is dropped either way.                                          *)
BusTakeBack ==
  /\ Starting /\ step = "open"
  /\ IF new.child \in held
       THEN orphaned' = TRUE /\ UNCHANGED audio
       ELSE Uninstall(new.child) /\ UNCHANGED orphaned
  /\ StartReturns
  /\ UNCHANGED <<byDriver, byChild, held, loadVars, busContexts, stopVars, cut>>

Registered == busContexts \cup {[addr |-> new.addr, ctl |-> starting, child |-> new.child]}

(* register_device_context: no callback came into the middle of it that    *)
(* disconnected anything (see BusRace).                                    *)
BusRegister ==
  /\ Starting /\ step = "register"
  /\ busContexts' = Registered
  /\ step' = "create" /\ new' = None /\ todo' = todo - 1
  /\ UNCHANGED <<dbVars, loadVars, running, starting, stopVars, orphaned, cut>>

BusStartEnds ==
  /\ Starting /\ step = "create" /\ todo = 0
  /\ StartReturns
  /\ UNCHANGED <<dbVars, loadVars, busContexts, stopVars, orphaned, cut>>
-----------------------------------------------------------------------------
(* DisconnectController() (external) reads the children off the BY_CHILD   *)
(* records of a controller that is open BY_DRIVER, hands them over in any  *)
(* order, and then calls hdbus_stop_entry without children.                *)

Stopping == running = "stop"

StopReturns ==
  /\ stopping' = None /\ children' = {} /\ child' = None /\ device' = None /\ stopStep' = "close"
  /\ running' = IF starting = None THEN "none" ELSE "start"

Disconnecting(c) ==
  /\ Up /\ stopping = None /\ c \in byDriver["bus"]
  /\ stopping' = c /\ children' = {h \in Child : <<c, h>> \in byChild}
  /\ running' = "stop"
  /\ cut' = IF c = starting THEN cut \cup {c} ELSE cut
  /\ UNCHANGED <<dbVars, busContexts, startVars, child, device, stopStep, orphaned>>

BusDisconnect(c) ==
  /\ "bus" \in loaded
  /\ Disconnecting(c)
  /\ UNCHANGED loadVars

(* hdbus_stop_child finds the context of the child's interface by its      *)
(* address, and closes PCI I/O for (its controller, driver, `stopping'),   *)
(* which takes the BY_DRIVER record with it and leaves the child's record. *)
BusStopChildCloses(h) ==
  /\ Stopping /\ stopStep = "close" /\ h \in children
  /\ \E x \in busContexts :
       /\ x.addr = audio[h]
       /\ IF x.ctl = stopping THEN Close("bus", stopping) ELSE UNCHANGED byDriver
       /\ device' = x
  /\ child' = h /\ stopStep' = "uninstall"
  /\ UNCHANGED <<audio, byChild, held, loadVars, running, busContexts, startVars, stopping,
                 children, orphaned, cut>>

(* Then the interface is uninstalled; with that the handle is free, and    *)
(* hdbus_start may get it for a child that a callback connects.            *)
BusStopChildUninstalls ==
  /\ Stopping /\ stopStep = "uninstall" /\ child \notin held
  /\ Uninstall(child)
  /\ stopStep' = "unregister"
  /\ UNCHANGED <<byDriver, byChild, held, loadVars, running, busContexts, startVars, stopping,
                 children, child, device, orphaned, cut>>

BusStopChildIgnores ==                \* mutant of BusStopChildRefused: the error is printed only
  /\ Stopping /\ stopStep = "uninstall" /\ child \in held
  /\ stopStep' = "unregister"
  /\ UNCHANGED <<dbVars, loadVars, running, busContexts, startVars, stopping,
                 children, child, device, orphaned, cut>>

(* The uninstallation is refused, with PCI I/O closed already. *)
BusStopChildRefused ==
  /\ Stopping /\ stopStep = "uninstall" /\ child \in held
  /\ StopReturns
  /\ cut' = cut \cup {stopping}
  /\ UNCHANGED <<dbVars, loadVars, busContexts, startVars, orphaned>>

(* unregister_device_context, which drops the context: no callback came    *)
(* into the middle of it that started anything (see BusRace).              *)
BusStopChildUnregisters ==
  /\ Stopping /\ stopStep = "unregister"
  /\ busContexts' = busContexts \ {device}
  /\ children' = children \ {child} /\ child' = None /\ device' = None /\ stopStep' = "close"
  /\ UNCHANGED <<dbVars, loadVars, running, startVars, stopping, orphaned, cut>>

(* A stale record: the handle is gone, or carries no interface of a        *)
(* registered context.                                                     *)
BusStopChildStale(h) ==
  /\ Stopping /\ stopStep = "close" /\ h \in children
  /\ \A x \in busContexts : x.addr # audio[h]
  /\ StopReturns
  /\ cut' = cut \cup {stopping}
  /\ UNCHANGED <<dbVars, loadVars, busContexts, startVars, orphaned>>

(* hdbus_stop_bus closes PCI I/O, whoever has opened it since; when there  *)
(* were children it is closed already, and closing it again fails.         *)
BusStopBus ==
  /\ Stopping /\ children = {}
  /\ Close("bus", stopping)
  /\ StopReturns
  /\ UNCHANGED <<audio, byChild, held, loadVars, busContexts, startVars, orphaned, cut>>

(* DEVICE_CONTEXTS is a plain vector ("we only have a single thread",      *)
(* main.rs 65).  A callback came into the middle of its push and searches  *)
(* it or removes from it, or came into the middle of its search or retain  *)
(* and pushes.  Contexts may be lost, or read from freed memory: the       *)
(* behaviour is undefined, and is not followed beyond this step.           *)
BusRace ==
  /\ Up /\ step = "register"
  /\ \/ stopStep = "unregister"
     \/ stopping # None /\ stopStep = "close" /\ children # {}
  /\ running' = "undefined"
  /\ busContexts' \in SUBSET Registered /\ step' = "create" /\ new' = None
  /\ UNCHANGED <<dbVars, loadVars, starting, todo, stopVars, orphaned, cut>>
-----------------------------------------------------------------------------
(* hdbus_unload *)

BusUnload ==
  /\ Unloading("none") /\ "bus" \in loaded
  /\ unloading' = "bus" /\ left' = Controller
  /\ UNCHANGED <<dbVars, running, loaded, late, busVars>>

(* Disconnect every PCI controller, whatever comes of it.  Those that the  *)
(* driver does not hold are left alone.                                    *)
BusUnloadDisconnect(c) ==
  /\ Unloading("bus") /\ c \in left
  /\ left' = left \ {c}
  /\ Disconnecting(c) \/ (c \notin byDriver["bus"] /\ UNCHANGED <<dbVars, running, busVars>>)
  /\ UNCHANGED <<loaded, unloading, late>>

BusUnloadCheckSkipped ==              \* mutant of BusUnloadCheck: the contexts are not looked at
  /\ Unloading("bus") /\ left = {}
  /\ unloading' = "checked" /\ late' = late \ {"bus"}
  /\ UNCHANGED <<dbVars, running, loaded, left, busVars>>

BusUnloadCheck ==
  /\ Unloading("bus") /\ left = {} /\ busContexts = {}
  /\ unloading' = "checked" /\ late' = late \ {"bus"}
  /\ UNCHANGED <<dbVars, running, loaded, left, busVars>>

(* Contexts are left, or the driver binding cannot be uninstalled. *)
BusUnloadFails ==
  /\ running = "none" /\ left = {}
  /\ (unloading = "bus" /\ busContexts # {}) \/ unloading = "checked"
  /\ UnloadReturns
  /\ UNCHANGED <<dbVars, running, loaded, late, busVars>>

BusUnloadEnds ==
  /\ Unloading("checked")
  /\ ImageGoes("bus")
  /\ UNCHANGED <<audio, held, running, late, busVars>>

BusNext ==
  \/ \E c \in BusController : BusStart(c) \/ BusDisconnect(c)
  \/ BusCreate \/ BusCreateFails \/ BusOpenChild \/ BusTakeBack \/ BusRegister \/ BusStartEnds
  \/ \E h \in Child : BusStopChildCloses(h) \/ BusStopChildStale(h)
  \/ BusStopChildUninstalls \/ BusStopChildRefused \/ BusStopChildUnregisters
  \/ BusStopBus \/ BusRace
  \/ BusUnload \/ BusUnloadCheck \/ BusUnloadFails \/ BusUnloadEnds
  \/ \E c \in Controller : BusUnloadDisconnect(c)
-----------------------------------------------------------------------------
(* Properties. *)

(* The context of a child that hdbus_stop_child has taken the interface    *)
(* from and not dropped yet (main.rs 341-346).                             *)
Withdrawn == IF stopStep = "unregister" THEN {device} ELSE {}

(* Every interface of the test bus driver has a context in memory behind   *)
(* it, and every context but a withdrawn one is found through its child's  *)
(* interface: whatever failed, whatever came in between, and also when the *)
(* withdrawn child's handle is used for another child already.  The context*)
(* hdbus_stop_child has at hand is not dropped under it.  This is given up *)
(* where the code ignores that an interface could not be taken back        *)
(* (main.rs 259-263), and when two callers meet in the vector (BusRace).   *)
BusBacked ==
  ~orphaned /\ running # "undefined" =>
    /\ \A x \in busContexts \ Withdrawn : audio[x.child] = x.addr
    /\ new # None => audio[new.child] = new.addr
    /\ device # None => device \in busContexts
    /\ \A h \in Child : audio[h] # None =>
         \/ \E x \in busContexts \ Withdrawn : x.addr = audio[h] /\ x.child = h
         \/ new # None /\ new.addr = audio[h] /\ new.child = h

(* A disconnect finds every child that hdbus_start has made, also when it  *)
(* could not make all of them (main.rs 231): the BY_DRIVER record is there *)
(* as long as the context is, or the disconnect that closed it is not over.*)
(* A disconnect that was refused, or overlapped with hdbus_start, may cut  *)
(* children off.                                                           *)
BusReachable ==
  "bus" \in loaded /\ ~orphaned =>
    \A x \in busContexts :
      \/ x.ctl \in byDriver["bus"] /\ <<x.ctl, x.child>> \in byChild
      \/ x.ctl = stopping /\ x.child \in children
      \/ x.ctl \in cut
=============================================================================
