------------------------------ MODULE HdaBinding ------------------------------
(***************************************************************************)
(* The HDA driver as a UEFI bus driver: hda_start, hda_stop_entry and      *)
(* hda_unload (efi-hda-dxe/src/main.rs 2392-2640) over the part of the     *)
(* firmware's handle database they work on.                                *)
(*                                                                         *)
(* hda_start opens a controller's PCI I/O BY_DRIVER and produces a child   *)
(* handle with an audio interface for every codec; each child opens PCI    *)
(* I/O BY_CHILD and has a context in DEVICE_CONTEXTS, found through the    *)
(* interface's address.  DisconnectController() reads the children off     *)
(* the BY_CHILD records and calls hda_stop_entry with them, and then once  *)
(* more without any.                                                       *)
(*                                                                         *)
(* hda_start, hda_stop_child and hda_stop_bus each run at TPL_NOTIFY, so   *)
(* that no callback comes in between; between one of them and the next,    *)
(* and while hda_write waits for an event, callbacks do.                   *)
(***************************************************************************)
EXTENDS Naturals

CONSTANTS
  Controller,   \* PCI handles the driver supports
  Handle,       \* handles the firmware can give to children
  Codecs,       \* most codecs on a controller's link
  MaxContexts,  \* bound: contexts made in a behaviour
  None

Id == 0..MaxContexts-1

ASSUME BindingAssumption ==
  Codecs \in Nat /\ MaxContexts \in Nat /\ None \notin Controller /\ None \notin Id

VARIABLES
  (* the handle database *)
  byDriver,    \* controllers with a BY_DRIVER record of this driver
  byChild,     \* controller -> handles with a BY_CHILD record of this driver
  published,   \* handle -> the context whose audio interface it carries
  held,        \* handles whose interface an agent holds open and won't close
  bindingUp,   \* the driver's DriverBinding is installed: it is loaded
  (* the driver *)
  contexts,    \* DEVICE_CONTEXTS
  starting, todo,      \* the controller of hda_start, and codecs still to do
  player,      \* the context hda_write or hda_tone works with
  unloading, left,     \* hda_unload: "none", "disconnecting" the controllers it
                       \* has left, or "checked" that no context is left
  (* the firmware *)
  stopping, children,  \* DisconnectController(): its controller, and the
                       \* children it has still to hand to hda_stop_entry
  (* history *)
  made,        \* contexts made so far
  restarted,   \* hda_start ran on `stopping' since the disconnect began
  late         \* hda_start ran since hda_unload looked at its contexts

dbVars   == <<byDriver, byChild, published, held, bindingUp>>
stopVars == <<stopping, children>>
loadVars == <<unloading, left>>
vars == <<dbVars, contexts, starting, todo, player, loadVars, stopVars, made, restarted, late>>

TypeOK ==
  /\ byDriver \subseteq Controller /\ byChild \in [Controller -> SUBSET Handle]
  /\ published \in [Handle -> Id \cup {None}] /\ held \subseteq Handle
  /\ contexts \subseteq [id : Id, ctl : Controller, child : Handle]
  /\ starting \in Controller \cup {None} /\ todo \in 0..Codecs
  /\ stopping \in Controller \cup {None} /\ children \subseteq Handle
  /\ left \subseteq Controller
  /\ player \in Id \cup {None} /\ made \in 0..MaxContexts
  /\ bindingUp \in BOOLEAN /\ unloading \in {"none", "disconnecting", "checked"}
  /\ restarted \in BOOLEAN /\ late \in BOOLEAN
  /\ starting = None => todo = 0

Init ==
  /\ byDriver = {} /\ byChild = [c \in Controller |-> {}]
  /\ published = [h \in Handle |-> None] /\ held = {}
  /\ contexts = {} /\ starting = None /\ todo = 0
  /\ stopping = None /\ children = {} /\ left = {}
  /\ player = None /\ made = 0
  /\ bindingUp = TRUE /\ unloading = "none" /\ restarted = FALSE /\ late = FALSE

(* No handler of the driver runs at TPL_NOTIFY. *)
Preemptible == starting = None
-----------------------------------------------------------------------------
(* ConnectController(): hda_supported and hda_start. *)

(* hda_supported opens PCI I/O BY_DRIVER (and closes it): it fails with    *)
(* ALREADY_STARTED when it is open already.  hda_start opens it to stay    *)
(* and detects the codecs; when it fails before the first child, the open  *)
(* is undone and nothing has changed.                                      *)
Start(c) ==
  /\ bindingUp /\ Preemptible /\ c \notin byDriver
  /\ byDriver' = byDriver \cup {c}
  /\ starting' = c /\ todo' \in 0..Codecs
  /\ restarted' = (restarted \/ c = stopping)
  /\ late' = (late \/ unloading = "checked")
  /\ UNCHANGED <<byChild, published, held, bindingUp, contexts, player, loadVars,
                 stopVars, made>>

(* bus_create_child: a new handle, its BY_CHILD record, its context.       *)
CreateChild ==
  /\ starting # None /\ todo > 0 /\ made < MaxContexts
  /\ todo' = todo - 1
  /\ \E h \in Handle :
       /\ published[h] = None
       /\ published' = [published EXCEPT ![h] = made]
       /\ byChild' = [byChild EXCEPT ![starting] = @ \cup {h}]
       /\ contexts' = contexts \cup {[id |-> made, ctl |-> starting, child |-> h]}
  /\ made' = made + 1
  /\ UNCHANGED <<byDriver, held, bindingUp, starting, player, loadVars, stopVars, restarted, late>>

ChildFailsReturns ==                  \* mutant of ChildFails: hda_start gives up
  /\ starting # None /\ todo > 0
  /\ starting' = None
  /\ UNCHANGED <<dbVars, contexts, todo, player, loadVars, stopVars, made, restarted, late>>

(* ... or it fails at some point and takes back what it did; hda_start     *)
(* ignores that.                                                           *)
ChildFails ==
  /\ starting # None /\ todo > 0
  /\ todo' = todo - 1
  /\ UNCHANGED <<dbVars, contexts, starting, player, loadVars, stopVars, made, restarted, late>>

StartEnds ==
  /\ starting # None /\ todo = 0
  /\ starting' = None
  /\ UNCHANGED <<dbVars, contexts, todo, player, loadVars, stopVars, made, restarted, late>>
-----------------------------------------------------------------------------
(* DisconnectController() (external): a controller the driver does not     *)
(* hold BY_DRIVER is not touched; otherwise all its children are stopped,  *)
(* in any order, and then the controller.                                  *)

Disconnecting(c) ==
  /\ Preemptible /\ stopping = None
  /\ IF c \in byDriver
       THEN stopping' = c /\ children' = byChild[c]
       ELSE UNCHANGED stopVars
  /\ restarted' = FALSE

Disconnect(c) ==
  /\ bindingUp /\ c \in byDriver
  /\ Disconnecting(c)
  /\ UNCHANGED <<dbVars, contexts, starting, todo, player, loadVars, made, late>>

(* ... gives up when hda_stop_entry fails. *)
GiveUp == stopping' = None /\ children' = {}

(* hda_stop_child of a handle without an audio interface of the driver.    *)
StopChildStale ==
  /\ stopping # None /\ Preemptible
  /\ \E h \in children : \A x \in contexts : published[h] # x.id
  /\ GiveUp
  /\ UNCHANGED <<dbVars, contexts, starting, todo, player, loadVars, made, restarted, late>>

(* hda_stop_child: closing PCI I/O for (controller, driver, controller)    *)
(* takes the BY_DRIVER record with it, and leaves the BY_CHILD record; the *)
(* interface is uninstalled unless an agent holds it, and only then is the *)
(* context dropped.                                                        *)
StopChildDropsHeld ==                 \* mutant of StopChild: the refusal is not looked at
  /\ stopping # None /\ Preemptible
  /\ \E h \in children, x \in contexts :
       /\ published[h] = x.id
       /\ byDriver' = byDriver \ {stopping}
       /\ contexts' = contexts \ {x}
       /\ published' = IF h \in held THEN published ELSE [published EXCEPT ![h] = None]
       /\ children' = children \ {h}
  /\ UNCHANGED <<byChild, held, bindingUp, starting, todo, player, loadVars, stopping,
                 made, restarted, late>>

StopChildForgets ==                   \* mutant of StopChild: the BY_CHILD record goes first
  /\ stopping # None /\ Preemptible
  /\ \E h \in children, x \in contexts :
       /\ published[h] = x.id
       /\ byDriver' = byDriver \ {stopping}
       /\ byChild' = [byChild EXCEPT ![stopping] = @ \ {h}]
       /\ IF h \in held
            THEN GiveUp /\ UNCHANGED <<published, contexts>>
            ELSE /\ published' = [published EXCEPT ![h] = None]
                 /\ contexts' = contexts \ {x}
                 /\ children' = children \ {h}
                 /\ UNCHANGED stopping
  /\ UNCHANGED <<held, bindingUp, starting, todo, player, loadVars, made, restarted, late>>

StopChildGoesOn ==                    \* mutant of StopChild: a refusal does not end the loop
  /\ stopping # None /\ Preemptible
  /\ \E h \in children, x \in contexts :
       /\ published[h] = x.id
       /\ byDriver' = byDriver \ {stopping}
       /\ children' = children \ {h}
       /\ IF h \in held
            THEN UNCHANGED <<published, contexts>>
            ELSE published' = [published EXCEPT ![h] = None] /\ contexts' = contexts \ {x}
  /\ UNCHANGED <<byChild, held, bindingUp, starting, todo, player, loadVars, stopping,
                 made, restarted, late>>

StopChild ==
  /\ stopping # None /\ Preemptible
  /\ \E h \in children, x \in contexts :
       /\ published[h] = x.id
       /\ byDriver' = byDriver \ {stopping}
       /\ IF h \in held
            THEN GiveUp /\ UNCHANGED <<published, contexts>>
            ELSE /\ published' = [published EXCEPT ![h] = None]
                 /\ contexts' = contexts \ {x}
                 /\ children' = children \ {h}
                 /\ UNCHANGED stopping
  /\ UNCHANGED <<byChild, held, bindingUp, starting, todo, player, loadVars, made, restarted, late>>

(* hda_stop_bus opens PCI I/O BY_DRIVER again, which fails when it is      *)
(* still open: with ALREADY_STARTED, and nothing is done.                  *)
StopBusRefused ==
  /\ stopping \in byDriver /\ Preemptible /\ children = {}
  /\ GiveUp
  /\ UNCHANGED <<dbVars, contexts, starting, todo, player, loadVars, made, restarted, late>>

(* ... stops the link and closes PCI I/O.                                  *)
StopBus ==
  /\ stopping \notin byDriver \cup {None} /\ Preemptible /\ children = {}
  /\ GiveUp
  /\ UNCHANGED <<dbVars, contexts, starting, todo, player, loadVars, made, restarted, late>>

(* ... or fails to stop the link, and returns with PCI I/O open.           *)
StopBusFails ==
  /\ stopping \notin byDriver \cup {None} /\ Preemptible /\ children = {}
  /\ byDriver' = byDriver \cup {stopping}
  /\ GiveUp
  /\ UNCHANGED <<byChild, published, held, bindingUp, contexts, starting, todo, player,
                 loadVars, made, restarted, late>>
-----------------------------------------------------------------------------
(* hda_unload *)

(* UnloadImage() is available at TPL_APPLICATION only, as is waiting for   *)
(* events: no playback is under way.                                       *)
Unload ==
  /\ bindingUp /\ Preemptible /\ stopping = None /\ player = None /\ unloading = "none"
  /\ unloading' = "disconnecting" /\ left' = Controller
  /\ UNCHANGED <<dbVars, contexts, starting, todo, player, stopVars, made, restarted, late>>

(* Disconnect every PCI controller, whatever comes of it.     *)
UnloadDisconnect(c) ==
  /\ unloading = "disconnecting" /\ c \in left
  /\ left' = left \ {c}
  /\ Disconnecting(c)
  /\ UNCHANGED <<dbVars, contexts, starting, todo, player, unloading, made, late>>

UnloadCheckSkipped ==                 \* mutant of UnloadCheck: the contexts are not looked at
  /\ unloading = "disconnecting" /\ left = {} /\ stopping = None /\ Preemptible
  /\ unloading' = "checked" /\ late' = FALSE
  /\ UNCHANGED <<dbVars, contexts, starting, todo, player, left, stopVars, made, restarted>>

(* No context is left.  TPL_NOTIFY is not taken for this look, nor until   *)
(* the binding is gone: a callback may connect a controller in between.    *)
UnloadCheck ==
  /\ unloading = "disconnecting" /\ left = {} /\ stopping = None /\ Preemptible
  /\ contexts = {}
  /\ unloading' = "checked" /\ late' = FALSE
  /\ UNCHANGED <<dbVars, contexts, starting, todo, player, left, stopVars, made, restarted>>

(* Contexts are left, or the binding cannot be uninstalled. *)
UnloadFails ==
  /\ left = {} /\ stopping = None /\ Preemptible
  /\ (unloading = "disconnecting" /\ contexts # {}) \/ unloading = "checked"
  /\ unloading' = "none"
  /\ UNCHANGED <<dbVars, contexts, starting, todo, player, left, stopVars, made, restarted, late>>

UnloadEnds ==
  /\ unloading = "checked" /\ stopping = None /\ Preemptible
  /\ unloading' = "none"
  /\ bindingUp' = FALSE
  /\ UNCHANGED <<byDriver, byChild, published, held, contexts, starting, todo, player,
                 left, stopVars, made, restarted, late>>
-----------------------------------------------------------------------------
(* The users of the audio interface. *)

(* hda_write or hda_tone finds the context and keeps a reference to it     *)
(* while it waits for events; callbacks run to their end before it returns.*)
Play ==
  /\ bindingUp /\ unloading = "none"
  /\ player = None /\ stopping = None /\ Preemptible
  /\ \E h \in Handle, x \in contexts : published[h] = x.id /\ player' = x.id
  /\ UNCHANGED <<dbVars, contexts, starting, todo, loadVars, stopVars, made, restarted, late>>

PlayEnds ==
  /\ player # None /\ stopping = None /\ Preemptible
  /\ player' = None
  /\ UNCHANGED <<dbVars, contexts, starting, todo, loadVars, stopVars, made, restarted, late>>

(* Another agent opens an audio interface and will not close it (external).*)
Hold(h) ==
  /\ Preemptible /\ published[h] # None /\ h \notin held
  /\ held' = held \cup {h}
  /\ UNCHANGED <<byDriver, byChild, published, bindingUp, contexts, starting, todo, player,
                 loadVars, stopVars, made, restarted, late>>

Release(h) ==
  /\ Preemptible /\ h \in held
  /\ held' = held \ {h}
  /\ UNCHANGED <<byDriver, byChild, published, bindingUp, contexts, starting, todo, player,
                 loadVars, stopVars, made, restarted, late>>

Next ==
  \/ StopChild \/ StopChildStale \/ StopBus \/ StopBusRefused \/ StopBusFails
  \/ CreateChild \/ ChildFails \/ StartEnds
  \/ \E c \in Controller : Start(c) \/ Disconnect(c) \/ UnloadDisconnect(c)
  \/ Unload \/ UnloadCheck \/ UnloadFails \/ UnloadEnds
  \/ Play \/ PlayEnds
  \/ \E h \in Handle : Hold(h) \/ Release(h)

Spec == Init /\ [][Next]_vars
-----------------------------------------------------------------------------
(* Properties. *)

(* Every audio interface in the database has exactly one context behind    *)
(* it, and every context its interface, through any order of starts, stops *)
(* and refusals: a client's call never finds INVALID_PARAMETER.            *)
PublishedOwned ==
  /\ \A x \in contexts : published[x.child] = x.id
  /\ \A h \in Handle : published[h] # None =>
       \E x \in contexts : x.child = h /\ x.id = published[h]

(* The BY_CHILD record of a child is kept as long as its context, also     *)
(* when stopping it was refused half way.  A disconnect reads it only      *)
(* while the controller is open BY_DRIVER, and that record goes before the *)
(* refusal (main.rs 2547): after one this does not say that the child is   *)
(* found again.                                                            *)
ChildrenRecorded == \A x \in contexts : x.child \in byChild[x.ctl]

(* An unloaded driver has left no interface behind, though hda_unload looks*)
(* at its contexts only, and ignores what became of its disconnects; unless*)
(* a callback started a controller after that look.                        *)
UnloadedClean == ~bindingUp /\ ~late => \A h \in Handle : published[h] = None

(* The link is stopped only when no child of the controller is left, unless*)
(* a callback started the controller again in the middle.                  *)
BusStopsLast ==
  [][StopBus => restarted \/ \A x \in contexts : x.ctl # stopping]_vars

(* A disconnect that no agent refuses and no callback interferes with ends *)
(* the children ("let it live in database as long as the driver's image    *)
(* stay resident or until the DisconnectController() will be invoked",     *)
(* main.rs 2475).                                                          *)
DisconnectEndsChildren ==
  [][stopping # None /\ stopping' = None /\ held = {} /\ ~restarted
       => \A x \in contexts' : x.ctl # stopping]_vars

(* hda_stop_child drops no context that is in use ("safe as long as no     *)
(* other references exist in our code", main.rs 2543).                     *)
NoneBorrowed == player # None => \E x \in contexts : x.id = player
=============================================================================
