------------------------------ MODULE PcmBinding ------------------------------
(***************************************************************************)
(* The AC97 driver as a UEFI device driver: pcm_supported, pcm_start,      *)
(* pcm_stop and pcm_unload (efi-pcm-dxe/src/main.rs 1008-1260).            *)
(*                                                                         *)
(* pcm_start and pcm_stop run at TPL_NOTIFY and are one step each.         *)
(* pcm_unload calls pcm_stop for every handle that carries an audio        *)
(* interface, of whatever driver; callbacks may come in between.           *)
(*                                                                         *)
(* A context is found by stepping back from the interface's address to a   *)
(* signature, so that it is found in freed memory too.  Memory is modelled *)
(* by addresses that are used again.                                       *)
(***************************************************************************)
EXTENDS HandleDatabase

VARIABLES
  pcmContexts,  \* the DeviceContexts that exist: address and controller
  dumpFailed    \* history: dump_registers failed after an interface was installed

pcmVars == <<pcmContexts, dumpFailed>>

PcmTypeOK ==
  /\ pcmContexts \subseteq [addr : PcmAddress, ctl : PcmController]
  /\ dumpFailed \in BOOLEAN

(* efi_main has installed the driver binding. *)
PcmInit == pcmContexts = {} /\ dumpFailed = FALSE

Freed == PcmAddress \ {x.addr : x \in pcmContexts}
-----------------------------------------------------------------------------
(* ConnectController(): pcm_supported and pcm_start. *)

(* Both open PCI I/O BY_DRIVER.  When pcm_start fails up to the            *)
(* installation of the interface, which it does when the handle carries    *)
(* one, all it did is undone.                                              *)
PcmStartable(c) ==
  /\ Up /\ "pcm" \in loaded
  /\ c \notin byDriver["pcm"] /\ audio[c] = None

PcmStart(c) ==
  /\ PcmStartable(c)
  /\ OpenByDriver("pcm", c)
  /\ \E a \in Freed :
       /\ Install(c, a)
       /\ pcmContexts' = pcmContexts \cup {[addr |-> a, ctl |-> c]}
  /\ late' = IF unloading = "pcm" THEN late \cup {"pcm"} ELSE late
  /\ UNCHANGED <<byChild, held, loaded, unloading, left, running, dumpFailed>>

(* dump_registers fails: the context is dropped and PCI I/O closed, and    *)
(* the interface stays.                                                    *)
PcmStartDumpFails(c) ==
  /\ PcmStartable(c)
  /\ \E a \in Freed : Install(c, a)
  /\ dumpFailed' = TRUE
  /\ UNCHANGED <<byDriver, byChild, held, loadVars, running, pcmContexts>>
-----------------------------------------------------------------------------
(* pcm_stop.  PCI I/O is opened GET_PROTOCOL and not closed, since closing *)
(* it would take the BY_DRIVER record with it; nothing else closes that.   *)

PcmStopCloses(c) ==                   \* mutant of PcmStop: without dont_close
  /\ c \in PcmController
  /\ Close("pcm", c)
  /\ \E x \in pcmContexts :
       /\ x.addr = audio[c]
       /\ IF c \in held
            THEN UNCHANGED <<audio, pcmContexts>>
            ELSE Uninstall(c) /\ pcmContexts' = pcmContexts \ {x}
  /\ UNCHANGED <<byChild, held, running, dumpFailed>>

PcmStopFrees(c) ==                    \* mutant of PcmStop: the refusal is not looked at
  /\ c \in PcmController
  /\ \E x \in pcmContexts :
       /\ x.addr = audio[c]
       /\ pcmContexts' = pcmContexts \ {x}
       /\ IF c \in held THEN UNCHANGED audio ELSE Uninstall(c)
  /\ UNCHANGED <<byDriver, byChild, held, running, dumpFailed>>

PcmStop(c) ==
  /\ c \in PcmController \ held
  /\ \E x \in pcmContexts :
       /\ x.addr = audio[c]
       /\ Uninstall(c)
       /\ pcmContexts' = pcmContexts \ {x}
  /\ UNCHANGED <<byDriver, byChild, held, running, dumpFailed>>

(* The context was dropped before, and its signature can still be read     *)
(* (undefined behaviour): it is dropped again.  That closes its events a   *)
(* second time, and when the firmware objects, the driver panics and its   *)
(* panic handler shuts the machine down.                                   *)
PcmStopTwice(c) ==
  /\ c \in PcmController \ held
  /\ audio[c] \in Freed
  /\ Uninstall(c)
  /\ running' \in {running, "halted"}
  /\ UNCHANGED <<byDriver, byChild, held, pcmVars>>

(* pcm_stop returns INVALID_PARAMETER: the memory was used for something   *)
(* else, or the handle is that of a child which is gone.                   *)
PcmInvalid(h) == audio[h] \in Freed \/ (h \in Child /\ audio[h] = None)

(* It fails otherwise: there is no interface; there is no PCI I/O, as on   *)
(* the child handles of another driver; the uninstallation is refused.     *)
PcmRefused(h) ==
  \/ h \in Controller /\ audio[h] = None
  \/ h \in Child /\ audio[h] # None
  \/ h \in PcmController \cap held

(* DisconnectController(): a controller the driver holds is stopped; when  *)
(* pcm_stop fails, nothing has changed.                                    *)
PcmDisconnect(c) ==
  /\ Up /\ "pcm" \in loaded /\ c \in byDriver["pcm"]
  /\ PcmStop(c) \/ PcmStopTwice(c)
  /\ UNCHANGED loadVars
-----------------------------------------------------------------------------
(* pcm_unload *)

PcmUnload ==
  /\ Unloading("none") /\ "pcm" \in loaded
  /\ unloading' = "pcm" /\ left' = Published /\ late' = late \ {"pcm"}
  /\ UNCHANGED <<dbVars, running, loaded, pcmVars>>

PcmUnloadStop(h) ==
  /\ Unloading("pcm") /\ h \in left
  /\ PcmStop(h) \/ PcmStopTwice(h)
  /\ left' = left \ {h}
  /\ UNCHANGED <<loaded, unloading, late>>

PcmUnloadSkip(h) ==
  /\ Unloading("pcm") /\ h \in left /\ PcmInvalid(h)
  /\ left' = left \ {h}
  /\ UNCHANGED <<dbVars, running, loaded, unloading, late, pcmVars>>

PcmUnloadSkipsAll(h) ==               \* mutant of PcmUnloadFails: no error ends the loop
  /\ Unloading("pcm") /\ h \in left /\ PcmRefused(h)
  /\ left' = left \ {h}
  /\ UNCHANGED <<dbVars, running, loaded, unloading, late, pcmVars>>

(* Any other error ends the unload; what was stopped so far stays stopped. *)
PcmUnloadFails(h) ==
  /\ Unloading("pcm") /\ h \in left /\ PcmRefused(h)
  /\ UnloadReturns
  /\ UNCHANGED <<dbVars, running, loaded, late, pcmVars>>

(* The driver binding may be refused to be uninstalled. *)
PcmUnloadKept ==
  /\ Unloading("pcm") /\ left = {}
  /\ UnloadReturns
  /\ UNCHANGED <<dbVars, running, loaded, late, pcmVars>>

PcmUnloadEnds ==
  /\ Unloading("pcm") /\ left = {}
  /\ ImageGoes("pcm")
  /\ UNCHANGED <<audio, held, running, late, pcmVars>>

PcmNext ==
  \/ \E c \in PcmController : PcmStart(c) \/ PcmStartDumpFails(c) \/ PcmDisconnect(c)
  \/ PcmUnload \/ PcmUnloadKept \/ PcmUnloadEnds
  \/ \E h \in Handle : PcmUnloadStop(h) \/ PcmUnloadSkip(h) \/ PcmUnloadFails(h)
-----------------------------------------------------------------------------
(* Properties. *)

(* Every interface of the AC97 driver has its context behind it, and every *)
(* context is found through its controller's interface, through refused    *)
(* stops and unloads that gave up half way: no call works on freed memory. *)
(* It is given up where pcm_start is: when dump_registers fails after the  *)
(* interface was installed (main.rs 1086).                                 *)
PcmBacked ==
  ~dumpFailed =>
    /\ \A c \in PcmController : audio[c] # None => [addr |-> audio[c], ctl |-> c] \in pcmContexts
    /\ \A x \in pcmContexts : audio[x.ctl] = x.addr

(* A disconnect finds every controller with an interface: the BY_DRIVER    *)
(* record lives as long as the context ("even with BY_DRIVER", main.rs     *)
(* 1117), also when pcm_stop was refused in the middle.                    *)
PcmReachable ==
  "pcm" \in loaded /\ ~dumpFailed => \A x \in pcmContexts : x.ctl \in byDriver["pcm"]

(* pcm_unload does not fail for the interface of another driver, which     *)
(* pcm_stop tells by its signature ("just skip it", main.rs 1196).         *)
UnloadSkipsForeign ==
  [][\A h \in Handle : PcmUnloadFails(h) => audio[h] \notin BusAddress]_<<firmwareVars, pcmVars>>
=============================================================================
