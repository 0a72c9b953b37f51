---------------------------- MODULE CommandRings ----------------------------
(***************************************************************************)
(* The command transport of the HDA driver: struct CommandResponseBuffers  *)
(* (efi-hda-dxe/src/main.rs 691-933), its callers bus_probe_codecs and the *)
(* playback path, and the controller at the other end of the two rings.    *)
(*                                                                         *)
(* The driver writes commands into the CORB and moves CORBWP; the          *)
(* controller follows with CORBRP, passes each command to its codec and    *)
(* writes the answer into the RIRB, moves RIRBWP and raises RIRBSTS; the   *)
(* driver polls RIRBWP against a cursor of its own and acknowledges        *)
(* RIRBSTS.  While RIRBSTS is raised the controller is stalled.            *)
(*                                                                         *)
(* Any register access may fail (every PciIO call is followed by a `?`),   *)
(* any wait may time out, and an answer may come after recv() gave up.     *)
(***************************************************************************)
EXTENDS Naturals, FiniteSets, Sequences

CONSTANTS
  Codec,          \* codec addresses the driver talks to
  Present,        \* those with a codec behind them
  CorbSize,       \* slots of the command ring (2, 16 or 256)
  RirbSize,       \* slots of the response ring (2, 16 or 256)
  MaxCommands,    \* bound: commands issued in a behaviour
  MaxUnsolicited, \* bound: unsolicited responses in a behaviour
  None, Unsol     \* an empty slot; an unsolicited response

ASSUME RingsAssumption ==
  /\ Present \subseteq Codec
  /\ CorbSize \in Nat /\ CorbSize >= 2
  /\ RirbSize \in Nat /\ RirbSize >= 2
  /\ MaxCommands \in Nat /\ MaxUnsolicited \in Nat
  /\ None # Unsol /\ None \notin Nat /\ Unsol \notin Nat
  /\ None \notin [id : Nat, codec : Codec, checked : BOOLEAN]
  /\ None \notin [id : Nat, reply : Nat, broken : BOOLEAN]

VARIABLES
  (* the controller *)
  corb,       \* the memory at the CORB base: slot -> command
  corbwp, corbrp,
  corbDma,    \* CORBCTL.DMA as the driver reads it back
  rirb,       \* the memory at the RIRB base: slot -> response
  rirbwp, rirbDma,
  irq,        \* RIRBSTS.RESPONSE
  (* the driver *)
  pc,         \* where new(), exec() or drop() stands
  readPos,    \* read_pos
  purpose,    \* who uses the rings: a codec probe or a stream setup
  cmd,        \* the command exec() works on
  got,        \* the response poll_rirb() has read
  nextId,     \* the number of the next command
  (* history *)
  pending,    \* commands handed to the controller and not fetched yet
  broken,     \* an exec() of this session failed and the caller went on
  deaf,       \* RIRBSTS was raised at setup, or could not be acknowledged
  leaked,     \* stopping the engines failed before the rings were unmapped
  result,     \* what the last successful exec() returned, and to what
  unsols      \* unsolicited responses so far

hwVars   == <<corb, corbwp, corbrp, corbDma, rirb, rirbwp, rirbDma, irq>>
drvVars  == <<pc, readPos, purpose, cmd, got, nextId>>
histVars == <<pending, broken, deaf, leaked, result, unsols>>
vars     == <<hwVars, drvVars, histVars>>

Id       == 0..MaxCommands-1
Command  == [id : Id, codec : Codec, checked : BOOLEAN]
Response == Id \cup {Unsol}
Dma      == {"off", "on", "stopping"}

NewPc  == {"new_halt", "new_wait", "new_reset", "new_run_rirb", "new_run_corb"}
ExecPc == {"ready", "doorbell", "timer", "poll", "ack", "check"}
DropPc == {"drop_rirb", "drop_corb", "drop_wait"}

(* The rings belong to a constructed CommandResponseBuffers. *)
InSession == pc \in ExecPc \cup DropPc

CorbNext(i) == (i + 1) % CorbSize
RirbNextUnwrapped(i) == i + 1    \* mutant of RirbNext: no wrap
RirbNext(i) == (i + 1) % RirbSize

(* send()'s test: the next slot is the one CORBRP points at. *)
CorbFull == CorbNext(corbwp) = corbrp

(* send()'s slot. *)
SendSlotAtWp == corbwp           \* mutant of SendSlot: the slot CORBWP points at
SendSlot == CorbNext(corbwp)

(* Both engines read back as stopped. *)
StoppedCorbOnly == corbDma = "off"   \* mutant of Stopped: RIRBCTL is not waited for
Stopped == rirbDma = "off" /\ corbDma = "off"

TypeOK ==
  /\ corb \in [0..CorbSize-1 -> Command \cup {None}]
  /\ corbwp \in 0..CorbSize-1 /\ corbrp \in 0..CorbSize-1
  /\ rirb \in [0..RirbSize-1 -> Response \cup {None}]
  /\ rirbwp \in 0..RirbSize-1 /\ readPos \in 0..RirbSize-1
  /\ corbDma \in Dma /\ rirbDma \in Dma
  /\ pc \in {"closed"} \cup NewPc \cup ExecPc \cup DropPc
  /\ purpose \in {"probe", "setup"}
  /\ cmd \in Command \cup {None}
  /\ got \in Response \cup {None}
  /\ nextId \in Nat /\ unsols \in Nat /\ pending \in Nat
  /\ irq \in BOOLEAN /\ broken \in BOOLEAN /\ deaf \in BOOLEAN /\ leaked \in BOOLEAN
  /\ result \in [id : Id, reply : Id, broken : BOOLEAN] \cup {None}

Init ==
  /\ corb = [i \in 0..CorbSize-1 |-> None] /\ rirb = [i \in 0..RirbSize-1 |-> None]
  /\ corbwp = 0 /\ corbrp = 0 /\ rirbwp = 0
  /\ corbDma = "off" /\ rirbDma = "off" /\ irq = FALSE
  /\ pc = "closed" /\ readPos = 0 /\ purpose = "probe"
  /\ cmd = None /\ got = None /\ nextId = 0
  /\ pending = 0 /\ broken = FALSE /\ deaf = FALSE /\ leaked = FALSE
  /\ result = None /\ unsols = 0

-----------------------------------------------------------------------------
(* Bus reset: bus_stop, bus_reset_link and bus_clear_interrupt of hda_start. *)

(* GCTL.RST puts every register back to its reset value, and RIRBSTS is    *)
(* cleared explicitly.                                                     *)
BusReset ==
  /\ pc = "closed"
  /\ corbwp' = 0 /\ corbrp' = 0 /\ rirbwp' = 0
  /\ corbDma' = "off" /\ rirbDma' = "off" /\ irq' = FALSE
  /\ pending' = 0 /\ leaked' = FALSE
  /\ UNCHANGED <<corb, rirb, drvVars, broken, deaf, result, unsols>>

-----------------------------------------------------------------------------
(* CommandResponseBuffers::new *)

Halted(dma) == IF dma = "off" THEN "off" ELSE "stopping"

NewMap ==
  /\ pc = "closed" /\ nextId < MaxCommands
  /\ pc' = "new_halt"
  /\ purpose' \in {"probe", "setup"}
  /\ UNCHANGED <<hwVars, readPos, cmd, got, nextId, histVars>>

(* Clear RIRBCTL.DMA, then CORBCTL.DMA. *)
NewHalt ==
  /\ pc = "new_halt"
  /\ pc' = "new_wait"
  /\ rirbDma' = Halted(rirbDma) /\ corbDma' = Halted(corbDma)
  /\ UNCHANGED <<corb, corbwp, corbrp, rirb, rirbwp, irq,
                 readPos, purpose, cmd, got, nextId, histVars>>

NewWait ==
  /\ pc = "new_wait" /\ Stopped
  /\ pc' = "new_reset"
  /\ leaked' = FALSE
  /\ UNCHANGED <<hwVars, readPos, purpose, cmd, got, nextId,
                 pending, broken, deaf, result, unsols>>

(* Mutant of NewReset: RIRBWP keeps its value. *)
NewResetKeepsRirbwp ==
  /\ pc = "new_reset"
  /\ pc' = "new_run_rirb"
  /\ corbrp' = 0 /\ corbwp' = 0
  /\ pending' = 0
  /\ corb' = [i \in 0..CorbSize-1 |-> None]
  /\ rirb' = [i \in 0..RirbSize-1 |-> None]
  /\ UNCHANGED <<corbDma, rirbDma, rirbwp, irq, readPos, purpose,
                 cmd, got, nextId, broken, deaf, leaked, result, unsols>>

(* Reset CORBRP and CORBWP, program the bases, reset RIRBWP. *)
NewReset ==
  /\ pc = "new_reset"
  /\ pc' = "new_run_rirb"
  /\ corbrp' = 0 /\ corbwp' = 0 /\ rirbwp' = 0
  /\ pending' = 0
  /\ corb' = [i \in 0..CorbSize-1 |-> None]
  /\ rirb' = [i \in 0..RirbSize-1 |-> None]
  /\ UNCHANGED <<corbDma, rirbDma, irq, readPos, purpose,
                 cmd, got, nextId, broken, deaf, leaked, result, unsols>>

NewRunRirb ==
  /\ pc = "new_run_rirb"
  /\ pc' = "new_run_corb"
  /\ rirbDma' = "on"
  /\ UNCHANGED <<corb, corbwp, corbrp, corbDma, rirb, rirbwp, irq,
                 readPos, purpose, cmd, got, nextId, histVars>>

NewRunCorb ==
  /\ pc = "new_run_corb"
  /\ pc' = "ready"
  /\ corbDma' = "on"
  /\ readPos' = 0
  /\ broken' = FALSE
  /\ deaf' = irq
  /\ UNCHANGED <<corb, corbwp, corbrp, rirb, rirbwp, rirbDma, irq,
                 purpose, cmd, got, nextId, pending, leaked, result, unsols>>

(* A register access of new() fails, or a wait times out: the mappings are *)
(* locals of new() and are dropped, with nothing to stop the engines.      *)
NewFails ==
  /\ pc \in NewPc
  /\ pc' = "closed"
  /\ leaked' = (leaked \/ (pc = "new_run_corb"))
  /\ \/ UNCHANGED <<rirbDma, corbrp, corbwp, rirbwp>>
     \/ /\ pc = "new_halt"
        /\ rirbDma' = Halted(rirbDma)
        /\ UNCHANGED <<corbrp, corbwp, rirbwp>>
     \/ /\ pc = "new_reset"
        /\ corbrp' = 0
        /\ \/ UNCHANGED <<corbwp, rirbwp>>
           \/ corbwp' = 0 /\ rirbwp' \in {rirbwp, 0}
        /\ UNCHANGED rirbDma
  /\ UNCHANGED <<corb, corbDma, rirb, irq, readPos, purpose,
                 cmd, got, nextId, pending, broken, deaf, result, unsols>>

-----------------------------------------------------------------------------
(* exec() = send() + recv() *)

(* exec() of command c returns an error.  The caller propagates it and the *)
(* rings are dropped, except where the caller ignores it (pin_set_volume). *)
FailExec(c) ==
  /\ pc' = IF c.checked THEN "drop_rirb" ELSE "ready"
  /\ broken' = (broken \/ ~c.checked)

(* send(): fail when the next slot is the one CORBRP points at, otherwise  *)
(* write the command into the next slot.  A probe issues one command only. *)
Send ==
  /\ pc = "ready" /\ nextId < MaxCommands
  /\ \E c \in Codec, k \in BOOLEAN :
       /\ purpose = "probe" => k
       /\ cmd' = [id |-> nextId, codec |-> c, checked |-> k]
  /\ nextId' = nextId + 1
  /\ IF CorbFull
       THEN FailExec(cmd') /\ UNCHANGED corb
       ELSE /\ pc' = "doorbell"
            /\ corb' = [corb EXCEPT ![SendSlot] = cmd']
            /\ UNCHANGED broken
  /\ UNCHANGED <<corbwp, corbrp, corbDma, rirb, rirbwp, rirbDma, irq, readPos,
                 purpose, got, pending, deaf, leaked, result, unsols>>

(* ... then move CORBWP. *)
Doorbell ==
  /\ pc = "doorbell"
  /\ pc' = "timer"
  /\ corbwp' = CorbNext(corbwp)
  /\ pending' = pending + 1
  /\ UNCHANGED <<corb, corbrp, corbDma, rirb, rirbwp, rirbDma, irq, readPos,
                 purpose, cmd, got, nextId, broken, deaf, leaked, result, unsols>>

(* recv(): arm the 100 ms timer. *)
ArmTimer ==
  /\ pc = "timer"
  /\ pc' = "poll"
  /\ UNCHANGED <<hwVars, readPos, purpose, cmd, got, nextId, histVars>>

(* A register access of send(), or creating the timer, fails. *)
ExecFails ==
  /\ pc \in {"doorbell", "timer"}
  /\ FailExec(cmd)
  /\ UNCHANGED <<hwVars, readPos, purpose, cmd, got, nextId,
                 pending, deaf, leaked, result, unsols>>

(* poll_rirb(): read the next response. *)
PollResponse ==
  /\ pc = "poll" /\ rirbwp # readPos
  /\ pc' = "ack"
  /\ readPos' = RirbNext(readPos)
  /\ got' = rirb[RirbNext(readPos)]
  /\ UNCHANGED <<hwVars, purpose, cmd, nextId, histVars>>

(* ... NOT_READY, or RIRBWP cannot be read: recv() treats them alike.      *)
PollNothing ==
  /\ pc = "poll"
  /\ pc' = "check"
  /\ UNCHANGED <<hwVars, readPos, purpose, cmd, got, nextId, histVars>>

(* Mutant of Acknowledge: an unsolicited response is rejected first. *)
AcknowledgeSolicited ==
  /\ pc = "ack"
  /\ irq' = (irq /\ got = Unsol)
  /\ IF got = Unsol
       THEN pc' = "check" /\ UNCHANGED result
       ELSE /\ pc' = IF purpose = "probe" THEN "drop_rirb" ELSE "ready"
            /\ result' = [id |-> cmd.id, reply |-> got, broken |-> broken]
  /\ UNCHANGED <<corb, corbwp, corbrp, corbDma, rirb, rirbwp, rirbDma, readPos,
                 purpose, cmd, got, nextId, pending, broken, deaf, leaked, unsols>>

(* ... acknowledge RIRBSTS; an unsolicited response is skipped, any other  *)
(* is returned as the answer, whatever command it was sent for.            *)
Acknowledge ==
  /\ pc = "ack"
  /\ irq' = FALSE
  /\ IF got = Unsol
       THEN pc' = "check" /\ UNCHANGED result
       ELSE /\ pc' = IF purpose = "probe" THEN "drop_rirb" ELSE "ready"
            /\ result' = [id |-> cmd.id, reply |-> got, broken |-> broken]
  /\ UNCHANGED <<corb, corbwp, corbrp, corbDma, rirb, rirbwp, rirbDma, readPos,
                 purpose, cmd, got, nextId, pending, broken, deaf, leaked, unsols>>

(* RIRBSTS cannot be written: the response is lost and RIRBSTS stays up. *)
AcknowledgeFails ==
  /\ pc = "ack"
  /\ pc' = "check"
  /\ deaf' = TRUE
  /\ UNCHANGED <<hwVars, readPos, purpose, cmd, got, nextId,
                 pending, broken, leaked, result, unsols>>

(* stall() and check_event(): poll again, as often as fits in 100 ms,    *)
PollAgain ==
  /\ pc = "check"
  /\ pc' = "poll"
  /\ UNCHANGED <<hwVars, readPos, purpose, cmd, got, nextId, histVars>>

(* ... or the timer has expired. *)
Timeout ==
  /\ pc = "check"
  /\ FailExec(cmd)
  /\ UNCHANGED <<hwVars, readPos, purpose, cmd, got, nextId,
                 pending, deaf, leaked, result, unsols>>

-----------------------------------------------------------------------------
(* Drop: uninit_io stops the engines, and the rings are unmapped whatever  *)
(* it returns.                                                             *)

DropRirb ==
  /\ pc = "drop_rirb" \/ (pc = "ready" /\ purpose = "setup")
  /\ pc' = "drop_corb"
  /\ rirbDma' = Halted(rirbDma)
  /\ UNCHANGED <<corb, corbwp, corbrp, corbDma, rirb, rirbwp, irq, readPos,
                 purpose, cmd, got, nextId, histVars>>

DropCorb ==
  /\ pc = "drop_corb"
  /\ pc' = "drop_wait"
  /\ corbDma' = Halted(corbDma)
  /\ UNCHANGED <<corb, corbwp, corbrp, rirb, rirbwp, rirbDma, irq, readPos,
                 purpose, cmd, got, nextId, histVars>>

DropWait ==
  /\ pc = "drop_wait" /\ Stopped
  /\ pc' = "closed"
  /\ UNCHANGED <<hwVars, readPos, purpose, cmd, got, nextId, histVars>>

(* An access fails or a wait times out: only a warning is printed. *)
DropFails ==
  /\ pc \in DropPc
  /\ pc' = "closed"
  /\ leaked' = TRUE
  /\ UNCHANGED <<hwVars, readPos, purpose, cmd, got, nextId,
                 pending, broken, deaf, result, unsols>>

-----------------------------------------------------------------------------
(* The controller and its codecs (external). *)

RirbStops ==
  /\ rirbDma = "stopping"
  /\ rirbDma' = "off"
  /\ UNCHANGED <<corb, corbwp, corbrp, corbDma, rirb, rirbwp, irq, drvVars, histVars>>

CorbStops ==
  /\ corbDma = "stopping"
  /\ corbDma' = "off"
  /\ UNCHANGED <<corb, corbwp, corbrp, rirb, rirbwp, rirbDma, irq, drvVars, histVars>>

Answered(r) ==
  /\ rirb' = [rirb EXCEPT ![RirbNext(rirbwp)] = r]
  /\ rirbwp' = RirbNext(rirbwp)
  /\ irq' = TRUE

(* Fetch one command and pass it on.  A codec that is there answers in the *)
(* next frame; the answer is lost when the response engine is stopped.     *)
Fetch ==
  /\ corbDma # "off" /\ corbrp # corbwp /\ ~irq
  /\ corbrp' = CorbNext(corbrp)
  /\ pending' = pending - 1
  /\ LET c == corb[CorbNext(corbrp)] IN
       IF c # None /\ rirbDma # "off" /\ c.codec \in Present
         THEN Answered(c.id)
         ELSE UNCHANGED <<rirb, rirbwp, irq>>
  /\ UNCHANGED <<corb, corbwp, corbDma, rirbDma, drvVars, broken, deaf, leaked,
                 result, unsols>>

(* A codec reports an event nobody asked for. *)
Unsolicited ==
  /\ rirbDma # "off" /\ ~irq /\ unsols < MaxUnsolicited
  /\ unsols' = unsols + 1
  /\ Answered(Unsol)
  /\ UNCHANGED <<corb, corbwp, corbrp, corbDma, rirbDma, drvVars,
                 pending, broken, deaf, leaked, result>>

-----------------------------------------------------------------------------
Driver ==
  \/ BusReset
  \/ NewMap \/ NewHalt \/ NewWait \/ NewReset \/ NewRunRirb \/ NewRunCorb \/ NewFails
  \/ Send \/ Doorbell \/ ArmTimer \/ ExecFails
  \/ PollResponse \/ PollNothing \/ Acknowledge \/ AcknowledgeFails
  \/ PollAgain \/ Timeout
  \/ DropRirb \/ DropCorb \/ DropWait \/ DropFails

Controller == RirbStops \/ CorbStops \/ Fetch \/ Unsolicited

Next == Driver \/ Controller

Spec == Init /\ [][Next]_vars

-----------------------------------------------------------------------------
(* Properties. *)

(* An answer is the answer to the command exec() sent, although responses  *)
(* carry no tag and an answer may arrive after its command timed out: new  *)
(* rings forget old answers, and exec() never continues on rings that are  *)
(* out of step, except where a caller ignored an earlier error.            *)
RepliesMatch == result # None => result.broken \/ result.reply = result.id

(* A raised RIRBSTS, which stalls the controller, always comes with a      *)
(* response poll_rirb() has yet to consume, so that polling un-stalls it;  *)
(* unless it was raised before the rings were set up, or a write failed.   *)
RaisedMeansUnread ==
  InSession /\ irq /\ ~deaf => pc = "ack" \/ rirbwp # readPos

(* The engines move only between rings that are mapped, and the bases are  *)
(* programmed only while they stand still: an engine that still runs when  *)
(* no session owns the rings is one whose stopping failed (uninit_io       *)
(* warns), or one that new() started right before it failed.               *)
EnginesOwnRings ==
  corbDma # "off" \/ rirbDma # "off" => InSession \/ pc = "new_run_corb" \/ leaked

(* The commands between CORBRP and CORBWP, oldest first, while the rings   *)
(* are in use.                                                             *)
Waiting ==
  IF ~InSession THEN << >>
  ELSE [k \in 1..((corbwp + CorbSize - corbrp) % CorbSize) |-> corb[(corbrp + k) % CorbSize]]

Queue == INSTANCE CommandQueue WITH Capacity <- CorbSize - 1, queue <- Waiting

(* The ring implements the bounded queue: it holds what send() was given,  *)
(* in that order, until the controller takes it or the rings go; a slot    *)
(* whose command the controller has yet to fetch is not written (the SAFETY*)
(* comment of send()), and a full ring is never taken for an empty one.    *)
RingIsQueue == Queue!QueueSpec

(* Rings that were just set up are not stalled: bus_probe_codecs creates   *)
(* new ones for each codec because the old ones can be broken              *)
(* (main.rs 1137-1139), so the new ones had better not be.                 *)
FreshRingsUnstalled == [][NewRunCorb => ~irq]_vars
=============================================================================
