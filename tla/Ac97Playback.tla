---------------------------- MODULE Ac97Playback ----------------------------
(***************************************************************************)
(* Playback in the AC97 driver: pcm_write with play_samples, pcm_tone with *)
(* loop_samples (efi-pcm-dxe/src/main.rs 626-980), against the PCM OUT DMA *)
(* engine and the device's two timer events.                               *)
(*                                                                         *)
(* The engine works through a cyclic list of BUFFER_COUNT descriptors: it  *)
(* plays the one CIV points at, PICB tells how much of it is left, and it  *)
(* halts after the one LVI points at.  play_samples queues one buffer each *)
(* time it wakes up; loop_samples plays the same two buffers and starts    *)
(* anew when they are played.  Both stop when the playback event is        *)
(* signaled.                                                               *)
(*                                                                         *)
(* The engine and the timers take their steps at any time.  The events     *)
(* belong to the device: what is left of them meets the next call.         *)
(***************************************************************************)
EXTENDS Naturals

CONSTANTS
  BufferSize, BufferCount,  \* BUFFER_SIZE (in samples) and BUFFER_COUNT
  WriteLengths,             \* sample counts passed to pcm_write
  ToneLengths,              \* sample counts wave() returns, at most BUFFER_SIZE
  MaxPlaybacks              \* bound: playbacks in a behaviour

ASSUME ListAssumption ==
  /\ BufferSize \in Nat \ {0, 1} /\ BufferCount \in Nat \ {0, 1}
  /\ WriteLengths \subseteq Nat /\ ToneLengths \subseteq 0..BufferSize
  /\ MaxPlaybacks \in Nat

VARIABLES
  (* the engine *)
  run,         \* the run bit of CONTROL_PCM_OUT
  halted,      \* STATUS.DCH
  civ, lvi,
  left,        \* PICB
  list,        \* descriptor -> its length and the offset of its samples
  (* the two timer events *)
  playArmed, playSet,
  picbArmed, picbSet,
  (* the driver *)
  pc,
  mode,        \* pcm_write or pcm_tone
  len,         \* number of samples
  head,        \* queue_head
  offset,      \* total_offset
  civSeen, low,     \* CIV as it was read, and whether PICB was below a frame
  (* history *)
  heard,       \* buffers the engine has begun to play since its reset
  queued,      \* buffers queued since
  lost,        \* a write of LVI failed, which play_samples ignores
  expired,     \* the playback timer of this call has expired
  status,      \* how the last call ended
  playbacks    \* calls so far

engineVars == <<run, halted, civ, lvi, left>>
timerVars  == <<playArmed, playSet, picbArmed, picbSet>>
queueVars  == <<head, offset, queued, lost>>
seenVars   == <<civSeen, low>>
callVars   == <<mode, len, status, playbacks>>
vars == <<engineVars, list, timerVars, pc, queueVars, seenVars, callVars, heard, expired>>

Index == 0..BufferCount-1
Empty == [len |-> 0, at |-> 0]

(* A step that is a register access followed by a `?`, or a wait.          *)
FailingPc == {"reset", "arm", "civ", "picb", "run", "underrun", "wait",
              "tone_picb", "tone_civ", "tone_reset", "stop"}
Busy == pc # "idle"

TypeOK ==
  /\ run \in BOOLEAN /\ halted \in BOOLEAN /\ civ \in Index /\ lvi \in Index
  /\ left \in 0..BufferSize
  /\ list \in [Index -> [len : 0..BufferSize, at : Nat]]
  /\ playArmed \in BOOLEAN /\ playSet \in BOOLEAN
  /\ picbArmed \in BOOLEAN /\ picbSet \in BOOLEAN
  /\ pc \in {"idle", "queue", "lvi", "check"} \cup FailingPc
  /\ mode \in {"write", "tone"} /\ len \in Nat
  /\ head \in Index /\ offset \in 0..len /\ queued \in Nat /\ lost \in BOOLEAN
  /\ civSeen \in Index /\ low \in BOOLEAN
  /\ heard \in Nat /\ expired \in BOOLEAN
  /\ status \in {"none", "success", "error"} /\ playbacks \in Nat

Init ==
  /\ run = FALSE /\ halted = TRUE /\ civ = 0 /\ lvi = 0 /\ left = 0
  /\ list = [i \in Index |-> Empty]
  /\ playArmed = FALSE /\ playSet = FALSE /\ picbArmed = FALSE /\ picbSet = FALSE
  /\ pc = "idle" /\ mode = "write" /\ len = 0
  /\ head = 1 /\ offset = 0 /\ queued = 0 /\ lost = FALSE
  /\ civSeen = 0 /\ low = FALSE
  /\ heard = 0 /\ expired = FALSE /\ status = "none" /\ playbacks = 0
-----------------------------------------------------------------------------
(* The registers (external). *)

(* The reset bit clears the run bit and puts the list registers back. *)
Cleared == run' = FALSE /\ halted' = TRUE /\ civ' = 0 /\ lvi' = 0 /\ left' = 0

(* The engine takes up descriptor i; an empty one is not heard. *)
Load(i) ==
  /\ left' = list[i].len
  /\ heard' = IF list[i].len > 0 THEN heard + 1 ELSE heard

(* LVI is moved: an engine that was halted at the old one goes on. *)
MoveLvi(i) ==
  /\ lvi' = i
  /\ halted' = (halted /\ ~run)

(* The run bit is set: nothing happens if it is set already. *)
SetRun ==
  IF run
    THEN UNCHANGED <<engineVars, heard>>
    ELSE run' = TRUE /\ halted' = FALSE /\ Load(civ) /\ UNCHANGED <<civ, lvi>>
-----------------------------------------------------------------------------
(* pcm_write and pcm_tone up to the loop *)

(* copy_samples_to_buffer: what is left, as far as it fits; the length in  *)
(* the descriptor is one less, and a rest of one sample is not scheduled.  *)
Copied(from) == IF len - from < BufferSize THEN len - from ELSE BufferSize

Filled(n, from) == IF n > 1 THEN [len |-> n - 1, at |-> from] ELSE Empty

(* The buffers are mapped and init_bdl empties the list; loop_samples      *)
(* fills the first two descriptors.                                        *)
BeginWrite ==
  /\ pc = "idle" /\ playbacks < MaxPlaybacks
  /\ mode' = "write" /\ len' \in WriteLengths
  /\ list' = [i \in Index |-> Empty]
  /\ offset' = 0
  /\ pc' = "reset" /\ status' = "none" /\ playbacks' = playbacks + 1
  /\ UNCHANGED <<engineVars, timerVars, head, queued, lost, seenVars, heard, expired>>

BeginTone ==
  /\ pc = "idle" /\ playbacks < MaxPlaybacks
  /\ mode' = "tone" /\ len' \in ToneLengths
  /\ list' = [i \in Index |-> IF i \in {0, 1} THEN Filled(len', 0) ELSE Empty]
  /\ offset' = 0
  /\ pc' = "reset" /\ status' = "none" /\ playbacks' = playbacks + 1
  /\ UNCHANGED <<engineVars, timerVars, head, queued, lost, seenVars, heard, expired>>

(* Reset the engine and set the list's base; loop_samples sets LVI, too.   *)
Reset ==
  /\ pc = "reset"
  /\ run' = FALSE /\ halted' = TRUE /\ civ' = 0 /\ left' = 0
  /\ lvi' = IF mode = "tone" THEN 1 ELSE 0
  /\ head' = 1 /\ offset' = 0 /\ queued' = 0 /\ lost' = FALSE
  /\ heard' = 0
  /\ pc' = "arm"
  /\ UNCHANGED <<list, timerVars, seenVars, callVars, expired>>

(* Set both timers.  This ends an earlier timer of the same event, but the *)
(* event stays signaled if it is.                                          *)
Arm ==
  /\ pc = "arm"
  /\ playArmed' = TRUE /\ picbArmed' = TRUE
  /\ expired' = FALSE
  /\ pc' = IF mode = "write" THEN "civ" ELSE "tone_picb"
  /\ UNCHANGED <<engineVars, list, playSet, picbSet, queueVars, seenVars, callVars, heard>>
-----------------------------------------------------------------------------
(* The loop of play_samples *)

ReadCiv ==
  /\ pc = "civ"
  /\ civSeen' = civ
  /\ pc' = "queue"
  /\ UNCHANGED <<engineVars, list, timerVars, queueVars, low, callVars, heard, expired>>

NextHeadUnwrapped(i) == i + 1           \* mutant of NextHead: no wrap
NextHead(i) == IF i + 1 >= BufferCount THEN 0 ELSE i + 1

TakenLength(n) == n - 1                 \* mutant of Taken: the descriptor's length
Taken(n) == n

QueueAlways ==                          \* mutant of Queue: CIV is not looked at
  /\ pc = "queue"
  /\ LET n == Copied(offset) IN
       /\ list' = [list EXCEPT ![head] = Filled(n, offset)]
       /\ IF n > 1
            THEN /\ offset' = offset + Taken(n) /\ queued' = queued + 1
                 /\ pc' = "lvi"
            ELSE pc' = "picb" /\ UNCHANGED <<offset, queued>>
  /\ UNCHANGED <<engineVars, timerVars, head, lost, seenVars, callVars, heard, expired>>

(* Copy one buffer's worth into the descriptor at queue_head, unless the   *)
(* engine was seen there; the descriptor is emptied when nothing is left.  *)
Queue ==
  /\ pc = "queue"
  /\ LET n == Copied(offset) IN
       IF head = civSeen
         THEN pc' = "picb" /\ UNCHANGED <<list, offset, queued>>
         ELSE /\ list' = [list EXCEPT ![head] = Filled(n, offset)]
              /\ IF n > 1
                   THEN /\ offset' = offset + Taken(n) /\ queued' = queued + 1
                        /\ pc' = "lvi"
                   ELSE pc' = "picb" /\ UNCHANGED <<offset, queued>>
  /\ UNCHANGED <<engineVars, timerVars, head, lost, seenVars, callVars, heard, expired>>

(* ... and tell the engine. *)
WriteLvi ==
  /\ pc = "lvi"
  /\ MoveLvi(head)
  /\ head' = NextHead(head)
  /\ pc' = "picb"
  /\ UNCHANGED <<run, civ, left, list, timerVars, offset, queued, lost, seenVars,
                 callVars, heard, expired>>

LviLost ==
  /\ pc = "lvi"
  /\ lost' = TRUE
  /\ head' = NextHead(head)
  /\ pc' = "picb"
  /\ UNCHANGED <<engineVars, list, timerVars, offset, queued, seenVars,
                 callVars, heard, expired>>

(* PICB is less than a frame. *)
LowAlways == TRUE                       \* mutant of Low: PICB is not looked at
Low == left < 2

ReadPicb ==
  /\ pc = "picb"
  /\ pc' = IF Low THEN "check" ELSE "wait"
  /\ UNCHANGED <<engineVars, list, timerVars, queueVars, seenVars, callVars, heard, expired>>

(* check_event: if the playback time has passed, leave, ... *)
Check ==
  /\ pc = "check"
  /\ playSet' = FALSE
  /\ pc' = IF playSet THEN "stop" ELSE "run"
  /\ UNCHANGED <<engineVars, list, playArmed, picbArmed, picbSet, queueVars, seenVars,
                 callVars, heard, expired>>

(* ... otherwise make sure that the engine runs. *)
Run ==
  /\ pc = "run"
  /\ SetRun
  /\ pc' = IF mode = "write" THEN "underrun" ELSE "wait"
  /\ UNCHANGED <<list, timerVars, queueVars, seenVars, callVars, expired>>

(* LVI is where CIV was read at the start of the turn: leave. *)
Underrun ==
  /\ pc = "underrun" /\ lvi = civSeen
  /\ pc' = "stop"
  /\ UNCHANGED <<engineVars, list, timerVars, queueVars, seenVars, callVars, heard, expired>>

NoUnderrun ==
  /\ pc = "underrun" /\ lvi # civSeen
  /\ pc' = "wait"
  /\ UNCHANGED <<engineVars, list, timerVars, queueVars, seenVars, callVars, heard, expired>>

(* wait_for_event looks at the playback event first.                       *)
SignaledPicbFirst ==                    \* mutant of Signaled: the order swapped
  IF picbSet THEN "picb" ELSE IF playSet THEN "playback" ELSE "none"
Signaled ==
  IF playSet THEN "playback" ELSE IF picbSet THEN "picb" ELSE "none"

WaitPlayback ==
  /\ pc = "wait" /\ Signaled = "playback"
  /\ playSet' = FALSE
  /\ pc' = "stop"
  /\ UNCHANGED <<engineVars, list, playArmed, picbArmed, picbSet, queueVars, seenVars,
                 callVars, heard, expired>>

WaitPicb ==
  /\ pc = "wait" /\ Signaled = "picb"
  /\ picbSet' = FALSE
  /\ pc' = IF mode = "write" THEN "civ" ELSE "tone_picb"
  /\ UNCHANGED <<engineVars, list, playArmed, playSet, picbArmed, queueVars, seenVars,
                 callVars, heard, expired>>
-----------------------------------------------------------------------------
(* The loop of loop_samples: PICB is read first, then CIV. *)

ToneReadPicb ==
  /\ pc = "tone_picb"
  /\ low' = Low
  /\ pc' = "tone_civ"
  /\ UNCHANGED <<engineVars, list, timerVars, queueVars, civSeen, callVars, heard, expired>>

ToneReadCiv ==
  /\ pc = "tone_civ"
  /\ civSeen' = civ
  /\ pc' = IF ~low THEN "wait" ELSE IF civ >= 1 THEN "tone_reset" ELSE "run"
  /\ UNCHANGED <<engineVars, list, timerVars, queueVars, low, callVars, heard, expired>>

(* Reset the engine, set the list's base and LVI again. *)
ToneReset ==
  /\ pc = "tone_reset"
  /\ run' = FALSE /\ halted' = TRUE /\ civ' = 0 /\ left' = 0 /\ lvi' = 1
  /\ heard' = 0
  /\ pc' = "run"
  /\ UNCHANGED <<list, timerVars, queueVars, seenVars, callVars, expired>>

(* loop_samples ignores it when the run bit cannot be set. *)
ToneRunLost ==
  /\ pc = "run" /\ mode = "tone"
  /\ pc' = "wait"
  /\ UNCHANGED <<engineVars, list, timerVars, queueVars, seenVars, callVars, heard, expired>>
-----------------------------------------------------------------------------
(* The end of the call *)

(* stop_playback.  Neither timer is cancelled. *)
Stop ==
  /\ pc = "stop"
  /\ Cleared
  /\ pc' = "idle" /\ status' = "success"
  /\ UNCHANGED <<list, timerVars, queueVars, seenVars, mode, len, playbacks, heard, expired>>

(* An access fails, or a wait for the reset times out: an early return,    *)
(* which leaves the engine and the timers as they are.                     *)
Fails ==
  /\ pc \in FailingPc
  /\ mode = "tone" => pc # "run"
  /\ pc' = "idle" /\ status' = "error"
  /\ \/ UNCHANGED engineVars
     \/ pc \in {"reset", "tone_reset", "stop"} /\ Cleared
  /\ playArmed' \in (IF pc = "arm" THEN {playArmed, TRUE} ELSE {playArmed})
  /\ UNCHANGED <<list, playSet, picbArmed, picbSet, queueVars, seenVars, mode, len, playbacks,
                 heard, expired>>
-----------------------------------------------------------------------------
(* The engine and the timers (external). *)

PlayFrame ==
  /\ run /\ ~halted /\ left > 0
  /\ left' = IF left <= 2 THEN 0 ELSE left - 2
  /\ UNCHANGED <<run, halted, civ, lvi, list, timerVars, pc, queueVars, seenVars, callVars,
                 heard, expired>>

(* The descriptor is played: the next one, or a halt after the last one. *)
NextDescriptor ==
  /\ run /\ ~halted /\ left = 0
  /\ IF civ = lvi
       THEN halted' = TRUE /\ UNCHANGED <<civ, left, heard>>
       ELSE /\ civ' = (civ + 1) % BufferCount
            /\ Load(civ')
            /\ UNCHANGED halted
  /\ UNCHANGED <<run, lvi, list, timerVars, pc, queueVars, seenVars, callVars, expired>>

PlayTimer ==
  /\ playArmed
  /\ playArmed' = FALSE /\ playSet' = TRUE /\ expired' = TRUE
  /\ UNCHANGED <<engineVars, list, picbArmed, picbSet, pc, queueVars, seenVars, callVars, heard>>

PicbTimer ==
  /\ picbArmed /\ ~picbSet
  /\ picbSet' = TRUE
  /\ UNCHANGED <<engineVars, list, playArmed, playSet, picbArmed, pc, queueVars, seenVars,
                 callVars, heard, expired>>

Driver ==
  \/ BeginWrite \/ BeginTone \/ Reset \/ Arm
  \/ ReadCiv \/ Queue \/ WriteLvi \/ LviLost \/ ReadPicb \/ Check \/ Run
  \/ Underrun \/ NoUnderrun \/ WaitPlayback \/ WaitPicb
  \/ ToneReadPicb \/ ToneReadCiv \/ ToneReset \/ ToneRunLost
  \/ Stop \/ Fails

Next == Driver \/ PlayFrame \/ NextDescriptor \/ PlayTimer \/ PicbTimer

Spec == Init /\ [][Next]_vars

(* The firmware runs the driver, and an armed timer expires.  Nothing is   *)
(* assumed of the engine.                                                  *)
FairSpec == Spec /\ WF_vars(Driver) /\ WF_vars(PlayTimer)
-----------------------------------------------------------------------------
(* Properties. *)

Writing == mode = "write" /\ pc \notin {"idle", "reset"}

(* The engine plays the caller's buffers one after the other, without      *)
(* leaving one out or playing one again, although the driver knows where   *)
(* it is only by an earlier reading of CIV, and the list wraps.            *)
InOrder == Writing /\ left > 0 => list[civ].at = (heard - 1) * BufferSize

(* What a client of pcm_write hears: from the first buffer that is taken   *)
(* up until the call ends.                                                 *)
Phase == IF ~Writing THEN "none" ELSE IF heard = 0 THEN "called" ELSE "playing"

Total == IF Phase = "none" THEN 0 ELSE len
Heard == IF Phase = "playing" THEN list[civ].at ELSE 0
Count == IF Phase = "playing" THEN heard - 1 ELSE 0

Output == INSTANCE AudioOutput
            WITH Block <- BufferSize, Cyclic <- FALSE,
                 phase <- Phase, total <- Total, heard <- Heard, count <- Count

(* The caller hears its samples buffer by buffer, each one once, from the  *)
(* first on, although the driver knows where the engine is only by an      *)
(* earlier reading of CIV, and the list wraps; the list does not show.     *)
PlaysInOrder == Output!OutputSpec

(* The descriptors from CIV to LVI, which the engine may be playing.       *)
Announced == {(civ + k) % BufferCount : k \in 0..((lvi + BufferCount - civ) % BufferCount)}

(* play_samples never touches a descriptor the engine may still play.      *)
QueuedIntact == [][Writing => \A i \in Announced : list'[i] = list[i]]_vars

(* The loop ends for underrun only when all samples were queued and all    *)
(* that was queued has been played, although CIV, PICB and LVI are read at *)
(* different times (a rest of a single sample is never queued).            *)
UnderrunDrained ==
  [][Underrun /\ ~lost => heard = queued /\ left < 2 /\ len - offset < 2]_vars

(* Every call returns. *)
PlaybackEnds == Busy ~> ~Busy

(* A call that is ended by the playback event is ended by its own timer    *)
(* ("We use a timer event to stop the playback", main.rs 682).             *)
EndedByOwnTimer == [][WaitPlayback \/ (Check /\ playSet) => expired]_vars
=============================================================================
