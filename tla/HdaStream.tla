------------------------------ MODULE HdaStream ------------------------------
(***************************************************************************)
(* Playback in the HDA driver: stream_play_loop, stream_loop and           *)
(* Loop::transfer (efi-hda-dxe/src/main.rs 1830-2108, 2276-2296) against   *)
(* the output stream's DMA engine and the firmware's two timers.           *)
(*                                                                         *)
(* BUFFER_COUNT buffers of BUFFER_SIZE samples form a cyclic buffer.  The  *)
(* driver fills all of it, starts the engine, and from then on wakes up on *)
(* a periodic timer, asks the engine for its position (LPIB) and refills   *)
(* the whole buffers that position has left behind, until a second timer   *)
(* tells that the playback time has passed.                                *)
(*                                                                         *)
(* Time is counted in samples: one Tick is the time the engine takes to    *)
(* play one.  LPIB, a byte offset in the code, is a slot number here.      *)
(***************************************************************************)
EXTENDS Integers

CONSTANTS
  BufferSize, BufferCount,  \* BUFFER_SIZE (in samples) and BUFFER_COUNT
  SamplesPerMs,             \* channels * rate / 1000
  SamplesPerSecond,         \* channels * rate
  WriteLengths,             \* sample counts passed to hda_write
  ToneLengths, ToneTimes,   \* sample counts wave() returns, and durations in ms
  StartGap,                 \* most samples from arming the timers to reading LPIB
  Latency,                  \* most samples from a wake-up to the end of the refill
  LpibRestarts,             \* does the engine start from 0 when RUN is set again?
  MaxPlaybacks              \* bound: playbacks in a behaviour

Ring == BufferSize * BufferCount
Slot == 0..Ring-1

(* hda_write() and hda_tone(): what is played and for how long.            *)
Requests ==
  {[len |-> n, time |-> (n \div SamplesPerMs) * SamplesPerMs] : n \in WriteLengths}
    \cup {[len |-> n, time |-> ms * SamplesPerMs] : n \in ToneLengths, ms \in ToneTimes}

(* The period of the trace timer: the playback time in seconds, passed as  *)
(* milliseconds; a timer of period 0 fires on every tick.                  *)
TracePeriod(len) ==
  LET delay == (len \div SamplesPerSecond) * SamplesPerMs
  IN  IF delay = 0 THEN 1 ELSE delay

(* The most samples that are played between two refills.                   *)
Gap(len) == TracePeriod(len) + Latency

ASSUME StreamAssumption ==
  /\ BufferSize \in Nat \ {0} /\ BufferCount \in Nat \ {0}
  /\ SamplesPerMs \in Nat \ {0} /\ SamplesPerSecond \in Nat \ {0}
  /\ WriteLengths \subseteq Nat \ {0} /\ ToneLengths \subseteq Nat \ {0}
  /\ ToneTimes \subseteq Nat
  /\ StartGap \in Nat /\ Latency \in Nat /\ MaxPlaybacks \in Nat
  /\ LpibRestarts \in BOOLEAN

(* The refills come in time: a buffer's worth is left when the next one    *)
(* is complete.  The driver does nothing to ensure this; the period grows  *)
(* with the length of the samples.                                         *)
ASSUME TimelyAssumption ==
  \A r \in Requests : StartGap + Gap(r.len) <= Ring - BufferSize

VARIABLES
  (* the stream's engine *)
  running,     \* SDCTL.RUN
  lpib,        \* the slot it plays next
  mem,         \* slot -> position in the caller's samples
  fresh,       \* slots written and not played yet
  (* the two timer events *)
  traceLeft, traceSet,
  timeLeft, playSet,
  (* the driver *)
  pc,
  mapped,      \* the buffers are mapped for DMA
  req,         \* what is being played
  bdlPos,      \* bdl_position
  samplesPos,  \* samples_position
  startLpib, actualLpib, queueRoom, room,
  copied,      \* samples copied by the current transfer
  (* history *)
  written, played,   \* samples copied, and played, in this playback
  lag,         \* samples played before the driver first read LPIB
  age,         \* ticks since the LPIB read of the last completed refill
  readAge,     \* ticks since the last LPIB read
  faults,      \* failures since the engine was last known to be stopped
  status,      \* how the last playback ended
  playbacks    \* playbacks so far

engineVars == <<running, lpib, mem, fresh>>
timerVars  == <<traceLeft, traceSet, timeLeft, playSet>>
loopVars   == <<bdlPos, samplesPos, startLpib, actualLpib, queueRoom, room, copied>>
ageVars    == <<age, readAge>>
vars == <<engineVars, timerVars, loopVars, ageVars, pc, mapped, req,
          written, played, lag, faults, status, playbacks>>

LoopPc == {"poll", "fill", "wait"}
Busy   == pc \notin {"idle", "dead"}

TypeOK ==
  /\ running \in BOOLEAN /\ lpib \in Slot
  /\ mem \in [Slot -> Nat] /\ fresh \subseteq Slot
  /\ traceLeft \in Nat /\ traceSet \in BOOLEAN
  /\ timeLeft \in Nat /\ playSet \in BOOLEAN
  /\ pc \in {"idle", "setup", "prefill", "arm", "start", "start_lpib", "stop", "cleanup",
             "abort", "dead"} \cup LoopPc
  /\ mapped \in BOOLEAN /\ req \in Requests
  /\ bdlPos \in 0..BufferCount-1 /\ samplesPos \in 0..req.len-1
  /\ startLpib \in Slot /\ actualLpib \in Slot
  /\ queueRoom \in 0..BufferSize-1 /\ room \in Nat /\ copied \in Nat
  /\ written \in Nat /\ played \in Nat /\ lag \in Nat /\ age \in Nat /\ readAge \in Nat
  /\ faults \subseteq {"start", "loop", "stop"} /\ status \in {"none", "success", "error"}
  /\ playbacks \in Nat

Init ==
  /\ running = FALSE /\ lpib = 0 /\ mem = [s \in Slot |-> 0] /\ fresh = {}
  /\ traceLeft = 0 /\ traceSet = FALSE /\ timeLeft = 0 /\ playSet = FALSE
  /\ pc = "idle" /\ mapped = FALSE /\ req \in Requests
  /\ bdlPos = 0 /\ samplesPos = 0 /\ startLpib = 0 /\ actualLpib = 0
  /\ queueRoom = 0 /\ room = 0 /\ copied = 0
  /\ written = 0 /\ played = 0 /\ lag = 0 /\ age = 0 /\ readAge = 0
  /\ faults = {} /\ status = "none" /\ playbacks = 0
-----------------------------------------------------------------------------
(* stream_play_loop up to stream_loop *)

(* hda_write or hda_tone is called; the buffers are mapped.  Everything    *)
(* but the engine's own state and its failures is local to the call.       *)
Begin ==
  /\ pc = "idle" /\ playbacks < MaxPlaybacks
  /\ pc' = "setup"
  /\ mapped' = TRUE
  /\ req' \in Requests
  /\ mem' = [s \in Slot |-> 0] /\ fresh' = {}
  /\ bdlPos' = 0 /\ samplesPos' = 0 /\ copied' = 0
  /\ startLpib' = 0 /\ actualLpib' = 0 /\ queueRoom' = 0 /\ room' = 0
  /\ traceLeft' = 0 /\ traceSet' = FALSE /\ timeLeft' = 0 /\ playSet' = FALSE
  /\ written' = 0 /\ played' = 0 /\ lag' = 0 /\ age' = 0 /\ readAge' = 0
  /\ faults' = (IF running THEN faults ELSE {})
  /\ status' = "none"
  /\ playbacks' = playbacks + 1
  /\ UNCHANGED <<running, lpib>>

(* codec_setup_stream and stream_setup program the codec and the engine. *)
Setup ==
  /\ pc = "setup"
  /\ pc' = "prefill"
  /\ UNCHANGED <<engineVars, timerVars, loopVars, ageVars, mapped, req,
                 written, played, lag, faults, status, playbacks>>

(* ... or one of them fails: an early return, with no stream_cleanup. *)
SetupFails ==
  /\ pc = "setup"
  /\ pc' = "idle" /\ mapped' = FALSE /\ status' = "error"
  /\ UNCHANGED <<engineVars, timerVars, loopVars, ageVars, req,
                 written, played, lag, faults, playbacks>>

-----------------------------------------------------------------------------
(* Loop::transfer, one buffer at a time. *)

BufferSlots(b) == (b * BufferSize)..(b * BufferSize + BufferSize - 1)

(* Where the next buffer starts, in the list and in the samples. *)
NextBufferUnwrapped(b) == b + 1              \* mutant of NextBuffer
NextBuffer(b) == (b + 1) % BufferCount
NextSampleRestarts(p) ==                     \* mutant of NextSample: no remainder
  IF p + BufferSize >= req.len THEN 0 ELSE p + BufferSize
NextSample(p) == (p + BufferSize) % req.len

(* fill_bde: cycle through the samples and fill the entire buffer. *)
FillBuffer ==
  /\ mem' = [s \in Slot |-> IF s \in BufferSlots(bdlPos)
                              THEN (samplesPos + s - bdlPos * BufferSize) % req.len
                              ELSE mem[s]]
  /\ fresh' = fresh \cup BufferSlots(bdlPos)
  /\ samplesPos' = NextSample(samplesPos)
  /\ bdlPos' = NextBuffer(bdlPos)
  /\ copied' = copied + BufferSize
  /\ written' = written + BufferSize

(* transfer(BUFFER_COUNT * BUFFER_SIZE) before the engine is started. *)
Prefill ==
  /\ pc = "prefill"
  /\ FillBuffer
  /\ pc' = IF copied' = Ring THEN "arm" ELSE "prefill"
  /\ UNCHANGED <<running, lpib, timerVars, startLpib, actualLpib, queueRoom, room,
                 ageVars, mapped, req, played, lag, faults, status, playbacks>>

-----------------------------------------------------------------------------
(* stream_loop *)

Arm ==
  /\ pc = "arm"
  /\ pc' = "start"
  /\ timeLeft' = req.time /\ playSet' = FALSE
  /\ traceLeft' = TracePeriod(req.len) /\ traceSet' = FALSE
  /\ age' = 0
  /\ UNCHANGED <<engineVars, loopVars, readAge, mapped, req,
                 written, played, lag, faults, status, playbacks>>

(* stream_start sets RUN; its result is ignored, so that a FIFO that does  *)
(* not become ready in time makes no difference.                           *)
Start ==
  /\ pc = "start"
  /\ pc' = "start_lpib"
  /\ running' = TRUE
  /\ lpib' = IF LpibRestarts /\ ~running THEN 0 ELSE lpib
  /\ UNCHANGED <<mem, fresh, timerVars, loopVars, ageVars, mapped, req,
                 written, played, lag, faults, status, playbacks>>

(* ... and neither does a register that cannot be written before RUN is.   *)
StartFails ==
  /\ pc = "start"
  /\ pc' = "start_lpib"
  /\ faults' = faults \cup {"start"}
  /\ UNCHANGED <<engineVars, timerVars, loopVars, ageVars, mapped, req,
                 written, played, lag, status, playbacks>>

ReadStart ==
  /\ pc = "start_lpib"
  /\ pc' = "poll"
  /\ startLpib' = lpib
  /\ queueRoom' = 0
  /\ age' = 0 /\ readAge' = 0
  /\ lag' = played
  /\ UNCHANGED <<engineVars, timerVars, bdlPos, samplesPos, actualLpib, room, copied,
                 mapped, req, written, played, faults, status, playbacks>>

(* How far the engine has come from one LPIB to a later one. *)
AdvanceUnwrapped(from, to) ==                \* mutant of Advance: a wrap is no advance
  IF from <= to THEN to - from ELSE 0
Advance(from, to) == IF from <= to THEN to - from ELSE Ring + to - from

(* Read LPIB and add what was played to the room left over. *)
Poll ==
  /\ pc = "poll"
  /\ actualLpib' = lpib
  /\ room' = queueRoom + Advance(startLpib, lpib)
  /\ copied' = 0
  /\ readAge' = 0
  /\ IF room' >= BufferSize
       THEN pc' = "fill" /\ UNCHANGED age
       ELSE pc' = "wait" /\ age' = 0
  /\ UNCHANGED <<engineVars, timerVars, bdlPos, samplesPos, startLpib, queueRoom,
                 mapped, req, written, played, lag, faults, status, playbacks>>

(* The samples to copy: a whole number of buffers. *)
WholeBuffersUp(n) == n - (n % BufferSize) + BufferSize    \* mutant: rounded up
WholeBuffers(n) == n - (n % BufferSize)

(* Refill the whole buffers that fit in the room. *)
Refill ==
  /\ pc = "fill"
  /\ FillBuffer
  /\ IF copied' = WholeBuffers(room)
       THEN /\ pc' = "wait"
            /\ queueRoom' = room - copied'
            /\ startLpib' = actualLpib
            /\ age' = readAge
       ELSE UNCHANGED <<pc, queueRoom, startLpib, age>>
  /\ UNCHANGED <<running, lpib, timerVars, actualLpib, room, readAge,
                 mapped, req, played, lag, faults, status, playbacks>>

(* wait_for_event looks at the playback event first ("Playback event must  *)
(* be placed first so that it would be checked first").                    *)
SignaledTraceFirst ==                        \* mutant of Signaled: the order swapped
  IF traceSet THEN "trace" ELSE IF playSet THEN "playback" ELSE "none"
SignaledAny ==                               \* mutant of Signaled: the index is not looked at
  IF playSet \/ traceSet THEN "playback" ELSE "none"
Signaled ==
  IF playSet THEN "playback" ELSE IF traceSet THEN "trace" ELSE "none"

WaitPlayback ==
  /\ pc = "wait" /\ Signaled = "playback"
  /\ pc' = "stop"
  /\ playSet' = FALSE
  /\ UNCHANGED <<engineVars, traceLeft, traceSet, timeLeft, loopVars, ageVars, mapped, req,
                 written, played, lag, faults, status, playbacks>>

WaitTrace ==
  /\ pc = "wait" /\ Signaled = "trace"
  /\ pc' = "poll"
  /\ traceSet' = FALSE
  /\ UNCHANGED <<engineVars, traceLeft, timeLeft, playSet, loopVars, ageVars, mapped, req,
                 written, played, lag, faults, status, playbacks>>

(* A timer cannot be set, LPIB cannot be read, or wait_for_event refuses   *)
(* (it is only available at TPL_APPLICATION): stream_loop returns at once. *)
LoopFails ==
  /\ pc \in {"arm", "start_lpib", "poll", "wait"}
  /\ pc' = "abort"
  /\ faults' = faults \cup {"loop"}
  /\ UNCHANGED <<engineVars, timerVars, loopVars, ageVars, mapped, req,
                 written, played, lag, status, playbacks>>

(* Mutant of Stop: RUN is not cleared. *)
StopKeepsRun ==
  /\ pc = "stop"
  /\ pc' = "cleanup"
  /\ UNCHANGED <<engineVars, timerVars, loopVars, ageVars, mapped, req,
                 written, played, lag, faults, status, playbacks>>

(* stream_stop clears RUN and waits for it. *)
Stop ==
  /\ pc = "stop"
  /\ pc' = "cleanup"
  /\ running' = FALSE
  /\ UNCHANGED <<lpib, mem, fresh, timerVars, loopVars, ageVars, mapped, req,
                 written, played, lag, faults, status, playbacks>>

(* ... or fails, which is ignored. *)
StopFails ==
  /\ pc = "stop"
  /\ pc' = "cleanup"
  /\ faults' = faults \cup {"stop"}
  /\ UNCHANGED <<engineVars, timerVars, loopVars, ageVars, mapped, req,
                 written, played, lag, status, playbacks>>

-----------------------------------------------------------------------------
(* stream_cleanup, which leaves RUN as it is, and the end of               *)
(* stream_play_loop, which unmaps the buffers.                             *)

Cleanup ==
  /\ pc \in {"cleanup", "abort"}
  /\ pc' = "idle" /\ mapped' = FALSE
  /\ status' \in (IF pc = "cleanup" THEN {"success", "error"} ELSE {"error"})
  /\ UNCHANGED <<engineVars, timerVars, loopVars, ageVars, req,
                 written, played, lag, faults, playbacks>>

(* A second failure on the error path is a panic. *)
Panic ==
  /\ pc = "abort"
  /\ pc' = "dead"
  /\ UNCHANGED <<engineVars, timerVars, loopVars, ageVars, mapped, req,
                 written, played, lag, faults, status, playbacks>>

-----------------------------------------------------------------------------
(* Time passes: the engine plays a sample and the timers run (external).   *)

MayPass ==
  \/ pc \in {"start", "start_lpib"} /\ age < StartGap
  \/ pc \in LoopPc \cup {"stop"} /\ age < Gap(req.len)

Tick ==
  /\ MayPass
  /\ age' = age + 1 /\ readAge' = readAge + 1
  /\ timeLeft' = IF timeLeft = 0 THEN 0 ELSE timeLeft - 1
  /\ playSet' = (playSet \/ timeLeft <= 1)
  /\ traceLeft' = IF traceLeft <= 1 THEN TracePeriod(req.len) ELSE traceLeft - 1
  /\ traceSet' = (traceSet \/ traceLeft <= 1)
  /\ IF running
       THEN /\ lpib' = (lpib + 1) % Ring
            /\ fresh' = fresh \ {lpib}
            /\ played' = played + 1
       ELSE UNCHANGED <<lpib, fresh, played>>
  /\ UNCHANGED <<running, mem, loopVars, pc, mapped, req, written, lag, faults, status, playbacks>>

Driver ==
  \/ Begin \/ Setup \/ SetupFails \/ Prefill \/ Arm \/ Start \/ StartFails \/ ReadStart
  \/ Poll \/ Refill \/ WaitPlayback \/ WaitTrace \/ LoopFails \/ Stop \/ StopFails
  \/ Cleanup \/ Panic

Next == Driver \/ Tick

Spec == Init /\ [][Next]_vars

(* Time passes, and the firmware runs the driver.                          *)
FairSpec == Spec /\ WF_vars(Tick) /\ WF_vars(Driver)

-----------------------------------------------------------------------------
(* Properties. *)

(* The engine never plays a slot it has played before: every refill comes  *)
(* before the engine gets there, although the driver learns the engine's   *)
(* position only modulo the ring.                                          *)
NoUnderrun == running /\ faults = {} => lpib \in fresh

(* The engine plays the caller's samples in order, over and over, across   *)
(* the wraps of the buffers, of the ring and of the samples.               *)
InOrder == running /\ faults = {} => mem[lpib] = played % req.len

(* What a client hears of its call: nothing before the engine runs, and    *)
(* nothing it can rely on after a failure or while an engine that could    *)
(* not be stopped plays on.                                                *)
Phase ==
  IF pc \in {"idle", "cleanup", "abort", "dead"} \/ faults # {} THEN "none"
  ELSE IF running THEN "playing" ELSE "called"

Total == IF Phase = "none" THEN 0 ELSE req.len
Heard == IF Phase = "playing" THEN mem[lpib] ELSE 0
Count == IF Phase = "playing" THEN played ELSE 0

Output == INSTANCE AudioOutput
            WITH Block <- 1, Cyclic <- TRUE,
                 phase <- Phase, total <- Total, heard <- Heard, count <- Count

(* The caller hears its samples one by one, from the first on and over and *)
(* over, across the wraps of the buffers, of the ring and of the samples,  *)
(* and of every call anew; the ring and its refills do not show.           *)
PlaysInOrder == Output!OutputSpec

(* A refill only overwrites samples that have been played: the room it     *)
(* fills is "ready to be utilized" (comment in stream_loop).               *)
RefillsPlayed == pc = "fill" /\ faults = {} => BufferSlots(bdlPos) \cap fresh = {}

(* Unmapped buffers are not being played, unless the driver left through a *)
(* failure of the loop or of stream_stop.                                  *)
EngineOwnsBuffers == running => mapped \/ faults \cap {"loop", "stop"} # {}

(* When a playback succeeds, what it failed to play is no more than what   *)
(* passed between arming the timers and the start of the engine, whatever  *)
(* an earlier call left behind and whether or not stopping failed.  The    *)
(* exception is stream_start, whose result is dropped (main.rs 1949): when *)
(* RUN could not be set the call waits for its time and succeeds all the   *)
(* same, with nothing played.                                              *)
PlayedInFull ==
  pc = "idle" /\ status = "success" /\ "start" \notin faults => req.time - played <= StartGap

(* Every playback ends.                                                    *)
PlaybackEnds == Busy ~> ~Busy
=============================================================================
