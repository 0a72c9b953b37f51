-------------------------- MODULE Ac97PlaybackProofs --------------------------
(***************************************************************************)
(* Proofs about Ac97Playback, for lists and buffers of any size, writes of *)
(* any length, and an engine and timers of any speed.                      *)
(***************************************************************************)
EXTENDS Ac97Playback, RingArithmetic

(***************************************************************************)
(* The inductive invariant, as a conjunction of named parts.  The counters *)
(* heard and queued are the positions of the engine and of the driver      *)
(* without the wrap of the list.                                           *)
(***************************************************************************)
(* The turn of play_samples from the reading of CIV on. *)
AfterCopy == {"lvi", "picb", "check", "run", "underrun"}
AfterPicb == {"check", "run", "underrun"}

(* Where the engine need not be running yet. *)
BeforeRun == {"arm", "civ", "queue", "lvi", "picb", "check", "run", "stop"}

(* The engine is less than a lap behind the driver, and knows where to     *)
(* halt; so that no LVI write was lost, it halts at the last buffer.       *)
CursorsInStep ==
  /\ heard <= queued /\ queued - heard < BufferCount
  /\ civ = heard % BufferCount
  /\ head = IF pc = "lvi" THEN queued % BufferCount ELSE (queued + 1) % BufferCount
  /\ pc = "lvi" => queued >= 1
  /\ \E a \in heard..queued : lvi = a % BufferCount
  /\ ~lost /\ pc # "lvi" => lvi = queued % BufferCount

(* The descriptors from the one being played to the last one queued hold   *)
(* consecutive buffers, full ones except for the last of all.              *)
BuffersInStep ==
  /\ offset = queued * BufferSize \/ offset = len
  /\ \A k \in heard..queued :
       k >= 1 => /\ list[k % BufferCount].len > 0
                 /\ list[k % BufferCount].at = (k - 1) * BufferSize
                 /\ list[k % BufferCount].at < len
  /\ left > 0 => heard >= 1

(* Nothing is played before the run bit is set, in the first turn. *)
FirstTurn ==
  ~run => /\ heard = 0 /\ left = 0 /\ queued <= 1 /\ list[0] = Empty
          /\ pc \in BeforeRun
          /\ pc \in {"arm", "civ", "queue"} => queued = 0

(* What the reading s of CIV still tells, s counted like heard. *)
Seen(s) ==
  /\ civSeen = s % BufferCount /\ queued - s < BufferCount
  /\ pc \in AfterCopy /\ s = queued => len - offset < 2
  /\ pc \in AfterPicb => left < 2 \/ s < heard

SeenInStep == pc = "queue" \/ pc \in AfterCopy => \E s \in 0..heard : Seen(s)

WriteInv == CursorsInStep /\ BuffersInStep /\ FirstTurn /\ SeenInStep

(* Which pcs belong to which of the two loops. *)
LoopsApart ==
  /\ mode = "write" => pc \notin {"tone_picb", "tone_civ", "tone_reset"}
  /\ mode = "tone" => pc \notin {"civ", "queue", "lvi", "picb", "check", "underrun"}
  /\ pc = "reset" /\ mode = "write" => list[0] = Empty

IInv ==
  /\ TypeOK
  /\ LoopsApart
  /\ Writing => WriteInv
-----------------------------------------------------------------------------
(* Facts about the constants and the list's indices. *)

LEMMA ListFacts ==
  /\ BufferCount \in Nat /\ BufferCount >= 2 /\ BufferCount > 0
  /\ Index = 0..BufferCount-1 /\ 0 \in Index /\ 1 \in Index
  /\ BufferSize \in Nat /\ BufferSize >= 2
  BY ListAssumption DEF Index

LEMMA IndexFacts ==
  ASSUME NEW i \in Index
  PROVE  /\ NextHead(i) = (i + 1) % BufferCount /\ NextHead(i) \in Index
         /\ (i + 1) % BufferCount \in Index
  BY ListFacts, ModNext DEF NextHead, Index

(* The position after that of counter k. *)
LEMMA NextPosition ==
  ASSUME NEW k \in Nat
  PROVE  ((k % BufferCount) + 1) % BufferCount = (k + 1) % BufferCount /\ k % BufferCount \in Index
<1>1. k % BufferCount \in 0..BufferCount-1
  BY ListFacts, ModDiv, k \in Int
<1>2. ((k % BufferCount) + 1) % BufferCount = (k + 1) % BufferCount
  BY ListFacts, ModPlus, k \in Int, 1 \in Int
<1>3. QED
  BY <1>1, <1>2, ListFacts

(* Counters less than a lap apart have different positions. *)
LEMMA Apart ==
  ASSUME NEW a \in Nat, NEW b \in Nat, a < b, b - a < BufferCount
  PROVE  a % BufferCount # b % BufferCount
<1>1. a \in Int /\ b \in Int /\ a <= b /\ b < a + BufferCount /\ a # b
  BY ListFacts
<1>2. QED
  BY <1>1, ListFacts, ModApart

(* What copy_samples_to_buffer copies. *)
LEMMA CopyFacts ==
  ASSUME TypeOK
  PROVE  /\ Copied(offset) \in 0..BufferSize
         /\ Copied(offset) <= len - offset
         /\ offset + Copied(offset) \in 0..len
         /\ Copied(offset) < 2 => len - offset < 2
         /\ Copied(offset) = BufferSize \/ offset + Copied(offset) = len
         /\ Filled(Copied(offset), offset) \in [len : 0..BufferSize, at : Nat]
<1>1. len \in Nat /\ offset \in 0..len /\ BufferSize \in Nat /\ BufferSize >= 2
  BY ListFacts DEF TypeOK
<1>2. /\ Copied(offset) \in 0..BufferSize
      /\ Copied(offset) <= len - offset
      /\ offset + Copied(offset) \in 0..len
      /\ Copied(offset) < 2 => len - offset < 2
      /\ Copied(offset) = BufferSize \/ offset + Copied(offset) = len
  BY <1>1 DEF Copied
<1>3. QED
  BY <1>1, <1>2 DEF Filled, Empty
-----------------------------------------------------------------------------
(* The types, apart for the provers: those of the Boolean variables, ... *)
FlagsOK ==
  /\ run \in BOOLEAN /\ halted \in BOOLEAN
  /\ playArmed \in BOOLEAN /\ playSet \in BOOLEAN
  /\ picbArmed \in BOOLEAN /\ picbSet \in BOOLEAN
  /\ lost \in BOOLEAN /\ low \in BOOLEAN /\ expired \in BOOLEAN

(* ... of the engine's other registers and the list, ... *)
EngineOK ==
  /\ civ \in Index /\ lvi \in Index /\ left \in 0..BufferSize /\ heard \in Nat
  /\ list \in [Index -> [len : 0..BufferSize, at : Nat]]

(* ... and of the driver. *)
DriverOK ==
  /\ pc \in {"idle", "queue", "lvi", "check"} \cup FailingPc
  /\ mode \in {"write", "tone"} /\ len \in Nat
  /\ head \in Index /\ offset \in 0..len /\ queued \in Nat /\ civSeen \in Index
  /\ status \in {"none", "success", "error"} /\ playbacks \in Nat

LEMMA TypeParts == TypeOK <=> FlagsOK /\ EngineOK /\ DriverOK
  BY DEF TypeOK, FlagsOK, EngineOK, DriverOK

LEMMA InitHolds == Init => IInv
<1> SUFFICES ASSUME Init PROVE IInv
  OBVIOUS
<1>1. FlagsOK
  BY Zenon DEF Init, FlagsOK
<1>2. EngineOK /\ DriverOK
  BY ListFacts DEF Init, EngineOK, DriverOK, Empty, FailingPc
<1>3. LoopsApart /\ ~Writing
  BY DEF Init, LoopsApart, Writing
<1>4. QED
  BY <1>1, <1>2, <1>3, TypeParts DEF IInv

(* No step breaks a type. *)
LEMMA TypeStep == ASSUME TypeOK, [Next]_vars PROVE TypeOK'
<1> USE ListFacts
<1>0. FlagsOK' /\ EngineOK' /\ DriverOK' => TypeOK'
  BY DEF TypeOK, FlagsOK, EngineOK, DriverOK
<1>1. TypeOK /\ FlagsOK /\ EngineOK /\ DriverOK
  BY TypeParts
<1>2. FlagsOK'
  <2>1. CASE BeginWrite \/ BeginTone \/ Reset \/ Arm
    BY <1>1, <2>1, ZenonT(40) DEF FlagsOK, BeginWrite, BeginTone, Reset, Arm, engineVars, timerVars,
       queueVars, seenVars
  <2>2. CASE ReadCiv \/ LviLost \/ ReadPicb
    BY <1>1, <2>2, Zenon DEF FlagsOK, ReadCiv, LviLost, ReadPicb, engineVars, timerVars, queueVars,
       seenVars
  <2>3. CASE Check \/ WaitPlayback \/ WaitPicb \/ Stop
    BY <1>1, <2>3, Zenon DEF FlagsOK, Check, WaitPlayback, WaitPicb, Stop, Cleared, engineVars,
       timerVars, queueVars, seenVars
  <2>4. CASE Underrun \/ NoUnderrun \/ ToneReset \/ ToneRunLost
    BY <1>1, <2>4, ZenonT(40) DEF FlagsOK, Underrun, NoUnderrun, ToneReset, ToneRunLost, engineVars,
       timerVars, queueVars, seenVars
  <2>5. CASE PlayFrame \/ PlayTimer \/ PicbTimer \/ UNCHANGED vars
    BY <1>1, <2>5, Zenon DEF FlagsOK, PlayFrame, PlayTimer, PicbTimer, vars, engineVars, timerVars,
       queueVars, seenVars
  <2>6. CASE Queue \/ ToneReadCiv
    BY <1>1, <2>6, Zenon DEF FlagsOK, Queue, ToneReadCiv, engineVars, timerVars, queueVars, seenVars
  <2>7. CASE WriteLvi \/ Run
    BY <1>1, <2>7 DEF FlagsOK, WriteLvi, MoveLvi, Run, SetRun, engineVars, timerVars, queueVars,
       seenVars
  <2>8. CASE ToneReadPicb
    BY <1>1, <2>8 DEF FlagsOK, ToneReadPicb, Low, engineVars, timerVars, queueVars
  <2>9. CASE NextDescriptor
    BY <1>1, <2>9 DEF FlagsOK, NextDescriptor, timerVars, queueVars, seenVars
  <2>10. CASE Fails
    BY <1>1, <2>10 DEF FlagsOK, Fails, Cleared, engineVars, queueVars, seenVars
  <2>11. QED
    BY <2>1, <2>2, <2>3, <2>4, <2>5, <2>6, <2>7, <2>8, <2>9, <2>10 DEF Next, Driver
<1>3. CASE BeginWrite
  <2>1. len' \in Nat
    BY <1>3, ListAssumption DEF BeginWrite
  <2>2. EngineOK'
    BY <1>1, <1>3 DEF BeginWrite, EngineOK, Empty, engineVars
  <2>3. DriverOK'
    BY <1>1, <1>3, <2>1 DEF BeginWrite, DriverOK, seenVars, FailingPc
  <2>4. QED
    BY <1>0, <1>2, <2>2, <2>3
<1>4. CASE BeginTone
  <2>1. len' \in 0..BufferSize /\ len' \in Nat
    BY <1>4, ListAssumption DEF BeginTone
  <2>2. Filled(len', 0) \in [len : 0..BufferSize, at : Nat]
    <3>1. PICK n \in 0..BufferSize : n = len'
      BY <2>1
    <3>2. Filled(n, 0) \in [len : 0..BufferSize, at : Nat]
      BY DEF Filled, Empty
    <3>3. QED
      BY <3>1, <3>2
  <2>3. EngineOK'
    BY <1>1, <1>4, <2>2 DEF BeginTone, EngineOK, Empty, engineVars
  <2>4. DriverOK'
    BY <1>1, <1>4, <2>1 DEF BeginTone, DriverOK, seenVars, FailingPc
  <2>5. QED
    BY <1>0, <1>2, <2>3, <2>4
<1>5. CASE Reset \/ ToneReset
  <2>1. EngineOK'
    BY <1>1, <1>5 DEF Reset, ToneReset, EngineOK
  <2>2. DriverOK'
    BY <1>1, <1>5 DEF Reset, ToneReset, DriverOK, seenVars, callVars, queueVars, FailingPc
  <2>3. QED
    BY <1>0, <1>2, <2>1, <2>2
<1>6. CASE \/ Arm \/ ReadCiv \/ ReadPicb \/ Check \/ Underrun \/ NoUnderrun \/ WaitPlayback
           \/ WaitPicb \/ ToneReadPicb \/ ToneReadCiv \/ ToneRunLost
  <2>1. EngineOK'
    BY <1>1, <1>6, Zenon DEF Arm, ReadCiv, ReadPicb, Check, Underrun, NoUnderrun, WaitPlayback, WaitPicb,
       ToneReadPicb, ToneReadCiv, ToneRunLost, EngineOK, engineVars
  <2>2. /\ civSeen' \in Index
        /\ UNCHANGED callVars /\ UNCHANGED queueVars
    BY <1>1, <1>6, Zenon DEF Arm, ReadCiv, ReadPicb, Check, Underrun, NoUnderrun, WaitPlayback, WaitPicb,
       ToneReadPicb, ToneReadCiv, ToneRunLost, EngineOK, DriverOK, seenVars
  <2>3. pc' \in {"queue", "check"} \cup FailingPc
    BY <1>6 DEF Arm, ReadCiv, ReadPicb, Check, Underrun, NoUnderrun, WaitPlayback, WaitPicb,
       ToneReadPicb, ToneReadCiv, ToneRunLost, FailingPc
  <2>4. DriverOK'
    BY <1>1, <2>2, <2>3 DEF DriverOK, callVars, queueVars
  <2>5. QED
    BY <1>0, <1>2, <2>1, <2>4
<1>7. CASE Queue
  <2>1. EngineOK'
    BY <1>1, <1>7, CopyFacts DEF Queue, EngineOK, DriverOK, engineVars
  <2>2. offset' \in 0..len /\ queued' \in Nat
    BY <1>1, <1>7, CopyFacts DEF Queue, DriverOK, Taken
  <2>3. pc' \in {"picb", "lvi"}
    BY <1>7 DEF Queue
  <2>4. DriverOK'
    BY <1>1, <1>7, <2>2, <2>3 DEF Queue, DriverOK, seenVars, callVars, FailingPc
  <2>5. QED
    BY <1>0, <1>2, <2>1, <2>4
<1>8. CASE WriteLvi \/ LviLost
  <2>1. head \in Index /\ head' \in Index
    BY <1>1, <1>8, IndexFacts DEF WriteLvi, LviLost, DriverOK
  <2>2. EngineOK' /\ DriverOK'
    BY <1>1, <1>8, <2>1 DEF WriteLvi, LviLost, MoveLvi, EngineOK, DriverOK, engineVars, seenVars,
       callVars, FailingPc
  <2>3. QED
    BY <1>0, <1>2, <2>2
<1>9. CASE Run
  <2>1. left' \in 0..BufferSize /\ heard' \in Nat /\ civ' = civ /\ lvi' = lvi
    BY <1>1, <1>9, SMTT(30) DEF Run, SetRun, Load, EngineOK, engineVars
  <2>2. EngineOK' /\ DriverOK'
    BY <1>1, <1>9, <2>1 DEF Run, EngineOK, DriverOK, queueVars, seenVars, callVars, FailingPc
  <2>3. QED
    BY <1>0, <1>2, <2>2
<1>10. CASE Stop \/ Fails
  <2>1. civ' \in Index /\ lvi' \in Index /\ left' \in 0..BufferSize
    <3>1. CASE Cleared
      BY <3>1 DEF Cleared
    <3>2. CASE UNCHANGED engineVars
      BY <1>1, <3>2 DEF EngineOK, engineVars
    <3>3. QED
      BY <1>10, <3>1, <3>2 DEF Stop, Fails
  <2>2. EngineOK' /\ DriverOK'
    BY <1>1, <1>10, <2>1 DEF Stop, Fails, EngineOK, DriverOK, queueVars, seenVars, FailingPc
  <2>3. QED
    BY <1>0, <1>2, <2>2
<1>11. CASE PlayFrame
  <2>1. EngineOK'
    BY <1>1, <1>11 DEF PlayFrame, EngineOK
  <2>2. DriverOK'
    BY <1>1, <1>11 DEF PlayFrame, DriverOK, queueVars, seenVars, callVars
  <2>3. QED
    BY <1>0, <1>2, <2>1, <2>2
<1>12. CASE NextDescriptor
  <2>1. civ' \in Index /\ left' \in 0..BufferSize /\ heard' \in Nat
    <3>1. CASE civ = lvi
      BY <1>1, <1>12, <3>1 DEF NextDescriptor, EngineOK
    <3>2. CASE civ # lvi
      <4>1. PICK i \in Index : i = (civ + 1) % BufferCount
        BY <1>1, IndexFacts DEF EngineOK
      <4>2. list[i].len \in 0..BufferSize
        BY <1>1 DEF EngineOK
      <4>3. civ' = i /\ Load(i)
        BY <1>12, <3>2, <4>1 DEF NextDescriptor
      <4>4. QED
        BY <1>1, <4>2, <4>3 DEF Load, EngineOK
    <3>3. QED
      BY <3>1, <3>2
  <2>2. EngineOK' /\ DriverOK'
    BY <1>1, <1>12, <2>1 DEF NextDescriptor, EngineOK, DriverOK, queueVars, seenVars, callVars
  <2>3. QED
    BY <1>0, <1>2, <2>2
<1>13. CASE PlayTimer \/ PicbTimer \/ UNCHANGED vars
  <2>1. EngineOK' /\ DriverOK'
    BY <1>1, <1>13 DEF PlayTimer, PicbTimer, vars, EngineOK, DriverOK, engineVars, queueVars,
       seenVars, callVars
  <2>2. QED
    BY <1>0, <1>2, <2>1
<1>14. QED
  BY <1>3, <1>4, <1>5, <1>6, <1>7, <1>8, <1>9, <1>10, <1>11, <1>12, <1>13 DEF Next, Driver
-----------------------------------------------------------------------------
(* The invariant step by step.  First, the steps that move pc alone. *)

cursorVars == <<run, left, civ, lvi, list, len, heard>>

LEMMA MoveStep ==
  ASSUME WriteInv, UNCHANGED cursorVars, UNCHANGED queueVars, UNCHANGED civSeen,
         pc \notin {"queue", "lvi"}, pc' \notin {"queue", "lvi"},
         ~run => pc' \in BeforeRun /\ (pc' \in {"arm", "civ"} => pc \in {"arm", "civ"}),
         pc' \in AfterCopy => pc \in AfterCopy,
         pc' \in AfterPicb => pc \in AfterPicb \/ left < 2
  PROVE  WriteInv'
<1>1. CursorsInStep' /\ BuffersInStep'
  BY DEF WriteInv, CursorsInStep, BuffersInStep, cursorVars, queueVars
<1>2. FirstTurn'
  BY DEF WriteInv, FirstTurn, cursorVars, queueVars
<1>3. SeenInStep'
  <2>1. SUFFICES ASSUME pc' \in AfterCopy PROVE \E s \in 0..heard' : Seen(s)'
    BY DEF SeenInStep
  <2>2. PICK s \in 0..heard : Seen(s)
    BY <2>1 DEF WriteInv, SeenInStep
  <2>3. Seen(s)'
    BY <2>1, <2>2 DEF Seen, cursorVars, queueVars
  <2>4. QED
    BY <2>3 DEF cursorVars
<1>4. QED
  BY <1>1, <1>2, <1>3 DEF WriteInv

(* No step of the tone's loop belongs to a write. *)
LEMMA WriteSteps ==
  ASSUME TypeOK, LoopsApart, [Next]_vars, Writing'
  PROVE  \/ Reset /\ mode = "write"
         \/ Writing /\ UNCHANGED mode /\
            \/ Arm \/ ReadCiv \/ Queue \/ WriteLvi \/ LviLost \/ ReadPicb \/ Check \/ Run
            \/ Underrun \/ NoUnderrun \/ WaitPlayback \/ WaitPicb
            \/ PlayFrame \/ NextDescriptor \/ PlayTimer \/ PicbTimer
            \/ UNCHANGED vars
<1>1. CASE BeginWrite \/ BeginTone \/ Stop \/ Fails
  BY <1>1 DEF BeginWrite, BeginTone, Stop, Fails, Writing
<1>2. CASE ToneReadPicb \/ ToneReadCiv \/ ToneReset \/ ToneRunLost
  BY <1>2 DEF TypeOK, LoopsApart, ToneReadPicb, ToneReadCiv, ToneReset, ToneRunLost, Writing, callVars
<1>3. CASE Reset
  BY <1>3 DEF Reset, Writing, callVars
<1>4. CASE Arm \/ ReadCiv \/ Queue \/ WriteLvi \/ LviLost \/ ReadPicb \/ Check \/ Run
  BY <1>4 DEF Arm, ReadCiv, Queue, WriteLvi, LviLost, ReadPicb, Check, Run, Writing, callVars
<1>5. CASE Underrun \/ NoUnderrun \/ WaitPlayback \/ WaitPicb
  BY <1>5 DEF Underrun, NoUnderrun, WaitPlayback, WaitPicb, Writing, callVars
<1>6. CASE PlayFrame \/ NextDescriptor \/ PlayTimer \/ PicbTimer \/ UNCHANGED vars
  BY <1>6 DEF PlayFrame, NextDescriptor, PlayTimer, PicbTimer, vars, Writing, callVars
<1>7. QED
  BY <1>1, <1>2, <1>3, <1>4, <1>5, <1>6 DEF Next, Driver

LEMMA LoopsStep ==
  ASSUME TypeOK, LoopsApart, [Next]_vars
  PROVE  LoopsApart'
<1>1. CASE BeginWrite \/ BeginTone
  BY <1>1, ListFacts DEF BeginWrite, BeginTone, LoopsApart
<1>2. CASE Reset \/ Arm \/ ReadCiv \/ WriteLvi \/ LviLost \/ ReadPicb \/ Check \/ Run
  BY <1>2 DEF Reset, Arm, ReadCiv, WriteLvi, LviLost, ReadPicb, Check, Run, LoopsApart, callVars
<1>3. CASE Queue
  BY <1>3 DEF Queue, LoopsApart, callVars
<1>4. CASE Underrun \/ NoUnderrun \/ WaitPlayback \/ WaitPicb \/ Stop \/ Fails
  BY <1>4 DEF Underrun, NoUnderrun, WaitPlayback, WaitPicb, Stop, Fails, LoopsApart, callVars, TypeOK
<1>5. CASE ToneReadPicb \/ ToneReadCiv \/ ToneReset \/ ToneRunLost
  BY <1>5 DEF ToneReadPicb, ToneReadCiv, ToneReset, ToneRunLost, LoopsApart, callVars, TypeOK
<1>6. CASE PlayFrame \/ NextDescriptor \/ PlayTimer \/ PicbTimer \/ UNCHANGED vars
  BY <1>6 DEF PlayFrame, NextDescriptor, PlayTimer, PicbTimer, vars, LoopsApart, callVars
<1>7. QED
  BY <1>1, <1>2, <1>3, <1>4, <1>5, <1>6 DEF Next, Driver

(* A write begins with an empty list. *)
LEMMA ResetStep ==
  ASSUME TypeOK, LoopsApart, Reset, mode = "write" PROVE WriteInv'
<1>1. /\ run' = FALSE /\ civ' = 0 /\ lvi' = 0 /\ left' = 0 /\ head' = 1 /\ offset' = 0
      /\ queued' = 0 /\ heard' = 0 /\ pc' = "arm" /\ list' = list /\ list[0] = Empty
  BY DEF Reset, LoopsApart
<1>2. 0 % BufferCount = 0 /\ 1 % BufferCount = 1
  BY ListFacts, ModSmall, 0 \in 0..BufferCount-1, 1 \in 0..BufferCount-1
<1>3. CursorsInStep'
  BY <1>1, <1>2, ListFacts DEF CursorsInStep
<1>4. BuffersInStep'
  BY <1>1, ListFacts DEF BuffersInStep
<1>5. FirstTurn' /\ SeenInStep'
  BY <1>1 DEF FirstTurn, SeenInStep, BeforeRun, AfterCopy
<1>6. QED
  BY <1>3, <1>4, <1>5 DEF WriteInv

LEMMA ReadCivStep ==
  ASSUME TypeOK, WriteInv, ReadCiv PROVE WriteInv'
<1>1. /\ UNCHANGED cursorVars /\ UNCHANGED queueVars
      /\ pc = "civ" /\ pc' = "queue" /\ civSeen' = civ
  BY DEF ReadCiv, cursorVars, queueVars, engineVars, callVars
<1>2. CursorsInStep' /\ BuffersInStep'
  BY <1>1 DEF WriteInv, CursorsInStep, BuffersInStep, cursorVars, queueVars
<1>3. FirstTurn'
  BY <1>1 DEF WriteInv, FirstTurn, cursorVars, queueVars, BeforeRun
<1>4. Seen(heard)'
  BY <1>1 DEF WriteInv, CursorsInStep, Seen, cursorVars, queueVars, AfterCopy, AfterPicb
<1>5. QED
  BY <1>1, <1>2, <1>3, <1>4 DEF WriteInv, SeenInStep, cursorVars, TypeOK

(* The descriptor to be filled is behind those the engine may play. *)
LEMMA HeadIsFree ==
  ASSUME TypeOK, WriteInv, pc = "queue",
         NEW s \in 0..heard, Seen(s), head # civSeen
  PROVE  /\ queued + 1 - s < BufferCount /\ head = (queued + 1) % BufferCount
         /\ \A k \in heard..queued : k % BufferCount # head
<1>1. /\ heard \in Nat /\ queued \in Nat /\ heard <= queued
      /\ head = (queued + 1) % BufferCount
  BY DEF TypeOK, WriteInv, CursorsInStep
<1>2. civSeen = s % BufferCount /\ queued - s < BufferCount
  BY DEF Seen
<1>3. queued + 1 - s # BufferCount
  <2>1. SUFFICES ASSUME queued + 1 = s + BufferCount PROVE FALSE
    BY <1>1, ListFacts
  <2>2. (BufferCount * 1 + s) % BufferCount = s % BufferCount
    BY ListFacts, ModLap, 1 \in Int, s \in Int
  <2>3. BufferCount * 1 + s = s + BufferCount
    BY ListFacts
  <2>4. QED
    BY <1>1, <1>2, <2>1, <2>2, <2>3
<1>4. queued + 1 - s < BufferCount
  BY <1>1, <1>2, <1>3, ListFacts
<1>5. ASSUME NEW k \in heard..queued PROVE k % BufferCount # head
  <2>1. k \in Nat /\ queued + 1 \in Nat /\ k < queued + 1 /\ (queued + 1) - k < BufferCount
    BY <1>1, <1>4, ListFacts
  <2>2. QED
    BY <1>1, <2>1, Apart
<1>6. QED
  BY <1>1, <1>4, <1>5

LEMMA QueueStep ==
  ASSUME TypeOK, WriteInv, Queue PROVE WriteInv'
<1> DEFINE n == Copied(offset)
<1>1. /\ pc = "queue" /\ heard \in Nat /\ queued \in Nat /\ heard <= queued
      /\ head = (queued + 1) % BufferCount /\ head \in Index
      /\ UNCHANGED <<run, left, civ, lvi, heard, head, len, lost, civSeen>>
  BY DEF Queue, TypeOK, WriteInv, CursorsInStep, engineVars, seenVars, callVars
<1>2. PICK s \in 0..heard : Seen(s)
  BY <1>1 DEF WriteInv, SeenInStep
<1>3. PICK a \in heard..queued : lvi = a % BufferCount
  BY DEF WriteInv, CursorsInStep
<1>4. ~lost => lvi = queued % BufferCount
  BY <1>1 DEF WriteInv, CursorsInStep
<1>5. ~run => /\ heard = 0 /\ left = 0 /\ queued = 0 /\ list[0] = Empty
  BY <1>1 DEF WriteInv, FirstTurn
<1>6. CASE head = civSeen
  <2>1. pc' = "picb" /\ UNCHANGED <<list, offset, queued>>
    BY <1>6 DEF Queue
  <2>2. s # queued
    <3>1. queued % BufferCount # (queued + 1) % BufferCount
      BY <1>1, ListFacts, Apart, queued + 1 \in Nat, queued < queued + 1, queued + 1 - queued = 1
    <3>2. QED
      BY <1>1, <1>2, <1>6, <3>1 DEF Seen
  <2>3. CursorsInStep' /\ BuffersInStep'
    BY <1>1, <2>1 DEF WriteInv, CursorsInStep, BuffersInStep
  <2>4. FirstTurn'
    BY <1>1, <1>5, <2>1 DEF FirstTurn, BeforeRun
  <2>5. Seen(s)'
    BY <1>1, <1>2, <2>1, <2>2 DEF Seen, AfterPicb
  <2>6. QED
    BY <1>1, <2>3, <2>4, <2>5 DEF WriteInv, SeenInStep
<1>7. CASE head # civSeen
  <2>1. /\ queued + 1 - s < BufferCount
        /\ \A k \in heard..queued : k % BufferCount # head
    BY <1>1, <1>2, <1>7, HeadIsFree
  <2>2. /\ n \in 0..BufferSize /\ n <= len - offset
        /\ n < 2 => len - offset < 2
        /\ n = BufferSize \/ offset + n = len
        /\ len \in Nat /\ offset \in 0..len
    BY CopyFacts DEF TypeOK
  <2>3. /\ list' = [list EXCEPT ![head] = Filled(n, offset)]
        /\ n > 1 => offset' = offset + n /\ queued' = queued + 1 /\ pc' = "lvi"
        /\ ~(n > 1) => pc' = "picb" /\ UNCHANGED <<offset, queued>>
    BY <1>7 DEF Queue, Taken
  <2> HIDE DEF n
  <2>4. \A k \in heard..queued : list'[k % BufferCount] = list[k % BufferCount]
    <3>1. \A k \in heard..queued : k % BufferCount \in Index
      BY <1>1, NextPosition
    <3>2. QED
      BY <2>1, <2>3, <3>1 DEF TypeOK
  <2>5. list'[head] = Filled(n, offset)
    BY <1>1, <2>3 DEF TypeOK
  <2>6. ~run => list'[0] = Empty
    <3>1. SUFFICES ASSUME ~run PROVE list'[0] = Empty
      OBVIOUS
    <3>2. 0 % BufferCount = 0
      BY ListFacts
    <3>3. QED
      BY <1>5, <2>4, <3>1, <3>2
  <2>7. /\ offset = queued * BufferSize \/ offset = len
        /\ \A k \in heard..queued : k >= 1 => /\ list[k % BufferCount].len > 0
                                              /\ list[k % BufferCount].at = (k - 1) * BufferSize
                                              /\ list[k % BufferCount].at < len
        /\ left > 0 => heard >= 1
    BY DEF WriteInv, BuffersInStep
  <2>8. CASE n > 1
    <3>1. offset' = offset + n /\ queued' = queued + 1 /\ pc' = "lvi"
      BY <2>3, <2>8
    <3>2. CursorsInStep'
      <4>1. heard <= queued + 1 /\ queued + 1 - heard < BufferCount /\ queued + 1 >= 1
        BY <1>1, <2>1, ListFacts
      <4>2. a \in heard..(queued + 1)
        BY <1>1
      <4>3. civ = heard % BufferCount
        BY DEF WriteInv, CursorsInStep
      <4>4. QED
        BY <1>1, <1>3, <3>1, <4>1, <4>2, <4>3 DEF CursorsInStep
    <3>3. offset = queued * BufferSize
      BY <2>2, <2>7, <2>8, ListFacts
    <3>4. offset + n = (queued + 1) * BufferSize \/ offset + n = len
      BY <1>1, <2>2, <3>3, ListFacts
    <3>5. ASSUME NEW k \in heard..(queued + 1), k >= 1
          PROVE  /\ list'[k % BufferCount].len > 0
                 /\ list'[k % BufferCount].at = (k - 1) * BufferSize
                 /\ list'[k % BufferCount].at < len
      <4>1. CASE k \in heard..queued
        BY <2>4, <2>7, <3>5, <4>1
      <4>2. CASE k = queued + 1
        <5>1. Filled(n, offset) = [len |-> n - 1, at |-> offset]
          BY <2>8 DEF Filled
        <5>2. k - 1 = queued /\ n - 1 > 0 /\ offset < len
          BY <1>1, <2>2, <2>8, <4>2, ListFacts
        <5>3. QED
          BY <1>1, <2>5, <3>3, <4>2, <5>1, <5>2
      <4>3. QED
        BY <1>1, <4>1, <4>2
    <3>6. BuffersInStep'
      BY <1>1, <2>7, <3>1, <3>4, <3>5 DEF BuffersInStep
    <3>7. FirstTurn'
      BY <1>1, <1>5, <2>6, <3>1 DEF FirstTurn, BeforeRun
    <3>8. Seen(s)'
      BY <1>1, <1>2, <2>1, <3>1 DEF Seen, AfterPicb
    <3>9. QED
      BY <1>1, <3>2, <3>6, <3>7, <3>8 DEF WriteInv, SeenInStep
  <2>9. CASE ~(n > 1)
    <3>1. pc' = "picb" /\ UNCHANGED <<offset, queued>>
      BY <2>3, <2>9
    <3>2. CursorsInStep'
      BY <1>1, <3>1 DEF WriteInv, CursorsInStep
    <3>3. BuffersInStep'
      BY <1>1, <2>4, <2>7, <3>1 DEF BuffersInStep
    <3>4. FirstTurn'
      BY <1>1, <1>5, <2>6, <3>1 DEF FirstTurn, BeforeRun
    <3>5. Seen(s)'
      BY <1>1, <1>2, <2>2, <2>9, <3>1, ListFacts DEF Seen, AfterPicb
    <3>6. QED
      BY <1>1, <3>2, <3>3, <3>4, <3>5 DEF WriteInv, SeenInStep
  <2>10. QED
    BY <2>8, <2>9
<1>8. QED
  BY <1>6, <1>7

(* The buffer that was queued last becomes the last one to play, unless    *)
(* the engine is not told.                                                 *)
LEMMA LviStep ==
  ASSUME TypeOK, WriteInv, WriteLvi \/ LviLost PROVE WriteInv'
<1>1. /\ pc = "lvi" /\ pc' = "picb" /\ heard \in Nat /\ queued \in Nat /\ heard <= queued
      /\ queued - heard < BufferCount /\ civ = heard % BufferCount
      /\ head = queued % BufferCount /\ head' = NextHead(head)
      /\ UNCHANGED <<run, left, civ, list, heard, len, offset, queued, civSeen>>
  BY DEF WriteLvi, LviLost, TypeOK, WriteInv, CursorsInStep, engineVars, seenVars, callVars
<1>2. head' = (queued + 1) % BufferCount
  BY <1>1, NextPosition, IndexFacts
<1>3. (\E a \in heard..queued : lvi' = a % BufferCount) /\ (~lost' => lvi' = queued % BufferCount)
  <2>1. CASE WriteLvi
    BY <1>1, <2>1 DEF WriteLvi, MoveLvi
  <2>2. CASE LviLost
    BY <2>2 DEF LviLost, WriteInv, CursorsInStep, engineVars
  <2>3. QED
    BY <2>1, <2>2
<1>4. CursorsInStep'
  BY <1>1, <1>2, <1>3 DEF CursorsInStep
<1>5. BuffersInStep' /\ FirstTurn'
  BY <1>1 DEF WriteInv, BuffersInStep, FirstTurn, BeforeRun
<1>6. SeenInStep'
  <2>1. PICK s \in 0..heard : Seen(s)
    BY <1>1 DEF WriteInv, SeenInStep, AfterCopy
  <2>2. Seen(s)'
    BY <1>1, <2>1 DEF Seen, AfterCopy, AfterPicb
  <2>3. QED
    BY <1>1, <2>2 DEF SeenInStep
<1>7. QED
  BY <1>4, <1>5, <1>6 DEF WriteInv

(* The engine starts at the empty descriptor 0. *)
LEMMA RunStep ==
  ASSUME TypeOK, WriteInv, Run, mode = "write" PROVE WriteInv'
<1>1. pc = "run" /\ pc' = "underrun" /\ UNCHANGED queueVars /\ UNCHANGED <<list, civSeen, len>>
  BY DEF Run, seenVars, callVars
<1>2. CASE run
  <2>1. UNCHANGED cursorVars
    BY <1>1, <1>2 DEF Run, SetRun, engineVars, cursorVars
  <2>2. QED
    BY <1>1, <1>2, <2>1, MoveStep DEF AfterCopy, AfterPicb
<1>3. CASE ~run
  <2>1. heard = 0 /\ left = 0 /\ list[0] = Empty
    BY <1>3 DEF WriteInv, FirstTurn
  <2>2. civ = 0
    BY <2>1, ListFacts, 0 % BufferCount = 0 DEF WriteInv, CursorsInStep
  <2>3. run' = TRUE /\ UNCHANGED <<civ, lvi, left, heard>>
    BY <1>3, <2>1, <2>2 DEF Run, SetRun, Load, Empty
  <2>4. CursorsInStep' /\ BuffersInStep'
    BY <1>1, <2>3 DEF WriteInv, CursorsInStep, BuffersInStep, queueVars
  <2>5. FirstTurn'
    BY <2>3 DEF FirstTurn
  <2>6. SeenInStep'
    <3>1. PICK s \in 0..heard : Seen(s)
      BY <1>1 DEF WriteInv, SeenInStep, AfterCopy
    <3>2. Seen(s)'
      BY <1>1, <2>3, <3>1 DEF Seen, AfterCopy, AfterPicb, queueVars
    <3>3. QED
      BY <2>3, <3>2 DEF SeenInStep
  <2>7. QED
    BY <2>4, <2>5, <2>6 DEF WriteInv
<1>4. QED
  BY <1>2, <1>3

LEMMA PlayFrameStep ==
  ASSUME TypeOK, WriteInv, PlayFrame PROVE WriteInv'
<1>1. /\ run /\ left \in Nat /\ left > 0 /\ left' = (IF left <= 2 THEN 0 ELSE left - 2)
      /\ UNCHANGED queueVars
      /\ UNCHANGED <<run, civ, lvi, list, pc, civSeen, len, heard>>
  BY ListFacts DEF PlayFrame, TypeOK, seenVars, callVars
<1>2. CursorsInStep' /\ BuffersInStep'
  BY <1>1 DEF WriteInv, CursorsInStep, BuffersInStep, queueVars
<1>3. FirstTurn'
  BY <1>1 DEF FirstTurn
<1>4. SeenInStep'
  <2>1. SUFFICES ASSUME pc = "queue" \/ pc \in AfterCopy PROVE \E s \in 0..heard' : Seen(s)'
    BY <1>1 DEF SeenInStep
  <2>2. PICK s \in 0..heard : Seen(s)
    BY <2>1 DEF WriteInv, SeenInStep
  <2>3. left' < 2 \/ ~(left < 2)
    BY <1>1
  <2>4. Seen(s)'
    BY <1>1, <2>2, <2>3 DEF Seen, queueVars
  <2>5. QED
    BY <1>1, <2>4
<1>5. QED
  BY <1>2, <1>3, <1>4 DEF WriteInv

(* The engine goes on to a buffer that was queued, or halts. *)
LEMMA NextDescriptorStep ==
  ASSUME TypeOK, WriteInv, NextDescriptor PROVE WriteInv'
<1>1. /\ run /\ heard \in Nat /\ queued \in Nat /\ heard <= queued /\ queued - heard < BufferCount
      /\ civ = heard % BufferCount /\ left = 0
      /\ UNCHANGED queueVars /\ UNCHANGED <<run, lvi, list, pc, civSeen, len>>
  BY DEF NextDescriptor, TypeOK, WriteInv, CursorsInStep, seenVars, callVars
<1>2. PICK a \in heard..queued : lvi = a % BufferCount
  BY DEF WriteInv, CursorsInStep
<1>3. FirstTurn'
  BY <1>1 DEF FirstTurn
<1>4. CASE civ = lvi
  <2>1. UNCHANGED <<civ, left, heard>>
    BY <1>4 DEF NextDescriptor
  <2>2. CursorsInStep' /\ BuffersInStep'
    BY <1>1, <2>1 DEF WriteInv, CursorsInStep, BuffersInStep, queueVars
  <2>3. SeenInStep'
    BY <1>1, <2>1 DEF WriteInv, SeenInStep, Seen, queueVars
  <2>4. QED
    BY <1>3, <2>2, <2>3 DEF WriteInv
<1>5. CASE civ # lvi
  <2>1. a \in Nat /\ heard + 1 <= a /\ a <= queued /\ heard + 1 \in heard..queued
    BY <1>1, <1>2, <1>5
  <2>2. civ' = (heard + 1) % BufferCount /\ civ' \in Index
    BY <1>1, <1>5, NextPosition, heard + 1 \in Nat DEF NextDescriptor
  <2>3. list[(heard + 1) % BufferCount].len > 0
    BY <1>1, <2>1 DEF WriteInv, BuffersInStep
  <2>4. heard' = heard + 1
    BY <1>5, <2>2, <2>3 DEF NextDescriptor, Load
  <2>5. CursorsInStep'
    <3>1. a \in (heard + 1)..queued /\ queued - (heard + 1) < BufferCount /\ heard + 1 <= queued
      BY <1>1, <2>1, ListFacts
    <3>2. /\ head = IF pc = "lvi" THEN queued % BufferCount ELSE (queued + 1) % BufferCount
          /\ pc = "lvi" => queued >= 1
          /\ ~lost /\ pc # "lvi" => lvi = queued % BufferCount
      BY DEF WriteInv, CursorsInStep
    <3>3. QED
      BY <1>1, <1>2, <2>2, <2>4, <3>1, <3>2 DEF CursorsInStep, queueVars
  <2>6. BuffersInStep'
    BY <1>1, <2>4 DEF WriteInv, BuffersInStep, queueVars
  <2>7. SeenInStep'
    <3>1. SUFFICES ASSUME pc = "queue" \/ pc \in AfterCopy PROVE \E s \in 0..heard' : Seen(s)'
      BY <1>1 DEF SeenInStep
    <3>2. PICK s \in 0..heard : Seen(s)
      BY <3>1 DEF WriteInv, SeenInStep
    <3>3. s \in 0..(heard + 1) /\ s < heard + 1
      BY <1>1
    <3>4. Seen(s)'
      BY <1>1, <2>4, <3>2, <3>3 DEF Seen, queueVars
    <3>5. QED
      BY <2>4, <3>3, <3>4
  <2>8. QED
    BY <1>3, <2>5, <2>6, <2>7 DEF WriteInv
<1>6. QED
  BY <1>4, <1>5

(* The steps of the loop that touch neither the list nor the cursors. *)
LEMMA QuietSteps ==
  ASSUME TypeOK, WriteInv,
         Arm \/ ReadPicb \/ Check \/ Underrun \/ NoUnderrun \/ WaitPlayback \/ WaitPicb,
         mode = "write"
  PROVE  WriteInv'
<1>1. UNCHANGED cursorVars /\ UNCHANGED queueVars /\ UNCHANGED civSeen
  BY DEF Arm, ReadPicb, Check, Underrun, NoUnderrun, WaitPlayback, WaitPicb, cursorVars, queueVars,
     engineVars, seenVars, callVars
<1>2. ~run => pc \in BeforeRun /\ left < 2
  BY DEF WriteInv, FirstTurn
<1>3. CASE Arm
  BY <1>1, <1>3, MoveStep DEF Arm, BeforeRun, AfterCopy, AfterPicb
<1>4. CASE ReadPicb
  BY <1>1, <1>2, <1>4, MoveStep DEF ReadPicb, Low, BeforeRun, AfterCopy, AfterPicb
<1>5. CASE Check
  BY <1>1, <1>5, MoveStep DEF Check, BeforeRun, AfterCopy, AfterPicb
<1>6. CASE Underrun \/ NoUnderrun
  BY <1>1, <1>2, <1>6, MoveStep DEF Underrun, NoUnderrun, BeforeRun, AfterCopy, AfterPicb
<1>7. CASE WaitPlayback \/ WaitPicb
  BY <1>1, <1>2, <1>7, MoveStep DEF WaitPlayback, WaitPicb, BeforeRun, AfterCopy, AfterPicb
<1>8. QED
  BY <1>3, <1>4, <1>5, <1>6, <1>7

(* The timers change nothing the invariant is about. *)
LEMMA IdleStep ==
  ASSUME WriteInv, PlayTimer \/ PicbTimer \/ UNCHANGED vars PROVE WriteInv'
<1>1. UNCHANGED cursorVars /\ UNCHANGED queueVars /\ UNCHANGED <<civSeen, pc>>
  BY DEF PlayTimer, PicbTimer, vars, cursorVars, queueVars, engineVars, seenVars, callVars
<1>2. CursorsInStep' /\ BuffersInStep' /\ FirstTurn'
  BY <1>1 DEF WriteInv, CursorsInStep, BuffersInStep, FirstTurn, cursorVars, queueVars
<1>3. SeenInStep'
  BY <1>1 DEF WriteInv, SeenInStep, Seen, cursorVars, queueVars
<1>4. QED
  BY <1>2, <1>3 DEF WriteInv

LEMMA InvStep == ASSUME IInv, [Next]_vars PROVE IInv'
<1>1. TypeOK /\ LoopsApart
  BY DEF IInv
<1>2. TypeOK' /\ LoopsApart'
  BY <1>1, TypeStep, LoopsStep
<1>3. ASSUME Writing' PROVE WriteInv'
  <2>1. CASE Reset /\ mode = "write"
    BY <1>1, <2>1, ResetStep
  <2>2. CASE ~(Reset /\ mode = "write")
    <3>1. WriteInv /\ mode = "write"
      BY <1>1, <1>3, <2>2, WriteSteps DEF IInv, Writing
    <3>2. QED
      BY <1>1, <1>3, <2>2, <3>1, WriteSteps, ReadCivStep, QueueStep, LviStep, RunStep, PlayFrameStep,
         NextDescriptorStep, QuietSteps, IdleStep
  <2>3. QED
    BY <2>1, <2>2
<1>4. QED
  BY <1>2, <1>3 DEF IInv

THEOREM InvAlways == Spec => []IInv
<1>1. Init => IInv
  BY InitHolds
<1>2. IInv /\ [Next]_vars => IInv'
  BY InvStep
<1>3. QED
  BY <1>1, <1>2, PTL DEF Spec
-----------------------------------------------------------------------------
(* The theorems. *)

(* Every variable keeps its type: head and offset stay within the list and *)
(* the samples.                                                            *)
THEOREM TypeAlways == Spec => []TypeOK
<1>1. IInv => TypeOK
  BY DEF IInv
<1>2. QED
  BY <1>1, InvAlways, PTL

(* What is heard, by the buffers counted. *)
HeardInStep ==
  Writing => heard \in Nat /\ (heard >= 1 => Heard = (heard - 1) * BufferSize /\ Heard < len)

LEMMA HeardFacts == IInv => HeardInStep
<1> SUFFICES ASSUME IInv, Writing
             PROVE  /\ heard \in Nat
                    /\ heard >= 1 => Heard = (heard - 1) * BufferSize /\ Heard < len
  BY DEF HeardInStep
<1>1. /\ heard \in Nat /\ queued \in Nat /\ heard <= queued /\ civ = heard % BufferCount
      /\ BuffersInStep
  BY DEF IInv, TypeOK, WriteInv, CursorsInStep
<1>2. ASSUME heard >= 1 PROVE list[civ].at = (heard - 1) * BufferSize /\ list[civ].at < len
  <2>1. heard \in heard..queued
    BY <1>1
  <2>2. QED
    BY <1>1, <1>2, <2>1 DEF BuffersInStep
<1>3. heard >= 1 => Heard = list[civ].at
  BY DEF Heard, Phase
<1>4. QED
  BY <1>1, <1>2, <1>3

(* The buffer the engine plays is the one that is due. *)
THEOREM EngineInStep == Spec => []InOrder
<1>1. ASSUME IInv PROVE InOrder
  <2>1. SUFFICES ASSUME Writing, left > 0 PROVE list[civ].at = (heard - 1) * BufferSize
    BY DEF InOrder
  <2>2. heard \in Nat /\ heard >= 1
    BY <1>1, <2>1 DEF IInv, TypeOK, WriteInv, BuffersInStep
  <2>3. Heard = (heard - 1) * BufferSize /\ Heard = list[civ].at
    BY <1>1, <2>1, <2>2, HeardFacts DEF HeardInStep, Heard, Phase
  <2>4. QED
    BY <2>3
<1>2. QED
  BY <1>1, InvAlways, PTL

(* A step within a write takes up one buffer more, or none. *)
LEMMA HeardGrows ==
  ASSUME TypeOK, LoopsApart, [Next]_vars, Writing, Writing'
  PROVE  len' = len /\ (heard' = heard \/ heard' = heard + 1)
<1>1. \/ Arm \/ ReadCiv \/ Queue \/ WriteLvi \/ LviLost \/ ReadPicb \/ Check \/ Run
      \/ Underrun \/ NoUnderrun \/ WaitPlayback \/ WaitPicb
      \/ PlayFrame \/ NextDescriptor \/ PlayTimer \/ PicbTimer
      \/ UNCHANGED vars
  BY WriteSteps DEF Reset, Writing
<1>2. CASE Arm \/ ReadCiv \/ Queue \/ WriteLvi \/ LviLost \/ ReadPicb \/ Check
  BY <1>2 DEF Arm, ReadCiv, Queue, WriteLvi, LviLost, ReadPicb, Check, callVars
<1>3. CASE Underrun \/ NoUnderrun \/ WaitPlayback \/ WaitPicb \/ PlayFrame \/ PlayTimer
           \/ PicbTimer \/ UNCHANGED vars
  BY <1>3 DEF Underrun, NoUnderrun, WaitPlayback, WaitPicb, PlayFrame, PlayTimer, PicbTimer, vars,
     callVars
<1>4. CASE Run \/ NextDescriptor
  BY <1>4 DEF Run, SetRun, NextDescriptor, Load, callVars
<1>5. QED
  BY <1>1, <1>2, <1>3, <1>4

LEMMA OutputInits == Init => Output!OutputInit
  BY DEF Init, Output!OutputInit, Phase, Total, Heard, Count, Writing

LEMMA OutputSteps ==
  ASSUME IInv, [Next]_vars
  PROVE  [Output!OutputNext]_Output!outputVars
<1>1. IInv'
  BY InvStep
<1>2. HeardInStep /\ HeardInStep'
  BY <1>1, HeardFacts, PTL
<1>3. TypeOK /\ LoopsApart /\ BufferSize \in Nat /\ BufferSize >= 2 /\ len' \in Nat
  BY <1>1, ListFacts DEF IInv, TypeOK
<1>4. /\ ~Writing => Phase = "none" /\ Total = 0 /\ Heard = 0 /\ Count = 0
      /\ Writing /\ heard = 0 => Phase = "called" /\ Total = len /\ Heard = 0 /\ Count = 0
      /\ Writing /\ heard # 0 => Phase = "playing" /\ Total = len /\ Count = heard - 1
  BY DEF Phase, Total, Heard, Count
<1>5. /\ ~Writing' => Phase' = "none" /\ Total' = 0 /\ Heard' = 0 /\ Count' = 0
      /\ Writing' /\ heard' = 0 => Phase' = "called" /\ Total' = len' /\ Heard' = 0 /\ Count' = 0
      /\ Writing' /\ heard' # 0 => Phase' = "playing" /\ Total' = len' /\ Count' = heard' - 1
  BY DEF Phase, Total, Heard, Count
<1>6. CASE ~Writing /\ ~Writing'
  BY <1>4, <1>5, <1>6 DEF Output!outputVars
<1>7. CASE ~Writing /\ Writing'
  <2>1. heard' = 0
    BY <1>3, <1>7, WriteSteps DEF Reset
  <2>2. Output!Call
    BY <1>3, <1>4, <1>5, <1>7, <2>1 DEF Output!Call
  <2>3. QED
    BY <2>2 DEF Output!OutputNext
<1>8. CASE Writing /\ ~Writing'
  <2>1. Output!End
    BY <1>4, <1>5, <1>8 DEF Output!End
  <2>2. QED
    BY <2>1 DEF Output!OutputNext
<1>9. CASE Writing /\ Writing'
  <2>1. len' = len /\ (heard' = heard \/ heard' = heard + 1) /\ heard \in Nat
    BY <1>2, <1>3, <1>9, HeardGrows DEF HeardInStep
  <2>2. /\ heard >= 1 => Heard = (heard - 1) * BufferSize /\ Heard < len
        /\ heard' >= 1 => Heard' = (heard' - 1) * BufferSize /\ Heard' < len'
    BY <1>2, <1>9 DEF HeardInStep
  <2>3. CASE heard' = heard
    <3>1. Heard' = Heard
      <4>1. CASE heard = 0
        BY <1>4, <1>5, <1>9, <2>3, <4>1
      <4>2. CASE heard >= 1
        BY <2>2, <2>3, <4>2
      <4>3. QED
        BY <2>1, <4>1, <4>2
    <3>2. QED
      BY <1>4, <1>5, <1>9, <2>1, <2>3, <3>1 DEF Output!outputVars
  <2>4. CASE heard = 0 /\ heard' = 1
    <3>1. Heard' = 0 /\ 0 < len
      BY <1>3, <2>1, <2>2, <2>4
    <3>2. Output!First
      BY <1>4, <1>5, <1>9, <2>1, <2>4, <3>1 DEF Output!First
    <3>3. QED
      BY <3>2 DEF Output!OutputNext
  <2>5. CASE heard >= 1 /\ heard' = heard + 1
    <3>1. (heard + 1 - 1) * BufferSize = (heard - 1) * BufferSize + BufferSize
      BY <1>3, <2>1
    <3>2. Heard' = Heard + BufferSize /\ Heard' < len
      BY <2>1, <2>2, <2>5, <3>1
    <3>3. Output!Following
      BY <1>4, <1>5, <1>9, <2>1, <2>5, <3>2 DEF Output!Following
    <3>4. QED
      BY <3>3 DEF Output!OutputNext
  <2>6. QED
    BY <2>1, <2>3, <2>4, <2>5
<1>10. QED
  BY <1>6, <1>7, <1>8, <1>9

(* play_samples (main.rs 701-848) lets the client hear the buffers of a    *)
(* write in order, each one once and none beyond the last, for every size  *)
(* of the list and of the buffers and every speed of the engine.           *)
THEOREM WriteImplementsOutput == Spec => PlaysInOrder
  BY OutputInits, OutputSteps, InvAlways, PTL DEF Spec, PlaysInOrder, Output!OutputSpec

(* The descriptors from CIV to LVI are those of the counters from heard on.*)
LEMMA AnnouncedFacts ==
  ASSUME TypeOK, CursorsInStep, NEW i \in Announced
  PROVE  \E k \in heard..queued : i = k % BufferCount
<1>1. /\ heard \in Nat /\ queued \in Nat /\ queued - heard < BufferCount
      /\ civ = heard % BufferCount
  BY DEF TypeOK, CursorsInStep
<1>2. PICK a \in heard..queued : lvi = a % BufferCount
  BY DEF CursorsInStep
<1>3. (lvi + BufferCount - civ) % BufferCount = a - heard
  <2>1. a \in Int /\ heard \in Int /\ heard <= a /\ a < heard + BufferCount
    BY <1>1, <1>2, ListFacts
  <2>2. a - heard = IF civ <= lvi THEN lvi - civ ELSE BufferCount + lvi - civ
    BY <1>1, <1>2, <2>1, ListFacts, ModApart
  <2>3. civ \in Int /\ lvi \in Int /\ a - heard \in 0..BufferCount-1
    BY <2>1, ListFacts DEF TypeOK
  <2>4. (a - heard) % BufferCount = a - heard
    BY <2>3, ListFacts, ModSmall
  <2>5. CASE civ <= lvi
    <3>1. lvi + BufferCount - civ = BufferCount * 1 + (a - heard)
      BY <2>1, <2>2, <2>3, <2>5, ListFacts
    <3>2. (BufferCount * 1 + (a - heard)) % BufferCount = (a - heard) % BufferCount
      BY <2>3, ListFacts, ModLap, 1 \in Int, a - heard \in Int
    <3>3. QED
      BY <2>4, <3>1, <3>2
  <2>6. CASE ~(civ <= lvi)
    <3>1. lvi + BufferCount - civ = a - heard
      BY <2>1, <2>2, <2>3, <2>6, ListFacts
    <3>2. QED
      BY <2>4, <3>1
  <2>7. QED
    BY <2>5, <2>6
<1>4. PICK j \in 0..(a - heard) : i = (civ + j) % BufferCount
  BY <1>3 DEF Announced
<1>5. ((heard % BufferCount) + j) % BufferCount = (heard + j) % BufferCount
  BY <1>1, ListFacts, ModPlus, heard \in Int, j \in Int
<1>6. heard + j \in heard..queued
  BY <1>1, <1>2, <1>4
<1>7. QED
  BY <1>1, <1>4, <1>5, <1>6

(* play_samples leaves the descriptors the engine may still play alone,    *)
(* although it learns where the engine is only from the reading of CIV.    *)
THEOREM QueuedIntactAlways == Spec => QueuedIntact
<1>1. ASSUME IInv, [Next]_vars, Writing PROVE \A i \in Announced : list'[i] = list[i]
  <2>1. CASE Queue
    <3>1. WriteInv /\ TypeOK
      BY <1>1 DEF IInv
    <3>2. CASE head = civSeen
      BY <2>1, <3>2 DEF Queue
    <3>3. CASE head # civSeen
      <4>1. PICK s \in 0..heard : Seen(s)
        BY <2>1, <3>1 DEF Queue, WriteInv, SeenInStep
      <4>2. \A k \in heard..queued : k % BufferCount # head
        BY <2>1, <3>1, <3>3, <4>1, HeadIsFree DEF Queue
      <4>3. \A i \in Announced : i # head /\ i \in Index
        BY <3>1, <4>2, AnnouncedFacts, NextPosition, SMTT(30) DEF WriteInv, TypeOK
      <4>4. list' = [list EXCEPT ![head] = Filled(Copied(offset), offset)]
        BY <2>1, <3>3 DEF Queue
      <4>5. QED
        BY <3>1, <4>3, <4>4 DEF TypeOK
    <3>4. QED
      BY <3>2, <3>3
  <2>2. CASE ~Queue
    <3>1. list' = list
      <4>1. CASE \/ Reset \/ Arm \/ ReadCiv \/ WriteLvi \/ LviLost \/ ReadPicb \/ Check \/ Run
                 \/ Underrun \/ NoUnderrun
        BY <4>1 DEF Reset, Arm, ReadCiv, WriteLvi, LviLost, ReadPicb, Check, Run, Underrun, NoUnderrun
      <4>2. CASE \/ WaitPlayback \/ WaitPicb \/ ToneReadPicb \/ ToneReadCiv \/ ToneReset
                 \/ ToneRunLost \/ Stop \/ Fails
        BY <4>2 DEF WaitPlayback, WaitPicb, ToneReadPicb, ToneReadCiv, ToneReset, ToneRunLost,
           Stop, Fails
      <4>3. CASE PlayFrame \/ NextDescriptor \/ PlayTimer \/ PicbTimer \/ UNCHANGED vars
        BY <4>3 DEF PlayFrame, NextDescriptor, PlayTimer, PicbTimer, vars
      <4>4. ~(BeginWrite \/ BeginTone)
        BY <1>1 DEF BeginWrite, BeginTone, Writing
      <4>5. QED
        BY <1>1, <2>2, <4>1, <4>2, <4>3, <4>4 DEF Next, Driver
    <3>2. QED
      BY <3>1
  <2>3. QED
    BY <2>1, <2>2
<1>2. IInv /\ [Next]_vars => [Writing => \A i \in Announced : list'[i] = list[i]]_vars
  BY <1>1
<1>3. QED
  BY <1>2, InvAlways, PTL DEF Spec, QueuedIntact

(* play_samples leaves for underrun only when all has been queued and      *)
(* played, although it compares the LVI it has just moved with a CIV read  *)
(* at the start of the turn.                                               *)
THEOREM UnderrunDrainedAlways == Spec => UnderrunDrained
<1>1. ASSUME IInv, Underrun, ~lost PROVE heard = queued /\ left < 2 /\ len - offset < 2
  <2>1. /\ pc = "underrun" /\ lvi = civSeen /\ Writing
    BY <1>1 DEF Underrun, Writing, IInv, LoopsApart, TypeOK
  <2>2. /\ heard \in Nat /\ queued \in Nat /\ heard <= queued /\ lvi = queued % BufferCount
    BY <1>1, <2>1 DEF IInv, TypeOK, WriteInv, CursorsInStep
  <2>3. PICK s \in 0..heard : Seen(s)
    BY <1>1, <2>1 DEF IInv, WriteInv, SeenInStep, AfterCopy
  <2>4. s % BufferCount = queued % BufferCount /\ queued - s < BufferCount
    BY <2>1, <2>2, <2>3 DEF Seen
  <2>5. s = queued
    <3>1. s \in Nat /\ s <= queued
      BY <2>2
    <3>2. QED
      BY <2>2, <2>4, <3>1, Apart
  <2>6. left < 2 \/ s < heard
    BY <2>1, <2>3 DEF Seen, AfterPicb
  <2>7. len - offset < 2
    BY <2>1, <2>3, <2>5 DEF Seen, AfterCopy
  <2>8. QED
    BY <2>2, <2>5, <2>6, <2>7
<1>2. IInv /\ [Next]_vars
        => [Underrun /\ ~lost => heard = queued /\ left < 2 /\ len - offset < 2]_vars
  BY <1>1
<1>3. QED
  BY <1>2, InvAlways, PTL DEF Spec, UnderrunDrained
-----------------------------------------------------------------------------
(* Until the first call has armed its timer there is none that could       *)
(* expire, and what has expired since is this call's.                      *)
FirstTimer ==
  /\ playbacks = 0 => pc = "idle"
  /\ playbacks <= 1 /\ pc \in {"reset", "arm"} => ~playArmed /\ ~playSet
  /\ playbacks = 0 => ~playArmed /\ ~playSet
  /\ playbacks <= 1 /\ playSet => expired

LEMMA FirstTimerStep == ASSUME TypeOK, FirstTimer, [Next]_vars PROVE FirstTimer'
<1>1. CASE BeginWrite \/ BeginTone
  <2>1. playbacks' = playbacks + 1 /\ pc' = "reset" /\ UNCHANGED <<playArmed, playSet, expired>>
    BY <1>1 DEF BeginWrite, BeginTone, timerVars
  <2>2. playbacks \in Nat
    BY DEF TypeOK
  <2>3. playbacks' # 0 /\ (playbacks' <= 1 => playbacks = 0)
    BY <2>1, <2>2
  <2>4. QED
    BY <2>1, <2>2, <2>3 DEF FirstTimer
<1>2. CASE Reset \/ Arm
  BY <1>2 DEF Reset, Arm, timerVars, callVars, FirstTimer
<1>3. CASE Fails
  <2>1. pc # "idle" /\ pc' = "idle" /\ UNCHANGED <<playSet, expired, playbacks>>
    BY <1>3 DEF Fails, FailingPc
  <2>2. QED
    BY <2>1 DEF FirstTimer
<1>4. CASE \/ ReadCiv \/ Queue \/ WriteLvi \/ LviLost \/ ReadPicb \/ Check \/ Run
           \/ Underrun \/ NoUnderrun \/ WaitPlayback \/ WaitPicb
  <2>1. /\ pc \notin {"idle", "reset", "arm"} /\ pc' \notin {"idle", "reset", "arm"}
        /\ UNCHANGED <<playArmed, expired, playbacks>> /\ (playSet' => playSet)
    BY <1>4 DEF ReadCiv, Queue, WriteLvi, LviLost, ReadPicb, Check, Run, Underrun, NoUnderrun,
       WaitPlayback, WaitPicb, timerVars, callVars
  <2>2. QED
    BY <2>1 DEF FirstTimer
<1>5. CASE ToneReadPicb \/ ToneReadCiv \/ ToneReset \/ ToneRunLost \/ Stop
  <2>1. /\ pc \notin {"idle", "reset", "arm"} /\ pc' \notin {"reset", "arm"}
        /\ UNCHANGED <<timerVars, expired, playbacks>>
    BY <1>5 DEF ToneReadPicb, ToneReadCiv, ToneReset, ToneRunLost, Stop, callVars
  <2>2. QED
    BY <2>1 DEF FirstTimer, timerVars
<1>6. CASE PlayTimer
  BY <1>6 DEF PlayTimer, callVars, FirstTimer
<1>7. CASE PlayFrame \/ NextDescriptor \/ PicbTimer \/ UNCHANGED vars
  BY <1>7 DEF PlayFrame, NextDescriptor, PicbTimer, vars, timerVars, callVars, FirstTimer
<1>8. QED
  BY <1>1, <1>2, <1>3, <1>4, <1>5, <1>6, <1>7 DEF Next, Driver

(* The first call of play_samples or loop_samples is never ended early: if *)
(* the playback event ends it, its own timer has expired (main.rs 682).    *)
(* It takes an earlier call, whose timer nobody cancelled, to break that.  *)
FirstEndedByOwnTimer == [][playbacks <= 1 /\ (WaitPlayback \/ (Check /\ playSet)) => expired]_vars

(* play_samples and loop_samples are right about their timer, once.        *)
THEOREM FirstCallEndsInTime == Spec => FirstEndedByOwnTimer
<1>1. Init => FirstTimer
  BY DEF Init, FirstTimer
<1>2. TypeOK /\ FirstTimer /\ [Next]_vars => FirstTimer'
  BY FirstTimerStep
<1>3. FirstTimer /\ playbacks <= 1 /\ (WaitPlayback \/ (Check /\ playSet)) => expired
  BY DEF FirstTimer, WaitPlayback, Signaled
<1>4. FirstTimer /\ [Next]_vars
        => [playbacks <= 1 /\ (WaitPlayback \/ (Check /\ playSet)) => expired]_vars
  BY <1>3
<1>5. QED
  BY <1>1, <1>2, <1>4, TypeAlways, PTL DEF Spec, FirstEndedByOwnTimer
=============================================================================
