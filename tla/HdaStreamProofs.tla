-------------------------- MODULE HdaStreamProofs --------------------------
(***************************************************************************)
(* Proofs about HdaStream, for buffers of any size and number, samples of  *)
(* any length, and any delays that satisfy TimelyAssumption.               *)
(***************************************************************************)
EXTENDS HdaStream, RingArithmetic, WellFoundedInduction

(***************************************************************************)
(* The inductive invariant, as a conjunction of named parts.               *)
(***************************************************************************)
(* Nothing has failed since the engine was last known to be stopped. *)
Ok == faults = {}

Filled  == {"arm", "start", "start_lpib"}
InLoop  == LoopPc \cup {"stop"}
Playing == InLoop \cup {"start_lpib"}
Loaded  == {"setup", "prefill"} \cup Filled \cup InLoop

(* Where the engine may run, and where the buffers are mapped. *)
EngineFollowsPc ==
  /\ mapped <=> pc # "idle"
  /\ pc \in {"abort", "dead"} => "loop" \in faults
  /\ running /\ faults \cap {"loop", "stop"} = {} => pc \in Playing
  /\ Ok /\ pc \in Playing => running

(* The unplayed part of the samples lies in the ring, in order, from the   *)
(* engine's position up to the next buffer to fill.                        *)
RingHolds ==
  /\ played <= written /\ written <= played + Ring
  /\ written % Ring = bdlPos * BufferSize
  /\ written % req.len = samplesPos
  /\ \A k \in played..written-1 : k % Ring \in fresh /\ mem[k % Ring] = k % req.len
  /\ \A s \in fresh : \E k \in played..written-1 : s = k % Ring

RingInStep ==
  Ok => /\ pc \in Loaded => RingHolds
        /\ pc \in Playing => lpib = played % Ring

(* The ring is filled once before the engine starts. *)
PrefillInStep ==
  Ok => /\ pc = "setup" => written = 0 /\ copied = 0
        /\ pc = "prefill" => copied = written /\ written < Ring
        /\ pc \in Filled => written = Ring
        /\ pc \in {"setup", "prefill", "arm", "start"} => played = 0

(* The time since the last refill is bounded. *)
AgesBounded ==
  /\ pc \in {"start", "start_lpib"} => age <= StartGap
  /\ pc \in InLoop => age <= Gap(req.len)
  /\ pc = "fill" => readAge <= age

(* The number of samples played at the LPIB reading in startLpib, and at   *)
(* the one in actualLpib while the ring is refilled.                       *)
StartPlayed  == written - Ring + queueRoom + lag
ActualPlayed == written - copied - Ring + room + lag

(* What the loop knows of the engine's position. *)
LoopInStep ==
  Ok =>
  /\ pc = "start_lpib" => played <= age
  /\ pc \in InLoop =>
       /\ lag <= StartGap
       /\ played <= (IF pc = "fill" THEN written - copied ELSE written)
                      - Ring + BufferSize - 1 + lag + age
  /\ pc \in {"poll", "wait"} => startLpib = StartPlayed % Ring /\ StartPlayed <= played
  /\ pc = "fill" =>
       /\ actualLpib = ActualPlayed % Ring
       /\ ActualPlayed <= played /\ played <= ActualPlayed + readAge
       /\ copied < WholeBuffers(room) /\ (WholeBuffers(room) - copied) % BufferSize = 0

IInv ==
  /\ TypeOK
  /\ EngineFollowsPc
  /\ RingInStep
  /\ PrefillInStep
  /\ AgesBounded
  /\ LoopInStep

(* The playback timer and the samples played, which need neither the ring  *)
(* nor an engine that was stopped before: only one that was started.       *)
Started == "start" \notin faults

TimerInStep ==
  /\ playSet => timeLeft = 0
  /\ Started =>
       /\ pc = "start" => req.time <= timeLeft + age
       /\ pc \in Playing => running /\ req.time <= timeLeft + played + StartGap
       /\ pc \in {"stop", "cleanup"} => req.time <= played + StartGap
       /\ pc = "idle" /\ status = "success" => req.time <= played + StartGap

TimeInv == TypeOK /\ AgesBounded /\ TimerInStep
-----------------------------------------------------------------------------
(* Facts about the constants. *)

LEMMA RingFacts ==
  /\ BufferSize \in Nat /\ BufferSize > 0 /\ BufferCount \in Nat /\ BufferCount > 0
  /\ Ring \in Nat /\ Ring >= BufferSize /\ Ring > 0
  /\ StartGap \in Nat /\ Latency \in Nat
<1>1. BufferSize \in Nat /\ BufferSize > 0 /\ BufferCount \in Nat /\ BufferCount > 0
      /\ StartGap \in Nat /\ Latency \in Nat
  BY StreamAssumption
<1>2. Ring \in Nat
  BY <1>1 DEF Ring
<1>3. Ring >= BufferSize
  BY <1>1 DEF Ring
<1>4. QED
  BY <1>1, <1>2, <1>3

LEMMA RequestFacts ==
  ASSUME NEW r \in Requests
  PROVE  /\ r.len \in Nat /\ r.len > 0 /\ r.time \in Nat
         /\ TracePeriod(r.len) \in Nat /\ TracePeriod(r.len) > 0
         /\ Gap(r.len) \in Nat /\ StartGap + Gap(r.len) <= Ring - BufferSize
<1> USE StreamAssumption
<1>1. r.len \in Nat /\ r.len > 0
  BY DEF Requests
<1>2. r.time \in Nat
  <2>1. CASE \E n \in WriteLengths : r.time = (n \div SamplesPerMs) * SamplesPerMs
    <3>1. PICK n \in WriteLengths : r.time = (n \div SamplesPerMs) * SamplesPerMs
      BY <2>1
    <3>2. n \div SamplesPerMs \in Nat
      OBVIOUS
    <3>3. QED
      BY <3>1, <3>2
  <2>2. CASE \E ms \in ToneTimes : r.time = ms * SamplesPerMs
    BY <2>2
  <2>3. QED
    BY <2>1, <2>2 DEF Requests
<1>3. TracePeriod(r.len) \in Nat /\ TracePeriod(r.len) > 0
  <2>1. r.len \div SamplesPerSecond \in Nat
    BY <1>1
  <2>2. (r.len \div SamplesPerSecond) * SamplesPerMs \in Nat
    BY <2>1
  <2>3. QED
    BY <2>2 DEF TracePeriod
<1>4. Gap(r.len) \in Nat
  BY <1>3 DEF Gap
<1>5. QED
  BY <1>1, <1>2, <1>3, <1>4, TimelyAssumption

(* A buffer lies in the ring, and the next one follows it. *)
LEMMA BufferFacts ==
  ASSUME NEW b \in 0..BufferCount-1
  PROVE  /\ b * BufferSize \in Nat /\ b * BufferSize + BufferSize <= Ring
         /\ BufferSlots(b) \subseteq Slot
         /\ NextBuffer(b) \in 0..BufferCount-1
         /\ NextBuffer(b) * BufferSize = (b * BufferSize + BufferSize) % Ring
<1> USE RingFacts
<1>1. b * BufferSize \in Nat
  OBVIOUS
<1>2. (b + 1) * BufferSize = b * BufferSize + BufferSize
  OBVIOUS
<1>3. b + 1 < BufferCount => b * BufferSize + BufferSize < Ring
  <2>1. b + 1 < BufferCount => (b + 1) * BufferSize < BufferCount * BufferSize
    OBVIOUS
  <2>2. QED
    BY <1>2, <2>1 DEF Ring
<1>4. b + 1 = BufferCount => b * BufferSize + BufferSize = Ring
  BY <1>2 DEF Ring
<1>5. b * BufferSize + BufferSize <= Ring
  BY <1>3, <1>4, <1>1
<1>6. NextBuffer(b) = IF b + 1 = BufferCount THEN 0 ELSE b + 1
  BY ModNext DEF NextBuffer
<1>7. NextBuffer(b) * BufferSize = (b * BufferSize + BufferSize) % Ring
  <2>1. CASE b + 1 = BufferCount
    <3>1. (b * BufferSize + BufferSize) % Ring = 0
      BY <1>4, <2>1
    <3>2. NextBuffer(b) = 0
      BY <1>6, <2>1
    <3>3. QED
      BY <3>1, <3>2
  <2>2. CASE b + 1 < BufferCount
    <3>1. NextBuffer(b) * BufferSize = b * BufferSize + BufferSize
      BY <1>2, <1>6, <2>2
    <3>2. b * BufferSize + BufferSize \in 0..Ring-1
      BY <1>1, <1>3, <2>2
    <3>3. QED
      BY <3>1, <3>2, ModSmall
  <2>3. QED
    BY <2>1, <2>2
<1>8. BufferSlots(b) \subseteq Slot
  BY <1>1, <1>5 DEF BufferSlots, Slot
<1>9. QED
  BY <1>1, <1>5, <1>6, <1>7, <1>8

(* The slots of the buffer at a counter's position. *)
LEMMA SlotsAhead ==
  ASSUME NEW b \in 0..BufferCount-1, NEW w \in Nat, w % Ring = b * BufferSize,
         NEW j \in 0..BufferSize-1
  PROVE  (w + j) % Ring = b * BufferSize + j
<1> USE RingFacts
<1>1. ((w % Ring) + j) % Ring = (w + j) % Ring
  BY ModPlus, w \in Int, j \in Int
<1>2. b * BufferSize + j \in 0..Ring-1
  <2>1. b * BufferSize \in Nat /\ b * BufferSize + BufferSize <= Ring
    BY BufferFacts
  <2>2. QED
    BY <2>1
<1>3. QED
  BY <1>1, <1>2, ModSmall
-----------------------------------------------------------------------------
(* Filling any buffer at all keeps the types. *)
LEMMA FillTypes ==
  ASSUME TypeOK, FillBuffer
  PROVE  /\ mem' \in [Slot -> Nat] /\ fresh' \subseteq Slot
         /\ bdlPos' \in 0..BufferCount-1 /\ samplesPos' \in 0..req.len-1
<1> USE RingFacts
<1>1. /\ bdlPos \in 0..BufferCount-1 /\ samplesPos \in Nat /\ req.len \in Nat /\ req.len > 0
      /\ mem \in [Slot -> Nat] /\ fresh \subseteq Slot
  BY RequestFacts DEF TypeOK
<1>2. bdlPos * BufferSize \in Nat /\ BufferSlots(bdlPos) \subseteq Slot
      /\ NextBuffer(bdlPos) \in 0..BufferCount-1
  BY <1>1, BufferFacts
<1>3. ASSUME NEW s \in Slot PROVE (samplesPos + s - bdlPos * BufferSize) % req.len \in Nat
  BY <1>1, <1>2 DEF Slot
<1>4. mem' \in [Slot -> Nat]
  BY <1>1, <1>3 DEF FillBuffer
<1>5. samplesPos' \in 0..req.len-1
  BY <1>1 DEF FillBuffer, NextSample
<1>6. QED
  BY <1>1, <1>2, <1>4, <1>5 DEF FillBuffer

(* Filling a buffer whose samples have been played keeps the ring in order.*)
LEMMA FillKeepsRing ==
  ASSUME TypeOK, RingHolds, written + BufferSize <= played + Ring,
         FillBuffer, played' = played, req' = req
  PROVE  RingHolds'
<1> USE RingFacts
<1> DEFINE b == bdlPos
           w == written
           len == req.len
<1>1. /\ b \in 0..BufferCount-1 /\ w \in Nat /\ played \in Nat /\ len \in Nat /\ len > 0
      /\ samplesPos \in Nat /\ mem \in [Slot -> Nat] /\ fresh \subseteq Slot
  BY RequestFacts DEF TypeOK
<1>2. /\ w % Ring = b * BufferSize /\ w % len = samplesPos
      /\ played <= w /\ w <= played + Ring
  BY DEF RingHolds
<1>3. /\ written' = w + BufferSize /\ bdlPos' = NextBuffer(b)
      /\ samplesPos' = (samplesPos + BufferSize) % len
      /\ fresh' = fresh \cup BufferSlots(b)
      /\ mem' = [s \in Slot |-> IF s \in BufferSlots(b)
                                  THEN (samplesPos + s - b * BufferSize) % len
                                  ELSE mem[s]]
  BY DEF FillBuffer, NextSample
<1>4. b * BufferSize \in Nat /\ BufferSlots(b) \subseteq Slot
      /\ NextBuffer(b) \in 0..BufferCount-1
      /\ NextBuffer(b) * BufferSize = (b * BufferSize + BufferSize) % Ring
  BY <1>1, BufferFacts
<1>5. (w + BufferSize) % Ring = bdlPos' * BufferSize
  <2>1. ((w % Ring) + BufferSize) % Ring = (w + BufferSize) % Ring
    BY <1>1, ModPlus, w \in Int, BufferSize \in Int
  <2>2. QED
    BY <2>1, <1>2, <1>3, <1>4
<1>6. (w + BufferSize) % len = samplesPos'
  <2>1. ((w % len) + BufferSize) % len = (w + BufferSize) % len
    BY <1>1, ModPlus, w \in Int, BufferSize \in Int
  <2>2. QED
    BY <2>1, <1>2, <1>3
<1>9. ASSUME NEW j \in 0..BufferSize-1
      PROVE  /\ (w + j) % Ring \in BufferSlots(b)
             /\ (w + j) % Ring \in Slot
             /\ mem'[(w + j) % Ring] = (w + j) % len
  <2>1. (w + j) % Ring = b * BufferSize + j
    BY <1>1, <1>2, SlotsAhead
  <2>2. b * BufferSize + j \in BufferSlots(b)
    BY <1>4 DEF BufferSlots
  <2>3. samplesPos + (b * BufferSize + j) - b * BufferSize = samplesPos + j
    BY <1>1, <1>4
  <2>4. ((w % len) + j) % len = (w + j) % len
    BY <1>1, ModPlus, w \in Int, j \in Int
  <2>5. mem'[b * BufferSize + j] = (samplesPos + (b * BufferSize + j) - b * BufferSize) % len
    BY <1>3, <1>4, <2>2
  <2>6. QED
    BY <1>2, <1>4, <2>1, <2>2, <2>3, <2>4, <2>5
<1>10. ASSUME NEW s \in BufferSlots(b)
       PROVE  \E j \in 0..BufferSize-1 : s = (w + j) % Ring
  <2>1. s - b * BufferSize \in 0..BufferSize-1
    BY <1>4 DEF BufferSlots
  <2>2. (w + (s - b * BufferSize)) % Ring = b * BufferSize + (s - b * BufferSize)
    BY <1>1, <1>2, <2>1, SlotsAhead
  <2>3. s \in Int
    BY <1>4 DEF BufferSlots
  <2>4. b * BufferSize + (s - b * BufferSize) = s
    BY <1>4, <2>3
  <2>5. QED
    BY <2>1, <2>2, <2>4
<1>11. ASSUME NEW k \in played..w-1
       PROVE  k % Ring \notin BufferSlots(b)
  <2>1. ASSUME NEW j \in 0..BufferSize-1 PROVE k % Ring # (w + j) % Ring
    <3>1. k \in Int /\ w + j \in Int /\ k <= w + j /\ w + j < k + Ring /\ k # w + j
      BY <1>1
    <3>2. QED
      BY <3>1, ModApart
  <2>2. QED
    BY <2>1, <1>10
<1>12. ASSUME NEW k \in played..(w + BufferSize)-1
       PROVE  k % Ring \in fresh' /\ mem'[k % Ring] = k % len
  <2>1. CASE k < w
    <3>1. k \in played..w-1
      BY <1>1, <2>1
    <3>2. k % Ring \in fresh /\ mem[k % Ring] = k % len
      BY <3>1 DEF RingHolds
    <3>3. k % Ring \notin BufferSlots(b)
      BY <3>1, <1>11
    <3>4. QED
      BY <3>2, <3>3, <1>1, <1>3
  <2>2. CASE k >= w
    <3>1. k - w \in 0..BufferSize-1 /\ w + (k - w) = k
      BY <1>1, <2>2
    <3>2. k % Ring \in BufferSlots(b) /\ mem'[k % Ring] = k % len
      BY <3>1, <1>9
    <3>3. QED
      BY <3>2, <1>3
  <2>3. QED
    BY <1>1, <2>1, <2>2
<1>13. ASSUME NEW s \in fresh'
       PROVE  \E k \in played..(w + BufferSize)-1 : s = k % Ring
  <2>1. CASE s \in fresh
    <3>1. PICK k \in played..w-1 : s = k % Ring
      BY <2>1 DEF RingHolds
    <3>2. k \in played..(w + BufferSize)-1
      BY <1>1
    <3>3. QED
      BY <3>1, <3>2
  <2>2. CASE s \in BufferSlots(b)
    <3>1. PICK j \in 0..BufferSize-1 : s = (w + j) % Ring
      BY <2>2, <1>10
    <3>2. w + j \in played..(w + BufferSize)-1
      BY <1>1, <1>2
    <3>3. QED
      BY <3>1, <3>2
  <2>3. QED
    BY <1>3, <2>1, <2>2
<1>14. QED
  <2>1. played' <= written' /\ written' <= played' + Ring
    BY <1>1, <1>2, <1>3
  <2>2. \A k \in played'..written'-1 : k % Ring \in fresh' /\ mem'[k % Ring] = k % req'.len
    BY <1>3, <1>12
  <2>3. \A s \in fresh' : \E k \in played'..written'-1 : s = k % Ring
    BY <1>3, <1>13
  <2>4. QED
    BY <2>1, <2>2, <2>3, <1>3, <1>5, <1>6 DEF RingHolds, Ring

(* Playing a sample that is there keeps the ring in order. *)
LEMMA PlayKeepsRing ==
  ASSUME TypeOK, RingHolds, played < written, lpib = played % Ring,
         fresh' = fresh \ {lpib}, played' = played + 1, lpib' = (lpib + 1) % Ring,
         UNCHANGED <<mem, written, bdlPos, samplesPos, req>>
  PROVE  RingHolds' /\ lpib' = played' % Ring
<1> USE RingFacts
<1>1. played \in Nat /\ written \in Nat /\ written <= played + Ring
  BY DEF TypeOK, RingHolds
<1>2. lpib' = played' % Ring
  <2>1. ((played % Ring) + 1) % Ring = (played + 1) % Ring
    BY <1>1, ModPlus, played \in Int, 1 \in Int
  <2>2. QED
    BY <2>1
<1>3. ASSUME NEW k \in played+1..written-1
      PROVE  k % Ring \in fresh' /\ mem[k % Ring] = k % req.len
  <2>1. k \in played..written-1
    BY <1>1
  <2>2. k % Ring \in fresh /\ mem[k % Ring] = k % req.len
    BY <2>1 DEF RingHolds
  <2>3. k % Ring # played % Ring
    <3>1. played \in Int /\ k \in Int /\ played <= k /\ k < played + Ring /\ k # played
      BY <1>1
    <3>2. QED
      BY <3>1, ModApart
  <2>4. QED
    BY <2>2, <2>3
<1>4. ASSUME NEW s \in fresh'
      PROVE  \E k \in played+1..written-1 : s = k % Ring
  <2>1. s \in fresh /\ s # played % Ring
    OBVIOUS
  <2>2. PICK k \in played..written-1 : s = k % Ring
    BY <2>1 DEF RingHolds
  <2>3. k # played
    BY <2>1, <2>2
  <2>4. k \in played+1..written-1
    BY <1>1, <2>3
  <2>5. QED
    BY <2>2, <2>4
<1>5. played + 1 <= written /\ written <= played + 1 + Ring
  BY <1>1
<1>6. QED
  BY <1>1, <1>2, <1>3, <1>4, <1>5 DEF RingHolds, Ring

(* The engine cannot get ahead of the refills. *)
LEMMA NotDrained ==
  ASSUME TypeOK, PrefillInStep, AgesBounded, LoopInStep, Ok, pc \in Playing
  PROVE  /\ played < written
         /\ pc \in {"poll", "wait"} => played < StartPlayed + Ring
<1> USE RingFacts
<1>1. /\ played \in Nat /\ written \in Nat /\ age \in Nat /\ lag \in Nat
      /\ copied \in Nat /\ queueRoom \in Nat /\ req \in Requests
  BY DEF TypeOK
<1>2. Gap(req.len) \in Nat /\ StartGap + Gap(req.len) <= Ring - BufferSize
  BY <1>1, RequestFacts
<1>3. CASE pc = "start_lpib"
  <2>1. written = Ring /\ played <= age /\ age <= StartGap
    BY <1>3 DEF PrefillInStep, AgesBounded, LoopInStep, Filled
  <2>2. QED
    BY <1>1, <1>2, <1>3, <2>1
<1>4. CASE pc \in InLoop
  <2>1. age <= Gap(req.len) /\ lag <= StartGap
    BY <1>4 DEF AgesBounded, LoopInStep
  <2>2. played <= written - Ring + BufferSize - 1 + lag + age
    <3>1. CASE pc = "fill"
      <4>1. played <= (written - copied) - Ring + BufferSize - 1 + lag + age
        BY <1>4, <3>1 DEF LoopInStep
      <4>2. QED
        BY <4>1, <1>1
    <3>2. CASE pc # "fill"
      BY <1>4, <3>2 DEF LoopInStep
    <3>3. QED
      BY <3>1, <3>2
  <2>3. played < written
    BY <1>1, <1>2, <2>1, <2>2
  <2>4. written <= StartPlayed + Ring
    BY <1>1 DEF StartPlayed
  <2>5. QED
    <3>1. StartPlayed \in Int
      BY <1>1 DEF StartPlayed
    <3>2. QED
      BY <2>3, <2>4, <3>1, <1>1
<1>5. QED
  BY <1>3, <1>4 DEF Playing

(* The distance the driver computes is the number of samples played, as    *)
(* long as that is less than a ring.                                       *)
LEMMA AdvanceFacts ==
  ASSUME NEW a \in Int, NEW b \in Int, a <= b, b < a + Ring
  PROVE  Advance(a % Ring, b % Ring) = b - a
  BY RingFacts, ModApart DEF Advance

(* The room that is refilled is a whole number of buffers. *)
LEMMA WholeBuffersFacts ==
  ASSUME NEW n \in Nat
  PROVE  /\ WholeBuffers(n) \in 0..n
         /\ n - WholeBuffers(n) \in 0..BufferSize-1
         /\ WholeBuffers(n) % BufferSize = 0
         /\ n >= BufferSize => WholeBuffers(n) > 0
<1> USE RingFacts
<1>1. n % BufferSize \in 0..BufferSize-1 /\ n = BufferSize * (n \div BufferSize) + (n % BufferSize)
      /\ n \div BufferSize \in Int
  BY ModDiv, n \in Int
<1>2. n \div BufferSize >= 0
  OBVIOUS
<1>3. BufferSize * (n \div BufferSize) >= 0
  BY <1>1, <1>2
<1>4. WholeBuffers(n) = BufferSize * (n \div BufferSize)
  BY <1>1 DEF WholeBuffers
<1>5. (BufferSize * (n \div BufferSize) + 0) % BufferSize = 0 % BufferSize
  BY <1>1, ModLap, 0 \in Int
<1>6. 0 % BufferSize = 0
  OBVIOUS
<1>7. BufferSize * (n \div BufferSize) + 0 = BufferSize * (n \div BufferSize)
  BY <1>1
<1>8. QED
  BY <1>1, <1>3, <1>4, <1>5, <1>6, <1>7

(* What is left to copy after one more buffer. *)
LEMMA OneBufferLess ==
  ASSUME NEW d \in Nat, d > 0, d % BufferSize = 0
  PROVE  d >= BufferSize /\ (d - BufferSize) % BufferSize = 0
<1> USE RingFacts
<1>1. d >= BufferSize
  <2>1. d < BufferSize => d \in 0..BufferSize-1
    OBVIOUS
  <2>2. QED
    BY <2>1, ModSmall
<1>2. (BufferSize * (-1) + d) % BufferSize = d % BufferSize
  BY ModLap, d \in Int, -1 \in Int
<1>3. BufferSize * (-1) + d = d - BufferSize
  OBVIOUS
<1>4. QED
  BY <1>1, <1>2, <1>3
-----------------------------------------------------------------------------
(* The invariant holds initially, and every step keeps each part of it.    *)

(* TypeOK, the flags apart from the rest: no one prover is good at both. *)
FlagsOK ==
  running \in BOOLEAN /\ traceSet \in BOOLEAN /\ playSet \in BOOLEAN /\ mapped \in BOOLEAN

EngineOK ==
  /\ lpib \in Slot /\ mem \in [Slot -> Nat] /\ fresh \subseteq Slot
  /\ traceLeft \in Nat /\ timeLeft \in Nat /\ age \in Nat /\ readAge \in Nat
  /\ written \in Nat /\ played \in Nat /\ lag \in Nat
  /\ req \in Requests

DriverOK ==
  /\ pc \in {"idle", "setup", "prefill", "arm", "start", "start_lpib", "stop", "cleanup",
             "abort", "dead"} \cup LoopPc
  /\ bdlPos \in 0..BufferCount-1 /\ samplesPos \in 0..req.len-1
  /\ startLpib \in Slot /\ actualLpib \in Slot
  /\ queueRoom \in 0..BufferSize-1 /\ room \in Nat /\ copied \in Nat
  /\ faults \subseteq {"start", "loop", "stop"} /\ status \in {"none", "success", "error"}
  /\ playbacks \in Nat

LEMMA TypeParts == TypeOK <=> FlagsOK /\ EngineOK /\ DriverOK
  BY DEF TypeOK, FlagsOK, EngineOK, DriverOK

LEMMA InitHolds == Init => IInv
<1> SUFFICES ASSUME Init PROVE IInv
  OBVIOUS
<1> USE RingFacts
<1>1. TypeOK
  <2>1. req \in Requests /\ req.len \in Nat /\ req.len > 0
    BY RequestFacts DEF Init
  <2>2. 0 \in Slot
    BY DEF Slot
  <2>3. FlagsOK
    BY Zenon DEF Init, FlagsOK
  <2>4. EngineOK
    BY <2>1, <2>2 DEF Init, EngineOK
  <2>5. DriverOK
    BY <2>1, <2>2 DEF Init, DriverOK
  <2>6. QED
    BY <2>3, <2>4, <2>5, TypeParts
<1>2. EngineFollowsPc /\ RingInStep /\ PrefillInStep /\ AgesBounded /\ LoopInStep
  BY DEF Init, EngineFollowsPc, RingInStep, PrefillInStep, AgesBounded, LoopInStep,
     Ok, Loaded, Playing, InLoop, LoopPc, Filled
<1>3. QED
  BY <1>1, <1>2 DEF IInv

(* Room is left for the buffer that is filled next. *)
LEMMA RefillFacts ==
  ASSUME IInv, Ok, pc = "fill"
  PROVE  /\ written + BufferSize <= played + Ring
         /\ room - copied >= BufferSize
         /\ WholeBuffers(room) - copied >= BufferSize
         /\ (WholeBuffers(room) - (copied + BufferSize)) % BufferSize = 0
<1> USE RingFacts
<1>1. /\ played \in Nat /\ written \in Nat /\ room \in Nat /\ copied \in Nat /\ lag \in Nat
  BY DEF IInv, TypeOK
<1>2. /\ ActualPlayed <= played
      /\ copied < WholeBuffers(room) /\ (WholeBuffers(room) - copied) % BufferSize = 0
  BY DEF IInv, LoopInStep
<1>3. WholeBuffers(room) \in 0..room
  BY <1>1, WholeBuffersFacts
<1>4. /\ WholeBuffers(room) - copied >= BufferSize
      /\ (WholeBuffers(room) - copied - BufferSize) % BufferSize = 0
  BY <1>1, <1>2, <1>3, OneBufferLess, WholeBuffers(room) - copied \in Nat
<1>5. WholeBuffers(room) - copied - BufferSize = WholeBuffers(room) - (copied + BufferSize)
  BY <1>1, <1>3
<1>6. QED
  BY <1>1, <1>2, <1>3, <1>4, <1>5 DEF ActualPlayed

(* No step breaks a type, whatever the engine does. *)
LEMMA TypeStep == ASSUME TypeOK, [Next]_vars PROVE TypeOK'
<1> USE RingFacts
<1>0. FlagsOK' /\ EngineOK' /\ DriverOK' => TypeOK'
  BY DEF TypeOK, FlagsOK, EngineOK, DriverOK
<1>1. TypeOK /\ FlagsOK /\ EngineOK /\ DriverOK
  BY TypeParts
<1>2. req.len \in Nat /\ req.len > 0
  BY <1>1, RequestFacts DEF EngineOK
<1>3. 0 \in Slot
  BY DEF Slot
<1> DEFINE Silent == Setup \/ SetupFails \/ StartFails \/ WaitTrace \/ WaitPlayback \/ LoopFails
                       \/ Stop \/ StopFails \/ Cleanup \/ Panic
<1>4. FlagsOK'
  <2>1. CASE Begin \/ SetupFails \/ Cleanup \/ Arm \/ WaitPlayback \/ WaitTrace \/ Start \/ Stop \/ Tick
    BY <1>1, <2>1, Zenon DEF FlagsOK, Begin, SetupFails, Cleanup, Arm, WaitPlayback, WaitTrace,
       Start, Stop, Tick, engineVars, timerVars
  <2>2. CASE Setup \/ Prefill \/ StartFails \/ ReadStart \/ Poll \/ Refill \/ LoopFails
             \/ StopFails \/ Panic \/ UNCHANGED vars
    BY <1>1, <2>2 DEF FlagsOK, Setup, Prefill, StartFails, ReadStart, Poll, Refill, LoopFails,
       StopFails, Panic, vars, engineVars, timerVars
  <2>3. QED
    BY <2>1, <2>2 DEF Next, Driver
<1>5. CASE Begin
  <2>1. req' \in Requests /\ req'.len \in Nat /\ req'.len > 0
    BY <1>5, RequestFacts DEF Begin
  <2>2. EngineOK'
    BY <1>1, <1>3, <1>5, <2>1 DEF EngineOK, Begin
  <2>3. DriverOK'
    BY <1>1, <1>3, <1>5, <2>1 DEF DriverOK, Begin
  <2>4. QED
    BY <1>4, <2>2, <2>3, <1>0
<1>6. CASE Prefill
  <2>1. /\ mem' \in [Slot -> Nat] /\ fresh' \subseteq Slot
        /\ bdlPos' \in 0..BufferCount-1 /\ samplesPos' \in 0..req.len-1
    BY <1>1, <1>6, FillTypes DEF Prefill
  <2>2. copied' \in Nat /\ written' \in Nat
    BY <1>1, <1>6 DEF Prefill, FillBuffer, EngineOK, DriverOK
  <2>3. EngineOK' /\ DriverOK'
    BY <1>1, <1>6, <2>1, <2>2 DEF Prefill, EngineOK, DriverOK, timerVars, ageVars
  <2>4. QED
    BY <1>4, <2>3, <1>0
<1>7. CASE Refill
  <2>1. /\ mem' \in [Slot -> Nat] /\ fresh' \subseteq Slot
        /\ bdlPos' \in 0..BufferCount-1 /\ samplesPos' \in 0..req.len-1
    BY <1>1, <1>7, FillTypes DEF Refill
  <2>2. copied' \in Nat /\ written' \in Nat
    BY <1>1, <1>7 DEF Refill, FillBuffer, EngineOK, DriverOK
  <2>3. copied' = WholeBuffers(room) => room - copied' \in 0..BufferSize-1
    BY <1>1, WholeBuffersFacts DEF DriverOK
  <2>4. queueRoom' \in 0..BufferSize-1 /\ startLpib' \in Slot /\ age' \in Nat
        /\ pc' \in LoopPc
    BY <1>1, <1>7, <2>3 DEF Refill, EngineOK, DriverOK, LoopPc
  <2>5. EngineOK' /\ DriverOK'
    BY <1>1, <1>7, <2>1, <2>2, <2>4 DEF Refill, EngineOK, DriverOK, timerVars
  <2>6. QED
    BY <1>4, <2>5, <1>0
<1>8. CASE Arm
  <2>1. req.time \in Nat /\ TracePeriod(req.len) \in Nat
    BY <1>1, RequestFacts DEF EngineOK
  <2>2. EngineOK' /\ DriverOK'
    BY <1>1, <1>8, <2>1 DEF Arm, EngineOK, DriverOK, engineVars, loopVars
  <2>3. QED
    BY <1>4, <2>2, <1>0
<1>9. CASE Start \/ ReadStart
  <2>1. Start => EngineOK' /\ DriverOK'
    BY <1>1, <1>3 DEF Start, EngineOK, DriverOK, timerVars, loopVars, ageVars
  <2>2. ReadStart => EngineOK' /\ DriverOK'
    BY <1>1 DEF ReadStart, EngineOK, DriverOK, engineVars, timerVars, LoopPc
  <2>3. EngineOK' /\ DriverOK'
    BY <1>9, <2>1, <2>2
  <2>4. QED
    BY <1>0, <1>4, <2>3
<1>10. CASE Poll
  <2>1. Advance(startLpib, lpib) \in Nat
    BY <1>1 DEF Advance, EngineOK, DriverOK, Slot
  <2>2. room' \in Nat
    BY <1>1, <1>10, <2>1 DEF Poll, DriverOK
  <2>3. EngineOK' /\ DriverOK'
    BY <1>1, <1>10, <2>2 DEF Poll, EngineOK, DriverOK, engineVars, timerVars, LoopPc
  <2>4. QED
    BY <1>4, <2>3, <1>0
<1>11. CASE Tick
  <2>1. (lpib + 1) % Ring \in Slot
    BY <1>1, ModNext DEF EngineOK, Slot
  <2>2. TracePeriod(req.len) \in Nat
    BY <1>1, RequestFacts DEF EngineOK
  <2>3. lpib' \in Slot /\ fresh' \subseteq Slot /\ played' \in Nat
    BY <1>1, <1>11, <2>1 DEF Tick, EngineOK
  <2>4. traceLeft' \in Nat /\ timeLeft' \in Nat /\ age' \in Nat /\ readAge' \in Nat
    BY <1>1, <1>11, <2>2 DEF Tick, EngineOK
  <2>5. EngineOK' /\ DriverOK'
    BY <1>1, <1>11, <2>3, <2>4 DEF Tick, EngineOK, DriverOK, loopVars
  <2>6. QED
    BY <1>4, <2>5, <1>0
<1>12. CASE Silent \/ UNCHANGED vars
  <2>1. EngineOK' /\ DriverOK'
    BY <1>1, <1>12 DEF EngineOK, DriverOK, Setup, SetupFails, StartFails, WaitTrace, WaitPlayback,
       LoopFails, Stop, StopFails, Cleanup, Panic, vars, engineVars, timerVars, loopVars, ageVars,
       LoopPc
  <2>2. QED
    BY <1>4, <2>1, <1>0
<1>13. QED
  BY <1>5, <1>6, <1>7, <1>8, <1>9, <1>10, <1>11, <1>12 DEF Next, Driver

(* The engine runs, and the buffers are mapped, where the driver's position*)
(* says so.                                                                *)
LEMMA EngineStep == ASSUME TypeOK, EngineFollowsPc, [Next]_vars PROVE EngineFollowsPc'
<1>1. faults \subseteq {"start", "loop", "stop"}
  BY DEF TypeOK
<1>2. CASE Begin
  <2>1. running => faults # {}
    BY <1>2 DEF EngineFollowsPc, Begin, Ok, Playing, InLoop, LoopPc
  <2>2. (mapped <=> pc # "idle")' /\ pc' = "setup" /\ running' = running
    BY <1>2, Zenon DEF Begin
  <2>3. running' => faults' = faults
    BY <1>2 DEF Begin
  <2>4. running' /\ faults' \cap {"loop", "stop"} = {} => FALSE
    BY <1>2, <2>3 DEF Begin, EngineFollowsPc, Playing, InLoop, LoopPc
  <2>5. QED
    BY <2>2, <2>4 DEF EngineFollowsPc, Ok, Playing, InLoop, LoopPc
<1>3. CASE Start \/ StartFails
  BY <1>3 DEF Start, StartFails, EngineFollowsPc, Ok, Playing, InLoop, LoopPc, engineVars
<1>4. CASE Setup \/ SetupFails \/ Prefill \/ Arm
  BY <1>4 DEF Setup, SetupFails, Prefill, Arm, EngineFollowsPc, Ok, Playing, InLoop, LoopPc,
     engineVars
<1>5. CASE ReadStart \/ Poll \/ Refill \/ WaitPlayback \/ WaitTrace
  BY <1>5 DEF ReadStart, Poll, Refill, WaitPlayback, WaitTrace, EngineFollowsPc, Ok, Playing,
     InLoop, LoopPc, engineVars
<1>6. CASE LoopFails \/ Stop \/ StopFails
  BY <1>6 DEF LoopFails, Stop, StopFails, EngineFollowsPc, Ok, Playing, InLoop, LoopPc, engineVars
<1>7. CASE Cleanup \/ Panic
  BY <1>7 DEF Cleanup, Panic, EngineFollowsPc, Ok, Playing, InLoop, LoopPc, engineVars
<1>8. CASE Tick \/ UNCHANGED vars
  BY <1>8 DEF Tick, vars, engineVars, EngineFollowsPc, Ok, Playing, InLoop, LoopPc
<1>9. QED
  BY <1>2, <1>3, <1>4, <1>5, <1>6, <1>7, <1>8 DEF Next, Driver

(* The ring holds the unplayed samples after every step.                   *)
LEMMA RingStep == ASSUME LpibRestarts, IInv, [Next]_vars PROVE RingInStep'
<1> USE RingFacts
<1>1. TypeOK /\ TypeOK'
  BY TypeStep DEF IInv
<1> SUFFICES ASSUME Ok' PROVE (pc \in Loaded => RingHolds)' /\ (pc \in Playing => lpib = played % Ring)'
  BY DEF RingInStep
<1>2. ASSUME Ok, pc \in Loaded, UNCHANGED <<mem, fresh, written, played, bdlPos, samplesPos, req>>
      PROVE  RingHolds'
  <2>1. RingHolds
    BY <1>2 DEF IInv, RingInStep
  <2>2. QED
    BY <1>2, <2>1 DEF RingHolds, Ring
<1>3. CASE Begin
  <2>1. req'.len \in Nat /\ req'.len > 0
    BY <1>3, RequestFacts DEF Begin
  <2>2. 0 % Ring = 0 /\ 0 % req'.len = 0 /\ 0 * BufferSize = 0 /\ 0..0-1 = {}
    BY <2>1
  <2>3. played' = 0 /\ written' = 0 /\ bdlPos' = 0 /\ samplesPos' = 0 /\ fresh' = {} /\ pc' = "setup"
    BY <1>3 DEF Begin
  <2>4. RingHolds'
    BY <2>2, <2>3 DEF RingHolds, Ring
  <2>5. QED
    BY <2>3, <2>4 DEF Playing, InLoop, LoopPc
<1>4. CASE Prefill
  <2>1. Ok /\ RingHolds
    BY <1>4 DEF Prefill, Ok, IInv, RingInStep, Loaded
  <2>2. played = 0 /\ written < Ring /\ written \in Nat
    BY <1>1, <1>4, <2>1 DEF Prefill, IInv, PrefillInStep, TypeOK
  <2>3. written = bdlPos * BufferSize
    BY <2>1, <2>2, ModSmall, written \in 0..Ring-1 DEF RingHolds
  <2>4. written + BufferSize <= Ring
    BY <1>1, <2>3, BufferFacts DEF TypeOK
  <2>5. RingHolds'
    BY <1>1, <1>4, <2>1, <2>2, <2>4, FillKeepsRing DEF Prefill
  <2>6. pc' \notin Playing
    BY <1>4 DEF Prefill, Playing, InLoop, LoopPc
  <2>7. QED
    BY <2>5, <2>6
<1>5. CASE Refill
  <2>1. Ok /\ pc = "fill" /\ RingHolds /\ lpib = played % Ring
    BY <1>5 DEF Refill, Ok, IInv, RingInStep, Loaded, Playing, InLoop, LoopPc
  <2>2. written + BufferSize <= played + Ring
    BY <2>1, RefillFacts
  <2>3. RingHolds'
    BY <1>1, <1>5, <2>1, <2>2, FillKeepsRing DEF Refill
  <2>4. lpib' = lpib /\ played' = played
    BY <1>5 DEF Refill
  <2>5. QED
    BY <2>1, <2>3, <2>4 DEF Ring
<1>6. CASE Start
  <2>1. Ok /\ pc = "start" /\ pc' = "start_lpib" /\ played' = played
    BY <1>6 DEF Start, Ok
  <2>2. RingHolds'
    BY <1>2, <1>6, <2>1 DEF Start, loopVars, Loaded, Filled
  <2>3. ~running
    BY <2>1 DEF Ok, IInv, EngineFollowsPc, Playing, InLoop, LoopPc
  <2>4. lpib' = 0 /\ played = 0
    BY <1>6, <2>1, <2>3 DEF Start, IInv, PrefillInStep
  <2>5. QED
    BY <2>1, <2>2, <2>4 DEF Ring
<1>7. CASE Tick
  <2>1. Ok /\ pc' = pc
    BY <1>7 DEF Tick, Ok
  <2>2. CASE running
    <3>1. pc \in Playing
      BY <2>1, <2>2 DEF IInv, EngineFollowsPc, Ok
    <3>2. pc \in Loaded
      BY <3>1 DEF Playing, Loaded, InLoop, LoopPc, Filled
    <3>3. RingHolds /\ lpib = played % Ring
      BY <2>1, <3>1, <3>2 DEF IInv, RingInStep
    <3>4. played < written
      BY <1>1, <2>1, <3>1, NotDrained DEF IInv
    <3>5. RingHolds' /\ lpib' = played' % Ring
      BY <1>1, <1>7, <2>2, <3>3, <3>4, PlayKeepsRing DEF Tick, loopVars
    <3>6. QED
      BY <3>5 DEF Ring
  <2>3. CASE ~running
    <3>1. pc \notin Playing
      BY <2>1, <2>3 DEF IInv, EngineFollowsPc
    <3>2. pc \in Loaded
      BY <1>7, <3>1 DEF Tick, MayPass, Loaded, Playing, InLoop, LoopPc, Filled
    <3>3. QED
      BY <1>2, <1>7, <2>1, <2>3, <3>1, <3>2 DEF Tick, loopVars
  <2>4. QED
    BY <2>2, <2>3
<1>8. CASE Setup \/ Arm \/ ReadStart \/ Poll \/ WaitPlayback \/ WaitTrace
  <2>1. Ok /\ pc \in Loaded /\ lpib' = lpib /\ played' = played
    BY <1>8 DEF Setup, Arm, ReadStart, Poll, WaitPlayback, WaitTrace, Ok, Loaded, InLoop, LoopPc,
       Filled, engineVars
  <2>2. RingHolds'
    BY <1>2, <1>8, <2>1 DEF Setup, Arm, ReadStart, Poll, WaitPlayback, WaitTrace, engineVars, loopVars
  <2>3. pc' \in Playing => pc \in Playing
    BY <1>8 DEF Setup, Arm, ReadStart, Poll, WaitPlayback, WaitTrace, Playing, InLoop, LoopPc
  <2>4. pc \in Playing => lpib = played % Ring
    BY <2>1 DEF IInv, RingInStep
  <2>5. QED
    BY <2>1, <2>2, <2>3, <2>4 DEF Ring
<1>9. CASE SetupFails \/ Stop \/ Cleanup
  BY <1>9 DEF SetupFails, Stop, Cleanup, Loaded, Playing, InLoop, LoopPc, Filled
<1>10. CASE StartFails \/ LoopFails \/ StopFails \/ Panic
  <2>1. "loop" \in faults' \/ faults' # {}
    BY <1>10 DEF StartFails, LoopFails, StopFails, Panic, IInv, EngineFollowsPc
  <2>2. QED
    BY <2>1 DEF Ok
<1>11. CASE UNCHANGED vars
  <2>1. Ok
    BY <1>11 DEF vars, Ok
  <2>2. QED
    BY <1>11, <2>1 DEF IInv, RingInStep, RingHolds, vars, engineVars, loopVars, Ring
<1>12. QED
  BY <1>3, <1>4, <1>5, <1>6, <1>7, <1>8, <1>9, <1>10, <1>11 DEF Next, Driver

(* The engine starts on a ring that was filled once. *)
LEMMA PrefillStep == ASSUME IInv, [Next]_vars PROVE PrefillInStep'
<1> USE RingFacts
<1>1. TypeOK /\ EngineFollowsPc /\ PrefillInStep
  BY DEF IInv
<1>2. CASE Begin
  BY <1>2 DEF Begin, PrefillInStep, Filled, Ring
<1>3. CASE Setup \/ Arm
  BY <1>1, <1>3 DEF Setup, Arm, PrefillInStep, Filled, loopVars, Ok, Ring
<1>4. CASE Prefill
  <2> SUFFICES ASSUME Ok' PROVE PrefillInStep'
    BY DEF PrefillInStep
  <2>1. Ok /\ pc = "prefill" /\ played = 0 /\ copied = written /\ written < Ring /\ written \in Nat
        /\ bdlPos \in 0..BufferCount-1
    BY <1>1, <1>4 DEF Prefill, Ok, PrefillInStep, TypeOK
  <2>2. copied' = copied + BufferSize /\ written' = written + BufferSize /\ played' = played
        /\ pc' = (IF copied' = Ring THEN "arm" ELSE "prefill")
    BY <1>4 DEF Prefill, FillBuffer
  <2>3. written = bdlPos * BufferSize
    <3>1. written % Ring = bdlPos * BufferSize
      BY <2>1 DEF IInv, RingInStep, RingHolds, Loaded
    <3>2. QED
      BY <2>1, <3>1, ModSmall, written \in 0..Ring-1
  <2>4. written' <= Ring
    BY <2>1, <2>2, <2>3, BufferFacts
  <2>5. QED
    BY <2>1, <2>2, <2>4 DEF PrefillInStep, Filled, Ring
<1>5. CASE Start
  BY <1>1, <1>5 DEF Start, PrefillInStep, Filled, loopVars, Ok, Ring
<1>6. CASE StartFails \/ LoopFails \/ StopFails
  BY <1>6 DEF StartFails, LoopFails, StopFails, PrefillInStep, Ok
<1>7. CASE Tick
  <2> SUFFICES ASSUME Ok' PROVE PrefillInStep'
    BY DEF PrefillInStep
  <2>1. Ok /\ pc' = pc /\ pc \notin {"setup", "prefill", "arm"} /\ written' = written
    BY <1>7 DEF Tick, MayPass, Ok, LoopPc
  <2>2. pc = "start" => ~running
    BY <1>1, <2>1 DEF EngineFollowsPc, Ok, Playing, InLoop, LoopPc
  <2>3. pc = "start" => played' = played
    BY <1>7, <2>2 DEF Tick
  <2>4. QED
    BY <1>1, <2>1, <2>3 DEF PrefillInStep, Filled, Ring
<1>8. CASE SetupFails \/ ReadStart \/ Poll \/ Refill \/ WaitPlayback \/ WaitTrace \/ Stop
           \/ Cleanup \/ Panic
  <2>1. pc' \notin {"setup", "prefill"} \cup Filled
    BY <1>8 DEF SetupFails, ReadStart, Poll, Refill, WaitPlayback, WaitTrace, Stop, Cleanup, Panic,
       Filled
  <2>2. QED
    BY <2>1 DEF PrefillInStep, Filled
<1>9. CASE UNCHANGED vars
  BY <1>1, <1>9 DEF vars, loopVars, PrefillInStep, Filled, Ok, Ring
<1>10. QED
  BY <1>2, <1>3, <1>4, <1>5, <1>6, <1>7, <1>8, <1>9 DEF Next, Driver

(* The time between two refills is bounded by the time that may pass. *)
LEMMA AgesStep == ASSUME TypeOK, AgesBounded, [Next]_vars PROVE AgesBounded'
<1> USE RingFacts
<1>1. /\ TypeOK /\ AgesBounded
      /\ age \in Nat /\ readAge \in Nat /\ Gap(req.len) \in Nat
  BY RequestFacts DEF TypeOK
<1>2. CASE Tick
  BY <1>1, <1>2 DEF Tick, MayPass, AgesBounded, InLoop, LoopPc, Gap, TracePeriod
<1>3. CASE Arm \/ ReadStart
  BY <1>1, <1>3 DEF Arm, ReadStart, AgesBounded, InLoop, LoopPc, Gap, TracePeriod
<1>4. CASE Poll
  BY <1>1, <1>4 DEF Poll, AgesBounded, InLoop, LoopPc, Gap, TracePeriod
<1>5. CASE Refill
  BY <1>1, <1>5 DEF Refill, AgesBounded, InLoop, LoopPc, Gap, TracePeriod
<1>6. CASE Start \/ StartFails \/ WaitPlayback \/ WaitTrace
  BY <1>1, <1>6 DEF Start, StartFails, WaitPlayback, WaitTrace, AgesBounded, InLoop, LoopPc, Gap,
     TracePeriod, ageVars
<1>7. CASE Begin \/ Setup \/ SetupFails \/ Prefill \/ LoopFails \/ Stop \/ StopFails \/ Cleanup
           \/ Panic
  BY <1>7 DEF Begin, Setup, SetupFails, Prefill, LoopFails, Stop, StopFails, Cleanup, Panic,
     AgesBounded, InLoop, LoopPc
<1>8. CASE UNCHANGED vars
  BY <1>1, <1>8 DEF vars, ageVars, AgesBounded, InLoop, LoopPc, Gap, TracePeriod
<1>9. QED
  BY <1>2, <1>3, <1>4, <1>5, <1>6, <1>7, <1>8 DEF Next, Driver

(* What the loop knows of the engine's position stays true. *)
LEMMA LoopStep == ASSUME IInv, [Next]_vars PROVE LoopInStep'
<1> USE RingFacts
<1>1. /\ TypeOK /\ EngineFollowsPc /\ RingInStep /\ PrefillInStep /\ AgesBounded /\ LoopInStep
      /\ age \in Nat /\ readAge \in Nat /\ played \in Nat /\ written \in Nat /\ lag \in Nat
      /\ room \in Nat /\ copied \in Nat /\ queueRoom \in Nat
  BY DEF IInv, TypeOK
<1> SUFFICES ASSUME Ok' PROVE LoopInStep'
  BY DEF LoopInStep
<1>2. CASE Start
  <2>1. Ok /\ pc = "start" /\ pc' = "start_lpib" /\ age' = age /\ played' = played
    BY <1>2 DEF Start, Ok, ageVars
  <2>2. played' <= age'
    BY <1>1, <2>1 DEF PrefillInStep
  <2>3. QED
    BY <2>1, <2>2 DEF LoopInStep, InLoop, LoopPc
<1>3. CASE ReadStart
  <2>1. Ok /\ pc = "start_lpib" /\ pc' = "poll" /\ age' = 0 /\ lag' = played /\ played' = played
        /\ written' = written /\ queueRoom' = 0 /\ startLpib' = lpib
    BY <1>3 DEF ReadStart, Ok
  <2>2. played <= age /\ age <= StartGap /\ written = Ring /\ lpib = played % Ring
    BY <1>1, <2>1 DEF LoopInStep, AgesBounded, PrefillInStep, RingInStep, Filled, Playing
  <2>3. StartPlayed' = played
    BY <1>1, <2>1, <2>2 DEF StartPlayed, Ring
  <2>4. lag' <= StartGap /\ played' <= written' - Ring + BufferSize - 1 + lag' + age'
    BY <1>1, <2>1, <2>2
  <2>5. QED
    BY <2>1, <2>2, <2>3, <2>4, <1>1 DEF LoopInStep, InLoop, LoopPc, Ring
<1>4. CASE Poll
  <2>1. Ok /\ pc = "poll" /\ actualLpib' = lpib /\ copied' = 0 /\ readAge' = 0
        /\ room' = queueRoom + Advance(startLpib, lpib)
        /\ UNCHANGED <<played, written, lag, queueRoom, startLpib>>
    BY <1>4 DEF Poll, Ok
  <2>2. /\ lpib = played % Ring /\ startLpib = StartPlayed % Ring /\ StartPlayed <= played
        /\ lag <= StartGap /\ played <= written - Ring + BufferSize - 1 + lag + age
    BY <1>1, <2>1 DEF LoopInStep, RingInStep, Playing, InLoop, LoopPc
  <2>3. played < StartPlayed + Ring
    BY <1>1, <2>1, NotDrained DEF Playing, InLoop, LoopPc
  <2>4. StartPlayed \in Int
    BY <1>1 DEF StartPlayed
  <2>5. Advance(startLpib, lpib) = played - StartPlayed
    BY <1>1, <2>2, <2>3, <2>4, AdvanceFacts, played \in Int
  <2>6. room' = played - written + Ring - lag
    BY <1>1, <2>1, <2>5 DEF StartPlayed
  <2>7. room' \in Nat
    BY <1>1, <2>1, <2>2, <2>4, <2>5
  <2>8. CASE room' >= BufferSize
    <3>1. pc' = "fill" /\ age' = age
      BY <1>4, <2>8 DEF Poll
    <3>2. ActualPlayed' = played
      BY <1>1, <2>1, <2>6 DEF ActualPlayed, Ring
    <3>3. WholeBuffers(room') \in Nat /\ 0 < WholeBuffers(room') /\ WholeBuffers(room') % BufferSize = 0
      BY <2>7, <2>8, WholeBuffersFacts
    <3>4. copied' < WholeBuffers(room') /\ (WholeBuffers(room') - copied') % BufferSize = 0
      BY <2>1, <3>3
    <3>5. QED
      BY <1>1, <2>1, <2>2, <3>1, <3>2, <3>4 DEF LoopInStep, InLoop, LoopPc, Ring, WholeBuffers
  <2>9. CASE ~(room' >= BufferSize)
    <3>1. pc' = "wait" /\ age' = 0
      BY <1>4, <2>9 DEF Poll
    <3>2. room' <= BufferSize - 1
      BY <2>7, <2>9
    <3>3. played <= written - Ring + BufferSize - 1 + lag
      BY <1>1, <2>6, <3>2
    <3>4. StartPlayed' = StartPlayed
      BY <2>1 DEF StartPlayed, Ring
    <3>5. QED
      BY <1>1, <2>1, <2>2, <3>1, <3>3, <3>4 DEF LoopInStep, InLoop, LoopPc, Ring
  <2>10. QED
    BY <2>8, <2>9
<1>5. CASE Refill
  <2>1. Ok /\ pc = "fill" /\ copied' = copied + BufferSize /\ written' = written + BufferSize
        /\ UNCHANGED <<played, lag, room, readAge, actualLpib>>
    BY <1>5 DEF Refill, FillBuffer, Ok
  <2>2. /\ actualLpib = ActualPlayed % Ring
        /\ ActualPlayed <= played /\ played <= ActualPlayed + readAge
        /\ lag <= StartGap
        /\ played <= (written - copied) - Ring + BufferSize - 1 + lag + age
    BY <1>1, <2>1 DEF LoopInStep, InLoop, LoopPc
  <2>3. /\ WholeBuffers(room) - copied >= BufferSize
        /\ (WholeBuffers(room) - (copied + BufferSize)) % BufferSize = 0
    BY <2>1, RefillFacts
  <2>4. WholeBuffers(room) \in Nat /\ room - WholeBuffers(room) <= BufferSize - 1
    BY <1>1, WholeBuffersFacts
  <2>5. ActualPlayed \in Int
    BY <1>1 DEF ActualPlayed
  <2>6. CASE copied' = WholeBuffers(room)
    <3>1. pc' = "wait" /\ queueRoom' = room - copied' /\ startLpib' = actualLpib /\ age' = readAge
      BY <1>5, <2>6 DEF Refill
    <3>2. StartPlayed' = ActualPlayed
      BY <1>1, <2>1, <3>1 DEF StartPlayed, ActualPlayed, Ring
    <3>3. played <= written' - Ring + BufferSize - 1 + lag + readAge
      BY <1>1, <2>1, <2>2, <2>4, <2>6 DEF ActualPlayed
    <3>4. QED
      BY <1>1, <2>1, <2>2, <3>1, <3>2, <3>3 DEF LoopInStep, InLoop, LoopPc, Ring
  <2>7. CASE copied' # WholeBuffers(room)
    <3>1. pc' = "fill" /\ age' = age
      BY <1>5, <2>1, <2>7 DEF Refill
    <3>2. ActualPlayed' = ActualPlayed
      BY <1>1, <2>1 DEF ActualPlayed, Ring
    <3>3. copied' < WholeBuffers(room) /\ (WholeBuffers(room) - copied') % BufferSize = 0
      BY <1>1, <2>1, <2>3, <2>4, <2>7
    <3>4. written' - copied' = written - copied
      BY <1>1, <2>1
    <3>5. QED
      BY <1>1, <2>1, <2>2, <3>1, <3>2, <3>3, <3>4 DEF LoopInStep, InLoop, LoopPc, Ring, WholeBuffers
  <2>8. QED
    BY <2>6, <2>7
<1>6. CASE WaitPlayback \/ WaitTrace
  <2>1. Ok /\ pc = "wait" /\ pc' \in {"stop", "poll"}
        /\ UNCHANGED <<written, queueRoom, lag, played, age, startLpib>>
    BY <1>6 DEF WaitPlayback, WaitTrace, Ok, loopVars, ageVars
  <2>2. StartPlayed' = StartPlayed
    BY <2>1 DEF StartPlayed, Ring
  <2>3. QED
    BY <1>1, <2>1, <2>2 DEF LoopInStep, InLoop, LoopPc, Ring
<1>7. CASE Tick
  <2>1. Ok /\ pc' = pc /\ age' = age + 1 /\ readAge' = readAge + 1
        /\ UNCHANGED <<written, queueRoom, room, copied, lag, startLpib, actualLpib>>
    BY <1>7 DEF Tick, Ok, loopVars
  <2>2. played' \in Nat /\ played <= played' /\ played' <= played + 1
    BY <1>1, <1>7 DEF Tick
  <2>3. StartPlayed' = StartPlayed /\ ActualPlayed' = ActualPlayed
    BY <2>1 DEF StartPlayed, ActualPlayed, Ring
  <2>4. StartPlayed \in Int /\ ActualPlayed \in Int
    BY <1>1 DEF StartPlayed, ActualPlayed
  <2>5. pc = "start_lpib" => played' <= age'
    BY <1>1, <2>1, <2>2 DEF LoopInStep
  <2>6. pc \in InLoop =>
          /\ lag <= StartGap
          /\ played' <= (IF pc = "fill" THEN written - copied ELSE written)
                          - Ring + BufferSize - 1 + lag + age'
    BY <1>1, <2>1, <2>2 DEF LoopInStep
  <2>7. pc \in {"poll", "wait"} => startLpib = StartPlayed % Ring /\ StartPlayed <= played'
    BY <1>1, <2>1, <2>2, <2>4 DEF LoopInStep
  <2>8. pc = "fill" =>
          /\ actualLpib = ActualPlayed % Ring
          /\ ActualPlayed <= played' /\ played' <= ActualPlayed + readAge'
          /\ copied < WholeBuffers(room) /\ (WholeBuffers(room) - copied) % BufferSize = 0
    BY <1>1, <2>1, <2>2, <2>4 DEF LoopInStep
  <2>9. QED
    BY <2>1, <2>3, <2>5, <2>6, <2>7, <2>8 DEF LoopInStep, InLoop, LoopPc, Ring, WholeBuffers
<1>8. CASE StartFails \/ LoopFails \/ StopFails
  BY <1>8 DEF StartFails, LoopFails, StopFails, Ok
<1>9. CASE Begin \/ Setup \/ SetupFails \/ Prefill \/ Arm \/ Stop \/ Cleanup \/ Panic
  <2>1. pc' \notin InLoop \cup {"start_lpib"}
    BY <1>9 DEF Begin, Setup, SetupFails, Prefill, Arm, Stop, Cleanup, Panic, InLoop, LoopPc
  <2>2. QED
    BY <2>1 DEF LoopInStep, InLoop, LoopPc
<1>10. CASE UNCHANGED vars
  BY <1>1, <1>10 DEF vars, loopVars, ageVars, LoopInStep, InLoop, LoopPc, Ok, Ring, StartPlayed,
     ActualPlayed, WholeBuffers
<1>11. QED
  BY <1>2, <1>3, <1>4, <1>5, <1>6, <1>7, <1>8, <1>9, <1>10 DEF Next, Driver

(* The playback timer does not run ahead of the engine by more than the    *)
(* time it takes to start it.                                              *)
LEMMA TimerStep == ASSUME TimeInv, [Next]_vars PROVE TimerInStep'
<1> USE RingFacts
<1>1. /\ AgesBounded /\ TimerInStep
      /\ age \in Nat /\ played \in Nat /\ timeLeft \in Nat /\ req.time \in Nat
      /\ playSet \in BOOLEAN /\ running \in BOOLEAN
  BY RequestFacts DEF TimeInv, TypeOK
<1>2. CASE Begin
  BY <1>2 DEF Begin, TimerInStep, Playing, InLoop, LoopPc
<1>3. CASE Arm
  BY <1>1, <1>3 DEF Arm, TimerInStep, Playing, InLoop, LoopPc
<1>4. CASE Start
  BY <1>1, <1>4 DEF Start, TimerInStep, AgesBounded, Playing, InLoop, LoopPc, timerVars, ageVars, Started
<1>5. CASE ReadStart \/ Poll \/ Refill \/ WaitTrace
  BY <1>1, <1>5 DEF ReadStart, Poll, Refill, WaitTrace, TimerInStep, Playing, InLoop, LoopPc,
     timerVars, engineVars, Started
<1>6. CASE WaitPlayback
  <2>1. playSet
    BY <1>6 DEF WaitPlayback, Signaled
  <2>2. QED
    BY <1>1, <1>6, <2>1 DEF WaitPlayback, TimerInStep, Playing, InLoop, LoopPc, engineVars, Started
<1>7. CASE Setup \/ SetupFails \/ Prefill \/ Stop
  BY <1>1, <1>7 DEF Setup, SetupFails, Prefill, Stop, TimerInStep, Playing, InLoop, LoopPc, timerVars,
     Started
<1>8. CASE StartFails
  BY <1>1, <1>8 DEF StartFails, TimerInStep, timerVars, Started
<1>9. CASE LoopFails \/ StopFails
  BY <1>1, <1>9 DEF LoopFails, StopFails, TimerInStep, timerVars, Playing, InLoop, LoopPc, Started
<1>10. CASE Cleanup \/ Panic
  BY <1>1, <1>10 DEF Cleanup, Panic, TimerInStep, Playing, InLoop, LoopPc, timerVars, Started
<1>11. CASE Tick
  <2>1. timeLeft' \in Nat /\ (timeLeft <= 1 => timeLeft' = 0)
    BY <1>1, <1>11 DEF Tick
  <2>2. playSet' => timeLeft' = 0
    BY <1>1, <1>11, <2>1 DEF Tick, TimerInStep
  <2>3. played <= played' /\ played' \in Nat
    BY <1>1, <1>11 DEF Tick
  <2>4. /\ pc' = pc /\ age' = age + 1 /\ req' = req /\ running' = running
        /\ (Started' <=> Started) /\ pc \notin {"cleanup", "idle"}
    BY <1>11 DEF Tick, MayPass, Started, LoopPc
  <2>5. ASSUME Started, pc = "start" PROVE req.time <= timeLeft' + age'
    <3>1. req.time <= timeLeft + age
      BY <1>1, <2>5 DEF TimerInStep
    <3>2. QED
      BY <1>1, <1>11, <3>1 DEF Tick
  <2>6. ASSUME Started, pc \in Playing PROVE running /\ req.time <= timeLeft' + played' + StartGap
    <3>1. running /\ req.time <= timeLeft + played + StartGap
      BY <1>1, <2>6 DEF TimerInStep
    <3>2. played' = played + 1
      BY <1>11, <3>1 DEF Tick
    <3>3. QED
      BY <1>1, <1>11, <3>1, <3>2 DEF Tick
  <2>7. ASSUME Started, pc = "stop" PROVE req.time <= played' + StartGap
    BY <1>1, <2>3, <2>7 DEF TimerInStep
  <2>8. ASSUME Started'
        PROVE  /\ pc = "start" => req.time <= timeLeft' + age'
               /\ pc \in Playing => running /\ req.time <= timeLeft' + played' + StartGap
               /\ pc \in {"stop", "cleanup"} => req.time <= played' + StartGap
    BY <2>4, <2>5, <2>6, <2>7, <2>8
  <2>9. QED
    BY <2>2, <2>4, <2>8 DEF TimerInStep, Playing, InLoop, LoopPc
<1>12. CASE UNCHANGED vars
  BY <1>1, <1>12 DEF vars, timerVars, ageVars, engineVars, TimerInStep, Playing, InLoop, LoopPc, Started
<1>13. QED
  BY <1>2, <1>3, <1>4, <1>5, <1>6, <1>7, <1>8, <1>9, <1>10, <1>11, <1>12 DEF Next, Driver

(* Every part of the invariant is kept by every step. *)
LEMMA IInvStep == ASSUME LpibRestarts, IInv, [Next]_vars PROVE IInv'
<1>1. TypeOK' /\ EngineFollowsPc'
  BY TypeStep, EngineStep DEF IInv
<1>2. RingInStep' /\ PrefillInStep' /\ AgesBounded' /\ LoopInStep'
  BY RingStep, PrefillStep, AgesStep, LoopStep DEF IInv
<1>3. QED
  BY <1>1, <1>2 DEF IInv
-----------------------------------------------------------------------------
(* What the invariant says of the properties. *)

(* The engine's slot holds the sample it should, and is unplayed. *)
LEMMA EngineFacts == ASSUME IInv, running, faults = {} PROVE lpib \in fresh /\ mem[lpib] = played % req.len
<1> USE RingFacts
<1>1. TypeOK /\ Ok /\ pc \in Playing /\ played \in Nat /\ written \in Nat
  BY DEF IInv, TypeOK, Ok, EngineFollowsPc
<1>2. pc \in Loaded
  BY <1>1 DEF Playing, Loaded, InLoop, LoopPc, Filled
<1>3. RingHolds /\ lpib = played % Ring
  BY <1>1, <1>2 DEF IInv, RingInStep
<1>4. played < written
  BY <1>1, NotDrained DEF IInv
<1>5. played \in played..written-1
  BY <1>1, <1>4
<1>6. QED
  BY <1>3, <1>5 DEF RingHolds

(* The buffer that is refilled has been played. *)
LEMMA RefilledWasPlayed ==
  ASSUME IInv, pc = "fill", faults = {}
  PROVE  BufferSlots(bdlPos) \cap fresh = {}
<1> USE RingFacts
<1>1. Ok /\ played \in Nat /\ written \in Nat /\ bdlPos \in 0..BufferCount-1
  BY DEF Ok, IInv, TypeOK
<1>2. RingHolds
  BY <1>1 DEF IInv, RingInStep, Loaded, InLoop, LoopPc
<1>3. written + BufferSize <= played + Ring /\ played <= written /\ written % Ring = bdlPos * BufferSize
  BY <1>1, <1>2, RefillFacts DEF RingHolds
<1>4. bdlPos * BufferSize \in Nat
  BY <1>1, BufferFacts
<1>5. ASSUME NEW s \in BufferSlots(bdlPos), s \in fresh PROVE FALSE
  <2>1. PICK k \in played..written-1 : s = k % Ring
    BY <1>2, <1>5 DEF RingHolds
  <2>2. s \in Int /\ s - bdlPos * BufferSize \in 0..BufferSize-1
    BY <1>4 DEF BufferSlots
  <2>3. (written + (s - bdlPos * BufferSize)) % Ring = bdlPos * BufferSize + (s - bdlPos * BufferSize)
    BY <1>1, <1>3, <2>2, SlotsAhead
  <2>4. bdlPos * BufferSize + (s - bdlPos * BufferSize) = s
    BY <1>4, <2>2
  <2> DEFINE n == written + (s - bdlPos * BufferSize)
  <2>5. k \in Int /\ n \in Int /\ k < n /\ n < k + Ring
    BY <1>1, <1>3, <1>4, <2>2
  <2>6. k % Ring = n % Ring
    BY <2>1, <2>3, <2>4
  <2> HIDE DEF n
  <2>7. QED
    BY <2>5, <2>6, ModApart
<1>6. QED
  BY <1>5
-----------------------------------------------------------------------------
(* The ring implements AudioOutput. *)

Over == {"idle", "cleanup", "abort", "dead"}
Preparing == {"setup", "prefill", "arm", "start"}

(* What is heard, by the driver's position. *)
PhaseInStep ==
  /\ Phase = "none" <=> ~Ok \/ pc \in Over
  /\ Phase = "called" <=> Ok /\ pc \in Preparing
  /\ Phase = "playing" <=> Ok /\ pc \in Playing
  /\ Phase = "playing" => Heard = played % req.len

LEMMA PhaseFacts == IInv => PhaseInStep
<1> SUFFICES ASSUME IInv PROVE PhaseInStep
  OBVIOUS
<1>1. pc \in Over \cup Preparing \cup Playing
  BY DEF IInv, TypeOK, Over, Preparing, Playing, InLoop, LoopPc
<1>2. Ok => (running <=> pc \in Playing)
  <2>1. Ok /\ running => pc \in Playing
    BY DEF IInv, EngineFollowsPc, Ok
  <2>2. Ok /\ pc \in Playing => running
    BY DEF IInv, EngineFollowsPc
  <2>3. QED
    BY <2>1, <2>2
<1>3. pc \in Over => pc \notin Preparing \cup Playing
  BY DEF Over, Preparing, Playing, InLoop, LoopPc
<1>4. pc \in Preparing => pc \notin Playing
  BY DEF Preparing, Playing, InLoop, LoopPc
<1>5. Phase = IF pc \in Over \/ ~Ok THEN "none" ELSE IF running THEN "playing" ELSE "called"
  BY DEF Phase, Over, Ok
<1>6. Phase = "playing" => Heard = played % req.len
  <2>1. Phase = "playing" => running /\ faults = {}
    BY <1>2, <1>5 DEF Ok
  <2>2. QED
    BY <2>1, EngineFacts DEF Heard
<1>7. QED
  BY <1>1, <1>2, <1>3, <1>4, <1>5, <1>6 DEF PhaseInStep

(* Where a step takes the driver, as far as a client can tell. *)
LEMMA DriverMoves ==
  ASSUME IInv, [Next]_vars, Ok, Ok', pc \in Preparing \cup Playing, pc' \notin Over
  PROVE  /\ req' = req
         /\ pc \in Preparing /\ pc' \in Playing => played' = 0
         /\ pc \in Playing => pc' \in Playing /\ (played' = played \/ played' = played + 1)
<1>1. CASE Start
  <2>1. pc = "start" /\ pc' = "start_lpib" /\ req' = req /\ played' = played
    BY <1>1 DEF Start
  <2>2. played = 0
    BY <2>1 DEF IInv, PrefillInStep
  <2>3. QED
    BY <2>1, <2>2 DEF Preparing, Playing, InLoop, LoopPc
<1>2. CASE Setup \/ Prefill \/ Arm
  BY <1>2 DEF Setup, Prefill, Arm, Preparing, Playing, InLoop, LoopPc
<1>3. CASE ReadStart \/ Poll \/ Refill \/ WaitPlayback \/ WaitTrace
  BY <1>3 DEF ReadStart, Poll, Refill, WaitPlayback, WaitTrace, Preparing, Playing, InLoop, LoopPc
<1>4. CASE Tick
  BY <1>4 DEF Tick, Preparing, Playing, InLoop, LoopPc
<1>5. CASE StartFails \/ LoopFails \/ StopFails
  BY <1>5 DEF StartFails, LoopFails, StopFails, Ok
<1>6. CASE Begin \/ SetupFails \/ Stop \/ Cleanup \/ Panic
  BY <1>6 DEF Begin, SetupFails, Stop, Cleanup, Panic, Over, Preparing, Playing, InLoop, LoopPc
<1>7. CASE UNCHANGED vars
  BY <1>7 DEF vars, Preparing, Playing, InLoop, LoopPc
<1>8. QED
  BY <1>1, <1>2, <1>3, <1>4, <1>5, <1>6, <1>7 DEF Next, Driver

(* A call is heard of first when it begins, before the engine runs. *)
LEMMA CallsBegin ==
  ASSUME IInv, [Next]_vars, ~Ok \/ pc \in Over, Ok'
  PROVE  pc' \in Over \cup Preparing
<1>1. CASE Begin
  BY <1>1 DEF Begin, Preparing
<1>2. CASE UNCHANGED vars \/ Tick
  BY <1>2 DEF vars, Ok, Tick, MayPass, LoopPc, Over
<1>3. CASE Cleanup \/ Panic \/ SetupFails \/ Stop
  BY <1>3 DEF Cleanup, Panic, SetupFails, Stop, Over
<1>4. CASE StartFails \/ LoopFails \/ StopFails
  BY <1>4 DEF StartFails, LoopFails, StopFails, Ok
<1>5. CASE Setup \/ Prefill \/ Arm \/ Start \/ ReadStart \/ Poll \/ Refill \/ WaitPlayback \/ WaitTrace
  BY <1>5 DEF Setup, Prefill, Arm, Start, ReadStart, Poll, Refill, WaitPlayback, WaitTrace, Ok, Over
<1>6. QED
  BY <1>1, <1>2, <1>3, <1>4, <1>5 DEF Next, Driver

(* The sample after the one heard. *)
LEMMA NextRemainder ==
  ASSUME NEW n \in Nat, n > 0, NEW k \in Nat
  PROVE  (k + 1) % n = IF (k % n) + 1 < n THEN (k % n) + 1 ELSE 0
<1>1. k % n \in 0..n-1
  BY ModDiv, k \in Int
<1>2. ((k % n) + 1) % n = (k + 1) % n
  BY ModPlus, k \in Int, 1 \in Int
<1>3. PICK m \in 0..n-1 : m = k % n
  BY <1>1
<1>4. (m + 1) % n = IF m + 1 = n THEN 0 ELSE m + 1
  BY ModNext
<1>5. QED
  BY <1>2, <1>3, <1>4

LEMMA OutputInits == Init => Output!OutputInit
  BY DEF Init, Output!OutputInit, Phase, Total, Heard, Count

LEMMA OutputSteps ==
  ASSUME LpibRestarts, IInv, [Next]_vars
  PROVE  [Output!OutputNext]_Output!outputVars
<1>1. IInv'
  BY IInvStep
<1>2. /\ req \in Requests /\ req.len \in Nat /\ req.len > 0
      /\ req'.len \in Nat /\ played \in Nat
  BY <1>1, RequestFacts DEF IInv, TypeOK
<1>3. PhaseInStep
  BY PhaseFacts
<1>4. PhaseInStep'
  BY <1>1, PhaseFacts, PTL
<1>5. /\ Phase \in {"none", "called", "playing"} /\ Phase' \in {"none", "called", "playing"}
  BY DEF Phase
<1>6. /\ Phase = "none" => Total = 0 /\ Heard = 0 /\ Count = 0
      /\ Phase = "called" => Total = req.len /\ Heard = 0 /\ Count = 0
      /\ Phase = "playing" => Total = req.len /\ Count = played
  BY DEF Total, Heard, Count
<1>7. /\ Phase' = "none" => Total' = 0 /\ Heard' = 0 /\ Count' = 0
      /\ Phase' = "called" => Total' = req'.len /\ Heard' = 0 /\ Count' = 0
      /\ Phase' = "playing" => Total' = req'.len /\ Count' = played'
  BY DEF Total, Heard, Count
<1>8. CASE Phase = "none"
  <2>1. Phase' # "playing"
    <3>1. ~Ok \/ pc \in Over
      BY <1>3, <1>8 DEF PhaseInStep
    <3>2. Ok' => pc' \in Over \cup Preparing
      BY <3>1, CallsBegin
    <3>3. (Phase = "playing" <=> Ok /\ pc \in Playing)'
      BY <1>4 DEF PhaseInStep
    <3>4. Playing \cap (Over \cup Preparing) = {}
      BY DEF Playing, Over, Preparing, InLoop, LoopPc
    <3>5. QED
      BY <3>2, <3>3, <3>4
  <2>2. CASE Phase' = "none"
    BY <1>6, <1>7, <1>8, <2>2 DEF Output!outputVars
  <2>3. CASE Phase' = "called"
    <3>1. Total' \in Nat /\ Heard' = 0 /\ Count' = 0
      BY <1>2, <1>7, <2>3
    <3>2. Output!Call
      BY <1>8, <2>3, <3>1 DEF Output!Call
    <3>3. QED
      BY <3>2 DEF Output!OutputNext
  <2>4. QED
    BY <1>5, <2>1, <2>2, <2>3
<1>9. CASE Phase # "none" /\ Phase' = "none"
  <2>1. Output!End
    BY <1>7, <1>9 DEF Output!End
  <2>2. QED
    BY <2>1 DEF Output!OutputNext
<1>10. CASE Phase # "none" /\ Phase' # "none"
  <2>1. Ok /\ pc \in Preparing \cup Playing
    BY <1>3, <1>5, <1>10 DEF PhaseInStep
  <2>2. Ok' /\ pc' \notin Over
    <3>1. (Phase = "none" <=> ~Ok \/ pc \in Over)'
      BY <1>4 DEF PhaseInStep
    <3>2. QED
      BY <1>10, <3>1
  <2>3. /\ req' = req
        /\ pc \in Preparing /\ pc' \in Playing => played' = 0
        /\ pc \in Playing => pc' \in Playing /\ (played' = played \/ played' = played + 1)
    BY <2>1, <2>2, DriverMoves
  <2>4. /\ Phase = "playing" <=> pc \in Playing
        /\ Phase = "called" <=> pc \in Preparing
    BY <1>3, <2>1 DEF PhaseInStep
  <2>5. Phase' = "playing" <=> pc' \in Playing
    <3>1. (Phase = "playing" <=> Ok /\ pc \in Playing)'
      BY <1>4 DEF PhaseInStep
    <3>2. QED
      BY <2>2, <3>1
  <2>6. CASE Phase = "called" /\ Phase' = "called"
    BY <1>6, <1>7, <2>3, <2>6 DEF Output!outputVars
  <2>7. CASE Phase = "called" /\ Phase' = "playing"
    <3>1. Heard' = 0
      <4>1. Heard' = played' % req'.len
        BY <1>4, <2>7 DEF PhaseInStep
      <4>2. played' = 0
        BY <2>3, <2>4, <2>5, <2>7
      <4>3. 0 % req.len = 0
        BY <1>2, ModSmall, 0 \in 0..req.len-1
      <4>4. QED
        BY <4>1, <4>2, <4>3, <2>3
    <3>2. Total' = Total /\ Total > 0 /\ Count = 0 /\ Count' = 0
      BY <1>2, <1>6, <1>7, <2>3, <2>4, <2>5, <2>7
    <3>3. Output!First
      BY <2>7, <3>1, <3>2 DEF Output!First
    <3>4. QED
      BY <3>3 DEF Output!OutputNext
  <2>8. CASE Phase = "playing"
    <3>1. Phase' = "playing" /\ (played' = played \/ played' = played + 1)
      BY <2>3, <2>4, <2>5, <2>8
    <3>2. Total' = Total /\ Total = req.len /\ Count = played /\ Count' = played'
      BY <1>6, <1>7, <2>3, <2>8, <3>1
    <3>3. Heard = played % req.len /\ Heard' = played' % req.len
      BY <1>3, <1>4, <2>3, <2>8, <3>1 DEF PhaseInStep
    <3>4. CASE played' = played
      BY <2>8, <3>1, <3>2, <3>3, <3>4 DEF Output!outputVars
    <3>5. CASE played' = played + 1
      <4>1. Heard' = IF Heard + 1 < Total THEN Heard + 1 ELSE 0
        BY <1>2, <3>2, <3>3, <3>5, NextRemainder
      <4>2. Heard \in Nat /\ Total \in Nat
        <5>1. played % req.len \in 0..req.len-1
          BY <1>2, ModDiv, played \in Int
        <5>2. QED
          BY <5>1, <1>2, <3>2, <3>3
      <4>3. CASE Heard + 1 < Total
        <5>1. Output!Following
          BY <2>8, <3>1, <3>2, <3>5, <4>1, <4>3 DEF Output!Following
        <5>2. QED
          BY <5>1 DEF Output!OutputNext
      <4>4. CASE ~(Heard + 1 < Total)
        <5>1. Heard + 1 >= Total
          BY <4>2, <4>4
        <5>2. Output!StartOver
          BY <2>8, <3>1, <3>2, <3>5, <4>1, <4>4, <5>1 DEF Output!StartOver
        <5>3. QED
          BY <5>2 DEF Output!OutputNext
      <4>5. QED
        BY <4>3, <4>4
    <3>6. QED
      BY <3>1, <3>4, <3>5
  <2>9. QED
    BY <1>5, <1>10, <2>6, <2>7, <2>8
<1>11. QED
  BY <1>8, <1>9, <1>10
-----------------------------------------------------------------------------
(* The theorems. *)

(* Every variable keeps to its type, and the engine and the buffers follow *)
(* the driver, whatever the engine does with LPIB.                         *)
LEMMA EngineAlways == Spec => [](TypeOK /\ EngineFollowsPc)
<1>1. Init => TypeOK /\ EngineFollowsPc
  BY InitHolds DEF IInv
<1>2. TypeOK /\ EngineFollowsPc /\ [Next]_vars => (TypeOK /\ EngineFollowsPc)'
  BY TypeStep, EngineStep
<1>3. QED
  BY <1>1, <1>2, PTL DEF Spec

(* The ring cursors, the LPIB positions and the lengths of stream_loop     *)
(* stay within the cyclic buffer.                                          *)
THEOREM StreamTypeCorrect == Spec => []TypeOK
  BY EngineAlways, PTL

(* stream_play_loop never unmaps buffers the engine still plays, unless    *)
(* stream_loop or stream_stop failed.                                      *)
THEOREM StreamOwnsBuffers == Spec => []EngineOwnsBuffers
<1>1. TypeOK /\ EngineFollowsPc => EngineOwnsBuffers
  <2> SUFFICES ASSUME TypeOK, EngineFollowsPc, running, faults \cap {"loop", "stop"} = {} PROVE mapped
    BY DEF EngineOwnsBuffers
  <2>1. pc \in Playing
    BY DEF EngineFollowsPc
  <2>2. pc # "idle"
    BY <2>1 DEF Playing, InLoop, LoopPc
  <2>3. QED
    BY <2>2, Zenon DEF EngineFollowsPc
<1>2. QED
  BY <1>1, EngineAlways, PTL

(* The inductive invariant holds of an engine that starts from the first   *)
(* buffer every time.                                                      *)
LEMMA InvAlways == ASSUME LpibRestarts PROVE Spec => []IInv
<1>1. IInv /\ [Next]_vars => IInv'
  BY IInvStep
<1>2. QED
  BY <1>1, InitHolds, PTL DEF Spec

(* stream_loop refills the ring before the engine comes round, although it *)
(* sees the engine's position only modulo the ring.                        *)
THEOREM StreamNeverUnderruns == ASSUME LpibRestarts PROVE Spec => []NoUnderrun
<1>1. IInv => NoUnderrun
  BY EngineFacts DEF NoUnderrun
<1>2. QED
  BY <1>1, InvAlways, PTL

(* The engine's slot holds the sample that is due, across all three wraps. *)
THEOREM StreamInStep == ASSUME LpibRestarts PROVE Spec => []InOrder
<1>1. IInv => InOrder
  BY EngineFacts DEF InOrder
<1>2. QED
  BY <1>1, InvAlways, PTL

(* Loop::transfer and stream_loop play the caller's samples one by one,    *)
(* from the first on, over and over: the cyclic buffer, its refills from   *)
(* positions known only modulo the ring, and whatever ended the calls      *)
(* before are hidden from the client.                                      *)
THEOREM StreamImplementsOutput == ASSUME LpibRestarts PROVE Spec => PlaysInOrder
<1>1. IInv /\ [Next]_vars => [Output!OutputNext]_Output!outputVars
  BY OutputSteps
<1>2. QED
  BY <1>1, OutputInits, InvAlways, PTL DEF Spec, PlaysInOrder, Output!OutputSpec

(* Loop::transfer overwrites no sample that is still to be played.         *)
THEOREM StreamRefillsPlayed == ASSUME LpibRestarts PROVE Spec => []RefillsPlayed
<1>1. IInv => RefillsPlayed
  BY RefilledWasPlayed DEF RefillsPlayed
<1>2. QED
  BY <1>1, InvAlways, PTL

(* A call of stream_play_loop that succeeds has been played for as long as *)
(* it was asked to, up to the time it took to start the engine, unless     *)
(* stream_start failed, which the call does not notice: on any engine, and *)
(* also when an earlier call could not stop it.                            *)
THEOREM StreamPlaysInFull == Spec => []PlayedInFull
<1>1. Init => TimeInv
  BY InitHolds DEF IInv, TimeInv, Init, TimerInStep, Playing, InLoop, LoopPc
<1>2. TimeInv /\ [Next]_vars => TimeInv'
  BY TypeStep, AgesStep, TimerStep DEF TimeInv
<1>3. TimeInv => PlayedInFull
  <2> SUFFICES ASSUME TimeInv, pc = "idle", status = "success", "start" \notin faults
               PROVE  req.time - played <= StartGap
    BY DEF PlayedInFull
  <2>1. req.time <= played + StartGap
    BY DEF TimeInv, TimerInStep, Started
  <2>2. req.time \in Nat /\ played \in Nat /\ StartGap \in Nat
    BY RequestFacts, RingFacts DEF TimeInv, TypeOK
  <2>3. QED
    BY <2>1, <2>2
<1>4. QED
  BY <1>1, <1>2, <1>3, PTL DEF Spec
-----------------------------------------------------------------------------
(***************************************************************************)
(* A playback comes to its end: what lies ahead of it shrinks at every     *)
(* step of the driver and at every sample's time, in an order in which     *)
(* nothing can go on shrinking, whatever the engine does.                  *)
(***************************************************************************)
(* The copy loops come out even. *)
CopyInStep ==
  /\ pc = "setup" => copied = 0
  /\ pc = "prefill" => copied < Ring /\ (Ring - copied) % BufferSize = 0
  /\ pc = "fill" => copied < WholeBuffers(room) /\ (WholeBuffers(room) - copied) % BufferSize = 0

(* All that the argument needs of a state. *)
BoundsKnown == TypeOK /\ AgesBounded /\ CopyInStep

(* The stages of a call.  In the loop there is the time until the playback *)
(* event, the trace event that may come before it, and a turn; in a copy,  *)
(* samples; and time that may pass before the driver must act.             *)
StagesAhead ==
  CASE pc = "setup"      -> 8
    [] pc = "prefill"    -> 7
    [] pc = "arm"        -> 6
    [] pc = "start"      -> 5
    [] pc = "start_lpib" -> 4
    [] pc \in LoopPc     -> 3
    [] pc = "stop"       -> 2
    [] pc \in {"cleanup", "abort"} -> 1
    [] OTHER -> 0

TimeAhead  == IF pc \in LoopPc /\ ~playSet THEN timeLeft + 1 ELSE 0
EventAhead == IF pc \in LoopPc /\ ~playSet /\ traceSet THEN 1 ELSE 0
TurnAhead  == CASE pc = "poll" -> 2 [] pc = "fill" -> 1 [] OTHER -> 0

SamplesAhead ==
  CASE pc = "prefill" -> Ring - copied
    [] pc = "fill" -> WholeBuffers(room) - copied
    [] OTHER -> 0

SlackAhead ==
  CASE pc \in {"start", "start_lpib"} -> StartGap - age
    [] pc \in LoopPc \cup {"stop"} -> Gap(req.len) - age
    [] OTHER -> 0

Ahead == <<StagesAhead, TimeAhead, EventAhead, TurnAhead, SamplesAhead, SlackAhead>>

NatOrder  == OpToRel(<, Nat)
CallOrder == LexProductOrdering(NatOrder, Nat, 6)

(* The order in which stream_play_loop gets on with a call is well-        *)
(* founded: there is no endless sequence of states each of which has less  *)
(* ahead of it than the one before.                                        *)
THEOREM CallOrderIsWellFounded == IsWellFoundedOn(CallOrder, [1..6 -> Nat])
<1>1. IsWellFoundedOn(NatOrder, Nat)
  BY NatLessThanWellFounded DEF NatOrder
<1>2. 6 \in Nat
  OBVIOUS
<1>3. QED
  BY <1>1, <1>2, WFLexProductOrdering DEF CallOrder

Below(s, t, i) == s[i] < t[i] /\ \A j \in 1..i-1 : s[j] = t[j]

LEMMA CallOrderIs ==
  ASSUME NEW s \in [1..6 -> Nat], NEW t \in [1..6 -> Nat], NEW i \in 1..6, Below(s, t, i)
  PROVE  <<s, t>> \in CallOrder
<1>1. s[i] \in Nat /\ t[i] \in Nat /\ s[i] < t[i] /\ \A j \in 1..i-1 : s[j] = t[j]
  BY DEF Below
<1>2. <<s[i], t[i]>> \in NatOrder
  BY <1>1 DEF NatOrder, OpToRel
<1>3. QED
  BY <1>1, <1>2 DEF CallOrder, LexProductOrdering

AheadTyped == Ahead \in [1..6 -> Nat]

LEMMA AheadType == BoundsKnown => AheadTyped
<1> SUFFICES ASSUME BoundsKnown PROVE AheadTyped
  OBVIOUS
<1> USE RingFacts
<1>1. /\ copied \in Nat /\ room \in Nat /\ age \in Nat /\ timeLeft \in Nat
      /\ Gap(req.len) \in Nat
  BY RequestFacts DEF BoundsKnown, TypeOK
<1>2. StagesAhead \in 0..8 /\ EventAhead \in 0..1 /\ TurnAhead \in 0..2
  BY DEF StagesAhead, EventAhead, TurnAhead
<1>3. TimeAhead \in Nat
  BY <1>1 DEF TimeAhead
<1>4. SamplesAhead \in Nat
  <2>0. room \in Nat
    BY <1>1
  <2>1. WholeBuffers(room) \in Nat
    <3>1. WholeBuffers(room) \in 0..room
      BY <2>0, WholeBuffersFacts
    <3> QED
      BY <2>0, <3>1
  <2>2. /\ pc = "prefill" => Ring - copied \in Nat
        /\ pc = "fill" => WholeBuffers(room) - copied \in Nat
    BY <1>1, <2>1 DEF BoundsKnown, CopyInStep
  <2>3. QED
    BY <2>2 DEF SamplesAhead
<1>5. SlackAhead \in Nat
  <2>1. /\ pc \in {"start", "start_lpib"} => StartGap - age \in Nat
        /\ pc \in LoopPc \cup {"stop"} => Gap(req.len) - age \in Nat
    BY <1>1 DEF BoundsKnown, AgesBounded, InLoop
  <2>2. QED
    BY <2>1 DEF SlackAhead
<1>6. QED
  BY <1>2, <1>3, <1>4, <1>5 DEF AheadTyped, Ahead

(* The copy loops take whole buffers, so that they meet their ends. *)
LEMMA CopyStep == ASSUME TypeOK, CopyInStep, [Next]_vars PROVE CopyInStep'
<1> USE RingFacts
<1>1. copied \in Nat /\ room \in Nat
  BY DEF TypeOK
<1>2. CASE Begin
  BY <1>2 DEF Begin, CopyInStep
<1>3. CASE Setup
  <2>1. Ring - 0 = BufferSize * BufferCount + 0
    BY DEF Ring
  <2>2. (BufferSize * BufferCount + 0) % BufferSize = 0 % BufferSize
    BY ModLap, BufferCount \in Int, 0 \in Int
  <2>3. 0 % BufferSize = 0
    BY ModSmall, 0 \in 0..BufferSize-1
  <2>4. (Ring - 0) % BufferSize = 0
    BY <2>1, <2>2, <2>3
  <2>5. copied = 0 /\ copied' = 0 /\ pc' = "prefill"
    BY <1>3 DEF Setup, CopyInStep, loopVars
  <2>6. (Ring - copied') % BufferSize = 0
    BY <2>4, <2>5
  <2>7. QED
    BY <2>5, <2>6 DEF CopyInStep, Ring
<1>4. CASE Prefill
  <2>1. /\ Ring - copied \in Nat /\ Ring - copied > 0 /\ (Ring - copied) % BufferSize = 0
        /\ copied' = copied + BufferSize /\ pc' = IF copied' = Ring THEN "arm" ELSE "prefill"
    BY <1>1, <1>4 DEF Prefill, FillBuffer, CopyInStep
  <2>2. Ring - copied >= BufferSize /\ (Ring - copied - BufferSize) % BufferSize = 0
    BY <2>1, OneBufferLess
  <2>3. Ring - copied - BufferSize = Ring - copied' /\ copied' <= Ring
    BY <1>1, <2>1, <2>2
  <2>4. (Ring - copied') % BufferSize = 0
    BY <2>2, <2>3
  <2>5. copied' # Ring => copied' < Ring
    BY <1>1, <2>1, <2>3
  <2>6. QED
    BY <2>1, <2>4, <2>5 DEF CopyInStep, Ring
<1>5. CASE Poll
  <2>1. room' = queueRoom + Advance(startLpib, lpib) /\ copied' = 0
        /\ pc' = (IF room' >= BufferSize THEN "fill" ELSE "wait")
    BY <1>5 DEF Poll
  <2>2. room' \in Nat
    <3>1. Advance(startLpib, lpib) \in Nat
      BY DEF Advance, TypeOK, Slot
    <3>2. QED
      BY <2>1, <3>1 DEF TypeOK
  <2>3. PICK r \in Nat : r = room'
    BY <2>2
  <2>4. r >= BufferSize => WholeBuffers(r) > 0
    BY WholeBuffersFacts
  <2>5. WholeBuffers(r) \in Nat /\ WholeBuffers(r) % BufferSize = 0
    BY WholeBuffersFacts
  <2>6. WholeBuffers(room)' = WholeBuffers(r)
    BY <2>3 DEF WholeBuffers
  <2>7. WholeBuffers(room)' - copied' = WholeBuffers(r)
    BY <2>1, <2>5, <2>6
  <2>8. QED
    BY <2>1, <2>3, <2>4, <2>5, <2>6, <2>7 DEF CopyInStep
<1>6. CASE Refill
  <2>1. PICK W : W = WholeBuffers(room)
    OBVIOUS
  <2>2. W \in Nat /\ W - copied \in Nat /\ W - copied > 0 /\ (W - copied) % BufferSize = 0
    <3>1. room \in Nat
      BY DEF TypeOK
    <3>2. WholeBuffers(room) \in 0..room
      BY <3>1, WholeBuffersFacts
    <3>3. W \in Nat
      BY <2>1, <3>1, <3>2
    <3>4. pc = "fill"
      BY <1>6 DEF Refill
    <3>5. copied < W /\ (W - copied) % BufferSize = 0
      BY <2>1, <3>4 DEF CopyInStep
    <3>6. QED
      BY <1>1, <3>3, <3>5
  <2>3. W - copied >= BufferSize /\ (W - copied - BufferSize) % BufferSize = 0
    BY <2>2, OneBufferLess
  <2>4. copied' = copied + BufferSize /\ room' = room /\ (copied' = W => pc' = "wait")
    BY <1>6, <2>1 DEF Refill, FillBuffer
  <2>5. pc' \in {"wait", "fill"}
    BY <1>6 DEF Refill
  <2>6. W - copied - BufferSize = W - copied' /\ copied' <= W /\ (copied' # W => copied' < W)
    BY <1>1, <2>2, <2>3, <2>4
  <2>7. WholeBuffers(room)' = W /\ (W - copied') % BufferSize = 0
    BY <2>1, <2>3, <2>4, <2>6 DEF WholeBuffers
  <2>8. QED
    BY <2>4, <2>5, <2>6, <2>7 DEF CopyInStep
<1>7. CASE \/ SetupFails \/ Arm \/ Start \/ StartFails \/ ReadStart \/ WaitPlayback \/ WaitTrace
           \/ LoopFails \/ Stop \/ StopFails \/ Cleanup \/ Panic
  <2>1. pc' \notin {"setup", "prefill", "fill"}
    BY <1>7 DEF SetupFails, Arm, Start, StartFails, ReadStart, WaitPlayback, WaitTrace,
       LoopFails, Stop, StopFails, Cleanup, Panic
  <2>2. QED
    BY <2>1 DEF CopyInStep
<1>8. CASE UNCHANGED <<pc, room, copied>>
  BY <1>8 DEF CopyInStep, WholeBuffers, Ring
<1>9. Tick \/ UNCHANGED vars => UNCHANGED <<pc, room, copied>>
  BY DEF Tick, vars, loopVars
<1>10. QED
  BY <1>2, <1>3, <1>4, <1>5, <1>6, <1>7, <1>8, <1>9 DEF Next, Driver

(* What the measures rest on holds in every state. *)
LEMMA BoundsInv == Spec => []BoundsKnown
<1>1. Init => BoundsKnown
  <2>1. Init => TypeOK /\ AgesBounded
    BY InitHolds DEF IInv
  <2>2. Init => CopyInStep
    BY DEF Init, CopyInStep
  <2>3. QED
    BY <2>1, <2>2 DEF BoundsKnown
<1>2. BoundsKnown /\ [Next]_vars => BoundsKnown'
  BY TypeStep, AgesStep, CopyStep DEF BoundsKnown
<1>3. QED
  BY <1>1, <1>2, PTL DEF Spec

(* The parts of what lies ahead that a step leaves alone. *)
Shrinks ==
  \/ StagesAhead' < StagesAhead
  \/ UNCHANGED StagesAhead /\ TimeAhead' < TimeAhead
  \/ UNCHANGED <<StagesAhead, TimeAhead>> /\ EventAhead' < EventAhead
  \/ UNCHANGED <<StagesAhead, TimeAhead, EventAhead>> /\ TurnAhead' < TurnAhead
  \/ UNCHANGED <<StagesAhead, TimeAhead, EventAhead, TurnAhead>> /\ SamplesAhead' < SamplesAhead
  \/ UNCHANGED <<StagesAhead, TimeAhead, EventAhead, TurnAhead, SamplesAhead>>
     /\ SlackAhead' < SlackAhead

LEMMA ShrinkingIsBelow ==
  ASSUME BoundsKnown, BoundsKnown', Shrinks
  PROVE  <<Ahead', Ahead>> \in CallOrder
<1>1. AheadTyped /\ AheadTyped'
  BY AheadType, PTL
<1>2. PICK s \in [1..6 -> Nat], t \in [1..6 -> Nat] : s = Ahead' /\ t = Ahead
  BY <1>1 DEF AheadTyped
<1>3. /\ t[1] = StagesAhead /\ t[2] = TimeAhead /\ t[3] = EventAhead
      /\ t[4] = TurnAhead /\ t[5] = SamplesAhead /\ t[6] = SlackAhead
  BY <1>2 DEF Ahead
<1>4. /\ s[1] = StagesAhead' /\ s[2] = TimeAhead' /\ s[3] = EventAhead'
      /\ s[4] = TurnAhead' /\ s[5] = SamplesAhead' /\ s[6] = SlackAhead'
  BY <1>2 DEF Ahead
<1>5. \/ s[1] < t[1]
      \/ s[1] = t[1] /\ s[2] < t[2]
      \/ s[1] = t[1] /\ s[2] = t[2] /\ s[3] < t[3]
      \/ s[1] = t[1] /\ s[2] = t[2] /\ s[3] = t[3] /\ s[4] < t[4]
      \/ s[1] = t[1] /\ s[2] = t[2] /\ s[3] = t[3] /\ s[4] = t[4] /\ s[5] < t[5]
      \/ s[1] = t[1] /\ s[2] = t[2] /\ s[3] = t[3] /\ s[4] = t[4] /\ s[5] = t[5] /\ s[6] < t[6]
  BY <1>3, <1>4 DEF Shrinks
<1>6. \E i \in 1..6 : Below(s, t, i)
  <2>1. /\ Below(s, t, 1) <=> s[1] < t[1]
        /\ Below(s, t, 2) <=> s[1] = t[1] /\ s[2] < t[2]
        /\ Below(s, t, 3) <=> s[1] = t[1] /\ s[2] = t[2] /\ s[3] < t[3]
    BY DEF Below
  <2>2. /\ Below(s, t, 4) <=> s[1] = t[1] /\ s[2] = t[2] /\ s[3] = t[3] /\ s[4] < t[4]
        /\ Below(s, t, 5) <=> s[1] = t[1] /\ s[2] = t[2] /\ s[3] = t[3] /\ s[4] = t[4] /\ s[5] < t[5]
    BY DEF Below
  <2>3. Below(s, t, 6) <=> /\ s[1] = t[1] /\ s[2] = t[2] /\ s[3] = t[3] /\ s[4] = t[4]
                           /\ s[5] = t[5] /\ s[6] < t[6]
    BY DEF Below
  <2>4. QED
    BY <1>5, <2>1, <2>2, <2>3
<1>7. QED
  BY <1>2, <1>6, CallOrderIs

(* The steps from one stage of the call to the next. *)
LEMMA StagesShrink ==
  ASSUME \/ Setup \/ SetupFails \/ Arm \/ Start \/ StartFails \/ ReadStart \/ WaitPlayback
         \/ LoopFails \/ Stop \/ StopFails \/ Cleanup \/ Panic
  PROVE  StagesAhead' < StagesAhead
<1>1. Setup \/ SetupFails \/ Arm \/ Start \/ StartFails \/ ReadStart => StagesAhead' < StagesAhead
  BY DEF Setup, SetupFails, Arm, Start, StartFails, ReadStart, StagesAhead, LoopPc
<1>2. WaitPlayback \/ LoopFails \/ Stop \/ StopFails => StagesAhead' < StagesAhead
  BY DEF WaitPlayback, LoopFails, Stop, StopFails, StagesAhead, LoopPc
<1>3. Cleanup \/ Panic => StagesAhead' < StagesAhead
  BY DEF Cleanup, Panic, StagesAhead, LoopPc
<1>4. QED
  BY <1>1, <1>2, <1>3

LEMMA PrefillShrinks == ASSUME BoundsKnown, Prefill PROVE Shrinks
<1>1. CASE copied' = Ring
  <2>1. StagesAhead' < StagesAhead
    BY <1>1 DEF Prefill, StagesAhead, LoopPc
  <2>2. QED
    BY <2>1 DEF Shrinks
<1>2. CASE copied' # Ring
  <2>1. pc = "prefill" /\ pc' = "prefill" /\ copied' = copied + BufferSize
    BY <1>2 DEF Prefill, FillBuffer
  <2>2. UNCHANGED <<StagesAhead, TimeAhead, EventAhead, TurnAhead>>
    BY <2>1 DEF StagesAhead, TimeAhead, EventAhead, TurnAhead, LoopPc
  <2>3. SamplesAhead = Ring - copied /\ SamplesAhead' = Ring - copied'
    BY <2>1 DEF SamplesAhead, Ring
  <2>4. copied \in Nat
    BY DEF BoundsKnown, TypeOK
  <2>5. SamplesAhead' < SamplesAhead
    BY <2>1, <2>3, <2>4, RingFacts
  <2>6. QED
    BY <2>2, <2>5 DEF Shrinks
<1>3. QED
  BY <1>1, <1>2

(* Looking for room, and filling it, ends the turn. *)
LEMMA TurnShrinks == ASSUME BoundsKnown, Poll \/ Refill PROVE Shrinks
<1>1. UNCHANGED <<timeLeft, playSet, traceSet>> /\ pc \in LoopPc /\ pc' \in LoopPc
  BY DEF Poll, Refill, timerVars, LoopPc
<1>2. UNCHANGED <<StagesAhead, TimeAhead, EventAhead>>
  BY <1>1 DEF StagesAhead, TimeAhead, EventAhead, LoopPc
<1>3. CASE Poll
  <2>1. TurnAhead' < TurnAhead
    BY <1>3 DEF Poll, TurnAhead
  <2>2. QED
    BY <1>2, <2>1 DEF Shrinks
<1>4. CASE Refill /\ pc' = "wait"
  <2>1. TurnAhead' < TurnAhead
    BY <1>4 DEF Refill, TurnAhead
  <2>2. QED
    BY <1>2, <2>1 DEF Shrinks
<1>5. CASE Refill /\ pc' # "wait"
  <2>1. pc = "fill" /\ pc' = "fill" /\ copied' = copied + BufferSize /\ room' = room
    BY <1>5 DEF Refill, FillBuffer
  <2>2. SamplesAhead = WholeBuffers(room) - copied /\ SamplesAhead' = WholeBuffers(room) - copied'
    BY <2>1 DEF SamplesAhead, WholeBuffers
  <2>3. copied \in Nat /\ WholeBuffers(room) \in Nat
    BY WholeBuffersFacts DEF BoundsKnown, TypeOK
  <2>4. SamplesAhead' < SamplesAhead
    BY <2>1, <2>2, <2>3, RingFacts
  <2>5. UNCHANGED TurnAhead
    BY <2>1 DEF TurnAhead
  <2>6. QED
    BY <1>2, <2>4, <2>5 DEF Shrinks
<1>6. QED
  BY <1>3, <1>4, <1>5

LEMMA WaitShrinks == ASSUME WaitTrace PROVE Shrinks
<1>1. /\ pc = "wait" /\ pc' = "poll" /\ ~playSet /\ traceSet
      /\ playSet' = playSet /\ timeLeft' = timeLeft /\ ~traceSet'
  BY DEF WaitTrace, Signaled
<1>2. UNCHANGED <<StagesAhead, TimeAhead>> /\ EventAhead' < EventAhead
  BY <1>1 DEF StagesAhead, TimeAhead, EventAhead, LoopPc
<1>3. QED
  BY <1>2 DEF Shrinks

(* Time that passes brings the playback event nearer; when it is there, or *)
(* not armed or past, time may not pass for long.                          *)
LEMMA TickShrinks == ASSUME BoundsKnown, Tick PROVE Shrinks
<1>1. /\ MayPass /\ UNCHANGED <<pc, req, copied, room>> /\ age' = age + 1
      /\ timeLeft' = (IF timeLeft = 0 THEN 0 ELSE timeLeft - 1)
      /\ playSet' = (playSet \/ timeLeft <= 1)
  BY DEF Tick, loopVars
<1>2. age \in Nat /\ timeLeft \in Nat /\ playSet \in BOOLEAN /\ Gap(req.len) \in Nat
      /\ StartGap \in Nat
  BY RequestFacts, RingFacts DEF BoundsKnown, TypeOK
<1>3. UNCHANGED <<StagesAhead, TurnAhead, SamplesAhead>>
  BY <1>1 DEF StagesAhead, TurnAhead, SamplesAhead, Ring, WholeBuffers
<1>4. CASE pc \in LoopPc /\ ~playSet
  <2>1. TimeAhead = timeLeft + 1 /\ TimeAhead' = IF playSet' THEN 0 ELSE timeLeft' + 1
    BY <1>1, <1>4 DEF TimeAhead
  <2>2. TimeAhead' < TimeAhead
    <3>1. CASE timeLeft <= 1
      <4>1. playSet'
        BY <1>1, <3>1
      <4>2. TimeAhead' = 0
        BY <2>1, <4>1
      <4>3. QED
        BY <1>2, <2>1, <4>2
    <3>2. CASE timeLeft > 1
      <4>1. timeLeft' = timeLeft - 1
        BY <1>1, <1>2, <3>2
      <4>2. TimeAhead' \in {0, timeLeft' + 1}
        BY <2>1
      <4>3. QED
        BY <1>2, <2>1, <3>2, <4>1, <4>2
    <3>3. QED
      BY <1>2, <3>1, <3>2
  <2>3. QED
    BY <1>3, <2>2 DEF Shrinks
<1>5. CASE ~(pc \in LoopPc /\ ~playSet)
  <2>1. TimeAhead = 0 /\ EventAhead = 0 /\ TimeAhead' = 0 /\ EventAhead' = 0
    BY <1>1, <1>5 DEF TimeAhead, EventAhead
  <2>2. Gap(req.len)' = Gap(req.len)
    BY <1>1 DEF Gap, TracePeriod
  <2>3. SlackAhead' < SlackAhead
    <3>1. CASE pc \in {"start", "start_lpib"} /\ age < StartGap
      BY <1>1, <1>2, <3>1 DEF SlackAhead, LoopPc
    <3>2. CASE pc \in LoopPc \cup {"stop"} /\ age < Gap(req.len)
      <4>1. SlackAhead = Gap(req.len) - age /\ SlackAhead' = Gap(req.len) - age'
        BY <1>1, <2>2, <3>2 DEF SlackAhead, LoopPc
      <4>2. QED
        BY <1>1, <1>2, <4>1
    <3>3. QED
      BY <1>1, <3>1, <3>2 DEF MayPass
  <2>4. QED
    BY <1>3, <2>1, <2>3 DEF Shrinks
<1>6. QED
  BY <1>4, <1>5

(* A playback comes nearer to its end with every step and every sample's   *)
(* time.                                                                   *)
PlaybackAdvances == [][Busy => <<Ahead', Ahead>> \in CallOrder]_vars

(* stream_play_loop (main.rs 2038-2108) cannot go on for ever, whatever    *)
(* the samples, the delays and the engine: not in the copy loops, as the   *)
(* room they fill is cut to whole buffers, and not in stream_loop, as the  *)
(* playback event is looked at before the trace event.                     *)
THEOREM PlaybackAlwaysAdvances == Spec => PlaybackAdvances
<1>1. ASSUME BoundsKnown, [Next]_vars, BoundsKnown'
      PROVE  [Busy => <<Ahead', Ahead>> \in CallOrder]_vars
  <2> SUFFICES ASSUME Next, Busy PROVE Shrinks
    BY <1>1, ShrinkingIsBelow
  <2>1. ~Begin
    BY DEF Begin, Busy
  <2>2. CASE \/ Setup \/ SetupFails \/ Arm \/ Start \/ StartFails \/ ReadStart \/ WaitPlayback
             \/ LoopFails \/ Stop \/ StopFails \/ Cleanup \/ Panic
    BY <2>2, StagesShrink DEF Shrinks
  <2>3. CASE Prefill \/ Poll \/ Refill
    BY <1>1, <2>3, PrefillShrinks, TurnShrinks
  <2>4. CASE WaitTrace \/ Tick
    BY <1>1, <2>4, WaitShrinks, TickShrinks
  <2>5. QED
    BY <2>1, <2>2, <2>3, <2>4 DEF Next, Driver
<1>2. BoundsKnown /\ BoundsKnown' /\ [Next]_vars
        => [Busy => <<Ahead', Ahead>> \in CallOrder]_vars
  BY <1>1
<1>3. QED
  BY BoundsInv, <1>2, PTL DEF Spec, PlaybackAdvances
=============================================================================
