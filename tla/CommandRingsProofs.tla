------------------------- MODULE CommandRingsProofs -------------------------
(***************************************************************************)
(* Proofs about CommandRings, for rings of any size, any set of codecs and *)
(* any number of commands.                                                 *)
(***************************************************************************)
EXTENDS CommandRings, RingArithmetic

(***************************************************************************)
(* The inductive invariant, as a conjunction of named parts.               *)
(***************************************************************************)

(* Which engines run at which step of new(), exec() and drop(). *)
EnginesFollowPc ==
  /\ pc \in {"new_reset", "new_run_rirb"} => rirbDma = "off" /\ corbDma = "off"
  /\ pc = "new_run_corb" => rirbDma = "on" /\ corbDma = "off"
  /\ pc \in ExecPc \cup {"drop_rirb"} => rirbDma = "on" /\ corbDma = "on"
  /\ pc = "drop_corb" => corbDma = "on"

(* CORBWP is as far ahead of CORBRP as there are commands to fetch, and    *)
(* never a whole ring ahead, which would look like an empty ring.          *)
CorbInStep ==
  corbDma # "off" => pending < CorbSize /\ corbwp = (corbrp + pending) % CorbSize

(* Setup puts every cursor back to the start. *)
CursorsReset ==
  /\ pc \in {"new_run_rirb", "new_run_corb"} => corbwp = 0 /\ corbrp = 0 /\ pending = 0
  /\ pc = "new_run_rirb" => rirbwp = 0

(* At most one response waits beyond position p, with RIRBSTS raised. *)
OneUnread(p) == rirbwp = p \/ (irq /\ rirbwp = RirbNext(p))

ResponsesInStep ==
  /\ InSession => OneUnread(readPos) /\ (rirbwp # readPos => rirb[rirbwp] \in Response)
  /\ pc = "ack" => irq /\ rirbwp = readPos /\ got \in Response
  /\ pc = "new_run_corb" => OneUnread(0) /\ (rirbwp # 0 => rirb[rirbwp] = Unsol)

(* Nothing of an earlier command is left when exec() sends the next one. *)
Quiet == pending = 0 /\ (rirbwp # readPos => rirb[rirbwp] = Unsol)

(* The command exec() waits for is still to be fetched, or it has been     *)
(* fetched, and then any answer that waits is the answer to it.            *)
AwaitsOwn ==
  \/ /\ pending = 1 /\ corb[CorbNext(corbrp)] = cmd
     /\ rirbwp # readPos => rirb[rirbwp] = Unsol
  \/ pending = 0 /\ (rirbwp # readPos => rirb[rirbwp] \in {Unsol, cmd.id})

ExecInStep ==
  /\ pc = "doorbell" => pending + 1 < CorbSize
  /\ pc \in {"doorbell", "timer", "poll", "ack", "check"} => cmd \in Command
  /\ pc = "doorbell" => corb[CorbNext(corbwp)] = cmd
  /\ ~broken =>
       /\ pc \in {"ready", "doorbell"} => Quiet
       /\ pc \in {"timer", "poll", "ack", "check"} => AwaitsOwn
       /\ pc = "ack" => got = Unsol \/ (got = cmd.id /\ pending = 0)

IInv ==
  /\ TypeOK
  /\ EnginesFollowPc
  /\ CursorsReset
  /\ CorbInStep
  /\ ResponsesInStep
  /\ ExecInStep
  /\ RepliesMatch
  /\ RaisedMeansUnread
  /\ EnginesOwnRings
-----------------------------------------------------------------------------
(* Facts about the cursors. *)

LEMMA RirbNextFacts ==
  ASSUME NEW i \in 0..RirbSize-1
  PROVE  RirbNext(i) \in 0..RirbSize-1 /\ RirbNext(i) # i
  BY RingsAssumption, ModNext, ModNextMoves DEF RirbNext

LEMMA CorbNextFacts ==
  ASSUME NEW i \in 0..CorbSize-1
  PROVE  CorbNext(i) \in 0..CorbSize-1 /\ CorbNext(i) # i
  BY RingsAssumption, ModNext, ModNextMoves DEF CorbNext

(* A running controller finds the ring empty exactly when nothing waits,   *)
(* and has one command less to fetch after each fetch.                     *)
LEMMA FetchFacts ==
  ASSUME TypeOK, CorbInStep, corbDma # "off"
  PROVE  /\ corbrp = corbwp <=> pending = 0
         /\ corbrp # corbwp =>
              /\ pending - 1 \in Nat /\ pending - 1 < CorbSize
              /\ corbwp = (CorbNext(corbrp) + (pending - 1)) % CorbSize
<1> USE RingsAssumption
<1>1. corbrp \in 0..CorbSize-1 /\ pending \in 0..CorbSize-1
      /\ corbwp = (corbrp + pending) % CorbSize
  BY DEF TypeOK, CorbInStep
<1>2. corbrp = corbwp <=> pending = 0
  BY <1>1, ModSum
<1>3. ASSUME pending # 0
      PROVE  corbwp = (CorbNext(corbrp) + (pending - 1)) % CorbSize
  <2>1. pending - 1 \in 0..CorbSize-1 /\ corbrp + (pending - 1) + 1 = corbrp + pending
    BY <1>1, <1>3
  <2>2. QED
    BY <1>1, <2>1, ModShift DEF CorbNext
<1>4. QED
  BY <1>1, <1>2, <1>3

(* CORBWP plus one is where one more waiting command takes it; the test of *)
(* send() tells whether the ring has room for it.                          *)
LEMMA SendFacts ==
  ASSUME TypeOK, CorbInStep, corbDma # "off"
  PROVE  /\ pending + 1 < CorbSize => CorbNext(corbwp) = (corbrp + (pending + 1)) % CorbSize
         /\ ~CorbFull => pending + 1 < CorbSize
<1> USE RingsAssumption
<1>1. corbrp \in 0..CorbSize-1 /\ pending \in 0..CorbSize-1
      /\ corbwp = (corbrp + pending) % CorbSize
  BY DEF TypeOK, CorbInStep
<1>2. CorbNext(corbwp) = (corbrp + pending + 1) % CorbSize
  BY <1>1, ModShift DEF CorbNext
<1>3. pending + 1 = CorbSize => CorbNext(corbwp) = corbrp
  <2>1. ASSUME pending + 1 = CorbSize PROVE corbrp + pending + 1 = corbrp + CorbSize
    BY <1>1, <2>1
  <2>2. (corbrp + CorbSize) % CorbSize = corbrp
    BY <1>1
  <2>3. QED
    BY <1>2, <2>1, <2>2
<1>4. QED
  BY <1>1, <1>2, <1>3 DEF CorbFull
-----------------------------------------------------------------------------
(* The invariant is inductive. *)

LEMMA InvInit == Init => IInv
<1> SUFFICES ASSUME Init PROVE IInv
  OBVIOUS
<1> USE RingsAssumption DEF Init
<1>0. /\ irq \in BOOLEAN /\ broken \in BOOLEAN /\ deaf \in BOOLEAN /\ leaked \in BOOLEAN
  BY Zenon
<1>1. TypeOK
  BY <1>0 DEF TypeOK, Dma
<1>2. EnginesFollowPc
  BY DEF EnginesFollowPc, Dma, NewPc, ExecPc, DropPc, InSession, OneUnread
<1>3. CursorsReset
  BY DEF CursorsReset, Dma, NewPc, ExecPc, DropPc, InSession, OneUnread
<1>4. CorbInStep
  BY DEF CorbInStep, Dma, NewPc, ExecPc, DropPc, InSession, OneUnread
<1>5. ResponsesInStep
  BY DEF ResponsesInStep, Dma, NewPc, ExecPc, DropPc, InSession, OneUnread
<1>6. ExecInStep
  BY DEF ExecInStep, Dma, NewPc, ExecPc, DropPc, InSession, OneUnread
<1>7. RepliesMatch
  BY DEF RepliesMatch, Dma, NewPc, ExecPc, DropPc, InSession, OneUnread
<1>8. RaisedMeansUnread
  BY DEF RaisedMeansUnread, Dma, NewPc, ExecPc, DropPc, InSession, OneUnread
<1>9. EnginesOwnRings
  BY DEF EnginesOwnRings, Dma, NewPc, ExecPc, DropPc, InSession, OneUnread
<1> QED
  BY <1>1, <1>2, <1>3, <1>4, <1>5, <1>6, <1>7, <1>8, <1>9 DEF IInv

LEMMA InvNext == IInv /\ [Next]_vars => IInv'
<1> SUFFICES ASSUME IInv, [Next]_vars PROVE IInv'
  OBVIOUS
<1> USE RingsAssumption DEF IInv, TypeOK, EnginesFollowPc, CursorsReset, CorbInStep,
     ResponsesInStep, ExecInStep, RepliesMatch, RaisedMeansUnread, EnginesOwnRings,
     Dma, NewPc, ExecPc, DropPc, InSession, OneUnread, Quiet, AwaitsOwn,
     Command, Response, Id, vars, hwVars, drvVars, histVars
<1>1. CASE BusReset
  <2>0. irq' \in BOOLEAN /\ leaked' \in BOOLEAN
    BY <1>1, Zenon DEF BusReset
  <2>1. TypeOK'
    BY <1>1, <2>0 DEF BusReset
  <2>2. EnginesFollowPc'
    BY <1>1 DEF BusReset
  <2>3. CursorsReset'
    BY <1>1 DEF BusReset
  <2>4. CorbInStep'
    BY <1>1 DEF BusReset
  <2>5. ResponsesInStep'
    BY <1>1 DEF BusReset
  <2>6. ExecInStep'
    BY <1>1 DEF BusReset
  <2>7. RepliesMatch'
    BY <1>1 DEF BusReset
  <2>8. RaisedMeansUnread'
    BY <1>1 DEF BusReset
  <2>9. EnginesOwnRings'
    BY <1>1 DEF BusReset
  <2> QED
    BY <2>1, <2>2, <2>3, <2>4, <2>5, <2>6, <2>7, <2>8, <2>9
<1>2. CASE NewMap
  BY <1>2 DEF NewMap
<1>3. CASE NewHalt
  BY <1>3 DEF NewHalt, Halted
<1>4. CASE NewWait
  BY <1>4, ZenonT(40) DEF NewWait, Stopped
<1>5. CASE NewReset
  BY <1>5 DEF NewReset
<1>6. CASE NewRunRirb
  BY <1>6 DEF NewRunRirb
<1>7. CASE NewRunCorb
  <2>0. broken' \in BOOLEAN /\ deaf' \in BOOLEAN
    BY <1>7, Zenon DEF NewRunCorb
  <2>1. TypeOK'
    BY <1>7, <2>0 DEF NewRunCorb
  <2>2. EnginesFollowPc'
    BY <1>7 DEF NewRunCorb
  <2>3. CursorsReset'
    BY <1>7 DEF NewRunCorb
  <2>4. CorbInStep'
    BY <1>7 DEF NewRunCorb
  <2>5. ResponsesInStep'
    BY <1>7 DEF NewRunCorb
  <2>6. ExecInStep'
    BY <1>7 DEF NewRunCorb
  <2>7. RepliesMatch'
    BY <1>7 DEF NewRunCorb
  <2>8. RaisedMeansUnread'
    BY <1>7 DEF NewRunCorb
  <2>9. EnginesOwnRings'
    BY <1>7 DEF NewRunCorb
  <2> QED
    BY <2>1, <2>2, <2>3, <2>4, <2>5, <2>6, <2>7, <2>8, <2>9
<1>8. CASE NewFails
  <2>0. leaked' \in BOOLEAN /\ rirbDma' \in Dma
    BY <1>8 DEF NewFails, Halted
  <2>a. {corbwp', corbrp'} \subseteq 0..CorbSize-1 /\ rirbwp' \in 0..RirbSize-1
    BY <1>8 DEF NewFails
  <2>1. TypeOK'
    BY <1>8, <2>0, <2>a DEF NewFails
  <2>2. EnginesFollowPc'
    BY <1>8 DEF NewFails, Halted
  <2>3. CursorsReset'
    BY <1>8 DEF NewFails, Halted
  <2>4. CorbInStep'
    BY <1>8 DEF NewFails, Halted
  <2>5. ResponsesInStep'
    BY <1>8 DEF NewFails, Halted
  <2>6. ExecInStep'
    BY <1>8 DEF NewFails, Halted
  <2>7. RepliesMatch'
    BY <1>8 DEF NewFails, Halted
  <2>8. RaisedMeansUnread'
    BY <1>8 DEF NewFails, Halted
  <2>9. EnginesOwnRings'
    BY <1>8 DEF NewFails, Halted
  <2> QED
    BY <2>1, <2>2, <2>3, <2>4, <2>5, <2>6, <2>7, <2>8, <2>9
<1>9. CASE Send
  <2>a. cmd' \in Command /\ nextId' \in Nat
    BY <1>9 DEF Send
  <2>b. corb' \in [0..CorbSize-1 -> Command \cup {None}]
    BY <1>9, <2>a, CorbNextFacts DEF Send, SendSlot
  <2>c. broken' \in BOOLEAN
    BY <1>9 DEF Send, FailExec
  <2>1. TypeOK'
    BY <1>9, <2>a, <2>b, <2>c DEF Send, FailExec
  <2>2. EnginesFollowPc'
    BY <1>9, SendFacts, CorbNextFacts DEF Send, FailExec, SendSlot
  <2>3. CursorsReset'
    BY <1>9, SendFacts, CorbNextFacts DEF Send, FailExec, SendSlot
  <2>4. CorbInStep'
    BY <1>9, SendFacts, CorbNextFacts DEF Send, FailExec, SendSlot
  <2>5. ResponsesInStep'
    BY <1>9, SendFacts, CorbNextFacts DEF Send, FailExec, SendSlot
  <2>6. ExecInStep'
    <3>1. CASE CorbFull
      BY <1>9, <2>a, <3>1 DEF Send, FailExec
    <3>2. CASE ~CorbFull
      <4>1. pending + 1 < CorbSize
        BY <1>9, <3>2, SendFacts DEF Send
      <4>2. corb'[CorbNext(corbwp)] = cmd'
        BY <1>9, <3>2, CorbNextFacts DEF Send, SendSlot
      <4>3. CorbNext(corbwp)' = CorbNext(corbwp)
        BY <1>9 DEF Send, CorbNext
      <4>4. QED
        BY <1>9, <2>a, <3>2, <4>1, <4>2, <4>3 DEF Send
    <3>3. QED
      BY <3>1, <3>2
  <2>7. RepliesMatch'
    BY <1>9, SendFacts, CorbNextFacts DEF Send, FailExec, SendSlot
  <2>8. RaisedMeansUnread'
    BY <1>9, SendFacts, CorbNextFacts DEF Send, FailExec, SendSlot
  <2>9. EnginesOwnRings'
    BY <1>9, SendFacts, CorbNextFacts DEF Send, FailExec, SendSlot
  <2> QED
    BY <2>1, <2>2, <2>3, <2>4, <2>5, <2>6, <2>7, <2>8, <2>9
<1>10. CASE Doorbell
  <2>1. TypeOK'
    BY <1>10, SendFacts, CorbNextFacts, SMTT(30) DEF Doorbell
  <2>2. EnginesFollowPc'
    BY <1>10, SendFacts, CorbNextFacts DEF Doorbell
  <2>3. CursorsReset'
    BY <1>10, SendFacts, CorbNextFacts DEF Doorbell
  <2>4. CorbInStep'
    BY <1>10, SendFacts, CorbNextFacts DEF Doorbell
  <2>5. ResponsesInStep'
    BY <1>10, SendFacts, CorbNextFacts DEF Doorbell
  <2>6. ExecInStep'
    <3>1. ~broken => corbrp' = corbwp /\ pending' = 1
      BY <1>10, FetchFacts DEF Doorbell
    <3>2. ~broken => corb'[CorbNext(corbrp)'] = cmd'
      BY <1>10, <3>1 DEF Doorbell, CorbNext
    <3>3. QED
      BY <1>10, <3>1, <3>2 DEF Doorbell
  <2>7. RepliesMatch'
    BY <1>10, SendFacts, CorbNextFacts DEF Doorbell
  <2>8. RaisedMeansUnread'
    BY <1>10, SendFacts, CorbNextFacts DEF Doorbell
  <2>9. EnginesOwnRings'
    BY <1>10, SendFacts, CorbNextFacts DEF Doorbell
  <2> QED
    BY <2>1, <2>2, <2>3, <2>4, <2>5, <2>6, <2>7, <2>8, <2>9
<1>11. CASE ArmTimer
  BY <1>11 DEF ArmTimer
<1>12. CASE ExecFails
  <2>1. TypeOK'
    BY <1>12 DEF ExecFails, FailExec
  <2>2. EnginesFollowPc'
    BY <1>12 DEF ExecFails, FailExec
  <2>3. CursorsReset'
    BY <1>12 DEF ExecFails, FailExec
  <2>4. CorbInStep'
    BY <1>12 DEF ExecFails, FailExec
  <2>5. ResponsesInStep'
    BY <1>12 DEF ExecFails, FailExec
  <2>6. ExecInStep'
    BY <1>12 DEF ExecFails, FailExec
  <2>7. RepliesMatch'
    BY <1>12 DEF ExecFails, FailExec
  <2>8. RaisedMeansUnread'
    BY <1>12 DEF ExecFails, FailExec
  <2>9. EnginesOwnRings'
    BY <1>12 DEF ExecFails, FailExec
  <2> QED
    BY <2>1, <2>2, <2>3, <2>4, <2>5, <2>6, <2>7, <2>8, <2>9
<1>13. CASE PollResponse
  BY <1>13 DEF PollResponse
<1>14. CASE PollNothing
  BY <1>14 DEF PollNothing
<1>15. CASE Acknowledge
  <2>0. irq' \in BOOLEAN
    BY <1>15, Zenon DEF Acknowledge
  <2>1. TypeOK'
    BY <1>15, <2>0, SMTT(30) DEF Acknowledge
  <2>2. EnginesFollowPc'
    BY <1>15 DEF Acknowledge
  <2>3. CursorsReset'
    BY <1>15 DEF Acknowledge
  <2>4. CorbInStep'
    BY <1>15 DEF Acknowledge
  <2>5. ResponsesInStep'
    BY <1>15 DEF Acknowledge
  <2>6. ExecInStep'
    BY <1>15 DEF Acknowledge
  <2>7. RepliesMatch'
    BY <1>15 DEF Acknowledge
  <2>8. RaisedMeansUnread'
    BY <1>15 DEF Acknowledge
  <2>9. EnginesOwnRings'
    BY <1>15 DEF Acknowledge
  <2> QED
    BY <2>1, <2>2, <2>3, <2>4, <2>5, <2>6, <2>7, <2>8, <2>9
<1>16. CASE AcknowledgeFails
  BY <1>16 DEF AcknowledgeFails
<1>17. CASE PollAgain
  BY <1>17 DEF PollAgain
<1>18. CASE Timeout
  <2>1. TypeOK'
    BY <1>18, SMTT(30) DEF Timeout, FailExec
  <2>2. EnginesFollowPc'
    BY <1>18 DEF Timeout, FailExec
  <2>3. CursorsReset'
    BY <1>18 DEF Timeout, FailExec
  <2>4. CorbInStep'
    BY <1>18 DEF Timeout, FailExec
  <2>5. ResponsesInStep'
    BY <1>18 DEF Timeout, FailExec
  <2>6. ExecInStep'
    BY <1>18 DEF Timeout, FailExec
  <2>7. RepliesMatch'
    BY <1>18 DEF Timeout, FailExec
  <2>8. RaisedMeansUnread'
    BY <1>18 DEF Timeout, FailExec
  <2>9. EnginesOwnRings'
    BY <1>18 DEF Timeout, FailExec
  <2> QED
    BY <2>1, <2>2, <2>3, <2>4, <2>5, <2>6, <2>7, <2>8, <2>9
<1>19. CASE DropRirb
  BY <1>19 DEF DropRirb, Halted
<1>20. CASE DropCorb
  BY <1>20 DEF DropCorb, Halted
<1>21. CASE DropWait
  BY <1>21 DEF DropWait, Stopped
<1>22. CASE DropFails
  BY <1>22 DEF DropFails
<1>23. CASE RirbStops
  BY <1>23 DEF RirbStops
<1>24. CASE CorbStops
  BY <1>24 DEF CorbStops
<1>25. CASE Fetch
  <2> DEFINE c == corb[CorbNext(corbrp)]
  <2>a. corbrp' \in 0..CorbSize-1 /\ pending' \in Nat /\ pending # 0
    BY <1>25, FetchFacts, CorbNextFacts DEF Fetch
  <2>b. c \in Command \cup {None}
    BY CorbNextFacts
  <2>c. \/ UNCHANGED <<rirb, rirbwp, irq>>
        \/ Answered(c.id) /\ c \in Command
    BY <1>25, <2>b DEF Fetch
  <2>d. rirb' \in [0..RirbSize-1 -> Response \cup {None}] /\ rirbwp' \in 0..RirbSize-1
    BY <2>c, RirbNextFacts DEF Answered
  <2>e. irq' \in BOOLEAN
    BY <2>c DEF Answered
  <2>1. TypeOK'
    BY <1>25, <2>a, <2>d, <2>e DEF Fetch
  <2>2. EnginesFollowPc'
    BY <1>25, FetchFacts, CorbNextFacts, RirbNextFacts DEF Fetch, Answered
  <2>3. CursorsReset'
    BY <1>25, FetchFacts, CorbNextFacts, RirbNextFacts DEF Fetch, Answered
  <2>4. CorbInStep'
    BY <1>25, FetchFacts, CorbNextFacts, RirbNextFacts DEF Fetch, Answered
  <2>5. ResponsesInStep'
    BY <1>25, FetchFacts, CorbNextFacts, RirbNextFacts, SMTT(30) DEF Fetch, Answered
  <2>6. ExecInStep'
    <3>1. pc = "doorbell" => pending' + 1 < CorbSize
      BY <1>25, <2>a DEF Fetch
    <3>2. pc \in {"ready", "doorbell"} => broken
      BY <2>a
    <3>3. ASSUME ~broken, pc \in {"timer", "poll", "ack", "check"}
          PROVE  AwaitsOwn' /\ (pc = "ack" => got = Unsol)
      <4>1. pending' = 0 /\ c = cmd /\ ~irq
        BY <1>25, <2>a, <3>3 DEF Fetch
      <4>2. rirbwp = readPos /\ pc # "ack"
        BY <4>1, <3>3
      <4>3. CASE UNCHANGED <<rirb, rirbwp, irq>>
        BY <1>25, <4>1, <4>2, <4>3 DEF Fetch
      <4>4. CASE Answered(c.id)
        <5>1. rirb'[rirbwp'] = cmd.id
          BY <4>1, <4>4, RirbNextFacts DEF Answered
        <5>2. QED
          BY <1>25, <4>1, <4>2, <5>1 DEF Fetch
      <4>5. QED
        BY <2>c, <4>3, <4>4
    <3>4. UNCHANGED <<pc, cmd, broken, got>> /\ corb'[CorbNext(corbwp)'] = corb[CorbNext(corbwp)]
      BY <1>25 DEF Fetch, CorbNext
    <3>5. QED
      BY <3>1, <3>2, <3>3, <3>4
  <2>7. RepliesMatch'
    BY <1>25, FetchFacts, CorbNextFacts, RirbNextFacts DEF Fetch, Answered
  <2>8. RaisedMeansUnread'
    BY <1>25, FetchFacts, CorbNextFacts, RirbNextFacts DEF Fetch, Answered
  <2>9. EnginesOwnRings'
    BY <1>25, FetchFacts, CorbNextFacts, RirbNextFacts DEF Fetch, Answered
  <2> QED
    BY <2>1, <2>2, <2>3, <2>4, <2>5, <2>6, <2>7, <2>8, <2>9
<1>26. CASE Unsolicited
  BY <1>26, RirbNextFacts DEF Unsolicited, Answered
<1>27. CASE UNCHANGED vars
  BY <1>27
<1>28. QED
  BY <1>1, <1>2, <1>3, <1>4, <1>5, <1>6, <1>7, <1>8, <1>9, <1>10, <1>11, <1>12, <1>13, <1>14, <1>15, <1>16, <1>17, <1>18, <1>19, <1>20, <1>21, <1>22, <1>23, <1>24, <1>25, <1>26, <1>27 DEF Next, Driver, Controller
(* The inductive invariant holds of every reachable state.                 *)
THEOREM InvAlways == Spec => []IInv
  BY InvInit, InvNext, PTL DEF Spec

-----------------------------------------------------------------------------
(* The properties. *)

(* Every register, cursor and driver variable keeps its type: the cursors  *)
(* stay within their rings.                                                *)
THEOREM TypeCorrect == Spec => []TypeOK
<1>1. IInv => TypeOK
  BY DEF IInv
<1>2. QED
  BY <1>1, InvAlways, PTL

(* exec() returns the answer to its own command, unless a caller ignored   *)
(* an earlier error of the same rings.                                     *)
THEOREM AnswersMatch == Spec => []RepliesMatch
<1>1. IInv => RepliesMatch
  BY DEF IInv
<1>2. QED
  BY <1>1, InvAlways, PTL

(* poll_rirb() can always clear the stall it is waiting behind.            *)
THEOREM StallIsPollable == Spec => []RaisedMeansUnread
<1>1. IInv => RaisedMeansUnread
  BY DEF IInv
<1>2. QED
  BY <1>1, InvAlways, PTL

(* An engine that outlives its rings is one that could not be stopped.     *)
THEOREM EnginesBound == Spec => []EnginesOwnRings
<1>1. IInv => EnginesOwnRings
  BY DEF IInv
<1>2. QED
  BY <1>1, InvAlways, PTL

(* The distance of the two CORB cursors, from which send() and the         *)
(* controller tell a full ring from an empty one, is the number of waiting *)
(* commands.                                                               *)
THEOREM CursorsAgree == Spec => []CorbInStep
<1>1. IInv => CorbInStep
  BY DEF IInv
<1>2. QED
  BY <1>1, InvAlways, PTL

(* send() never overwrites a command the controller has yet to fetch: the  *)
(* slot it writes is one more than `pending' ahead of CORBRP.              *)
LEMMA SendIsSafe ==
  ASSUME TypeOK, CorbInStep, EnginesFollowPc, Send, NEW k \in 1..pending
  PROVE  corb'[(corbrp + k) % CorbSize] = corb[(corbrp + k) % CorbSize]
<1> DEFINE Slot(j) == (corbrp + j) % CorbSize
<1>1. CASE CorbFull
  BY <1>1 DEF Send
<1>2. CASE ~CorbFull
  <2>1. corbDma # "off"
    BY DEF Send, EnginesFollowPc, ExecPc
  <2>2. CorbNext(corbwp) = Slot(pending + 1) /\ pending + 1 < CorbSize
    BY <1>2, <2>1, SendFacts
  <2>3. Slot(k) # Slot(pending + 1)
    <3>1. corbrp \in 0..CorbSize-1 /\ pending \in Nat
      BY DEF TypeOK
    <3>2. k \in 0..CorbSize-1 /\ pending + 1 \in 0..CorbSize-1 /\ k # pending + 1
      BY <2>2, <3>1, RingsAssumption
    <3>3. QED
      BY <3>1, <3>2, ModDistinct, RingsAssumption
  <2>4. corb' = [corb EXCEPT ![CorbNext(corbwp)] = cmd']
    BY <1>2 DEF Send, SendSlot
  <2>5. corb \in [0..CorbSize-1 -> Command \cup {None}]
    BY DEF TypeOK
  <2>6. QED
    BY <2>2, <2>3, <2>4, <2>5
<1>3. QED
  BY <1>1, <1>2
-----------------------------------------------------------------------------
(* The refinement. *)

(* How far CORBWP is ahead of CORBRP. *)
Ahead(wp, rp) == (wp + CorbSize - rp) % CorbSize

Slots(mem, rp, n) == [k \in 1..n |-> mem[(rp + k) % CorbSize]]

LEMMA SlotsFacts ==
  ASSUME NEW S, NEW mem \in [0..CorbSize-1 -> S], NEW rp \in 0..CorbSize-1, NEW n \in 0..CorbSize-1
  PROVE  /\ Slots(mem, rp, n) \in Seq(S) /\ Len(Slots(mem, rp, n)) = n
         /\ \A k \in 1..n : Slots(mem, rp, n)[k] = mem[(rp + k) % CorbSize]
<1>1. \A k \in 1..n : (rp + k) % CorbSize \in 0..CorbSize-1
  BY RingsAssumption, ModSum
<1>2. QED
  BY <1>1, RingsAssumption DEF Slots

LEMMA SlotsLen ==
  ASSUME NEW mem, NEW rp, NEW n \in 0..CorbSize-1
  PROVE  Len(Slots(mem, rp, n)) = n
  BY RingsAssumption DEF Slots

(* One more command behind the others. *)
LEMMA SlotsAppend ==
  ASSUME NEW S, NEW mem \in [0..CorbSize-1 -> S], NEW rp \in 0..CorbSize-1,
         NEW n \in 0..CorbSize-1, n + 1 < CorbSize
  PROVE  Slots(mem, rp, n + 1) = Append(Slots(mem, rp, n), mem[(rp + (n + 1)) % CorbSize])
<1>1. /\ Slots(mem, rp, n) \in Seq(S) /\ Len(Slots(mem, rp, n)) = n
      /\ \A k \in 1..n : Slots(mem, rp, n)[k] = mem[(rp + k) % CorbSize]
  BY SlotsFacts, ZenonT(40)
<1>2. QED
  BY <1>1, RingsAssumption DEF Slots

(* One less at the front. *)
LEMMA TailFacts ==
  ASSUME NEW S, NEW s \in Seq(S), NEW t \in Seq(S), Len(s) = Len(t) + 1,
         \A k \in 1..Len(t) : t[k] = s[k + 1]
  PROVE  t = Tail(s)
<1>1. s # << >> /\ Tail(s) \in Seq(S) /\ Len(Tail(s)) = Len(t)
  OBVIOUS
<1>2. \A k \in 1..Len(t) : Tail(s)[k] = t[k]
  BY <1>1
<1>3. QED
  BY <1>1, <1>2

LEMMA SlotsTail ==
  ASSUME NEW S, NEW mem \in [0..CorbSize-1 -> S], NEW rp \in 0..CorbSize-1,
         NEW m \in 0..CorbSize-1, m + 1 < CorbSize
  PROVE  Slots(mem, CorbNext(rp), m) = Tail(Slots(mem, rp, m + 1))
<1>1. /\ Slots(mem, rp, m + 1) \in Seq(S) /\ Len(Slots(mem, rp, m + 1)) = m + 1
      /\ \A k \in 1..m+1 : Slots(mem, rp, m + 1)[k] = mem[(rp + k) % CorbSize]
  <2>1. \A k \in 1..m+1 : (rp + k) % CorbSize \in 0..CorbSize-1
    BY RingsAssumption, ModSum
  <2>2. QED
    BY <2>1, RingsAssumption DEF Slots
<1>2. /\ Slots(mem, CorbNext(rp), m) \in Seq(S) /\ Len(Slots(mem, CorbNext(rp), m)) = m
      /\ \A k \in 1..m : Slots(mem, CorbNext(rp), m)[k] = mem[(CorbNext(rp) + k) % CorbSize]
  <2>1. CorbNext(rp) \in 0..CorbSize-1
    BY CorbNextFacts
  <2>2. \A k \in 1..m : (CorbNext(rp) + k) % CorbSize \in 0..CorbSize-1
    BY <2>1, RingsAssumption, ModSum
  <2>3. QED
    BY <2>2, RingsAssumption DEF Slots
<1>3. ASSUME NEW k \in 1..m PROVE (CorbNext(rp) + k) % CorbSize = (rp + (k + 1)) % CorbSize
  <2>1. rp + k + 1 = rp + (k + 1) /\ k \in 0..CorbSize-1
    BY <1>3, RingsAssumption
  <2>2. QED
    BY <2>1, ModShift, RingsAssumption DEF CorbNext
<1>4. ASSUME NEW k \in 1..m
      PROVE  Slots(mem, CorbNext(rp), m)[k] = Slots(mem, rp, m + 1)[k + 1]
  <2>1. Slots(mem, CorbNext(rp), m)[k] = mem[(CorbNext(rp) + k) % CorbSize]
    BY <1>2
  <2>2. k + 1 \in 1..m+1
    BY RingsAssumption
  <2>3. Slots(mem, rp, m + 1)[k + 1] = mem[(rp + (k + 1)) % CorbSize]
    BY <1>1, <2>2
  <2>4. QED
    BY <1>3, <2>1, <2>3
<1>5. Len(Slots(mem, rp, m + 1)) = Len(Slots(mem, CorbNext(rp), m)) + 1
  BY <1>1, <1>2
<1>6. QED
  BY <1>1, <1>2, <1>4, <1>5, TailFacts

(* While the controller runs, the cursors are `pending' apart. *)
LEMMA AheadIsPending ==
  ASSUME NEW rp \in 0..CorbSize-1, NEW n \in 0..CorbSize-1
  PROVE  Ahead((rp + n) % CorbSize, rp) = n
<1> USE RingsAssumption
<1>1. (rp + n) % CorbSize = IF rp + n < CorbSize THEN rp + n ELSE rp + n - CorbSize
  BY ModSum
<1>2. CASE rp + n < CorbSize
  <2>1. ((rp + n) % CorbSize) + CorbSize - rp = CorbSize + n
    BY <1>1, <1>2
  <2>2. (CorbSize + n) % CorbSize = n
    OBVIOUS
  <2>3. QED
    BY <2>1, <2>2 DEF Ahead
<1>3. CASE ~(rp + n < CorbSize)
  <2>1. ((rp + n) % CorbSize) + CorbSize - rp = n
    BY <1>1, <1>3
  <2>2. QED
    BY <2>1, ModSmall DEF Ahead
<1>4. QED
  BY <1>2, <1>3

LEMMA WaitingIs ==
  ASSUME NEW mem, NEW rp \in 0..CorbSize-1, NEW n \in 0..CorbSize-1, NEW wp, wp = (rp + n) % CorbSize
  PROVE  [k \in 1..((wp + CorbSize - rp) % CorbSize) |-> mem[(rp + k) % CorbSize]] = Slots(mem, rp, n)
<1>1. (wp + CorbSize - rp) % CorbSize = n
  BY AheadIsPending DEF Ahead
<1>2. QED
  BY <1>1 DEF Slots

LEMMA QueueInits == Init => Queue!QueueInit
  BY DEF Init, Queue!QueueInit, Waiting, InSession, ExecPc, DropPc

LEMMA QueueSteps == IInv /\ [Next]_vars => [Queue!QueueNext]_Waiting
<1> SUFFICES ASSUME IInv, [Next]_vars PROVE Queue!QueueNext \/ Waiting' = Waiting
  BY DEF Queue!QueueNext
<1> USE RingsAssumption
<1>1. IInv' /\ IInv
  BY InvNext
<1>2. /\ TypeOK /\ EnginesFollowPc /\ CorbInStep /\ CursorsReset /\ ExecInStep
      /\ TypeOK' /\ CorbInStep'
  BY <1>1 DEF IInv
<1>3. /\ corbrp \in 0..CorbSize-1 /\ corbwp \in 0..CorbSize-1 /\ pending \in Nat
      /\ corb \in [0..CorbSize-1 -> Command \cup {None}]
  BY <1>2 DEF TypeOK
<1>4. corbDma # "off" => pending \in 0..CorbSize-1 /\ corbwp = (corbrp + pending) % CorbSize
  BY <1>2, <1>3 DEF CorbInStep
<1>5. ASSUME InSession, corbDma # "off" PROVE Waiting = Slots(corb, corbrp, pending)
  <2>1. Waiting = [k \in 1..((corbwp + CorbSize - corbrp) % CorbSize) |-> corb[(corbrp + k) % CorbSize]]
    BY <1>5 DEF Waiting
  <2>2. QED
    BY <1>3, <1>4, <1>5, <2>1, WaitingIs
<1>6. ASSUME InSession', corbDma' # "off" PROVE Waiting' = Slots(corb', corbrp', pending')
  <2>1. Waiting' = [k \in 1..((corbwp' + CorbSize - corbrp') % CorbSize) |-> corb'[(corbrp' + k) % CorbSize]]
    BY <1>6 DEF Waiting
  <2>2. corbrp' \in 0..CorbSize-1 /\ pending' \in 0..CorbSize-1 /\ corbwp' = (corbrp' + pending') % CorbSize
    <3>1. corbrp' \in 0..CorbSize-1 /\ pending' \in Nat
      BY <1>2 DEF TypeOK
    <3>2. pending' < CorbSize /\ corbwp' = (corbrp' + pending') % CorbSize
      BY <1>2, <1>6 DEF CorbInStep
    <3>3. QED
      BY <3>1, <3>2
  <2>3. QED
    BY <2>1, <2>2, WaitingIs
<1>7. CASE ~InSession'
  <2>1. Waiting' = << >>
    BY <1>7 DEF Waiting
  <2>2. QED
    BY <2>1 DEF Queue!QueueNext, Queue!Flush
<1>8. CASE InSession' /\ NewRunCorb
  <2>1. corbDma' # "off" /\ pending' = 0
    BY <1>2, <1>8 DEF NewRunCorb, CursorsReset
  <2>2. Waiting' = << >>
    BY <1>6, <1>8, <2>1 DEF Slots
  <2>3. QED
    BY <2>2 DEF Queue!QueueNext, Queue!Flush
<1>9. CASE InSession' /\ Send
  <2>1. InSession /\ corbDma # "off" /\ UNCHANGED <<corbDma, corbrp, pending>>
    BY <1>2, <1>9 DEF Send, EnginesFollowPc, InSession, ExecPc
  <2>2. Waiting = Slots(corb, corbrp, pending) /\ Waiting' = Slots(corb', corbrp, pending)
    BY <1>5, <1>6, <1>9, <2>1
  <2>3. \A k \in 1..pending : corb'[(corbrp + k) % CorbSize] = corb[(corbrp + k) % CorbSize]
    BY <1>2, <1>9, SendIsSafe
  <2>4. QED
    BY <2>2, <2>3 DEF Slots
<1>10. CASE InSession' /\ Doorbell
  <2>1. /\ InSession /\ corbDma # "off" /\ UNCHANGED <<corbDma, corb, corbrp>>
        /\ pending' = pending + 1 /\ pending + 1 < CorbSize /\ cmd \in Command
        /\ corb[CorbNext(corbwp)] = cmd
    BY <1>2, <1>10 DEF Doorbell, EnginesFollowPc, InSession, ExecPc, ExecInStep
  <2>2. Waiting = Slots(corb, corbrp, pending) /\ Waiting' = Slots(corb, corbrp, pending + 1)
    BY <1>5, <1>6, <1>10, <2>1
  <2>3. pending \in 0..CorbSize-1
    BY <1>4, <2>1
  <2>4. Waiting' = Append(Waiting, corb[(corbrp + (pending + 1)) % CorbSize])
    BY <1>3, <2>1, <2>2, <2>3, SlotsAppend
  <2>5. corb[(corbrp + (pending + 1)) % CorbSize] = cmd
    BY <1>2, <2>1, SendFacts
  <2>6. Len(Waiting) < CorbSize - 1
    BY <2>1, <2>2, <2>3, SlotsLen
  <2>7. Queue!Submit(cmd)
    BY <2>4, <2>5, <2>6 DEF Queue!Submit
  <2>8. QED
    BY <2>1, <2>7 DEF Queue!QueueNext
<1>11. CASE InSession' /\ Fetch
  <2>1. /\ InSession /\ corbDma # "off" /\ UNCHANGED <<corbDma, corb>> /\ corbrp # corbwp
        /\ corbrp' = CorbNext(corbrp) /\ pending' = pending - 1
    BY <1>11 DEF Fetch, InSession, drvVars
  <2>2. Waiting = Slots(corb, corbrp, pending) /\ Waiting' = Slots(corb, CorbNext(corbrp), pending - 1)
    BY <1>5, <1>6, <1>11, <2>1
  <2>3. CorbNext(corbrp) \in 0..CorbSize-1 /\ pending \in 0..CorbSize-1 /\ pending - 1 \in 0..CorbSize-1
    BY <1>2, <1>3, <1>4, <2>1, FetchFacts, CorbNextFacts
  <2>4. Waiting' = Tail(Waiting)
    <3>1. PICK m \in 0..CorbSize-1 : pending = m + 1 /\ pending - 1 = m /\ m + 1 < CorbSize
      BY <2>3
    <3>2. Slots(corb, CorbNext(corbrp), m) = Tail(Slots(corb, corbrp, m + 1))
      BY <1>3, <3>1, SlotsTail
    <3>3. QED
      BY <2>2, <3>1, <3>2
  <2>5. Waiting # << >>
    <3>1. Len(Waiting) = pending
      BY <2>2, <2>3, SlotsLen
    <3>2. QED
      BY <2>3, <3>1
  <2>6. QED
    BY <2>4, <2>5 DEF Queue!QueueNext, Queue!Take
<1>12. CASE InSession' /\ ~NewRunCorb /\ ~Send /\ ~Doorbell /\ ~Fetch
  <2>1. InSession /\ UNCHANGED <<corb, corbrp, corbwp>>
    BY <1>12 DEF Next, Driver, Controller, InSession, NewPc, ExecPc, DropPc, vars, hwVars, drvVars,
       BusReset, NewMap, NewHalt, NewWait, NewReset, NewRunRirb, NewFails, ArmTimer, ExecFails,
       PollResponse, PollNothing, Acknowledge, AcknowledgeFails, PollAgain, Timeout, DropRirb,
       DropCorb, DropWait, DropFails, RirbStops, CorbStops, Unsolicited
  <2>2. QED
    BY <1>12, <2>1 DEF Waiting
<1>13. QED
  BY <1>7, <1>8, <1>9, <1>10, <1>11, <1>12

(* The ring of slots and its two cursors implement the bounded queue of    *)
(* CommandQueue: no command is lost, repeated, reordered or overwritten on *)
(* its way, and the slot between full and empty is kept free, whatever is  *)
(* retried, times out or fails.                                            *)
THEOREM RingImplementsQueue == Spec => RingIsQueue
  BY QueueInits, QueueSteps, InvAlways, PTL DEF Spec, RingIsQueue, Queue!QueueSpec
=============================================================================
