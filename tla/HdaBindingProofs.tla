--------------------------- MODULE HdaBindingProofs ---------------------------
(***************************************************************************)
(* Proofs about HdaBinding, for any controllers, handles and numbers of    *)
(* codecs.                                                                 *)
(***************************************************************************)
EXTENDS HdaBinding, TLAPS

(***************************************************************************)
(* The inductive invariant.                                                *)
(***************************************************************************)
(* Contexts can be told apart by their interfaces, and new ones differ.    *)
IdsUnique ==
  /\ \A x \in contexts : x.id < made
  /\ \A x, y \in contexts : x.id = y.id => x = y

(* Nothing is left, and nothing is started, once hda_unload has looked and *)
(* once the binding is gone, unless a callback has started something since.*)
UnloadedEmpty ==
  /\ ~bindingUp => unloading = "none"
  /\ ~late /\ (unloading = "checked" \/ ~bindingUp) => contexts = {} /\ starting = None

(* A disconnect that is not interfered with covers the children that are   *)
(* left.                                                                   *)
StopCovers ==
  stopping # None =>
    /\ starting = stopping => restarted
    /\ ~restarted => \A x \in contexts : x.ctl = stopping => x.child \in children

IInv ==
  /\ TypeOK
  /\ IdsUnique
  /\ PublishedOwned
  /\ ChildrenRecorded
  /\ UnloadedEmpty
  /\ StopCovers
-----------------------------------------------------------------------------
LEMMA InitHolds == Init => IInv
<1> SUFFICES ASSUME Init PROVE IInv
  OBVIOUS
<1> USE BindingAssumption
<1>1. TypeOK
  <2>1. 0 \in 0..Codecs /\ 0 \in 0..MaxContexts
    OBVIOUS
  <2>2. bindingUp \in BOOLEAN /\ restarted \in BOOLEAN /\ late \in BOOLEAN
    BY Zenon DEF Init
  <2>3. QED
    BY <2>1, <2>2 DEF Init, TypeOK
<1>2. IdsUnique /\ PublishedOwned /\ ChildrenRecorded /\ UnloadedEmpty /\ StopCovers
  BY DEF Init, IdsUnique, PublishedOwned, ChildrenRecorded, UnloadedEmpty, StopCovers
<1>3. QED
  BY <1>1, <1>2 DEF IInv

(* The steps that neither make nor drop a context. *)
Others ==
  \/ StopChildStale \/ StopBus \/ StopBusRefused \/ StopBusFails
  \/ ChildFails \/ StartEnds \/ Play \/ PlayEnds
  \/ Unload \/ UnloadCheck \/ UnloadFails \/ UnloadEnds
  \/ \E c \in Controller : Start(c) \/ Disconnect(c) \/ UnloadDisconnect(c)
  \/ \E h \in Handle : Hold(h) \/ Release(h)

LEMMA NextCases == [Next]_vars <=> CreateChild \/ StopChild \/ Others \/ UNCHANGED vars
  BY DEF Next, Others

LEMMA OthersKeep == ASSUME Others PROVE UNCHANGED <<contexts, published, byChild, made>>
<1>1. CASE StopChildStale \/ StopBus \/ StopBusRefused \/ StopBusFails
  BY <1>1 DEF StopChildStale, StopBus, StopBusRefused, StopBusFails, dbVars
<1>2. CASE ChildFails \/ StartEnds \/ Unload \/ UnloadCheck \/ UnloadFails \/ UnloadEnds \/ Play \/ PlayEnds
  BY <1>2 DEF ChildFails, StartEnds, Unload, UnloadCheck, UnloadFails, UnloadEnds, Play, PlayEnds,
     dbVars
<1>3. CASE \E c \in Controller : Start(c) \/ Disconnect(c) \/ UnloadDisconnect(c)
  BY <1>3 DEF Start, Disconnect, UnloadDisconnect, dbVars
<1>4. CASE \E h \in Handle : Hold(h) \/ Release(h)
  BY <1>4 DEF Hold, Release
<1>5. QED
  BY <1>1, <1>2, <1>3, <1>4 DEF Others

(* The context that is dropped is the one of the child that is stopped. *)
LEMMA StoppedChild ==
  ASSUME IInv, NEW h \in Handle, NEW x \in contexts, published[h] = x.id
  PROVE  x.child = h /\ \A y \in contexts : y.child = h => y = x
<1> USE BindingAssumption
<1>1. x.id # None
  BY DEF IInv, TypeOK
<1>2. PICK z \in contexts : z.child = h /\ z.id = published[h]
  BY <1>1 DEF IInv, PublishedOwned
<1>3. z = x
  BY <1>2 DEF IInv, IdsUnique
<1>4. ASSUME NEW y \in contexts, y.child = h PROVE y = x
  <2>1. published[h] = y.id
    BY <1>4 DEF IInv, PublishedOwned
  <2>2. QED
    BY <2>1 DEF IInv, IdsUnique
<1>5. QED
  BY <1>2, <1>3, <1>4
-----------------------------------------------------------------------------
LEMMA TypeStep == ASSUME TypeOK, [Next]_vars PROVE TypeOK'
<1> USE BindingAssumption
<1>1. CASE CreateChild
  <2>1. made \in Id /\ made' \in 0..MaxContexts /\ todo' \in 0..Codecs /\ starting \in Controller
    BY <1>1 DEF CreateChild, TypeOK, Id
  <2>2. QED
    BY <1>1, <2>1 DEF CreateChild, TypeOK, loadVars, stopVars
<1>2. CASE StopChild
  <2>1. contexts' \subseteq contexts /\ published' \in [Handle -> Id \cup {None}]
        /\ byDriver' \subseteq Controller /\ children' \subseteq children
        /\ stopping' \in {stopping, None}
    BY <1>2 DEF StopChild, GiveUp, TypeOK
  <2>2. QED
    BY <1>2, <2>1 DEF StopChild, TypeOK, loadVars
<1>3. CASE StopChildStale \/ StopBus \/ StopBusRefused \/ StopBusFails
  BY <1>3 DEF StopChildStale, StopBus, StopBusRefused, StopBusFails, GiveUp, TypeOK, dbVars,
     loadVars, stopVars
<1>4. CASE ChildFails \/ StartEnds
  BY <1>4 DEF ChildFails, StartEnds, TypeOK, dbVars, loadVars, stopVars
<1>5. CASE Unload \/ UnloadCheck \/ UnloadFails \/ UnloadEnds \/ Play \/ PlayEnds
  <2>1. Unload => TypeOK'
    BY DEF Unload, TypeOK, dbVars, stopVars
  <2>2. UnloadCheck => TypeOK'
    BY DEF UnloadCheck, TypeOK, dbVars, stopVars
  <2>3. UnloadFails => TypeOK'
    BY DEF UnloadFails, TypeOK, dbVars, stopVars
  <2>4. UnloadEnds => TypeOK'
    BY DEF UnloadEnds, TypeOK, stopVars
  <2>5. Play \/ PlayEnds => TypeOK'
    BY DEF Play, PlayEnds, TypeOK, dbVars, loadVars, stopVars
  <2>6. QED
    BY <1>5, <2>1, <2>2, <2>3, <2>4, <2>5
<1>6. ASSUME NEW c \in Controller, Start(c) \/ Disconnect(c) \/ UnloadDisconnect(c) PROVE TypeOK'
  <2>1. Start(c) => TypeOK'
    BY DEF Start, TypeOK, loadVars, stopVars
  <2>2. Disconnect(c) => TypeOK'
    BY ZenonT(40) DEF Disconnect, Disconnecting, TypeOK, dbVars, loadVars, stopVars
  <2>3. UnloadDisconnect(c) => TypeOK'
    BY ZenonT(40) DEF UnloadDisconnect, Disconnecting, TypeOK, dbVars, stopVars
  <2>4. QED
    BY <1>6, <2>1, <2>2, <2>3
<1>7. ASSUME NEW h \in Handle, Hold(h) \/ Release(h) PROVE TypeOK'
  BY <1>7 DEF Hold, Release, TypeOK, loadVars, stopVars
<1>8. CASE UNCHANGED vars
  BY <1>8 DEF vars, TypeOK, dbVars, loadVars, stopVars
<1>9. QED
  BY <1>1, <1>2, <1>3, <1>4, <1>5, <1>6, <1>7, <1>8 DEF Next

(* Contexts, interfaces and BY_CHILD records stay in step. *)
LEMMA OwnedStep ==
  ASSUME IInv, [Next]_vars
  PROVE  IdsUnique' /\ PublishedOwned' /\ ChildrenRecorded'
<1> USE BindingAssumption
<1>1. TypeOK /\ IdsUnique /\ PublishedOwned /\ ChildrenRecorded
  BY DEF IInv
<1>2. CASE CreateChild
  <2>1. PICK h \in Handle :
          /\ published[h] = None
          /\ published' = [published EXCEPT ![h] = made]
          /\ byChild' = [byChild EXCEPT ![starting] = @ \cup {h}]
          /\ contexts' = contexts \cup {[id |-> made, ctl |-> starting, child |-> h]}
    BY <1>2 DEF CreateChild
  <2>2. made \in Nat /\ made' = made + 1 /\ made # None /\ starting \in Controller
    BY <1>1, <1>2 DEF CreateChild, TypeOK, Id
  <2> DEFINE new == [id |-> made, ctl |-> starting, child |-> h]
  <2>3. \A x \in contexts : x.id \in Nat /\ x.id < made /\ x.id # None /\ x.child # h /\ x.child \in Handle
        /\ x.ctl \in Controller
    BY <1>1, <2>1, <2>2 DEF TypeOK, IdsUnique, PublishedOwned, Id
  <2>4. IdsUnique'
    <3>1. \A x \in contexts' : x.id < made'
      BY <2>1, <2>2, <2>3
    <3>2. ASSUME NEW x \in contexts', NEW y \in contexts', x.id = y.id PROVE x = y
      <4>1. CASE x \in contexts /\ y \in contexts
        BY <1>1, <3>2, <4>1 DEF IdsUnique
      <4>2. CASE x = new /\ y \in contexts
        BY <2>2, <2>3, <3>2, <4>2
      <4>3. CASE x \in contexts /\ y = new
        BY <2>2, <2>3, <3>2, <4>3
      <4>4. QED
        BY <2>1, <4>1, <4>2, <4>3
    <3>3. QED
      BY <3>1, <3>2 DEF IdsUnique
  <2>5. published \in [Handle -> Id \cup {None}] /\ byChild \in [Controller -> SUBSET Handle]
    BY <1>1 DEF TypeOK
  <2>6. PublishedOwned'
    <3>1. ASSUME NEW x \in contexts' PROVE published'[x.child] = x.id
      BY <1>1, <2>1, <2>3, <2>5 DEF PublishedOwned
    <3>2. ASSUME NEW g \in Handle, published'[g] # None
          PROVE  \E x \in contexts' : x.child = g /\ x.id = published'[g]
      <4>1. CASE g = h
        <5>1. published'[g] = made
          BY <2>1, <2>5, <4>1
        <5>2. new \in contexts' /\ new.child = h /\ new.id = made
          BY <2>1
        <5>3. QED
          BY <4>1, <5>1, <5>2
      <4>2. CASE g # h
        BY <1>1, <2>1, <2>5, <3>2, <4>2 DEF PublishedOwned
      <4>3. QED
        BY <4>1, <4>2
    <3>3. QED
      BY <3>1, <3>2 DEF PublishedOwned
  <2>7. ChildrenRecorded'
    BY <1>1, <2>1, <2>2, <2>3, <2>5 DEF ChildrenRecorded
  <2>8. QED
    BY <2>4, <2>6, <2>7
<1>3. CASE StopChild
  <2>1. UNCHANGED <<byChild, made>>
    BY <1>3 DEF StopChild
  <2>2. PICK h \in children, x \in contexts :
          /\ published[h] = x.id
          /\ \/ UNCHANGED <<published, contexts>>
             \/ published' = [published EXCEPT ![h] = None] /\ contexts' = contexts \ {x}
    BY <1>3 DEF StopChild
  <2>3. h \in Handle /\ published \in [Handle -> Id \cup {None}]
    BY <1>1 DEF TypeOK
  <2>4. x.child = h /\ \A y \in contexts : y.child = h => y = x
    BY <2>2, <2>3, StoppedChild
  <2>5. CASE UNCHANGED <<published, contexts>>
    BY <1>1, <2>1, <2>5 DEF IdsUnique, PublishedOwned, ChildrenRecorded
  <2>6. CASE published' = [published EXCEPT ![h] = None] /\ contexts' = contexts \ {x}
    <3>1. IdsUnique' /\ ChildrenRecorded'
      BY <1>1, <2>1, <2>6 DEF IdsUnique, ChildrenRecorded
    <3>2. ASSUME NEW y \in contexts' PROVE published'[y.child] = y.id
      BY <1>1, <2>3, <2>4, <2>6 DEF PublishedOwned
    <3>3. ASSUME NEW g \in Handle, published'[g] # None
          PROVE  \E y \in contexts' : y.child = g /\ y.id = published'[g]
      <4>1. g # h /\ published'[g] = published[g]
        BY <2>3, <2>6, <3>3
      <4>2. PICK y \in contexts : y.child = g /\ y.id = published[g]
        BY <1>1, <3>3, <4>1 DEF PublishedOwned
      <4>3. y # x
        BY <2>4, <4>1, <4>2
      <4>4. QED
        BY <2>6, <4>1, <4>2, <4>3
    <3>4. QED
      BY <3>1, <3>2, <3>3 DEF PublishedOwned
  <2>7. QED
    BY <2>2, <2>5, <2>6
<1>4. CASE Others \/ UNCHANGED vars
  <2>1. UNCHANGED <<contexts, published, byChild, made>>
    BY <1>4, OthersKeep DEF vars, dbVars
  <2>2. QED
    BY <1>1, <2>1 DEF IdsUnique, PublishedOwned, ChildrenRecorded
<1>5. QED
  BY <1>2, <1>3, <1>4, NextCases

(* The binding goes only when no context is left, and none is made after.  *)
LEMMA UnloadedStep == ASSUME IInv, [Next]_vars PROVE UnloadedEmpty'
<1> USE BindingAssumption
<1>1. UnloadedEmpty
  BY DEF IInv
<1>2. CASE CreateChild
  BY <1>1, <1>2 DEF CreateChild, UnloadedEmpty, loadVars
<1>3. CASE StopChild
  BY <1>1, <1>3 DEF StopChild, UnloadedEmpty, GiveUp, loadVars
<1>4. CASE StopChildStale \/ StopBus \/ StopBusRefused \/ StopBusFails \/ ChildFails \/ StartEnds
           \/ Play \/ PlayEnds
  BY <1>1, <1>4 DEF StopChildStale, StopBus, StopBusRefused, StopBusFails, ChildFails, StartEnds,
     Play, PlayEnds, UnloadedEmpty, dbVars, loadVars
<1>5. CASE Unload \/ UnloadCheck \/ UnloadFails \/ UnloadEnds
  <2>1. Unload => UnloadedEmpty'
    BY <1>1 DEF Unload, UnloadedEmpty, dbVars
  <2>2. UnloadCheck => UnloadedEmpty'
    BY <1>1 DEF UnloadCheck, UnloadedEmpty, Preemptible, dbVars
  <2>3. UnloadFails => UnloadedEmpty'
    BY <1>1 DEF UnloadFails, UnloadedEmpty, dbVars
  <2>4. UnloadEnds => UnloadedEmpty'
    BY <1>1 DEF UnloadEnds, UnloadedEmpty
  <2>5. QED
    BY <1>5, <2>1, <2>2, <2>3, <2>4
<1>6. ASSUME NEW c \in Controller, Start(c) \/ Disconnect(c) \/ UnloadDisconnect(c)
      PROVE  UnloadedEmpty'
  <2>1. Disconnect(c) \/ UnloadDisconnect(c) => UnloadedEmpty'
    BY <1>1 DEF Disconnect, UnloadDisconnect, UnloadedEmpty, dbVars, loadVars
  <2>2. CASE Start(c)
    <3>1. bindingUp /\ bindingUp' = bindingUp /\ unloading' = unloading
      BY <2>2 DEF Start, loadVars
    <3>2. ~late' => unloading # "checked"
      BY <2>2 DEF Start
    <3>3. QED
      BY <3>1, <3>2 DEF UnloadedEmpty
  <2>3. QED
    BY <1>6, <2>1, <2>2
<1>7. ASSUME NEW h \in Handle, Hold(h) \/ Release(h) PROVE UnloadedEmpty'
  BY <1>1, <1>7 DEF Hold, Release, UnloadedEmpty, loadVars
<1>8. CASE UNCHANGED vars
  BY <1>1, <1>8 DEF vars, dbVars, loadVars, UnloadedEmpty
<1>9. QED
  BY <1>2, <1>3, <1>4, <1>5, <1>6, <1>7, <1>8 DEF Next

(* The children still to stop are the ones that are left. *)
LEMMA CoversStep == ASSUME IInv, [Next]_vars PROVE StopCovers'
<1> USE BindingAssumption
<1>1. TypeOK /\ ChildrenRecorded /\ StopCovers
  BY DEF IInv
<1>2. CASE CreateChild
  <2>1. /\ starting # None
        /\ \A x \in contexts' : x \in contexts \/ x.ctl = starting
        /\ UNCHANGED <<stopping, children, starting, restarted>>
    BY <1>2 DEF CreateChild, stopVars
  <2>2. QED
    BY <1>1, <2>1 DEF StopCovers
<1>3. CASE StopChild
  <2>1. starting = None /\ starting' = None /\ restarted' = restarted
    BY <1>3 DEF StopChild, Preemptible
  <2>2. PICK h \in children, x \in contexts :
          /\ published[h] = x.id
          /\ \/ GiveUp
             \/ /\ contexts' = contexts \ {x} /\ children' = children \ {h}
                /\ UNCHANGED stopping
    BY <1>3 DEF StopChild
  <2>3. h \in Handle
    BY <1>1 DEF TypeOK
  <2>4. \A y \in contexts : y.child = h => y = x
    BY <2>2, <2>3, StoppedChild
  <2>5. CASE GiveUp
    BY <2>5 DEF GiveUp, StopCovers
  <2>6. CASE contexts' = contexts \ {x} /\ children' = children \ {h} /\ UNCHANGED stopping
    BY <1>1, <2>1, <2>4, <2>6 DEF StopCovers
  <2>7. QED
    BY <2>2, <2>5, <2>6
<1>4. CASE StopChildStale \/ StopBus \/ StopBusRefused \/ StopBusFails
  BY <1>4 DEF StopChildStale, StopBus, StopBusRefused, StopBusFails, GiveUp, StopCovers
<1>5. CASE ChildFails \/ StartEnds \/ Unload \/ UnloadCheck \/ UnloadFails \/ UnloadEnds \/ Play \/ PlayEnds
  BY <1>1, <1>5 DEF ChildFails, StartEnds, Unload, UnloadCheck, UnloadFails, UnloadEnds, Play, PlayEnds,
     StopCovers, stopVars
<1>6. ASSUME NEW c \in Controller, Start(c) PROVE StopCovers'
  BY <1>1, <1>6 DEF Start, StopCovers, stopVars
<1>7. ASSUME NEW c \in Controller, Disconnect(c) \/ UnloadDisconnect(c) PROVE StopCovers'
  <2>1. Disconnecting(c) /\ UNCHANGED <<contexts, byChild, starting>>
    BY <1>7 DEF Disconnect, UnloadDisconnect, dbVars
  <2>2. CASE c \in byDriver
    <3>1. stopping' = c /\ children' = byChild[c] /\ starting = None
      BY <2>1, <2>2 DEF Disconnecting, Preemptible
    <3>2. QED
      BY <1>1, <2>1, <3>1 DEF StopCovers, ChildrenRecorded
  <2>3. CASE c \notin byDriver
    <3>1. stopping' = None
      BY <2>1, <2>3 DEF Disconnecting, stopVars
    <3>2. QED
      BY <3>1 DEF StopCovers
  <2>4. QED
    BY <2>2, <2>3
<1>8. ASSUME NEW h \in Handle, Hold(h) \/ Release(h) PROVE StopCovers'
  BY <1>1, <1>8 DEF Hold, Release, StopCovers, stopVars
<1>9. CASE UNCHANGED vars
  BY <1>1, <1>9 DEF vars, stopVars, StopCovers
<1>10. QED
  BY <1>2, <1>3, <1>4, <1>5, <1>6, <1>7, <1>8, <1>9 DEF Next
-----------------------------------------------------------------------------
(* The theorems. *)

LEMMA InvAlways == Spec => []IInv
<1>1. IInv /\ [Next]_vars => IInv'
  <2> SUFFICES ASSUME IInv, [Next]_vars PROVE IInv'
    OBVIOUS
  <2>1. TypeOK'
    BY TypeStep DEF IInv
  <2>2. QED
    BY <2>1, OwnedStep, UnloadedStep, CoversStep DEF IInv
<1>2. QED
  BY <1>1, InitHolds, PTL DEF Spec

(* The driver's tables and the database keep to their types, and hda_start *)
(* goes through all its codecs.                                            *)
THEOREM BindingTypeCorrect == Spec => []TypeOK
  BY InvAlways, PTL DEF IInv

(* Interfaces and contexts correspond one to one: a client's call finds    *)
(* its DeviceContext whatever was started, stopped and refused before.     *)
THEOREM InterfacesOwned == Spec => []PublishedOwned
  BY InvAlways, PTL DEF IInv

(* Every child that has a context has its BY_CHILD record, after a refused *)
(* hda_stop_child too; its BY_DRIVER record may be gone then.              *)
THEOREM ChildrenAreFound == Spec => []ChildrenRecorded
  BY InvAlways, PTL DEF IInv

(* hda_unload succeeds only when no interface of the driver is left, and   *)
(* none appears later, unless a callback started a controller between the  *)
(* last look at the contexts and the end of the binding.                   *)
THEOREM UnloadLeavesNothing == Spec => []UnloadedClean
<1>1. IInv => UnloadedClean
  BY DEF IInv, UnloadedEmpty, UnloadedClean, PublishedOwned
<1>2. QED
  BY <1>1, InvAlways, PTL

(* hda_stop_bus stops the link after the last child, unless the controller *)
(* was started again by a callback.                                        *)
THEOREM LinkStopsLast == Spec => BusStopsLast
<1>1. IInv /\ StopBus => restarted \/ \A x \in contexts : x.ctl # stopping
  BY DEF IInv, StopCovers, StopBus
<1>2. IInv /\ [Next]_vars => [StopBus => restarted \/ \A x \in contexts : x.ctl # stopping]_vars
  BY <1>1
<1>3. QED
  BY <1>2, InvAlways, PTL DEF Spec, BusStopsLast
-----------------------------------------------------------------------------
(* A disconnect works on children it was told of.                          *)
ChildrenTold == stopping # None => children \subseteq byChild[stopping]

LEMMA ToldStep == ASSUME TypeOK, ChildrenTold, [Next]_vars PROVE ChildrenTold'
<1> USE BindingAssumption
<1>1. CASE CreateChild
  <2>1. PICK h \in Handle : byChild' = [byChild EXCEPT ![starting] = @ \cup {h}]
    BY <1>1 DEF CreateChild
  <2>2. UNCHANGED stopVars
    BY <1>1 DEF CreateChild
  <2>3. \A c \in Controller : byChild[c] \subseteq byChild'[c]
    BY <2>1 DEF TypeOK
  <2>4. QED
    BY <2>2, <2>3 DEF ChildrenTold, TypeOK, stopVars
<1>2. CASE StopChild
  <2>1. children' \subseteq children /\ stopping' \in {stopping, None} /\ byChild' = byChild
    BY <1>2 DEF StopChild, GiveUp
  <2>2. QED
    BY <2>1 DEF ChildrenTold
<1>3. CASE StopChildStale \/ StopBus \/ StopBusRefused \/ StopBusFails
  BY <1>3 DEF StopChildStale, StopBus, StopBusRefused, StopBusFails, GiveUp, ChildrenTold
<1>4. CASE \E c \in Controller : Disconnect(c) \/ UnloadDisconnect(c)
  <2>1. PICK c \in Controller : Disconnecting(c) /\ byChild' = byChild
    BY <1>4 DEF Disconnect, UnloadDisconnect, dbVars
  <2>2. CASE c \in byDriver
    BY <2>1, <2>2 DEF Disconnecting, ChildrenTold
  <2>3. CASE c \notin byDriver
    BY <2>1, <2>3 DEF Disconnecting, ChildrenTold, stopVars
  <2>4. QED
    BY <2>2, <2>3
<1>5. CASE ChildFails \/ StartEnds \/ Unload \/ UnloadCheck \/ UnloadFails \/ UnloadEnds \/ Play \/ PlayEnds
  BY <1>5 DEF ChildFails, StartEnds, Unload, UnloadCheck, UnloadFails, UnloadEnds, Play, PlayEnds,
     dbVars, stopVars, ChildrenTold
<1>6. CASE (\E c \in Controller : Start(c)) \/ (\E h \in Handle : Hold(h) \/ Release(h)) \/ UNCHANGED vars
  BY <1>6 DEF Start, Hold, Release, vars, dbVars, stopVars, ChildrenTold
<1>7. QED
  BY <1>1, <1>2, <1>3, <1>4, <1>5, <1>6 DEF Next

(* A controller on which hda_start has made no child is never given back:  *)
(* hda_stop_child is what closes the BY_DRIVER open, and hda_stop_bus      *)
(* fails while there is one (main.rs 2486).  Neither a disconnect nor the  *)
(* unload routine changes that.                                            *)
ChildlessStaysOpen ==
  [][\A c \in byDriver : byChild[c] = {} => c \in byDriver' /\ ~(StopBus /\ stopping = c)]_vars

(* hda_stop leaves a controller without children as it is, for good.       *)
THEOREM ChildlessNeverReleased == Spec => ChildlessStaysOpen
<1>1. ASSUME TypeOK, ChildrenTold, [Next]_vars, NEW c \in byDriver, byChild[c] = {}
      PROVE  c \in byDriver' /\ ~(StopBus /\ stopping = c)
  <2>1. ~(StopBus /\ stopping = c)
    BY DEF StopBus
  <2>2. CASE StopChild
    <3>1. stopping # None /\ children # {} /\ byDriver' = byDriver \ {stopping}
      BY <2>2 DEF StopChild
    <3>2. stopping # c
      BY <1>1, <3>1 DEF ChildrenTold
    <3>3. QED
      BY <2>1, <3>1, <3>2
  <2>3. CASE ~StopChild
    <3>1. byDriver \subseteq byDriver'
      <4>1. CASE CreateChild \/ StopChildStale \/ StopBus \/ StopBusRefused \/ StopBusFails
        BY <4>1 DEF CreateChild, StopChildStale, StopBus, StopBusRefused, StopBusFails, dbVars
      <4>2. CASE ChildFails \/ StartEnds \/ Unload \/ UnloadCheck \/ UnloadFails \/ UnloadEnds
                 \/ Play \/ PlayEnds
        BY <4>2 DEF ChildFails, StartEnds, Unload, UnloadCheck, UnloadFails, UnloadEnds, Play,
           PlayEnds, dbVars
      <4>3. CASE \E d \in Controller : Start(d) \/ Disconnect(d) \/ UnloadDisconnect(d)
        BY <4>3 DEF Start, Disconnect, UnloadDisconnect, dbVars
      <4>4. CASE (\E h \in Handle : Hold(h) \/ Release(h)) \/ UNCHANGED vars
        BY <4>4 DEF Hold, Release, vars, dbVars
      <4>5. QED
        BY <1>1, <2>3, <4>1, <4>2, <4>3, <4>4 DEF Next
    <3>2. QED
      BY <2>1, <3>1
  <2>4. QED
    BY <2>2, <2>3
<1>2. Init => ChildrenTold
  BY DEF Init, ChildrenTold
<1>3. TypeOK /\ ChildrenTold /\ [Next]_vars => ChildrenTold'
  BY ToldStep
<1>4. TypeOK /\ ChildrenTold /\ [Next]_vars
        => [\A c \in byDriver : byChild[c] = {} => c \in byDriver' /\ ~(StopBus /\ stopping = c)]_vars
  BY <1>1
<1>5. QED
  BY <1>2, <1>3, <1>4, BindingTypeCorrect, PTL DEF Spec, ChildlessStaysOpen
=============================================================================
