------------------------- MODULE CodecRoutingProofs -------------------------
(***************************************************************************)
(* Proofs about CodecRouting, for widget graphs of any size and shape.     *)
(***************************************************************************)
EXTENDS CodecRouting, TLAPS, FiniteSetTheorems, WellFoundedInduction

(***************************************************************************)
(* The inductive invariant, as a conjunction of named parts.               *)
(***************************************************************************)
Searching == {"search", "expand", "trace", "config"}

(* The nodes the search has met. *)
Met == {pin} \cup {n \in Nodes : Known(n)}

(* Parents are vertices that were met, one connection away. *)
ParentsAreEdges ==
  \A n \in Nodes : Known(n) => parent[n] \in Vertices \cap Met /\ n \in Inputs(parent[n])

(* What was met is queued, or holds no DAC and has been expanded. *)
Expanding(n) == pc = "expand" /\ n = pivot

MetIsClosed ==
  pc \in {"search", "expand"} =>
    /\ On(queue) \subseteq Met
    /\ \A n \in Met : \/ n \in On(queue) \/ Expanding(n) \/ n \notin Vertices
                      \/ ~Dac(n) /\ Inputs(n) \subseteq Met

PivotInStep ==
  pc = "expand" =>
    /\ pivot \in Vertices \cap Met /\ ~Dac(pivot)
    /\ On(rest) \subseteq Inputs(pivot) /\ Inputs(pivot) \subseteq Met \cup On(rest)

(* The path so far leads from a DAC to the node before the pivot. *)
IsRoute(p) ==
  /\ p # <<>> => Dac(p[1])
  /\ \A i \in 1..Len(p)-1 : p[i] \in Inputs(p[i + 1])

TraceInStep ==
  pc = "trace" =>
    /\ IsRoute(path) /\ pivot \in Met
    /\ path = <<>> => Dac(pivot)
    /\ path # <<>> => path[Len(path)] \in Inputs(pivot)

SearchInStep ==
  pin \in Nodes /\ ParentsAreEdges /\ MetIsClosed /\ PivotInStep /\ TraceInStep

IInv ==
  /\ TypeOK
  /\ pc \in Searching => SearchInStep
  /\ PathIsRoute
-----------------------------------------------------------------------------
(***************************************************************************)
(* About lists.                                                            *)
(***************************************************************************)
(* A set of numbers has a least one: their intervals are ordered by        *)
(* inclusion.                                                              *)
LEMMA LeastIs ==
  ASSUME NEW I \in SUBSET Nat, I # {}
  PROVE  \E i \in I : \A j \in I : i <= j
<1> DEFINE R == StrictSubsetOrdering(Nat)
           U == {1..i : i \in I}
<1>1. U \subseteq FiniteSubsetsOf(Nat) /\ U # {}
  <2>1. \A i \in I : IsFiniteSet(1..i) /\ 1..i \in SUBSET Nat
    BY FS_Interval
  <2>2. QED
    BY <2>1 DEF FiniteSubsetsOf
<1>2. \E x \in U : \A y \in U : <<y, x>> \notin R
  <2>1. IsWellFoundedOn(R, FiniteSubsetsOf(Nat))
    BY FS_StrictSubsetOrderingWellFounded
  <2>2. QED
    <3> HIDE DEF R, U
    <3> QED
      BY <1>1, <2>1, WFMin
<1>3. PICK i \in I : \A j \in I : <<1..j, 1..i>> \notin R
  BY <1>2
<1>4. ASSUME NEW j \in I, j < i PROVE FALSE
  <2>1. 1..j \subseteq 1..i /\ i \in 1..i /\ i \notin 1..j
    BY <1>4
  <2>2. 1..j \in SUBSET Nat /\ 1..i \in SUBSET Nat
    OBVIOUS
  <2>3. <<1..j, 1..i>> \in R
    BY <2>1, <2>2 DEF StrictSubsetOrdering
  <2>4. QED
    BY <1>3, <2>3
<1>5. QED
  BY <1>4

(* What is in a list has a first place in it. *)
LEMMA FirstIndexIs ==
  ASSUME NEW S, NEW list \in Seq(S), NEW n, \E i \in DOMAIN list : list[i] = n
  PROVE  FirstIndex(list, n) \in DOMAIN list /\ list[FirstIndex(list, n)] = n
<1> DEFINE I == {i \in DOMAIN list : list[i] = n}
<1>1. I \subseteq Nat /\ I # {}
  OBVIOUS
<1>2. \E i \in I : \A j \in I : i <= j
  <2>. HIDE DEF I
  <2>. QED BY <1>1, LeastIs
<1>3. QED
  BY <1>2 DEF FirstIndex

LEMMA HeadAndTail ==
  ASSUME NEW q \in Seq(Nodes), q # <<>>
  PROVE  Head(q) \in Nodes /\ Tail(q) \in Seq(Nodes) /\ On(q) = {Head(q)} \cup On(Tail(q))
<1>1. Head(q) \in Nodes /\ Tail(q) \in Seq(Nodes) /\ Len(Tail(q)) = Len(q) - 1 /\ Len(q) > 0
  OBVIOUS
<1>2. Head(q) = q[1] /\ \A i \in 1..Len(q)-1 : Tail(q)[i] = q[i + 1]
  OBVIOUS
<1>3. ASSUME NEW i \in 1..Len(q) PROVE q[i] \in {Head(q)} \cup On(Tail(q))
  <2>1. CASE i = 1
    BY <2>1, <1>2
  <2>2. CASE i # 1
    <3>1. i - 1 \in DOMAIN Tail(q) /\ Tail(q)[i - 1] = q[i]
      BY <1>1, <1>2, <2>2
    <3>2. QED
      BY <3>1 DEF On
  <2>3. QED
    BY <2>1, <2>2
<1>4. ASSUME NEW i \in 1..Len(Tail(q)) PROVE Tail(q)[i] \in On(q)
  <2>1. i + 1 \in DOMAIN q /\ Tail(q)[i] = q[i + 1]
    BY <1>1, <1>2
  <2>2. QED
    BY <2>1 DEF On
<1>5. Head(q) \in On(q)
  BY <1>1, <1>2 DEF On
<1>6. DOMAIN q = 1..Len(q) /\ DOMAIN Tail(q) = 1..Len(Tail(q))
  BY <1>1
<1>7. On(q) \subseteq {Head(q)} \cup On(Tail(q))
  BY <1>3, <1>6 DEF On
<1>8. On(Tail(q)) \subseteq On(q)
  BY <1>4, <1>6 DEF On
<1>9. QED
  BY <1>1, <1>5, <1>7, <1>8

LEMMA OnAppend ==
  ASSUME NEW q \in Seq(Nodes), NEW n \in Nodes
  PROVE  On(Append(q, n)) = On(q) \cup {n}
<1>1. DOMAIN Append(q, n) = 1..Len(q)+1 /\ DOMAIN q = 1..Len(q) /\ Len(q) \in Nat
  OBVIOUS
<1>2. (\A i \in 1..Len(q) : Append(q, n)[i] = q[i]) /\ Append(q, n)[Len(q) + 1] = n
  OBVIOUS
<1>3. QED
  BY <1>1, <1>2 DEF On

LEMMA SuccessorsAre ==
  ASSUME TypeOK, NEW n \in Nodes
  PROVE  Successors(n) \in Seq(Nodes) /\ Inputs(n) = On(Successors(n)) /\ Inputs(n) \subseteq Nodes
<1>1. codec.list[n] \in Seq(Nodes)
  BY DEF TypeOK
<1>2. Successors(n) \in Seq(Nodes)
  BY <1>1 DEF Successors
<1>3. QED
  BY <1>2 DEF Inputs, On
-----------------------------------------------------------------------------
(***************************************************************************)
(* Types.                                                                  *)
(***************************************************************************)
LEMMA InitHolds == Init => IInv
<1> SUFFICES ASSUME Init PROVE IInv
  OBVIOUS
<1>1. TypeOK
  <2>1. headphones \in BOOLEAN
    BY Zenon DEF Init
  <2>2. codec \in [kind : [Nodes -> Kinds], list : [Nodes -> Seq(Nodes)]]
    BY CodecAssumption DEF Init
  <2>3. QED
    BY <2>1, <2>2 DEF Init, TypeOK
<1>2. QED
  BY <1>1 DEF Init, IInv, Searching, PathIsRoute

(* The index that a node on a path is switched to. *)
LEMMA IndexType ==
  ASSUME TypeOK, PathIsRoute, pc = "config", NEW n \in On(path) \ {path[1]}
  PROVE  Index(n, Towards(n)) \in Nat
<1> DEFINE i == FirstIndex(path, n)
<1>1. path \in Seq(Nodes)
  BY DEF TypeOK
<1>2. i \in DOMAIN path /\ path[i] = n
  <2>1. \E j \in DOMAIN path : path[j] = n
    BY DEF On
  <2>2. QED
    BY <1>1, <2>1, FirstIndexIs
<1>3. i - 1 \in 1..Len(path)-1 /\ (i - 1) + 1 = i /\ n \in Nodes
  BY <1>1, <1>2
<1>4. path[i - 1] \in Inputs(path[(i - 1) + 1])
  <2> HIDE DEF i
  <2> QED
    BY <1>3 DEF PathIsRoute
<1>5. Towards(n) \in Inputs(n)
  BY <1>2, <1>3, <1>4 DEF Towards
<1>6. \E j \in DOMAIN Successors(n) : Successors(n)[j] = Towards(n)
  BY <1>5 DEF Inputs
<1>7. FirstIndex(Successors(n), Towards(n)) \in DOMAIN Successors(n) /\ Successors(n) \in Seq(Nodes)
  BY <1>3, <1>6, FirstIndexIs, SuccessorsAre
<1>8. FirstIndex(Successors(n), Towards(n)) \in Nat \ {0}
  BY <1>7
<1>9. QED
  BY <1>8 DEF Index

LEMMA SelectType ==
  ASSUME TypeOK, PathIsRoute, pc = "config", NEW n \in ToConfigure, Select(n)
  PROVE  select' \in [Nodes -> Nat]
<1>1. CASE n \in On(path) \ {path[1]}
  <2>1. Index(n, Towards(n)) \in Nat
    BY <1>1, IndexType
  <2>2. QED
    BY <1>1, <2>1 DEF Select, TypeOK
<1>2. CASE n \notin On(path) \ {path[1]}
  BY <1>2 DEF Select, TypeOK
<1>3. QED
  BY <1>1, <1>2

LEMMA HeadphonesType == ASSUME TypeOK, [Next]_vars PROVE headphones' \in BOOLEAN
<1> USE DEF TypeOK, callVars, searchVars
<1>1. CASE Begin \/ NextPin \/ PinsDone
  BY <1>1, Zenon DEF Begin, NextPin, PinsDone
<1>2. CASE NotFound \/ PopDangling \/ PopDac \/ PopNode
  BY <1>2, Zenon DEF NotFound, PopDangling, PopDac, PopNode
<1>3. CASE Visit \/ Expanded \/ Trace \/ Found
  BY <1>3, Zenon DEF Visit, Expanded, Trace, Found
<1>4. CASE Collect \/ CollectFails \/ Configured
  BY <1>4, Zenon DEF Collect, CollectFails, Configured
<1>5. CASE Configure \/ ConfigureFails \/ Knobs \/ MuteRest
  BY <1>5, Zenon DEF Configure, ConfigureFails, Knobs, MuteRest
<1>6. CASE UNCHANGED vars
  BY <1>6, Zenon DEF vars
<1>7. QED
  BY <1>1, <1>2, <1>3, <1>4, <1>5, <1>6 DEF Next, Search, Setup

LEMMA TypeStep == ASSUME IInv, [Next]_vars PROVE TypeOK'
<1> USE DEF codecVars, callVars, searchVars
<1>0. TypeOK /\ PathIsRoute /\ headphones' \in BOOLEAN
  BY HeadphonesType DEF IInv
<1>1. CASE Begin \/ Collect \/ CollectFails \/ PinsDone
  <2>1. Begin => TypeOK'
    BY <1>0 DEF Begin, TypeOK
  <2>2. Collect => TypeOK'
    BY <1>0 DEF Collect, Pins, TypeOK
  <2>3. CollectFails => TypeOK'
    BY <1>0 DEF CollectFails, TypeOK
  <2>4. PinsDone => TypeOK'
    BY <1>0 DEF PinsDone, TypeOK
  <2>5. QED
    BY <1>1, <2>1, <2>2, <2>3, <2>4
<1>2. CASE NextPin
  BY <1>0, <1>2 DEF NextPin, PinsLeft, Pins, TypeOK
<1>3. CASE NotFound \/ Expanded
  BY <1>0, <1>3 DEF NotFound, Expanded, TypeOK
<1>4. CASE PopDangling \/ PopDac \/ PopNode
  <2>1. queue \in Seq(Nodes) /\ queue # <<>>
    BY <1>0, <1>4 DEF PopDangling, PopDac, PopNode, TypeOK
  <2>2. Head(queue) \in Nodes /\ Tail(queue) \in Seq(Nodes)
    BY <2>1, HeadAndTail
  <2>3. Successors(Head(queue)) \in Seq(Nodes)
    BY <1>0, <2>2, SuccessorsAre
  <2>4. PopDangling => TypeOK'
    BY <1>0, <2>2 DEF PopDangling, TypeOK
  <2>5. PopDac => TypeOK'
    BY <1>0, <2>2, SMTT(30) DEF PopDac, TypeOK
  <2>6. PopNode => TypeOK'
    BY <1>0, <2>2, <2>3 DEF PopNode, TypeOK
  <2>7. QED
    BY <1>4, <2>4, <2>5, <2>6
<1>5. CASE Visit
  <2>1. Head(rest) \in Nodes /\ Tail(rest) \in Seq(Nodes)
    BY <1>0, <1>5 DEF Visit, TypeOK
  <2>2. pivot \in Nodes
    BY <1>5 DEF Visit, IInv, Searching, SearchInStep, PivotInStep, Vertices
  <2>3. parent' \in [Nodes -> Nodes \cup {NoNode}] /\ queue' \in Seq(Nodes)
    <3>1. \/ UNCHANGED <<parent, queue>>
          \/ /\ parent' = [parent EXCEPT ![Head(rest)] = pivot]
             /\ queue' = Append(queue, Head(rest))
      BY <1>5 DEF Visit, Enqueue
    <3>2. Append(queue, Head(rest)) \in Seq(Nodes)
      BY <1>0, <2>1 DEF TypeOK
    <3>3. QED
      BY <1>0, <2>1, <2>2, <3>1, <3>2 DEF TypeOK
  <2>4. QED
    BY <1>0, <1>5, <2>1, <2>3 DEF Visit, TypeOK
<1>6. CASE Trace \/ Found
  <2>1. pivot \in Nodes
    BY <1>6 DEF Trace, Found, IInv, Searching, SearchInStep, TraceInStep, Met
  <2>2. Append(path, pivot) \in Seq(Nodes)
    BY <1>0, <2>1 DEF TypeOK
  <2>3. Trace => TypeOK'
    BY <1>0, <2>1, <2>2 DEF Trace, TypeOK
  <2>4. Found => TypeOK'
    BY <1>0, <2>2 DEF Found, TypeOK
  <2>5. QED
    BY <1>6, <2>3, <2>4
<1>7. CASE Configure
  <2>1. PICK n \in ToConfigure : Select(n) /\ SetStream(n) /\ muted' = muted \ {n}
                                  /\ active' = active \cup {n}
    BY <1>7 DEF Configure
  <2>2. n \in Nodes
    BY <1>0 DEF ToConfigure, On, TypeOK
  <2>3. select' \in [Nodes -> Nat]
    BY <1>0, <1>7, <2>1, SelectType DEF Configure
  <2>4. streams' \subseteq Nodes
    BY <1>0, <2>1, <2>2 DEF SetStream, TypeOK
  <2>5. QED
    BY <1>0, <1>7, <2>1, <2>2, <2>3, <2>4 DEF Configure, TypeOK
<1>8. CASE ConfigureFails
  <2>1. PICK n \in ToConfigure : /\ muted' \in {muted, muted \ {n}}
                                 /\ (UNCHANGED select) \/ Select(n)
                                 /\ (UNCHANGED streams) \/ SetStream(n)
    BY <1>8 DEF ConfigureFails
  <2>2. n \in Nodes
    BY <1>0 DEF ToConfigure, On, TypeOK
  <2>3. select' \in [Nodes -> Nat]
    BY <1>0, <1>8, <2>1, SelectType DEF ConfigureFails, TypeOK
  <2>4. streams' \subseteq Nodes
    BY <1>0, <2>1, <2>2 DEF SetStream, TypeOK
  <2>5. QED
    BY <1>0, <1>8, <2>1, <2>3, <2>4 DEF ConfigureFails, TypeOK
<1>9. CASE Configured \/ Knobs \/ MuteRest
  <2>1. Configured => TypeOK'
    BY <1>0 DEF Configured, TypeOK, IInv, Searching, SearchInStep
  <2>2. Knobs => TypeOK'
    BY <1>0 DEF Knobs, Vertices, TypeOK
  <2>3. MuteRest => TypeOK'
    BY <1>0 DEF MuteRest, Vertices, TypeOK
  <2>4. QED
    BY <1>9, <2>1, <2>2, <2>3
<1>10. CASE UNCHANGED vars
  BY <1>0, <1>10 DEF vars, TypeOK
<1>11. QED
  BY <1>1, <1>2, <1>3, <1>4, <1>5, <1>6, <1>7, <1>8, <1>9, <1>10 DEF Next, Search, Setup
-----------------------------------------------------------------------------
(***************************************************************************)
(* The search.                                                             *)
(***************************************************************************)
(* The graph is the same all the time. *)
LEMMA GraphKept ==
  ASSUME UNCHANGED codec
  PROVE  /\ Vertices' = Vertices
         /\ \A n : Dac(n)' = Dac(n) /\ Successors(n)' = Successors(n) /\ Inputs(n)' = Inputs(n)
<1>1. \A n : Successors(n)' = Successors(n)
  BY DEF Successors, Dac
<1>2. QED
  BY <1>1 DEF Vertices, Dac, Inputs

LEMMA MetKept == ASSUME UNCHANGED <<pin, parent>> PROVE Met' = Met /\ \A n : Known(n)' = Known(n)
  BY DEF Met, Known

LEMMA NextPinStep == ASSUME IInv, NextPin PROVE SearchInStep' /\ PathIsRoute'
<1>1. PICK n \in Nodes : pin' = n /\ queue' = <<n>>
  BY DEF NextPin, PinsLeft, Pins
<1>2. pc' = "search" /\ \A k \in Nodes : parent'[k] = NoNode
  BY DEF NextPin
<1>3. Met' = {n} /\ On(queue') = {n}
  BY <1>1, <1>2 DEF Met, Known, On
<1>4. On(queue)' = On(queue')
  BY DEF On
<1>5. QED
  BY <1>1, <1>2, <1>3, <1>4 DEF SearchInStep, ParentsAreEdges, Known, MetIsClosed, PivotInStep,
     TraceInStep, PathIsRoute

(* What holds while the queue is worked off. *)
LEMMA AtHead ==
  ASSUME IInv, pc = "search", queue # <<>>
  PROVE  /\ Head(queue) \in Nodes \cap Met /\ Tail(queue) \in Seq(Nodes)
         /\ On(queue) = {Head(queue)} \cup On(Tail(queue))
<1>1. queue \in Seq(Nodes) /\ On(queue) \subseteq Met
  BY DEF IInv, TypeOK, Searching, SearchInStep, MetIsClosed
<1>2. QED
  BY <1>1, HeadAndTail

LEMMA PopDanglingStep == ASSUME IInv, PopDangling PROVE SearchInStep' /\ PathIsRoute'
<1>1. pc = "search" /\ pc' = "search" /\ UNCHANGED <<codec, pin, parent>>
      /\ queue # <<>> /\ queue' = Tail(queue) /\ Head(queue) \notin Vertices
  BY DEF PopDangling, callVars
<1>2. SearchInStep
  BY <1>1 DEF IInv, Searching
<1>3. On(queue)' = On(Tail(queue))
  BY <1>1 DEF On
<1>4. MetIsClosed'
  BY <1>1, <1>2, <1>3, AtHead, GraphKept, MetKept DEF SearchInStep, MetIsClosed, Expanding
<1>5. ParentsAreEdges'
  BY <1>1, <1>2, GraphKept, MetKept DEF SearchInStep, ParentsAreEdges
<1>6. QED
  BY <1>1, <1>2, <1>4, <1>5 DEF SearchInStep, PivotInStep, TraceInStep, PathIsRoute

LEMMA PopDacStep == ASSUME IInv, PopDac PROVE SearchInStep' /\ PathIsRoute'
<1>1. pc = "search" /\ pc' = "trace" /\ UNCHANGED <<codec, pin, parent>>
      /\ queue # <<>> /\ pivot' = Head(queue) /\ Dac(Head(queue)) /\ path' = <<>>
  BY DEF PopDac, callVars
<1>2. SearchInStep
  BY <1>1 DEF IInv, Searching
<1>3. ParentsAreEdges'
  BY <1>1, <1>2, GraphKept, MetKept DEF SearchInStep, ParentsAreEdges
<1>4. TraceInStep'
  <2>1. IsRoute(path)'
    BY <1>1 DEF IsRoute
  <2>2. Dac(pivot)' /\ pivot' \in Met'
    BY <1>1, AtHead, GraphKept, MetKept DEF Dac
  <2>3. QED
    BY <1>1, <2>1, <2>2 DEF TraceInStep
<1>5. QED
  BY <1>1, <1>2, <1>3, <1>4 DEF SearchInStep, MetIsClosed, PivotInStep, PathIsRoute

LEMMA PopNodeStep == ASSUME IInv, PopNode PROVE SearchInStep' /\ PathIsRoute'
<1>1. pc = "search" /\ pc' = "expand" /\ UNCHANGED <<codec, pin, parent>>
      /\ queue # <<>> /\ queue' = Tail(queue) /\ pivot' = Head(queue)
      /\ Head(queue) \in Vertices /\ ~Dac(Head(queue)) /\ rest' = Successors(Head(queue))
  BY DEF PopNode, callVars
<1>2. SearchInStep
  BY <1>1 DEF IInv, Searching
<1>3. On(queue)' = On(Tail(queue)) /\ On(rest)' = Inputs(Head(queue))
  BY <1>1, AtHead, SuccessorsAre DEF On, IInv
<1>4. MetIsClosed'
  BY <1>1, <1>2, <1>3, AtHead, GraphKept, MetKept DEF SearchInStep, MetIsClosed, Expanding
<1>5. ParentsAreEdges'
  BY <1>1, <1>2, GraphKept, MetKept DEF SearchInStep, ParentsAreEdges
<1>6. PivotInStep'
  <2>1. PICK h : h = pivot'
    OBVIOUS
  <2>2. h \in Vertices' \cap Met' /\ ~Dac(h)' /\ Inputs(h)' = On(rest)'
    BY <1>1, <1>3, <2>1, AtHead, GraphKept, MetKept
  <2>3. QED
    BY <2>1, <2>2 DEF PivotInStep, Dac, Inputs, Successors
<1>7. QED
  BY <1>1, <1>2, <1>4, <1>5, <1>6 DEF SearchInStep, TraceInStep, PathIsRoute

LEMMA VisitStep == ASSUME IInv, Visit PROVE SearchInStep' /\ PathIsRoute'
<1> PICK n : n = Head(rest)
  OBVIOUS
<1>1. pc = "expand" /\ pc' = "expand" /\ UNCHANGED <<codec, pin, pivot>>
      /\ rest # <<>> /\ rest' = Tail(rest)
  BY DEF Visit, callVars
<1>2. SearchInStep /\ TypeOK
  BY <1>1 DEF IInv, Searching
<1>3. n \in Nodes /\ On(rest) = {n} \cup On(Tail(rest)) /\ On(rest)' = On(Tail(rest))
  BY <1>1, <1>2, HeadAndTail DEF TypeOK, On
<1>4. pivot \in Nodes \cap Vertices \cap Met /\ ~Dac(pivot) /\ n \in Inputs(pivot)
      /\ Inputs(pivot) \subseteq Met \cup {n} \cup On(Tail(rest))
      /\ On(Tail(rest)) \subseteq Inputs(pivot)
  BY <1>1, <1>2, <1>3 DEF SearchInStep, PivotInStep, Vertices
<1>5. Inputs(pivot)' = Inputs(pivot) /\ Dac(pivot)' = Dac(pivot)
  <2>1. PICK v : v = pivot
    OBVIOUS
  <2>2. Inputs(v)' = Inputs(v) /\ Dac(v)' = Dac(v)
    BY <1>1, GraphKept
  <2>3. QED
    BY <1>1, <2>1, <2>2 DEF Inputs, Successors, Dac
<1>6. /\ Met' = Met \cup {n}
      /\ On(queue)' = On(queue) \cup (IF Known(n) THEN {} ELSE {n})
      /\ ParentsAreEdges'
  <2>1. CASE Known(n)
    <3>1. UNCHANGED <<parent, queue>>
      BY <2>1 DEF Visit
    <3>2. n \in Met
      BY <1>3, <2>1 DEF Met
    <3>3. On(queue)' = On(queue)
      BY <3>1 DEF On
    <3>4. Met' = Met /\ ParentsAreEdges'
      BY <1>1, <1>2, <3>1, GraphKept, MetKept DEF SearchInStep, ParentsAreEdges
    <3>5. QED
      BY <2>1, <3>2, <3>3, <3>4
  <2>2. CASE ~Known(n)
    <3>1. parent' = [parent EXCEPT ![n] = pivot] /\ queue' = Append(queue, n)
      BY <2>2 DEF Visit, Enqueue
    <3>2. pivot # NoNode
      BY <1>4, CodecAssumption DEF NoNode
    <3>3. parent'[n] = pivot /\ \A m \in Nodes \ {n} : parent'[m] = parent[m]
      BY <1>2, <1>3, <3>1 DEF TypeOK
    <3>4. Known(n)' /\ \A m \in Nodes \ {n} : Known(m)' = Known(m)
      BY <3>2, <3>3 DEF Known
    <3>5. Met' = Met \cup {n}
      BY <1>1, <1>3, <3>4 DEF Met
    <3>6. On(queue)' = On(queue) \cup {n}
      <4>1. On(Append(queue, n)) = On(queue) \cup {n}
        BY <1>2, <1>3, OnAppend DEF TypeOK
      <4>2. QED
        BY <3>1, <4>1 DEF On
    <3>7. ASSUME NEW m \in Nodes, Known(m)'
          PROVE  (parent[m] \in Vertices \cap Met /\ m \in Inputs(parent[m]))'
      <4>1. parent'[m] \in Vertices \cap Met /\ m \in Inputs(parent'[m])
        BY <1>2, <1>4, <3>3, <3>4, <3>7 DEF SearchInStep, ParentsAreEdges
      <4>2. PICK v : v = parent'[m]
        OBVIOUS
      <4>3. v \in Vertices' \cap Met' /\ m \in Inputs(v)'
        <5>1. Inputs(parent'[m]) = Inputs(v)
          BY <4>2
        <5>2. QED
          BY <1>1, <3>5, <4>1, <4>2, <5>1, GraphKept
      <4>4. QED
        BY <4>2, <4>3 DEF Inputs, Successors, Dac
    <3>8. QED
      BY <2>2, <3>5, <3>6, <3>7 DEF ParentsAreEdges
  <2>3. QED
    BY <2>1, <2>2
<1>7. MetIsClosed'
  <2>1. On(queue)' \subseteq Met'
    BY <1>1, <1>2, <1>6 DEF SearchInStep, MetIsClosed
  <2>2. n \in On(queue)' \/ n \in Met
    BY <1>3, <1>6 DEF Met
  <2>3. ASSUME NEW m \in Met
        PROVE  m \in On(queue)' \/ m = pivot \/ m \notin Vertices
               \/ (~Dac(m) /\ Inputs(m) \subseteq Met')
    BY <1>1, <1>2, <1>6 DEF SearchInStep, MetIsClosed, Expanding
  <2>4. \A m \in Met' : \/ m \in On(queue)' \/ Expanding(m)' \/ m \notin Vertices'
                        \/ ~Dac(m)' /\ Inputs(m)' \subseteq Met'
    BY <1>1, <1>6, <2>2, <2>3, GraphKept DEF Expanding
  <2>5. QED
    BY <2>1, <2>4 DEF MetIsClosed
<1>8. PivotInStep'
  <2>1. pivot' \in Vertices' \cap Met' /\ ~Dac(pivot)'
    BY <1>1, <1>4, <1>5, <1>6, GraphKept
  <2>2. On(rest)' \subseteq Inputs(pivot)' /\ Inputs(pivot)' \subseteq Met' \cup On(rest)'
    BY <1>3, <1>4, <1>5, <1>6
  <2>3. QED
    BY <2>1, <2>2 DEF PivotInStep
<1>9. QED
  BY <1>1, <1>2, <1>6, <1>7, <1>8 DEF SearchInStep, TraceInStep, PathIsRoute

LEMMA ExpandedStep == ASSUME IInv, Expanded PROVE SearchInStep' /\ PathIsRoute'
<1>1. pc = "expand" /\ pc' = "search" /\ UNCHANGED <<codec, pin, parent, queue>> /\ rest = <<>>
  BY DEF Expanded, callVars, searchVars
<1>2. SearchInStep
  BY <1>1 DEF IInv, Searching
<1>3. On(queue)' = On(queue) /\ On(rest) = {}
  BY <1>1 DEF On
<1>4. ~Dac(pivot) /\ Inputs(pivot) \subseteq Met
  BY <1>1, <1>2, <1>3 DEF SearchInStep, PivotInStep
<1>5. MetIsClosed'
  <2>1. \A m \in Met : m \in On(queue) \/ m \notin Vertices
                    \/ (~Dac(m) /\ Inputs(m) \subseteq Met)
    BY <1>1, <1>2, <1>4 DEF SearchInStep, MetIsClosed, Expanding
  <2>2. QED
    BY <1>1, <1>2, <1>3, <2>1, GraphKept, MetKept DEF SearchInStep, MetIsClosed
<1>6. ParentsAreEdges'
  BY <1>1, <1>2, GraphKept, MetKept DEF SearchInStep, ParentsAreEdges
<1>7. QED
  BY <1>1, <1>2, <1>5, <1>6 DEF SearchInStep, PivotInStep, TraceInStep, PathIsRoute

(* A route grows at its end. *)
LEMMA RouteAppend ==
  ASSUME NEW p \in Seq(Nodes), NEW n \in Nodes, IsRoute(p),
         p = <<>> => Dac(n), p # <<>> => p[Len(p)] \in Inputs(n)
  PROVE  IsRoute(Append(p, n)) /\ Append(p, n) # <<>>
         /\ Len(Append(p, n)) \in Nat \ {0} /\ Append(p, n)[Len(Append(p, n))] = n
<1> PICK r : r = Append(p, n)
  OBVIOUS
<1>1. r \in Seq(Nodes) /\ Len(r) = Len(p) + 1 /\ Len(p) \in Nat /\ r[Len(p) + 1] = n
      /\ \A i \in 1..Len(p) : r[i] = p[i]
  OBVIOUS
<1>2. Dac(r[1])
  BY <1>1 DEF IsRoute
<1>3. ASSUME NEW i \in 1..Len(r)-1 PROVE r[i] \in Inputs(r[i + 1])
  <2>1. CASE i = Len(p)
    BY <1>1, <1>3, <2>1
  <2>2. CASE i # Len(p)
    <3>1. i \in 1..Len(p)-1 /\ i + 1 \in 1..Len(p)
      BY <1>1, <1>3, <2>2
    <3>2. p[i] \in Inputs(p[i + 1])
      BY <3>1 DEF IsRoute
    <3>3. r[i] = p[i] /\ r[i + 1] = p[i + 1]
      BY <1>1, <3>1
    <3>4. QED
      BY <3>2, <3>3
  <2>3. QED
    BY <2>1, <2>2
<1>4. QED
  BY <1>1, <1>2, <1>3 DEF IsRoute

LEMMA TracedOn ==
  ASSUME IInv, pc = "trace"
  PROVE  LET r == Append(path, pivot) IN
           /\ pivot \in Nodes /\ pivot \in Met /\ IsRoute(r) /\ r # <<>>
           /\ Len(r) \in Nat \ {0} /\ r[Len(r)] = pivot
<1>1. SearchInStep /\ TypeOK
  BY DEF IInv, Searching
<1>2. pivot \in Nodes /\ pivot \in Met /\ path \in Seq(Nodes)
  BY <1>1 DEF SearchInStep, TraceInStep, Met, TypeOK
<1>3. /\ IsRoute(path)
      /\ path = <<>> => Dac(pivot)
      /\ path # <<>> => path[Len(path)] \in Inputs(pivot)
  BY <1>1 DEF SearchInStep, TraceInStep
<1>4. QED
  BY <1>2, <1>3, RouteAppend

(* Primes do not reach into a path that is given. *)
LEMMA RouteKept ==
  ASSUME UNCHANGED codec, NEW p, IsRoute(p)
  PROVE  IsRoute(p)'
<1>1. p # <<>> => Dac(p[1])'
  BY GraphKept DEF IsRoute
<1>2. \A i \in 1..Len(p)-1 : (p[i] \in Inputs(p[i + 1]))'
  BY GraphKept DEF IsRoute
<1>3. QED
  BY <1>1, <1>2 DEF IsRoute

LEMMA TraceStep == ASSUME IInv, Trace PROVE SearchInStep' /\ PathIsRoute'
<1>1. pc = "trace" /\ pc' = "trace" /\ UNCHANGED <<codec, pin, parent>>
      /\ Known(pivot) /\ path' = Append(path, pivot) /\ pivot' = parent[pivot]
  BY DEF Trace, callVars
<1>2. SearchInStep
  BY <1>1 DEF IInv, Searching
<1>3. ParentsAreEdges'
  BY <1>1, <1>2, GraphKept, MetKept DEF SearchInStep, ParentsAreEdges
<1>4. TraceInStep'
  <2>1. PICK r, v : r = Append(path, pivot) /\ v = parent[pivot]
    OBVIOUS
  <2>2. pivot \in Nodes /\ IsRoute(r) /\ r # <<>> /\ r[Len(r)] = pivot
    BY <1>1, <2>1, TracedOn
  <2>3. v \in Met /\ r[Len(r)] \in Inputs(v)
    BY <1>1, <1>2, <2>1, <2>2 DEF SearchInStep, ParentsAreEdges
  <2>4. IsRoute(r)' /\ v \in Met' /\ r[Len(r)] \in Inputs(v)'
    BY <1>1, <2>2, <2>3, RouteKept, GraphKept, MetKept
  <2>5. path' = r /\ pivot' = v
    BY <1>1, <2>1
  <2>6. IsRoute(path)' /\ (path[Len(path)] \in Inputs(pivot))'
    BY <2>4, <2>5 DEF IsRoute, Dac, Inputs, Successors
  <2>7. QED
    BY <2>2, <2>4, <2>5, <2>6 DEF TraceInStep
<1>5. QED
  BY <1>1, <1>2, <1>3, <1>4 DEF SearchInStep, MetIsClosed, PivotInStep, PathIsRoute

LEMMA FoundStep == ASSUME IInv, Found PROVE SearchInStep' /\ PathIsRoute'
<1>1. pc = "trace" /\ pc' = "config" /\ UNCHANGED <<codec, pin, parent>>
      /\ ~Known(pivot) /\ path' = Append(path, pivot)
  BY DEF Found, callVars
<1>2. SearchInStep
  BY <1>1 DEF IInv, Searching
<1>3. ParentsAreEdges'
  BY <1>1, <1>2, GraphKept, MetKept DEF SearchInStep, ParentsAreEdges
<1>4. PathIsRoute'
  <2>1. PICK r : r = Append(path, pivot)
    OBVIOUS
  <2>2. pivot \in Met /\ IsRoute(r) /\ r # <<>> /\ r[Len(r)] = pivot
    BY <1>1, <2>1, TracedOn
  <2>3. pivot = pin
    BY <1>1, <2>2 DEF Met
  <2>4. IsRoute(r)' /\ path' = r
    BY <1>1, <2>1, <2>2, RouteKept
  <2>5. IsRoute(path)'
    BY <2>4 DEF IsRoute, Dac, Inputs, Successors
  <2>6. path' # <<>> /\ path'[Len(path')] = pin'
    BY <1>1, <2>2, <2>3, <2>4
  <2>7. QED
    BY <2>5, <2>6 DEF IsRoute, PathIsRoute
<1>5. QED
  BY <1>1, <1>2, <1>3, <1>4 DEF SearchInStep, MetIsClosed, PivotInStep, TraceInStep
-----------------------------------------------------------------------------
(* The steps outside of the search leave it alone, or have ended it. *)
Outside == Begin \/ PinsDone \/ NotFound \/ Setup \/ UNCHANGED vars

LEMMA OutsideStep ==
  ASSUME IInv, Outside
  PROVE  pc' \notin Searching \/ UNCHANGED <<codec, pc, pin, searchVars>>
<1>1. CASE Begin \/ PinsDone \/ NotFound
  BY <1>1 DEF Begin, PinsDone, NotFound, Searching
<1>2. CASE Collect \/ CollectFails \/ Configured
  BY <1>2 DEF Collect, CollectFails, Configured, Searching
<1>3. CASE Configure \/ ConfigureFails
  BY <1>3 DEF Configure, ConfigureFails, Searching
<1>4. CASE Knobs \/ MuteRest
  BY <1>4 DEF Knobs, MuteRest, Searching
<1>5. CASE UNCHANGED vars
  BY <1>5 DEF vars, callVars
<1>6. QED
  BY <1>1, <1>2, <1>3, <1>4, <1>5 DEF Outside, Setup

LEMMA StepKeeps == ASSUME IInv, [Next]_vars PROVE IInv'
<1>1. TypeOK'
  BY TypeStep
<1>2. CASE NextPin \/ PopDangling \/ PopDac \/ PopNode
  BY <1>1, <1>2, NextPinStep, PopDanglingStep, PopDacStep, PopNodeStep DEF IInv
<1>3. CASE Visit \/ Expanded \/ Trace \/ Found
  BY <1>1, <1>3, VisitStep, ExpandedStep, TraceStep, FoundStep DEF IInv
<1>4. CASE Outside
  <2>1. CASE pc' \notin Searching
    BY <1>1, <2>1 DEF IInv, PathIsRoute, Searching
  <2>2. CASE UNCHANGED <<codec, pc, pin, searchVars>>
    <3>1. (pc \in Searching => SearchInStep)'
      <4> SUFFICES ASSUME pc \in Searching PROVE SearchInStep'
        BY <2>2
      <4>1. SearchInStep /\ UNCHANGED <<codec, pc, pin, queue, parent, pivot, rest, path>>
        BY <2>2 DEF IInv, searchVars
      <4>2. /\ On(queue)' = On(queue) /\ On(rest)' = On(rest)
            /\ Inputs(pivot)' = Inputs(pivot) /\ Dac(pivot)' = Dac(pivot)
        BY <4>1 DEF On, Inputs, Successors, Dac
      <4>3. ParentsAreEdges'
        BY <4>1, GraphKept, MetKept DEF SearchInStep, ParentsAreEdges
      <4>4. MetIsClosed'
        BY <4>1, <4>2, GraphKept, MetKept DEF SearchInStep, MetIsClosed, Expanding
      <4>5. PivotInStep'
        BY <4>1, <4>2, GraphKept, MetKept DEF SearchInStep, PivotInStep
      <4>6. IsRoute(path)' <=> IsRoute(path)
        BY <4>1 DEF IsRoute, Inputs, Successors, Dac
      <4>7. TraceInStep'
        BY <4>1, <4>2, <4>6, GraphKept, MetKept DEF SearchInStep, TraceInStep
      <4>8. QED
        BY <4>1, <4>3, <4>4, <4>5, <4>7 DEF SearchInStep
    <3>2. PathIsRoute'
      BY <2>2 DEF IInv, PathIsRoute, Inputs, Successors, Dac, searchVars
    <3>3. QED
      BY <1>1, <3>1, <3>2 DEF IInv
  <2>3. QED
    BY <1>4, <2>1, <2>2, OutsideStep
<1>5. QED
  BY <1>2, <1>3, <1>4 DEF Next, Search, Outside

THEOREM InvAlways == Spec => []IInv
<1>1. IInv /\ [Next]_vars => IInv'
  BY StepKeeps
<1>2. QED
  BY InitHolds, <1>1, PTL DEF Spec

(* All variables have their types: the index computed for a node that is   *)
(* switched, above all, is a number, as the next node of its path is among *)
(* its inputs (main.rs 1697-1712, 1771-1778).                              *)
THEOREM TypeAlways == Spec => []TypeOK
<1>1. IInv => TypeOK
  BY DEF IInv
<1>2. QED
  BY InvAlways, <1>1, PTL

(* Whatever the widget graph, hda_find_dac (main.rs 1667-1695) returns a   *)
(* path of it from a DAC to the pin.                                       *)
THEOREM PathsAreRoutes == Spec => []PathIsRoute
<1>1. IInv => PathIsRoute
  BY DEF IInv
<1>2. QED
  BY InvAlways, <1>1, PTL

(* Whatever the widget graph, hda_find_dac returns None only for a pin     *)
(* that no DAC can be reached from: what it has met by then is a closed    *)
(* set without one.                                                        *)
THEOREM SearchFindsDac == Spec => SearchIsComplete
<1>1. IInv /\ [Next]_vars => [NotFound => ~DacReachable(pin)]_vars
  <2> SUFFICES ASSUME IInv, NotFound PROVE ~DacReachable(pin)
    OBVIOUS
  <2>1. pc = "search" /\ queue = <<>>
    BY DEF NotFound
  <2>2. SearchInStep /\ On(queue) = {}
    BY <2>1 DEF IInv, Searching, On
  <2>3. Met \in SUBSET Nodes /\ pin \in Met
    BY <2>2 DEF SearchInStep, Met
  <2>4. \A n \in Met : n \notin Vertices \/ (~Dac(n) /\ Inputs(n) \subseteq Met)
    BY <2>1, <2>2 DEF SearchInStep, MetIsClosed, Expanding
  <2>5. \A n \in Met : ~Dac(n)
    BY <2>3, <2>4 DEF Vertices, Dac
  <2>6. QED
    BY <2>3, <2>4, <2>5 DEF DacReachable
<1>2. QED
  BY InvAlways, <1>1, PTL DEF Spec, SearchIsComplete
=============================================================================
