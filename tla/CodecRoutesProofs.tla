-------------------------- MODULE CodecRoutesProofs --------------------------
(***************************************************************************)
(* Proofs about the routes that codec_setup_stream configures, for widget  *)
(* graphs of any size and shape: two pins whose routes share a node want   *)
(* the same of it.                                                         *)
(*                                                                         *)
(* A comment says why (main.rs 1774-1776): "we always choose               *)
(* lexigraphically first connection to a DAC".  The proof makes that       *)
(* precise.  `First(v, w)': of v's inputs w is one with a DAC at the least *)
(* distance, and the first such in v's list.  That does not depend on the  *)
(* pin; and hda_find_dac's path goes from each node to its First.          *)
(***************************************************************************)
EXTENDS CodecRoutingProofs

(* There is a DAC within k connections of x. *)
Walk(w, x, j) ==
  /\ w \in [0..j -> Nodes]
  /\ w[0] = x /\ Dac(w[j])
  /\ \A i \in 0..j-1 : w[i] \in Vertices /\ w[i + 1] \in Inputs(w[i])

Near(x, k) == \E j \in 0..k : \E w \in [0..j -> Nodes] : Walk(w, x, j)

(* A DAC is within k connections of w, which is v's input number s; no     *)
(* input of v is nearer, and none before s is as near.                     *)
FirstAt(v, w, k, s) ==
  /\ Successors(v)[s] = w /\ Near(w, k)
  /\ \A u \in Inputs(v), j \in Nat : Near(u, j) => k <= j
  /\ \A i \in 1..s-1 : ~Near(Successors(v)[i], k)

First(v, w) == \E k \in Nat, s \in DOMAIN Successors(v) : FirstAt(v, w, k, s)

Firsts == {e \in Vertices \X Nodes : First(e[1], e[2])}
-----------------------------------------------------------------------------
(***************************************************************************)
(* Distances.                                                              *)
(***************************************************************************)
LEMMA NearZero == ASSUME NEW x \in Nodes PROVE Near(x, 0) <=> Dac(x)
<1>1. ASSUME Dac(x) PROVE Near(x, 0)
  <2> DEFINE w == [i \in 0..0 |-> x]
  <2>1. w \in [0..0 -> Nodes] /\ w[0] = x
    OBVIOUS
  <2>2. Walk(w, x, 0)
    BY <1>1, <2>1 DEF Walk
  <2>3. 0 \in 0..0
    OBVIOUS
  <2>4. QED
    BY <2>1, <2>2, <2>3 DEF Near
<1>2. ASSUME Near(x, 0) PROVE Dac(x)
  BY <1>2 DEF Near, Walk
<1>3. QED
  BY <1>1, <1>2

LEMMA NearMore ==
  ASSUME NEW x, NEW k \in Nat, NEW m \in Nat, Near(x, k), k <= m
  PROVE  Near(x, m)
<1>1. PICK j \in 0..k : \E w \in [0..j -> Nodes] : Walk(w, x, j)
  BY DEF Near
<1>2. j \in 0..m
  OBVIOUS
<1>3. QED
  BY <1>1, <1>2 DEF Near

LEMMA NearUp ==
  ASSUME NEW x \in Nodes \cap Vertices, NEW y \in Inputs(x), NEW k \in Nat, Near(y, k)
  PROVE  Near(x, k + 1)
<1>1. PICK j \in 0..k : \E w \in [0..j -> Nodes] : Walk(w, y, j)
  BY DEF Near
<1>2. PICK w \in [0..j -> Nodes] : Walk(w, y, j)
  BY <1>1
<1>3. j + 1 \in 0..k+1 /\ j \in Nat
  OBVIOUS
<1> DEFINE z == [i \in 0..j+1 |-> IF i = 0 THEN x ELSE w[i - 1]]
<1>4. \A i \in 1..j+1 : i - 1 \in 0..j /\ i \in 0..j+1 /\ z[i] = w[i - 1]
  BY <1>3
<1>5. z \in [0..j+1 -> Nodes] /\ z[0] = x
  BY <1>3, <1>4
<1>6. z[j + 1] = w[j]
  BY <1>3
<1>7. ASSUME NEW i \in 0..(j+1)-1 PROVE z[i] \in Vertices /\ z[i + 1] \in Inputs(z[i])
  <2>1. CASE i = 0
    <3>1. z[1] = w[0]
      BY <1>3
    <3>2. QED
      BY <1>2, <1>5, <2>1, <3>1 DEF Walk
  <2>2. CASE i # 0
    <3>1. i - 1 \in 0..j-1 /\ (i - 1) + 1 = i /\ z[i] = w[i - 1] /\ z[i + 1] = w[i]
      BY <1>3, <1>7, <2>2
    <3>2. w[i - 1] \in Vertices /\ w[(i - 1) + 1] \in Inputs(w[i - 1])
      BY <1>2, <3>1 DEF Walk
    <3>3. QED
      BY <3>1, <3>2
  <2>3. QED
    BY <2>1, <2>2
<1>8. Walk(z, x, j + 1)
  <2> HIDE DEF z
  <2> QED BY <1>2, <1>5, <1>6, <1>7 DEF Walk
<1>9. QED
  <2> HIDE DEF z
  <2> QED BY <1>3, <1>5, <1>8 DEF Near

LEMMA NearDown ==
  ASSUME NEW x \in Nodes, NEW k \in Nat, Near(x, k + 1)
  PROVE  Dac(x) \/ (x \in Vertices /\ \E y \in Inputs(x) : Near(y, k))
<1>1. PICK j \in 0..k+1 : \E w \in [0..j -> Nodes] : Walk(w, x, j)
  BY DEF Near
<1>2. PICK w \in [0..j -> Nodes] : Walk(w, x, j)
  BY <1>1
<1>3. CASE j = 0
  BY <1>2, <1>3 DEF Walk
<1>4. CASE j # 0
  <2> PICK m : m = j - 1
    OBVIOUS
  <2>1. m \in 0..k /\ m \in Nat /\ j = m + 1
    BY <1>4
  <2> DEFINE z == [i \in 0..m |-> w[i + 1]]
  <2>2. z \in [0..m -> Nodes] /\ z[0] = w[1] /\ z[m] = w[j]
    BY <2>1
  <2>3. w[0] \in Vertices /\ w[0 + 1] \in Inputs(w[0]) /\ w[0] = x
    BY <1>2, <2>1 DEF Walk
  <2>4. ASSUME NEW i \in 0..m-1 PROVE z[i] \in Vertices /\ z[i + 1] \in Inputs(z[i])
    <3>1. i + 1 \in 0..j-1 /\ z[i] = w[i + 1] /\ z[i + 1] = w[(i + 1) + 1]
      BY <2>1, <2>4
    <3>2. QED
      BY <1>2, <3>1 DEF Walk
  <2>5. Walk(z, w[1], m)
    <3> HIDE DEF z
    <3> QED BY <1>2, <2>2, <2>4 DEF Walk
  <2>6. Near(w[1], k)
    <3> HIDE DEF z
    <3> QED BY <2>1, <2>2, <2>5 DEF Near
  <2>7. QED
    BY <2>3, <2>6
<1>5. QED
  BY <1>3, <1>4

(* There is at most one First. *)
LEMMA FirstIsOne ==
  ASSUME TypeOK, NEW v, NEW w, NEW u, <<v, w>> \in Firsts, <<v, u>> \in Firsts
  PROVE  w = u
<1>0. v \in Nodes
  BY DEF Firsts, Vertices
<1>1. PICK k \in Nat, s \in DOMAIN Successors(v) : FirstAt(v, w, k, s)
  BY DEF First, Firsts
<1>2. PICK m \in Nat, t \in DOMAIN Successors(v) : FirstAt(v, u, m, t)
  BY DEF First, Firsts
<1>3. w \in Inputs(v) /\ u \in Inputs(v)
  BY <1>1, <1>2 DEF FirstAt, Inputs
<1>4. k = m
  <2>1. k <= m /\ m <= k
    BY <1>1, <1>2, <1>3 DEF FirstAt
  <2>2. QED
    BY <2>1
<1>5. s \in Nat \ {0} /\ t \in Nat \ {0}
  BY <1>0, SuccessorsAre
<1>6. ~(s < t) /\ ~(t < s)
  BY <1>1, <1>2, <1>4, <1>5 DEF FirstAt
<1>7. s = t
  BY <1>5, <1>6
<1>8. QED
  BY <1>1, <1>2, <1>7 DEF FirstAt
-----------------------------------------------------------------------------
(***************************************************************************)
(* The order of the search.  E[n]: what it had met before it met n.        *)
(***************************************************************************)
(* When n was met as an input of v, what had been met before v had been    *)
(* expanded, and so had v been up to n's place in its list.                *)
MetFrom(E, n, v) ==
  /\ v \in E[n] /\ E[v] \subseteq E[n]
  /\ \A x \in E[v] \cap Vertices : Inputs(x) \subseteq E[n]
  /\ \E s \in DOMAIN Successors(v) :
       Successors(v)[s] = n /\ \A i \in 1..s-1 : Successors(v)[i] \in E[n]

Ordered(E) ==
  /\ \A n \in Met : E[n] \subseteq Met
  /\ \A n \in Met \ {pin} : MetFrom(E, n, parent[n])

(* The queue holds what was met last, in that order. *)
QueueOrdered(E) ==
  /\ \A i \in DOMAIN queue : \A j \in DOMAIN queue : i <= j => queue[j] \notin E[queue[i]]
  /\ pc = "expand" => pivot \notin E[pivot] /\ E[pivot] \cap On(queue) = {}

OrderKnown ==
  pc \in {"search", "expand"} /\ ~Known(pin) =>
    \E E \in [Nodes -> SUBSET Nodes] : Ordered(E) /\ QueueOrdered(E)

(* What is left of the pivot's list comes after t nodes that were met. *)
RestAfter(t) ==
  /\ Len(Successors(pivot)) = t + Len(rest)
  /\ \A i \in DOMAIN rest : rest[i] = Successors(pivot)[t + i]
  /\ \A i \in 1..t : Successors(pivot)[i] \in Met

RestKnown == pc = "expand" => \E t \in Nat : RestAfter(t)

(* Nothing met before the pivot is as near to a DAC as the pivot is. *)
TraceOrdered(E) ==
  /\ Ordered(E)
  /\ Near(pivot, Len(path)) /\ \A x \in E[pivot] : ~Near(x, Len(path))

IsFirst(p) == \A i \in 1..Len(p)-1 : <<p[i + 1], p[i]>> \in Firsts

TraceKnown ==
  pc = "trace" /\ ~Known(pin) =>
    /\ \E E \in [Nodes -> SUBSET Nodes] : TraceOrdered(E)
    /\ IsFirst(path) /\ (path # <<>> => <<pivot, path[Len(path)]>> \in Firsts)

PathKnown == pc = "config" => IsFirst(path)

(* All that is configured for a route takes its First. *)
ActiveKnown ==
  pc \in {"collect", "pins"} \cup Searching =>
    \A n \in active : Dac(n) \/ <<n, Source(n)>> \in Firsts

RInv == OrderKnown /\ RestKnown /\ TraceKnown /\ PathKnown /\ ActiveKnown
-----------------------------------------------------------------------------
(* As long as the graph is the same, so are distances and Firsts. *)
LEMMA NearKept ==
  ASSUME UNCHANGED codec
  PROVE  /\ \A x, k : Near(x, k)' <=> Near(x, k)
         /\ Firsts' = Firsts
<1>1. ASSUME NEW w, NEW x, NEW j PROVE Walk(w, x, j)' <=> Walk(w, x, j)
  BY GraphKept DEF Walk
<1>2. ASSUME NEW x, NEW k PROVE Near(x, k)' <=> Near(x, k)
  BY <1>1 DEF Near
<1>3. ASSUME NEW v, NEW w PROVE First(v, w)' <=> First(v, w)
  <2>1. ASSUME NEW k, NEW s PROVE FirstAt(v, w, k, s)' <=> FirstAt(v, w, k, s)
    BY <1>2, GraphKept DEF FirstAt
  <2>2. DOMAIN Successors(v)' = DOMAIN Successors(v)
    BY GraphKept
  <2>3. QED
    BY <2>1, <2>2 DEF First
<1>4. Firsts' = Firsts
  BY <1>3, GraphKept DEF Firsts
<1>5. QED
  BY <1>2, <1>4

LEMMA MetFromKept ==
  ASSUME UNCHANGED codec, NEW E, NEW n, NEW v, MetFrom(E, n, v)
  PROVE  MetFrom(E, n, v)'
<1>1. Successors(v)' = Successors(v)
  BY GraphKept
<1>2. QED
  BY <1>1, GraphKept DEF MetFrom

LEMMA OrderedKept ==
  ASSUME UNCHANGED <<codec, pin, parent>>, NEW E, Ordered(E)
  PROVE  Ordered(E)'
<1>1. Met' = Met /\ pin' = pin
  BY MetKept
<1>2. ASSUME NEW n \in Met \ {pin} PROVE MetFrom(E, n, parent[n])'
  <2>1. PICK v : v = parent[n]
    OBVIOUS
  <2>2. MetFrom(E, n, v)'
    BY <2>1, MetFromKept DEF Ordered
  <2>3. parent'[n] = v
    BY <2>1
  <2>4. QED
    BY <2>2, <2>3 DEF MetFrom, Successors, Inputs, Vertices, Dac
<1>3. QED
  BY <1>1, <1>2 DEF Ordered
-----------------------------------------------------------------------------
(***************************************************************************)
(* The steps of the search keep the order.                                 *)
(***************************************************************************)
LEMMA PinOrder == ASSUME IInv, NextPin PROVE OrderKnown' /\ RestKnown'
<1>1. PICK n \in Nodes : pin' = n /\ queue' = <<n>>
  BY DEF NextPin, PinsLeft, Pins
<1>2. pc' = "search" /\ \A k \in Nodes : parent'[k] = NoNode
  BY DEF NextPin
<1>3. Met' = {n}
  BY <1>1, <1>2 DEF Met, Known
<1> DEFINE E == [k \in Nodes |-> {}]
<1>4. E \in [Nodes -> SUBSET Nodes] /\ \A k \in Nodes : E[k] = {}
  OBVIOUS
<1>5. Ordered(E)'
  <2> HIDE DEF E
  <2> QED BY <1>1, <1>3, <1>4 DEF Ordered
<1>6. QueueOrdered(E)'
  <2> HIDE DEF E
  <2> QED BY <1>1, <1>2, <1>4 DEF QueueOrdered
<1>7. QED
  <2> HIDE DEF E
  <2> QED BY <1>2, <1>4, <1>5, <1>6 DEF OrderKnown, RestKnown

(* What comes after the head of the queue. *)
LEMMA TailOrdered ==
  ASSUME TypeOK, queue # <<>>, NEW E, QueueOrdered(E)
  PROVE  LET q == Tail(queue) IN
         /\ \A i \in DOMAIN q : \A j \in DOMAIN q : i <= j => q[j] \notin E[q[i]]
         /\ Head(queue) \notin E[Head(queue)]
         /\ E[Head(queue)] \cap On(queue) = {} /\ E[Head(queue)] \cap On(q) = {}
<1> PICK q : q = Tail(queue)
  OBVIOUS
<1>1. queue \in Seq(Nodes) /\ Len(queue) \in Nat \ {0} /\ DOMAIN queue = 1..Len(queue)
  BY DEF TypeOK
<1>2. DOMAIN q = 1..Len(queue)-1 /\ \A i \in DOMAIN q : q[i] = queue[i + 1]
  BY <1>1
<1>3. Head(queue) = queue[1] /\ 1 \in DOMAIN queue
  BY <1>1
<1>4. ASSUME NEW i \in DOMAIN q, NEW j \in DOMAIN q, i <= j PROVE q[j] \notin E[q[i]]
  <2>1. i + 1 \in DOMAIN queue /\ j + 1 \in DOMAIN queue /\ i + 1 <= j + 1
    BY <1>1, <1>2, <1>4
  <2>2. queue[j + 1] \notin E[queue[i + 1]]
    BY <2>1 DEF QueueOrdered
  <2>3. QED
    BY <1>2, <2>2
<1>5. \A j \in DOMAIN queue : queue[j] \notin E[queue[1]]
  BY <1>1, <1>3 DEF QueueOrdered
<1>6. E[Head(queue)] \cap On(queue) = {}
  BY <1>3, <1>5 DEF On
<1>7. Head(queue) \in On(queue) /\ On(q) \subseteq On(queue)
  BY <1>1, HeadAndTail
<1>8. QED
  BY <1>4, <1>6, <1>7

LEMMA PopDanglingOrder ==
  ASSUME IInv, OrderKnown, PopDangling
  PROVE  OrderKnown' /\ RestKnown'
<1>1. pc = "search" /\ pc' = "search" /\ UNCHANGED <<codec, pin, parent>>
      /\ queue # <<>> /\ queue' = Tail(queue)
  BY DEF PopDangling, callVars
<1>2. ASSUME ~Known(pin)'
      PROVE  \E E \in [Nodes -> SUBSET Nodes] : Ordered(E)' /\ QueueOrdered(E)'
  <2>1. PICK E \in [Nodes -> SUBSET Nodes] : Ordered(E) /\ QueueOrdered(E)
    BY <1>1, <1>2 DEF OrderKnown, Known
  <2>2. Ordered(E)'
    BY <1>1, <2>1, OrderedKept
  <2>3. QueueOrdered(E)'
    BY <1>1, <2>1, TailOrdered DEF QueueOrdered, IInv
  <2>4. QED
    BY <2>2, <2>3
<1>3. QED
  BY <1>1, <1>2 DEF OrderKnown, RestKnown

LEMMA PopNodeOrder ==
  ASSUME IInv, OrderKnown, PopNode
  PROVE  OrderKnown' /\ RestKnown'
<1>1. pc = "search" /\ pc' = "expand" /\ UNCHANGED <<codec, pin, parent>>
      /\ queue # <<>> /\ queue' = Tail(queue)
      /\ pivot' = Head(queue) /\ rest' = Successors(Head(queue))
  BY DEF PopNode, callVars
<1>2. ASSUME ~Known(pin)'
      PROVE  \E E \in [Nodes -> SUBSET Nodes] : Ordered(E)' /\ QueueOrdered(E)'
  <2>1. PICK E \in [Nodes -> SUBSET Nodes] : Ordered(E) /\ QueueOrdered(E)
    BY <1>1, <1>2 DEF OrderKnown, Known
  <2>2. Ordered(E)'
    BY <1>1, <2>1, OrderedKept
  <2>3. On(queue)' = On(Tail(queue))
    BY <1>1 DEF On
  <2>4. QueueOrdered(E)'
    BY <1>1, <2>1, <2>3, TailOrdered DEF QueueOrdered, IInv
  <2>5. QED
    BY <2>2, <2>4
<1>3. RestAfter(0)'
  <2>1. PICK h : h = Head(queue)
    OBVIOUS
  <2>2. h \in Nodes /\ Successors(h) \in Seq(Nodes)
    BY <1>1, <2>1, AtHead, SuccessorsAre DEF IInv
  <2>3. Successors(h)' = rest'
    BY <1>1, <2>1, GraphKept
  <2>4. rest' \in Seq(Nodes)
    BY <1>1, <2>1, <2>2
  <2>5. Successors(pivot)' = rest'
    BY <1>1, <2>1, <2>3 DEF Successors, Dac
  <2>6. Len(rest') = 0 + Len(rest') /\ \A i \in DOMAIN rest' : rest'[i] = rest'[0 + i]
    BY <2>4
  <2>7. QED
    BY <2>5, <2>6 DEF RestAfter
<1>4. QED
  BY <1>1, <1>2, <1>3 DEF OrderKnown, RestKnown

LEMMA ExpandedOrder ==
  ASSUME IInv, OrderKnown, Expanded
  PROVE  OrderKnown' /\ RestKnown'
<1>1. pc = "expand" /\ pc' = "search" /\ UNCHANGED <<codec, pin, parent, queue>>
  BY DEF Expanded, callVars, searchVars
<1>2. ASSUME ~Known(pin)'
      PROVE  \E E \in [Nodes -> SUBSET Nodes] : Ordered(E)' /\ QueueOrdered(E)'
  <2>1. PICK E \in [Nodes -> SUBSET Nodes] : Ordered(E) /\ QueueOrdered(E)
    BY <1>1, <1>2 DEF OrderKnown, Known
  <2>2. Ordered(E)'
    BY <1>1, <2>1, OrderedKept
  <2>3. QueueOrdered(E)'
    BY <1>1, <2>1 DEF QueueOrdered
  <2>4. QED
    BY <2>2, <2>3
<1>3. QED
  BY <1>1, <1>2 DEF OrderKnown, RestKnown

(* The node visited is next in the pivot's list. *)
LEMMA VisitFacts ==
  ASSUME IInv, Visit
  PROVE  /\ TypeOK /\ SearchInStep
         /\ pc = "expand" /\ pc' = "expand" /\ UNCHANGED <<codec, pin, pivot>>
         /\ rest # <<>> /\ rest' = Tail(rest) /\ rest \in Seq(Nodes)
         /\ Head(rest) \in Nodes /\ Head(rest) = rest[1] /\ Len(rest) \in Nat \ {0}
         /\ pivot \in Nodes \cap Vertices \cap Met /\ pivot # NoNode
         /\ Successors(pivot) \in Seq(Nodes) /\ Inputs(pivot) \subseteq Nodes
<1>1. pc = "expand" /\ pc' = "expand" /\ UNCHANGED <<codec, pin, pivot>>
      /\ rest # <<>> /\ rest' = Tail(rest)
  BY DEF Visit, callVars
<1>2. SearchInStep /\ TypeOK
  BY <1>1 DEF IInv, Searching
<1>3. rest \in Seq(Nodes)
  BY <1>2 DEF TypeOK
<1>4. Head(rest) \in Nodes /\ Head(rest) = rest[1] /\ Len(rest) \in Nat \ {0}
  BY <1>1, <1>3
<1>5. pivot \in Nodes \cap Vertices \cap Met
  BY <1>1, <1>2 DEF SearchInStep, PivotInStep, Vertices
<1>6. pivot # NoNode
  BY <1>5, CodecAssumption DEF NoNode
<1>7. QED
  BY <1>1, <1>2, <1>3, <1>4, <1>5, <1>6, SuccessorsAre

(* It becomes known, and the last of the queue, unless it was known. *)
LEMMA VisitMeets ==
  ASSUME IInv, Visit
  PROVE  /\ Known(Head(rest)) => UNCHANGED <<parent, queue>> /\ Met' = Met
         /\ ~Known(Head(rest)) =>
              /\ parent'[Head(rest)] = pivot
              /\ \A m \in Nodes \ {Head(rest)} : parent'[m] = parent[m]
              /\ Met' = Met \cup {Head(rest)}
              /\ queue \in Seq(Nodes) /\ queue' = Append(queue, Head(rest))
         /\ Met \subseteq Met' /\ Head(rest) \in Met'
<1> PICK n : n = Head(rest)
  OBVIOUS
<1>1. n \in Nodes /\ TypeOK /\ UNCHANGED <<codec, pin>> /\ pivot # NoNode
  BY VisitFacts
<1>2. CASE Known(n)
  <2>1. UNCHANGED <<parent, queue>>
    BY <1>2 DEF Visit
  <2>2. n \in Met /\ Met' = Met
    BY <1>1, <1>2, <2>1, MetKept DEF Met
  <2>3. QED
    BY <1>2, <2>1, <2>2
<1>3. CASE ~Known(n)
  <2>1. parent' = [parent EXCEPT ![n] = pivot] /\ queue' = Append(queue, n)
    BY <1>3 DEF Visit, Enqueue
  <2>2. parent'[n] = pivot /\ \A m \in Nodes \ {n} : parent'[m] = parent[m]
    BY <1>1, <2>1 DEF TypeOK
  <2>3. Known(n)' /\ \A m \in Nodes \ {n} : Known(m)' = Known(m)
    BY <1>1, <2>2 DEF Known
  <2>4. Met' = Met \cup {n}
    BY <1>1, <2>3 DEF Met
  <2>5. QED
    BY <1>1, <1>3, <2>1, <2>2, <2>4 DEF TypeOK
<1>4. QED
  BY <1>2, <1>3

LEMMA VisitRest ==
  ASSUME IInv, RestKnown, Visit
  PROVE  RestKnown'
<1> PICK n, v, q : n = Head(rest) /\ v = pivot /\ q = Tail(rest)
  OBVIOUS
<1>1. PICK t \in Nat : RestAfter(t)
  BY VisitFacts DEF RestKnown
<1>2. pivot' = v /\ rest' = q /\ Successors(v)' = Successors(v)
  BY VisitFacts, GraphKept
<1>3. Successors(pivot)' = Successors(v)
  BY <1>2 DEF Successors, Dac
<1>4. Len(q) = Len(rest) - 1 /\ DOMAIN q = 1..Len(rest)-1 /\ \A i \in DOMAIN q : q[i] = rest[i + 1]
  BY VisitFacts
<1>5. \A i \in DOMAIN rest : rest[i] = Successors(v)[t + i]
  BY <1>1 DEF RestAfter
<1>6. Len(Successors(v)) = (t + 1) + Len(q)
  BY <1>1, <1>4, VisitFacts DEF RestAfter
<1>7. ASSUME NEW i \in DOMAIN q PROVE q[i] = Successors(v)[(t + 1) + i]
  <2>0. i \in 1..Len(rest)-1 /\ Len(rest) \in Nat /\ DOMAIN rest = 1..Len(rest)
    BY <1>4, VisitFacts
  <2>1. i + 1 \in DOMAIN rest /\ i \in Nat
    BY <2>0
  <2>4. t + (i + 1) = (t + 1) + i
    BY <2>1
  <2>2. rest[i + 1] = Successors(v)[t + (i + 1)]
    BY <1>5, <2>1
  <2>3. QED
    BY <1>4, <2>2, <2>4
<1>8. ASSUME NEW i \in 1..t+1 PROVE Successors(v)[i] \in Met'
  <2>1. CASE i = t + 1
    <3>1. 1 \in DOMAIN rest /\ n = rest[1]
      BY VisitFacts
    <3>2. n = Successors(v)[t + 1]
      BY <1>5, <3>1
    <3>3. QED
      BY <2>1, <3>2, VisitMeets
  <2>2. CASE i # t + 1
    <3>1. i \in 1..t
      BY <2>2
    <3>2. Successors(v)[i] \in Met
      BY <1>1, <3>1 DEF RestAfter
    <3>3. QED
      BY <3>2, VisitMeets
  <2>3. QED
    BY <2>1, <2>2
<1>9. RestAfter(t + 1)'
  BY <1>2, <1>3, <1>6, <1>7, <1>8 DEF RestAfter
<1>10. t + 1 \in Nat
  OBVIOUS
<1>11. QED
  BY <1>9, <1>10 DEF RestKnown

(* What was met before the pivot has been expanded. *)
LEMMA BeforePivot ==
  ASSUME IInv, pc = "expand", NEW E, Ordered(E), QueueOrdered(E)
  PROVE  /\ E[pivot] \subseteq Met
         /\ \A x \in E[pivot] \cap Vertices : Inputs(x) \subseteq Met
<1>1. SearchInStep
  BY DEF IInv, Searching
<1>2. pivot \in Met
  BY <1>1 DEF SearchInStep, PivotInStep
<1>3. E[pivot] \subseteq Met
  BY <1>2 DEF Ordered
<1>4. ASSUME NEW x \in E[pivot] \cap Vertices PROVE Inputs(x) \subseteq Met
  <2>1. x \in Met /\ x \notin On(queue) /\ ~Expanding(x)
    BY <1>3 DEF QueueOrdered, Expanding
  <2>2. QED
    BY <1>1, <2>1 DEF SearchInStep, MetIsClosed
<1>5. QED
  BY <1>3, <1>4

LEMMA VisitKnownOrder ==
  ASSUME IInv, OrderKnown, Visit, Known(Head(rest))
  PROVE  OrderKnown'
<1>1. UNCHANGED <<codec, pin, parent, queue, pivot, pc>>
  BY VisitFacts, VisitMeets
<1>2. ASSUME ~Known(pin)', pc \in {"search", "expand"}
      PROVE  \E E \in [Nodes -> SUBSET Nodes] : Ordered(E)' /\ QueueOrdered(E)'
  <2>1. PICK E \in [Nodes -> SUBSET Nodes] : Ordered(E) /\ QueueOrdered(E)
    BY <1>1, <1>2 DEF OrderKnown, Known
  <2>2. Ordered(E)'
    BY <1>1, <2>1, OrderedKept
  <2>3. On(queue)' = On(queue)
    BY <1>1 DEF On
  <2>4. QueueOrdered(E)'
    BY <1>1, <2>1, <2>3 DEF QueueOrdered
  <2>5. QED
    BY <2>2, <2>4
<1>3. QED
  BY <1>1, <1>2 DEF OrderKnown

(* Met before the node that is new: all that has been met. *)
LEMMA VisitNewOrder ==
  ASSUME IInv, OrderKnown, RestKnown, Visit, ~Known(Head(rest))
  PROVE  OrderKnown'
<1> PICK n : n = Head(rest)
  OBVIOUS
<1>1. /\ n \in Nodes /\ TypeOK /\ SearchInStep /\ pivot \in Nodes \cap Vertices \cap Met
      /\ pc = "expand" /\ pc' = "expand" /\ UNCHANGED <<codec, pin, pivot>> /\ pivot # NoNode
  BY VisitFacts
<1>2. /\ parent'[n] = pivot /\ \A m \in Nodes \ {n} : parent'[m] = parent[m]
      /\ Met' = Met \cup {n} /\ queue \in Seq(Nodes) /\ queue' = Append(queue, n)
  BY VisitMeets
<1>3. SUFFICES ASSUME ~Known(pin)'
               PROVE  \E E \in [Nodes -> SUBSET Nodes] : Ordered(E)' /\ QueueOrdered(E)'
  BY DEF OrderKnown
<1>4. n # pin /\ ~Known(pin)
  BY <1>1, <1>2, <1>3 DEF Known, SearchInStep
<1>5. n \notin Met /\ Met \subseteq Nodes
  BY <1>1, <1>4 DEF Met, SearchInStep
<1>6. PICK E \in [Nodes -> SUBSET Nodes] : Ordered(E) /\ QueueOrdered(E)
  BY <1>1, <1>4 DEF OrderKnown
<1>7. PICK t \in Nat : RestAfter(t)
  BY <1>1 DEF RestKnown
<1>8. E[pivot] \subseteq Met /\ \A x \in E[pivot] \cap Vertices : Inputs(x) \subseteq Met
  BY <1>1, <1>6, BeforePivot
<1>9. PICK F \in [Nodes -> SUBSET Nodes] : F[n] = Met /\ \A m \in Met : F[m] = E[m]
  <2> DEFINE F == [E EXCEPT ![n] = Met]
  <2>1. F \in [Nodes -> SUBSET Nodes] /\ F[n] = Met /\ \A m \in Met : F[m] = E[m]
    BY <1>1, <1>5, <1>6
  <2>2. QED
    BY <2>1
<1>10. MetFrom(F, n, pivot)
  <2>1. PICK v : v = pivot
    OBVIOUS
  <2>2. v \in F[n] /\ F[v] \subseteq F[n] /\ \A x \in F[v] \cap Vertices : Inputs(x) \subseteq F[n]
    BY <1>1, <1>8, <1>9, <2>1
  <2>3. /\ Len(Successors(v)) = t + Len(rest)
        /\ \A i \in DOMAIN rest : rest[i] = Successors(v)[t + i]
        /\ \A i \in 1..t : Successors(v)[i] \in Met
    BY <1>7, <2>1 DEF RestAfter
  <2>4. /\ 1 \in DOMAIN rest /\ n = rest[1]
        /\ Successors(v) \in Seq(Nodes) /\ Len(rest) \in Nat \ {0}
    BY <2>1, VisitFacts
  <2>5. t + 1 \in DOMAIN Successors(v)
    BY <2>3, <2>4
  <2>6. Successors(v)[t + 1] = n
    BY <2>3, <2>4
  <2>7. \A i \in 1..(t+1)-1 : Successors(v)[i] \in F[n]
    BY <1>9, <2>3
  <2>8. QED
    BY <2>1, <2>2, <2>5, <2>6, <2>7 DEF MetFrom
<1>11. ASSUME NEW m \in Met \ {pin} PROVE m \in Nodes \ {n} /\ MetFrom(F, m, parent[m])
  <2>1. PICK v : v = parent[m]
    OBVIOUS
  <2>2. m \in Nodes \ {n} /\ Known(m)
    BY <1>5 DEF Met
  <2>3. v \in Met
    BY <1>1, <2>1, <2>2 DEF SearchInStep, ParentsAreEdges
  <2>4. F[m] = E[m] /\ F[v] = E[v] /\ MetFrom(E, m, v)
    BY <1>6, <1>9, <2>1, <2>3 DEF Ordered
  <2>5. QED
    BY <2>1, <2>2, <2>4 DEF MetFrom
<1>12. Ordered(F)'
  <2>1. \A m \in Met' : F[m] \subseteq Met'
    BY <1>2, <1>6, <1>9 DEF Ordered
  <2>2. ASSUME NEW m \in Met' \ {pin'} PROVE MetFrom(F, m, parent[m])'
    <3>1. PICK v : v = parent'[m]
      OBVIOUS
    <3>2. MetFrom(F, m, v)
      BY <1>1, <1>2, <1>10, <1>11, <3>1
    <3>3. MetFrom(F, m, v)'
      BY <1>1, <3>2, MetFromKept
    <3>4. QED
      BY <3>1, <3>3 DEF MetFrom, Successors, Inputs, Vertices, Dac
  <2>3. QED
    BY <2>1, <2>2 DEF Ordered
<1>13. QueueOrdered(F)'
  <2> PICK q : q = queue'
    OBVIOUS
  <2>1. On(queue) \subseteq Met
    BY <1>1 DEF SearchInStep, MetIsClosed
  <2>2. /\ Len(queue) \in Nat /\ DOMAIN q = 1..Len(queue)+1 /\ DOMAIN queue = 1..Len(queue)
        /\ q[Len(queue) + 1] = n /\ \A i \in DOMAIN queue : q[i] = queue[i]
    BY <1>2
  <2>3. \A i \in DOMAIN queue : queue[i] \in Met /\ F[queue[i]] = E[queue[i]] /\ E[queue[i]] \subseteq Met
    BY <1>6, <1>9, <2>1 DEF On, Ordered
  <2>4. ASSUME NEW i \in DOMAIN q, NEW j \in DOMAIN q, i <= j PROVE q[j] \notin F[q[i]]
    <3>1. F[q[i]] \subseteq Met
      BY <1>9, <2>2, <2>3
    <3>2. CASE j \in DOMAIN queue
      <4>1. i \in DOMAIN queue
        BY <2>2, <2>4, <3>2
      <4>2. QED
        BY <1>6, <2>2, <2>3, <2>4, <3>2, <4>1 DEF QueueOrdered
    <3>3. CASE j \notin DOMAIN queue
      <4>1. q[j] = n
        BY <2>2, <3>3
      <4>2. QED
        BY <1>5, <3>1, <4>1
    <3>4. QED
      BY <3>2, <3>3
  <2>5. On(queue)' = On(queue) \cup {n}
    <3>1. On(q) = On(queue) \cup {n}
      BY <1>1, <1>2, OnAppend
    <3>2. QED
      BY <3>1 DEF On
  <2>6. F[pivot] = E[pivot] /\ pivot \notin E[pivot] /\ E[pivot] \cap On(queue)' = {}
    BY <1>1, <1>5, <1>6, <1>8, <1>9, <2>5 DEF QueueOrdered
  <2>7. QED
    BY <1>1, <2>4, <2>6 DEF QueueOrdered
<1>14. QED
  BY <1>9, <1>12, <1>13
-----------------------------------------------------------------------------
(***************************************************************************)
(* Tracing back: each node is the First of the next one.                   *)
(***************************************************************************)
LEMMA PopDacTrace ==
  ASSUME IInv, OrderKnown, PopDac
  PROVE  TraceKnown'
<1>1. pc = "search" /\ pc' = "trace" /\ UNCHANGED <<codec, pin, parent>> /\ queue # <<>>
      /\ pivot' = Head(queue) /\ Dac(Head(queue)) /\ path' = <<>>
  BY DEF PopDac, callVars
<1>2. TypeOK /\ SearchInStep
  BY <1>1 DEF IInv, Searching
<1>3. IsFirst(path)'
  BY <1>1 DEF IsFirst
<1>4. ASSUME ~Known(pin)'
      PROVE  \E E \in [Nodes -> SUBSET Nodes] : TraceOrdered(E)'
  <2>1. PICK E \in [Nodes -> SUBSET Nodes] : Ordered(E) /\ QueueOrdered(E)
    BY <1>1, <1>4 DEF OrderKnown, Known
  <2>2. Ordered(E)'
    BY <1>1, <2>1, OrderedKept
  <2>3. PICK d : d = Head(queue)
    OBVIOUS
  <2>4. d \in Nodes \cap Met /\ Dac(d) /\ E[d] \cap On(queue) = {} /\ E[d] \subseteq Met
    BY <1>1, <1>2, <2>1, <2>3, AtHead, TailOrdered DEF Ordered
  <2>5. Near(d, 0)
    BY <2>4, NearZero
  <2>6. ASSUME NEW x \in E[d] PROVE ~Near(x, 0)
    <3>1. x \in Met /\ x \notin On(queue) /\ x \in Nodes
      BY <1>2, <2>4 DEF Met, SearchInStep
    <3>2. x \notin Vertices \/ ~Dac(x)
      BY <1>1, <1>2, <3>1 DEF SearchInStep, MetIsClosed, Expanding
    <3>3. ~Dac(x)
      BY <3>1, <3>2 DEF Vertices, Dac
    <3>4. QED
      BY <3>1, <3>3, NearZero
  <2>7. Near(d, 0)' /\ \A x \in E[d] : ~Near(x, 0)'
    BY <1>1, <2>5, <2>6, NearKept
  <2>8. pivot' = d /\ Len(path') = 0
    BY <1>1, <2>3
  <2>9. Near(pivot, Len(path))' /\ \A x \in E[d] : ~Near(x, Len(path))'
    BY <2>7, <2>8 DEF Near, Walk, Dac, Inputs, Successors, Vertices
  <2>10. QED
    BY <2>2, <2>8, <2>9 DEF TraceOrdered
<1>5. QED
  BY <1>1, <1>3, <1>4 DEF TraceKnown

(* The heart of it: w was met from v, and nothing that was met before w is *)
(* within k connections of a DAC, as w is.  Then w is v's First, and v is  *)
(* in its turn nearer than all that was met before v.                      *)
LEMMA MetFromFirst ==
  ASSUME TypeOK, NEW E \in [Nodes -> SUBSET Nodes], NEW w \in Nodes, NEW v \in Nodes \cap Vertices,
         w \in Inputs(v), MetFrom(E, w, v),
         NEW k \in Nat, Near(w, k), \A x \in E[w] : ~Near(x, k)
  PROVE  <<v, w>> \in Firsts /\ Near(v, k + 1) /\ \A x \in E[v] : ~Near(x, k + 1)
<1>1. Near(v, k + 1)
  BY NearUp
<1>2. Inputs(v) \subseteq Nodes /\ Successors(v) \in Seq(Nodes)
  BY SuccessorsAre
<1>3. ASSUME NEW u \in Inputs(v), NEW j \in Nat, Near(u, j) PROVE k <= j
  <2>1. SUFFICES ASSUME j + 1 <= k PROVE FALSE
    OBVIOUS
  <2>2. Near(v, j + 1)
    BY <1>3, NearUp
  <2>3. j + 1 \in Nat
    OBVIOUS
  <2>4. Near(v, k)
    BY <2>1, <2>2, <2>3, NearMore
  <2>5. QED
    BY <2>4 DEF MetFrom
<1>4. PICK s \in DOMAIN Successors(v) :
        Successors(v)[s] = w /\ \A i \in 1..s-1 : Successors(v)[i] \in E[w]
  BY DEF MetFrom
<1>5. FirstAt(v, w, k, s)
  BY <1>3, <1>4 DEF FirstAt
<1>6. ASSUME NEW x \in E[v], Near(x, k + 1) PROVE FALSE
  <2>1. x \in Nodes /\ x \in E[w]
    BY DEF MetFrom
  <2>2. CASE Dac(x)
    <3>1. Near(x, 0)
      BY <2>1, <2>2, NearZero
    <3>2. Near(x, k)
      BY <3>1, NearMore
    <3>3. QED
      BY <2>1, <3>2
  <2>3. CASE ~Dac(x)
    <3>1. x \in Vertices /\ \E y \in Inputs(x) : Near(y, k)
      BY <1>6, <2>1, <2>3, NearDown
    <3>2. PICK y \in Inputs(x) : Near(y, k)
      BY <3>1
    <3>3. y \in E[w]
      BY <1>6, <3>1 DEF MetFrom
    <3>4. QED
      BY <3>2, <3>3
  <2>4. QED
    BY <2>2, <2>3
<1>7. QED
  BY <1>1, <1>5, <1>6 DEF First, Firsts

LEMMA FirstAppend ==
  ASSUME NEW p \in Seq(Nodes), NEW n \in Nodes, IsFirst(p), p # <<>> => <<n, p[Len(p)]>> \in Firsts
  PROVE  IsFirst(Append(p, n))
<1> PICK r : r = Append(p, n)
  OBVIOUS
<1>1. r \in Seq(Nodes) /\ Len(r) = Len(p) + 1 /\ Len(p) \in Nat /\ r[Len(p) + 1] = n
      /\ \A i \in 1..Len(p) : r[i] = p[i]
  OBVIOUS
<1>2. ASSUME NEW i \in 1..Len(r)-1 PROVE <<r[i + 1], r[i]>> \in Firsts
  <2>1. CASE i = Len(p)
    <3>1. Len(p) \in 1..Len(p) /\ p # <<>>
      BY <1>1, <1>2, <2>1
    <3>2. r[i + 1] = n /\ r[i] = p[Len(p)]
      BY <1>1, <2>1, <3>1
    <3>3. QED
      BY <3>1, <3>2
  <2>2. CASE i # Len(p)
    <3>1. i \in 1..Len(p)-1 /\ i + 1 \in 1..Len(p) /\ i \in 1..Len(p)
      BY <1>1, <1>2, <2>2
    <3>2. <<p[i + 1], p[i]>> \in Firsts
      BY <3>1 DEF IsFirst
    <3>3. QED
      BY <1>1, <3>1, <3>2
  <2>3. QED
    BY <2>1, <2>2
<1>3. QED
  BY <1>2 DEF IsFirst

LEMMA IsFirstKept == ASSUME UNCHANGED codec, NEW p, IsFirst(p) PROVE IsFirst(p)'
BY NearKept DEF IsFirst

LEMMA TraceTrace ==
  ASSUME IInv, TraceKnown, Trace
  PROVE  TraceKnown'
<1>1. pc = "trace" /\ pc' = "trace" /\ UNCHANGED <<codec, pin, parent>>
      /\ Known(pivot) /\ path' = Append(path, pivot) /\ pivot' = parent[pivot]
  BY DEF Trace, callVars
<1>2. TypeOK /\ SearchInStep
  BY <1>1 DEF IInv, Searching
<1>3. SUFFICES ASSUME ~Known(pin)
               PROVE  /\ \E E \in [Nodes -> SUBSET Nodes] : TraceOrdered(E)'
                      /\ IsFirst(path)' /\ <<pivot', path'[Len(path')]>> \in Firsts'
  BY <1>1 DEF TraceKnown, Known
<1>4. PICK E \in [Nodes -> SUBSET Nodes] : TraceOrdered(E)
  BY <1>1, <1>3 DEF TraceKnown
<1>5. PICK w, v, r : w = pivot /\ v = parent[w] /\ r = Append(path, w)
  OBVIOUS
<1>6. path \in Seq(Nodes) /\ w \in Met \ {pin} /\ w \in Nodes
  BY <1>1, <1>2, <1>3, <1>5, TracedOn DEF TypeOK, Known
<1>7. v \in Nodes \cap Vertices /\ w \in Inputs(v)
  BY <1>1, <1>2, <1>5, <1>6 DEF SearchInStep, ParentsAreEdges, Vertices
<1>8. MetFrom(E, w, v) /\ Near(w, Len(path)) /\ \A x \in E[w] : ~Near(x, Len(path))
  BY <1>4, <1>5, <1>6 DEF TraceOrdered, Ordered
<1>9. Len(path) \in Nat /\ Len(r) = Len(path) + 1 /\ r[Len(r)] = w
  BY <1>5, <1>6
<1>10. <<v, w>> \in Firsts /\ Near(v, Len(r)) /\ \A x \in E[v] : ~Near(x, Len(r))
  BY <1>2, <1>7, <1>8, <1>9, MetFromFirst, <1>6
<1>11. IsFirst(r)
  <2>1. IsFirst(path) /\ (path # <<>> => <<w, path[Len(path)]>> \in Firsts)
    BY <1>1, <1>3, <1>5 DEF TraceKnown
  <2>2. QED
    BY <1>5, <1>6, <2>1, FirstAppend
<1>12. path' = r /\ pivot' = v
  BY <1>1, <1>5
<1>13. IsFirst(r)' /\ <<v, w>> \in Firsts'
  BY <1>1, <1>10, <1>11, NearKept, IsFirstKept
<1>14. IsFirst(path)' /\ <<pivot', path'[Len(path')]>> \in Firsts'
  BY <1>9, <1>12, <1>13 DEF IsFirst
<1>15. TraceOrdered(E)'
  <2>1. Ordered(E)'
    BY <1>1, <1>4, OrderedKept DEF TraceOrdered
  <2>2. Near(v, Len(r))' /\ \A x \in E[v] : ~Near(x, Len(r))'
    BY <1>1, <1>10, NearKept
  <2>3. Near(pivot, Len(path))' /\ \A x \in E[v] : ~Near(x, Len(path))'
    BY <1>12, <2>2 DEF Near, Walk, Inputs, Successors, Dac, Vertices
  <2>4. QED
    BY <1>12, <2>1, <2>3 DEF TraceOrdered
<1>16. QED
  BY <1>14, <1>15

LEMMA FoundPath ==
  ASSUME IInv, TraceKnown, Found
  PROVE  PathKnown'
<1>1. pc = "trace" /\ UNCHANGED codec /\ ~Known(pivot) /\ path' = Append(path, pivot)
  BY DEF Found
<1>2. TypeOK /\ pivot \in Met /\ pivot \in Nodes
  BY <1>1, TracedOn DEF IInv
<1>3. ~Known(pin)
  BY <1>1, <1>2 DEF Met
<1>4. IsFirst(path) /\ (path # <<>> => <<pivot, path[Len(path)]>> \in Firsts)
  BY <1>1, <1>3 DEF TraceKnown
<1>5. PICK r : r = Append(path, pivot)
  OBVIOUS
<1>6. path \in Seq(Nodes)
  BY <1>2 DEF TypeOK
<1>7. IsFirst(r)
  BY <1>2, <1>4, <1>5, <1>6, FirstAppend
<1>8. IsFirst(r)' /\ path' = r
  BY <1>1, <1>5, <1>7, IsFirstKept
<1>9. IsFirst(path)'
  BY <1>8 DEF IsFirst
<1>10. QED
  BY <1>9 DEF PathKnown
-----------------------------------------------------------------------------
(***************************************************************************)
(* Configuring.                                                            *)
(***************************************************************************)
LEMMA FirstIndexLeast ==
  ASSUME NEW S, NEW list \in Seq(S), NEW n, \E i \in DOMAIN list : list[i] = n
  PROVE  FirstIndex(list, n) \in 1..Len(list) /\ list[FirstIndex(list, n)] = n
<1>1. FirstIndex(list, n) \in DOMAIN list /\ list[FirstIndex(list, n)] = n
  BY FirstIndexIs
<1>2. QED
  BY <1>1

(* Where a node of the path takes its input from: its First, which is an   *)
(* entry of its list.                                                      *)
LEMMA TowardsIsFirst ==
  ASSUME IInv, PathKnown, pc = "config", NEW n \in On(path) \ {path[1]}
  PROVE  /\ n \in Nodes /\ <<n, Towards(n)>> \in Firsts /\ ~Dac(n) /\ Towards(n) \in On(path)
         /\ Index(n, Towards(n)) + 1 \in DOMAIN Successors(n)
         /\ Successors(n)[Index(n, Towards(n)) + 1] = Towards(n)
<1>1. path \in Seq(Nodes) /\ TypeOK /\ IsFirst(path)
  BY DEF IInv, TypeOK, PathKnown
<1>2. \E j \in DOMAIN path : path[j] = n
  BY DEF On
<1>3. PICK i : i = FirstIndex(path, n)
  OBVIOUS
<1>4. i \in 1..Len(path) /\ path[i] = n /\ i # 1
  BY <1>1, <1>2, <1>3, FirstIndexLeast
<1>5. i - 1 \in 1..Len(path)-1 /\ (i - 1) + 1 = i
  BY <1>1, <1>4
<1>6. <<path[(i - 1) + 1], path[i - 1]>> \in Firsts
  BY <1>1, <1>5 DEF IsFirst
<1>7. PICK w : w = Towards(n)
  OBVIOUS
<1>8. w = path[i - 1]
  BY <1>3, <1>7 DEF Towards
<1>9. <<n, w>> \in Firsts /\ n \in Nodes /\ w \in On(path)
  BY <1>1, <1>4, <1>5, <1>6, <1>8 DEF Firsts, Vertices, On
<1>10. w \in Inputs(n)
  BY <1>9 DEF Firsts, First, FirstAt, Inputs
<1>11. Successors(n) \in Seq(Nodes)
  BY <1>1, <1>9, SuccessorsAre
<1>12. ~Dac(n)
  BY <1>10 DEF Inputs, Successors
<1>13. PICK f : f = FirstIndex(Successors(n), w)
  OBVIOUS
<1>14. f \in 1..Len(Successors(n)) /\ Successors(n)[f] = w
  <2>1. \E j \in DOMAIN Successors(n) : Successors(n)[j] = w
    BY <1>10 DEF Inputs
  <2>2. QED
    BY <1>11, <1>13, <2>1, FirstIndexLeast
<1>15. Index(n, w) + 1 = f /\ f \in DOMAIN Successors(n)
  <2>1. f \in Nat /\ f \in DOMAIN Successors(n)
    BY <1>11, <1>14
  <2>2. Index(n, w) = f - 1
    BY <1>13 DEF Index
  <2>3. QED
    BY <2>1, <2>2
<1>16. QED
  BY <1>7, <1>9, <1>12, <1>14, <1>15

LEMMA SourceKept ==
  ASSUME UNCHANGED codec, NEW n, select'[n] = select[n]
  PROVE  Source(n)' = Source(n)
<1>1. Successors(n)' = Successors(n)
  BY GraphKept
<1>2. QED
  BY <1>1 DEF Source

(* A node that is configured takes its First from then on, and no other    *)
(* node is switched.                                                       *)
LEMMA ConfigureActive ==
  ASSUME IInv, PathKnown, ActiveKnown, Configure
  PROVE  ActiveKnown'
<1>1. PICK n \in ToConfigure : Select(n) /\ active' = active \cup {n}
  BY DEF Configure
<1>2. pc = "config" /\ UNCHANGED codec /\ TypeOK /\ PathIsRoute
  BY DEF Configure, IInv
<1>3. n \in On(path) /\ n \notin active /\ n \in Nodes
  BY <1>1, <1>2 DEF ToConfigure, On, TypeOK
<1>4. ASSUME NEW m \in Nodes \ {n} PROVE select'[m] = select[m]
  BY <1>1, <1>2, <1>4 DEF Select, TypeOK
<1>5. ASSUME NEW m \in active PROVE (Dac(m) \/ <<m, Source(m)>> \in Firsts)'
  <2>1. Dac(m) \/ <<m, Source(m)>> \in Firsts
    BY <1>2 DEF ActiveKnown, Searching
  <2>2. m \in Nodes \ {n}
    BY <1>2, <1>3 DEF TypeOK
  <2>3. Source(m)' = Source(m)
    BY <1>2, <1>4, <2>2, SourceKept
  <2>4. QED
    BY <1>2, <2>1, <2>3, GraphKept, NearKept
<1>6. (Dac(n) \/ <<n, Source(n)>> \in Firsts)'
  <2>1. CASE n = path[1]
    BY <1>2, <2>1, GraphKept DEF PathIsRoute
  <2>2. CASE n # path[1]
    <3>1. PICK w, f : w = Towards(n) /\ f = Index(n, Towards(n))
      OBVIOUS
    <3>2. <<n, w>> \in Firsts /\ f + 1 \in DOMAIN Successors(n) /\ Successors(n)[f + 1] = w
      BY <1>2, <1>3, <2>2, <3>1, TowardsIsFirst
    <3>3. select'[n] = f
      BY <1>1, <1>2, <1>3, <2>2, <3>1 DEF Select, TypeOK
    <3>4. Source(n)' = w
      BY <1>2, <3>2, <3>3, GraphKept DEF Source
    <3>5. QED
      BY <1>2, <3>2, <3>4, NearKept
  <2>3. QED
    BY <2>1, <2>2
<1>7. QED
  BY <1>1, <1>5, <1>6 DEF ActiveKnown

LEMMA ActiveStep ==
  ASSUME IInv, PathKnown, ActiveKnown, [Next]_vars
  PROVE  ActiveKnown'
<1> DEFINE On1 == pc \in {"collect", "pins"} \cup Searching
           Kept == On1 /\ UNCHANGED <<codec, select, active>>
<1>1. CASE Begin
  BY <1>1 DEF Begin, ActiveKnown
<1>2. CASE Configure
  BY <1>2, ConfigureActive
<1>3. CASE NotFound \/ PopDangling \/ PopDac \/ PopNode \/ NextPin
  <2>1. Kept
    BY <1>3 DEF NotFound, PopDangling, PopDac, PopNode, NextPin, callVars, codecVars, Searching
  <2>2. QED
    BY <2>1, SourceKept, GraphKept, NearKept DEF ActiveKnown
<1>4. CASE Visit \/ Expanded \/ Trace \/ Found
  <2>1. Kept
    BY <1>4 DEF Visit, Expanded, Trace, Found, callVars, codecVars, Searching
  <2>2. QED
    BY <2>1, SourceKept, GraphKept, NearKept DEF ActiveKnown
<1>5. CASE Collect \/ Configured \/ PinsDone
  <2>1. Kept
    BY <1>5 DEF Collect, Configured, PinsDone, callVars, codecVars, Searching
  <2>2. QED
    BY <2>1, SourceKept, GraphKept, NearKept DEF ActiveKnown
<1>6. CASE CollectFails \/ ConfigureFails \/ Knobs \/ MuteRest
  BY <1>6 DEF CollectFails, ConfigureFails, Knobs, MuteRest, ActiveKnown, Searching
<1>7. CASE UNCHANGED vars
  BY <1>7, SourceKept, GraphKept, NearKept DEF vars, callVars, codecVars, ActiveKnown
<1>8. QED
  BY <1>1, <1>2, <1>3, <1>4, <1>5, <1>6, <1>7 DEF Next, Search, Setup
-----------------------------------------------------------------------------
(***************************************************************************)
(* Two pins that share a node.                                             *)
(***************************************************************************)
LEMMA SearchKnown ==
  ASSUME IInv, RInv, [Next]_vars
  PROVE  (OrderKnown /\ RestKnown /\ TraceKnown /\ PathKnown)'
<1>0. OrderKnown /\ RestKnown /\ TraceKnown /\ PathKnown
  BY DEF RInv
<1>1. CASE NextPin \/ PopDangling \/ PopNode \/ Expanded
  <2>1. OrderKnown' /\ RestKnown'
    BY <1>0, <1>1, PinOrder, PopDanglingOrder, PopNodeOrder, ExpandedOrder
  <2>2. pc' \in {"search", "expand"}
    BY <1>1 DEF NextPin, PopDangling, PopNode, Expanded
  <2>3. QED
    BY <2>1, <2>2 DEF TraceKnown, PathKnown
<1>2. CASE Visit
  <2>1. OrderKnown' /\ RestKnown'
    BY <1>0, <1>2, VisitKnownOrder, VisitNewOrder, VisitRest
  <2>2. pc' = "expand"
    BY <1>2, VisitFacts
  <2>3. QED
    BY <2>1, <2>2 DEF TraceKnown, PathKnown
<1>3. CASE PopDac \/ Trace
  <2>1. TraceKnown'
    BY <1>0, <1>3, PopDacTrace, TraceTrace
  <2>2. pc' = "trace"
    BY <1>3 DEF PopDac, Trace
  <2>3. QED
    BY <2>1, <2>2 DEF OrderKnown, RestKnown, PathKnown
<1>4. CASE Found
  <2>1. PathKnown'
    BY <1>0, <1>4, FoundPath
  <2>2. pc' = "config"
    BY <1>4 DEF Found
  <2>3. QED
    BY <2>1, <2>2 DEF OrderKnown, RestKnown, TraceKnown
<1>5. CASE Outside
  <2>1. CASE pc' \notin Searching
    BY <2>1 DEF Searching, OrderKnown, RestKnown, TraceKnown, PathKnown
  <2>2. CASE UNCHANGED <<codec, pc, pin, searchVars>>
    <3>1. UNCHANGED <<codec, pc, pin, queue, parent, pivot, rest, path>>
      BY <2>2 DEF searchVars
    <3>2. Known(pin)' = Known(pin) /\ Met' = Met /\ On(queue)' = On(queue)
      BY <3>1, MetKept DEF Known, On
    <3>3. OrderKnown'
      <4>1. ASSUME NEW E, Ordered(E), QueueOrdered(E) PROVE Ordered(E)' /\ QueueOrdered(E)'
        BY <3>1, <3>2, <4>1, OrderedKept DEF QueueOrdered
      <4>2. QED
        BY <1>0, <3>1, <3>2, <4>1 DEF OrderKnown
    <3>4. RestKnown'
      <4>1. Successors(pivot)' = Successors(pivot)
        BY <3>1 DEF Successors, Dac
      <4>2. ASSUME NEW t, RestAfter(t) PROVE RestAfter(t)'
        BY <3>1, <3>2, <4>1, <4>2 DEF RestAfter
      <4>3. QED
        BY <1>0, <3>1, <4>2 DEF RestKnown
    <3>5. IsFirst(path)' <=> IsFirst(path)
      BY <3>1, NearKept DEF IsFirst
    <3>6. TraceKnown'
      <4>1. ASSUME NEW E, TraceOrdered(E) PROVE TraceOrdered(E)'
        <5>1. Ordered(E)'
          BY <3>1, <4>1, OrderedKept DEF TraceOrdered
        <5>2. PICK v, k : v = pivot /\ k = Len(path)
          OBVIOUS
        <5>3. Near(v, k)' /\ \A x \in E[v] : ~Near(x, k)'
          BY <3>1, <4>1, <5>2, NearKept DEF TraceOrdered
        <5>4. pivot' = v /\ Len(path') = k
          BY <3>1, <5>2
        <5>5. Near(pivot, Len(path))' /\ \A x \in E[v] : ~Near(x, Len(path))'
          BY <5>3, <5>4, ZenonT(40) DEF Near, Walk, Inputs, Successors, Dac, Vertices
        <5>6. QED
          BY <5>1, <5>4, <5>5 DEF TraceOrdered
      <4>2. QED
        BY <1>0, <3>1, <3>2, <3>5, <4>1, NearKept DEF TraceKnown
    <3>7. PathKnown'
      BY <1>0, <3>1, <3>5 DEF PathKnown
    <3>8. QED
      BY <3>3, <3>4, <3>6, <3>7
  <2>3. QED
    BY <1>5, <2>1, <2>2, OutsideStep
<1>6. QED
  BY <1>1, <1>2, <1>3, <1>4, <1>5 DEF Next, Search, Outside

(* The order of the search, and with it what is selected. *)
LEMMA RoutesInv == Spec => [](IInv /\ RInv)
<1>1. Init => RInv
  BY DEF Init, RInv, OrderKnown, RestKnown, TraceKnown, PathKnown, ActiveKnown, Searching
<1>2. IInv /\ RInv /\ [Next]_vars => (IInv /\ RInv)'
  <2> SUFFICES ASSUME IInv, RInv, [Next]_vars PROVE (IInv /\ RInv)'
    OBVIOUS
  <2>1. IInv'
    BY StepKeeps
  <2>2. (OrderKnown /\ RestKnown /\ TraceKnown /\ PathKnown)'
    BY SearchKnown
  <2>3. ActiveKnown'
    BY ActiveStep DEF RInv
  <2>4. QED
    BY <2>1, <2>2, <2>3 DEF RInv
<1>3. QED
  BY InitHolds, <1>1, <1>2, PTL DEF Spec

(* A path that meets nodes of an earlier one wants from them what they     *)
(* have been switched to: both ask for their First (main.rs 1774-1776).    *)
THEOREM SelectionsAlwaysAgree == Spec => []SelectionsAgree
<1>1. IInv /\ RInv => SelectionsAgree
  <2> SUFFICES ASSUME IInv, RInv, pc = "config", NEW n \in (On(path) \cap active) \ {path[1]}
               PROVE  Source(n) = Towards(n)
    BY DEF SelectionsAgree
  <2>1. <<n, Towards(n)>> \in Firsts /\ ~Dac(n)
    BY TowardsIsFirst DEF RInv
  <2>2. <<n, Source(n)>> \in Firsts
    BY <2>1 DEF RInv, ActiveKnown, Searching
  <2>3. TypeOK
    BY DEF IInv
  <2>4. QED
    BY <2>1, <2>2, <2>3, FirstIsOne
<1>2. QED
  BY RoutesInv, <1>1, PTL
-----------------------------------------------------------------------------
(***************************************************************************)
(* The routes of a setup.                                                  *)
(***************************************************************************)
(* What the path at hand still will configure. *)
Coming == IF pc = "config" THEN On(path) ELSE {}

(* The nodes of P are not muted; the DACs among them play, and the others  *)
(* take their input from their Firsts, which are in P or coming.           *)
Plays(P) ==
  /\ routed \subseteq P
  /\ P \cap muted = {}
  /\ \A n \in P : \/ Dac(n) /\ n \in streams
                  \/ ~Dac(n) /\ <<n, Source(n)>> \in Firsts /\ Source(n) \in P \cup Coming

PlayKnown ==
  status # "error" =>
    \E P \in SUBSET Nodes :
      Plays(P) /\ (pc \in {"collect", "pins"} \cup Searching => P = active)

(* After the knobs there is nothing left to mute. *)
AllActive ==
  /\ pc = "mute" => Vertices \subseteq active
  /\ pc # "idle" => status = "none"

PInv == PlayKnown /\ AllActive

LEMMA PlaysKept ==
  ASSUME UNCHANGED <<codec, muted, streams, select, routed>>, Coming \subseteq Coming',
         NEW P, Plays(P)
  PROVE  Plays(P)'
<1>1. \A n : Source(n)' = Source(n)
  BY SourceKept
<1>2. QED
  BY <1>1, GraphKept, NearKept DEF Plays

LEMMA ConfigurePlays ==
  ASSUME IInv, RInv, PInv, Configure, ActiveKnown'
  PROVE  PlayKnown'
<1>1. PICK n \in ToConfigure : Select(n) /\ SetStream(n) /\ active' = active \cup {n}
                               /\ muted' = muted \ {n}
  BY DEF Configure
<1>2. pc = "config" /\ pc' = "config" /\ UNCHANGED <<codec, routed, status, path>>
      /\ TypeOK /\ PathIsRoute
  BY DEF Configure, IInv, searchVars
<1>3. n \in On(path) /\ n \notin active /\ n \in Nodes
  BY <1>1, <1>2 DEF ToConfigure, On, TypeOK
<1>4. Plays(active)
  BY <1>2 DEF PInv, PlayKnown, AllActive, Searching
<1>5. Coming = On(path) /\ Coming' = On(path)
  <2>1. On(path)' = On(path)
    BY <1>2 DEF On
  <2>2. QED
    BY <1>2, <2>1 DEF Coming
<1>6. ASSUME NEW m \in Nodes \ {n} PROVE select'[m] = select[m]
  BY <1>1, <1>2, <1>6 DEF Select, TypeOK
<1>7. streams \subseteq streams'
  BY <1>1 DEF SetStream
<1>8. ASSUME NEW m \in active
      PROVE  \/ Dac(m)' /\ m \in streams'
             \/ ~Dac(m)' /\ <<m, Source(m)'>> \in Firsts' /\ Source(m)' \in active' \cup Coming'
  <2>1. m \in Nodes \ {n}
    BY <1>2, <1>3 DEF TypeOK
  <2>2. Source(m)' = Source(m)
    BY <1>2, <1>6, <2>1, SourceKept
  <2>3. QED
    BY <1>1, <1>2, <1>4, <1>5, <1>7, <2>2, GraphKept, NearKept DEF Plays
<1>9. \/ Dac(n)' /\ n \in streams'
      \/ ~Dac(n)' /\ <<n, Source(n)'>> \in Firsts' /\ Source(n)' \in active' \cup Coming'
  <2>1. CASE n = path[1]
    BY <1>1, <1>2, <2>1, GraphKept DEF PathIsRoute, SetStream
  <2>2. CASE n # path[1]
    <3>1. PICK w, f : w = Towards(n) /\ f = Index(n, Towards(n))
      OBVIOUS
    <3>2. /\ w \in On(path) /\ ~Dac(n)
          /\ <<n, w>> \in Firsts /\ f + 1 \in DOMAIN Successors(n) /\ Successors(n)[f + 1] = w
      BY <1>2, <1>3, <2>2, <3>1, TowardsIsFirst DEF RInv
    <3>3. select'[n] = f
      BY <1>1, <1>2, <1>3, <2>2, <3>1 DEF Select, TypeOK
    <3>4. Source(n)' = w
      BY <1>2, <3>2, <3>3, GraphKept DEF Source
    <3>5. QED
      BY <1>2, <1>5, <3>2, <3>4, GraphKept, NearKept
  <2>3. QED
    BY <2>1, <2>2
<1>10. PICK P : P = active'
  OBVIOUS
<1>11. P \in SUBSET Nodes
  BY <1>1, <1>2, <1>3, <1>10 DEF TypeOK
<1>12. routed' \subseteq P /\ P \cap muted' = {}
  BY <1>1, <1>2, <1>4, <1>10 DEF Plays
<1>13. \A m \in P : \/ Dac(m)' /\ m \in streams'
                    \/ ~Dac(m)' /\ <<m, Source(m)'>> \in Firsts' /\ Source(m)' \in P \cup Coming'
  BY <1>1, <1>8, <1>9, <1>10
<1>14. Plays(P)'
  BY <1>12, <1>13 DEF Plays
<1>15. QED
  BY <1>10, <1>11, <1>14 DEF PlayKnown

LEMMA ConfiguredPlays ==
  ASSUME IInv, PInv, Configured
  PROVE  PlayKnown'
<1>1. /\ pc = "config" /\ pc' = "pins" /\ ToConfigure = {} /\ routed' = routed \cup {pin}
      /\ UNCHANGED <<codec, muted, streams, select, active, status>>
  BY DEF Configured, codecVars
<1>2. Plays(active)
  BY <1>1 DEF PInv, PlayKnown, AllActive, Searching
<1>3. TypeOK /\ path # <<>> /\ path[Len(path)] = pin /\ path \in Seq(Nodes)
  BY <1>1 DEF IInv, PathIsRoute, TypeOK
<1>4. pin \in On(path)
  <2>1. Len(path) \in DOMAIN path
    BY <1>3
  <2>2. QED
    BY <1>3, <2>1 DEF On
<1>5. On(path) \subseteq active /\ Coming = On(path) /\ Coming' = {}
  BY <1>1 DEF ToConfigure, Coming
<1>6. PICK P : P = active
  OBVIOUS
<1>7. \A n : Source(n)' = Source(n)
  BY <1>1, SourceKept
<1>8. Plays(P)'
  BY <1>1, <1>2, <1>4, <1>5, <1>6, <1>7, GraphKept, NearKept DEF Plays
<1>9. P \in SUBSET Nodes /\ P = active'
  BY <1>1, <1>3, <1>6 DEF TypeOK
<1>10. QED
  BY <1>8, <1>9 DEF PlayKnown

(* Begin forgets all routes; the last steps mute nothing. *)
LEMMA BeginPlays == ASSUME Begin PROVE PlayKnown'
<1>1. routed' = {} /\ active' = {}
  BY DEF Begin
<1>2. Plays({})'
  BY <1>1 DEF Plays
<1>3. QED
  BY <1>1, <1>2 DEF PlayKnown

LEMMA EndPlays ==
  ASSUME IInv, PInv, Knobs \/ MuteRest
  PROVE  PlayKnown'
<1>1. /\ UNCHANGED <<codec, muted, streams, select, routed>>
      /\ pc \in {"knobs", "mute"} /\ pc' \in {"mute", "idle"} /\ status = "none"
  <2>1. CASE Knobs
    BY <2>1 DEF Knobs, codecVars, PInv, AllActive
  <2>2. CASE MuteRest
    BY <2>2 DEF MuteRest, callVars, PInv, AllActive
  <2>3. QED
    BY <2>1, <2>2
<1>2. PICK P \in SUBSET Nodes : Plays(P)
  BY <1>1 DEF PInv, PlayKnown
<1>3. Coming \subseteq Coming'
  BY <1>1 DEF Coming
<1>4. Plays(P)'
  BY <1>1, <1>2, <1>3, PlaysKept
<1>5. QED
  BY <1>1, <1>4 DEF PlayKnown, Searching

(* The search, and what else leaves the codec and the routes alone. *)
Quiet ==
  /\ UNCHANGED <<codec, muted, streams, select, routed, active, status>>
  /\ Coming \subseteq Coming'
  /\ pc' \in {"collect", "pins"} \cup Searching => pc \in {"collect", "pins"} \cup Searching
  /\ pc' = "mute" => pc = "mute"
  /\ pc' # "idle" => pc # "idle"

LEMMA QuietSteps ==
  ASSUME NotFound \/ PopDangling \/ PopDac \/ PopNode \/ NextPin \/ Visit \/ Expanded
         \/ Trace \/ Found \/ Collect \/ PinsDone \/ UNCHANGED vars
  PROVE  Quiet
<1> USE DEF Quiet, codecVars, callVars, Searching
<1>1. CASE NotFound \/ PopDangling \/ PopDac \/ PopNode
  BY <1>1 DEF NotFound, PopDangling, PopDac, PopNode, Coming
<1>2. CASE Visit \/ Expanded \/ Trace \/ Found
  BY <1>2 DEF Visit, Expanded, Trace, Found, Coming
<1>3. CASE NextPin \/ Collect \/ PinsDone
  BY <1>3 DEF NextPin, Collect, PinsDone, Coming
<1>4. CASE UNCHANGED vars
  <2>1. UNCHANGED <<pc, path>>
    BY <1>4 DEF vars, searchVars
  <2>2. Coming' = Coming
    BY <2>1 DEF Coming, On
  <2>3. QED
    BY <1>4, <2>1, <2>2 DEF vars
<1>5. QED
  BY <1>1, <1>2, <1>3, <1>4

LEMMA PlayStep ==
  ASSUME IInv, RInv, PInv, ActiveKnown', [Next]_vars
  PROVE  PInv'
<1>1. ASSUME Quiet PROVE PInv'
  <2>1. PlayKnown'
    <3>1. SUFFICES ASSUME status # "error" PROVE PlayKnown'
      BY <1>1 DEF Quiet, PlayKnown
    <3>2. PICK P \in SUBSET Nodes :
            Plays(P) /\ (pc \in {"collect", "pins"} \cup Searching => P = active)
      BY <3>1 DEF PInv, PlayKnown
    <3>3. Plays(P)'
      BY <1>1, <3>2, PlaysKept DEF Quiet
    <3>4. QED
      BY <1>1, <3>2, <3>3 DEF Quiet, PlayKnown
  <2>2. AllActive'
    BY <1>1, GraphKept DEF Quiet, PInv, AllActive
  <2>3. QED
    BY <2>1, <2>2 DEF PInv
<1>2. CASE Begin
  <2>1. AllActive'
    BY <1>2 DEF Begin, AllActive
  <2>2. QED
    BY <1>2, <2>1, BeginPlays DEF PInv
<1>3. CASE Configure
  <2>1. AllActive'
    BY <1>3 DEF Configure, PInv, AllActive
  <2>2. QED
    BY <1>3, <2>1, ConfigurePlays DEF PInv
<1>4. CASE Configured
  <2>1. AllActive'
    BY <1>4 DEF Configured, PInv, AllActive
  <2>2. QED
    BY <1>4, <2>1, ConfiguredPlays DEF PInv
<1>5. CASE Knobs
  <2>1. AllActive'
    BY <1>5, GraphKept DEF Knobs, PInv, AllActive
  <2>2. QED
    BY <1>5, <2>1, EndPlays DEF PInv
<1>6. CASE MuteRest
  <2>1. AllActive'
    BY <1>6 DEF MuteRest, AllActive
  <2>2. QED
    BY <1>6, <2>1, EndPlays DEF PInv
<1>7. CASE CollectFails \/ ConfigureFails
  BY <1>7 DEF CollectFails, ConfigureFails, PInv, PlayKnown, AllActive
<1>8. QED
  BY <1>1, <1>2, <1>3, <1>4, <1>5, <1>6, <1>7, QuietSteps DEF Next, Search, Setup

(* The routes of the pins that are done, and of the one at hand. *)
LEMMA PlayInv == Spec => [](IInv /\ PInv)
<1>1. Init => PInv
  <2>1. ASSUME Init PROVE PlayKnown
    <3>1. Plays({})
      BY <2>1 DEF Init, Plays
    <3>2. QED
      BY <2>1, <3>1 DEF Init, PlayKnown, Searching
  <2>2. QED
    BY <2>1 DEF Init, PInv, AllActive
<1>2. (IInv /\ RInv) /\ (IInv /\ RInv)' /\ PInv /\ [Next]_vars => PInv'
  BY PlayStep DEF RInv
<1>3. IInv /\ RInv => IInv
  OBVIOUS
<1>4. QED
  BY RoutesInv, <1>1, <1>2, <1>3, PTL DEF Spec
-----------------------------------------------------------------------------
(***************************************************************************)
(* Route, which is defined by recursion, exists.                           *)
(***************************************************************************)
Goes(f, p, m) == f[0] = p /\ \A k \in 1..m : f[k] = Source(f[k - 1])

LEMMA SourceType == ASSUME TypeOK, NEW n \in Nodes PROVE Source(n) \in Nodes
<1>1. Successors(n) \in Seq(Nodes)
  BY SuccessorsAre
<1>2. QED
  BY <1>1 DEF Source

LEMMA SomeRoute ==
  ASSUME TypeOK, NEW p \in Nodes, NEW N \in Nat
  PROVE  \E f \in [0..N -> Nodes] : Goes(f, p, N)
<1> DEFINE Bad == {m \in Nat : ~\E f \in [0..m -> Nodes] : Goes(f, p, m)}
<1>1. ASSUME Bad # {} PROVE FALSE
  <2>1. PICK m \in Bad : \A j \in Bad : m <= j
    <3> HIDE DEF Bad
    <3>1. Bad \in SUBSET Nat
      BY DEF Bad
    <3>2. QED
      BY <1>1, <3>1, LeastIs
  <2>2. m # 0
    <3> DEFINE f == [i \in 0..0 |-> p]
    <3>1. f \in [0..0 -> Nodes] /\ f[0] = p
      OBVIOUS
    <3>2. Goes(f, p, 0)
      BY <3>1 DEF Goes
    <3>3. QED
      BY <3>1, <3>2
  <2>3. m \in Nat
    OBVIOUS
  <2>4. PICK n \in Nat : m = n + 1
    <3>1. m - 1 \in Nat /\ m = (m - 1) + 1
      BY <2>2, <2>3
    <3>2. QED
      BY <3>1
  <2>5. n \notin Bad
    BY <2>1, <2>4
  <2>6. PICK f \in [0..n -> Nodes] : Goes(f, p, n)
    BY <2>5
  <2> DEFINE g == [i \in 0..n+1 |-> IF i = n + 1 THEN Source(f[n]) ELSE f[i]]
  <2>7. g \in [0..n+1 -> Nodes]
    BY SourceType
  <2>8. g[n + 1] = Source(f[n]) /\ \A i \in 0..n : g[i] = f[i]
    OBVIOUS
  <2>9. Goes(g, p, n + 1)
    <3> HIDE DEF g
    <3>1. g[0] = p
      BY <2>6, <2>8 DEF Goes
    <3>2. ASSUME NEW k \in 1..n+1 PROVE g[k] = Source(g[k - 1])
      <4>1. CASE k = n + 1
        <5>1. g[k - 1] = f[n]
          BY <2>8, <4>1
        <5>2. QED
          BY <2>8, <4>1, <5>1
      <4>2. CASE k # n + 1
        <5>1. k \in 1..n /\ k - 1 \in 0..n /\ k \in 0..n
          BY <4>2
        <5>2. f[k] = Source(f[k - 1])
          BY <2>6, <5>1 DEF Goes
        <5>3. QED
          BY <2>8, <5>1, <5>2
      <4>3. QED
        BY <4>1, <4>2
    <3>3. QED
      BY <3>1, <3>2 DEF Goes
  <2>10. QED
    <3> HIDE DEF g
    <3> QED BY <2>4, <2>7, <2>9
<1>2. QED
  BY <1>1

LEMMA RouteIs ==
  ASSUME TypeOK, NEW p \in Nodes, NEW N, N = Cardinality(Nodes)
  PROVE  /\ N \in Nat
         /\ Route(p) \in [0..N -> Nodes] /\ Goes(Route(p), p, N)
<1>1. N \in Nat
  BY FS_CardinalityType, CodecAssumption
<1>2. PICK f \in [0..N -> Nodes] : Goes(f, p, N)
  BY <1>1, SomeRoute
<1> DEFINE r == CHOOSE r : r = [k \in 0..N |-> IF k = 0 THEN p ELSE Source(r[k - 1])]
<1>3. f = [k \in 0..N |-> IF k = 0 THEN p ELSE Source(f[k - 1])]
  <2>1. ASSUME NEW k \in 0..N PROVE f[k] = IF k = 0 THEN p ELSE Source(f[k - 1])
    <3>1. k # 0 => k \in 1..N
      BY <1>1
    <3>2. QED
      BY <1>2, <3>1 DEF Goes
  <2>2. QED
    BY <2>1
<1>4. r = [k \in 0..N |-> IF k = 0 THEN p ELSE Source(r[k - 1])]
  BY <1>3
<1>5. Route(p) = r
  BY DEF Route
<1>6. r[0] = p /\ DOMAIN r = 0..N /\ \A k \in 1..N : r[k] = Source(r[k - 1])
  <2> HIDE DEF r
  <2> QED BY <1>1, <1>4
<1>7. \A k \in 0..N : r[k] \in Nodes
  <2> HIDE DEF r
  <2> DEFINE Bad == {k \in 0..N : r[k] \notin Nodes}
  <2>1. ASSUME Bad # {} PROVE FALSE
    <3>1. PICK k \in Bad : \A j \in Bad : k <= j
      <4>1. Bad \in SUBSET Nat
        BY <1>1
      <4> HIDE DEF Bad
      <4>2. QED
        BY <2>1, <4>1, LeastIs
    <3>2. k # 0 /\ k \in 1..N
      BY <1>1, <1>6
    <3>3. k - 1 \in 0..N /\ k - 1 < k
      BY <1>1, <3>2
    <3>4. r[k - 1] \in Nodes
      BY <1>1, <3>1, <3>3
    <3>5. QED
      BY <1>6, <3>2, <3>4, SourceType
  <2>2. QED
    BY <2>1
<1>8. r \in [0..N -> Nodes]
  <2> HIDE DEF r
  <2>1. r = [k \in 0..N |-> r[k]]
    BY <1>4, <1>6
  <2>2. QED
    BY <1>7, <2>1
<1>9. QED
  <2> HIDE DEF r
  <2> QED BY <1>1, <1>5, <1>6, <1>8 DEF Goes
-----------------------------------------------------------------------------
(***************************************************************************)
(* A route reaches its DAC: each step brings it one connection nearer.     *)
(***************************************************************************)
Dist(n, d) == Near(n, d) /\ \A j \in Nat : Near(n, j) => d <= j

LEMMA DistIs == ASSUME NEW n, NEW k \in Nat, Near(n, k) PROVE \E d \in Nat : Dist(n, d)
<1> DEFINE I == {j \in Nat : Near(n, j)}
<1>1. PICK d \in I : \A j \in I : d <= j
  <2>1. I \in SUBSET Nat /\ k \in I
    OBVIOUS
  <2> HIDE DEF I
  <2>2. QED
    BY <2>1, LeastIs
<1>2. QED
  BY <1>1 DEF Dist

LEMMA DistZero == ASSUME NEW n \in Nodes, Dist(n, 0) PROVE Dac(n)
BY NearZero DEF Dist

LEMMA DistDac == ASSUME NEW n \in Nodes, NEW d \in Nat, Dist(n, d), Dac(n) PROVE d = 0
<1>1. Near(n, 0)
  BY NearZero
<1>2. d <= 0
  BY <1>1 DEF Dist
<1>3. QED
  BY <1>2

LEMMA FirstIsNearer ==
  ASSUME TypeOK, NEW v, NEW w, <<v, w>> \in Firsts, ~Dac(v), NEW e \in Nat, Dist(v, e + 1)
  PROVE  Dist(w, e)
<1>1. v \in Nodes \cap Vertices /\ w \in Inputs(v) /\ w \in Nodes
  BY DEF Firsts, First, FirstAt, Inputs, Vertices
<1>2. PICK k \in Nat : Near(w, k) /\ \A u \in Inputs(v), j \in Nat : Near(u, j) => k <= j
  BY DEF Firsts, First, FirstAt
<1>3. PICK y \in Inputs(v) : Near(y, e)
  <2>1. Near(v, e + 1)
    BY DEF Dist
  <2>2. QED
    BY <1>1, <2>1, NearDown
<1>4. k <= e
  BY <1>2, <1>3
<1>5. Near(w, e)
  BY <1>2, <1>4, NearMore
<1>6. ASSUME NEW j \in Nat, Near(w, j) PROVE e <= j
  <2>1. Near(v, j + 1)
    BY <1>1, <1>6, NearUp
  <2>2. j + 1 \in Nat
    OBVIOUS
  <2>3. e + 1 <= j + 1
    BY <2>1, <2>2 DEF Dist
  <2>4. QED
    BY <2>3
<1>7. QED
  BY <1>5, <1>6 DEF Dist

(* What routes are made of: the nodes of P, each from its First. *)
Settled(P) ==
  \A n \in P : \/ Dac(n) /\ Source(n) = n
               \/ ~Dac(n) /\ <<n, Source(n)>> \in Firsts /\ Source(n) \in P

LEMMA SettledNear == ASSUME NEW P, Settled(P), NEW n \in P \cap Nodes PROVE \E d \in Nat : Dist(n, d)
<1>1. CASE Dac(n)
  <2>1. Near(n, 0)
    BY <1>1, NearZero
  <2>2. QED
    BY <2>1, DistIs
<1>2. CASE ~Dac(n)
  <2>1. PICK w : w = Source(n)
    OBVIOUS
  <2>2. <<n, w>> \in Firsts
    BY <1>2, <2>1 DEF Settled
  <2>3. PICK k \in Nat : Near(w, k)
    BY <2>2 DEF Firsts, First, FirstAt
  <2>4. n \in Nodes \cap Vertices /\ w \in Inputs(n)
    BY <2>2 DEF Firsts, First, FirstAt, Inputs
  <2>5. Near(n, k + 1)
    BY <2>3, <2>4, NearUp
  <2>6. k + 1 \in Nat
    OBVIOUS
  <2>7. QED
    BY <2>5, <2>6, DistIs
<1>3. QED
  BY <1>1, <1>2

(* The first property of numbers that a route could break is broken at a   *)
(* least place.                                                            *)
LEMMA RouteStays ==
  ASSUME NEW P, Settled(P), NEW p \in P, NEW N \in Nat, NEW f, Goes(f, p, N)
  PROVE  \A k \in 0..N : f[k] \in P
<1> DEFINE Bad == {k \in 0..N : f[k] \notin P}
<1>1. ASSUME Bad # {} PROVE FALSE
  <2>1. PICK k \in Bad : \A j \in Bad : k <= j
    <3>1. Bad \in SUBSET Nat
      OBVIOUS
    <3> HIDE DEF Bad
    <3>2. QED
      BY <1>1, <3>1, LeastIs
  <2>2. k # 0 /\ k \in 1..N
    BY DEF Goes
  <2>3. k - 1 \in 0..N /\ k - 1 < k
    BY <2>2
  <2>4. f[k - 1] \in P
    BY <2>1, <2>3
  <2>5. f[k] = Source(f[k - 1])
    BY <2>2 DEF Goes
  <2>6. QED
    BY <2>4, <2>5 DEF Settled
<1>2. QED
  BY <1>1

LEMMA RouteNears ==
  ASSUME TypeOK, NEW P \in SUBSET Nodes, Settled(P), NEW p \in P, NEW N \in Nat, NEW f,
         Goes(f, p, N), NEW d \in Nat, Dist(p, d)
  PROVE  \A k \in 0..N : k <= d => Dist(f[k], d - k)
<1> DEFINE Bad == {k \in 0..N : k <= d /\ ~Dist(f[k], d - k)}
<1>1. ASSUME Bad # {} PROVE FALSE
  <2>1. PICK k \in Bad : \A j \in Bad : k <= j
    <3>1. Bad \in SUBSET Nat
      OBVIOUS
    <3> HIDE DEF Bad
    <3>2. QED
      BY <1>1, <3>1, LeastIs
  <2>2. k # 0
    BY DEF Goes
  <2>3. PICK i \in Nat : i = k - 1
    BY <2>2
  <2>4. k = i + 1 /\ i \in 0..N /\ k \in 1..N /\ i <= d
    BY <2>2, <2>3
  <2>5. ~(k <= i)
    BY <2>4
  <2>6. i \notin Bad
    BY <2>1, <2>5
  <2>7. Dist(f[i], d - i)
    BY <2>4, <2>6
  <2>8. PICK e \in Nat : e = d - k
    BY <2>1
  <2>9. d - i = e + 1 /\ e + 1 \in Nat
    BY <2>4, <2>8
  <2>10. PICK x : x = f[i]
    OBVIOUS
  <2>11. x \in P /\ Dist(x, e + 1)
    BY <2>4, <2>7, <2>9, <2>10, RouteStays
  <2>12. ~Dac(x)
    <3>1. ASSUME Dac(x) PROVE FALSE
      <4>1. e + 1 = 0
        BY <2>9, <2>11, <3>1, DistDac
      <4>2. QED
        BY <4>1
    <3>2. QED
      BY <3>1
  <2>13. <<x, Source(x)>> \in Firsts
    BY <2>11, <2>12 DEF Settled
  <2>14. f[k] = Source(x)
    <3>1. f[k] = Source(f[k - 1])
      BY <2>4 DEF Goes
    <3>2. QED
      BY <2>3, <2>10, <3>1
  <2>15. Dist(f[k], e)
    BY <2>11, <2>12, <2>13, <2>14, FirstIsNearer
  <2>16. QED
    BY <2>8, <2>15
<1>2. QED
  BY <1>1

(* There are fewer steps to take than there are nodes, as no node comes    *)
(* twice.                                                                  *)
LEMMA DistBound ==
  ASSUME TypeOK, NEW P \in SUBSET Nodes, Settled(P), NEW p \in P,
         NEW N, N = Cardinality(Nodes), NEW d \in Nat, Dist(p, d)
  PROVE  N \in Nat /\ d < N
<1>1. N \in Nat
  BY FS_CardinalityType, CodecAssumption
<1>2. ASSUME N <= d PROVE FALSE
  <2>1. PICK f \in [0..N -> Nodes] : Goes(f, p, N)
    BY <1>1, SomeRoute
  <2>2. IsFiniteSet(0..N) /\ Cardinality(0..N) = N + 1
    BY <1>1, FS_Interval
  <2>3. IsFiniteSet(Nodes) /\ Cardinality(Nodes) < Cardinality(0..N)
    BY <1>1, <2>2, CodecAssumption
  <2>4. PICK i \in 0..N, j \in 0..N : i # j /\ f[i] = f[j]
    BY <2>1, <2>2, <2>3, FS_PigeonHole, ZenonT(60)
  <2>5. i <= d /\ j <= d /\ i \in Nat /\ j \in Nat
    BY <1>1, <1>2
  <2>6. Dist(f[i], d - i) /\ Dist(f[j], d - j)
    BY <1>1, <2>1, <2>5, RouteNears
  <2>7. d - i \in Nat /\ d - j \in Nat
    BY <2>5
  <2>8. d - i <= d - j /\ d - j <= d - i
    BY <2>4, <2>6, <2>7 DEF Dist
  <2>9. QED
    BY <2>4, <2>5, <2>8
<1>3. QED
  BY <1>1, <1>2

(* At the DAC the route stays. *)
LEMMA RouteEnds ==
  ASSUME TypeOK, NEW P \in SUBSET Nodes, Settled(P), NEW p \in P,
         NEW N, N = Cardinality(Nodes), NEW f \in [0..N -> Nodes], Goes(f, p, N)
  PROVE  Dac(f[N]) /\ f[N] \in P /\ \A k \in 0..N : f[k] \in P
<1>1. PICK d \in Nat : Dist(p, d)
  BY SettledNear
<1>2. N \in Nat /\ d < N
  BY <1>1, DistBound
<1>3. \A k \in 0..N : f[k] \in P
  BY <1>2, RouteStays
<1>4. Dac(f[d])
  <2>1. d \in 0..N /\ d <= d /\ d - d = 0
    BY <1>2
  <2>2. Dist(f[d], d - d)
    BY <1>1, <1>2, <2>1, RouteNears
  <2>3. QED
    BY <2>1, <2>2, DistZero
<1> DEFINE Bad == {k \in 0..N : d <= k /\ ~Dac(f[k])}
<1>5. ASSUME Bad # {} PROVE FALSE
  <2>1. PICK k \in Bad : \A j \in Bad : k <= j
    <3>1. Bad \in SUBSET Nat
      OBVIOUS
    <3> HIDE DEF Bad
    <3>2. QED
      BY <1>5, <3>1, LeastIs
  <2>2. k # d
    BY <1>4
  <2>3. k \in 1..N /\ k - 1 \in 0..N /\ d <= k - 1 /\ ~(k <= k - 1)
    BY <1>2, <2>2
  <2>4. Dac(f[k - 1])
    BY <2>1, <2>3
  <2>5. f[k] = Source(f[k - 1])
    BY <2>3 DEF Goes
  <2>6. f[k - 1] \in P
    BY <1>3, <2>3
  <2>7. Source(f[k - 1]) = f[k - 1]
    BY <2>4, <2>6 DEF Settled
  <2>8. QED
    BY <2>4, <2>5, <2>7
<1>6. N \in 0..N /\ d <= N
  BY <1>2
<1>7. Dac(f[N])
  BY <1>5, <1>6
<1>8. QED
  BY <1>3, <1>6, <1>7

(* After a setup every routed pin plays: following the inputs selected     *)
(* from it one meets no muted node and ends at a DAC that plays the        *)
(* stream, although later pins have reused the nodes of earlier ones       *)
(* (main.rs 1757-1827).                                                    *)
THEOREM RoutesAlwaysWork == Spec => []RoutesWork
<1>1. IInv /\ PInv => RoutesWork
  <2> SUFFICES ASSUME IInv, PInv, status = "success", NEW p \in routed
               PROVE  /\ Route(p)[Cardinality(Nodes)] \in streams
                      /\ \A k \in 0..Cardinality(Nodes) : Route(p)[k] \notin muted
    BY DEF RoutesWork
  <2>1. PICK P \in SUBSET Nodes : Plays(P)
    BY DEF PInv, PlayKnown
  <2>2. pc = "idle" /\ Coming = {}
    BY DEF PInv, AllActive, Coming
  <2>3. Settled(P)
    <3>1. ASSUME NEW n \in P, Dac(n) PROVE Source(n) = n
      BY <3>1 DEF Source, Successors
    <3>2. QED
      BY <2>1, <2>2, <3>1 DEF Plays, Settled
  <2>4. p \in P /\ p \in Nodes /\ TypeOK
    BY <2>1 DEF Plays, IInv
  <2>5. PICK N, f : N = Cardinality(Nodes) /\ f = Route(p)
    OBVIOUS
  <2>6. N \in Nat /\ f \in [0..N -> Nodes] /\ Goes(f, p, N)
    BY <2>4, <2>5, RouteIs
  <2>7. Dac(f[N]) /\ f[N] \in P /\ \A k \in 0..N : f[k] \in P
    BY <2>3, <2>4, <2>5, <2>6, RouteEnds
  <2>8. f[N] \in streams /\ \A k \in 0..N : f[k] \notin muted
    BY <2>1, <2>7 DEF Plays
  <2>9. QED
    BY <2>5, <2>8
<1>2. QED
  BY PlayInv, <1>1, PTL
-----------------------------------------------------------------------------
(***************************************************************************)
(* The trace meets no node twice: its nodes have different distances.      *)
(***************************************************************************)
Distances == {e \in Nodes \X Nat : Dist(e[1], e[2])}

DistKnown ==
  pc = "trace" /\ ~Known(pin) =>
    /\ \A i \in 1..Len(path) : <<path[i], i - 1>> \in Distances
    /\ <<pivot, Len(path)>> \in Distances

LEMMA DistKept ==
  ASSUME UNCHANGED codec
  PROVE  Distances' = Distances
<1>1. \A n, k : Near(n, k)' <=> Near(n, k)
  BY NearKept
<1>2. ASSUME NEW n, NEW d PROVE Dist(n, d)' <=> Dist(n, d)
  BY <1>1 DEF Dist
<1>3. QED
  BY <1>2 DEF Distances

LEMMA DistancesAre == \A n \in Nodes, d \in Nat : <<n, d>> \in Distances <=> Dist(n, d)
  BY DEF Distances

LEMMA FirstIsFarther ==
  ASSUME TypeOK, NEW v, NEW w, <<v, w>> \in Firsts, NEW e \in Nat, Dist(w, e)
  PROVE  Dist(v, e + 1)
<1>1. v \in Nodes \cap Vertices /\ w \in Inputs(v) /\ ~Dac(v)
  BY DEF Firsts, First, FirstAt, Inputs, Vertices, Successors
<1>2. PICK k \in Nat : Near(w, k) /\ \A u \in Inputs(v), j \in Nat : Near(u, j) => k <= j
  BY DEF Firsts, First, FirstAt
<1>3. k = e
  <2>1. k <= e /\ e <= k
    BY <1>1, <1>2 DEF Dist
  <2>2. QED
    BY <2>1
<1>4. Near(v, e + 1)
  BY <1>1, <1>2, <1>3, NearUp
<1>5. ASSUME NEW j \in Nat, Near(v, j) PROVE e + 1 <= j
  <2>1. j # 0
    BY <1>1, <1>5, NearZero
  <2>2. PICK m \in Nat : j = m + 1
    BY <2>1, j - 1 \in Nat, j = (j - 1) + 1
  <2>3. PICK u \in Inputs(v) : Near(u, m)
    BY <1>1, <1>5, <2>2, NearDown
  <2>4. e <= m
    BY <1>2, <1>3, <2>3
  <2>5. QED
    BY <2>2, <2>4
<1>6. QED
  BY <1>4, <1>5 DEF Dist

LEMMA DistStep ==
  ASSUME IInv, RInv, [Next]_vars, IInv', RInv', DistKnown
  PROVE  DistKnown'
<1>1. CASE pc' # "trace"
  BY <1>1 DEF DistKnown
<1>2. CASE PopDac
  <2>1. UNCHANGED codec /\ path' = <<>> /\ pivot' \in Vertices /\ Dac(pivot')
    BY <1>2 DEF PopDac
  <2>2. PICK n : n = pivot'
    OBVIOUS
  <2>3. n \in Nodes /\ Near(n, 0)
    BY <2>1, <2>2, NearZero DEF Vertices
  <2>4. <<n, 0>> \in Distances
    BY <2>3, DistancesAre DEF Dist
  <2>5. Len(path') = 0
    BY <2>1
  <2>6. QED
    BY <2>1, <2>2, <2>4, <2>5, DistKept DEF DistKnown
<1>3. CASE Trace
  <2>1. /\ pc = "trace" /\ pc' = "trace" /\ UNCHANGED <<codec, pin, parent>>
        /\ path' = Append(path, pivot) /\ pivot' = parent[pivot]
    BY <1>3 DEF Trace, callVars
  <2>2. CASE ~Known(pin)
    <3>1. PICK w, v, m : w = pivot /\ v = pivot' /\ m = Len(path)
      OBVIOUS
    <3>2. TypeOK /\ path \in Seq(Nodes) /\ m \in Nat /\ Len(path') = m + 1 /\ path'[m + 1] = w
          /\ \A i \in 1..m : path'[i] = path[i]
      <4>1. TypeOK
        BY DEF IInv
      <4>2. path \in Seq(Nodes)
        BY <4>1 DEF TypeOK
      <4>3. m \in Nat /\ path' = Append(path, w)
        BY <2>1, <3>1, <4>2
      <4>4. Len(path') = m + 1 /\ path'[m + 1] = w
        BY <3>1, <4>2, <4>3
      <4>5. \A i \in 1..m : path'[i] = path[i]
        BY <3>1, <4>2, <4>3
      <4>6. QED
        BY <4>1, <4>2, <4>3, <4>4, <4>5
    <3>3. <<w, m>> \in Distances /\ \A i \in 1..m : <<path[i], i - 1>> \in Distances
      BY <2>1, <2>2, <3>1 DEF DistKnown
    <3>4. <<v, w>> \in Firsts
      <4>1. ~Known(pin)'
        BY <2>1, <2>2 DEF Known
      <4>2. (pc = "trace" /\ ~Known(pin) => (path # <<>> => <<pivot, path[Len(path)]>> \in Firsts))'
        BY DEF RInv, TraceKnown
      <4>3. path' # <<>> /\ pivot' = v /\ path'[Len(path')] = w
        BY <3>1, <3>2
      <4>4. Firsts' = Firsts
        BY <2>1, NearKept
      <4>5. QED
        BY <2>1, <4>1, <4>2, <4>3, <4>4
    <3>5. <<v, m + 1>> \in Distances
      <4>1. w \in Nodes /\ v \in Nodes /\ m + 1 \in Nat
        BY <3>2, <3>3, <3>4 DEF Distances, Firsts, Vertices
      <4>2. Dist(v, m + 1)
        BY <3>2, <3>3, <3>4, <4>1, DistancesAre, FirstIsFarther
      <4>3. QED
        BY <4>1, <4>2, DistancesAre
    <3>6. \A i \in 1..m+1 : <<path'[i], i - 1>> \in Distances
      <4>1. \A i \in 1..m+1 : i \in 1..m \/ i = m + 1
        BY <3>2
      <4>2. (m + 1) - 1 = m
        BY <3>2
      <4>3. QED
        BY <3>2, <3>3, <4>1, <4>2
    <3>7. QED
      BY <2>1, <3>1, <3>2, <3>5, <3>6, DistKept DEF DistKnown
  <2>3. CASE Known(pin)
    BY <2>1, <2>3 DEF DistKnown, Known
  <2>4. QED
    BY <2>2, <2>3
<1>4. CASE pc = "trace" /\ UNCHANGED <<codec, pin, parent, pivot, path>>
  BY <1>4, DistKept DEF DistKnown, Known
<1>5. CASE UNCHANGED vars
  BY <1>1, <1>4, <1>5 DEF vars, callVars, searchVars
<1>6. \/ PopDac \/ Trace \/ pc' # "trace" \/ UNCHANGED vars
  <2>1. CASE Begin \/ NextPin \/ PinsDone \/ NotFound \/ PopNode \/ Expanded \/ Found
    BY <2>1 DEF Begin, NextPin, PinsDone, NotFound, PopNode, Expanded, Found
  <2>2. CASE PopDangling \/ Visit
    BY <2>2 DEF PopDangling, Visit
  <2>3. CASE Collect \/ CollectFails \/ ConfigureFails \/ Configured \/ Knobs \/ MuteRest
    BY <2>3 DEF Collect, CollectFails, ConfigureFails, Configured, Knobs, MuteRest
  <2>4. CASE Configure
    BY <2>4 DEF Configure
  <2>5. QED
    BY <2>1, <2>2, <2>3, <2>4 DEF Next, Search, Setup
<1>7. QED
  BY <1>1, <1>2, <1>3, <1>5, <1>6

(* The nodes of the trace have different distances. *)
LEMMA DistInv == Spec => [](IInv /\ RInv /\ DistKnown)
<1>1. Init => DistKnown
  BY DEF Init, DistKnown
<1>2. (IInv /\ RInv) /\ (IInv /\ RInv)' /\ DistKnown /\ [Next]_vars => DistKnown'
  BY DistStep
<1>3. QED
  BY RoutesInv, <1>1, <1>2, PTL DEF Spec

LEMMA PivotIsNew ==
  ASSUME IInv, DistKnown, pc = "trace", ~Known(pin)
  PROVE  pivot \notin On(path)
<1>1. SUFFICES ASSUME NEW i \in 1..Len(path), path[i] = pivot PROVE FALSE
  BY DEF On, IInv, TypeOK
<1>2. Dist(pivot, i - 1) /\ Dist(pivot, Len(path))
  BY <1>1 DEF DistKnown, Distances
<1>3. i - 1 \in Nat /\ Len(path) \in Nat /\ i - 1 < Len(path)
  BY DEF IInv, TypeOK
<1>4. Len(path) <= i - 1
  BY <1>2, <1>3 DEF Dist
<1>5. QED
  BY <1>3, <1>4

(* The trace of a search that has not come back to its pin is shorter than *)
(* the list of nodes: the bound of the model only ever stops one that has. *)
TraceFits == pc = "trace" /\ ~Known(pin) => Len(path) < Cardinality(Nodes)

(* hda_find_dac's walk from the DAC back along `path` (main.rs 1687-1692)  *)
(* comes to its pin in fewer steps than there are nodes, unless the pin    *)
(* has got a parent.                                                       *)
THEOREM TracesFit == Spec => []TraceFits
<1>1. IInv /\ DistKnown => TraceFits
  <2> SUFFICES ASSUME IInv, DistKnown, pc = "trace", ~Known(pin)
               PROVE  Len(path) < Cardinality(Nodes)
    BY DEF TraceFits
  <2>1. IsFiniteSet(Nodes) /\ Cardinality(Nodes) \in Nat
    BY FS_CardinalityType, CodecAssumption
  <2>2. path \in Seq(Nodes) /\ Len(path) \in Nat /\ pivot \in Nodes
    BY TracedOn DEF IInv, TypeOK
  <2> DEFINE f == [i \in 0..Len(path) |-> IF i = Len(path) THEN pivot ELSE path[i + 1]]
  <2>3. f \in [0..Len(path) -> Nodes]
    <3>1. \A i \in 0..Len(path) : i # Len(path) => path[i + 1] \in Nodes
      BY <2>2
    <3>2. QED
      BY <2>2, <3>1
  <2>4. \A i \in 0..Len(path) : Dist(f[i], i)
    <3> SUFFICES ASSUME NEW i \in 0..Len(path) PROVE Dist(f[i], i)
      OBVIOUS
    <3>1. CASE i = Len(path)
      BY <3>1, <2>2 DEF DistKnown, Distances
    <3>2. CASE i # Len(path)
      <4>1. i + 1 \in 1..Len(path) /\ (i + 1) - 1 = i
        BY <2>2, <3>2
      <4>2. Dist(path[i + 1], i)
        BY <4>1 DEF DistKnown, Distances
      <4>3. QED
        BY <3>2, <4>2
    <3>3. QED
      BY <3>1, <3>2
  <2>5. IsFiniteSet(0..Len(path)) /\ Cardinality(0..Len(path)) = Len(path) + 1
    BY <2>2, FS_Interval
  <2>6. ASSUME Cardinality(Nodes) <= Len(path) PROVE FALSE
    <3> HIDE DEF f
    <3>1. Cardinality(Nodes) < Cardinality(0..Len(path))
      BY <2>1, <2>2, <2>5, <2>6
    <3>2. PICK i \in 0..Len(path), j \in 0..Len(path) : i # j /\ f[i] = f[j]
      BY <2>1, <2>3, <2>5, <3>1, FS_PigeonHole
    <3>3. Dist(f[i], i) /\ Dist(f[j], j) /\ i \in Nat /\ j \in Nat
      BY <2>2, <2>4
    <3>4. i <= j /\ j <= i
      BY <3>2, <3>3 DEF Dist
    <3>5. QED
      BY <3>2, <3>3, <3>4
  <2>7. QED
    BY <2>1, <2>2, <2>6
<1>2. QED
  BY DistInv, <1>1, PTL
-----------------------------------------------------------------------------
(***************************************************************************)
(* Only a pin on a cycle of the graph gets a parent.                       *)
(***************************************************************************)
(* The sets of nodes that have the pin's inputs and those of their own.    *)
FromPin ==
  {S \in SUBSET Nodes : Inputs(pin) \subseteq S /\ \A n \in S \cap Vertices : Inputs(n) \subseteq S}

MetFromPin == pc \in Searching => \A S \in FromPin : \A n \in Nodes : Known(n) => n \in S

LEMMA FromPinKept == ASSUME UNCHANGED <<codec, pin>> PROVE FromPin' = FromPin
  BY GraphKept DEF FromPin

LEMMA MetFromPinStep ==
  ASSUME IInv, [Next]_vars, MetFromPin
  PROVE  MetFromPin'
<1>1. CASE pc' \notin Searching
  BY <1>1 DEF MetFromPin
<1>2. CASE NextPin
  <2>1. parent' = [n \in Nodes |-> NoNode]
    BY <1>2 DEF NextPin
  <2>2. QED
    BY <2>1 DEF MetFromPin, Known
<1>3. CASE Visit
  <2>1. /\ SearchInStep /\ pc = "expand" /\ UNCHANGED <<codec, pin>>
        /\ rest # <<>> /\ rest \in Seq(Nodes) /\ Head(rest) \in Nodes
        /\ pivot \in Nodes \cap Vertices \cap Met
    BY <1>3, VisitFacts
  <2>2. Head(rest) \in Inputs(pivot)
    BY <2>1, HeadAndTail DEF SearchInStep, PivotInStep
  <2>3. \A n \in Nodes : Known(n)' => Known(n) \/ n = Head(rest)
    BY <1>3, <2>1 DEF Visit, Known, IInv, TypeOK
  <2>4. ASSUME NEW S \in FromPin, NEW n \in Nodes, Known(n)' PROVE n \in S
    <3>1. CASE Known(n)
      BY <2>1, <2>4, <3>1 DEF MetFromPin, Searching
    <3>2. CASE n = Head(rest)
      <4>1. pivot = pin \/ pivot \in S
        BY <2>1, <2>4 DEF Met, MetFromPin, Searching
      <4>2. Inputs(pivot) \subseteq S
        BY <2>1, <2>4, <4>1 DEF FromPin
      <4>3. QED
        BY <2>2, <3>2, <4>2
    <3>3. QED
      BY <2>3, <2>4, <3>1, <3>2
  <2>5. QED
    BY <2>1, <2>4, FromPinKept DEF MetFromPin
<1>4. CASE pc \in Searching /\ UNCHANGED <<codec, pin, parent>>
  BY <1>4, FromPinKept DEF MetFromPin, Known
<1>5. \/ pc' \notin Searching \/ NextPin \/ Visit
      \/ pc \in Searching /\ UNCHANGED <<codec, pin, parent>>
  <2>1. CASE PopDangling \/ PopDac \/ PopNode
    BY <2>1 DEF PopDangling, PopDac, PopNode, Searching, callVars
  <2>2. CASE Expanded \/ Trace \/ Found
    BY <2>2 DEF Expanded, Trace, Found, Searching, callVars, searchVars
  <2>3. CASE Outside
    <3>1. pc' \notin Searching \/ UNCHANGED <<codec, pc, pin, searchVars>>
      BY <2>3, OutsideStep
    <3>2. QED
      BY <3>1 DEF searchVars
  <2>4. QED
    BY <2>1, <2>2, <2>3 DEF Next, Search, Outside
<1>6. QED
  BY <1>1, <1>2, <1>3, <1>4, <1>5

(* A search that does not end has come back to its pin: the pin is among   *)
(* whatever has the pin's inputs, their inputs, and so on.                 *)
EndlessOnCycle == Endless => \A S \in FromPin : pin \in S

(* hda_find_dac (main.rs 1667-1695) can hang only on a codec whose         *)
(* connections lead from a pin back to it.                                 *)
THEOREM EndlessNeedsCycle == Spec => []EndlessOnCycle
<1>1. Init => MetFromPin
  BY DEF Init, MetFromPin, Searching
<1>2. IInv /\ MetFromPin /\ [Next]_vars => MetFromPin'
  BY MetFromPinStep
<1>3. IInv /\ MetFromPin => EndlessOnCycle
  <2> SUFFICES ASSUME IInv, MetFromPin, Endless, NEW S \in FromPin PROVE pin \in S
    BY DEF EndlessOnCycle
  <2>1. pc \in Searching /\ Known(pin)
    BY DEF Endless, Searching
  <2>2. pin \in Nodes
    BY <2>1 DEF IInv, SearchInStep
  <2>3. QED
    BY <2>1, <2>2 DEF MetFromPin
<1>4. QED
  BY InvAlways, <1>1, <1>2, <1>3, PTL DEF Spec
-----------------------------------------------------------------------------
(***************************************************************************)
(* A setup comes to its end: what lies ahead of it shrinks at every step,  *)
(* in an order in which nothing can go on shrinking.                       *)
(***************************************************************************)
NatOrder   == OpToRel(<, Nat)
NodesOrder == StrictSubsetOrdering(Nodes)

Turns     == Nat \X Nat
TurnOrder == LexPairOrdering(NatOrder, NatOrder, Nat, Nat)

Searches    == (SUBSET Nodes) \X Turns
SearchOrder == LexPairOrdering(NodesOrder, TurnOrder, SUBSET Nodes, Turns)

Works     == Nat \X Searches
WorkOrder == LexPairOrdering(NatOrder, SearchOrder, Nat, Searches)

Passes    == (SUBSET Nodes) \X Works
PassOrder == LexPairOrdering(NodesOrder, WorkOrder, SUBSET Nodes, Works)

Calls     == Nat \X Passes
CallOrder == LexPairOrdering(NatOrder, PassOrder, Nat, Passes)

(* The stages of the call, the two passes over the pins among them.  In a  *)
(* pass there are pins ahead, for each of them the stages of hda_find_dac  *)
(* and of what is done with its path, in each of those the nodes that were *)
(* not met, traced or configured, and in between what the queue holds.     *)
StagesAhead ==
  CASE pc = "idle"  -> 0
    [] pc = "mute"  -> 1
    [] pc = "knobs" -> 2
    [] pc \in {"pins"} \cup Searching -> IF headphones THEN 4 ELSE 3
    [] OTHER -> 5

WorkAhead ==
  CASE pc \in {"search", "expand"} -> 3
    [] pc = "trace"  -> 2
    [] pc = "config" -> 1
    [] OTHER -> 0

NodesAhead ==
  CASE pc \in {"search", "expand"} -> {n \in Nodes : ~Known(n)}
    [] pc = "trace"  -> Nodes \ On(path)
    [] pc = "config" -> ToConfigure
    [] OTHER -> {}

Queued == 2 * Len(queue) + (IF pc = "expand" THEN 1 ELSE 0)

SearchAhead == <<NodesAhead, <<Queued, Len(rest)>>>>
Ahead       == <<StagesAhead, <<PinsLeft, <<WorkAhead, SearchAhead>>>>>>

(* The order in which codec_setup_stream gets on with a call is well-      *)
(* founded: there is no endless sequence of states each of which has less  *)
(* ahead of it than the one before.                                        *)
THEOREM CallOrderIsWellFounded == IsWellFoundedOn(CallOrder, Calls)
<1>1. IsWellFoundedOn(NatOrder, Nat)
  BY NatLessThanWellFounded DEF NatOrder
<1>2. IsWellFoundedOn(NodesOrder, SUBSET Nodes)
  <2>1. FiniteSubsetsOf(Nodes) = SUBSET Nodes
    BY CodecAssumption, FS_FiniteSubsetsOfFinite
  <2>2. IsWellFoundedOn(NodesOrder, FiniteSubsetsOf(Nodes))
    BY FS_StrictSubsetOrderingWellFounded DEF NodesOrder
  <2>3. QED
    BY <2>1, <2>2
<1>3. IsWellFoundedOn(TurnOrder, Turns)
  BY <1>1, WFLexPairOrdering DEF TurnOrder, Turns
<1>4. IsWellFoundedOn(SearchOrder, Searches)
  BY <1>2, <1>3, WFLexPairOrdering DEF SearchOrder, Searches
<1>5. IsWellFoundedOn(WorkOrder, Works)
  BY <1>1, <1>4, WFLexPairOrdering DEF WorkOrder, Works
<1>6. IsWellFoundedOn(PassOrder, Passes)
  BY <1>2, <1>5, WFLexPairOrdering DEF PassOrder, Passes
<1>7. QED
  BY <1>1, <1>6, WFLexPairOrdering DEF CallOrder, Calls

LEMMA LexPairIs ==
  ASSUME NEW R1, NEW R2, NEW S1, NEW S2,
         NEW a \in S1, NEW b \in S2, NEW c \in S1, NEW d \in S2,
         <<a, c>> \in R1 \/ (a = c /\ <<b, d>> \in R2)
  PROVE  <<<<a, b>>, <<c, d>>>> \in LexPairOrdering(R1, R2, S1, S2)
<1>1. <<<<a, b>>, <<c, d>>>> \in (S1 \X S2) \X (S1 \X S2)
  OBVIOUS
<1>2. QED
  BY <1>1 DEF LexPairOrdering

LEMMA NatOrderIs == ASSUME NEW a \in Nat, NEW b \in Nat, a < b PROVE <<a, b>> \in NatOrder
  BY DEF NatOrder, OpToRel

LEMMA NodesOrderIs ==
  ASSUME NEW A \in SUBSET Nodes, NEW B \in SUBSET Nodes, A \subseteq B, A # B
  PROVE  <<A, B>> \in NodesOrder
  BY DEF NodesOrder, StrictSubsetOrdering

(* What it takes for one call to lie below another. *)
Below(s, t, A, B, v, w, M, N, i, j, k, l) ==
  \/ s < t
  \/ s = t /\ A \subseteq B /\ A # B
  \/ s = t /\ A = B /\ v < w
  \/ s = t /\ A = B /\ v = w /\ M \subseteq N /\ M # N
  \/ s = t /\ A = B /\ v = w /\ M = N /\ i < j
  \/ s = t /\ A = B /\ v = w /\ M = N /\ i = j /\ k < l

LEMMA CallOrderIs ==
  ASSUME NEW s \in Nat, NEW t \in Nat, NEW A \in SUBSET Nodes, NEW B \in SUBSET Nodes,
         NEW v \in Nat, NEW w \in Nat, NEW M \in SUBSET Nodes, NEW N \in SUBSET Nodes,
         NEW i \in Nat, NEW j \in Nat, NEW k \in Nat, NEW l \in Nat,
         Below(s, t, A, B, v, w, M, N, i, j, k, l)
  PROVE  <<<<s, <<A, <<v, <<M, <<i, k>>>>>>>>>>, <<t, <<B, <<w, <<N, <<j, l>>>>>>>>>>>> \in CallOrder
<1> DEFINE T1 == <<i, k>>  T2 == <<j, l>>
           S1 == <<M, T1>> S2 == <<N, T2>>
           W1 == <<v, S1>> W2 == <<w, S2>>
           P1 == <<A, W1>> P2 == <<B, W2>>
<1>1. T1 \in Turns /\ T2 \in Turns
  BY DEF Turns
<1>2. S1 \in Searches /\ S2 \in Searches
  BY <1>1 DEF Searches
<1>3. W1 \in Works /\ W2 \in Works
  <2> HIDE DEF S1, S2
  <2> QED BY <1>2 DEF Works
<1>4. P1 \in Passes /\ P2 \in Passes
  <2> HIDE DEF W1, W2
  <2> QED BY <1>3 DEF Passes
<1>5. i < j \/ (i = j /\ k < l) => <<T1, T2>> \in TurnOrder
  <2> SUFFICES ASSUME i < j \/ (i = j /\ k < l) PROVE <<T1, T2>> \in TurnOrder
    OBVIOUS
  <2>1. <<i, j>> \in NatOrder \/ (i = j /\ <<k, l>> \in NatOrder)
    BY NatOrderIs
  <2>2. QED
    BY <2>1, LexPairIs DEF TurnOrder
<1>6. (M \subseteq N /\ M # N) \/ (M = N /\ <<T1, T2>> \in TurnOrder) => <<S1, S2>> \in SearchOrder
  <2> SUFFICES ASSUME (M \subseteq N /\ M # N) \/ (M = N /\ <<T1, T2>> \in TurnOrder)
               PROVE <<S1, S2>> \in SearchOrder
    OBVIOUS
  <2> HIDE DEF T1, T2
  <2>1. <<M, N>> \in NodesOrder \/ (M = N /\ <<T1, T2>> \in TurnOrder)
    BY NodesOrderIs
  <2>2. QED
    BY <1>1, <2>1, LexPairIs DEF SearchOrder
<1>7. v < w \/ (v = w /\ <<S1, S2>> \in SearchOrder) => <<W1, W2>> \in WorkOrder
  <2> SUFFICES ASSUME v < w \/ (v = w /\ <<S1, S2>> \in SearchOrder) PROVE <<W1, W2>> \in WorkOrder
    OBVIOUS
  <2> HIDE DEF S1, S2
  <2>1. <<v, w>> \in NatOrder \/ (v = w /\ <<S1, S2>> \in SearchOrder)
    BY NatOrderIs
  <2>2. QED
    BY <1>2, <2>1, LexPairIs DEF WorkOrder
<1>8. (A \subseteq B /\ A # B) \/ (A = B /\ <<W1, W2>> \in WorkOrder) => <<P1, P2>> \in PassOrder
  <2> SUFFICES ASSUME (A \subseteq B /\ A # B) \/ (A = B /\ <<W1, W2>> \in WorkOrder)
               PROVE <<P1, P2>> \in PassOrder
    OBVIOUS
  <2> HIDE DEF W1, W2
  <2>1. <<A, B>> \in NodesOrder \/ (A = B /\ <<W1, W2>> \in WorkOrder)
    BY NodesOrderIs
  <2>2. QED
    BY <1>3, <2>1, LexPairIs DEF PassOrder
<1>9. s < t \/ (s = t /\ <<P1, P2>> \in PassOrder)
  <2> HIDE DEF T1, T2, S1, S2, W1, W2, P1, P2
  <2> QED BY <1>5, <1>6, <1>7, <1>8 DEF Below
<1>10. <<s, t>> \in NatOrder \/ (s = t /\ <<P1, P2>> \in PassOrder)
  <2> HIDE DEF P1, P2
  <2> QED BY <1>9, NatOrderIs
<1>11. <<<<s, P1>>, <<t, P2>>>> \in CallOrder
  <2> HIDE DEF P1, P2
  <2> QED BY <1>4, <1>10, LexPairIs DEF CallOrder
<1>12. QED
  BY <1>11

AheadTyped ==
  /\ StagesAhead \in Nat /\ PinsLeft \in SUBSET Nodes /\ WorkAhead \in Nat
  /\ NodesAhead \in SUBSET Nodes /\ Queued \in Nat /\ Len(rest) \in Nat

LEMMA AheadType == IInv => AheadTyped
<1> SUFFICES ASSUME IInv PROVE AheadTyped
  OBVIOUS
<1>1. queue \in Seq(Nodes) /\ rest \in Seq(Nodes) /\ path \in Seq(Nodes)
  BY DEF IInv, TypeOK
<1>2. StagesAhead \in {0, 1, 2, 3, 4, 5} /\ WorkAhead \in {0, 1, 2, 3}
  BY DEF StagesAhead, WorkAhead
<1>3. Queued \in Nat /\ Len(rest) \in Nat
  BY <1>1 DEF Queued
<1>4. NodesAhead \subseteq Nodes
  <2>1. On(path) \subseteq Nodes
    BY <1>1 DEF On
  <2>2. QED
    BY <2>1 DEF NodesAhead, ToConfigure
<1>5. PinsLeft \subseteq Nodes
  BY DEF PinsLeft, Pins
<1>6. QED
  BY <1>2, <1>3, <1>4, <1>5 DEF AheadTyped

Shrinks ==
  \/ StagesAhead' < StagesAhead
  \/ /\ UNCHANGED StagesAhead
     /\ PinsLeft' \subseteq PinsLeft /\ PinsLeft' # PinsLeft
  \/ /\ UNCHANGED <<StagesAhead, PinsLeft>>
     /\ WorkAhead' < WorkAhead
  \/ /\ UNCHANGED <<StagesAhead, PinsLeft, WorkAhead>>
     /\ NodesAhead' \subseteq NodesAhead /\ NodesAhead' # NodesAhead
  \/ /\ UNCHANGED <<StagesAhead, PinsLeft, WorkAhead, NodesAhead>>
     /\ Queued' < Queued
  \/ /\ UNCHANGED <<StagesAhead, PinsLeft, WorkAhead, NodesAhead, Queued>>
     /\ Len(rest') < Len(rest)

LEMMA ShrinkingIsBelow ==
  ASSUME IInv, IInv', Shrinks
  PROVE  <<Ahead', Ahead>> \in CallOrder
<1>1. AheadTyped /\ AheadTyped'
  BY AheadType, PTL
<1>2. PICK s \in Nat, A \in SUBSET Nodes, v \in Nat, M \in SUBSET Nodes, i \in Nat, k \in Nat :
        /\ s = StagesAhead' /\ A = PinsLeft' /\ v = WorkAhead'
        /\ M = NodesAhead' /\ i = Queued' /\ k = Len(rest')
  BY <1>1 DEF AheadTyped
<1>3. PICK t \in Nat, B \in SUBSET Nodes, w \in Nat, N \in SUBSET Nodes, j \in Nat, l \in Nat :
        /\ t = StagesAhead /\ B = PinsLeft /\ w = WorkAhead
        /\ N = NodesAhead /\ j = Queued /\ l = Len(rest)
  BY <1>1 DEF AheadTyped
<1>5. Below(s, t, A, B, v, w, M, N, i, j, k, l)
  BY <1>2, <1>3 DEF Shrinks, Below
<1>6. <<<<s, <<A, <<v, <<M, <<i, k>>>>>>>>>>, <<t, <<B, <<w, <<N, <<j, l>>>>>>>>>>>> \in CallOrder
  BY <1>5, CallOrderIs
<1>7. /\ Ahead' = <<s, <<A, <<v, <<M, <<i, k>>>>>>>>>>
      /\ Ahead = <<t, <<B, <<w, <<N, <<j, l>>>>>>>>>>
  BY <1>2, <1>3 DEF Ahead, SearchAhead
<1>8. QED
  BY <1>6, <1>7

(* The steps from one stage of the call to the next. *)
LEMMA StagesShrink ==
  ASSUME IInv, Collect \/ CollectFails \/ PinsDone \/ ConfigureFails \/ Knobs \/ MuteRest
  PROVE  StagesAhead' < StagesAhead
<1>1. headphones \in BOOLEAN
  BY DEF IInv, TypeOK
<1>2. CASE Collect
  BY <1>2 DEF Collect, StagesAhead, Searching, callVars
<1>3. CASE CollectFails
  BY <1>3 DEF CollectFails, StagesAhead, Searching
<1>4. CASE PinsDone
  BY <1>1, <1>4 DEF PinsDone, SecondPass, StagesAhead, Searching
<1>5. CASE ConfigureFails
  BY <1>1, <1>5 DEF ConfigureFails, StagesAhead, Searching
<1>6. CASE Knobs
  BY <1>6 DEF Knobs, StagesAhead, Searching
<1>7. CASE MuteRest
  BY <1>7 DEF MuteRest, StagesAhead, Searching
<1>8. QED
  BY <1>2, <1>3, <1>4, <1>5, <1>6, <1>7

(* All other steps stay in their pass, and all but NextPin with their pin. *)
InPass == pc \in {"pins"} \cup Searching

LEMMA StagesSame ==
  ASSUME InPass, InPass', UNCHANGED headphones
  PROVE  UNCHANGED StagesAhead
  BY DEF InPass, StagesAhead, Searching

LEMMA PinsSame ==
  ASSUME UNCHANGED <<codec, plugged, headphones, pin>>
  PROVE  UNCHANGED PinsLeft
  BY DEF PinsLeft, Pins

LEMMA NextPinShrinks == ASSUME IInv, NextPin PROVE Shrinks
<1>1. /\ pc = "pins" /\ pc' = "search" /\ pin' \in PinsLeft
      /\ UNCHANGED <<codec, plugged, headphones>>
  BY DEF NextPin
<1>2. UNCHANGED StagesAhead
  BY <1>1, StagesSame DEF InPass, Searching
<1>3. pin' \in Nat /\ pin \in Nat /\ pin' > pin /\ Pins \subseteq Nat /\ Pins' = Pins
  <2>1. Pins \subseteq Nodes /\ Nodes \subseteq Nat /\ pin \in Nodes \cup {0}
    BY CodecAssumption DEF Pins, IInv, TypeOK, NoNode
  <2>2. pin' \in Pins /\ pin' > pin
    BY <1>1 DEF PinsLeft
  <2>3. Pins' = Pins
    BY <1>1 DEF Pins
  <2>4. QED
    BY <2>1, <2>2, <2>3
<1>4. PinsLeft' \subseteq PinsLeft /\ pin' \notin PinsLeft'
  <2>1. PinsLeft = {n \in Pins : n > pin /\ (n \in plugged <=> headphones)}
    BY DEF PinsLeft
  <2>2. PinsLeft' = {n \in Pins : n > pin' /\ (n \in plugged <=> headphones)}
    BY <1>1, <1>3 DEF PinsLeft
  <2>3. ~(pin' > pin') /\ \A n \in Pins : n > pin' => n > pin
    BY <1>3
  <2>4. QED
    BY <2>1, <2>2, <2>3
<1>5. QED
  BY <1>1, <1>2, <1>4 DEF Shrinks

LEMMA WorkShrinks ==
  ASSUME IInv, NotFound \/ PopDac \/ Found \/ Configured
  PROVE  Shrinks
<1>1. UNCHANGED <<codec, plugged, headphones, pin>>
  BY DEF NotFound, PopDac, Found, Configured, callVars
<1>2. InPass /\ InPass' /\ WorkAhead' < WorkAhead
  BY DEF NotFound, PopDac, Found, Configured, InPass, WorkAhead, Searching
<1>3. QED
  BY <1>1, <1>2, StagesSame, PinsSame DEF Shrinks

(* What is known, traced or configured stays so. *)
LEMMA TraceShrinks ==
  ASSUME IInv, DistKnown, Trace, ~Known(pin)
  PROVE  Shrinks
<1>1. /\ pc = "trace" /\ pc' = "trace" /\ path' = Append(path, pivot)
      /\ UNCHANGED <<codec, plugged, headphones, pin>>
  BY DEF Trace, callVars
<1>2. InPass /\ InPass' /\ UNCHANGED WorkAhead
  BY <1>1 DEF InPass, WorkAhead, Searching
<1>3. path \in Seq(Nodes) /\ pivot \in Nodes
  BY <1>1, TracedOn DEF IInv, TypeOK
<1>4. On(path)' = On(path) \cup {pivot}
  <2>1. On(path)' = On(Append(path, pivot))
    BY <1>1 DEF On
  <2>2. QED
    BY <1>3, <2>1, OnAppend
<1>5. pivot \notin On(path)
  BY <1>1, PivotIsNew
<1>6. NodesAhead = Nodes \ On(path) /\ NodesAhead' = Nodes \ On(path)'
  BY <1>1 DEF NodesAhead
<1>7. NodesAhead' \subseteq NodesAhead /\ NodesAhead' # NodesAhead
  BY <1>3, <1>4, <1>5, <1>6
<1>8. QED
  BY <1>1, <1>2, <1>7, StagesSame, PinsSame DEF Shrinks

LEMMA ConfigureShrinks == ASSUME IInv, Configure PROVE Shrinks
<1>1. PICK n \in ToConfigure : active' = active \cup {n}
  BY DEF Configure
<1>2. pc = "config" /\ pc' = "config" /\ UNCHANGED <<codec, plugged, headphones, pin, path>>
  BY DEF Configure, searchVars
<1>3. InPass /\ InPass' /\ UNCHANGED WorkAhead
  BY <1>2 DEF InPass, WorkAhead, Searching
<1>4. NodesAhead = ToConfigure /\ NodesAhead' = ToConfigure'
  BY <1>2 DEF NodesAhead
<1>5. ToConfigure' = ToConfigure \ {n}
  BY <1>1, <1>2 DEF ToConfigure, On
<1>6. NodesAhead' \subseteq NodesAhead /\ NodesAhead' # NodesAhead
  BY <1>1, <1>4, <1>5
<1>7. QED
  BY <1>2, <1>3, <1>6, StagesSame, PinsSame DEF Shrinks

(* The queue: a node that is taken from it counts twice, as its list is    *)
(* still to be gone through.                                               *)
LEMMA QueueShrinks ==
  ASSUME IInv, PopDangling \/ PopNode \/ Expanded
  PROVE  Shrinks
<1>1. /\ pc \in {"search", "expand"} /\ pc' \in {"search", "expand"}
      /\ UNCHANGED <<codec, plugged, headphones, pin, parent>>
  BY DEF PopDangling, PopNode, Expanded, callVars, searchVars
<1>2. InPass /\ InPass' /\ UNCHANGED WorkAhead
  BY <1>1 DEF InPass, WorkAhead, Searching
<1>3. UNCHANGED NodesAhead
  BY <1>1 DEF NodesAhead, Known
<1>4. Queued' < Queued
  <2>1. queue \in Seq(Nodes) /\ Len(queue) \in Nat
    BY DEF IInv, TypeOK
  <2>2. queue # <<>> => Len(Tail(queue)) = Len(queue) - 1
    BY <2>1
  <2>3. CASE PopDangling
    BY <2>1, <2>2, <2>3 DEF PopDangling, Queued
  <2>4. CASE PopNode
    BY <2>1, <2>2, <2>4 DEF PopNode, Queued
  <2>5. CASE Expanded
    BY <2>1, <2>5 DEF Expanded, Queued, searchVars
  <2>6. QED
    BY <2>3, <2>4, <2>5
<1>5. QED
  BY <1>1, <1>2, <1>3, <1>4, StagesSame, PinsSame DEF Shrinks

LEMMA VisitShrinks == ASSUME IInv, Visit PROVE Shrinks
<1>1. /\ pc = "expand" /\ pc' = "expand" /\ UNCHANGED <<codec, plugged, headphones, pin>>
      /\ rest' = Tail(rest)
  BY DEF Visit, callVars
<1>2. InPass /\ InPass' /\ UNCHANGED WorkAhead
  BY <1>1 DEF InPass, WorkAhead, Searching
<1>3. UNCHANGED <<StagesAhead, PinsLeft>>
  BY <1>1, <1>2, StagesSame, PinsSame
<1>4. /\ rest # <<>> /\ rest \in Seq(Nodes) /\ Head(rest) \in Nodes /\ pivot # NoNode
      /\ pivot \in Nodes /\ parent \in [Nodes -> Nodes \cup {NoNode}]
  BY VisitFacts DEF TypeOK
<1>5. CASE Known(Head(rest))
  <2>1. UNCHANGED <<parent, queue>>
    BY <1>5 DEF Visit
  <2>2. UNCHANGED NodesAhead /\ UNCHANGED Queued
    BY <1>1, <2>1 DEF NodesAhead, Known, Queued
  <2>3. Len(rest') < Len(rest)
    BY <1>1, <1>4
  <2>4. QED
    BY <1>2, <1>3, <2>2, <2>3 DEF Shrinks
<1>6. CASE ~Known(Head(rest))
  <2>1. parent' = [parent EXCEPT ![Head(rest)] = pivot]
    BY <1>6 DEF Visit
  <2>2. NodesAhead = {n \in Nodes : ~Known(n)} /\ NodesAhead' = {n \in Nodes : parent'[n] = NoNode}
    BY <1>1 DEF NodesAhead, Known
  <2>3. NodesAhead' \subseteq NodesAhead /\ Head(rest) \in NodesAhead /\ Head(rest) \notin NodesAhead'
    BY <1>4, <1>6, <2>1, <2>2 DEF Known
  <2>4. QED
    BY <1>2, <1>3, <2>3 DEF Shrinks
<1>7. QED
  BY <1>5, <1>6

(* A setup that has begun comes nearer to its end with every step of the   *)
(* driver, except in a search that has come back to its pin.               *)
SetupAdvances == [][Busy /\ ~Endless => <<Ahead', Ahead>> \in CallOrder]_vars

(* codec_setup_stream (main.rs 1714-1828) cannot go on for ever on any     *)
(* codec whose connections do not lead from a pin back to it: with every   *)
(* step it leaves less ahead of it, in a well-founded order.               *)
THEOREM SetupAlwaysAdvances == Spec => SetupAdvances
<1>1. ASSUME IInv, DistKnown, [Next]_vars, IInv'
      PROVE  [Busy /\ ~Endless => <<Ahead', Ahead>> \in CallOrder]_vars
  <2> SUFFICES ASSUME Next, Busy, ~Endless PROVE Shrinks
    BY <1>1, ShrinkingIsBelow
  <2>1. ~Begin
    BY DEF Begin, Busy
  <2>2. CASE Trace
    <3>1. ~Known(pin)
      BY <2>2 DEF Trace, Endless
    <3>2. QED
      BY <1>1, <2>2, <3>1, TraceShrinks
  <2>3. CASE Collect \/ CollectFails \/ PinsDone \/ ConfigureFails \/ Knobs \/ MuteRest
    BY <1>1, <2>3, StagesShrink DEF Shrinks
  <2>4. CASE NotFound \/ PopDac \/ Found \/ Configured
    BY <1>1, <2>4, WorkShrinks
  <2>5. CASE PopDangling \/ PopNode \/ Expanded
    BY <1>1, <2>5, QueueShrinks
  <2>6. CASE NextPin \/ Visit \/ Configure
    BY <1>1, <2>6, NextPinShrinks, VisitShrinks, ConfigureShrinks
  <2>7. QED
    BY <2>1, <2>2, <2>3, <2>4, <2>5, <2>6 DEF Next, Search, Setup
<1>2. IInv /\ DistKnown /\ IInv' /\ [Next]_vars
        => [Busy /\ ~Endless => <<Ahead', Ahead>> \in CallOrder]_vars
  BY <1>1
<1>3. QED
  BY DistInv, <1>2, PTL DEF Spec, SetupAdvances
-----------------------------------------------------------------------------
(***************************************************************************)
(* What is not muted after the first setup.                                *)
(***************************************************************************)
Closed(S) == \A n \in S : Source(n) \in S

(* Q: the nodes on the routes, all of them and no others. *)
Reached(Q) ==
  /\ routed \subseteq Q /\ Q \subseteq active /\ Closed(Q)
  /\ \A S \in SUBSET Nodes : routed \subseteq S /\ Closed(S) => Q \subseteq S

OnlyRoutes == \E Q \in SUBSET Nodes : Reached(Q) /\ Nodes \ muted \subseteq Q \cup Coming

FirstKnown ==
  /\ setups = 0 => pc = "idle" /\ muted = Nodes
  /\ setups <= 1 /\ status # "error" => OnlyRoutes

LEMMA FirstQuiet ==
  ASSUME UNCHANGED <<codec, select, routed, setups>>, active \subseteq active',
         muted \subseteq muted', Coming \subseteq Coming', OnlyRoutes
  PROVE  OnlyRoutes'
<1>1. PICK Q \in SUBSET Nodes : Reached(Q) /\ Nodes \ muted \subseteq Q \cup Coming
  BY DEF OnlyRoutes
<1>2. \A n : Source(n)' = Source(n)
  BY SourceKept
<1>3. Reached(Q)'
  BY <1>1, <1>2 DEF Reached, Closed
<1>4. QED
  BY <1>1, <1>3 DEF OnlyRoutes

(* The node that is configured is not on the routes yet, so that they are  *)
(* as they were; it comes to lie on the route that is being made.          *)
LEMMA FirstConfigure == ASSUME IInv, Configure, OnlyRoutes PROVE OnlyRoutes'
<1>1. PICK n \in ToConfigure : Select(n) /\ active' = active \cup {n} /\ muted' = muted \ {n}
  BY DEF Configure
<1>2. pc = "config" /\ pc' = "config" /\ UNCHANGED <<codec, routed, path>> /\ TypeOK
  BY DEF Configure, IInv, searchVars
<1>3. n \in On(path) /\ n \notin active
  BY <1>1 DEF ToConfigure
<1>4. Coming = On(path) /\ Coming' = On(path)
  <2>1. On(path)' = On(path)
    BY <1>2 DEF On
  <2>2. QED
    BY <1>2, <2>1 DEF Coming
<1>5. ASSUME NEW m \in Nodes \ {n} PROVE Source(m)' = Source(m)
  <2>1. select'[m] = select[m]
    BY <1>1, <1>2, <1>5 DEF Select, TypeOK
  <2>2. QED
    BY <1>2, <2>1, SourceKept
<1>6. PICK Q \in SUBSET Nodes : Reached(Q) /\ Nodes \ muted \subseteq Q \cup Coming
  BY DEF OnlyRoutes
<1>7. \A m \in Q : Source(m)' = Source(m)
  BY <1>3, <1>5, <1>6 DEF Reached
<1>8. Closed(Q)'
  BY <1>6, <1>7 DEF Reached, Closed
<1>9. ASSUME NEW S \in SUBSET Nodes, routed' \subseteq S, Closed(S)' PROVE Q \subseteq S
  <2>1. PICK R \in SUBSET Nodes : R = S \cap Q
    OBVIOUS
  <2>2. \A m \in R : Source(m) \in R
    <3>1. ASSUME NEW m \in R PROVE Source(m) \in S /\ Source(m) \in Q
      <4>1. m \in S /\ m \in Q
        BY <2>1
      <4>2. Source(m)' \in S
        BY <1>9, <4>1 DEF Closed
      <4>3. Source(m) \in Q
        BY <1>6, <4>1 DEF Reached, Closed
      <4>4. QED
        BY <1>7, <4>1, <4>2, <4>3
    <3>2. QED
      BY <2>1, <3>1
  <2>3. routed \subseteq R
    BY <1>2, <1>6, <1>9, <2>1 DEF Reached
  <2>4. Q \subseteq R
    BY <1>6, <2>2, <2>3 DEF Reached, Closed
  <2>5. QED
    BY <2>1, <2>4
<1>10. Reached(Q)'
  BY <1>1, <1>2, <1>6, <1>8, <1>9 DEF Reached
<1>11. Nodes \ muted' \subseteq Q \cup Coming'
  BY <1>1, <1>3, <1>4, <1>6
<1>12. QED
  BY <1>10, <1>11 DEF OnlyRoutes

(* Once it is configured, the path goes by the inputs selected on it. *)
LEMMA PathSelected ==
  ASSUME IInv, RInv, pc = "config", ToConfigure = {}, NEW i \in 1..Len(path)
  PROVE  Source(path[i]) = IF i = 1 THEN path[1] ELSE path[i - 1]
<1>1. TypeOK /\ path \in Seq(Nodes) /\ path # <<>> /\ Dac(path[1])
  BY DEF IInv, PathIsRoute, TypeOK
<1>2. CASE i = 1
  BY <1>1, <1>2 DEF Source, Successors
<1>3. CASE i # 1
  <2>1. PICK j \in 1..Len(path)-1 : i = j + 1
    <3>1. i - 1 \in 1..Len(path)-1 /\ i = (i - 1) + 1
      BY <1>1, <1>3
    <3>2. QED
      BY <3>1
  <2>2. <<path[j + 1], path[j]>> \in Firsts
    BY DEF RInv, PathKnown, IsFirst
  <2>3. path[i] \in active
    BY <1>1 DEF ToConfigure, On
  <2>4. ~Dac(path[i])
    BY <2>1, <2>2 DEF Firsts, Vertices, First, FirstAt, Successors
  <2>5. <<path[i], Source(path[i])>> \in Firsts
    BY <2>3, <2>4 DEF RInv, ActiveKnown, Searching
  <2>6. Source(path[i]) = path[j]
    BY <1>1, <2>1, <2>2, <2>5, FirstIsOne
  <2>7. j = i - 1
    BY <1>1, <2>1
  <2>8. QED
    BY <1>3, <2>6, <2>7
<1>4. QED
  BY <1>2, <1>3

LEMMA PathReached ==
  ASSUME IInv, RInv, pc = "config", ToConfigure = {},
         NEW S \in SUBSET Nodes, Closed(S), pin \in S
  PROVE  On(path) \subseteq S
<1>1. path \in Seq(Nodes) /\ path # <<>> /\ path[Len(path)] = pin
  BY DEF IInv, PathIsRoute, TypeOK
<1>2. Len(path) \in Nat \ {0} /\ DOMAIN path = 1..Len(path)
  BY <1>1
<1> DEFINE Bad == {j \in 0..Len(path)-1 : path[Len(path) - j] \notin S}
<1>3. ASSUME Bad # {} PROVE FALSE
  <2>1. PICK j \in Bad : \A k \in Bad : j <= k
    <3>1. Bad \in SUBSET Nat
      BY <1>2
    <3> HIDE DEF Bad
    <3>2. QED
      BY <1>3, <3>1, LeastIs
  <2>2. j \in 0..Len(path)-1 /\ path[Len(path) - j] \notin S
    OBVIOUS
  <2>3. j # 0
    BY <1>1, <1>2, <2>2
  <2>4. PICK i \in 2..Len(path) : i = Len(path) - (j - 1)
    BY <1>2, <2>2, <2>3
  <2>5. j - 1 \in 0..Len(path)-1 /\ ~(j <= j - 1) /\ i - 1 = Len(path) - j
    BY <1>2, <2>2, <2>3, <2>4
  <2>6. j - 1 \notin Bad
    BY <2>1, <2>5
  <2>7. path[i] \in S
    BY <2>4, <2>5, <2>6
  <2>8. i \in 1..Len(path) /\ i # 1
    BY <1>2, <2>4
  <2>9. Source(path[i]) = path[i - 1]
    BY <2>8, PathSelected
  <2>10. path[i - 1] \in S
    BY <2>7, <2>9 DEF Closed
  <2>11. QED
    BY <2>2, <2>5, <2>10
<1>4. ASSUME NEW i \in 1..Len(path) PROVE path[i] \in S
  <2>1. Len(path) - i \in 0..Len(path)-1 /\ Len(path) - (Len(path) - i) = i
    BY <1>2
  <2>2. Len(path) - i \notin Bad
    BY <1>3
  <2>3. QED
    BY <2>1, <2>2
<1>5. QED
  BY <1>2, <1>4 DEF On

LEMMA FirstConfigured == ASSUME IInv, RInv, Configured, OnlyRoutes PROVE OnlyRoutes'
<1>1. /\ pc = "config" /\ pc' = "pins" /\ ToConfigure = {} /\ routed' = routed \cup {pin}
      /\ UNCHANGED <<codec, muted, select, active>>
  BY DEF Configured, codecVars
<1>2. path \in Seq(Nodes) /\ path # <<>> /\ path[Len(path)] = pin
  BY <1>1 DEF IInv, PathIsRoute, TypeOK
<1>3. \A n : Source(n)' = Source(n)
  BY <1>1, SourceKept
<1>4. PICK Q \in SUBSET Nodes : Reached(Q) /\ Nodes \ muted \subseteq Q \cup Coming
  BY DEF OnlyRoutes
<1>5. Coming = On(path) /\ Coming' = {} /\ On(path) \subseteq Nodes /\ On(path) \subseteq active
      /\ pin \in On(path)
  <2>1. Len(path) \in DOMAIN path
    BY <1>2
  <2>2. On(path) \subseteq Nodes /\ pin \in On(path)
    BY <1>2, <2>1 DEF On
  <2>3. QED
    BY <1>1, <2>2 DEF Coming, ToConfigure
<1>6. PICK R \in SUBSET Nodes : R = Q \cup On(path)
  BY <1>5
<1>7. ASSUME NEW n \in R PROVE Source(n) \in R
  <2>1. CASE n \in Q
    BY <1>4, <1>6, <2>1 DEF Reached, Closed
  <2>2. CASE n \in On(path)
    <3>1. PICK i \in 1..Len(path) : n = path[i]
      BY <1>2, <2>2 DEF On
    <3>2. Source(n) = IF i = 1 THEN path[1] ELSE path[i - 1]
      BY <1>1, <3>1, PathSelected
    <3>3. 1 \in 1..Len(path) /\ (i # 1 => i - 1 \in 1..Len(path))
      BY <1>2, <3>1
    <3>4. Source(n) \in On(path)
      BY <1>2, <3>2, <3>3 DEF On
    <3>5. QED
      BY <1>6, <3>4
  <2>3. QED
    BY <1>6, <2>1, <2>2
<1>8. ASSUME NEW S \in SUBSET Nodes, routed' \subseteq S, \A n \in S : Source(n)' \in S
      PROVE  R \subseteq S
  <2>1. Closed(S) /\ routed \subseteq S /\ pin \in S
    BY <1>1, <1>3, <1>8 DEF Closed
  <2>2. On(path) \subseteq S
    BY <1>1, <2>1, PathReached
  <2>3. Q \subseteq S
    BY <1>4, <2>1 DEF Reached
  <2>4. QED
    BY <1>6, <2>2, <2>3
<1>9. routed' \subseteq R /\ R \subseteq active'
  BY <1>1, <1>4, <1>5, <1>6 DEF Reached
<1>10. Reached(R)'
  BY <1>3, <1>7, <1>8, <1>9 DEF Reached, Closed
<1>11. Nodes \ muted' \subseteq R
  BY <1>1, <1>4, <1>5, <1>6
<1>12. QED
  BY <1>10, <1>11 DEF OnlyRoutes

LEMMA FirstStep ==
  ASSUME IInv, RInv, AllActive, FirstKnown, [Next]_vars
  PROVE  FirstKnown'
<1>1. CASE Begin
  <2>1. /\ setups' = setups + 1 /\ setups \in Nat /\ muted' = muted
        /\ routed' = {} /\ active' = {}
    BY <1>1 DEF Begin, codecVars, IInv, TypeOK
  <2>2. setups' <= 1 => muted' = Nodes
    BY <2>1 DEF FirstKnown
  <2>3. Reached({})'
    BY <2>1 DEF Reached, Closed
  <2>4. setups' <= 1 => OnlyRoutes'
    BY <2>2, <2>3 DEF OnlyRoutes
  <2>5. QED
    BY <2>1, <2>4 DEF FirstKnown
<1>2. CASE ~Begin
  <2>1. UNCHANGED setups
    <3>1. CASE NotFound \/ PopDangling \/ PopDac \/ PopNode \/ NextPin \/ Visit \/ Expanded
      BY <3>1 DEF NotFound, PopDangling, PopDac, PopNode, NextPin, Visit, Expanded
    <3>2. CASE Trace \/ Found \/ Collect \/ PinsDone \/ CollectFails
      BY <3>2 DEF Trace, Found, Collect, PinsDone, CollectFails
    <3>3. CASE Configure \/ ConfigureFails \/ Configured \/ Knobs \/ MuteRest \/ UNCHANGED vars
      BY <3>3 DEF Configure, ConfigureFails, Configured, Knobs, MuteRest, vars
    <3>4. QED
      BY <1>2, <3>1, <3>2, <3>3 DEF Next, Search, Setup
  <2>2. CASE UNCHANGED vars
    <3>1. Quiet
      BY <2>2, QuietSteps
    <3>2. OnlyRoutes => OnlyRoutes'
      BY <2>1, <2>2, <3>1, FirstQuiet DEF Quiet
    <3>3. QED
      BY <2>1, <2>2, <3>2 DEF FirstKnown, vars, codecVars
  <2>3. CASE ~UNCHANGED vars
    <3>1. pc # "idle"
      <4>1. CASE NotFound \/ PopDangling \/ PopDac \/ PopNode \/ NextPin \/ Visit \/ Expanded
        BY <4>1 DEF NotFound, PopDangling, PopDac, PopNode, NextPin, Visit, Expanded
      <4>2. CASE Trace \/ Found \/ Collect \/ PinsDone \/ CollectFails
        BY <4>2 DEF Trace, Found, Collect, PinsDone, CollectFails
      <4>3. CASE Configure \/ ConfigureFails \/ Configured \/ Knobs \/ MuteRest
        BY <4>3 DEF Configure, ConfigureFails, Configured, Knobs, MuteRest
      <4>4. QED
        BY <1>2, <2>3, <4>1, <4>2, <4>3 DEF Next, Search, Setup
    <3>2. setups # 0 /\ status # "error"
      BY <3>1 DEF FirstKnown, AllActive
    <3>3. SUFFICES ASSUME OnlyRoutes, status' # "error" PROVE OnlyRoutes'
      BY <2>1, <3>2 DEF FirstKnown
    <3>4. CASE CollectFails \/ ConfigureFails
      BY <3>3, <3>4 DEF CollectFails, ConfigureFails
    <3>5. CASE Configure
      BY <3>3, <3>5, FirstConfigure
    <3>6. CASE Configured
      BY <3>3, <3>6, FirstConfigured
    <3>7. CASE Knobs \/ MuteRest
      <4>1. /\ UNCHANGED <<codec, select, routed>> /\ active \subseteq active'
            /\ muted \subseteq muted' /\ pc # "config"
        <5>1. CASE Knobs
          BY <5>1 DEF Knobs, codecVars
        <5>2. CASE MuteRest
          BY <5>2 DEF MuteRest, callVars
        <5>3. QED
          BY <3>7, <5>1, <5>2
      <4>2. Coming \subseteq Coming'
        BY <4>1 DEF Coming
      <4>3. QED
        BY <2>1, <3>3, <4>1, <4>2, FirstQuiet
    <3>8. CASE NotFound \/ PopDangling \/ PopDac \/ PopNode \/ NextPin \/ Visit \/ Expanded
               \/ Trace \/ Found \/ Collect \/ PinsDone
      <4>1. Quiet
        BY <3>8, QuietSteps
      <4>2. QED
        BY <2>1, <3>3, <4>1, FirstQuiet DEF Quiet
    <3>9. QED
      BY <1>2, <2>3, <3>4, <3>5, <3>6, <3>7, <3>8 DEF Next, Search, Setup
  <2>4. QED
    BY <2>2, <2>3
<1>3. QED
  BY <1>1, <1>2

(* codec_setup_stream leaves the codec as it says ("Mute everything        *)
(* else", main.rs 1819), if it is the first setup since power-on: what is  *)
(* not muted then lies on the route of a pin.                              *)
FirstMutesOthers == setups <= 1 => OthersMuted

(* It is the mute state left by an earlier setup that the code overlooks,  *)
(* and nothing else: no path leaves a node unmuted that is on no route.    *)
THEOREM FirstSetupMutesOthers == Spec => []FirstMutesOthers
<1>1. Init => FirstKnown
  <2> SUFFICES ASSUME Init PROVE FirstKnown
    OBVIOUS
  <2>1. muted = Nodes /\ routed = {} /\ active = {} /\ pc = "idle"
    BY DEF Init
  <2>2. Reached({})
    BY <2>1 DEF Reached, Closed
  <2>3. QED
    BY <2>1, <2>2 DEF FirstKnown, OnlyRoutes
<1>2. IInv /\ RInv /\ PInv /\ FirstKnown /\ [Next]_vars => FirstKnown'
  BY FirstStep DEF PInv
<1>3. IInv /\ PInv /\ FirstKnown => FirstMutesOthers
  <2> SUFFICES ASSUME IInv, PInv, FirstKnown, setups <= 1, status = "success",
                      NEW n \in Vertices, n \notin muted
               PROVE  \E p \in routed, k \in 0..Cardinality(Nodes) : n = Route(p)[k]
    BY DEF FirstMutesOthers, OthersMuted
  <2>1. pc = "idle" /\ Coming = {} /\ TypeOK
    BY DEF PInv, AllActive, Coming, IInv
  <2>2. PICK Q \in SUBSET Nodes : Reached(Q) /\ Nodes \ muted \subseteq Q
    BY <2>1 DEF FirstKnown, OnlyRoutes
  <2>3. PICK P \in SUBSET Nodes : Plays(P)
    BY DEF PInv, PlayKnown
  <2>4. Settled(P) /\ routed \subseteq P
    <3>1. ASSUME NEW m \in P, Dac(m) PROVE Source(m) = m
      BY <3>1 DEF Source, Successors
    <3>2. QED
      BY <2>1, <2>3, <3>1 DEF Plays, Settled
  <2>5. PICK N : N = Cardinality(Nodes)
    OBVIOUS
  <2>6. ASSUME NEW p \in routed
        PROVE  /\ N \in Nat /\ Route(p) \in [0..N -> Nodes] /\ Goes(Route(p), p, N)
               /\ Source(Route(p)[N]) = Route(p)[N]
    <3>1. p \in P /\ p \in Nodes
      BY <2>4
    <3>2. N \in Nat /\ Route(p) \in [0..N -> Nodes] /\ Goes(Route(p), p, N)
      BY <2>1, <2>5, <3>1, RouteIs
    <3>3. PICK f \in [0..N -> Nodes] : f = Route(p)
      BY <3>2
    <3>4. Dac(f[N])
      BY <2>1, <2>4, <2>5, <3>1, <3>2, <3>3, RouteEnds
    <3>5. Source(f[N]) = f[N]
      BY <3>4 DEF Source, Successors
    <3>6. QED
      BY <3>2, <3>3, <3>5
  <2>7. PICK S \in SUBSET Nodes : S = {Route(e[1])[e[2]] : e \in routed \X (0..N)}
    <3>1. \A p \in routed, k \in 0..N : Route(p)[k] \in Nodes
      BY <2>6
    <3>2. {Route(e[1])[e[2]] : e \in routed \X (0..N)} \subseteq Nodes
      BY <3>1
    <3>3. QED
      BY <3>2
  <2>8. \A p \in routed, k \in 0..N : Route(p)[k] \in S
    <3>1. ASSUME NEW p \in routed, NEW k \in 0..N PROVE Route(p)[k] \in S
      <4>1. <<p, k>> \in routed \X (0..N) /\ <<p, k>>[1] = p /\ <<p, k>>[2] = k
        OBVIOUS
      <4>2. QED
        BY <2>7, <4>1
    <3>2. QED
      BY <3>1
  <2>9. routed \subseteq S
    <3>1. ASSUME NEW p \in routed PROVE p \in S
      <4>1. 0 \in 0..N /\ Route(p)[0] = p
        BY <2>6 DEF Goes
      <4>2. QED
        BY <2>8, <4>1
    <3>2. QED
      BY <3>1
  <2>10. ASSUME NEW m \in S PROVE Source(m) \in S
    <3>1. PICK p \in routed, k \in 0..N : m = Route(p)[k]
      BY <2>7
    <3>2. CASE k = N
      BY <2>6, <3>1, <3>2
    <3>3. CASE k # N
      <4>1. k + 1 \in 1..N /\ k + 1 \in 0..N /\ (k + 1) - 1 = k
        BY <2>6, <3>3
      <4>2. Route(p)[k + 1] = Source(Route(p)[k])
        BY <2>6, <4>1 DEF Goes
      <4>3. QED
        BY <2>8, <3>1, <4>1, <4>2
    <3>4. QED
      BY <3>2, <3>3
  <2>11. Q \subseteq S
    BY <2>2, <2>9, <2>10 DEF Reached, Closed
  <2>12. n \in S
    BY <2>2, <2>11 DEF Vertices
  <2>13. QED
    BY <2>5, <2>7, <2>12
<1>4. QED
  BY <1>1, <1>2, <1>3, RoutesInv, PlayInv, PTL DEF Spec
=============================================================================
