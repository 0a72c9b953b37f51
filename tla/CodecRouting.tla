---------------------------- MODULE CodecRouting ----------------------------
(***************************************************************************)
(* codec_setup_stream (efi-hda-dxe/src/main.rs 1714-1828): the codec's     *)
(* widgets are read into a graph, hda_find_dac searches it breadth first   *)
(* from each output pin for a DAC, and the widgets of the path found are   *)
(* unmuted and told which of their inputs to take.  Headphones go first:   *)
(* when one of them is routed, the other pins are left alone.              *)
(*                                                                         *)
(* A widget's connection list holds its inputs, so that the search goes    *)
(* from the pin against the flow of the sound.  Each setup meets the codec *)
(* as the one before has left it, and any command to it may fail.          *)
(***************************************************************************)
EXTENDS Naturals, Sequences, FiniteSets

CONSTANTS
  Nodes,      \* the numbers of the audio function's nodes
  Codecs,     \* codecs: node -> kind, and node -> connection list
  MaxSetups   \* bound: setups in a behaviour

Kinds == {"dac", "pin", "knob", "inner", "hidden"}
NoNode == 0   \* no entry of a NodeMap (number 0 is the root's)

ASSUME CodecAssumption ==
  /\ Nodes \subseteq Nat \ {0} /\ IsFiniteSet(Nodes)
  /\ Codecs \subseteq [kind : [Nodes -> Kinds], list : [Nodes -> Seq(Nodes)]]
  /\ MaxSetups \in Nat

VARIABLES
  (* the codec *)
  codec,      \* its kinds and connection lists
  plugged,    \* the headphone jacks with something plugged in
  muted, streams,   \* nodes that are muted, DACs that play the stream
  select,     \* node -> index of the input it takes
  (* codec_setup_stream *)
  pc,
  headphones, \* the pass over the pins
  pin,        \* the pin of this pass
  active,     \* active_nodes
  raised,     \* knobs whose volume was set
  (* hda_find_dac *)
  queue, parent,    \* the queue, and `path`
  pivot, rest,      \* the node looked at, and those of its successors that are left
  path,       \* the result
  (* history *)
  routed,     \* pins with a path in this setup
  status, setups

codecVars  == <<muted, streams, select>>
searchVars == <<queue, parent, pivot, rest, path>>
callVars   == <<headphones, pin, active, raised, routed>>
vars == <<codec, plugged, codecVars, pc, callVars, searchVars, status, setups>>

(* codec_collect_nodes.  "inner" nodes are mixers, selectors and the like; *)
(* pins that are digital or cannot put out are filtered out and so are no  *)
(* vertices: a connection to one dangles, like one to no node at all.      *)
Vertices == {n \in Nodes : codec.kind[n] # "hidden"}
Dac(n) == codec.kind[n] = "dac"
Successors(n) == IF Dac(n) THEN <<>> ELSE codec.list[n]
Inputs(n) == {Successors(n)[i] : i \in DOMAIN Successors(n)}
Pins == {n \in Nodes : codec.kind[n] = "pin"}

On(p) == {p[i] : i \in DOMAIN p}

Busy == pc # "idle"

TypeOK ==
  /\ codec \in [kind : [Nodes -> Kinds], list : [Nodes -> Seq(Nodes)]]
  /\ plugged \subseteq Nodes
  /\ muted \subseteq Nodes /\ streams \subseteq Nodes /\ select \in [Nodes -> Nat]
  /\ pc \in {"idle", "collect", "pins", "search", "expand", "trace", "config", "knobs", "mute"}
  /\ headphones \in BOOLEAN /\ pin \in Nodes \cup {NoNode}
  /\ active \subseteq Nodes /\ raised \subseteq Nodes /\ routed \subseteq Nodes
  /\ queue \in Seq(Nodes) /\ parent \in [Nodes -> Nodes \cup {NoNode}]
  /\ pivot \in Nodes \cup {NoNode} /\ rest \in Seq(Nodes) /\ path \in Seq(Nodes)
  /\ status \in {"none", "success", "error"} /\ setups \in Nat

(* A codec after power-on: all is muted, and nothing plays. *)
Init ==
  /\ codec \in Codecs /\ plugged = {}
  /\ muted = Nodes /\ streams = {} /\ select = [n \in Nodes |-> 0]
  /\ pc = "idle" /\ headphones = TRUE /\ pin = NoNode
  /\ active = {} /\ raised = {} /\ routed = {}
  /\ queue = <<>> /\ parent = [n \in Nodes |-> NoNode]
  /\ pivot = NoNode /\ rest = <<>> /\ path = <<>>
  /\ status = "none" /\ setups = 0
-----------------------------------------------------------------------------
(* The pins *)

Begin ==
  /\ pc = "idle" /\ setups < MaxSetups
  /\ headphones' = TRUE /\ pin' = NoNode
  /\ active' = {} /\ raised' = {} /\ routed' = {}
  /\ queue' = <<>> /\ parent' = [n \in Nodes |-> NoNode]
  /\ pivot' = NoNode /\ rest' = <<>> /\ path' = <<>>
  /\ pc' = "collect" /\ status' = "none" /\ setups' = setups + 1
  /\ UNCHANGED <<codec, plugged, codecVars>>

(* All widgets are powered and their outputs enabled, and the nodes are    *)
(* read; is_headphones looks at the jack as it is now.                     *)
Collect ==
  /\ pc = "collect"
  /\ plugged' \in SUBSET Pins
  /\ pc' = "pins"
  /\ UNCHANGED <<codec, codecVars, callVars, searchVars, status, setups>>

(* The pins of this pass that come after the last one. *)
PinsLeft == {n \in Pins : n > pin /\ (n \in plugged <=> headphones)}

NextPin ==
  /\ pc = "pins"
  /\ \E n \in PinsLeft :
       /\ \A m \in PinsLeft : n <= m
       /\ pin' = n
       /\ queue' = <<n>>
  /\ parent' = [n \in Nodes |-> NoNode]
  /\ pc' = "search"
  /\ UNCHANGED <<codec, plugged, codecVars, headphones, active, raised, routed, pivot, rest, path,
                 status, setups>>

SecondPassAgain == active = {}          \* mutant of SecondPass: the pass not looked at
SecondPass == headphones /\ active = {}

PinsDone ==
  /\ pc = "pins" /\ PinsLeft = {}
  /\ headphones' = FALSE /\ pin' = NoNode
  /\ pc' = IF SecondPass THEN "pins" ELSE "knobs"
  /\ UNCHANGED <<codec, plugged, codecVars, active, raised, routed, searchVars, status, setups>>
-----------------------------------------------------------------------------
(* hda_find_dac *)

(* The queue runs empty: no DAC. *)
NotFound ==
  /\ pc = "search" /\ queue = <<>>
  /\ pc' = "pins"
  /\ UNCHANGED <<codec, plugged, codecVars, callVars, searchVars, status, setups>>

(* A dangling connection is skipped. *)
PopDangling ==
  /\ pc = "search" /\ queue # <<>> /\ Head(queue) \notin Vertices
  /\ queue' = Tail(queue)
  /\ UNCHANGED <<codec, plugged, codecVars, pc, callVars, parent, pivot, rest, path, status, setups>>

PopDac ==
  /\ pc = "search" /\ queue # <<>> /\ Head(queue) \in Vertices /\ Dac(Head(queue))
  /\ pivot' = Head(queue) /\ queue' = Tail(queue)
  /\ path' = <<>>
  /\ pc' = "trace"
  /\ UNCHANGED <<codec, plugged, codecVars, callVars, parent, rest, status, setups>>

PopNode ==
  /\ pc = "search" /\ queue # <<>> /\ Head(queue) \in Vertices /\ ~Dac(Head(queue))
  /\ pivot' = Head(queue) /\ queue' = Tail(queue)
  /\ rest' = Successors(Head(queue))
  /\ pc' = "expand"
  /\ UNCHANGED <<codec, plugged, codecVars, callVars, parent, path, status, setups>>

EnqueueFront(q, n) == <<n>> \o q        \* mutant of Enqueue: a stack
Enqueue(q, n) == Append(q, n)

Known(n) == parent[n] # NoNode

VisitStops ==                           \* mutant of Visit: the loop is left at a known node
  /\ pc = "expand" /\ rest # <<>>
  /\ LET n == Head(rest) IN
       IF Known(n) THEN rest' = <<>> /\ UNCHANGED <<parent, queue>>
       ELSE /\ parent' = [parent EXCEPT ![n] = pivot] /\ queue' = Enqueue(queue, n)
            /\ rest' = Tail(rest)
  /\ UNCHANGED <<codec, plugged, codecVars, pc, callVars, pivot, path, status, setups>>

(* The next successor is queued unless it has a parent already (which the  *)
(* pin itself has not).                                                    *)
Visit ==
  /\ pc = "expand" /\ rest # <<>>
  /\ LET n == Head(rest) IN
       IF Known(n) THEN UNCHANGED <<parent, queue>>
       ELSE parent' = [parent EXCEPT ![n] = pivot] /\ queue' = Enqueue(queue, n)
  /\ rest' = Tail(rest)
  /\ UNCHANGED <<codec, plugged, codecVars, pc, callVars, pivot, path, status, setups>>

Expanded ==
  /\ pc = "expand" /\ rest = <<>>
  /\ pc' = "search"
  /\ UNCHANGED <<codec, plugged, codecVars, callVars, searchVars, status, setups>>

(* From the DAC back along the parents.  When the pin has got a parent     *)
(* this never ends (the bound: it stops after the second time around).     *)
Trace ==
  /\ pc = "trace" /\ Known(pivot) /\ Len(path) <= 2 * Cardinality(Nodes)
  /\ path' = Append(path, pivot)
  /\ pivot' = parent[pivot]
  /\ UNCHANGED <<codec, plugged, codecVars, pc, callVars, queue, parent, rest, status, setups>>

FoundShort ==                           \* mutant of Found: the last push left out
  /\ pc = "trace" /\ ~Known(pivot)
  /\ pc' = "config"
  /\ UNCHANGED <<codec, plugged, codecVars, callVars, searchVars, status, setups>>

Found ==
  /\ pc = "trace" /\ ~Known(pivot)
  /\ path' = Append(path, pivot)
  /\ pc' = "config"
  /\ UNCHANGED <<codec, plugged, codecVars, callVars, queue, parent, pivot, rest, status, setups>>

(* The search has come back to the pin before it found a DAC. *)
Endless == pc = "trace" /\ Known(pin)
-----------------------------------------------------------------------------
(* Configuring the nodes of a path *)

(* Where the node comes first in a connection list; the driver counts from *)
(* zero.                                                                   *)
FirstIndex(list, n) == CHOOSE i \in DOMAIN list :
                         list[i] = n /\ \A j \in DOMAIN list : list[j] = n => i <= j

(* get_path_next_node (the path is the wrong way round) and                *)
(* find_path_connection_index.                                             *)
IndexBelow(n, next) ==                  \* mutant of Index: counted from zero twice
  FirstIndex(Successors(n), next) - 2
IndexFromOne(n, next) ==                \* mutant of Index: counted from one
  FirstIndex(Successors(n), next)
Index(n, next) == FirstIndex(Successors(n), next) - 1

Towards(n) == path[FirstIndex(path, n) - 1]

Select(n) ==
  IF n \in On(path) \ {path[1]}
    THEN select' = [select EXCEPT ![n] = Index(n, Towards(n))]
    ELSE UNCHANGED select

ToConfigure == {n \in On(path) : n \notin active}

SetStream(n) == streams' = IF Dac(n) THEN streams \cup {n} ELSE streams

(* The nodes of the path that no earlier path has configured: unmuted,     *)
(* switched to the right input; the DAC gets stream and format.  Their     *)
(* order does not show, as nothing else looks at the codec meanwhile.      *)
Configure ==
  /\ pc = "config"
  /\ \E n \in ToConfigure :
       /\ \A m \in ToConfigure : n <= m
       /\ muted' = muted \ {n}
       /\ Select(n)
       /\ SetStream(n)
       /\ active' = active \cup {n}
  /\ UNCHANGED <<codec, plugged, pc, headphones, pin, raised, routed, searchVars, status, setups>>

(* A command fails: what comes before it has been done. *)
ConfigureFails ==
  /\ pc = "config"
  /\ \E n \in ToConfigure :
       /\ \A m \in ToConfigure : n <= m
       /\ \/ UNCHANGED codecVars
          \/ muted' = muted \ {n} /\ UNCHANGED <<select, streams>>
          \/ muted' = muted \ {n} /\ Select(n) /\ UNCHANGED streams
          \/ muted' = muted \ {n} /\ Select(n) /\ SetStream(n) /\ Dac(n)
  /\ pc' = "idle" /\ status' = "error"
  /\ UNCHANGED <<codec, plugged, callVars, searchVars, setups>>

Configured ==
  /\ pc = "config" /\ ToConfigure = {}
  /\ routed' = routed \cup {pin}
  /\ pc' = "pins"
  /\ UNCHANGED <<codec, plugged, codecVars, headphones, pin, active, raised, searchVars, status,
                 setups>>

CollectFails ==
  /\ pc = "collect"
  /\ pc' = "idle" /\ status' = "error"
  /\ UNCHANGED <<codec, plugged, codecVars, callVars, searchVars, setups>>
-----------------------------------------------------------------------------
(* The rest of the codec *)

(* Knobs that are wired to an active node are turned up, and it does not   *)
(* matter when that fails.  The loop marks every node as active, not only  *)
(* the knobs, so that a knob meets all nodes before it as active ones.     *)
Wired(n) == \E s \in Inputs(n) : s \in active \/ (s \in Vertices /\ s < n)

Knobs ==
  /\ pc = "knobs"
  /\ raised' \in SUBSET {n \in Nodes : codec.kind[n] = "knob" /\ Wired(n)}
  /\ active' = active \cup Vertices
  /\ pc' = "mute"
  /\ UNCHANGED <<codec, plugged, codecVars, headphones, pin, routed, searchVars, status, setups>>

(* All other nodes are muted, and their streams ended.  (With every node   *)
(* active there are none, and no command that could fail.)                 *)
MuteRest ==
  /\ pc = "mute"
  /\ muted' = muted \cup (Vertices \ active)
  /\ streams' = streams \ (Vertices \ active)
  /\ pc' = "idle" /\ status' = "success"
  /\ UNCHANGED <<codec, plugged, select, callVars, searchVars, setups>>

Search == \/ NextPin \/ PinsDone \/ NotFound \/ PopDangling \/ PopDac \/ PopNode
          \/ Visit \/ Expanded \/ Trace \/ Found

Setup == \/ Collect \/ CollectFails \/ Configure \/ ConfigureFails \/ Configured
         \/ Knobs \/ MuteRest

Next == Begin \/ Search \/ Setup

Spec == Init /\ [][Next]_vars

(* The firmware runs the driver. *)
FairSpec == Spec /\ WF_vars(Search \/ Setup)
-----------------------------------------------------------------------------
(* Properties. *)

(* hda_find_dac finds a path of the graph from a DAC to the pin, whatever  *)
(* cycles the connections have.                                            *)
PathIsRoute ==
  pc = "config" =>
    /\ path # <<>> /\ Dac(path[1]) /\ path[Len(path)] = pin
    /\ \A i \in 1..Len(path)-1 : path[i] \in Inputs(path[i + 1])

(* The reference: no DAC within a set of nodes that has the pin and all    *)
(* successors of its vertices.                                             *)
DacReachable(p) ==
  \A S \in SUBSET Nodes :
    p \in S /\ (\A n \in S \cap Vertices : Inputs(n) \subseteq S) => \E n \in S : Dac(n)

(* It gives up only when there is no DAC to be reached. *)
SearchIsComplete == [][NotFound => ~DacReachable(pin)]_vars

(* Where the codec takes the sound of pin p from, by its own selection. *)
Source(n) == IF select[n] + 1 \in DOMAIN Successors(n) THEN Successors(n)[select[n] + 1] ELSE n

Route(p) ==
  LET r[k \in 0..Cardinality(Nodes)] == IF k = 0 THEN p ELSE Source(r[k - 1])
  IN r

(* A path that meets the nodes of an earlier one wants from them what they *)
(* have been switched to already ("it is not possible to override previous *)
(* pin selection because we always choose lexigraphically first connection *)
(* to a DAC", 1774-1776), although it was found from another pin.          *)
SelectionsAgree ==
  pc = "config" => \A n \in (On(path) \cap active) \ {path[1]} : Source(n) = Towards(n)

(* After a setup, every pin that was routed plays the stream: the inputs   *)
(* selected lead to a DAC with the stream, and nothing on the way is muted.*)
RoutesWork ==
  status = "success" =>
    \A p \in routed :
      /\ Route(p)[Cardinality(Nodes)] \in streams
      /\ \A k \in 0..Cardinality(Nodes) : Route(p)[k] \notin muted

(* A setup returns, unless the search has come back to the pin. *)
SetupEnds == Busy ~> (~Busy \/ Endless)

(* After a setup, what is on no route is muted ("Mute everything else",    *)
(* main.rs 1819).                                                          *)
OthersMuted ==
  status = "success" =>
    \A n \in Vertices : n \in muted
                        \/ \E p \in routed, k \in 0..Cardinality(Nodes) : n = Route(p)[k]
=============================================================================
