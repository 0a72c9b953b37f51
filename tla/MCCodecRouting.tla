--------------------------- MODULE MCCodecRouting ---------------------------
(***************************************************************************)
(* Two pins, two inner nodes and two DACs under many choices of short      *)
(* connection lists, cycles of the inner nodes and back to the first pin   *)
(* included; and a few codecs with a hidden pin and a volume knob.         *)
(***************************************************************************)
EXTENDS CodecRouting

(* Lists without repetitions, of at most two of the nodes in S. *)
Lists(S) == {<<>>} \cup {<<a>> : a \in S} \cup {<<p[1], p[2]>> : p \in {q \in S \X S : q[1] # q[2]}}

Of(kind, a, b, c, d, f) == [kind |-> kind, list |-> <<a, b, c, d, <<>>, f>>]

MCCodecs ==
  {Of(<<"pin", "pin", "inner", "inner", "dac", "dac">>, a, b, c, d, <<>>) :
      a \in Lists({3, 4}), b \in {<<3>>, <<4, 3>>, <<6, 3>>}, c \in Lists({1, 4, 5}),
      d \in Lists({5, 6}) \cup {<<3>>, <<3, 5>>, <<6, 3>>}}
  \cup
  {Of(<<"pin", "pin", "inner", "hidden", "dac", "knob">>, a, b, c, <<5>>, f) :
      a \in Lists({3, 4}), b \in {<<5>>, <<4, 3>>}, c \in Lists({4, 5}), f \in {<<3>>, <<4>>}}
=============================================================================
