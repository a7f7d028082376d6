---------------------------- MODULE MCCompletion ----------------------------
(* Values of the constants of Completion for TLC: letters A = 1, a = 11, b = 12. *)
EXTENDS Completion

SixWords == {<<11>>, <<11, 11>>, <<11, 12>>, <<12>>, <<12, 11>>, <<1, 12>>}
OneByOne == {<<w>> : w \in SixWords}
TwoPrefixes == {<<11>>, <<1>>}
TwoFiles == << <<11, 1>>, <<11, 13>> >>
SomeAnswers == {<<>>, << <<12>>, <<>>, <<11>> >>}

(* Trees without the addresses of their nodes: states that differ in these *)
(* only are the same for TLC, as are all ends, and the uses of an option that *)
(* nobody looks at any more.                                              *)
RECURSIVE Shape(_, _)
Shape(m, x) ==
  IF x = RBNULL THEN <<>>
  ELSE <<m.key[x], m.colour[x], m.key[m.up[x]],
         Shape(m, m.child["left"][x]), Shape(m, m.child["right"][x])>>

WithoutAddresses ==
  IF stage = "failed" THEN <<stage>>
  ELSE <<stage, filter, stage = "options" /\ opt_f, returned, memory.case_sensitive,
         Shape(memory, memory.root["completion"]), Shape(memory, memory.root["scratch"]),
         memory.key[scratch_list], memory.key[memory.up[RBNULL]],
         memory.up[RBNULL] = RBNULL>>
=============================================================================
