-------------------------------- MODULE MCLocal --------------------------------
(***************************************************************************)
(* Instances of LocalInference for TLC.                                    *)
(***************************************************************************)
EXTENDS LocalInvariant, TLC

CONSTANTS c1, c2, j1, j2

small == [name |-> "qwen", tag |-> "7b"]
latest == [name |-> "qwen", tag |-> "latest"]

\* Two models of one name: one window under the cap, one over it.
TwoRefs == {small, latest}
TwoWindows == [r \in TwoRefs |-> IF r = small THEN 4 ELSE 32]

FullNames == {small, latest}

\* Plain, with tools, and with so many tools that the size alone decides.
SomeShapes == {[tools |-> FALSE, huge |-> FALSE, coding |-> FALSE],
               [tools |-> TRUE, huge |-> FALSE, coding |-> FALSE],
               [tools |-> TRUE, huge |-> TRUE, coding |-> TRUE]}

\* A stream, a whole answer, a CAD model with and without a drawing.
SomeForms == {[stream |-> TRUE, cad |-> FALSE, image |-> FALSE],
              [stream |-> FALSE, cad |-> FALSE, image |-> FALSE],
              [stream |-> FALSE, cad |-> TRUE, image |-> TRUE],
              [stream |-> TRUE, cad |-> TRUE, image |-> FALSE]}

Symmetry == Permutations({c1, c2}) \cup Permutations({j1, j2})
=============================================================================
