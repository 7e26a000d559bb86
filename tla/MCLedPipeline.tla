--------------------------- MODULE MCLedPipeline ---------------------------
(* Instances of LedPipeline for TLC. *)
EXTENDS LedPipelineInv

(* Two complementary words whose bits change from one to the next in every *)
(* colour, so that a swapped colour or bit order is seen.                  *)
VectorOf(s) == [i \in 0..ColourBits-1 |-> s[(i % Len(s)) + 1]]
WordA == [red |-> VectorOf(<<1, 0>>), green |-> VectorOf(<<0, 1>>),
          blue |-> VectorOf(<<1, 1>>)]
WordB == [red |-> VectorOf(<<0, 0>>), green |-> VectorOf(<<1, 1>>),
          blue |-> VectorOf(<<0, 1>>)]
MCWords == {WordA, WordB}
=============================================================================
