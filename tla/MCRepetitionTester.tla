------------------------- MODULE MCRepetitionTester -------------------------
(* Instances of RepetitionTester for TLC: two frequencies, the smaller of which leaves no time to try. *)
EXTENDS RepetitionTester

MCFrequencies == {0, 1}
=============================================================================
