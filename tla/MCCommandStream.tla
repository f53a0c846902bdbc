--------------------------- MODULE MCCommandStream ---------------------------
(* An instance of CommandStream for TLC: two threads that submit.             *)
EXTENDS CommandStream
CONSTANTS c1, c2
TwoCallers == {c1, c2}
==============================================================================
