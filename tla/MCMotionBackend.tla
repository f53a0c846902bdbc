--------------------------- MODULE MCMotionBackend ---------------------------
(* An instance of MotionBackend for TLC: its one caller.                       *)
EXTENDS MotionBackend
MainOnly == {Main}
==============================================================================
