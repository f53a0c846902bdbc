--------------------------- MODULE LeasedPublisher ---------------------------
(***************************************************************************)
(* What CommandStream and its port promise the motion backend, without      *)
(* threads, locks or clocks: commands are acknowledged one at a time and     *)
(* only after the robot acted on them; closing is final; at most one stray   *)
(* target acts once the lease or the stream has ended; and the robot is left *)
(* at a hold, or the caller is told that nobody knows.                       *)
(***************************************************************************)
EXTENDS Naturals

VARIABLES
    phase,      \* "open", "closing", then "held" or "unconfirmed"
    commanded,  \* commands accepted so far
    acked,      \* commands acknowledged so far
    robot,      \* what the robot last acted on
    stray       \* a target acted after its lease or the closing

vars == <<phase, commanded, acked, robot, stray>>

Init ==
    /\ phase = "open" /\ commanded = 0 /\ acked = 0 /\ stray = FALSE
    /\ robot = [kind |-> "none", seq |-> 0]

Command ==
    /\ phase = "open" /\ ~stray /\ commanded = acked
    /\ commanded' = commanded + 1
    /\ UNCHANGED <<phase, acked, robot, stray>>

\* The previous target is repeated until the writer has picked up the new one.
Act ==
    /\ phase = "open" /\ ~stray
    /\ \E s \in {acked, commanded} : robot' = [kind |-> "target", seq |-> s]
    /\ UNCHANGED <<phase, commanded, acked, stray>>

Acknowledge ==
    /\ phase = "open" /\ ~stray /\ robot.kind = "target"
    /\ acked' = robot.seq
    /\ UNCHANGED <<phase, commanded, robot, stray>>

ActLate ==
    /\ phase \in {"open", "closing"} /\ ~stray
    /\ \E s \in {acked, commanded} : robot' = [kind |-> "target", seq |-> s]
    /\ stray' = TRUE
    /\ UNCHANGED <<phase, commanded, acked>>

Close ==
    /\ phase = "open" /\ phase' = "closing"
    /\ UNCHANGED <<commanded, acked, robot, stray>>

Hold ==
    /\ phase = "closing" /\ phase' = "held"
    /\ robot' \in {robot, [robot EXCEPT !.kind = "hold"]}
    /\ robot'.kind # "target"
    /\ UNCHANGED <<commanded, acked, stray>>

GiveUp ==
    /\ phase = "closing" /\ phase' = "unconfirmed"
    /\ robot' \in {robot, [robot EXCEPT !.kind = "hold"]}
    /\ UNCHANGED <<commanded, acked, stray>>

Next == Command \/ Act \/ Acknowledge \/ ActLate \/ Close \/ Hold \/ GiveUp

Spec == Init /\ [][Next]_vars

==============================================================================
