------------------------------- MODULE ArmHold -------------------------------
(***************************************************************************)
(* What a motion backend promises whoever owns it (ActorRuntime, and the    *)
(* reset loops): commands go out only while the backend is live; a stop is   *)
(* reported as a hold, after which the robot does nothing more, or as        *)
(* unconfirmed, and then it may be asked again.                              *)
(***************************************************************************)
EXTENDS Naturals

VARIABLES
    hold,       \* "live", "held" or "unconfirmed": what the last stop reported
    commands,   \* commands submitted
    robot       \* "none", "target" or "hold": what the robot last acted on

vars == <<hold, commands, robot>>

Init == hold = "live" /\ commands = 0 /\ robot = "none"

Command ==
    /\ hold = "live" /\ commands' = commands + 1
    /\ UNCHANGED <<hold, robot>>

\* Until a hold is confirmed the robot may still act on what it was sent.
RobotActs ==
    /\ hold # "held" /\ robot' \in {"target", "hold"}
    /\ UNCHANGED <<hold, commands>>

StopConfirmed ==
    /\ robot # "target" /\ hold' = "held"
    /\ UNCHANGED <<commands, robot>>

StopFails ==
    /\ hold # "held" /\ hold' = "unconfirmed"
    /\ UNCHANGED <<commands, robot>>

Next == Command \/ RobotActs \/ StopConfirmed \/ StopFails

Spec == Init /\ [][Next]_vars

==============================================================================
