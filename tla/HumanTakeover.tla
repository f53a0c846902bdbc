---------------------------- MODULE HumanTakeover ----------------------------
(***************************************************************************)
(* AutomaticIntervention as the Actor calls it (real_actor.py, env.py): at  *)
(* each poll while it waits for the start chord, in the wait for a          *)
(* verifiable gate before a step, and inside env.step, where the answer     *)
(* decides who commands the robot.  The row records what the transition     *)
(* validator will see.                                                      *)
(***************************************************************************)
EXTENDS Intervention

CONSTANTS MaxTime, MaxReports   \* bounds of the model

ASSUME TakeoverBoundsAssumption == MaxTime \in Nat /\ MaxReports \in Nat

VARIABLES
    pc,        \* the Actor's loop: waiting for the chord, at the gate wait,
               \* before env.step, or stopped
    row,       \* the episode's last recorded step
    reports,   \* history: device events so far
    zeroSeen,  \* history: stamps of the last all-zero frame a call saw fresh
    neutralFrom  \* history: when the run of neutral frames began that calls
                 \* have seen without a break

historyVars == <<reports, zeroSeen, neutralFrom>>
vars == <<now, deviceVars, sourceVars, pc, row, historyVars>>

Row == [human : BOOLEAN, moves : BOOLEAN, engaging : BOOLEAN, fresh : BOOLEAN,
        verified : BOOLEAN, zeroSeen : BOOLEAN]

TypeOK ==
    /\ InterventionTypeOK
    /\ pc \in {"waiting", "gate", "step", "stopped"}
    /\ row \in Row \cup {None}
    /\ reports \in 0..MaxReports /\ now <= MaxTime
    /\ zeroSeen \in Stamps \cup {None} /\ neutralFrom \in Nat \cup {None}

Init ==
    /\ InterventionInit
    /\ pc = "waiting" /\ row = None
    /\ reports = 0 /\ zeroSeen = None /\ neutralFrom = None

-----------------------------------------------------------------------------
\* What a call that read the device adds to the history.
SeeFrame ==
    /\ zeroSeen' = IF Fresh(frame) /\ ExactlyZero(frame) THEN frame.stamps ELSE zeroSeen
    /\ neutralFrom' = IF ~Neutral(frame) THEN None
                      ELSE IF neutralFrom = None THEN now ELSE neutralFrom
    /\ UNCHANGED reports

DeviceEvent ==
    /\ reports < MaxReports
    /\ reports' = reports + 1
    /\ \/ \E c \in Channel, level \in Level : ReportAxes(c, level)
       \/ \E left \in BOOLEAN : ReportButton(left)
       \/ plugged /\ Unplug
       \/ Restart
    /\ UNCHANGED <<pc, row, zeroSeen, neutralFrom>>

Pass == now < MaxTime /\ Tick /\ UNCHANGED <<pc, row, historyVars>>

\* Waiting for the start chord, which ends with both buttons released.
WaitForStart ==
    /\ pc = "waiting"
    /\ CallBeforeReady \/ CallDiscard(FALSE) \/ CallDecides
    /\ SeeFrame
    /\ \/ pc' = "waiting" /\ UNCHANGED row
       \/ ~frame.left /\ pc' = "gate" /\ row' = None

GateOpen == gate.fresh \/ verifiedNeutral

\* The gate was verifiable when it was last read.
PassGate ==
    /\ pc = "gate" /\ GateOpen
    /\ pc' = "step"
    /\ UNCHANGED <<now, deviceVars, sourceVars, row, historyVars>>

\* Before the first step: call until it is, InputNotVerifiable is "a wait".
WaitAtGate ==
    /\ pc = "gate" /\ ~GateOpen
    /\ CallBeforeReady \/ CallDecides \/ CallNotVerifiable(TRUE)
    /\ SeeFrame
    /\ pc' = IF GateOpen' THEN "step" ELSE "gate"
    /\ UNCHANGED row

\* Mutant: the step uses the answer of the gate wait.
StepWithoutCall ==
    /\ pc = "step"
    /\ row' = [human |-> active,
               moves |-> gate.armed /\ ~Neutral(frame),
               engaging |-> Fresh(frame) /\ \E c \in Relevant(frame) : frame.axes[c] = Motion,
               fresh |-> gate.fresh, verified |-> verifiedNeutral,
               zeroSeen |-> zeroSeen = frame.stamps]
    /\ pc' \in {"gate", "waiting"}
    /\ UNCHANGED <<now, deviceVars, sourceVars, historyVars>>

\* env.step calls again, then commands; the row reads the gate afterwards. One step:
\* what the device reports while the command is sent, neither looks at before the next call.
EnvStep ==
    /\ pc = "step"
    /\ CallDecides
    /\ SeeFrame
    /\ row' = [human |-> active',
               moves |-> gate'.armed /\ ~Neutral(frame),
               engaging |-> Fresh(frame) /\ \E c \in Relevant(frame) : frame.axes[c] = Motion,
               fresh |-> gate'.fresh, verified |-> verifiedNeutral',
               zeroSeen |-> zeroSeen' = frame.stamps]
    /\ pc' \in {"gate", "waiting"}

\* A latched source, a lost device, or mid-episode an unverifiable input.
Fail ==
    /\ pc # "stopped"
    /\ \/ pc # "step" /\ CallDeviceLost
       \/ pc = "gate" /\ fault /\ UNCHANGED <<now, deviceVars, sourceVars>>
       \/ pc = "step" /\ (CallDeviceLost \/ CallNotVerifiable(TRUE))
    /\ pc' = "stopped"
    /\ UNCHANGED <<row, historyVars>>

Next == Pass \/ DeviceEvent \/ WaitForStart \/ PassGate \/ WaitAtGate \/ EnvStep \/ Fail

Spec == Init /\ [][Next]_vars

-----------------------------------------------------------------------------
\* Every step the Actor sends has the provenance the Learner's validator
\* demands: a fresh report or a verified all-zero hold, and under the hold a
\* human command is zero (_validate_real_transition, real_actor.py).
RowsAreAdmissible ==
    row # None =>
        /\ row.fresh \/ row.verified
        /\ ~row.fresh /\ row.human => ~row.moves

\* Silence never stands for a released knob: a step taken without a fresh
\* report rests on an all-zero report some call saw while it was fresh.
SilenceNeedsObservedZero == row # None /\ ~row.fresh => row.zeroSeen

\* The policy never commands a step over a live engaging motion.
HumanWins == row # None /\ row.engaging => row.human

\* Once the human has commanded a step, the policy commands again only when
\* every call of the last release_hold_s saw a neutral knob.
PolicyResumesAfterHold ==
    [][row # None /\ row' # None /\ row.human /\ ~row'.human =>
           /\ neutralFrom' # None
           /\ now >= neutralFrom' + ReleaseHold]_vars

\* "Before the first step of an episode an unverifiable gate is a 'wait', never
\* a fault" (real_actor.py:870).
GateWaitIsNotAFault == pc = "gate" => ~fault

=============================================================================
