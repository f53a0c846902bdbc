---------------------------- MODULE Intervention ----------------------------
(***************************************************************************)
(* AutomaticIntervention and its LiveInputGate (spacemouse.py): one call    *)
(* polls the SpaceMouse once and decides who controls the next step, or     *)
(* latches a fault.  Silence is not a heartbeat: a step needs a report      *)
(* younger than MaxAge, or an all-zero report that was itself observed      *)
(* while fresh.  The device (the vendor's HID reader) is external: it keeps *)
(* the last report of each axis channel and the time it came.               *)
(***************************************************************************)
EXTENDS Naturals

CONSTANTS
    None,
    MaxAge,       \* report_max_age_s
    ReleaseHold   \* release_hold_s

ASSUME BoundsAssumption == MaxAge \in Nat /\ ReleaseHold \in Nat \ {0}

Channel == {"xyz", "rpy"}
\* How far a channel's worst axis is displaced: not at all; inside the release
\* deadzone; beyond it but too little to engage; enough to engage.
Zero == 0
Drift == 1
Creep == 2
Motion == 3
Level == Zero..Motion

VARIABLES
    now,         \* the monotonic clock
    frame,       \* the reader's frame: axes, axis_times, left button, and
                 \* whether the buttons have reported at all
    plugged,     \* poll() returns rather than raises
    gate,        \* LiveInputGate: mapper.armed, fresh, neutral_evidence
    active,      \* the human is in control
    neutralSince,
    lastStamps,  \* last_stamps
    zeroEvidence,    \* _zero_evidence: the stamps of an observed all-zero report
    verifiedNeutral,
    fault        \* the latch

deviceVars == <<frame, plugged>>
sourceVars == <<gate, active, neutralSince, lastStamps, zeroEvidence,
                verifiedNeutral, fault>>

Stamps == [Channel -> Nat \cup {None}]
Frame == [axes : [Channel -> Level], stamps : Stamps, left : BOOLEAN,
          buttons : BOOLEAN]
NoStamps == [c \in Channel |-> None]

ASSUME NoneAssumption == None \notin Nat /\ None \notin Stamps

InterventionTypeOK ==
    /\ now \in Nat
    /\ frame \in Frame /\ plugged \in BOOLEAN
    /\ gate \in [armed : BOOLEAN, fresh : BOOLEAN,
                 evidence : [stamps : Stamps, left : BOOLEAN] \cup {None}]
    /\ active \in BOOLEAN /\ verifiedNeutral \in BOOLEAN /\ fault \in BOOLEAN
    /\ neutralSince \in (IF active THEN Nat ELSE {}) \cup {None}
    /\ lastStamps \in Stamps \cup {None} /\ zeroEvidence \in Stamps \cup {None}

ClosedGate == [armed |-> FALSE, fresh |-> FALSE, evidence |-> None]

InterventionInit ==
    /\ now = 0
    /\ frame = [axes |-> [c \in Channel |-> Zero], stamps |-> NoStamps,
                left |-> FALSE, buttons |-> FALSE]
    /\ plugged = TRUE
    /\ gate = ClosedGate
    /\ active = FALSE /\ neutralSince = None
    /\ lastStamps = None /\ zeroEvidence = None /\ verifiedNeutral = FALSE
    /\ fault = FALSE

-----------------------------------------------------------------------------
\* The device (external).  It reports a channel when the knob moves it, and is
\* ready once both channels and the buttons have reported.
Tick == now' = now + 1 /\ UNCHANGED <<deviceVars, sourceVars>>

ReportAxes(c, level) ==
    /\ frame' = [frame EXCEPT !.axes[c] = level, !.stamps[c] = now]
    /\ UNCHANGED <<now, plugged, sourceVars>>

ReportButton(left) ==
    /\ frame' = [frame EXCEPT !.left = left, !.buttons = TRUE]
    /\ UNCHANGED <<now, plugged, sourceVars>>

Unplug == plugged' = FALSE /\ UNCHANGED <<now, frame, sourceVars>>

\* The device starts over: its reader has no report of it any more.
Restart ==
    /\ frame' = [frame EXCEPT !.buttons = FALSE, !.stamps = NoStamps]
    /\ UNCHANGED <<now, plugged, sourceVars>>

-----------------------------------------------------------------------------
Ready(f) == f.buttons /\ \A c \in Channel : f.stamps[c] # None

\* The left button selects six axes rather than three.
Relevant(f) == IF f.left THEN Channel ELSE {"xyz"}
Fresh(f) ==
    /\ Ready(f)
    /\ \A c \in Relevant(f) : now <= f.stamps[c] + MaxAge
Neutral(f) == \A c \in Relevant(f) : f.axes[c] <= Drift
ExactlyZero(f) == \A c \in Channel : f.axes[c] = Zero

\* LiveInputGate.update after the first live report armed the mapper.
GateUpdate(f) ==
    LET evidence == [stamps |-> f.stamps, left |-> f.left]
        idle == Ready(f) /\ Neutral(f) /\ gate.evidence = evidence
        armed == (Fresh(f) \/ idle) /\ (gate.armed \/ Fresh(f) \/ Neutral(f))
    IN  [armed |-> armed,
         fresh |-> Fresh(f),
         evidence |-> IF Fresh(f) /\ Neutral(f) /\ armed THEN evidence
                      ELSE IF idle THEN gate.evidence ELSE None]

NewReport(f) ==
    lastStamps = None \/ \E c \in Channel : f.stamps[c] > lastStamps[c]

\* Mutant: an all-zero report counts however old it is.
ZeroNeedsNoFreshness(f) ==
    IF ~ExactlyZero(f) THEN None
    ELSE IF NewReport(f) THEN f.stamps ELSE zeroEvidence

\* Only a new all-zero report, seen while fresh, is evidence of a released knob.
ZeroEvidence(f) ==
    IF ~ExactlyZero(f) THEN None
    ELSE IF NewReport(f) /\ Fresh(f) /\ GateUpdate(f).armed THEN f.stamps
    ELSE zeroEvidence

Verified(f) == ExactlyZero(f) /\ ZeroEvidence(f) = f.stamps

-----------------------------------------------------------------------------
\* One call.  A latched source raises at once, which changes nothing.
CanCall == ~fault

\* The reader has no complete report yet: hold at zero.
CallBeforeReady ==
    /\ CanCall /\ plugged
    /\ ~Ready(frame) /\ lastStamps = None
    /\ gate' = ClosedGate /\ active' = FALSE
    /\ UNCHANGED <<now, deviceVars, neutralSince, lastStamps, zeroEvidence,
                   verifiedNeutral, fault>>

\* Whatever a call raises is latched, and everything it knew is dropped.
Latch ==
    /\ fault' = TRUE /\ active' = FALSE /\ neutralSince' = None
    /\ lastStamps' = None /\ zeroEvidence' = None /\ verifiedNeutral' = FALSE
    /\ gate' = ClosedGate
    /\ UNCHANGED <<now, deviceVars>>

\* poll() raised, or the reports it once had are gone.
DeviceLost == ~plugged \/ (~Ready(frame) /\ lastStamps # None)

CallDeviceLost == CanCall /\ DeviceLost /\ Latch

CanRead == CanCall /\ plugged /\ Ready(frame)

\* Mutant: a report inside the deadzone is good enough however old.
NeutralIsVerifiable == Fresh(frame) \/ Neutral(frame)

Verifiable == Fresh(frame) \/ Verified(frame)

\* While no episode runs, expired input is discarded and must arm again.
CallDiscard(requireFresh) ==
    /\ CanRead /\ ~Verifiable /\ ~requireFresh
    /\ lastStamps' = frame.stamps
    /\ active' = FALSE /\ neutralSince' = None
    /\ zeroEvidence' = None /\ verifiedNeutral' = FALSE
    /\ gate' = ClosedGate
    /\ UNCHANGED <<now, deviceVars, fault>>

\* While an episode runs it is InputNotVerifiable.
CallNotVerifiable(requireFresh) ==
    /\ CanRead /\ ~Verifiable /\ requireFresh
    /\ Latch

Moving(f) == GateUpdate(f).armed /\ \E c \in Relevant(f) : f.axes[c] = Motion

\* A report that lets the release hold run.
HoldsNeutral(f) == Verified(f) \/ (Fresh(f) /\ NewReport(f) /\ Neutral(f))

\* Mutant: the first neutral report hands control back.
ReleaseAtOnce(f) == HoldsNeutral(f)

\* The hold has lasted: the policy may have control back.
ReleaseDue(f) ==
    /\ HoldsNeutral(f)
    /\ now >= (IF neutralSince = None THEN now ELSE neutralSince) + ReleaseHold

\* The call that decides: motion engages, held neutrality releases.
CallDecides ==
    /\ CanRead /\ Verifiable
    /\ gate' = GateUpdate(frame)
    /\ lastStamps' = frame.stamps
    /\ zeroEvidence' = ZeroEvidence(frame) /\ verifiedNeutral' = Verified(frame)
    /\ active' = (Moving(frame) \/ (active /\ ~ReleaseDue(frame)))
    /\ neutralSince' =
           IF Moving(frame) \/ (active /\ (~HoldsNeutral(frame) \/ ReleaseDue(frame)))
           THEN None
           ELSE IF active /\ neutralSince = None THEN now
           ELSE neutralSince
    /\ UNCHANGED <<now, deviceVars, fault>>

=============================================================================
