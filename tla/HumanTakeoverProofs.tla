------------------------- MODULE HumanTakeoverProofs -------------------------
(***************************************************************************)
(* HumanTakeover for every MaxAge, ReleaseHold and number of reports: the   *)
(* type invariant, what each sent step rests on, and when the policy may    *)
(* have control back.                                                       *)
(***************************************************************************)
EXTENDS HumanTakeover, TLAPS

USE BoundsAssumption, NoneAssumption, TakeoverBoundsAssumption
    DEF Channel, Level, Zero, Drift, Creep, Motion

GateSet == [armed : BOOLEAN, fresh : BOOLEAN,
            evidence : [stamps : Stamps, left : BOOLEAN] \cup {None}]

\* The human is in control only of a source that has read the device.
ActiveInv == active => lastStamps # None

\* The release hold began inside the run of neutral frames.
HoldInv ==
    /\ neutralSince # None =>
           /\ active
           /\ neutralFrom # None
           /\ neutralFrom <= neutralSince
    /\ neutralFrom # None => neutralFrom <= now

\* Evidence of a released knob is no newer than the last all-zero frame seen
\* fresh, and the device has nothing older than that.
EvidenceInv ==
    /\ zeroEvidence # None =>
           /\ zeroSeen # None
           /\ \A c \in Channel : zeroEvidence[c] \in Nat /\ zeroEvidence[c] <= zeroSeen[c]
    /\ zeroSeen # None =>
           \A c \in Channel :
               /\ zeroSeen[c] \in Nat /\ zeroSeen[c] <= now
               /\ frame.stamps[c] # None => zeroSeen[c] <= frame.stamps[c]
    /\ \A c \in Channel : frame.stamps[c] # None => frame.stamps[c] <= now

\* Inside an episode that has a step the gate was open, and the human who
\* commanded the last step is in control still.
EpisodeInv ==
    /\ row # None /\ pc \in {"gate", "step"} => GateOpen
    /\ row # None /\ pc \in {"gate", "step"} /\ row.human => active

\* What the source and the device keep between them, and what the Actor has.
SourceInv ==
    /\ InterventionTypeOK
    /\ zeroSeen \in Stamps \cup {None} /\ neutralFrom \in Nat \cup {None}
    /\ ActiveInv /\ HoldInv /\ EvidenceInv
ActorInv ==
    /\ pc \in {"waiting", "gate", "step", "stopped"}
    /\ row \in Row \cup {None}
    /\ EpisodeInv
    /\ RowsAreAdmissible /\ SilenceNeedsObservedZero /\ HumanWins

IInv == SourceInv /\ ActorInv /\ reports \in 0..MaxReports /\ now <= MaxTime

-----------------------------------------------------------------------------
LEMMA ClosedGateTyped == ClosedGate \in GateSet
  BY DEF ClosedGate, GateSet

LEMMA GateTyped ==
  ASSUME frame \in Frame, gate \in GateSet
  PROVE  GateUpdate(frame) \in GateSet
  <1>1. Fresh(frame) \in BOOLEAN BY DEF Fresh
  <1>2. [stamps |-> frame.stamps, left |-> frame.left] \in [stamps : Stamps, left : BOOLEAN]
    BY DEF Frame
  <1> QED BY <1>1, <1>2 DEF GateUpdate, GateSet

\* The initial states satisfy the invariant.
LEMMA InitInv == Init => IInv
  <1> SUFFICES ASSUME Init PROVE IInv
    OBVIOUS
  <1>1. NoStamps \in Stamps BY DEF NoStamps, Stamps
  <1>2. [c \in Channel |-> Zero] \in [Channel -> Level] OBVIOUS
  <1>3. frame \in Frame BY <1>1, <1>2 DEF Init, InterventionInit, Frame
  <1>4. gate \in GateSet BY ClosedGateTyped DEF Init, InterventionInit
  <1>5. InterventionTypeOK
    <2>1. now \in Nat /\ plugged \in BOOLEAN BY DEF Init, InterventionInit
    <2>2. active \in BOOLEAN /\ verifiedNeutral \in BOOLEAN /\ fault \in BOOLEAN
      BY DEF Init, InterventionInit
    <2>3. neutralSince = None /\ lastStamps = None /\ zeroEvidence = None
      BY DEF Init, InterventionInit
    <2> QED BY <1>3, <1>4, <2>1, <2>2, <2>3 DEF InterventionTypeOK, GateSet
  <1>6. ActiveInv /\ HoldInv BY DEF Init, InterventionInit, ActiveInv, HoldInv
  <1>7. EvidenceInv
    BY DEF Init, InterventionInit, EvidenceInv, NoStamps
  <1>8. SourceInv BY <1>5, <1>6, <1>7 DEF SourceInv, Init
  <1>9. ActorInv
    BY DEF Init, ActorInv, EpisodeInv, RowsAreAdmissible, SilenceNeedsObservedZero, HumanWins
  <1> QED BY <1>8, <1>9 DEF IInv, Init, InterventionInit

-----------------------------------------------------------------------------
\* A call that latches a fault, or one that discards what it read.
LEMMA DropsInv ==
  ASSUME SourceInv,
         CallDiscard(FALSE) \/ CallNotVerifiable(TRUE) \/ CallDeviceLost \/ CallBeforeReady,
         SeeFrame \/ UNCHANGED historyVars
  PROVE  SourceInv'
  <1> USE DEF SourceInv
  <1>1. /\ now' = now /\ frame' = frame /\ plugged' = plugged
        /\ fault' \in BOOLEAN /\ gate' = ClosedGate
    BY DEF CallDiscard, CallNotVerifiable, CallDeviceLost, CallBeforeReady, Latch,
           deviceVars, InterventionTypeOK
  <1>2. active' \in BOOLEAN /\ ~active' /\ verifiedNeutral' \in BOOLEAN
    BY Zenon DEF CallDiscard, CallNotVerifiable, CallDeviceLost, CallBeforeReady, Latch,
           InterventionTypeOK
  <1>3. neutralSince' = None
    BY DEF CallDiscard, CallNotVerifiable, CallDeviceLost, CallBeforeReady, Latch,
           HoldInv, ActiveInv
  <1>4. lastStamps' \in Stamps \cup {None}
    BY DEF CallDiscard, CallNotVerifiable, CallDeviceLost, CallBeforeReady, Latch,
           InterventionTypeOK, Frame
  <1>5. zeroEvidence' \in {None, zeroEvidence}
    BY DEF CallDiscard, CallNotVerifiable, CallDeviceLost, CallBeforeReady, Latch
  <1>6. InterventionTypeOK'
    BY <1>1, <1>2, <1>3, <1>4, <1>5, ClosedGateTyped DEF InterventionTypeOK, GateSet
  <1>7. /\ zeroSeen' \in Stamps \cup {None}
        /\ neutralFrom' \in Nat \cup {None}
    BY DEF SeeFrame, InterventionTypeOK, Frame, historyVars
  <1>8. EvidenceInv'
    <2>1. CASE zeroSeen' = zeroSeen
      BY <1>1, <1>5, <2>1 DEF EvidenceInv
    <2>2. CASE zeroSeen' = frame.stamps /\ Fresh(frame)
      <3>1. \A c \in Channel : frame.stamps[c] # None
        BY <2>2 DEF Fresh, Ready
      <3> QED BY <1>1, <1>5, <2>2, <3>1 DEF EvidenceInv, InterventionTypeOK, Frame, Stamps
    <2> QED BY <2>1, <2>2 DEF SeeFrame, historyVars
  <1>9. neutralFrom' # None => neutralFrom' <= now'
    BY <1>1 DEF SeeFrame, HoldInv, InterventionTypeOK, historyVars
  <1> QED BY <1>2, <1>3, <1>6, <1>7, <1>8, <1>9 DEF ActiveInv, HoldInv

\* A call that decides.
LEMMA DecidesInv ==
  ASSUME SourceInv, CallDecides, SeeFrame
  PROVE  SourceInv'
  <1> USE DEF SourceInv
  <1>1. /\ now' = now /\ frame' = frame /\ plugged' = plugged /\ fault' = fault
        /\ gate' = GateUpdate(frame) /\ lastStamps' = frame.stamps
        /\ zeroEvidence' = ZeroEvidence(frame) /\ verifiedNeutral' = Verified(frame)
        /\ active' = (Moving(frame) \/ (active /\ ~ReleaseDue(frame)))
    BY DEF CallDecides, deviceVars
  <1>2. frame.stamps \in Stamps BY DEF InterventionTypeOK, Frame
  <1>3. \A c \in Channel : frame.stamps[c] \in Nat
    BY <1>2 DEF CallDecides, CanRead, Ready, Stamps
  <1>4. active' \in BOOLEAN
    <2>1. Moving(frame) \in BOOLEAN BY DEF Moving
    <2> QED BY <1>1, <2>1, Zenon
  <1>5. Verified(frame) \in BOOLEAN BY DEF Verified
  <1>6. ZeroEvidence(frame) \in Stamps \cup {None}
    BY <1>2 DEF ZeroEvidence, InterventionTypeOK
  <1> DEFINE clear == Moving(frame) \/ (active /\ (~HoldsNeutral(frame) \/ ReleaseDue(frame)))
  <1>7. /\ clear => neutralSince' = None
        /\ ~clear => neutralSince' = IF active /\ neutralSince = None THEN now ELSE neutralSince
    BY DEF CallDecides
  <1>8. neutralFrom' = IF ~Neutral(frame) THEN None
                       ELSE IF neutralFrom = None THEN now ELSE neutralFrom
    BY DEF SeeFrame
  <1>9. HoldsNeutral(frame) => Neutral(frame)
    BY DEF HoldsNeutral, Verified, ExactlyZero, Neutral, Relevant
  <1>10. neutralSince' # None =>
            /\ active' /\ neutralSince' \in Nat
            /\ neutralFrom' # None /\ neutralFrom' <= neutralSince'
    <2> SUFFICES ASSUME neutralSince' # None
                 PROVE  /\ active' /\ neutralSince' \in Nat
                        /\ neutralFrom' # None /\ neutralFrom' <= neutralSince'
      OBVIOUS
    <2>1. ~clear BY <1>7
    <2>2. active BY <1>7, <2>1 DEF HoldInv
    <2>3. Neutral(frame) BY <1>9, <2>1, <2>2
    <2>4. active' BY <1>1, <2>1, <2>2, Zenon
    <2>5. CASE neutralSince = None
      <3>1. neutralSince' = now BY <1>7, <2>1, <2>2, <2>5
      <3>2. neutralFrom' = IF neutralFrom = None THEN now ELSE neutralFrom
        BY <1>8, <2>3
      <3>3. neutralFrom # None => neutralFrom <= now
        BY DEF HoldInv
      <3> QED BY <2>4, <3>1, <3>2, <3>3 DEF InterventionTypeOK
    <2>6. CASE neutralSince # None
      <3>1. neutralSince' = neutralSince BY <1>7, <2>1, <2>6
      <3>2. neutralFrom # None /\ neutralFrom <= neutralSince BY <2>6 DEF HoldInv
      <3> QED BY <1>8, <2>2, <2>3, <2>4, <2>6, <3>1, <3>2 DEF InterventionTypeOK
    <2> QED BY <2>5, <2>6
  <1>11. InterventionTypeOK'
    BY <1>1, <1>2, <1>4, <1>5, <1>6, <1>10, GateTyped DEF InterventionTypeOK, GateSet
  <1>12. /\ zeroSeen' \in Stamps \cup {None}
         /\ neutralFrom' \in Nat \cup {None}
    BY <1>2, <1>8 DEF SeeFrame, InterventionTypeOK
  <1>13. EvidenceInv'
    <2>1. \/ zeroEvidence' = frame.stamps /\ Fresh(frame) /\ ExactlyZero(frame)
          \/ zeroEvidence' \in {None, zeroEvidence}
      BY <1>1 DEF ZeroEvidence
    <2>2. CASE Fresh(frame) /\ ExactlyZero(frame)
      <3>1. zeroSeen' = frame.stamps BY <2>2 DEF SeeFrame
      <3> QED BY <1>1, <1>2, <1>3, <2>1, <3>1 DEF EvidenceInv, InterventionTypeOK, Stamps
    <2>3. CASE ~(Fresh(frame) /\ ExactlyZero(frame))
      <3>1. zeroSeen' = zeroSeen /\ zeroEvidence' \in {None, zeroEvidence}
        BY <2>1, <2>3 DEF SeeFrame
      <3> QED BY <1>1, <3>1 DEF EvidenceInv
    <2> QED BY <2>2, <2>3
  <1>14. lastStamps' # None BY <1>1, <1>2
  <1>15. neutralFrom' # None => neutralFrom' <= now'
    BY <1>1, <1>8 DEF HoldInv, InterventionTypeOK
  <1> QED BY <1>10, <1>11, <1>12, <1>13, <1>14, <1>15 DEF ActiveInv, HoldInv

\* The clock and the device leave the source alone.
LEMMA DeviceInv ==
  ASSUME SourceInv, Pass \/ DeviceEvent
  PROVE  SourceInv'
  <1> USE DEF SourceInv
  <1>1. /\ UNCHANGED sourceVars /\ zeroSeen' = zeroSeen /\ neutralFrom' = neutralFrom
        /\ now' \in Nat /\ now <= now'
    <2>1. UNCHANGED <<sourceVars, zeroSeen, neutralFrom>>
      BY DEF Pass, Tick, DeviceEvent, ReportAxes, ReportButton, Unplug, Restart, historyVars
    <2>2. now' = now \/ now' = now + 1
      BY DEF Pass, Tick, DeviceEvent, ReportAxes, ReportButton, Unplug, Restart
    <2> QED BY <2>1, <2>2 DEF InterventionTypeOK
  <1>2. /\ frame' \in Frame
        /\ \A c \in Channel : frame'.stamps[c] \in {frame.stamps[c], now, None}
    <2>1. CASE frame' = frame
      BY <2>1 DEF InterventionTypeOK
    <2> DEFINE goal == /\ frame' \in Frame
                       /\ \A c \in Channel :
                              frame'.stamps[c] \in {frame.stamps[c], now, None}
    <2>2. ASSUME NEW c \in Channel, NEW level \in Level, ReportAxes(c, level)
          PROVE  goal
      BY <2>2 DEF ReportAxes, InterventionTypeOK, Frame, Stamps
    <2>3. ASSUME NEW left \in BOOLEAN, ReportButton(left)
          PROVE  goal
      BY <2>3 DEF ReportButton, InterventionTypeOK, Frame
    <2>4. CASE Restart
      BY <2>4 DEF Restart, NoStamps, InterventionTypeOK, Frame, Stamps
    <2> QED BY <2>1, <2>2, <2>3, <2>4 DEF Pass, Tick, deviceVars, DeviceEvent, Unplug
  <1>3. plugged' \in BOOLEAN
    BY DEF Pass, Tick, deviceVars, DeviceEvent, ReportAxes, ReportButton, Unplug, Restart,
           InterventionTypeOK
  <1>4. InterventionTypeOK'
    BY <1>1, <1>2, <1>3 DEF InterventionTypeOK, sourceVars
  <1>5. ActiveInv' /\ HoldInv'
    BY <1>1 DEF ActiveInv, HoldInv, sourceVars, InterventionTypeOK
  <1>6. EvidenceInv'
    <2>1. zeroEvidence' = zeroEvidence BY <1>1 DEF sourceVars
    <2>2. \A c \in Channel : frame'.stamps[c] # None =>
              /\ frame'.stamps[c] <= now'
              /\ zeroSeen # None => zeroSeen[c] <= frame'.stamps[c]
      <3> TAKE c \in Channel
      <3>1. frame.stamps[c] \in Nat \cup {None}
        BY DEF InterventionTypeOK, Frame, Stamps
      <3>2. /\ zeroSeen # None => zeroSeen[c] \in Nat /\ zeroSeen[c] <= now
            /\ frame.stamps[c] # None => frame.stamps[c] <= now
            /\ zeroSeen # None /\ frame.stamps[c] # None => zeroSeen[c] <= frame.stamps[c]
        BY DEF EvidenceInv
      <3> QED BY <1>1, <1>2, <3>1, <3>2 DEF InterventionTypeOK
    <2>3. zeroSeen # None => \A c \in Channel : zeroSeen[c] \in Nat /\ zeroSeen[c] <= now'
      BY <1>1 DEF EvidenceInv, InterventionTypeOK
    <2> QED BY <1>1, <2>1, <2>2, <2>3 DEF EvidenceInv
  <1> QED BY <1>1, <1>4, <1>5, <1>6

-----------------------------------------------------------------------------
\* A call that decides leaves the gate open, and the evidence the row records.
LEMMA DecidesEvidence ==
  ASSUME SourceInv, CallDecides, SeeFrame
  PROVE  /\ GateOpen'
         /\ ~gate'.fresh => /\ verifiedNeutral' /\ Neutral(frame)
                            /\ zeroSeen' = frame.stamps
         /\ Fresh(frame) /\ (\E c \in Relevant(frame) : frame.axes[c] = Motion) => active'
  <1>1. gate'.fresh = Fresh(frame) /\ gate'.armed = GateUpdate(frame).armed
    BY DEF CallDecides, GateUpdate
  <1>2. Fresh(frame) => GateUpdate(frame).armed
    BY DEF GateUpdate
  <1>3. Fresh(frame) /\ (\E c \in Relevant(frame) : frame.axes[c] = Motion) => active'
    BY <1>2 DEF CallDecides, Moving
  <1>4. ~Fresh(frame) =>
            /\ verifiedNeutral' /\ Neutral(frame)
            /\ zeroSeen' = frame.stamps
    <2> SUFFICES ASSUME ~Fresh(frame)
                 PROVE  verifiedNeutral' /\ Neutral(frame) /\ zeroSeen' = frame.stamps
      OBVIOUS
    <2>1. Verified(frame) BY DEF CallDecides, Verifiable
    <2>2. verifiedNeutral' BY <2>1 DEF CallDecides
    <2>3. Neutral(frame) BY <2>1 DEF Verified, ExactlyZero, Neutral, Relevant
    <2>4. zeroEvidence = frame.stamps BY <2>1 DEF Verified, ZeroEvidence
    <2>5. zeroSeen' = zeroSeen BY DEF SeeFrame
    <2>6. frame.stamps \in Stamps /\ \A c \in Channel : frame.stamps[c] \in Nat
      BY DEF SourceInv, InterventionTypeOK, Frame, Stamps, CallDecides, CanRead, Ready
    <2>7. zeroSeen # None /\ \A c \in Channel : zeroSeen[c] = frame.stamps[c]
      BY <2>4, <2>6 DEF SourceInv, EvidenceInv
    <2>8. zeroSeen = frame.stamps
      BY <2>6, <2>7 DEF SourceInv, Stamps
    <2> QED BY <2>2, <2>3, <2>5, <2>8
  <1>5. GateOpen' BY <1>1, <1>4 DEF GateOpen
  <1> QED BY <1>1, <1>3, <1>4, <1>5

-----------------------------------------------------------------------------
\* The row a step records is as admissible as the gate it reads.
LEMMA StepRow ==
  ASSUME SourceInv, EnvStep
  PROVE  /\ SourceInv' /\ GateOpen'
         /\ row' \in Row /\ row'.human = active'
         /\ RowsAreAdmissible' /\ SilenceNeedsObservedZero' /\ HumanWins'
  <1>1. SourceInv' BY DecidesInv DEF EnvStep
  <1>2. /\ GateOpen'
        /\ ~gate'.fresh => /\ verifiedNeutral' /\ Neutral(frame)
                           /\ zeroSeen' = frame.stamps
        /\ Fresh(frame) /\ (\E c \in Relevant(frame) : frame.axes[c] = Motion) => active'
    BY DecidesEvidence DEF EnvStep
  <1>3. active' \in BOOLEAN /\ verifiedNeutral' \in BOOLEAN
        /\ gate'.armed \in BOOLEAN /\ gate'.fresh \in BOOLEAN
    BY <1>1 DEF SourceInv, InterventionTypeOK
  <1>4. /\ row'.human = active'
        /\ row'.moves = (gate'.armed /\ ~Neutral(frame))
        /\ row'.engaging = (Fresh(frame) /\ \E c \in Relevant(frame) : frame.axes[c] = Motion)
        /\ row'.fresh = gate'.fresh /\ row'.verified = verifiedNeutral'
        /\ row'.zeroSeen = (zeroSeen' = frame.stamps)
    BY DEF EnvStep
  <1>5. row' \in Row
    <2>1. /\ (gate'.armed /\ ~Neutral(frame)) \in BOOLEAN
          /\ (Fresh(frame) /\ \E c \in Relevant(frame) : frame.axes[c] = Motion) \in BOOLEAN
          /\ (zeroSeen' = frame.stamps) \in BOOLEAN
      OBVIOUS
    <2> QED BY <1>3, <2>1 DEF EnvStep, Row
  <1>6. RowsAreAdmissible'
    BY <1>2, <1>4 DEF RowsAreAdmissible, GateOpen
  <1>7. SilenceNeedsObservedZero'
    BY <1>2, <1>4 DEF SilenceNeedsObservedZero
  <1>8. HumanWins' BY <1>2, <1>4 DEF HumanWins
  <1> QED BY <1>1, <1>2, <1>4, <1>5, <1>6, <1>7, <1>8

\* Every step keeps the invariant.
LEMMA StepInv == IInv /\ [Next]_vars => IInv'
  <1> SUFFICES ASSUME IInv, [Next]_vars PROVE IInv'
    OBVIOUS
  <1> USE DEF IInv
  <1>0. row' = row => RowsAreAdmissible' /\ SilenceNeedsObservedZero' /\ HumanWins'
    BY DEF ActorInv, RowsAreAdmissible, SilenceNeedsObservedZero, HumanWins
  <1>1. CASE UNCHANGED vars
    <2>1. UNCHANGED <<now, frame, plugged, gate, active, neutralSince, lastStamps, zeroEvidence,
                      verifiedNeutral, fault, pc, row, reports, zeroSeen, neutralFrom>>
      BY <1>1 DEF vars, deviceVars, sourceVars, historyVars
    <2>2. SourceInv'
      BY <2>1 DEF SourceInv, InterventionTypeOK, ActiveInv, HoldInv, EvidenceInv
    <2>3. ActorInv'
      BY <1>0, <2>1 DEF ActorInv, EpisodeInv, GateOpen
    <2> QED BY <2>1, <2>2, <2>3
  <1>2. CASE Pass \/ DeviceEvent
    <2>1. SourceInv' BY <1>2, DeviceInv
    <2>2. UNCHANGED <<pc, row, gate, active, verifiedNeutral>>
      BY <1>2 DEF Pass, Tick, DeviceEvent, ReportAxes, ReportButton, Unplug, Restart, sourceVars
    <2>3. reports' \in 0..MaxReports /\ now' <= MaxTime
      <3>1. CASE Pass
        BY <3>1 DEF Pass, Tick, historyVars, SourceInv, InterventionTypeOK
      <3>2. CASE DeviceEvent
        <4>1. now' = now BY <3>2 DEF DeviceEvent, ReportAxes, ReportButton, Unplug, Restart
        <4>2. reports < MaxReports /\ reports' = reports + 1 BY <3>2 DEF DeviceEvent
        <4>3. reports \in Nat /\ reports + 1 \in 0..MaxReports BY <4>2
        <4> QED BY <4>1, <4>2, <4>3
      <3> QED BY <1>2, <3>1, <3>2
    <2>4. ActorInv'
      BY <1>0, <2>2 DEF ActorInv, EpisodeInv, GateOpen
    <2> QED BY <2>1, <2>3, <2>4
  <1>3. CASE WaitForStart
    <2>1. SourceInv' BY <1>3, DropsInv, DecidesInv DEF WaitForStart
    <2>2. reports' = reports /\ now' = now
      BY <1>3 DEF WaitForStart, SeeFrame, CallBeforeReady, CallDiscard, CallDecides
    <2>3. CASE pc' = "waiting" /\ row' = row
      BY <1>0, <2>1, <2>2, <2>3 DEF ActorInv, EpisodeInv
    <2>4. CASE pc' = "gate" /\ row' = None
      BY <2>1, <2>2, <2>4 DEF ActorInv, EpisodeInv, RowsAreAdmissible,
                              SilenceNeedsObservedZero, HumanWins
    <2> QED BY <1>3, <2>3, <2>4 DEF WaitForStart
  <1>4. CASE PassGate
    <2>1. UNCHANGED <<now, frame, plugged, gate, active, neutralSince, lastStamps, zeroEvidence,
                      verifiedNeutral, fault, row, reports, zeroSeen, neutralFrom>>
      BY <1>4 DEF PassGate, deviceVars, sourceVars, historyVars
    <2>2. SourceInv'
      BY <2>1 DEF SourceInv, InterventionTypeOK, ActiveInv, HoldInv, EvidenceInv
    <2>3. ActorInv'
      BY <1>0, <1>4, <2>1 DEF ActorInv, EpisodeInv, GateOpen, PassGate
    <2> QED BY <2>1, <2>2, <2>3
  <1>5. CASE WaitAtGate
    <2>1. SourceInv' BY <1>5, DropsInv, DecidesInv DEF WaitAtGate
    <2>2. reports' = reports /\ now' = now
      BY <1>5 DEF WaitAtGate, SeeFrame, CallBeforeReady, CallNotVerifiable, CallDecides, Latch
    <2>3. row = None BY <1>5 DEF WaitAtGate, ActorInv, EpisodeInv
    <2>4. row' = None /\ pc' \in {"step", "gate"} BY <1>5, <2>3 DEF WaitAtGate
    <2> QED BY <1>0, <2>1, <2>2, <2>3, <2>4 DEF ActorInv, EpisodeInv
  <1>6. CASE EnvStep
    <2>1. reports' = reports /\ now' = now /\ pc' \in {"gate", "waiting"}
      BY <1>6 DEF EnvStep, SeeFrame, CallDecides
    <2>2. EpisodeInv' BY <1>6, StepRow DEF EpisodeInv
    <2> QED BY <1>6, <2>1, <2>2, StepRow DEF ActorInv
  <1>7. CASE Fail
    <2>1. /\ pc' = "stopped" /\ row' = row /\ reports' = reports /\ now' = now
          /\ UNCHANGED historyVars
      BY <1>7 DEF Fail, historyVars, CallDeviceLost, CallNotVerifiable, Latch
    <2>2. SourceInv'
      <3>1. CASE CallDeviceLost \/ CallNotVerifiable(TRUE)
        BY <2>1, <3>1, DropsInv
      <3>2. CASE UNCHANGED <<now, deviceVars, sourceVars>>
        <4>1. UNCHANGED <<now, frame, plugged, gate, active, neutralSince, lastStamps,
                          zeroEvidence, verifiedNeutral, fault, zeroSeen, neutralFrom>>
          BY <2>1, <3>2 DEF deviceVars, sourceVars, historyVars
        <4> QED BY <4>1 DEF SourceInv, InterventionTypeOK, ActiveInv, HoldInv, EvidenceInv
      <3> QED BY <1>7, <3>1, <3>2 DEF Fail
    <2>3. ActorInv' BY <1>0, <2>1 DEF ActorInv, EpisodeInv
    <2> QED BY <2>1, <2>2, <2>3
  <1> QED BY <1>1, <1>2, <1>3, <1>4, <1>5, <1>6, <1>7 DEF Next

LEMMA AlwaysInv == Spec => []IInv
  BY InitInv, StepInv, PTL DEF Spec

\* The types hold for every bound.
THEOREM TypeCorrect == Spec => []TypeOK
  <1>1. IInv => TypeOK BY DEF IInv, SourceInv, ActorInv, TypeOK
  <1> QED BY <1>1, AlwaysInv, PTL

\* No step is sent that the transition validator must refuse: whatever the
\* device reported and when, and whatever the Actor waited for in between.
THEOREM StepsAreAdmissible == Spec => []RowsAreAdmissible
  <1>1. IInv => RowsAreAdmissible BY DEF IInv, ActorInv
  <1> QED BY <1>1, AlwaysInv, PTL

\* A step without a fresh report rests on a zero report that was seen fresh.
THEOREM SilenceIsNoRelease == Spec => []SilenceNeedsObservedZero
  <1>1. IInv => SilenceNeedsObservedZero BY DEF IInv, ActorInv
  <1> QED BY <1>1, AlwaysInv, PTL

\* The policy never commands over an engaging motion.
THEOREM HumanHasPriority == Spec => []HumanWins
  <1>1. IInv => HumanWins BY DEF IInv, ActorInv
  <1> QED BY <1>1, AlwaysInv, PTL

\* The policy has control back only after release_hold_s of neutral calls.
THEOREM PolicyWaitsForRelease == Spec => PolicyResumesAfterHold
  <1> DEFINE resumes == row # None /\ row' # None /\ row.human /\ ~row'.human
             held == neutralFrom' # None /\ now >= neutralFrom' + ReleaseHold
  <1>1. IInv /\ IInv' /\ [Next]_vars => [resumes => held]_vars
    <2> SUFFICES ASSUME IInv, IInv', Next, resumes PROVE held
      OBVIOUS
    <2>1. EnvStep
      <3>1. row' # row OBVIOUS
      <3> QED BY <3>1 DEF Next, Pass, DeviceEvent, WaitForStart, PassGate, WaitAtGate, Fail
    <2>2. ~active' BY <2>1, StepRow DEF IInv
    <2>3. active BY <2>1 DEF EnvStep, IInv, ActorInv, EpisodeInv
    <2>4. ReleaseDue(frame) BY <2>1, <2>2, <2>3 DEF EnvStep, CallDecides
    <2>5. Neutral(frame)
      BY <2>4 DEF ReleaseDue, HoldsNeutral, Verified, ExactlyZero, Neutral, Relevant
    <2>6. now \in Nat /\ neutralSince \in Nat \cup {None} /\ neutralFrom \in Nat \cup {None}
      BY DEF IInv, SourceInv, InterventionTypeOK
    <2>7. neutralSince # None /\ now >= neutralSince + ReleaseHold
      BY <2>4, <2>6 DEF ReleaseDue
    <2>8. neutralFrom # None /\ neutralFrom <= neutralSince
      BY <2>7 DEF IInv, SourceInv, HoldInv
    <2>9. neutralFrom' = neutralFrom BY <2>1, <2>5, <2>8 DEF EnvStep, SeeFrame
    <2> QED BY <2>6, <2>7, <2>8, <2>9
  <1> QED BY <1>1, AlwaysInv, PTL DEF Spec, PolicyResumesAfterHold

=============================================================================
