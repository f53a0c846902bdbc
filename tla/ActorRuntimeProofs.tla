------------------------- MODULE ActorRuntimeProofs -------------------------
(***************************************************************************)
(* What holds of ActorRuntime for every bound.  IInv says, for each place   *)
(* run() can be in, where the coordinator, the rows, the backend and the    *)
(* unread keys are; the properties follow from it.                          *)
(***************************************************************************)
EXTENDS ActorRuntime, TLAPS

LoopIdle == At("loop") /\ ~Running
LoopBusy == At("loop") /\ Running

HeldId == IF pending = None THEN None ELSE RowId(pending)

\* The step that the uplink or the runtime has.
Kept == IF pending = None THEN lastRow ELSE pending

\* Where the log is while an episode runs and no step is recorded.
Position ==
    /\ pending = None => stepId = 0 /\ Ended(lastRow) /\ lastRow.ep < context
    /\ pending # None => /\ pending.ep = context /\ pending.step + 1 = stepId
                         /\ ~Ended(pending) /\ Follows(pending, lastRow)

\* Between two episodes.
WaitingInv ==
    LoopIdle \/ pc \in {"waiting", "chord", "camera_close", "reset", "resetting"} =>
        /\ state = "WAITING_FOR_RESET" /\ token = None /\ pending = None
        /\ Ended(lastRow) /\ lastRow.ep <= lastEp
        /\ context # None => /\ lastRow.ep < context /\ context <= lastEp
                             /\ completedToken = None
        /\ pc \in {"camera_close", "reset", "resetting"} => context = None
        /\ At("chord") => context # None

BetweenSteps == LoopBusy \/ pc \in {"start", "gate", "refresh", "decide", "settle"}
InStep == pc \in {"step", "gated", "commanded", "outcome"}
InEpisode == BetweenSteps \/ InStep \/ At("camera")

\* In an episode.
EpisodeInv ==
    InEpisode =>
        /\ Running /\ context \in Nat /\ context <= lastEp /\ Position
        /\ BetweenSteps => token = None /\ completedToken = HeldId /\ gates = stepId
        /\ InStep => /\ token = [ep |-> context, step |-> stepId]
                     /\ previousToken = HeldId
                     /\ gates = IF At("step") THEN stepId ELSE stepId + 1
        /\ At("start") => pending = None
        /\ At("settle") => /\ pending # None
                           /\ label \in Key /\ label.ep = context /\ label.gates = stepId

\* Behind a step, until its row is kept or sent.
RowInv ==
    pc \in {"record", "build"} =>
        /\ row \in Row /\ row.end # "interrupted" /\ row.ep <= lastEp
        /\ token = None /\ completedToken = RowId(row)
        /\ stepId = row.step + 1 /\ gates = stepId
        /\ Follows(row, Kept)
        /\ pending # None => ~Ended(pending) /\ Follows(pending, lastRow)
        /\ At("build") => pending = None
        /\ row.end \in Label =>
               /\ state = "WAITING_FOR_RESET" /\ context = None
               /\ label = [label |-> row.end, ep |-> row.ep, gates |-> row.step + 1]
        /\ row.end \notin Label => Running /\ context = row.ep

\* Behind an episode's last row.
FinishInv ==
    At("finish") =>
        /\ lastRow = row /\ Ended(row) /\ row.end # "interrupted" /\ row.ep <= lastEp
        /\ pending = None /\ token = None
        /\ row.end = "time_limit" => Running /\ completedToken = RowId(row) /\ context = row.ep
        /\ row.end # "time_limit" => state = "WAITING_FOR_RESET" /\ context = None

\* The backend and who holds it.
ArmInv ==
    /\ env => selfEnv
    /\ ~selfEnv => hold \in {"none", "held"}
    /\ LoopIdle \/ pc \in {"waiting", "chord", "start", "reset"} => ~env /\ ~selfEnv
    /\ At("resetting") => ~env /\ selfEnv
    /\ InEpisode /\ ~At("start") => env
    /\ LoopBusy \/ pc \in {"gate", "refresh", "decide"} \/ InStep => hold = "live"
    /\ pc \in {"record", "build"} => env /\ hold = IF Ended(row) THEN "held" ELSE "live"
    /\ pc \in {"finish", "camera_close"} => env /\ hold = "held"

\* The stop and what is known of it.
StopInv ==
    /\ stopEvent => \/ pc \in {"finally", "exited"}
                    \/ (LoopIdle \/ At("except")) /\ ~selfEnv
    /\ At("finally") /\ stopConfirmed = "yes" /\ ~env => hold \in {"none", "held"}
    /\ At("exited") /\ stopConfirmed = "yes" => hold \in {"none", "held"}

\* Unread keys were typed behind the newest command of the running episode.
KeysInv ==
    Running => /\ context \in Nat
               /\ ~Failing => \A k \in keys : k.ep = context /\ k.gates = gates

PhaseInv == WaitingInv /\ EpisodeInv /\ RowInv /\ FinishInv

IInv == TypeOK /\ PhaseInv /\ ArmInv /\ StopInv /\ KeysInv /\ NoStepIsForgotten

-----------------------------------------------------------------------------
\* Initially nothing runs and the log is empty.
LEMMA InitIInv == Init => IInv
<1> SUFFICES ASSUME Init PROVE IInv
  OBVIOUS
<1> USE DEF Init, CoordinatorInit
<1>1. /\ env \in BOOLEAN /\ selfEnv \in BOOLEAN /\ stopEvent \in BOOLEAN /\ unread \in BOOLEAN
      /\ ~env /\ ~selfEnv /\ ~stopEvent /\ SettingsTypeOK
  BY Zenon DEF SettingsTypeOK
<1>2. TypeOK
  BY <1>1, SMT DEF TypeOK, CoordinatorTypeOK, Locations, Token, Key, Row, Ends
<1>3. PhaseInv
  BY SMT DEF PhaseInv, WaitingInv, EpisodeInv, RowInv, FinishInv, At, Running, Ended, LoopIdle,
     LoopBusy, BetweenSteps, InStep, InEpisode
<1>4. ArmInv /\ StopInv
  BY <1>1, SMT DEF ArmInv, StopInv, At, Running, LoopIdle, LoopBusy, BetweenSteps, InStep, InEpisode
<1>5. KeysInv /\ NoStepIsForgotten
  BY SMT DEF KeysInv, NoStepIsForgotten, Running
<1> QED
  BY <1>2, <1>3, <1>4, <1>5 DEF IInv

\* Every operation of run(), the operator and a Ctrl+C keep the invariant.
LEMMA NextIInv == IInv /\ [Next]_vars => IInv'
<1> SUFFICES ASSUME IInv, [Next]_vars PROVE IInv'
  OBVIOUS
<1> USE NoneAssumption, RowAssumption
     DEF episodeVars, keyVars, armVars, rowVars, stopVars, contextVars,
         At, Goto, Raise, Running, Ended, RowId, LoopIdle, LoopBusy, BetweenSteps,
         InStep, InEpisode, Failing, Locations
<1>0. SettingsTypeOK'
  BY Zenon DEF IInv, TypeOK, SettingsTypeOK, Next, vars, settingVars
<1>1. CASE LoopHead
  <2>1. TypeOK'
    BY <1>0, <1>1, SMT DEF IInv, TypeOK, CoordinatorTypeOK, Token, Key, Row, Label,
       Ends, LoopHead, TakeKeys, Conflict
  <2>2. PhaseInv'
    BY <1>1, SMT DEF IInv, TypeOK, CoordinatorTypeOK, Token, Key, Row, Label,
       Ends, PhaseInv, WaitingInv, EpisodeInv, RowInv, FinishInv, KeysInv,
       HeldId, Position, Kept, Follows, LoopHead, TakeKeys, Conflict
  <2>3. ArmInv'
    BY <1>1, SMT DEF IInv, PhaseInv, WaitingInv, ArmInv, LoopHead, TakeKeys,
       Conflict
  <2>4. StopInv'
    BY <1>1, SMT DEF IInv, StopInv, LoopHead, TakeKeys, Conflict
  <2>5. KeysInv'
    BY <1>1, SMT DEF IInv, KeysInv, LoopHead, TakeKeys, Conflict
  <2>6. NoStepIsForgotten'
    BY <1>1, SMT DEF IInv, NoStepIsForgotten, LoopHead, TakeKeys, Conflict
  <2> QED
    BY <2>1, <2>2, <2>3, <2>4, <2>5, <2>6 DEF IInv
<1>2. CASE LeaveLoop
  <2>1. TypeOK'
    BY <1>0, <1>2, SMT DEF IInv, TypeOK, CoordinatorTypeOK, Token, Key, Row, Label,
       Ends, LeaveLoop
  <2>2. PhaseInv'
    BY <1>2, SMT DEF IInv, PhaseInv, WaitingInv, EpisodeInv, RowInv,
       FinishInv, LeaveLoop
  <2>3. ArmInv'
    BY <1>2, SMT DEF IInv, ArmInv, LeaveLoop
  <2>4. StopInv'
    BY <1>2, SMT DEF IInv, StopInv, ArmInv, LeaveLoop
  <2>5. KeysInv'
    BY <1>2, SMT DEF IInv, KeysInv, LeaveLoop
  <2>6. NoStepIsForgotten'
    BY <1>2, SMT DEF IInv, NoStepIsForgotten, LeaveLoop
  <2> QED
    BY <2>1, <2>2, <2>3, <2>4, <2>5, <2>6 DEF IInv
<1>3. CASE ReadContext
  <2>0. /\ env' \in BOOLEAN /\ selfEnv' \in BOOLEAN
        /\ stopEvent' \in BOOLEAN /\ unread' \in BOOLEAN
    BY <1>3, Zenon DEF IInv, TypeOK, ReadContext, OfferContext
  <2>1. TypeOK'
    BY <1>0, <1>3, <2>0, SMT DEF IInv, TypeOK, CoordinatorTypeOK, Token, Key, Row,
       Label, Ends, ReadContext, OfferContext
  <2>2. PhaseInv'
    BY <1>3, SMT DEF IInv, TypeOK, CoordinatorTypeOK, Token, Key, Row, Label,
       Ends, PhaseInv, WaitingInv, EpisodeInv, RowInv, FinishInv, HeldId,
       Position, Kept, Follows, ReadContext, OfferContext
  <2>3. ArmInv'
    BY <1>3, SMT DEF IInv, PhaseInv, WaitingInv, ArmInv, ReadContext,
       OfferContext
  <2>4. StopInv'
    BY <1>3, SMT DEF IInv, StopInv, ReadContext, OfferContext
  <2>5. KeysInv'
    BY <1>3, SMT DEF IInv, KeysInv, ReadContext, OfferContext
  <2>6. NoStepIsForgotten'
    BY <1>3, SMT DEF IInv, NoStepIsForgotten, ReadContext, OfferContext
  <2> QED
    BY <2>1, <2>2, <2>3, <2>4, <2>5, <2>6 DEF IInv
<1>4. CASE KeepContext
  <2>1. TypeOK'
    BY <1>0, <1>4, SMT DEF IInv, TypeOK, CoordinatorTypeOK, Token, Key, Row, Label,
       Ends, KeepContext
  <2>2. PhaseInv'
    BY <1>4, SMT DEF IInv, PhaseInv, WaitingInv, EpisodeInv, RowInv,
       FinishInv, KeepContext
  <2>3. ArmInv'
    BY <1>4, SMT DEF IInv, ArmInv, KeepContext
  <2>4. StopInv'
    BY <1>4, SMT DEF IInv, StopInv, KeepContext
  <2>5. KeysInv'
    BY <1>4, SMT DEF IInv, KeysInv, KeepContext
  <2>6. NoStepIsForgotten'
    BY <1>4, SMT DEF IInv, NoStepIsForgotten, KeepContext
  <2> QED
    BY <2>1, <2>2, <2>3, <2>4, <2>5, <2>6 DEF IInv
<1>5. CASE Chord
  <2>1. TypeOK'
    BY <1>0, <1>5, SMT DEF IInv, TypeOK, CoordinatorTypeOK, Token, Key, Row, Label,
       Ends, Chord, ObserveStartFrame
  <2>2. PhaseInv'
    BY <1>5, SMT DEF IInv, TypeOK, CoordinatorTypeOK, PhaseInv, WaitingInv,
       EpisodeInv, RowInv, FinishInv, HeldId, Position, Kept, Follows, Chord,
       ObserveStartFrame
  <2>3. ArmInv'
    BY <1>5, SMT DEF IInv, PhaseInv, WaitingInv, ArmInv, Chord,
       ObserveStartFrame
  <2>4. StopInv'
    BY <1>5, SMT DEF IInv, StopInv, Chord, ObserveStartFrame
  <2>5. KeysInv'
    BY <1>5, SMT DEF IInv, TypeOK, CoordinatorTypeOK, PhaseInv, WaitingInv,
       EpisodeInv, RowInv, FinishInv, KeysInv, Chord, ObserveStartFrame
  <2>6. NoStepIsForgotten'
    BY <1>5, SMT DEF IInv, NoStepIsForgotten, Chord, ObserveStartFrame
  <2> QED
    BY <2>1, <2>2, <2>3, <2>4, <2>5, <2>6 DEF IInv
<1>6. CASE OpenEnvironment
  <2>0. /\ env' \in BOOLEAN /\ selfEnv' \in BOOLEAN
        /\ stopEvent' \in BOOLEAN /\ unread' \in BOOLEAN
    BY <1>6, Zenon DEF IInv, TypeOK, OpenEnvironment
  <2>1. TypeOK'
    BY <1>0, <1>6, <2>0, SMT DEF IInv, TypeOK, CoordinatorTypeOK, Token, Key, Row,
       Label, Ends, OpenEnvironment
  <2>2. PhaseInv'
    BY <1>6, SMT DEF IInv, TypeOK, CoordinatorTypeOK, PhaseInv, WaitingInv,
       EpisodeInv, RowInv, FinishInv, HeldId, Position, Kept, Follows,
       OpenEnvironment
  <2>3. ArmInv'
    BY <1>6, SMT DEF IInv, PhaseInv, EpisodeInv, ArmInv, OpenEnvironment
  <2>4. StopInv'
    BY <1>6, SMT DEF IInv, StopInv, OpenEnvironment
  <2>5. KeysInv'
    BY <1>6, SMT DEF IInv, KeysInv, OpenEnvironment
  <2>6. NoStepIsForgotten'
    BY <1>6, SMT DEF IInv, NoStepIsForgotten, OpenEnvironment
  <2> QED
    BY <2>1, <2>2, <2>3, <2>4, <2>5, <2>6 DEF IInv
<1>7. CASE Gate
  <2>1. TypeOK'
    BY <1>0, <1>7, SMT DEF IInv, TypeOK, CoordinatorTypeOK, Token, Key, Row, Label,
       Ends, Gate
  <2>2. PhaseInv'
    BY <1>7, SMT DEF IInv, TypeOK, CoordinatorTypeOK, PhaseInv, WaitingInv,
       EpisodeInv, RowInv, FinishInv, HeldId, Position, Kept, Follows, Gate
  <2>3. ArmInv'
    BY <1>7, SMT DEF IInv, PhaseInv, EpisodeInv, ArmInv, Gate
  <2>4. StopInv'
    BY <1>7, SMT DEF IInv, StopInv, Gate
  <2>5. KeysInv'
    BY <1>7, SMT DEF IInv, KeysInv, Gate
  <2>6. NoStepIsForgotten'
    BY <1>7, SMT DEF IInv, NoStepIsForgotten, Gate
  <2> QED
    BY <2>1, <2>2, <2>3, <2>4, <2>5, <2>6 DEF IInv
<1>8. CASE Refresh
  <2>1. TypeOK'
    BY <1>0, <1>8, SMT DEF IInv, TypeOK, CoordinatorTypeOK, Token, Key, Row, Label,
       Ends, Refresh, StopBackend
  <2>2. PhaseInv'
    BY <1>8, SMT DEF IInv, TypeOK, CoordinatorTypeOK, PhaseInv, WaitingInv,
       EpisodeInv, RowInv, FinishInv, HeldId, Position, Kept, Follows,
       Refresh, StopBackend
  <2>3. ArmInv'
    BY <1>8, SMT DEF IInv, ArmInv, Refresh, StopBackend
  <2>4. StopInv'
    BY <1>8, SMT DEF IInv, StopInv, Refresh, StopBackend
  <2>5. KeysInv'
    BY <1>8, SMT DEF IInv, KeysInv, Refresh, StopBackend
  <2>6. NoStepIsForgotten'
    BY <1>8, SMT DEF IInv, NoStepIsForgotten, Refresh, StopBackend
  <2> QED
    BY <2>1, <2>2, <2>3, <2>4, <2>5, <2>6 DEF IInv
<1>9. CASE Decide
  <2>1. TypeOK'
    BY <1>0, <1>9, SMT DEF IInv, TypeOK, CoordinatorTypeOK, Token, Key, Row, Label,
       Ends, KeysInv, Decide, TakeKeys, Conflict, BeginStep, Abort
  <2>2. PhaseInv'
    BY <1>9, SMT DEF IInv, TypeOK, CoordinatorTypeOK, Token, Key, Row, Label,
       Ends, PhaseInv, WaitingInv, EpisodeInv, RowInv, FinishInv, KeysInv,
       HeldId, Position, Kept, Follows, Decide, TakeKeys, Conflict, BeginStep,
       Abort
  <2>3. ArmInv'
    BY <1>9, SMT DEF IInv, ArmInv, Decide, TakeKeys, Conflict, BeginStep,
       Abort
  <2>4. StopInv'
    BY <1>9, SMT DEF IInv, StopInv, Decide, TakeKeys, Conflict, BeginStep,
       Abort
  <2>5. KeysInv'
    BY <1>9, SMT DEF IInv, KeysInv, Decide, TakeKeys, Conflict, BeginStep,
       Abort
  <2>6. NoStepIsForgotten'
    BY <1>9, SMT DEF IInv, NoStepIsForgotten, Decide, TakeKeys, Conflict,
       BeginStep, Abort
  <2> QED
    BY <2>1, <2>2, <2>3, <2>4, <2>5, <2>6 DEF IInv
<1>10. CASE BeforeCommand
  <2>1. TypeOK'
    BY <1>0, <1>10, SMT DEF IInv, TypeOK, CoordinatorTypeOK, Token, Key, Row, Label,
       Ends, BeforeCommand, StepFails, StopBackend, TakeKeys, Conflict,
       TerminalBeforeCommand, Abort
  <2>2. PhaseInv'
    BY <1>10, SMT DEF IInv, TypeOK, CoordinatorTypeOK, Token, Key, Row, Label,
       Ends, PhaseInv, WaitingInv, EpisodeInv, RowInv, FinishInv, KeysInv,
       HeldId, Position, Kept, Follows, BeforeCommand, StepFails, StopBackend,
       TakeKeys, Conflict, TerminalBeforeCommand, Abort
  <2>3. ArmInv'
    BY <1>10, SMT DEF IInv, ArmInv, BeforeCommand, StepFails, StopBackend,
       TakeKeys, Conflict, TerminalBeforeCommand, Abort
  <2>4. StopInv'
    BY <1>10, SMT DEF IInv, StopInv, BeforeCommand, StepFails, StopBackend,
       TakeKeys, Conflict, TerminalBeforeCommand, Abort
  <2>5. KeysInv'
    BY <1>10, SMT DEF IInv, KeysInv, BeforeCommand, StepFails, StopBackend,
       TakeKeys, Conflict, TerminalBeforeCommand, Abort
  <2>6. NoStepIsForgotten'
    BY <1>10, SMT DEF IInv, NoStepIsForgotten, BeforeCommand, StepFails,
       StopBackend, TakeKeys, Conflict, TerminalBeforeCommand, Abort
  <2> QED
    BY <2>1, <2>2, <2>3, <2>4, <2>5, <2>6 DEF IInv
<1>11. CASE Command
  <2>1. TypeOK'
    BY <1>0, <1>11, SMT DEF IInv, TypeOK, CoordinatorTypeOK, Token, Key, Row, Label,
       Ends, Command, StepFails, StopBackend, Abort
  <2>2. PhaseInv'
    BY <1>11, SMT DEF IInv, TypeOK, CoordinatorTypeOK, PhaseInv, WaitingInv,
       EpisodeInv, RowInv, FinishInv, HeldId, Position, Kept, Follows,
       Command, StepFails, StopBackend, Abort
  <2>3. ArmInv'
    BY <1>11, SMT DEF IInv, ArmInv, Command, StepFails, StopBackend, Abort
  <2>4. StopInv'
    BY <1>11, SMT DEF IInv, StopInv, Command, StepFails, StopBackend, Abort
  <2>5. KeysInv'
    BY <1>11, SMT DEF IInv, KeysInv, Command, StepFails, StopBackend, Abort
  <2>6. NoStepIsForgotten'
    BY <1>11, SMT DEF IInv, NoStepIsForgotten, Command, StepFails,
       StopBackend, Abort
  <2> QED
    BY <2>1, <2>2, <2>3, <2>4, <2>5, <2>6 DEF IInv
<1>12. CASE Successor
  <2>1. TypeOK'
    BY <1>0, <1>12, SMT DEF IInv, TypeOK, CoordinatorTypeOK, Token, Key, Row, Label,
       Ends, Successor, StepFails, StopBackend, Abort
  <2>2. PhaseInv'
    BY <1>12, SMT DEF IInv, TypeOK, CoordinatorTypeOK, PhaseInv, WaitingInv,
       EpisodeInv, RowInv, FinishInv, HeldId, Position, Kept, Follows,
       Successor, StepFails, StopBackend, Abort
  <2>3. ArmInv'
    BY <1>12, SMT DEF IInv, ArmInv, Successor, StepFails, StopBackend, Abort
  <2>4. StopInv'
    BY <1>12, SMT DEF IInv, StopInv, Successor, StepFails, StopBackend, Abort
  <2>5. KeysInv'
    BY <1>12, SMT DEF IInv, KeysInv, Successor, StepFails, StopBackend, Abort
  <2>6. NoStepIsForgotten'
    BY <1>12, SMT DEF IInv, NoStepIsForgotten, Successor, StepFails,
       StopBackend, Abort
  <2> QED
    BY <2>1, <2>2, <2>3, <2>4, <2>5, <2>6 DEF IInv
<1>13. CASE Outcome
  <2>1. TypeOK'
    BY <1>0, <1>13, SMT DEF IInv, TypeOK, CoordinatorTypeOK, Token, Key, Row, Label,
       Ends, Outcome, StopBackend, Abort, FinishStep, Conflict, NewRow
  <2>2. PhaseInv'
    BY <1>13, SMT DEF IInv, TypeOK, CoordinatorTypeOK, Token, Key, Row, Label,
       Ends, PhaseInv, WaitingInv, EpisodeInv, RowInv, FinishInv, KeysInv,
       HeldId, Position, Kept, Follows, Outcome, StopBackend, Abort,
       FinishStep, Conflict, NewRow
  <2>3. ArmInv'
    BY <1>13, SMT DEF IInv, ArmInv, Outcome, StopBackend, Abort, FinishStep,
       Conflict, NewRow
  <2>4. StopInv'
    BY <1>13, SMT DEF IInv, StopInv, Outcome, StopBackend, Abort, FinishStep,
       Conflict, NewRow
  <2>5. KeysInv'
    BY <1>13, SMT DEF IInv, KeysInv, Outcome, StopBackend, Abort, FinishStep,
       Conflict, NewRow
  <2>6. NoStepIsForgotten'
    BY <1>13, SMT DEF IInv, PhaseInv, EpisodeInv, NoStepIsForgotten, Follows,
       SameStep, Position, Outcome, StopBackend, Abort, FinishStep, Conflict,
       NewRow
  <2> QED
    BY <2>1, <2>2, <2>3, <2>4, <2>5, <2>6 DEF IInv
<1>14. CASE Record
  <2>1. TypeOK'
    BY <1>0, <1>14, SMT DEF IInv, TypeOK, CoordinatorTypeOK, Token, Key, Row, Label,
       Ends, Record, Upload, UploadRaises
  <2>2. PhaseInv'
    BY <1>14, SMT DEF IInv, TypeOK, CoordinatorTypeOK, PhaseInv, WaitingInv,
       EpisodeInv, RowInv, FinishInv, HeldId, Position, Kept, Follows, Record,
       Upload, UploadRaises
  <2>3. ArmInv'
    BY <1>14, SMT DEF IInv, ArmInv, Record, Upload, UploadRaises
  <2>4. StopInv'
    BY <1>14, SMT DEF IInv, StopInv, Record, Upload, UploadRaises
  <2>5. KeysInv'
    BY <1>14, SMT DEF IInv, KeysInv, Record, Upload, UploadRaises
  <2>6. NoStepIsForgotten'
    BY <1>14, SMT DEF IInv, NoStepIsForgotten, Follows, SameStep, Record,
       Upload, UploadRaises
  <2> QED
    BY <2>1, <2>2, <2>3, <2>4, <2>5, <2>6 DEF IInv
<1>15. CASE Build
  <2>1. TypeOK'
    BY <1>0, <1>15, SMT DEF IInv, TypeOK, CoordinatorTypeOK, Token, Key, Row, Label,
       Ends, PhaseInv, WaitingInv, EpisodeInv, RowInv, FinishInv, Build,
       Upload, UploadRaises
  <2>2. PhaseInv'
    BY <1>15, SMT DEF IInv, TypeOK, CoordinatorTypeOK, Token, Key, Row, Label,
       Ends, PhaseInv, WaitingInv, EpisodeInv, RowInv, FinishInv, HeldId,
       Position, Kept, Follows, Build, Upload, UploadRaises
  <2>3. ArmInv'
    BY <1>15, SMT DEF IInv, TypeOK, CoordinatorTypeOK, Token, Key, Row, Label,
       Ends, PhaseInv, WaitingInv, EpisodeInv, RowInv, FinishInv, ArmInv,
       StopInv, KeysInv, NoStepIsForgotten, HeldId, Position, Kept, Follows,
       SameStep, Build, Upload, UploadRaises
  <2>4. StopInv'
    BY <1>15, SMT DEF IInv, StopInv, Build, Upload, UploadRaises
  <2>5. KeysInv'
    BY <1>15, SMT DEF IInv, KeysInv, Build, Upload, UploadRaises
  <2>6. NoStepIsForgotten'
    BY <1>15, SMT DEF IInv, PhaseInv, RowInv, NoStepIsForgotten, Follows,
       SameStep, Kept, Build, Upload, UploadRaises
  <2> QED
    BY <2>1, <2>2, <2>3, <2>4, <2>5, <2>6 DEF IInv
<1>16. CASE Settle
  <2>1. TypeOK'
    BY <1>0, <1>16, SMT DEF IInv, TypeOK, CoordinatorTypeOK, Token, Key, Row, Label,
       Ends, PhaseInv, WaitingInv, EpisodeInv, RowInv, FinishInv, Settle,
       SealEpisode, CanSeal, Upload, UploadRaises
  <2>2. PhaseInv'
    BY <1>16, SMT DEF IInv, TypeOK, CoordinatorTypeOK, Token, Key, Row, Label,
       Ends, PhaseInv, WaitingInv, EpisodeInv, RowInv, FinishInv, HeldId,
       Position, Kept, Follows, Settle, SealEpisode, CanSeal, Upload,
       UploadRaises
  <2>3. ArmInv'
    BY <1>16, SMT DEF IInv, ArmInv, Settle, SealEpisode, CanSeal, Upload,
       UploadRaises
  <2>4. StopInv'
    BY <1>16, SMT DEF IInv, StopInv, Settle, SealEpisode, CanSeal, Upload,
       UploadRaises
  <2>5. KeysInv'
    BY <1>16, SMT DEF IInv, KeysInv, Settle, SealEpisode, CanSeal, Upload,
       UploadRaises
  <2>6. NoStepIsForgotten'
    BY <1>16, SMT DEF IInv, TypeOK, CoordinatorTypeOK, Token, Key, Row, Label,
       Ends, PhaseInv, WaitingInv, EpisodeInv, RowInv, FinishInv,
       NoStepIsForgotten, Follows, SameStep, Position, Kept, Settle,
       SealEpisode, CanSeal, Upload, UploadRaises
  <2> QED
    BY <2>1, <2>2, <2>3, <2>4, <2>5, <2>6 DEF IInv
<1>17. CASE CameraFault
  <2>1. TypeOK'
    BY <1>0, <1>17, SMT DEF IInv, TypeOK, CoordinatorTypeOK, Token, Key, Row, Label,
       Ends, CameraFault, Abort, AbandonEpisode, CanAbandon, Upload,
       UploadRaises
  <2>2. PhaseInv'
    BY <1>17, SMT DEF IInv, TypeOK, CoordinatorTypeOK, Token, Key, Row, Label,
       Ends, PhaseInv, WaitingInv, EpisodeInv, RowInv, FinishInv, HeldId,
       Position, Kept, Follows, CameraFault, Abort, AbandonEpisode,
       CanAbandon, Upload, UploadRaises
  <2>3. ArmInv'
    BY <1>17, SMT DEF IInv, ArmInv, CameraFault, Abort, AbandonEpisode,
       CanAbandon, Upload, UploadRaises
  <2>4. StopInv'
    BY <1>17, SMT DEF IInv, StopInv, CameraFault, Abort, AbandonEpisode,
       CanAbandon, Upload, UploadRaises
  <2>5. KeysInv'
    BY <1>17, SMT DEF IInv, KeysInv, CameraFault, Abort, AbandonEpisode,
       CanAbandon, Upload, UploadRaises
  <2>6. NoStepIsForgotten'
    BY <1>17, SMT DEF IInv, TypeOK, CoordinatorTypeOK, Token, Key, Row, Label,
       Ends, PhaseInv, WaitingInv, EpisodeInv, RowInv, FinishInv,
       NoStepIsForgotten, Follows, SameStep, Position, Kept, CameraFault,
       Abort, AbandonEpisode, CanAbandon, Upload, UploadRaises
  <2> QED
    BY <2>1, <2>2, <2>3, <2>4, <2>5, <2>6 DEF IInv
<1>18. CASE CameraClose
  <2>0. /\ env' \in BOOLEAN /\ selfEnv' \in BOOLEAN
        /\ stopEvent' \in BOOLEAN /\ unread' \in BOOLEAN
    BY <1>18, Zenon DEF IInv, TypeOK, CameraClose
  <2>1. TypeOK'
    BY <1>0, <1>18, <2>0, SMT DEF IInv, TypeOK, CoordinatorTypeOK, Token, Key, Row,
       Label, Ends, CameraClose
  <2>2. PhaseInv'
    BY <1>18, SMT DEF IInv, PhaseInv, WaitingInv, EpisodeInv, RowInv,
       FinishInv, CameraClose
  <2>3. ArmInv'
    BY <1>18, SMT DEF IInv, PhaseInv, WaitingInv, ArmInv, CameraClose
  <2>4. StopInv'
    BY <1>18, SMT DEF IInv, StopInv, CameraClose
  <2>5. KeysInv'
    BY <1>18, SMT DEF IInv, KeysInv, CameraClose
  <2>6. NoStepIsForgotten'
    BY <1>18, SMT DEF IInv, NoStepIsForgotten, CameraClose
  <2> QED
    BY <2>1, <2>2, <2>3, <2>4, <2>5, <2>6 DEF IInv
<1>19. CASE FinishEpisode
  <2>0. /\ env' \in BOOLEAN /\ selfEnv' \in BOOLEAN
        /\ stopEvent' \in BOOLEAN /\ unread' \in BOOLEAN
    BY <1>19, Zenon DEF IInv, TypeOK, FinishEpisode, SealEpisode, CanSeal,
       ExitIfLabeled
  <2>1. TypeOK'
    BY <1>0, <1>19, <2>0, SMT DEF IInv, TypeOK, CoordinatorTypeOK, Token, Key, Row,
       Label, Ends, FinishEpisode, SealEpisode, CanSeal, ExitIfLabeled
  <2>2. PhaseInv'
    BY <1>19, SMT DEF IInv, PhaseInv, WaitingInv, EpisodeInv, RowInv,
       FinishInv, FinishEpisode, SealEpisode, CanSeal, ExitIfLabeled
  <2>3. ArmInv'
    BY <1>19, SMT DEF IInv, PhaseInv, FinishInv, ArmInv, FinishEpisode,
       SealEpisode, CanSeal, ExitIfLabeled
  <2>4. StopInv'
    BY <1>19, SMT DEF IInv, PhaseInv, FinishInv, StopInv, ArmInv,
       FinishEpisode, SealEpisode, CanSeal, ExitIfLabeled
  <2>5. KeysInv'
    BY <1>19, SMT DEF IInv, KeysInv, FinishEpisode, SealEpisode, CanSeal,
       ExitIfLabeled
  <2>6. NoStepIsForgotten'
    BY <1>19, SMT DEF IInv, NoStepIsForgotten, FinishEpisode, SealEpisode,
       CanSeal, ExitIfLabeled
  <2> QED
    BY <2>1, <2>2, <2>3, <2>4, <2>5, <2>6 DEF IInv
<1>20. CASE AutomaticReset
  <2>0. /\ env' \in BOOLEAN /\ selfEnv' \in BOOLEAN
        /\ stopEvent' \in BOOLEAN /\ unread' \in BOOLEAN
    BY <1>20, Zenon DEF IInv, TypeOK, AutomaticReset
  <2>1. TypeOK'
    BY <1>0, <1>20, <2>0, SMT DEF IInv, TypeOK, CoordinatorTypeOK, Token, Key, Row,
       Label, Ends, AutomaticReset
  <2>2. PhaseInv'
    BY <1>20, SMT DEF IInv, PhaseInv, WaitingInv, EpisodeInv, RowInv,
       FinishInv, AutomaticReset
  <2>3. ArmInv'
    BY <1>20, SMT DEF IInv, ArmInv, AutomaticReset
  <2>4. StopInv'
    BY <1>20, SMT DEF IInv, StopInv, AutomaticReset
  <2>5. KeysInv'
    BY <1>20, SMT DEF IInv, KeysInv, AutomaticReset
  <2>6. NoStepIsForgotten'
    BY <1>20, SMT DEF IInv, NoStepIsForgotten, AutomaticReset
  <2> QED
    BY <2>1, <2>2, <2>3, <2>4, <2>5, <2>6 DEF IInv
<1>21. CASE ResetEnds
  <2>0. env' \in BOOLEAN /\ selfEnv' \in BOOLEAN /\ stopEvent' \in BOOLEAN /\ unread' \in BOOLEAN
    BY <1>21, Zenon DEF IInv, TypeOK, ResetEnds, OfferContext, ExitIfLabeled
  <2>1. TypeOK'
    BY <1>0, <1>21, <2>0, SMT DEF IInv, TypeOK, CoordinatorTypeOK, Token, Key, Label, ResetEnds, OfferContext, ExitIfLabeled
  <2>2. WaitingInv'
    BY <1>21, SMT DEF IInv, PhaseInv, TypeOK, CoordinatorTypeOK, Row, WaitingInv, ResetEnds, OfferContext
  <2>3. EpisodeInv' /\ RowInv' /\ FinishInv'
    BY <1>21, SMT DEF IInv, PhaseInv, WaitingInv, EpisodeInv, RowInv, FinishInv, ResetEnds, OfferContext
  <2>5. (LoopIdle' \/ At("except")') /\ ~env'
    <3>1. state' = state /\ env' = env
      BY <1>21, Zenon DEF ResetEnds, OfferContext
    <3>2. pc' \in {"loop", "except"}
      BY <1>21, SMT DEF ResetEnds
    <3>3. state = "WAITING_FOR_RESET" /\ ~env
      BY <1>21, SMT DEF IInv, PhaseInv, WaitingInv, ArmInv, ResetEnds
    <3> QED
      BY <3>1, <3>2, <3>3, SMT
  <2>6. ArmInv'
    <3>1. CASE hold' = "held" /\ selfEnv' = FALSE
      <4>1. ~selfEnv' /\ hold' = "held"
        BY <3>1, Zenon
      <4> QED
        BY <4>1, <2>5, SMT DEF ArmInv
    <3>2. CASE selfEnv' = selfEnv /\ Goto("except")
      BY <1>21, <2>5, <3>2, SMT DEF IInv, ArmInv, ResetEnds
    <3> QED BY <1>21, <3>1, <3>2, Zenon DEF ResetEnds
  <2>7. StopInv'
    <3>1. stopEvent' => LoopIdle' /\ selfEnv' = FALSE
      <4>1. CASE Goto("except")
        <5>1. ~stopEvent
          BY <1>21, SMT DEF IInv, StopInv, ResetEnds
        <5>2. stopEvent' = stopEvent
          BY <1>21, <4>1, Zenon DEF ResetEnds
        <5> QED BY <5>1, <5>2, Zenon
      <4>2. CASE selfEnv' = FALSE /\ Goto("loop")
        BY <4>2, <2>5, SMT
      <4> QED BY <1>21, <4>1, <4>2, Zenon DEF ResetEnds
    <3>2. selfEnv' = FALSE => ~selfEnv'
      BY Zenon
    <3> QED
      BY <3>1, <3>2, <2>5, SMT DEF StopInv
  <2>8. KeysInv'
    BY <1>21, SMT DEF IInv, PhaseInv, WaitingInv, KeysInv, ResetEnds, OfferContext
  <2>9. NoStepIsForgotten'
    BY <1>21, SMT DEF IInv, NoStepIsForgotten, Follows, SameStep, ResetEnds
  <2> QED BY <2>1, <2>2, <2>3, <2>6, <2>7, <2>8, <2>9 DEF IInv, PhaseInv
<1>22. CASE HandleFailure
  <2>1. TypeOK'
    BY <1>0, <1>22, SMT DEF IInv, TypeOK, CoordinatorTypeOK, Token, Key, Row, Label,
       Ends, HandleFailure, StopBackend
  <2>2. PhaseInv'
    BY <1>22, SMT DEF IInv, PhaseInv, WaitingInv, EpisodeInv, RowInv,
       FinishInv, HandleFailure, StopBackend
  <2>3. ArmInv'
    BY <1>22, SMT DEF IInv, ArmInv, HandleFailure, StopBackend
  <2>4. StopInv'
    BY <1>22, SMT DEF IInv, StopInv, ArmInv, HandleFailure, StopBackend
  <2>5. KeysInv'
    BY <1>22, SMT DEF IInv, KeysInv, HandleFailure, StopBackend
  <2>6. NoStepIsForgotten'
    BY <1>22, SMT DEF IInv, NoStepIsForgotten, HandleFailure, StopBackend
  <2> QED
    BY <2>1, <2>2, <2>3, <2>4, <2>5, <2>6 DEF IInv
<1>23. CASE Finally
  <2>1. TypeOK'
    BY <1>0, <1>23, SMT DEF IInv, TypeOK, CoordinatorTypeOK, Token, Key, Row, Label,
       Ends, Finally, StopBackend
  <2>2. PhaseInv'
    BY <1>23, SMT DEF IInv, PhaseInv, WaitingInv, EpisodeInv, RowInv,
       FinishInv, Finally, StopBackend
  <2>3. ArmInv'
    BY <1>23, SMT DEF IInv, ArmInv, Finally, StopBackend
  <2>4. StopInv'
    BY <1>23, SMT DEF IInv, StopInv, Finally, StopBackend
  <2>5. KeysInv'
    BY <1>23, SMT DEF IInv, KeysInv, Finally, StopBackend
  <2>6. NoStepIsForgotten'
    BY <1>23, SMT DEF IInv, NoStepIsForgotten, Finally, StopBackend
  <2> QED
    BY <2>1, <2>2, <2>3, <2>4, <2>5, <2>6 DEF IInv
<1>24. CASE KeyboardInterrupt
  <2>1. TypeOK'
    BY <1>0, <1>24, SMT DEF IInv, TypeOK, CoordinatorTypeOK, Token, Key, Row, Label,
       Ends, KeyboardInterrupt, Abort
  <2>2. PhaseInv'
    BY <1>24, SMT DEF IInv, PhaseInv, WaitingInv, EpisodeInv, RowInv,
       FinishInv, KeyboardInterrupt, Abort
  <2>3. ArmInv'
    BY <1>24, SMT DEF IInv, ArmInv, KeyboardInterrupt, Abort
  <2>4. StopInv'
    BY <1>24, SMT DEF IInv, StopInv, KeyboardInterrupt, Abort
  <2>5. KeysInv'
    BY <1>24, SMT DEF IInv, KeysInv, KeyboardInterrupt, Abort
  <2>6. NoStepIsForgotten'
    BY <1>24, SMT DEF IInv, NoStepIsForgotten, KeyboardInterrupt, Abort
  <2> QED
    BY <2>1, <2>2, <2>3, <2>4, <2>5, <2>6 DEF IInv
<1>25. CASE Operator
  <2>0. /\ env' \in BOOLEAN /\ selfEnv' \in BOOLEAN
        /\ stopEvent' \in BOOLEAN /\ unread' \in BOOLEAN
    BY <1>25, Zenon DEF IInv, TypeOK, Operator, PressKey
  <2>1. TypeOK'
    BY <1>0, <1>25, <2>0, SMT DEF IInv, TypeOK, CoordinatorTypeOK, Token, Key, Row,
       Label, Ends, KeysInv, Operator, PressKey
  <2>2. PhaseInv'
    BY <1>25, SMT DEF IInv, TypeOK, CoordinatorTypeOK, PhaseInv, WaitingInv,
       EpisodeInv, RowInv, FinishInv, HeldId, Position, Kept, Follows,
       Operator, PressKey
  <2>3. ArmInv'
    BY <1>25, SMT DEF IInv, ArmInv, Operator, PressKey
  <2>4. StopInv'
    BY <1>25, SMT DEF IInv, StopInv, Operator, PressKey
  <2>5. KeysInv'
    BY <1>25, SMT DEF IInv, KeysInv, Operator, PressKey
  <2>6. NoStepIsForgotten'
    BY <1>25, SMT DEF IInv, NoStepIsForgotten, Operator, PressKey
  <2> QED
    BY <2>1, <2>2, <2>3, <2>4, <2>5, <2>6 DEF IInv
<1>26. CASE UNCHANGED vars
  BY <1>0, <1>26, SMT DEF vars, IInv, TypeOK, CoordinatorTypeOK, Token, Key, Row,
     Label, Ends, PhaseInv, WaitingInv, EpisodeInv, RowInv, FinishInv, ArmInv,
     StopInv, KeysInv, NoStepIsForgotten, HeldId, Position, Kept, Follows,
     SameStep
<1> QED
  BY <1>1, <1>2, <1>3, <1>4, <1>5, <1>6, <1>7, <1>8, <1>9, <1>10, <1>11,
     <1>12, <1>13, <1>14, <1>15, <1>16, <1>17, <1>18, <1>19, <1>20, <1>21,
     <1>22, <1>23, <1>24, <1>25, <1>26 DEF Next, Run

\* The invariant holds of every reachable state.
THEOREM InvariantHolds == Spec => []IInv
<1>1. Init => IInv
  BY InitIInv
<1>2. IInv /\ [Next]_vars => IInv'
  BY NextIInv
<1> QED
  BY <1>1, <1>2, PTL DEF Spec

-----------------------------------------------------------------------------
\* Every variable of the Actor keeps its type, for any step limit, any number of
\* episodes, with and without the automatic reset.
THEOREM TypeCorrect == Spec => []TypeOK
<1>1. IInv => TypeOK
  BY DEF IInv
<1> QED
  BY <1>1, InvariantHolds, PTL

\* No step the robot took is lost between the runtime and the uplink.
THEOREM StepsAreKept == Spec => []NoStepIsForgotten
<1>1. IInv => NoStepIsForgotten
  BY DEF IInv
<1> QED
  BY <1>1, InvariantHolds, PTL

\* A command is out only for the step the coordinator holds, in the episode that
\* runs, on a live backend, with no older label unread.
THEOREM CommandsInEpisode == Spec => []CommandsStayInTheirEpisode
<1>1. IInv => CommandsStayInTheirEpisode
  BY SMT DEF IInv, PhaseInv, EpisodeInv, Position, Follows, ArmInv, KeysInv, TypeOK,
             CoordinatorTypeOK, Row, InStep, InEpisode, Failing, At, Running, Ended,
             CommandsStayInTheirEpisode
<1> QED
  BY <1>1, InvariantHolds, PTL

\* run() calls the coordinator only in states that accept the call.
THEOREM CoordinatorAccepts == Spec => []CoordinatorNeverRefuses
<1>1. IInv => CoordinatorNeverRefuses
  BY NoneAssumption, RowAssumption, SMT
     DEF IInv, PhaseInv, WaitingInv, EpisodeInv, FinishInv, ArmInv, HeldId, TypeOK,
         CoordinatorTypeOK, Row, LoopIdle, LoopBusy, BetweenSteps, InStep, InEpisode,
         At, Running, RowId, CanSeal, CanAbandon, CoordinatorNeverRefuses
<1> QED
  BY <1>1, InvariantHolds, PTL

\* No backend is built while another may move the arm.
THEOREM OneBackend == Spec => []OneBackendAtATime
<1>1. IInv => OneBackendAtATime
  BY SMT DEF IInv, ArmInv, At, OneBackendAtATime
<1> QED
  BY <1>1, InvariantHolds, PTL

\* stop_confirmed is TRUE at the exit only if no backend may move the arm.
THEOREM StopIsHonest == Spec => []StopConfirmedIsHonest
<1>1. IInv => StopConfirmedIsHonest
  BY DEF IInv, StopInv, At, StopConfirmedIsHonest
<1> QED
  BY <1>1, InvariantHolds, PTL

-----------------------------------------------------------------------------
\* A row that arrives at the uplink is a row, follows the newest one there and,
\* if an operator's label ends it, that label was given to its step.
Arrives ==
    lastRow' # lastRow =>
        /\ lastRow' \in Row /\ Follows(lastRow', lastRow)
        /\ lastRow'.end \in Label =>
               label' = [label |-> lastRow'.end, ep |-> lastRow'.ep, gates |-> lastRow'.step + 1]

\* Only four operations upload; the others leave the log alone.
LEMMA EveryRowArrivesInOrder == IInv /\ [Next]_vars => Arrives
<1> SUFFICES ASSUME IInv, [Next]_vars PROVE Arrives
  OBVIOUS
<1> USE RowAssumption DEF Arrives, Follows, Ended, At, Upload, UploadRaises, rowVars
<1>1. CASE Record
  BY <1>1, SMT DEF Record, IInv, TypeOK, PhaseInv, RowInv, Row, Label, Ends
<1>2. CASE Build
  BY <1>2, SMT DEF Build, IInv, TypeOK, PhaseInv, RowInv, Kept, Row, Label, Ends
<1>3. CASE Settle
  <2>1. /\ pending \in Row /\ Follows(pending, lastRow)
        /\ label \in Key /\ label.ep = pending.ep /\ label.gates = pending.step + 1
    BY <1>3, SMT DEF Settle, IInv, TypeOK, PhaseInv, EpisodeInv, Position, InEpisode,
                     BetweenSteps
  <2>2. lastRow' # lastRow => /\ row' = [pending EXCEPT !.end = label.label]
                              /\ label' = label /\ lastRow' = row'
    BY <1>3, SMT DEF Settle
  <2>3. label = [label |-> label.label, ep |-> label.ep, gates |-> label.gates]
    BY <2>1, SMT DEF Key
  <2>4. lastRow' # lastRow =>
            /\ row' \in Row /\ row'.end = label.label
            /\ row'.ep = pending.ep /\ row'.step = pending.step
    BY <2>1, <2>2, SMT DEF Row, Key, Label, Ends
  <2> QED
    BY <2>1, <2>2, <2>3, <2>4, SMT
<1>4. CASE CameraFault
  <2>1. pending # None => pending \in Row /\ Follows(pending, lastRow)
    BY <1>4, SMT DEF CameraFault, IInv, TypeOK, PhaseInv, EpisodeInv, Position, InEpisode
  <2>2. lastRow' # lastRow =>
            pending # None /\ lastRow' = [pending EXCEPT !.end = "interrupted"]
    BY <1>4, SMT DEF CameraFault
  <2> QED
    BY <2>1, <2>2, SMT DEF Row, Label, Ends
<1>5. CASE UNCHANGED lastRow
  BY <1>5
<1>6. Next => Record \/ Build \/ Settle \/ CameraFault \/ UNCHANGED lastRow
  BY Zenon DEF Next, Run, Operator, LoopHead, LeaveLoop, ReadContext, KeepContext, Chord,
     OpenEnvironment, Gate, Refresh, Decide, BeforeCommand, Command, Successor, Outcome,
     CameraClose, FinishEpisode, AutomaticReset, ResetEnds, HandleFailure, Finally,
     KeyboardInterrupt
<1> QED
  BY <1>1, <1>2, <1>3, <1>4, <1>5, <1>6, Zenon DEF vars

\* Such a row is a step of the abstract log.
LEMMA ArrivalIsLogStep == TypeOK /\ Arrives => [Log!Next]_lastRow
<1> SUFFICES ASSUME TypeOK, Arrives, lastRow' # lastRow PROVE Log!Next
  OBVIOUS
<1>1. /\ lastRow \in Row /\ lastRow' \in Row /\ Follows(lastRow', lastRow)
  BY DEF TypeOK, Arrives
<1>2. CASE Ended(lastRow)
  BY <1>1, <1>2, SMT DEF Row, Ends, Follows, Ended, Log!Next, Log!FirstStep, Log!Ends
<1>3. CASE ~Ended(lastRow)
  <2>1. lastRow' = [ep |-> lastRow.ep, step |-> lastRow.step + 1, end |-> lastRow'.end]
    BY <1>1, <1>3, SMT DEF Row, Follows
  <2>2. lastRow'.end \in Ends \cup {"open"}
    BY <1>1, SMT DEF Row
  <2> QED
    BY <1>3, <2>1, <2>2, SMT DEF Ended, Ends, Log!Next, Log!NextStep, Log!Ends
<1> QED
  BY <1>2, <1>3

\* Whoever reads the transitions sees whole episodes: the runtime, with its labels,
\* time limits, camera faults, resets, failures and Ctrl+C, implements EpisodeLog.
THEOREM ImplementsEpisodeLog == Spec => UplinkGetsWholeEpisodes
<1>1. Init => Log!Init
  BY DEF Init, Log!Init
<1>2. IInv /\ [Next]_vars => [Log!Next]_lastRow
  BY EveryRowArrivesInOrder, ArrivalIsLogStep DEF IInv
<1> QED
  BY <1>1, <1>2, InvariantHolds, PTL DEF Spec, UplinkGetsWholeEpisodes, Log!Spec

\* A label closes the step whose command was the last one sent when the operator
\* typed it.
THEOREM LabelsCloseTheirStep == Spec => LabelClosesTheStepItSaw
<1>1. IInv /\ [Next]_vars =>
          [lastRow' # lastRow /\ lastRow'.end \in Label =>
               label' = [label |-> lastRow'.end, ep |-> lastRow'.ep,
                         gates |-> lastRow'.step + 1]]_vars
  BY EveryRowArrivesInOrder DEF Arrives
<1> QED
  BY <1>1, InvariantHolds, PTL DEF Spec, LabelClosesTheStepItSaw

=============================================================================
