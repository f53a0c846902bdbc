------------------------- MODULE MotionBackendProofs -------------------------
(***************************************************************************)
(* What MotionBackend promises, proved for any timeouts, bounds and number  *)
(* of rechecks.  Every step of the backend is a step of the CommandStream it *)
(* owns, so the stream's theorems, and its inductive invariant IInv, hold    *)
(* here; BInv adds what the calling thread and the two locks know.           *)
(***************************************************************************)
EXTENDS MotionBackend, CommandStreamProofs

\* Main is inside the stream exactly where its own program counter says so.
BInvCalls ==
    /\ caller[Main].pc = "waiting" <=> pc = "waiting"
    /\ pc = "waiting" => caller[Main].seq = sequence
    /\ stopper.pc = "joining" <=> pc = "joining"
    /\ stopper.pc = "hold_failed" => stop_fault

\* Who holds the reader's lock, and what a confirmed stop has left behind.
BInvStop ==
    /\ reader_lock = "main" <=> pc = "reading"
    /\ reader_lock = "writer" \/ posed => writer = "hold"
    /\ stop_confirmed = "yes" => ThreadsEnded /\ halt /\ ~stop_fault /\ wire.kind # "target"
    /\ stop_confirmed # "unknown" => halt
    /\ closed \/ (pc = "locking" /\ purpose = "close") => stop_confirmed = "yes"
    /\ closed => pc # "reading"

\* The record of the step follows the stream's counters.
BInvStatus ==
    /\ \/ pc \in {"gate", "revalidate"}
       \/ pc \in {"locking", "reading"} /\ purpose \in {"before", "pose", "recheck"}
       => execution.status = "not_submitted"
    /\ execution.status \in {"not_submitted", "submission_attempted_unconfirmed"}
          => sequence = execution.before
    /\ execution.status = "submitted_unconfirmed" => sequence = execution.before + 1
    /\ execution.status = "acknowledged" => ack_sequence > execution.before
    /\ pc = "waiting" => execution.status = "submitted_unconfirmed"
    /\ pc = "anchor" => execution.status = "acknowledged"
    /\ execution.anchored => execution.status = "acknowledged"
    /\ camera.after_anchor => camera.shows
    /\ pc = "outcome" /\ execution.anchored => camera.after_anchor

\* An error stops the stream before it leaves; an interrupt only stops or closes.
BInvFailure ==
    /\ raised_by = "error" => pc = "failing" \/ halt
    /\ raised_by = "interrupt" =>
          pc \in {"ready", "joining"} \/ (pc = "locking" /\ purpose = "close")

\* Between a submission and its successor the feedback lease is an older one.
BetweenCommandAndSuccessor ==
    \/ pc \in {"waiting", "anchor", "pace"}
    \/ pc \in {"locking", "reading"} /\ purpose = "successor"

BInvLease ==
    /\ deadline # None => deadline <= now + CommandTimeout
    /\ sequence > 0 => deadline # None
    /\ sequence > 0 /\ raised_by = "none" /\ ~BetweenCommandAndSuccessor =>
          valid_until >= deadline + SendTimeout

BInv == BackendTypeOK /\ BInvCalls /\ BInvStop /\ BInvStatus /\ BInvFailure /\ BInvLease

------------------------------------------------------------------------------
(* The backend drives the stream.                                            *)

\* The calls that leave the stream alone, by what they change of it: nothing.
Quiet ==
    \/ Observe \/ BeginEpisode \/ \E p \in BOOLEAN : Execute(p)
    \/ LockReader \/ ReadRaises \/ ReadRetries \/ PoseAccepted \/ ObservationAccepted
    \/ GateOpens \/ Recheck \/ InputExpires \/ Anchor \/ Pace \/ OutcomeReturns
    \/ CloseReader \/ CameraCaptures \/ WriterLocksReader \/ WriterMeasures \/ Rests

LEMMA QuietStep == Quiet => UNCHANGED vars
  BY DEF Quiet, Observe, BeginEpisode, Execute, LockReader, ReadRaises, ReadRetries,
     PoseAccepted, ObservationAccepted, GateOpens, Recheck, InputExpires, Anchor, Pace,
     OutcomeReturns, CloseReader, CameraCaptures, WriterLocksReader, WriterMeasures, Rests,
     allVars

\* Every step of the backend is a step of its stream, or leaves it alone.
LEMMA BackendStepIsStreamStep == [BackendNext]_allVars => [Next]_vars
<1> SUFFICES ASSUME [BackendNext]_allVars PROVE [Next]_vars
  OBVIOUS
<1> USE MainAssumption
<1>1. CASE Quiet
  BY <1>1, QuietStep
<1>2. CASE SubmitTarget \/ SubmitRefused \/ SendWaited
  BY <1>2 DEF SubmitTarget, SubmitRefused, SendWaited, Next, CallerNext
<1>3. CASE Abort \/ StopCall \/ CloseCall \/ StopAnswered
  BY <1>3 DEF Abort, StopCall, CloseCall, StopFor, StopAnswered, Next
<1>4. CASE Interrupt
  BY <1>4 DEF Interrupt, Next, CallerNext
<1>5. CASE StreamThreads
  BY <1>5 DEF StreamThreads, Next, SdkCall
<1>6. CASE HoldEnds
  BY <1>6 DEF HoldEnds, Next, SdkCall
<1>7. CASE UNCHANGED allVars
  BY <1>7 DEF allVars
<1> QED
  BY <1>1, <1>2, <1>3, <1>4, <1>5, <1>6, <1>7 DEF BackendNext, MainThread, Quiet

\* MotionBackend is a CommandStream with one caller: every theorem about the
\* stream holds of the backend.
THEOREM BackendDrivesTheStream == BackendSpec => Spec
<1>1. BackendInit => Init
  BY DEF BackendInit
<1> QED
  BY <1>1, BackendStepIsStreamStep, PTL DEF BackendSpec, Spec

------------------------------------------------------------------------------
(* What the stream's own threads may change, as far as BInv reads it.         *)

ThreadsMove ==
    \/ Tick \/ WriterThread \/ SdkActs \/ SdkReturns \/ SdkRaises \/ WatchdogThread
    \/ WriterHolds

ThreadFacts ==
    /\ UNCHANGED <<caller, stopper, sequence, deadline>>
    /\ now <= now' /\ ack_sequence <= ack_sequence'
    /\ halt => halt'
    /\ ThreadsEnded /\ halt => UNCHANGED <<writer, watchdog, wire, stop_fault>>
    /\ stop_fault => stop_fault'
    /\ writer = "hold" => writer' = "hold" \/ WriterHolds

\* The threads renew no lease, submit nothing, and only ever move on.
LEMMA ThreadStep == IInv /\ ThreadsMove => ThreadFacts
<1> SUFFICES ASSUME IInv, ThreadsMove PROVE ThreadFacts
  OBVIOUS
<1> USE DEF IInv, TypeOK, StreamTypeOK, ThreadsTypeOK, WriterTypeOK, Time, None, ThreadFacts,
            streamVars, ThreadsEnded
<1>1. CASE Tick
  BY <1>1 DEF Tick, writerVars, portVars
<1>2. CASE WriterLeaves \/ WriterPeriodEnds \/ WriterFindsLapse \/ SdkReturns
  BY <1>2 DEF WriterLeaves, WriterPeriodEnds, WriterFindsLapse, SdkReturns, WriterGoes,
     WriterRaises, portVars
<1>3. CASE WriterTakesTarget \/ WriterRejectsSend \/ WriterAcknowledges
  BY <1>3 DEF WriterTakesTarget, WriterRejectsSend, WriterAcknowledges, WriterGoes,
     WriterRaises, portVars
<1>4. CASE WriterChecksPort \/ WriterRechecksCancel \/ SdkRaises
  BY <1>4 DEF WriterChecksPort, WriterRechecksCancel, SdkRaises, SendChecked, SendRefused,
     SendFailed, WriterGoes, WriterRaises, portVars
<1>5. CASE SdkActs
  BY <1>5 DEF SdkActs, TargetActs, WriterGoes
<1>6. CASE WriterFails \/ WatchdogThread
  BY <1>6 DEF WriterFails, WatchdogThread, WatchdogFinds, WatchdogLeaves, Fail, WriterGoes,
     writerVars, portVars
<1>7. CASE WriterStopsPort
  BY <1>7 DEF WriterStopsPort, StopLatched, StopRaised, Fail, WriterGoes
<1>8. CASE WriterHolds
  BY <1>8 DEF WriterHolds, StopRaised, Fail, WriterGoes
<1> QED
  BY <1>1, <1>2, <1>3, <1>4, <1>5, <1>6, <1>7, <1>8 DEF ThreadsMove, WriterThread

\* A stop() that has just returned without an error left the robot still.
LEMMA StopAnswerIsTrue ==
    ASSUME IInv, IInv', StopReturns
    PROVE  /\ UNCHANGED <<halt, stop_fault, sequence, ack_sequence, deadline, now, wire, writer,
                          watchdog, caller>>
           /\ halt /\ stopper.pc = "joining" /\ stopper'.pc # "joining"
           /\ stopper'.pc = "hold_failed" => stop_fault
           /\ stopper'.pc = "confirmed" => ThreadsEnded /\ ~stop_fault /\ wire.kind # "target"
           /\ ThreadsEnded /\ ~stop_fault => stopper'.pc = "confirmed"
  BY DEF StopReturns, IInv, InvEnd, InvStart, TypeOK, PortTypeOK, ThreadsEnded, streamVars,
     writerVars, portVars

------------------------------------------------------------------------------
(* Each part of BInv is preserved by every action.                           *)

\* Every step of the backend keeps its variables in their types.
LEMMA BackendTypeStep ==
    ASSUME BInv, IInv, IInv', [BackendNext]_allVars
    PROVE  BackendTypeOK'
<1> USE TimingAssumption, MainAssumption
<1> USE DEF BInv, BackendTypeOK, ExecutionType, IInv, TypeOK, StreamTypeOK, ThreadsTypeOK,
   Time, None, vars, portVars, streamVars, writerVars, callVars, lockVars, stopVars,
   evidenceVars, stepVars
<1>1. CASE Observe
  BY <1>1 DEF Observe, Ready, Read
<1>2. CASE BeginEpisode
  <2>1. CASE episode_reference' = TRUE /\ Return
    BY <1>2, <2>1 DEF BeginEpisode, Ready, Return
  <2>2. CASE Raise /\ UNCHANGED episode_reference
    BY <1>2, <2>2 DEF BeginEpisode, Ready, Raise
  <2> QED
    BY <1>2, <2>1, <2>2 DEF BeginEpisode
<1>3. CASE \E p \in BOOLEAN : Execute(p)
  BY <1>3 DEF Execute, Ready, Read, Raise, NewExecution
<1>4. CASE LockReader
  BY <1>4 DEF LockReader, Raise, Goto
<1>5. CASE ReadRaises
  BY <1>5 DEF ReadRaises, Raise
<1>6. CASE ReadRetries
  BY <1>6 DEF ReadRetries, Read
<1>7. CASE PoseAccepted
  BY <1>7 DEF PoseAccepted, Goto, Raise
<1>8. CASE ObservationAccepted
  BY <1>8 DEF ObservationAccepted, Goto, Return, RenewLease, SuccessorProven
<1>9. CASE GateOpens
  BY <1>9 DEF GateOpens, Goto, Raise
<1>10. CASE Recheck
  BY <1>10 DEF Recheck, Read
<1>11. CASE InputExpires
  BY <1>11 DEF InputExpires, Raise
<1>12. CASE Anchor
  BY <1>12 DEF Anchor, Goto
<1>13. CASE Pace
  BY <1>13 DEF Pace, Raise, Read
<1>14. CASE OutcomeReturns
  <2>1. CASE Return /\ NoStep
    BY <1>14, <2>1 DEF OutcomeReturns, Return, NoStep, NoExecution, NoFrame
  <2>2. CASE Raise /\ UNCHANGED stepVars
    BY <1>14, <2>2 DEF OutcomeReturns, Raise
  <2> QED
    BY <1>14, <2>1, <2>2 DEF OutcomeReturns
<1>15. CASE CloseReader
  BY <1>15 DEF CloseReader, Return
<1>16. CASE CameraCaptures
  BY <1>16 DEF CameraCaptures
<1>17. CASE WriterLocksReader
  BY <1>17 DEF WriterLocksReader
<1>18. CASE WriterMeasures
  BY <1>18 DEF WriterMeasures
<1>19. CASE Rests
  BY <1>19 DEF Rests, allVars, backendVars
<1>20. CASE SubmitTarget
  BY <1>20 DEF SubmitTarget, Submit, Goto
<1>21. CASE SubmitRefused
  BY <1>21 DEF SubmitRefused, SubmitAfterLease, Fail, Raise
<1>22. CASE SendWaited
  BY <1>22 DEF SendWaited, WaitTimesOut, WaitEnds, Fail, Raise, Goto
<1>23. CASE Abort \/ StopCall \/ CloseCall
  <2>1. execution' \in ExecutionType /\ drift' \in {"within", "beyond"}
          /\ camera' \in [shows : BOOLEAN, after_anchor : BOOLEAN]
    <3>1. CASE UNCHANGED stepVars
      BY <3>1
    <3>2. CASE NoStep
      BY <3>2 DEF NoStep, NoExecution, NoFrame
    <3> QED
      BY <1>23, <3>1, <3>2 DEF Abort, StopCall, CloseCall
  <2>2. PICK reason \in {"abort", "stop", "close"} : StopFor(reason)
    BY <1>23 DEF Abort, StopCall, CloseCall
  <2> QED
    BY <2>1, <2>2 DEF StopFor, Answer
<1>24. CASE StopAnswered
  BY <1>24, StopAnswerIsTrue DEF StopAnswered, Answer
<1>25. CASE Interrupt
  BY <1>25 DEF Interrupt, WaitInterrupted, StopInterrupted, NoStep, NoExecution, NoFrame
<1>26. CASE StreamThreads
  BY <1>26, ThreadStep DEF StreamThreads, ThreadsMove, ThreadFacts, backendVars
<1>27. CASE HoldEnds
  <2> HIDE DEF IInv
  <2>1. reader_lock' \in {"free", "main", "writer"} /\ posed' \in BOOLEAN
    BY <1>27 DEF HoldEnds
  <2>2. UNCHANGED <<pc, purpose, raised_by, execution, drift, camera, valid_until>>
    BY <1>27 DEF HoldEnds
  <2>3. UNCHANGED <<backend_stopped, closed, stop_confirmed, episode_reference, last_accepted>>
    BY <1>27 DEF HoldEnds
  <2> QED
    BY <2>1, <2>2, <2>3
<1>28. CASE UNCHANGED allVars
  BY <1>28 DEF allVars, backendVars
<1> QED
  BY <1>1, <1>2, <1>3, <1>4, <1>5, <1>6, <1>7, <1>8, <1>9, <1>10, <1>11, <1>12, <1>13, <1>14,
     <1>15, <1>16, <1>17, <1>18, <1>19, <1>20, <1>21, <1>22, <1>23, <1>24, <1>25, <1>26, <1>27,
     <1>28 DEF BackendNext, MainThread

\* Main's place in the backend and in the stream move together.
LEMMA CallsStep ==
    ASSUME BInv, IInv, IInv', [BackendNext]_allVars
    PROVE  BInvCalls'
<1> USE TimingAssumption, MainAssumption
<1> USE DEF BInv, BackendTypeOK, ExecutionType, IInv, TypeOK, StreamTypeOK, ThreadsTypeOK,
   Time, None, BInvCalls, vars, portVars, streamVars, writerVars, callVars, lockVars, stopVars,
   evidenceVars, stepVars
<1>1. CASE Observe
  BY <1>1 DEF Observe, Ready, Read
<1>2. CASE BeginEpisode
  BY <1>2 DEF BeginEpisode, Ready, Return, Raise
<1>3. CASE \E p \in BOOLEAN : Execute(p)
  BY <1>3 DEF Execute, Ready, Read, Raise, NewExecution
<1>4. CASE LockReader
  BY <1>4 DEF LockReader, Raise, Goto
<1>5. CASE ReadRaises
  BY <1>5 DEF ReadRaises, Raise
<1>6. CASE ReadRetries
  BY <1>6 DEF ReadRetries, Read
<1>7. CASE PoseAccepted
  BY <1>7 DEF PoseAccepted, Goto, Raise
<1>8. CASE ObservationAccepted
  BY <1>8 DEF ObservationAccepted, Goto, Return, RenewLease, SuccessorProven
<1>9. CASE GateOpens
  BY <1>9 DEF GateOpens, Goto, Raise
<1>10. CASE Recheck
  BY <1>10 DEF Recheck, Read
<1>11. CASE InputExpires
  BY <1>11 DEF InputExpires, Raise
<1>12. CASE Anchor
  BY <1>12 DEF Anchor, Goto
<1>13. CASE Pace
  BY <1>13 DEF Pace, Raise, Read
<1>14. CASE OutcomeReturns
  BY <1>14 DEF OutcomeReturns, Return, Raise, NoStep, NoExecution, NoFrame
<1>15. CASE CloseReader
  BY <1>15 DEF CloseReader, Return
<1>16. CASE CameraCaptures
  BY <1>16 DEF CameraCaptures
<1>17. CASE WriterLocksReader
  BY <1>17 DEF WriterLocksReader
<1>18. CASE WriterMeasures
  BY <1>18 DEF WriterMeasures
<1>19. CASE Rests
  BY <1>19 DEF Rests, allVars, backendVars
<1>20. CASE SubmitTarget
  BY <1>20 DEF SubmitTarget, Submit, Goto
<1>21. CASE SubmitRefused
  BY <1>21 DEF SubmitRefused, SubmitAfterLease, Fail, Raise
<1>22. CASE SendWaited
  BY <1>22 DEF SendWaited, WaitTimesOut, WaitEnds, Fail, Raise, Goto
<1>23. CASE Abort \/ StopCall \/ CloseCall
  BY <1>23 DEF Abort, StopCall, CloseCall, StopFor, StopCalled, Answer, NoStep, NoExecution,
     NoFrame
<1>24. CASE StopAnswered
  BY <1>24, StopAnswerIsTrue DEF StopAnswered, Answer
<1>25. CASE Interrupt
  BY <1>25 DEF Interrupt, WaitInterrupted, StopInterrupted, NoStep, NoExecution, NoFrame
<1>26. CASE StreamThreads
  BY <1>26, ThreadStep DEF StreamThreads, ThreadsMove, ThreadFacts, backendVars
<1>27. CASE HoldEnds
  BY <1>27, ThreadStep DEF HoldEnds, ThreadsMove, ThreadFacts
<1>28. CASE UNCHANGED allVars
  BY <1>28 DEF allVars, backendVars
<1> QED
  BY <1>1, <1>2, <1>3, <1>4, <1>5, <1>6, <1>7, <1>8, <1>9, <1>10, <1>11, <1>12, <1>13, <1>14,
     <1>15, <1>16, <1>17, <1>18, <1>19, <1>20, <1>21, <1>22, <1>23, <1>24, <1>25, <1>26, <1>27,
     <1>28 DEF BackendNext, MainThread

\* A confirmed stop leaves nothing for a later step to disturb.
LEMMA StopStep ==
    ASSUME BInv, IInv, IInv', [BackendNext]_allVars
    PROVE  BInvStop'
<1> USE TimingAssumption, MainAssumption
<1> USE DEF BInv, BackendTypeOK, ExecutionType, IInv, TypeOK, StreamTypeOK, ThreadsTypeOK,
   Time, None, WriterTypeOK, PortTypeOK, InvEnd, InvStart, BInvCalls, BInvStop, ThreadsEnded,
   vars, portVars, streamVars, writerVars, callVars, lockVars, stopVars, evidenceVars, stepVars
<1>1. CASE Observe
  BY <1>1 DEF Observe, Ready, Read
<1>2. CASE BeginEpisode
  BY <1>2 DEF BeginEpisode, Ready, Return, Raise
<1>3. CASE \E p \in BOOLEAN : Execute(p)
  BY <1>3 DEF Execute, Ready, Read, Raise, NewExecution
<1>4. CASE LockReader
  BY <1>4 DEF LockReader, Raise, Goto
<1>5. CASE ReadRaises
  BY <1>5 DEF ReadRaises, Raise
<1>6. CASE ReadRetries
  BY <1>6 DEF ReadRetries, Read
<1>7. CASE PoseAccepted
  BY <1>7 DEF PoseAccepted, Goto, Raise
<1>8. CASE ObservationAccepted
  BY <1>8 DEF ObservationAccepted, Goto, Return, RenewLease, SuccessorProven
<1>9. CASE GateOpens
  BY <1>9 DEF GateOpens, Goto, Raise
<1>10. CASE Recheck
  BY <1>10 DEF Recheck, Read
<1>11. CASE InputExpires
  BY <1>11 DEF InputExpires, Raise
<1>12. CASE Anchor
  BY <1>12 DEF Anchor, Goto
<1>13. CASE Pace
  BY <1>13 DEF Pace, Raise, Read
<1>14. CASE OutcomeReturns
  BY <1>14 DEF OutcomeReturns, Return, Raise, NoStep, NoExecution, NoFrame
<1>15. CASE CloseReader
  BY <1>15 DEF CloseReader, Return
<1>16. CASE CameraCaptures
  BY <1>16 DEF CameraCaptures
<1>17. CASE WriterLocksReader
  BY <1>17 DEF WriterLocksReader
<1>18. CASE WriterMeasures
  BY <1>18 DEF WriterMeasures
<1>19. CASE Rests
  BY <1>19 DEF Rests, allVars, backendVars
<1>20. CASE SubmitTarget
  BY <1>20 DEF SubmitTarget, Submit, Goto
<1>21. CASE SubmitRefused
  BY <1>21 DEF SubmitRefused, SubmitAfterLease, Fail, Raise
<1>22. CASE SendWaited
  BY <1>22 DEF SendWaited, WaitTimesOut, WaitEnds, Fail, Raise, Goto
<1>23. CASE Abort \/ StopCall \/ CloseCall
  BY <1>23 DEF Abort, StopCall, CloseCall, StopFor, StopCalled, Answer, NoStep, NoExecution,
     NoFrame
<1>24. CASE StopAnswered
  BY <1>24, StopAnswerIsTrue DEF StopAnswered, Answer
<1>25. CASE Interrupt
  BY <1>25 DEF Interrupt, WaitInterrupted, StopInterrupted, NoStep, NoExecution, NoFrame
<1>26. CASE StreamThreads
  <2>1. ThreadFacts
    BY <1>26, ThreadStep DEF StreamThreads, ThreadsMove
  <2>2. UNCHANGED <<callVars, lockVars, stopVars>>
    BY <1>26 DEF StreamThreads, backendVars
  <2>3. writer = "hold" => writer' = "hold"
    BY <1>26 DEF StreamThreads, Tick, WriterThread, SdkActs, SdkReturns, SdkRaises,
       WatchdogThread, WatchdogFinds, WatchdogLeaves, WriterLeaves, WriterFindsLapse,
       WriterTakesTarget, WriterChecksPort, WriterRechecksCancel, WriterRejectsSend,
       WriterAcknowledges, WriterPeriodEnds, WriterFails, WriterStopsPort
  <2> QED
    BY <2>1, <2>2, <2>3 DEF ThreadFacts
<1>27. CASE HoldEnds
  BY <1>27, ThreadStep DEF HoldEnds, ThreadsMove, ThreadFacts
<1>28. CASE UNCHANGED allVars
  BY <1>28 DEF allVars, backendVars
<1> QED
  BY <1>1, <1>2, <1>3, <1>4, <1>5, <1>6, <1>7, <1>8, <1>9, <1>10, <1>11, <1>12, <1>13, <1>14,
     <1>15, <1>16, <1>17, <1>18, <1>19, <1>20, <1>21, <1>22, <1>23, <1>24, <1>25, <1>26, <1>27,
     <1>28 DEF BackendNext, MainThread

\* The record never runs ahead of the stream, nor behind it.
LEMMA StatusStep ==
    ASSUME BInv, IInv, IInv', [BackendNext]_allVars
    PROVE  BInvStatus'
<1> USE TimingAssumption, MainAssumption
<1> USE DEF BInv, BackendTypeOK, ExecutionType, IInv, TypeOK, StreamTypeOK, ThreadsTypeOK,
   Time, None, InvOrder, PortTypeOK, BInvCalls, BInvStatus, vars, portVars, streamVars,
   writerVars, callVars, lockVars, stopVars, evidenceVars, stepVars
<1>1. CASE Observe
  BY <1>1 DEF Observe, Ready, Read
<1>2. CASE BeginEpisode
  BY <1>2 DEF BeginEpisode, Ready, Return, Raise
<1>3. CASE \E p \in BOOLEAN : Execute(p)
  BY <1>3 DEF Execute, Ready, Read, Raise, NewExecution
<1>4. CASE LockReader
  BY <1>4 DEF LockReader, Raise, Goto
<1>5. CASE ReadRaises
  BY <1>5 DEF ReadRaises, Raise
<1>6. CASE ReadRetries
  BY <1>6 DEF ReadRetries, Read
<1>7. CASE PoseAccepted
  BY <1>7 DEF PoseAccepted, Goto, Raise
<1>8. CASE ObservationAccepted
  BY <1>8 DEF ObservationAccepted, Goto, Return, RenewLease, SuccessorProven
<1>9. CASE GateOpens
  BY <1>9 DEF GateOpens, Goto, Raise
<1>10. CASE Recheck
  BY <1>10 DEF Recheck, Read
<1>11. CASE InputExpires
  BY <1>11 DEF InputExpires, Raise
<1>12. CASE Anchor
  BY <1>12 DEF Anchor, Goto
<1>13. CASE Pace
  BY <1>13 DEF Pace, Raise, Read
<1>14. CASE OutcomeReturns
  BY <1>14 DEF OutcomeReturns, Return, Raise, NoStep, NoExecution, NoFrame
<1>15. CASE CloseReader
  BY <1>15 DEF CloseReader, Return
<1>16. CASE CameraCaptures
  BY <1>16 DEF CameraCaptures
<1>17. CASE WriterLocksReader
  BY <1>17 DEF WriterLocksReader
<1>18. CASE WriterMeasures
  BY <1>18 DEF WriterMeasures
<1>19. CASE Rests
  BY <1>19 DEF Rests, allVars, backendVars
<1>20. CASE SubmitTarget
  BY <1>20 DEF SubmitTarget, Submit, Goto
<1>21. CASE SubmitRefused
  BY <1>21 DEF SubmitRefused, SubmitAfterLease, Fail, Raise
<1>22. CASE SendWaited
  BY <1>22 DEF SendWaited, WaitTimesOut, WaitEnds, Fail, Raise, Goto
<1>23. CASE Abort \/ StopCall \/ CloseCall
  BY <1>23 DEF Abort, StopCall, CloseCall, StopFor, StopCalled, Answer, NoStep, NoExecution,
     NoFrame
<1>24. CASE StopAnswered
  BY <1>24, StopAnswerIsTrue DEF StopAnswered, Answer
<1>25. CASE Interrupt
  BY <1>25 DEF Interrupt, WaitInterrupted, StopInterrupted, NoStep, NoExecution, NoFrame
<1>26. CASE StreamThreads
  BY <1>26, ThreadStep DEF StreamThreads, ThreadsMove, ThreadFacts, backendVars
<1>27. CASE HoldEnds
  BY <1>27, ThreadStep DEF HoldEnds, ThreadsMove, ThreadFacts
<1>28. CASE UNCHANGED allVars
  BY <1>28 DEF allVars, backendVars
<1> QED
  BY <1>1, <1>2, <1>3, <1>4, <1>5, <1>6, <1>7, <1>8, <1>9, <1>10, <1>11, <1>12, <1>13, <1>14,
     <1>15, <1>16, <1>17, <1>18, <1>19, <1>20, <1>21, <1>22, <1>23, <1>24, <1>25, <1>26, <1>27,
     <1>28 DEF BackendNext, MainThread

\* An error is not over until the stream has halted.
LEMMA FailureStep ==
    ASSUME BInv, IInv, IInv', [BackendNext]_allVars
    PROVE  BInvFailure'
<1> USE TimingAssumption, MainAssumption
<1> USE DEF BInv, BackendTypeOK, ExecutionType, IInv, TypeOK, StreamTypeOK, ThreadsTypeOK,
   Time, None, InvEnd, BInvCalls, BInvFailure, vars, portVars, streamVars, writerVars,
   callVars, lockVars, stopVars, evidenceVars, stepVars
<1>1. CASE Observe
  BY <1>1 DEF Observe, Ready, Read
<1>2. CASE BeginEpisode
  BY <1>2 DEF BeginEpisode, Ready, Return, Raise
<1>3. CASE \E p \in BOOLEAN : Execute(p)
  BY <1>3 DEF Execute, Ready, Read, Raise, NewExecution
<1>4. CASE LockReader
  BY <1>4 DEF LockReader, Raise, Goto
<1>5. CASE ReadRaises
  BY <1>5 DEF ReadRaises, Raise
<1>6. CASE ReadRetries
  BY <1>6 DEF ReadRetries, Read
<1>7. CASE PoseAccepted
  BY <1>7 DEF PoseAccepted, Goto, Raise
<1>8. CASE ObservationAccepted
  BY <1>8 DEF ObservationAccepted, Goto, Return, RenewLease, SuccessorProven
<1>9. CASE GateOpens
  BY <1>9 DEF GateOpens, Goto, Raise
<1>10. CASE Recheck
  BY <1>10 DEF Recheck, Read
<1>11. CASE InputExpires
  BY <1>11 DEF InputExpires, Raise
<1>12. CASE Anchor
  BY <1>12 DEF Anchor, Goto
<1>13. CASE Pace
  BY <1>13 DEF Pace, Raise, Read
<1>14. CASE OutcomeReturns
  BY <1>14 DEF OutcomeReturns, Return, Raise, NoStep, NoExecution, NoFrame
<1>15. CASE CloseReader
  BY <1>15 DEF CloseReader, Return
<1>16. CASE CameraCaptures
  BY <1>16 DEF CameraCaptures
<1>17. CASE WriterLocksReader
  BY <1>17 DEF WriterLocksReader
<1>18. CASE WriterMeasures
  BY <1>18 DEF WriterMeasures
<1>19. CASE Rests
  BY <1>19 DEF Rests, allVars, backendVars
<1>20. CASE SubmitTarget
  BY <1>20 DEF SubmitTarget, Submit, Goto
<1>21. CASE SubmitRefused
  BY <1>21 DEF SubmitRefused, SubmitAfterLease, Fail, Raise
<1>22. CASE SendWaited
  BY <1>22 DEF SendWaited, WaitTimesOut, WaitEnds, Fail, Raise, Goto
<1>23. CASE Abort \/ StopCall \/ CloseCall
  BY <1>23 DEF Abort, StopCall, CloseCall, StopFor, StopCalled, Answer, NoStep, NoExecution,
     NoFrame
<1>24. CASE StopAnswered
  BY <1>24, StopAnswerIsTrue DEF StopAnswered, Answer
<1>25. CASE Interrupt
  BY <1>25 DEF Interrupt, WaitInterrupted, StopInterrupted, NoStep, NoExecution, NoFrame
<1>26. CASE StreamThreads
  BY <1>26, ThreadStep DEF StreamThreads, ThreadsMove, ThreadFacts, backendVars
<1>27. CASE HoldEnds
  BY <1>27, ThreadStep DEF HoldEnds, ThreadsMove, ThreadFacts
<1>28. CASE UNCHANGED allVars
  BY <1>28 DEF allVars, backendVars
<1> QED
  BY <1>1, <1>2, <1>3, <1>4, <1>5, <1>6, <1>7, <1>8, <1>9, <1>10, <1>11, <1>12, <1>13, <1>14,
     <1>15, <1>16, <1>17, <1>18, <1>19, <1>20, <1>21, <1>22, <1>23, <1>24, <1>25, <1>26, <1>27,
     <1>28 DEF BackendNext, MainThread

\* Each successor renews the feedback lease past the command's own lease.
LEMMA LeaseStep ==
    ASSUME BInv, IInv, IInv', [BackendNext]_allVars
    PROVE  BInvLease'
<1> USE TimingAssumption, MainAssumption
<1> USE DEF BInv, BackendTypeOK, ExecutionType, IInv, TypeOK, StreamTypeOK, ThreadsTypeOK,
   Time, None, BetweenCommandAndSuccessor, BInvCalls, BInvFailure, BInvLease, vars, portVars,
   streamVars, writerVars, callVars, lockVars, stopVars, evidenceVars, stepVars
<1>1. CASE Observe
  BY <1>1 DEF Observe, Ready, Read
<1>2. CASE BeginEpisode
  BY <1>2 DEF BeginEpisode, Ready, Return, Raise
<1>3. CASE \E p \in BOOLEAN : Execute(p)
  BY <1>3 DEF Execute, Ready, Read, Raise, NewExecution
<1>4. CASE LockReader
  BY <1>4 DEF LockReader, Raise, Goto
<1>5. CASE ReadRaises
  BY <1>5 DEF ReadRaises, Raise
<1>6. CASE ReadRetries
  BY <1>6 DEF ReadRetries, Read
<1>7. CASE PoseAccepted
  BY <1>7 DEF PoseAccepted, Goto, Raise
<1>8. CASE ObservationAccepted
  BY <1>8 DEF ObservationAccepted, Goto, Return, RenewLease, SuccessorProven
<1>9. CASE GateOpens
  BY <1>9 DEF GateOpens, Goto, Raise
<1>10. CASE Recheck
  BY <1>10 DEF Recheck, Read
<1>11. CASE InputExpires
  BY <1>11 DEF InputExpires, Raise
<1>12. CASE Anchor
  BY <1>12 DEF Anchor, Goto
<1>13. CASE Pace
  BY <1>13 DEF Pace, Raise, Read
<1>14. CASE OutcomeReturns
  BY <1>14 DEF OutcomeReturns, Return, Raise, NoStep, NoExecution, NoFrame
<1>15. CASE CloseReader
  BY <1>15 DEF CloseReader, Return
<1>16. CASE CameraCaptures
  BY <1>16 DEF CameraCaptures
<1>17. CASE WriterLocksReader
  BY <1>17 DEF WriterLocksReader
<1>18. CASE WriterMeasures
  BY <1>18 DEF WriterMeasures
<1>19. CASE Rests
  BY <1>19 DEF Rests, allVars, backendVars
<1>20. CASE SubmitTarget
  BY <1>20 DEF SubmitTarget, Submit, Goto
<1>21. CASE SubmitRefused
  BY <1>21 DEF SubmitRefused, SubmitAfterLease, Fail, Raise
<1>22. CASE SendWaited
  BY <1>22 DEF SendWaited, WaitTimesOut, WaitEnds, Fail, Raise, Goto
<1>23. CASE Abort \/ StopCall \/ CloseCall
  BY <1>23 DEF Abort, StopCall, CloseCall, StopFor, StopCalled, Answer, NoStep, NoExecution,
     NoFrame
<1>24. CASE StopAnswered
  BY <1>24, StopAnswerIsTrue DEF StopAnswered, Answer
<1>25. CASE Interrupt
  BY <1>25 DEF Interrupt, WaitInterrupted, StopInterrupted, NoStep, NoExecution, NoFrame
<1>26. CASE StreamThreads
  BY <1>26, ThreadStep DEF StreamThreads, ThreadsMove, ThreadFacts, backendVars
<1>27. CASE HoldEnds
  BY <1>27, ThreadStep DEF HoldEnds, ThreadsMove, ThreadFacts
<1>28. CASE UNCHANGED allVars
  BY <1>28 DEF allVars, backendVars
<1> QED
  BY <1>1, <1>2, <1>3, <1>4, <1>5, <1>6, <1>7, <1>8, <1>9, <1>10, <1>11, <1>12, <1>13, <1>14,
     <1>15, <1>16, <1>17, <1>18, <1>19, <1>20, <1>21, <1>22, <1>23, <1>24, <1>25, <1>26, <1>27,
     <1>28 DEF BackendNext, MainThread

------------------------------------------------------------------------------
(* Theorems.                                                                 *)

LEMMA InitBInv == BackendInit => BInv
<1> SUFFICES ASSUME BackendInit PROVE BInv
  OBVIOUS
<1> USE TimingAssumption, MainAssumption
<1> USE DEF BackendInit, Init, PortInit, NoExecution, NoFrame, None
<1>1. BackendTypeOK
  <2>1. execution \in ExecutionType
    <3>1. 0 \in 0..MaxSeq /\ 0 \in 0..Rechecks
      BY DEF TimingAssumption
    <3> QED
      BY <3>1 DEF ExecutionType
  <2>2. camera \in [shows : BOOLEAN, after_anchor : BOOLEAN]
    OBVIOUS
  <2> QED
    BY <2>1, <2>2 DEF BackendTypeOK
<1>2. BInvCalls
  BY DEF BInvCalls
<1>3. BInvStop
  BY DEF BInvStop
<1>4. BInvStatus
  BY DEF BInvStatus
<1>5. BInvFailure /\ BInvLease
  BY DEF BInvFailure, BInvLease
<1> QED
  BY <1>1, <1>2, <1>3, <1>4, <1>5 DEF BInv

\* The stream's invariant, in every state of the backend.
LEMMA StreamInductive == BackendSpec => []IInv
  BY BackendDrivesTheStream, Inductive, PTL

\* The backend's inductive invariant, on top of the stream's.
THEOREM BackendInductive == BackendSpec => []BInv
<1>1. BInv /\ IInv /\ IInv' /\ [BackendNext]_allVars => BInv'
  BY BackendTypeStep, CallsStep, StopStep, StatusStep, FailureStep, LeaseStep DEF BInv
<1> QED
  BY <1>1, InitBInv, StreamInductive, PTL DEF BackendSpec

\* Every variable of the backend keeps its type.
THEOREM BackendTypeCorrect == BackendSpec => []BackendTypeOK
<1>1. BInv => BackendTypeOK
  BY DEF BInv
<1> QED
  BY <1>1, BackendInductive, PTL

\* The send status of an error is true of the robot.
THEOREM SendStatusIsHonestTheorem == BackendSpec => []SendStatusIsHonest
<1>1. BInv /\ IInv => SendStatusIsHonest
  BY DEF BInv, IInv, TypeOK, PortTypeOK, StreamTypeOK, BackendTypeOK, ExecutionType, BInvStatus,
     InvOrder, SendStatusIsHonest
<1> QED
  BY <1>1, BackendInductive, StreamInductive, PTL

\* A successor the SDK clock vouches for shows the command's effect.
THEOREM SuccessorShowsTheCommandTheorem == BackendSpec => []SuccessorShowsTheCommand
<1>1. BInv => SuccessorShowsTheCommand
  BY DEF BInv, BInvStatus, SuccessorShowsTheCommand
<1> QED
  BY <1>1, BackendInductive, PTL

\* The reader is closed behind the stream's threads, its lock free.
THEOREM ReaderOutlivesTheStreamTheorem == BackendSpec => []ReaderOutlivesTheStream
<1>1. BInv => ReaderOutlivesTheStream
  BY DEF BInv, BackendTypeOK, BInvStop, ThreadsEnded, ReaderOutlivesTheStream
<1> QED
  BY <1>1, BackendInductive, PTL

\* Only SubmitTarget moves the command counter.
LEMMA OnlySubmitCounts ==
    ASSUME BInv, IInv, [BackendNext]_allVars, sequence' # sequence
    PROVE  SubmitTarget
<1> USE DEF streamVars
<1>1. CASE Quiet \/ UNCHANGED allVars
  BY <1>1, QuietStep DEF allVars, vars
<1>2. CASE SubmitRefused \/ SendWaited
  BY <1>2 DEF SubmitRefused, SubmitAfterLease, SendWaited, WaitTimesOut, WaitEnds, vars
<1>3. CASE Abort \/ StopCall \/ CloseCall \/ StopAnswered
  BY <1>3 DEF Abort, StopCall, CloseCall, StopFor, StopCalled, StopAnswered, StopReturns, vars
<1>4. CASE Interrupt
  BY <1>4 DEF Interrupt, WaitInterrupted, StopInterrupted, vars
<1>5. CASE StreamThreads \/ HoldEnds
  BY <1>5, ThreadStep DEF StreamThreads, HoldEnds, ThreadsMove, ThreadFacts
<1> QED
  BY <1>1, <1>2, <1>3, <1>4, <1>5 DEF BackendNext, MainThread, Quiet

\* After an error or an interrupt no further command is submitted.
THEOREM NoCommandAfterFailureTheorem == BackendSpec => NoCommandAfterFailure
<1>1. ASSUME BInv, IInv, [BackendNext]_allVars, raised_by # "none" PROVE sequence' = sequence
  <2>1. ~SubmitTarget
    BY <1>1 DEF BInv, BackendTypeOK, BInvFailure, SubmitTarget, Submit
  <2> QED
    BY <1>1, <2>1, OnlySubmitCounts
<1>2. BInv /\ IInv /\ [BackendNext]_allVars
        => [raised_by # "none" => sequence' = sequence]_allVars
  BY <1>1
<1> QED
  BY <1>2, BackendInductive, StreamInductive, PTL DEF BackendSpec, NoCommandAfterFailure

\* A submission leaves the feedback lease longer than a send may take.
THEOREM FeedbackOutlastsTheSendTheorem == BackendSpec => FeedbackOutlastsTheSend
<1>1. ASSUME BInv, IInv, [BackendNext]_allVars, sequence' # sequence, sequence > 0
      PROVE  valid_until > now + SendTimeout
  <2>1. SubmitTarget
    BY <1>1, OnlySubmitCounts
  <2>2. raised_by = "none" /\ ~BetweenCommandAndSuccessor
    BY <1>1, <2>1 DEF SubmitTarget, Submit, BInv, BackendTypeOK, BInvFailure,
       BetweenCommandAndSuccessor
  <2>3. now < deadline /\ valid_until >= deadline + SendTimeout
    BY <1>1, <2>1, <2>2 DEF SubmitTarget, Submit, BInv, BInvLease
  <2> QED
    BY <1>1, <2>3, TimingAssumption DEF BInv, BackendTypeOK, IInv, TypeOK, StreamTypeOK,
       ThreadsTypeOK, Time, None
<1>2. BInv /\ IInv /\ [BackendNext]_allVars
        => [sequence' # sequence /\ sequence > 0 => valid_until > now + SendTimeout]_allVars
  BY <1>1
<1> QED
  BY <1>2, BackendInductive, StreamInductive, PTL DEF BackendSpec, FeedbackOutlastsTheSend

\* What ActorRuntime assumes of a backend is what this one does.
THEOREM ArmRefinement == BackendSpec => ImplementsArmHold
<1> DEFINE Abs == [Arm!Next]_(Arm!vars)
<1>1. BackendInit => Arm!Init
  BY DEF BackendInit, Init, PortInit, Arm!Init
<1>2. ASSUME BInv, BInv', IInv, IInv', [BackendNext]_allVars PROVE Abs
  <2> USE <1>2 DEF Arm!vars
  <2>1. CASE Quiet
    <3>1. UNCHANGED <<sequence, wire>>
      BY <2>1, QuietStep DEF vars, streamVars, portVars
    <3>2. UNCHANGED stop_confirmed
      BY <2>1 DEF Quiet, Observe, BeginEpisode, Execute, LockReader, ReadRaises, ReadRetries,
         PoseAccepted, ObservationAccepted, GateOpens, Recheck, InputExpires, Anchor, Pace,
         OutcomeReturns, CloseReader, CameraCaptures, WriterLocksReader, WriterMeasures, Rests,
         allVars, backendVars, stopVars
    <3> QED
      BY <3>1, <3>2
  <2>2. CASE SubmitTarget
    <3>1. stop_confirmed = "unknown"
      BY <2>2 DEF SubmitTarget, Submit, BInv, BackendTypeOK, BInvStop
    <3>2. sequence' = sequence + 1 /\ UNCHANGED <<stop_confirmed, wire>>
      BY <2>2 DEF SubmitTarget, Submit, stopVars, portVars
    <3> QED
      BY <3>1, <3>2 DEF Arm!Next, Arm!Command
  <2>3. CASE SubmitRefused \/ SendWaited \/ Interrupt
    <3>1. UNCHANGED <<sequence, wire, stop_confirmed>>
      BY <2>3 DEF SubmitRefused, SubmitAfterLease, SendWaited, WaitTimesOut, WaitEnds, Interrupt,
         WaitInterrupted, StopInterrupted, stopVars, portVars, streamVars, vars
    <3> QED
      BY <3>1
  <2>4. CASE Abort \/ StopCall \/ CloseCall \/ StopAnswered
    <3>1. UNCHANGED <<sequence, wire>>
      BY <2>4 DEF Abort, StopCall, CloseCall, StopFor, StopCalled, StopAnswered, StopReturns,
         portVars, streamVars, vars
    <3>2. stop_confirmed' = stop_confirmed \/ stop_confirmed' \in {"yes", "no"}
      BY <2>4 DEF Abort, StopCall, CloseCall, StopFor, StopAnswered, Answer
    <3>3. stop_confirmed' = "yes" => wire.kind # "target"
      BY <3>1 DEF BInv, BInvStop
    <3>4. stop_confirmed = "yes" => stop_confirmed' = "yes"
      <4>1. stop_confirmed = "yes" => ThreadsEnded /\ ~stop_fault
        BY DEF BInv, BInvStop
      <4>2. CASE StopAnswered
        BY <4>1, <4>2, StopAnswerIsTrue DEF StopAnswered, Answer
      <4>3. CASE Abort \/ StopCall \/ CloseCall
        BY <4>1, <4>3 DEF Abort, StopCall, CloseCall, StopFor, Answer, BInv, BInvCalls
      <4> QED
        BY <2>4, <4>2, <4>3
    <3> QED
      BY <3>1, <3>2, <3>3, <3>4 DEF Arm!Next, Arm!StopConfirmed, Arm!StopFails, BInv,
         BackendTypeOK
  <2>5. CASE StreamThreads \/ HoldEnds
    <3>1. UNCHANGED <<sequence, stop_confirmed>>
      BY <2>5, ThreadStep DEF StreamThreads, HoldEnds, ThreadsMove, ThreadFacts, backendVars,
         stopVars
    <3>2. wire'.kind = wire.kind \/ wire'.kind \in {"target", "hold"}
      <4>1. CASE SdkActs
        BY <4>1 DEF SdkActs, TargetActs
      <4>2. CASE WriterHolds
        BY <4>2 DEF WriterHolds, HoldActs, HoldFailed, IInv, TypeOK, PortTypeOK
      <4>3. CASE ~SdkActs /\ ~WriterHolds
        BY <2>5, <4>3 DEF StreamThreads, HoldEnds, Tick, WriterThread, SdkReturns, SdkRaises,
           WatchdogThread, WatchdogFinds, WatchdogLeaves, WriterLeaves, WriterFindsLapse,
           WriterTakesTarget, WriterChecksPort, WriterRechecksCancel, WriterRejectsSend,
           WriterAcknowledges, WriterPeriodEnds, WriterFails, WriterStopsPort, SendChecked,
           SendRefused, SendFailed, StopLatched, portVars
      <4> QED
        BY <4>1, <4>2, <4>3
    <3>3. stop_confirmed = "yes" => wire' = wire
      BY <2>5, ThreadStep DEF StreamThreads, HoldEnds, ThreadsMove, ThreadFacts, BInv, BInvStop
    <3> QED
      BY <3>1, <3>2, <3>3 DEF Arm!Next, Arm!RobotActs, BInv, BackendTypeOK
  <2>6. CASE UNCHANGED allVars
    BY <2>6 DEF allVars, vars, backendVars, stopVars, streamVars, portVars
  <2> QED
    BY <2>1, <2>2, <2>3, <2>4, <2>5, <2>6 DEF BackendNext, MainThread, Quiet
<1> QED
  BY <1>1, <1>2, BackendInductive, StreamInductive, PTL
     DEF BackendSpec, ImplementsArmHold, Arm!Spec

==============================================================================
