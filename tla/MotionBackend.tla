---------------------------- MODULE MotionBackend ----------------------------
(***************************************************************************)
(* src/g2_local/motion_backend.py, class MotionBackend, on top of the        *)
(* CommandStream it owns, with the feedback lease of freshness.py            *)
(* (FreshnessLeaseGuard) and the locked hold of motion_env.py.               *)
(*                                                                         *)
(* One thread calls the backend: the Actor's main loop, or run_reset.  Here  *)
(* it makes any sequence of calls.  Every error of observe, begin_episode    *)
(* and execute first stops the stream; KeyboardInterrupt does not, but its   *)
(* handlers only stop and close.  The camera, the writer and the watchdog    *)
(* run beside it.  The backend is the one create_motion_env builds (motion   *)
(* allowed, a reference guard, a reader of the pose alone), with a local     *)
(* envelope configured.                                                      *)
(***************************************************************************)
EXTENDS CommandStream

CONSTANT
    Main,               \* the thread that calls the backend
    Rechecks            \* PREDECESSOR_RECHECK_ATTEMPTS

ASSUME MainAssumption == Callers = {Main} /\ Rechecks \in Nat

VARIABLES
    pc,                 \* where Main is inside the backend, or "ready"
    purpose,            \* what the read or the stop in progress is for
    reader_lock,        \* who holds it
    posed,              \* the hold's pose was measured under the reader lock
    backend_stopped, closed,
    stop_confirmed,     \* "unknown", "yes", "no"
    episode_reference,  \* the reset pose is latched
    last_accepted,      \* some observation was accepted
    valid_until,        \* the feedback lease of FreshnessLeaseGuard
    execution,          \* execute's record of the step, see ExecutionType
    drift,              \* last pose measured, against the action's origin
    camera,             \* newest frame captured since the step was submitted
    raised_by           \* history: the call that raised, if one did

callVars == <<pc, purpose>>
lockVars == <<reader_lock, posed>>
stopVars == <<backend_stopped, closed, stop_confirmed>>
evidenceVars == <<episode_reference, last_accepted, valid_until>>
stepVars == <<execution, drift, camera>>
backendVars == <<callVars, lockVars, stopVars, evidenceVars, stepVars, raised_by>>
allVars == <<vars, backendVars>>

\* seq and before: sequences of this command and before it; predecessor: called
\* by execute_from; rechecks: fresh reads that replaced an expired evidence;
\* anchored: the SDK clock was read after the acknowledgement, and it and the
\* frames' time stamps prove to be of one domain.
ExecutionType ==
    [status : {"none", "not_submitted", "submission_attempted_unconfirmed",
               "submitted_unconfirmed", "acknowledged"},
     before : 0..MaxSeq, predecessor : BOOLEAN, rechecks : 0..Rechecks,
     anchored : BOOLEAN]

NewExecution(predecessor) ==
    [status |-> "not_submitted", before |-> sequence, predecessor |-> predecessor,
     rechecks |-> 0, anchored |-> FALSE]

\* A frame shows the effect of the step's command, and may postdate the anchor.
NoFrame == [shows |-> FALSE, after_anchor |-> FALSE]

\* Outside execute its local variables do not exist.
NoExecution == [status |-> "none", before |-> 0, predecessor |-> FALSE,
                rechecks |-> 0, anchored |-> FALSE]
NoStep == execution' = NoExecution /\ drift' = "within" /\ camera' = NoFrame

BackendInit ==
    /\ Init /\ enabled  \* create_motion_env refuses to build it otherwise
    /\ pc = "ready" /\ purpose = "none"
    /\ reader_lock = "free" /\ posed = FALSE
    /\ backend_stopped = FALSE /\ closed = FALSE /\ stop_confirmed = "unknown"
    /\ episode_reference = FALSE /\ last_accepted = FALSE /\ valid_until = None
    /\ execution = NoExecution /\ drift = "within" /\ camera = NoFrame
    /\ raised_by = "none"

Goto(place) == pc' = place /\ UNCHANGED <<purpose, raised_by>>

Return == pc' = "ready" /\ purpose' = "none" /\ UNCHANGED raised_by

\* An Exception leaves the call: its handler calls stop() first.
Raise == pc' = "failing" /\ raised_by' = "error" /\ UNCHANGED purpose

------------------------------------------------------------------------------
(* Calls.  After an interrupt only stop and close follow.                     *)

Ready == pc = "ready" /\ raised_by # "interrupt"

Read(reason) == pc' = "locking" /\ purpose' = reason /\ UNCHANGED raised_by

Observe ==
    /\ Ready /\ Read("observe")
    /\ UNCHANGED <<vars, lockVars, stopVars, evidenceVars, stepVars>>

\* A backend has one episode; its reference is never moved.
BeginEpisode ==
    /\ Ready
    /\ \/ /\ ~episode_reference /\ ~backend_stopped /\ ~closed
          /\ episode_reference' = TRUE /\ Return
       \/ Raise /\ UNCHANGED episode_reference
    /\ UNCHANGED <<vars, lockVars, stopVars, last_accepted, valid_until, stepVars>>

\* execute, execute_from: with a predecessor only the control pose is read; one
\* that is not the accepted observation is refused.
Execute(predecessor) ==
    /\ Ready
    /\ execution' = NewExecution(predecessor)
    /\ UNCHANGED <<drift, camera>>
    /\ \/ /\ episode_reference /\ (predecessor => last_accepted)
          /\ Read(IF predecessor THEN "pose" ELSE "before")
       \/ (predecessor \/ ~episode_reference) /\ Raise
    /\ UNCHANGED <<vars, lockVars, stopVars, evidenceVars>>

------------------------------------------------------------------------------
(* Reads: _read_locked, _read_successor, the startup retries of observe.      *)

LockReader ==
    /\ pc = "locking" /\ purpose # "close" /\ reader_lock = "free"
    /\ IF backend_stopped \/ closed \/ halt
       THEN Raise /\ UNCHANGED reader_lock
       ELSE Goto("reading") /\ reader_lock' = "main"
    /\ UNCHANGED <<vars, posed, stopVars, evidenceVars, stepVars>>

\* A frame is captured: it shows what the robot has acted on by then.  The last
\* one before the read of the successor ends is the one that read accepts.
CameraCaptures ==
    /\ pc \in {"waiting", "anchor", "pace", "locking", "reading"}
    /\ camera' = [shows |-> wire.seq > execution.before, after_anchor |-> execution.anchored]
    /\ execution.status \in {"submitted_unconfirmed", "acknowledged"} /\ camera' # camera
    /\ UNCHANGED <<vars, callVars, lockVars, stopVars, evidenceVars, execution, drift, raised_by>>

\* The SDK, the guard, the lease or the envelope rejects; the lease may have been
\* renewed already, when the guard accepted and a later check raised.
ReadRaises ==
    /\ pc = "reading" /\ reader_lock' = "free" /\ Raise
    /\ valid_until' \in {valid_until} \cup
          (IF purpose = "pose" THEN {} ELSE {now + CommandTimeout + SendTimeout})
    /\ UNCHANGED <<vars, posed, stopVars, episode_reference, last_accepted, stepVars>>

\* A rejected read leaves the lease alone: accept renews it only when it accepts.
ReadRetries ==
    /\ pc = "reading" /\ reader_lock' = "free" /\ Read(purpose)
    /\ \/ purpose = "observe" /\ ~last_accepted /\ sequence = 0
       \/ purpose = "successor" /\ ~halt
    /\ UNCHANGED <<vars, posed, stopVars, evidenceVars, stepVars>>

\* The drift of the control pose, measured from the predecessor's state.
PoseAccepted ==
    /\ pc = "reading" /\ purpose = "pose" /\ ~halt
    /\ reader_lock' = "free"
    /\ drift' \in {"within", "beyond"}
    /\ IF drift' = "within" THEN Goto("gate") ELSE Raise
    /\ UNCHANGED <<vars, posed, stopVars, evidenceVars, execution, camera>>

\* Images must be acquired after the anchor, if both clocks prove comparable.
SuccessorProven == execution.anchored => camera.after_anchor

\* Mutant: the lease is granted once.
LeaseOnlyStarts == valid_until' = IF valid_until = None THEN now + CommandTimeout + SendTimeout
                                  ELSE valid_until
RenewLease == valid_until' = now + CommandTimeout + SendTimeout

ObservationAccepted ==
    /\ pc = "reading" /\ purpose # "pose" /\ ~halt
    /\ reader_lock' = "free"
    /\ RenewLease /\ last_accepted' = TRUE
    /\ \/ purpose = "observe" /\ Return /\ UNCHANGED drift
       \/ purpose = "before" /\ Goto("gate") /\ UNCHANGED drift
       \/ /\ purpose = "recheck" /\ Goto("revalidate")
          /\ drift' \in {"within", "beyond"}
       \/ /\ purpose = "successor" /\ SuccessorProven /\ Goto("outcome")
          /\ UNCHANGED drift
    /\ UNCHANGED <<vars, posed, stopVars, episode_reference, execution, camera>>

------------------------------------------------------------------------------
(* The rest of execute.                                                      *)

\* before_command may wait for the operator and may raise; planning may refuse.
GateOpens ==
    /\ pc = "gate"
    /\ Goto("revalidate") \/ Raise
    /\ UNCHANGED <<vars, lockVars, stopVars, evidenceVars, stepVars>>

\* The predecessor is too old: refresh the evidence, never the action's origin.
Recheck ==
    /\ pc = "revalidate" /\ execution.predecessor
    /\ execution.rechecks < Rechecks
    /\ execution' = [execution EXCEPT !.rechecks = @ + 1]
    /\ Read("recheck")
    /\ UNCHANGED <<vars, lockVars, stopVars, evidenceVars, drift, camera>>

\* Mutant: an expired input goes back to the caller with the backend still armed.
ExpiryLeavesItArmed ==
    /\ pc = "revalidate" /\ execution.predecessor
    /\ pc' = "ready" /\ purpose' = "none" /\ raised_by' = "error" /\ NoStep
    /\ UNCHANGED <<vars, lockVars, stopVars, evidenceVars>>

\* PolicyInputExpired: attempts used up, or a code a fresh read cannot mend.
InputExpires ==
    /\ pc = "revalidate" /\ execution.predecessor
    /\ Raise
    /\ UNCHANGED <<vars, lockVars, stopVars, evidenceVars, stepVars>>

\* Mutant: the record is filled in when the acknowledgement arrives.
RecordsOnlyTheAck ==
    /\ pc = "revalidate" /\ Submit(Main)
    /\ Goto("waiting")
    /\ UNCHANGED <<lockVars, stopVars, evidenceVars, execution, drift, camera>>

\* Mutant: the anchor is taken from the submission, before the robot acted.
AnchorsAtSubmission ==
    /\ pc = "revalidate" /\ Submit(Main)
    /\ execution' = [execution EXCEPT !.status = "submitted_unconfirmed", !.anchored = TRUE]
    /\ Goto("waiting")
    /\ UNCHANGED <<lockVars, stopVars, evidenceVars, drift, camera>>

SubmitTarget ==
    /\ pc = "revalidate" /\ Submit(Main)
    /\ execution' = [execution EXCEPT !.status = "submitted_unconfirmed"]
    /\ Goto("waiting")
    /\ UNCHANGED <<lockVars, stopVars, evidenceVars, drift, camera>>

\* submit raises: halted, the previous target still out, or the lease lapsed.
SubmitRefused ==
    /\ pc = "revalidate"
    /\ \/ (halt \/ sequence # ack_sequence) /\ UNCHANGED vars
       \/ SubmitAfterLease(Main)
    /\ execution' = [execution EXCEPT !.status = "submission_attempted_unconfirmed"]
    /\ Raise
    /\ UNCHANGED <<lockVars, stopVars, evidenceVars, drift, camera>>

\* wait_sent: a halt raises even when the acknowledgement is there.
SendWaited ==
    /\ pc = "waiting"
    /\ \/ WaitTimesOut(Main) /\ Raise /\ UNCHANGED execution
       \/ WaitEnds(Main) /\ halt /\ Raise /\ UNCHANGED execution
       \/ /\ WaitEnds(Main) /\ ~halt /\ Goto("anchor")
          /\ execution' = [execution EXCEPT !.status = "acknowledged"]
    /\ UNCHANGED <<lockVars, stopVars, evidenceVars, drift, camera>>

\* The SDK clock is read at once; without it only the extra proof is missing.
Anchor ==
    /\ pc = "anchor" /\ Goto("pace")
    /\ \E anchored \in BOOLEAN :
          execution' = [execution EXCEPT !.anchored = @ \/ anchored]
    /\ UNCHANGED <<vars, lockVars, stopVars, evidenceVars, drift, camera>>

\* halt.wait for the rest of the step period, then check.
Pace ==
    /\ pc = "pace"
    /\ IF halt THEN Raise ELSE Read("successor")
    /\ UNCHANGED <<vars, lockVars, stopVars, evidenceVars, stepVars>>

\* The coordinator's outcome, which may raise, then a last check.
OutcomeReturns ==
    /\ pc = "outcome"
    /\ \/ ~halt /\ Return /\ NoStep
       \/ Raise /\ UNCHANGED stepVars
    /\ UNCHANGED <<vars, lockVars, stopVars, evidenceVars>>

------------------------------------------------------------------------------
(* stop, _abort and close.                                                   *)

\* stop_confirmed follows what stream.stop() reports; close goes on to the reader.
Answer(report, reason) ==
    /\ stop_confirmed' = IF report = "confirmed" THEN "yes" ELSE "no"
    /\ IF reason = "close" /\ report = "confirmed"
       THEN pc' = "locking" /\ purpose' = "close"
       ELSE pc' = "ready" /\ purpose' = "none"

\* stream.stop() ends at once when both threads have ended before.
StopFor(reason) ==
    /\ backend_stopped' = TRUE
    /\ \/ /\ StopCalled /\ UNCHANGED stop_confirmed
          /\ pc' = "joining" /\ purpose' = reason
       \/ /\ stopper.pc \in {"confirmed", "hold_failed"} /\ Answer(stopper.pc, reason)
          /\ UNCHANGED vars
    /\ UNCHANGED <<raised_by, closed, lockVars, evidenceVars>>

Abort == pc = "failing" /\ StopFor("abort") /\ NoStep
StopCall == pc = "ready" /\ StopFor("stop") /\ UNCHANGED stepVars
CloseCall == pc = "ready" /\ ~closed /\ StopFor("close") /\ UNCHANGED stepVars

\* Mutant: close goes on whatever stop() reported.
AnswersAnyStop ==
    /\ pc = "joining" /\ StopReturns /\ Answer("confirmed", purpose)
    /\ UNCHANGED <<raised_by, backend_stopped, closed, lockVars, evidenceVars, stepVars>>

StopAnswered ==
    /\ pc = "joining" /\ StopReturns /\ Answer(stopper'.pc, purpose)
    /\ UNCHANGED <<raised_by, backend_stopped, closed, lockVars, evidenceVars, stepVars>>

\* close: the reader goes only after a confirmed stop, under its lock.
CloseReader ==
    /\ pc = "locking" /\ purpose = "close" /\ reader_lock = "free"
    /\ closed' = TRUE /\ Return
    /\ UNCHANGED <<vars, backend_stopped, stop_confirmed, lockVars, evidenceVars, stepVars>>

\* KeyboardInterrupt is no Exception: locks are released, nothing is stopped.
Interrupt ==
    /\ pc # "ready" /\ pc' = "ready" /\ purpose' = "none"
    /\ raised_by' = "interrupt" /\ NoStep
    /\ reader_lock' = IF reader_lock = "main" THEN "free" ELSE reader_lock
    /\ CASE pc = "waiting" -> WaitInterrupted(Main)
         [] pc = "joining" -> StopInterrupted
         [] OTHER -> UNCHANGED vars
    /\ UNCHANGED <<posed, stopVars, evidenceVars>>

MainThread ==
    \/ Observe \/ BeginEpisode \/ \E p \in BOOLEAN : Execute(p)
    \/ LockReader \/ ReadRaises \/ ReadRetries \/ PoseAccepted \/ ObservationAccepted
    \/ GateOpens \/ Recheck \/ InputExpires \/ SubmitTarget \/ SubmitRefused
    \/ SendWaited \/ Anchor \/ Pace \/ OutcomeReturns
    \/ Abort \/ StopCall \/ CloseCall \/ StopAnswered \/ CloseReader \/ Interrupt

------------------------------------------------------------------------------
(* The stream's threads.                                                     *)

\* The port asks the feedback lease before every send.
StreamThreads ==
    /\ Tick \/ WriterThread \/ SdkActs \/ SdkReturns \/ SdkRaises \/ WatchdogThread
    /\ writer = "port" /\ writer' = "cancel_check" => now <= valid_until
    /\ UNCHANGED backendVars

\* stop_pose_provider: the hold's pose is read under the reader lock.
WriterLocksReader ==
    /\ writer = "hold" /\ ~posed /\ reader_lock = "free" /\ reader_lock' = "writer"
    /\ UNCHANGED <<vars, callVars, posed, stopVars, evidenceVars, stepVars, raised_by>>

WriterMeasures ==
    /\ writer = "hold" /\ reader_lock = "writer"
    /\ reader_lock' = "free" /\ posed' = TRUE
    /\ UNCHANGED <<vars, callVars, stopVars, evidenceVars, stepVars, raised_by>>

\* Nothing is written without a measured pose; a busy reader fails the hold.
HoldEnds ==
    /\ WriterHolds
    /\ ~stop_fault' \/ wire' # wire => posed
    /\ reader_lock' = IF reader_lock = "writer" THEN "free" ELSE reader_lock
    /\ posed' = FALSE
    /\ UNCHANGED <<callVars, stopVars, evidenceVars, stepVars, raised_by>>

\* The caller need not call again.
Rests == pc = "ready" /\ now = MaxTime /\ UNCHANGED allVars

BackendNext ==
    \/ MainThread \/ CameraCaptures
    \/ StreamThreads \/ WriterLocksReader \/ WriterMeasures \/ HoldEnds
    \/ Rests

BackendSpec == BackendInit /\ [][BackendNext]_allVars

------------------------------------------------------------------------------
(* Properties.                                                               *)

BackendTypeOK ==
    /\ pc \in {"ready", "locking", "reading", "gate", "revalidate", "waiting", "anchor",
               "pace", "outcome", "failing", "joining"}
    /\ purpose \in {"none", "observe", "before", "pose", "recheck", "successor",
                    "abort", "stop", "close"}
    /\ reader_lock \in {"free", "main", "writer"} /\ posed \in BOOLEAN
    /\ backend_stopped \in BOOLEAN /\ closed \in BOOLEAN
    /\ stop_confirmed \in {"unknown", "yes", "no"}
    /\ episode_reference \in BOOLEAN /\ last_accepted \in BOOLEAN
    /\ valid_until \in Nat \cup {None}
    /\ execution \in ExecutionType /\ drift \in {"within", "beyond"}
    /\ camera \in [shows : BOOLEAN, after_anchor : BOOLEAN]
    /\ raised_by \in {"none", "error", "interrupt"}

\* What an error says of the command (execution_event, lines 380-383) is true of
\* the robot: not submitted means that it never sees this target, acknowledged
\* that it has acted on it.
SendStatusIsHonest ==
    /\ execution.status \in {"not_submitted", "submission_attempted_unconfirmed"}
          => sequence = execution.before /\ wire.seq <= execution.before
    /\ execution.status = "acknowledged" => wire.seq > execution.before

\* Once a call has raised, no further command is submitted, whatever the caller
\* does next: the handler stopped the stream before the error left the backend.
NoCommandAfterFailure == [][raised_by # "none" => sequence' = sequence]_allVars

\* From the second command on, a submission finds more of the feedback lease left
\* than the longest send may take: it does not starve behind the one before it.
FeedbackOutlastsTheSend ==
    [][sequence' # sequence /\ sequence > 0 => valid_until > now + SendTimeout]_allVars

\* The image paired with an action was captured after the robot acted on it,
\* whenever the SDK clock proves it (lines 352-366, freshness.py 384-396).
SuccessorShowsTheCommand ==
    pc = "outcome" /\ execution.anchored => camera.shows

\* SDK resources are released only when no thread of the stream can use them, so
\* close never times out on the reader's lock (lines 400-410).
ReaderOutlivesTheStream ==
    closed \/ (pc = "locking" /\ purpose = "close") =>
        ThreadsEnded /\ reader_lock = "free" /\ stop_confirmed = "yes"

\* The comment on the recheck (lines 339-341): the drift check still bounds how
\* far the robot moved since the action was computed.
DriftBoundsTheSubmission ==
    [][sequence' # sequence => drift = "within"]_allVars

\* The backend implements what ActorRuntime assumes of it.
Arm == INSTANCE ArmHold WITH
    hold <- CASE stop_confirmed = "yes" -> "held"
              [] stop_confirmed = "no" -> "unconfirmed"
              [] OTHER -> "live",
    commands <- sequence, robot <- wire.kind

\* MotionBackend refines ArmHold: a reported hold is final and still.
ImplementsArmHold == Arm!Spec

==============================================================================
