---------------------------- MODULE CommandStream ----------------------------
(***************************************************************************)
(* src/g2_local/command_stream.py, class CommandStream, driving the port of *)
(* CommandPort.  Callers submit a target and wait for its acknowledgement;  *)
(* one writer thread republishes the current target until the lease given   *)
(* with it runs out; a watchdog thread halts the stream when the lease or   *)
(* the send heartbeat lapses even while the writer is stuck inside the SDK; *)
(* stop() halts, joins both threads for a bounded time and reports whether  *)
(* the physical stop is confirmed.                                          *)
(*                                                                         *)
(* Time is a discrete clock that advances between any two steps: Python     *)
(* threads are not scheduled in real time, so nothing here relies on one    *)
(* running soon.  A target is identified with its sequence number.          *)
(***************************************************************************)
EXTENDS CommandPort

CONSTANTS
    Callers,            \* threads that submit targets
    Period,             \* publication period of the writer
    CommandTimeout,     \* lease given to each target, and the wait for its ack
    SendTimeout,        \* heartbeat: longest time without a finished send
    StopTimeout,        \* longest time stop() waits for the threads
    MaxTime,            \* bound: the clock stops here
    MaxSeq              \* bound: submissions

\* The constructor (command_stream.py:14-19) rejects anything else.
ASSUME TimingAssumption ==
    /\ {Period, CommandTimeout, SendTimeout, StopTimeout} \subseteq Nat \ {0}
    /\ Period < CommandTimeout /\ Period < SendTimeout
    /\ MaxTime \in Nat /\ MaxSeq \in Nat

VARIABLES
    now,                \* time.monotonic()
    halt, fault, stop_fault,
    sequence, ack_sequence, deadline, in_flight, last_send,
    writer,             \* where the writer thread is
    target,             \* the writer's snapshot: sequence of the target it sends
    started, finished,  \* the writer's time stamps around a send
    raised,             \* the exception the writer is propagating
    watchdog,           \* where the watchdog thread is
    caller,             \* per caller: waiting for seq until a time, or idle
    stopper,            \* the thread in stop(), and what stop() last reported
    late                \* history: a target acted after its lease or the halt

streamVars == <<halt, fault, stop_fault, sequence, ack_sequence, deadline,
                in_flight, last_send>>
writerVars == <<writer, target, started, finished, raised>>
vars == <<portVars, streamVars, writerVars, now, watchdog, caller, stopper, late>>

None == -1
Time == 0..MaxTime
Faults == {"lease", "heartbeat", "send_timeout", "ack_timeout", "port"}
InSDK == {"sdk", "sdk_return", "hold"}

Init ==
    /\ PortInit
    /\ now = 0 /\ halt = FALSE /\ fault = "none" /\ stop_fault = FALSE
    /\ sequence = 0 /\ ack_sequence = 0
    /\ deadline = None /\ in_flight = None /\ last_send = None
    /\ writer = "unstarted" /\ target = 0
    /\ started = 0 /\ finished = 0 /\ raised = "none"
    /\ watchdog = "unstarted"
    /\ caller = [c \in Callers |-> [pc |-> "idle", seq |-> 0, until |-> 0]]
    /\ stopper = [pc |-> "idle", until |-> 0]
    /\ late = FALSE

Tick ==
    /\ now < MaxTime
    /\ now' = now + 1
    /\ UNCHANGED <<portVars, streamVars, writerVars, watchdog, caller, stopper, late>>

\* _fail: the first fault is kept, every fault halts the stream for good.
Fail(error) ==
    /\ fault' = IF fault = "none" THEN error ELSE fault
    /\ halt' = TRUE

------------------------------------------------------------------------------
(* Callers: submit and wait_sent.  Any exception returns the caller to idle; *)
(* its own handler then calls stop().                                        *)

\* submit, lines 58-77: a lease that is still running is renewed with the target.
Submit(c) ==
    /\ caller[c].pc = "idle" /\ ~halt
    /\ sequence = ack_sequence
    /\ deadline = None \/ now < deadline
    /\ sequence < MaxSeq /\ now + CommandTimeout <= MaxTime
    /\ sequence' = sequence + 1
    /\ deadline' = now + CommandTimeout
    /\ IF writer = "unstarted"
       THEN last_send' = now /\ writer' = "loop" /\ watchdog' = "watching"
       ELSE UNCHANGED <<last_send, writer, watchdog>>
    /\ caller' = [caller EXCEPT ![c] =
                    [pc |-> "waiting", seq |-> sequence', until |-> now + CommandTimeout]]
    /\ UNCHANGED <<portVars, now, halt, fault, stop_fault, ack_sequence, in_flight,
                   target, started, finished, raised, stopper, late>>

\* submit, lines 64-66: a lapsed lease is a fault, never a renewal.
SubmitAfterLease(c) ==
    /\ caller[c].pc = "idle" /\ ~halt
    /\ sequence = ack_sequence
    /\ deadline # None /\ now >= deadline
    /\ Fail("lease")
    /\ UNCHANGED <<portVars, now, stop_fault, sequence, ack_sequence, deadline,
                   in_flight, last_send, writerVars, watchdog, caller, stopper, late>>

\* wait_sent: acknowledged; or check() raises; or a later ack superseded it.
WaitEnds(c) ==
    /\ caller[c].pc = "waiting"
    /\ halt \/ ack_sequence >= caller[c].seq
    /\ caller' = [caller EXCEPT ![c].pc = "idle"]
    /\ UNCHANGED <<portVars, streamVars, writerVars, now, watchdog, stopper, late>>

WaitTimesOut(c) ==
    /\ caller[c].pc = "waiting" /\ ~halt
    /\ ack_sequence < caller[c].seq
    /\ now >= caller[c].until
    /\ Fail("ack_timeout")
    /\ caller' = [caller EXCEPT ![c].pc = "idle"]
    /\ UNCHANGED <<portVars, now, stop_fault, sequence, ack_sequence, deadline,
                   in_flight, last_send, writerVars, watchdog, stopper, late>>

\* KeyboardInterrupt reaches a thread inside condition.wait: the target stays out.
WaitInterrupted(c) ==
    /\ caller[c].pc = "waiting"
    /\ caller' = [caller EXCEPT ![c].pc = "idle"]
    /\ UNCHANGED <<portVars, streamVars, writerVars, now, watchdog, stopper, late>>

CallerNext(c) ==
    \/ Submit(c) \/ SubmitAfterLease(c)
    \/ WaitEnds(c) \/ WaitTimesOut(c) \/ WaitInterrupted(c)

------------------------------------------------------------------------------
(* The writer thread, _write_loop.                                           *)

WriterGoes(pc) ==
    /\ writer' = pc
    /\ UNCHANGED <<target, started, finished, raised>>

\* An exception inside try: the handler that records it is a later step.
WriterRaises(error) ==
    /\ writer' = "except" /\ raised' = error
    /\ UNCHANGED <<target, started, finished>>

\* Lines 100, 103, 126: both halt tests and the early wake-up break to finally.
WriterLeaves ==
    /\ writer \in {"loop", "pause"} /\ halt
    /\ WriterGoes("stop")
    /\ UNCHANGED <<portVars, streamVars, now, watchdog, caller, stopper, late>>

WriterFindsLapse ==
    /\ writer = "loop" /\ ~halt
    /\ \/ now >= deadline /\ WriterRaises("lease")
       \/ /\ now < deadline /\ now - last_send > SendTimeout
          /\ WriterRaises("heartbeat")
    /\ UNCHANGED <<portVars, streamVars, now, watchdog, caller, stopper, late>>

WriterTakesTarget ==
    /\ writer = "loop" /\ ~halt
    /\ now < deadline /\ now - last_send <= SendTimeout
    /\ writer' = "port" /\ target' = sequence
    /\ started' = now /\ in_flight' = now
    /\ UNCHANGED <<portVars, now, halt, fault, stop_fault, sequence, ack_sequence,
                   deadline, last_send, finished, raised, watchdog, caller,
                   stopper, late>>

\* port.send up to `attempted': the checks take time, the flag is read after.
WriterChecksPort ==
    /\ writer = "port"
    /\ \/ SendChecked(halt) /\ WriterGoes("cancel_check")
       \/ (SendRefused \/ SendFailed) /\ WriterRaises("port")
    /\ UNCHANGED <<streamVars, now, watchdog, caller, stopper, late>>

\* _write: the second cancellation check, right before the SDK call.
WriterRechecksCancel ==
    /\ writer = "cancel_check"
    /\ \/ ~halt /\ WriterGoes("sdk") /\ UNCHANGED portVars
       \/ halt /\ SendFailed /\ WriterRaises("port")
    /\ UNCHANGED <<streamVars, now, watchdog, caller, stopper, late>>

\* The SDK acts on the target; the call has not returned yet.
SdkActs ==
    /\ writer = "sdk"
    /\ TargetActs(target)
    /\ late' = (late \/ halt \/ now >= deadline)
    /\ WriterGoes("sdk_return")
    /\ UNCHANGED <<streamVars, now, watchdog, caller, stopper>>

\* The SDK call raises, before or after acting.
SdkRaises ==
    /\ writer \in {"sdk", "sdk_return"}
    /\ SendFailed /\ WriterRaises("port")
    /\ UNCHANGED <<streamVars, now, watchdog, caller, stopper, late>>

\* Line 112: `finished' is stamped outside the lock.
SdkReturns ==
    /\ writer = "sdk_return"
    /\ writer' = "finish" /\ finished' = now
    /\ UNCHANGED <<portVars, streamVars, target, started, raised, now, watchdog,
                   caller, stopper, late>>

SendTooSlow == finished - started > SendTimeout
\* Mutant: a return after the lease still counts.
LeaseIgnored == FALSE
LeaseLapsed == finished >= deadline

\* Lines 113-118 and 120: a slow, late or halted return acknowledges nothing.
WriterRejectsSend ==
    /\ writer = "finish"
    /\ in_flight' = None
    /\ \/ SendTooSlow /\ WriterRaises("send_timeout")
       \/ ~SendTooSlow /\ LeaseLapsed /\ WriterRaises("lease")
       \/ ~SendTooSlow /\ ~LeaseLapsed /\ halt /\ WriterGoes("stop")
    /\ UNCHANGED <<portVars, now, halt, fault, stop_fault, sequence, ack_sequence,
                   deadline, last_send, watchdog, caller, stopper, late>>

\* Mutant: the newest submission is acknowledged, not the one that was sent.
AcknowledgesNewest ==
    /\ writer = "finish"
    /\ ~SendTooSlow /\ ~LeaseLapsed /\ ~halt
    /\ in_flight' = None /\ last_send' = finished
    /\ ack_sequence' = sequence
    /\ WriterGoes("pause")
    /\ UNCHANGED <<portVars, now, halt, fault, stop_fault, sequence, deadline,
                   watchdog, caller, stopper, late>>

\* Lines 121-124.
WriterAcknowledges ==
    /\ writer = "finish"
    /\ ~SendTooSlow /\ ~LeaseLapsed /\ ~halt
    /\ in_flight' = None /\ last_send' = finished
    /\ ack_sequence' = IF target > ack_sequence THEN target ELSE ack_sequence
    /\ WriterGoes("pause")
    /\ UNCHANGED <<portVars, now, halt, fault, stop_fault, sequence, deadline,
                   watchdog, caller, stopper, late>>

WriterPeriodEnds ==
    /\ writer = "pause" /\ now >= started + Period
    /\ WriterGoes("loop")
    /\ UNCHANGED <<portVars, streamVars, now, watchdog, caller, stopper, late>>

\* Mutant: the thread ends in its except clause, without the finally block.
WriterDies ==
    /\ writer = "except"
    /\ Fail(raised)
    /\ WriterGoes("done")
    /\ UNCHANGED <<portVars, stop_fault, sequence, ack_sequence, deadline, in_flight,
                   last_send, now, watchdog, caller, stopper, late>>

\* Lines 127-128.
WriterFails ==
    /\ writer = "except"
    /\ Fail(raised)
    /\ WriterGoes("stop")
    /\ UNCHANGED <<portVars, stop_fault, sequence, ack_sequence, deadline, in_flight,
                   last_send, now, watchdog, caller, stopper, late>>

\* Mutant: the failed stop is only logged.
StopErrorSwallowed ==
    /\ UNCHANGED stop_fault
    /\ Fail("port")
    /\ WriterGoes("done")
    /\ UNCHANGED <<sequence, ack_sequence, deadline, in_flight, last_send>>

\* Lines 132-134: port.stop raised.
StopRaised ==
    /\ stop_fault' = TRUE
    /\ Fail("port")
    /\ WriterGoes("done")
    /\ UNCHANGED <<sequence, ack_sequence, deadline, in_flight, last_send>>

\* finally: port.stop() latches the port; without a due hold it ends there,
\* raising when an earlier failure was never cleared.
WriterStopsPort ==
    /\ writer = "stop"
    /\ StopLatched
    /\ \/ ~NoHoldDue /\ WriterGoes("hold") /\ UNCHANGED streamVars
       \/ NoHoldDue /\ ~stop_failure /\ WriterGoes("done") /\ UNCHANGED streamVars
       \/ NoHoldDue /\ stop_failure /\ StopRaised
    /\ UNCHANGED <<now, watchdog, caller, stopper, late>>

WriterHolds ==
    /\ writer = "hold"
    /\ \/ HoldActs /\ WriterGoes("done") /\ UNCHANGED streamVars
       \/ HoldFailed /\ StopRaised
    /\ UNCHANGED <<now, watchdog, caller, stopper, late>>

WriterThread ==
    \/ WriterLeaves \/ WriterFindsLapse \/ WriterTakesTarget \/ WriterChecksPort
    \/ WriterRechecksCancel \/ WriterRejectsSend \/ WriterAcknowledges
    \/ WriterPeriodEnds \/ WriterFails \/ WriterStopsPort

SdkCall == SdkActs \/ SdkReturns \/ WriterHolds

------------------------------------------------------------------------------
(* The watchdog thread, _watch.                                              *)

Heartbeat == IF in_flight # None THEN in_flight ELSE last_send

\* Mutant: the watchdog leaves a send in progress alone.
WatchesOnlyIdleWriter ==
    /\ watchdog = "watching" /\ ~halt /\ in_flight = None
    /\ \/ now >= deadline /\ Fail("lease")
       \/ now < deadline /\ now - Heartbeat > SendTimeout /\ Fail("heartbeat")
    /\ UNCHANGED <<portVars, stop_fault, sequence, ack_sequence, deadline, in_flight,
                   last_send, writerVars, now, watchdog, caller, stopper, late>>

WatchdogFinds ==
    /\ watchdog = "watching" /\ ~halt
    /\ \/ now >= deadline /\ Fail("lease")
       \/ now < deadline /\ now - Heartbeat > SendTimeout /\ Fail("heartbeat")
    /\ UNCHANGED <<portVars, stop_fault, sequence, ack_sequence, deadline, in_flight,
                   last_send, writerVars, now, watchdog, caller, stopper, late>>

WatchdogLeaves ==
    /\ watchdog = "watching" /\ halt
    /\ watchdog' = "done"
    /\ UNCHANGED <<portVars, streamVars, writerVars, now, caller, stopper, late>>

WatchdogThread == WatchdogFinds \/ WatchdogLeaves

------------------------------------------------------------------------------
(* stop(): MotionBackend calls it on every error and again from close().     *)

ThreadsEnded == writer \in {"unstarted", "done"} /\ watchdog \in {"unstarted", "done"}

StopCalled ==
    /\ stopper.pc \in {"idle", "unconfirmed"}
    /\ now + StopTimeout <= MaxTime
    /\ halt' = TRUE
    /\ stopper' = [pc |-> "joining", until |-> now + StopTimeout]
    /\ UNCHANGED <<portVars, fault, stop_fault, sequence, ack_sequence, deadline,
                   in_flight, last_send, writerVars, now, watchdog, caller, late>>

\* Mutant: the join's outcome is not looked at.
StopForgetsThreads ==
    /\ stopper.pc = "joining"
    /\ ThreadsEnded \/ now >= stopper.until
    /\ stopper' = [pc |-> IF stop_fault THEN "hold_failed" ELSE "confirmed", until |-> 0]
    /\ UNCHANGED <<portVars, streamVars, writerVars, now, watchdog, caller, late>>

\* Mutant: the join has no timeout.
StopWaitsForEver ==
    /\ stopper.pc = "joining" /\ ThreadsEnded
    /\ stopper' = [pc |-> IF stop_fault THEN "hold_failed" ELSE "confirmed", until |-> 0]
    /\ UNCHANGED <<portVars, streamVars, writerVars, now, watchdog, caller, late>>

StopReturns ==
    /\ stopper.pc = "joining"
    /\ ThreadsEnded \/ now >= stopper.until
    /\ stopper' = [pc |-> IF ~ThreadsEnded THEN "unconfirmed"
                          ELSE IF stop_fault THEN "hold_failed" ELSE "confirmed",
                   until |-> 0]
    /\ UNCHANGED <<portVars, streamVars, writerVars, now, watchdog, caller, late>>

\* KeyboardInterrupt during a join: stop() reports nothing, and may run again.
StopInterrupted ==
    /\ stopper.pc = "joining"
    /\ stopper' = [pc |-> "idle", until |-> 0]
    /\ UNCHANGED <<portVars, streamVars, writerVars, now, watchdog, caller, late>>

\* Every thread is through; nothing restarts a halted stream.
Finished ==
    /\ ThreadsEnded /\ stopper.pc # "joining"
    /\ \A c \in Callers : caller[c].pc = "idle"
    /\ now = MaxTime
    /\ UNCHANGED vars

Next ==
    \/ Tick
    \/ \E c \in Callers : CallerNext(c)
    \/ WriterThread \/ SdkCall \/ SdkRaises
    \/ WatchdogThread
    \/ StopCalled \/ StopReturns \/ StopInterrupted
    \/ Finished

Spec == Init /\ [][Next]_vars

------------------------------------------------------------------------------
(* Fairness.  Threads are scheduled eventually and the clock advances; a      *)
(* call inside the SDK may hang for ever, so LiveSpec grants it nothing.      *)

LiveSpec ==
    /\ Spec
    /\ WF_vars(Tick) /\ WF_vars(WriterThread) /\ WF_vars(WatchdogThread)
    /\ WF_vars(StopReturns)
    /\ \A c \in Callers : WF_vars(WaitEnds(c) \/ WaitTimesOut(c))

\* A robot whose SDK calls do return.
SdkIsResponsive == WF_vars(SdkCall)

------------------------------------------------------------------------------
(* Properties.                                                               *)

StreamTypeOK ==
    /\ halt \in BOOLEAN /\ stop_fault \in BOOLEAN
    /\ fault \in Faults \cup {"none"}
    /\ sequence \in 0..MaxSeq /\ ack_sequence \in 0..MaxSeq
    /\ deadline \in Time \cup {None} /\ in_flight \in Time \cup {None}
    /\ last_send \in Time \cup {None}

WriterTypeOK ==
    /\ writer \in {"unstarted", "loop", "port", "cancel_check", "sdk", "sdk_return",
                   "finish", "pause", "except", "stop", "hold", "done"}
    /\ target \in 0..MaxSeq /\ started \in Time /\ finished \in Time
    /\ raised \in Faults \cup {"none"}

ThreadsTypeOK ==
    /\ now \in Time /\ late \in BOOLEAN
    /\ watchdog \in {"unstarted", "watching", "done"}
    /\ caller \in [Callers -> [pc : {"idle", "waiting"}, seq : 0..MaxSeq, until : Time]]
    /\ stopper \in [pc : {"idle", "joining", "unconfirmed", "hold_failed", "confirmed"},
                    until : Time]

TypeOK == PortTypeOK /\ StreamTypeOK /\ WriterTypeOK /\ ThreadsTypeOK

\* A stop() that returned without an error means both threads are gone and the
\* robot was left at a measured hold, or never received a target at all
\* (stop, lines 145-157; GdkCommandPort.stop).
ConfirmedStopIsStill ==
    stopper.pc = "confirmed" => ThreadsEnded /\ wire.kind # "target"

\* An acknowledgement is never ahead of the robot: the SDK has acted on that
\* submission, or on a later one (lines 109-123).
AcknowledgedTargetActed == ack_sequence <= wire.seq /\ wire.seq <= sequence

\* One target may still slip out after its lease lapsed or after the halt, when
\* the writer had passed the last cancellation check.  It is never acknowledged
\* and no target follows it, nor follows a hold: what remains is the hold.
LateSendEndsPublication ==
    [][late \/ wire.kind = "hold" =>
          /\ ack_sequence' = ack_sequence
          /\ wire' = wire \/ wire'.kind = "hold"]_vars

\* A lapsed lease halts the stream, even if the writer is stuck in the SDK and
\* nobody submits again (_watch, lines 136-141).
LapsedLeaseHalts == (deadline # None /\ now >= deadline) ~> halt

\* No caller waits for ever on an acknowledgement, and stop() always answers,
\* although the SDK call it joins may never return.
EveryCallReturns ==
    /\ \A c \in Callers : (caller[c].pc = "waiting") ~> (caller[c].pc = "idle")
    /\ (stopper.pc = "joining") ~> (stopper.pc # "joining")

\* If SDK calls return, a halt ends the writer, and an attempted target ends in
\* a hold or in a recorded stop fault (lines 127-134).
HaltEndsInHold ==
    SdkIsResponsive =>
        ((halt /\ writer # "unstarted") ~>
             (writer = "done" /\ (wire.kind = "target" => stop_fault)))

\* The stream implements the abstract publisher: every step is one of its steps
\* or a stutter, with the phase read off the writer, the halt and the stop fault.
Publisher == INSTANCE LeasedPublisher WITH
    phase <- IF writer = "done" THEN IF stop_fault THEN "unconfirmed" ELSE "held"
             ELSE IF halt THEN "closing" ELSE "open",
    commanded <- sequence, acked <- ack_sequence, robot <- wire, stray <- late

\* CommandStream refines LeasedPublisher: its whole public behaviour, from
\* submit to stop, is one that the abstract publisher allows.
ImplementsLeasedPublisher == Publisher!Spec

==============================================================================
