---------------------------- MODULE ActorTransport ----------------------------
(***************************************************************************)
(* src/g2_local/real_actor.py, class GrpcActorTransport: the control loop   *)
(* only enqueues rows; one sender thread delivers them in order, retrying a *)
(* deadline once with the same packet; a batch becomes confirmed only when  *)
(* take_confirmed pops it finished and without error.  Any failure stops    *)
(* the transport, and with it the Actor, for good.                          *)
(***************************************************************************)
EXTENDS UplinkCalls

VARIABLES
    session,        \* the Actor process now running
    produced,       \* rows its control loop has handed over
    outgoing,       \* Queue(maxsize=queue_capacity)
    outstanding,    \* requests not yet popped by take_confirmed
    done, errored,  \* request.done is set; request.error is set
    confirmed,      \* rows of any session counted as accepted by the Learner
    sender,         \* the sender thread: idle, or in a call
    stopped,        \* transport.stopped
    exit, drained   \* how far run()'s finally block is; what drain() answered

exitVars == <<exit, drained>>
transportVars == <<session, produced, outgoing, outstanding, done, errored,
                   confirmed, sender, stopped, exitVars>>

NoRow == [session |-> 1, step |-> 1]
IdleSender == [pc |-> "idle", row |-> NoRow, attempt |-> 1]

TransportInit ==
    /\ session = 1 /\ produced = 0
    /\ outgoing = <<>> /\ outstanding = {} /\ done = {} /\ errored = {}
    /\ confirmed = {} /\ sender = IdleSender
    /\ stopped = FALSE /\ exit = "running" /\ drained = FALSE

TransportTypeOK ==
    /\ session \in 1..Sessions /\ produced \in 0..Steps
    /\ outgoing \in Seq(Row) /\ outstanding \subseteq Row
    /\ done \subseteq Row /\ errored \subseteq Row /\ confirmed \subseteq Row
    /\ sender \in [pc : {"idle", "sending"}, row : Row, attempt : {1, 2}]
    /\ stopped \in BOOLEAN /\ drained \in BOOLEAN
    /\ exit \in {"running", "drained", "closed"}

\* send_transition_batch: an outstanding request on a queue with room.
Enqueue ==
    /\ ~stopped /\ exit = "running" /\ produced < Steps
    /\ Len(outgoing) < QueueCapacity
    /\ LET row == [session |-> session, step |-> produced + 1] IN
         /\ outgoing' = Append(outgoing, row)
         /\ outstanding' = outstanding \cup {row}
    /\ produced' = produced + 1
    /\ UNCHANGED <<calls, session, done, errored, confirmed, sender, stopped, exitVars>>

\* Mutant: the row is dropped and the uplink goes on.
DropsOnFullQueue ==
    /\ ~stopped /\ exit = "running" /\ produced < Steps
    /\ Len(outgoing) = QueueCapacity
    /\ produced' = produced + 1
    /\ UNCHANGED <<calls, session, outgoing, outstanding, done, errored, confirmed,
                   sender, stopped, exitVars>>

\* send_transition_batch, lines 356-359: the row is forgotten, the uplink fails.
EnqueueOnFullQueue ==
    /\ ~stopped /\ exit = "running" /\ produced < Steps
    /\ Len(outgoing) = QueueCapacity
    /\ produced' = produced + 1 /\ stopped' = TRUE
    /\ UNCHANGED <<calls, session, outgoing, outstanding, done, errored, confirmed,
                   sender, exitVars>>

\* take_confirmed: finished requests are popped, those without error count.
TakeConfirmed ==
    /\ exit = "running" /\ done # {}
    /\ confirmed' = confirmed \cup (done \ errored)
    /\ outstanding' = outstanding \ done
    /\ done' = {} /\ errored' = errored \ done
    /\ UNCHANGED <<calls, session, produced, outgoing, sender, stopped, exitVars>>

\* _send_loop: the next packet goes out as a new call.
SenderTakes ==
    /\ sender.pc = "idle" /\ ~stopped /\ outgoing # <<>>
    /\ outgoing' = Tail(outgoing)
    /\ sender' = [pc |-> "sending", row |-> Head(outgoing), attempt |-> 1]
    /\ calls' = calls \cup {[row |-> Head(outgoing), attempt |-> 1, live |-> TRUE,
                             pc |-> "receiving"]}
    /\ UNCHANGED <<session, produced, outstanding, done, errored, confirmed, stopped, exitVars>>

InCall(c) ==
    sender.pc = "sending" /\ c.live /\ c.row = sender.row /\ c.attempt = sender.attempt

\* Mutant: request.error is not recorded before done is set.
EndsWithoutError(failed) ==
    /\ sender' = IdleSender
    /\ done' = done \cup {sender.row}
    /\ UNCHANGED errored

\* The finally block: the request is done, with or without an error.
RequestEnds(failed) ==
    /\ sender' = IdleSender
    /\ done' = done \cup {sender.row}
    /\ errored' = IF failed THEN errored \cup {sender.row} ELSE errored

SenderAccepted(c) ==
    /\ InCall(c) /\ c.pc = "replied"
    /\ RequestEnds(FALSE)
    /\ calls' = calls \ {c}
    /\ UNCHANGED <<session, produced, outgoing, outstanding, confirmed, stopped, exitVars>>

\* Anything but a deadline is final at once.
SenderRejected(c) ==
    /\ InCall(c) /\ c.pc = "error"
    /\ RequestEnds(TRUE) /\ stopped' = TRUE
    /\ calls' = calls \ {c}
    /\ UNCHANGED <<session, produced, outgoing, outstanding, confirmed, exitVars>>

\* Mutant: every deadline is retried.
RetriesForEver(c) ==
    /\ InCall(c)
    /\ sender' = [sender EXCEPT !.attempt = 2]
    /\ calls' = (calls \ {c}) \cup Abandoned({c})
                    \cup {[c EXCEPT !.attempt = 2, !.pc = "receiving"]}
    /\ UNCHANGED <<session, produced, outgoing, outstanding, done, errored, confirmed,
                   stopped, exitVars>>

\* The first deadline is retried with the same ids, even if the Learner has
\* accepted the row meanwhile; the abandoned handler lives on.
SenderRetries(c) ==
    /\ InCall(c) /\ sender.attempt = 1
    /\ sender' = [sender EXCEPT !.attempt = 2]
    /\ calls' = (calls \ {c}) \cup Abandoned({c})
                    \cup {[c EXCEPT !.attempt = 2, !.pc = "receiving"]}
    /\ UNCHANGED <<session, produced, outgoing, outstanding, done, errored, confirmed,
                   stopped, exitVars>>

SenderGivesUp(c) ==
    /\ InCall(c) /\ sender.attempt = 2
    /\ RequestEnds(TRUE) /\ stopped' = TRUE
    /\ calls' = (calls \ {c}) \cup Abandoned({c})
    /\ UNCHANGED <<session, produced, outgoing, outstanding, confirmed, exitVars>>

\* _receive_loop: the parameter stream ended, or its queue stayed full.
ReceiverFails ==
    /\ ~stopped /\ stopped' = TRUE
    /\ UNCHANGED <<calls, session, produced, outgoing, outstanding, done, errored,
                   confirmed, sender, exitVars>>

\* Mutant: drain looks at the queue, not at the requests.
DrainsOnlyTheQueue ==
    /\ exit = "running"
    /\ drained' = (outgoing = <<>>) /\ exit' = "drained"
    /\ UNCHANGED <<calls, session, produced, outgoing, outstanding, done, errored,
                   confirmed, sender, stopped>>

\* run() is leaving: drain waits until all requests are finished, or its time is up.
Drain ==
    /\ exit = "running"
    /\ drained' = (outstanding \subseteq done) /\ exit' = "drained"
    /\ UNCHANGED <<calls, session, produced, outgoing, outstanding, done, errored,
                   confirmed, sender, stopped>>

\* The last apply_confirmations, then close(), which fails a call still running;
\* the process ends, and its requests with it.
Close ==
    /\ exit = "drained"
    /\ exit' = "closed" /\ stopped' = TRUE /\ drained' = FALSE
    /\ confirmed' = confirmed \cup (done \ errored)
    /\ outgoing' = <<>> /\ outstanding' = {} /\ done' = {} /\ errored' = {}
    /\ sender' = IdleSender
    /\ calls' = {c \in calls : ~c.live} \cup Abandoned({c \in calls : c.live})
    /\ UNCHANGED <<session, produced>>

\* The launcher starts the next Actor; its rows carry a new episode id.
NextActor ==
    /\ exit = "closed" /\ session < Sessions
    /\ session' = session + 1 /\ produced' = 0
    /\ stopped' = FALSE /\ exit' = "running"
    /\ UNCHANGED <<calls, outgoing, outstanding, done, errored, confirmed, sender, drained>>

\* What run() does of itself: confirmations are collected at every step, and once
\* it leaves it comes to the end.
Collects == TakeConfirmed \/ Close

SenderThread ==
    \/ SenderTakes
    \/ \E c \in calls :
         SenderAccepted(c) \/ SenderRejected(c) \/ SenderRetries(c) \/ SenderGivesUp(c)

ControlLoop == Enqueue \/ EnqueueOnFullQueue \/ Collects \/ Drain \/ NextActor

==============================================================================
