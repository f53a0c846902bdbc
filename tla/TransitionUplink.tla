--------------------------- MODULE TransitionUplink ---------------------------
(***************************************************************************)
(* An Actor's transport and the Learner's ingress, composed: what happens   *)
(* to a row between the control loop that produced it and the checkpoint    *)
(* the next Learner starts from, through deadlines and retries, abandoned   *)
(* handlers, Actors and Learners that exit, crash and are started again.    *)
(***************************************************************************)
EXTENDS ActorTransport, LearnerService

vars == <<calls, transportVars, learnerVars>>

Init == calls = {} /\ TransportInit /\ LearnerInit

TransportNext == ControlLoop \/ SenderThread \/ ReceiverFails

LearnerNext ==
    \/ Handler \/ Worker \/ Owner \/ Crash \/ Restart
    \/ \E c \in calls : HandlerLosesClient(c)

Next ==
    \/ TransportNext /\ UNCHANGED learnerVars
    \/ LearnerNext /\ UNCHANGED transportVars

Spec == Init /\ [][Next]_vars

\* The threads run: the sender (its calls end, at the latest by their
\* deadline), the control loop and, once it leaves, its finally block, the handlers
\* and the worker.  Nothing obliges anybody to leave, stop, crash or restart.
LiveSpec ==
    /\ Spec
    /\ WF_vars(SenderThread /\ UNCHANGED learnerVars)
    /\ WF_vars(Collects /\ UNCHANGED learnerVars)
    /\ WF_vars(Handler /\ UNCHANGED transportVars)
    /\ WF_vars(Worker /\ UNCHANGED transportVars)

-----------------------------------------------------------------------------
(***************************************************************************)
(* Properties                                                              *)
(***************************************************************************)
\* The variables stay in their types (the calls, the transport's request
\* states, the Learner's snapshots and threads).
TypeOK ==
    /\ calls \subseteq Call
    /\ TransportTypeOK
    /\ LearnerTypeOK

\* A row the Actor counts as confirmed (take_confirmed, real_actor.py:362-371)
\* was acknowledged by a Learner, whatever was retried, refused or abandoned;
\* and whatever the running Learner acknowledged it holds: applied or queued.
ConfirmedIsAcknowledged ==
    /\ confirmed \cup (done \ errored) \subseteq promised
    /\ acknowledged \subseteq learner.seen \cup Range(pending)

\* Deadlines, retries and handlers that outlive their client apply no row
\* twice, and each Actor's rows only in the order it produced them
\* (_ingest_prepared, real_learner.py:402-405; one sender, real_actor.py:292).
ReplayIsExactlyOnceInOrder ==
    \A i, j \in DOMAIN learner.records :
        i < j /\ learner.records[i].session = learner.records[j].session
            => learner.records[i].step < learner.records[j].step

\* When the Actor leaves with a transport that never failed and drain() answered
\* True, every row it produced is with the Learner and counted, the terminal row
\* of a labelled episode included (run's finally block, real_actor.py:1014-1025).
CleanExitDelivers ==
    [][exit' = "closed" /\ drained /\ ~stopped =>
          \A step \in 1..produced :
             [session |-> session, step |-> step] \in confirmed' \cap promised]_vars

\* A row is acknowledged only after every earlier row of its Actor was: an
\* uplink that loses a row (full queue, deadline, refusal) delivers no later one.
NoGapIsAcknowledged ==
    \A row \in promised : \A step \in 1..row.step :
        [row EXCEPT !.step = step] \in promised

\* Update credit is granted once per stored row and spent once per update,
\* across duplicates, failures, checkpoints and restarts
\* (real_learner.py:431-436, 606-610).
UpdateCreditIsExact ==
    learner.version + learner.budget = UtdRatio * learner.accepted

\* A Learner that exits without a preservation failure leaves a checkpoint with
\* every row it acknowledged; unless a row was torn, the next Learner accepts
\* that checkpoint (_optimize's finally, real_learner.py:943-966).
ExitPreserves ==
    worker = "done" /\ ~preservation_failure =>
        /\ acknowledged \subseteq disk.seen
        /\ failure # "journal" => Loads(disk)

Log == INSTANCE TransitionLog WITH
    Rows <- Row, log <- learner.records, saved <- disk.records

\* Through deadlines, retries, full queues, torn rows, failed saves, crashes and
\* restarts the two processes implement the log: a Learner comes back with the rows
\* of its checkpoint and no others (load_checkpoint, real_learner.py:707).
ImplementsTransitionLog == Log!Spec

\* "Preserve every ACKed batch before the worker exits" (real_learner.py:945):
\* what the worker leaves behind can be loaded again.
PreservedCheckpointLoads == recovered => Loads(disk)

\* "Keep the first fully autonomous success instead of losing it"
\* (real_learner.py:353): the archived checkpoint can be loaded.
ArchiveLoads == \A c \in archive : Loads(c)

\* A row handed to the sender is finished, accepted or failed, unless the
\* transport has stopped: no lost wakeup, no call waited on for ever.
EnqueuedRowIsFinished ==
    \A row \in Row : row \in outstanding ~> row \notin outstanding \/ stopped

\* A row the Learner acknowledged is applied, through stops and failures, unless
\* the process dies or the preservation itself fails.
AcknowledgedRowIsApplied ==
    \A row \in Row :
        row \in acknowledged ~> row \in learner.seen \/ ~Alive \/ preservation_failure

==============================================================================
