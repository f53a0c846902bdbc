---------------------------- MODULE LearnerService ----------------------------
(***************************************************************************)
(* src/g2_local/real_learner.py, class GrpcLearnerService, with the part of *)
(* RealLearnerRuntime that its checkpoint carries, and the process around   *)
(* it (real_train.py, _run_learner_owned).  Handler threads validate a row, *)
(* acknowledge it and queue it; one worker thread, started by the first     *)
(* row, applies the queue in order, spends the update credit, and on its    *)
(* way out drains the queue and saves; the owner thread stops and joins it. *)
(***************************************************************************)
EXTENDS UplinkCalls, Functions

CONSTANTS
    Terminal,           \* the steps that end an episode
    Autonomous,         \* those that are successes without an intervention
    UtdRatio,           \* optimization.utd_ratio
    MinOnline,          \* optimization.min_online_transitions
    CheckpointInterval, \* optimization.checkpoint_interval, in updates
    EpisodeInterval,    \* optimization.episode_checkpoint_interval
    MaxLives            \* bound: Learner processes, one after the other

ASSUME LearnerAssumption ==
    /\ Autonomous \subseteq Terminal /\ Terminal \subseteq 1..Steps
    /\ UtdRatio \in Nat \ {0} /\ MinOnline \in Nat
    /\ CheckpointInterval \in Nat \ {0} /\ EpisodeInterval \in Nat \ {0}
    /\ MaxLives \in Nat \ {0}

VARIABLES
    learner,        \* what a checkpoint carries of RealLearnerRuntime
    disk, archive,  \* the training checkpoint; the set of archived ones
    learner_stopped,
    pending,        \* _pending: acknowledged, not yet applied
    acknowledged,   \* the rows behind _acknowledged_rows
    promised,       \* history: rows any Learner process has acknowledged
    work,           \* the _work event
    worker,         \* the optimizer thread
    failure, preservation_failure, recovered,
    owner, lives    \* the Learner process

learnerVars == <<learner, disk, archive, learner_stopped, pending, acknowledged, promised,
                 work, worker, failure, preservation_failure, recovered, owner, lives>>
processVars == <<owner, lives>>
threadVars  == <<learner_stopped, pending, acknowledged, promised, work, worker, failure,
                 preservation_failure, recovered>>

Untrained == [seen |-> {}, replay |-> <<>>, records |-> <<>>, accepted |-> 0,
              version |-> 0, budget |-> 0]

Snapshot ==
    [seen : SUBSET Row, replay : Seq(Row), records : Seq(Row),
     accepted : Nat, version : Nat, budget : Nat]

\* load_checkpoint: what it cross-checks.
Loads(c) ==
    /\ c.seen = Range(c.records) /\ Cardinality(c.seen) = Len(c.records)
    /\ c.replay = c.records
    /\ c.accepted = Len(c.records)

Completed(m) == Len(SelectSeq(m.records, LAMBDA r : r.step \in Terminal))

\* _ingest_prepared, the loop body: a row not seen before is stored ...
Stored(m, row) ==
    [m EXCEPT !.seen = @ \cup {row}, !.replay = Append(@, row), !.records = Append(@, row)]
\* ... and counted after the loop.
Counted(m) == [m EXCEPT !.accepted = @ + 1, !.budget = @ + UtdRatio]
\* records.append raised: the replay has the row, the journal has not.
Torn(m, row) == [m EXCEPT !.seen = @ \cup {row}, !.replay = Append(@, row)]

Updated(m) == [m EXCEPT !.version = @ + 1, !.budget = @ - 1]

LearnerInit ==
    /\ learner = Untrained /\ disk = Untrained /\ archive = {}
    /\ learner_stopped = FALSE /\ pending = <<>> /\ acknowledged = {} /\ promised = {}
    /\ work = FALSE /\ worker = "none"
    /\ failure = "none" /\ preservation_failure = FALSE /\ recovered = FALSE
    /\ owner = "running" /\ lives = 1

LearnerTypeOK ==
    /\ learner \in Snapshot /\ disk \in Snapshot /\ archive \subseteq Snapshot
    /\ learner_stopped \in BOOLEAN /\ pending \in Seq(Row)
    /\ acknowledged \subseteq promised /\ promised \subseteq Row
    /\ work \in BOOLEAN
    /\ worker \in {"none", "wait", "loop", "pop", "train", "drain", "drainpop", "done"}
    /\ failure \in {"none", "journal", "save", "update"}
    /\ preservation_failure \in BOOLEAN /\ recovered \in BOOLEAN
    /\ owner \in {"running", "joining", "exited", "down"} /\ lives \in 1..MaxLives

Alive == owner \in {"running", "joining"}

-----------------------------------------------------------------------------
\* The handler of one SendTransitions call.

Answer(c, pc) ==
    calls' = (calls \ {c}) \cup (IF c.live THEN {[c EXCEPT !.pc = pc]} ELSE {})

\* The whole packet arrived and its row is valid.
HandlerPrepares(c) ==
    /\ Alive /\ c.pc = "receiving" /\ ~learner_stopped
    /\ calls' = (calls \ {c}) \cup {[c EXCEPT !.pc = "prepared"]}
    /\ UNCHANGED learnerVars

\* A client that left: _client_gone, the Learner goes on.
HandlerLosesClient(c) ==
    /\ Alive /\ c.pc = "receiving" /\ ~c.live
    /\ calls' = calls \ {c}
    /\ UNCHANGED learnerVars

\* Mutant: the stop is not tested again under the lock.
AcceptsAfterStop(c) ==
    /\ Alive /\ c.pc = "prepared"
    /\ Len(pending) < QueueCapacity
    /\ pending' = Append(pending, c.row)
    /\ acknowledged' = acknowledged \cup {c.row}
    /\ promised' = promised \cup {c.row}
    /\ work' = TRUE
    /\ worker' = IF worker = "none" THEN "wait" ELSE worker
    /\ Answer(c, "replied")
    /\ UNCHANGED <<learner, disk, archive, learner_stopped, failure, preservation_failure,
                   recovered, processVars>>

\* Appended, acknowledged and scheduled under _condition; a client that gave
\* up is not looked at here.
HandlerAccepts(c) ==
    /\ Alive /\ c.pc = "prepared" /\ ~learner_stopped
    /\ Len(pending) < QueueCapacity
    /\ pending' = Append(pending, c.row)
    /\ acknowledged' = acknowledged \cup {c.row}
    /\ promised' = promised \cup {c.row}
    /\ work' = TRUE
    /\ worker' = IF worker = "none" THEN "wait" ELSE worker
    /\ Answer(c, "replied")
    /\ UNCHANGED <<learner, disk, archive, learner_stopped, failure, preservation_failure,
                   recovered, processVars>>

\* Stopped, or a full ingress queue: a live client's refusal is a protocol
\* failure and stops the whole Learner.
HandlerRefuses(c) ==
    /\ Alive
    /\ \/ c.pc \in {"receiving", "prepared"} /\ learner_stopped
       \/ c.pc = "prepared" /\ Len(pending) = QueueCapacity
    /\ IF c.live THEN learner_stopped' = TRUE /\ work' = TRUE
                 ELSE UNCHANGED <<learner_stopped, work>>
    /\ Answer(c, "error")
    /\ UNCHANGED <<learner, disk, archive, pending, acknowledged, promised, worker, failure,
                   preservation_failure, recovered, processVars>>

\* No Learner behind the port: the channel answers UNAVAILABLE.
NobodyServes(c) ==
    /\ ~Alive /\ c.live /\ c.pc \in {"receiving", "prepared"}
    /\ Answer(c, "error")
    /\ UNCHANGED learnerVars

-----------------------------------------------------------------------------
\* _optimize, the worker thread.

\* One iteration's first test: stopped sends the thread to its finally block.
WorkerWakes ==
    /\ Alive /\ worker = "wait" /\ work
    /\ work' = FALSE
    /\ worker' = IF learner_stopped THEN "drain" ELSE "loop"
    /\ UNCHANGED <<calls, learner, disk, archive, learner_stopped, pending, acknowledged,
                   promised, failure, preservation_failure, recovered, processVars>>

WorkerSeesStop ==
    /\ Alive /\ worker = "loop" /\ learner_stopped
    /\ worker' = "drain"
    /\ UNCHANGED <<calls, learner, disk, archive, learner_stopped, pending, acknowledged,
                   promised, work, failure, preservation_failure, recovered, processVars>>

Ingesting ==
    /\ Alive /\ pending # <<>>
    /\ worker = "drain" \/ (worker = "loop" /\ ~learner_stopped)

\* An exception in the loop stops the Learner and drains; one while draining
\* is a preservation failure, and the thread ends.
WorkerRaises(kind) ==
    /\ failure' = kind
    /\ learner_stopped' = TRUE /\ work' = TRUE
    /\ worker' = IF worker = "drain" THEN "done" ELSE "drain"
    /\ preservation_failure' = (worker = "drain")

\* Mutant: nothing is recognised as a retry.
ForgetsSeen(row) == FALSE
Duplicate(row) == row \in learner.seen

ToPop == worker' = IF worker = "drain" THEN "drainpop" ELSE "pop"

\* _ingest_prepared: the archive is written from inside the loop, before the
\* row is counted; the training checkpoint after, when an episode interval is
\* full.  Either file is replaced whole, or the write fails.
WorkerIngests ==
    /\ Ingesting
    /\ LET row    == Head(pending)
           stored == Stored(learner, row)
           kept   == Counted(stored)
           due    == Completed(kept) \div EpisodeInterval > Completed(learner) \div EpisodeInterval
       IN IF Duplicate(row)
          THEN ToPop /\ UNCHANGED <<learner, disk, archive, failure, learner_stopped, work,
                                    preservation_failure>>
          ELSE /\ learner' = kept
               /\ \/ row.step \in Autonomous /\ archive' = {stored}
                  \/ UNCHANGED archive
               /\ \/ /\ disk' = IF due THEN kept ELSE disk
                     /\ ToPop
                     /\ UNCHANGED <<failure, learner_stopped, work, preservation_failure>>
                  \/ /\ due
                     /\ WorkerRaises("save")
                     /\ UNCHANGED disk
    /\ UNCHANGED <<calls, pending, acknowledged, promised, recovered, processVars>>

\* The journal write fails after replay and dedup set took the row.
WorkerTearsRow ==
    /\ Ingesting /\ Head(pending) \notin learner.seen
    /\ learner' = Torn(learner, Head(pending))
    /\ WorkerRaises("journal")
    /\ UNCHANGED <<calls, disk, archive, pending, acknowledged, promised, recovered,
                   processVars>>

WorkerPops ==
    /\ Alive /\ worker \in {"pop", "drainpop"}
    /\ pending' = Tail(pending)
    /\ worker' = IF worker = "pop" THEN "loop" ELSE "drain"
    /\ UNCHANGED <<calls, learner, disk, archive, learner_stopped, acknowledged, promised,
                   work, failure, preservation_failure, recovered, processVars>>

\* The queue was seen empty; it may have been filled again by the next step.
WorkerFindsQueueEmpty ==
    /\ Alive /\ worker = "loop" /\ ~learner_stopped /\ pending = <<>>
    /\ worker' = "train"
    /\ UNCHANGED <<calls, learner, disk, archive, learner_stopped, pending, acknowledged,
                   promised, work, failure, preservation_failure, recovered, processVars>>

Trainable == learner.budget > 0 /\ Len(learner.replay) >= MinOnline

\* update_once, with the checkpoint of every checkpoint_interval-th version.
WorkerUpdates ==
    /\ Alive /\ worker = "train" /\ ~learner_stopped /\ Trainable
    /\ LET trained == Updated(learner)
           due     == trained.version % CheckpointInterval = 0
       IN \/ /\ learner' = trained
             /\ disk' = IF due THEN trained ELSE disk
             /\ worker' = "loop"
             /\ UNCHANGED <<failure, learner_stopped, work, preservation_failure>>
          \/ /\ due /\ learner' = trained /\ UNCHANGED disk
             /\ WorkerRaises("save")
          \/ /\ UNCHANGED <<learner, disk>>
             /\ WorkerRaises("update")
    /\ UNCHANGED <<calls, archive, pending, acknowledged, promised, recovered, processVars>>

\* Mutant: the event is cleared after the queue was looked at.
RestsAndClears ==
    /\ Alive /\ worker = "train"
    /\ \/ ~Trainable /\ worker' = "wait" /\ work' = FALSE
       \/ Trainable /\ learner_stopped /\ worker' = "drain" /\ UNCHANGED work
    /\ UNCHANGED <<calls, learner, disk, archive, learner_stopped, pending, acknowledged,
                   promised, failure, preservation_failure, recovered, processVars>>

\* No credit, too little replay, or update_once raised LearnerStopped.
WorkerRests ==
    /\ Alive /\ worker = "train"
    /\ \/ ~Trainable /\ worker' = "wait"
       \/ Trainable /\ learner_stopped /\ worker' = "drain"
    /\ UNCHANGED <<calls, learner, disk, archive, learner_stopped, pending, acknowledged,
                   promised, work, failure, preservation_failure, recovered, processVars>>

\* The end of the finally block: everything acknowledged is in the learner.
WorkerPreserves ==
    /\ Alive /\ worker = "drain" /\ pending = <<>>
    /\ \/ /\ disk' = learner /\ recovered' = TRUE /\ worker' = "done"
          /\ UNCHANGED <<failure, preservation_failure, learner_stopped, work>>
       \/ /\ WorkerRaises("save")
          /\ UNCHANGED <<disk, recovered>>
    /\ UNCHANGED <<calls, learner, archive, pending, acknowledged, promised, processVars>>

-----------------------------------------------------------------------------
\* The Learner process.

\* Ctrl+C, or the owner's poll sees the stop: close() stops and joins.
OwnerStops ==
    /\ owner = "running"
    /\ owner' = "joining" /\ learner_stopped' = TRUE /\ work' = TRUE
    /\ UNCHANGED <<calls, learner, disk, archive, pending, acknowledged, promised, worker,
                   failure, preservation_failure, recovered, lives>>

\* After the join: save unless the worker did or could not.
OwnerExits ==
    /\ owner = "joining" /\ worker \in {"none", "done"}
    /\ owner' = "exited"
    /\ \/ ~preservation_failure /\ ~recovered /\ disk' = learner
       \/ UNCHANGED disk
    /\ calls' = {[c EXCEPT !.pc = IF @ = "replied" THEN @ ELSE "error"] :
                     c \in {d \in calls : d.live}}
    /\ UNCHANGED <<learner, archive, threadVars, lives>>

\* The process dies: its memory, its handlers and its queue with it.
Crash ==
    /\ Alive
    /\ owner' = "down"
    /\ learner' = Untrained /\ pending' = <<>> /\ acknowledged' = {}
    /\ learner_stopped' = TRUE /\ work' = FALSE /\ worker' = "none"
    /\ failure' = "none" /\ preservation_failure' = FALSE /\ recovered' = FALSE
    /\ calls' = {[c EXCEPT !.pc = IF @ = "replied" THEN @ ELSE "error"] :
                     c \in {d \in calls : d.live}}
    /\ UNCHANGED <<disk, archive, promised, lives>>

\* Mutant: the checkpoint's unspent credit is not restored.
RestartsWithoutCredit ==
    /\ ~Alive /\ lives < MaxLives /\ Loads(disk)
    /\ owner' = "running" /\ lives' = lives + 1
    /\ learner' = [disk EXCEPT !.budget = 0] /\ pending' = <<>> /\ acknowledged' = {}
    /\ learner_stopped' = FALSE /\ work' = FALSE /\ worker' = "none"
    /\ failure' = "none" /\ preservation_failure' = FALSE /\ recovered' = FALSE
    /\ UNCHANGED <<calls, disk, archive, promised>>

\* Mutant: resumes from the archived first success, not from the training checkpoint.
ResumesFromArchive ==
    /\ ~Alive /\ lives < MaxLives /\ Loads(disk)
    /\ owner' = "running" /\ lives' = lives + 1
    /\ learner' = (IF archive = {} THEN disk ELSE CHOOSE c \in archive : TRUE)
    /\ pending' = <<>> /\ acknowledged' = {}
    /\ learner_stopped' = FALSE /\ work' = FALSE /\ worker' = "none"
    /\ failure' = "none" /\ preservation_failure' = FALSE /\ recovered' = FALSE
    /\ UNCHANGED <<calls, disk, archive, promised>>

\* A Learner starts from the checkpoint, if load_checkpoint accepts it.
Restart ==
    /\ ~Alive /\ lives < MaxLives /\ Loads(disk)
    /\ owner' = "running" /\ lives' = lives + 1
    /\ learner' = disk /\ pending' = <<>> /\ acknowledged' = {}
    /\ learner_stopped' = FALSE /\ work' = FALSE /\ worker' = "none"
    /\ failure' = "none" /\ preservation_failure' = FALSE /\ recovered' = FALSE
    /\ UNCHANGED <<calls, disk, archive, promised>>

Handler ==
    \E c \in calls :
        HandlerPrepares(c) \/ HandlerAccepts(c) \/ HandlerRefuses(c) \/ NobodyServes(c)

Worker ==
    \/ WorkerWakes \/ WorkerSeesStop \/ WorkerIngests \/ WorkerTearsRow \/ WorkerPops
    \/ WorkerFindsQueueEmpty \/ WorkerUpdates \/ WorkerRests \/ WorkerPreserves

Owner == OwnerStops \/ OwnerExits

==============================================================================
