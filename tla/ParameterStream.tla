--------------------------- MODULE ParameterStream ---------------------------
(***************************************************************************)
(* The Learner's parameters on their way to Actors: publications and        *)
(* heartbeats (RealLearnerRuntime), one StreamParameters handler per        *)
(* subscriber (GrpcLearnerService), the Actor's bounded queue and           *)
(* accept_latest_parameters.  Actor processes follow one another, for the   *)
(* SpaceMouse is an exclusive lock, but the handler of a dead one may       *)
(* linger.  A policy is named by its version and the Learner's life that    *)
(* trained it: two lives that reach one version hold different tensors.     *)
(***************************************************************************)
EXTENDS Naturals, Sequences

CONSTANTS
    Actors,           \* number of Actor processes, one after the other
    QueueCapacity,    \* of the Actor's parameter queue
    PublishInterval,  \* optimization.publish_interval
    MaxVersion, MaxLives,  \* bounds of the model
    MaxRepeats        \* bound: a heartbeat that only repeats what its stream
                      \* has sent leaves message_sequence at most at this value

ASSUME BoundsAssumption ==
    /\ Actors \in Nat \ {0} /\ QueueCapacity \in Nat \ {0}
    /\ PublishInterval \in Nat \ {0}
    /\ MaxVersion \in Nat /\ MaxLives \in Nat \ {0} /\ MaxRepeats \in Nat

VARIABLES
    boot,       \* the owner thread: down, serving, published (and about to
                \* publish the same envelope again), up
    life,       \* how often the Learner was started
    policy,     \* version and actor state in training
    published,  \* _published_version, _published_actor_state
    sequence,   \* message_sequence + 1, so that 0 is "none yet"
    first,      \* the envelope publish_parameters returned to the owner
    latest,     \* the service's _latest envelope, or none
    saved,      \* the checkpoint
    stream,     \* per Actor: its StreamParameters handler
    queue,      \* per Actor: the parameters queue of its transport
    actor       \* per Actor: parameter_version, state, last_message_sequence

learnerVars == <<boot, life, policy, published, sequence, first, latest, saved>>
vars == <<learnerVars, stream, queue, actor>>

Actor == 1..Actors
Policy == [version : Nat, life : Nat]
Envelope == [policy : Policy, seq : Nat \ {0}]
Checkpoint == [policy : Policy, published : Policy, sequence : Nat]
Optional(S) == {s \in Seq(S) : Len(s) <= 1}

TypeOK ==
    /\ boot \in {"down", "serving", "published", "up"} /\ life \in Nat
    /\ policy \in Policy /\ published \in Policy /\ sequence \in Nat
    /\ first \in Optional(Envelope) /\ latest \in Optional(Envelope)
    /\ saved \in Checkpoint
    /\ stream \in [Actor -> [pc : {"none", "wait", "heartbeat", "send"},
                             last : Nat, envelope : Optional(Envelope)]]
    /\ queue \in [Actor -> Seq(Envelope)]
    /\ actor \in [Actor -> [pc : {"unstarted", "up", "gone"}, seq : Nat,
                            policy : Optional(Policy),
                            refused : {"no", "sequence", "rollback", "mismatch"}]]
    /\ \A a \in Actor : Len(queue[a]) <= QueueCapacity
    /\ \A a \in Actor : stream[a].pc = "send" => stream[a].envelope # <<>>

NewActor == [pc |-> "unstarted", seq |-> 0, policy |-> <<>>, refused |-> "no"]
NoStream == [pc |-> "none", last |-> 0, envelope |-> <<>>]

\* The first life starts from the checkpoint of some number of updates, trained
\* by none of the lives: an offline pretraining, or a fresh Learner.
Seed(version) == [version |-> version, life |-> 0]

Init ==
    /\ boot = "down" /\ life = 0
    /\ \E updates \in 0..MaxVersion :
           saved = [policy |-> Seed(updates),
                    published |-> Seed(updates - (updates % PublishInterval)),
                    sequence |-> updates \div PublishInterval]
    /\ policy = saved.policy /\ published = saved.published
    /\ sequence = saved.sequence
    /\ first = <<>> /\ latest = <<>>
    /\ stream = [a \in Actor |-> NoStream]
    /\ queue = [a \in Actor |-> <<>>]
    /\ actor = [a \in Actor |-> NewActor]

-----------------------------------------------------------------------------
\* The Learner process.  While it is down its variables hold the checkpoint, which
\* load_checkpoint restores.
Start ==
    /\ boot = "down" /\ life < MaxLives
    /\ boot' = "serving" /\ life' = life + 1
    /\ UNCHANGED <<policy, published, sequence, first, latest, saved, stream, queue, actor>>

NextEnvelope(p) == [policy |-> p, seq |-> sequence + 1]

\* _envelope and the service's publish: whatever goes out becomes the newest.
Send(p) == sequence' = sequence + 1 /\ latest' = <<NextEnvelope(p)>>

\* publish_parameters holds the parameter lock throughout, so no heartbeat falls
\* between the envelope and the published state.
PublishParameters == Send(policy) /\ published' = policy

\* The owner publishes once the server runs ...
FirstPublish ==
    /\ boot = "serving"
    /\ PublishParameters
    /\ first' = <<NextEnvelope(policy)>>
    /\ boot' = "published"
    /\ UNCHANGED <<life, policy, saved, stream, queue, actor>>

\* ... and hands the service the same envelope once more, after which _latest may
\* be older than what the streams have sent.
PublishAgain ==
    /\ boot = "published"
    /\ latest' = first /\ first' = <<>>
    /\ boot' = "up"
    /\ UNCHANGED <<life, policy, published, sequence, saved, stream, queue, actor>>

\* update_once, up to its publication; transitions need an Actor that came.
Due == policy.version # published.version /\ policy.version % PublishInterval = 0

Train ==
    /\ boot \in {"published", "up"} /\ ~Due
    /\ policy.version < MaxVersion
    /\ \E a \in Actor : actor[a].pc # "unstarted"
    /\ policy' = [policy EXCEPT !.version = @ + 1, !.life = life]
    /\ UNCHANGED <<boot, life, published, sequence, first, latest, saved, stream, queue, actor>>

PublishTrained ==
    /\ boot \in {"published", "up"} /\ Due
    /\ PublishParameters
    /\ UNCHANGED <<boot, life, policy, first, saved, stream, queue, actor>>

\* save_checkpoint: the update lock keeps it out of an unfinished update.  A crash
\* before os.replace is a life that did not save.
Payload == [policy |-> policy, published |-> published, sequence |-> sequence]

SaveCheckpoint ==
    /\ boot \in {"published", "up"} /\ ~Due
    /\ saved' = Payload
    /\ UNCHANGED <<boot, life, policy, published, sequence, first, latest, stream, queue, actor>>

\* The process ends: stopped, with a last checkpoint, or killed, without.
Stop ==
    /\ boot # "down"
    /\ boot' = "down"
    /\ saved' \in {saved, Payload}
    /\ policy' = saved'.policy /\ published' = saved'.published
    /\ sequence' = saved'.sequence
    /\ first' = <<>> /\ latest' = <<>>
    /\ stream' = [a \in Actor |-> NoStream]
    /\ UNCHANGED <<life, queue, actor>>

-----------------------------------------------------------------------------
\* A StreamParameters handler.  Its client's departure shows late: a handler may
\* take further steps for an Actor that is gone.

\* Mutant: last_sequence is forgotten.
AnyLatest(a) == latest # <<>>

Newer(a) == latest # <<>> /\ latest[1].seq > stream[a].last

TakeLatest(a) ==
    /\ stream[a].pc = "wait" /\ Newer(a)
    /\ stream' = [stream EXCEPT ![a] = [pc |-> "send", last |-> latest[1].seq,
                                        envelope |-> <<latest[1]>>]]
    /\ UNCHANGED <<learnerVars, queue, actor>>

\* The stream has not sent what is published.
Behind(a) == \A i \in DOMAIN stream[a].envelope : stream[a].envelope[i].policy # published

\* Mutant: once something was published, the wait has no timeout.
TimesOutOnlyBeforeFirst(a) ==
    /\ stream[a].pc = "wait" /\ latest = <<>>
    /\ Behind(a) \/ sequence < MaxRepeats
    /\ stream' = [stream EXCEPT ![a].pc = "heartbeat"]
    /\ UNCHANGED <<learnerVars, queue, actor>>

\* wait_for times out: nothing was newer when it let go of the condition.
WaitTimeout(a) ==
    /\ stream[a].pc = "wait" /\ ~Newer(a)
    /\ Behind(a) \/ sequence < MaxRepeats
    /\ stream' = [stream EXCEPT ![a].pc = "heartbeat"]
    /\ UNCHANGED <<learnerVars, queue, actor>>

\* Mutant: the heartbeat reads the actor in training.
TrainingPolicy == policy

\* heartbeat_parameters repeats the published state, never the one in training.
HeartbeatPolicy == published

Heartbeat(a) ==
    /\ stream[a].pc = "heartbeat"
    /\ Send(HeartbeatPolicy)
    /\ stream' = [stream EXCEPT ![a] = [pc |-> "send", last |-> sequence + 1,
                                        envelope |-> <<NextEnvelope(HeartbeatPolicy)>>]]
    /\ UNCHANGED <<boot, life, policy, published, first, saved, queue, actor>>

\* The chunks arrive: the receiver's bounded put.
Deliver(a) ==
    /\ stream[a].pc = "send" /\ actor[a].pc = "up"
    /\ Len(queue[a]) < QueueCapacity
    /\ queue' = [queue EXCEPT ![a] = Append(@, stream[a].envelope[1])]
    /\ stream' = [stream EXCEPT ![a].pc = "wait"]
    /\ UNCHANGED <<learnerVars, actor>>

\* They go to an Actor that is gone, before the handler knows.
DeliverToNobody(a) ==
    /\ stream[a].pc = "send" /\ actor[a].pc = "gone"
    /\ stream' = [stream EXCEPT ![a].pc = "wait"]
    /\ UNCHANGED <<learnerVars, queue, actor>>

EndStream(a) ==
    /\ stream[a].pc # "none" /\ actor[a].pc = "gone"
    /\ stream' = [stream EXCEPT ![a] = NoStream]
    /\ UNCHANGED <<learnerVars, queue, actor>>

-----------------------------------------------------------------------------
\* An Actor process.
Subscribe(a) ==
    /\ actor[a].pc = "unstarted" /\ boot # "down"
    /\ \A b \in 1..(a - 1) : actor[b].pc = "gone"
    /\ actor' = [actor EXCEPT ![a].pc = "up"]
    /\ stream' = [stream EXCEPT ![a].pc = "wait"]
    /\ UNCHANGED <<learnerVars, queue>>

\* What validate_parameter_envelope and the comparison of states make of e.
Verdict(a, e) ==
    LET known == actor[a].policy IN
    CASE e.seq <= actor[a].seq -> "sequence"
      [] known # <<>> /\ e.seq > actor[a].seq /\ e.policy.version < known[1].version -> "rollback"
      [] known # <<>> /\ e.seq > actor[a].seq /\ e.policy.version = known[1].version
             /\ e.policy # known[1] -> "mismatch"
      [] OTHER -> "no"

AcceptLatest(a) ==
    /\ actor[a].pc = "up" /\ queue[a] # <<>>
    /\ LET e == Head(queue[a]) IN
           actor' = [actor EXCEPT ![a] =
               IF Verdict(a, e) = "no"
               THEN [@ EXCEPT !.policy = <<e.policy>>, !.seq = e.seq]
               ELSE [@ EXCEPT !.refused = Verdict(a, e), !.pc = "gone"]]
    /\ queue' = [queue EXCEPT ![a] = Tail(@)]
    /\ UNCHANGED <<learnerVars, stream>>

\* An Actor ends on its own account, on a full queue, on the end of its stream or
\* on the Learner's silence; its queue goes with it.
Leave(a) ==
    /\ actor[a].pc = "up"
    /\ actor' = [actor EXCEPT ![a] = [NewActor EXCEPT !.pc = "gone"]]
    /\ queue' = [queue EXCEPT ![a] = <<>>]
    /\ UNCHANGED <<learnerVars, stream>>

Learner == Start \/ FirstPublish \/ PublishAgain \/ Train \/ PublishTrained
           \/ SaveCheckpoint \/ Stop

Handler(a) ==
    TakeLatest(a) \/ WaitTimeout(a) \/ Heartbeat(a) \/ Deliver(a) \/ DeliverToNobody(a)
    \/ EndStream(a)

Next ==
    \/ Learner
    \/ \E a \in Actor : Handler(a) \/ Subscribe(a) \/ AcceptLatest(a) \/ Leave(a)

\* A running handler and a running control loop take their next step; the owner
\* and the worker finish a publication they have begun.  Nothing makes anyone
\* train, save, stop, start or leave.
Fairness ==
    /\ WF_vars(FirstPublish) /\ WF_vars(PublishAgain) /\ WF_vars(PublishTrained)
    /\ \A a \in Actor : WF_vars(Handler(a)) /\ WF_vars(AcceptLatest(a))

Spec == Init /\ [][Next]_vars
LiveSpec == Spec /\ Fairness

-----------------------------------------------------------------------------
\* No Actor ever refuses what a Learner sends it: through restarts, heartbeats
\* that race publications, a service's _latest that falls back and subscribers
\* left behind, each stream keeps its message sequence increasing, its versions
\* monotone and one state per version (accept_latest_parameters).
NothingIsRefused == \A a \in Actor : actor[a].refused = "no"

\* An Actor on a living stream runs a policy the Learner has published: never one
\* that is still in training, never another state under a published version.
ActorRunsPublished ==
    \A a \in Actor : stream[a].pc # "none" /\ actor[a].policy # <<>> =>
        LET known == actor[a].policy[1] IN
        /\ known.version <= published.version
        /\ known.version = published.version => known = published

\* The Actor that listens comes to run what is published, unless it leaves or the
\* Learner stops first: no wake-up is lost for good, not even when the owner's
\* second publication lets _latest fall back behind what a stream has sent.
PublicationArrives ==
    \A a \in Actor :
        (boot = "up" /\ actor[a].pc = "up" /\ stream[a].pc # "none")
            ~> \/ actor[a].policy = <<published>>
               \/ actor[a].pc = "gone" \/ boot = "down"

=============================================================================
