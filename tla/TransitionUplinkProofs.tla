------------------------ MODULE TransitionUplinkProofs ------------------------
(***************************************************************************)
(* Proofs about TransitionUplink: its types, the update credit, what an     *)
(* acknowledgement is worth, and what either process leaves behind when it  *)
(* exits.  The order of the rows is in TransitionOrderProofs.               *)
(***************************************************************************)
EXTENDS TransitionUplink, FiniteSetTheorems, SequenceTheorems, TLAPS

\* Every granted credit is unspent or a version, in memory and on disk.
Credited(m) == m.version + m.budget = UtdRatio * m.accepted
CreditInv == Credited(learner) /\ Credited(disk)

\* Nothing acknowledged leaves the queue before the learner has it.
QueueInv ==
    /\ worker \in {"pop", "drainpop"} => pending # <<>> /\ Head(pending) \in learner.seen
    /\ acknowledged \subseteq learner.seen \cup Range(pending)

\* What a client reads, or has counted, was acknowledged.
ReplyInv ==
    /\ \A c \in calls : c.pc = "replied" => c.row \in promised
    /\ confirmed \cup (done \ errored) \subseteq promised

\* A request with an error has stopped the transport; until then every row
\* produced is outstanding or confirmed.
AccountInv ==
    ~stopped =>
        /\ errored = {}
        /\ \A step \in 1..produced :
              [session |-> session, step |-> step] \in confirmed \cup outstanding

\* What run()'s finally block knows at each of its places.
LeavingInv ==
    /\ drained => exit = "drained" /\ outstanding \subseteq done
    /\ exit = "closed" => /\ stopped /\ sender = IdleSender /\ outgoing = <<>>
                          /\ outstanding = {} /\ done = {} /\ errored = {}

\* The worker's way out: it drains a stopped ingress, and an error while it
\* drains ends it.
DrainInv ==
    /\ worker \in {"drain", "drainpop", "done"} => learner_stopped
    /\ worker \notin {"drain", "drainpop", "done"} => failure = "none"
    /\ preservation_failure => worker = "done"
    /\ worker = "done" /\ ~preservation_failure => disk = learner /\ pending = <<>>

\* Only a torn row, or an error on the way out, leaves a learner that its own
\* checkpoint would not restore.
LoadsInv ==
    /\ IsFiniteSet(learner.seen) /\ IsFiniteSet(disk.seen)
    /\ failure # "journal" /\ ~preservation_failure => Loads(learner)

-----------------------------------------------------------------------------
(* Types. *)

\* Giving up on calls changes no more than who waits for them.
LEMMA AbandonedType == ASSUME NEW cs \in SUBSET Call PROVE Abandoned(cs) \subseteq Call
  BY DEF Abandoned, Call

\* An answer keeps the types of the calls.
LEMMA AnswerType ==
  ASSUME calls \subseteq Call, NEW c \in calls, NEW pc \in {"replied", "error"}, Answer(c, pc)
  PROVE  calls' \subseteq Call
  BY DEF Answer, Call

\* What an ingest does to the learner keeps its type.
LEMMA SnapshotType ==
  ASSUME NEW m \in Snapshot, NEW row \in Row
  PROVE  /\ Stored(m, row) \in Snapshot /\ Counted(m) \in Snapshot /\ Torn(m, row) \in Snapshot
<1>1. /\ m.seen \cup {row} \in SUBSET Row /\ Append(m.replay, row) \in Seq(Row)
      /\ Append(m.records, row) \in Seq(Row) /\ m.accepted + 1 \in Nat
      /\ m.budget + UtdRatio \in Nat
  BY LearnerAssumption, AppendProperties DEF Snapshot
<1>2. Stored(m, row) \in Snapshot
  BY <1>1 DEF Snapshot, Stored
<1>3. Counted(m) \in Snapshot
  BY <1>1 DEF Snapshot, Counted
<1>4. Torn(m, row) \in Snapshot
  BY <1>1 DEF Snapshot, Torn
<1> QED
  BY <1>2, <1>3, <1>4

\* An update spends credit that is there.
LEMMA UpdatedType ==
  ASSUME NEW m \in Snapshot, m.budget > 0 PROVE Updated(m) \in Snapshot
<1>1. m.version + 1 \in Nat /\ m.budget - 1 \in Nat
  BY DEF Snapshot
<1> QED
  BY <1>1 DEF Snapshot, Updated

\* The sender thread: idle, or in a call.
Sender == [pc : {"idle", "sending"}, row : Row, attempt : {1, 2}]

\* The sender that waits.
LEMMA IdleSenderType == IdleSender \in Sender
  BY UplinkAssumption DEF IdleSender, NoRow, Sender, Row

\* Both ends start well typed.
LEMMA InitTypeOK == Init => TypeOK
<1> SUFFICES ASSUME Init PROVE TypeOK
  OBVIOUS
<1>1. Untrained \in Snapshot
  BY EmptySeq DEF Untrained, Snapshot
<1>2. LearnerTypeOK
  <2>1. <<>> \in Seq(Row) /\ 1 \in 1..MaxLives
    BY EmptySeq, LearnerAssumption
  <2> QED
    BY <1>1, <2>1 DEF Init, LearnerInit, LearnerTypeOK
<1>3. TransportTypeOK
  <2>1. <<>> \in Seq(Row) /\ 1 \in 1..Sessions /\ 0 \in 0..Steps
    BY EmptySeq, UplinkAssumption
  <2> QED
    BY <2>1, IdleSenderType DEF Init, TransportInit, TransportTypeOK, Sender
<1> QED
  BY <1>2, <1>3 DEF Init, TypeOK

\* One step for every operation of the Actor's end.
LEMMA TransportTypes == TypeOK /\ TransportNext /\ UNCHANGED learnerVars => TypeOK'
<1> SUFFICES ASSUME TypeOK, TransportNext, UNCHANGED learnerVars
             PROVE  calls' \subseteq Call /\ TransportTypeOK'
  BY DEF TypeOK, LearnerTypeOK, learnerVars
<1> USE DEF TypeOK, TransportTypeOK, exitVars
<1>1. CASE Enqueue
  <2>1. [session |-> session, step |-> produced + 1] \in Row /\ produced + 1 \in 0..Steps
    BY <1>1, UplinkAssumption DEF Enqueue, Row
  <2> QED
    BY <1>1, <2>1, AppendProperties DEF Enqueue
<1>2. CASE EnqueueOnFullQueue \/ NextActor
  <2>1. (EnqueueOnFullQueue => produced + 1 \in 0..Steps) /\ 0 \in 0..Steps
    BY UplinkAssumption DEF EnqueueOnFullQueue
  <2>2. NextActor => session + 1 \in 1..Sessions
    BY UplinkAssumption DEF NextActor
  <2> QED
    BY <1>2, <2>1, <2>2 DEF EnqueueOnFullQueue, NextActor
<1>3. CASE TakeConfirmed \/ Drain \/ ReceiverFails
  BY <1>3 DEF TakeConfirmed, Drain, ReceiverFails
<1>4. CASE Close
  <2>1. calls' \subseteq Call
    BY <1>4, AbandonedType DEF Close
  <2> QED
    BY <1>4, <2>1, IdleSenderType, EmptySeq DEF Close, Sender
<1>5. CASE SenderTakes
  <2>1. Head(outgoing) \in Row /\ Tail(outgoing) \in Seq(Row)
    BY <1>5, HeadTailProperties DEF SenderTakes
  <2>2. [row |-> Head(outgoing), attempt |-> 1, live |-> TRUE, pc |-> "receiving"] \in Call
    BY <2>1 DEF Call
  <2>3. sender' \in Sender
    BY <1>5, <2>1 DEF SenderTakes, Sender
  <2> QED
    BY <1>5, <2>1, <2>2, <2>3 DEF SenderTakes, Sender
<1>6. ASSUME NEW c \in calls, SenderAccepted(c) \/ SenderRejected(c) \/ SenderGivesUp(c)
      PROVE  calls' \subseteq Call /\ TransportTypeOK'
  <2>1. Abandoned({c}) \subseteq Call
    BY AbandonedType
  <2> QED
    BY <1>6, <2>1, IdleSenderType
       DEF SenderAccepted, SenderRejected, SenderGivesUp, RequestEnds, Sender
<1>7. ASSUME NEW c \in calls, SenderRetries(c)
      PROVE  calls' \subseteq Call /\ TransportTypeOK'
  <2>1. Abandoned({c}) \subseteq Call /\ [c EXCEPT !.attempt = 2, !.pc = "receiving"] \in Call
    BY AbandonedType DEF Call
  <2> QED
    BY <1>7, <2>1 DEF SenderRetries
<1> QED
  BY <1>1, <1>2, <1>3, <1>4, <1>5, <1>6, <1>7 DEF TransportNext, ControlLoop, Collects, SenderThread

\* One step for every operation of the Learner's end.
LEMMA LearnerTypes == TypeOK /\ QueueInv /\ LearnerNext /\ UNCHANGED transportVars => TypeOK'
<1> SUFFICES ASSUME TypeOK, QueueInv, LearnerNext, UNCHANGED transportVars
             PROVE  calls' \subseteq Call /\ LearnerTypeOK'
  BY DEF TypeOK, TransportTypeOK, transportVars, exitVars
<1> USE DEF TypeOK, LearnerTypeOK, learnerVars, threadVars, processVars
<1>1. ASSUME NEW c \in calls, HandlerPrepares(c) \/ HandlerLosesClient(c) \/ NobodyServes(c)
      PROVE  calls' \subseteq Call /\ LearnerTypeOK'
  <2>1. [c EXCEPT !.pc = "prepared"] \in Call
    BY DEF Call
  <2> QED
    BY <1>1, <2>1, AnswerType DEF HandlerPrepares, HandlerLosesClient, NobodyServes
<1>2. ASSUME NEW c \in calls, HandlerAccepts(c) PROVE calls' \subseteq Call /\ LearnerTypeOK'
  <2>1. c.row \in Row
    BY DEF Call
  <2> QED
    BY <1>2, <2>1, AnswerType, AppendProperties DEF HandlerAccepts
<1>3. ASSUME NEW c \in calls, HandlerRefuses(c) PROVE calls' \subseteq Call /\ LearnerTypeOK'
  BY <1>3, AnswerType DEF HandlerRefuses
<1>4. CASE WorkerWakes \/ WorkerSeesStop \/ WorkerFindsQueueEmpty \/ WorkerRests
  BY <1>4 DEF WorkerWakes, WorkerSeesStop, WorkerFindsQueueEmpty, WorkerRests
<1>5. CASE WorkerIngests \/ WorkerTearsRow
  <2> DEFINE row == Head(pending)
             kept == Counted(Stored(learner, row))
  <2>1. row \in Row
    BY <1>5, HeadTailProperties DEF WorkerIngests, WorkerTearsRow, Ingesting
  <2>2. Stored(learner, row) \in Snapshot /\ kept \in Snapshot /\ Torn(learner, row) \in Snapshot
    BY <2>1, SnapshotType
  <2> HIDE DEF kept
  <2>3. CASE WorkerIngests
    BY <2>3, <2>2 DEF WorkerIngests, WorkerRaises, ToPop, kept
  <2>4. CASE WorkerTearsRow
    BY <2>4, <2>2 DEF WorkerTearsRow, WorkerRaises
  <2> QED
    BY <1>5, <2>3, <2>4
<1>6. CASE WorkerPops
  <2>1. Tail(pending) \in Seq(Row)
    BY <1>6, HeadTailProperties DEF WorkerPops, QueueInv
  <2> QED
    BY <1>6, <2>1 DEF WorkerPops
<1>7. CASE WorkerUpdates
  <2>1. Updated(learner) \in Snapshot
    BY <1>7, UpdatedType DEF WorkerUpdates, Trainable
  <2> QED
    BY <1>7, <2>1 DEF WorkerUpdates, WorkerRaises
<1>8. CASE WorkerPreserves
  BY <1>8 DEF WorkerPreserves, WorkerRaises
<1>9. CASE OwnerStops
  BY <1>9 DEF OwnerStops
<1>10. CASE OwnerExits \/ Crash
  <2>1. Untrained \in Snapshot
    BY EmptySeq DEF Untrained, Snapshot
  <2>2. calls' \subseteq Call
    BY <1>10 DEF OwnerExits, Crash, Call
  <2> QED
    BY <1>10, <2>1, <2>2, EmptySeq DEF OwnerExits, Crash
<1>11. CASE Restart
  <2>1. <<>> \in Seq(Row) /\ lives + 1 \in 1..MaxLives
    BY <1>11, EmptySeq, LearnerAssumption DEF Restart
  <2> QED
    BY <1>11, <2>1 DEF Restart
<1> QED
  BY <1>1, <1>2, <1>3, <1>4, <1>5, <1>6, <1>7, <1>8, <1>9, <1>10, <1>11
     DEF LearnerNext, Handler, Worker, Owner

-----------------------------------------------------------------------------
(* Update credit. *)

\* Every change of the learner grants and spends alike; a torn row grants nothing.
LEMMA CreditOfSnapshots ==
  ASSUME NEW m \in Snapshot, NEW row \in Row, Credited(m)
  PROVE  /\ Credited(Counted(Stored(m, row))) /\ Credited(Torn(m, row))
         /\ Credited(Updated(m)) /\ Credited(Untrained)
<1>1. UtdRatio * (m.accepted + 1) = UtdRatio * m.accepted + UtdRatio /\ UtdRatio * 0 = 0
  BY LearnerAssumption DEF Snapshot
<1>2. Credited(Counted(Stored(m, row)))
  BY <1>1, LearnerAssumption DEF Snapshot, Credited, Counted, Stored
<1>3. Credited(Torn(m, row)) /\ Credited(Updated(m)) /\ Credited(Untrained)
  BY <1>1 DEF Snapshot, Credited, Torn, Updated, Untrained
<1> QED
  BY <1>2, <1>3

\* The steps that change the learner or its checkpoint, and the rest.
LEMMA NextCredit == TypeOK /\ CreditInv /\ [Next]_vars => CreditInv'
<1> SUFFICES ASSUME TypeOK, CreditInv, [Next]_vars PROVE CreditInv'
  OBVIOUS
<1> USE DEF CreditInv, learnerVars, threadVars, processVars
<1>1. learner \in Snapshot /\ disk \in Snapshot
  BY DEF TypeOK, LearnerTypeOK
<1>2. CASE WorkerIngests \/ WorkerTearsRow
  <2> DEFINE row == Head(pending)
             kept == Counted(Stored(learner, row))
             torn == Torn(learner, row)
  <2>1. row \in Row
    BY <1>2, HeadTailProperties
       DEF WorkerIngests, WorkerTearsRow, Ingesting, TypeOK, LearnerTypeOK
  <2>2. Credited(kept) /\ Credited(torn)
    BY <1>1, <2>1, CreditOfSnapshots
  <2>3. learner' \in {learner, kept, torn} /\ disk' \in {disk, kept}
    BY <1>2 DEF WorkerIngests, WorkerTearsRow
  <2> HIDE DEF kept, torn
  <2> QED
    BY <2>2, <2>3
<1>3. CASE WorkerUpdates
  <2>1. NoRow \in Row
    BY UplinkAssumption DEF NoRow, Row
  <2>2. Credited(Updated(learner))
    BY <1>1, <2>1, CreditOfSnapshots
  <2>3. learner' \in {learner, Updated(learner)} /\ disk' \in {disk, Updated(learner)}
    BY <1>3 DEF WorkerUpdates
  <2> QED
    BY <2>2, <2>3
<1>4. CASE WorkerPreserves \/ OwnerExits \/ Restart
  BY <1>4 DEF WorkerPreserves, OwnerExits, Restart
<1>5. CASE Crash
  <2>1. Credited(Untrained)
    BY LearnerAssumption DEF Credited, Untrained
  <2> QED
    BY <1>5, <2>1 DEF Crash
<1>6. CASE UNCHANGED <<learner, disk>>
  BY <1>6
<1> QED
  BY <1>2, <1>3, <1>4, <1>5, <1>6
     DEF Next, TransportNext, LearnerNext, Handler, Worker, Owner, vars, HandlerPrepares,
         HandlerAccepts, HandlerRefuses, NobodyServes, HandlerLosesClient, WorkerWakes,
         WorkerSeesStop, WorkerPops, WorkerFindsQueueEmpty, WorkerRests, OwnerStops

-----------------------------------------------------------------------------
(* Acknowledgements. *)

\* The rows of a queue that grows,
LEMMA RangeOfAppend ==
  ASSUME NEW S, NEW s \in Seq(S), NEW e \in S PROVE Range(Append(s, e)) = Range(s) \cup {e}
<1>1. Range(Append(s, e)) = {Append(s, e)[i] : i \in 1..(Len(s) + 1)}
  <2>1. Append(s, e) \in Seq(S) /\ Len(Append(s, e)) = Len(s) + 1
    BY AppendProperties
  <2> QED
    BY <2>1, RangeEquality
<1>2. Range(s) = {s[i] : i \in 1..Len(s)}
  BY RangeEquality
<1> QED
  BY <1>1, <1>2, AppendProperties, LenProperties

\* of one that is popped,
LEMMA RangeOfTail ==
  ASSUME NEW S, NEW s \in Seq(S), s # <<>> PROVE Range(s) = {Head(s)} \cup Range(Tail(s))
<1>1. /\ Tail(s) \in Seq(S) /\ Len(Tail(s)) = Len(s) - 1 /\ Len(s) \in Nat \ {0}
      /\ \A i \in 1..Len(Tail(s)) : Tail(s)[i] = s[i + 1]
  BY HeadTailProperties, EmptySeq
<1>2. Range(Tail(s)) = {Tail(s)[i] : i \in 1..(Len(s) - 1)} /\ Range(s) = {s[i] : i \in 1..Len(s)}
  BY <1>1, RangeEquality
<1>3. Head(s) = s[1]
  BY <1>1
<1>4. ASSUME NEW i \in 1..Len(s), i # 1 PROVE s[i] \in Range(Tail(s))
  <2>1. i - 1 \in 1..(Len(s) - 1) /\ Tail(s)[i - 1] = s[i]
    BY <1>1, <1>4
  <2> QED
    BY <1>2, <2>1
<1>5. ASSUME NEW i \in 1..(Len(s) - 1) PROVE Tail(s)[i] \in Range(s)
  <2>1. i + 1 \in 1..Len(s) /\ Tail(s)[i] = s[i + 1]
    BY <1>1
  <2> QED
    BY <1>2, <2>1
<1> QED
  BY <1>1, <1>2, <1>3, <1>4, <1>5

\* and of an empty one.
LEMMA RangeOfEmpty == Range(<<>>) = {}
  BY DEF Range

\* Pushing to or popping from the queue, and applying its head, lose nothing.
LEMMA NextQueue == TypeOK /\ QueueInv /\ [Next]_vars => QueueInv'
<1> SUFFICES ASSUME TypeOK, QueueInv, [Next]_vars PROVE QueueInv'
  OBVIOUS
<1> USE DEF QueueInv, learnerVars, threadVars, processVars
<1>1. pending \in Seq(Row) /\ learner \in Snapshot
  BY DEF TypeOK, LearnerTypeOK
<1>2. ASSUME NEW c \in calls, HandlerAccepts(c) PROVE QueueInv'
  <2>1. c.row \in Row
    BY DEF TypeOK, Call
  <2>2. Range(pending') = Range(pending) \cup {c.row}
    BY <1>1, <1>2, <2>1, RangeOfAppend DEF HandlerAccepts
  <2>3. pending # <<>> => pending' # <<>> /\ Head(pending') = Head(pending)
    BY <1>1, <1>2, <2>1, HeadTailAppend, AppendProperties DEF HandlerAccepts
  <2> QED
    BY <1>2, <2>2, <2>3 DEF HandlerAccepts
<1>3. CASE WorkerIngests \/ WorkerTearsRow
  <2>1. /\ pending # <<>> /\ worker \in {"loop", "drain"}
        /\ UNCHANGED <<pending, acknowledged>>
    BY <1>3 DEF WorkerIngests, WorkerTearsRow, Ingesting
  <2>2. learner.seen \subseteq learner'.seen
    BY <1>1, <1>3 DEF WorkerIngests, WorkerTearsRow, Stored, Counted, Torn, Snapshot
  <2>3. worker' \in {"pop", "drainpop"} => Head(pending) \in learner'.seen
    <3>1. CASE WorkerIngests /\ Duplicate(Head(pending))
      BY <3>1 DEF WorkerIngests, Duplicate
    <3>2. CASE WorkerIngests /\ ~Duplicate(Head(pending))
      <4>1. learner' = Counted(Stored(learner, Head(pending)))
        BY <3>2 DEF WorkerIngests
      <4>2. Head(pending) \in Counted(Stored(learner, Head(pending))).seen
        BY <1>1 DEF Stored, Counted, Snapshot
      <4> QED
        BY <4>1, <4>2
    <3>3. CASE WorkerTearsRow
      BY <2>1, <3>3 DEF WorkerTearsRow, WorkerRaises
    <3> QED
      BY <1>3, <3>1, <3>2, <3>3
  <2> QED
    BY <2>1, <2>2, <2>3
<1>4. CASE WorkerPops
  <2>1. Range(pending) = {Head(pending)} \cup Range(Tail(pending))
    BY <1>1, <1>4, RangeOfTail DEF WorkerPops
  <2> QED
    BY <1>4, <2>1 DEF WorkerPops
<1>5. CASE WorkerUpdates
  <2>1. learner'.seen = learner.seen
    BY <1>1, <1>5 DEF WorkerUpdates, Updated, Snapshot
  <2> QED
    BY <1>5, <2>1 DEF WorkerUpdates, WorkerRaises
<1>6. CASE WorkerWakes \/ WorkerSeesStop \/ WorkerFindsQueueEmpty \/ WorkerRests
  BY <1>6 DEF WorkerWakes, WorkerSeesStop, WorkerFindsQueueEmpty, WorkerRests
<1>7. CASE WorkerPreserves
  BY <1>7 DEF WorkerPreserves, WorkerRaises
<1>8. CASE Crash \/ Restart
  BY <1>8 DEF Crash, Restart
<1>9. CASE UNCHANGED <<learner, pending, acknowledged, worker>>
  BY <1>9
<1> QED
  BY <1>2, <1>3, <1>4, <1>5, <1>6, <1>7, <1>8, <1>9
     DEF Next, TransportNext, LearnerNext, Handler, Worker, Owner, vars, HandlerPrepares,
         HandlerRefuses, NobodyServes, HandlerLosesClient, OwnerStops, OwnerExits

\* An abandoned call is a handler of the same row that nobody listens to.
LEMMA AbandonedCalls ==
  ASSUME NEW cs \in SUBSET Call, NEW d \in Abandoned(cs)
  PROVE  /\ d.pc \in {"receiving", "prepared"} /\ d.live = FALSE
         /\ \E c \in cs : d = [c EXCEPT !.live = FALSE] /\ d.row = c.row /\ d.pc = c.pc
  BY DEF Abandoned, Call

\* What a step of the sender in call c leaves of the calls.
LEMMA SenderCalls ==
  ASSUME calls \subseteq Call, NEW c \in calls, NEW d \in calls',
         SenderAccepted(c) \/ SenderRejected(c) \/ SenderRetries(c) \/ SenderGivesUp(c)
  PROVE  \/ d \in calls \ {c}
         \/ d.live = FALSE /\ d.row = c.row /\ d.pc = c.pc /\ d.pc \in {"receiving", "prepared"}
         \/ SenderRetries(c) /\ d.live /\ d.row = c.row /\ d.pc = "receiving" /\ d.attempt = 2
<1>1. CASE d \in Abandoned({c})
  <2>1. {c} \in SUBSET Call
    OBVIOUS
  <2>2. /\ d.pc \in {"receiving", "prepared"} /\ d.live = FALSE
        /\ \E e \in {c} : d = [e EXCEPT !.live = FALSE] /\ d.row = e.row /\ d.pc = e.pc
    BY <1>1, <2>1, AbandonedCalls
  <2> QED
    BY <2>2
<1>2. CASE d = [c EXCEPT !.attempt = 2, !.pc = "receiving"] /\ SenderRetries(c)
  BY <1>2 DEF SenderRetries, InCall, Call
<1> QED
  BY <1>1, <1>2 DEF SenderAccepted, SenderRejected, SenderRetries, SenderGivesUp

\* A reply is sent with the acknowledgement, and lost with nothing but the client.
LEMMA NextReply == TypeOK /\ ReplyInv /\ [Next]_vars => ReplyInv'
<1> SUFFICES ASSUME TypeOK, ReplyInv, [Next]_vars PROVE ReplyInv'
  OBVIOUS
<1> USE DEF ReplyInv, transportVars, exitVars
<1>1. ASSUME TransportNext, UNCHANGED learnerVars PROVE ReplyInv'
  <2>1. promised' = promised
    BY <1>1 DEF learnerVars
  <2>2. CASE Enqueue \/ EnqueueOnFullQueue \/ NextActor \/ Drain \/ ReceiverFails \/ TakeConfirmed
    BY <2>1, <2>2 DEF Enqueue, EnqueueOnFullQueue, NextActor, Drain, ReceiverFails, TakeConfirmed
  <2>3. CASE Close \/ SenderTakes
    <3>1. \A d \in calls' : d.pc = "replied" => d \in calls
      <4>1. {c \in calls : c.live} \in SUBSET Call
        BY DEF TypeOK
      <4>2. \A d \in Abandoned({c \in calls : c.live}) : d.pc # "replied"
        BY <4>1, AbandonedCalls
      <4>3. CASE Close
        BY <4>2, <4>3 DEF Close
      <4>4. CASE SenderTakes
        BY <4>4 DEF SenderTakes
      <4> QED
        BY <2>3, <4>3, <4>4
    <3> QED
      BY <2>1, <2>3, <3>1 DEF Close, SenderTakes
  <2>4. ASSUME NEW c \in calls,
               SenderAccepted(c) \/ SenderRejected(c) \/ SenderRetries(c) \/ SenderGivesUp(c)
        PROVE  ReplyInv'
    <3>1. \A d \in calls' : d.pc = "replied" => d \in calls
      BY <2>4, SenderCalls DEF TypeOK
    <3>2. confirmed' \cup (done' \ errored') \subseteq promised
      BY <2>4 DEF SenderAccepted, SenderRejected, SenderRetries, SenderGivesUp, RequestEnds, InCall
    <3> QED
      BY <2>1, <3>1, <3>2
  <2> QED
    BY <1>1, <2>2, <2>3, <2>4 DEF TransportNext, ControlLoop, Collects, SenderThread
<1>2. ASSUME LearnerNext, UNCHANGED transportVars PROVE ReplyInv'
  <2>1. promised \subseteq promised'
    BY <1>2 DEF LearnerNext, Handler, Worker, Owner, HandlerPrepares, HandlerAccepts,
                HandlerRefuses, NobodyServes, HandlerLosesClient, WorkerWakes, WorkerSeesStop,
                WorkerIngests, WorkerTearsRow, WorkerPops, WorkerFindsQueueEmpty, WorkerUpdates,
                WorkerRests, WorkerPreserves, OwnerStops, OwnerExits, Crash, Restart, learnerVars,
                threadVars, processVars
  <2>2. \A d \in calls' : d.pc = "replied" => d.row \in promised'
    <3>1. ASSUME NEW c \in calls, HandlerAccepts(c)
          PROVE  \A d \in calls' : d.pc = "replied" => d.row \in promised'
      BY <3>1 DEF HandlerAccepts, Answer, TypeOK, Call
    <3>2. ASSUME NEW c \in calls,
                 HandlerPrepares(c) \/ HandlerRefuses(c) \/ NobodyServes(c) \/ HandlerLosesClient(c)
          PROVE  \A d \in calls' : d.pc = "replied" => d \in calls
      BY <3>2 DEF HandlerPrepares, HandlerRefuses, NobodyServes, HandlerLosesClient, Answer,
                  TypeOK, Call
    <3>3. CASE OwnerExits \/ Crash
      <4>1. \A d \in calls' : d.pc = "replied" => d \in calls
        BY <3>3 DEF OwnerExits, Crash, TypeOK, Call
      <4> QED
        BY <2>1, <4>1
    <3>4. CASE UNCHANGED calls
      BY <2>1, <3>4
    <3> QED
      BY <1>2, <2>1, <3>1, <3>2, <3>3, <3>4
         DEF LearnerNext, Handler, Worker, Owner, WorkerWakes, WorkerSeesStop, WorkerIngests,
             WorkerTearsRow, WorkerPops, WorkerFindsQueueEmpty, WorkerUpdates, WorkerRests,
             WorkerPreserves, OwnerStops, Restart
  <2> QED
    BY <1>2, <2>1, <2>2
<1>3. CASE UNCHANGED vars
  BY <1>3 DEF vars, learnerVars
<1> QED
  BY <1>1, <1>2, <1>3 DEF Next

-----------------------------------------------------------------------------
(* The Actor's exit. *)

\* Produced rows are outstanding or confirmed, and the exit takes its places in order.
LEMMA NextAccount == TypeOK /\ AccountInv /\ LeavingInv /\ [Next]_vars => AccountInv' /\ LeavingInv'
<1> SUFFICES ASSUME TypeOK, AccountInv, LeavingInv, [Next]_vars PROVE AccountInv' /\ LeavingInv'
  OBVIOUS
<1> USE DEF AccountInv, LeavingInv, transportVars, exitVars
<1>1. CASE Enqueue
  <2>1. \A step \in 1..produced' : step \in 1..produced \/ step = produced + 1
    BY <1>1 DEF Enqueue, TypeOK, TransportTypeOK
  <2> QED
    BY <1>1, <2>1 DEF Enqueue
<1>2. CASE EnqueueOnFullQueue \/ ReceiverFails
  BY <1>2 DEF EnqueueOnFullQueue, ReceiverFails
<1>3. CASE TakeConfirmed
  BY <1>3 DEF TakeConfirmed
<1>4. CASE Drain
  BY <1>4 DEF Drain
<1>5. CASE Close
  BY <1>5 DEF Close
<1>6. CASE NextActor
  BY <1>6 DEF NextActor
<1>7. CASE SenderTakes
  BY <1>7 DEF SenderTakes
<1>8. ASSUME NEW c \in calls,
             SenderAccepted(c) \/ SenderRejected(c) \/ SenderRetries(c) \/ SenderGivesUp(c)
      PROVE  AccountInv' /\ LeavingInv'
  <2>1. exit # "closed"
    <3>1. InCall(c)
      BY <1>8 DEF SenderAccepted, SenderRejected, SenderRetries, SenderGivesUp
    <3> QED
      BY <3>1 DEF InCall, IdleSender
  <2> QED
    BY <1>8, <2>1 DEF SenderAccepted, SenderRejected, SenderRetries, SenderGivesUp, RequestEnds
<1>9. CASE UNCHANGED transportVars
  BY <1>9
<1> QED
  BY <1>1, <1>2, <1>3, <1>4, <1>5, <1>6, <1>7, <1>8, <1>9
     DEF Next, TransportNext, ControlLoop, Collects, SenderThread, vars

-----------------------------------------------------------------------------
(* The Learner's exit. *)

\* A row that is stored and counted leaves a loadable learner loadable.
LEMMA IngestedLoads ==
  ASSUME NEW m \in Snapshot, NEW row \in Row, IsFiniteSet(m.seen), row \notin m.seen
  PROVE  LET kept == Counted(Stored(m, row)) IN
         IsFiniteSet(kept.seen) /\ (Loads(m) => Loads(kept))
<1> DEFINE kept == Counted(Stored(m, row))
<1>1. /\ kept.seen = m.seen \cup {row} /\ kept.replay = Append(m.replay, row)
      /\ kept.records = Append(m.records, row) /\ kept.accepted = m.accepted + 1
  BY DEF Counted, Stored, Snapshot
<1>2. m.records \in Seq(Row) /\ m.accepted \in Nat
  BY DEF Snapshot
<1>3. Range(kept.records) = Range(m.records) \cup {row} /\ Len(kept.records) = Len(m.records) + 1
  BY <1>1, <1>2, RangeOfAppend, AppendProperties
<1>4. IsFiniteSet(kept.seen) /\ Cardinality(kept.seen) = Cardinality(m.seen) + 1
  BY <1>1, FS_AddElement
<1> HIDE DEF kept
<1>5. Loads(m) => Loads(kept)
  BY <1>1, <1>3, <1>4 DEF Loads
<1> QED
  BY <1>4, <1>5 DEF kept

\* The learner of a first start would pass its own restore.
LEMMA UntrainedLoads == Loads(Untrained) /\ IsFiniteSet(Untrained.seen)
<1>1. Range(<<>>) = {} /\ Cardinality({}) = 0 /\ IsFiniteSet({}) /\ Len(<<>>) = 0
  BY RangeOfEmpty, FS_EmptySet
<1> QED
  BY <1>1 DEF Loads, Untrained

\* The worker's way out, place by place.
LEMMA NextDrain == TypeOK /\ DrainInv /\ [Next]_vars => DrainInv'
<1> SUFFICES ASSUME TypeOK, DrainInv, [Next]_vars PROVE DrainInv'
  OBVIOUS
<1> USE DEF DrainInv, learnerVars, threadVars, processVars
<1>1. worker \in {"none", "wait", "loop", "pop", "train", "drain", "drainpop", "done"}
  BY DEF TypeOK, LearnerTypeOK
<1>2. ASSUME NEW c \in calls, HandlerAccepts(c) PROVE DrainInv'
  BY <1>1, <1>2 DEF HandlerAccepts
<1>3. ASSUME NEW c \in calls, HandlerRefuses(c) PROVE DrainInv'
  BY <1>3 DEF HandlerRefuses
<1>4. CASE WorkerWakes \/ WorkerSeesStop \/ WorkerFindsQueueEmpty \/ WorkerRests \/ WorkerPops
  BY <1>4 DEF WorkerWakes, WorkerSeesStop, WorkerFindsQueueEmpty, WorkerRests, WorkerPops
<1>5. CASE WorkerIngests
  BY <1>5 DEF WorkerIngests, Ingesting, ToPop, WorkerRaises
<1>6. CASE WorkerTearsRow
  BY <1>6 DEF WorkerTearsRow, Ingesting, WorkerRaises
<1>7. CASE WorkerUpdates
  <2>1. /\ worker = "train" /\ failure = "none" /\ ~preservation_failure
        /\ \/ worker' = "loop" /\ UNCHANGED <<failure, learner_stopped, preservation_failure>>
           \/ \E kind \in {"save", "update"} : WorkerRaises(kind)
    BY <1>7 DEF WorkerUpdates
  <2>2. CASE \E kind \in {"save", "update"} : WorkerRaises(kind)
    <3>1. worker' = "drain" /\ learner_stopped' = TRUE /\ ~preservation_failure'
      BY <2>1, <2>2 DEF WorkerRaises
    <3> QED
      BY <3>1
  <2> QED
    BY <2>1, <2>2
<1>8. CASE WorkerPreserves
  <2>1. worker = "drain" /\ learner_stopped /\ ~preservation_failure /\ pending = <<>>
    BY <1>8 DEF WorkerPreserves
  <2>2. CASE disk' = learner /\ worker' = "done" /\ UNCHANGED <<preservation_failure, learner_stopped>>
    BY <1>8, <2>1, <2>2 DEF WorkerPreserves
  <2>3. CASE WorkerRaises("save")
    BY <2>1, <2>3 DEF WorkerRaises
  <2> QED
    BY <1>8, <2>2, <2>3 DEF WorkerPreserves
<1>9. CASE OwnerStops
  BY <1>9 DEF OwnerStops
<1>10. CASE OwnerExits
  BY <1>10 DEF OwnerExits
<1>11. CASE Crash \/ Restart
  BY <1>11 DEF Crash, Restart
<1>12. CASE UNCHANGED learnerVars
  BY <1>12
<1> QED
  BY <1>2, <1>3, <1>4, <1>5, <1>6, <1>7, <1>8, <1>9, <1>10, <1>11, <1>12
     DEF Next, LearnerNext, Handler, Worker, Owner, vars, HandlerPrepares, NobodyServes,
         HandlerLosesClient

\* Only the two raising steps break the cross-checks of a restore.
LEMMA NextLoads == TypeOK /\ DrainInv /\ LoadsInv /\ [Next]_vars => LoadsInv'
<1> SUFFICES ASSUME TypeOK, DrainInv, LoadsInv, [Next]_vars PROVE LoadsInv'
  OBVIOUS
<1> USE DEF LoadsInv, learnerVars, threadVars, processVars
<1>1. learner \in Snapshot /\ disk \in Snapshot /\ pending \in Seq(Row)
  BY DEF TypeOK, LearnerTypeOK
<1>2. CASE WorkerIngests
  <2> DEFINE row == Head(pending)
             kept == Counted(Stored(learner, row))
  <2>1. row \in Row
    BY <1>1, <1>2, HeadTailProperties DEF WorkerIngests, Ingesting
  <2>2. CASE row \in learner.seen
    BY <1>2, <2>2 DEF WorkerIngests, Duplicate
  <2>3. CASE row \notin learner.seen
    <3>1. IsFiniteSet(kept.seen) /\ (Loads(learner) => Loads(kept))
      BY <1>1, <2>1, <2>3, IngestedLoads
    <3>2. learner' = kept /\ disk' \in {disk, kept}
      BY <1>2, <2>3 DEF WorkerIngests, Duplicate
    <3>3. failure' # "journal" /\ ~preservation_failure' =>
              failure # "journal" /\ ~preservation_failure
      BY <1>2, <2>3 DEF WorkerIngests, Ingesting, Duplicate, WorkerRaises, ToPop, DrainInv
    <3> HIDE DEF kept
    <3> QED
      BY <3>1, <3>2, <3>3
  <2> QED
    BY <2>2, <2>3
<1>3. CASE WorkerTearsRow
  <2>1. learner'.seen = learner.seen \cup {Head(pending)}
    BY <1>1, <1>3 DEF WorkerTearsRow, Torn, Snapshot
  <2>2. IsFiniteSet(learner'.seen)
    BY <2>1, FS_AddElement
  <2> QED
    BY <1>3, <2>2 DEF WorkerTearsRow, WorkerRaises
<1>4. CASE WorkerUpdates
  <2>1. /\ Updated(learner).seen = learner.seen
        /\ Loads(Updated(learner)) <=> Loads(learner)
    BY <1>1 DEF Updated, Loads, Snapshot
  <2>2. failure = "none" /\ ~preservation_failure
    BY <1>4 DEF WorkerUpdates, DrainInv
  <2>3. learner' \in {learner, Updated(learner)} /\ disk' \in {disk, Updated(learner)}
    BY <1>4 DEF WorkerUpdates
  <2> QED
    BY <2>1, <2>2, <2>3
<1>5. CASE WorkerPreserves
  BY <1>5 DEF WorkerPreserves, WorkerRaises, DrainInv
<1>6. CASE OwnerExits
  BY <1>6 DEF OwnerExits
<1>7. CASE Crash
  BY <1>7, UntrainedLoads DEF Crash
<1>8. CASE Restart
  BY <1>8 DEF Restart
<1>9. CASE UNCHANGED <<learner, disk, failure, preservation_failure>>
  BY <1>9
<1> QED
  BY <1>2, <1>3, <1>4, <1>5, <1>6, <1>7, <1>8, <1>9
     DEF Next, TransportNext, LearnerNext, Handler, Worker, Owner, vars, HandlerPrepares,
         HandlerAccepts, HandlerRefuses, NobodyServes, HandlerLosesClient, WorkerWakes,
         WorkerSeesStop, WorkerPops, WorkerFindsQueueEmpty, WorkerRests, OwnerStops

-----------------------------------------------------------------------------
(* The theorems. *)

IInv == /\ TypeOK /\ CreditInv /\ QueueInv /\ ReplyInv /\ AccountInv /\ LeavingInv
        /\ DrainInv /\ LoadsInv

\* The invariant holds of the start
LEMMA InitIInv == Init => IInv
<1> SUFFICES ASSUME Init PROVE IInv
  OBVIOUS
<1>1. TypeOK
  BY InitTypeOK
<1>2. Credited(Untrained)
  BY LearnerAssumption DEF Credited, Untrained
<1>3. Loads(Untrained) /\ IsFiniteSet(Untrained.seen)
  BY UntrainedLoads
<1>4. CreditInv /\ QueueInv /\ DrainInv /\ LoadsInv
  BY <1>2, <1>3 DEF Init, LearnerInit, CreditInv, QueueInv, DrainInv, LoadsInv
<1>5. ReplyInv /\ AccountInv /\ LeavingInv
  BY DEF Init, TransportInit, ReplyInv, AccountInv, LeavingInv
<1> QED
  BY <1>1, <1>4, <1>5 DEF IInv

\* and is kept by every step.
LEMMA NextIInv == IInv /\ [Next]_vars => IInv'
<1> SUFFICES ASSUME IInv, [Next]_vars PROVE IInv'
  OBVIOUS
<1>1. TypeOK'
  <2>1. CASE UNCHANGED vars
    BY <2>1 DEF vars, IInv, TypeOK, TransportTypeOK, LearnerTypeOK, transportVars, exitVars,
                learnerVars
  <2> QED
    BY <2>1, TransportTypes, LearnerTypes DEF Next, IInv
<1> QED
  BY <1>1, NextCredit, NextQueue, NextReply, NextAccount, NextDrain, NextLoads DEF IInv

\* The inductive invariant of the two ends, crashes and restarts included.
THEOREM UplinkInvariant == Spec => []IInv
<1> QED
  BY InitIInv, NextIInv, PTL DEF Spec

\* The calls, the transport's requests and the Learner's snapshots, queue and
\* threads stay in their types, for every number of Actors, rows and Learners.
THEOREM UplinkTypes == Spec => []TypeOK
<1>1. IInv => TypeOK
  BY DEF IInv
<1> QED
  BY <1>1, UplinkInvariant, PTL

\* Whatever is retried, torn, saved, lost or restored, each stored row has granted its
\* credit once and each update has spent one (real_learner.py:431-436, 606-610).
THEOREM CreditIsExact == Spec => []UpdateCreditIsExact
<1>1. IInv => UpdateCreditIsExact
  BY DEF IInv, CreditInv, Credited, UpdateCreditIsExact
<1> QED
  BY <1>1, UplinkInvariant, PTL

\* The Actor counts no row that a Learner did not acknowledge, and the running
\* Learner holds whatever it acknowledged (real_actor.py:362-371).
THEOREM ConfirmationsAreHonest == Spec => []ConfirmedIsAcknowledged
<1>1. IInv => ConfirmedIsAcknowledged
  BY DEF IInv, ReplyInv, QueueInv, ConfirmedIsAcknowledged
<1> QED
  BY <1>1, UplinkInvariant, PTL

\* A Learner that exits without a preservation failure leaves a checkpoint with all
\* that it acknowledged (_optimize's finally, real_learner.py:943-966).
THEOREM ExitKeepsAcknowledged == Spec => []ExitPreserves
<1>1. IInv => ExitPreserves
  <2> SUFFICES ASSUME IInv, worker = "done", ~preservation_failure
               PROVE  acknowledged \subseteq disk.seen /\ (failure # "journal" => Loads(disk))
    BY DEF ExitPreserves
  <2>1. disk = learner /\ pending = <<>>
    BY DEF IInv, DrainInv
  <2>2. acknowledged \subseteq learner.seen
    BY <2>1, RangeOfEmpty DEF IInv, QueueInv
  <2> QED
    BY <2>1, <2>2 DEF IInv, LoadsInv
<1> QED
  BY <1>1, UplinkInvariant, PTL

\* An Actor that leaves after drain() answered True, on a transport that did not fail,
\* has delivered and counted every row it produced (real_actor.py:1014-1025).
THEOREM CleanExitsDeliver == Spec => CleanExitDelivers
<1>1. IInv /\ [Next]_vars =>
        [exit' = "closed" /\ drained /\ ~stopped =>
            \A step \in 1..produced :
               [session |-> session, step |-> step] \in confirmed' \cap promised]_vars
  <2> SUFFICES ASSUME IInv, [Next]_vars, exit' = "closed", drained, ~stopped,
                      NEW step \in 1..produced
               PROVE  [session |-> session, step |-> step] \in confirmed' \cap promised
    OBVIOUS
  <2>1. exit = "drained" /\ outstanding \subseteq done /\ errored = {}
    BY DEF IInv, LeavingInv, AccountInv
  <2>2. Close
    BY <2>1 DEF Next, TransportNext, ControlLoop, Collects, SenderThread, ReceiverFails, Enqueue,
                EnqueueOnFullQueue, TakeConfirmed, Drain, NextActor, SenderTakes, SenderAccepted,
                SenderRejected, SenderRetries, SenderGivesUp, vars, transportVars, exitVars
  <2>3. [session |-> session, step |-> step] \in confirmed \cup done
    BY <2>1 DEF IInv, AccountInv
  <2> QED
    BY <2>1, <2>2, <2>3 DEF Close, IInv, ReplyInv
<1> QED
  BY <1>1, UplinkInvariant, PTL DEF Spec, CleanExitDelivers

-----------------------------------------------------------------------------
(* What the two violated runs leave: how far the damage goes. *)

\* Every checkpoint a Learner writes would pass the next one's restore, unless a
\* journal write has failed in its life (save_checkpoint, real_learner.py:672-697).
OnlyTornRowsSpoil == [][disk' = disk \/ Loads(disk') \/ failure' = "journal"]_vars

\* No archived success passes the restore: its journal is one row ahead of its counter
\* (_ingest_prepared, real_learner.py:410-431).
NoArchiveLoads == \A c \in archive : ~Loads(c)

\* Torn rows and failed saves leave the counter with the journal.
CountedInv ==
    /\ learner.accepted = Len(learner.records)
    /\ \A c \in archive : c.accepted # Len(c.records)

\* A row is counted with its journal entry, but after it has been archived.
LEMMA NextCounted == TypeOK /\ CountedInv /\ [Next]_vars => CountedInv'
<1> SUFFICES ASSUME TypeOK, CountedInv, [Next]_vars PROVE CountedInv'
  OBVIOUS
<1> USE DEF CountedInv, learnerVars, threadVars, processVars
<1>1. learner \in Snapshot /\ disk \in Snapshot /\ pending \in Seq(Row)
  BY DEF TypeOK, LearnerTypeOK
<1>2. CASE WorkerIngests \/ WorkerTearsRow
  <2> DEFINE row    == Head(pending)
             stored == Stored(learner, row)
  <2>1. row \in Row
    BY <1>1, <1>2, HeadTailProperties DEF WorkerIngests, WorkerTearsRow, Ingesting
  <2>2. /\ stored.records = Append(learner.records, row) /\ stored.accepted = learner.accepted
        /\ Counted(stored).records = stored.records
        /\ Counted(stored).accepted = learner.accepted + 1
        /\ Torn(learner, row).records = learner.records
        /\ Torn(learner, row).accepted = learner.accepted
    BY <1>1 DEF Stored, Counted, Torn, Snapshot
  <2>3. Len(stored.records) = learner.accepted + 1 /\ learner.accepted \in Nat
    BY <1>1, <2>1, <2>2 DEF Snapshot
  <2>4. /\ learner' \in {learner, Counted(stored), Torn(learner, row)}
        /\ archive' \in {archive, {stored}}
    BY <1>2 DEF WorkerIngests, WorkerTearsRow
  <2> HIDE DEF stored
  <2> QED
    BY <2>2, <2>3, <2>4
<1>3. CASE WorkerUpdates
  <2>1. Updated(learner).records = learner.records /\ Updated(learner).accepted = learner.accepted
    BY <1>1 DEF Updated, Snapshot
  <2> QED
    BY <1>3, <2>1 DEF WorkerUpdates
<1>4. CASE Crash \/ Restart
  BY <1>4 DEF Crash, Restart, Untrained, Loads
<1>5. CASE UNCHANGED <<learner, archive>>
  BY <1>5
<1> QED
  BY <1>2, <1>3, <1>4, <1>5
     DEF Next, TransportNext, LearnerNext, Handler, Worker, Owner, vars, HandlerPrepares,
         HandlerAccepts, HandlerRefuses, NobodyServes, HandlerLosesClient, WorkerWakes,
         WorkerSeesStop, WorkerPops, WorkerFindsQueueEmpty, WorkerRests, WorkerPreserves,
         OwnerStops, OwnerExits

\* The finding of the run archive_does_not_load is no corner case: whatever happens before,
\* the archived success is one that load_checkpoint refuses.
THEOREM ArchiveNeverLoads == Spec => []NoArchiveLoads
<1>1. Init => CountedInv
  BY DEF Init, LearnerInit, Untrained, CountedInv
<1>2. CountedInv => NoArchiveLoads
  BY DEF CountedInv, NoArchiveLoads, Loads
<1>3. IInv => TypeOK
  BY DEF IInv
<1> QED
  BY <1>1, <1>2, <1>3, NextCounted, UplinkInvariant, PTL DEF Spec

\* The finding of the run torn_row_is_preserved is the only one of its kind: of the failures
\* modelled, nothing but a failed journal write lets a Learner write a checkpoint that
\* cannot be loaded.
THEOREM OtherCheckpointsLoad == Spec => OnlyTornRowsSpoil
<1>1. IInv /\ [Next]_vars => [disk' = disk \/ Loads(disk') \/ failure' = "journal"]_vars
  <2> SUFFICES ASSUME IInv, [Next]_vars, disk' # disk, failure' # "journal" PROVE Loads(disk')
    OBVIOUS
  <2> USE DEF learnerVars, threadVars, processVars
  <2>1. learner \in Snapshot /\ pending \in Seq(Row) /\ DrainInv /\ LoadsInv /\ LoadsInv'
    BY NextIInv DEF IInv, TypeOK, LearnerTypeOK
  <2>2. CASE WorkerIngests \/ WorkerUpdates
    <3>1. disk' = learner' /\ UNCHANGED <<failure, preservation_failure>>
      BY <2>2 DEF WorkerIngests, WorkerUpdates, Duplicate
    <3>2. ~preservation_failure
      BY <2>1, <2>2 DEF WorkerIngests, WorkerUpdates, Ingesting, DrainInv
    <3> QED
      BY <2>1, <3>1, <3>2 DEF LoadsInv, Loads
  <2>3. CASE WorkerPreserves
    <3>1. disk' = learner /\ failure' = failure /\ worker = "drain"
      BY <2>3 DEF WorkerPreserves
    <3> QED
      BY <2>1, <3>1 DEF LoadsInv, DrainInv, Loads
  <2>4. CASE OwnerExits
    BY <2>1, <2>4 DEF OwnerExits, LoadsInv, Loads
  <2> QED
    BY <2>2, <2>3, <2>4
       DEF Next, TransportNext, LearnerNext, Handler, Worker, Owner, vars, HandlerPrepares,
           HandlerAccepts, HandlerRefuses, NobodyServes, HandlerLosesClient, WorkerWakes,
           WorkerSeesStop, WorkerTearsRow, WorkerPops, WorkerFindsQueueEmpty, WorkerRests,
           OwnerStops, Crash, Restart
<1> QED
  BY <1>1, UplinkInvariant, PTL DEF Spec, OnlyTornRowsSpoil

===============================================================================
