------------------------ MODULE TransitionOrderProofs ------------------------
(***************************************************************************)
(* Proofs about TransitionUplink, continued: rows are acknowledged without  *)
(* a gap, applied at most once and in order, and the two processes          *)
(* implement TransitionLog.                                                 *)
(***************************************************************************)
EXTENDS TransitionUplinkProofs

\* The handlers that may still acknowledge a row.
Handlers == {c \in calls : c.pc \in {"receiving", "prepared"}}

\* Rows that a Learner would take for duplicates once its queue is applied: the
\* running one, or the next one.
Held == IF Alive THEN learner.seen \cup Range(pending) ELSE disk.seen

\* Rows the sender has taken from its queue.
Sent == produced - Len(outgoing)

\* Later than all rows of its session.
Newer(row, rows) == \A r \in rows : r.session = row.session => r.step < row.step

\* At most one call has a client, and it is the sender's.
ClientInv ==
    \A c \in calls :
        /\ c.pc \in {"replied", "error"} => c.live
        /\ c.live => InCall(c)
        /\ \A d \in calls : c.live /\ d.live => c = d

\* While the transport works its queue continues what was sent, and all that was
\* sent is acknowledged, but for the row in the call.
OutgoingInv ==
    ~stopped =>
        /\ Len(outgoing) <= produced
        /\ \A i \in DOMAIN outgoing : outgoing[i] = [session |-> session, step |-> Sent + i]
        /\ sender.pc = "sending" => sender.row = [session |-> session, step |-> Sent]
        /\ \A step \in 1..Sent :
              \/ [session |-> session, step |-> step] \in promised
              \/ sender.pc = "sending" /\ step = Sent

\* Only rows whose predecessors are acknowledged are on their way.
PrefixInv ==
    /\ NoGapIsAcknowledged
    /\ \A c \in calls : \A step \in 1..(c.row.step - 1) :
          [c.row EXCEPT !.step = step] \in promised

\* No row is known to the Learner's side that is later than the sender's.
Known == promised \cup {c.row : c \in calls}
KnownInv ==
    \A r \in Known :
        /\ r.session <= session
        /\ r.session = session =>
              /\ ~stopped => r.step <= Sent
              /\ sender.pc = "sending" => r.step <= sender.row.step
KnowledgeInv ==
    /\ KnownInv
    /\ sender.pc = "sending" => sender.row.session = session
    /\ learner.seen \cup Range(pending) \cup disk.seen \subseteq promised

\* A handler holds a duplicate or the newest row of its session; when several
\* hold rows of one session, all but the newest are duplicates; and so is any
\* but the sender's own once the sender has gone on.
HandlerInv ==
    /\ \A c \in Handlers : c.row \in Held \/ Newer(c.row, Held)
    /\ \A c, d \in Handlers :
          c.row.session = d.row.session /\ c.row.step < d.row.step => c.row \in Held
    /\ \A c \in Handlers :
          c.row.session = session /\ (sender.pc = "sending" \/ ~stopped) =>
              c.row \in Held \/ (sender.pc = "sending" /\ c.row = sender.row)
    /\ \A c \in Handlers, d \in calls :
          d.pc = "replied" /\ c.row = d.row => c.row \in Held

\* Each queued row is a duplicate or newer than all that was applied, and a row
\* behind a later one of its session has come before.
PendingInv ==
    /\ \A i \in DOMAIN pending : pending[i] \in learner.seen \/ Newer(pending[i], learner.seen)
    /\ \A i, j \in DOMAIN pending :
          j < i /\ pending[i].session = pending[j].session /\ pending[i].step < pending[j].step =>
              pending[i] \in learner.seen \/ \E k \in DOMAIN pending : k < j /\ pending[k] = pending[i]

Ordered(s) == \A i, j \in DOMAIN s : i < j /\ s[i].session = s[j].session => s[i].step < s[j].step
RecordsInv ==
    /\ Ordered(learner.records) /\ Range(learner.records) \subseteq learner.seen
    /\ Ordered(disk.records) /\ Range(disk.records) \subseteq disk.seen

-----------------------------------------------------------------------------
(* What each step does to the calls and to what is acknowledged. *)

\* A handler leaves at most its call behind, answered only if a client is there.
LEMMA HandlerCalls ==
  ASSUME calls \subseteq Call, NEW c \in calls,
         \/ HandlerPrepares(c) \/ HandlerAccepts(c) \/ HandlerRefuses(c)
         \/ NobodyServes(c) \/ HandlerLosesClient(c)
  PROVE  /\ c \in Handlers
         /\ \E pc \in {"prepared", "replied", "error"} :
              /\ calls' \subseteq (calls \ {c}) \cup {[c EXCEPT !.pc = pc]}
              /\ pc \in {"replied", "error"} => c.live \/ calls' \subseteq calls \ {c}
              /\ pc = "replied" => HandlerAccepts(c)
<1> DEFINE Leaves(pc) ==
              /\ calls' \subseteq (calls \ {c}) \cup {[c EXCEPT !.pc = pc]}
              /\ pc \in {"replied", "error"} => c.live \/ calls' \subseteq calls \ {c}
              /\ pc = "replied" => HandlerAccepts(c)
<1>1. c \in Handlers
  BY DEF Handlers, HandlerPrepares, HandlerAccepts, HandlerRefuses, NobodyServes,
         HandlerLosesClient
<1>2. HandlerPrepares(c) => Leaves("prepared")
  BY DEF HandlerPrepares
<1>3. HandlerAccepts(c) => Leaves("replied")
  BY DEF HandlerAccepts, Answer
<1>4. HandlerRefuses(c) \/ NobodyServes(c) \/ HandlerLosesClient(c) => Leaves("error")
  BY DEF HandlerRefuses, NobodyServes, HandlerLosesClient, Answer
<1> QED
  BY <1>1, <1>2, <1>3, <1>4

\* No handler outlives its Learner.
LEMMA ExitCalls ==
  ASSUME calls \subseteq Call, OwnerExits \/ Crash, NEW d \in calls'
  PROVE  /\ d.live /\ d.pc \in {"replied", "error"}
         /\ \E c \in calls : c.live /\ d.row = c.row /\ d.attempt = c.attempt
                            /\ d.pc = IF c.pc = "replied" THEN "replied" ELSE "error"
  BY DEF OwnerExits, Crash, Call

\* Every other step of the Learner leaves the calls alone.
LEMMA LearnerCalls ==
  ASSUME LearnerNext
  PROVE  \/ \E c \in calls : \/ HandlerPrepares(c) \/ HandlerAccepts(c) \/ HandlerRefuses(c)
                              \/ NobodyServes(c) \/ HandlerLosesClient(c)
         \/ OwnerExits \/ Crash
         \/ UNCHANGED calls /\ (Worker \/ OwnerStops \/ Restart)
  BY DEF LearnerNext, Handler, Worker, Owner, WorkerWakes, WorkerSeesStop, WorkerIngests,
         WorkerTearsRow, WorkerPops, WorkerFindsQueueEmpty, WorkerUpdates, WorkerRests,
         WorkerPreserves, OwnerStops, Restart

\* The promises of a Learner: one row of a handler's, or none.
LEMMA Promises ==
  ASSUME [Next]_vars
  PROVE  \/ promised' = promised
         \/ \E c \in calls : HandlerAccepts(c) /\ promised' = promised \cup {c.row}
  BY DEF Next, LearnerNext, Handler, Worker, Owner, HandlerPrepares, HandlerAccepts,
         HandlerRefuses, NobodyServes, HandlerLosesClient, WorkerWakes, WorkerSeesStop,
         WorkerIngests, WorkerTearsRow, WorkerPops, WorkerFindsQueueEmpty, WorkerUpdates,
         WorkerRests, WorkerPreserves, OwnerStops, OwnerExits, Crash, Restart, vars, learnerVars,
         threadVars, processVars

\* The Learner brings no row, and no handler for an old one.
LEMMA LearnerBringsNoRow ==
  ASSUME calls \subseteq Call, LearnerNext, NEW d \in calls'
  PROVE  /\ \E c \in calls : c.row = d.row
         /\ d \in Handlers' => \E c \in Handlers : c.row = d.row
<1>1. ASSUME NEW c \in calls,
             \/ HandlerPrepares(c) \/ HandlerAccepts(c) \/ HandlerRefuses(c)
             \/ NobodyServes(c) \/ HandlerLosesClient(c)
      PROVE  /\ \E e \in calls : e.row = d.row
             /\ d \in Handlers' => \E e \in Handlers : e.row = d.row
  <2>1. c \in Handlers /\ (d \in calls \/ d.row = c.row)
    BY <1>1, HandlerCalls DEF Call
  <2> QED
    BY <2>1 DEF Handlers
<1>2. CASE OwnerExits \/ Crash
  BY <1>2, ExitCalls DEF Handlers
<1>3. CASE UNCHANGED calls
  BY <1>3 DEF Handlers
<1> QED
  BY <1>1, <1>2, <1>3, LearnerCalls

\* Only the sender brings a new row, and only the sender, in a retry, a handler for
\* an old one.
LEMMA RowsOfCalls ==
  ASSUME calls \subseteq Call, [Next]_vars, NEW d \in calls'
  PROVE  /\ (\E c \in calls : c.row = d.row) \/ (SenderTakes /\ d.row = Head(outgoing))
         /\ d \in Handlers' =>
              \/ \E c \in Handlers : c.row = d.row
              \/ SenderTakes /\ d.row = Head(outgoing)
              \/ \E c \in calls : SenderRetries(c) /\ d.row = sender.row
<1>1. ASSUME TransportNext
      PROVE  /\ (\E c \in calls : c.row = d.row) \/ (SenderTakes /\ d.row = Head(outgoing))
             /\ d \in Handlers' =>
                  \/ \E c \in Handlers : c.row = d.row
                  \/ SenderTakes /\ d.row = Head(outgoing)
                  \/ \E c \in calls : SenderRetries(c) /\ d.row = sender.row
  <2>1. CASE SenderTakes
    BY <2>1 DEF SenderTakes, Handlers
  <2>2. CASE Close
    <3>1. CASE d \in calls
      BY <3>1 DEF Handlers
    <3>2. CASE d \in Abandoned({c \in calls : c.live})
      <4>1. {c \in calls : c.live} \in SUBSET Call
        OBVIOUS
      <4>2. \E c \in {e \in calls : e.live} : d.row = c.row /\ d.pc = c.pc
        BY <3>2, <4>1, AbandonedCalls
      <4> QED
        BY <4>2 DEF Handlers
    <3> QED
      BY <2>2, <3>1, <3>2 DEF Close
  <2>3. ASSUME NEW c \in calls,
               SenderAccepted(c) \/ SenderRejected(c) \/ SenderRetries(c) \/ SenderGivesUp(c)
        PROVE  /\ \E e \in calls : e.row = d.row
               /\ d \in Handlers' => \/ \E e \in Handlers : e.row = d.row
                                     \/ \E e \in calls : SenderRetries(e) /\ d.row = sender.row
    <3>1. \/ d \in calls
          \/ d.row = c.row /\ d.pc = c.pc
          \/ SenderRetries(c) /\ d.row = c.row
      BY <2>3, SenderCalls
    <3>2. SenderRetries(c) => c.row = sender.row
      BY DEF SenderRetries, InCall
    <3> QED
      BY <3>1, <3>2 DEF Handlers
  <2>4. CASE UNCHANGED calls
    BY <2>4 DEF Handlers
  <2> QED
    BY <1>1, <2>1, <2>2, <2>3, <2>4
       DEF TransportNext, ControlLoop, Collects, SenderThread, Enqueue, EnqueueOnFullQueue,
           TakeConfirmed, Drain, NextActor, ReceiverFails
<1>2. CASE LearnerNext
  <2>1. /\ \E c \in calls : c.row = d.row
        /\ d \in Handlers' => \E c \in Handlers : c.row = d.row
    BY <1>2, LearnerBringsNoRow
  <2> QED
    BY <2>1
<1>3. CASE UNCHANGED vars
  BY <1>3 DEF vars, Handlers
<1> QED
  BY <1>1, <1>2, <1>3 DEF Next

-----------------------------------------------------------------------------
(* One client, one call. *)

\* A call loses its client before the sender opens another.
LEMMA NextClient == TypeOK /\ ClientInv /\ [Next]_vars => ClientInv'
<1> SUFFICES ASSUME TypeOK, ClientInv, [Next]_vars PROVE ClientInv'
  OBVIOUS
<1> USE DEF ClientInv
<1>1. calls \subseteq Call
  BY DEF TypeOK
<1>2. ASSUME TransportNext PROVE ClientInv'
  <2>1. CASE SenderTakes
    <3>1. \A c \in calls : ~c.live
      BY <1>1, <2>1 DEF SenderTakes, InCall, Call
    <3>2. \A d \in calls' :
             \/ d \in calls
             \/ d = [row |-> Head(outgoing), attempt |-> 1, live |-> TRUE, pc |-> "receiving"]
      BY <2>1 DEF SenderTakes
    <3>3. sender' = [pc |-> "sending", row |-> Head(outgoing), attempt |-> 1]
      BY <2>1 DEF SenderTakes
    <3>4. /\ sender'.pc = "sending" /\ sender'.row = Head(outgoing) /\ sender'.attempt = 1
          /\ LET e == [row |-> Head(outgoing), attempt |-> 1, live |-> TRUE, pc |-> "receiving"]
             IN e.live /\ e.row = Head(outgoing) /\ e.attempt = 1 /\ e.pc = "receiving"
      BY <3>3
    <3> QED
      BY <3>1, <3>2, <3>4 DEF InCall
  <2>2. CASE Close
    <3>1. {c \in calls : c.live} \in SUBSET Call
      BY <1>1
    <3>2. \A d \in calls' : ~d.live /\ d.pc \notin {"replied", "error"}
      BY <1>1, <2>2, <3>1, AbandonedCalls DEF Close
    <3> QED
      BY <3>2
  <2>3. ASSUME NEW c \in calls,
               SenderAccepted(c) \/ SenderRejected(c) \/ SenderGivesUp(c)
        PROVE  ClientInv'
    <3>1. InCall(c) /\ ~SenderRetries(c)
      BY <1>1, <2>3
         DEF SenderAccepted, SenderRejected, SenderGivesUp, SenderRetries, RequestEnds, InCall,
             IdleSender
    <3>2. \A d \in calls' : ~d.live /\ d.pc \notin {"replied", "error"}
      BY <1>1, <2>3, <3>1, SenderCalls DEF InCall
    <3> QED
      BY <3>2
  <2>4. ASSUME NEW c \in calls, SenderRetries(c) PROVE ClientInv'
    <3>1. InCall(c) /\ sender' = [sender EXCEPT !.attempt = 2]
      BY <2>4 DEF SenderRetries
    <3>2. \A d \in calls \ {c} : ~d.live /\ d.pc \notin {"replied", "error"}
      BY <3>1 DEF InCall
    <3>3. \A d \in calls' :
             \/ ~d.live /\ d.pc \notin {"replied", "error"}
             \/ d = [c EXCEPT !.attempt = 2, !.pc = "receiving"]
      <4>1. \A d \in Abandoned({c}) : ~d.live /\ d.pc \notin {"replied", "error"}
        <5>1. {c} \in SUBSET Call
          BY <1>1
        <5> QED
          BY <5>1, AbandonedCalls
      <4> QED
        BY <2>4, <3>2, <4>1 DEF SenderRetries
    <3>4. /\ sender'.pc = "sending" /\ sender'.row = sender.row /\ sender'.attempt = 2
          /\ LET e == [c EXCEPT !.attempt = 2, !.pc = "receiving"] IN
               e.live /\ e.row = sender.row /\ e.attempt = 2 /\ e.pc = "receiving"
      BY <1>1, <3>1 DEF InCall, Call, TypeOK, TransportTypeOK
    <3> QED
      BY <3>3, <3>4 DEF InCall
  <2>5. CASE UNCHANGED <<calls, sender>>
    BY <2>5 DEF InCall
  <2>6. CASE NextActor
    BY <2>6 DEF NextActor, InCall
  <2> QED
    BY <1>2, <2>1, <2>2, <2>3, <2>4, <2>5, <2>6
       DEF TransportNext, ControlLoop, Collects, SenderThread, Enqueue, EnqueueOnFullQueue,
           TakeConfirmed, Drain, ReceiverFails
<1>3. ASSUME LearnerNext, sender' = sender PROVE ClientInv'
  <2>1. ASSUME NEW c \in calls,
               \/ HandlerPrepares(c) \/ HandlerAccepts(c) \/ HandlerRefuses(c)
               \/ NobodyServes(c) \/ HandlerLosesClient(c)
        PROVE  ClientInv'
    <3>1. PICK pc \in {"prepared", "replied", "error"} :
            /\ calls' \subseteq (calls \ {c}) \cup {[c EXCEPT !.pc = pc]}
            /\ pc \in {"replied", "error"} => c.live \/ calls' \subseteq calls \ {c}
      BY <1>1, <2>1, HandlerCalls
    <3> DEFINE e == [c EXCEPT !.pc = pc]
    <3>2. e.row = c.row /\ e.attempt = c.attempt /\ e.live = c.live /\ e.pc = pc
      BY <1>1 DEF Call
    <3> HIDE DEF e
    <3>3. \A d \in calls' : d \in calls \ {c} \/ d = e
      BY <3>1 DEF e
    <3>4. e \in calls' /\ e \notin calls \ {c} => (e.pc \in {"replied", "error"} => e.live)
      BY <3>1, <3>2
    <3> QED
      BY <1>3, <3>2, <3>3, <3>4 DEF InCall
  <2>2. CASE OwnerExits \/ Crash
    <3>1. \A d \in calls' : InCall(d) /\ \A e \in calls' : d = e
      <4> SUFFICES ASSUME NEW d \in calls', NEW e \in calls' PROVE InCall(d) /\ d = e
        OBVIOUS
      <4>1. \A f \in calls' : f \in Call
        BY <1>1, <2>2 DEF OwnerExits, Crash, Call
      <4>2. PICK c \in calls : c.live /\ d.row = c.row /\ d.attempt = c.attempt
                            /\ d.pc = IF c.pc = "replied" THEN "replied" ELSE "error"
        BY <1>1, <2>2, ExitCalls
      <4>3. PICK b \in calls : b.live /\ e.row = b.row /\ e.attempt = b.attempt
                            /\ e.pc = IF b.pc = "replied" THEN "replied" ELSE "error"
        BY <1>1, <2>2, ExitCalls
      <4>4. c = b /\ InCall(c) /\ d.live /\ e.live
        BY <1>1, <2>2, <4>2, <4>3, ExitCalls
      <4> QED
        BY <4>1, <4>2, <4>3, <4>4 DEF InCall, Call
    <3>2. \A d \in calls' : d.live
      BY <1>1, <2>2, ExitCalls
    <3> QED
      BY <1>3, <3>1, <3>2 DEF InCall
  <2>3. CASE UNCHANGED calls
    BY <1>3, <2>3 DEF InCall
  <2> QED
    BY <1>3, <2>1, <2>2, <2>3, LearnerCalls
<1>4. CASE UNCHANGED vars
  BY <1>4 DEF vars, transportVars, InCall
<1> QED
  BY <1>2, <1>3, <1>4 DEF Next, transportVars

-----------------------------------------------------------------------------
(* No gap. *)

\* The queue loses its first row to the sender and gets the next row produced.
LEMMA QueueOfSent ==
  ASSUME TypeOK, OutgoingInv, ~stopped
  PROVE  /\ Sent \in Nat /\ Len(outgoing) \in Nat
         /\ Enqueue => /\ Sent' = Sent /\ Len(outgoing') <= produced'
                       /\ \A i \in DOMAIN outgoing' :
                             outgoing'[i] = [session |-> session, step |-> Sent + i]
         /\ SenderTakes => /\ Sent' = Sent + 1 /\ Len(outgoing') <= produced'
                           /\ Head(outgoing) = [session |-> session, step |-> Sent + 1]
                           /\ \A i \in DOMAIN outgoing' :
                                 outgoing'[i] = [session |-> session, step |-> Sent + 1 + i]
<1>1. /\ outgoing \in Seq(Row) /\ produced \in Nat /\ Len(outgoing) \in Nat
      /\ Len(outgoing) <= produced /\ DOMAIN outgoing = 1..Len(outgoing)
  BY LenProperties, UplinkAssumption DEF TypeOK, TransportTypeOK, OutgoingInv
<1>2. Sent \in Nat
  BY <1>1 DEF Sent
<1>3. ASSUME Enqueue
      PROVE  /\ Sent' = Sent /\ Len(outgoing') <= produced'
             /\ \A i \in DOMAIN outgoing' :
                   outgoing'[i] = [session |-> session, step |-> Sent + i]
  <2> DEFINE row == [session |-> session, step |-> produced + 1]
  <2>1. row \in Row /\ outgoing' = Append(outgoing, row) /\ produced' = produced + 1
    BY <1>1, <1>3, UplinkAssumption DEF Enqueue, Row, TypeOK, TransportTypeOK
  <2> HIDE DEF row
  <2>2. /\ Append(outgoing, row) \in Seq(Row)
        /\ Len(Append(outgoing, row)) = Len(outgoing) + 1
        /\ \A i \in 1..Len(outgoing) : Append(outgoing, row)[i] = outgoing[i]
        /\ Append(outgoing, row)[Len(outgoing) + 1] = row
    BY <1>1, <2>1, AppendProperties
  <2>3. DOMAIN outgoing' = 1..(Len(outgoing) + 1)
    BY <2>1, <2>2, LenProperties
  <2>4. Sent' = Sent /\ Len(outgoing') <= produced'
    BY <1>1, <2>1, <2>2 DEF Sent
  <2>5. row = [session |-> session, step |-> Sent + (Len(outgoing) + 1)]
    BY <1>1 DEF row, Sent
  <2>6. ASSUME NEW i \in DOMAIN outgoing'
        PROVE  outgoing'[i] = [session |-> session, step |-> Sent + i]
    <3>1. CASE i \in 1..Len(outgoing)
      BY <1>1, <2>1, <2>2, <3>1 DEF OutgoingInv
    <3>2. CASE i = Len(outgoing) + 1
      BY <2>1, <2>2, <2>5, <3>2
    <3> QED
      BY <1>1, <2>3, <3>1, <3>2
  <2> QED
    BY <2>4, <2>6
<1>4. ASSUME SenderTakes
      PROVE  /\ Sent' = Sent + 1 /\ Len(outgoing') <= produced'
             /\ Head(outgoing) = [session |-> session, step |-> Sent + 1]
             /\ \A i \in DOMAIN outgoing' :
                   outgoing'[i] = [session |-> session, step |-> Sent + 1 + i]
  <2>1. outgoing # <<>> /\ outgoing' = Tail(outgoing) /\ produced' = produced
    BY <1>4 DEF SenderTakes
  <2>2. /\ outgoing' \in Seq(Row) /\ Len(outgoing') = Len(outgoing) - 1
        /\ Len(outgoing) \in Nat \ {0}
        /\ \A i \in 1..Len(outgoing') : outgoing'[i] = outgoing[i + 1]
    BY <1>1, <2>1, HeadTailProperties, EmptySeq
  <2>3. DOMAIN outgoing' = 1..(Len(outgoing) - 1)
    BY <2>2, LenProperties
  <2>4. Sent' = Sent + 1 /\ Len(outgoing') <= produced'
    BY <1>1, <2>1, <2>2 DEF Sent
  <2>5. Head(outgoing) = outgoing[1]
    BY <1>1, <2>1
  <2>6. Head(outgoing) = [session |-> session, step |-> Sent + 1]
    BY <1>1, <2>2, <2>5 DEF OutgoingInv
  <2>7. ASSUME NEW i \in DOMAIN outgoing'
        PROVE  outgoing'[i] = [session |-> session, step |-> Sent + 1 + i]
    <3>1. i + 1 \in DOMAIN outgoing /\ outgoing'[i] = outgoing[i + 1] /\ Sent + (i + 1) = Sent + 1 + i
      BY <1>1, <1>2, <2>2, <2>3
    <3> QED
      BY <3>1 DEF OutgoingInv
  <2> QED
    BY <2>4, <2>6, <2>7
<1> QED
  BY <1>1, <1>2, <1>3, <1>4

\* Only an acknowledgement lets the sender take the next row.
LEMMA NextOutgoing == IInv /\ OutgoingInv /\ [Next]_vars => OutgoingInv'
<1> SUFFICES ASSUME IInv, OutgoingInv, [Next]_vars, ~stopped' PROVE OutgoingInv'
  BY DEF OutgoingInv
<1>1. TypeOK /\ promised \subseteq promised'
  BY Promises DEF IInv
<1>2. CASE Enqueue
  BY <1>1, <1>2, QueueOfSent DEF Enqueue, OutgoingInv
<1>3. CASE SenderTakes
  <2>1. /\ ~stopped /\ sender.pc = "idle" /\ session' = session
        /\ sender' = [pc |-> "sending", row |-> Head(outgoing), attempt |-> 1]
    BY <1>3 DEF SenderTakes
  <2>2. \A step \in 1..(Sent + 1) : step \in 1..Sent \/ step = Sent + 1
    BY <1>1, <2>1, QueueOfSent
  <2> QED
    BY <1>1, <1>3, <2>1, <2>2, QueueOfSent DEF OutgoingInv
<1>4. ASSUME NEW c \in calls, SenderAccepted(c) PROVE OutgoingInv'
  <2>1. c.row = sender.row /\ c.row \in promised /\ sender.pc = "sending" /\ ~stopped
    BY <1>4 DEF SenderAccepted, InCall, IInv, ReplyInv
  <2>2. \A step \in 1..Sent : [session |-> session, step |-> step] \in promised
    BY <2>1 DEF OutgoingInv
  <2>3. sender'.pc # "sending" /\ Sent' = Sent
        /\ UNCHANGED <<outgoing, produced, session, stopped>>
    BY <1>4 DEF SenderAccepted, RequestEnds, IdleSender, Sent, exitVars
  <2> QED
    BY <1>1, <2>1, <2>2, <2>3 DEF OutgoingInv
<1>5. ASSUME NEW c \in calls, SenderRetries(c) PROVE OutgoingInv'
  <2>1. /\ sender'.pc = sender.pc /\ sender'.row = sender.row /\ Sent' = Sent
        /\ UNCHANGED <<outgoing, produced, session, stopped>>
    BY <1>1, <1>5 DEF SenderRetries, Sent, TypeOK, TransportTypeOK
  <2> QED
    BY <1>1, <2>1 DEF OutgoingInv
<1>6. CASE NextActor
  <2>1. outgoing' = <<>> /\ produced' = 0 /\ sender' = IdleSender
    BY <1>6 DEF NextActor, IInv, LeavingInv
  <2>2. Sent' = 0
    <3>1. Len(outgoing') = 0 /\ Sent' = produced' - Len(outgoing')
      BY <2>1 DEF Sent
    <3> QED
      BY <2>1, <3>1
  <2>3. sender'.pc # "sending"
    BY <2>1 DEF IdleSender
  <2> QED
    BY <2>1, <2>2, <2>3 DEF OutgoingInv
<1>7. CASE UNCHANGED <<session, produced, outgoing, sender, stopped>>
  BY <1>1, <1>7 DEF OutgoingInv, Sent
<1>8. CASE EnqueueOnFullQueue \/ Close \/ ReceiverFails
           \/ \E c \in calls : SenderRejected(c) \/ SenderGivesUp(c)
  BY <1>8 DEF EnqueueOnFullQueue, Close, ReceiverFails, SenderRejected, SenderGivesUp
<1> QED
  BY <1>2, <1>3, <1>4, <1>5, <1>6, <1>7, <1>8
     DEF Next, TransportNext, ControlLoop, Collects, SenderThread, TakeConfirmed, Drain, vars,
         transportVars

\* Acknowledgements and new calls leave no gap.
LEMMA NextPrefix == IInv /\ OutgoingInv /\ PrefixInv /\ [Next]_vars => PrefixInv'
<1> SUFFICES ASSUME IInv, OutgoingInv, PrefixInv, [Next]_vars PROVE PrefixInv'
  OBVIOUS
<1>1. calls \subseteq Call /\ promised \subseteq Row /\ TypeOK
  BY DEF IInv, TypeOK, LearnerTypeOK
<1>2. NoGapIsAcknowledged'
  <2>1. ASSUME NEW c \in calls, promised' = promised \cup {c.row} PROVE NoGapIsAcknowledged'
    <3>1. c.row \in Row /\ \A step \in 1..(c.row.step - 1) :
                                [c.row EXCEPT !.step = step] \in promised
      BY <1>1 DEF PrefixInv, Call
    <3>2. [c.row EXCEPT !.step = c.row.step] = c.row
      BY <3>1 DEF Row
    <3>3. \A step \in 1..c.row.step : step = c.row.step \/ step \in 1..(c.row.step - 1)
      BY <3>1, UplinkAssumption DEF Row
    <3>4. \A step \in 1..c.row.step : [c.row EXCEPT !.step = step] \in promised'
      BY <2>1, <3>1, <3>2, <3>3
    <3> QED
      BY <2>1, <3>4 DEF PrefixInv, NoGapIsAcknowledged
  <2> QED
    BY <2>1, Promises DEF PrefixInv, NoGapIsAcknowledged
<1>3. ASSUME NEW d \in calls', NEW step \in 1..(d.row.step - 1)
      PROVE  [d.row EXCEPT !.step = step] \in promised'
  <2>1. promised \subseteq promised'
    BY Promises
  <2>2. CASE \E c \in calls : c.row = d.row
    BY <2>1, <2>2 DEF PrefixInv
  <2>3. CASE SenderTakes /\ d.row = Head(outgoing)
    <3>1. ~stopped /\ sender.pc = "idle"
      BY <2>3 DEF SenderTakes
    <3>2. Sent \in Nat /\ d.row = [session |-> session, step |-> Sent + 1]
      BY <1>1, <2>3, <3>1, QueueOfSent
    <3>3. step \in 1..Sent /\ [d.row EXCEPT !.step = step] = [session |-> session, step |-> step]
      BY <3>2
    <3> QED
      BY <2>1, <3>1, <3>3 DEF OutgoingInv
  <2> QED
    BY <1>1, <2>2, <2>3, RowsOfCalls
<1> QED
  BY <1>2, <1>3 DEF PrefixInv

-----------------------------------------------------------------------------
(* What the Learner's side knows. *)

\* No row overtakes the sender.
LEMMA NextKnown == IInv /\ OutgoingInv /\ KnowledgeInv /\ [Next]_vars => KnownInv'
<1> SUFFICES ASSUME IInv, OutgoingInv, KnowledgeInv, [Next]_vars, NEW r \in Known'
             PROVE  /\ r.session <= session'
                    /\ r.session = session' =>
                          /\ ~stopped' => r.step <= Sent'
                          /\ sender'.pc = "sending" => r.step <= sender'.row.step
  BY DEF KnownInv
<1>1. TypeOK /\ calls \subseteq Call /\ promised \subseteq Row
  BY DEF IInv, TypeOK, LearnerTypeOK
<1>2. r \in Known \/ (SenderTakes /\ r = Head(outgoing))
  <2>1. r \in promised' => r \in Known
    BY Promises DEF Known
  <2>2. ASSUME NEW d \in calls', r = d.row
        PROVE  r \in Known \/ (SenderTakes /\ r = Head(outgoing))
    BY <1>1, <2>2, RowsOfCalls DEF Known
  <2> QED
    BY <2>1, <2>2 DEF Known
<1>3. CASE SenderTakes
  <2>1. /\ ~stopped /\ session' = session /\ session \in Nat
        /\ sender'.pc = "sending" /\ sender'.row = Head(outgoing)
    BY <1>1, <1>3 DEF SenderTakes, TypeOK, TransportTypeOK
  <2>2. /\ Sent \in Nat /\ Sent' = Sent + 1
        /\ Head(outgoing) = [session |-> session, step |-> Sent + 1]
    BY <1>1, <1>3, <2>1, QueueOfSent
  <2>3. CASE r = Head(outgoing)
    BY <2>1, <2>2, <2>3
  <2>4. CASE r \in Known
    <3>1. r.step \in Nat
      BY <1>1, <2>4 DEF Known, Call, Row
    <3> QED
      BY <2>1, <2>2, <2>4, <3>1 DEF KnowledgeInv, KnownInv
  <2> QED
    BY <1>2, <2>3, <2>4
<1>4. CASE ~SenderTakes
  <2>1. r \in Known
    BY <1>2, <1>4
  <2>2. CASE NextActor
    <3>1. session' = session + 1 /\ session \in Nat /\ r.session \in Nat
      BY <1>1, <2>1, <2>2 DEF NextActor, TypeOK, TransportTypeOK, Known, Call, Row
    <3> QED
      BY <2>1, <3>1 DEF KnowledgeInv, KnownInv
  <2>3. CASE ~NextActor
    <3>1. session' = session
      BY <1>4, <2>3
         DEF Next, TransportNext, ControlLoop, Collects, SenderThread, Enqueue, EnqueueOnFullQueue,
             TakeConfirmed, Drain, Close, SenderAccepted, SenderRejected, SenderRetries,
             SenderGivesUp, ReceiverFails, vars, transportVars
    <3>2. ~stopped' => ~stopped /\ Sent' = Sent
      <4>1. Enqueue => ~stopped /\ Sent' = Sent
        BY <1>1, QueueOfSent DEF Enqueue
      <4>2. Enqueue \/ stopped' \/ UNCHANGED <<stopped, produced, outgoing>>
        BY <1>4, <2>3
           DEF Next, TransportNext, ControlLoop, Collects, SenderThread, EnqueueOnFullQueue,
               TakeConfirmed, Drain, Close, SenderAccepted, SenderRejected, SenderRetries,
               SenderGivesUp, ReceiverFails, vars, transportVars
      <4> QED
        BY <4>1, <4>2 DEF Sent
    <3>3. sender'.pc = "sending" => sender.pc = "sending" /\ sender'.row = sender.row
      <4>1. ASSUME NEW c \in calls, SenderRetries(c)
            PROVE  sender.pc = "sending" /\ sender'.row = sender.row
        BY <1>1, <4>1 DEF SenderRetries, InCall, TypeOK, TransportTypeOK
      <4>2. \/ \E c \in calls : SenderRetries(c)
            \/ sender' = sender \/ sender' = IdleSender
        BY <1>4, <2>3
           DEF Next, TransportNext, ControlLoop, Collects, SenderThread, EnqueueOnFullQueue,
               Enqueue, TakeConfirmed, Drain, Close, SenderAccepted, SenderRejected, SenderGivesUp,
               RequestEnds, ReceiverFails, vars, transportVars
      <4>3. IdleSender.pc # "sending"
        BY DEF IdleSender
      <4> QED
        BY <4>1, <4>2, <4>3
    <3> QED
      BY <2>1, <3>1, <3>2, <3>3 DEF KnowledgeInv, KnownInv
  <2> QED
    BY <2>2, <2>3
<1> QED
  BY <1>3, <1>4

\* What an applied, torn or trained learner holds.
LEMMA SeenBy ==
  ASSUME NEW m \in Snapshot, NEW row \in Row
  PROVE  /\ Counted(Stored(m, row)).seen = m.seen \cup {row}
         /\ Counted(Stored(m, row)).records = Append(m.records, row)
         /\ Torn(m, row).seen = m.seen \cup {row} /\ Torn(m, row).records = m.records
         /\ Updated(m).seen = m.seen /\ Updated(m).records = m.records
  BY DEF Counted, Stored, Torn, Updated, Snapshot

(* The ways in which a step changes the rows of the Learner. *)

\* The head of the queue is applied or torn, unless it is a duplicate.
AppliesHead ==
    /\ Alive /\ pending # <<>> /\ Head(pending) \in Row
    /\ UNCHANGED <<pending, owner>>
    /\ \/ Head(pending) \in learner.seen /\ UNCHANGED <<learner, disk>>
       \/ /\ Head(pending) \notin learner.seen
          /\ learner'.seen = learner.seen \cup {Head(pending)}
          /\ \/ /\ learner'.records = Append(learner.records, Head(pending))
                /\ disk' \in {disk, learner'}
             \/ learner'.records = learner.records /\ disk' = disk

\* A handler's row is queued.
QueuesRow(c) ==
    /\ HandlerAccepts(c) /\ Alive
    /\ pending' = Append(pending, c.row)
    /\ UNCHANGED <<learner, disk, owner>>

PopsHead ==
    /\ Alive /\ pending # <<>> /\ Head(pending) \in learner.seen
    /\ pending' = Tail(pending)
    /\ UNCHANGED <<learner, disk, owner>>

\* No row moves, but the checkpoint may be taken.
KeepsRows ==
    /\ learner'.seen = learner.seen /\ learner'.records = learner.records
    /\ \/ disk' = disk
       \/ disk'.seen = learner.seen /\ disk'.records = learner.records
    /\ pending' = pending
    /\ (Alive /\ Alive') \/ UNCHANGED <<owner, disk>> \/ OwnerExits

LosesMemory ==
    /\ Crash /\ learner'.seen = {} /\ learner'.records = <<>> /\ pending' = <<>> /\ disk' = disk

StartsFromDisk ==
    /\ Restart /\ ~Alive /\ Alive' /\ learner' = disk /\ pending' = <<>> /\ disk' = disk

\* A step changes the Learner's rows in one of six ways.
LEMMA LearnerRows ==
  ASSUME IInv, [Next]_vars
  PROVE  \/ AppliesHead \/ PopsHead \/ KeepsRows \/ LosesMemory \/ StartsFromDisk
         \/ \E c \in Handlers : QueuesRow(c)
<1> USE DEF learnerVars, threadVars, processVars
<1>1. learner \in Snapshot /\ disk \in Snapshot /\ pending \in Seq(Row)
  BY DEF IInv, TypeOK, LearnerTypeOK
<1>2. pending # <<>> => Head(pending) \in Row
  BY <1>1, HeadTailProperties
<1> DEFINE row  == Head(pending)
           kept == Counted(Stored(learner, row))
<1>3. CASE WorkerIngests
  <2> USE DEF AppliesHead
  <2>1. Alive /\ pending # <<>> /\ UNCHANGED <<pending, owner>>
    BY <1>3 DEF WorkerIngests, Ingesting
  <2>2. CASE row \in learner.seen
    BY <1>2, <1>3, <2>1, <2>2 DEF WorkerIngests, Duplicate
  <2>3. CASE row \notin learner.seen
    <3>1. learner' = kept /\ disk' \in {disk, kept}
      BY <1>3, <2>3 DEF WorkerIngests, Duplicate
    <3>2. kept.seen = learner.seen \cup {row} /\ kept.records = Append(learner.records, row)
      BY <1>1, <1>2, <2>1, SeenBy
    <3> HIDE DEF kept
    <3> QED
      BY <1>2, <1>3, <2>1, <2>3, <3>1, <3>2
  <2> QED
    BY <2>2, <2>3
<1>4. CASE WorkerTearsRow
  <2>1. /\ Alive /\ pending # <<>> /\ UNCHANGED <<pending, owner, disk>> /\ row \notin learner.seen
        /\ learner' = Torn(learner, row)
    BY <1>4 DEF WorkerTearsRow, Ingesting
  <2>2. Torn(learner, row).seen = learner.seen \cup {row} /\ Torn(learner, row).records = learner.records
    BY <1>1, <1>2, <2>1, SeenBy
  <2> QED
    BY <1>2, <2>1, <2>2 DEF AppliesHead
<1>5. ASSUME NEW c \in calls, HandlerAccepts(c)
      PROVE  c \in Handlers /\ QueuesRow(c)
  BY <1>5 DEF HandlerAccepts, Handlers, QueuesRow
<1>6. CASE WorkerPops
  BY <1>6 DEF WorkerPops, PopsHead, IInv, QueueInv
<1>7. CASE WorkerUpdates
  <2>1. Updated(learner).seen = learner.seen /\ Updated(learner).records = learner.records
    <3>1. NoRow \in Row
      BY UplinkAssumption DEF NoRow, Row
    <3> QED
      BY <1>1, <3>1, SeenBy
  <2>2. /\ learner' \in {learner, Updated(learner)} /\ disk' \in {disk, Updated(learner)}
        /\ Alive /\ UNCHANGED <<pending, owner>>
    BY <1>7 DEF WorkerUpdates
  <2> QED
    BY <2>1, <2>2 DEF KeepsRows, Alive
<1>8. CASE WorkerPreserves
  BY <1>8 DEF WorkerPreserves, KeepsRows, Alive
<1>9. CASE OwnerStops
  BY <1>9 DEF OwnerStops, KeepsRows, Alive
<1>10. CASE OwnerExits
  BY <1>10 DEF OwnerExits, KeepsRows
<1>11. CASE Crash
  BY <1>11 DEF Crash, LosesMemory, Untrained
<1>12. CASE Restart
  BY <1>12 DEF Restart, StartsFromDisk, Alive
<1>13. CASE UNCHANGED <<learner, disk, pending, owner>>
  BY <1>13 DEF KeepsRows
<1>14. LearnerNext =>
          \/ WorkerIngests \/ WorkerTearsRow \/ WorkerPops \/ WorkerUpdates \/ WorkerPreserves
          \/ OwnerStops \/ OwnerExits \/ Crash \/ Restart
          \/ \E c \in calls : HandlerAccepts(c)
          \/ UNCHANGED <<learner, disk, pending, owner>>
  BY DEF LearnerNext, Handler, Worker, Owner, HandlerPrepares, HandlerRefuses, NobodyServes,
         HandlerLosesClient, WorkerWakes, WorkerSeesStop, WorkerFindsQueueEmpty, WorkerRests
<1>15. ~LearnerNext => UNCHANGED <<learner, disk, pending, owner>>
  BY DEF Next, vars
<1> QED
  BY <1>3, <1>4, <1>5, <1>6, <1>7, <1>8, <1>9, <1>10, <1>11, <1>12, <1>13, <1>14, <1>15

\* The row about to be applied is one of the queue.
LEMMA HeadIsQueued ==
  ASSUME NEW S, NEW s \in Seq(S), s # <<>> PROVE Head(s) \in Range(s)
  BY RangeOfTail

\* What is held only grows by a handler's row, until no handler is left.
LEMMA HeldSteps ==
  ASSUME IInv, [Next]_vars
  PROVE  \/ Held' = Held
         \/ \E c \in Handlers : QueuesRow(c) /\ Held' = Held \cup {c.row}
         \/ Handlers' = {}
<1>1. /\ calls \subseteq Call /\ pending \in Seq(Row)
      /\ UNCHANGED owner => Alive' = Alive
  BY DEF IInv, TypeOK, LearnerTypeOK, Alive
<1>2. CASE AppliesHead
  <2>1. Head(pending) \in Range(pending)
    BY <1>1, <1>2, HeadIsQueued DEF AppliesHead
  <2> QED
    BY <1>1, <1>2, <2>1 DEF AppliesHead, Held
<1>3. ASSUME NEW c \in Handlers, QueuesRow(c) PROVE Held' = Held \cup {c.row}
  <2>1. Range(pending') = Range(pending) \cup {c.row}
    BY <1>1, <1>3, RangeOfAppend DEF QueuesRow, Handlers, Call
  <2> QED
    BY <1>1, <1>3, <2>1 DEF QueuesRow, Held
<1>4. CASE PopsHead
  <2>1. Range(pending) = {Head(pending)} \cup Range(pending')
    BY <1>1, <1>4, RangeOfTail DEF PopsHead
  <2> QED
    BY <1>1, <1>4, <2>1 DEF PopsHead, Held
<1>5. CASE KeepsRows
  <2>1. OwnerExits => Handlers' = {}
    BY <1>1, ExitCalls DEF Handlers
  <2> QED
    BY <1>1, <1>5, <2>1 DEF KeepsRows, Held
<1>6. CASE LosesMemory
  BY <1>1, <1>6, ExitCalls DEF LosesMemory, Handlers
<1>7. CASE StartsFromDisk
  BY <1>7, RangeOfEmpty DEF StartsFromDisk, Held
<1> QED
  BY <1>2, <1>3, <1>4, <1>5, <1>6, <1>7, LearnerRows

\* What the Learner holds has been promised.
LEMMA NextKnowledge == IInv /\ OutgoingInv /\ KnowledgeInv /\ [Next]_vars => KnowledgeInv'
<1> SUFFICES ASSUME IInv, OutgoingInv, KnowledgeInv, [Next]_vars PROVE KnowledgeInv'
  OBVIOUS
<1>1. KnownInv'
  BY NextKnown
<1>2. TypeOK /\ pending \in Seq(Row) /\ calls \subseteq Call
  BY DEF IInv, TypeOK, LearnerTypeOK
<1>3. sender'.pc = "sending" => sender'.row.session = session'
  <2>1. CASE SenderTakes
    <3>1. ~stopped /\ session' = session /\ sender'.row = Head(outgoing)
      BY <2>1 DEF SenderTakes
    <3>2. Head(outgoing).session = session
      BY <1>2, <2>1, <3>1, QueueOfSent
    <3> QED
      BY <3>1, <3>2
  <2>2. ASSUME NEW c \in calls, SenderRetries(c)
        PROVE  sender.pc = "sending" /\ sender'.row = sender.row /\ session' = session
    BY <1>2, <2>2 DEF SenderRetries, InCall, TypeOK, TransportTypeOK
  <2>3. NextActor => sender' = IdleSender
    BY DEF NextActor, IInv, LeavingInv
  <2>4. \/ SenderTakes \/ NextActor \/ \E c \in calls : SenderRetries(c)
        \/ sender' = sender /\ session' = session
        \/ sender' = IdleSender
    BY DEF Next, TransportNext, ControlLoop, Collects, SenderThread, EnqueueOnFullQueue, Enqueue,
           TakeConfirmed, Drain, Close, SenderAccepted, SenderRejected, SenderGivesUp,
           RequestEnds, ReceiverFails, vars, transportVars
  <2>5. IdleSender.pc # "sending"
    BY DEF IdleSender
  <2> QED
    BY <2>1, <2>2, <2>3, <2>4, <2>5 DEF KnowledgeInv
<1>4. (learner.seen \cup Range(pending) \cup disk.seen \subseteq promised)'
  <2>1. promised \subseteq promised'
    BY Promises
  <2>2. CASE AppliesHead
    <3>1. Head(pending) \in Range(pending)
      BY <1>2, <2>2, HeadIsQueued DEF AppliesHead
    <3> QED
      BY <2>1, <2>2, <3>1 DEF AppliesHead, KnowledgeInv
  <2>3. ASSUME NEW c \in Handlers, QueuesRow(c)
        PROVE  (learner.seen \cup Range(pending) \cup disk.seen \subseteq promised)'
    <3>1. Range(pending') = Range(pending) \cup {c.row} /\ c.row \in promised'
      BY <1>2, <2>3, RangeOfAppend DEF QueuesRow, HandlerAccepts, Handlers, Call
    <3> QED
      BY <2>1, <2>3, <3>1 DEF QueuesRow, KnowledgeInv
  <2>4. CASE PopsHead
    <3>1. Range(pending) = {Head(pending)} \cup Range(pending')
      BY <1>2, <2>4, RangeOfTail DEF PopsHead
    <3> QED
      BY <2>1, <2>4, <3>1 DEF PopsHead, KnowledgeInv
  <2>5. CASE KeepsRows
    BY <2>1, <2>5 DEF KeepsRows, KnowledgeInv
  <2>6. CASE LosesMemory \/ StartsFromDisk
    BY <2>1, <2>6, RangeOfEmpty DEF LosesMemory, StartsFromDisk, KnowledgeInv
  <2> QED
    BY <2>2, <2>3, <2>4, <2>5, <2>6, LearnerRows
<1> QED
  BY <1>1, <1>3, <1>4 DEF KnowledgeInv

-----------------------------------------------------------------------------
(* Each row once, in order. *)

\* A duplicate has been promised.
LEMMA HeldIsPromised == KnowledgeInv => Held \subseteq promised
  BY DEF KnowledgeInv, Held

\* The row of a call that the sender begins or repeats is held or newer than all held.
LEMMA SenderRowIsNewest ==
  ASSUME IInv, KnowledgeInv, sender.pc = "sending"
  PROVE  sender.row \in Held \/ Newer(sender.row, Held)
<1> SUFFICES ASSUME NEW r \in Held, r # sender.row, r.session = sender.row.session
             PROVE  r.step < sender.row.step
  BY DEF Newer
<1>1. r \in promised /\ r \in Row /\ sender.row \in Row
  BY HeldIsPromised DEF IInv, TypeOK, LearnerTypeOK, TransportTypeOK
<1>2. r.step <= sender.row.step
  BY <1>1 DEF KnowledgeInv, KnownInv, Known
<1>3. r.step # sender.row.step
  BY <1>1 DEF Row
<1> QED
  BY <1>1, <1>2, <1>3, UplinkAssumption DEF Row

\* A reply is as old as its call, or comes with the row it accepts.
LEMMA RepliesOfTransport ==
  ASSUME calls \subseteq Call, TransportNext, NEW d \in calls', d.pc = "replied"
  PROVE  d \in calls
<1>1. CASE Close
  <2>1. {c \in calls : c.live} \in SUBSET Call
    OBVIOUS
  <2>2. \A e \in Abandoned({c \in calls : c.live}) : e.pc # "replied"
    BY <2>1, AbandonedCalls
  <2> QED
    BY <1>1, <2>2 DEF Close
<1>2. CASE SenderTakes
  BY <1>2 DEF SenderTakes
<1>3. ASSUME NEW c \in calls,
             SenderAccepted(c) \/ SenderRejected(c) \/ SenderRetries(c) \/ SenderGivesUp(c)
      PROVE  d \in calls
  BY <1>3, SenderCalls
<1> QED
  BY <1>1, <1>2, <1>3
     DEF TransportNext, ControlLoop, Collects, SenderThread, Enqueue, EnqueueOnFullQueue,
         TakeConfirmed, Drain, NextActor, ReceiverFails

\* A new reply is that of a handler that accepts, or of a Learner that ends.
LEMMA RepliesOfLearner ==
  ASSUME calls \subseteq Call, LearnerNext, NEW d \in calls', d.pc = "replied"
  PROVE  \/ OwnerExits \/ Crash
         \/ d \in calls
         \/ \E c \in calls : HandlerAccepts(c) /\ d.row = c.row
<1>1. ASSUME NEW c \in calls,
             \/ HandlerPrepares(c) \/ HandlerAccepts(c) \/ HandlerRefuses(c)
             \/ NobodyServes(c) \/ HandlerLosesClient(c)
      PROVE  d \in calls \/ (HandlerAccepts(c) /\ d.row = c.row)
  <2>1. PICK pc \in {"prepared", "replied", "error"} :
          /\ calls' \subseteq (calls \ {c}) \cup {[c EXCEPT !.pc = pc]}
          /\ pc = "replied" => HandlerAccepts(c)
    BY <1>1, HandlerCalls
  <2>2. d \in calls \/ (d.pc = pc /\ d.row = c.row)
    BY <2>1 DEF Call
  <2> QED
    BY <2>1, <2>2
<1> QED
  BY <1>1, LearnerCalls

\* The Actor's end brings a handler for the sender's row at most.
LEMMA TransportHandlers ==
  ASSUME IInv, ClientInv, OutgoingInv, KnowledgeInv, HandlerInv,
         TransportNext, UNCHANGED learnerVars
  PROVE  HandlerInv'
<1>1. /\ TypeOK /\ calls \subseteq Call /\ session \in Nat /\ Held' = Held /\ [Next]_vars
      /\ \A c \in Handlers : c \in calls /\ c.row \in Known /\ c.row.step \in Nat
  BY UplinkAssumption
     DEF IInv, TypeOK, TransportTypeOK, Held, Alive, learnerVars, Next, Handlers, Known, Call, Row
<1>2. CASE SenderTakes
  <2> DEFINE row == Head(outgoing)
  <2>1. /\ ~stopped /\ sender.pc = "idle" /\ session' = session
        /\ sender'.pc = "sending" /\ sender'.row = row
        /\ \A c \in calls : ~SenderRetries(c)
    BY <1>2 DEF SenderTakes, SenderRetries, InCall
  <2>2. Sent \in Nat /\ row.session = session /\ row.step = Sent + 1
    BY <1>1, <1>2, <2>1, QueueOfSent
  <2>3. \A d \in Handlers' : d.row = row \/ \E c \in Handlers : c.row = d.row
    BY <1>1, <2>1, RowsOfCalls DEF Handlers
  <2>4. \A d \in calls' : d.pc # "replied"
    BY <1>1, <2>1, RepliesOfTransport DEF ClientInv, InCall
  <2>5. \A c \in Handlers : c.row.session = session => c.row \in Held /\ c.row.step <= Sent
    BY <1>1, <2>1 DEF HandlerInv, KnowledgeInv, KnownInv
  <2>6. Newer(row, Held)
    <3> SUFFICES ASSUME NEW r \in Held, r.session = session PROVE r.step < Sent + 1
      BY <2>2 DEF Newer
    <3>1. r \in promised /\ r.step \in Nat
      BY HeldIsPromised, UplinkAssumption DEF IInv, TypeOK, LearnerTypeOK, Row
    <3> QED
      BY <2>1, <2>2, <3>1 DEF KnowledgeInv, KnownInv, Known
  <2> HIDE DEF row
  <2>7. \A d \in Handlers' : d.row \in Held \/ Newer(d.row, Held)
    BY <2>3, <2>6 DEF HandlerInv
  <2>8. ASSUME NEW c \in Handlers', NEW d \in Handlers',
               c.row.session = d.row.session, c.row.step < d.row.step
        PROVE  c.row \in Held
    BY <1>1, <2>2, <2>3, <2>5, <2>8 DEF HandlerInv
  <2> QED
    BY <1>1, <2>1, <2>3, <2>4, <2>5, <2>7, <2>8 DEF HandlerInv, Handlers
<1>3. ASSUME NEW x \in calls, SenderRetries(x) PROVE HandlerInv'
  <2>1. /\ InCall(x) /\ sender.pc = "sending" /\ session' = session
        /\ sender'.pc = "sending" /\ sender'.row = sender.row /\ ~SenderTakes
    BY <1>1, <1>3 DEF SenderRetries, InCall, SenderTakes, TypeOK, TransportTypeOK
  <2>2. \A d \in Handlers' : d.row = sender.row \/ \E c \in Handlers : c.row = d.row
    BY <1>1, <2>1, RowsOfCalls DEF Handlers
  <2>3. \A d \in calls' : d.pc # "replied"
    <3> SUFFICES ASSUME NEW d \in calls', d.pc = "replied" PROVE FALSE
      OBVIOUS
    <3>1. d \in calls \ {x}
      BY <1>1, <1>3, SenderCalls
    <3> QED
      BY <2>1, <3>1 DEF ClientInv, InCall
  <2>4. /\ sender.row.session = session /\ sender.row.step \in Nat
        /\ \A c \in Handlers : c.row.session = session => c.row.step <= sender.row.step
    BY <1>1, <2>1, UplinkAssumption
       DEF KnowledgeInv, KnownInv, TypeOK, TransportTypeOK, Row
  <2>5. \A d \in Handlers' : d.row \in Held \/ Newer(d.row, Held)
    BY <2>1, <2>2, SenderRowIsNewest DEF HandlerInv
  <2>6. ASSUME NEW c \in Handlers', NEW d \in Handlers',
               c.row.session = d.row.session, c.row.step < d.row.step
        PROVE  c.row \in Held
    <3>1. CASE d.row = sender.row
      BY <1>1, <2>1, <2>2, <2>4, <2>6, <3>1 DEF HandlerInv
    <3>2. CASE c.row = sender.row
      BY <1>1, <2>1, <2>2, <2>4, <2>6, <3>2
    <3> QED
      BY <2>2, <2>6, <3>1, <3>2 DEF HandlerInv
  <2> QED
    BY <1>1, <2>1, <2>2, <2>3, <2>5, <2>6 DEF HandlerInv, Handlers
<1>4. CASE ~SenderTakes /\ \A x \in calls : ~SenderRetries(x)
  <2>1. \A d \in Handlers' : \E c \in Handlers : c.row = d.row
    BY <1>1, <1>4, RowsOfCalls DEF Handlers
  <2>2. \A d \in calls' : d.pc = "replied" => d \in calls
    BY <1>1, RepliesOfTransport
  <2>3. ASSUME NEW d \in Handlers', d.row.session = session', sender'.pc = "sending" \/ ~stopped'
        PROVE  d.row \in Held \/ (sender'.pc = "sending" /\ d.row = sender'.row)
    <3>1. PICK c \in Handlers : c.row = d.row
      BY <2>1
    <3>2. CASE NextActor
      <4>1. session' = session + 1 /\ c.row.session <= session /\ c.row.session \in Nat
        BY <1>1, <3>2, UplinkAssumption
           DEF NextActor, KnowledgeInv, KnownInv, Handlers, Call, Row
      <4> QED
        BY <1>1, <2>3, <3>1, <4>1
    <3>3. ASSUME NEW x \in calls, SenderAccepted(x) PROVE d.row \in Held
      <4>1. /\ x.pc = "replied" /\ x.row = sender.row /\ sender.pc = "sending"
            /\ session' = session
        BY <3>3 DEF SenderAccepted, InCall
      <4> QED
        BY <2>3, <3>1, <4>1 DEF HandlerInv
    <3>4. CASE session' = session /\ sender' = sender /\ (~stopped' => ~stopped)
      BY <2>3, <3>1, <3>4 DEF HandlerInv
    <3>5. ASSUME sender' = IdleSender, stopped' = TRUE PROVE FALSE
      BY <2>3, <3>5 DEF IdleSender
    <3>6. \/ NextActor
          \/ \E x \in calls : SenderAccepted(x)
          \/ session' = session /\ sender' = sender /\ (~stopped' => ~stopped)
          \/ sender' = IdleSender /\ stopped' = TRUE
      BY <1>4
         DEF TransportNext, ControlLoop, Collects, SenderThread, Enqueue, EnqueueOnFullQueue,
             TakeConfirmed, Drain, Close, SenderRejected, SenderGivesUp, RequestEnds, ReceiverFails
    <3> QED
      BY <3>2, <3>3, <3>4, <3>5, <3>6
  <2>4. \A c \in Handlers' : c.row \in Held \/ Newer(c.row, Held)
    BY <2>1 DEF HandlerInv
  <2>5. ASSUME NEW c \in Handlers', NEW d \in Handlers',
               c.row.session = d.row.session, c.row.step < d.row.step
        PROVE  c.row \in Held
    BY <2>1, <2>5 DEF HandlerInv
  <2>6. ASSUME NEW c \in Handlers', NEW d \in calls', d.pc = "replied", c.row = d.row
        PROVE  c.row \in Held
    BY <2>1, <2>2, <2>6 DEF HandlerInv
  <2> QED
    BY <1>1, <2>3, <2>4, <2>5, <2>6 DEF HandlerInv
<1> QED
  BY <1>2, <1>3, <1>4

\* The Learner's end brings no handler, and forgets a row only with the handlers.
LEMMA LearnerHandlers ==
  ASSUME IInv, HandlerInv, LearnerNext, UNCHANGED transportVars
  PROVE  HandlerInv'
<1>1. /\ TypeOK /\ calls \subseteq Call /\ [Next]_vars
      /\ UNCHANGED <<session, sender, stopped>>
      /\ \A c \in Handlers : c \in calls /\ c.row \in Row
  BY DEF IInv, TypeOK, Next, Handlers, Call, transportVars
<1>2. \A d \in Handlers' : \E c \in Handlers : c.row = d.row
  <2> SUFFICES ASSUME NEW d \in Handlers' PROVE \E c \in Handlers : c.row = d.row
    OBVIOUS
  <2>1. d \in calls'
    BY DEF Handlers
  <2> QED
    BY <1>1, <2>1, LearnerBringsNoRow
<1>3. CASE Handlers' = {}
  BY <1>3 DEF HandlerInv
<1>4. ASSUME Handlers' # {},
             \/ Held' = Held
             \/ \E c \in Handlers : QueuesRow(c) /\ Held' = Held \cup {c.row}
      PROVE  HandlerInv'
  <2>1. Held \subseteq Held'
    BY <1>4
  <2>2. ASSUME NEW d \in Handlers', d.row \notin Held' PROVE Newer(d.row, Held')
    <3>1. PICK e \in Handlers : e.row = d.row
      BY <1>2
    <3>2. Newer(e.row, Held)
      BY <2>1, <2>2, <3>1 DEF HandlerInv
    <3>3. ASSUME NEW c \in Handlers, Held' = Held \cup {c.row}, c.row.session = e.row.session
          PROVE  c.row.step < e.row.step
      <4>1. e.row # c.row /\ e.row \notin Held
        BY <2>1, <2>2, <3>1, <3>3
      <4>2. ~(e.row.step < c.row.step)
        BY <3>3, <4>1 DEF HandlerInv
      <4>3. c.row.step # e.row.step
        BY <1>1, <3>3, <4>1 DEF Row
      <4> QED
        BY <1>1, <4>2, <4>3, UplinkAssumption DEF Row
    <3> QED
      BY <1>4, <3>1, <3>2, <3>3 DEF Newer
  <2>3. ASSUME NEW c \in Handlers', NEW d \in Handlers',
               c.row.session = d.row.session, c.row.step < d.row.step
        PROVE  c.row \in Held'
    BY <1>2, <2>1, <2>3 DEF HandlerInv
  <2>4. ASSUME NEW c \in Handlers', c.row.session = session', sender'.pc = "sending" \/ ~stopped'
        PROVE  c.row \in Held' \/ (sender'.pc = "sending" /\ c.row = sender'.row)
    BY <1>1, <1>2, <2>1, <2>4 DEF HandlerInv
  <2>5. ASSUME NEW c \in Handlers', NEW d \in calls', d.pc = "replied", c.row = d.row
        PROVE  c.row \in Held'
    <3>1. CASE d \in calls
      BY <1>2, <2>1, <2>5, <3>1 DEF HandlerInv
    <3>2. ASSUME NEW x \in calls, HandlerAccepts(x) PROVE x.row \in Held'
      <4>1. Range(pending') = Range(pending) \cup {x.row}
        BY <1>1, <3>2, RangeOfAppend DEF HandlerAccepts, Call, TypeOK, LearnerTypeOK
      <4>2. Alive'
        BY <3>2 DEF HandlerAccepts, Alive, processVars
      <4> QED
        BY <4>1, <4>2 DEF Held
    <3>3. ~OwnerExits /\ ~Crash
      BY <1>1, <1>4, ExitCalls DEF Handlers
    <3> QED
      BY <1>1, <2>5, <3>1, <3>2, <3>3, RepliesOfLearner
  <2> QED
    BY <2>2, <2>3, <2>4, <2>5 DEF HandlerInv
<1> QED
  BY <1>1, <1>3, <1>4, HeldSteps

\* What a late handler may hold stays so.
LEMMA NextHandlers ==
  IInv /\ ClientInv /\ OutgoingInv /\ KnowledgeInv /\ HandlerInv /\ [Next]_vars => HandlerInv'
<1>1. HandlerInv /\ UNCHANGED vars => HandlerInv'
  BY DEF vars, transportVars, learnerVars, HandlerInv, Handlers, Held, Alive
<1> QED
  BY <1>1, TransportHandlers, LearnerHandlers DEF Next

\* What a handler appends, and what the worker applies, keeps the queue in order.
LEMMA NextPending == IInv /\ HandlerInv /\ PendingInv /\ [Next]_vars => PendingInv'
<1> SUFFICES ASSUME IInv, HandlerInv, PendingInv, [Next]_vars PROVE PendingInv'
  OBVIOUS
<1>1. /\ pending \in Seq(Row) /\ Len(pending) \in Nat /\ DOMAIN pending = 1..Len(pending)
      /\ \A i \in DOMAIN pending : pending[i] \in Row
  BY LenProperties, ElementOfSeq DEF IInv, TypeOK, LearnerTypeOK
<1>2. \A r \in Row : r.step \in Nat
  BY UplinkAssumption DEF Row
<1>3. pending # <<>> => Head(pending) = pending[1] /\ 1 \in DOMAIN pending
  BY <1>1, EmptySeq
<1>4. CASE AppliesHead
  <2>1. pending' = pending /\ learner.seen \subseteq learner'.seen
    BY <1>4 DEF AppliesHead
  <2>2. ASSUME NEW i \in DOMAIN pending, pending[i] \notin learner'.seen
        PROVE  Newer(pending[i], learner'.seen)
    <3>1. Newer(pending[i], learner.seen)
      BY <2>1, <2>2 DEF PendingInv
    <3>2. ASSUME learner'.seen = learner.seen \cup {Head(pending)},
                 Head(pending).session = pending[i].session
          PROVE  Head(pending).step < pending[i].step
      <4>1. Head(pending) = pending[1] /\ 1 \in DOMAIN pending
        BY <1>3, <1>4 DEF AppliesHead
      <4>2. pending[i] # pending[1] /\ pending[i] \notin learner.seen /\ 1 < i
        BY <1>1, <2>2, <3>2, <4>1
      <4>3. ~(pending[i].step < pending[1].step)
        BY <1>1, <3>2, <4>1, <4>2 DEF PendingInv
      <4>4. pending[i].step # pending[1].step
        BY <1>1, <3>2, <4>1, <4>2 DEF Row
      <4> QED
        BY <1>1, <1>2, <4>1, <4>3, <4>4
    <3> QED
      BY <1>4, <3>1, <3>2 DEF AppliesHead, Newer
  <2> QED
    BY <2>1, <2>2 DEF PendingInv
<1>5. ASSUME NEW c \in Handlers, QueuesRow(c) PROVE PendingInv'
  <2> DEFINE last == Len(pending) + 1
  <2>1. /\ c.row \in Row /\ pending' = Append(pending, c.row) /\ learner' = learner
        /\ Held = learner.seen \cup Range(pending)
    BY <1>5 DEF QueuesRow, Handlers, Call, IInv, TypeOK, Held
  <2>2. /\ DOMAIN pending' = 1..last /\ pending'[last] = c.row
        /\ \A i \in DOMAIN pending : pending'[i] = pending[i]
    <3>1. /\ pending' \in Seq(Row) /\ Len(pending') = last /\ pending'[last] = c.row
          /\ \A i \in 1..Len(pending) : pending'[i] = pending[i]
      BY <1>1, <2>1, AppendProperties
    <3> QED
      BY <1>1, <3>1, LenProperties
  <2>3. \/ c.row \in learner.seen
        \/ \E k \in DOMAIN pending : pending[k] = c.row
        \/ Newer(c.row, Held)
    BY <2>1 DEF HandlerInv, Range
  <2>4. \A k \in DOMAIN pending : pending[k] \in Held
    BY <2>1 DEF Range
  <2>5. ASSUME NEW i \in DOMAIN pending', pending'[i] \notin learner.seen
        PROVE  Newer(pending'[i], learner.seen)
    <3>1. CASE i \in DOMAIN pending
      BY <2>2, <2>5, <3>1 DEF PendingInv
    <3>2. CASE i = last
      BY <2>1, <2>2, <2>3, <2>5, <3>2 DEF PendingInv, Newer
    <3> QED
      BY <1>1, <2>2, <3>1, <3>2
  <2>6. ASSUME NEW i \in DOMAIN pending', NEW j \in DOMAIN pending', j < i,
               pending'[i].session = pending'[j].session, pending'[i].step < pending'[j].step
        PROVE  \/ pending'[i] \in learner.seen
               \/ \E k \in DOMAIN pending : k < j /\ pending[k] = pending'[i]
    <3>1. j \in DOMAIN pending /\ pending'[j] = pending[j]
      BY <1>1, <2>2, <2>6
    <3>2. CASE i \in DOMAIN pending
      BY <2>2, <2>6, <3>1, <3>2 DEF PendingInv
    <3>3. CASE i = last
      <4>1. pending'[i] = c.row /\ ~Newer(c.row, Held)
        BY <1>1, <1>2, <2>1, <2>2, <2>4, <2>6, <3>1, <3>3 DEF Newer
      <4>2. ASSUME NEW k \in DOMAIN pending, pending[k] = c.row
            PROVE  c.row \in learner.seen \/ \E l \in DOMAIN pending : l < j /\ pending[l] = c.row
        <5>1. CASE k < j
          BY <4>2, <5>1
        <5>2. CASE j < k
          BY <2>6, <3>1, <4>1, <4>2, <5>2 DEF PendingInv
        <5>3. k # j
          BY <1>1, <1>2, <2>6, <3>1, <4>1, <4>2
        <5> QED
          BY <1>1, <3>1, <5>1, <5>2, <5>3
      <4> QED
        BY <2>3, <4>1, <4>2
    <3> QED
      BY <1>1, <2>2, <3>2, <3>3
  <2>7. DOMAIN pending \subseteq DOMAIN pending'
    BY <1>1, <2>2
  <2>8. ASSUME NEW i \in DOMAIN pending', NEW j \in DOMAIN pending', j < i,
               pending'[i].session = pending'[j].session, pending'[i].step < pending'[j].step
        PROVE  \/ pending'[i] \in learner.seen
               \/ \E k \in DOMAIN pending' : k < j /\ pending'[k] = pending'[i]
    BY <2>2, <2>6, <2>7, <2>8
  <2> QED
    BY <2>1, <2>5, <2>8 DEF PendingInv
<1>6. CASE PopsHead
  <2>1. pending # <<>> /\ pending' = Tail(pending) /\ learner' = learner /\ pending[1] \in learner.seen
    BY <1>3, <1>6 DEF PopsHead
  <2>2. /\ DOMAIN pending' = 1..(Len(pending) - 1)
        /\ \A i \in DOMAIN pending' : i + 1 \in DOMAIN pending /\ pending'[i] = pending[i + 1]
    <3>1. /\ pending' \in Seq(Row) /\ Len(pending') = Len(pending) - 1
          /\ \A i \in 1..Len(pending') : pending'[i] = pending[i + 1]
      BY <1>1, <2>1, HeadTailProperties
    <3> QED
      BY <1>1, <3>1, LenProperties
  <2>3. \A i \in DOMAIN pending' : pending'[i] \in learner.seen \/ Newer(pending'[i], learner.seen)
    BY <2>2 DEF PendingInv
  <2>4. ASSUME NEW i \in DOMAIN pending', NEW j \in DOMAIN pending', j < i,
               pending'[i].session = pending'[j].session, pending'[i].step < pending'[j].step,
               pending'[i] \notin learner.seen
        PROVE  \E k \in DOMAIN pending' : k < j /\ pending'[k] = pending'[i]
    <3>1. /\ i + 1 \in DOMAIN pending /\ j + 1 \in DOMAIN pending /\ j + 1 < i + 1
          /\ pending'[i] = pending[i + 1] /\ pending'[j] = pending[j + 1]
      BY <2>2, <2>4
    <3>2. PICK k \in DOMAIN pending : k < j + 1 /\ pending[k] = pending[i + 1]
      BY <2>4, <3>1 DEF PendingInv
    <3>3. k # 1
      BY <2>1, <2>4, <3>1, <3>2
    <3>4. k - 1 \in DOMAIN pending' /\ k - 1 < j /\ pending'[k - 1] = pending[k]
      BY <1>1, <2>2, <3>2, <3>3
    <3> QED
      BY <3>1, <3>2, <3>4
  <2> QED
    BY <2>1, <2>3, <2>4 DEF PendingInv
<1>7. CASE KeepsRows
  BY <1>7 DEF KeepsRows, PendingInv
<1>8. CASE LosesMemory \/ StartsFromDisk
  <2>1. pending' = <<>>
    BY <1>8 DEF LosesMemory, StartsFromDisk
  <2> QED
    BY <2>1 DEF PendingInv
<1> QED
  BY <1>4, <1>5, <1>6, <1>7, <1>8, LearnerRows

\* The head of the queue, when it is no duplicate, is newer than all that was applied.
LEMMA HeadIsNewer ==
  ASSUME IInv, PendingInv, pending # <<>>, Head(pending) \notin learner.seen
  PROVE  Newer(Head(pending), learner.seen)
<1>1. Head(pending) = pending[1] /\ 1 \in DOMAIN pending
  BY LenProperties, EmptySeq DEF IInv, TypeOK, LearnerTypeOK
<1> QED
  BY <1>1 DEF PendingInv

\* A log stays in order when a row newer than its own is appended.
LEMMA OrderedAppend ==
  ASSUME NEW s \in Seq(Row), NEW row \in Row, NEW seen, Ordered(s), Range(s) \subseteq seen,
         Newer(row, seen)
  PROVE  Ordered(Append(s, row))
<1>1. /\ DOMAIN Append(s, row) = 1..(Len(s) + 1) /\ Append(s, row)[Len(s) + 1] = row
      /\ \A i \in 1..Len(s) : Append(s, row)[i] = s[i] /\ s[i] \in seen
      /\ DOMAIN s = 1..Len(s) /\ Len(s) \in Nat
  <2>1. /\ Append(s, row) \in Seq(Row) /\ Len(Append(s, row)) = Len(s) + 1
        /\ Append(s, row)[Len(s) + 1] = row
        /\ \A i \in 1..Len(s) : Append(s, row)[i] = s[i]
    BY AppendProperties
  <2> QED
    BY <2>1, LenProperties DEF Range
<1> QED
  BY <1>1 DEF Ordered, Newer

\* The worker applies nothing out of order; a restart takes the saved log.
LEMMA NextRecords == IInv /\ PendingInv /\ RecordsInv /\ [Next]_vars => RecordsInv'
<1> SUFFICES ASSUME IInv, PendingInv, RecordsInv, [Next]_vars PROVE RecordsInv'
  OBVIOUS
<1>1. learner.records \in Seq(Row)
  BY DEF IInv, TypeOK, LearnerTypeOK, Snapshot
<1>2. CASE AppliesHead
  <2>1. CASE UNCHANGED <<learner, disk>>
    BY <2>1 DEF RecordsInv
  <2>2. CASE learner'.records = learner.records /\ disk' = disk
    BY <1>2, <2>2 DEF AppliesHead, RecordsInv
  <2>3. CASE learner'.records = Append(learner.records, Head(pending)) /\ Head(pending) \notin learner.seen
    <3>1. Ordered(learner'.records)
      BY <1>1, <1>2, <2>3, HeadIsNewer, OrderedAppend DEF AppliesHead, RecordsInv
    <3>2. Range(learner'.records) = Range(learner.records) \cup {Head(pending)}
      BY <1>1, <1>2, <2>3, RangeOfAppend DEF AppliesHead
    <3> QED
      BY <1>2, <2>3, <3>1, <3>2 DEF AppliesHead, RecordsInv
  <2> QED
    BY <1>2, <2>1, <2>2, <2>3 DEF AppliesHead
<1>3. ASSUME NEW c \in Handlers, QueuesRow(c) PROVE RecordsInv'
  BY <1>3 DEF QueuesRow, RecordsInv
<1>4. CASE PopsHead \/ KeepsRows
  BY <1>4 DEF PopsHead, KeepsRows, RecordsInv
<1>5. CASE LosesMemory
  BY <1>5, RangeOfEmpty DEF LosesMemory, RecordsInv, Ordered
<1>6. CASE StartsFromDisk
  BY <1>6 DEF StartsFromDisk, RecordsInv
<1> QED
  BY <1>2, <1>3, <1>4, <1>5, <1>6, LearnerRows

-----------------------------------------------------------------------------
(* The theorems. *)

OInv == /\ ClientInv /\ OutgoingInv /\ PrefixInv /\ KnowledgeInv /\ HandlerInv
        /\ PendingInv /\ RecordsInv

\* The invariant holds of the start
LEMMA InitOInv == Init => OInv
<1> SUFFICES ASSUME Init PROVE OInv
  OBVIOUS
<1>1. calls = {} /\ promised = {} /\ outgoing = <<>> /\ pending = <<>> /\ produced = 0
      /\ learner = Untrained /\ disk = Untrained /\ sender = IdleSender
  BY DEF Init, TransportInit, LearnerInit
<1>2. Untrained.seen = {} /\ Untrained.records = <<>> /\ IdleSender.pc # "sending"
  BY DEF Untrained, IdleSender
<1>3. ClientInv /\ HandlerInv
  BY <1>1 DEF ClientInv, HandlerInv, Handlers
<1>4. OutgoingInv
  <2>1. Len(outgoing) = 0 /\ Sent = produced - Len(outgoing)
    BY <1>1 DEF Sent
  <2>2. Sent = 0
    BY <1>1, <2>1
  <2> QED
    BY <1>1, <1>2, <2>1, <2>2 DEF OutgoingInv
<1>5. PrefixInv
  BY <1>1 DEF PrefixInv, NoGapIsAcknowledged
<1>6. KnowledgeInv
  BY <1>1, <1>2, RangeOfEmpty DEF KnowledgeInv, KnownInv, Known
<1>7. PendingInv
  BY <1>1 DEF PendingInv
<1>8. RecordsInv
  BY <1>1, <1>2, RangeOfEmpty DEF RecordsInv, Ordered
<1> QED
  BY <1>3, <1>4, <1>5, <1>6, <1>7, <1>8 DEF OInv

\* and is kept by every step.
LEMMA NextOInv == IInv /\ OInv /\ [Next]_vars => OInv'
  BY NextClient, NextOutgoing, NextPrefix, NextKnowledge, NextHandlers, NextPending, NextRecords
     DEF OInv, IInv

\* The inductive invariant of the order, on top of that of the uplink.
THEOREM OrderInvariant == Spec => [](IInv /\ OInv)
<1> QED
  BY InitIInv, NextIInv, InitOInv, NextOInv, PTL DEF Spec

\* An uplink that loses a row, to a full queue, a deadline or a refusal, gets no later
\* one acknowledged (real_actor.py:356-359).
THEOREM AcknowledgesWithoutGap == Spec => []NoGapIsAcknowledged
<1>1. OInv => NoGapIsAcknowledged
  BY DEF OInv, PrefixInv
<1> QED
  BY <1>1, OrderInvariant, PTL

\* Retries, abandoned handlers and restarts apply no row twice, and the rows of an Actor
\* only in the order it produced them (_ingest_prepared, real_learner.py:402-405).
THEOREM AppliesOnceInOrder == Spec => []ReplayIsExactlyOnceInOrder
<1>1. OInv => ReplayIsExactlyOnceInOrder
  BY DEF OInv, RecordsInv, Ordered, ReplayIsExactlyOnceInOrder
<1> QED
  BY <1>1, OrderInvariant, PTL

-----------------------------------------------------------------------------
(* The two processes implement TransitionLog. *)

\* An uplink that starts maps to an empty log.
LEMMA InitLog == Init => Log!Init
  BY DEF Init, TransportInit, LearnerInit, Untrained, Log!Init

\* A row is promised only when its predecessors are.
LEMMA StepPromises ==
  ASSUME IInv, OInv, NEW c \in calls, HandlerAccepts(c), UNCHANGED transportVars
  PROVE  \E row \in Row : Log!Promise(row)
<1>1. c.row \in Row
  BY DEF IInv, TypeOK, Call
<1>2. Log!Promise(c.row)
  BY DEF HandlerAccepts, transportVars, OInv, PrefixInv, Log!Promise
<1> QED
  BY <1>1, <1>2

\* Only an Actor counts rows, and only acknowledged ones.
LEMMA StepConfirms ==
  ASSUME IInv, TransportNext, UNCHANGED learnerVars
  PROVE  (\E rows \in SUBSET promised : Log!Confirm(rows)) \/ UNCHANGED Log!vars
<1>1. done \ errored \subseteq promised
  BY DEF IInv, ReplyInv
<1>2. TakeConfirmed \/ Close => Log!Confirm(done \ errored)
  BY DEF TakeConfirmed, Close, learnerVars, Log!Confirm
<1>3. TakeConfirmed \/ Close \/ UNCHANGED confirmed
  BY DEF TransportNext, ControlLoop, Collects, SenderThread, Enqueue, EnqueueOnFullQueue, Drain,
         NextActor, SenderTakes, SenderAccepted, SenderRejected, SenderRetries, SenderGivesUp,
         ReceiverFails
<1> QED
  BY <1>1, <1>2, <1>3 DEF learnerVars, Log!vars

\* Every other step of the Learner applies a row, saves, dies, recovers, or moves none.
LEMMA StepApplies ==
  ASSUME IInv, OInv, LearnerNext, UNCHANGED transportVars, UNCHANGED promised
  PROVE  \/ \E row \in promised : Log!Apply(row)
         \/ Log!Save \/ Log!Die \/ Log!Recover \/ UNCHANGED Log!vars
<1>1. [Next]_vars /\ confirmed' = confirmed /\ pending \in Seq(Row)
  BY DEF Next, transportVars, IInv, TypeOK, LearnerTypeOK
<1>2. CASE AppliesHead
  <2>1. Head(pending) \in promised
    BY <1>1, <1>2, HeadIsQueued DEF AppliesHead, OInv, KnowledgeInv
  <2>2. CASE /\ learner'.records = Append(learner.records, Head(pending))
             /\ disk' \in {disk, learner'} /\ Head(pending) \notin learner.seen
    <3>1. Newer(Head(pending), learner.seen)
      BY <1>2, <2>2, HeadIsNewer DEF AppliesHead, OInv
    <3>2. \A i \in DOMAIN learner.records : learner.records[i] \in learner.seen
      BY DEF OInv, RecordsInv, Range
    <3>3. Log!Apply(Head(pending))
      BY <1>1, <2>2, <3>1, <3>2 DEF Newer, Log!Apply
    <3> QED
      BY <2>1, <3>3
  <2> QED
    BY <1>1, <1>2, <2>2 DEF AppliesHead, Log!vars
<1>3. ASSUME NEW c \in Handlers, QueuesRow(c) PROVE UNCHANGED Log!vars
  BY <1>1, <1>3 DEF QueuesRow, Log!vars
<1>4. CASE PopsHead \/ KeepsRows
  BY <1>1, <1>4 DEF PopsHead, KeepsRows, Log!vars, Log!Save
<1>5. CASE LosesMemory
  BY <1>1, <1>5 DEF LosesMemory, Log!Die
<1>6. CASE StartsFromDisk
  BY <1>1, <1>6 DEF StartsFromDisk, Log!Recover
<1> QED
  BY <1>1, <1>2, <1>3, <1>4, <1>5, <1>6, LearnerRows

\* Through deadlines, retries, full queues, torn rows, failed saves, crashes and restarts,
\* an Actor and a Learner together behave as the log does (real_learner.py:400-437).
THEOREM ImplementsLog == Spec => ImplementsTransitionLog
<1>1. IInv /\ OInv /\ [Next]_vars => [Log!Next]_(Log!vars)
  <2> SUFFICES ASSUME IInv, OInv, [Next]_vars PROVE [Log!Next]_(Log!vars)
    OBVIOUS
  <2>1. CASE TransportNext /\ UNCHANGED learnerVars
    BY <2>1, StepConfirms DEF Log!Next
  <2>2. CASE LearnerNext /\ UNCHANGED transportVars
    BY <2>2, Promises, StepPromises, StepApplies DEF Log!Next
  <2>3. CASE UNCHANGED vars
    BY <2>3 DEF vars, transportVars, learnerVars, Log!vars
  <2> QED
    BY <2>1, <2>2, <2>3 DEF Next
<1> QED
  BY <1>1, InitLog, OrderInvariant, PTL DEF Spec, ImplementsTransitionLog, Log!Spec

===============================================================================
