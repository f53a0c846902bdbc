------------------------ MODULE ParameterStreamProofs ------------------------
(***************************************************************************)
(* ParameterStream for every number of Actors, queue capacity, publication  *)
(* interval and number of lives: types, and that what reaches an Actor is   *)
(* in order.                                                                *)
(***************************************************************************)
EXTENDS ParameterStream, TLAPS

USE BoundsAssumption

\* p was published no later than q: a version is published in one state only.
Precedes(p, q) == p.version <= q.version /\ (p.version = q.version => p = q)

\* An envelope of this life, sent no later than anything published now.
Sent(e) == e.seq <= sequence /\ Precedes(e.policy, published)

\* What the Learner keeps: only the owner's second publication takes _latest back,
\* and never before its first one.
LearnerInv ==
    /\ Precedes(published, policy)
    /\ Precedes(saved.published, saved.policy)
    /\ latest # <<>> => Sent(latest[1])
    /\ first # <<>> =>
           Sent(first[1]) /\ latest # <<>> /\ first[1].seq <= latest[1].seq
    /\ boot = "down" => latest = <<>>
    /\ boot = "published" <=> first # <<>>

\* A handler has sent nothing that comes after what it may still take.
StreamInv(a) ==
    LET s == stream[a] e == s.envelope IN
    /\ s.pc = "none" => s = NoStream
    /\ boot = "down" => s.pc = "none"
    /\ e = <<>> => s.last = 0 /\ s.pc # "send"
    /\ e # <<>> =>
           /\ s.last = e[1].seq /\ Sent(e[1])
           /\ latest # <<>> /\ s.last < latest[1].seq => Precedes(e[1].policy, latest[1].policy)
           /\ first # <<>> /\ s.last < first[1].seq => Precedes(e[1].policy, first[1].policy)

\* The Actor, its queue and its handler hold successive envelopes of one life.
ChainInv(a) ==
    LET q == queue[a] s == stream[a] known == actor[a].policy IN
    /\ \A i \in DOMAIN q :
           /\ actor[a].seq < q[i].seq
           /\ known # <<>> => Precedes(known[1], q[i].policy)
           /\ \A j \in DOMAIN q : i < j =>
                  q[i].seq < q[j].seq /\ Precedes(q[i].policy, q[j].policy)
           /\ s.pc # "none" =>
                  /\ q[i].seq <= s.last /\ (s.pc = "send" => q[i].seq < s.last)
                  /\ s.envelope # <<>> /\ Precedes(q[i].policy, s.envelope[1].policy)
    /\ s.pc # "none" =>
           /\ actor[a].seq <= s.last /\ (s.pc = "send" => actor[a].seq < s.last)
           /\ known # <<>> =>
                  s.envelope # <<>> /\ Precedes(known[1], s.envelope[1].policy)

ActorInv(a) ==
    /\ actor[a].refused = "no"
    /\ actor[a].pc = "unstarted" =>
           actor[a] = NewActor /\ queue[a] = <<>> /\ stream[a] = NoStream
    /\ actor[a].pc = "gone" => actor[a].policy = <<>>
    /\ actor[a].pc = "up" => ChainInv(a)

IInv == TypeOK /\ LearnerInv /\ \A a \in Actor : StreamInv(a) /\ ActorInv(a)

-----------------------------------------------------------------------------
LEMMA PrecedesReflexive == \A p \in Policy : Precedes(p, p)
  BY DEF Precedes, Policy

LEMMA PrecedesTransitive ==
    ASSUME NEW p \in Policy, NEW q \in Policy, NEW r \in Policy,
           Precedes(p, q), Precedes(q, r)
    PROVE  Precedes(p, r)
  BY DEF Precedes, Policy

\* Each action keeps the types.
LEMMA TypeInit == Init => TypeOK
  BY DEF Init, TypeOK, Seed, NewActor, NoStream, Policy, Checkpoint, Optional

LEMMA TypeStep == TypeOK /\ [Next]_vars => TypeOK'
  <1> SUFFICES ASSUME TypeOK, [Next]_vars PROVE TypeOK'
    OBVIOUS
  <1> USE DEF TypeOK
  <1>1. NextEnvelope(policy) \in Envelope /\ NextEnvelope(published) \in Envelope
    BY DEF NextEnvelope, Envelope
  <1>2. \A e \in Envelope : <<e>> \in Optional(Envelope)
    BY DEF Optional
  <1>3. <<>> \in Optional(Envelope) /\ \A e \in Optional(Envelope) : e # <<>> => e[1] \in Envelope
    BY DEF Optional
  <1>4. CASE Start
    BY <1>4 DEF Start
  <1>5. CASE FirstPublish
    BY <1>1, <1>2, <1>5 DEF FirstPublish, PublishParameters, Send
  <1>6. CASE PublishAgain
    BY <1>3, <1>6 DEF PublishAgain
  <1>7. CASE Train
    <2>1. policy' = [version |-> policy.version + 1, life |-> life]
      BY <1>7 DEF Train, Policy
    <2>. QED
      BY <1>7, <2>1 DEF Train, Policy
  <1>8. CASE PublishTrained
    BY <1>1, <1>2, <1>8 DEF PublishTrained, PublishParameters, Send
  <1>9. CASE SaveCheckpoint
    BY <1>9 DEF SaveCheckpoint, Payload, Checkpoint
  <1>10. CASE Stop
    BY <1>3, <1>10 DEF Stop, Payload, Checkpoint, NoStream
  <1>11. ASSUME NEW a \in Actor, TakeLatest(a) PROVE TypeOK'
    <2>1. latest[1].seq \in Nat /\ <<latest[1]>> \in Optional(Envelope)
      BY <1>2, <1>3, <1>11 DEF TakeLatest, Newer, Envelope
    <2>. QED
      BY <2>1, <1>11 DEF TakeLatest, learnerVars
  <1>12. ASSUME NEW a \in Actor, WaitTimeout(a) PROVE TypeOK'
    BY <1>12 DEF WaitTimeout, learnerVars
  <1>13. ASSUME NEW a \in Actor, Heartbeat(a) PROVE TypeOK'
    BY <1>1, <1>2, <1>13 DEF Heartbeat, HeartbeatPolicy, Send
  <1>14. ASSUME NEW a \in Actor, Deliver(a) PROVE TypeOK'
    <2>1. stream[a].envelope[1] \in Envelope
      BY <1>3, <1>14 DEF Deliver
    <2>2. queue' \in [Actor -> Seq(Envelope)]
      BY <2>1, <1>14 DEF Deliver
    <2>3. Len(queue'[a]) = Len(queue[a]) + 1
      BY <2>1, <1>14 DEF Deliver
    <2>4. \A b \in Actor : Len(queue'[b]) <= QueueCapacity
      BY <2>3, <1>14 DEF Deliver
    <2>. QED
      BY <2>2, <2>4, <1>14 DEF Deliver, learnerVars
  <1>15. ASSUME NEW a \in Actor, DeliverToNobody(a) PROVE TypeOK'
    BY <1>15 DEF DeliverToNobody, learnerVars
  <1>16. ASSUME NEW a \in Actor, EndStream(a) PROVE TypeOK'
    BY <1>3, <1>16 DEF EndStream, learnerVars, NoStream
  <1>17. ASSUME NEW a \in Actor, Subscribe(a) PROVE TypeOK'
    BY <1>17 DEF Subscribe, learnerVars
  <1>18. ASSUME NEW a \in Actor, AcceptLatest(a) PROVE TypeOK'
    <2>. DEFINE e == Head(queue[a])
    <2>1. e \in Envelope /\ Tail(queue[a]) \in Seq(Envelope)
          /\ Len(Tail(queue[a])) <= Len(queue[a])
      BY <1>18 DEF AcceptLatest
    <2>2. <<e.policy>> \in Optional(Policy) /\ e.seq \in Nat
      BY <2>1 DEF Envelope, Optional
    <2>3. Verdict(a, e) \in {"no", "sequence", "rollback", "mismatch"}
      BY DEF Verdict
    <2>4. actor' \in [Actor -> [pc : {"unstarted", "up", "gone"}, seq : Nat,
                                policy : Optional(Policy),
                                refused : {"no", "sequence", "rollback", "mismatch"}]]
      <3>. HIDE DEF e
      <3>. QED
        BY <2>2, <2>3, <1>18 DEF AcceptLatest, e
    <2>. QED
      BY <2>1, <2>4, <1>18 DEF AcceptLatest, learnerVars
  <1>19. ASSUME NEW a \in Actor, Leave(a) PROVE TypeOK'
    <2>1. <<>> \in Optional(Policy)
      BY DEF Optional
    <2>2. queue' \in [Actor -> Seq(Envelope)] /\ \A b \in Actor : Len(queue'[b]) <= QueueCapacity
      BY <1>19 DEF Leave
    <2>3. actor' = [actor EXCEPT ![a] = [pc |-> "gone", seq |-> 0, policy |-> <<>>,
                                        refused |-> "no"]]
      <3>1. [NewActor EXCEPT !.pc = "gone"]
                = [pc |-> "gone", seq |-> 0, policy |-> <<>>, refused |-> "no"]
        BY DEF NewActor
      <3>. QED
        BY <3>1, <1>19 DEF Leave
    <2>. QED
      BY <2>1, <2>2, <2>3, <1>19 DEF Leave, learnerVars
  <1>20. CASE UNCHANGED vars
    BY <1>20 DEF vars, learnerVars
  <1>. QED
    BY <1>4, <1>5, <1>6, <1>7, <1>8, <1>9, <1>10, <1>11, <1>12, <1>13, <1>14, <1>15,
       <1>16, <1>17, <1>18, <1>19, <1>20 DEF Next, Learner, Handler

-----------------------------------------------------------------------------
\* What TypeOK gives of one handler, queue and Actor.
LEMMA Typed ==
    ASSUME TypeOK
    PROVE  /\ policy \in Policy /\ published \in Policy /\ sequence \in Nat
           /\ saved.policy \in Policy /\ saved.published \in Policy /\ saved.sequence \in Nat
           /\ latest # <<>> => latest[1] \in Envelope
           /\ first # <<>> => first[1] \in Envelope
           /\ \A a \in Actor :
                  /\ stream[a].envelope # <<>> => stream[a].envelope[1] \in Envelope
                  /\ stream[a].last \in Nat
                  /\ queue[a] \in Seq(Envelope)
                  /\ actor[a].seq \in Nat
                  /\ actor[a].policy # <<>> => actor[a].policy[1] \in Policy
  BY DEF TypeOK, Optional, Checkpoint

LEMMA EnvelopeParts == \A e \in Envelope : e.policy \in Policy /\ e.seq \in Nat /\ e.seq > 0
  BY DEF Envelope

LEMMA NextEnvelopeParts ==
    \A p \in Policy : NextEnvelope(p).policy = p /\ NextEnvelope(p).seq = sequence + 1
  BY DEF NextEnvelope

\* A publication comes after everything sent before it.
LEMMA PublicationIsLast ==
    ASSUME TypeOK, LearnerInv, NEW e \in Envelope, Sent(e)
    PROVE  Precedes(e.policy, policy)
  BY Typed, EnvelopeParts, PrecedesTransitive DEF Sent, LearnerInv

LEMMA LearnerInit == Init => LearnerInv
  <1> SUFFICES ASSUME Init PROVE LearnerInv
    OBVIOUS
  <1>1. PICK updates \in 0..MaxVersion :
            saved = [policy |-> Seed(updates),
                     published |-> Seed(updates - (updates % PublishInterval)),
                     sequence |-> updates \div PublishInterval]
    BY DEF Init
  <1>2. updates \in Nat /\ updates % PublishInterval \in Nat
    OBVIOUS
  <1>3. Precedes(saved.published, saved.policy)
    <2>1. updates - (updates % PublishInterval) <= updates
      BY <1>2
    <2>. QED
      BY <1>1, <1>2, <2>1 DEF Precedes, Seed
  <1>. QED
    BY <1>3 DEF Init, LearnerInv

LEMMA LearnerStep ==
    ASSUME TypeOK, LearnerInv, \A a \in Actor : StreamInv(a), [Next]_vars
    PROVE  LearnerInv'
  <1> USE DEF LearnerInv
  <1>1. CASE Start
    BY <1>1 DEF Start, Sent
  <1>2. CASE FirstPublish
    <2>. DEFINE e == NextEnvelope(policy)
    <2>1. /\ latest' = <<e>> /\ first' = <<e>> /\ sequence' = sequence + 1
          /\ published' = policy /\ policy' = policy /\ saved' = saved /\ boot' = "published"
      BY <1>2 DEF FirstPublish, PublishParameters, Send
    <2>2. e.seq = sequence + 1 /\ e.policy = policy
      BY Typed, NextEnvelopeParts
    <2>3. e.seq <= sequence' /\ Precedes(e.policy, published')
      BY <2>1, <2>2, Typed, PrecedesReflexive
    <2>. HIDE DEF e
    <2>4. latest'[1] = e /\ first'[1] = e /\ first' # <<>> /\ latest' # <<>>
      BY <2>1
    <2>. QED
      BY <2>1, <2>2, <2>3, <2>4, Typed, PrecedesReflexive DEF Sent
  <1>3. CASE PublishAgain
    BY <1>3 DEF PublishAgain, Sent
  <1>4. CASE Train
    <2>1. policy'.version = policy.version + 1
      BY <1>4, Typed DEF Train, Policy
    <2>2. Precedes(published, policy')
      BY <2>1, Typed DEF Precedes, Policy
    <2>. QED
      BY <1>4, <2>2 DEF Train, Sent
  <1>5. CASE PublishTrained
    <2>1. latest' = <<NextEnvelope(policy)>> /\ sequence' = sequence + 1 /\ published' = policy
      BY <1>5 DEF PublishTrained, PublishParameters, Send
    <2>2. first # <<>> => first[1].seq <= sequence + 1 /\ Precedes(first[1].policy, policy)
      BY Typed, EnvelopeParts, PublicationIsLast DEF Sent
    <2>. QED
      BY <1>5, <2>1, <2>2, Typed, NextEnvelopeParts, PrecedesReflexive, EnvelopeParts
         DEF PublishTrained, Sent
  <1>6. CASE SaveCheckpoint
    BY <1>6 DEF SaveCheckpoint, Payload, Sent
  <1>7. CASE Stop
    BY <1>7 DEF Stop, Payload
  <1>8. ASSUME NEW a \in Actor, Heartbeat(a) PROVE LearnerInv'
    <2>. DEFINE e == NextEnvelope(published)
    <2>1. /\ latest' = <<e>> /\ sequence' = sequence + 1
          /\ UNCHANGED <<boot, policy, published, first, saved>>
      BY <1>8 DEF Heartbeat, HeartbeatPolicy, Send
    <2>2. e.seq = sequence + 1 /\ e.policy = published
      BY Typed, NextEnvelopeParts
    <2>3. Precedes(e.policy, published)
      BY <2>2, Typed, PrecedesReflexive
    <2>4. boot # "down"
      BY <1>8 DEF Heartbeat, StreamInv
    <2>. HIDE DEF e
    <2>5. latest'[1] = e /\ latest' # <<>>
      BY <2>1
    <2>. QED
      BY <2>1, <2>2, <2>3, <2>4, <2>5, Typed, EnvelopeParts DEF Sent
  <1>9. ASSUME NEW a \in Actor,
               \/ TakeLatest(a) \/ WaitTimeout(a) \/ Deliver(a) \/ DeliverToNobody(a)
               \/ EndStream(a) \/ Subscribe(a) \/ AcceptLatest(a) \/ Leave(a)
        PROVE  LearnerInv'
    BY <1>9 DEF TakeLatest, WaitTimeout, Deliver, DeliverToNobody, EndStream, Subscribe,
                AcceptLatest, Leave, learnerVars, Sent
  <1>10. CASE UNCHANGED vars
    BY <1>10 DEF vars, learnerVars, Sent
  <1>. QED
    BY <1>1, <1>2, <1>3, <1>4, <1>5, <1>6, <1>7, <1>8, <1>9, <1>10 DEF Next, Learner, Handler

-----------------------------------------------------------------------------
\* What the handler has sent precedes what is published: before, while and after
\* one more envelope goes out.
LEMMA StreamStep ==
    ASSUME TypeOK, LearnerInv, \A a \in Actor : StreamInv(a) /\ ActorInv(a),
           NEW b \in Actor, [Next]_vars
    PROVE  StreamInv(b)'
  <1> USE DEF StreamInv
  <1>1. CASE Start
    BY <1>1 DEF Start, Sent
  <1>2. ASSUME latest' = <<NextEnvelope(policy)>>, sequence' = sequence + 1,
               published' = policy, stream' = stream, boot # "down", boot' # "down",
               first' = first \/ first' = latest'
        PROVE  StreamInv(b)'
    <2>. DEFINE e == stream[b].envelope
    <2>1. SUFFICES ASSUME e # <<>>
                   PROVE  Sent(e[1])' /\ Precedes(e[1].policy, policy)
      BY <1>2, Typed, NextEnvelopeParts
    <2>2. Precedes(e[1].policy, policy)
      BY <2>1, Typed, PublicationIsLast
    <2>. QED
      BY <2>1, <2>2, <1>2, Typed, EnvelopeParts DEF Sent
  <1>3. CASE FirstPublish
    BY <1>2, <1>3 DEF FirstPublish, PublishParameters, Send
  <1>4. CASE PublishTrained
    BY <1>2, <1>4 DEF PublishTrained, PublishParameters, Send
  <1>5. CASE PublishAgain
    BY <1>5 DEF PublishAgain, LearnerInv, Sent
  <1>6. CASE Train
    BY <1>6 DEF Train, Sent
  <1>7. CASE SaveCheckpoint
    BY <1>7 DEF SaveCheckpoint, Sent
  <1>8. CASE Stop
    BY <1>8 DEF Stop, NoStream
  <1>9. ASSUME NEW a \in Actor, TakeLatest(a) PROVE StreamInv(b)'
    <2>1. stream'[b] = IF b = a THEN [pc |-> "send", last |-> latest[1].seq,
                                      envelope |-> <<latest[1]>>]
                       ELSE stream[b]
      BY <1>9 DEF TakeLatest, TypeOK
    <2>2. /\ latest # <<>> /\ Sent(latest[1]) /\ boot # "down"
          /\ first # <<>> => first[1].seq <= latest[1].seq
          /\ UNCHANGED learnerVars
      BY <1>9 DEF TakeLatest, Newer, LearnerInv
    <2>. QED
      BY <2>1, <2>2, Typed, EnvelopeParts DEF learnerVars, Sent
  <1>10. ASSUME NEW a \in Actor, Heartbeat(a) PROVE StreamInv(b)'
    <2>. DEFINE h == NextEnvelope(published)
    <2>1. /\ stream'[b] = IF b = a THEN [pc |-> "send", last |-> sequence + 1,
                                         envelope |-> <<h>>]
                          ELSE stream[b]
          /\ latest' = <<h>> /\ sequence' = sequence + 1
          /\ UNCHANGED <<boot, published, first>>
      BY <1>10 DEF Heartbeat, HeartbeatPolicy, Send, TypeOK
    <2>2. h.seq = sequence + 1 /\ h.policy = published /\ Precedes(published, published)
      BY Typed, NextEnvelopeParts, PrecedesReflexive
    <2>3. first # <<>> => first[1].seq <= sequence
      BY DEF LearnerInv, Sent
    <2>4. boot # "down"
      BY <1>10 DEF Heartbeat
    <2>. HIDE DEF h
    <2>5. <<h>>[1] = h /\ <<h>> # <<>>
      OBVIOUS
    <2>6. CASE b = a
      BY <2>1, <2>2, <2>3, <2>4, <2>5, <2>6, Typed, EnvelopeParts DEF Sent
    <2>7. CASE b # a
      BY <2>1, <2>2, <2>3, <2>4, <2>5, <2>7, Typed, EnvelopeParts DEF Sent
    <2>. QED
      BY <2>6, <2>7
  <1>11. ASSUME NEW a \in Actor,
                WaitTimeout(a) \/ Deliver(a) \/ DeliverToNobody(a)
         PROVE  StreamInv(b)'
    <2>1. /\ UNCHANGED learnerVars
          /\ stream[a].pc # "none"
          /\ \E pc \in {"wait", "heartbeat"} : stream' = [stream EXCEPT ![a].pc = pc]
      BY <1>11 DEF WaitTimeout, Deliver, DeliverToNobody
    <2>. QED
      BY <2>1 DEF learnerVars, Sent, TypeOK
  <1>12. ASSUME NEW a \in Actor, Subscribe(a) PROVE StreamInv(b)'
    <2>1. /\ UNCHANGED learnerVars /\ boot # "down"
          /\ stream[a] = NoStream
          /\ stream' = [stream EXCEPT ![a].pc = "wait"]
      BY <1>12 DEF Subscribe, ActorInv
    <2>. QED
      BY <2>1 DEF learnerVars, Sent, TypeOK, NoStream
  <1>13. ASSUME NEW a \in Actor, EndStream(a) PROVE StreamInv(b)'
    BY <1>13 DEF EndStream, learnerVars, Sent, TypeOK, NoStream
  <1>14. ASSUME NEW a \in Actor, AcceptLatest(a) \/ Leave(a) PROVE StreamInv(b)'
    BY <1>14 DEF AcceptLatest, Leave, learnerVars, Sent
  <1>15. CASE UNCHANGED vars
    BY <1>15 DEF vars, learnerVars, Sent
  <1>. QED
    BY <1>1, <1>3, <1>4, <1>5, <1>6, <1>7, <1>8, <1>9, <1>10, <1>11, <1>12, <1>13, <1>14,
       <1>15 DEF Next, Learner, Handler

-----------------------------------------------------------------------------
\* An Actor with a chain before it refuses nothing: its head comes next.
LEMMA HeadIsAccepted ==
    ASSUME TypeOK, NEW a \in Actor, ChainInv(a), queue[a] # <<>>
    PROVE  Verdict(a, Head(queue[a])) = "no"
  <1>. DEFINE e == Head(queue[a])
  <1>1. e = queue[a][1] /\ 1 \in DOMAIN queue[a] /\ e \in Envelope
    BY Typed
  <1>2. actor[a].seq < e.seq /\ (actor[a].policy # <<>> => Precedes(actor[a].policy[1], e.policy))
    BY <1>1 DEF ChainInv
  <1>. HIDE DEF e
  <1>3. ~(e.seq <= actor[a].seq)
    BY <1>1, <1>2, Typed, EnvelopeParts
  <1>4. actor[a].policy # <<>> =>
            /\ ~(e.policy.version < actor[a].policy[1].version)
            /\ e.policy.version = actor[a].policy[1].version => e.policy = actor[a].policy[1]
    <2> SUFFICES ASSUME actor[a].policy # <<>>,
                        NEW p \in Policy, p = actor[a].policy[1],
                        NEW r \in Policy, r = e.policy
                 PROVE  ~(r.version < p.version) /\ (r.version = p.version => r = p)
      BY <1>1, Typed, EnvelopeParts
    <2>1. Precedes(p, r)
      BY <1>2
    <2>. QED
      BY <2>1 DEF Precedes, Policy
  <1>5. Verdict(a, e) = "no"
    BY <1>3, <1>4 DEF Verdict
  <1>. QED
    BY <1>5 DEF e

\* The chain after the handler takes an envelope e that comes after its last one.
LEMMA ChainGrows ==
    ASSUME TypeOK, NEW a \in Actor, StreamInv(a), ChainInv(a),
           stream[a].pc # "none", NEW e \in Envelope,
           stream[a].last < e.seq,
           stream[a].envelope # <<>> => Precedes(stream[a].envelope[1].policy, e.policy),
           stream'[a] = [pc |-> "send", last |-> e.seq, envelope |-> <<e>>],
           UNCHANGED <<queue[a], actor[a]>>
    PROVE  ChainInv(a)'
  <1>. DEFINE q == queue[a]
              known == actor[a].policy
  <1>1. stream'[a].envelope # <<>> /\ stream'[a].envelope[1] = e /\ stream'[a].last = e.seq
    OBVIOUS
  <1>2. \A i \in DOMAIN q : q[i].seq < e.seq /\ Precedes(q[i].policy, e.policy)
    <2> SUFFICES ASSUME NEW i \in DOMAIN q PROVE q[i].seq < e.seq /\ Precedes(q[i].policy, e.policy)
      OBVIOUS
    <2>1. q[i] \in Envelope
      BY Typed
    <2>2. /\ q[i].seq <= stream[a].last /\ stream[a].envelope # <<>>
          /\ Precedes(q[i].policy, stream[a].envelope[1].policy)
      BY DEF ChainInv
    <2>. QED
      BY <2>1, <2>2, Typed, EnvelopeParts, PrecedesTransitive
  <1>3. known # <<>> => Precedes(known[1], e.policy)
    BY Typed, EnvelopeParts, PrecedesTransitive DEF ChainInv
  <1>4. actor[a].seq < e.seq
    BY Typed, EnvelopeParts DEF ChainInv
  <1>. QED
    BY <1>1, <1>2, <1>3, <1>4, Typed, EnvelopeParts DEF ChainInv

LEMMA ActorStep ==
    ASSUME TypeOK, TypeOK', LearnerInv, \A a \in Actor : StreamInv(a) /\ ActorInv(a),
           NEW b \in Actor, [Next]_vars
    PROVE  ActorInv(b)'
  <1> USE DEF ActorInv
  <1>1. ASSUME UNCHANGED <<stream[b], queue[b], actor[b]>> PROVE ActorInv(b)'
    BY <1>1 DEF ChainInv, NewActor, NoStream
  <1>2. CASE Start \/ FirstPublish \/ PublishAgain \/ Train \/ PublishTrained \/ SaveCheckpoint
    BY <1>1, <1>2 DEF Start, FirstPublish, PublishAgain, Train, PublishTrained, SaveCheckpoint
  <1>3. CASE Stop
    BY <1>3 DEF Stop, ChainInv, NoStream, NewActor
  <1>4. ASSUME NEW a \in Actor, a # b,
               Handler(a) \/ Subscribe(a) \/ AcceptLatest(a) \/ Leave(a)
        PROVE  ActorInv(b)'
    <2>1. stream'[b] = stream[b]
      BY <1>4 DEF Handler, TakeLatest, WaitTimeout, Heartbeat, Deliver, DeliverToNobody,
                  EndStream, Subscribe, AcceptLatest, Leave, TypeOK
    <2>2. queue'[b] = queue[b]
      BY <1>4 DEF Handler, TakeLatest, WaitTimeout, Heartbeat, Deliver, DeliverToNobody,
                  EndStream, Subscribe, AcceptLatest, Leave, TypeOK
    <2>3. actor'[b] = actor[b]
      BY <1>4 DEF Handler, TakeLatest, WaitTimeout, Heartbeat, Deliver, DeliverToNobody,
                  EndStream, Subscribe, AcceptLatest, Leave, TypeOK
    <2>. QED
      BY <2>1, <2>2, <2>3, <1>1
  <1>5. CASE TakeLatest(b)
    <2>1. /\ stream'[b] = [pc |-> "send", last |-> latest[1].seq, envelope |-> <<latest[1]>>]
          /\ stream[b].pc = "wait" /\ latest # <<>> /\ stream[b].last < latest[1].seq
          /\ UNCHANGED <<queue[b], actor[b]>>
      BY <1>5, Typed, EnvelopeParts DEF TakeLatest, Newer, TypeOK
    <2>2. stream[b].envelope # <<>> => Precedes(stream[b].envelope[1].policy, latest[1].policy)
      BY <2>1 DEF StreamInv
    <2>3. actor[b].pc = "up" => ChainInv(b)'
      BY <2>1, <2>2, Typed, ChainGrows
    <2>. QED
      BY <2>1, <2>3 DEF NoStream
  <1>6. CASE Heartbeat(b)
    <2>. DEFINE h == NextEnvelope(published)
    <2>1. /\ stream'[b] = [pc |-> "send", last |-> sequence + 1, envelope |-> <<h>>]
          /\ stream[b].pc = "heartbeat"
          /\ UNCHANGED <<queue[b], actor[b]>>
      BY <1>6 DEF Heartbeat, HeartbeatPolicy, TypeOK
    <2>2. h \in Envelope /\ h.seq = sequence + 1 /\ h.policy = published
      BY Typed DEF NextEnvelope, Envelope
    <2>. HIDE DEF h
    <2>3. /\ stream[b].last < h.seq
          /\ stream[b].envelope # <<>> => Precedes(stream[b].envelope[1].policy, h.policy)
      BY <2>2, Typed, EnvelopeParts DEF StreamInv, Sent
    <2>4. actor[b].pc = "up" => ChainInv(b)'
      BY <2>1, <2>2, <2>3, ChainGrows
    <2>. QED
      BY <2>1, <2>4 DEF NoStream
  <1>7. CASE WaitTimeout(b)
    <2>1. /\ stream[b].pc = "wait"
          /\ stream'[b] = [stream[b] EXCEPT !.pc = "heartbeat"]
          /\ UNCHANGED <<queue, actor>>
      BY <1>7 DEF WaitTimeout, TypeOK
    <2>2. /\ stream'[b].pc = "heartbeat" /\ stream'[b].last = stream[b].last
          /\ stream'[b].envelope = stream[b].envelope
      BY <2>1 DEF TypeOK
    <2>. QED
      BY <2>1, <2>2 DEF ChainInv, NoStream
  <1>8. CASE Deliver(b)
    <2>. DEFINE q == queue[b]
                e == stream[b].envelope[1]
    <2>1. /\ stream[b].pc = "send" /\ actor[b].pc = "up" /\ stream[b].envelope # <<>>
          /\ stream'[b] = [stream[b] EXCEPT !.pc = "wait"]
          /\ queue'[b] = Append(q, e) /\ actor' = actor
          /\ e \in Envelope /\ e.seq = stream[b].last
      BY <1>8, Typed DEF Deliver, TypeOK, StreamInv
    <2>2. /\ stream'[b].pc = "wait" /\ stream'[b].last = stream[b].last
          /\ stream'[b].envelope = stream[b].envelope
      BY <2>1 DEF TypeOK
    <2>3. \A i \in DOMAIN q : q[i].seq < e.seq /\ Precedes(q[i].policy, e.policy)
      BY <2>1 DEF ChainInv
    <2>4. /\ actor[b].seq < e.seq
          /\ actor[b].policy # <<>> => Precedes(actor[b].policy[1], e.policy)
      BY <2>1 DEF ChainInv
    <2>5. Precedes(e.policy, e.policy)
      BY <2>1, EnvelopeParts, PrecedesReflexive
    <2>6. /\ DOMAIN queue'[b] = 1..(Len(q) + 1) /\ DOMAIN q = 1..Len(q) /\ Len(q) \in Nat
          /\ \A i \in DOMAIN q : queue'[b][i] = q[i]
          /\ queue'[b][Len(q) + 1] = e
      BY <2>1, Typed
    <2>. HIDE DEF e
    <2>7. \A i \in DOMAIN queue'[b] :
              /\ actor'[b].seq < queue'[b][i].seq
              /\ actor'[b].policy # <<>> => Precedes(actor'[b].policy[1], queue'[b][i].policy)
              /\ queue'[b][i].seq <= e.seq /\ Precedes(queue'[b][i].policy, e.policy)
      <3> SUFFICES ASSUME NEW i \in DOMAIN queue'[b]
                   PROVE  /\ actor[b].seq < queue'[b][i].seq
                          /\ actor[b].policy # <<>> =>
                                 Precedes(actor[b].policy[1], queue'[b][i].policy)
                          /\ queue'[b][i].seq <= e.seq
                          /\ Precedes(queue'[b][i].policy, e.policy)
        BY <2>1
      <3>1. CASE i = Len(q) + 1
        BY <3>1, <2>1, <2>4, <2>5, <2>6, EnvelopeParts
      <3>2. CASE i \in DOMAIN q
        <4>1. q[i] \in Envelope
          BY <3>2, Typed
        <4>. QED
          BY <3>2, <4>1, <2>1, <2>3, <2>6, EnvelopeParts DEF ChainInv
      <3>. QED
        BY <3>1, <3>2, <2>6
    <2>8. \A i, j \in DOMAIN queue'[b] : i < j =>
              /\ queue'[b][i].seq < queue'[b][j].seq
              /\ Precedes(queue'[b][i].policy, queue'[b][j].policy)
      <3> SUFFICES ASSUME NEW i \in DOMAIN queue'[b], NEW j \in DOMAIN queue'[b], i < j
                   PROVE  /\ queue'[b][i].seq < queue'[b][j].seq
                          /\ Precedes(queue'[b][i].policy, queue'[b][j].policy)
        OBVIOUS
      <3>1. i \in DOMAIN q
        BY <2>6
      <3>2. CASE j = Len(q) + 1
        BY <3>1, <3>2, <2>3, <2>6
      <3>3. CASE j \in DOMAIN q
        BY <3>1, <3>3, <2>1, <2>6 DEF ChainInv
      <3>. QED
        BY <3>2, <3>3, <2>6
    <2>9. ChainInv(b)'
      BY <2>1, <2>2, <2>4, <2>7, <2>8, Typed, EnvelopeParts DEF ChainInv, e
    <2>. QED
      BY <2>1, <2>9
  <1>9. CASE DeliverToNobody(b)
    BY <1>9 DEF DeliverToNobody
  <1>10. CASE EndStream(b)
    BY <1>10 DEF EndStream
  <1>11. CASE Subscribe(b)
    <2>1. /\ actor[b] = NewActor /\ queue[b] = <<>> /\ stream[b] = NoStream
          /\ actor'[b] = [actor[b] EXCEPT !.pc = "up"]
          /\ stream'[b] = [stream[b] EXCEPT !.pc = "wait"] /\ queue' = queue
      BY <1>11 DEF Subscribe, TypeOK
    <2>2. /\ actor'[b].pc = "up" /\ actor'[b].seq = 0 /\ actor'[b].policy = <<>>
          /\ actor'[b].refused = "no" /\ stream'[b].last = 0 /\ stream'[b].pc = "wait"
      BY <2>1 DEF NewActor, NoStream
    <2>. QED
      BY <2>1, <2>2 DEF ChainInv
  <1>12. CASE AcceptLatest(b)
    <2>. DEFINE q == queue[b]
                e == Head(q)
    <2>1. /\ actor[b].pc = "up" /\ q # <<>> /\ ChainInv(b) /\ stream' = stream
          /\ queue'[b] = Tail(q)
      BY <1>12 DEF AcceptLatest, TypeOK
    <2>2. actor'[b] = [actor[b] EXCEPT !.policy = <<e.policy>>, !.seq = e.seq]
      BY <2>1, <1>12, HeadIsAccepted DEF AcceptLatest, TypeOK
    <2>3. /\ actor'[b].policy # <<>> /\ actor'[b].policy[1] = e.policy /\ actor'[b].seq = e.seq
          /\ actor'[b].pc = "up" /\ actor'[b].refused = "no"
      BY <2>1, <2>2 DEF TypeOK
    <2>4. e = q[1] /\ 1 \in DOMAIN q /\ DOMAIN q = 1..Len(q) /\ Len(q) \in Nat
      BY <2>1, Typed
    <2>5. \A i \in DOMAIN Tail(q) : i + 1 \in DOMAIN q /\ 1 < i + 1 /\ Tail(q)[i] = q[i + 1]
      BY <2>1, Typed
    <2>. HIDE DEF e
    <2>6. ChainInv(b)'
      BY <2>1, <2>3, <2>4, <2>5 DEF ChainInv
    <2>. QED
      BY <2>3, <2>6
  <1>13. CASE Leave(b)
    <2>1. actor'[b].pc = "gone" /\ actor'[b].policy = <<>> /\ actor'[b].refused = "no"
      BY <1>13 DEF Leave, NewActor, TypeOK
    <2>. QED
      BY <2>1
  <1>14. CASE UNCHANGED vars
    BY <1>1, <1>14 DEF vars
  <1>. QED
    BY <1>2, <1>3, <1>4, <1>5, <1>6, <1>7, <1>8, <1>9, <1>10, <1>11, <1>12, <1>13, <1>14
       DEF Next, Learner, Handler

-----------------------------------------------------------------------------
LEMMA Invariance == Spec => []IInv
  <1>1. Init => IInv
    <2> SUFFICES ASSUME Init PROVE IInv
      OBVIOUS
    <2>1. \A a \in Actor : StreamInv(a) /\ ActorInv(a)
      BY DEF Init, StreamInv, ActorInv, NewActor, NoStream
    <2>. QED
      BY <2>1, TypeInit, LearnerInit DEF IInv
  <1>2. IInv /\ [Next]_vars => IInv'
    BY TypeStep, LearnerStep, StreamStep, ActorStep DEF IInv
  <1>. QED
    BY <1>1, <1>2, PTL DEF Spec

\* The types of the Learner, its streams and its Actors, for every bound.
THEOREM TypeCorrect == Spec => []TypeOK
  BY Invariance, PTL DEF IInv

\* No Actor refuses an envelope of its Learner, however publications, heartbeats,
\* the owner's second publication, stops, restarts and departures interleave.
THEOREM ActorsRefuseNothing == Spec => []NothingIsRefused
  <1>1. IInv => NothingIsRefused
    BY DEF IInv, ActorInv, NothingIsRefused
  <1>. QED
    BY <1>1, Invariance, PTL

\* An Actor on a living stream runs a policy that was published.
THEOREM ActorsRunPublishedPolicies == Spec => []ActorRunsPublished
  <1>1. IInv => ActorRunsPublished
    <2> SUFFICES ASSUME IInv, NEW a \in Actor, stream[a].pc # "none", actor[a].policy # <<>>
                 PROVE  Precedes(actor[a].policy[1], published)
      BY DEF ActorRunsPublished, Precedes
    <2>1. TypeOK /\ StreamInv(a) /\ ActorInv(a)
      BY DEF IInv
    <2>2. actor[a].pc = "up"
      BY <2>1 DEF ActorInv, TypeOK, NewActor
    <2>3. /\ stream[a].envelope # <<>> /\ Sent(stream[a].envelope[1])
          /\ Precedes(actor[a].policy[1], stream[a].envelope[1].policy)
      BY <2>1, <2>2 DEF ActorInv, ChainInv, StreamInv
    <2>. QED
      BY <2>1, <2>3, Typed, EnvelopeParts, PrecedesTransitive DEF Sent
  <1>. QED
    BY <1>1, Invariance, PTL

=============================================================================
