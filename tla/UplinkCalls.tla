----------------------------- MODULE UplinkCalls -----------------------------
(***************************************************************************)
(* The loopback gRPC channel between an Actor process and the Learner, as   *)
(* src/g2_local uses it: SendTransitions calls, one row each                *)
(* (real_actor.py:659).  A call whose client gave up keeps running in the   *)
(* Learner: its handler only learns from context.is_active() that nobody    *)
(* listens.                                                                 *)
(***************************************************************************)
EXTENDS Naturals, Sequences, FiniteSets

CONSTANTS
    Sessions,       \* bound: Actor processes, one after the other
    Steps,          \* bound: rows an Actor produces
    QueueCapacity   \* runtime.queue_capacity, used on both sides

ASSUME UplinkAssumption ==
    /\ Sessions \in Nat \ {0} /\ Steps \in Nat \ {0}
    /\ QueueCapacity \in Nat \ {0}

\* A transition row is known by its id: run / episode / step.
Row == [session : 1..Sessions, step : 1..Steps]

VARIABLE calls      \* the handlers alive in the Learner's thread pool

Call == [row : Row, attempt : {1, 2}, live : BOOLEAN,
         pc : {"receiving", "prepared", "replied", "error"}]

\* The client gave up on its calls: nobody will read a reply.
Abandoned(cs) == {[c EXCEPT !.live = FALSE] : c \in {d \in cs : d.pc \in {"receiving", "prepared"}}}

==============================================================================
