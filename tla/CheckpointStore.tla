--------------------------- MODULE CheckpointStore ---------------------------
(***************************************************************************)
(* What save_checkpoint promises the next Learner, and what LearnerService   *)
(* assumes of it: one journal is stored, replaced whole or not at all; a      *)
(* power loss may bring back what was stored since the last confirmation.    *)
(* Only a power loss loses it altogether, and only if a journal was stored   *)
(* of which the store had become doubtful before.                            *)
(***************************************************************************)
EXTENDS Sequences

CONSTANT Rows

VARIABLES
    stored,         \* what the next Learner starts from
    candidates,     \* what that may be after a power loss
    doubtful        \* journals that a power loss may lose

vars == <<stored, candidates, doubtful>>

Seed == [kind |-> "seed", rows |-> <<>>]
Lost == [kind |-> "lost", rows |-> <<>>]
Journal(rows) == [kind |-> "journal", rows |-> rows]

Init == stored = Seed /\ candidates = {Seed} /\ doubtful = {}

\* A journal is doubted before it is stored or never.
Doubt ==
    /\ doubtful' \subseteq Seq(Rows)
    /\ \E rows \in doubtful' : Journal(rows) \notin candidates /\ doubtful' = doubtful \cup {rows}
    /\ UNCHANGED <<stored, candidates>>

Replace ==
    /\ stored' \in [kind : {"journal"}, rows : Seq(Rows)]
    /\ candidates' = candidates \cup {stored'}
    /\ UNCHANGED doubtful

Confirm == candidates' = {stored} /\ UNCHANGED <<stored, doubtful>>

Lose ==
    /\ \/ stored' \in candidates
       \/ stored' = Lost /\ \E rows \in doubtful : Journal(rows) \in candidates
    /\ candidates' = {stored'}
    /\ doubtful' \subseteq doubtful

Next == Doubt \/ Replace \/ Confirm \/ Lose

Spec == Init /\ [][Next]_vars

==============================================================================
