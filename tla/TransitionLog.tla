---------------------------- MODULE TransitionLog ----------------------------
(***************************************************************************)
(* What the uplink promises whoever trains on its rows, without calls,      *)
(* queues or threads: an Actor's rows are promised without a gap, the       *)
(* learner's log takes promised rows only, each once and later than all of   *)
(* its session; a learner that dies comes back with exactly what was saved;  *)
(* and no row is confirmed that was not promised.                           *)
(***************************************************************************)
EXTENDS Naturals, Sequences

CONSTANT Rows       \* records with fields session and step

VARIABLES
    promised,       \* rows acknowledged to an Actor
    confirmed,      \* rows the Actors count as accepted
    log,            \* rows the running learner has applied
    saved           \* rows of the checkpoint

vars == <<promised, confirmed, log, saved>>

Init == promised = {} /\ confirmed = {} /\ log = <<>> /\ saved = <<>>

Promise(row) ==
    /\ \A step \in 1..(row.step - 1) : [row EXCEPT !.step = step] \in promised
    /\ promised' = promised \cup {row}
    /\ UNCHANGED <<confirmed, log, saved>>

Confirm(rows) ==
    /\ confirmed' = confirmed \cup rows
    /\ UNCHANGED <<promised, log, saved>>

\* The checkpoint may be taken with the row, never without it and with a later one.
Apply(row) ==
    /\ \A i \in DOMAIN log : log[i].session = row.session => log[i].step < row.step
    /\ log' = Append(log, row)
    /\ saved' \in {saved, log'}
    /\ UNCHANGED <<promised, confirmed>>

Save == saved' = log /\ UNCHANGED <<promised, confirmed, log>>

Die == log' = <<>> /\ UNCHANGED <<promised, confirmed, saved>>

Recover == log' = saved /\ UNCHANGED <<promised, confirmed, saved>>

Next ==
    \/ \E row \in Rows : Promise(row)
    \/ \E rows \in SUBSET promised : Confirm(rows)
    \/ \E row \in promised : Apply(row)
    \/ Save \/ Die \/ Recover

Spec == Init /\ [][Next]_vars

==============================================================================
