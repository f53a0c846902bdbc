----------------------------- MODULE EpisodeLog -----------------------------
(***************************************************************************)
(* What the runtime promises whoever reads its transitions: the rows of an  *)
(* episode arrive one by one from step 0, the last one says how the episode *)
(* ended, and nothing of another episode comes before it.  Only the newest  *)
(* row is remembered.  A log may stop anywhere: the Actor may die.          *)
(***************************************************************************)
EXTENDS Naturals

VARIABLE lastRow    \* [ep, step, end]; end = "open" while the episode goes on

Ends == {"success", "failure", "time_limit", "interrupted"}

Init == lastRow = [ep |-> 0, step |-> 0, end |-> "interrupted"]

NextStep ==
    /\ lastRow.end = "open"
    /\ \E e \in Ends \cup {"open"} :
           lastRow' = [ep |-> lastRow.ep, step |-> lastRow.step + 1, end |-> e]

FirstStep ==
    /\ lastRow.end # "open"
    /\ lastRow' \in [ep : Nat, step : {0}, end : Ends \cup {"open"}]
    /\ lastRow'.ep > lastRow.ep

Next == NextStep \/ FirstStep

Spec == Init /\ [][Next]_lastRow

=============================================================================
