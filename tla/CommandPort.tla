----------------------------- MODULE CommandPort -----------------------------
(***************************************************************************)
(* src/g2_local/gdk_backend.py, class GdkCommandPort: the last software     *)
(* boundary before the robot SDK.  A send re-checks feedback and the        *)
(* stream's cancellation flag twice and latches `stopped' on any error; a   *)
(* stop writes one measured-pose hold, or reports that it could not.        *)
(*                                                                         *)
(* The module only offers the port's steps.  Who takes them, and when, is   *)
(* the business of CommandStream, whose single writer thread calls the      *)
(* port.  A call into the SDK spans several steps: it may be slow, may      *)
(* raise before or after it took effect, and may never return.              *)
(***************************************************************************)
EXTENDS Integers

VARIABLES
    enabled,            \* motion permission given at construction
    stopped,            \* latched by a failed send and by stop()
    attempted,          \* some target passed the checks and went to the SDK
    stop_attempted,     \* stop() ran: there is only ever one hold
    stop_failure,       \* an error not yet cleared by a written hold
    safe_stop_acknowledged, \* the independent SAFE_STOP request answered 0
    wire                \* the last thing the SDK acted on, and its sequence

portVars == <<enabled, stopped, attempted, stop_attempted, stop_failure,
              safe_stop_acknowledged, wire>>

PortInit ==
    /\ enabled \in BOOLEAN
    /\ stopped = FALSE /\ attempted = FALSE
    /\ stop_attempted = FALSE /\ stop_failure = FALSE
    /\ safe_stop_acknowledged = FALSE
    /\ wire = [kind |-> "none", seq |-> 0]

PortTypeOK ==
    /\ enabled \in BOOLEAN /\ stopped \in BOOLEAN /\ attempted \in BOOLEAN
    /\ stop_attempted \in BOOLEAN /\ stop_failure \in BOOLEAN
    /\ safe_stop_acknowledged \in BOOLEAN
    /\ wire \in [kind : {"none", "target", "hold"}, seq : Nat]

\* send(): without permission, or once stopped, nothing is checked or latched.
SendRefused == (~enabled \/ stopped) /\ UNCHANGED portVars

\* send(): health, freshness guard and the first cancellation check all passed.
SendChecked(cancelled) ==
    /\ enabled /\ ~stopped /\ ~cancelled
    /\ attempted' = TRUE
    /\ UNCHANGED <<enabled, stopped, stop_attempted, stop_failure,
                   safe_stop_acknowledged, wire>>

\* send(): any exception after the permission test latches the port.
SendFailed ==
    /\ enabled /\ ~stopped
    /\ stopped' = TRUE /\ stop_failure' = TRUE
    /\ UNCHANGED <<enabled, attempted, stop_attempted,
                   safe_stop_acknowledged, wire>>

\* The SDK acts on the target of submission seq.
TargetActs(seq) ==
    /\ wire' = [kind |-> "target", seq |-> seq]
    /\ UNCHANGED <<enabled, stopped, attempted, stop_attempted, stop_failure,
                   safe_stop_acknowledged>>

\* stop() writes a hold only the first time and only if a target was attempted.
NoHoldDue == stop_attempted \/ ~enabled \/ ~attempted

StopLatched ==
    /\ stop_attempted' = TRUE /\ stopped' = TRUE
    /\ UNCHANGED <<enabled, attempted, stop_failure, safe_stop_acknowledged,
                   wire>>

\* stop(): pose measured, health checked on both sides, hold written.
HoldActs ==
    /\ wire' = [wire EXCEPT !.kind = "hold"]
    /\ stop_failure' = FALSE
    /\ UNCHANGED <<enabled, stopped, attempted, stop_attempted,
                   safe_stop_acknowledged>>

\* stop(): health, pose or the hold write raised, the last possibly after it
\* acted.  SAFE_STOP is then requested; its answer never counts as success.
HoldFailed ==
    /\ wire' \in {wire, [wire EXCEPT !.kind = "hold"]}
    /\ stop_failure' = TRUE
    /\ safe_stop_acknowledged' \in BOOLEAN
    /\ UNCHANGED <<enabled, stopped, attempted, stop_attempted>>

==============================================================================
