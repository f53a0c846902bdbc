------------------------- MODULE EpisodeCoordinator -------------------------
(***************************************************************************)
(* RealEpisodeCoordinator and TerminalKeyReader: which reset context is     *)
(* current, which step is active, and the operator's Y/F keys.  The methods *)
(* run inside the runtime's actions (ActorRuntime); the keys arrive by      *)
(* themselves.  _pending_terminal lives only inside outcome() and has no    *)
(* variable; the nonce of a token is its episode and step, which no second  *)
(* token carries.                                                           *)
(***************************************************************************)
EXTENDS Naturals, FiniteSets

CONSTANT None

ASSUME NoneAssumption == None \notin Nat \cup [ep : Nat, step : Nat]

VARIABLES
    state,           \* self.state
    context,         \* self.context: the episode's number
    token,           \* self._token: the active step
    completedToken,  \* self._completed_token
    previousToken,   \* self._previous_completed_token
    stepId,          \* self._step_id
    keys,            \* typed and unread: label, and gates when it was typed
    gates            \* history: how many steps of the episode passed the last
                     \* poll before their command

episodeVars == <<state, context, token, completedToken, previousToken, stepId>>
keyVars == <<keys, gates>>

Token == [ep : Nat, step : Nat]
Label == {"success", "failure"}
Key == [label : Label, ep : Nat, gates : Nat]

CoordinatorTypeOK ==
    /\ state \in {"WAITING_FOR_RESET", "RUNNING", "ABORTED"}
    /\ context \in Nat \cup {None}
    /\ {token, completedToken, previousToken} \subseteq Token \cup {None}
    /\ stepId \in Nat /\ gates \in Nat
    /\ keys \subseteq Key

CoordinatorInit ==
    /\ state = "WAITING_FOR_RESET"
    /\ context = None /\ token = None /\ completedToken = None /\ previousToken = None
    /\ stepId = 0 /\ gates = 0 /\ keys = {}

Running == state = "RUNNING"

-----------------------------------------------------------------------------
\* TerminalKeyReader.poll reads everything there is.  One label, or a conflict.
Conflict == \E k, l \in keys : k.label # l.label

\* A key typed now.  The gates it saw tell which step the operator saw last.
PressKey(l) ==
    /\ keys' = keys \cup {[label |-> l, ep |-> IF Running THEN context ELSE 0,
                           gates |-> gates]}
    /\ UNCHANGED <<episodeVars, gates>>

-----------------------------------------------------------------------------
OfferContext(e) ==
    /\ state = "WAITING_FOR_RESET"
    /\ context' = e /\ completedToken' = None
    /\ UNCHANGED <<state, token, previousToken, stepId>>

\* The chord is complete: keys typed before the episode are drained.
ObserveStartFrame ==
    /\ state = "WAITING_FOR_RESET" /\ context # None
    /\ state' = "RUNNING" /\ stepId' = 0
    /\ keys' = {} /\ gates' = 0
    /\ UNCHANGED <<context, token, completedToken, previousToken>>

BeginStep ==
    /\ Running /\ token = None
    /\ previousToken' = completedToken
    /\ token' = [ep |-> context, step |-> stepId]
    /\ completedToken' = None
    /\ UNCHANGED <<state, context, stepId>>

\* before_command found a label: the step is undone, the previous one is last.
TerminalBeforeCommand ==
    /\ previousToken # None
    /\ completedToken' = previousToken /\ token' = None
    /\ UNCHANGED <<state, context, previousToken, stepId>>

\* outcome(), which read a label or not.
FinishStep(terminated) ==
    /\ Running /\ token # None
    /\ completedToken' = token /\ token' = None
    /\ stepId' = stepId + 1
    /\ state' = IF terminated THEN "WAITING_FOR_RESET" ELSE state
    /\ context' = IF terminated THEN None ELSE context
    /\ UNCHANGED previousToken

CanSeal(t) == Running /\ token = None /\ completedToken # None /\ t = completedToken

SealEpisode(t) ==
    /\ CanSeal(t)
    /\ state' = "WAITING_FOR_RESET" /\ context' = None /\ completedToken' = None
    /\ UNCHANGED <<token, previousToken, stepId>>

CanAbandon == Running

\* Mutant: the step that was active stays so.
AbandonKeepsToken ==
    /\ CanAbandon
    /\ state' = "WAITING_FOR_RESET" /\ context' = None
    /\ completedToken' = None /\ stepId' = 0
    /\ UNCHANGED <<previousToken, token>>

AbandonEpisode ==
    /\ CanAbandon
    /\ state' = "WAITING_FOR_RESET" /\ context' = None
    /\ token' = None /\ completedToken' = None /\ stepId' = 0
    /\ UNCHANGED previousToken

Abort ==
    /\ state' = "ABORTED"
    /\ context' = None /\ token' = None /\ completedToken' = None
    /\ UNCHANGED <<previousToken, stepId>>

=============================================================================
