---------------------------- MODULE ActorRuntime ----------------------------
(***************************************************************************)
(* RealActorRuntime.run with the episode coordinator, its environment       *)
(* (G2LocalEnv, EpisodeRunner, and MotionBackend as they see it) and the    *)
(* operator: keys at any time, Ctrl+C at any time, new context files.       *)
(* A newly completed row is held back until the next step is complete, so   *)
(* that a label typed in between still reaches it.                          *)
(*                                                                          *)
(* Whatever the calls into cameras, robot, input device and uplink may      *)
(* raise is an alternative of the action that makes the call.               *)
(***************************************************************************)
EXTENDS EpisodeCoordinator

CONSTANTS
    MaxSteps,        \* task.max_episode_steps
    MaxEpisodes      \* bound: reset contexts

ASSUME RuntimeAssumption ==
    MaxSteps \in Nat \ {0} /\ MaxEpisodes \in Nat \ {0}

VARIABLES
    autoReset,       \* motion.auto_reset.enabled, and ...
    exitAfterLabel,  \* ... exit_after_labeled_demo: given once, at the start
    pc,             \* where run() is
    env,            \* run() holds an environment
    selfEnv,        \* self._env does: what stop() reaches
    hold,           \* the newest backend: "none", "live", "held", "unconfirmed"
    steps,          \* runner.steps
    row,            \* the row of the step just taken
    pending,        \* the row held back; what is left at the exit is journalled as
                    \* pending_transition_discarded
    lastRow,        \* the newest row the uplink accepted
    label,          \* the key poll() returned last
    stopEvent,
    stopConfirmed,  \* "unknown", "yes", "no"
    unread,         \* the context file is new
    lastEp          \* episodes given out so far

settingVars == <<autoReset, exitAfterLabel>>
armVars == <<env, selfEnv, hold, steps>>
rowVars == <<row, pending, lastRow>>
stopVars == <<stopEvent, stopConfirmed>>
contextVars == <<unread, lastEp>>
vars == <<settingVars, pc, episodeVars, keyVars, armVars, rowVars, label, stopVars, contextVars>>

Ends == {"success", "failure", "time_limit", "interrupted"}
Row == [ep : Nat, step : Nat, end : Ends \cup {"open"}]

ASSUME RowAssumption == None \notin Row

Init ==
    /\ CoordinatorInit
    /\ autoReset \in BOOLEAN /\ exitAfterLabel \in BOOLEAN
    /\ pc = "loop"
    /\ env = FALSE /\ selfEnv = FALSE /\ hold = "none" /\ steps = 0
    /\ row = None /\ pending = None
    /\ lastRow = [ep |-> 0, step |-> 0, end |-> "interrupted"]
    /\ label = None
    /\ stopEvent = FALSE /\ stopConfirmed = "unknown"
    /\ unread = FALSE /\ lastEp = 0

At(l) == pc = l
Goto(l) == pc' = l
Raise == pc' = "except"

\* backend.stop(): a confirmed hold stays, anything else may or may not become one.
StopBackend == hold' \in IF hold \in {"none", "held"} THEN {hold} ELSE {"held", "unconfirmed"}

\* send_transition_batch and take_confirmed: either may raise.
Upload(r) == lastRow' = r
UploadRaises(r) == lastRow' \in {lastRow, r} /\ Raise

RowId(t) == [ep |-> t.ep, step |-> t.step]

\* A poll that found something: one label, or a conflict that raises.
TakeKeys(next) ==
    /\ keys # {} /\ keys' = {}
    /\ \/ Conflict /\ Raise /\ UNCHANGED label
       \/ ~Conflict /\ Goto(next) /\ label' \in keys

-----------------------------------------------------------------------------
(***************************************************************************)
(* The head of the loop                                                    *)
(***************************************************************************)
\* Mutant: only the poll before the next action is left.
LoopHeadDoesNotPoll ==
    /\ At("loop") /\ ~stopEvent
    /\ pc' \in {IF Running THEN "gate" ELSE "waiting", "except"}
    /\ UNCHANGED <<episodeVars, keyVars, armVars, rowVars, label, stopVars, contextVars>>

LoopHead ==
    /\ At("loop") /\ ~stopEvent
    /\ \/ /\ pending # None /\ TakeKeys("settle")
          /\ UNCHANGED gates
       \/ /\ pending = None \/ keys = {}
          /\ pc' \in {IF Running THEN "gate" ELSE "waiting", "except"}
          /\ UNCHANGED <<keyVars, label>>
    /\ UNCHANGED <<episodeVars, armVars, rowVars, stopVars, contextVars>>

LeaveLoop ==
    /\ At("loop") /\ stopEvent /\ Goto("finally")
    /\ UNCHANGED <<episodeVars, keyVars, armVars, rowVars, label, stopVars, contextVars>>

\* _read_context: a file already read gives None; a malformed one raises.
ReadContext ==
    /\ At("waiting") /\ context = None
    /\ \/ /\ unread /\ lastEp < MaxEpisodes /\ Goto("chord")
          /\ unread' = FALSE /\ lastEp' = lastEp + 1
          /\ OfferContext(lastEp')
       \/ /\ pc' \in {"loop", "except"}
          /\ UNCHANGED <<episodeVars, contextVars>>
    /\ UNCHANGED <<keyVars, armVars, rowVars, label, stopVars>>

KeepContext ==
    /\ At("waiting") /\ context # None /\ Goto("chord")
    /\ UNCHANGED <<episodeVars, keyVars, armVars, rowVars, label, stopVars, contextVars>>

\* The chord may complete; the input may fail, the context may have expired.
Chord ==
    /\ At("chord")
    /\ \/ Goto("start") /\ ObserveStartFrame
       \/ pc' \in {"loop", "except"} /\ UNCHANGED <<episodeVars, keyVars>>
    /\ UNCHANGED <<armVars, rowVars, label, stopVars, contextVars>>

\* env_factory and env.reset.  A factory that raises leaves nothing behind; a
\* backend that raises has tried to stop itself.
OpenEnvironment ==
    /\ At("start")
    /\ \/ Raise /\ UNCHANGED armVars
       \/ /\ env' = TRUE /\ selfEnv' = TRUE /\ steps' = 0
          /\ \/ Goto("loop") /\ hold' = "live"
             \/ pc' \in {"camera", "except"} /\ hold' \in {"held", "unconfirmed"}
    /\ UNCHANGED <<episodeVars, keyVars, rowVars, label, stopVars, contextVars>>

-----------------------------------------------------------------------------
(***************************************************************************)
(* A step                                                                  *)
(***************************************************************************)
\* Unless the input gate is verifiable, go round the loop.
Gate ==
    /\ At("gate") /\ pc' \in {"loop", "except", "refresh"}
    /\ UNCHANGED <<episodeVars, keyVars, armVars, rowVars, label, stopVars, contextVars>>

\* Mutant: a stale predecessor is kept although the backend stopped.
RefreshFailureIgnored ==
    /\ At("refresh")
    /\ pc' \in {"decide", "except"} /\ StopBackend
    /\ UNCHANGED <<episodeVars, keyVars, env, selfEnv, steps, rowVars, label, stopVars, contextVars>>

Refresh ==
    /\ At("refresh")
    /\ \/ Goto("decide") /\ UNCHANGED hold
       \/ pc' \in {"camera", "except"} /\ StopBackend
    /\ UNCHANGED <<episodeVars, keyVars, env, selfEnv, steps, rowVars, label, stopVars, contextVars>>

Decide ==
    /\ At("decide")
    /\ \/ /\ pending # None /\ TakeKeys("settle")
          /\ UNCHANGED <<episodeVars, gates>>
       \/ /\ pending = None \/ keys = {}
          /\ \/ Goto("step") /\ BeginStep
             \/ Raise /\ Abort
          /\ UNCHANGED <<keyVars, label>>
    /\ UNCHANGED <<armVars, rowVars, stopVars, contextVars>>

\* An exception out of env.step: the backend has tried to stop; a camera fault
\* is handled with the step still active, any other aborts it.
StepFails ==
    /\ StopBackend
    /\ \/ Goto("camera") /\ UNCHANGED episodeVars
       \/ Raise /\ Abort

\* Mutant: no poll between the decision and the command.
NoPollBeforeCommand ==
    /\ At("step")
    /\ \/ StepFails /\ UNCHANGED gates
       \/ gates' = gates + 1 /\ Goto("gated") /\ UNCHANGED <<episodeVars, hold>>
    /\ UNCHANGED <<keys, label, env, selfEnv, steps, rowVars, stopVars, contextVars>>

\* env.step up to the poll before the command.
BeforeCommand ==
    /\ At("step")
    /\ \/ StepFails /\ UNCHANGED <<keyVars, label>>
       \/ /\ keys = {} /\ gates' = gates + 1 /\ Goto("gated")
          /\ UNCHANGED <<episodeVars, keys, hold, label>>
       \/ /\ keys # {} /\ (previousToken = None \/ Conflict)
          /\ keys' = {} /\ StopBackend /\ Raise /\ Abort
          /\ UNCHANGED <<gates, label>>
       \/ /\ ~Conflict /\ TakeKeys("settle") /\ TerminalBeforeCommand /\ StopBackend
          /\ UNCHANGED gates
    /\ UNCHANGED <<env, selfEnv, steps, rowVars, stopVars, contextVars>>

\* The reference guard, submit and wait_sent; then the successor.
Command ==
    /\ At("gated")
    /\ \/ Goto("commanded") /\ UNCHANGED <<episodeVars, hold>>
       \/ StepFails
    /\ UNCHANGED <<keyVars, env, selfEnv, steps, rowVars, label, stopVars, contextVars>>

Successor ==
    /\ At("commanded")
    /\ \/ Goto("outcome") /\ UNCHANGED <<episodeVars, hold>>
       \/ StepFails
    /\ UNCHANGED <<keyVars, env, selfEnv, steps, rowVars, label, stopVars, contextVars>>

Ended(r) == r.end # "open"

NewRow(end) == [ep |-> token.ep, step |-> token.step, end |-> end]

\* coordinator.outcome, and the rest of EpisodeRunner.step, which stops the
\* backend at the end of an episode.
Outcome ==
    /\ At("outcome")
    /\ UNCHANGED gates
    /\ \/ /\ Raise /\ Abort /\ StopBackend /\ keys' \in {keys, {}}
          /\ UNCHANGED <<steps, row, label>>
       \/ /\ ~Conflict /\ keys' = {}
          /\ steps' = steps + 1
          /\ FinishStep(keys # {})
          /\ IF keys = {}
             THEN /\ row' = NewRow(IF steps' >= MaxSteps THEN "time_limit" ELSE "open")
                  /\ UNCHANGED label
             ELSE label' \in keys /\ row' = NewRow(label'.label)
          /\ \/ Goto("record") /\ hold' = IF Ended(row') THEN "held" ELSE hold
             \/ Raise /\ StopBackend
    /\ UNCHANGED <<env, selfEnv, pending, lastRow, stopVars, contextVars>>

\* Mutant: the row held back is overwritten.
RecordForgetsPending ==
    /\ At("record") /\ Goto("build") /\ pending' = None
    /\ UNCHANGED <<episodeVars, keyVars, armVars, row, lastRow, label, stopVars, contextVars>>

\* The step is complete: the row before it may go.
Record ==
    /\ At("record")
    /\ \/ pending = None /\ Goto("build") /\ UNCHANGED <<pending, lastRow>>
       \/ /\ pending # None
          /\ \/ Upload(pending) /\ pending' = None /\ Goto("build")
             \/ UploadRaises(pending) /\ UNCHANGED pending
    /\ UNCHANGED <<episodeVars, keyVars, armVars, row, label, stopVars, contextVars>>

\* _build_confirmed_transition may refuse the row.
Build ==
    /\ At("build")
    /\ \/ Raise /\ UNCHANGED <<pending, lastRow>>
       \/ /\ ~Ended(row) /\ pending' = row /\ Goto("loop")
          /\ UNCHANGED lastRow
       \/ /\ Ended(row) /\ UNCHANGED pending
          /\ (Upload(row) /\ Goto("finish")) \/ UploadRaises(row)
    /\ UNCHANGED <<episodeVars, keyVars, armVars, row, label, stopVars, contextVars>>

-----------------------------------------------------------------------------
(***************************************************************************)
(* The end of an episode                                                   *)
(***************************************************************************)
\* terminal_before_next_action with a label in hand.
Settle ==
    /\ At("settle")
    /\ \/ /\ hold # "held" /\ hold' = "unconfirmed" /\ Raise
          /\ UNCHANGED <<episodeVars, row, pending, lastRow>>
       \/ /\ hold' = "held"
          /\ SealEpisode(RowId(pending))
          /\ row' = [pending EXCEPT !.end = label.label]
          /\ \/ Upload(row') /\ pending' = None /\ Goto("finish")
             \/ UploadRaises(row') /\ UNCHANGED pending
    /\ UNCHANGED <<keyVars, env, selfEnv, steps, label, stopVars, contextVars>>

\* Mutant: the row held back goes without its ending.
CameraLeavesEpisodeOpen ==
    /\ At("camera") /\ hold = "held" /\ AbandonEpisode /\ Goto("camera_close")
    /\ IF pending = None THEN UNCHANGED lastRow ELSE Upload(pending)
    /\ pending' = None
    /\ UNCHANGED <<keyVars, armVars, row, label, stopVars, contextVars>>

\* Mutant: stop_confirmed is not looked at.
CameraFaultAlwaysRecovers ==
    /\ At("camera") /\ AbandonEpisode /\ Goto("camera_close")
    /\ IF pending = None THEN UNCHANGED lastRow
       ELSE Upload([pending EXCEPT !.end = "interrupted"])
    /\ pending' = None
    /\ UNCHANGED <<keyVars, armVars, row, label, stopVars, contextVars>>

\* interrupt_camera_episode: only behind a confirmed hold.
CameraFault ==
    /\ At("camera")
    /\ \/ /\ hold # "held" /\ Raise
          /\ IF token = None THEN UNCHANGED episodeVars ELSE Abort
          /\ UNCHANGED <<pending, lastRow>>
       \/ /\ hold = "held" /\ AbandonEpisode
          /\ \/ pending = None /\ Goto("camera_close") /\ UNCHANGED <<pending, lastRow>>
             \/ /\ pending # None
                /\ LET r == [pending EXCEPT !.end = "interrupted"]
                   IN  \/ Upload(r) /\ pending' = None /\ Goto("camera_close")
                       \/ UploadRaises(r) /\ UNCHANGED pending
    /\ UNCHANGED <<keyVars, armVars, row, label, stopVars, contextVars>>

CameraClose ==
    /\ At("camera_close")
    /\ env' = FALSE /\ selfEnv' = FALSE /\ pc' \in {"loop", "except"}
    /\ UNCHANGED <<episodeVars, keyVars, hold, steps, rowVars, label, stopVars, contextVars>>

\* self.stop() of an orderly exit finds no environment.
ExitIfLabeled ==
    IF exitAfterLabel /\ row.end \in Label
    THEN /\ stopEvent' = TRUE
         /\ stopConfirmed' = IF stopConfirmed = "no" THEN "no" ELSE "yes"
    ELSE UNCHANGED stopVars

FinishEpisode ==
    /\ At("finish")
    /\ IF row.end = "time_limit" /\ Running THEN SealEpisode(RowId(row)) ELSE UNCHANGED episodeVars
    /\ env' = FALSE /\ selfEnv' = FALSE
    /\ \/ Raise /\ UNCHANGED stopVars
       \/ autoReset /\ Goto("reset") /\ UNCHANGED stopVars
       \/ ~autoReset /\ Goto("loop") /\ ExitIfLabeled
    /\ UNCHANGED <<keyVars, hold, steps, rowVars, label, contextVars>>

\* Mutant: stop() does not learn of the reset's environment.
ResetEnvironmentUnknown ==
    /\ At("reset") /\ keys' = {} /\ Goto("resetting") /\ hold' = "live"
    /\ UNCHANGED <<episodeVars, gates, env, selfEnv, steps, rowVars, label, stopVars, contextVars>>

\* _automatic_reset: an environment of its own, cancelled by any key.
AutomaticReset ==
    /\ At("reset") /\ keys' = {}
    /\ \/ Raise /\ UNCHANGED <<selfEnv, hold>>
       \/ Goto("resetting") /\ selfEnv' = TRUE /\ hold' = "live"
    /\ UNCHANGED <<episodeVars, gates, env, steps, rowVars, label, stopVars, contextVars>>

\* Any failure, Ctrl+C too, closes the reset's environment; if that fails as
\* well, stop() still reaches it.
ResetEnds ==
    /\ At("resetting")
    /\ \/ /\ Goto("loop") /\ lastEp < MaxEpisodes
          /\ hold' = "held" /\ selfEnv' = FALSE
          /\ lastEp' = lastEp + 1 /\ OfferContext(lastEp')
          /\ ExitIfLabeled
          /\ UNCHANGED <<keys, unread>>
       \/ /\ Raise /\ keys' \in {keys, {}}
          /\ \/ hold' = "held" /\ selfEnv' = FALSE
             \/ hold' \in {"live", "held", "unconfirmed"} /\ UNCHANGED selfEnv
          /\ UNCHANGED <<episodeVars, stopVars, contextVars>>
    /\ UNCHANGED <<gates, env, steps, rowVars, label>>

-----------------------------------------------------------------------------
(***************************************************************************)
(* The end of the run                                                      *)
(***************************************************************************)
\* self.stop('actor_failure') does nothing when a stop was already asked for.  An
\* error that says the stop is unconfirmed is believed first.
HandleFailure ==
    /\ At("except") /\ Goto("finally")
    /\ stopEvent' = TRUE
    /\ IF stopEvent \/ ~selfEnv THEN UNCHANGED hold ELSE StopBackend
    /\ \E known \in IF hold = "unconfirmed" THEN {stopConfirmed, "no"} ELSE {stopConfirmed} :
           stopConfirmed' = IF stopEvent THEN known
                            ELSE IF known = "no" \/ (selfEnv /\ hold' = "unconfirmed") THEN "no"
                            ELSE "yes"
    /\ UNCHANGED <<episodeVars, keyVars, env, selfEnv, steps, rowVars, label, contextVars>>

Finally ==
    /\ At("finally") /\ Goto("exited")
    /\ IF env
       THEN \/ StopBackend /\ stopConfirmed' = "no"
            \/ /\ hold' = IF hold = "none" THEN "none" ELSE "held"
               /\ UNCHANGED stopConfirmed
       ELSE UNCHANGED <<hold, stopConfirmed>>
    /\ UNCHANGED <<episodeVars, keyVars, env, selfEnv, steps, rowVars, label, stopEvent,
                   contextVars>>

\* Ctrl+C.  The reset's own handler is part of ResetEnds.
KeyboardInterrupt ==
    /\ pc \notin {"resetting", "except", "finally", "exited"} /\ Raise
    /\ IF token = None THEN UNCHANGED episodeVars ELSE Abort
    /\ UNCHANGED <<keyVars, armVars, rowVars, label, stopVars, contextVars>>

-----------------------------------------------------------------------------
Operator ==
    \/ /\ pc # "exited" /\ \E l \in Label : PressKey(l)
       /\ UNCHANGED <<pc, armVars, rowVars, label, stopVars, contextVars>>
    \/ /\ ~unread /\ lastEp < MaxEpisodes /\ unread' = TRUE
       /\ UNCHANGED <<pc, episodeVars, keyVars, armVars, rowVars, label, stopVars, lastEp>>

Run ==
    \/ LoopHead \/ LeaveLoop \/ ReadContext \/ KeepContext \/ Chord \/ OpenEnvironment
    \/ Gate \/ Refresh \/ Decide \/ BeforeCommand \/ Command \/ Successor \/ Outcome
    \/ Record \/ Build \/ Settle \/ CameraFault \/ CameraClose
    \/ FinishEpisode \/ AutomaticReset \/ ResetEnds \/ HandleFailure \/ Finally

Next == (Run \/ KeyboardInterrupt \/ Operator) /\ UNCHANGED settingVars

Spec == Init /\ [][Next]_vars

LiveSpec == Spec /\ WF_vars(Run /\ UNCHANGED settingVars)

-----------------------------------------------------------------------------
(***************************************************************************)
(* Properties                                                              *)
(***************************************************************************)
Locations ==
    {"loop", "waiting", "chord", "start", "gate", "refresh", "decide", "step", "gated",
     "commanded", "outcome", "record", "build", "settle", "camera", "camera_close",
     "finish", "reset", "resetting", "except", "finally", "exited"}

SettingsTypeOK == autoReset \in BOOLEAN /\ exitAfterLabel \in BOOLEAN

\* The variables stay in their types (the runtime's locals, its rows, its stop
\* evidence, the coordinator).
TypeOK ==
    /\ CoordinatorTypeOK /\ SettingsTypeOK
    /\ pc \in Locations
    /\ env \in BOOLEAN /\ selfEnv \in BOOLEAN
    /\ stopEvent \in BOOLEAN /\ unread \in BOOLEAN
    /\ hold \in {"none", "live", "held", "unconfirmed"}
    /\ steps \in Nat /\ lastEp \in Nat
    /\ row \in Row \cup {None} /\ pending \in Row \cup {None} /\ lastRow \in Row
    /\ label \in Key \cup {None}
    /\ stopConfirmed \in {"unknown", "yes", "no"}

\* Through labels, time limits, camera faults and automatic resets the uplink
\* gets each episode's rows from step 0 in order, exactly one of them terminal
\* and that one last, and no episode before the one before it is closed
\* (real_actor.py:655-764, 927-958).
Log == INSTANCE EpisodeLog
UplinkGetsWholeEpisodes == Log!Spec

SameStep(a, b) == a.ep = b.ep /\ a.step = b.step

\* b is the step after a.
Follows(b, a) ==
    IF Ended(a) THEN b.ep > a.ep /\ b.step = 0 ELSE b.ep = a.ep /\ b.step = a.step + 1

Failing == pc \in {"except", "finally", "exited"}

\* Every step the robot took is accepted by the uplink or is the row held back,
\* which an exit journals; only a failure may drop the row of the very last
\* step, and an upload that raised leaves it open whether a row arrived
\* (real_actor.py:927-958, 995-1003).
NoStepIsForgotten ==
    /\ pending # None =>
           /\ ~Ended(pending)
           /\ Follows(pending, lastRow) \/ (Failing /\ SameStep(pending, lastRow))
    /\ row # None =>
           LET kept == IF pending = None THEN lastRow ELSE pending
           IN  \/ SameStep(row, kept)
               \/ (Failing \/ pc \in {"record", "build"}) /\ Follows(row, kept)

\* A label closes the step whose command was the last one sent when the operator
\* typed it: never a step the operator had not seen, never a step of another
\* episode, never the step before (outcome, real_episode.py:203-218;
\* before_command, 128-139; terminal_before_next_action, real_actor.py:741-764).
LabelClosesTheStepItSaw ==
    [][lastRow' # lastRow /\ lastRow'.end \in Label =>
           label' = [label |-> lastRow'.end, ep |-> lastRow'.ep, gates |-> lastRow'.step + 1]]_vars

\* A command is out only on a live backend, for the step the coordinator holds,
\* in an episode whose last row is not sent, and with no unread label that was
\* typed before its own last poll (motion_backend.py:326-327).
CommandsStayInTheirEpisode ==
    pc \in {"commanded", "outcome"} =>
        /\ Running /\ hold = "live" /\ env /\ selfEnv
        /\ token = [ep |-> context, step |-> stepId]
        /\ lastRow.ep < context \/ (lastRow.ep = context /\ ~Ended(lastRow))
        /\ \A k \in keys : k.ep = context /\ k.gates = stepId + 1

\* Whatever path led there, the coordinator is never called in a state it
\* refuses: run() seals the token that is complete, abandons a running episode,
\* starts a step when none is active (real_episode.py:83-85, 115-119, 166-172,
\* 232-237).
CoordinatorNeverRefuses ==
    /\ At("settle") => pending # None /\ CanSeal(RowId(pending))
    /\ At("finish") /\ row.end = "time_limit" => CanSeal(RowId(row))
    /\ At("camera") => CanAbandon /\ context # None
    /\ At("gate") => env
    /\ At("decide") => Running /\ token = None
    /\ At("outcome") => Running /\ token # None
    /\ pc \in {"resetting", "waiting"} => state = "WAITING_FOR_RESET"

\* A new backend is built only when the one before it holds the arm and nothing
\* reaches it any more: camera interruptions and resets included
\* (real_actor.py:671, 701-703, 727-734, 808, 571-588).
OneBackendAtATime ==
    pc \in {"start", "reset"} => hold \in {"none", "held"} /\ ~env /\ ~selfEnv

\* A run that reports stop_confirmed leaves no backend that may still move the
\* arm, wherever the failure or Ctrl+C struck (real_actor.py:600-617, 983-1013).
StopConfirmedIsHonest ==
    pc = "exited" /\ stopConfirmed = "yes" => hold \in {"none", "held"}

\* A label typed while a completed step waits for one closes its episode, or the
\* Actor ends: the gate wait, camera waits and refreshes all come back to a poll
\* (real_actor.py:766-768, 838-885).
EpisodeClosed(e) == lastRow.ep > e \/ (lastRow.ep = e /\ Ended(lastRow))

LabelEndsTheEpisode ==
    \A e \in 1..MaxEpisodes :
        (pending # None /\ pending.ep = e /\ keys # {}) ~> (pc = "exited" \/ EpisodeClosed(e))

=============================================================================
