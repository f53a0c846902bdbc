# Verification of the G2 human-in-the-loop RL runtime

TLA+ specifications of `src/g2_local`, the code that lets an Actor process drive a
real G2 arm under human supervision while a Learner process trains on what it
sends. TLC checks small instances; TLAPS proves the theorems for all of them.

## The system

```
 operator keys, SpaceMouse        cameras, arm feedback
        |        |                        |
        v        v                        v
  Coordinator   Intervention   -->  MotionBackend --> CommandStream --> GdkCommandPort --> robot SDK
        \        /                        ^             (writer, watchdog)
         \      /                         |
       RealActorRuntime  -----------------+
             |   ^
  transitions|   |parameters            (loopback gRPC)
             v   |
     GrpcLearnerService --> RealLearnerRuntime --> checkpoint, archive, provenance snapshot
```

| Component | State it keeps | Operations | Interacts through | Hard behaviour | What makes it correct |
|---|---|---|---|---|---|
| Command stream (`command_stream.py`) | target, sequence / ack_sequence, lease, heartbeat, halt, faults | `submit`, `wait_sent`, `_write_loop`, `_watch`, `stop` | one condition, one event, two threads, the port | send outside the lock, an SDK call that hangs or raises late, bounded join | acknowledged means acted; after lease or halt at most one stray target, never acknowledged; a confirmed stop is still |
| Command port (`gdk_backend.py`) | stopped, attempted, stop_attempted, stop_failure | `send`, `stop` | called by the writer; reads the stream's halt event | one hold only; failure before or after the effect | no target after `stopped`; failure never reported as success |
| Uplink (`real_actor.py`, `GrpcActorTransport`) | outgoing queue, outstanding requests, stopped | `send_transition_batch`, `take_confirmed`, `_send_loop`, `_receive_loop`, `drain`, `close` | gRPC calls; polled by the control loop | deadlines, one retry, full queue, a drain that times out at exit | confirmed implies acknowledged; no gap; a clean exit has delivered everything |
| Ingress and optimizer (`real_learner.py`) | pending batches, replay, dedup set, journal, credit, version | `SendTransitions`, `_optimize`, `update_once`, `save_checkpoint`, `load_checkpoint` | condition, event, worker thread, files | abandoned handlers, stop while draining, failing saves, crash | exactly once and in order, credit exact, an orderly exit preserves what was acknowledged, what was saved loads |
| Checkpoint files (`real_learner.py`, `provenance.py`, `real_train.py`) | snapshots named by their digest, two checkpoint files that refer to them | `save_checkpoint`, `save_snapshot`, `restore`, `load_checkpoint` | the Learner, the next Learner | a write that fails, a process that dies, a power loss between two system calls | what the checkpoint refers to stays there; no returned save is forgotten |
| Parameter stream (`real_learner.py`, `real_actor.py`) | version, message_sequence, latest | `publish_parameters`, `heartbeat_parameters`, `StreamParameters`, `accept_latest_parameters` | server stream into a bounded queue | heartbeats racing publications, restart from an older checkpoint | sequence strictly increases per connection, version never regresses |
| Episode coordinator (`real_episode.py`, `operator_control.py`) | state, context, tokens, step id, unread keys | `offer_context`, `observe_start_frame`, `begin_step`, `before_command`, `outcome`, `seal_episode`, `abandon_episode_after_camera_fault`, `_abort` | called by the control loop and, inside a step, by the environment; the terminal | a label at any point of a step; a camera fault with a step active | a label closes the step the operator saw; no call in a state that refuses it |
| Actor runtime (`real_actor.py`) | held-back row, environment, stop evidence | `run`, `finish_episode`, `interrupt_camera_episode`, `terminal_before_next_action`, `_automatic_reset`, `stop` | all of the above | calls that raise at any point, camera faults, Ctrl+C, cleanup order | whole episodes reach the uplink in order; no step forgotten; one backend at a time; an honest stop report |
| Intervention (`spacemouse.py`) | gate, takeover, release, latched fault | `LiveInputGate.update`, `AutomaticIntervention.__call__`, `has_new_report` | polled by the control loop and inside `env.step`; the demonstration's reader thread | stale reports, unverifiable input | human input wins, neutral needed to release |
| Motion backend (`motion_backend.py`, `motion_env.py`) | stopped, stop evidence, last observation, episode reference, the record of a command, reader lock | `begin_episode`, `observe`, `execute`, `stop`, `close` | the stream it owns, the reader lock it shares with the stream's hold, the feedback lease the port asks | state read before a wait and used after it, an error or Ctrl+C between submission and acknowledgement | what an error says of the command is true; the image paired with an action shows it; a reported hold is final |
| Freshness (`freshness.py`) | feedback lease, last stamps | `accept`, `revalidate`, the guard's checks | every read of the backend, every send of the port | stale or repeated frames, two clock domains | the lease outlasts a send; it is never renewed by a rejected read |
| Resets (`auto_reset.py`, `pre_reset.py`) | phase, last observation | reset moves | motion backend | abort in the middle | a client of the motion backend; ends in `close` |
| Configuration, identity, launchers, demonstrations | files | validation, hashing, import | before the service starts | none over time | not modelled |
| lerobot, earlier scripts | - | - | - | vendored or replaced | out of scope |

## Modules

| Module | Models |
|---|---|
| `CommandPort` | the steps of `GdkCommandPort`; no Next of its own |
| `CommandStream` | `CommandStream`, its callers, writer, watchdog and `stop()`, driving `CommandPort` |
| `LeasedPublisher` | abstract: what the stream promises the motion backend |
| `CommandStreamProofs` | the inductive invariant and the theorems |
| `UplinkCalls` | rows and gRPC calls, shared by both ends |
| `ActorTransport` | `GrpcActorTransport`: queue, sender thread, confirmation, and the drain and close of the Actor's exit |
| `LearnerService` | `GrpcLearnerService`, the checkpointed part of `RealLearnerRuntime`, its process |
| `TransitionUplink` | the two ends composed, crashes and restarts |
| `TransitionLog` | abstract: what the uplink promises whoever trains on its rows |
| `TransitionUplinkProofs` | types, credit, acknowledgements and the exits of both processes |
| `TransitionOrderProofs` | the order of the rows, and the refinement of `TransitionLog` |
| `EpisodeCoordinator` | the methods of `RealEpisodeCoordinator` and the operator's keys; no Next of its own |
| `ActorRuntime` | `RealActorRuntime.run` with coordinator, environment and operator |
| `EpisodeLog` | abstract: what the Actor promises whoever reads its transitions |
| `ActorRuntimeProofs` | the inductive invariant of the Actor and the theorems |
| `Intervention` | one call of `AutomaticIntervention`: gate, takeover, release, fault latch; no Next of its own |
| `HumanTakeover` | the SpaceMouse and the Actor's calls: start wait, gate wait, `env.step` |
| `HumanTakeoverProofs` | its inductive invariant and theorems |
| `ParameterStream` | publications, heartbeats, `StreamParameters` handlers, the Actor's parameter queue and its acceptance, across Learner restarts |
| `ParameterStreamProofs` | its inductive invariant and theorems |
| `MotionBackend` | `MotionBackend` on the `CommandStream` it owns, with the feedback lease and the locked hold |
| `ArmHold` | abstract: what a backend promises whoever owns it |
| `MotionBackendProofs` | its inductive invariant, on top of the stream's, and theorems |
| `CheckpointFiles` | the system calls of `save_checkpoint` and `save_snapshot`, process deaths and power losses |
| `CheckpointStore` | abstract: one journal, replaced whole, lost only if doubted; what `LearnerService` assumes of its disk |
| `CheckpointFilesProofs` | the inductive invariant of the files and theorems |
| `MC*` | TLC instances |

### CommandStream: correspondence

`writer` is the program counter of `_write_loop`: `loop` (lines 100-110), `port` and
`cancel_check` (`GdkCommandPort.send` up to its two cancellation checks), `sdk` and
`sdk_return` (the SDK call before and after it takes effect), `finish` (112-124),
`pause` (126), `except` (127), `stop` and `hold` (the `finally` block and
`GdkCommandPort.stop`), `done`. Every lock-protected region is one action; every
point outside a lock is a boundary, so an SDK call spans several steps and anything may
happen between. A Ctrl+C may leave `wait_sent` or the join of `stop()` early. The clock `now` advances between any two steps: no property relies
on a thread running soon. `late` is a history variable: a target acted after its lease
or after the halt. A target is its sequence number.

### TransitionUplink: correspondence

A row is (Actor session, step). `calls` holds the Learner's handlers with `live`
telling whether the client still waits. The Actor's sender either waits or is idle;
a deadline may strike in any state of its call, also when the reply is under way.
`learner` is the part of `RealLearnerRuntime` that `_payload` saves and
`load_checkpoint` cross-checks; `disk` and `archive` are the files, replaced whole.
`worker` is the program counter of `_optimize`: `wait`, `loop`, `pop`, `train`, and in
the `finally` block `drain`, `drainpop`, `done`. `loop` and `train` are two steps because
the queue is looked at under the condition and the credit is not. The owner
thread of `_run_learner_owned` stops, joins and saves. A crash wipes memory, handlers
and queue; a restart loads `disk` if `Loads(disk)`.
A call carries one row, as `upload` sends them (real_actor.py:655-660).

When the Actor leaves, `Drain` is what `drain()` answers, at any time after the last row,
and `Close` the rest of `run()`'s exit block: the last confirmations, `close()`, which fails
a call still running, and the end of the process (real_actor.py:1014-1034).

### ActorRuntime: correspondence

`run()` is sequential, so `pc` names the places between its calls: `loop` (766), `waiting`
and `chord` (772-807), `start` (808-837), `gate` (838-885), `refresh` (886-892),
`decide` (893-902), `step`, `gated`, `commanded`, `outcome` (the call of `env.step`: up
to the last poll, up to the acknowledged send, up to the successor, the outcome),
`record` and `build` (925-958), `settle` (`terminal_before_next_action` with a label),
`camera` and `camera_close` (`interrupt_camera_episode`), `finish`, `reset`, `resetting`
(`finish_episode`, `_automatic_reset`), `except`, `finally`, `exited`. The nested
functions use and change the same locals, so their bodies are actions too.

The row of a completed step is held back in `pending` until the next step is complete:
a label typed before that command still belongs to it. `token`, `completedToken` and
`previousToken` are the coordinator's; an episode is a number, a row is
(episode, step, how it ends). `hold` is the newest backend: `live` may move the arm,
`held` is a confirmed stop. A `GdkCommandPort` that confirmed its stop sends nothing
afterwards (`ConfirmedStopIsStill`, proved in `CommandStreamProofs`), so `held` stays.

What cannot be foreseen is an alternative of the action that makes the call: cameras,
robot, input device, contexts, journal and uplink may raise where they are called, an
upload that raised may or may not have arrived, an exception is or is not a
camera fault, a stop is or is not confirmed. Keys arrive between any two
steps, and so does a Ctrl+C, except while an earlier failure is being cleaned up.

`keys` remembers, for each unread key, the episode and how many commands had passed their
last poll when it was typed (`gates`, a history variable). A key typed before the
last poll labels the step before; one typed later labels the step that is on its way.

`autoReset` and `exitAfterLabel` are the two settings that change the control flow, chosen
once at the start.

Left out: `max_completed_steps` (tests only), the demonstration role's own gate (it
differs in when it loops), the reward values, the button automaton `StartChord` (its answer
is nondeterministic), `accept_latest_parameters` (may raise), and the journal's
`pending_transition_discarded` entry at the exit, which is taken to be written.

### MotionBackend: correspondence

The module extends `CommandStream`, whose only caller is `Main`, the thread that owns the
backend. `pc` names the places inside a call at which it waits or calls out: `locking`,
`reading` (`_read_locked`; `purpose` tells `observe`, the read `before` a command, the
`pose` alone, a `recheck`, the `successor` apart), `gate` (303-327), `revalidate` (328-349 and
`submit`), `waiting` (353), `anchor` (358-367), `pace` (368-370), `outcome` (376-379),
`failing` (the handlers, 254-256 and 380-383), `joining` (`stream.stop()`). `execution` is
the record of that name: what an error event reports, with the sequence before the command.
`camera` says of the newest frame whether the robot had acted on the command when it was
captured, and whether it was captured after the SDK clock was read. `reader_lock` is shared
with `stop_pose_provider`, which the stream's writer calls inside its hold (motion_env.py:158-170):
the three actions `WriterLocksReader`, `WriterMeasures` and `HoldEnds` refine the stream's
`WriterHolds`. `StreamThreads` adds to the port's checks the question it asks the lease.

The main thread calls in any order: `RealActorRuntime`, `G2LocalEnv`, `run_reset` and the
pre-reset loop are all among its clients. After an interrupt only `stop` and `close`
follow, as in their handlers. Reads, planning, envelope checks, the gate and the outcome may
raise; the order in which they do is kept where an effect lies between (the lease is renewed
before the last check of a read). `execute_lock` never blocks a single caller. The model has
a local envelope configured; without one, `execute` needs no episode reference.

### CheckpointFiles: correspondence

`dir` is the directory: which journals have a complete snapshot (`whole`), which one that was
cut short (`partial`), as a reader finds them, and the journal the training and the archived
checkpoint refer to. Names and contents become durable apart from each other. `survivors` are
the directories whose names a power loss may leave: every change adds one, the sync of the
directory (real_learner.py:693-697) leaves one. `synced` are the snapshots whose contents are
on the disk: those whose `os.fsync` (provenance.py:127) returned, and after a power loss those
that came through it whole. A power loss leaves any of `survivors` and cuts any of its snapshots
outside `synced` short. Assumed of the file system: the changes of a directory survive in
their order, and a file that was not synced is whole or not. `pc` is the system call that comes
next: `snapshot` (102-117), `copying` (118-126, the write and the flush), `fsync` (127),
`temporary` (real_learner.py:684-691), `replace` (692), `sync` (693-697).
Any of them may raise, and the process may die before any of them. So a snapshot is
left cut short, when `copying` raises, or whole and not durable, when `fsync` does; the next
save of that journal refuses the first (`SnapshotMismatch`) and keeps the second without a sync
(`SnapshotKept`, 106-116). `doubted`, a history variable, holds the snapshots so kept. A digest
stands for the journal it was taken of. `Found` is the part of `load_checkpoint` that these
files decide; what the restored learner must agree on is `Loads` of `LearnerService`, whose disk
is replaced whole: `CheckpointStore` says what that means, with the reservation that a power
loss may lose a doubted journal, and the refinement that these files provide it.
`LearnerService` has processes that die and no power loss.

### HumanTakeover: correspondence

One call of `AutomaticIntervention` is one action, chosen by the branch it takes:
`CallBeforeReady` (269-276), `CallDeviceLost` (253-283), `CallDiscard` (302-310),
`CallNotVerifiable` (311-319) and `CallDecides` (320-330); the two that raise end in
`Latch` (331-340). `frame` is what the HID reader holds: per axis channel the last report
and its time, the left button. An axis is displaced by one of four levels, which is
all the two deadzones tell apart; mode and sign are left out. `gate` is the
`LiveInputGate` (its `input_valid` is read by the older `HumanInput` alone). `fault` is the
latch without its text. `require_fresh` is true from the start chord to the end of the
episode.

The Actor's loop has the places from which it calls: `waiting` (real_actor.py:800-807), `gate`
(842-885), `step` (886-924). The start chord ends with both buttons
released, otherwise its automaton is a free choice. Between any two
calls time passes and the device reports, falls silent, starts over or is unplugged.
`row` is what `_build_confirmed_transition` reads from the gate after the
step; `zeroSeen` and `neutralFrom` are history variables. The demonstration role and the
calls of the automatic reset (it moves only while the gate is open) are left out.
`EnvStep` is the call in `env.step` (env.py:99) and the command it decides
(motion_backend.py:351) in one: neither the command nor the row looks at the device again.
Within an episode the source is ready, so that call never takes the branch 269-276.

### ParameterStream: correspondence

A policy is its version and the life that trained it; equal records are equal tensors.
`sequence` is `message_sequence + 1`. `boot` is the owner thread of
`_run_learner_owned`: `serving` after `server.start()`, `published` between
`publish_parameters()` and the `service.publish` around it, which hands over the same
envelope a second time and may take `_latest` back (real_train.py:495-497). A handler is in
`wait` (real_learner.py:1050-1063), `heartbeat` (between the condition and
`heartbeat_parameters`, 1064-1065) or `send` (1066-1077). `Train` is an update up to the end
of its version step, `PublishTrained` its publication: a heartbeat can fall
between them. gRPC keeps the order of a stream and the receiver's queue stands for
what is under way. While the Learner is down its variables hold the checkpoint. An Actor
that outlives a Learner may still read its queue, but never gets another stream. The first
life starts from any number of offline updates. Left out: the clock, hence the silence
timeout (an Actor may leave at any time), and `actor_update_interval` (a version may repeat
the actor tensors of the one before; here they always differ, the stricter case).

## Runs

| Run | Shows | Instance |
|---|---|---|
| `stream` | confirmed stop, acknowledgement, late sends, refinement of `LeasedPublisher`; a lapsed lease halts, every caller and `stop()` returns; if SDK calls return, a halt ends in a hold or a recorded stop fault | 2 callers, 2 submissions, 5 instants, SDK calls unfair (0.4 M states) |
| `motion_backend` | what an error says of a command, the successor image, the release of the reader, no command after a failure, the feedback lease, refinement of `ArmHold` | 1 caller, 2 commands, 6 instants, 2 rechecks (9 M states) |
| `uplink_one_actor` | exactly-once order, no gap, exact credit, preservation, delivery at a clean exit, refinement of `TransitionLog` | 1 Actor, 3 rows, queue 1, 2 Learner lives (4 M states) |
| `uplink_live` | no lost wakeup, no call for ever, across two Actors | 2 Actors, 1 row each, queue 1 |
| `checkpoint_files` | only a power loss, and only of a doubted snapshot, takes a checkpoint away; the checkpoint is never older than a returned save; refinement of `CheckpointStore` | journals of up to 1 row, 2 kinds of row, 3 Learner lives (1.2 M states) |
| `actor` | whole episodes at the uplink, labels, commands, no step forgotten, one backend, honest stop; a label ends its episode or the Actor exits; with and without automatic reset and exit after a label | 3 episodes of up to 3 steps (0.6 M states) |
| `human_takeover` | what a step rests on, who commands it, when the policy resumes | 5 device events, 5 instants, reports live 1 tick, the hold lasts 2 |
| `parameter_stream` | nothing an Actor receives is refused, it runs published policies only, what is published arrives | 2 Actors in succession, 2 Learner lives, 2 updates, a publication every second one |
| `drift_after_recheck` | violation | 1 command, 1 recheck |
| `archive_does_not_load` | violation | 1 row |
| `torn_row_is_preserved` | violation | 1 row |
| `gate_wait_is_not_a_fault` | violation | 4 device events, 4 instants |

Bounds. Two submissions are enough for a late return of the first to meet the
second; the instants hold a lease, its renewal and a `stop()` join. The backend needs two
commands, for the lease that the first one's successor leaves to the second, and a clock that
outlasts that lease; its places, its failure alternatives and the camera are complete.
For the checkpoint files, one row of two kinds makes journals that extend each other and, in lives
that begin anew, journals that do not; three lives let a save that failed, one that keeps what it
left and a power loss fall into different ones. Journals of
two rows of one kind, in two lives, pass as well (`MaxRows = 2`); the theorems cover the rest. Three rows
with a queue of one fill the queue, reach a checkpoint interval of two updates and
end an episode; two lives are one crash or exit and its restart. The
queue capacity is one, so both the full outgoing queue and the full ingress occur.
Three steps give the Actor a first step without a predecessor, a middle one and one at
the time limit; three episodes let the second begin after one ending and close before
another begins. `pc`, the keys of two labels and the failure alternatives are complete.
Three device events make the SpaceMouse ready; two more engage, release, silence or lose
it; five instants are a hold and two report ages.
For the parameter stream, a publication interval of two leaves a version trained and
unpublished; a queue of one fills; `MaxRepeats` bounds only heartbeats that repeat what
their stream has sent, so that the needed ones are always possible, and still lets one go
out between the owner's two publications. The second Actor meets the first one's handler.

Fairness. Threads are scheduled eventually and the clock advances: weak fairness of each
thread. Nothing in the code bounds an SDK call, so no specification makes it fair;
`HaltEndsInHold` assumes it does return. Nobody is obliged to submit, stop, close, crash or restart. A
call of the uplink ends at its deadline: the sender thread as a whole is fair, and so is what
`run()` does of itself, collecting confirmations and finishing an exit it has begun.
The uplink may stop for good (both processes end), so deadlock is not checked there.
The Actor's only thread is scheduled eventually and every call it makes is bounded by a
timeout: weak fairness of `Run`. The operator owes nothing, and no alternative of a
call is fair: the gate may be refused for ever. The Actor exits, so deadlock is not
checked there either. In `ParameterStream` a handler, a begun publication and the Actor's
reading of its queue (every turn of its loop) go on; nobody is obliged to train, save,
subscribe or stay. Its Actors and Learners may all end, so deadlock is not checked.

## Disagreements found

* `archive_does_not_load`: the checkpoint archived for the first autonomous success is
  taken inside the ingest loop, when the journal already has the row and
  `accepted_transitions` does not; `load_checkpoint` refuses it.
* `torn_row_is_preserved`: after a failed journal write the worker's drain takes the
  row for a duplicate and saves a learner that `load_checkpoint` refuses, over the last
  good checkpoint.
* `gate_wait_is_not_a_fault`: the gate wait catches `InputNotVerifiable` and retries, as its
  comment promises; the call that raised it has already latched the source, so the retry
  ends the Actor. The shortest behaviour is a knob that reported before the
  start chord and not since.
* `drift_after_recheck`: the comment on the recheck of an expired predecessor says that the
  drift check below still bounds how far the robot moved. That check stands above; the
  pose that the recheck reads is never compared with the action's origin.

Observations without a run:

* `PolicyInputExpired` says that the step can be recomputed instead of ending the episode
  (freshness.py:27-31). It is raised inside `execute`, whose handler stops the stream for good
  (motion_backend.py:380-383): the episode ends.
* A snapshot cut short by a failed or killed save makes every later save of the
  identical journal raise "integrity mismatch" (provenance.py:104-115; `SnapshotMismatch`), the
  recovery save of the worker's `finally` block (real_learner.py:943-967) included, until
  a row is ingested.
* `os.fsync` of a snapshot that raises, or a death just before it, leaves a file that the next
  save of the same journal reads back whole and keeps without syncing it (provenance.py:106-116,
  126-127). That save then publishes a checkpoint that refers to it, and a power loss may leave
  the checkpoint without its snapshot. The archive of the first success swallows the error
  (real_learner.py:361-367) and an interval save of the same journal may follow (445-446).
  `OnlyDoubtedSnapshotsAreLost` says that this is the only way. No text of the repository
  promises otherwise, so there is no run of a violation.
* `drain()` answers True for requests that ended with an error (real_actor.py:373-384): the
  exit logs nothing of a last row that was refused. `CleanExitDelivers` therefore also asks
  that the transport had not failed.
* A Ctrl+C that arrives while the SDK clock is read is swallowed by the `except
  BaseException` around it (motion_backend.py:361-366).

## Proofs

Every invariant and every action property that a passing run checks is also proved, for all
constants that satisfy the named assumptions, and so is every refinement. Type invariants are
proved and no run repeats them.

`CommandStreamProofs` proves for all constants that satisfy `TimingAssumption` the type
invariant, the three safety properties and the refinement. The inductive invariant
`IInv` strengthens them with what each writer location knows: which sequence it
holds relative to the acknowledged one, what the port has latched, that a late send
excludes every location from which an acknowledgement is reachable, and what the
ended writer left behind. Each part has one lemma with one step per action; the
theorems combine them with PTL. Liveness stays with TLC.

`ActorRuntimeProofs` proves for every step limit, any number of episodes, with and
without automatic reset and the exit after a label: the type invariant, the four
safety invariants, the stop evidence, the labels and the refinement of `EpisodeLog`,
from `NoneAssumption` and `RowAssumption` alone. The properties are not
inductive: that a label fits the row it closes needs to know, at every place in `run()`,
that the coordinator's tokens, the step counter, the commands sent, the held-back row and
the newest row at the uplink are consecutive. `IInv` says this place by place
(`WaitingInv` between episodes, `EpisodeInv` within, `RowInv` and `FinishInv` around the
upload), with `ArmInv` for who holds which backend, `StopInv` for the stop and `KeysInv`
for the unread keys. `NextIInv` has one step per operation and one
part of the invariant under each; `EveryRowArrivesInOrder` carries both action properties.

`HumanTakeoverProofs` proves for every report age, release hold and number of reports the
type invariant, the three invariants about the recorded step and the release of control.
`IInv` adds that evidence of a zero report is never newer than the last zero frame seen
fresh and that the device holds nothing older (`EvidenceInv`), that a running release hold
began inside the uninterrupted run of neutral frames (`HoldInv`), and that between two steps
of an episode the gate is open and the human in control stays so (`EpisodeInv`).
One lemma covers the calls that decide, one those that drop what they read.

`ParameterStreamProofs` proves for every number of Actors, lives and versions, every queue
capacity and publication interval: the types, that no Actor refuses an envelope and that it
runs published policies. The invariant orders envelopes: one that is sent earlier carries a
policy that `Precedes` the later one's (lower version, or the very same policy). `ChainInv`
says this of the Actor's policy, its queue and what its handler holds; `StreamInv` of a
handler and what it may still take from `_latest`, also after the owner's second publication;
`LearnerInv` of the Learner. Every new envelope comes after all of them (`PublicationIsLast`).

`MotionBackendProofs` proves for every timing, number of rechecks and bound the types, the
five properties of the run and the refinement of `ArmHold`. It starts from the
stream's `IInv`: every step of the backend is a step of the stream or leaves the stream alone
(`BackendStepIsStreamStep`), so that invariant holds of the composition. What the backend adds
are the facts that tie its places to the stream: which sequence is out at each `pc`, what
`stopper` and the two threads are when a stop has been reported, who holds the reader's lock,
and that the feedback lease ends a send timeout after the target's lease, because the read
that renews it comes after the submission.

`CheckpointFilesProofs` proves for every set of rows, journal length and number of processes
that only a power loss, and only of a doubted snapshot, takes a checkpoint away, that the
training checkpoint continues what has returned, and the refinement of `CheckpointStore`. The
invariant (`FilesInv`) says of every directory in `survivors`, not of the visible one alone,
that its checkpoints refer to snapshots which are there and either synced or doubted, that a
synced one is whole, and that its training checkpoint continues what has returned. `SaveInv` adds
what each place of `save_checkpoint` has achieved: at `fsync` the snapshot is whole wherever its
name is, and not yet referred to. That no checkpoint is ever lost is false of the code, and not
claimed.

`TransitionUplinkProofs` proves for every number of sessions, rows and Learner lives, every queue
capacity, ratio and interval, from `UplinkAssumption` and `LearnerAssumption`: the types, that
the update credit is exact, that what an Actor counts as accepted was acknowledged, and what
the two exits leave. `IInv` follows an acknowledged row: it is in the ingress queue until the
dedup set has it (`QueueInv`), a worker on its way out drains a stopped ingress, and one that
is done without a preservation failure has written what it holds (`DrainInv`); without a torn
row the running learner passes the cross-checks of its own restore (`LoadsInv`), so the owner's
final save is one that loads. On the Actor's side `AccountInv` keeps every row it produced
outstanding or confirmed until the transport fails, and `LeavingInv` says what each place of the
exit block has established. Two more theorems measure the findings: `ArchiveNeverLoads`, that the
archive is refused in every behaviour, because the counter is exactly with the journal whenever
a row is not being ingested (`CountedInv`), and `OtherCheckpointsLoad`, that a torn row is the
only one of the modelled failures that spoils a checkpoint.

`TransitionOrderProofs` continues it with the order of the rows. None of the two properties is
inductive, because a handler whose client has given up may still append its row, after the sender
has retried, gone on, or been replaced by another Actor's. `OInv` says what such a
handler may hold: a row that a Learner would take for a duplicate once its queue is applied
(`Held`), or the newest row of its session, and then it is the sender's own, or the transport
has stopped (`HandlerInv`). That needs to know that there is one call with a client
(`ClientInv`), that the outgoing queue continues what was sent and all of that is promised but
for the row in the call (`OutgoingInv`), and that the Learner's side knows no row later than the
sender's (`KnowledgeInv`). Rows leave the handlers for the queue, where one that is
behind a later one of its session has come before (`PendingInv`), and the queue for the log
(`RecordsInv`). The refinement of `TransitionLog` reads off this: an acknowledgement is a
`Promise`, because its predecessors are promised (`PrefixInv`); an ingest is an `Apply` or, of
a duplicate, a stutter; a torn row is a stutter, because the log does not have it; a crash or an
exit is a `Die`, a restart a `Recover`.

Not proved are the liveness properties `LapsedLeaseHalts`, `EveryCallReturns`, `HaltEndsInHold`,
`EnqueuedRowIsFinished`, `AcknowledgedRowIsApplied`, `LabelEndsTheEpisode` and
`PublicationArrives`: they rest on fairness, hence on ENABLED, about which the prover can
conclude nothing. They stay with TLC. No induction over data is needed anywhere, and none is
proved.

## Plan

Done: command stream, uplink, Actor, human takeover, parameters, motion backend, checkpoint
files, in this order, each with its theorems. Left:

1. `DemonstrationIntervention` with its reader thread: no motion report commands twice.
2. A composition of `LearnerService` with `CheckpointFiles`: so far only the abstract
   `CheckpointStore` stands between them.

## Not modelled

The repository has 72 thousand lines of which 9 thousand are `src/g2_local`. The rest is
vendored (`lerobot`: policies, data sets, motor drivers, simulators) or the earlier scripts that
`g2_local` replaced: numerical code and batch scripts, whose state over time is that of
a library or of a single loop. Within `g2_local` the following is left out:

* network training, image processing, sampling, the beta schedule: numerical, no control
  that the properties tell apart;
* the demonstration recorder and its reader thread, demonstration import, offline
  pretraining: single-threaded batches, the reader thread excepted;
* the comparisons of time stamps in `ObservationFreshnessGuard` and the reset's geometry: the
  backend model lets every one of them refuse;
* configuration, identity hashing, calibration, launchers, printing, reports, the
  commissioning jog and the build of the native helper: validation and input/output.
