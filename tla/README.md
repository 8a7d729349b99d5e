# TLA+ models of PfTerminal

PfTerminal is a fork of the Codex CLI (Rust, `src/codex-rs/`) that adds native
multi-agent orchestration, rented GPUs as model providers, a Telegram bridge and
a wallet to the terminal agent. This directory models the parts of it that keep
durable state across concurrent tasks, provider calls and process deaths, and
checks and proves what makes them correct.

| file | what it is |
| --- | --- |
| `AgentMailbox.tla` | the durable inter-agent mailbox and the recipient's turn |
| `AgentMailboxProofs.tla` | TLAPS proofs about `AgentMailbox`: types, rows, rollout |
| `MailboxDeliveryProofs.tla` | TLAPS proofs that a message is executed at most once and not lost |
| `MCAgentMailbox.tla`, `Mailbox*.cfg` | its TLC instances |
| `GpuRental.tla` | the GPU rental controller against TUI and provider |
| `GpuRentalProofs.tla` | TLAPS proofs about `GpuRental` |
| `MCGpuRental.tla`, `Gpu*.cfg` | its TLC instances |
| `TelegramBridge.tla` | the Telegram connector: inbox, handler, bridge session and queue |
| `InputDelivery.tla` | the abstract specification that `TelegramBridge` implements |
| `TelegramBridgeProofs.tla` | TLAPS proofs about `TelegramBridge`, the refinement included |
| `MCTelegram.tla`, `Telegram*.cfg` | its TLC instances |
| `ExecutionSlots.tla` | the execution limiter, its guards and capacity waiters |
| `ExecutionSlotsProofs.tla` | TLAPS proofs about `ExecutionSlots` |
| `MCExecutionSlots.tla`, `Slots*.cfg` | its TLC instances |
| `Residency.tla` | resident agents, the LRU, the registry, spawn, load, message, close |
| `ResidencyProofs.tla` | TLAPS proofs about `Residency` |
| `MCResidency.tla`, `Residency.cfg` | its TLC instance |
| `SequenceFacts.tla` | lemmas about the elements of lists and queues, for the last two proofs |
| `ProviderRequests.tla` | the lease and cooldown that turns of all processes share |
| `ProviderRequestsProofs.tla` | TLAPS proofs about `ProviderRequests` |
| `MCProviderRequests.tla`, `Provider.cfg` | its TLC instance |
| `PROJECT.json` | components, runs, mutants, source map, findings, hazards, theorems |

Paths below are relative to `src/codex-rs/`. Definitions introduced by a comment
`Mutant:` are deliberate bugs that show a property can fail; no specification
uses them.

## 1. Inventory

**Durable agent mailbox** (`state/src/runtime/agent_mailbox.rs`,
`core/src/agent/control/mailbox.rs`, `core/src/session/input_queue.rs`).
*State:* one SQLite row per stable message id with a phase; an in-memory queue
of pending mail per session. *Operations:* admit, make ready, begin submission,
confirm, revert, list and recover, mark completed, enqueue, drain, defer.
*Interacts with* the thread manager (reload triggers recovery), the recipient's
submission loop, the rollout writer and the turn that consumes the mail.
*Hard:* the row, the rollout file and the session's memory are three stores
without a common transaction, and any of them can be ahead when the process dies.
*Correct when* a message is applied once, acknowledged only when durable,
executed as new work at most once, never lost once accepted, and its outcome
is never rewritten.

**Turn lifecycle around the mailbox** (`core/src/tasks/mod.rs`,
`core/src/tasks/regular.rs`, `core/src/session/{mod,turn,handlers}.rs`).
*State:* the active-turn slot, the running task, its pending input and tracked
message ids, the scheduled capacity wait. *Operations:* start, set up, record
input, sample, finish, follow up, abort, wake. *Hard:* `on_task_finished`
runs on after the task is detached while the submission loop, an interrupt and
the agent pool change the slot. *Correct when* pending trigger mail always gets
a turn and the settlement of rows reflects what the turn did.

**Execution slots** (`core/src/agent/control/execution.rs`,
`core/src/tasks/mod.rs`). *State:* a counter shared by all sub-agent sessions,
one guard per turn, one capacity waiter per session. *Operations:* try a guard,
take one past the limit for a human's turn, drop, wait, wake. *Interacts with*
each session's submission loop and finisher. *Hard:* the look and the sleep of a
waiter against the decrement and the notification of a drop; guards that are
taken before the session is known to be idle. *Correct when* the counter counts
guards, the limit holds for worker turns, no wake-up is lost and pending mail
gets a turn.

**Residency, registry and spawn** (`core/src/agent/control/{residency,spawn}.rs`,
`core/src/agent/{registry,control}.rs`, `core/src/thread_manager.rs`). *State:*
resident threads in LRU order, pending slots, the agent tree and its counter, the
thread map. *Operations:* reserve, evict, register, create, commit, unwind, touch,
send, close. *Hard:* victims that are in no list while they are inspected,
reservations undone on every error path, callers that hold a session which was
replaced. *Correct when* counters match what they count, every loaded agent can be
evicted, the limit is overshot by a bounded amount, and requests end.

**Rollout writer** (`rollout/src/recorder.rs`). *State:* pending items and a
file. *Operations:* add, flush, background write, shut down. *Correct when* a
successful flush means durable and a retry does not write twice.

**GPU rental controller** (`gpu-market/src/controller*.rs`,
`state/src/runtime/gpu_rentals.rs`, `state/src/runtime/gpu_runtime_providers.rs`,
`state/src/model/gpu_rental.rs`). *State:* the rental row (desired and observed
state, sequence, resource id, retry time, lease), the operation keys, the
runtime-provider listing. *Operations:* authorize, request creation and
termination (TUI); claim, reconcile by observed state, write, release
(controller). *Interacts with* the provider's API and with a TUI that writes the
same row. *Hard:* paid remote side effects whose answers are lost, deaths between
call and record, updates computed from a stale snapshot. *Correct when* one
authorization buys one instance, nothing is reported gone that is still
listed, the catalogue forgets what is gone, and limits lead to cleanup.

**Offer market, recipes and provider adapters** (`gpu-market/src/{market,recipe,
vast,runpod,provider_http,readiness}.rs`). Price arithmetic, HTTP and parsing.
*Correct when* errors are classified so that an open outcome is never taken for
a refusal.

**Provider request leases** (`state/src/runtime/provider_requests.rs`,
`core/src/session/turn.rs`). *State:* one lease and one cooldown per provider
profile, shared by all processes; a guard in the turn. *Operations:* acquire, check
the cooldown, record a result, release. *Hard:* results and releases that arrive
after the lease has expired, aborts, failing statements. *Correct when* unexpired
leases are exclusive, a 429 delays everyone, and a lease comes back without waiting
for its expiry.

**Telegram connector** (`telegram/src/{dedup,polling,bot,session}.rs`,
`telegram/src/bridge/`). *State:* a persisted inbox of pending and completed update
ids, a session (thread, turn), a queue of inputs, completion monitors. *Operations:*
begin, complete and release an update; submit, steer, queue and pump an input; /new,
/cancel; handle a completion; restart. *Hard:* replay after a death, inputs queued
behind a turn whose end arrives late or for another thread, a bounded window of
completed ids. *Correct when* an accepted update is carried out, no thread gets its
input twice, and the session never waits on a turn that is over. Approvals, model
and policy settings, media and rendering sit beside it.

**Crew and spawn orchestration** (`tui/src/{crew_state,dispatch_queue,
spawn_orchestration,orchestrate}.rs`). *State:* crew pins, panes, saved dispatch
records. An assignment becomes one mailbox message whose id is derived from its
origin and endpoints (`native_mailbox_message_id`); of the states a saved record
has room for, the code only writes `Queued`. *Correct when* one assignment is one
message, which is then the mailbox's matter.

**Wallet, wallet daemon, vault** and **tasknode session**: key handling, local
IPC, one login flow. **Upstream Codex** (exec, app-server, MCP, sandboxes, TUI
widgets): third-party to this product.

The hazards found while reading are in `PROJECT.json`, each at its line.

## 2. Plan

Done, in this order: `AgentMailbox` with proofs, `GpuRental` with proofs,
`TelegramBridge` with the refinement of `InputDelivery`, `ExecutionSlots` with proofs,
`Residency`, `ProviderRequests` with proofs; then proofs about `Residency` and
`TelegramBridge`, with the refinement, and the delivery proofs of the mailbox.

Left:

1. An abstract mailbox (accepted, written, settled) that `AgentMailbox` implements.
2. Refinements of the mailbox: a turn started by the abort inside shutdown, the
   wake of a durable sleep, paginated history.
3. "Ready means listed" for `GpuRental` after a death between the ready update and
   the publication.
4. Telegram approvals; the rollover of the completed window, with the weaker premise
   that the window covers a full inbox and one unconfirmed batch.

## 3. AgentMailbox

One recipient thread; rows of different recipients do not interact. Each
database statement, hand-over or await is a step, so a crash, another caller, an
interrupt or the rollout writer can come between any two.

| model | code |
| --- | --- |
| `phase` | `agent_mailbox.phase`; `Transition` is `transition_agent_message`'s compare-and-set, `MarkCompleted` the unconditional update guarded by `phase NOT IN` |
| `call[c]` | a task inside `admit_inter_agent_communication`, `send_persisted_...`, `recover_...` or a reload; `pc` names the next statement; the routes are the API, the tools, a bare send and a resume |
| `chan` | the session's submission channel (`InterAgentCommunication`, `WakePendingWork`, shutdown) |
| `mail`, `held` | `mailbox_pending_mails` with and without `ready_for_admitted_turn` |
| `turn` | the active-turn slot: empty, reserved, running, detached or aborting; task stage, explicit input still to record (`batch`), `pending_input`, delivery phase (`accept`), requests made, `mailbox_message_ids` |
| `fin` | the locals of `on_task_finished` after it has detached its task, up to the start of the next one (`start`) |
| `human` | `spawn_regular_turn_for_no_active_input` in the submission loop: about to drain the mail, or about to start its task with it |
| `rec` | `record_inter_agent_communication` in the task and in the finisher |
| `applied`, `buffered`, `rollout` | `applied_agent_message_ids`, items the writer holds, items in the file |
| `capWait`, `busy` | `capacity_wait_scheduled`; other agents hold every slot |
| `fresh`, `runs` | history variables: what the next request shows the provider for the first time, and how often that happened |
| `thrown` | history: messages in the input of a task that another task's start threw away |
| `dropped` | history: messages a cancelled caller had in hand since the recipient was loaded |

`Start` to `Revert` are the callers and `Cancel` the end of a tool call whose turn is
interrupted; `HandleMail`, `HandleWake` and `HumanTurn` to `HumanStart` the submission loop, `Record`, `Flush`, `Track`, `Acknowledge` the
recorder, `Setup` to `Exit` `run_turn` inside `RegularTask::run`, `Finish*` the
finisher, `Abort*` `abort_all_tasks`, then unload, shutdown and crash.

Abstractions. Message bodies, attempt ids and the four phases no code writes are
left out. User text and steering enter only as a human's turn. The lookup of the
database handle and the admission are one step. `Shutdown` aborts, flushes and
drops the session in one step, after the finisher has ended; a turn that its
abort would start is not modelled. The wake of a durable sleep
(`core/src/tasks/mod.rs:508-545`) and the paginated history store are not
modelled. A reload that fails to build a session is `LoadFails`.

Where starts overlap. A finisher reserves the slot (`FinishEnd`) and starts its task
awaits later (`FinishStart`); a human's turn finds no task (`HumanTurn`), drains the
mail (`HumanDrain`), aborts what runs by then (`HumanReplace`) and starts
(`HumanStart`). Whichever start comes second throws the other's task away. The
submission loop's own reservation and start for pending mail are one step: the loop
handles nothing in between, and a finisher's start that comes in between overwrites
the task, or is overwritten, alike. Two finishers of successive turns may overlap in
the code and do not in the model (`Detach` waits for the one before), and a
finisher's start waits for an abort in progress.

### Runs

| run | checks | shows |
| --- | --- | --- |
| `mailbox_turns` | `TypeOK`, `AppliedOnce`, `AcknowledgedIsDurable`, `OutcomeIsFinal` | one message sent twice, one crash, abort, unload, human turn, full pool and cancelled caller, flushes may fail (2.8 million states) |
| `mailbox_quiet` | `AcceptedMailIsKept` | two callers, a trigger and a queue-only message, two human turns and a full pool, no crash: drains, deferral, follow-up and failing mail turns lose nothing; only a start that throws away another task's input does (2.3 million states) |
| `mailbox_settle` | `ExecutedOnce`, `TriggerMessageIsDelivered`, `TriggerMailIsTaken` | across two crashes, an unload, a full pool and a cancelled caller the provider never sees a message as new work twice, and every trigger message that no cancelled caller left behind is delivered (75,306 states) |

What two of them concede is what the code does. Without `thrown`, TLC refutes
`AcceptedMailIsKept` on this instance: a finisher reserves the slot, a human's turn
drains confirmed queue-only mail and starts, and the finisher's start drops that task
with the mail in its input; the row stays `submitted` until a reload. Without
`dropped`, it refutes `TriggerMessageIsDelivered`: the sender's turn is interrupted
between admission and hand-over, or while it recovers the recipient it has just
loaded, the tool's future is aborted (`core/src/tools/parallel.rs:265`), and since only a reload recovers rows, the message
waits for the next one. A reload empties `dropped`, and from then on the property holds
of the message again.

*Bounds.* `Budget` bounds the environment events (calls, crashes, interrupts,
unloads, human turns, full pools, cancelled callers); `MaxRequests = 1` requests per turn; one or
two messages and callers. One message suffices for duplication, since every
duplicate concerns one id; two calls give a resend beside a recovery; two crashes
(`mailbox_settle`) let a recovery itself be interrupted. Two messages are used where
one can overtake another (`mailbox_quiet`). `mailbox_settle` has no interrupts: one
that takes the slot of a detached task starts nothing, the finisher then finds its slot
gone and skips pending work too, so that trigger mail waits for the next event
(`core/src/tasks/mod.rs:598`). Two concurrent callers are only in `mailbox_quiet`, where they are symmetric;
`AppliedOnce` and the other proved properties hold for any number.

Two switches take out a fault, so that a passing run says what holds without it;
`mailbox_turns` has both on. `FlushMayFail` is off in `mailbox_settle`: a flush error
is only logged and the turn samples anyway, so that a crash afterwards leaves the row
`submitted`, the rollout without the message, and recovery runs it again
(`core/src/session/mod.rs:3436`). `InputMayFail` is off in `mailbox_quiet`: queue-only
mail taken as explicit input of a human's turn is dropped when `run_turn` ends before
it records its input (`core/src/session/turn.rs:233`). Deadlock is not
checked for the mailbox: a session with nothing to do and no events left rightly
stops.

*Fairness.* Weak fairness for each caller, each recorder, the submission loop,
the task, the finisher, the aborter and the capacity wait: they are tokio tasks
that are polled until done, unless they are cancelled, which `Cancel` and `AbortKill`
do. `OthersReleaseSlot` is weakly fair because a guard is
dropped when its turn ends. `Resume` is weakly fair: the thread is opened again
after a crash, which is the premise of recovery. `Load` and `Setup` are strongly
fair: a reload or a turn's setup may fail, but not at every attempt. Nothing is
assumed of crashes, interrupts, cancellations, callers' intents or the model's answers.

### Proofs

`AgentMailboxProofs` proves, for every set of messages and callers and every
budget, from `MailboxAssumption` alone:

- `TypeCorrect`: `Spec => []TypeOK`;
- `MessageAppliedOnce`: `Spec => []AppliedOnce`;
- `AcknowledgedMessageIsDurable`: `Spec => []AcknowledgedIsDurable`;
- `MessageOutcomeIsFinal`: `Spec => OutcomeIsFinal`.

The first three rest on `InvHolds`: the inductive invariant is
`TypeOK /\ CallInv /\ UnloadedInv /\ RolloutInv /\ AckInv`.
`AppliedOnce` alone is not inductive: a record could append an id that is in the
file already. `RolloutInv` adds that in a loaded session the applied ids cover
both the buffered and the written ones, and that those two are disjoint; a record
therefore appends an id only when neither holds it, and a write moves each id
once. `UnloadedInv` says an unloaded session has no memory left that could still
write, so that a reload can rebuild the applied ids from the file. `AckInv` ties
each recorder's step and each tracked id to a written rollout, because the row
moves only after the flush that wrote it. `CallInv` says that a caller about to
use a message has one. `OutcomeIsFinal` follows step by step from types
only: a compare-and-set from a non-final phase and `MarkCompleted` both leave
final rows alone. The step lemmas are grouped by the part of the state they speak of (`CallsStep`,
`PhaseStep`, `MemoryStep`, `TurnStep`, `UnloadedStep`), each with one step per
action, and `InvStep` combines them.

`MailboxDeliveryProofs` adds the two properties of a message's way through the
session. Each holds under a premise on the constants, stated in the theorem:

- `MessageExecutedOnce`: `Spec => []ExecutedOnce` when no flush fails and either the
  process does not die, or no task is aborted and no human starts a turn over a
  detached one. Callers, reloads, unloads and, in the second case, crashes are
  unlimited. `mailbox_settle` is an instance of the second case. No part of the
  premise can go: TLC finds a message executed twice when a crash is allowed together
  with a failing flush, or with one human turn, or with one abort and a second trigger
  message. In the last two a turn starts while the finisher of the previous
  one still records, asks the provider about a message that the finisher has put into
  the history but not flushed, and the process dies before the flush: the row is still
  `submitted`, the rollout does not have the message, and recovery sends it again.
- `AcceptedMessageIsKept`: `Spec => []AcceptedMailIsKept` when a turn does not fail
  before it records its explicit input (`~InputMayFail`) and nothing crashes, unloads
  or aborts the session; human turns, a full pool, cancelled callers, failing mail
  turns and failing flushes are unlimited. The property itself excuses the input of a
  task that another start threw away. `mailbox_quiet` is an instance.

`ExecutedOnce` is a statement about history, so its invariant `SeenInv` ties the
history to state that survives: what the provider has seen, or is about to see, is in
the file or in the writer's buffer, hence among the applied ids, and is new to it only
once. A crash empties the buffer; `UndisturbedInv` says that without interruptions
only one recorder works at a time and the buffer holds only what it is flushing, so a
request, which a task makes with its recorder idle, is about written messages only.
`KeptInv` collects the messages of all queues, of the turn's, the finisher's and the
human turn's input, of the history and of `thrown` in one set, `Accepted`, and the step
lemmas show that no step removes a message from it (`AborterKeeps`: what an aborted task
still holds was thrown when it was replaced). `InputInv` supplies the reason: a slot is cleared and a
finisher ends only when its input is empty. `HandoverInv` says that the rows and the
callers know only of hand-overs that are in that set. `SequenceFacts` has the lemmas
on queues. `OnceInv` and `KeptInv`, the two inductive invariants, were checked
with TLC on two messages before they were proved.

The liveness properties are model-checked only.

## 4. GpuRental

One rental and one controller at a time (`gpu-controller.lock`). A reconcile works
on the row its claim returned (`ctl.snap`) and prepares one update (`ctl.upd`)
that `Write` applies; each provider call and each statement is a step.

| model | code |
| --- | --- |
| `row` | `gpu_rentals`: `des`, `obs`, `id`, `seq`, `retry` (due or never), `lease` (none, live, dead owner) |
| `ops` | keys of `gpu_rental_operations`: kind and state sequence |
| `listing` | `gpu_runtime_providers.health`, or no row |
| `ctl` | program counter, snapshot, resource in hand, pending update |
| `inst` | external: the provider's instances and their states |
| `overLimit` | `terminate_at_ms` passed or `max_total_microusd` reached |

`Authorize`, `RequestCreation`, `RequestTermination` are the TUI; `Claim`, `Poll`,
`Billing`, `Limit` and `Route` are `reconcile_due` and `reconcile_lease`; then the
handlers `Create*`, `Allocating`, `Provision`, `Phase`, `Probe`, `Publish`,
`Ready`, `Health`, `List`, `Term*`; then the environment.

Abstractions. Downloading and starting behave as bootstrapping; recipe, offer and
credential checks are nondeterministic outcomes; prices, tokens and backoff times
are left out (a retry is due or never). The two statements of the TUI's terminate
command are one step. A failing statement is covered by `Crash`, since it ends the
controller. The provider is external: it may decide late, lose or stop an
instance, and accept a request whose answer is lost.

### Runs

| run | checks | shows |
| --- | --- | --- |
| `gpu_rental` | `TypeOK`, `OneResource`, `ConfirmedIsAbsent`, `ConfirmedIsWithdrawn`, `LimitIsActedOn` | one failed call, one failed termination, one controller death and one health setback in any order (380,704 states) |
| `gpu_stuck` | `LimitEndsBilling` violated | finding 2 |
| `gpu_lost_request` | `TerminationRequestIsKept` violated | finding 3 |

*Bounds.* Two resource ids, so that a second purchase is representable; one of
each failure, which already meets every handler, including a death in a create
whose answer is open. Deadlock is checked: the TUI can always start a controller.

*Fairness.* The controller runs (`Reconcile`) and a TUI starts another one
(`StartController`): the process is spawned on start-up and on each GPU command.
Time passes (`LeaseExpires`), the provider decides on what it was asked
and deletes what was terminated. Nothing is assumed of users, of instance
health or of probes.

### Proofs

`GpuRentalProofs` proves, for every set of resource ids and every budget of
failures, from `RentalAssumption` alone: `TypeCorrect`, `OneResourcePerRental`
(`Spec => []OneResource`), `ConfirmedRentalIsAbsent`
(`Spec => []ConfirmedIsAbsent`) and `ConfirmedRentalIsWithdrawn`
(`Spec => []ConfirmedIsWithdrawn`). They follow from `InvHolds`, whose inductive
invariant is `TypeOK /\ RowInv /\ ConfirmedIsWithdrawn /\ CreateInv /\ ControllerInv`.

- *One resource.* As long as a rental is quoted, its desired state fixes its
  sequence (`Numbered`), and no update leads back to that state (`Forward`). Every
  create of a rental therefore uses the same key, an instance exists only if that
  key is recorded, and `CreateSend` is reached only from a `CreateBegin` that did
  not find it: no instance exists at that moment.
- *Absence.* Every recorded id was shown by the provider (`Shown`), so an id that
  is not listed is gone for good. Where the controller holds the id of its claim,
  it is the row's, so a lookup that finds nothing speaks of the recorded resource,
  and a confirmation prepared for writing stays true until it is written.
- *Withdrawal.* A confirmed row is never under a live lease; nothing can write
  over the confirmation, and neither insertion of a listing takes a row that
  does not serve.

`LimitIsActedOn` is model-checked only: it is a liveness property.

## 5. TelegramBridge and InputDelivery

One conversation. The bridge is one task that handles a command or an event at a
time, so each of its handlers is one step; the chat's update handler, the completion
monitors, the poll and the turns of the app-server run beside it, and the process can
die between any two steps.

| model | code |
| --- | --- |
| `poll`, `feed` | the `getUpdates` offset (confirmed when the next call sends it) and the updates waiting for the chat's handler |
| `handler` | `handle_message` for one update: command sent, answer received |
| `inbox`, `disk` | `UpdateDeduplicator`'s state (pending, completed window, in flight) and its file; `persist_lock` makes each call one step, a failed write changes nothing |
| `monitors`, `signalled` | `monitor_queued_update` tasks and sent `completion_tx` |
| `ses`, `saved` | `ChatSession` (thread, loaded, turn) and `state.json` |
| `queue` | `pending_inputs` of the conversation |
| `srv` | external: threads started, running turn, accepted input and rollout of each |
| `events` | `TurnCompleted` notifications not handled yet |
| `acted`, `done` | history: updates carried out by this process, updates completed on disk |

`HandleUserInput`, `NewThread`, `CancelTurn`, `TurnCompleted` and `OtherNotification`
are the bridge. A bridge handler that calls the app-server several times is written as
the set of its outcomes (`StartTurn`, `EnsureThread`, `Submit`, `Pump`), each with what
it leaves in the session, the server and the saved thread, also when a later call of it
fails.

Abstractions. An update is text, /new or /cancel; other commands, approvals, media and
authorization do not touch the inbox beyond completing their update. Of those, only
/compact starts a turn (`telegram/src/bridge/commands.rs:303`), which the session does
not name; it is left out.
Message layout is left out, the failure of a notice is not (`NoticesFail`). A turn is
named after the update that started it.

*Refinement.* `InputDelivery` says what is promised without inbox file, handlers, queue
or restarts: an update is accepted once, carried out only after that, given to a thread
at most once, and done only after it was carried out. `ImplementsDelivery` maps
`stage` to the file (`Stage`), `acted` to the history variable and `copies` to how often
a thread's accepted and recorded input holds the update.

| run | checks | shows |
| --- | --- | --- |
| `telegram` | `TypeOK`, `NoStuckTurn`, `AppliedOncePerThread`, `ImplementsDelivery`, `ClaimIsSettled` | five chats of three updates, one crash, one failed write and one failed request in any order (189,048 states) |
| `telegram_stuck` | `NoStuckTurn` violated | finding 4 |

*Bounds.* Three updates give a running turn, one behind it and a third that steers,
queues, cancels or leaves the thread; two threads allow one /new; the queue holds one
input, so that it is met full; one of each fault hits every write and request. The
window of completed ids covers the three updates: its rollover is not reached (listed
as a hazard). `NoticesFail` is off in `telegram`, because a lost notice alone violates
`NoStuckTurn`. A chat may end, so deadlock is not checked.

*Fairness.* Handler, monitors and bridge are tasks that run when they can; a turn
records its input and ends. Nothing is assumed of the user, of the poll or of faults.
`ClaimIsSettled` excuses behaviours in which a write or a request failed: the code then
leaves the claim to the next restart.

### Proofs

`TelegramBridgeProofs` proves, for every number of updates and threads, every batch,
window, inbox and queue size, every set of scripts and every fault budget, from
`TelegramAssumption`:

- `TypeCorrect`: `TypeOK`, and a turn the session names is of a thread;
- `TurnsAreNeverStuck`: `~NoticesFail => (Spec => []NoStuckTurn)`;
- `InputsAreAppliedOnce`: `~NoticesFail /\ Window >= MaxUpdate =>
  (Spec => []AppliedOncePerThread)`;
- `BridgeImplementsDelivery`: under the same premises `Spec => ImplementsDelivery`.

*Outcomes.* The bridge's handlers are sets of outcomes, so the first lemmas say what
every outcome of `EnsureThread`, `Steer`, `TurnStart` and `StartTurn` leaves behind:
the rollouts, at most one input added to one thread that has not recorded it, and a
session that names a live turn, where "live" is taken relative to a set `E` of threads.
`StartTurnStep` and `PumpStep` carry that to the actions, and are used three times:
with `E` all threads for the types, with `E` the threads of unhandled completions for
`NoStuckTurn`, and again for delivery.

*Stuck turns.* `LiveInv` is `NoStuckTurn` with the thread of a named turn; the steps that
matter are the ones that end a turn (they append the completion that keeps the property)
and `TurnCompleted`, which removes a completion and clears the session of its thread.
`NoticesFail = FALSE` is the premise `telegram_stuck` shows to be needed: the notice is
sent first and its error skips the clearing.

*Delivery.* `AppliedOncePerThread` says nothing of why a redelivered update is refused,
so `DeliveryInv` follows an update from claim to completion. `Claims`: file and memory
agree, what is in flight is pending and not completed, and what this process has carried
out is in flight or completed. `HandlerClaims`: the handler's update is claimed, by it
alone, and while a command is sent or has failed it is neither carried out nor queued.
`QueueClaims`: queued inputs are claimed, distinct and not carried out, a signalled one
was. `ThreadsHoldOnce`: a thread's accepted and recorded inputs are free of repetitions
and disjoint, and the accepted ones were carried out by this process. The two premises
enter at one step each: a failed `turn/steer` must not have added the input (the notice
that follows it can fail after the input was accepted), and a completed id must not
leave the window (`WindowForgetsNothing`). The second is sufficient, not tight: an
update older than the confirmed offset that is not pending never comes back, which is
what the code's bound relies on.

*Refinement.* `CopiesAre` turns the counts of the mapping into membership, after which
each action is matched: `Dispatch` accepts, completions finish, `start_turn` delivers or
(when the rollout holds the input already) acts, /new and /cancel act, turns move input
between the two lists of a thread and are not seen, a crash restarts.

`ClaimIsSettled` is liveness and model-checked only.

## 6. ExecutionSlots

| model | code |
| --- | --- |
| `active`, `dropping` | `AgentExecutionLimiter.active`; drops between `fetch_sub` and `notify_waiters` |
| `turn`, `fin` | a session's active-turn slot (empty, reserved, running for mail or a human, detached); `on_task_finished` calls between detach and slot cleanup |
| `mail` | pending trigger mail |
| `attempt` | `maybe_start_turn_for_pending_work` in the submission loop and in the finisher, step by step |
| `scheduled`, `waiter`, `notified` | `capacity_wait_scheduled`, the spawned waiter and its `Notified` future |
| `waking`, `wakes` | waiters past `finish_capacity_wait`; `WakePendingWork` ops in the channel |

The run `slots` has three agents on one slot, two mails, one human turn and one
interrupt (159,875 states). Three agents are needed for two waiters behind one holder,
which is where a notification can go to the wrong one; one slot makes every attempt
meet a full pool. What the turns do with the mail is `AgentMailbox`'s, which in turn
sees the pool only as full or not.

It checks `TypeOK`, `ActiveIsExact` (the counter is the number of guards),
`WorkersAreBounded` (human turns may exceed the limit, turns for mail may not),
`NoLostWakeUp`, `MailIsWatched` and, under fairness, `MailGetsATurn`. The last two
concede one case, which `InterruptEmpty` models: an interrupt takes the slot of a
detached task and starts nothing, since it aborted no turn (`core/src/tasks/mod.rs:598`),
and the finisher then finds the slot not its own and looks for no work either (937-948).
Trigger mail refused while the slot was detached is then `Stranded` until the next
event. `MailIsWatched` says that no other step strands mail, `MailGetsATurn` that mail
which is not stranded is taken. *Fairness:* every
task runs and every turn ends (a turn has request and time limits; a guard is dropped
when its task is). Deadlock is not checked, since a pool without mail rests.

`ReserveTurn` and `StartTask` are two steps because the code awaits between them: the
finisher's attempt fills the empty slot, and the submission loop may start a human's
task in it before the finisher's task is put there. The run `slots_replace` checks the
assertion that the start finds no task, on the same instance, and TLC refutes it
(finding 1). `StartTask` then drops the task it finds with its guard, so that the
counter stays exact even then, and the proofs cover it. A human's turn drains the mail
(`HumanTurn`) and starts (`HumanStart`) in two steps as well.

### Proofs

`ExecutionSlotsProofs` proves the five safety properties for every finite set of agents,
every limit and budget, from `SlotsAssumption`. The inductive invariant is `TypeOK`,
`ActiveIsExact`, `WorkersAreBounded` and `Watch`; `MailIsWatched` is a property of
steps, proved from it. `ActiveIsExact` needs cardinalities
of the guard set, which each action changes by at most one element. `NoLostWakeUp` is
not inductive: the waiter that goes to sleep has looked earlier. `FullWasSeen` extends
it back to the look: from then on, unless the waiter has been notified, the pool is full
or some drop has yet to notify. `MailIsWatched` needs `ScheduledIsWaiting` (a set flag
means a waiter exists that will clear it, so an attempt that finds it set may rely on
it), `FinishersExist` (a detached task has a finisher that looks for work) and
`ReservedIsStarting` (a reserved slot has an attempt about to start its task).
`MailGetsATurn` is liveness and model-checked only.

## 7. Residency

Each lock is held for one step and callers interleave at every await. A session is an
agent and a generation, because a caller can hold one that has been replaced.

| model | code |
| --- | --- |
| `residents`, `pending` | `V2ResidencyState`: LRU order and pending slots |
| `owner`, `reserved`, `total` | the agent tree (the agent registered under a path, paths whose entry names none) and `total_count`, a `usize` that wraps at `UsizeMax` |
| `map`, `live`, `gen`, `busy` | the thread manager's map, running submission loops, sessions so far, sessions that cannot be unloaded |
| `call[c]` | a caller in `spawn_agent_internal`, `ensure_v2_agent_loaded` and the send, `close_agent`, or a direct `resume_thread_with_history`, with the slot, reservation, path and victim it holds |
| `stray` | history: agents left in memory outside the list |
| `clashed` | history: the entry of an unfinished spawn was overwritten |

An agent is a thread id and has a path; a spawn takes a new id, and may take the path of
an agent that was closed. `CheckThread`, `CreateThread` and `Record` are the three parts
of `spawn_thread_with_source` that change shared state: the look at a resumed thread, the
insertion into the map and the write of the registry entry. `Cancel` drops a caller at an
await: a tool call is aborted when its turn is interrupted
(`core/src/tools/parallel.rs:265`). Its guards give back slot, count and path.

The run `residency` has three agents, two of them restored and two of one path, two
callers and room for one, with three mixes of calls (a spawn, messages, a close, a
resume) and one cancelled call in each (273,687 states). Room for one makes every load
evict; two callers give a victim in one hand while the other reserves; the shared path
lets a late load meet a spawn of the same path. It checks `TypeOK`, `CountsAreExact`,
`LoadedIsTracked`, `ResidentsAreBounded` and, with each caller scheduled fairly until it
is cancelled, `RequestEnds`. Three of them concede what the code does:

- `CountsAreExact` claims the pending slots always, the registry's total until `clashed`.
  A load that began before a close and ends after a new spawn has reserved the path
  overwrites the reserved entry uncounted (`core/src/agent/registry.rs:281-318`); when
  the spawn then fails, its count is taken back and the agent stays registered. A later
  close can then wrap the total, so `TypeOK` only says that it is a `usize`.
- `LoadedIsTracked` allows `stray` agents: a victim in the hand of a cancelled caller
  (`core/src/agent/control/residency.rs:127-147`), the thread of a cancelled load that is
  in the map and not committed, a sub-agent resumed directly
  (`core/src/thread_manager.rs:931-968`), and one reloaded while a late close or
  `InternalAgentDied` cleans up by id. The list of actions that can add to `stray` is the
  content of the property: no reservation, scan, eviction, load or commit loses an agent.
- `ResidentsAreBounded` bounds the others: the limit is overshot by fewer agents than
  there are callers, and the agents astray come on top, one for each such event.

A closed agent can be registered again by a load that was under way; the model has it,
and no property speaks of it. Forked and legacy (V1) spawns, roles, permissions and
nicknames are not modelled. `Without` is `retain` on a list that holds an id at most
once, which `Inv` shows.

### Proofs

`ResidencyProofs` proves, for every finite set of agents, paths and callers, every
capacity and budget, from `ResidencyAssumption`: `InvHolds`, `TypeCorrect`,
`CountsStayExact` (`CountsAreExact`), `LoadedStaysTracked` (`LoadedIsTracked`) and
`ResidentsStayBounded` (`ResidentsAreBounded`). The assumption that paths and callers
together fit in a `usize` is what keeps the exact counts from wrapping.

- *Counts.* A counter can only be compared with what callers hold if what a caller holds
  follows from where it is: `InControl` says at which steps a call has the slot, the
  reservation, the path and a victim. Each step, a cancellation included, then moves one
  caller in or out of `SlotHolders` and `Outstanding`. `Registry` says, as long as
  nothing clashed, that a reserved path belongs to one caller whose entry it still is, so
  that undoing a reservation never removes another's agent.
- *Tracking.* The list, the victims in hand and the agents about to be committed cover
  every loaded agent that is not astray; `IsInjective(residents)` makes popping the oldest
  remove exactly one.
- *Bound.* `ResidentsAreBounded` is not inductive: a caller that reserves looks at the
  list while another holds a victim that it may put back. `OpenIsBounded` counts the
  agents in the list or in hands that were never astray, together with the callers whose
  slot is still to be filled; a reservation is granted below the capacity, and at that
  moment at most the other callers have a victim in hand.

`RequestEnds` is liveness and model-checked only.

## 8. ProviderRequests

| model | code |
| --- | --- |
| `clock` | `now_unix_timestamp_ms()`, advancing at any time up to `MaxTime` |
| `row` | the provider's row of `provider_request_state`: owner, lease end, cooldown end, consecutive 429s |
| `turn[t]` | `try_run_sampling_request` of a turn: the clock value it read, its guard, the lease end it was given, the result in hand |
| `made`, `releases` | requests so far; release tasks spawned by dropped guards |

Reading the clock and running the transaction that uses the value are separate steps,
so time and other turns come between. The owner is the turn (process, thread, turn),
the same for all its requests. `Faulty` are the turns whose statements may return an
error.

Abstractions. Which requests are large enough to need a lease is a free choice; token
and byte counts, wording and the saturation of 64-bit times are left out. A task that
is aborted while the acquiring transaction commits leaves a lease without a guard
(`AbortAsked`), which only its expiry ends. A turn whose request is refused is over,
although it could ask once more for input that came meanwhile.

The run `provider` has three turns, one of which asks twice and another of which has
failing statements, a lease of one unit and a clock up to two, so that leases expire
under their requests, a second owner meets late results, and a second 429 follows a
first (265,677 states). It checks `TypeOK`, `LeaseIsExclusive`, `CooldownIsQuiet`,
`CooldownIsKept` and `LeaseComesFree`. *Fairness:* a turn's task and the spawned releases
run (streams and tools have timeouts); nothing is assumed of time, aborts or deaths. The
turns and the bounded clock end, so deadlock is not checked.

### Proofs

`ProviderRequestsProofs` proves, from `ProviderAssumption`, for every set of turns,
lease time, backoff and bound:

- `InvHolds`, `TypeCorrect` and `CooldownStays` (`Spec => CooldownIsKept`)
  whatever fails. The invariant is `TypeOK /\ ReadsClock /\ CooldownIsUnleased`: a clock
  value in hand is never in the future, so a lease is only granted when no cooldown
  runs, so nobody owns the row while one does, and only an owner's result moves it.
- `LeasesAreExclusive` and `CooldownsAreQuiet` under `NoReuse`: turns with failing
  statements make one request. `LeaseInv` adds that the row names the one live request
  (`LiveOwns`) and that a turn with a release under way asks no more
  (`ReleasedIsDone`, which needs `Counted`). The premise is needed: when a result cannot
  be recorded, the guard keeps its lease while tools run, and if they outlast it the
  release of that request matches the owner of the turn's next one
  (`core/src/session/turn.rs:2571`).

`LeaseComesFree` is liveness and model-checked only.

## 9. Findings

1. `slots_replace`: the finisher reserves the slot for pending mail and puts its task
   there awaits later; a human's task started in between is replaced, and dropping it
   aborts the human's turn without a word (`core/src/tasks/mod.rs:426`).
2. `gpu_stuck`: after two failed terminations the operation key, which depends on
   a sequence that no longer moves, conflicts for good and the instance is never
   terminated (`gpu-market/src/controller_termination.rs:72`).
3. `gpu_lost_request`: a termination requested during the readiness probe is
   overwritten by `desired_state = ready` (`gpu-market/src/controller.rs:585`).
4. `telegram_stuck`: the notice about an interrupted or failed turn is sent before the
   turn is cleared; when it fails the session keeps a turn that is over
   (`telegram/src/bridge/notifications.rs:73`).

The quoted claims are in `PROJECT.json`. Other places where a property needs a premise
are hazards with a note there: an interrupt that meets a detached task, a start that
throws away another task's input, a cancelled sender, a flush error before a crash, mail
dropped with unrecorded input, a cancelled eviction, a reserved path that a late load
overwrites, a lease owner shared by a turn's requests, a steered
input whose notice fails, an evicted agent that is forgotten. Two observations have no
property: a failed provider request is settled as `completed`
(`core/src/session/turn.rs:768`, where `MULTIMODEL-NATIVE-ORCHESTRATION-JOURNAL.md:387`
wants `unknown_outcome`), and with paginated history a reload may forget applied ids
(`core/src/agent/control/spawn.rs:79`).

## 10. Only model-checked

Liveness under fairness and `ENABLED` are outside what the installed provers do, and so
is induction over data; the temporal properties stay with TLC. Every safety invariant
that a passing run checks is stated by a theorem, some under a premise on the constants
that the theorem names. What a property concedes to the code through a history variable
(`thrown`, `stray`, `clashed`) or a named state (`Stranded`) it concedes in both.

## 11. Not modelled

- Telegram approvals, settings commands, authorization, media and rendering: they
  change neither the inbox nor the session's turn. The turn that /compact starts.
- Crew orchestration: terminal layout and prompt text above the mailbox; its dispatch
  records are only ever written as queued, and delivery is the mailbox row's.
- Forked and V1 spawns; tools, sampling and compaction inside a turn.
- Offer arithmetic and HTTP adapters: data conversion without shared state.
- Wallet, vault and login: cryptography, file permissions and small sequential flows.
- The rollout writer beyond buffered, written and flushed items.
- The upstream Codex engine, app-server and interface. They make up most of the
  repository's 844,746 lines of implementation, are not this product's own logic and
  hold little state whose interleavings matter; the models cover the fork's durable and
  concurrent parts and only a small share of all lines.
