# OpenHuman core: verification project

TLA+ models of the Rust core of OpenHuman (`src/src/openhuman/`), the TLC
configurations that check them on small instances, and TLAPS proofs of the
theorems that matter most for instances of every size.

Paths below are relative to `src/src/openhuman/` unless they start with `src/`.

1. [The system](#1-the-system)
2. [Modules](#2-modules)
3. [The approval gate](#3-the-approval-gate)
4. [Chat turns and the run queue](#4-chat-turns-and-the-run-queue)
5. [Flow runs](#5-flow-runs)
6. [Background delivery](#6-background-delivery)
7. [Task dispatcher](#7-task-dispatcher)
8. [Runs, bounds and fairness](#8-runs-bounds-and-fairness)
9. [What is proved, and how](#9-what-is-proved-and-how)
10. [Where docs and code disagree](#10-where-docs-and-code-disagree)
11. [Not modelled](#11-not-modelled)
12. [Plan](#12-plan)

## 1. The system

OpenHuman is a desktop agent. A React interface in a Tauri shell talks JSON-RPC
and Socket.IO to a long-lived Rust process, *the core*, on one tokio runtime.
The core runs agent turns (an LLM in a loop with tools, driven by the vendored
TinyAgents harness) on behalf of many callers at once: the chat window, external
channels, meetings, cron jobs, saved workflows, background ticks, goals that
continue while nobody is there. Nearly everything that is hard in it is an
interleaving of such turns over process-global maps behind short locks, with
SQLite or a file behind some of them.

### Components

| component | state it keeps | operations | talks to | what is hard |
| --- | --- | --- | --- | --- |
| **approval gate** `security/approval/` | waiter map, two route maps; SQLite tables `pending_approvals`, `flow_tool_trust`; the allowlist in the config file | intercept a tool call, park it, decide it (card, typed, spoken), expire, tear down, grant and revoke trust | called by the tool middleware of every turn; decided by RPC, web channel and meetings; grants written by RPC, flows, settings | three deciders, two timers, a drop guard and a crash around one oneshot and one row |
| **web channel** `web_chat/ops.rs` | `IN_FLIGHT`, `PARALLEL_IN_FLIGHT`, cached sessions, budget signals | start, supersede, fork, queue, cancel, clear, end of turn | called by RPC; drives the harness; publishes events; hands approval replies to the gate; falls back to the task dispatcher on cancel | look-up, superseding and registration in three lock sections; tasks that end before they are registered |
| **run queue and steering** `agent/harness/run_queue/`, `agent/tinyagents/steering_forwarder.rs` | three lanes per turn; the steering handle of the harness | push, drain, clear; a 50 ms forwarder with a drop guard | filled by the web channel and by `steer_subagent`, read by the forwarder and by the end of a turn | messages in hand when the forwarder is aborted; residual messages after the turn |
| **flow runs** `flows/ops.rs`, `flows/run_registry.rs`, `flows/store.rs` | run rows, the in-flight registry, graph checkpoints | run, resume, cancel, settle, sweep at boot, expire parked runs | triggers and RPC start them; their tool calls park in the gate | row, registry and checkpoint change in separate steps; concurrent resumes; crash |
| **background delivery** `agent/orchestration/background_{completions,delivery}.rs` | pending completions, busy and delivering sets | record, debounce, deliver as a system turn, requeue | fed by the event bus; runs turns through the task dispatcher | a wake-up lost between two sets |
| **task dispatcher** `agent/task_dispatcher/` | task cards, `ACTIVE_RUNS`, heartbeats | claim, run, write back, cancel, poll | boards, turns, web-channel cancel | exactly one writer of the final state |
| **triggers** `subconscious/triggers/` | bounded priority queue, dedupe windows, promotion budget | ingest, gate, push, pop | event bus; long-lived session | overflow policy, budget per hour |
| **subconscious and heartbeat** `subconscious/` | tick lock, generation, baselines, halt | tick, supersede, commit | providers, memory | timeouts against late commits |
| **plan review** `agent/plan_review/gate.rs` | waiter map, one route per thread | park, decide, decide by thread | plan tool, web channel | same shape as the gate, with no store |
| **thread goals** `threads/goals/` | goal file per thread, continuation gate | set, complete, tick, continue, suppress | heartbeat; approval gate | check-then-act against user turns |
| **config writers** `config/ops/` | config file, one lock for one field | load, edit, save | settings RPC, approval RPC, migrations | two writers with different locks |
| **cron** `cron/` | jobs and runs in SQLite | poll due jobs, run with retries, persist, reschedule | turns, delivery | long runs against the next poll |
| **running sub-agents** `agent/orchestration/running_subagents.rs` | detached-task registry | spawn, steer, wait, cancel | harness, background delivery | status watch against abort |
| **MCP connections** `mcp/registry/` | connection map, per-server backoff | connect, probe, reconnect, disconnect | tools | supervisor against manual connect |
| **socket** `platform/socket/` | connection state, token | connect, loop, back off | backend | reconnection |
| memory, inference, skills, integrations, channels, meet, voice, media, search, web3, tinyplace, desktop | caches, indexes, provider clients | calls to external services and conversions | everything | mostly I/O |
| user interface, shell | UI state | — | the core's RPC | no state the core relies on |

### How they meet

```
 RPC / Socket.IO ──► web channel ──spawns──► turn task ──► harness ──► tool middleware
        │              │    ▲                   │  ▲                        │
        │   queue lanes│    │followups          │  │ steering handle        ▼
        │              ▼    └───────────────────┘  └── forwarder      approval gate
        │          run queue                                          (park on oneshot)
        │                                                              ▲  ▲  ▲
        └──────── approval_decide ─────────────────────────────────────┘  │  │
 web channel: typed yes/no on the thread ─────────────────────────────────┘  │
 meetings: spoken yes/no in the meeting ──────────────────────────────────────┘
 cron, flows, goals, ticks ──► turns with their own origin ──► the same gate
```

The three state machines of sections 5 to 7 meet these two at turns: a flow's tool
calls park in the gate like any other, a system turn with background results and the
run of a task card are turns of their own origin. In each model the turns of others
are steps that may happen at any time.

A typed message is looked at by the gate's route first (`ThreadReply` of
`ApprovalGate`) and only otherwise becomes a turn or a queued message (`Receive`
of `WebChat`). The end of a chat turn, however it comes, drops the futures of
the tool calls parked in it; in `ApprovalGate` that is `TearDown`, which may
happen to any parked call at any time, so the gate's properties hold whatever
the web channel does to its turns.

### What makes each part correct

* **Gate**: a call that had to ask runs only on its own, durable approval; the
  decider that committed is the one that is heard; nothing parks forever; routes
  never dangle and never vanish under a live park; trust is never wider than
  what the user said.
* **Web channel**: every turn ends in a terminal event; a turn is cancelled only
  for a reason; the end of one turn never touches the entry of another; queued
  messages are neither lost on a live turn nor run too early.
* **Flow runs**: a settled row stays as it is; a parked run keeps the checkpoint it
  was parked with; one call executes it, on the graph the user approved.
* **Background delivery**: an accepted result is delivered once, by one system turn
  at a time, and nothing collected or deleted comes back.
* **Task dispatcher**: a claimed card does not stay in progress; the outcome of a run
  is written back once.
* **Triggers**: an important trigger is never lost to a less important one, and
  equals come out in order.
* **Plan review, goals, config writers, cron**: see [the plan](#12-plan).

The hazards, each with the line at which it bites and the properties that watch
it, are listed in `PROJECT.json`.

## 2. Modules

| module | what it is |
| --- | --- |
| `GatePolicy` | the ladder of the gate: origins, shortcuts, the verdict on a call; pure operators |
| `ApprovalGate` | the gate, its store, its deciders, trust, teardown, restart |
| `ApprovalContract` | what the gate promises, with no waiters, timers or deciders |
| `MCApprovalGate` | calls and symmetry of the gate's instances |
| `ApprovalGateProofs` | theorems about the gate |
| `WebChat` | chat turns, the run queue, steering, cancels |
| `MCWebChat` | symmetry of the chat instances |
| `ChatContract` | what the web channel promises for a message: its stages, answers and stops |
| `WebChatProofs` | theorems about chat turns |
| `WebChatRefinement` | `WebChat` implements `ChatContract` |
| `FlowRuns` | rows, registry and checkpoints of flow runs; starts, resumes, cancels, sweeps, crash |
| `FlowRunContract` | the lifecycle of a run: its status and who executes it |
| `MCFlowRuns` | symmetry of the flow instances |
| `FlowRunsProofs` | theorems about flow runs |
| `BackgroundDelivery` | detached sub-agents, the queue of results, attempts at delivery, deletion |
| `DeliveryContract` | what becomes of a result: waiting, carried, delivered, collected, discarded |
| `MCBackgroundDelivery` | sessions, threads and symmetry of its instances |
| `BackgroundDeliveryProofs` | theorems about background delivery |
| `TaskDispatcher` | cards, run records, the poller, triage, write-back, reclaim, crash |
| `CardContract` | who may move a card, and how often |
| `MCTaskDispatcher` | symmetry of its instances |
| `TaskDispatcherProofs` | theorems about task runs |

Constants are the sets of actors and the bounds; their assumptions are named and
stand in the module that declares them. Actions have the names of the functions
or of the arms of the code they stand for. An operator whose name ends in
`_Something` is a *mutant*: the definition before which it stands, with a
plausible bug in it. Mutants are used by nothing; they document how each property
can fail, and each property was seen to fail under its mutant.

Every component has an abstract specification of what it promises, in a handful of
steps: `ApprovalContract`, `ChatContract`, `FlowRunContract`, `DeliveryContract`,
`CardContract`. The component's module instantiates it over its own state
(`Contract`), TLC checks `Contract!Spec` as a property of a run, and a theorem proves
it for every instance. What a contract implies or rests on (that a turn ends
answered, a followup is ordered after its host, a run is announced once, a queue holds
nothing discarded, an outcome is written once) is still stated as an invariant and
proved as a theorem of its own; the runs check the contract.

## 3. The approval gate

### State

| variable | code |
| --- | --- |
| `phase`, `call`, `outcome` | the control point of the future of `intercept_audited_inner`, its arguments and task-locals, its result |
| `waiters` | keys of `ApprovalGate::waiters` |
| `sent` | the value in the oneshot of a request |
| `threadRoute`, `meetingRoute` | `thread_to_request`, `meeting_to_request` |
| `row`, `due`, `executed` | a row of `pending_approvals`: undecided or its decision, whether `expires_at` has passed, whether `executed_at` is set |
| `handler` | the deciders: where each is in `store::decide`, `take_waiter`, `send`, and the RPC's persisting of a standing decision |
| `flowTrust`, `preauthorized` | `flow_tool_trust`, and which of its rows came from a pre-authorization card (history) |
| `autoApprove`, `autoApproveAll` | the two settings of `config.autonomy` |
| `deleted` | flows that were deleted (history) |
| `edits`, `restarts` | bounds |

### Actions

An intercepted call is answered by the ladder (`Answer`, with `Verdict` of
`GatePolicy`) or registered (`Register`: waiter and both routes), persisted
(`Persist`, `PersistFails`) and parked. A park ends in one of five ways.

| end of a park | actions | code |
| --- | --- | --- |
| a decision arrives | `Wake` | `gate.rs` 1045–1066 |
| the caller's bound elapses | `BoundElapses`: the row stays open on purpose | 1086–1118 |
| the TTL elapses | `TtlElapses`, `DenyExpired`, `Reread`, or `ExpiryFails` | 1119–1168 |
| the turn is dropped | `TearDown`, `ClearRoutes`, `DenyTorn`, one per step of `WaiterGuard::drop` | 264–296 |
| the core dies | `Restart`: memory is lost, the store stays | 301–345 |

A decider chooses its target (`CardDecision`, `ThreadReply`, `MeetingReply`) and
then goes through `DecideSweep`, `DecideCommit`, `TakeWaiter`, `Send` and, for the
RPC with a standing decision, `GrantStanding`. Between any two of them any other
actor may move: the sweep and the guarded `UPDATE` are two SQL statements, the
waiter map is a lock of its own, and the oneshot is used outside of it. The value
of a ready oneshot wins over an elapsed timer because `tokio::time::timeout` polls
the inner future first; that is why the timer arms require `sent[r] = NULL`.

With `StoreFaults`, every call to the store may fail, before or after its effect:
the `UPDATE` may commit and the read-back fail, the sweep may run and the update
fail, an insert may be refused.

Time is abstract: `Deadline` makes a row due. The gate's TTL is only assumed to
elapse at or after `expires_at` (both are computed from the same clock reading,
the row first); the caller's bound may elapse whenever.

### Properties

| property | says | watches |
| --- | --- | --- |
| `AllowNeedsApproval` | a call that asked passes only with an approval in its own row | timers, races, faults, mistaken targets |
| `DeliveredIsDurable` | what a parked future hears is what the store holds | two deciders |
| `SenderNeverLost` | an unanswered parked call still has a sender somewhere | order of register and persist, take and send |
| `NoDeadRouting` | a route names a request that waits or is being torn down | #4774 |
| `RouteOutlivesOthers` | a route goes only with its own request | #4774 |
| `ImplementsContract` | the gate implements `ApprovalContract` | everything above, with a crash |
| `OutcomeAgreesWithRow` | a denied call has no approved row (#2367) | TTL against a late approval |
| `DecisionUnderway` | the decision of a parked call is in its oneshot or in a decider's hands; only a row the sweep expired is left to the timer | send after commit, lost senders |
| `NoOpenRowBehind` | only a caller's own bound leaves an open row | teardown |
| `TrustProvenance` | every trust grant goes back to the user, for that tool and flow | RPC granting from the row |
| `ReviewNeedsConsent` | a goal or a reviewed flow is not let through by the per-tool allowlist | order of the ladder |
| `ParkResolves` | no call parks forever | lost wake-ups |
| `ApprovalDelivered` | a committed approval reaches the call | lost wake-ups, TTL |

`ApprovalContract` has four kinds of step: a request is opened, decided once,
permitted if approved, recorded as executed if permitted. The mapping is
`permitted <- {r : outcome[r] = "allow" /\ row[r] # "none"}`, with rows and
`executed` mapped to themselves. Everything the gate has beside it, from the
waiters to the flow trust, is stuttering.

## 4. Chat turns and the run queue

### State

A message, the `start_chat` call that brings it in and the turn it may start share
one identity (the code gives them one `request_id`; a followup that is dispatched
again gets a new one, which no property can tell from the old).

| variable | code |
| --- | --- |
| `msg` | thread and queue mode of a message |
| `at` | where the `start_chat` call is, then where the message is: in a queue, in the forwarder's hands, in the steering handle, seen, dropped |
| `host` | whose run queue the message joined last |
| `turn` | control point of the turn task |
| `cancelled` | turns whose cancel token is cancelled |
| `told` | terminal events published for the turn |
| `inFlight`, `parallel` | `IN_FLIGHT`, `PARALLEL_IN_FLIGHT` |
| `stop` | cancel requests: where each is in `cancel_chat_scoped`, what it names, what it has cancelled and not yet told |

### Actions

`start_chat` holds the lock of `IN_FLIGHT` three times, and the model has a step
for each: `Enqueue` or `FallThrough` (look-up for the queueing modes), `Supersede`
(remove, cancel and tell the registered turn, spawn the new one), `Register`.
A parallel message goes through `Fork` and `Register` alone. Between `Supersede`
and `Register` the spawned task already runs, and may be over.

The turn task: `Arm` (the steering guard is in place), then `Produce` (result,
error or wall clock) or `Unwind` (the token won the select). A turn that produced
responds (`Respond`), and then `DispatchFollowups`: if the entry still names it,
its followups are drained, the entry removed, and `start_chat` called again for
each, concurrently. A cancelled one goes through `Release`. Parallel turns remove
themselves (`LeaveParallel`). `HardAbort` is the backstop of a cancel: five seconds
after it, the task is aborted wherever it is.

Steering: `Take` (drain a lane), `Deliver` (send to the handle), `Checkpoint` (the
harness applies the handle), `DropGuard` and `Requeue` (what the handle still held
goes back to the queue of the same turn by a detached task).

Cancels: `StopPrimary`, `StopForks`, `StopTells`, one per lock section and one for
the events. `ClearQueue` is the queue RPC. A scoped stop may name any turn that
exists, on any thread, superseded and finished ones included.

### Properties

| property | says | watches |
| --- | --- | --- |
| `RegisteredNotCancelled` | a registered turn was not cancelled before | messages queued on, and stops spent on, dead turns |
| `EvictionOwned` | an entry goes only with the turn it names | end of a superseded turn against its successor |
| `CancelHasCause` | a cancelled turn was superseded on its thread or meant by a stop | late cancels (#4760), parallel turns |
| `ImplementsContract` | the channel implements `ChatContract` | everything above; silent turns (#4746), order of followups |
| `EveryTurnAnswered` | every turn is answered | same, as progress |
| `FollowupServed` | a followup on a registered, live turn is taken up, unless that turn is cancelled or overwritten | followups forgotten |
| `SteerHeeded` | a steer is heard while its turn runs; what becomes of it when the turn ends is in [10](#10-where-docs-and-code-disagree) | forwarder and checkpoints |

`ChatContract` has a stage per message (unsent, called, joined, heard, cleared, turn,
over), the turn it joined last, and the sets of turns that were answered, are owed an
answer by a stop, and were stopped. A message joins only a turn that nobody has
stopped; it is heard only while that turn runs; it begins its own turn only if it
joined none or that one was answered, and then stops at most one other; a stop tells
exactly those it stopped, and no turn is over that was neither answered nor is owed
it. The stage is computed from `at` and `turn` (`Stage`), the rest is state of the
model under another name. That the forwarder holds a message, has sent it on or puts it
back is stuttering, and so is everything about the lanes and the maps.
`EndedAnswered` and `FollowupAfterHost` follow from it.

## 5. Flow runs

A run of a saved flow executes in the tinyflows engine. At an approval gate of its
graph it pauses: the engine leaves a checkpoint, the row is parked, and a later
resume continues from there. Three records describe a run: its row, its entry in
the registry of the process, its checkpoint. Nothing locks all three.

### State

| variable | code |
| --- | --- |
| `row`, `pin`, `pending`, `started`, `born` | `flow_runs`: status, `graph_hash`, `pending_approvals`, `started_at` as a rank, and whether it is below `PROCESS_RUN_FLOOR` |
| `saved` | the checkpoint, by the gate it is paused at |
| `registry`, `signalled` | `run_registry::IN_FLIGHT` by owner, and the tripped tokens |
| `at`, `of`, `loaded`, `from`, `ends` | control point of each start and resume, its run, the flow it loaded, the gate its engine continued from, how it ended |
| `cancelAt`, `target` | each `flows_cancel_run` |
| `swept` | what a sweep still owes a run whose row it settled |
| `boot` | the sweep at boot: listed, left to examine, found orphaned |
| `graph` | the flow, which may be edited or deleted at any moment |
| `finished`, `origin` | history: `FlowRunFinished` events, the graph of the start |
| `edits`, `restarts` | bounds |

### Actions

| who | actions | code |
| --- | --- | --- |
| a start | `Start`, `InsertRow`, `FailEarly` | `flows_run`, `flows_run_detached`, `run_flow_body` |
| a resume | `LoadFlow`, `CheckRow`, `RefuseStale`, `DropRefused`, `RefuseIncompatible`, `GiveUp`, `RegisterResume`, `Claim` | `flows_resume`, up to `mark_run_resuming` |
| both | `BeginEngine`, `EnginePauses`, `EngineEnds`, `SeeCancel`, `DropFuture`, `WriteEnd`, `DropCancelled`, `Leave` | the biased select over token and engine, `RunRowFinalizer`, `finish_flow_run_row`, `RunGuard` |
| a cancel | `ReadStatus`, `Signal`, `SettleCancel`, `DropByCancel` | `flows_cancel_run` |
| the sweep of parked runs | `Expire`, `Announce`, `DropSwept`, `AbandonSweep` | `sweep_expired_parked_runs`, from any listing |
| the sweep at boot | `ListOrphans`, `ExamineOrphan`, `MarkInterrupted` | `sweep_orphaned_running_runs_on_boot` |
| others | `PruneRuns`, `EditFlow`, `Crash`, `Rest` | retention, `flows_update` and `flows_delete`, the machine, nothing left to do |

Every SQL statement and every lock is a step. With `StoreFaults` a write may miss,
and the code goes on as it does then: a run whose insert failed executes without a
row, a row whose last write failed stays as it was.

### Properties

| property | says | watches |
| --- | --- | --- |
| `OneExecutor` | a run is executed by one call, and by none while parked | two resumes, a resume against the pausing run |
| `ParkedIsResumable` | a parked row has the checkpoint of the gate it names | drops of checkpoints by cancels, refusals, sweeps |
| `ApprovedGraphOnly` | a resume executes the graph the run was started with | edits between checks |
| `StartIsProtected` | an executing start owns its registration and its row | cancel that finds no entry, boot sweep against a new run |
| `LifecycleHolds` | rows, executors and announcements implement `FlowRunContract` | everything above, with a crash; several writers of the last status |
| `RunningIsAttended` | a row that says running is executed, or the sweep at boot has yet to settle it (store works) | crash, sweep against live runs |
| `RunsSettle` | no row says running for ever | crash, dropped futures |

`FlowRunContract` has a status and a set of executors per run: begin once, pause,
taken up by one call, settle once, forget; and one announcement, once it is settled.
The mapping is `status <- row`, `announced <- finished`, and `executors` as defined
over `at` and `of`. Registry, checkpoints, pins and sweeps are stuttering. `OneFinish`
follows from it.

## 6. Background delivery

A detached sub-agent that ends puts its result into a queue and announces it on the
event bus. An attempt, 300 ms after a turn of the session or 3 s after a sub-agent
of it ended, drains the queue of an idle session and runs one system turn with the batch.

### State

| variable | code |
| --- | --- |
| `turns`, `begun` | user turns of a session that are running; a bound |
| `bus` | events published and not handled |
| `busy`, `slots`, `sleeping` | `BUSY`, the sessions being delivered to, armed timers of `schedule_delivery` |
| `at`, `session`, `hand` | each attempt (`try_deliver`), its session, the batch in its hands |
| `pending`, `tombs`, `collected` | `QueueState` of `background_completions.rs` |
| `agent`, `usable`, `entry`, `cancelling` | each sub-agent, whether its result is usable, its entry in `running_subagents`, cancels between abort and notice |
| `deletion`, `purge`, `left`, `gone` | `thread_delete`, `threads_purge` |
| `recorded`, `delivered`, `cancelled` | history |

### Actions

Turns begin, are refused, end, or are dropped without an event (`BeginTurn`,
`RefuseTurn`, `EndTurn`, `DropTurn`); `Handle` is the event handler on the oldest
event. A sub-agent is spawned, registered, and ends in three steps that have no await
between them (`Signal`, `Record`, `Announce`), so an abort no longer stops it there.
The parent may take its result (`Collect`), the user cancel it (`CancelTask`,
`RecordCancelled`). Deleting a thread takes three steps, purging them all four. An
attempt is `Wake`, `Look`, `ClaimSlot`, `CheckIdle`, `Drain`, `Recheck`, the system
turn (`TurnDone` or `TurnFails`), `Requeue` for each result it puts back, `Release`.

### Properties

| property | says | watches |
| --- | --- | --- |
| `OneDeliveryPerSession` | one attempt per session past the claim of its slot | timers that fire together |
| `NoResultLost` | an accepted result is queued, in hand, delivered, collected, or its thread is gone | failed system turns, turns that begin between checks |
| `DeliveredOnce` | one system turn per result, two for a cancelled sub-agent | drained twice, notice and result |
| `ImplementsContract` | queue, batches and deliveries implement `DeliveryContract` | everything above; results put back late, sub-agents past their last await |
| `ResultsDelivered` | an accepted result is delivered or collected | wake-ups lost between `busy` and `slots` |

In `DeliveryContract` a result waits, is carried with all that waits for its session,
and the batch is delivered as a whole or put back result by result; nothing comes to
wait that was collected or whose thread was discarded, and only deleted threads are
discarded. The mapping is `waiting <- pending`, `closed <- tombs`, and
`carried[s]`, the batches in the hands of the attempts for `s`. Turns, events, timers,
the busy and delivering sets and the sub-agents themselves are stuttering.
`NothingQueuedForGone` follows from it.

## 7. Task dispatcher

Cards of a board are claimed by the poller or a triage arm and executed by an
autonomous run. Card and run record are durable and written by separate calls, in an
order that differs between claim, write-back and reclaim.

### State

| variable | code |
| --- | --- |
| `card` | `TaskBoardCard.status` |
| `record`, `stale` | `TaskRun` and its outcome; whether it is past `claim_ttl_secs` or `heartbeat_stale_secs` |
| `cardOf`, `worker`, `threaded`, `active` | the card of a run, its detached task, whether it has a session thread, `ACTIVE_RUNS` |
| `write`, `result` | how far its write-back is, and with what |
| `at`, `listed`, `target`, `run` | the poller and other callers: where they are, the stale runs they have listed, the card and run they are about |
| `crashes`, `requeues`; `writers` | bounds; history |

### Actions

A sweep is `FindStale`, `ReclaimRecord` and `ReclaimCard` for each stale run
(`runs::reclaim_stale`), and is how every tick of the poller starts. A dispatch is
`PickCard` or `TriageActs`, `ParkForApproval` for a gated card, `Claim` or
`ClaimRejected`, `CreateRun`, `Launch`. The run may block its own card (`SelfBlock`),
ends (`RunEnds`), and whoever takes it out of the registry, its task (`TakeOwn`) or a
cancel (`Cancel`), writes back: `ReadStatus`, `EditCard`, `CompleteRun`. Users decide
plans and put cards back (`DecidePlan`, `Requeue`), triage drops a trigger
(`TriageDrops`, `GateCard`). `Age` makes a record stale: with `LongRuns` also that of a
healthy run, for a claim has a TTL of its own.

### Properties

| property | says | watches |
| --- | --- | --- |
| `ClaimsAreCovered` | a card in progress has an active record or a process about to move it | crash, reclaim, write-back against a reclaimed run |
| `ImplementsContract` | the cards implement `CardContract` | reclaims, cancels and ends of runs that race; crash |
| `ClaimsSettle` | no card stays in progress, unless a crash fell into a window of `InWindow` | runs that never end, crash |

In `CardContract` a claim takes a card that may be worked on, while no other is in
progress, for a run of its own, and gives the run two credits: its outcome moves the
card once, and so does a reclaim of the run. Either may lapse, none comes back. The
mapping is `claim <- cardOf` and `credit`: the outcome is still to come until the
write-back has changed the card, the reclaim until the record is closed and, if a sweep
closed it, that sweep has moved the card. The contract is kept whatever crashes; that a
reclaimed run may still write its outcome over the next claim is in the contract
because it is in the code ([10](#10-where-docs-and-code-disagree)).
`WrittenBackOnce`, which says the same of those who begin a write-back, is what the
outcome's credit rests on.

## 8. Runs, bounds and fairness

| run | instance | distinct states | shows |
| --- | --- | --- | --- |
| `gate_chat` | 2 calls on one thread, one bounded by its caller and one in a meeting, 2 deciders, store faults, 1 crash | 2.5 M | the safety of parking and routing; refinement of `ApprovalContract` |
| `gate_progress` | 2 calls on one thread, either may be bounded, 1 decider, no faults, no crash, `FairSpec` | 0.26 M | progress, agreement of outcome and row, decisions under way |
| `gate_trust` | goal, two reviewed flows, standing decisions, 1 edit | 2.7 M | trust |
| `chat_turns` | 3 messages on one thread in interrupt, followup, parallel mode, 1 stop | 1.3 M | safety of chat turns; refinement of `ChatContract` |
| `chat_progress` | 2 messages, interrupt, steer, followup, parallel, 1 stop, `FairSpec` | 0.12 M | answers, followups and steers |
| `flow_runs` | 1 run with 2 gates, 2 resumes, 2 cancels, 2 graphs, 1 edit, 1 row kept, store faults, 1 crash | 1.2 M | safety of flow runs; refinement of the lifecycle |
| `flow_settle` | 2 runs, 1 gate, 1 resume, 1 crash, no faults, `FairSpec` | 0.11 M | a running row is attended to, and settles |
| `bd_queue` | 2 sub-agents of one session, 2 turns, 2 attempts, dropped turns, failures, 1 cancel, deletion or purge | 3.5 M | no result lost, doubled or revived; refinement of `DeliveryContract` |
| `bd_progress` | 1 sub-agent, 3 turns that may overlap, 2 attempts, `Prompt`, `FairSpec` | 47 k | a result is delivered |
| `bd_stranded` | 2 sub-agents, 1 turn, 2 attempts, `Prompt`, `FairSpec` | — | a counterexample, see [10](#10-where-docs-and-code-disagree) |
| `td_board` | 2 cards, one gated, 2 runs that may be long, poller and 1 caller, 1 crash | 2.5 M | claims stay covered; refinement of `CardContract` |
| `td_progress` | 1 gated card, put back twice, 2 runs that may never end, poller, 1 crash, `FairSpec` | 0.73 M | no card stays in progress |

**Why these bounds.** The gate's maps are keyed by request, thread and meeting, and
every step touches the state of one request and of the routes it shares: two
requests on one key are what it takes for one to disturb the other, and two
deciders for a race; a third adds nothing a pair does not show. One crash suffices
because nothing of the process survives it and the store is not changed by it.
One edit of the settings is enough for the trust properties because a grant once
made is judged by its provenance in every later state. For chat turns three
messages are the least in which a turn is superseded while its followup is on its
way and a third registers. Liveness relates a message to its host, so two messages
do, in the four modes that differ in it (a collect takes the path of a steer in
`Take` and `Deliver`). One thread carries every contention of the chat, for the map
entries of different threads share nothing but the lock; that a turn of one thread
is out of reach of another's messages and stops is part of `CancelHasCause`, proved
in section 9 for any number of threads.

Runs of one flow share only its graph and the retention of rows, so a single run with
two resumes and two cancels carries all contention of `flow_runs`: two calls past the
same check are what a race for the row takes, and the second gate lets a run park
again after a resume. `Keep` is 1 and a second run in `flow_settle`, so that rows are
pruned. One crash is enough because a second finds what the first left, and it may
come at every point. Deliveries of different sessions share only the bus; two
sub-agents and two attempts are what it takes for a batch to hold one result while
another arrives, and a second turn begins between the idle check and the system turn of
an attempt, or collects what an attempt has in hand. The progress run has one sub-agent because with two the property
fails, which `bd_stranded` shows. Two cards are needed for the rule that only one is
in progress, two runs for a reclaimed run that writes to a card claimed anew; cards
are put back only in `td_progress`, for a second claim in `td_board` comes from the
reclaim. The proofs hold with no bound at all, so the bounds limit only what the runs
alone show.

Symmetry is used where all properties are invariants or action properties
and the permuted values are interchangeable; runs under fairness use none.

**Deadlock.** The gate's runs check for it: an approved, ran and recorded call can
always be listed again, so there is always a next step and the check is mostly of
the model. The flow runs check for it with a step `Rest` that is possible only when
every call has returned and nothing is parked or being swept. The other runs switch
it off, for the system may stop: when every message, result and card was handled and
the bounds are used up there is nothing left to do.

**Fairness.** `FairSpec` of the gate: the runtime polls a future that is ready, a
timer that is set fires (`Progress`, `Deadline`), and a decider that started goes
on (`Decide`: synchronous code between two awaits). Nobody has to decide, to tear
down, or to run a tool. `FairSpec` of the chat: a call of
`start_chat` goes on, the forwarder polls, the harness reaches checkpoints, and a
stop is carried through. Nothing in it obliges a turn to end, so `SteerHeeded` says
something about a turn that runs on. That turns end is the antecedent `TurnsEnd` of
`EveryTurnAnswered` and `FollowupServed`: `drive_turn_with_deadline` bounds a turn by
the wall clock, and what follows has no unbounded wait. It is weak fairness of `Task`
as a whole, not of each arm, so whether a turn produces or unwinds stays open. No
message has to arrive and no stop to be made.

`FairSpec` of flow runs: calls go on, the engine ends (it runs under
`FLOW_RUN_TIMEOUT_SECS`), the sweep runs at every boot. Nobody has to resume, cancel,
list or edit, so a parked run need not settle and `RunsSettle` does not ask it to.
`FairSpec` of background delivery: turns end (their deadline), the bus and timers are
served, a sub-agent whose work is done records and announces, an attempt goes on, a
system turn ends well again and again. `Prompt` says that an attempt gets from its
timer to the system turn before another timer of its session fires: there is no await
between the two, only a few short locks; it is assumed by the runs about progress.
`FairSpec` of the dispatcher: the poller comes round, a sweep, a dispatch and a
write-back that were begun go on, and a record that stays active goes stale. Nothing
obliges a run to end.

## 9. What is proved, and how

Proofs are for every set of requests, deciders, threads, meetings, flows, tools,
of messages, threads, stops and modes, of runs, resumes, cancels and graphs, of
sub-agents, sessions and attempts, of cards and processes, with no bound, from the
named assumptions only: `NULL` is none of the values it stands beside; a call belongs
to a flow exactly if its origin is one; the offered decisions and the modes are among
those the code has; flow runs and task runs are finite sets, and there are no more
threads and sub-agents than the tombstones keep (512).

**Gate** (`ApprovalGateProofs`). `IInv` is `TypeOK`, the five state properties
`DeliveredIsDurable`, `SenderNeverLost`, `AllowNeedsApproval`, `NoDeadRouting`,
`TrustProvenance`, and three facts without which they are not inductive:

* `Known`: whatever names a request (a route, a decider) names one that was
  intercepted. Without it a decider could notify a request of whose call nothing is
  known, and a trust grant could come from nowhere.
* `Phased`: before its row exists a request has a waiter and no outcome; until it
  is resolved it has no outcome. `SenderNeverLost` rests on it at `Persist`, where
  the request becomes parked, and the contract at every permit.
* `Heard`: a decider past its commit decided the row itself. `DeliveredIsDurable`
  rests on it at `Send`, and `TrustProvenance` at `GrantStanding`. It is kept
  because a decided row never changes (`RowKept`: sweeps and denials touch open
  rows only).

From `Invariance` follow `TypeCorrect`, `ApprovalRequired`, `DeliveryDurable`,
`SenderKept`, `RoutingAlive` and `TrustEarned`; `RoutesOwned` is proved action by
action over the few that write routes; `Refinement` shows that every step of the
gate is a step of the contract or a stutter, with a lemma each for the steps that
close rows (`ClosingIsExpiry`) and for those that let a call pass
(`ResolvingIsPermit`). `ReviewForced` looks at the few steps that write an outcome:
only the ladder lets a call pass that has no row, and `ReviewedVerdict` says on what.

`OutcomesAgree` and `NoRowLeftOpen` assume `~StoreFaults`, as the properties do. Their
invariant `Agreed` adds to the agreement itself what each point of the park knows of
its row (`Rowed`): a parked call has one, the TTL path reads back a decided one, and a
closed call leaves it open only if it was abandoned. With faults both are false, for a
deny that the store refused leaves the row as it was. `DecisionsUnderway` has the same
assumption and is inductive beside `IInv`: `UnderwayKept` says that a step which takes
no decision out of a decider's hands and undoes no expiry keeps it, and leaves only
commit, taking the waiter and sending to look at. A decider that finds no waiter gives
up; that another one holds the sender then is what `SenderNeverLost` is needed for.

**Chat** (`WebChatProofs`). `IInv` is `TypeOK`, `RegisteredNotCancelled` and

* `Shape`: a turn exists exactly from its spawning on, a message exists exactly
  once it was sent, and only a message that was looked up has a host;
* `Registered`: an entry names a turn whose call has returned, on its own thread
  and in its own lane, and only such turns are ever cancelled. This is what makes
  `RegisteredNotCancelled` inductive at `Register`: the turn about to be registered
  cannot have been cancelled, for nobody could find it;
* `Answers`: a cancelled, unwinding, told or ended turn has its event, or a stop
  that holds it will tell. `HardAbort` needs it, for it can end a turn anywhere;
* `Ordered`: a message that left the queue of a turn to start its own found that
  turn told, which holds through every later step because events are never taken
  back.

From it follow `TypeCorrect`, `NotCancelled`, `NoSilentEnd`, `FollowupsOrdered`;
`EvictionsOwned` and `CancelsCaused` are proved from it over the actions that
write the entries and the tokens.

`PromisesKept` (`WebChatRefinement`) is the refinement of `ChatContract`. It needs one
thing more, `Held`: the turns in the hands of a stop are cancelled, and no two stops
hold the same one. Otherwise a stop that tells its turns could leave one of them owed,
and `Tell` would not take away what the contract says. `Stages` reads the stage of a
message off `Shape`; each action has a lemma that names its step of the contract, the
moves between the queue, the forwarder and the handle share `MoveWithin`, and the
ways a turn is over share `EndMaps`.

**Flow runs** (`FlowRunsProofs`). `IInv` is `TypeOK`, `OneExecutor`, `Pinned`,
`ParkedIsResumable`, `OneFinish` and what makes them inductive:

* `Starts`: while a start executes, row and registration are its own, and the row was
  born in this process. That keeps the cancel and the sweep at boot off it.
* `Endings`, `Later`: a call knows how it ended exactly while it settles and leaves;
  whoever else deals with a run (a resume past its check, a cancel that found no
  entry, a sweep) comes after its start was over.
* `Pinned`: the pin of a parked row is the graph of the start, and so is what a
  resume past the comparison has loaded. `ApprovedGraphOnly` follows from it.
* `Checkpoints`: whoever is about to drop a checkpoint (a refusal, a cancel, a sweep,
  the cancelled call) acts for a run that is `Dead`: settled, or neither parked nor
  executed nor ever to be parked again. This is where `ParkedIsResumable` comes from:
  everywhere the row is settled before the checkpoint goes.
* `Announcements`: nothing is announced of a run before its row is settled.

From `Invariance` follow `TypeCorrect`, `ExecutionIsExclusive`, `ParkedRunsResume`,
`ResumesRunWhatWasApproved`, `StartsAreProtected`, `FinishedOnce`. `LifecycleImplemented`
maps every step to one of the contract; `SameExecutors` and `RowsOnly` dispose of the
steps that touch executors or rows alone.

`RunsAttended` assumes `~StoreFaults`: a run whose last write failed says running with
nobody at work on it, so with faults it is false. By itself it is not inductive, for a
resume might register for an orphaned row or get past the test of its status, and then
the sweep would take the row for a live one. `Attended` says why not: a row is running
and unexecuted (`Lost`) only if it was born before the last crash, and then nobody is
registered for it and no resume is past its checks (`Unclaimed`), while the sweep has
not listed yet, or has it in hand (`Awaited`). Each group of actions has a lemma
(`StartAttends`, `BodyAttends`, `ResumeAttends`, `OthersAttend`, `BootAttends`,
`CrashAttends`) in terms of `Tended`: an orphan was one before and stays unclaimed and
awaited.

**Background delivery** (`BackgroundDeliveryProofs`). `IInv` is `TypeOK`, the
safety properties, and `Slotted` (an attempt past the claim has its session's slot),
`Discards` (tombstones only for threads that are deleted), `CancelledOnce` (a cancelled
sub-agent is no longer listed) and `Budget`. `Budget` counts, for each sub-agent, what
was delivered, what is queued or in a hand, and what may still be recorded: at most
one, or two if it was cancelled. `DeliveredOnce` is a corner of it. Lemma `HeldOnce`
says that a result is in one hand at most, which `Slotted` gives; `RecordFacts` is what recording a result
does to queue and history, used by the three actions that record. The theorems are
`TypeCorrect`, `DeliveryIsExclusive`, `ResultsKept`, `QueueStaysClean`,
`DeliveredOnceEach`. `ContractImplemented` is the refinement of `DeliveryContract`;
no more than `IInv` is needed, for `OneDeliveryPerSession` makes the batch carried to a
session the hand of the one attempt that has its slot (`CarriedInHand`), empty when another
takes it.

**Task dispatcher** (`TaskDispatcherProofs`). `IInv` is `TypeOK`, `OwnRuns` (between a
claim and the launch a dispatcher has a run of its own, whose task has not begun),
`Spent` (a run that was written back is out of the registry, and its task will find no
entry), and, unless `CrashAnywhere`, `Covered`: a card in progress is covered by a run
whose write-back has not changed the card yet. Without that clause `ClaimsAreCovered` is
not inductive, for a run about to complete its record would seem to cover the card.
`CardsKeepContract` is the refinement of `CardContract`, with two facts more. `Sweeps`: a
sweep about to move a card has closed the record of its run, and no other sweep has,
so that a reclaim is spent once. `Counted`: a run whose write-back has begun was counted
as written, so that nobody begins a second one and an outcome is spent once.
`TypeCorrect`, `OutcomeWrittenOnce` and `CardsKeepContract` hold in any case; `ClaimsStayCovered`
is stated as `~CrashAnywhere => ...`, since a crash in one of two windows does uncover
a claim ([10](#10-where-docs-and-code-disagree)).

**Only model-checked.** Liveness (`ParkResolves`, `ApprovalDelivered`,
`EveryTurnAnswered`, `FollowupServed`, `SteerHeeded`, `RunsSettle`, `ResultsDelivered`,
`ClaimsSettle`) is out of the prover's reach, as is everything under fairness. The
bounds of the runs do not limit anything else: every other property of a passing run
has a theorem. What `Reclaims` counts matters to no theorem: the proofs cover either
answer.

## 10. Where docs and code disagree

One disagreement is a run that ends in a counterexample; `PROJECT.json` quotes the
line.

* `bd_stranded`: a sub-agent that ends while the result of another one of its session
  is being delivered finds the slot taken. The attempt for it gives up, and nothing
  schedules another when the slot is free: the result stays queued until the user takes
  the next turn, while the module promises to deliver to an idle session.

The others are described here and not run. They are what the models do, and the
properties are stated so that they hold beside them.

*Approval gate and chat*

* Of two calls parked on one thread the older loses its route when the newer ends; it
  stays decidable on its card (`gate.rs` 902).
* A call parked across the deletion of its flow can still be granted for that flow, and
  `approval_preauthorize_flow` grants for a deleted flow too, for neither looks it up
  (`security/approval/rpc.rs` 107–186, 304–350). `TrustProvenance` judges where a grant
  comes from, and not whether its flow still exists.
* Two calls of `start_chat` interleave between superseding and registering, and two
  primary turns run on a thread. A followup that found no entry likewise supersedes
  the turn that came meanwhile.
* A followup put on the entry of a turn that was over before it was registered is
  never taken up, and a late steer goes to the queue of the turn that ended.
* A forwarder that is aborted after it drained the queue sends what it has all the same,
  for it awaits nothing in between; if the drop guard has emptied the handle by then,
  the messages are lost (`steering_forwarder.rs` 199–235).
* An unscoped stop misses a parallel turn that is spawned and not yet registered.

*Flow runs*

* A resume needs a decision on one of the parked gates; the engine takes the resume
  itself as the approval of all of them (`flows/ops.rs` 5176–5180).
* An executing run may be out of the registry: a resume that lost the claim replaced
  the entry of the one that won it, and removes its own (`flows/ops.rs` 5765,
  `flows/run_registry.rs` 45–50). A cancel then settles the row of a run that goes on,
  so `StartIsProtected` speaks of starts.
* A refusal of an edited flow settles the row before it claims anything, and may do so
  to a run that another resume executes.
* A cancel that signals a run past its select answers "cancellation requested", and
  the run stays parked; one that signals a resume which loses the claim is lost too.

*Background delivery*

* The end of one of two parallel turns of a session clears `busy` under the other,
  and a dropped turn leaves it set until a later turn of the session ends.
* A result the parent has collected inline and that is not usable (failed, or awaiting
  input) is delivered again; the comment at `wait_subagent` says otherwise.
* The notice of a cancel schedules no attempt.
* A batch in hand when its thread is deleted is delivered, or put back into a queue
  that a purge has already cleared; a purge leaves tombstones only for threads with
  registered sub-agents.
* The drop of a batch that has no thread is unreachable, for a spawn without a thread
  is refused.

*Task dispatcher*

* A crash after the claim and before `create_run`, or after a record was reclaimed and
  before its card is edited, leaves the card in progress with no active record: no
  sweep finds it, and the poller starts no other card of the board. `InWindow` names
  the two windows; the runs and `ClaimsStayCovered` keep crashes out of them.
* A reclaimed run that is healthy goes on. Its write-back sets the card of the run that
  was claimed after it, and two live runs work on one card, against
  `agent/task_dispatcher/mod.rs:5` and `threads/todos/runs.rs` 5–8.
* Triage reads the status of a card and then rejects it, whatever it became meanwhile.
* The count of reclaims includes the current one, so a card is blocked when it reaches
  the limit and not when it exceeds it.
* A gated card that is put back to todo between the failed claim for parking and the
  main claim runs without having been parked.

Met while reading, and not a property here:

* After a restart the rows of a previous launch are still listed, and deciding one
  succeeds in the store with nobody left to notify (`security/approval/rpc.rs`
  192–250); such a decision lets nothing through, which `ImplementsContract` covers.
* The arm of the caller's bound does not read the row again, so a call may be
  abandoned although an approval was committed just before; `ApprovalDelivered`
  allows that outcome by name.
* `security/approval/types.rs:138` calls the per-tool allowlist session-scoped;
  `add_auto_approve_tool` saves it to the config file, so it survives a restart
  (`Restart` leaves `autoApprove` alone).
* `security/approval/README.md:88` says a call with no chat context is allowed at
  once; goals, reviewed flows and external channels park without one.
* `agent/turn_origin.rs:12` and `:81` say that unlabelled and tainted turns fail
  closed; a tool on the allowlist is let through from either, since that shortcut is
  tried before the origin is looked at.

## 11. Not modelled

* Of the gate: the text of cards and redaction of arguments, read-only listings,
  schema migrations, metrics; which decisions a card offers is a constant.
* Of the web channel: cached sessions (`THREAD_SESSIONS`), budget signals,
  attachment handling and the prompt guard before a message is accepted, the
  fallback of a cancel to the task dispatcher, presentation of the response. That is
  why the component is listed as partly modelled.
* Of flow runs: authoring, validation, listing and triggers of flows, the recorded
  steps and summaries of a run, rows from before the pin existed, `FlowRunStarted`.
  `completed_with_warnings` is `completed`. The component is listed as partly modelled
  for that reason. Engine and checkpointer are external (the tinyflows submodule):
  assumed is that a pause leaves a checkpoint at the next gate and that a resume
  continues past the gate it was paused at.
* Of background delivery: what a result and its notice say. The event bus is external,
  first in first out and without lag. All state is in memory, so a crash loses all of
  it and there is nothing to recover. A cancel may meet any listed sub-agent.
* Of the task dispatcher: prompts, executors, urgency and messages of the session
  thread; failing writes of records and cards. The board store is external (the
  tinyagents crate): a claim compares and sets, and is refused while another card of
  the board is in progress. The agent is taken to set no status but `blocked`, as its
  prompt tells it.
* The harness is external: all that is assumed of it is that it applies the
  steering handle at checkpoints and stops at an await point when dropped.
* A lock held across several statements is one step; a lock taken twice is two.
  Poisoned locks and panics inside a lock section are left out.
* All other components of section 1, for the reasons `PROJECT.json` gives: planned
  (section 12), I/O, generated or vendored code, or front end. The repository has some
  650 000 lines, most of them calls to services, schemas and conversions; the lines
  the modules translate are those where concurrent actors share state.

## 12. Plan

What would be worth adding, in this order; each with its instance module, runs,
mutants and proofs.

1. **`WebChat`, continued**: the session cache and its invalidation when a thread is
   deleted; the fallback of a cancel to `TaskDispatcher`, composed.
2. **`TriggerQueue`** with an abstract bounded priority queue it refines; FIFO among
   equals, no loss to a less important trigger; the promotion budget of an hour.
3. **`PlanReview`**: the gate's smaller sibling, against the same contract where it
   applies.
4. **`GoalContinuation`** and **`ConfigWriters`**: check-then-act against user turns;
   two writers with different locks.
5. **Cron and MCP supervision**: a long run against the next poll; reconnection against
   a connection made by hand.
