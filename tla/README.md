# QIDI Code: a verification project for the coordination code of the shell

QIDI Code is a terminal coding assistant. Its shell (`src/crates/codegen/cf-shell`)
runs one *session actor* per conversation: clients send it prompts, it runs them
one at a time as *turns* against a language model, and it may be told meanwhile
to cancel, reorder, interject, or to report a background task that has finished.
Which turn runs, which prompt waits, and who is told what became of it is decided
by a small amount of very interleaved code. That scheduler is the core of this
project. Around it stand four more pieces of coordination code: the delivery of
background completions to the scheduler, the attachment of several clients to one
running session through a leader process, the election of that leader over a lock
file, and the circuit breaker of the storage client
(`cf-file-utils/src/storage_client.rs`).

All paths below are relative to `src/crates/codegen/cf-shell/src/session/`, with
`impl/` for `acp_session_impl/`, unless they start with a crate name.

## 1. Inventory

| Component | State | Operations | What makes it correct |
|---|---|---|---|
| Prompt queue (`impl/prompt_queue.rs`, `State` in `acp_session.rs`) | `pending_inputs`, the `send_now` flag of each item | `queue_input`, remove, reorder, clear, edit, interject a queued row, sweeps | the running row stays at the front; no row is lost or duplicated; send-now rows run FIFO; user rows before auto-wakes |
| Turn promotion and notification drain (`impl/notification_drain.rs`) | `running_task`, `rewindable`, `pending_notifications`, `notifications_suppressed`, `monitor_event_buffer` | `maybe_start_running_task`, `maybe_drain_notifications`, the buffer sweeps | one turn at a time; no waiting prompt without an event that starts it; no notice lost between buffer and list |
| Completion (`impl/turn_end.rs`) | the completion channel, `current_prompt_id` | `handle_completion` | a stale completion touches nothing of the promoted turn; one terminal per turn |
| Turn tasks and cancel (`impl/tasks_cancel.rs`) | the spawned task, its guards, `blocking_wait_depth`, `is_turn_active` | `run_task`, `cancel_turn_for_send_now`, `cancel_running_task` | only the running turn is cancelled; its responder is answered; a prompt queued behind it survives |
| Interjections (`impl/interjection.rs`, `cf-interjection-core`) | `pending_interjections` | push, drain at a safe point, flush of stranded ones, clear at a cancel | none waits for ever |
| Run loop (`impl/run_loop.rs`) | the `select!` it sits in, and the arm it serves | completions first, then commands; shutdown | the arms compose: what each queues gets started |
| Start tasks (`impl/run_loop.rs` MCP release, `impl/tool_calls.rs` plan resume) | - | start the front row from another task | they may interleave with any await of an arm |
| Auto-wake delivery (`cf-shell/src/tools/notification_bridge.rs`, `cf-tools/src/reminders/task_completion.rs`, `impl/reminders.rs`, `cf-tools/src/bridge.rs`) | `AutoWakeDeliveredIds`, `ReportedTaskCompletions`, the buffer of the subagent coordinator | post a wake, mark, un-mark, between-turn drain, per-tool reminder pass | a finished task is never forgotten, and not told to the model twice by a wake and a reminder |
| Session attach (`cf-shell/src/agent/mvp_agent`, `cf-shell/src/leader/server.rs`) | the gate of the session, its log, subscribers, load buffers, replay cutoffs, interaction cache | `load_session`, replay, forward, buffer, answer, disconnect | who loads in the middle of a turn misses nothing, sees it in order, and shows the modals that are open |
| Leader election (`cf-shell/src/leader/lock.rs`, `leader/mod.rs`, `agent/app.rs`) | lock file and its flock, socket, pid file | `connect_or_spawn`, `evict_leader`, start and end of `run_leader`, `LeaderLock` | one leader; newer clients replace older leaders and never the reverse; a call returns |
| Circuit breaker (`common/cf-circuit-breaker`) | atomic state, its lock-free mirror, probe count, lease, window | `check`, `record`, trip, close, probe, takeover | bounded probes, counters that add up, recovery after a lost probe |
| Everything else | - | - | see the component list in `PROJECT.json`: terminal front end (about 400k lines), tools, workspace, hub, MCP, sampler, memory, telemetry; mostly I/O, rendering and data transformation |

**How the session's parts interact.** All tasks of a session run on one thread
(`spawn_local`), so a step is atomic from one *contended* await to the next: the
state mutex, a channel, a hook, a file. The run loop serves one arm at a time, but an arm
awaits many times, and at each of them the turn task, an aborted turn that has not been
dropped, the MCP task or the plan-resume task may run. They share `State` under
its mutex and a few cells outside it: `current_prompt_id` (the *pin*),
`pending_interjections`, the monitor event buffer, `is_turn_active`, the goal gate
and the wait depth. The pin and `running_task` name the same turn in two places
that are written at different times; most hazards in `PROJECT.json` come
from that, or from a completion that arrives after a cancel has already settled the turn.

**How the other parts interact.** A client finds the leader with `connect_or_spawn`
and talks to it over its socket; the leader multiplexes the clients onto one agent,
whose `load_session` attaches a client to a session. Sessions run on threads of their own, loads
are tasks of the agent's thread, the leader is one loop; they share the log file, the gate
(`gateway_enabled`) and two channels. A background task that ends reports to
the session through the bridge, as a wake for the scheduler, and through the
reminder passes of the turns, with two shared sets to keep the two apart. The
breaker is called from any task that makes a storage request; its state is atomics, so
every atomic operation is a step.

## 2. Modules

| Module | Contents |
|---|---|
| `Subsequences` | which elements of a list a filter keeps, and in which order: used by the queue and by the load buffers |
| `PromptQueue` | the list edits of the queue as pure operators: sweep, the three insertions, reorder |
| `SessionTurns` | the scheduler: 30 variables, one action per atomic step of the loop's arms, the turn task and the start tasks |
| `TurnService` | the abstract service: accept, start, finish, discard |
| `SessionProperties` | every invariant, action property, refinement mapping and liveness property of `SessionTurns` |
| `MCPromptQueue` | enumerates queues for TLC and states the declarative reference of each edit |
| `MCSession` | owners, orders and symmetry of the small sessions |
| `WakeDelivery` | composes the reporting of background completions with `SessionTurns`: every action of the scheduler, constrained by what it does to the two sets |
| `MCWakes` | the small session of the wake run |
| `SessionAttach` | one session, the log, the loads and the leader's routing; its properties |
| `LeaderElection` | clients, leader processes, lock file, socket and pid file; its properties |
| `CircuitBreaker` | callers at the granularity of the atomic operations, time in ticks; its properties |
| `SessionLedger` | the books of a session: who holds each prompt, interjection and notice, and which parts of the state may name the same turn |
| `SubsequenceFacts` | ranks in finite sets of naturals, what a filter keeps, what joining lists does |
| `PromptQueueProofs` | every edit of the queue keeps its type, its front, its rows and their order, for any queue |
| `MCPromptQueueProofs` | each edit is what `MCPromptQueue` declares it to be, on queues of any length |
| `SessionProofs` | types and the front, by the first inductive invariant of `SessionTurns`; the books balance, and every safety property of a session that follows from them; `SessionTurns` implements `TurnService`; the order in which the queue is served |
| `WakeDeliveryProofs` | every wake step is a session step; no completion is forgotten or echoed |
| `SessionAttachProofs` | a closed gate has a load that opens it; interactions agree, events arrive in order and none is lost |
| `CircuitBreakerProofs` | types, the ledger of probe slots, mirror, lease and window for any number of callers |
| `LeaderElectionProofs` | who holds which lock and whom the pid file names: types, the single leader, and that no current leader is evicted, for any clients and leaders |

**State.** A prompt is its id. Its sort fixes what the code reads off an
`InputItem`: `Client` rows have queue metadata and a client that waits;
`Fallback` are interjections and the prompts they become; `Wake`, `Notice`, `Goal` and
`Plan` are the synthetic origins. Only `Wake` carries a completion id. The
variables after `pc`, `arm`, `cur`, `stranded` and `cancel` (the loop's program
counter and the locals that live across its awaits) are the fields named
beside them in the module; `fate`, `spawned` and `terminals` are history: what became
of a prompt, whether a task was ever spawned for it, and how many
`TurnCompleted` were published for it.

**Steps.** An arm is a chain of actions through `pc`:

    Prompt, InterjectQueued --------------------> start
           \-> cancelLock -> cancelGate -> cancelAbort -> cancelFinish -> start
    Cancel  -> cancelLock -> cancelGate -> cancelAbort -> cancelFinish -> start
    Interject (no pin) -> flush -> start
    InjectNotification -> drain -> drainStart
    Complete -> complete -> turnEnd -> [flush] -> start -> drain -> drainStart

The four cancel steps are the four stretches of `cancel_running_task` between
which other tasks are seen to run: up to the release of the state lock; the fall of the
goal gate, after one await and before the next ones; the abort and the zeroed depth; the pin
reset, the terminal and the answers. The turn task has
`TurnBegin` (the `TurnActiveGuard`), safe points (`TurnMerge`), a wait tool
(`TurnWait`, `DropGuard`), the consumption of a completion, the goal mirror,
its end, and `Reap` for a future that was aborted but is dropped only later.

**Wakes.** `WakeDelivery` adds to the scheduler what a task is (running, exited,
its wake in the command channel) and the two sets, delivered and reported. Each of its
actions is an action of `SessionTurns` joined with what the same code does to the
sets, or one of its own (the bridge, the passes, the coordinator's buffer). Goals,
monitors and sessions with auto-wake disabled are left out.

**Attach.** A load is a chain close gate -> flush -> read -> flush again -> delta ->
open gate -> answer; the session emits, persists and forwards beside it, and the
leader routes one message per step. Reading the log is one step, because
only what was written before it matters. Left out are loads with a cursor, two overlapping loads
by one connection, drivers, child sessions, the relay, and tool calls (a replay folds
the pending ones into their completion, `mod.rs:1405`).

**Election.** A process is at one of the file-system operations another process can
observe. The flock is on an inode, so an unlinked lock file still held by
one process does not stop another that creates a new one: `stray` records that it
happened. A timeout may strike whenever the thing waited for has not happened. All clients have one
version, leaders that one or an older one; authentication and prefetch,
crashes of clients and Windows pipes are left out, and a client that reconnects counts as another client.

**Breaker.** Every load, store, `fetch_add` and compare of a caller is a step. The
counter wraps at `Modulus`. A clock tick never passes a caller stalled for more than `Stall`
ticks in the middle of an operation. A trip publishes `Open` before `opened_at`, as the code does.

**Abstractions of the scheduler.** Text, versions and editors of a row, broadcasts, usage
accounting, telemetry and the conversation are left out: an edit of a row, or a
refused version or owner gate, is a stutter. Whether the goal policy queues a continuation is
a choice. A release build aborts the process on a panic (`Cargo.toml`,
`panic = "abort"`), so a turn task never ends without its completion, except by an abort.

## 3. What TLC checks

| Run | Instance | Question | Distinct states |
|---|---|---|---|
| `prompt_queue` | queues of up to 3 out of 6 prompts of 4 sorts, any running prompt, any flags, orders of up to 3 ids | does each edit compute its declarative reference? | 173,880 |
| `session_queue` | 2 client prompts in every order, 1 auto-wake, 1 interjection; both turns may wait; interactive and rewind cancels; no start tasks | nothing lost to a cancel, nothing stranded; front, pin and running turn agree; nothing overtakes a send-now row; the books balance; refinement of `TurnService` | 565,311 |
| `session_notices` | 2 notices (one of a goal turn) of one task, its wake, 1 client prompt, 1 goal turn, cap 1, teardown | is a notice ever lost, what can leave the goal gate up, do users go before wakes? | 5,589,467 |
| `session_live` | 1 client prompt, 1 interjection, 1 plan-resume, MCP still initialising, both cancels, under fairness | with start tasks that promote between any two awaits: one turn beside the aborted one, responders, terminals; is every prompt answered, does every interjection leave? | 415,401 |
| `wake_delivery` | the scheduler with 1 client prompt, a shell task and a subagent with their wakes | is a completion ever forgotten or echoed? | 4.3 million |
| `session_attach` | 2 clients that load at any time, one may leave, one may fail; 2 events, 1 interaction, buffers of 2 | does everything reach who loads, once and in order; do modals agree; does every load end? | 1.8 million |
| `leader_election` | 2 clients, an old leader started by hand that may crash, a current one that may quit | one leader; who is evicted; does every call return? | 899,761 |
| `circuit_breaker` | 2 callers, 1 probe, counter modulo 16, cool-down 3, stall 1 | the ledger of probe slots, mirror, takeovers, recovery | 523,397 |
| `pin_reset`, `gate_after_cancel`, `late_zero`, `join_not_steal` | as small as the disagreement needs | section 5 | - |

**Why the bounds suffice.** Every hazard of the list needs at most a running
turn, the one promoted after it, and one more row of another sort, and
each of these is in some instance: stale completion (a turn that ends between the lock
and the abort of its cancel) with a promoted second turn; a wake that runs while a user prompt
waits behind it; an interjection before, during and after a turn; two starts by
tasks other than the loop. Prompts never come back, so the state space is
finite without a counter bound; `Cap` is 1, against 50 in the code, so that the
cap is reached with two notices. Clients are symmetric where no order names them
(the set of orders is itself symmetric). Deadlock checking is off: a session at rest
waits for its clients, and a stopped one does nothing.

`session_queue` has no start task on purpose: with one, the promotion it makes in
the middle of a cancel breaks `PinFollowsRunning` (section 5) and lets a cancel
resolve a row that never ran, which the comment at `impl/tasks_cancel.rs:365`
accepts. What must hold in spite of the start tasks is checked in `session_live`.
There `OneTurn` exempts exactly the turn that a cancel in progress has taken out of its slot
and has yet to abort: the next one does start beside it.

`SendNowFirst` is an action property: no step but a client's reorder puts a row
ahead of a waiting send-now row or flushed interjection that was not ahead of it
before. As a state invariant ("the block behind the running row is marked
first") it is false in sessions with two interjections and reorders, which the
small instance does not have; the proof attempt showed it.

The other bounds. In the election one leader is old and one current, one by hand
and one spawned, so the versions, the two ways to start, a leader that crashes with its
files in place and one that removes them all meet two clients that race; the lock
file is unlinked under another process in it, and two leaders do lead then. In the attach run two loads
overlap, a buffer of two overflows with two events and a modal, and a gate closes
and opens between any two of them. In the breaker two callers suffice for an overtaken
probe and for a trip that overlaps a close; the modulus is large enough that the
counter wraps only downwards, as 2^32 does.

**Fairness.** `session_live`: weak fairness for the loop's own steps, for
a spawned turn to begin, for the drop of an aborted future and for the start
tasks: the runtime polls every task that is ready. A turn ends under *strong*
fairness, because it may enter and leave a wait tool for ever while it could
end; this assumes that model requests and tools return or fail, which
is what their timeouts are for. Nothing obliges a client to send or to cancel.
`session_attach`: weak fairness of everything the threads and tasks do by themselves
(`Progress`); a flush ends by its answer or its timeout. `leader_election`: each client
in its call and each leader in its start and its end runs on; nothing makes anyone
call, start, quit or crash, and the server of a process that ends may or may not get to
remove the socket. `circuit_breaker`: strong fairness of the clock, which a
caller in mid-operation may hold up again and again, and weak fairness of each caller's
steps and of its next request; a probe in flight need not ever report.

**Properties worth reading first.** `NothingStranded` (no prompt or
interjection waits in a session where no event is left that would pick it up),
`StartsOnce` and `ServiceKept` (stale completions), `TerminalOnce` (a cancel racing the end of the
turn), `StaleTakesNothing` (only the biased select keeps a stale completion
from taking the promoted turn's interjections), `NoStaleWait` (the zeroed depth against late
guard drops), `EventsReach` and `InOrder` (log, buffer and stream against each other),
`NothingForgotten` (two sets that each believe the other has told), `SparesCurrent` (a pid read
at one time and signalled at another), `Returns` (lock, socket and pid removed by different
processes), `GateLeftByAbort` (every other way a goal turn can go lowers the gate) and
`SlotsAccounted` (the counter as a ledger). Each is paired in `PROJECT.json` with a faulty variant of one
definition that violates it; those variants stand before the definition they
distort and nothing uses them.

## 4. What is proved

Everything below is proved for arbitrary constants that satisfy the named assumptions of
the module concerned: any prompts, notices, orders, cancels, callers, clients or leaders.

**The edits of the queue** (`PromptQueueProofs`, `MCPromptQueueProofs`). For every queue, running prompt
and predicate or order, sweep, append, send-now insertion, interjection insertion and reorder
return a queue of prompts and leave the running row at the front (`SweepSafe`, ...,
`ReorderedSafe`); sweep and keep hold exactly the rows that match, in their
order; insertions add one row, and a send-now row lands behind the front and the marked rows
that follow it, ahead of the first unmarked one (`SendNowStacked`); a reorder is a
permutation (`ReorderedContents`) that is sorted by pinned, first mention and unnamed, and
stable in the first and the last of these (`ReorderedSorted`). The
operators are written without recursion: a loop that filters a queue is the
sequence over the ranks of the kept indices, so the lemmas are about ranks in finite
sets of naturals (`RankStep`, `RankSurjective`, `RankGrows`) and about what `At` picks by them;
they are in `SubsequenceFacts`, because the leader filters its load buffers the same way.

The three invariants `MCPromptQueue` checks on queues of three rows follow for any length.
A lemma says that the rows picked by rank are what a loop pushes one by one: the loop
(`Pushed`) is a recursive function on the numbers up to the length; that it
exists follows from the kept prefixes, which fit its equation; that no other function does, from
the least number at which the two would differ, so that no induction theorem is needed. `SweepSparesTheRunning` (`SweepSparesRunning`)
compares two sets to keep that agree on the queue. `SendNowsStack` (`SendNowStacks`) finds the
slot by the one position that holds the new prompt, and the queue again at all the others
(`InsertAtPositions`, `AtAllButOne`). `ReorderIsStableSort` (`ReorderSorts`) computes the sort
key of a row from where it stands in `ReorderedSorted` (`Keys`): a first mention exists
because a set of positions has a least one. The invariant these need is `CaseTypes`: the queue
holds distinct prompts, and the order at most `MaxLen` ids.

**Types and front** (`SessionProofs`). `TypeCorrect`, and `RunningIsFront`:
`[]FrontIsRunning`, on which every "index 0" in the code relies. The inductive
invariant is `IInv == TypeOK /\ FrontIsRunning /\ FlushHasText`.
`FrontIsRunning` alone is not inductive: a flush takes the last stranded
interjection, which exists only because the arm goes to `flush` with a non-empty
list (`FlushHasText`), and the queue edits need the types.

**The books** (`SessionLedger`, `SessionProofs`). None of the session's
safety properties is inductive by itself, because each relates two holders of the same thing: a
responder is in the queue or in the locals of a cancel; a running turn has a task,
or a completion in the channel, or one being served; the pin and
`running_task` may differ only while a cancel is under way. The inductive
invariant `Balance == IInv /\ Ledger /\ Upkeep` says all of that at once.
`Ledger` says who holds each prompt, interjection and notice (`PromptsHeld`, `TextsHeld`,
`NoticesHeld`), that what was spawned is not queued again (`SpawnedOnce`), that a
running turn will report (`TurnReports`), and what the pin and the locals of a cancel may name
(`PinSound`, `CancelSound`). `Upkeep` says that what waits will be
served: a queue without a running turn has a start ahead of it (`QueueServed`), and the
depth counts live waits (`DepthSound`). There is one lemma per action and part. TLC checks `Books` too
(`session_queue`). From it follow `PromptsKept`, `PublishedOnce`, `PinsAgree`,
`OneTurnRuns`, `NoneStranded`, `WaitsAreLive`, `GateLeft`, `NoticesKept` and `SpawnsOnce`:
all of them with the start tasks running between any two awaits of an arm. `GateLeft`
is about steps (`GateLeftByAbort`): no step but the abort of a cancel leaves the goal gate up with
neither a live turn, nor a completion, nor a cancel that has yet to lower it. A completion lowers
it unless another turn is pinned, and the books say that this turn is alive or has a completion
of its own. The same as an invariant, "a raised gate has somebody to lower it", is false:
`gate_after_cancel` is the counterexample.

Three properties hold only when the run loop alone starts turns (`LoopOnly`: no
plan-resume prompt, MCP initialised from the start): `PinsFollow`, `StaleIsHarmless` and
`CancelsSpare`, the last without a teardown, which cancels the whole queue on
purpose. They have that hypothesis because without it they are false: `pin_reset` is the
counterexample for the first. Their invariant (`LoopBooks`) adds that the pin names the running
turn until it has reported (`PinHeld`), that a turn reports once (`ReportedOnce`), and that as
long as a stale completion waits or is being served no interjection is buffered (`StaleFirst`).

**The service** (`SessionProofs`). `ServiceImplemented` is the refinement of
`TurnService`. A lemma per kind of service step (accept, start, finish, discard, nothing)
is stated in terms of the queue and the answers; a lemma per action finds its kind. The books
make the mapping work: they say that the waiting requests of the service are the queue but for its
front, and that a completion that owns the front is the running turn's.

**The order of the queue** (`SessionProofs`). `SentNowRunsFirst` proves
`SendNowFirst`, and `UsersFirst` proves `UserFirst` in sessions whose clients reorder
nothing; a reorder breaks it (section 5). Both are about pairs
of rows (`Orderly`): a step puts one row ahead of another only if it was ahead of it
before, or is marked or running, or the other one was appended unmarked. `MarksKnown`, that only
accepted user rows are ever marked, is what keeps a new row from inheriting a mark.

**Wakes** (`WakeDeliveryProofs`). `WakesRefineSession`: every step of the composed
system is a step of `SessionTurns`, so that all of the above holds of it. `TasksRemembered`
and `TasksToldOnce` rest on the books of the three surfaces: a delivered mark is set
only for a task whose wake is on its way or was run, a reported one only when it was told or
its turn holds it; one pass runs at a time, since one live turn can be in it (`OneTurnRuns`);
and the requests to the coordinator are answered in order.

**Breaker** (`CircuitBreakerProofs`), for any number of callers, probes,
ticks and any width of the counter: `TypeCorrect`; `SlotsHold`, that the counter
is at all times the sum of the slots granted and the losers since it was last zeroed, less the losers
a zeroing overtook, from the ledger `SlotsAccounted` and a bound on who can overtake. It bounds the grants
of one HalfOpen by `half_open_max_probes` and one more per overtaken loser only if no zeroing lands
in that HalfOpen, which the run `late_zero` shows to be possible; `MirrorHolds`, from an
invariant that says what each half-done store will leave behind; `TakeoversHold`, from one
that relates every caller's reading of the lease to the clock; and `WindowHolds`,
from lemmas about appending, evicting and clearing a counted sequence.

**Election** (`LeaderElectionProofs`), for any finite sets of clients and
leaders any of which may crash. `AtMostOneLeader`: that two processes
do not lead at once is not inductive; the invariant adds that an flock has one holder
(`Exclusive`), that unless a lock file went astray every open lock file is the one
at the path (`Shared`), that a leader keeps its lock (`LeadersLock`), and that a
process outside its critical section has none (`NoneEarly`) and a process that tries
has a file to lock (`Opened`). `NewerIsSpared` proves `SparesCurrent` with four facts
more (`Eviction`). A client that looks for a sibling has the lock, so unless a lock file is astray
the sibling it finds is never ready, and nobody is evicted there: `evict_leader` is
reached only when locks have gone astray. A leader that has the lock is the one the pid file
names, and a client that asks for a vacation was answered by a leader that led; so the pid it
signals is that of the old leader, as long as that one still serves.

**Attach** (`SessionAttachProofs`), for any clients, interactions, number of events and
size of the buffers: every invariant the run checks. The inductive invariant grows in four layers.

- `GInv`, for `GateComesBack` (`GateOwned`): who has not asked has no load.
- `MInv`, for `ModalsFollow` (`ModalsAgree`): the messages on their way tell what the agent did to
  an interaction, in that order and each once (`WordsTrue`); the leader's cache is what they
  no longer have to tell (`CacheTrue`); a client that is done shows the cache, and what the buffer
  of one that loads will leave open is part of it (`ViewsTrue`). The last is why the answer may
  send the buffer first and the cache after it: the buffer never ends in an ask that
  the leader has seen resolved.
- `OInv`, for `EventsInOrder` (`InOrder`): live events ascend within a buffer, and from it to the
  queue (`LiveTrue`); replays to a client ascend, lie beyond the cutoff, and end where the load
  has come to (`ReplayTrue`); what a client has got is at most the cutoff while it loads
  (`GotTrue`). Why the live stream may go on after the answer is `LateTrue`: a
  live event that the load has read still has a replay behind it, unless it was late at the gate;
  the answer comes when no replay is left, so whatever is on its way then is new.
- `RInv`, for `NoEventLost` (`EventsReach`): what a load has read is with its client or on its way
  (`ReadsReach`), which is what entitles the answer to drop the buffer up to the cutoff; what the
  gate let through since the last flush is with the client, on its way or in the buffer
  (`LivesReach`); and a load has read what it had flushed (`PromiseKept`).

The flush of a buffer is written without recursion (`Newer`, `LeftOpen`): the events beyond the
cutoff, as a subsequence, and the interactions about which the last message is an ask.

**Only model-checked** is liveness (`PromptsAnswered`, `InterjectionsLeave`, `AttachLands`,
`Returns`, `Recovers`): it rests on fairness, and so on `ENABLED`, which the prover does not
treat. Every invariant and every safety action property of the passing runs has its theorem.

## 5. Disagreements found

- `pin_reset`: `cancel_running_task` resets the pin unconditionally after it
  released its lock (`impl/tasks_cancel.rs:523`). A turn that a start task promoted in
  between runs without a pin, and an interjection meant for it becomes a separate turn.
  In the same window the promoted turn runs beside the one that is not aborted yet.
- `gate_after_cancel`: a cancel lowers the goal gate (`impl/tasks_cancel.rs:440`), awaits, and aborts
  the turn only at line 490. A goal turn that starts a round in between raises the gate again
  (`impl/turn.rs:763`) and nobody lowers it: in an idle session auto-wakes stay silent, and send-now
  does not cancel the next turn until its first round mirrors the goal. The comment at line 438 says
  that the flag is cleared there because the aborted turn will not.
- `late_zero`: a trip stores `Open` before `opened_at` and before it zeroes the probe count
  (`breaker.rs:249`-255). A caller in between reads the old `opened_at` as expired (before the first
  trip it is 0), enters HalfOpen and is granted the slot; the late zeroing gives it away once more. The
  comment at `breaker.rs:211` says that the count is already 0 when HalfOpen is entered, and that this
  keeps two probes from being admitted instead of one.
- `join_not_steal`: the gate that `load_session` closes is the session's, not the
  client's (`agent/mvp_agent/acp_agent.rs:1277`): what is emitted while a second client loads
  never reaches the first, against the comment at `leader/server.rs:4801`.

Smaller ones, seen while modelling and not checked by a run of their own:

- A reorder of one user row moves every queued auto-wake prompt ahead of the user rows
  (`impl/prompt_queue.rs:609`), against the comments at lines 124 and 577. `ReorderSorts` says what
  order it leaves; the run of `UserFirst` has no reorders for this reason.
- The documented merge of a queued row into the running turn (`commands.rs:549`,
  `impl/prompt_queue.rs:459`) is not what the code does: it promotes the row and cancels the turn, as
  `InterjectQueued` does.
- The comments at `impl/prompt_queue.rs:140` and `impl/tasks_cancel.rs:567` say a
  dropped wake is un-marked so that a reminder may report it; only the delivered
  set is, and the reported set, marked at `impl/prompt_queue.rs:89`, still withholds it
  from the reminders. `NothingForgotten` exempts a wake that was posted, and so shows that this, and
  the abort of a turn that had taken the completion, are the only ways to lose one.
- `build_summary_client` and `load_light` may fail after the gate was closed
  (`acp_agent.rs:1297`): the load returns an error and the gate stays closed until
  another load succeeds. `GateOwned` exempts exactly that.
- The comment at `mvp_agent/mod.rs:1592` argues that nothing runs between the delta and the
  gate because the function is synchronous; sessions run on other threads, and an
  event may pass in between (`late`, `shut`). The test comment at `leader/server.rs:2955`, "each
  event reaches the client exactly once", holds but for those.
- `breaker.rs:211` says the probe count is already 0 when HalfOpen is entered; a loser that the zeroing
  overtook may still subtract, and the count wraps until the next trip or close zeroes it. Only
  takeovers of the lease admit a probe meanwhile.
- The three cases listed at `agent/app.rs:956` leave out a lock that is held by a client which has
  just found a live socket, and a lock file that was unlinked: a leader may then be found by nobody
  (`Hidden`), or two may lead (`stray`).

## 6. Not modelled, and what remains

Not modelled, with reasons, is listed per component in `PROJECT.json`. Most of the
repository is rendering, I/O and data transformation, sequential code whose state is
local to a call. Of what coordinates, these are left, in order of worth:

1. `QueueMirror`: the broadcast rows, versions, edits and the version gate of remove and interject.
2. Drivers, child sessions and reconnection in the leader's routing; loads with a cursor.
3. The retry policy of the sampler and the hub's reconnection.
