# A verification development for shellsim

shellsim is a deterministic, in-process simulation of a small Unix machine: a
shell with processes, pipes, signals, timers, files and Wasm guests, all run
cooperatively by one host thread and driven by a harness through a polling
interface. This directory holds TLA+ models of its core, the TLC runs that
check them on small instances, and TLAPS proofs of the results that matter
most for every size of the system.

Paths below are relative to `src/src/`. The correspondence of every definition
with source lines is in `PROJECT.json` (`map`).

Contents: [inventory](#the-system-and-its-parts) ·
[modules](#modules-and-their-correspondence-with-the-code) ·
[runs](#runs) · [bounds](#bounds) · [fairness](#fairness) ·
[theorems](#theorems) · [findings](#findings) ·
[not modelled](#what-is-not-modelled) · [plan](#plan)

## The system and its parts

| Part | Source | State | Operations that change it | Talks to |
| --- | --- | --- | --- | --- |
| Cooperative scheduler | `scheduler.rs` | a state per task, a run queue, a wait queue, the current task | spawn, park, dispatch, yield, block, wake and the four waiter wakes, stop, continue, exit, reap, discard | process table, event delivery, pipe wake-ups |
| Virtual timeline | `clock.rs` | monotonic time, wall adjustment, pending events by (deadline, sequence), fired events | schedule, cancel, cancel a task's events, advance to a time / to the next event, block a task, pop and remove fired events | event delivery |
| Resource meters | `resources.rs` | CPU, memory, output counters, sticky stop reason | charge CPU / output, reserve / release memory, release or restore to a mark | every command |
| Cancellation token | `interruption.rs`, with the run loop of `exec.rs`, `shell.rs` | three atomics, a mutex, a condition variable | `cancel`, bind, `wait`, `finish`, the tests around every poll | host threads, harness |
| Descriptor arena and tables | `descriptors.rs` | reference-counted open descriptions, pipes, inputs, captures, advisory locks; one table per process | open, retain, release, discard, read, write, append/close input, drain, lock; install, dup, close, close-on-exec, fork | system calls, process exit |
| Process table, jobs, signals, poll loop | `process.rs`, `interp.rs`, `exec.rs`, `commands/builtins.rs` | records, retained contexts, active pid, groups, terminal, pending signals, handlers, continuation frames | create, exit, wait, reap, stop, continue, kill, trap, `fg`, `sleep`, poll, cancel | scheduler, timeline, harness |
| Event delivery | `exec.rs` (`handle_ready_events`, `dispatch_available`) | none of its own | fired events become wakes and signals | timeline, scheduler |
| Harness protocol | `harness.rs`, `harness_manager.rs`, `realtime.rs` | sessions, actions, output cursors | start, poll, input, signal, cancel, inspect | everything |
| Host requests and virtual network | `net.rs`, `netcmd.rs` | unanswered requests, connections | submit, answer, expire | harness, scheduler |
| Virtual file system | `vfs.rs`, `pseudo_fs.rs` | inodes, links, quota, orphans | create, link, unlink, rename, write, truncate | descriptors, system calls |
| Wasm guests and threads | `commands/wasm*` | guest instances, guest threads, futexes | spawn, wait, notify, trap | scheduler, system calls |
| Parser, expansion, arithmetic | `shell.rs`, `expand.rs`, `arith.rs` | none between calls | pure | evaluator |
| git, text and archive commands | `commands/*`, `jqcmd.rs` | files only | sequential | VFS |

What makes the system hard to test is not parallelism inside the machine, which
has none, but the number of tables that describe the same process (record,
context, scheduler state, queue position, frames, pending signals, descriptor
table, pending events) and the freedom of the host to poll, signal, cancel or
feed input between any two quanta. Real parallelism appears in one place: the
cancellation token, which other host threads touch at any moment.

The correctness questions per part, as properties:

* scheduler: queues and states never disagree; order of queued tasks is kept;
  job control does not lose a wake; no queued task starves;
* timeline: no event early, none passed by, handling order total and stable,
  no event after its cancellation, every event settled once the machine idles;
* meters: never above the limit and never rewound, the first refusal is final,
  the ledger of reservations balances;
* token: no missed wake-up, no request that spills into the next action, honest
  outcomes, a request ends the run;
* arena: counts exact, pipes are FIFO channels, identities never reused, locks
  exclusive and their loss announced, end of file final;
* machine: the tables agree, waits are never lost, sleepers have their events,
  no signal sleeps, the terminal has a live owner and returns to the shell, a
  cancellation kills its own action and nothing else, and gives the shell back
  and keeps its kills also when it fails.

`PROJECT.json` lists the hazards behind these questions, each at the line where
it bites.

## Modules and their correspondence with the code

Component modules define the code's methods as operators that take and return
the component's whole state (`wake(s, pid)`, `release(a, n)`,
`advance_to(t, target)`), then a small specification in which any caller may
call any method at any time. A composing module uses the same operators through
`INSTANCE`, so a method is modelled once.

* **Queues** - `Without`, `Retain`, `Elems`: what `VecDeque::retain` does.
* **Scheduler** - `scheduler.rs`. `sched` is the struct: `states`, `runnable`,
  `blocked`, `current`. A wait reason is the set of atoms it matches, so the
  four `wake_*` methods differ only in which atoms they name. Exit statuses are
  left out: the scheduler stores but never reads them.
* **Timeline** - `clock.rs`. Events carry deadline, sequence and kind.
  `checked_add` fails at `MAX_NS`, `MAX_SEQUENCE` and `MAX_WALL`. The loop of
  `block_task` is summarised by the batch it ends in. `Idle` is the decision of
  `dispatch_available` that the clock may jump (nothing runnable, `advance_time`
  set, virtual time, no host request unanswered), taken for reasons outside this
  module; only after it does `AdvanceToNext` run, and nothing comes in between.
* **Resources** - `resources.rs` and its callers. An owner (`owned`) is a field
  that records a reservation, as `fork_allocation_bytes`, `state_reserved` and
  `expansion_reserved` do: `Reserve` adds to it, `sync_shell_memory` moves it to
  a target, `Take` releases all of it. `dd`, `sed`, `jq`, `tar`, `zip` and
  `git archive` keep a `mark` of the meter and release down to it; they run to
  their end within one quantum, so no owner acts in between. `restore_memory` is
  modelled too, although only its unit test calls it. `scratch` is a history
  variable.
* **Cancellation** - `interruption.rs` and the tests that `exec.rs` and
  `shell.rs` make. One step per atomic access, lock, unlock, notify or wait. A
  machine quantum is reduced to its result, an error or a panic included, and to
  whether native code looked at the token. A teardown succeeds or fails: a run
  whose teardown fails ends with an error and still reports the interruption.
  The entry tests of `shell.rs` that return before the token is looked at are
  steps of their own. `wait_timeout_while` releases the mutex and sleeps in one step, and
  may wake spuriously.
* **Channel** - what a pipe promises, without descriptors or counts.
* **Descriptors** - `descriptors.rs`. Inputs and captures are byte counts, the
  bytes of a pipe are numbered in writing order so that loss and reordering are
  visible. `handles` and `sent` are history variables. Loops that release one
  reference at a time are one step with a count per description: the callers do
  nothing in between. A `fork` that cannot retain its n-th descriptor gives the
  earlier ones back (`ForkFails`). `file_lock_generation` is kept as the set of
  thread groups that have not seen its current value, which is all that
  `wasm/threads.rs` asks of it.
* **Machine** - `process.rs`, `interp.rs`, `exec.rs`, `builtins.rs`, with the
  scheduler as an instance. A poll is one step: dispatch, take a signal, then a
  quantum chosen among what a continuation can do (subshell, substitution,
  pipeline of two stages, background job, `wait`, `fg`, `kill`, `trap`, `sleep`,
  host request, block, finish). A push that would exceed the frame limit aborts
  the program (`abort`); as `Run` stands for any number of frames, every push may
  meet the limit.
  * *Time.* `timers` holds the wake events of sleepers as batches of equal
    deadlines, in order. On virtual time `dispatch_available` lets the clock jump
    from batch to batch while nothing is runnable, under the code's conditions;
    `Pending` and a process that stops itself dispatch without that right. On
    physical time any number of batches may have come due at a poll. The harness
    polls with or without `advance_time`, `exec()` always with it.
  * *Waiting.* Children, timers and host answers are concrete. Any other
    condition (input, pipe, lock) is an *external* one that may be signalled at
    any time.
  * *Cancellation* is one step for its set-up, one per quantum of a victim and one
    for its end. `budget` is the work bound (100,000 in the code, 0 in a test). It
    fails when the bound is exceeded, when no victim is runnable, and when a poll
    blocks or fails; the shell is restored all the same, and the error returns of
    that restoration are the negation of `Resumable`.
  * `driver` selects the harness (which polls again after `Blocked`) or the
    synchronous `exec()` (which waits for a physical deadline or gives up).
* **QueueLemmas, SchedulerProofs, CancellationProofs, ResourcesProofs,
  DescriptorsProofs** - theorems, see below.
* **MC...** - instances for TLC. Definitions named `Mut...` are variants of a
  method with a plausible mistake; each property is violated under the variant
  `PROJECT.json` pairs it with, which shows that it depends on that line.

## Runs

| Run | Specification | Shows |
| --- | --- | --- |
| `scheduler` | Scheduler, fair | Queues and states agree, order is stable, a stop never drops a wait, no queued task starves. |
| `timeline` | Timeline, fair | No event fires early, late or twice, or after it was cancelled; the handling order is (deadline, sequence) over the whole run; in a machine that falls idle again and again every event settles. Counters reach their maximum. |
| `resources` | Resources | Meters within limits and never rewound, also where a sum overflows; the working set is what the owners record plus the scratch of the running command; stop final. |
| `cancellation` | Cancellation, fair | Two cancelling threads and two runs racing for one token: mutex discipline, no missed wake, honest outcome, late requests dropped, a request ends the run although no timer ever fires. Polls and teardowns may fail. |
| `descriptors` | Descriptors | Reference and pipe-end counts are exact under fork, also one that fails half-way, dup over an open number, close-on-exec, machine handles and partly failed opens; identities are not reused. |
| `pipes_and_locks` | Descriptors | Each pipe implements `Channel` under partial reads and writes and any order of closes; end of file is final; locks are exclusive and losing one is announced on both channels, also in a failed conversion. |
| `machine` | Machine | Two consecutive actions over three processes with both drivers and both clocks, with pipelines, sleeps, host requests and cancellations with and without budget: the tables agree, the running slot is right, no child wake is lost, every sleeper has its event and no event outlives its process, background jobs of an earlier action survive a cancellation. |
| `signals` | Machine | Handlers, stops, continues, `fg`, sleepers on physical time and cancellations, also ones that exceed their bound: the terminal has a live owner and goes back to the shell when its group stops or ends, no deliverable signal sleeps, a stopped sleeper does not lose its wake, every cancellation leaves the shell running without a program, event or request, and victims that survive a failed one keep their kill. |
| `active_retained` | Machine | Violation, see finding 1. |
| `restores_target` | Machine | Violation, see finding 2. |
| `kill_order` | Machine | Violation, see finding 3. |
| `blocked_without_event` | Machine | Violation, see finding 4. |

Deadlock is checked except in `cancellation`, where every thread returns, and in
`machine`, `restores_target` and `blocked_without_event`, where `exec()` may
give up for good.

## Bounds

Every bound is a constant of the module and appears in a guard.

* Scheduler: four pids, capacity three, so that the limit is hit; two wait
  atoms give disjoint, overlapping and joint wait reasons.
* Timeline: three instants, sequence numbers up to three, two events alive at
  once: enough for two events at one instant, an event scheduled for the
  present, a horizon refusal and an exhausted counter.
* Resources: `U64_MAX` is 9 and amounts reach 8, so sums overflow; limits are
  two or three requests away.
* Descriptors: identities run out after three (two) handed out, so that the
  second allocation of `open_pipe` fails for lack of an identity and for lack
  of room; two processes and two numbers for counts, a two-byte pipe with writes
  of one and two bytes for channels.
* Machine: three processes (a shell, a child, a grandchild or a second job, or a
  pipeline that fits or is rolled back) and two actions for lifetimes, with kills
  but no other signal; two processes with all signal states for signals.
  `MAX_FRAMES` is two where no handler runs and three for a handler on top of a
  wait. `CancelBudgets` holds 0, the bound exceeded at once with every victim
  alive, and a number of polls that lets the cancellation finish. Signals to a
  group of one are the same as signals to the process and are not repeated. Host
  requests and `Input` are in `machine` only, physical time is in both.
* Of the three ways a cancellation can fail, the passing runs reach the work
  bound. "no runnable cancellation victim" needs a handler that starts a child of
  its own, hence a third process and a fourth frame: that instance (subshells,
  interrupts, three processes, four frames, 657,846 states) satisfies the
  properties of `signals` but takes about four minutes and is not kept as a run.
  No instance tried reaches "descendants blocked during cancellation".

The theorems remove the bounds for the scheduler, the token, the meters and the
locks, identities and inputs of the arena.

## Fairness

* `Scheduler!FairSpec`: the dispatched task gives up its slot (weak fairness) and
  the driver dispatches whenever it finds no current task. The poll loop does
  exactly that, and a quantum is bounded by fuel. Fairness of `dispatch` is
  strong because `dispatch_pid`, which cancellation uses, can take the slot
  first.
* `Timeline!FairSpec`: a call of `dispatch_available` that found the machine idle
  goes on to `advance_to_next`. That the machine ever is idle, or that its driver
  lets time pass, is not assumed: a busy job or a host that polls with
  `advance_time` false keeps events pending for ever. `EventsSettle` therefore
  has the premise that the machine is idle again and again. Nothing is assumed
  about who schedules or cancels.
* `Cancellation!FairSpec`: a thread inside `cancel()` and a thread driving a run
  are scheduled by the host. Nothing is assumed about timeouts, spurious wakes
  or whether `cancel()` is called; strong fairness for the mutex is not needed.
* Machine has safety properties only. The host decides whether it polls.

## Theorems

All hold for every value of the constants that satisfies the named assumption
of the module. tlapm checks every leaf.

* **SchedulerProofs** (from `SchedulerAssumption`). `SchedulerSafe`: queues and
  states agree. The invariant must be strengthened by type, by duplicate-free
  queues and by the current task being the only running one; each method then
  has a lemma that it preserves the strengthened invariant on any scheduler
  value. `OrderIsStable` and `WakesAreKept` follow from what the methods do to
  the queues. The facts about `Without` and `Retain` are in **QueueLemmas**.
* **CancellationProofs** (from `CancellationAssumption`: threads are distinct).
  `LockDiscipline`: the mutex is held exactly inside the critical sections.
  Everything else uses it: `WakesReachSleepers` because a sleeper went to sleep
  under the mutex with the request clear and a store is made under the mutex;
  `LateRequestsAreDropped` with the invariant that no thread is between its test
  of `finished` and its store once `finished` is set; `OutcomesAreHonest` with
  the invariant that ties each outcome to whether the run observed the request:
  errors and panics may go either way, a teardown implies the interruption, a
  completion or a deadlock excludes it.
* **ResourcesProofs** (from `ResourcesAssumption`: limits and amounts are u64).
  `MetersWithinLimits` is inductive together with the types of the meters.
  `StopsAreFinal` and `UsageOnlyGrows` (no meter but current memory goes down)
  need the same invariant. One lemma per method.
* **DescriptorsProofs** (from `DescriptorsAssumption`). Every method but
  `file_lock` and `take_file_lock_changes` is shown to keep, drop or freshly
  create each description (`Evolves`, which is transitive, so methods that call
  methods compose). The invariant `DInv` says that identities beyond the counter
  are unused and hold no lock, that pipe ends name a pipe, that a cursor lies
  within its input, and that a pipe is not over capacity.
  `LocksAreExclusive`, `LockLossIsSignalled`, `IdentitiesAreFresh` and
  `EndOfFileIsFinal` follow.

Only model-checked: liveness (`NoStarvation`, `EventsSettle`, `RequestEndsRun`)
and anything with `ENABLED`, which the prover does not handle; the sum in
`LedgerBalanced`, the cardinalities in `ReferencesExact` and `PipeEndsCounted`,
and the pipe refinement, not yet proved; the sorting of `InOrder` in Timeline;
everything about Machine.

## Findings

1. `finish_child` (`interp.rs`) leaves the active pid without a context when
   the child that ends was the last process able to run, against the
   `expect("active process state must exist")` of the same file
   (`active_retained`). The next dispatch repairs it.
2. `exec()` restores the saved root descriptors into whichever process is active
   when it gives up on a blocked machine, against its comment "Restore the
   persistent root descriptor table after action completion"
   (`restores_target`).
3. A victim of a cancellation that has a trapped, lower-numbered signal pending
   runs a quantum of its handler before its kill, against "its pending kill is
   handled before any user code" (`kill_order`).
4. A process that stops itself makes `poll_machine` dispatch without the right to
   advance the clock, whatever the caller asked for; `exec()` then reports "all
   processes are blocked without an event" although the wake of a sleeping job is
   pending (`blocked_without_event`).

## What is not modelled

* In modelled parts: the telemetry fields; file offsets and access modes, which
  the arena stores for its callers; `exec` of images other than `sleep`, `bg`,
  `disown`, process substitutions, exit and error traps, and sessions other than
  the root's, for which `set_foreground` has a check that always succeeds here.
* Of event delivery: `Deadline` and `SignalTask` events (`timeout`, waits with a
  deadline), and a `sleep` whose event the timeline refuses. Machine knows the
  order of deadlines, not their values; values are in Timeline.
* Of host requests: routes, message limits and the delivery to the host. A request
  that was answered and not yet resumed is no longer `asked`.
* Pipe wake-ups as a composition (planned); Machine covers them by conditions that
  may be signalled at any time, which includes every order the composition allows
  but cannot show that a wake is *not* lost there.
* The harness's tables, file system, Wasm threads, git and the other native
  programs are planned; the parser, expansion, text and archive commands
  are sequential string processing without state between calls; the server,
  command line, telemetry and display are I/O.

## Plan

1. `PipeIO`: arena and scheduler together - a reader or writer that blocked is
   woken by the write, read, close or exit that unblocks it; the wakes missing
   after `restore_fds` and `cancel_unstarted_child`.
2. `Timeout`: `Deadline` and `SignalTask` events in Machine, with the waits of
   `timeout` that they bound.
3. Harness: action table, output cursors, sessions and limits; an abstract
   specification of an action's life (started, running, one final result) that
   Machine and the harness implement.
4. Host requests: delivery to the host, one answer per request, a late answer
   refused.
5. File system: quota equals what the inodes hold, link counts, orphans kept
   open by descriptions.
6. Wasm threads: futex wait and notify, thread exit, trap of one thread.
7. Pure algorithms against reference definitions: glob matching, field
   splitting, arithmetic at the 64-bit edges, git merge bases.
8. Proofs, in this order: the timeline's firing order, the pipe refinement with
   exact end counts, reference counts, the agreement of Machine's tables.
