----------------------------- MODULE Scheduler -----------------------------
(***************************************************************************)
(* The cooperative scheduler of src/src/scheduler.rs: the life cycle of     *)
(* every logical task and the two queues that fix dispatch and wake order.  *)
(*                                                                         *)
(* The operators take and return the whole scheduler (the Rust `&mut self') *)
(* so that a handler that makes several scheduler calls in a row is one     *)
(* step of module Machine.  A call that returns Err leaves the record       *)
(* alone; the actions at the end are the public methods, called in any      *)
(* order with any argument.                                                 *)
(***************************************************************************)
EXTENDS Integers, Sequences, FiniteSets, Queues

CONSTANTS
  Pids,       \* process identifiers a caller may name
  Root,       \* the process the scheduler is created with
  NoPid,      \* `current == None'
  WaitAtoms,  \* the resource conditions a task can wait on
  MAX_TASKS   \* capacity of the task table

ASSUME SchedulerAssumption ==
  /\ Root \in Pids
  /\ NoPid \notin Pids
  /\ MAX_TASKS \in Nat \ {0}

(***************************************************************************)
(* Task states.  A WaitReason is the set of atomic conditions it contains:  *)
(* a plain reason is a singleton and Any(reasons) the union of its members.  *)
(* Absent stands for a pid with no entry in `states'.  Exit statuses do not  *)
(* influence scheduling and are left to the process table.                   *)
(***************************************************************************)
WaitReasons == (SUBSET WaitAtoms) \ {{}}

Tags == {"Absent", "Runnable", "Running", "Blocked",
         "StoppedRunnable", "StoppedBlocked", "Exited"}

TaskState == [tag : Tags, reason : SUBSET WaitAtoms]

Task(tag) == [tag |-> tag, reason |-> {}]

Waiting(tag, reason) == [tag |-> tag, reason |-> reason]

VARIABLE sched

Schedulers == [states : [Pids -> TaskState], runnable : Seq(Pids),
               blocked : Seq(Pids), current : Pids \cup {NoPid}]

Tasks(s) == {p \in Pids : s.states[p].tag # "Absent"}

Tagged(s, tags) == {p \in Pids : s.states[p].tag \in tags}

(***************************************************************************)
(* The methods.                                                             *)
(***************************************************************************)
new == [states   |-> [p \in Pids |-> Task(IF p = Root THEN "Running" ELSE "Absent")],
        runnable |-> << >>,
        blocked  |-> << >>,
        current  |-> Root]

CanSpawn(s, pid) == /\ s.states[pid].tag = "Absent"
                    /\ Cardinality(Tasks(s)) < MAX_TASKS

spawn(s, pid) ==
  [s EXCEPT !.states[pid] = Task("Runnable"),
            !.runnable    = Append(@, pid)]

park_runnable(s, pid, reason) ==
  [s EXCEPT !.states[pid] = Waiting("Blocked", reason),
            !.runnable    = Without(@, pid),
            !.blocked     = Append(@, pid)]

dispatch_pid(s, pid) ==
  [s EXCEPT !.states[pid] = Task("Running"),
            !.runnable    = Without(@, pid),
            !.current     = pid]

yield_current(s) ==
  [s EXCEPT !.states[s.current] = Task("Runnable"),
            !.runnable          = Append(@, s.current),
            !.current           = NoPid]

block_current(s, reason) ==
  [s EXCEPT !.states[s.current] = Waiting("Blocked", reason),
            !.blocked           = Append(@, s.current),
            !.current           = NoPid]

exit_current(s) ==
  [s EXCEPT !.states[s.current] = Task("Exited"),
            !.current           = NoPid]

(* A stopped task that is woken stays stopped but forgets its wait. *)
wake(s, pid) ==
  CASE s.states[pid].tag = "Blocked" ->
         [s EXCEPT !.states[pid] = Task("Runnable"),
                   !.blocked     = Without(@, pid),
                   !.runnable    = Append(@, pid)]
    [] s.states[pid].tag = "StoppedBlocked" ->
         [s EXCEPT !.states[pid] = Task("StoppedRunnable"),
                   !.blocked     = Without(@, pid)]
    [] OTHER -> s

(* Mutant: stopping a blocked task forgets what it waits for. *)
MutStopForgetsWait(s, pid) ==
  CASE s.states[pid].tag = "Runnable" ->
         [s EXCEPT !.states[pid] = Task("StoppedRunnable"),
                   !.runnable    = Without(@, pid)]
    [] s.states[pid].tag = "Running" /\ s.current = pid ->
         [s EXCEPT !.states[pid] = Task("StoppedRunnable"),
                   !.current     = NoPid]
    [] s.states[pid].tag = "Blocked" ->
         [s EXCEPT !.states[pid] = Task("StoppedRunnable"),
                   !.blocked     = Without(@, pid)]
    [] OTHER -> s

(* Mutant: stopping a queued task leaves it in the run queue. *)
MutStopKeepsQueued(s, pid) ==
  IF s.states[pid].tag = "Runnable"
  THEN [s EXCEPT !.states[pid] = Task("StoppedRunnable")]
  ELSE s

(* The blocked task keeps its place in `blocked' while it is stopped. *)
stop(s, pid) ==
  CASE s.states[pid].tag = "Runnable" ->
         [s EXCEPT !.states[pid] = Task("StoppedRunnable"),
                   !.runnable    = Without(@, pid)]
    [] s.states[pid].tag = "Running" /\ s.current = pid ->
         [s EXCEPT !.states[pid] = Task("StoppedRunnable"),
                   !.current     = NoPid]
    [] s.states[pid].tag = "Blocked" ->
         [s EXCEPT !.states[pid] = Waiting("StoppedBlocked", @.reason)]
    [] OTHER -> s

continue_task(s, pid) ==
  CASE s.states[pid].tag = "StoppedRunnable" ->
         [s EXCEPT !.states[pid] = Task("Runnable"),
                   !.runnable    = Append(@, pid)]
    [] s.states[pid].tag = "StoppedBlocked" ->
         [s EXCEPT !.states[pid] = Waiting("Blocked", @.reason)]
    [] OTHER -> s

(***************************************************************************)
(* wake_waiters and its three relatives wake, in blocking order, every task  *)
(* whose reason meets a set of atoms.  The loop of single wakes is written   *)
(* in closed form: the woken tasks leave `blocked', and those that are not   *)
(* stopped join the back of `runnable' in their blocking order.              *)
(***************************************************************************)
Waiters(s, atoms) ==
  {p \in Elems(s.blocked) : /\ s.states[p].tag \in {"Blocked", "StoppedBlocked"}
                            /\ s.states[p].reason \cap atoms # {}}

(* Mutant: woken tasks jump the run queue. *)
MutWakeAtFront(s, atoms) ==
  LET woken == Waiters(s, atoms)
      ready == {p \in woken : s.states[p].tag = "Blocked"}
  IN  [s EXCEPT !.states = [p \in Pids |-> IF p \in ready THEN Task("Runnable")
                                           ELSE IF p \in woken THEN Task("StoppedRunnable")
                                           ELSE s.states[p]],
                !.blocked  = Retain(@, Pids \ woken),
                !.runnable = Retain(s.blocked, ready) \o @]

wake_matching(s, atoms) ==
  LET woken == Waiters(s, atoms)
      ready == {p \in woken : s.states[p].tag = "Blocked"}
  IN  [s EXCEPT !.states = [p \in Pids |-> IF p \in ready THEN Task("Runnable")
                                           ELSE IF p \in woken THEN Task("StoppedRunnable")
                                           ELSE s.states[p]],
                !.blocked  = Retain(@, Pids \ woken),
                !.runnable = @ \o Retain(s.blocked, ready)]

CanDispatch(s) == s.current = NoPid /\ s.runnable # << >>

(* Mutant: the newest runnable task is dispatched first. *)
MutDispatchNewest(s) == dispatch_pid(s, s.runnable[Len(s.runnable)])

(* The head is popped before its state is examined. *)
dispatch(s) ==
  LET pid == Head(s.runnable)
  IN  IF s.states[pid].tag = "Runnable"
      THEN [s EXCEPT !.states[pid] = Task("Running"),
                     !.runnable    = Tail(@),
                     !.current     = pid]
      ELSE [s EXCEPT !.runnable = Tail(@)]

reap(s, pid) ==
  IF s.states[pid].tag = "Exited"
  THEN [s EXCEPT !.states[pid] = Task("Absent")]
  ELSE s

discard_runnable(s, pid) ==
  IF s.states[pid].tag = "Runnable"
  THEN [s EXCEPT !.states[pid] = Task("Absent"),
                 !.runnable    = Without(@, pid)]
  ELSE s

(***************************************************************************)
(* The scheduler under arbitrary calls.                                     *)
(***************************************************************************)
Init == sched = new

Spawn(p) == CanSpawn(sched, p) /\ sched' = spawn(sched, p)

ParkRunnable(p, reason) == /\ sched.states[p].tag = "Runnable"
                           /\ sched' = park_runnable(sched, p, reason)

DispatchPid(p) == /\ sched.current = NoPid
                  /\ sched.states[p].tag = "Runnable"
                  /\ sched' = dispatch_pid(sched, p)

(* Mutant: yields without checking that a task is running. *)
MutYieldUnchecked == sched' = yield_current(sched)

YieldCurrent == sched.current # NoPid /\ sched' = yield_current(sched)

BlockCurrent(reason) == sched.current # NoPid /\ sched' = block_current(sched, reason)

ExitCurrent == sched.current # NoPid /\ sched' = exit_current(sched)

Wake(p) == sched' = wake(sched, p)

Stop(p) == sched' = stop(sched, p)

ContinueTask(p) == sched' = continue_task(sched, p)

WakeMatching(atoms) == sched' = wake_matching(sched, atoms)

Dispatch == CanDispatch(sched) /\ sched' = dispatch(sched)

Reap(p) == sched' = reap(sched, p)

DiscardRunnable(p) == sched' = discard_runnable(sched, p)

Next ==
  \/ Dispatch \/ YieldCurrent \/ ExitCurrent
  \/ \E reason \in WaitReasons : BlockCurrent(reason)
  \/ \E p \in Pids, reason \in WaitReasons : ParkRunnable(p, reason)
  \/ \E p \in Pids : \/ Spawn(p) \/ DispatchPid(p) \/ Wake(p) \/ Stop(p)
                     \/ ContinueTask(p) \/ Reap(p) \/ DiscardRunnable(p)
  \/ \E atoms \in SUBSET WaitAtoms : WakeMatching(atoms)

Spec == Init /\ [][Next]_sched

(***************************************************************************)
(* Fairness.  The driver loop (exec.rs, poll_machine) dispatches whenever    *)
(* it finds no current task, and a dispatched task gives the processor back  *)
(* after one bounded step.  dispatch_pid can keep Dispatch from being        *)
(* continuously enabled, so its fairness is strong.                          *)
(***************************************************************************)
Relinquish == YieldCurrent \/ ExitCurrent \/ \E reason \in WaitReasons : BlockCurrent(reason)

FairSpec == Spec /\ SF_sched(Dispatch) /\ WF_sched(Relinquish)

(***************************************************************************)
(* Properties.                                                              *)
(***************************************************************************)

(* The scheduler's fields keep their types through every method.            *)
TypeOK == sched \in Schedulers

(* A scheduler whose queues agree with its states. *)
Consistent(s) ==
  /\ Elems(s.runnable) = Tagged(s, {"Runnable"})
  /\ Elems(s.blocked)  = Tagged(s, {"Blocked", "StoppedBlocked"})
  /\ NoRepeat(s.runnable) /\ NoRepeat(s.blocked)
  /\ Tagged(s, {"Running"}) = {s.current} \ {NoPid}

(* `runnable' lists exactly the Runnable tasks and `blocked' exactly the     *)
(* tasks with a pending wait, stopped or not, each once, and `current' is    *)
(* the only Running task.  This is what keeps `dispatch' off its error       *)
(* paths, which pop the queue before they fail, and what the `expect' calls  *)
(* in wake_waiters and wake_matching rely on.                                *)
QueuesMatchStates == Consistent(sched)

(* No two tasks that stay queued swap, and newcomers queue behind. *)
QueueOrderKept(old, now) ==
  \A a, b \in Elems(now) :
    \/ Precedes(old, a, b)
    \/ a \in Elems(old) /\ b \notin Elems(old)
    => Precedes(now, a, b)

OrderKept(s, t) == /\ QueueOrderKept(s.runnable, t.runnable)
                   /\ QueueOrderKept(s.blocked, t.blocked)

(* Dispatch and wake order are stable: no method reorders two tasks that     *)
(* stay in a queue, and a task that enters a queue enters behind those       *)
(* already there, also when one wake moves several tasks or a task is        *)
(* stopped and continued.                                                    *)
StableOrder == [][OrderKept(sched, sched')]_sched

(* What one step may do to the wait of a task. *)
WaitKept(old, now) ==
  /\ old.tag = "StoppedRunnable" => now.tag \in {"StoppedRunnable", "Runnable"}
  /\ old.tag \in {"Blocked", "StoppedBlocked"} =>
       \/ now.tag \in {"Blocked", "StoppedBlocked"} /\ now.reason = old.reason
       \/ old.tag = "Blocked" /\ now.tag = "Runnable"
       \/ old.tag = "StoppedBlocked" /\ now.tag = "StoppedRunnable"

WaitsKept(s, t) == \A p \in Pids : WaitKept(s.states[p], t.states[p])

(* Job control neither loses nor invents a wake: a pending wait survives     *)
(* `stop' and `continue_task' with its reason, it ends only by becoming      *)
(* runnable (or stopped-runnable), and a wake that arrived while the task    *)
(* was stopped is still there when it is continued.                          *)
WakesSurviveStop == [][WaitsKept(sched, sched')]_sched

(* Every task that enters the run queue leaves it: it is dispatched unless   *)
(* it is stopped, parked or discarded first.                                 *)
NoStarvation ==
  \A p \in Pids : p \in Elems(sched.runnable) ~> p \notin Elems(sched.runnable)
=============================================================================
