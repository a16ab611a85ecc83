------------------------------ MODULE Machine ------------------------------
(***************************************************************************)
(* The logical machine of src/src/interp.rs, process.rs and exec.rs: the     *)
(* process table, the retained process contexts, signals, the controlling    *)
(* terminal and the poll loop that drives one foreground action, composed    *)
(* with the scheduler.                                                       *)
(*                                                                         *)
(* One host call is one step: poll_machine is a step with the program's      *)
(* quantum chosen nondeterministically among the things a continuation can   *)
(* do to the machine.  Children, waits, signals, sleeps and host requests are *)
(* concrete; every other condition a process can block on (input, pipes,     *)
(* locks) is an external one that may be signalled at any time.  A deadline  *)
(* is only its place in the order of the pending ones, and a poll reads the  *)
(* host's clock once.  Every process is in the root's session.  Memory,      *)
(* descriptors and output belong to other modules.                           *)
(***************************************************************************)
EXTENDS Integers, Sequences, FiniteSets, Queues

CONSTANTS
  PID_MAX,         \* the last process identifier (i32::MAX)
  MAX_PROCESSES,   \* capacity of the process table and of the scheduler
  Programs,        \* what programs run, besides builtins
  Externals,       \* conditions a process can wait for that others fulfil
  Trappable,       \* signals for which programs install dispositions
  HostSignals,     \* signals the host sends
  KillSignals,     \* signals programs send with `kill'
  Drivers,         \* "harness" (HarnessSession), "exec" (run_script_capture)
  Clocks,          \* "virtual" or "real": whether deadlines are physical times
  CancelBudgets,   \* polls a cancellation may make (100_000; 0 in a test)
  MAX_ACTIONS,     \* bound: foreground actions started
  MAX_FRAMES       \* frames a continuation may hold

ASSUME MachineAssumption ==
  /\ PID_MAX \in Nat \ {0} /\ MAX_PROCESSES \in Nat \ {0}
  /\ MAX_ACTIONS \in Nat /\ MAX_FRAMES \in Nat
  /\ Trappable \subseteq {"Interrupt", "Terminate", "Child"}
  /\ HostSignals \cup KillSignals \subseteq {"Interrupt", "Kill", "Terminate", "Stop", "Continue"}
  /\ Programs \subseteq {"subshell", "substitution", "job", "pipeline", "sleep", "ask"}
  /\ Drivers \subseteq {"harness", "exec"} /\ Clocks \subseteq {"virtual", "real"}
  /\ CancelBudgets \subseteq Nat

Root == 1
NoPid == 0
Pids == Root..PID_MAX

Child(p) == <<"Child", p>>
Activity(p) == <<"ChildActivity", p>>
Timer(p) == <<"Timer", p>>
HostHttp(p) == <<"HostHttp", p>>
WaitAtoms == ({"Child", "ChildActivity", "Timer", "HostHttp"} \X Pids) \cup (Externals \X {NoPid})

VARIABLES
  driver,    \* who polls the machine; fixed in a behaviour
  clock,     \* the clock's mode; fixed in a behaviour
  machine,   \* scheduler, process table, contexts, pending events and terminal
  phase,     \* what the host is doing: "idle", "action" or "cancelling"
  result,    \* what the last poll or cancel returned
  victims,   \* the processes the current cancellation kills
  budget,    \* the polls it may still make
  restored,  \* history: the process whose descriptors the last action restored
  intruded   \* history: a cancellation ran user code of a victim

vars == <<driver, clock, machine, phase, result, victims, budget, restored, intruded>>

SX == INSTANCE SequencesExt

Sch == INSTANCE Scheduler WITH sched <- machine.sched, MAX_TASKS <- MAX_PROCESSES

(* Pending signals are an ordered set; this is the order of enum Signal. *)
Rank == [Interrupt |-> 1, Kill |-> 2, Terminate |-> 3, Child |-> 4, Stop |-> 5]
Signals == DOMAIN Rank
terminates(signal) == signal \in {"Interrupt", "Kill", "Terminate"}

(* Run stands for the frames below and of one command that do nothing to the  *)
(* machine; Sleep and Sleeping are the native image, alone on its stack.      *)
FrameKinds == {"Eval", "Run", "FinishSignalHandler", "AwaitChild", "AwaitPipeline",
               "AwaitSubstitution", "AwaitJob", "AwaitForeground", "Sleep", "Sleeping"}
Await(kind, pid, last) == [kind |-> kind, pid |-> pid, last |-> last]
Frame(kind, pid) == Await(kind, pid, pid)
Eval == Frame("Eval", NoPid)
Run == Frame("Run", NoPid)

Record(status, ppid, group) == [status |-> status, ppid |-> ppid, group |-> group]
NoRecord == Record("None", NoPid, NoPid)

Machines ==
  [sched       : Sch!Schedulers,
   records     : [Pids -> [status : {"None", "Running", "Stopped", "Exited"},
                           ppid : Pids \cup {NoPid}, group : Pids \cup {NoPid}]],
   next_pid    : Root..(PID_MAX + 1),
   contexts    : SUBSET Pids,
   active      : Pids,
   pending     : [Pids -> SUBSET Signals],
   disposition : [Pids -> [Trappable -> {"default", "ignore", "handler"}]],
   handling    : SUBSET Pids,
   frames      : [Pids -> Seq([kind : FrameKinds, pid : Pids \cup {NoPid},
                               last : Pids \cup {NoPid}])],
   jobs        : [Pids -> SUBSET Pids],
   generation  : [Pids -> 0..MAX_ACTIONS],
   actions     : 0..MAX_ACTIONS,
   foreground  : Pids,
   timers      : Seq(Seq(Pids)),
   asked       : SUBSET Pids,
   exiting     : BOOLEAN]

new == [sched       |-> Sch!new,
        records     |-> [p \in Pids |-> IF p = Root THEN Record("Running", NoPid, Root)
                                        ELSE NoRecord],
        next_pid    |-> Root + 1,
        contexts    |-> {Root},
        active      |-> Root,
        pending     |-> [p \in Pids |-> {}],
        disposition |-> [p \in Pids |-> [s \in Trappable |-> "default"]],
        handling    |-> {},
        frames      |-> [p \in Pids |-> << >>],
        jobs        |-> [p \in Pids |-> {}],
        generation  |-> [p \in Pids |-> 0],
        actions     |-> 0,
        foreground  |-> Root,
        timers      |-> << >>,
        asked       |-> {},
        exiting     |-> FALSE]

Live(m) == {p \in Pids : m.records[p].status \in {"Running", "Stopped"}}

live_group(m, group) == {p \in Live(m) : m.records[p].group = group}

running_group(m, group) == {p \in live_group(m, group) : m.records[p].status = "Running"}

(***************************************************************************)
(* Timers.  `timers' holds the wake events of sleepers as batches of equal   *)
(* deadlines, the earliest batch first and each batch in the order of its    *)
(* scheduling: what the timeline hands out (module Timeline).                *)
(***************************************************************************)
Armed(m) == UNION {Elems(m.timers[i]) : i \in 1..Len(m.timers)}

(* The places a deadline can take among the pending ones. *)
Scheduled(t, p) ==
  {SubSeq(t, 1, i) \o <<<<p>>>> \o SubSeq(t, i + 1, Len(t)) : i \in 0..Len(t)}
    \cup {[t EXCEPT ![i] = Append(@, p)] : i \in 1..Len(t)}

(* Mutant: the event of a process that ends stays pending. *)
MutCancelTaskEvents(m, p) == m

cancel_task_events(m, p) ==
  LET kept == [i \in 1..Len(m.timers) |-> Without(m.timers[i], p)]
      some(batch) == batch # << >>
  IN  [m EXCEPT !.timers = SelectSeq(kept, some)]

(* Mutant: the event of a stopped sleeper is spent on nobody. *)
MutWakeTask(s, p) ==
  IF s.states[p].tag = "Blocked" /\ Timer(p) \in s.states[p].reason THEN Sch!wake(s, p) ELSE s

WakeTask(s, p) == IF Timer(p) \in s.states[p].reason THEN Sch!wake(s, p) ELSE s

(* The first n batches become due and their events are handled. *)
handle_ready_events(m, n) ==
  [m EXCEPT !.sched  = SX!FoldLeft(WakeTask, @, SX!FlattenSeq(SubSeq(m.timers, 1, n))),
            !.timers = SubSeq(@, n + 1, Len(@))]

(***************************************************************************)
(* Dispatch.  Selecting a task activates its context.                       *)
(***************************************************************************)
(* Mutant: the dispatched task is not made the active process. *)
MutSelected(m) ==
  IF ~Sch!CanDispatch(m.sched) THEN m ELSE [m EXCEPT !.sched = Sch!dispatch(@)]

Selected(m) ==
  IF ~Sch!CanDispatch(m.sched) THEN m
  ELSE LET s == Sch!dispatch(m.sched)
       IN  [m EXCEPT !.sched = s, !.active = s.current]

(* How many batches the jumps of the virtual clock fire: as few as make       *)
(* something runnable, or all.                                                *)
Jumps(m) ==
  LET ready(n) == handle_ready_events(m, n).sched.runnable # << >>
      n == {k \in 0..Len(m.timers) : ready(k)}
  IN  IF n = {} THEN Len(m.timers) ELSE CHOOSE k \in n : \A j \in n : k <= j

(* The clock jumps only if the caller lets it, on virtual time, with no host  *)
(* request unanswered and nothing runnable.                                   *)
dispatch_available(m, advance_time) ==
  Selected(IF advance_time /\ clock = "virtual" /\ m.asked = {} /\ m.timers # << >>
           THEN handle_ready_events(m, Jumps(m)) ELSE m)

WakeChildWaiters(s, pid) ==
  Sch!wake_matching(Sch!wake_matching(s, {Child(pid)}), {Activity(pid)})

(* Mutant: the terminal stays with the group. *)
MutResetForeground(m) == m

(* Mutant: the terminal is left to nobody. *)
MutForegroundNobody(m) ==
  [m EXCEPT !.foreground = IF running_group(m, @) = {} THEN NoPid ELSE @]

(* The terminal returns to the session leader when no member of its group runs. *)
ResetForeground(m) ==
  [m EXCEPT !.foreground = IF running_group(m, @) = {} THEN Root ELSE @]

(***************************************************************************)
(* Children.                                                                *)
(***************************************************************************)
CanCreate(m) ==
  Cardinality({p \in Pids : m.records[p] # NoRecord}) < MAX_PROCESSES /\ m.next_pid <= PID_MAX

(* The parent of a foreground child blocks before the child is queued, and   *)
(* the head of the run queue, not necessarily the child, runs next.          *)
create_child(m, foreground, group) ==
  LET pid == m.next_pid
      s   == Sch!spawn(IF foreground THEN Sch!block_current(m.sched, {Child(pid)})
                       ELSE m.sched, pid)
      c   == [m EXCEPT !.sched            = s,
                       !.records[pid]     = Record("Running", m.active, group),
                       !.next_pid         = @ + 1,
                       !.contexts         = @ \cup {pid},
                       !.disposition[pid] = m.disposition[m.active],
                       !.frames[pid]      = << Eval >>,
                       !.generation[pid]  = m.generation[m.active]]
  IN  IF foreground THEN Selected(c) ELSE c

(* A pipeline stage that never ran leaves no trace but its identifier. *)
cancel_unstarted_child(m, pid) ==
  [m EXCEPT !.sched            = Sch!discard_runnable(@, pid),
            !.records[pid]     = NoRecord,
            !.contexts         = @ \ {pid},
            !.disposition[pid] = [s \in Trappable |-> "default"],
            !.frames[pid]      = << >>,
            !.generation[pid]  = 0]

(* Mutant: reaping forgets the scheduler's entry. *)
MutReap(m, pid) ==
  IF m.records[pid].status = "Exited" THEN [m EXCEPT !.records[pid] = NoRecord] ELSE m

reap(m, pid) ==
  IF m.records[pid].status = "Exited"
  THEN [m EXCEPT !.records[pid] = NoRecord, !.sched = Sch!reap(@, pid)]
  ELSE m

(***************************************************************************)
(* Signals and job control.                                                 *)
(***************************************************************************)
(* Mutant: the record of a stopped process still says running. *)
MutStopProcess(m, pid) ==
  [m EXCEPT !.sched = WakeChildWaiters(Sch!stop(@, pid), pid)]

(* Mutant: stopping a process leaves the terminal with its group. *)
MutStopKeepsTerminal(m, pid) ==
  [m EXCEPT !.sched               = WakeChildWaiters(Sch!stop(@, pid), pid),
            !.records[pid].status = "Stopped"]

stop_process(m, pid) ==
  ResetForeground(
    [m EXCEPT !.sched               = WakeChildWaiters(Sch!stop(@, pid), pid),
              !.records[pid].status = "Stopped"])

(* Mutant: a continued process with a pending signal is left blocked. *)
MutContinueProcess(m, pid) ==
  [m EXCEPT !.sched               = Sch!continue_task(@, pid),
            !.records[pid].status = IF @ = "Stopped" THEN "Running" ELSE @]

(* A blocked process is woken to look at its signals, even ignored ones. *)
continue_process(m, pid) ==
  LET s == Sch!continue_task(m.sched, pid)
  IN  [m EXCEPT !.records[pid].status = IF @ = "Stopped" THEN "Running" ELSE @,
                !.sched = IF m.pending[pid] # {} /\ s.states[pid].tag = "Blocked"
                          THEN Sch!wake(s, pid) ELSE s]

Disposition(m, pid, signal) ==
  IF signal \in Trappable THEN m.disposition[pid][signal] ELSE "default"

interrupts(m, pid, signal) ==
  \/ signal \in {"Kill", "Stop"}
  \/ Disposition(m, pid, signal) = "handler"
  \/ Disposition(m, pid, signal) = "default" /\ terminates(signal)

(* send_signal; a signal to a process that is gone is refused.  A stop of a  *)
(* process other than the running one takes effect at once.                  *)
send_signal(m, pid, signal) ==
  LET c == IF signal = "Kill" /\ m.records[pid].status = "Stopped"
           THEN continue_process(m, pid) ELSE m
  IN  CASE pid \notin Live(m) -> m
        [] signal = "Continue" -> continue_process(m, pid)
        [] signal = "Stop" /\ m.sched.current # pid -> stop_process(m, pid)
        [] OTHER ->
             [c EXCEPT !.pending[pid] = @ \cup {signal},
                       !.sched = IF interrupts(m, pid, signal) /\ @.states[pid].tag = "Blocked"
                                 THEN Sch!wake(@, pid) ELSE @]

(* send_signal_group and the loop of cancel: the members of S in pid order. *)
SignalAll(m, S, signal) ==
  LET send(x, p) == send_signal(x, p, signal)
  IN  SX!FoldLeft(send, m, SX!SetToSortSeq(S, <))

(* The pending signals of the active process that take_signal_delivery acts  *)
(* on: while a handler runs, only Kill and Stop.                             *)
Deliverable(m) ==
  {s \in m.pending[m.active] :
     \/ s \in {"Kill", "Stop"}
     \/ m.active \notin m.handling /\ interrupts(m, m.active, s)}

(* The lowest deliverable signal; "None" if there is none. *)
Delivery(m) ==
  IF Deliverable(m) = {} THEN "None"
  ELSE CHOOSE s \in Deliverable(m) : \A t \in Deliverable(m) : Rank[s] <= Rank[t]

(* Mutant: delivering a signal drops the other pending ones. *)
MutTakeSignalDelivery(m) == [m EXCEPT !.pending[m.active] = {}]

(* Ignored signals that come before the delivered one are discarded. *)
take_signal_delivery(m) ==
  LET signal == Delivery(m)
      passed == IF m.active \in m.handling THEN {}
                ELSE {s \in m.pending[m.active] : signal = "None" \/ Rank[s] < Rank[signal]}
  IN  [m EXCEPT !.pending[m.active] = @ \ (passed \cup {signal})]

(***************************************************************************)
(* finish_child: the active process exits.                                  *)
(***************************************************************************)
(* Mutant: the waiting parent is not woken. *)
MutExitWakes(s, pid) == Sch!exit_current(s)

ExitWakes(s, pid) == WakeChildWaiters(Sch!exit_current(s), pid)

(* Nothing runnable leaves `active' on the process that was just removed. *)
finish_child(m) ==
  LET pid    == m.active
      parent == m.records[pid].ppid
      exited == cancel_task_events(
                  ResetForeground([m EXCEPT !.records[pid].status = "Exited"]), pid)
      gone   == [Selected([exited EXCEPT !.sched = ExitWakes(@, pid)])
                 EXCEPT !.contexts         = @ \ {pid},
                        !.pending[pid]     = {},
                        !.handling         = @ \ {pid},
                        !.frames[pid]      = << >>,
                        !.jobs[pid]        = {},
                        !.disposition[pid] = [s \in Trappable |-> "default"],
                        !.generation[pid]  = 0]
  IN  IF parent \in gone.contexts
      THEN send_signal(gone, parent, "Child")
      ELSE reap(gone, pid)

(***************************************************************************)
(* The program of the active process.  A continuation is a stack of frames;  *)
(* the empty stack is no program.  Each operator below is what one quantum   *)
(* does before poll_machine acts on its result.                              *)
(***************************************************************************)
Top(m) == LET f == m.frames[m.active] IN f[Len(f)]

Fits(m, additional) == Len(m.frames[m.active]) + additional <= MAX_FRAMES

Push(m, p, frame) == [m EXCEPT !.frames[p] = Append(@, frame)]

Pop(m) == [m EXCEPT !.frames[m.active] = SubSeq(@, 1, Len(@) - 1)]

(* A frame too many, or the end of the program: every frame is unwound. *)
abort(m) == [m EXCEPT !.frames[m.active] = << >>, !.handling = @ \ {m.active}]

(* poll_machine after ShellPoll::Pending. *)
Pending(m) ==
  IF m.sched.runnable = << >> THEN m
  ELSE dispatch_available([m EXCEPT !.sched = Sch!yield_current(@)], FALSE)

(* poll_machine after ShellPoll::Blocked. *)
Blocked(m, reason, advance_time) ==
  dispatch_available([m EXCEPT !.sched = Sch!block_current(@, reason)], advance_time)

(* A process that can still receive a host answer: it lives and descends from *)
(* the action through processes that have a record.                           *)
process_belongs_to_action(m, pid) ==
  LET linked[p \in Pids] ==
        p = Root \/ (m.records[p] # NoRecord /\ linked[m.records[p].ppid])
  IN  pid \in Live(m) /\ m.generation[pid] = m.generation[Root] /\ linked[pid]

(* The harness drops the other host requests after every poll. *)
Polled(m) ==
  IF driver = "exec" \/ phase = "cancelling" \/ m.asked = {} THEN m
  ELSE [m EXCEPT !.asked = {p \in @ : process_belongs_to_action(m, p)}]

(* What a poll that leaves the machine in m reports. *)
Progress(m) == /\ machine' = Polled(m)
               /\ result' = IF m.sched.current = NoPid THEN "Blocked" ELSE "Progress"
               /\ UNCHANGED <<phase, restored>>

(* A finished child is progress even when nothing is left to run. *)
Finish(m) == /\ machine' = Polled(finish_child(m))
             /\ result' = "Progress"
             /\ UNCHANGED <<phase, restored>>

(* The action is over: its driver restores the active process's descriptors,  *)
(* and the harness forgets the host requests.  A cancellation polls on.       *)
Complete(m) == /\ machine' = IF driver = "exec" \/ phase = "cancelling" THEN m
                              ELSE [m EXCEPT !.asked = {}]
               /\ result' = "Ready"
               /\ IF phase = "cancelling" THEN UNCHANGED <<phase, restored>>
                  ELSE phase' = "idle" /\ restored' = m.active

Ready(m) == IF m.active = Root THEN Complete(m) ELSE Finish(m)

(* After a frame is popped: an empty stack completes the program. *)
Resume(m) == IF m.frames[m.active] = << >> THEN Ready(m) ELSE Progress(Pending(m))

(* Leave a frame that waited for pid; an exited process is reaped. *)
Collected(m, pid) == Resume(Pop([reap(m, pid) EXCEPT !.jobs[m.active] = @ \ {pid}]))

(* AwaitChild and `wait' look again after every wake and block while the     *)
(* process lives.                                                            *)
AwaitChildStep(m, advance_time) ==
  LET pid == Top(m).pid
  IN  IF pid \in Live(m) THEN Progress(Blocked(m, {Child(pid)}, advance_time))
      ELSE Collected(m, pid)

(* A pipeline reaps its stages in order and blocks on the first that has not  *)
(* exited, also if it has no record.                                          *)
AwaitPipelineStep(m, advance_time) ==
  LET f == Top(m)
      left   == {n \in f.pid..f.last : m.records[n].status # "Exited"}
      pid    == IF left = {} THEN f.last + 1 ELSE CHOOSE n \in left : \A k \in left : n <= k
      reaped == Pop(SX!FoldLeft(reap, m, SX!SetToSortSeq(f.pid..(pid - 1), <)))
  IN  IF left = {} THEN Resume(reaped)
      ELSE Progress(Blocked(Push(reaped, m.active, Await("AwaitPipeline", pid, f.last)),
                            {Child(pid)}, advance_time))

AwaitJobStep(m, advance_time) ==
  LET pid == Top(m).pid
  IN  IF pid \in m.jobs[m.active] /\ pid \in Live(m)
      THEN Progress(Blocked(m, {Child(pid)}, advance_time)) ELSE Collected(m, pid)

(* `fg' also leaves a job that stopped, and takes the terminal back. *)
AwaitForegroundStep(m, advance_time) ==
  LET pid == Top(m).pid
  IN  IF pid \in m.jobs[m.active] /\ m.records[pid].status = "Stopped"
      THEN Resume(Pop([m EXCEPT !.foreground = Root]))
      ELSE AwaitJobStep(m, advance_time)

(* A substitution takes its first wake for the end of its child. *)
AwaitSubstitutionStep(m) == Collected(m, Top(m).pid)

FinishHandlerStep(m) == Resume(Pop([m EXCEPT !.handling = @ \ {m.active}]))

(* A pipeline of two stages; the first is rolled back if the second cannot be *)
(* created.                                                                   *)
spawn_pipeline(m, advance_time) ==
  LET pid == m.next_pid
      one == create_child(m, FALSE, m.records[m.active].group)
      two == create_child(one, FALSE, m.records[m.active].group)
  IN  /\ CanCreate(m)
      /\ IF CanCreate(one)
         THEN Progress(Blocked(Push(two, m.active, Await("AwaitPipeline", pid, pid + 1)),
                               {Child(pid)}, advance_time))
         ELSE Progress(Pending(cancel_unstarted_child(one, pid)))

(* Evaluating a node spawns a subshell, a pipeline or a job, or only breaks    *)
(* the node up into the frames that run it (Run).  Run stands for any number   *)
(* of frames, so the frame limit can be met at every push.                     *)
EvalStep(m, advance_time) ==
  LET p == m.active
      r == Push(Pop(m), p, Run)
  IN  \/ Progress(Pending(r))
      \/ Ready(abort(m))
      \/ /\ "subshell" \in Programs /\ CanCreate(m) /\ Fits(r, 1)
         /\ Progress(Push(create_child(r, TRUE, m.records[p].group), p,
                          Frame("AwaitChild", m.next_pid)))
      \/ "pipeline" \in Programs /\ Fits(r, 1) /\ spawn_pipeline(r, advance_time)
      \/ /\ "job" \in Programs /\ CanCreate(m)
         /\ Progress(Pending([create_child(r, FALSE, m.next_pid)
                              EXCEPT !.jobs[p] = @ \cup {m.next_pid}]))

(* What running a command can do to the machine. *)
Substitute(m) ==
  /\ CanCreate(m)
  /\ Progress(Push(create_child(m, TRUE, m.records[m.active].group), m.active,
                   Frame("AwaitSubstitution", m.next_pid)))

WaitFor(m, job, advance_time) ==
  AwaitJobStep(Push(m, m.active, Frame("AwaitJob", job)), advance_time)

(* `fg': the job's group gets the terminal and is continued if it is stopped. *)
StartFg(m, job, advance_time) ==
  LET t == IF job \in Live(m) THEN [m EXCEPT !.foreground = job] ELSE m
      c == IF m.records[job].status = "Stopped"
           THEN SignalAll(t, live_group(t, job), "Continue") ELSE t
  IN  AwaitForegroundStep(Push(c, m.active, Frame("AwaitForeground", job)), advance_time)

CmdKill(m, pid, signal) == Progress(Pending(send_signal(m, pid, signal)))

CmdTrap(m, signal, disposition) ==
  Progress(Pending([m EXCEPT !.disposition[m.active][signal] = disposition]))

BlockOnIo(m, condition, advance_time) ==
  Progress(Blocked(m, {<<condition, NoPid>>}, advance_time))

(* A request to the host's tools. *)
host_tool_request(m, advance_time) ==
  Progress(Blocked([m EXCEPT !.asked = @ \cup {m.active}], {HostHttp(m.active)}, advance_time))

(* `exec sleep', or a subshell whose last command is `sleep': the process goes *)
(* on as the native image, with its handlers reset and its slot kept.          *)
ExecSleep(m) ==
  Progress([abort(m) EXCEPT
    !.frames[m.active]      = << Frame("Sleep", NoPid) >>,
    !.disposition[m.active] = [s \in Trappable |-> IF @[s] = "handler" THEN "default" ELSE @[s]]])

(* The first poll of a sleep schedules its wake, unless it has no duration;    *)
(* later ones block again until the deadline has passed.                       *)
SleepStep(m, advance_time) ==
  \/ Resume(Pop(m))
  \/ \E t \in Scheduled(m.timers, m.active) :
       Progress(Blocked([m EXCEPT !.timers = t,
                                  !.frames[m.active] = << Frame("Sleeping", NoPid) >>],
                        {Timer(m.active)}, advance_time))

SleepingStep(m, advance_time) ==
  IF m.active \in Armed(m) THEN Progress(Blocked(m, {Timer(m.active)}, advance_time))
  ELSE Resume(Pop(m))

RunStep(m, advance_time) ==
  LET p == m.active
      room == Fits(m, 1)
  IN  \/ Resume(Pop(m))
      \/ Ready(abort(m))
      \/ Progress(Pending(Push(Pop(m), p, Eval)))
      \/ "substitution" \in Programs /\ room /\ Substitute(m)
      \/ /\ room
         /\ \E job \in m.jobs[p] : WaitFor(m, job, advance_time) \/ StartFg(m, job, advance_time)
      \/ \E q \in Live(m), signal \in KillSignals : CmdKill(m, q, signal)
      \/ \E signal \in Trappable, d \in {"default", "ignore", "handler"} : CmdTrap(m, signal, d)
      \/ \E condition \in Externals : BlockOnIo(m, condition, advance_time)
      \/ "ask" \in Programs /\ host_tool_request(m, advance_time)
      \/ "sleep" \in Programs /\ ExecSleep(m)

Quantum(m, advance_time) ==
  LET kind == Top(m).kind
  IN  \/ kind = "Eval" /\ EvalStep(m, advance_time)
      \/ kind = "Run" /\ RunStep(m, advance_time)
      \/ kind = "FinishSignalHandler" /\ FinishHandlerStep(m)
      \/ kind = "AwaitChild" /\ AwaitChildStep(m, advance_time)
      \/ kind = "AwaitPipeline" /\ AwaitPipelineStep(m, advance_time)
      \/ kind = "AwaitSubstitution" /\ AwaitSubstitutionStep(m)
      \/ kind = "AwaitJob" /\ AwaitJobStep(m, advance_time)
      \/ kind = "AwaitForeground" /\ AwaitForegroundStep(m, advance_time)
      \/ kind = "Sleep" /\ SleepStep(m, advance_time)
      \/ kind = "Sleeping" /\ SleepingStep(m, advance_time)

(***************************************************************************)
(* poll_machine with the root as target.                                    *)
(***************************************************************************)
(* A program that is terminated unwinds its frames, a signal handler's too. *)
Terminated(m, pid) ==
  [m EXCEPT !.frames[pid] = << >>,
            !.handling    = IF m.frames[pid] = << >> THEN @ ELSE @ \ {pid}]

(* The target survives its termination with no program and ends the machine. *)
Terminate(m) ==
  IF m.active = Root
  THEN Complete([cancel_task_events(Terminated(m, Root), Root) EXCEPT !.exiting = TRUE])
  ELSE Finish(m)

InjectHandler(m) ==
  [m EXCEPT !.frames[m.active] = @ \o << Frame("FinishSignalHandler", NoPid), Eval >>]

(* What the poll does with the signal it takes, if any. *)
Reaction(m) ==
  LET signal == Delivery(m)
  IN  IF signal \in {"None", "Stop"} THEN signal
      ELSE IF signal = "Kill" \/ Disposition(m, m.active, signal) = "default" THEN "Terminate"
      ELSE "Handler"

(* The machine once the signal is taken; a handler is marked as running. *)
Delivered(d) ==
  IF Reaction(d) # "Handler" THEN take_signal_delivery(d)
  ELSE [take_signal_delivery(d) EXCEPT !.handling = @ \cup {d.active}]

PollTerminate(d) == /\ Reaction(d) = "Terminate"
                    /\ Terminate(Delivered(d))
                    /\ UNCHANGED intruded

(* A process that stops itself does not let the clock jump, whatever the      *)
(* caller asked for.                                                          *)
PollStop(d, due) ==
  /\ Reaction(d) = "Stop"
  /\ Progress(dispatch_available(
                handle_ready_events(stop_process(Delivered(d), d.active), due), FALSE))
  /\ UNCHANGED intruded

(* "active process has no program": the poll fails. *)
PollNoProgram(d, due) ==
  /\ Reaction(d) \in {"None", "Handler"}
  /\ d.frames[d.active] = << >>
  /\ machine' = handle_ready_events(Delivered(d), IF Reaction(d) = "None" THEN due ELSE 0)
  /\ result' = "Error"
  /\ UNCHANGED <<phase, restored, intruded>>

(* A handler for which there is no room aborts the program; as Run stands for  *)
(* any number of frames, that can happen to every handler.                     *)
PollQuantum(d, advance_time, due) ==
  LET m == handle_ready_events(Delivered(d), due)
  IN  /\ d.frames[d.active] # << >>
      /\ \/ /\ Reaction(d) = "None" \/ (Reaction(d) = "Handler" /\ Fits(m, 2))
            /\ Quantum(IF Reaction(d) = "None" THEN m ELSE InjectHandler(m), advance_time)
         \/ Reaction(d) = "Handler" /\ Ready(abort(m))
      /\ intruded' = (intruded \/ (phase = "cancelling" /\ d.active \in victims))

(* The machine after dispatch, before signals: what every poll starts from. *)
Dispatched(m, advance_time, due) ==
  IF m.sched.current # NoPid THEN m
  ELSE dispatch_available(handle_ready_events(m, due), advance_time)

PollDispatched(d, advance_time, due) ==
  \/ d.sched.current = NoPid /\ Progress(d) /\ UNCHANGED intruded
  \/ /\ d.sched.current # NoPid
     /\ \/ PollTerminate(d) \/ PollStop(d, due) \/ PollNoProgram(d, due)
        \/ PollQuantum(d, advance_time, due)

(* `due' batches of timers have come due on the host's clock; they are handled *)
(* by the first dispatch or, if a process is running, when its signal is taken. *)
poll_machine(m, advance_time, due) ==
  PollDispatched(Dispatched(m, advance_time, due), advance_time,
                 IF m.sched.current = NoPid THEN 0 ELSE due)

Elapsed == 0..(IF clock = "real" THEN Len(machine.timers) ELSE 0)

(***************************************************************************)
(* The host: HarnessSession operations on a machine, one call at a time.     *)
(***************************************************************************)
Init == /\ driver \in Drivers /\ clock \in Clocks
        /\ machine = new
        /\ phase = "idle"
        /\ result = "Ready"
        /\ victims = {} /\ budget = 0
        /\ restored = Root
        /\ intruded = FALSE

(* ShellExecution::start: the active shell gets a program and, if others are *)
(* runnable, queues behind them.                                             *)
Start ==
  LET p == machine.active
      m == [machine EXCEPT !.actions       = @ + 1,
                           !.generation[p] = machine.actions + 1,
                           !.frames[p]     = << Eval >>]
  IN  /\ phase = "idle" /\ ~machine.exiting
      /\ machine.actions < MAX_ACTIONS
      /\ p \in machine.contexts
      /\ machine.frames[p] = << >>
      /\ machine' = Pending(m)
      /\ phase' = "action"
      /\ result' = "Progress"
      /\ UNCHANGED <<victims, budget, restored, intruded>>

(* A real-time machine with a deadline is worth waiting for. *)
host_wait_until == clock = "real" /\ machine.timers # << >>

(* exec() polls until the action is over, blocks without a deadline or fails,  *)
(* and always lets time advance; the harness does as its caller says.          *)
Poll == /\ phase = "action"
        /\ driver = "exec" => result = "Progress" \/ (result = "Blocked" /\ host_wait_until)
        /\ \E advance_time \in {TRUE} \cup (IF driver = "exec" THEN {} ELSE BOOLEAN),
              due \in Elapsed : poll_machine(machine, advance_time, due)
        /\ UNCHANGED <<victims, budget>>

(* A call of the harness between two polls. *)
Host(m) == /\ driver = "harness" /\ phase # "cancelling"
           /\ machine' = m
           /\ UNCHANGED <<phase, result, victims, budget, restored, intruded>>

SignalProcess(p, signal) == p \in Live(machine) /\ Host(send_signal(machine, p, signal))

(* Signalling a group of one is SignalProcess. *)
SignalGroup(group, signal) ==
  /\ Cardinality(live_group(machine, group)) > 1
  /\ Host(SignalAll(machine, live_group(machine, group), signal))

set_foreground(group) ==
  /\ live_group(machine, group) # {}
  /\ Host([machine EXCEPT !.foreground = group])

complete_host_request(p) ==
  /\ p \in machine.asked
  /\ Host([machine EXCEPT !.asked = @ \ {p}, !.sched = Sch!wake_matching(@, {HostHttp(p)})])

(* Input arrives or a lock is released.  exec() has no host: only a machine   *)
(* that still runs makes events.                                              *)
Event(condition) ==
  /\ driver = "exec" => phase = "action" /\ result = "Progress"
  /\ phase # "cancelling"
  /\ machine' = [machine EXCEPT !.sched = Sch!wake_matching(@, {<<condition, NoPid>>})]
  /\ UNCHANGED <<phase, result, victims, budget, restored, intruded>>

(* Mutant: cancelling kills every process of the machine. *)
MutMembers == machine.contexts \ {Root}

(* The other processes of the action that runs. *)
Members == {p \in machine.contexts : machine.generation[p] = machine.generation[Root]} \ {Root}

(* ShellExecution::cancel: the shell is parked in the scheduler only, and the *)
(* other members of the action are killed.  close_stdin wakes input readers   *)
(* unless the input was closed already.                                       *)
CancelStart(close, quanta) ==
  LET s == IF close THEN Sch!wake_matching(machine.sched, {<<"Input", NoPid>>}) ELSE machine.sched
  IN  /\ phase = "action"
      /\ victims' = Members
      /\ budget' = quanta
      /\ machine' = SignalAll([machine EXCEPT !.sched = Sch!stop(s, Root)], Members, "Kill")
      /\ phase' = "cancelling"
      /\ result' = "Progress"
      /\ UNCHANGED <<restored, intruded>>

(* Only victims are dispatched while they are being killed. *)
Displaced == IF machine.sched.current \in victims \cup {NoPid} THEN machine
             ELSE [machine EXCEPT !.sched = Sch!yield_current(@)]

Runnable == {p \in victims : machine.sched.states[p].tag = "Runnable"}

(* The victim that runs, or else the lowest runnable one, dispatched. *)
Victim(m) ==
  IF m.sched.current # NoPid THEN m
  ELSE LET pid == CHOOSE p \in Runnable : \A q \in Runnable : p <= q
       IN  [m EXCEPT !.sched = Sch!dispatch_pid(@, pid), !.active = pid]

CancelQuantum ==
  /\ phase = "cancelling" /\ result \in {"Progress", "Ready"}
  /\ budget > 0 /\ victims \cap Live(machine) # {}
  /\ Displaced.sched.current # NoPid \/ Runnable # {}
  /\ \E due \in Elapsed : poll_machine(Victim(Displaced), FALSE, due)
  /\ budget' = budget - 1
  /\ UNCHANGED victims

Shelved == IF machine.sched.current = NoPid THEN machine
           ELSE [machine EXCEPT !.sched = Sch!yield_current(@)]

(* The calls that resume the shell all succeed: its task can be continued and  *)
(* woken, the slot is free, and it has a context.                              *)
Resumable(m) == /\ m.sched.states[Root].tag \notin {"Absent", "Exited", "Running"}
                /\ m.sched.current = NoPid
                /\ Root \in m.contexts

(* Mutant: the wake event of a shell that sleeps stays pending. *)
MutUnwound(m) ==
  [Terminated(m, Root) EXCEPT
     !.sched   = Sch!dispatch_pid(Sch!wake(Sch!continue_task(@, Root), Root), Root),
     !.records[Root].status = IF @ = "Stopped" THEN "Running" ELSE @,
     !.active  = Root,
     !.asked   = {},
     !.exiting = FALSE]

(* The shell is resumed and its program unwound. *)
Unwound(m) ==
  LET s == Sch!dispatch_pid(Sch!wake(Sch!continue_task(m.sched, Root), Root), Root)
      t == cancel_task_events(Terminated(m, Root), Root)
  IN  [t EXCEPT !.sched   = s,
                !.records[Root].status = IF @ = "Stopped" THEN "Running" ELSE @,
                !.active  = Root,
                !.asked   = {},
                !.exiting = FALSE]

(* The shell is restored whether or not the victims are gone, and an error of  *)
(* either part is reported.                                                    *)
CancelLeaves(reaped, m) ==
  /\ machine' = IF Resumable(m) THEN Unwound(m) ELSE m
  /\ IF reaped /\ Resumable(m)
     THEN phase' = "idle" /\ result' = "Ready" /\ restored' = Root
     ELSE phase' = "action" /\ result' = "Error" /\ UNCHANGED restored
  /\ victims' = {} /\ budget' = 0
  /\ UNCHANGED intruded

CancelEnd ==
  /\ phase = "cancelling" /\ result \in {"Progress", "Ready"}
  /\ budget > 0 /\ victims \cap Live(machine) = {}
  /\ CancelLeaves(TRUE, Shelved)

(* "no runnable cancellation victim", "descendants blocked" and "cancellation  *)
(* exceeded its work bound": the last poll is not looked at again.             *)
CancelFail ==
  /\ phase = "cancelling"
  /\ \/ result \in {"Blocked", "Error"}
     \/ budget = 0
     \/ /\ victims \cap Live(machine) # {}
        /\ Displaced.sched.current = NoPid /\ Runnable = {}
  /\ CancelLeaves(FALSE, Shelved)

(* exec() gives up a machine that fails or blocks without an event, and      *)
(* restores the descriptors.                                                 *)
GiveUp ==
  /\ driver = "exec" /\ phase = "action"
  /\ result = "Error" \/ (result = "Blocked" /\ ~host_wait_until)
  /\ phase' = "idle"
  /\ restored' = machine.active
  /\ UNCHANGED <<machine, result, victims, budget, intruded>>

HostCall ==
  \/ \E p \in Pids, signal \in HostSignals : SignalProcess(p, signal) \/ SignalGroup(p, signal)
  \/ \E p \in Pids : set_foreground(p) \/ complete_host_request(p)

CancelStep == CancelQuantum \/ CancelEnd \/ CancelFail

Next == /\ \/ Start \/ Poll \/ HostCall \/ GiveUp
           \/ \E condition \in Externals : Event(condition)
           \/ \E close \in BOOLEAN, quanta \in CancelBudgets : CancelStart(close, quanta)
           \/ CancelStep
        /\ UNCHANGED <<driver, clock>>

Spec == Init /\ [][Next]_vars

(***************************************************************************)
(* Properties.                                                              *)
(***************************************************************************)
(* Every field has its type. *)
TypeOK == /\ machine \in Machines
          /\ phase \in {"idle", "action", "cancelling"}
          /\ result \in {"Progress", "Blocked", "Ready", "Error"}
          /\ victims \subseteq Pids /\ budget \in Nat
          /\ restored \in Pids /\ intruded \in BOOLEAN

(* The three tables kept apart in the code agree on every process: a context  *)
(* is retained as long as the record is live and the task can run again, and  *)
(* a record says stopped when the task is, the parked shell of a cancellation *)
(* apart.                                                                     *)
TablesAgree ==
  \A p \in Pids :
    LET tag     == machine.sched.states[p].tag
        status  == machine.records[p].status
        stopped == tag \in {"StoppedRunnable", "StoppedBlocked"}
    IN  /\ p \in machine.contexts <=> p \in Live(machine)
        /\ tag = "Absent" <=> status = "None"
        /\ tag = "Exited" <=> status = "Exited"
        /\ status = "Stopped" => stopped
        /\ stopped => status = "Stopped" \/ (p = Root /\ phase = "cancelling")

(* The process that owns the running slot is the active one and has a         *)
(* context, and after a completed or cancelled action it is the root, ready   *)
(* to take a program: what start_node and Deref of ProcessStates expect.      *)
ActiveIsCurrent ==
  /\ machine.sched.current # NoPid =>
       machine.active = machine.sched.current /\ machine.active \in machine.contexts
  /\ phase = "idle" /\ result = "Ready" =>
       machine.sched.current = Root /\ machine.frames[Root] = << >>

(* The terminal belongs to the session leader or to a group with a live       *)
(* member: a signal from the keyboard always has a receiver.                  *)
ForegroundLive ==
  machine.foreground = Root \/ live_group(machine, machine.foreground) # {}

(* No process sleeps on a child that is gone: finish_child's wake and the     *)
(* re-check of every awaiting frame leave no lost wakeup.                     *)
NoLostChildWake ==
  \A p, c \in Pids :
    Child(c) \in machine.sched.states[p].reason => c \in Live(machine)

(* Outside a signal handler no process sleeps with a signal pending that     *)
(* must interrupt it, however sends, stops and continues interleave.         *)
NoSleptSignal ==
  \A p \in Pids \ machine.handling, s \in Signals :
    machine.sched.states[p].tag = "Blocked" /\ s \in machine.pending[p]
      => ~interrupts(machine, p, s)

(* A cancellation kills its victims before any of them runs a program step.   *)
KillBeforeUserCode == ~intruded

(* The process the host dereferences between two calls is retained: the       *)
(* expect of ProcessStates::current holds.                                    *)
ActiveRetained == phase # "cancelling" => machine.active \in machine.contexts

(* The descriptor table an action restores is the root's.                     *)
RestoresOwnTarget == restored = Root

(* A background job of an earlier action outlives a cancellation: cancelling  *)
(* ends only processes of the action it cancels.                              *)
OlderJobsSurvive ==
  [][phase = "cancelling" =>
       \A p \in Live(machine) \ Live(machine') :
         machine.generation[p] = machine.generation[Root]]_vars

(* Every cancellation restores the shell, also one that fails: its steps that  *)
(* resume the task cannot fail, and the shell is left running, its context     *)
(* active, without a program, an event or a host request of the old action.    *)
CancelRestoresShell ==
  [][phase = "cancelling" /\ phase' # "cancelling" =>
       /\ machine'.active = Root /\ machine'.sched.current = Root
       /\ machine'.records[Root].status = "Running"
       /\ machine'.frames[Root] = << >>
       /\ Root \notin Armed(machine') /\ machine'.asked = {}]_vars

(* A pending kill is withdrawn only by the end of its process or, for the root, *)
(* of the machine; so the victims that survive a failed cancellation are still  *)
(* killed when a later action schedules them.                                   *)
KillsAreKept ==
  [][/\ \A p \in Live(machine') :
          "Kill" \in machine.pending[p] /\ "Kill" \notin machine'.pending[p] =>
            p = Root /\ machine'.exiting
     /\ phase = "cancelling" /\ phase' = "action" =>
          \A p \in victims \cap Live(machine') : "Kill" \in machine'.pending[p]]_vars

(* A sleeper has its wake event pending, also while it is stopped, and only    *)
(* live processes have events.                                                 *)
SleepersHaveTimers ==
  /\ \A p \in Pids : Timer(p) \in machine.sched.states[p].reason => p \in Armed(machine)
  /\ Armed(machine) \subseteq Live(machine)

(* When the last running member of the terminal's group stops or ends, the      *)
(* terminal goes back to the session leader.                                    *)
TerminalReturns ==
  [][\A g \in Pids \ {Root} :
       /\ machine.foreground = g /\ running_group(machine, g) # {}
       /\ running_group(machine', g) = {}
       => machine'.foreground # g]_vars

(* exec() reports that all processes are blocked without an event only when no  *)
(* event is pending.                                                            *)
BlockedWithoutEvent ==
  driver = "exec" /\ phase = "idle" /\ result = "Blocked" => machine.timers = << >>
=============================================================================
