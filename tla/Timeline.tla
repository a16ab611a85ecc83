------------------------------ MODULE Timeline ------------------------------
(***************************************************************************)
(* The virtual timeline of src/src/clock.rs: monotonic time, the pending    *)
(* events ordered by (deadline, insertion sequence) and the queue of events *)
(* that fired and wait for the machine to handle them.                      *)
(*                                                                         *)
(* As in module Scheduler the methods take and return the whole timeline.   *)
(* MAX_NS and MAX_SEQUENCE are the u64::MAX of the two counters, so the     *)
(* overflow errors of checked_add are reached on small instances.  The      *)
(* telemetry field slept_ns is left out.                                    *)
(***************************************************************************)
EXTENDS Integers, Sequences, FiniteSets, Queues

CONSTANTS
  TaskIds,            \* logical tasks that own events
  NoTask,             \* owner of an External event
  MAX_NS,             \* u64::MAX for monotonic_ns
  MAX_SEQUENCE,       \* u64::MAX for next_sequence
  MAX_PENDING_EVENTS, \* limits.max_pending_events
  HORIZON,            \* limits.max_event_horizon_ns
  EPOCH,              \* epoch_utc_ns
  MAX_WALL            \* i128::MAX for wall time

ASSUME TimelineAssumption ==
  /\ NoTask \notin TaskIds
  /\ MAX_NS \in Nat /\ MAX_SEQUENCE \in Nat
  /\ MAX_PENDING_EVENTS \in Nat /\ HORIZON \in Nat
  /\ EPOCH \in Int /\ MAX_WALL \in Nat

Times == 0..MAX_NS

(* EventKind with its owner.  The signal of SignalTask and the payload of    *)
(* External are carried along unread by every method of the timeline.        *)
EventKinds == ({"WakeTask", "Deadline", "SignalTask"} \X TaskIds)
                \cup {<<"External", NoTask>>}

Event(deadline, sequence, kind) ==
  [deadline |-> deadline, sequence |-> sequence, kind |-> kind]

Events == [deadline : Times, sequence : 0..MAX_SEQUENCE, kind : EventKinds]

(* The derived order of EventId. *)
Before(e, f) == \/ e.deadline < f.deadline
                \/ e.deadline = f.deadline /\ e.sequence < f.sequence

VARIABLES
  timeline,
  idle,     \* the driver is about to move the clock
  last,     \* history: the event pop_ready returned last
  settled   \* history: events handed out or cancelled

vars == <<timeline, idle, last, settled>>

Timelines == [now : Times, wall_adjustment : (-MAX_WALL)..MAX_WALL,
              next_sequence : 0..MAX_SEQUENCE,
              pending : SUBSET Events, ready : Seq(Events)]

(***************************************************************************)
(* The methods.                                                             *)
(***************************************************************************)
new == [now |-> 0, wall_adjustment |-> 0, next_sequence |-> 0,
        pending |-> {}, ready |-> << >>]

InWallRange(x) == -MAX_WALL <= x /\ x <= MAX_WALL

CanAdjustWall(t, delta) ==
  LET adjustment == t.wall_adjustment + delta
  IN  /\ InWallRange(adjustment)
      /\ InWallRange(EPOCH + t.now)
      /\ InWallRange(EPOCH + t.now + adjustment)

adjust_wall_time(t, delta) == [t EXCEPT !.wall_adjustment = @ + delta]

(* Mutant: the limit counts pending events but not fired ones. *)
MutLimitIgnoresReady(t, deadline) ==
  /\ t.now <= deadline
  /\ Cardinality(t.pending) < MAX_PENDING_EVENTS
  /\ deadline - t.now <= HORIZON
  /\ t.next_sequence < MAX_SEQUENCE

(* Mutant: an event may be scheduled in the past. *)
MutScheduleInPast(t, deadline) ==
  /\ Cardinality(t.pending) + Len(t.ready) < MAX_PENDING_EVENTS
  /\ deadline - t.now <= HORIZON
  /\ t.next_sequence < MAX_SEQUENCE

CanSchedule(t, deadline) ==
  /\ t.now <= deadline
  /\ Cardinality(t.pending) + Len(t.ready) < MAX_PENDING_EVENTS
  /\ deadline - t.now <= HORIZON
  /\ t.next_sequence < MAX_SEQUENCE

schedule_at(t, deadline, kind) ==
  [t EXCEPT !.next_sequence = @ + 1,
            !.pending       = @ \cup {Event(deadline, t.next_sequence, kind)}]

cancel(t, event) == [t EXCEPT !.pending = @ \ {event}]

(* Mutant: events of the task that already fired stay queued. *)
MutCancelPendingOnly(t, task) ==
  [t EXCEPT !.pending = {e \in @ : e.kind[2] # task}]

cancel_task_events(t, task) ==
  [t EXCEPT !.pending = {e \in @ : e.kind[2] # task},
            !.ready   = Retain(@, {e \in Elems(@) : e.kind[2] # task})]

(* Mutant: a batch fires in the order of insertion. *)
MutInsertionOrder(S) ==
  CHOOSE q \in [1..Cardinality(S) -> S] :
    \A i, j \in DOMAIN q : i < j => q[i].sequence < q[j].sequence

(* The events of S in the iteration order of the BTreeMap. *)
InOrder(S) ==
  CHOOSE q \in [1..Cardinality(S) -> S] :
    \A i, j \in DOMAIN q : i < j => Before(q[i], q[j])

Due(t, target) == {e \in t.pending : e.deadline <= target}

advance_to(t, target) ==
  [t EXCEPT !.now     = target,
            !.pending = @ \ Due(t, target),
            !.ready   = @ \o InOrder(Due(t, target))]

next_deadline_ns(t) == (CHOOSE e \in t.pending : \A f \in t.pending : e = f \/ Before(e, f)).deadline

(* Mutant: the last pending event is taken for none. *)
MutAdvanceToNext(t) ==
  IF Cardinality(t.pending) <= 1 THEN t ELSE advance_to(t, next_deadline_ns(t))

advance_to_next(t) ==
  IF t.pending = {} THEN t ELSE advance_to(t, next_deadline_ns(t))

pop_ready(t) == [t EXCEPT !.ready = Tail(@)]

remove_ready(t, event) == [t EXCEPT !.ready = Retain(@, Elems(@) \ {event})]

(***************************************************************************)
(* block_task schedules its own wake and advances batch by batch until a     *)
(* batch holds that wake or a Deadline of the task.  Later batches are never *)
(* reached, so the loop fires exactly what is due at the first such instant. *)
(***************************************************************************)
Enders(t, task, wakeup) == {wakeup} \cup {e \in t.pending : e.kind = <<"Deadline", task>>}

Ender(t, task, wakeup) ==
  CHOOSE e \in Enders(t, task, wakeup) :
    \A f \in Enders(t, task, wakeup) : e = f \/ Before(e, f)

BlockedTimeline(t, task, duration) ==
  schedule_at(t, t.now + duration, <<"WakeTask", task>>)

BlockWake(t, task, duration) ==
  Event(t.now + duration, t.next_sequence, <<"WakeTask", task>>)

block_task(t, task, duration) ==
  LET wakeup == BlockWake(t, task, duration)
      begun  == BlockedTimeline(t, task, duration)
      ender  == Ender(begun, task, wakeup)
      fired  == advance_to(begun, ender.deadline)
  IN  remove_ready(remove_ready(cancel(fired, wakeup), wakeup), ender)

(***************************************************************************)
(* The timeline under arbitrary calls of programs and hosts, and under its   *)
(* driver, dispatch_available.  A call of it pops every fired event          *)
(* (handle_ready_events).  It moves the clock only if then no task is        *)
(* runnable, the caller asked for it (advance_time), the clock does not      *)
(* follow physical time and no host request is unanswered.  Those conditions *)
(* belong to the machine: Idle says that a call found all of them true, and  *)
(* nothing else runs before that call moves the clock.  A busy machine, or a *)
(* host that polls with advance_time = false, never takes Idle.              *)
(***************************************************************************)
Init == timeline = new /\ idle = FALSE /\ last = << >> /\ settled = {}

(* A step of a program, of the host or of handle_ready_events. *)
Busy == ~idle /\ UNCHANGED idle

Keeps == Busy /\ UNCHANGED <<last, settled>>

AdjustWallTime(delta) == /\ CanAdjustWall(timeline, delta)
                         /\ timeline' = adjust_wall_time(timeline, delta)
                         /\ Keeps

ScheduleAt(deadline, kind) == /\ CanSchedule(timeline, deadline)
                              /\ timeline' = schedule_at(timeline, deadline, kind)
                              /\ Keeps

Cancel(event) == /\ event \in timeline.pending
                 /\ timeline' = cancel(timeline, event)
                 /\ settled' = settled \cup {event}
                 /\ Busy /\ UNCHANGED last

Owned(t, task) == {e \in t.pending \cup Elems(t.ready) : e.kind[2] = task}

CancelTaskEvents(task) == /\ timeline' = cancel_task_events(timeline, task)
                          /\ settled' = settled \cup Owned(timeline, task)
                          /\ Busy /\ UNCHANGED last

AdvanceTo(target) == /\ timeline.now <= target
                     /\ timeline' = advance_to(timeline, target)
                     /\ Keeps

PopReady == /\ timeline.ready # << >>
            /\ timeline' = pop_ready(timeline)
            /\ last' = <<Head(timeline.ready)>>
            /\ settled' = settled \cup {Head(timeline.ready)}
            /\ Busy

BlockTask(task, duration) ==
  LET wakeup == BlockWake(timeline, task, duration)
      begun  == BlockedTimeline(timeline, task, duration)
  IN  /\ timeline.now + duration <= MAX_NS
      /\ CanSchedule(timeline, timeline.now + duration)
      /\ timeline' = block_task(timeline, task, duration)
      /\ settled' = settled \cup {wakeup, Ender(begun, task, wakeup)}
      /\ Busy /\ UNCHANGED last

Idle == /\ ~idle /\ timeline.ready = << >>
        /\ idle' = TRUE
        /\ UNCHANGED <<timeline, last, settled>>

AdvanceToNext == /\ idle
                 /\ timeline' = advance_to_next(timeline)
                 /\ idle' = FALSE
                 /\ UNCHANGED <<last, settled>>

Next ==
  \/ \E delta \in {-1, 1} : AdjustWallTime(delta)
  \/ \E deadline \in Times, kind \in EventKinds : ScheduleAt(deadline, kind)
  \/ \E event \in timeline.pending : Cancel(event)
  \/ \E task \in TaskIds : CancelTaskEvents(task)
  \/ \E target \in Times : AdvanceTo(target)
  \/ PopReady
  \/ \E task \in TaskIds, duration \in Times : BlockTask(task, duration)
  \/ Idle
  \/ AdvanceToNext

Spec == Init /\ [][Next]_vars

(* The call of dispatch_available that found the machine idle goes on to     *)
(* advance_to_next.  That calls find it idle is not assumed here.            *)
FairSpec == Spec /\ WF_vars(AdvanceToNext)

(***************************************************************************)
(* Properties.                                                              *)
(***************************************************************************)

(* The timeline's fields keep their types through every method, and          *)
(* max_pending_events bounds pending and fired events together.              *)
TypeOK == /\ timeline \in Timelines
          /\ Cardinality(timeline.pending) + Len(timeline.ready) <= MAX_PENDING_EVENTS
          /\ idle \in BOOLEAN
          /\ last \in {<< >>} \cup {<<e>> : e \in Events}
          /\ settled \subseteq Events

(* What has fired so far: the event handed out last, then the ready queue. *)
Fired == last \o timeline.ready

(* Time never passes an event by and never fires one early: a pending event  *)
(* lies at or after the present, a fired one at or before it, whatever mix   *)
(* of advance_to, advance_to_next and block_task moved the clock.            *)
NeverEarlyNeverMissed ==
  /\ \A e \in timeline.pending : timeline.now <= e.deadline
  /\ \A e \in Elems(Fired) : e.deadline <= timeline.now

(* Events reach the machine in strictly increasing (deadline, sequence)      *)
(* order over the whole run, across batches, cancellations and events        *)
(* scheduled for the present instant: the queue continues in that order from *)
(* the event handed out last, and every fired event precedes every pending   *)
(* one.  A replayed run therefore handles its events alike.                  *)
FiringOrder ==
  /\ \A i, j \in DOMAIN Fired : i < j => Before(Fired[i], Fired[j])
  /\ \A e \in Elems(Fired), f \in timeline.pending : Before(e, f)

(* An event that was handed out, cancelled, or consumed by block_task is     *)
(* neither pending nor queued again: process exit relies on it when it       *)
(* cancels the events of the pid.                                            *)
NoResurrection == settled \cap (timeline.pending \cup Elems(timeline.ready)) = {}

(* The events of S by their unique sequence number. *)
Numbers(S) == {e.sequence : e \in S}

(* If the machine is idle again and again when its driver may move the       *)
(* clock, every scheduled event is eventually handed out or cancelled: the   *)
(* drain-then-advance loop of dispatch_available passes no event by and      *)
(* never takes a pending event for none.                                     *)
EventsSettle ==
  ([]<>idle) =>
    \A n \in 0..MAX_SEQUENCE : n \in Numbers(timeline.pending) ~> n \in Numbers(settled)
=============================================================================
