-------------------------- MODULE SchedulerProofs --------------------------
(***************************************************************************)
(* Every scheduler method keeps the queues consistent with the task states, *)
(* keeps queue order and keeps pending waits, for any number of tasks and   *)
(* any set of wait conditions.                                              *)
(***************************************************************************)
EXTENDS Scheduler, QueueLemmas

(* A well-typed scheduler whose queues agree with its states.                *)
Good(s) == s \in Schedulers /\ Consistent(s)

(* A method called on s may leave the scheduler as t.                        *)
GoodStep(s, t) == Good(t) /\ OrderKept(s, t) /\ WaitsKept(s, t)

(***************************************************************************)
(* What a method may do to a queue: add or remove at most one task, or      *)
(* leave it as it is.                                                       *)
(***************************************************************************)
Enqueues(q, r, e) == /\ r \in Seq(Pids) /\ NoRepeat(r) /\ QueueOrderKept(q, r)
                     /\ Elems(r) = Elems(q) \cup {e}

Dequeues(q, r, e) == /\ r \in Seq(Pids) /\ NoRepeat(r) /\ QueueOrderKept(q, r)
                     /\ Elems(r) = Elems(q) \ {e}

(* push_back of a task that is not queued.                                   *)
LEMMA AppendEnqueues ==
  ASSUME NEW q \in Seq(Pids), NEW e \in Pids, NoRepeat(q), e \notin Elems(q)
  PROVE  Enqueues(q, Append(q, e), e)
<1>1. QueueOrderKept(q, Append(q, e))
  <2> SUFFICES ASSUME NEW a \in Elems(Append(q, e)), NEW b \in Elems(Append(q, e)),
                      \/ Precedes(q, a, b)
                      \/ a \in Elems(q) /\ b \notin Elems(q)
               PROVE  Precedes(Append(q, e), a, b)
    BY DEF QueueOrderKept
  <2> QED BY AppendFacts
<1> QED BY <1>1, AppendFacts DEF Enqueues

(* retain with everything but one task.                                      *)
LEMMA WithoutDequeues ==
  ASSUME NEW q \in Seq(Pids), NEW e \in Pids, NoRepeat(q)
  PROVE  Dequeues(q, Without(q, e), e)
<1>1. QueueOrderKept(q, Without(q, e))
  BY WithoutFacts DEF QueueOrderKept
<1> QED BY <1>1, WithoutFacts DEF Dequeues

(* pop_front.                                                                *)
LEMMA TailDequeues ==
  ASSUME NEW q \in Seq(Pids), q # << >>, NoRepeat(q)
  PROVE  Dequeues(q, Tail(q), Head(q))
<1>1. QueueOrderKept(q, Tail(q))
  <2> SUFFICES ASSUME NEW a \in Elems(Tail(q)), NEW b \in Elems(Tail(q)),
                      \/ Precedes(q, a, b)
                      \/ a \in Elems(q) /\ b \notin Elems(q)
               PROVE  Precedes(Tail(q), a, b)
    BY DEF QueueOrderKept
  <2> QED BY TailFacts
<1> QED BY <1>1, TailFacts DEF Dequeues

(* A queue nobody touches: it gains a task it has, or loses one it lacks.    *)
LEMMA SameQueue ==
  ASSUME NEW q \in Seq(Pids), NoRepeat(q), NEW e
  PROVE  /\ e \in Elems(q) => Enqueues(q, q, e)
         /\ e \notin Elems(q) => Dequeues(q, q, e)
  BY DEF QueueOrderKept, Enqueues, Dequeues

(* A scheduler is the record of its four fields.                             *)
LEMMA Fields ==
  ASSUME NEW s \in Schedulers
  PROVE  /\ s = [states |-> s.states, runnable |-> s.runnable,
                 blocked |-> s.blocked, current |-> s.current]
         /\ s.states \in [Pids -> TaskState]
         /\ s.runnable \in Seq(Pids) /\ s.blocked \in Seq(Pids)
         /\ s.current \in Pids \cup {NoPid}
  BY DEF Schedulers

(* Task states built by the methods are task states.                         *)
LEMMA TaskType ==
  /\ \A tag \in Tags : Task(tag) \in TaskState
  /\ \A tag \in Tags, r \in SUBSET WaitAtoms : Waiting(tag, r) \in TaskState
  /\ \A tag : Task(tag).tag = tag /\ Task(tag).reason = {}
  /\ \A tag, r : Waiting(tag, r).tag = tag /\ Waiting(tag, r).reason = r
  BY DEF Task, Waiting, TaskState

(* The facts about a good scheduler that the method lemmas start from.       *)
LEMMA GoodFacts ==
  ASSUME NEW s, Good(s)
  PROVE  /\ s.states \in [Pids -> TaskState]
         /\ s.runnable \in Seq(Pids) /\ s.blocked \in Seq(Pids)
         /\ NoRepeat(s.runnable) /\ NoRepeat(s.blocked)
         /\ s.current \in Pids \cup {NoPid}
         /\ \A p \in Pids :
              /\ s.states[p] \in TaskState
              /\ p \in Elems(s.runnable) <=> s.states[p].tag = "Runnable"
              /\ p \in Elems(s.blocked) <=> s.states[p].tag \in {"Blocked", "StoppedBlocked"}
              /\ p = s.current <=> s.states[p].tag = "Running"
  BY Fields, SchedulerAssumption DEF Good, Consistent, Tagged

(* A method that moves a single task from one state to another, and in and   *)
(* out of the queues accordingly, keeps the scheduler good.                  *)
LEMMA OneTask ==
  ASSUME NEW s, Good(s), NEW t \in Schedulers, NEW pid \in Pids, NEW st \in TaskState,
         t.states = [s.states EXCEPT ![pid] = st],
         IF st.tag = "Runnable" THEN Enqueues(s.runnable, t.runnable, pid)
                                ELSE Dequeues(s.runnable, t.runnable, pid),
         IF st.tag \in {"Blocked", "StoppedBlocked"}
         THEN Enqueues(s.blocked, t.blocked, pid)
         ELSE Dequeues(s.blocked, t.blocked, pid),
         IF st.tag = "Running" THEN t.current = pid /\ s.current = NoPid
         ELSE t.current = (IF s.current = pid THEN NoPid ELSE s.current),
         WaitKept(s.states[pid], st)
  PROVE  GoodStep(s, t)
<1> USE SchedulerAssumption, GoodFacts
<1>1. \A p \in Pids : t.states[p] = IF p = pid THEN st ELSE s.states[p]
  OBVIOUS
<1>2. Elems(t.runnable) = Tagged(t, {"Runnable"})
  <2>1. Elems(s.runnable) = Tagged(s, {"Runnable"})
    BY DEF Good, Consistent
  <2> QED BY <1>1, <2>1 DEF Enqueues, Dequeues, Tagged
<1>3. Elems(t.blocked) = Tagged(t, {"Blocked", "StoppedBlocked"})
  <2>1. Elems(s.blocked) = Tagged(s, {"Blocked", "StoppedBlocked"})
    BY DEF Good, Consistent
  <2> QED BY <1>1, <2>1 DEF Enqueues, Dequeues, Tagged
<1>4. Tagged(t, {"Running"}) = {t.current} \ {NoPid}
  BY <1>1 DEF Tagged
<1>5. NoRepeat(t.runnable) /\ NoRepeat(t.blocked) /\ OrderKept(s, t)
  BY DEF Enqueues, Dequeues, OrderKept
<1>6. WaitsKept(s, t)
  BY <1>1 DEF WaitsKept, WaitKept
<1> QED BY <1>2, <1>3, <1>4, <1>5, <1>6 DEF GoodStep, Good, Consistent

(* A call that returns an error, or changes nothing.                         *)
LEMMA NoChange ==
  ASSUME NEW s, Good(s)
  PROVE  GoodStep(s, s)
  BY DEF GoodStep, OrderKept, QueueOrderKept, WaitsKept, WaitKept

(* spawn queues a new task behind the others.                                *)
LEMMA SpawnGood ==
  ASSUME NEW s, Good(s), NEW pid \in Pids, s.states[pid].tag = "Absent"
  PROVE  GoodStep(s, spawn(s, pid))
<1> DEFINE t == spawn(s, pid)
           st == Task("Runnable")
<1>1. st \in TaskState /\ st.tag = "Runnable"
  BY TaskType DEF Tags
<1>2. /\ Enqueues(s.runnable, Append(s.runnable, pid), pid)
      /\ Dequeues(s.blocked, s.blocked, pid)
      /\ s.current # pid
  BY GoodFacts, AppendEnqueues, SameQueue
<1>3. /\ t \in Schedulers
      /\ t.states = [s.states EXCEPT ![pid] = st]
      /\ t.runnable = Append(s.runnable, pid)
      /\ t.blocked = s.blocked /\ t.current = s.current
  BY <1>1, <1>2 DEF Good, Schedulers, spawn, Enqueues
<1>4. WaitKept(s.states[pid], st)
  BY <1>1 DEF WaitKept
<1> HIDE DEF t, st
<1>5. GoodStep(s, t)
  BY <1>1, <1>2, <1>3, <1>4, OneTask
<1> QED BY <1>5 DEF t

(* park_runnable moves a queued task to the wait queue.                      *)
LEMMA ParkGood ==
  ASSUME NEW s, Good(s), NEW pid \in Pids, NEW reason \in WaitReasons, s.states[pid].tag = "Runnable"
  PROVE  GoodStep(s, park_runnable(s, pid, reason))
<1> DEFINE t   == park_runnable(s, pid, reason)
           st  == Waiting("Blocked", reason)
<1>1. st \in TaskState /\ st.tag = "Blocked"
  BY TaskType DEF Tags, WaitReasons
<1>2. /\ Dequeues(s.runnable, Without(s.runnable, pid), pid)
      /\ Enqueues(s.blocked, Append(s.blocked, pid), pid)
      /\ s.current # pid
  BY <1>1, GoodFacts, AppendEnqueues, WithoutDequeues
<1>3. /\ t \in Schedulers
      /\ t.states = [s.states EXCEPT ![pid] = st]
      /\ t.runnable = Without(s.runnable, pid)
      /\ t.blocked = Append(s.blocked, pid)
      /\ t.current = s.current
  BY <1>1, <1>2 DEF Good, Schedulers, park_runnable, Enqueues, Dequeues
<1>4. WaitKept(s.states[pid], st)
  BY <1>1, GoodFacts, TaskType DEF WaitKept
<1> HIDE DEF t, st
<1>5. GoodStep(s, t)
  BY <1>1, <1>2, <1>3, <1>4, OneTask
<1> QED BY <1>5 DEF t

(* dispatch_pid runs a queued task out of turn, leaving the others in place. *)
LEMMA DispatchPidGood ==
  ASSUME NEW s, Good(s), NEW pid \in Pids, s.states[pid].tag = "Runnable", s.current = NoPid
  PROVE  GoodStep(s, dispatch_pid(s, pid))
<1> DEFINE t   == dispatch_pid(s, pid)
           st  == Task("Running")
<1>1. st \in TaskState /\ st.tag = "Running"
  BY TaskType DEF Tags
<1>2. /\ Dequeues(s.runnable, Without(s.runnable, pid), pid)
      /\ Dequeues(s.blocked, s.blocked, pid)
      /\ s.current # pid
  BY <1>1, GoodFacts, WithoutDequeues, SameQueue
<1>3. /\ t \in Schedulers
      /\ t.states = [s.states EXCEPT ![pid] = st]
      /\ t.runnable = Without(s.runnable, pid)
      /\ t.blocked = s.blocked
      /\ t.current = pid
  BY <1>1, <1>2 DEF Good, Schedulers, dispatch_pid, Dequeues
<1>4. WaitKept(s.states[pid], st)
  BY <1>1, GoodFacts DEF WaitKept
<1> HIDE DEF t, st
<1>5. GoodStep(s, t)
  BY <1>1, <1>2, <1>3, <1>4, OneTask
<1> QED BY <1>5 DEF t

(* yield_current sends the running task to the back of the run queue.        *)
LEMMA YieldGood ==
  ASSUME NEW s, Good(s), s.current # NoPid
  PROVE  GoodStep(s, yield_current(s))
<1> DEFINE t   == yield_current(s)
           pid == s.current
           st  == Task("Runnable")
<1>1. pid \in Pids /\ st \in TaskState /\ st.tag = "Runnable"
  BY GoodFacts, TaskType DEF Tags
<1>2. /\ Enqueues(s.runnable, Append(s.runnable, s.current), pid)
      /\ Dequeues(s.blocked, s.blocked, pid)
      /\ s.current = pid
  BY <1>1, GoodFacts, AppendEnqueues, SameQueue
<1>3. /\ t \in Schedulers
      /\ t.states = [s.states EXCEPT ![pid] = st]
      /\ t.runnable = Append(s.runnable, s.current)
      /\ t.blocked = s.blocked
      /\ t.current = NoPid
  BY <1>1, <1>2 DEF Good, Schedulers, yield_current, Enqueues, Dequeues
<1>4. WaitKept(s.states[pid], st)
  BY <1>1, <1>2, GoodFacts DEF WaitKept
<1> HIDE DEF t, st, pid
<1>5. GoodStep(s, t)
  BY <1>1, <1>2, <1>3, <1>4, OneTask
<1> QED BY <1>5 DEF t

(* block_current sends the running task to the back of the wait queue.       *)
LEMMA BlockGood ==
  ASSUME NEW s, Good(s), NEW reason \in WaitReasons, s.current # NoPid
  PROVE  GoodStep(s, block_current(s, reason))
<1> DEFINE t   == block_current(s, reason)
           pid == s.current
           st  == Waiting("Blocked", reason)
<1>1. pid \in Pids /\ st \in TaskState /\ st.tag = "Blocked"
  BY GoodFacts, TaskType DEF Tags, WaitReasons
<1>2. /\ Dequeues(s.runnable, s.runnable, pid)
      /\ Enqueues(s.blocked, Append(s.blocked, s.current), pid)
      /\ s.current = pid
  BY <1>1, GoodFacts, AppendEnqueues, SameQueue
<1>3. /\ t \in Schedulers
      /\ t.states = [s.states EXCEPT ![pid] = st]
      /\ t.runnable = s.runnable
      /\ t.blocked = Append(s.blocked, s.current)
      /\ t.current = NoPid
  BY <1>1, <1>2 DEF Good, Schedulers, block_current, Enqueues, Dequeues
<1>4. WaitKept(s.states[pid], st)
  BY <1>1, <1>2, GoodFacts, TaskType DEF WaitKept
<1> HIDE DEF t, st, pid
<1>5. GoodStep(s, t)
  BY <1>1, <1>2, <1>3, <1>4, OneTask
<1> QED BY <1>5 DEF t

(* exit_current leaves the running task in no queue.                         *)
LEMMA ExitGood ==
  ASSUME NEW s, Good(s), s.current # NoPid
  PROVE  GoodStep(s, exit_current(s))
<1> DEFINE t   == exit_current(s)
           pid == s.current
           st  == Task("Exited")
<1>1. pid \in Pids /\ st \in TaskState /\ st.tag = "Exited"
  BY GoodFacts, TaskType DEF Tags
<1>2. /\ Dequeues(s.runnable, s.runnable, pid)
      /\ Dequeues(s.blocked, s.blocked, pid)
      /\ s.current = pid
  BY <1>1, GoodFacts, SameQueue
<1>3. /\ t \in Schedulers
      /\ t.states = [s.states EXCEPT ![pid] = st]
      /\ t.runnable = s.runnable
      /\ t.blocked = s.blocked
      /\ t.current = NoPid
  BY <1>1, <1>2 DEF Good, Schedulers, exit_current, Dequeues
<1>4. WaitKept(s.states[pid], st)
  BY <1>1, <1>2, GoodFacts DEF WaitKept
<1> HIDE DEF t, st, pid
<1>5. GoodStep(s, t)
  BY <1>1, <1>2, <1>3, <1>4, OneTask
<1> QED BY <1>5 DEF t

(* wake of a blocked task.                                                  *)
LEMMA WakeBlockedGood ==
  ASSUME NEW s, Good(s), NEW pid \in Pids, s.states[pid].tag = "Blocked"
  PROVE  GoodStep(s, wake(s, pid))
<1> DEFINE t   == wake(s, pid)
           st  == Task("Runnable")
<1>1. st \in TaskState /\ st.tag = "Runnable"
  BY TaskType DEF Tags
<1>2. /\ Enqueues(s.runnable, Append(s.runnable, pid), pid)
      /\ Dequeues(s.blocked, Without(s.blocked, pid), pid)
      /\ s.current # pid
  BY <1>1, GoodFacts, AppendEnqueues, WithoutDequeues
<1>3. /\ t \in Schedulers
      /\ t.states = [s.states EXCEPT ![pid] = st]
      /\ t.runnable = Append(s.runnable, pid)
      /\ t.blocked = Without(s.blocked, pid)
      /\ t.current = s.current
  BY <1>1, <1>2 DEF Good, Schedulers, wake, Enqueues, Dequeues
<1>4. WaitKept(s.states[pid], st)
  BY <1>1, GoodFacts DEF WaitKept
<1> HIDE DEF t, st
<1>5. GoodStep(s, t)
  BY <1>1, <1>2, <1>3, <1>4, OneTask
<1> QED BY <1>5 DEF t

(* wake of a stopped task that was blocked.                                 *)
LEMMA WakeStoppedGood ==
  ASSUME NEW s, Good(s), NEW pid \in Pids, s.states[pid].tag = "StoppedBlocked"
  PROVE  GoodStep(s, wake(s, pid))
<1> DEFINE t   == wake(s, pid)
           st  == Task("StoppedRunnable")
<1>1. st \in TaskState /\ st.tag = "StoppedRunnable"
  BY TaskType DEF Tags
<1>2. /\ Dequeues(s.runnable, s.runnable, pid)
      /\ Dequeues(s.blocked, Without(s.blocked, pid), pid)
      /\ s.current # pid
  BY <1>1, GoodFacts, WithoutDequeues, SameQueue
<1>3. /\ t \in Schedulers
      /\ t.states = [s.states EXCEPT ![pid] = st]
      /\ t.runnable = s.runnable
      /\ t.blocked = Without(s.blocked, pid)
      /\ t.current = s.current
  BY <1>1, <1>2 DEF Good, Schedulers, wake, Dequeues
<1>4. WaitKept(s.states[pid], st)
  BY <1>1, GoodFacts DEF WaitKept
<1> HIDE DEF t, st
<1>5. GoodStep(s, t)
  BY <1>1, <1>2, <1>3, <1>4, OneTask
<1> QED BY <1>5 DEF t

(* stop of a queued task.                                                   *)
LEMMA StopRunnableGood ==
  ASSUME NEW s, Good(s), NEW pid \in Pids, s.states[pid].tag = "Runnable"
  PROVE  GoodStep(s, stop(s, pid))
<1> DEFINE t   == stop(s, pid)
           st  == Task("StoppedRunnable")
<1>1. st \in TaskState /\ st.tag = "StoppedRunnable"
  BY TaskType DEF Tags
<1>2. /\ Dequeues(s.runnable, Without(s.runnable, pid), pid)
      /\ Dequeues(s.blocked, s.blocked, pid)
      /\ s.current # pid
  BY <1>1, GoodFacts, WithoutDequeues, SameQueue
<1>3. /\ t \in Schedulers
      /\ t.states = [s.states EXCEPT ![pid] = st]
      /\ t.runnable = Without(s.runnable, pid)
      /\ t.blocked = s.blocked
      /\ t.current = s.current
  BY <1>1, <1>2 DEF Good, Schedulers, stop, Dequeues
<1>4. WaitKept(s.states[pid], st)
  BY <1>1, GoodFacts DEF WaitKept
<1> HIDE DEF t, st
<1>5. GoodStep(s, t)
  BY <1>1, <1>2, <1>3, <1>4, OneTask
<1> QED BY <1>5 DEF t

(* stop of the running task.                                                *)
LEMMA StopRunningGood ==
  ASSUME NEW s, Good(s), NEW pid \in Pids, s.states[pid].tag = "Running"
  PROVE  GoodStep(s, stop(s, pid))
<1> DEFINE t   == stop(s, pid)
           st  == Task("StoppedRunnable")
<1>1. st \in TaskState /\ st.tag = "StoppedRunnable"
  BY TaskType DEF Tags
<1>2. /\ Dequeues(s.runnable, s.runnable, pid)
      /\ Dequeues(s.blocked, s.blocked, pid)
      /\ s.current = pid
  BY <1>1, GoodFacts, SameQueue
<1>3. /\ t \in Schedulers
      /\ t.states = [s.states EXCEPT ![pid] = st]
      /\ t.runnable = s.runnable
      /\ t.blocked = s.blocked
      /\ t.current = NoPid
  BY <1>1, <1>2 DEF Good, Schedulers, stop, Dequeues
<1>4. WaitKept(s.states[pid], st)
  BY <1>1, GoodFacts DEF WaitKept
<1> HIDE DEF t, st
<1>5. GoodStep(s, t)
  BY <1>1, <1>2, <1>3, <1>4, OneTask
<1> QED BY <1>5 DEF t

(* stop of a blocked task, which keeps its place in the wait queue.         *)
LEMMA StopBlockedGood ==
  ASSUME NEW s, Good(s), NEW pid \in Pids, s.states[pid].tag = "Blocked"
  PROVE  GoodStep(s, stop(s, pid))
<1> DEFINE t   == stop(s, pid)
           st  == Waiting("StoppedBlocked", s.states[pid].reason)
<1>1. st \in TaskState /\ st.tag = "StoppedBlocked"
  BY GoodFacts, TaskType DEF Tags, TaskState
<1>2. /\ Dequeues(s.runnable, s.runnable, pid)
      /\ Enqueues(s.blocked, s.blocked, pid)
      /\ s.current # pid
  BY <1>1, GoodFacts, SameQueue
<1>3. /\ t \in Schedulers
      /\ t.states = [s.states EXCEPT ![pid] = st]
      /\ t.runnable = s.runnable
      /\ t.blocked = s.blocked
      /\ t.current = s.current
  BY <1>1, <1>2 DEF Good, Schedulers, stop, Enqueues, Dequeues
<1>4. WaitKept(s.states[pid], st)
  BY <1>1, GoodFacts, TaskType DEF WaitKept
<1> HIDE DEF t, st
<1>5. GoodStep(s, t)
  BY <1>1, <1>2, <1>3, <1>4, OneTask
<1> QED BY <1>5 DEF t

(* continue_task of a task that was runnable, or woken while stopped.       *)
LEMMA ContinueRunnableGood ==
  ASSUME NEW s, Good(s), NEW pid \in Pids, s.states[pid].tag = "StoppedRunnable"
  PROVE  GoodStep(s, continue_task(s, pid))
<1> DEFINE t   == continue_task(s, pid)
           st  == Task("Runnable")
<1>1. st \in TaskState /\ st.tag = "Runnable"
  BY TaskType DEF Tags
<1>2. /\ Enqueues(s.runnable, Append(s.runnable, pid), pid)
      /\ Dequeues(s.blocked, s.blocked, pid)
      /\ s.current # pid
  BY <1>1, GoodFacts, AppendEnqueues, SameQueue
<1>3. /\ t \in Schedulers
      /\ t.states = [s.states EXCEPT ![pid] = st]
      /\ t.runnable = Append(s.runnable, pid)
      /\ t.blocked = s.blocked
      /\ t.current = s.current
  BY <1>1, <1>2 DEF Good, Schedulers, continue_task, Enqueues, Dequeues
<1>4. WaitKept(s.states[pid], st)
  BY <1>1, GoodFacts DEF WaitKept
<1> HIDE DEF t, st
<1>5. GoodStep(s, t)
  BY <1>1, <1>2, <1>3, <1>4, OneTask
<1> QED BY <1>5 DEF t

(* continue_task of a task that still waits.                                *)
LEMMA ContinueBlockedGood ==
  ASSUME NEW s, Good(s), NEW pid \in Pids, s.states[pid].tag = "StoppedBlocked"
  PROVE  GoodStep(s, continue_task(s, pid))
<1> DEFINE t   == continue_task(s, pid)
           st  == Waiting("Blocked", s.states[pid].reason)
<1>1. st \in TaskState /\ st.tag = "Blocked"
  BY GoodFacts, TaskType DEF Tags, TaskState
<1>2. /\ Dequeues(s.runnable, s.runnable, pid)
      /\ Enqueues(s.blocked, s.blocked, pid)
      /\ s.current # pid
  BY <1>1, GoodFacts, SameQueue
<1>3. /\ t \in Schedulers
      /\ t.states = [s.states EXCEPT ![pid] = st]
      /\ t.runnable = s.runnable
      /\ t.blocked = s.blocked
      /\ t.current = s.current
  BY <1>1, <1>2 DEF Good, Schedulers, continue_task, Enqueues, Dequeues
<1>4. WaitKept(s.states[pid], st)
  BY <1>1, GoodFacts, TaskType DEF WaitKept
<1> HIDE DEF t, st
<1>5. GoodStep(s, t)
  BY <1>1, <1>2, <1>3, <1>4, OneTask
<1> QED BY <1>5 DEF t

(* dispatch runs the head of the run queue; its error branch is dead.        *)
LEMMA DispatchGood ==
  ASSUME NEW s, Good(s), CanDispatch(s)
  PROVE  GoodStep(s, dispatch(s))
<1> DEFINE t   == dispatch(s)
           pid == Head(s.runnable)
           st  == Task("Running")
<1>1. pid \in Pids /\ st \in TaskState /\ st.tag = "Running"
  BY GoodFacts, TailFacts, TaskType DEF Tags, CanDispatch
<1>2. /\ Dequeues(s.runnable, Tail(s.runnable), pid)
      /\ Dequeues(s.blocked, s.blocked, pid)
      /\ s.current = NoPid /\ s.states[pid].tag = "Runnable"
  BY <1>1, GoodFacts, TailDequeues, SameQueue, TailFacts DEF CanDispatch
<1>3. /\ t \in Schedulers
      /\ t.states = [s.states EXCEPT ![pid] = st]
      /\ t.runnable = Tail(s.runnable)
      /\ t.blocked = s.blocked
      /\ t.current = pid
  BY <1>1, <1>2 DEF Good, Schedulers, dispatch, CanDispatch, Dequeues
<1>4. WaitKept(s.states[pid], st)
  BY <1>1, <1>2, GoodFacts DEF WaitKept
<1> HIDE DEF t, st, pid
<1>5. GoodStep(s, t)
  BY <1>1, <1>2, <1>3, <1>4, OneTask
<1> QED BY <1>5 DEF t

(* reap forgets an exited task.                                             *)
LEMMA ReapGood ==
  ASSUME NEW s, Good(s), NEW pid \in Pids, s.states[pid].tag = "Exited"
  PROVE  GoodStep(s, reap(s, pid))
<1> DEFINE t   == reap(s, pid)
           st  == Task("Absent")
<1>1. st \in TaskState /\ st.tag = "Absent"
  BY TaskType DEF Tags
<1>2. /\ Dequeues(s.runnable, s.runnable, pid)
      /\ Dequeues(s.blocked, s.blocked, pid)
      /\ s.current # pid
  BY <1>1, GoodFacts, SameQueue
<1>3. /\ t \in Schedulers
      /\ t.states = [s.states EXCEPT ![pid] = st]
      /\ t.runnable = s.runnable
      /\ t.blocked = s.blocked
      /\ t.current = s.current
  BY <1>1, <1>2 DEF Good, Schedulers, reap, Dequeues
<1>4. WaitKept(s.states[pid], st)
  BY <1>1, GoodFacts DEF WaitKept
<1> HIDE DEF t, st
<1>5. GoodStep(s, t)
  BY <1>1, <1>2, <1>3, <1>4, OneTask
<1> QED BY <1>5 DEF t

(* discard_runnable forgets a task that was never dispatched.               *)
LEMMA DiscardGood ==
  ASSUME NEW s, Good(s), NEW pid \in Pids, s.states[pid].tag = "Runnable"
  PROVE  GoodStep(s, discard_runnable(s, pid))
<1> DEFINE t   == discard_runnable(s, pid)
           st  == Task("Absent")
<1>1. st \in TaskState /\ st.tag = "Absent"
  BY TaskType DEF Tags
<1>2. /\ Dequeues(s.runnable, Without(s.runnable, pid), pid)
      /\ Dequeues(s.blocked, s.blocked, pid)
      /\ s.current # pid
  BY <1>1, GoodFacts, WithoutDequeues, SameQueue
<1>3. /\ t \in Schedulers
      /\ t.states = [s.states EXCEPT ![pid] = st]
      /\ t.runnable = Without(s.runnable, pid)
      /\ t.blocked = s.blocked
      /\ t.current = s.current
  BY <1>1, <1>2 DEF Good, Schedulers, discard_runnable, Dequeues
<1>4. WaitKept(s.states[pid], st)
  BY <1>1, GoodFacts DEF WaitKept
<1> HIDE DEF t, st
<1>5. GoodStep(s, t)
  BY <1>1, <1>2, <1>3, <1>4, OneTask
<1> QED BY <1>5 DEF t

(* wake_waiters, wake_child_waiters, wake_child_activity_waiters and         *)
(* wake_file_lock_waiters: several tasks move at once.                       *)
LEMMA WakeMatchingGood ==
  ASSUME NEW s, Good(s), NEW atoms
  PROVE  GoodStep(s, wake_matching(s, atoms))
<1> DEFINE t     == wake_matching(s, atoms)
           woken == Waiters(s, atoms)
           ready == {p \in woken : s.states[p].tag = "Blocked"}
           kept  == Retain(s.blocked, Pids \ woken)
           moved == Retain(s.blocked, ready)
           st    == [p \in Pids |-> IF p \in ready THEN Task("Runnable")
                                    ELSE IF p \in woken THEN Task("StoppedRunnable")
                                    ELSE s.states[p]]
<1>1. /\ s.runnable \in Seq(Pids) /\ s.blocked \in Seq(Pids)
      /\ NoRepeat(s.runnable) /\ NoRepeat(s.blocked)
      /\ Elems(s.blocked) \subseteq Pids /\ Elems(s.runnable) \subseteq Pids
  BY GoodFacts DEF Elems
<1>2. /\ woken \subseteq Elems(s.blocked) /\ ready \subseteq woken
      /\ \A p \in woken \ ready : s.states[p].tag = "StoppedBlocked"
      /\ \A p \in ready : s.states[p].tag = "Blocked"
  BY DEF Waiters
<1> HIDE DEF woken, ready
<1>3. /\ kept \in Seq(Pids) /\ NoRepeat(kept) /\ Elems(kept) = Elems(s.blocked) \ woken
      /\ \A a, b \in Pids \ woken : Precedes(s.blocked, a, b) => Precedes(kept, a, b)
  <2>1. Elems(kept) = Elems(s.blocked) \cap (Pids \ woken)
    BY <1>1, RetainFacts
  <2> QED BY <1>1, <2>1, RetainFacts
<1>4. moved \in Seq(Pids) /\ NoRepeat(moved) /\ Elems(moved) = ready
  <2>1. Elems(moved) = Elems(s.blocked) \cap ready
    BY <1>1, RetainFacts
  <2>2. moved \in Seq(Pids) /\ NoRepeat(moved)
    BY <1>1, RetainFacts
  <2> QED BY <1>2, <2>1, <2>2
<1> HIDE DEF kept, moved
<1>5. Elems(s.runnable) \cap ready = {}
  BY <1>1, <1>2, GoodFacts
<1> DEFINE queue == s.runnable \o moved
<1>6. /\ queue \in Seq(Pids) /\ NoRepeat(queue)
      /\ Elems(queue) = Elems(s.runnable) \cup ready
      /\ \A a, b : Precedes(s.runnable, a, b) => Precedes(queue, a, b)
      /\ \A a \in Elems(s.runnable), b \in ready : Precedes(queue, a, b)
  BY <1>1, <1>4, <1>5, ConcatFacts
<1> HIDE DEF queue
<1>7. st \in [Pids -> TaskState]
  BY GoodFacts, TaskType DEF Tags
<1>8. /\ t \in Schedulers
      /\ t.states = st /\ t.runnable = queue /\ t.blocked = kept /\ t.current = s.current
  BY <1>3, <1>6, <1>7 DEF Good, Schedulers, wake_matching, woken, ready, kept, moved, queue
<1>9. \A p \in Pids : t.states[p] = IF p \in ready THEN Task("Runnable")
                                    ELSE IF p \in woken THEN Task("StoppedRunnable")
                                    ELSE s.states[p]
  BY <1>8
<1> HIDE DEF t, st
<1>10. Elems(t.runnable) = Tagged(t, {"Runnable"})
  <2>1. \A p \in Pids : t.states[p].tag = "Runnable"
                          <=> p \in ready \/ s.states[p].tag = "Runnable"
    BY <1>2, <1>9, TaskType
  <2> QED BY <1>1, <1>2, <1>6, <1>8, <2>1, GoodFacts DEF Tagged
<1>11. Elems(t.blocked) = Tagged(t, {"Blocked", "StoppedBlocked"})
  BY <1>1, <1>2, <1>3, <1>8, <1>9, GoodFacts, TaskType DEF Tagged
<1>12. Tagged(t, {"Running"}) = {t.current} \ {NoPid}
  <2>1. \A p \in Pids : t.states[p].tag = "Running" <=> s.states[p].tag = "Running"
    BY <1>1, <1>2, <1>9, TaskType
  <2> QED BY <2>1, <1>8, GoodFacts, SchedulerAssumption DEF Tagged
<1>13. Consistent(t)
  BY <1>3, <1>6, <1>8, <1>10, <1>11, <1>12 DEF Consistent
<1>14. OrderKept(s, t)
  BY <1>1, <1>3, <1>6, <1>8 DEF OrderKept, QueueOrderKept
<1>15. WaitsKept(s, t)
  BY <1>2, <1>9, TaskType DEF WaitsKept, WaitKept
<1>16. GoodStep(s, t)
  BY <1>8, <1>13, <1>14, <1>15 DEF GoodStep, Good
<1> QED BY <1>16 DEF t

(* The scheduler starts with the root task running and empty queues.         *)
LEMMA NewGood == Good(new)
<1>1. << >> \in Seq(Pids) /\ Elems(<< >>) = {} /\ NoRepeat(<< >>)
  BY DEF Elems, NoRepeat
<1>2. new \in Schedulers
  BY <1>1, TaskType, SchedulerAssumption DEF new, Schedulers, Tags
<1>3. Consistent(new)
  BY <1>1, TaskType, SchedulerAssumption DEF new, Consistent, Tagged
<1> QED BY <1>2, <1>3 DEF Good

(* One method call, one case per method.                                     *)
LEMMA NextGood ==
  ASSUME Good(sched), Next
  PROVE  GoodStep(sched, sched')
<1>1. CASE Dispatch
  BY <1>1, DispatchGood DEF Dispatch
<1>2. CASE YieldCurrent
  BY <1>2, YieldGood DEF YieldCurrent
<1>3. CASE ExitCurrent
  BY <1>3, ExitGood DEF ExitCurrent
<1>4. ASSUME NEW reason \in WaitReasons, BlockCurrent(reason) PROVE GoodStep(sched, sched')
  BY <1>4, BlockGood DEF BlockCurrent
<1>5. ASSUME NEW p \in Pids, NEW reason \in WaitReasons, ParkRunnable(p, reason)
      PROVE  GoodStep(sched, sched')
  BY <1>5, ParkGood DEF ParkRunnable
<1>6. ASSUME NEW p \in Pids, Spawn(p) PROVE GoodStep(sched, sched')
  BY <1>6, SpawnGood DEF Spawn, CanSpawn
<1>7. ASSUME NEW p \in Pids, DispatchPid(p) PROVE GoodStep(sched, sched')
  BY <1>7, DispatchPidGood DEF DispatchPid
<1>8. ASSUME NEW p \in Pids, Wake(p) PROVE GoodStep(sched, sched')
  <2>1. CASE sched.states[p].tag \notin {"Blocked", "StoppedBlocked"}
    BY <1>8, <2>1, NoChange DEF Wake, wake
  <2> QED BY <1>8, <2>1, WakeBlockedGood, WakeStoppedGood DEF Wake
<1>9. ASSUME NEW p \in Pids, Stop(p) PROVE GoodStep(sched, sched')
  <2>1. CASE sched.states[p].tag \notin {"Runnable", "Running", "Blocked"}
    BY <1>9, <2>1, NoChange DEF Stop, stop
  <2> QED BY <1>9, <2>1, StopRunnableGood, StopRunningGood, StopBlockedGood DEF Stop
<1>10. ASSUME NEW p \in Pids, ContinueTask(p) PROVE GoodStep(sched, sched')
  <2>1. CASE sched.states[p].tag \notin {"StoppedRunnable", "StoppedBlocked"}
    BY <1>10, <2>1, NoChange DEF ContinueTask, continue_task
  <2> QED BY <1>10, <2>1, ContinueRunnableGood, ContinueBlockedGood DEF ContinueTask
<1>11. ASSUME NEW p \in Pids, Reap(p) PROVE GoodStep(sched, sched')
  <2>1. CASE sched.states[p].tag # "Exited"
    BY <1>11, <2>1, NoChange DEF Reap, reap
  <2> QED BY <1>11, <2>1, ReapGood DEF Reap
<1>12. ASSUME NEW p \in Pids, DiscardRunnable(p) PROVE GoodStep(sched, sched')
  <2>1. CASE sched.states[p].tag # "Runnable"
    BY <1>12, <2>1, NoChange DEF DiscardRunnable, discard_runnable
  <2> QED BY <1>12, <2>1, DiscardGood DEF DiscardRunnable
<1>13. ASSUME NEW atoms, WakeMatching(atoms) PROVE GoodStep(sched, sched')
  BY <1>13, WakeMatchingGood DEF WakeMatching
<1> QED BY <1>1, <1>2, <1>3, <1>4, <1>5, <1>6, <1>7, <1>8, <1>9, <1>10, <1>11, <1>12, <1>13
        DEF Next

(***************************************************************************)
(* The theorems.                                                            *)
(***************************************************************************)

(* Whatever the order of the calls, the queues stay consistent with the      *)
(* task states.                                                              *)
THEOREM SchedulerSafe == Spec => [](TypeOK /\ QueuesMatchStates)
<1>1. Init => Good(sched)
  BY NewGood DEF Init
<1>2. Good(sched) /\ [Next]_sched => Good(sched)'
  <2>1. ASSUME Good(sched), Next PROVE Good(sched')
    BY <2>1, NextGood DEF GoodStep
  <2>2. ASSUME Good(sched), UNCHANGED sched PROVE Good(sched')
    BY <2>2
  <2> QED BY <2>1, <2>2
<1>3. Good(sched) => TypeOK /\ QueuesMatchStates
  BY DEF Good, TypeOK, QueuesMatchStates
<1> QED BY <1>1, <1>2, <1>3, PTL DEF Spec

(* No call ever reorders the run queue or the wait queue.                    *)
THEOREM OrderIsStable == Spec => StableOrder
<1>1. ASSUME Good(sched), Next PROVE OrderKept(sched, sched')
  BY <1>1, NextGood DEF GoodStep
<1>2. Good(sched) /\ [Next]_sched => [OrderKept(sched, sched')]_sched
  BY <1>1
<1>3. Spec => []Good(sched)
  BY SchedulerSafe, PTL DEF Good, TypeOK, QueuesMatchStates
<1> QED BY <1>2, <1>3, PTL DEF Spec, StableOrder

(* Stopping and continuing a task neither loses nor invents a wake.          *)
THEOREM WakesAreKept == Spec => WakesSurviveStop
<1>1. ASSUME Good(sched), Next PROVE WaitsKept(sched, sched')
  BY <1>1, NextGood DEF GoodStep
<1>2. Good(sched) /\ [Next]_sched => [WaitsKept(sched, sched')]_sched
  BY <1>1
<1>3. Spec => []Good(sched)
  BY SchedulerSafe, PTL DEF Good, TypeOK, QueuesMatchStates
<1> QED BY <1>2, <1>3, PTL DEF Spec, WakesSurviveStop

=============================================================================
