---------------------------- MODULE Cancellation ----------------------------
(***************************************************************************)
(* One CancellationToken (src/src/interruption.rs) shared by host threads    *)
(* that call `cancel' and by the runs that were handed the token             *)
(* (Environment::with_cancellation), with the executor loop of exec.rs that  *)
(* polls the machine and sleeps on the token's condition variable in         *)
(* real-time mode.  These are real host threads: every atomic access and     *)
(* every mutex or condition-variable operation is a step of its own.         *)
(*                                                                         *)
(* The machine quantum inside a poll is abstracted to its result, errors and *)
(* panics included, and to whether native code observed the request          *)
(* (Environment::interrupted).  A teardown (ShellExecution::cancel) succeeds  *)
(* or fails.                                                                 *)
(***************************************************************************)
EXTENDS Integers, FiniteSets

CONSTANTS
  Cancellers,   \* host threads that each call cancel() once
  Runs,         \* threads that each call with_cancellation with this token
  NoThread      \* the mutex is free

ASSUME CancellationAssumption ==
  Cancellers \cap Runs = {} /\ NoThread \notin Cancellers \cup Runs

VARIABLES
  requested, bound, finished,  \* the three AtomicBools
  lock,                        \* owner of the mutex `waiting'
  asleep,                      \* runs blocked in wait_timeout
  pc,                          \* where each thread is
  interrupted,                 \* ActionCancellation.interrupted of each run
  outcome                      \* how each run ended

vars == <<requested, bound, finished, lock, asleep, pc, interrupted, outcome>>

Threads == Cancellers \cup Runs

CancellerPCs == {"call", "locked", "store", "notify", "unlock", "returned"}
RunPCs == {"bind", "entry", "parse", "poll", "quantum", "ready", "settle", "blocked", "predicate",
           "sleeping", "relock", "idle", "finish", "closing", "returned", "rejected"}

(* The program's own status, 130 after a teardown, 125 for a failed start,   *)
(* poll or teardown, 125 with everyone blocked, or a panic.                  *)
Outcomes == {"completed", "cancelled", "failed", "deadlocked", "panicked"}

Goto(t, label) == pc' = [pc EXCEPT ![t] = label]

At(t, label) == pc[t] = label

Acquire(t) == lock = NoThread /\ lock' = t

Release == lock' = NoThread

Ends(r, how) == outcome' = [outcome EXCEPT ![r] = how] /\ Goto(r, "finish")

Observes(r) == interrupted' = [interrupted EXCEPT ![r] = TRUE]

(* The request was found: cancel() reports 130, or the error that stopped    *)
(* it, which exec() turns into 125.                                          *)
TearDown(r) == Observes(r) /\ \E how \in {"cancelled", "failed"} : Ends(r, how)

Init ==
  /\ requested = FALSE /\ bound = FALSE /\ finished = FALSE
  /\ lock = NoThread /\ asleep = {}
  /\ pc = [t \in Threads |-> IF t \in Runs THEN "bind" ELSE "call"]
  /\ interrupted = [r \in Runs |-> FALSE]
  /\ outcome = [r \in Runs |-> "none"]

(***************************************************************************)
(* cancel(): lock, test `finished', store, notify_all, unlock.               *)
(***************************************************************************)
CancelLock(c) ==
  /\ At(c, "call") /\ Acquire(c) /\ Goto(c, "locked")
  /\ UNCHANGED <<requested, bound, finished, asleep, interrupted, outcome>>

(* Mutant: the request is stored although the action already finished. *)
MutCancelTest(c) ==
  /\ At(c, "locked")
  /\ Goto(c, "store")
  /\ UNCHANGED <<requested, bound, finished, lock, asleep, interrupted, outcome>>

CancelTest(c) ==
  /\ At(c, "locked")
  /\ Goto(c, IF finished THEN "notify" ELSE "store")
  /\ UNCHANGED <<requested, bound, finished, lock, asleep, interrupted, outcome>>

CancelStore(c) ==
  /\ At(c, "store") /\ requested' = TRUE /\ Goto(c, "notify")
  /\ UNCHANGED <<bound, finished, lock, asleep, interrupted, outcome>>

(* Mutant: cancel() does not notify the condition variable. *)
MutCancelNotify(c) ==
  /\ At(c, "notify") /\ Goto(c, "unlock")
  /\ UNCHANGED <<requested, bound, finished, lock, asleep, interrupted, outcome>>

(* notify_all moves every sleeper to the queue for the mutex. *)
CancelNotify(c) ==
  /\ At(c, "notify")
  /\ asleep' = {}
  /\ pc' = [t \in Threads |-> IF t = c THEN "unlock"
                              ELSE IF t \in asleep THEN "relock" ELSE pc[t]]
  /\ UNCHANGED <<requested, bound, finished, lock, interrupted, outcome>>

CancelUnlock(c) ==
  /\ At(c, "unlock") /\ Release /\ Goto(c, "returned")
  /\ UNCHANGED <<requested, bound, finished, asleep, interrupted, outcome>>

(***************************************************************************)
(* with_cancellation: bind by compare_exchange, run the action, finish().    *)
(***************************************************************************)

Bind(r) ==
  /\ At(r, "bind")
  /\ bound' = TRUE
  /\ Goto(r, IF bound THEN "rejected" ELSE "entry")
  /\ UNCHANGED <<requested, finished, lock, asleep, interrupted, outcome>>

(* A terminated shell accepts no action, whatever was requested; otherwise a *)
(* request that is already there keeps the action from starting.             *)
EntryTest(r) ==
  /\ At(r, "entry")
  /\ \/ Ends(r, "completed") /\ UNCHANGED interrupted
     \/ requested /\ Observes(r) /\ Ends(r, "cancelled")
     \/ ~requested /\ Goto(r, "parse") /\ UNCHANGED <<interrupted, outcome>>
  /\ UNCHANGED <<requested, bound, finished, lock, asleep>>

(* Parsing: refused memory returns before the second test of the request.    *)
(* Without a request, a syntax error or refused fuel ends the run and a      *)
(* continuation that cannot be started fails it.                             *)
ParseTest(r) ==
  /\ At(r, "parse")
  /\ \/ Ends(r, "completed") /\ UNCHANGED interrupted
     \/ requested /\ Observes(r) /\ Ends(r, "cancelled")
     \/ ~requested /\ Ends(r, "failed") /\ UNCHANGED interrupted
     \/ ~requested /\ Goto(r, "poll") /\ UNCHANGED <<interrupted, outcome>>
  /\ UNCHANGED <<requested, bound, finished, lock, asleep>>

(* ShellExecution::poll starts by testing the request. *)
PollTest(r) ==
  /\ At(r, "poll")
  /\ IF requested THEN TearDown(r)
     ELSE Goto(r, "quantum") /\ UNCHANGED <<interrupted, outcome>>
  /\ UNCHANGED <<requested, bound, finished, lock, asleep>>

(* One machine quantum: progress, all blocked, the target completed, or an   *)
(* error, which poll hands on without a second test, or a panic.  Native     *)
(* work inside it may look at the request.                                   *)
Quantum(r) ==
  /\ At(r, "quantum")
  /\ UNCHANGED interrupted \/ (requested /\ Observes(r))
  /\ \/ \E next \in {"ready", "settle", "blocked"} : Goto(r, next) /\ UNCHANGED outcome
     \/ \E how \in {"failed", "panicked"} : Ends(r, how)
  /\ UNCHANGED <<requested, bound, finished, lock, asleep>>

(* Mutant: a completed action is torn down if a request came in late. *)
MutReadyTest(r) ==
  /\ At(r, "ready")
  /\ IF requested THEN Ends(r, "cancelled") ELSE Ends(r, "completed")
  /\ UNCHANGED <<requested, bound, finished, lock, asleep, interrupted>>

(* The target completed: completion wins unless native work saw the request. *)
(* The request is tested again; one that was seen is still set.              *)
ReadyTest(r) ==
  /\ At(r, "ready")
  /\ IF interrupted[r] /\ requested THEN TearDown(r)
     ELSE Ends(r, "completed") /\ UNCHANGED interrupted
  /\ UNCHANGED <<requested, bound, finished, lock, asleep>>

(* After progress or a block the request is tested before poll returns. *)
SettleTest(r) ==
  /\ pc[r] \in {"settle", "blocked"}
  /\ IF requested THEN TearDown(r)
     ELSE /\ Goto(r, IF At(r, "settle") THEN "poll" ELSE "idle")
          /\ UNCHANGED <<interrupted, outcome>>
  /\ UNCHANGED <<requested, bound, finished, lock, asleep>>

(* exec() with all processes blocked: without a host deadline it gives up,   *)
(* otherwise it waits on the token.                                          *)
BlockedExit(r) ==
  /\ At(r, "idle")
  /\ Ends(r, "deadlocked")
  /\ UNCHANGED <<requested, bound, finished, lock, asleep, interrupted>>

WaitLock(r) ==
  /\ At(r, "idle") /\ Acquire(r) /\ Goto(r, "predicate")
  /\ UNCHANGED <<requested, bound, finished, asleep, interrupted, outcome>>

(* Mutant: the mutex is kept while the run sleeps. *)
MutWaitPredicate(r) ==
  /\ At(r, "predicate")
  /\ IF requested
     THEN Release /\ Goto(r, "poll") /\ UNCHANGED asleep
     ELSE UNCHANGED lock /\ Goto(r, "sleeping") /\ asleep' = asleep \cup {r}
  /\ UNCHANGED <<requested, bound, finished, interrupted, outcome>>

(* Mutant: the executor waits again instead of polling once it was woken. *)
MutWaitAgain(r) ==
  /\ At(r, "predicate") /\ Release
  /\ IF requested
     THEN Goto(r, "idle") /\ UNCHANGED asleep
     ELSE Goto(r, "sleeping") /\ asleep' = asleep \cup {r}
  /\ UNCHANGED <<requested, bound, finished, interrupted, outcome>>

(* wait_timeout_while: leave if the predicate fails, else unlock and sleep   *)
(* in one step.                                                              *)
WaitPredicate(r) ==
  /\ At(r, "predicate") /\ Release
  /\ IF requested
     THEN Goto(r, "poll") /\ UNCHANGED asleep
     ELSE Goto(r, "sleeping") /\ asleep' = asleep \cup {r}
  /\ UNCHANGED <<requested, bound, finished, interrupted, outcome>>

(* The timer ran out: reacquire the mutex and return. *)
WaitTimeout(r) ==
  /\ At(r, "sleeping") /\ lock = NoThread
  /\ asleep' = asleep \ {r} /\ Goto(r, "poll")
  /\ UNCHANGED <<requested, bound, finished, lock, interrupted, outcome>>

(* A notified (or spuriously woken) sleeper tests the predicate again. *)
SpuriousWake(r) ==
  /\ At(r, "sleeping") /\ asleep' = asleep \ {r} /\ Goto(r, "relock")
  /\ UNCHANGED <<requested, bound, finished, lock, interrupted, outcome>>

WaitRelock(r) ==
  /\ At(r, "relock") /\ Acquire(r) /\ Goto(r, "predicate")
  /\ UNCHANGED <<requested, bound, finished, asleep, interrupted, outcome>>

FinishLock(r) ==
  /\ At(r, "finish") /\ Acquire(r) /\ Goto(r, "closing")
  /\ UNCHANGED <<requested, bound, finished, asleep, interrupted, outcome>>

FinishStore(r) ==
  /\ At(r, "closing") /\ finished' = TRUE /\ Release /\ Goto(r, "returned")
  /\ UNCHANGED <<requested, bound, asleep, interrupted, outcome>>

CancelStep(c) == \/ CancelLock(c) \/ CancelTest(c) \/ CancelStore(c)
                 \/ CancelNotify(c) \/ CancelUnlock(c)

(* Everything a run does except sleeping until a timeout. *)
RunStep(r) == \/ Bind(r) \/ EntryTest(r) \/ ParseTest(r) \/ PollTest(r) \/ Quantum(r)
              \/ ReadyTest(r) \/ SettleTest(r)
              \/ BlockedExit(r) \/ WaitLock(r) \/ WaitPredicate(r) \/ WaitRelock(r)
              \/ FinishLock(r) \/ FinishStore(r)

Next == \/ \E c \in Cancellers : CancelStep(c)
        \/ \E r \in Runs : RunStep(r) \/ WaitTimeout(r) \/ SpuriousWake(r)

Spec == Init /\ [][Next]_vars

(***************************************************************************)
(* Fairness.  Host threads that entered cancel() and threads driving a run   *)
(* are scheduled by the host.  Nothing is assumed about timeouts or about    *)
(* whether cancel() is ever called.                                          *)
(***************************************************************************)
CancelProceeds(c) == CancelTest(c) \/ CancelStore(c) \/ CancelNotify(c) \/ CancelUnlock(c)

FairSpec == /\ Spec
            /\ \A c \in Cancellers : WF_vars(CancelProceeds(c))
            /\ \A r \in Runs : WF_vars(RunStep(r))

(***************************************************************************)
(* Properties.                                                              *)
(***************************************************************************)

(* Where a thread holds the mutex. *)
Critical == {"locked", "store", "notify", "unlock", "predicate", "closing"}

(* Flags, program counters and outcomes keep their types; the sleepers are    *)
(* the runs in wait_timeout and the mutex is held exactly inside the critical *)
(* sections.                                                                  *)
TypeOK ==
  /\ asleep = {r \in Runs : At(r, "sleeping")}
  /\ \A t \in Threads : lock = t <=> pc[t] \in Critical
  /\ requested \in BOOLEAN /\ bound \in BOOLEAN /\ finished \in BOOLEAN
  /\ lock \in Threads \cup {NoThread} /\ asleep \subseteq Runs
  /\ pc \in [Threads -> CancellerPCs \cup RunPCs]
  /\ interrupted \in [Runs -> BOOLEAN]
  /\ outcome \in [Runs -> Outcomes \cup {"none"}]

(* `A delayed request cannot spill into a later action': once the action     *)
(* finished, cancel() no longer sets the request, wherever its thread was    *)
(* when the action ended.                                                    *)
LateRequestDropped == [][finished => requested' = requested]_vars

(* `A host cancellation must wake it immediately': no run sleeps on the      *)
(* condition variable with the request set, unless the cancelling thread is  *)
(* between its store and its notify_all.                                     *)
NoMissedWake ==
  requested /\ asleep # {} => \E c \in Cancellers : At(c, "notify")

(* What a run reports agrees with how it ended, however the request and the  *)
(* polls interleave.  A teardown for the request is reported as interrupted; *)
(* an action whose program completed first, or that found everyone blocked,  *)
(* is not; and a run that reports interruption without a teardown failed, in *)
(* the poll that saw the request or in the teardown itself.  Nothing reports *)
(* an interruption that was never requested.                                 *)
OutcomeHonest ==
  \A r \in Runs : At(r, "returned") =>
    /\ outcome[r] \in Outcomes
    /\ outcome[r] = "cancelled" => interrupted[r]
    /\ outcome[r] \in {"completed", "deadlocked"} => ~interrupted[r]
    /\ interrupted[r] => requested

(* A requested cancellation ends the run that holds the token, also when     *)
(* the run is asleep and its timer never fires.                              *)
RequestEndsRun ==
  \A r \in Runs : requested /\ pc[r] \notin {"bind", "rejected"} ~> At(r, "returned")

=============================================================================
