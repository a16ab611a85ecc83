------------------------- MODULE CancellationProofs -------------------------
(***************************************************************************)
(* The token's guarantees for any number of cancelling threads and runs.     *)
(* Everything rests on the mutex: TypeOK says who holds it, and the other    *)
(* invariants use it to rule out that two threads are between the lines of   *)
(* cancel(), wait() and finish() at the same time.                           *)
(***************************************************************************)
EXTENDS Cancellation, TLAPS

(* The steps of one thread, for case splits. *)
LEMMA Steps ==
  ASSUME Next
  PROVE  \/ \E c \in Cancellers : \/ CancelLock(c) \/ CancelTest(c) \/ CancelStore(c)
                                  \/ CancelNotify(c) \/ CancelUnlock(c)
         \/ \E r \in Runs : \/ Bind(r) \/ EntryTest(r) \/ ParseTest(r) \/ PollTest(r) \/ Quantum(r)
                            \/ ReadyTest(r) \/ SettleTest(r) \/ BlockedExit(r)
                            \/ WaitLock(r) \/ WaitPredicate(r) \/ WaitTimeout(r)
                            \/ SpuriousWake(r) \/ WaitRelock(r)
                            \/ FinishLock(r) \/ FinishStore(r)
BY DEF Next, CancelStep, RunStep

(***************************************************************************)
(* The mutex.                                                               *)
(***************************************************************************)
LEMMA TypeInit == Init => TypeOK
BY CancellationAssumption DEF Init, TypeOK, Threads, At, Critical, CancellerPCs, RunPCs

(* A step of a run that stays outside the mutex and the condition variable. *)
LEMMA LocalStep ==
  ASSUME TypeOK, NEW r \in Runs, NEW label \in RunPCs \ (Critical \cup {"sleeping"}),
         pc[r] \notin Critical \cup {"sleeping"}, Goto(r, label),
         UNCHANGED <<requested, bound, finished, lock, asleep>>,
         interrupted' \in [Runs -> BOOLEAN], outcome' \in [Runs -> Outcomes \cup {"none"}]
  PROVE  TypeOK'
BY CancellationAssumption DEF TypeOK, Threads, At, Goto

(* What the two ways to note a result do to the types. *)
LEMMA NotesKeepTypes ==
  ASSUME TypeOK, NEW r \in Runs
  PROVE  /\ Observes(r) => interrupted' \in [Runs -> BOOLEAN]
         /\ \A how \in Outcomes :
              Ends(r, how) => /\ outcome' \in [Runs -> Outcomes \cup {"none"}]
                              /\ Goto(r, "finish")
BY DEF TypeOK, Observes, Ends

LEMMA TypeStep == TypeOK /\ [Next]_vars => TypeOK'
<1> SUFFICES ASSUME TypeOK, [Next]_vars PROVE TypeOK'
  OBVIOUS
<1> USE CancellationAssumption DEF TypeOK, Threads, At, Goto, Acquire, Release,
        Critical, CancellerPCs, RunPCs
<1>1. ASSUME NEW c \in Cancellers, CancelLock(c) PROVE TypeOK'
  BY <1>1 DEF CancelLock
<1>2. ASSUME NEW c \in Cancellers, CancelTest(c) PROVE TypeOK'
  BY <1>2 DEF CancelTest
<1>3. ASSUME NEW c \in Cancellers, CancelStore(c) PROVE TypeOK'
  BY <1>3 DEF CancelStore
<1>4. ASSUME NEW c \in Cancellers, CancelNotify(c) PROVE TypeOK'
  BY <1>4 DEF CancelNotify
<1>5. ASSUME NEW c \in Cancellers, CancelUnlock(c) PROVE TypeOK'
  BY <1>5 DEF CancelUnlock
<1>6. ASSUME NEW r \in Runs, Bind(r) PROVE TypeOK'
  BY <1>6 DEF Bind
<1>7. ASSUME NEW r \in Runs, ParseTest(r) PROVE TypeOK'
  <2>1. PICK label \in {"finish", "poll"} : Goto(r, label)
    BY <1>7 DEF ParseTest, TearDown, Ends
  <2>2. interrupted' \in [Runs -> BOOLEAN] /\ outcome' \in [Runs -> Outcomes \cup {"none"}]
    BY <1>7, NotesKeepTypes DEF ParseTest, TearDown, Outcomes
  <2> QED
    BY <1>7, <2>1, <2>2, LocalStep DEF ParseTest
<1>8. ASSUME NEW r \in Runs, PollTest(r) PROVE TypeOK'
  <2>1. PICK label \in {"finish", "quantum"} : Goto(r, label)
    BY <1>8 DEF PollTest, TearDown, Ends
  <2>2. interrupted' \in [Runs -> BOOLEAN] /\ outcome' \in [Runs -> Outcomes \cup {"none"}]
    BY <1>8, NotesKeepTypes DEF PollTest, TearDown, Outcomes
  <2> QED
    BY <1>8, <2>1, <2>2, LocalStep DEF PollTest
<1>9. ASSUME NEW r \in Runs, Quantum(r) PROVE TypeOK'
  <2>1. PICK label \in {"ready", "settle", "blocked", "finish"} : Goto(r, label)
    BY <1>9 DEF Quantum, TearDown, Ends
  <2>2. interrupted' \in [Runs -> BOOLEAN] /\ outcome' \in [Runs -> Outcomes \cup {"none"}]
    BY <1>9, NotesKeepTypes DEF Quantum, TearDown, Outcomes
  <2> QED
    BY <1>9, <2>1, <2>2, LocalStep DEF Quantum
<1>10. ASSUME NEW r \in Runs, ReadyTest(r) PROVE TypeOK'
  <2>1. PICK label \in {"finish"} : Goto(r, label)
    BY <1>10 DEF ReadyTest, TearDown, Ends
  <2>2. interrupted' \in [Runs -> BOOLEAN] /\ outcome' \in [Runs -> Outcomes \cup {"none"}]
    BY <1>10, NotesKeepTypes DEF ReadyTest, TearDown, Outcomes
  <2> QED
    BY <1>10, <2>1, <2>2, LocalStep DEF ReadyTest
<1>11. ASSUME NEW r \in Runs, SettleTest(r) PROVE TypeOK'
  <2>1. PICK label \in {"finish", "poll", "idle"} : Goto(r, label)
    BY <1>11 DEF SettleTest, TearDown, Ends
  <2>2. interrupted' \in [Runs -> BOOLEAN] /\ outcome' \in [Runs -> Outcomes \cup {"none"}]
    BY <1>11, NotesKeepTypes DEF SettleTest, TearDown, Outcomes
  <2> QED
    BY <1>11, <2>1, <2>2, LocalStep DEF SettleTest
<1>12. ASSUME NEW r \in Runs, BlockedExit(r) PROVE TypeOK'
  BY <1>12 DEF BlockedExit, Ends, Outcomes
<1>13. ASSUME NEW r \in Runs, WaitLock(r) PROVE TypeOK'
  BY <1>13 DEF WaitLock
<1>14. ASSUME NEW r \in Runs, WaitPredicate(r) PROVE TypeOK'
  BY <1>14 DEF WaitPredicate
<1>15. ASSUME NEW r \in Runs, WaitTimeout(r) PROVE TypeOK'
  BY <1>15 DEF WaitTimeout
<1>16. ASSUME NEW r \in Runs, SpuriousWake(r) PROVE TypeOK'
  BY <1>16 DEF SpuriousWake
<1>17. ASSUME NEW r \in Runs, WaitRelock(r) PROVE TypeOK'
  BY <1>17 DEF WaitRelock
<1>18. ASSUME NEW r \in Runs, FinishLock(r) PROVE TypeOK'
  BY <1>18 DEF FinishLock
<1>19. ASSUME NEW r \in Runs, FinishStore(r) PROVE TypeOK'
  BY <1>19 DEF FinishStore
<1>21. ASSUME NEW r \in Runs, EntryTest(r) PROVE TypeOK'
  <2>1. PICK label \in {"finish", "parse"} : Goto(r, label)
    BY <1>21 DEF EntryTest, TearDown, Ends
  <2>2. interrupted' \in [Runs -> BOOLEAN] /\ outcome' \in [Runs -> Outcomes \cup {"none"}]
    BY <1>21, NotesKeepTypes DEF EntryTest, TearDown, Outcomes
  <2> QED
    BY <1>21, <2>1, <2>2, LocalStep DEF EntryTest
<1>20. CASE UNCHANGED vars
  BY <1>20 DEF vars
<1> QED
  BY Steps, <1>1, <1>2, <1>3, <1>4, <1>5, <1>6, <1>7, <1>8, <1>9, <1>10, <1>11, <1>12,
     <1>13, <1>14, <1>15, <1>16, <1>17, <1>18, <1>19, <1>20, <1>21

(* The mutex of interruption.rs is held exactly inside cancel(), finish()    *)
(* and the predicate of wait(), and the sleepers are the runs in wait().     *)
THEOREM LockDiscipline == Spec => []TypeOK
BY TypeInit, TypeStep, PTL DEF Spec

(***************************************************************************)
(* Sleepers.                                                                *)
(***************************************************************************)
LEMMA WakeStep == TypeOK /\ NoMissedWake /\ [Next]_vars => NoMissedWake'
<1> SUFFICES ASSUME TypeOK, NoMissedWake, [Next]_vars PROVE NoMissedWake'
  OBVIOUS
<1> USE CancellationAssumption DEF TypeOK, NoMissedWake, Threads, At, Goto, Acquire,
        Release, Critical, TearDown, Ends
<1>1. ASSUME NEW c \in Cancellers, CancelLock(c) PROVE NoMissedWake'
  BY <1>1 DEF CancelLock
<1>2. ASSUME NEW c \in Cancellers, CancelTest(c) PROVE NoMissedWake'
  BY <1>2 DEF CancelTest
<1>3. ASSUME NEW c \in Cancellers, CancelStore(c) PROVE NoMissedWake'
  BY <1>3 DEF CancelStore
<1>4. ASSUME NEW c \in Cancellers, CancelNotify(c) PROVE NoMissedWake'
  BY <1>4 DEF CancelNotify
<1>5. ASSUME NEW c \in Cancellers, CancelUnlock(c) PROVE NoMissedWake'
  BY <1>5 DEF CancelUnlock
<1>6. ASSUME NEW r \in Runs, Bind(r) PROVE NoMissedWake'
  BY <1>6 DEF Bind
<1>7. ASSUME NEW r \in Runs, ParseTest(r) PROVE NoMissedWake'
  BY <1>7 DEF ParseTest
<1>8. ASSUME NEW r \in Runs, PollTest(r) PROVE NoMissedWake'
  BY <1>8 DEF PollTest
<1>9. ASSUME NEW r \in Runs, Quantum(r) PROVE NoMissedWake'
  BY <1>9 DEF Quantum
<1>10. ASSUME NEW r \in Runs, ReadyTest(r) PROVE NoMissedWake'
  BY <1>10 DEF ReadyTest
<1>11. ASSUME NEW r \in Runs, SettleTest(r) PROVE NoMissedWake'
  BY <1>11 DEF SettleTest
<1>12. ASSUME NEW r \in Runs, BlockedExit(r) PROVE NoMissedWake'
  BY <1>12 DEF BlockedExit
<1>13. ASSUME NEW r \in Runs, WaitLock(r) PROVE NoMissedWake'
  BY <1>13 DEF WaitLock
<1>14. ASSUME NEW r \in Runs, WaitPredicate(r) PROVE NoMissedWake'
  BY <1>14 DEF WaitPredicate
<1>15. ASSUME NEW r \in Runs, WaitTimeout(r) PROVE NoMissedWake'
  BY <1>15 DEF WaitTimeout
<1>16. ASSUME NEW r \in Runs, SpuriousWake(r) PROVE NoMissedWake'
  BY <1>16 DEF SpuriousWake
<1>17. ASSUME NEW r \in Runs, WaitRelock(r) PROVE NoMissedWake'
  BY <1>17 DEF WaitRelock
<1>18. ASSUME NEW r \in Runs, FinishLock(r) PROVE NoMissedWake'
  BY <1>18 DEF FinishLock
<1>19. ASSUME NEW r \in Runs, FinishStore(r) PROVE NoMissedWake'
  BY <1>19 DEF FinishStore
<1>21. ASSUME NEW r \in Runs, EntryTest(r) PROVE NoMissedWake'
  BY <1>21 DEF EntryTest
<1>20. CASE UNCHANGED vars
  BY <1>20 DEF vars
<1> QED
  BY Steps, <1>1, <1>2, <1>3, <1>4, <1>5, <1>6, <1>7, <1>8, <1>9, <1>10, <1>11, <1>12,
     <1>13, <1>14, <1>15, <1>16, <1>17, <1>18, <1>19, <1>20, <1>21

(* `A host cancellation must wake it immediately' (exec.rs): a run goes to    *)
(* sleep only while it holds the mutex and the request is clear, so a store   *)
(* made under the mutex is always followed by a notify_all that reaches it.   *)
THEOREM WakesReachSleepers == Spec => []NoMissedWake
<1>1. Init => NoMissedWake
  BY DEF Init, NoMissedWake
<1> QED
  BY <1>1, LockDiscipline, WakeStep, PTL DEF Spec

(***************************************************************************)
(* Requests after the end of the action.                                    *)
(***************************************************************************)

(* A thread of cancel() that has passed its test of `finished' still holds    *)
(* the mutex, so finish() has not run since.                                  *)
StoreIsTimely == finished => \A c \in Cancellers : pc[c] # "store"

LEMMA TimelyStep == TypeOK /\ StoreIsTimely /\ [Next]_vars => StoreIsTimely'
<1> SUFFICES ASSUME TypeOK, StoreIsTimely, [Next]_vars PROVE StoreIsTimely'
  OBVIOUS
<1> USE CancellationAssumption DEF TypeOK, StoreIsTimely, Threads, At, Goto, Acquire,
        Release, Critical, TearDown, Ends
<1>1. ASSUME NEW c \in Cancellers, CancelLock(c) PROVE StoreIsTimely'
  BY <1>1 DEF CancelLock
<1>2. ASSUME NEW c \in Cancellers, CancelTest(c) PROVE StoreIsTimely'
  BY <1>2 DEF CancelTest
<1>3. ASSUME NEW c \in Cancellers, CancelStore(c) PROVE StoreIsTimely'
  BY <1>3 DEF CancelStore
<1>4. ASSUME NEW c \in Cancellers, CancelNotify(c) PROVE StoreIsTimely'
  BY <1>4 DEF CancelNotify
<1>5. ASSUME NEW c \in Cancellers, CancelUnlock(c) PROVE StoreIsTimely'
  BY <1>5 DEF CancelUnlock
<1>6. ASSUME NEW r \in Runs, Bind(r) PROVE StoreIsTimely'
  BY <1>6 DEF Bind
<1>7. ASSUME NEW r \in Runs, ParseTest(r) PROVE StoreIsTimely'
  BY <1>7 DEF ParseTest
<1>8. ASSUME NEW r \in Runs, PollTest(r) PROVE StoreIsTimely'
  BY <1>8 DEF PollTest
<1>9. ASSUME NEW r \in Runs, Quantum(r) PROVE StoreIsTimely'
  BY <1>9 DEF Quantum
<1>10. ASSUME NEW r \in Runs, ReadyTest(r) PROVE StoreIsTimely'
  BY <1>10 DEF ReadyTest
<1>11. ASSUME NEW r \in Runs, SettleTest(r) PROVE StoreIsTimely'
  BY <1>11 DEF SettleTest
<1>12. ASSUME NEW r \in Runs, BlockedExit(r) PROVE StoreIsTimely'
  BY <1>12 DEF BlockedExit
<1>13. ASSUME NEW r \in Runs, WaitLock(r) PROVE StoreIsTimely'
  BY <1>13 DEF WaitLock
<1>14. ASSUME NEW r \in Runs, WaitPredicate(r) PROVE StoreIsTimely'
  BY <1>14 DEF WaitPredicate
<1>15. ASSUME NEW r \in Runs, WaitTimeout(r) PROVE StoreIsTimely'
  BY <1>15 DEF WaitTimeout
<1>16. ASSUME NEW r \in Runs, SpuriousWake(r) PROVE StoreIsTimely'
  BY <1>16 DEF SpuriousWake
<1>17. ASSUME NEW r \in Runs, WaitRelock(r) PROVE StoreIsTimely'
  BY <1>17 DEF WaitRelock
<1>18. ASSUME NEW r \in Runs, FinishLock(r) PROVE StoreIsTimely'
  BY <1>18 DEF FinishLock
<1>19. ASSUME NEW r \in Runs, FinishStore(r) PROVE StoreIsTimely'
  BY <1>19 DEF FinishStore
<1>21. ASSUME NEW r \in Runs, EntryTest(r) PROVE StoreIsTimely'
  BY <1>21 DEF EntryTest
<1>20. CASE UNCHANGED vars
  BY <1>20 DEF vars
<1> QED
  BY Steps, <1>1, <1>2, <1>3, <1>4, <1>5, <1>6, <1>7, <1>8, <1>9, <1>10, <1>11, <1>12,
     <1>13, <1>14, <1>15, <1>16, <1>17, <1>18, <1>19, <1>20, <1>21

LEMMA TimelyDrops ==
  TypeOK /\ StoreIsTimely /\ [Next]_vars => [finished => requested' = requested]_vars
BY Steps DEF StoreIsTimely, At, CancelLock, CancelTest, CancelStore, CancelNotify,
   CancelUnlock, Bind, EntryTest, ParseTest, PollTest, Quantum, ReadyTest, SettleTest, BlockedExit,
   WaitLock, WaitPredicate, WaitTimeout, SpuriousWake, WaitRelock, FinishLock, FinishStore

(* `A delayed request cannot spill into a later action' (interruption.rs):    *)
(* once finish() has stored `finished', no cancel() changes the request.      *)
THEOREM LateRequestsAreDropped == Spec => LateRequestDropped
<1>1. Init => StoreIsTimely
  BY DEF Init, StoreIsTimely
<1>2. Spec => []StoreIsTimely
  BY <1>1, LockDiscipline, TimelyStep, PTL DEF Spec
<1> QED
  BY <1>2, LockDiscipline, TimelyDrops, PTL DEF Spec, LateRequestDropped

(***************************************************************************)
(* Outcomes.                                                                *)
(***************************************************************************)

(* Where a run has not observed a request, and where its outcome is settled. *)
Unaware == {"bind", "entry", "parse", "poll", "idle", "predicate", "sleeping", "relock"}
Settled == {"finish", "closing", "returned"}

(* A run observes only a request that is there and leaves the poll loop as    *)
(* soon as it has observed one; from then on how it ended and what it reports *)
(* agree.                                                                     *)
OutcomeSettled ==
  \A r \in Runs :
    /\ interrupted[r] => requested
    /\ pc[r] \in Unaware \cup {"quantum"} => ~interrupted[r]
    /\ pc[r] \in Settled =>
         /\ outcome[r] \in Outcomes
         /\ outcome[r] = "cancelled" => interrupted[r]
         /\ outcome[r] \in {"completed", "deadlocked"} => ~interrupted[r]

LEMMA OutcomeStep == TypeOK /\ OutcomeSettled /\ [Next]_vars => OutcomeSettled'
<1> SUFFICES ASSUME TypeOK, OutcomeSettled, [Next]_vars PROVE OutcomeSettled'
  OBVIOUS
<1> USE CancellationAssumption DEF TypeOK, OutcomeSettled, Threads, At, Goto, Acquire,
        Release, Unaware, Settled, TearDown, Ends, Observes, Outcomes
<1>1. ASSUME NEW c \in Cancellers, CancelLock(c) PROVE OutcomeSettled'
  BY <1>1 DEF CancelLock
<1>2. ASSUME NEW c \in Cancellers, CancelTest(c) PROVE OutcomeSettled'
  BY <1>2 DEF CancelTest
<1>3. ASSUME NEW c \in Cancellers, CancelStore(c) PROVE OutcomeSettled'
  BY <1>3 DEF CancelStore
<1>4. ASSUME NEW c \in Cancellers, CancelNotify(c) PROVE OutcomeSettled'
  BY <1>4 DEF CancelNotify
<1>5. ASSUME NEW c \in Cancellers, CancelUnlock(c) PROVE OutcomeSettled'
  BY <1>5 DEF CancelUnlock
<1>6. ASSUME NEW r \in Runs, Bind(r) PROVE OutcomeSettled'
  BY <1>6 DEF Bind
<1>7. ASSUME NEW r \in Runs, ParseTest(r) PROVE OutcomeSettled'
  BY <1>7 DEF ParseTest
<1>8. ASSUME NEW r \in Runs, PollTest(r) PROVE OutcomeSettled'
  BY <1>8 DEF PollTest
<1>9. ASSUME NEW r \in Runs, Quantum(r) PROVE OutcomeSettled'
  BY <1>9 DEF Quantum
<1>10. ASSUME NEW r \in Runs, ReadyTest(r) PROVE OutcomeSettled'
  BY <1>10 DEF ReadyTest
<1>11. ASSUME NEW r \in Runs, SettleTest(r) PROVE OutcomeSettled'
  BY <1>11 DEF SettleTest
<1>12. ASSUME NEW r \in Runs, BlockedExit(r) PROVE OutcomeSettled'
  BY <1>12 DEF BlockedExit
<1>13. ASSUME NEW r \in Runs, WaitLock(r) PROVE OutcomeSettled'
  BY <1>13 DEF WaitLock
<1>14. ASSUME NEW r \in Runs, WaitPredicate(r) PROVE OutcomeSettled'
  BY <1>14 DEF WaitPredicate
<1>15. ASSUME NEW r \in Runs, WaitTimeout(r) PROVE OutcomeSettled'
  BY <1>15 DEF WaitTimeout
<1>16. ASSUME NEW r \in Runs, SpuriousWake(r) PROVE OutcomeSettled'
  BY <1>16 DEF SpuriousWake
<1>17. ASSUME NEW r \in Runs, WaitRelock(r) PROVE OutcomeSettled'
  BY <1>17 DEF WaitRelock
<1>18. ASSUME NEW r \in Runs, FinishLock(r) PROVE OutcomeSettled'
  BY <1>18 DEF FinishLock
<1>19. ASSUME NEW r \in Runs, FinishStore(r) PROVE OutcomeSettled'
  BY <1>19 DEF FinishStore
<1>21. ASSUME NEW r \in Runs, EntryTest(r) PROVE OutcomeSettled'
  BY <1>21 DEF EntryTest
<1>20. CASE UNCHANGED vars
  BY <1>20 DEF vars
<1> QED
  BY Steps, <1>1, <1>2, <1>3, <1>4, <1>5, <1>6, <1>7, <1>8, <1>9, <1>10, <1>11, <1>12,
     <1>13, <1>14, <1>15, <1>16, <1>17, <1>18, <1>19, <1>20, <1>21

(* What a returned run reports agrees with how it ended, failing polls and    *)
(* failing teardowns included: the tests of exec.rs around each poll leave no *)
(* way to report a completed program as interrupted, or a teardown as not.    *)
THEOREM OutcomesAreHonest == Spec => []OutcomeHonest
<1>1. Init => OutcomeSettled
  BY CancellationAssumption DEF Init, OutcomeSettled, Threads, Settled
<1>2. OutcomeSettled => OutcomeHonest
  BY DEF OutcomeSettled, OutcomeHonest, At, Settled
<1> QED
  BY <1>1, <1>2, LockDiscipline, OutcomeStep, PTL DEF Spec
=============================================================================
