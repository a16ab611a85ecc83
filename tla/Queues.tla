------------------------------- MODULE Queues -------------------------------
(***************************************************************************)
(* The two operations on VecDeque<ProcessId> that the scheduler needs and  *)
(* that module Sequences lacks in a form the proofs can use.  `retain' is   *)
(* written as a recursive function over prefix lengths, so that module      *)
(* QueueLemmas can derive what it computes.                                 *)
(***************************************************************************)
EXTENDS Integers, Sequences

(* The elements of a queue. *)
Elems(q) == {q[i] : i \in 1..Len(q)}

(* No element occurs twice. *)
NoRepeat(q) == \A i, j \in 1..Len(q) : q[i] = q[j] => i = j

(* q with the elements outside S removed, in the order of q: what            *)
(* VecDeque::retain leaves, and what an in-order filter collects.            *)
Retain(q, S) ==
  LET kept[n \in 0..Len(q)] ==
        IF n = 0 THEN << >>
        ELSE IF q[n] \in S THEN Append(kept[n - 1], q[n])
        ELSE kept[n - 1]
  IN  kept[Len(q)]

(* q.retain(|queued| *queued != e) *)
Without(q, e) == Retain(q, Elems(q) \ {e})

(* a stands before b in q. *)
Precedes(q, a, b) == \E i, j \in 1..Len(q) : i < j /\ q[i] = a /\ q[j] = b
=============================================================================
