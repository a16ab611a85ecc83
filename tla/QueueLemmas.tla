---------------------------- MODULE QueueLemmas ----------------------------
(***************************************************************************)
(* What the queue operators compute, for every queue.  `Retain' is defined  *)
(* by recursion on the length of a prefix, so these lemmas rest on an       *)
(* induction principle for sets of naturals, derived here from the well-     *)
(* foundedness of < because the library's induction theorems take an         *)
(* operator argument.                                                        *)
(***************************************************************************)
EXTENDS Queues, WellFoundedInduction, TLAPS

NatLess == {ss \in Nat \X Nat : ss[1] < ss[2]}

(* A set of naturals that contains 0 and every successor is Nat.             *)
LEMMA NatSetInduction ==
  ASSUME NEW S, S \subseteq Nat, 0 \in S, \A n \in S : n + 1 \in S
  PROVE  S = Nat
<1>1. IsWellFoundedOn(NatLess, Nat)
  BY NatLessThanWellFounded, Zenon DEF OpToRel, NatLess
<1>2. SUFFICES ASSUME Nat \ S # {} PROVE FALSE
  OBVIOUS
<1>3. PICK x \in Nat \ S : \A y \in Nat \ S : <<y, x>> \notin NatLess
  BY <1>1, <1>2, WFMin
<1>4. x # 0 /\ x - 1 \in Nat /\ x - 1 < x
  OBVIOUS
<1>5. x - 1 \in S
  BY <1>3, <1>4 DEF NatLess
<1> QED BY <1>5, <1>4

(* The body of the recursive function in Retain.                             *)
Kept(f, q, S, n) ==
  IF n = 0 THEN << >>
  ELSE IF q[n] \in S THEN Append(f[n - 1], q[n])
  ELSE f[n - 1]

(* The recursion of Retain has a solution on every prefix length.            *)
LEMMA KeptExists ==
  ASSUME NEW q, NEW S, NEW N \in Nat
  PROVE  \E f : f = [n \in 0..N |-> Kept(f, q, S, n)]
<1> DEFINE T == {m \in Nat : \E f : f = [n \in 0..m |-> Kept(f, q, S, n)]}
<1>1. 0 \in T
  <2> DEFINE f == [n \in 0..0 |-> << >>]
  <2>1. f = [n \in 0..0 |-> Kept(f, q, S, n)]
    BY DEF Kept
  <2> QED BY <2>1
<1>2. ASSUME NEW m \in T PROVE m + 1 \in T
  <2>1. PICK f : f = [n \in 0..m |-> Kept(f, q, S, n)]
    OBVIOUS
  <2> DEFINE g == [n \in 0..(m+1) |-> IF n = m + 1 THEN Kept(f, q, S, m + 1) ELSE f[n]]
  <2>2. m \in Nat
    OBVIOUS
  <2>3. \A n \in 0..m : f[n] = Kept(f, q, S, n)
    BY <2>1
  <2>4. ASSUME NEW n \in 0..(m+1) PROVE g[n] = Kept(g, q, S, n)
    <3>1. CASE n = m + 1
      BY <3>1, <2>2 DEF Kept
    <3>2. CASE n \in 0..m
      <4>1. g[n] = f[n] /\ n # m + 1
        BY <3>2, <2>2
      <4>2. n # 0 => g[n-1] = f[n-1]
        BY <3>2, <2>2
      <4> HIDE DEF g
      <4> QED BY <4>1, <4>2, <3>2, <2>3 DEF Kept
    <3> QED BY <3>1, <3>2, <2>2
  <2>5. g = [n \in 0..(m+1) |-> Kept(g, q, S, n)]
    BY <2>4
  <2>6. m + 1 \in Nat
    BY <2>2
  <2> HIDE DEF g
  <2> QED BY <2>5, <2>6
<1> HIDE DEF T
<1>3. T = Nat
  <2>1. T \subseteq Nat
    BY DEF T
  <2> QED BY <1>1, <1>2, <2>1, NatSetInduction
<1> QED BY <1>3 DEF T

(* Retain is the last value of a function that satisfies its recursion.      *)
LEMMA RetainUnfolds ==
  ASSUME NEW P, NEW q \in Seq(P), NEW S
  PROVE  \E f : /\ Retain(q, S) = f[Len(q)]
                /\ \A n \in 0..Len(q) : f[n] = Kept(f, q, S, n)
<1> DEFINE f == CHOOSE g : g = [n \in 0..Len(q) |-> Kept(g, q, S, n)]
<1>1. Retain(q, S) = f[Len(q)]
  BY DEF Retain, Kept
<1>2. f = [n \in 0..Len(q) |-> Kept(f, q, S, n)]
  <2>1. Len(q) \in Nat
    OBVIOUS
  <2> QED BY <2>1, KeptExists
<1> HIDE DEF f
<1>3. \A n \in 0..Len(q) : f[n] = Kept(f, q, S, n)
  BY <1>2
<1> QED BY <1>1, <1>3

(***************************************************************************)
(* Appending, concatenating and taking the tail.                            *)
(***************************************************************************)

(* push_back: the new element is the last, and order is kept.                *)
LEMMA AppendFacts ==
  ASSUME NEW P, NEW q \in Seq(P), NEW e \in P
  PROVE  /\ Append(q, e) \in Seq(P)
         /\ Elems(Append(q, e)) = Elems(q) \cup {e}
         /\ NoRepeat(q) /\ e \notin Elems(q) => NoRepeat(Append(q, e))
         /\ \A a, b : Precedes(q, a, b) => Precedes(Append(q, e), a, b)
         /\ \A a \in Elems(q) : Precedes(Append(q, e), a, e)
<1> DEFINE r == Append(q, e)
<1>1. /\ r \in Seq(P) /\ Len(r) = Len(q) + 1 /\ Len(q) \in Nat
      /\ \A i \in 1..Len(q) : r[i] = q[i]
      /\ r[Len(q) + 1] = e
  OBVIOUS
<1> HIDE DEF r
<1>2. \A i \in 1..Len(r) : i \in 1..Len(q) \/ i = Len(q) + 1
  BY <1>1
<1>3. \A i \in 1..Len(q) : i \in 1..Len(r)
  BY <1>1
<1>4. Len(q) + 1 \in 1..Len(r)
  BY <1>1
<1>5. Elems(r) = Elems(q) \cup {e}
  BY <1>1, <1>2, <1>3, <1>4 DEF Elems
<1>6. NoRepeat(q) /\ e \notin Elems(q) => NoRepeat(r)
  BY <1>1, <1>2 DEF Elems, NoRepeat
<1>7. \A a, b : Precedes(q, a, b) => Precedes(r, a, b)
  BY <1>1, <1>3 DEF Precedes
<1>8. \A a \in Elems(q) : Precedes(r, a, e)
  <2> SUFFICES ASSUME NEW i \in 1..Len(q) PROVE Precedes(r, q[i], e)
    BY DEF Elems
  <2>1. i < Len(q) + 1 /\ r[i] = q[i]
    BY <1>1
  <2> QED BY <2>1, <1>1, <1>3, <1>4 DEF Precedes
<1> QED BY <1>1, <1>5, <1>6, <1>7, <1>8 DEF r

(* Joining two queues: the first keeps its order and stands first.           *)
LEMMA ConcatFacts ==
  ASSUME NEW P, NEW q \in Seq(P), NEW t \in Seq(P)
  PROVE  /\ q \o t \in Seq(P)
         /\ Elems(q \o t) = Elems(q) \cup Elems(t)
         /\ NoRepeat(q) /\ NoRepeat(t) /\ Elems(q) \cap Elems(t) = {} => NoRepeat(q \o t)
         /\ \A a, b : Precedes(q, a, b) => Precedes(q \o t, a, b)
         /\ \A a \in Elems(q), b \in Elems(t) : Precedes(q \o t, a, b)
<1> DEFINE r == q \o t
<1>1. /\ r \in Seq(P) /\ Len(r) = Len(q) + Len(t) /\ Len(q) \in Nat /\ Len(t) \in Nat
      /\ \A i \in 1..Len(q) : r[i] = q[i]
      /\ \A i \in 1..Len(r) : i > Len(q) => r[i] = t[i - Len(q)]
  OBVIOUS
<1> HIDE DEF r
<1>2. \A i \in 1..Len(q) : i \in 1..Len(r)
  BY <1>1
<1>3. \A j \in 1..Len(t) : /\ Len(q) + j \in 1..Len(r) /\ r[Len(q) + j] = t[j]
  <2> TAKE j \in 1..Len(t)
  <2>1. Len(q) + j \in 1..Len(r) /\ Len(q) + j > Len(q) /\ (Len(q) + j) - Len(q) = j
    BY <1>1
  <2> QED BY <2>1, <1>1
<1>4. \A i \in 1..Len(r) : \/ i \in 1..Len(q) /\ r[i] = q[i]
                           \/ i - Len(q) \in 1..Len(t) /\ r[i] = t[i - Len(q)]
  BY <1>1
<1>5. Elems(r) = Elems(q) \cup Elems(t)
  <2>1. Elems(r) \subseteq Elems(q) \cup Elems(t)
    BY <1>4 DEF Elems
  <2>2. Elems(q) \subseteq Elems(r)
    BY <1>1, <1>2 DEF Elems
  <2>3. Elems(t) \subseteq Elems(r)
    <3> SUFFICES ASSUME NEW j \in 1..Len(t) PROVE t[j] \in Elems(r)
      BY DEF Elems
    <3> QED BY <1>3 DEF Elems
  <2> QED BY <2>1, <2>2, <2>3
<1>6. ASSUME NoRepeat(q), NoRepeat(t), Elems(q) \cap Elems(t) = {} PROVE NoRepeat(r)
  <2> SUFFICES ASSUME NEW i \in 1..Len(r), NEW j \in 1..Len(r), r[i] = r[j] PROVE i = j
    BY DEF NoRepeat
  <2>1. \A k \in 1..Len(q), l \in 1..Len(t) : q[k] # t[l]
    BY <1>6 DEF Elems
  <2>2. CASE i \in 1..Len(q) /\ r[i] = q[i] /\ j \in 1..Len(q) /\ r[j] = q[j]
    BY <2>2, <1>6 DEF NoRepeat
  <2>3. CASE /\ i - Len(q) \in 1..Len(t) /\ r[i] = t[i - Len(q)]
             /\ j - Len(q) \in 1..Len(t) /\ r[j] = t[j - Len(q)]
    <3>1. i - Len(q) = j - Len(q)
      BY <2>3, <1>6 DEF NoRepeat
    <3> QED BY <3>1, <1>1
  <2> QED BY <2>1, <2>2, <2>3, <1>4
<1>7. \A a, b : Precedes(q, a, b) => Precedes(r, a, b)
  BY <1>1, <1>2 DEF Precedes
<1>8. \A a \in Elems(q), b \in Elems(t) : Precedes(r, a, b)
  <2> SUFFICES ASSUME NEW i \in 1..Len(q), NEW j \in 1..Len(t) PROVE Precedes(r, q[i], t[j])
    BY DEF Elems
  <2>1. i < Len(q) + j /\ r[i] = q[i] /\ r[Len(q) + j] = t[j]
    BY <1>1, <1>3
  <2> QED BY <2>1, <1>2, <1>3 DEF Precedes
<1> QED BY <1>1, <1>5, <1>6, <1>7, <1>8 DEF r

(* pop_front: exactly the head leaves, and order is kept.                    *)
LEMMA TailFacts ==
  ASSUME NEW P, NEW q \in Seq(P), q # << >>
  PROVE  /\ Head(q) \in Elems(q) /\ Head(q) \in P
         /\ Tail(q) \in Seq(P)
         /\ Elems(Tail(q)) \subseteq Elems(q)
         /\ Elems(q) \ {Head(q)} \subseteq Elems(Tail(q))
         /\ NoRepeat(q) => NoRepeat(Tail(q)) /\ Head(q) \notin Elems(Tail(q))
         /\ \A a, b : Precedes(q, a, b) /\ a # Head(q) => Precedes(Tail(q), a, b)
<1> DEFINE t == Tail(q)
<1>1. /\ Len(q) \in Nat /\ Len(q) >= 1 /\ Head(q) = q[1] /\ q[1] \in P
      /\ t \in Seq(P) /\ Len(t) = Len(q) - 1
      /\ \A i \in 1..Len(t) : t[i] = q[i + 1]
  OBVIOUS
<1> HIDE DEF t
<1>2. \A i \in 1..Len(t) : i + 1 \in 1..Len(q)
  BY <1>1
<1>3. \A i \in 1..Len(q) : i # 1 => i - 1 \in 1..Len(t) /\ t[i - 1] = q[i]
  <2> TAKE i \in 1..Len(q)
  <2> HAVE i # 1
  <2>1. i - 1 \in 1..Len(t) /\ (i - 1) + 1 = i
    BY <1>1
  <2> QED BY <2>1, <1>1
<1>4. 1 \in 1..Len(q)
  BY <1>1
<1>5. NoRepeat(q) => NoRepeat(t) /\ Head(q) \notin Elems(t)
  <2> SUFFICES ASSUME NoRepeat(q) PROVE NoRepeat(t) /\ Head(q) \notin Elems(t)
    OBVIOUS
  <2>1. NoRepeat(t)
    <3> SUFFICES ASSUME NEW i \in 1..Len(t), NEW j \in 1..Len(t), t[i] = t[j] PROVE i = j
      BY DEF NoRepeat
    <3>1. i + 1 = j + 1
      BY <1>1, <1>2 DEF NoRepeat
    <3> QED BY <3>1
  <2>2. ASSUME NEW i \in 1..Len(t), q[1] = t[i] PROVE FALSE
    <3>1. i + 1 = 1
      BY <2>2, <1>1, <1>2, <1>4 DEF NoRepeat
    <3> QED BY <3>1
  <2> QED BY <2>1, <2>2, <1>1 DEF Elems
<1>6. ASSUME NEW a, NEW b, Precedes(q, a, b), a # Head(q)
      PROVE  Precedes(t, a, b)
  <2>1. PICK i \in 1..Len(q), j \in 1..Len(q) : i < j /\ q[i] = a /\ q[j] = b
    BY <1>6 DEF Precedes
  <2>2. i # 1 /\ j # 1 /\ i - 1 < j - 1
    BY <2>1, <1>1, <1>6
  <2>3. /\ i - 1 \in 1..Len(t) /\ t[i - 1] = a
        /\ j - 1 \in 1..Len(t) /\ t[j - 1] = b
    BY <2>1, <2>2, <1>3
  <2> QED BY <2>2, <2>3 DEF Precedes
<1>7. Elems(t) \subseteq Elems(q)
  BY <1>1, <1>2 DEF Elems
<1>8. Elems(q) \ {Head(q)} \subseteq Elems(t)
  <2> SUFFICES ASSUME NEW i \in 1..Len(q), q[i] # q[1] PROVE q[i] \in Elems(t)
    BY <1>1 DEF Elems
  <2> QED BY <1>3 DEF Elems
<1> QED BY <1>1, <1>4, <1>5, <1>6, <1>7, <1>8 DEF Elems, t

(***************************************************************************)
(* What Retain keeps of the first n elements.                               *)
(***************************************************************************)
KeptPrefix(r, P, q, S, n) ==
  /\ r \in Seq(P)
  /\ Elems(r) = {q[i] : i \in 1..n} \cap S
  /\ NoRepeat(q) => NoRepeat(r)
  /\ \A i, j \in 1..n : i < j /\ q[i] \in S /\ q[j] \in S => Precedes(r, q[i], q[j])

(* Every prefix is filtered correctly, by induction on its length.           *)
LEMMA KeptIsPrefix ==
  ASSUME NEW P, NEW q \in Seq(P), NEW S, NEW f,
         \A n \in 0..Len(q) : f[n] = Kept(f, q, S, n)
  PROVE  \A n \in 0..Len(q) : KeptPrefix(f[n], P, q, S, n)
<1> DEFINE T == {n \in Nat : n \in 0..Len(q) => KeptPrefix(f[n], P, q, S, n)}
<1>1. 0 \in T
  <2>1. f[0] = << >>
    BY DEF Kept
  <2>2. Elems(<< >>) = {} /\ NoRepeat(<< >>) /\ << >> \in Seq(P)
    BY DEF Elems, NoRepeat
  <2>3. KeptPrefix(<< >>, P, q, S, 0)
    BY <2>2 DEF KeptPrefix
  <2> QED BY <2>1, <2>3
<1>2. ASSUME NEW n \in T PROVE n + 1 \in T
  <2> SUFFICES ASSUME n + 1 \in 0..Len(q) PROVE KeptPrefix(f[n + 1], P, q, S, n + 1)
    OBVIOUS
  <2> DEFINE m == n + 1
             r == f[n]
  <2>1. /\ n \in Nat /\ n \in 0..Len(q) /\ m \in 1..Len(q) /\ q[m] \in P /\ m - 1 = n
        /\ \A i \in 1..m : i \in 1..n \/ i = m
        /\ \A i \in 1..n : i \in 1..m /\ i \in 1..Len(q) /\ i # m
    OBVIOUS
  <2>2. KeptPrefix(r, P, q, S, n)
    BY <2>1
  <2>3. f[m] = IF q[m] \in S THEN Append(r, q[m]) ELSE r
    BY <2>1 DEF Kept
  <2> HIDE DEF m, r
  <2>4. {q[i] : i \in 1..m} = {q[i] : i \in 1..n} \cup {q[m]}
    BY <2>1 DEF m
  <2>5. CASE q[m] \notin S
    <3>1. f[m] = r
      BY <2>3, <2>5
    <3>2. Elems(r) = {q[i] : i \in 1..m} \cap S
      BY <2>2, <2>4, <2>5 DEF KeptPrefix
    <3>3. \A i, j \in 1..m : i < j /\ q[i] \in S /\ q[j] \in S => Precedes(r, q[i], q[j])
      BY <2>1, <2>2, <2>5 DEF KeptPrefix
    <3>4. r \in Seq(P) /\ (NoRepeat(q) => NoRepeat(r))
      BY <2>2 DEF KeptPrefix
    <3>5. KeptPrefix(r, P, q, S, m)
      BY <3>2, <3>3, <3>4 DEF KeptPrefix
    <3> QED BY <3>1, <3>5 DEF m
  <2>6. CASE q[m] \in S
    <3> DEFINE e == q[m]
               t == Append(r, e)
    <3>1. /\ r \in Seq(P)
          /\ Elems(r) = {q[i] : i \in 1..n} \cap S
          /\ NoRepeat(q) => NoRepeat(r)
          /\ \A i, j \in 1..n : i < j /\ q[i] \in S /\ q[j] \in S => Precedes(r, q[i], q[j])
      BY <2>2 DEF KeptPrefix
    <3>2. /\ t \in Seq(P)
          /\ Elems(t) = Elems(r) \cup {e}
          /\ NoRepeat(r) /\ e \notin Elems(r) => NoRepeat(t)
          /\ \A a, b : Precedes(r, a, b) => Precedes(t, a, b)
          /\ \A a \in Elems(r) : Precedes(t, a, e)
      BY <2>1, <3>1, AppendFacts
    <3> HIDE DEF t
    <3>3. Elems(t) = {q[i] : i \in 1..m} \cap S
      BY <3>1, <3>2, <2>4, <2>6
    <3>4. NoRepeat(q) => e \notin Elems(r)
      BY <2>1, <3>1 DEF NoRepeat
    <3>5. NoRepeat(q) => NoRepeat(t)
      BY <3>1, <3>2, <3>4
    <3>6. ASSUME NEW i \in 1..m, NEW j \in 1..m, i < j, q[i] \in S, q[j] \in S
          PROVE  Precedes(t, q[i], q[j])
      <4>1. i \in 1..n
        BY <2>1, <3>6 DEF m
      <4>2. CASE j \in 1..n
        BY <4>1, <4>2, <3>1, <3>2, <3>6
      <4>3. CASE j = m
        <5>1. q[i] \in Elems(r)
          BY <4>1, <3>1, <3>6
        <5> QED BY <5>1, <4>3, <3>2
      <4> QED BY <4>2, <4>3, <2>1
    <3>7. KeptPrefix(t, P, q, S, m)
      BY <3>2, <3>3, <3>5, <3>6 DEF KeptPrefix
    <3>8. f[m] = t
      BY <2>3, <2>6 DEF t
    <3> QED BY <3>7, <3>8 DEF m
  <2> QED BY <2>5, <2>6
<1> HIDE DEF T
<1>3. T = Nat
  <2>1. T \subseteq Nat
    BY DEF T
  <2> QED BY <1>1, <1>2, <2>1, NatSetInduction
<1> QED BY <1>3 DEF T

(* retain keeps exactly the chosen elements, once each if they were unique,  *)
(* in their order.                                                           *)
LEMMA RetainFacts ==
  ASSUME NEW P, NEW q \in Seq(P), NEW S
  PROVE  /\ Retain(q, S) \in Seq(P)
         /\ Elems(Retain(q, S)) = Elems(q) \cap S
         /\ NoRepeat(q) => NoRepeat(Retain(q, S))
         /\ \A a, b \in S : Precedes(q, a, b) => Precedes(Retain(q, S), a, b)
<1>1. PICK f : /\ Retain(q, S) = f[Len(q)]
               /\ \A n \in 0..Len(q) : f[n] = Kept(f, q, S, n)
  BY RetainUnfolds
<1>2. Len(q) \in 0..Len(q)
  OBVIOUS
<1>3. KeptPrefix(Retain(q, S), P, q, S, Len(q))
  BY <1>1, <1>2, KeptIsPrefix
<1>4. ASSUME NEW a \in S, NEW b \in S, Precedes(q, a, b)
      PROVE  Precedes(Retain(q, S), a, b)
  <2>1. PICK i \in 1..Len(q), j \in 1..Len(q) : i < j /\ q[i] = a /\ q[j] = b
    BY <1>4 DEF Precedes
  <2> QED BY <1>3, <2>1 DEF KeptPrefix
<1>5. Elems(Retain(q, S)) = Elems(q) \cap S
  BY <1>3 DEF KeptPrefix, Elems
<1> QED BY <1>3, <1>4, <1>5 DEF KeptPrefix

(* Removing one element.                                                     *)
LEMMA WithoutFacts ==
  ASSUME NEW P, NEW q \in Seq(P), NEW e
  PROVE  /\ Without(q, e) \in Seq(P)
         /\ Elems(Without(q, e)) = Elems(q) \ {e}
         /\ NoRepeat(q) => NoRepeat(Without(q, e))
         /\ \A a, b : Precedes(q, a, b) /\ a # e /\ b # e => Precedes(Without(q, e), a, b)
<1>1. \A a, b : Precedes(q, a, b) => a \in Elems(q) /\ b \in Elems(q)
  BY DEF Precedes, Elems
<1> QED BY <1>1, RetainFacts DEF Without

=============================================================================
