------------------------- MODULE DescriptorsProofs -------------------------
(***************************************************************************)
(* Identities, locks and inputs of the arena, for any number of processes,   *)
(* descriptors, inodes and limits.                                           *)
(*                                                                         *)
(* Every method but file_lock, take_file_lock_changes and a thread group's   *)
(* look at the generation relates the arena before and after it as `Evolves'  *)
(* says: each description is kept, dropped or fresh.  The theorems follow     *)
(* from that relation, whatever the callers.                                  *)
(***************************************************************************)
EXTENDS Descriptors, FiniteSetTheorems, SequenceTheorems, TLAPS

(* The types of Descriptors, with counters that are just integers: that they *)
(* are exact is ReferencesExact and PipeEndsCounted, not needed here.        *)
LooseEntries == [kind : Kinds, pipe : Ids \cup {NoId}, references : Int, lock : Locks,
                 filled : Nat, taken : Nat, closed : BOOLEAN]

LoosePipes == {q \in [bytes : Seq(Nat), readers : Int, writers : Int] : Len(q.bytes) <= CAPACITY}

LooseArenas == [descriptions : [Ids -> LooseEntries], pipes : [Ids -> LoosePipes],
                next_description : 1..U32_MAX, next_pipe : 1..U32_MAX,
                file_locks_changed : BOOLEAN, unseen : SUBSET Groups]

(* Identities beyond the counter are unused, the ends of a pipe name it, and *)
(* the cursor of an input lies within its bytes.                             *)
ShapedEntry(a, d) ==
  LET e == a.descriptions[d]
  IN  /\ d >= a.next_description => e.kind = "Absent" /\ e.lock = NoLock
      /\ e.kind \in {"PipeReader", "PipeWriter"} => e.pipe \in Ids
      /\ e.kind = "Input" => e.taken <= e.filled

Shaped(a) == a \in LooseArenas /\ \A d \in Ids : ShapedEntry(a, d)

(* What a read or a write of n bytes moves never exceeds what is there. *)
LEMMA SmallerRange ==
  ASSUME NEW n \in Nat, NEW m \in Nat
  PROVE  Smaller(n, m) \in 0..m
BY SMT DEF Smaller

(* What may become of a description. *)
Kept(e, f) ==
  /\ f.kind = e.kind /\ f.lock = e.lock
  /\ e.kind = "Input" => /\ f.taken >= e.taken
                         /\ e.closed => f.closed /\ f.filled = e.filled

Gone(e, f, b) == f.kind = "Absent" /\ f.lock = NoLock
                 /\ (e.lock # NoLock => b.file_locks_changed /\ b.unseen = Groups)

Fresh(e, f, a, b, d) == /\ e.kind = "Absent" /\ e.lock = NoLock /\ f.lock = NoLock
                        /\ a.next_description <= d /\ d < b.next_description

Evolves(a, b) ==
  /\ a.next_description <= b.next_description
  /\ a.file_locks_changed => b.file_locks_changed
  /\ a.unseen \subseteq b.unseen
  /\ \A d \in Ids :
       LET e == a.descriptions[d]
           f == b.descriptions[d]
       IN  Kept(e, f) \/ Gone(e, f, b) \/ Fresh(e, f, a, b, d)

LEMMA ArenaFields ==
  ASSUME NEW a, a \in LooseArenas
  PROVE  /\ a.descriptions \in [Ids -> LooseEntries]
         /\ a.pipes \in [Ids -> LoosePipes]
         /\ a.next_description \in 1..U32_MAX /\ a.next_pipe \in 1..U32_MAX
         /\ a.file_locks_changed \in BOOLEAN /\ a.unseen \subseteq Groups
         /\ a = [descriptions |-> a.descriptions, pipes |-> a.pipes,
                 next_description |-> a.next_description, next_pipe |-> a.next_pipe,
                 file_locks_changed |-> a.file_locks_changed, unseen |-> a.unseen]
BY DEF LooseArenas

LEMMA EntryFields ==
  ASSUME NEW e \in LooseEntries
  PROVE  /\ e.kind \in Kinds /\ e.pipe \in Ids \cup {NoId} /\ e.references \in Int
         /\ e.lock \in Locks /\ e.filled \in Nat /\ e.taken \in Nat /\ e.closed \in BOOLEAN
BY DEF LooseEntries

LEMMA EvolvesRefl == ASSUME NEW a, Shaped(a) PROVE Evolves(a, a)
<1>1. ASSUME NEW d \in Ids PROVE Kept(a.descriptions[d], a.descriptions[d])
  BY EntryFields, ArenaFields DEF Shaped, Kept
<1> QED
  BY <1>1, ArenaFields DEF Evolves, Shaped

LEMMA EvolvesTrans ==
  ASSUME NEW a, NEW b, NEW c, Shaped(a), Shaped(b), Shaped(c), Evolves(a, b), Evolves(b, c)
  PROVE  Evolves(a, c)
<1>1. /\ a.next_description <= c.next_description
      /\ a.file_locks_changed => c.file_locks_changed
      /\ a.unseen \subseteq c.unseen
  BY ArenaFields DEF Evolves, Shaped
<1>2. ASSUME NEW d \in Ids
      PROVE  LET e == a.descriptions[d]
                 f == c.descriptions[d]
             IN  Kept(e, f) \/ Gone(e, f, c) \/ Fresh(e, f, a, c, d)
  <2> DEFINE e == a.descriptions[d]
             m == b.descriptions[d]
             f == c.descriptions[d]
  <2>1. e \in LooseEntries /\ m \in LooseEntries /\ f \in LooseEntries
    BY ArenaFields DEF Shaped
  <2>2. ShapedEntry(a, d)
    BY DEF Shaped
  <2>3. /\ a.next_description \in Nat /\ b.next_description \in Nat
        /\ c.next_description \in Nat /\ d \in Nat
    BY ArenaFields DEF Shaped, Ids
  <2>7. b.unseen = Groups => c.unseen = Groups
    BY ArenaFields DEF Shaped, Evolves
  <2>4. CASE Kept(m, f)
    <3>1. Kept(e, m) => Kept(e, f)
      BY <2>1, <2>4, EntryFields DEF Kept
    <3>2. Gone(e, m, b) => Gone(e, f, c)
      BY <2>4, <2>7 DEF Gone, Kept, Evolves
    <3>3. Fresh(e, m, a, b, d) => Fresh(e, f, a, c, d)
      BY <2>3, <2>4 DEF Fresh, Kept, Evolves
    <3> QED
      BY <3>1, <3>2, <3>3 DEF Evolves
  <2>5. CASE Gone(m, f, c)
    <3>1. Kept(e, m) => Gone(e, f, c)
      BY <2>5 DEF Gone, Kept
    <3>2. Gone(e, m, b) => Gone(e, f, c)
      BY <2>5, <2>7 DEF Gone, Evolves
    <3>3. Fresh(e, m, a, b, d) => Gone(e, f, c)
      BY <2>5 DEF Fresh, Gone
    <3> QED
      BY <3>1, <3>2, <3>3 DEF Evolves
  <2>6. CASE Fresh(m, f, b, c, d)
    <3>1. a.next_description <= d
      BY <2>3, <2>6 DEF Fresh, Evolves
    <3>2. Fresh(e, f, a, c, d)
      BY <2>2, <2>3, <2>6, <3>1 DEF Fresh, ShapedEntry
    <3> QED
      BY <3>2
  <2> QED
    BY <2>4, <2>5, <2>6 DEF Evolves
<1> QED
  BY <1>1, <1>2 DEF Evolves

(***************************************************************************)
(* retain and release.                                                      *)
(***************************************************************************)
LEMMA RetainShape ==
  ASSUME NEW a, Shaped(a), NEW n \in [Ids -> Int]
  PROVE  /\ Shaped(retain(a, n))
         /\ retain(a, n).file_locks_changed = a.file_locks_changed
         /\ retain(a, n).unseen = a.unseen
         /\ retain(a, n).next_description = a.next_description
         /\ retain(a, n).pipes = a.pipes
         /\ \A d \in Ids :
              retain(a, n).descriptions[d] =
                [a.descriptions[d] EXCEPT !.references = a.descriptions[d].references + n[d]]
<1> DEFINE b == retain(a, n)
           g == [d \in Ids |-> [a.descriptions[d] EXCEPT !.references = @ + n[d]]]
<1>1. b = [a EXCEPT !.descriptions = g]
  BY DEF retain
<1>2. g \in [Ids -> LooseEntries]
  BY ArenaFields DEF Shaped, LooseEntries
<1> HIDE DEF g
<1>3. /\ b.descriptions = g /\ b.pipes = a.pipes /\ b.next_description = a.next_description
      /\ b.next_pipe = a.next_pipe /\ b.file_locks_changed = a.file_locks_changed
      /\ b.unseen = a.unseen
      /\ b \in LooseArenas
  BY <1>1, <1>2, ArenaFields DEF Shaped, LooseArenas
<1>4. \A d \in Ids : g[d] = [a.descriptions[d] EXCEPT !.references = a.descriptions[d].references + n[d]]
  BY DEF g
<1>5. ASSUME NEW d \in Ids PROVE ShapedEntry(b, d)
  <2> DEFINE e == a.descriptions[d]
             f == b.descriptions[d]
  <2>1. e \in LooseEntries
    BY ArenaFields DEF Shaped
  <2>2. f = [e EXCEPT !.references = e.references + n[d]]
    BY <1>3, <1>4
  <2> HIDE DEF e, f
  <2>3. f.kind = e.kind /\ f.lock = e.lock /\ f.pipe = e.pipe /\ f.taken = e.taken
        /\ f.filled = e.filled
    BY <2>1, <2>2 DEF LooseEntries
  <2>4. ShapedEntry(a, d)
    BY DEF Shaped
  <2> QED
    BY <1>3, <2>3, <2>4 DEF ShapedEntry, e, f
<1> HIDE DEF b
<1> QED
  BY <1>3, <1>4, <1>5 DEF Shaped, b

LEMMA RetainEvolves ==
  ASSUME NEW a, Shaped(a), NEW n \in [Ids -> Int]
  PROVE  Evolves(a, retain(a, n))
<1> DEFINE b == retain(a, n)
<1>1. ASSUME NEW d \in Ids PROVE Kept(a.descriptions[d], b.descriptions[d])
  <2> DEFINE e == a.descriptions[d]
             f == b.descriptions[d]
  <2>1. e \in LooseEntries
    BY ArenaFields DEF Shaped
  <2>2. f = [e EXCEPT !.references = e.references + n[d]]
    BY RetainShape
  <2> HIDE DEF e, f
  <2>3. f.kind = e.kind /\ f.lock = e.lock /\ f.taken = e.taken /\ f.filled = e.filled
        /\ f.closed = e.closed
    BY <2>1, <2>2 DEF LooseEntries
  <2>4. Kept(e, f)
    BY <2>1, <2>3, EntryFields DEF Kept
  <2> QED
    BY <2>4 DEF e, f
<1> HIDE DEF b
<1> QED
  BY <1>1, RetainShape, ArenaFields DEF Evolves, Shaped, b

LEMMA AbsentEntry == Absent \in LooseEntries /\ Absent.kind = "Absent" /\ Absent.lock = NoLock
BY DEF Absent, Entry, LooseEntries, Kinds, Locks, NoId

LEMMA ReleasePipeType ==
  ASSUME NEW a, Shaped(a), NEW gone, NEW p \in Ids
  PROVE  ReleasePipe(a, gone, p) \in LoosePipes
<1>1. a.pipes[p] \in LoosePipes
  BY ArenaFields DEF Shaped
<1>2. NoPipe \in LoosePipes
  BY DescriptorsAssumption DEF NoPipe, Pipe, LoosePipes
<1> QED
  BY <1>1, <1>2 DEF ReleasePipe, LoosePipes, Pipe

LEMMA ReleaseEvolves ==
  ASSUME NEW a, Shaped(a), NEW n \in [Ids -> Int]
  PROVE  Shaped(release(a, n)) /\ Evolves(a, release(a, n))
<1> DEFINE b == release(a, n)
           gone == Dropped(a, n)
           less == [d \in Ids |-> [a.descriptions[d] EXCEPT !.references = @ - n[d]]]
           g == [d \in Ids |-> IF d \in gone THEN Absent ELSE less[d]]
           h == [p \in Ids |-> ReleasePipe(a, gone, p)]
           k == a.file_locks_changed \/ \E d \in gone : a.descriptions[d].lock # NoLock
           u == IF \E d \in gone : a.descriptions[d].lock # NoLock THEN Groups ELSE a.unseen
<1>1. b = [a EXCEPT !.descriptions = g, !.pipes = h, !.file_locks_changed = k, !.unseen = u]
  BY DEF release
<1>2. less \in [Ids -> LooseEntries]
  BY ArenaFields DEF Shaped, LooseEntries
<1>3. g \in [Ids -> LooseEntries]
  BY <1>2, AbsentEntry
<1>4. h \in [Ids -> LoosePipes]
  BY ReleasePipeType
<1>5. k \in BOOLEAN /\ u \subseteq Groups /\ a.unseen \subseteq u
  BY ArenaFields DEF Shaped
<1>6. /\ b.descriptions = g /\ b.next_description = a.next_description
      /\ b.file_locks_changed = k /\ b.unseen = u
      /\ b \in LooseArenas
  <2> HIDE DEF b, g, h, k, u
  <2> QED
    BY <1>1, <1>3, <1>4, <1>5, ArenaFields DEF Shaped, LooseArenas
<1>7. ASSUME NEW d \in Ids
      PROVE  /\ ShapedEntry(b, d)
             /\ Kept(a.descriptions[d], b.descriptions[d])
                \/ Gone(a.descriptions[d], b.descriptions[d], b)
  <2> DEFINE e == a.descriptions[d]
             f == b.descriptions[d]
  <2>1. e \in LooseEntries /\ ShapedEntry(a, d)
    BY ArenaFields DEF Shaped
  <2>2. CASE d \in gone
    <3>1. f = Absent
      BY <1>6, <2>2
    <3>2. e.lock # NoLock => b.file_locks_changed /\ b.unseen = Groups
      BY <1>6, <2>2
    <3> QED
      BY <3>1, <3>2, AbsentEntry DEF ShapedEntry, Gone
  <2>3. CASE d \notin gone
    <3>1. f = [e EXCEPT !.references = e.references - n[d]]
      BY <1>6, <2>3
    <3> HIDE DEF e, f
    <3>2. f.kind = e.kind /\ f.lock = e.lock /\ f.pipe = e.pipe /\ f.taken = e.taken
          /\ f.filled = e.filled /\ f.closed = e.closed
      BY <2>1, <3>1 DEF LooseEntries
    <3>3. ShapedEntry(b, d)
      BY <1>6, <2>1, <3>2 DEF ShapedEntry, e, f
    <3>4. Kept(e, f)
      BY <2>1, <3>2, EntryFields DEF Kept
    <3> QED
      BY <3>3, <3>4 DEF e, f
  <2> QED
    BY <2>2, <2>3
<1>8. /\ a.next_description <= b.next_description
      /\ a.file_locks_changed => b.file_locks_changed
      /\ a.unseen \subseteq b.unseen
  BY <1>5, <1>6, ArenaFields DEF Shaped
<1> HIDE DEF b
<1>9. Shaped(b) /\ Evolves(a, b)
  BY <1>6, <1>7, <1>8 DEF Shaped, Evolves
<1> QED
  BY <1>9 DEF b

LEMMA OneType == ASSUME NEW id PROVE One(id) \in [Ids -> Int]
BY DEF One

LEMMA UsesType == ASSUME NEW t, NEW S, IsFiniteSet(S) PROVE Uses(t, S) \in [Ids -> Int]
<1>1. ASSUME NEW d \in Ids PROVE Cardinality({fd \in S : t.entries[fd] = d}) \in Nat
  BY FS_Subset, FS_CardinalityType
<1> QED
  BY <1>1 DEF Uses

(* Retaining and then releasing: install, discard_unreferenced. *)
LEMMA RetainReleaseEvolves ==
  ASSUME NEW a, Shaped(a), NEW i, NEW j
  PROVE  LET b == release(retain(a, One(i)), One(j))
         IN  Shaped(b) /\ Evolves(a, b)
<1>1. Shaped(retain(a, One(i))) /\ Evolves(a, retain(a, One(i)))
  BY RetainShape, RetainEvolves, OneType
<1>2. /\ Shaped(release(retain(a, One(i)), One(j)))
      /\ Evolves(retain(a, One(i)), release(retain(a, One(i)), One(j)))
  BY <1>1, ReleaseEvolves, OneType
<1> QED
  BY <1>1, <1>2, EvolvesTrans

(***************************************************************************)
(* Methods that change one entry.                                           *)
(***************************************************************************)
Put(a, d, f) == [a EXCEPT !.descriptions[d] = f]

LEMMA SetEntry ==
  ASSUME NEW a, Shaped(a), NEW d \in Ids, NEW f \in LooseEntries,
         NEW b, b = Put(a, d, f)
  PROVE  /\ b \in LooseArenas /\ b.descriptions[d] = f
         /\ \A x \in Ids : x # d => b.descriptions[x] = a.descriptions[x]
         /\ b.next_description = a.next_description
         /\ b.file_locks_changed = a.file_locks_changed /\ b.unseen = a.unseen
<1> DEFINE g == [a.descriptions EXCEPT ![d] = f]
<1>1. b = [a EXCEPT !.descriptions = g]
  BY DEF Put
<1>2. g \in [Ids -> LooseEntries] /\ g[d] = f
      /\ \A x \in Ids : x # d => g[x] = a.descriptions[x]
  BY ArenaFields DEF Shaped
<1> HIDE DEF g
<1> QED
  BY <1>1, <1>2, ArenaFields DEF Shaped, LooseArenas

LEMMA SetEntryEvolves ==
  ASSUME NEW a, Shaped(a), NEW d \in Ids, NEW f \in LooseEntries,
         NEW b, b = Put(a, d, f),
         ShapedEntry(b, d),
         Kept(a.descriptions[d], f) \/ Gone(a.descriptions[d], f, b)
  PROVE  Shaped(b) /\ Evolves(a, b)
<1>1. /\ b \in LooseArenas /\ b.descriptions[d] = f
      /\ \A x \in Ids : x # d => b.descriptions[x] = a.descriptions[x]
      /\ b.next_description = a.next_description
      /\ b.file_locks_changed = a.file_locks_changed /\ b.unseen = a.unseen
  BY SetEntry
<1>2. ASSUME NEW x \in Ids, x # d
      PROVE  ShapedEntry(b, x) /\ Kept(a.descriptions[x], b.descriptions[x])
  <2>1. b.descriptions[x] = a.descriptions[x] /\ ShapedEntry(a, x)
    BY <1>1, <1>2 DEF Shaped
  <2>2. a.descriptions[x] \in LooseEntries
    BY ArenaFields DEF Shaped
  <2> QED
    BY <1>1, <2>1, <2>2, EntryFields DEF ShapedEntry, Kept
<1> QED
  BY <1>1, <1>2, ArenaFields DEF Shaped, Evolves

(* The entry of d with its input bytes, cursor and end-of-file mark set. *)
Stream(e, filled, taken, closed) ==
  [e EXCEPT !.filled = filled, !.taken = taken, !.closed = closed]

LEMMA StreamEvolves ==
  ASSUME NEW a, Shaped(a), NEW d \in Ids,
         NEW filled \in Nat, NEW taken \in Nat, NEW closed \in BOOLEAN,
         a.descriptions[d].kind = "Input" =>
           /\ a.descriptions[d].taken <= taken /\ taken <= filled
           /\ a.descriptions[d].closed => closed /\ filled = a.descriptions[d].filled
  PROVE  LET b == Put(a, d, Stream(a.descriptions[d], filled, taken, closed))
         IN  Shaped(b) /\ Evolves(a, b)
<1> DEFINE e == a.descriptions[d]
           f == Stream(e, filled, taken, closed)
           b == Put(a, d, f)
<1>1. e \in LooseEntries /\ ShapedEntry(a, d)
  BY ArenaFields DEF Shaped
<1>2. /\ f \in LooseEntries /\ f.kind = e.kind /\ f.lock = e.lock /\ f.pipe = e.pipe
      /\ f.filled = filled /\ f.taken = taken /\ f.closed = closed
  <2> HIDE DEF e
  <2> QED
    BY <1>1 DEF Stream, LooseEntries
<1> HIDE DEF f
<1>3. b.descriptions[d] = f /\ b.next_description = a.next_description
  BY <1>2, SetEntry
<1>4. ShapedEntry(b, d)
  BY <1>1, <1>2, <1>3 DEF ShapedEntry
<1>5. Kept(e, f)
  BY <1>1, <1>2, EntryFields DEF Kept
<1>6. Shaped(b) /\ Evolves(a, b)
  BY <1>2, <1>4, <1>5, SetEntryEvolves
<1> QED
  BY <1>6 DEF f

LEMMA CloseInputEvolves ==
  ASSUME NEW a, Shaped(a), NEW d \in Ids
  PROVE  Shaped(close_input(a, d)) /\ Evolves(a, close_input(a, d))
<1> DEFINE e == a.descriptions[d]
<1>1. e \in LooseEntries /\ ShapedEntry(a, d)
  BY ArenaFields DEF Shaped
<1>2. CASE e.kind = "Input"
  <2>1. close_input(a, d) = [a EXCEPT !.descriptions[d] = [e EXCEPT !.closed = TRUE]]
    BY <1>2 DEF close_input
  <2>2. [e EXCEPT !.closed = TRUE] = Stream(e, e.filled, e.taken, TRUE)
    BY <1>1 DEF Stream, LooseEntries
  <2>3. close_input(a, d) = Put(a, d, Stream(e, e.filled, e.taken, TRUE))
    BY <2>1, <2>2 DEF Put
  <2>4. /\ e.filled \in Nat /\ e.taken \in Nat /\ TRUE \in BOOLEAN
        /\ e.taken <= e.taken /\ e.taken <= e.filled
    BY <1>1, <1>2, EntryFields DEF ShapedEntry
  <2> QED
    BY <2>3, <2>4, StreamEvolves
<1>3. CASE e.kind # "Input"
  BY <1>3, EvolvesRefl DEF close_input
<1> QED
  BY <1>2, <1>3

LEMMA AppendInputEvolves ==
  ASSUME NEW a, Shaped(a), NEW d \in Ids, NEW n \in Nat
  PROVE  Shaped(append_input(a, d, n)) /\ Evolves(a, append_input(a, d, n))
<1> DEFINE e == a.descriptions[d]
           skip == e.kind # "Input" \/ e.closed \/ e.filled + n > MAX_CAPTURE_BYTES
<1>1. e \in LooseEntries /\ ShapedEntry(a, d)
  BY ArenaFields DEF Shaped
<1>2. CASE ~skip
  <2>1. append_input(a, d, n) = [a EXCEPT !.descriptions[d] = [e EXCEPT !.filled = e.filled + n]]
    BY <1>2 DEF append_input
  <2>2. [e EXCEPT !.filled = e.filled + n] = Stream(e, e.filled + n, e.taken, e.closed)
    BY <1>1 DEF Stream, LooseEntries
  <2>3. append_input(a, d, n) = Put(a, d, Stream(e, e.filled + n, e.taken, e.closed))
    BY <2>1, <2>2 DEF Put
  <2>4. /\ e.filled + n \in Nat /\ e.taken \in Nat /\ e.closed \in BOOLEAN /\ ~e.closed
        /\ e.taken <= e.taken /\ e.taken <= e.filled + n
    BY <1>1, <1>2, EntryFields DEF ShapedEntry
  <2> QED
    BY <2>3, <2>4, StreamEvolves
<1>3. CASE skip
  BY <1>3, EvolvesRefl DEF append_input
<1> QED
  BY <1>2, <1>3

LEMMA DrainCaptureEvolves ==
  ASSUME NEW a, Shaped(a), NEW d \in Ids
  PROVE  Shaped(drain_capture(a, d)) /\ Evolves(a, drain_capture(a, d))
<1> DEFINE e == a.descriptions[d]
<1>1. e \in LooseEntries
  BY ArenaFields DEF Shaped
<1>2. CASE e.kind = "Capture"
  <2>1. drain_capture(a, d) = [a EXCEPT !.descriptions[d] = [e EXCEPT !.taken = e.filled]]
    BY <1>2 DEF drain_capture
  <2>2. [e EXCEPT !.taken = e.filled] = Stream(e, e.filled, e.filled, e.closed)
    BY <1>1 DEF Stream, LooseEntries
  <2>3. drain_capture(a, d) = Put(a, d, Stream(e, e.filled, e.filled, e.closed))
    BY <2>1, <2>2 DEF Put
  <2>4. e.filled \in Nat /\ e.closed \in BOOLEAN
    BY <1>1, EntryFields
  <2> QED
    BY <1>2, <2>3, <2>4, StreamEvolves
<1>3. CASE e.kind # "Capture"
  BY <1>3, EvolvesRefl DEF drain_capture
<1> QED
  BY <1>2, <1>3

(***************************************************************************)
(* Methods that change no entry.                                            *)
(***************************************************************************)
LEMMA SameEntriesEvolve ==
  ASSUME NEW a, Shaped(a), NEW b \in LooseArenas,
         b.descriptions = a.descriptions, b.next_description = a.next_description,
         b.file_locks_changed = a.file_locks_changed, b.unseen = a.unseen
  PROVE  Shaped(b) /\ Evolves(a, b)
<1>1. \A d \in Ids : ShapedEntry(b, d)
  BY DEF Shaped, ShapedEntry
<1>2. Evolves(a, a)
  BY EvolvesRefl
<1> QED
  BY <1>1, <1>2 DEF Shaped, Evolves, Gone, Fresh

LEMMA SetBytesEvolves ==
  ASSUME NEW a, Shaped(a), NEW p \in Ids, NEW bytes \in Seq(Nat), Len(bytes) <= CAPACITY,
         NEW b, b = [a EXCEPT !.pipes = [a.pipes EXCEPT ![p] = [a.pipes[p] EXCEPT !.bytes = bytes]]]
  PROVE  Shaped(b) /\ Evolves(a, b)
<1> DEFINE q == [a.pipes[p] EXCEPT !.bytes = bytes]
           h == [a.pipes EXCEPT ![p] = q]
<1>1. a.pipes[p] \in LoosePipes
  BY ArenaFields DEF Shaped
<1>2. q \in LoosePipes
  BY <1>1 DEF LoosePipes
<1> HIDE DEF q
<1>3. h \in [Ids -> LoosePipes]
  BY <1>2, ArenaFields DEF Shaped
<1>4. b = [a EXCEPT !.pipes = h]
  BY DEF q
<1> HIDE DEF h
<1>5. /\ b \in LooseArenas /\ b.descriptions = a.descriptions
      /\ b.next_description = a.next_description
      /\ b.file_locks_changed = a.file_locks_changed /\ b.unseen = a.unseen
  BY <1>3, <1>4, ArenaFields DEF Shaped, LooseArenas
<1> QED
  BY <1>5, SameEntriesEvolve

LEMMA SuffixType ==
  ASSUME NEW q \in Seq(Nat), NEW m \in 0..Len(q), Len(q) <= CAPACITY
  PROVE  SubSeq(q, m + 1, Len(q)) \in Seq(Nat) /\ Len(SubSeq(q, m + 1, Len(q))) <= CAPACITY
<1>1. Len(q) \in Nat /\ m \in Nat /\ m <= Len(q)
  OBVIOUS
<1>2. \A i \in (m + 1)..Len(q) : i \in 1..Len(q)
  BY <1>1
<1>3. /\ SubSeq(q, m + 1, Len(q)) \in Seq(Nat)
      /\ Len(SubSeq(q, m + 1, Len(q))) = IF m + 1 <= Len(q) THEN Len(q) - (m + 1) + 1 ELSE 0
  BY <1>1, <1>2, SubSeqProperties
<1> QED
  BY <1>1, <1>3, DescriptorsAssumption

LEMMA ReadEvolves ==
  ASSUME NEW a, Shaped(a), NEW d \in Ids, NEW n \in Nat
  PROVE  Shaped(read(a, d, n)) /\ Evolves(a, read(a, d, n))
<1> DEFINE e == a.descriptions[d]
<1>1. e \in LooseEntries /\ ShapedEntry(a, d)
  BY ArenaFields DEF Shaped
<1>2. CASE ~ReadBlocks(a, d) /\ e.kind = "Input"
  <2> DEFINE taken == Smaller(e.taken + n, e.filled)
  <2>1. read(a, d, n) = [a EXCEPT !.descriptions[d] = [e EXCEPT !.taken = taken]]
    BY <1>2 DEF read
  <2>2. /\ taken \in Nat /\ e.taken <= taken /\ taken <= e.filled
        /\ e.filled \in Nat /\ e.closed \in BOOLEAN
    BY <1>1, <1>2, EntryFields DEF Smaller, ShapedEntry
  <2> HIDE DEF taken
  <2>3. [e EXCEPT !.taken = taken] = Stream(e, e.filled, taken, e.closed)
    BY <1>1 DEF Stream, LooseEntries
  <2>4. read(a, d, n) = Put(a, d, Stream(e, e.filled, taken, e.closed))
    BY <2>1, <2>3 DEF Put
  <2> QED
    BY <2>2, <2>4, StreamEvolves
<1>3. CASE ~ReadBlocks(a, d) /\ e.kind = "PipeReader"
  <2> DEFINE old == a.pipes[e.pipe].bytes
             bytes == SubSeq(old, Smaller(n, Len(old)) + 1, Len(old))
  <2>1. e.pipe \in Ids /\ a.pipes[e.pipe] \in LoosePipes
    BY <1>1, <1>3, ArenaFields DEF ShapedEntry, Shaped
  <2>2. old \in Seq(Nat) /\ Len(old) <= CAPACITY /\ Len(old) \in Nat
    BY <2>1 DEF LoosePipes
  <2>3. read(a, d, n) = [a EXCEPT !.pipes = [a.pipes EXCEPT ![e.pipe] =
                                               [a.pipes[e.pipe] EXCEPT !.bytes = bytes]]]
    BY <1>3 DEF read
  <2>4. bytes \in Seq(Nat) /\ Len(bytes) <= CAPACITY
    <3>1. Smaller(n, Len(old)) \in 0..Len(old)
      BY <2>2, SmallerRange, Zenon
    <3> QED
      BY <2>2, <3>1, SuffixType, DescriptorsAssumption
  <2> HIDE DEF bytes
  <2> QED
    BY <2>1, <2>3, <2>4, SetBytesEvolves
<1>4. CASE ReadBlocks(a, d) \/ e.kind \notin {"Input", "PipeReader"}
  BY <1>4, EvolvesRefl DEF read
<1> QED
  BY <1>2, <1>3, <1>4

LEMMA SmallerType ==
  ASSUME NEW m \in Nat, NEW n \in Nat
  PROVE  Smaller(m, n) \in Nat /\ Smaller(m, n) <= m
BY DEF Smaller

LEMMA AcceptedType ==
  ASSUME NEW a, Shaped(a), NEW d \in Ids, NEW n \in Nat
  PROVE  /\ Accepted(a, d, n) \in Nat
         /\ a.descriptions[d].kind = "PipeWriter" =>
              Accepted(a, d, n) <= CAPACITY - Len(a.pipes[a.descriptions[d].pipe].bytes)
<1> DEFINE e == a.descriptions[d]
           q == a.pipes[e.pipe]
           available == CAPACITY - Len(q.bytes)
<1>1. CASE e.kind = "PipeWriter"
  <2>1. e.pipe \in Ids
    BY <1>1 DEF ShapedEntry, Shaped
  <2>2. q \in LoosePipes
    BY <2>1, ArenaFields DEF Shaped
  <2>3. Accepted(a, d, n) = IF q.readers = 0 \/ available = 0 THEN 0 ELSE Smaller(available, n)
    BY <1>1 DEF Accepted
  <2> HIDE DEF q
  <2>4. available \in Nat
    BY <2>2, DescriptorsAssumption DEF LoosePipes
  <2> HIDE DEF available
  <2>5. Accepted(a, d, n) \in Nat /\ Accepted(a, d, n) <= available
    BY <2>3, <2>4, SmallerType
  <2> QED
    BY <2>5 DEF available, q
<1>2. CASE e.kind # "PipeWriter"
  BY <1>2 DEF Accepted
<1> QED
  BY <1>1, <1>2

LEMMA WriteEvolves ==
  ASSUME NEW a, Shaped(a), NEW d \in Ids, NEW n \in Nat, NEW before \in Nat
  PROVE  Shaped(write(a, d, n, before)) /\ Evolves(a, write(a, d, n, before))
<1> DEFINE e == a.descriptions[d]
           b == write(a, d, n, before)
<1>1. e \in LooseEntries /\ ShapedEntry(a, d)
  BY ArenaFields DEF Shaped
<1>2. CASE e.kind = "Capture" /\ e.filled + n <= MAX_CAPTURE_BYTES
  <2>1. b = [a EXCEPT !.descriptions[d] = [e EXCEPT !.filled = e.filled + n]]
    BY <1>2 DEF write
  <2>2. [e EXCEPT !.filled = e.filled + n] = Stream(e, e.filled + n, e.taken, e.closed)
    BY <1>1 DEF Stream, LooseEntries
  <2>3. b = Put(a, d, Stream(e, e.filled + n, e.taken, e.closed))
    BY <2>1, <2>2 DEF Put
  <2>4. e.filled + n \in Nat /\ e.taken \in Nat /\ e.closed \in BOOLEAN
    BY <1>1, EntryFields
  <2> QED
    BY <1>2, <2>3, <2>4, StreamEvolves
<1>3. CASE e.kind = "PipeWriter"
  <2> DEFINE old == a.pipes[e.pipe].bytes
             k == Accepted(a, d, n)
             added == [i \in 1..k |-> before + i]
             bytes == old \o added
  <2>1. e.pipe \in Ids /\ a.pipes[e.pipe] \in LoosePipes
    BY <1>1, <1>3, ArenaFields DEF ShapedEntry, Shaped
  <2>2. old \in Seq(Nat) /\ Len(old) \in Nat
    BY <2>1 DEF LoosePipes
  <2>3. k \in Nat /\ k <= CAPACITY - Len(old)
    BY <1>3, AcceptedType
  <2>4. b = [a EXCEPT !.pipes = [a.pipes EXCEPT ![e.pipe] =
                                   [a.pipes[e.pipe] EXCEPT !.bytes = bytes]]]
    BY <1>3 DEF write
  <2>5. bytes \in Seq(Nat) /\ Len(bytes) <= CAPACITY
    <3> HIDE DEF k, old
    <3>1. added \in Seq(Nat) /\ Len(added) = k
      BY <2>3
    <3> HIDE DEF added
    <3> QED
      BY <2>2, <2>3, <3>1, DescriptorsAssumption
  <2> HIDE DEF bytes
  <2> QED
    BY <2>1, <2>4, <2>5, SetBytesEvolves
<1>4. CASE /\ e.kind # "PipeWriter"
           /\ ~(e.kind = "Capture" /\ e.filled + n <= MAX_CAPTURE_BYTES)
  BY <1>4, EvolvesRefl DEF write
<1> QED
  BY <1>2, <1>3, <1>4

(***************************************************************************)
(* Methods that open descriptions.                                          *)
(***************************************************************************)
LEMMA EntryType ==
  ASSUME NEW kind \in Kinds, NEW p \in Ids \cup {NoId}
  PROVE  /\ Entry(kind, p) \in LooseEntries
         /\ Entry(kind, p).kind = kind /\ Entry(kind, p).pipe = p
         /\ Entry(kind, p).lock = NoLock
         /\ Entry(kind, p).taken <= Entry(kind, p).filled
BY DEF Entry, LooseEntries, Locks

LEMMA AllocateEvolves ==
  ASSUME NEW a, Shaped(a), a.next_description < U32_MAX,
         NEW f \in LooseEntries, f.lock = NoLock, f.taken <= f.filled,
         f.kind \in {"PipeReader", "PipeWriter"} => f.pipe \in Ids
  PROVE  LET b == allocate(a, f)
         IN  /\ Shaped(b) /\ Evolves(a, b)
             /\ b.descriptions[a.next_description] = f
             /\ b.next_description = a.next_description + 1
             /\ b.next_pipe = a.next_pipe /\ b.pipes = a.pipes
             /\ b.file_locks_changed = a.file_locks_changed /\ b.unseen = a.unseen
<1> DEFINE n == a.next_description
           b == allocate(a, f)
           g == [a.descriptions EXCEPT ![n] = f]
<1>1. n \in Ids /\ n \in Nat /\ n + 1 \in 1..U32_MAX
  BY ArenaFields, DescriptorsAssumption DEF Shaped, Ids
<1>2. b = [a EXCEPT !.next_description = n + 1, !.descriptions = g]
  BY DEF allocate
<1>3. /\ f \in LooseEntries /\ f.lock = NoLock /\ f.taken <= f.filled
      /\ f.kind \in {"PipeReader", "PipeWriter"} => f.pipe \in Ids
  OBVIOUS
<1>4. g \in [Ids -> LooseEntries] /\ g[n] = f /\ \A d \in Ids : d # n => g[d] = a.descriptions[d]
  BY <1>1, <1>3, ArenaFields DEF Shaped
<1> HIDE DEF g, b
<1>5. /\ b \in LooseArenas /\ b.descriptions = g /\ b.next_description = n + 1
      /\ b.pipes = a.pipes /\ b.next_pipe = a.next_pipe
      /\ b.file_locks_changed = a.file_locks_changed /\ b.unseen = a.unseen
  BY <1>1, <1>2, <1>4, ArenaFields DEF Shaped, LooseArenas
<1>6. ASSUME NEW d \in Ids
      PROVE  /\ ShapedEntry(b, d)
             /\ \/ Kept(a.descriptions[d], b.descriptions[d])
                \/ Fresh(a.descriptions[d], b.descriptions[d], a, b, d)
  <2>1a. ShapedEntry(a, d) /\ d \in Nat
    BY DEF Shaped, Ids
  <2>1b. a.descriptions[d] \in LooseEntries
    BY ArenaFields DEF Shaped
  <2>1. ShapedEntry(a, d) /\ a.descriptions[d] \in LooseEntries /\ d \in Nat
    BY <2>1a, <2>1b
  <2>2. CASE d = n
    <3>1. b.descriptions[d] = f
      BY <1>4, <1>5, <2>2
    <3>2. ShapedEntry(b, d)
      BY <1>1, <1>3, <1>5, <2>2, <3>1 DEF ShapedEntry
    <3>3. Fresh(a.descriptions[d], b.descriptions[d], a, b, d)
      BY <1>1, <1>3, <1>5, <2>1, <2>2, <3>1 DEF Fresh, ShapedEntry
    <3> QED
      BY <3>2, <3>3
  <2>3. CASE d # n
    <3>1. b.descriptions[d] = a.descriptions[d]
      BY <1>4, <1>5, <2>3
    <3>2. ShapedEntry(b, d)
      BY <1>1, <1>5, <2>1, <3>1 DEF ShapedEntry
    <3>3. Kept(a.descriptions[d], b.descriptions[d])
      BY <2>1, <3>1, EntryFields DEF Kept
    <3> QED
      BY <3>2, <3>3
  <2> QED
    BY <2>2, <2>3
<1>7. Shaped(b) /\ Evolves(a, b)
  BY <1>1, <1>5, <1>6 DEF Shaped, Evolves
<1> QED
  BY <1>4, <1>5, <1>7 DEF b

(* The bookkeeping of pipe identities does not touch an entry. *)
LEMMA NextPipeEvolves ==
  ASSUME NEW a, Shaped(a), a.next_pipe # U32_MAX, NEW b, b = [a EXCEPT !.next_pipe = a.next_pipe + 1]
  PROVE  /\ Shaped(b) /\ Evolves(a, b)
         /\ b.next_description = a.next_description /\ b.pipes = a.pipes
<1>1. a.next_pipe + 1 \in 1..U32_MAX
  BY ArenaFields, DescriptorsAssumption DEF Shaped
<1>2. /\ b \in LooseArenas /\ b.descriptions = a.descriptions
      /\ b.next_description = a.next_description /\ b.pipes = a.pipes
      /\ b.file_locks_changed = a.file_locks_changed /\ b.unseen = a.unseen
  BY <1>1, ArenaFields DEF Shaped, LooseArenas
<1> QED
  BY <1>2, SameEntriesEvolve

LEMMA NewPipeEvolves ==
  ASSUME NEW a, Shaped(a), NEW p \in Ids,
         NEW b, b = [a EXCEPT !.pipes = [a.pipes EXCEPT ![p] = Pipe(<< >>, 1, 1)]]
  PROVE  Shaped(b) /\ Evolves(a, b)
<1> DEFINE h == [a.pipes EXCEPT ![p] = Pipe(<< >>, 1, 1)]
<1>1. Pipe(<< >>, 1, 1) \in LoosePipes
  BY DescriptorsAssumption DEF Pipe, LoosePipes
<1>2. h \in [Ids -> LoosePipes]
  BY <1>1, ArenaFields DEF Shaped
<1> HIDE DEF h
<1>3. /\ b \in LooseArenas /\ b.descriptions = a.descriptions
      /\ b.next_description = a.next_description
      /\ b.file_locks_changed = a.file_locks_changed /\ b.unseen = a.unseen
  BY <1>2, ArenaFields DEF Shaped, LooseArenas, h
<1> QED
  BY <1>3, SameEntriesEvolve

LEMMA OpenPipeEvolves ==
  ASSUME NEW a, Shaped(a)
  PROVE  Shaped(open_pipe(a)) /\ Evolves(a, open_pipe(a))
<1> DEFINE p == a.next_pipe
           b == [a EXCEPT !.next_pipe = a.next_pipe + 1]
           c == allocate(b, Entry("PipeReader", p))
           u == [c EXCEPT !.descriptions[b.next_description] = Absent]
           d == allocate(c, Entry("PipeWriter", p))
           v == [d EXCEPT !.pipes[p] = Pipe(<< >>, 1, 1)]
           full == Cardinality(LivePipes(a)) >= MAX_PIPES \/ p = U32_MAX
<1>1. open_pipe(a) = IF full THEN a ELSE IF ~CanAllocate(b) THEN b
                     ELSE IF ~CanAllocate(c) THEN u ELSE v
  BY DEF open_pipe
<1>2. CASE full
  BY <1>1, <1>2, EvolvesRefl
<1>3. CASE ~full
  <2>1. p \in Ids
    BY <1>3, ArenaFields, DescriptorsAssumption DEF Shaped, Ids
  <2>2. "PipeReader" \in Kinds /\ "PipeWriter" \in Kinds
    BY DEF Kinds
  <2>3. Shaped(b) /\ Evolves(a, b)
    BY <1>3, NextPipeEvolves
  <2> HIDE DEF b
  <2>4. CASE ~CanAllocate(b)
    BY <1>1, <1>3, <2>3, <2>4
  <2>5. CASE CanAllocate(b)
    <3>1. /\ Shaped(c) /\ Evolves(b, c)
          /\ c.descriptions[b.next_description] = Entry("PipeReader", p)
          /\ c.next_description = b.next_description + 1
      BY <2>1, <2>2, <2>3, <2>5, EntryType, AllocateEvolves DEF CanAllocate
    <3>2. Evolves(a, c)
      BY <2>3, <3>1, EvolvesTrans
    <3> HIDE DEF c
    <3>3. CASE ~CanAllocate(c)
      <4> DEFINE n == b.next_description
      <4>1. n \in Ids
        BY <2>3, <2>5, ArenaFields, DescriptorsAssumption DEF CanAllocate, Shaped, Ids
      <4>2. u = Put(c, n, Absent)
        BY DEF Put
      <4> HIDE DEF n, u
      <4>3. u.descriptions[n] = Absent
        BY <3>1, <4>1, <4>2, AbsentEntry, SetEntry
      <4>4. c.descriptions[n].lock = NoLock
        BY <2>1, <2>2, <3>1, EntryType DEF n
      <4>5. ShapedEntry(u, n) /\ Gone(c.descriptions[n], Absent, u)
        BY <4>3, <4>4, AbsentEntry DEF ShapedEntry, Gone
      <4>6. Shaped(u) /\ Evolves(c, u)
        BY <3>1, <4>1, <4>2, <4>5, AbsentEntry, SetEntryEvolves
      <4>7. Evolves(a, u)
        BY <3>1, <3>2, <4>6, EvolvesTrans
      <4> QED
        BY <1>1, <1>3, <2>5, <3>3, <4>6, <4>7
    <3>4. CASE CanAllocate(c)
      <4>1. Shaped(d) /\ Evolves(c, d)
        BY <2>1, <2>2, <3>1, <3>4, EntryType, AllocateEvolves DEF CanAllocate
      <4> HIDE DEF d
      <4>2. Shaped(v) /\ Evolves(d, v)
        BY <2>1, <4>1, NewPipeEvolves
      <4> HIDE DEF v
      <4>3. Evolves(a, v)
        BY <3>1, <3>2, <4>1, <4>2, EvolvesTrans
      <4> QED
        BY <1>1, <1>3, <2>5, <3>4, <4>2, <4>3
    <3> QED
      BY <3>3, <3>4
  <2> QED
    BY <2>4, <2>5
<1> QED
  BY <1>2, <1>3

(***************************************************************************)
(* file_lock.                                                               *)
(***************************************************************************)
Relock(e, lock) == [e EXCEPT !.lock = lock]

(* Only the lock of d changes; a change of a lock that was held raises the   *)
(* flag, and a new lock conflicts with no other.                             *)
LockStep(a, b, d) ==
  /\ Shaped(b)
  /\ b.next_description = a.next_description
  /\ a.file_locks_changed => b.file_locks_changed
  /\ a.unseen \subseteq b.unseen
  /\ \A x \in Ids : x # d => b.descriptions[x] = a.descriptions[x]
  /\ \E lock \in Locks :
       /\ b.descriptions[d] = Relock(a.descriptions[d], lock)
       /\ a.descriptions[d].lock \notin {NoLock, lock}
            => b.file_locks_changed /\ b.unseen = Groups
       /\ lock \notin {NoLock, a.descriptions[d].lock} =>
            \A x \in Ids : x # d => ~Conflicts(a.descriptions[x].lock, lock[1], lock[2])

(* d's lock set to `lock', the flag to `flag' and the groups that have not    *)
(* seen the generation to `groups'.                                           *)
SetLock(a, d, lock, flag, groups) ==
  [a EXCEPT !.descriptions = [a.descriptions EXCEPT ![d] = Relock(a.descriptions[d], lock)],
            !.file_locks_changed = flag, !.unseen = groups]

LEMMA RelockEntry ==
  ASSUME NEW e \in LooseEntries, NEW lock \in Locks
  PROVE  /\ Relock(e, lock) \in LooseEntries /\ Relock(e, lock).lock = lock
         /\ Relock(e, lock).kind = e.kind /\ Relock(e, lock).pipe = e.pipe
         /\ Relock(e, lock).taken = e.taken /\ Relock(e, lock).filled = e.filled
         /\ Relock(e, lock).closed = e.closed
         /\ Relock(e, e.lock) = e
BY DEF Relock, LooseEntries

LEMMA SetLockShape ==
  ASSUME NEW a, Shaped(a), NEW d \in Ids, d < a.next_description,
         NEW lock \in Locks, NEW flag \in BOOLEAN, NEW groups \in SUBSET Groups
  PROVE  LET b == SetLock(a, d, lock, flag, groups)
         IN  /\ Shaped(b) /\ b.next_description = a.next_description
             /\ b.file_locks_changed = flag /\ b.unseen = groups
             /\ b.descriptions[d] = Relock(a.descriptions[d], lock)
             /\ \A x \in Ids : x # d => b.descriptions[x] = a.descriptions[x]
<1> DEFINE e == a.descriptions[d]
           f == Relock(e, lock)
           g == [a.descriptions EXCEPT ![d] = f]
           b == SetLock(a, d, lock, flag, groups)
<1>1. e \in LooseEntries
  BY ArenaFields DEF Shaped
<1>2. /\ f \in LooseEntries /\ f.kind = e.kind /\ f.pipe = e.pipe
      /\ f.taken = e.taken /\ f.filled = e.filled
  BY <1>1, RelockEntry
<1>3. b = [a EXCEPT !.descriptions = g, !.file_locks_changed = flag, !.unseen = groups]
  BY DEF SetLock
<1> HIDE DEF f
<1>4. g \in [Ids -> LooseEntries] /\ g[d] = f /\ \A x \in Ids : x # d => g[x] = a.descriptions[x]
  BY <1>2, ArenaFields DEF Shaped
<1> HIDE DEF g, b
<1>5. /\ b \in LooseArenas /\ b.descriptions = g
      /\ b.next_description = a.next_description /\ b.file_locks_changed = flag
      /\ b.unseen = groups
  BY <1>3, <1>4, ArenaFields DEF Shaped, LooseArenas
<1>6. ASSUME NEW x \in Ids PROVE ShapedEntry(b, x)
  <2>1. ShapedEntry(a, x)
    BY DEF Shaped
  <2>2. CASE x = d
    <3>1. ~(d >= b.next_description)
      BY <1>5, ArenaFields DEF Shaped, Ids
    <3> QED
      BY <1>2, <1>4, <1>5, <2>1, <2>2, <3>1 DEF ShapedEntry
  <2>3. CASE x # d
    BY <1>4, <1>5, <2>1, <2>3 DEF ShapedEntry
  <2> QED
    BY <2>2, <2>3
<1> QED
  BY <1>4, <1>5, <1>6 DEF Shaped, b, f

LEMMA FileLockStep ==
  ASSUME NEW a, Shaped(a), NEW d \in Ids, a.descriptions[d].kind = "File",
         NEW inode \in Inodes, NEW mode \in Modes \cup {"None"}
  PROVE  LockStep(a, file_lock(a, d, inode, mode), d)
<1> DEFINE e == a.descriptions[d]
           held == e.lock
           want == IF mode = "None" THEN NoLock ELSE <<inode, mode>>
           flag == a.file_locks_changed \/ held # NoLock
           groups == IF held # NoLock THEN Groups ELSE a.unseen
           b == [a EXCEPT !.descriptions[d].lock = NoLock, !.file_locks_changed = flag,
                          !.unseen = groups]
           c == [b EXCEPT !.descriptions[d].lock = want]
           busy == \E x \in Ids : Conflicts(b.descriptions[x].lock, inode, mode)
<1>1. file_lock(a, d, inode, mode) =
        IF held = want THEN a ELSE IF mode = "None" \/ busy THEN b ELSE c
  BY DEF file_lock
<1>2. e \in LooseEntries /\ held \in Locks
  BY ArenaFields, EntryFields DEF Shaped
<1>3. /\ want \in Locks /\ NoLock \in Locks /\ flag \in BOOLEAN
      /\ groups \in SUBSET Groups /\ a.unseen \subseteq groups
  BY ArenaFields DEF Shaped, Locks
<1>4. d < a.next_description
  <2>1. ShapedEntry(a, d) /\ d \in Nat /\ a.next_description \in Nat
    BY ArenaFields DEF Shaped, Ids
  <2> QED
    BY <2>1 DEF ShapedEntry
<1>5. b = SetLock(a, d, NoLock, flag, groups)
  BY DEF SetLock, Relock
<1>6. /\ Shaped(b) /\ b.next_description = a.next_description
      /\ b.file_locks_changed = flag /\ b.unseen = groups
      /\ b.descriptions[d] = Relock(e, NoLock)
      /\ \A x \in Ids : x # d => b.descriptions[x] = a.descriptions[x]
  <2> HIDE DEF b, flag, groups
  <2> QED
    BY <1>3, <1>4, <1>5, SetLockShape
<1>7. CASE held = want
  <2>1. e = Relock(e, held)
    BY <1>2, RelockEntry
  <2> HIDE DEF e
  <2>2. LockStep(a, a, d)
    BY <1>2, <2>1 DEF LockStep, e
  <2> QED
    BY <1>1, <1>7, <2>2
<1>8. CASE held # want /\ (mode = "None" \/ busy)
  <2>1. LockStep(a, b, d)
    <3> HIDE DEF b
    <3> QED
      BY <1>3, <1>6 DEF LockStep
  <2> QED
    BY <1>1, <1>8, <2>1
<1>9. CASE held # want /\ mode # "None" /\ ~busy
  <2>1. c = SetLock(b, d, want, b.file_locks_changed, b.unseen)
    <3> HIDE DEF b, want
    <3>1. b.file_locks_changed \in BOOLEAN /\ b \in LooseArenas /\ b.unseen \in SUBSET Groups
      BY <1>6, ArenaFields DEF Shaped
    <3> QED
      BY <3>1, ArenaFields DEF SetLock, Relock, LooseArenas
  <2>2. want = <<inode, mode>>
    BY <1>9
  <2>3. \A x \in Ids : x # d => ~Conflicts(a.descriptions[x].lock, want[1], want[2])
    BY <1>6, <1>9, <2>2
  <2> HIDE DEF b, want, flag, groups
  <2>4. /\ Shaped(c) /\ c.next_description = b.next_description
        /\ c.file_locks_changed = b.file_locks_changed /\ c.unseen = b.unseen
        /\ c.descriptions[d] = Relock(b.descriptions[d], want)
        /\ \A x \in Ids : x # d => c.descriptions[x] = b.descriptions[x]
    <3>1. /\ b.file_locks_changed \in BOOLEAN /\ d < b.next_description
          /\ b.unseen \in SUBSET Groups
      BY <1>3, <1>4, <1>6
    <3> HIDE DEF c
    <3> QED
      BY <1>3, <1>6, <2>1, <3>1, SetLockShape
  <2>5. c.descriptions[d] = Relock(e, want)
    <3>1. Relock(Relock(e, NoLock), want) = Relock(e, want)
      <4> HIDE DEF e
      <4> QED
        BY <1>2, <1>3 DEF Relock, LooseEntries
    <3> HIDE DEF c
    <3> QED
      BY <1>6, <2>4, <3>1
  <2> HIDE DEF c
  <2>6. LockStep(a, c, d)
    BY <1>3, <1>6, <2>3, <2>4, <2>5 DEF LockStep, flag, groups
  <2> QED
    BY <1>1, <1>9, <2>6 DEF b, want, c, flag, groups
<1> QED
  BY <1>7, <1>8, <1>9

(***************************************************************************)
(* Every step of the machine.                                               *)
(***************************************************************************)
DInv == /\ Shaped(arena)
        /\ tables \in [Procs -> Tables]
        /\ sent \in [Ids -> Nat]

ArenaMoves ==
  \/ Evolves(arena, arena')
  \/ \E d \in Ids : LockStep(arena, arena', d)
  \/ arena' = take_file_lock_changes(arena)
  \/ \E g \in Groups : arena' = record_generation(arena, g)

LEMMA DInit == Init => DInv
<1> SUFFICES ASSUME Init PROVE DInv
  OBVIOUS
<1>1. new \in LooseArenas
  <2>1. NoPipe \in LoosePipes
    BY DescriptorsAssumption DEF NoPipe, Pipe, LoosePipes
  <2> QED
    BY <2>1, AbsentEntry, DescriptorsAssumption DEF new, LooseArenas
<1>2. \A d \in Ids : new.descriptions[d] = Absent
  BY DEF new
<1>3. \A d \in Ids : ShapedEntry(new, d)
  BY <1>2, AbsentEntry DEF ShapedEntry
<1>4. EmptyTable \in Tables
  BY DEF EmptyTable, Tables
<1> QED
  BY <1>1, <1>3, <1>4 DEF Init, DInv, Shaped

LEMMA TakeShape ==
  ASSUME NEW a, Shaped(a)
  PROVE  /\ Shaped(take_file_lock_changes(a))
         /\ take_file_lock_changes(a).descriptions = a.descriptions
         /\ take_file_lock_changes(a).next_description = a.next_description
         /\ take_file_lock_changes(a).unseen = a.unseen
<1> DEFINE b == take_file_lock_changes(a)
<1>1. b \in LooseArenas /\ b.descriptions = a.descriptions
      /\ b.next_description = a.next_description /\ b.unseen = a.unseen
  BY ArenaFields DEF take_file_lock_changes, Shaped, LooseArenas
<1> HIDE DEF b
<1>2. \A d \in Ids : ShapedEntry(b, d)
  BY <1>1 DEF Shaped, ShapedEntry
<1> QED
  BY <1>1, <1>2 DEF Shaped, b

LEMMA RecordShape ==
  ASSUME NEW a, Shaped(a), NEW g
  PROVE  /\ Shaped(record_generation(a, g))
         /\ record_generation(a, g).descriptions = a.descriptions
         /\ record_generation(a, g).next_description = a.next_description
         /\ record_generation(a, g).file_locks_changed = a.file_locks_changed
<1> DEFINE b == record_generation(a, g)
<1>1. b \in LooseArenas /\ b.descriptions = a.descriptions
      /\ b.next_description = a.next_description
      /\ b.file_locks_changed = a.file_locks_changed
  BY ArenaFields DEF record_generation, Shaped, LooseArenas
<1> HIDE DEF b
<1>2. \A d \in Ids : ShapedEntry(b, d)
  BY <1>1 DEF Shaped, ShapedEntry
<1> QED
  BY <1>1, <1>2 DEF Shaped, b

LEMMA ArenaStepMoves ==
  ASSUME DInv, ArenaStep
  PROVE  DInv' /\ ArenaMoves
<1>1. Shaped(arena)
  BY DEF DInv
<1>2. ASSUME UNCHANGED <<tables, sent>>, Shaped(arena') PROVE DInv'
  BY <1>2 DEF DInv, Shaped, ShapedEntry
<1>3. ASSUME NEW kind \in FileKinds, OpenDescription(kind) PROVE DInv' /\ ArenaMoves
  <2>1. kind \in Kinds /\ kind \notin {"PipeReader", "PipeWriter"} /\ NoId \in Ids \cup {NoId}
    BY DescriptorsAssumption DEF Kinds
  <2>2. arena.next_description < U32_MAX /\ arena' = allocate(arena, Entry(kind, NoId))
    BY <1>3 DEF OpenDescription, CanAllocate
  <2>3. Shaped(arena') /\ Evolves(arena, arena')
    BY <1>1, <2>1, <2>2, EntryType, AllocateEvolves
  <2> QED
    BY <1>2, <1>3, <2>3 DEF OpenDescription, ArenaMoves
<1>4. ASSUME OpenPipe PROVE DInv' /\ ArenaMoves
  BY <1>1, <1>2, <1>4, OpenPipeEvolves DEF OpenPipe, ArenaMoves
<1>5. ASSUME TakeFileLockChanges PROVE DInv' /\ ArenaMoves
  BY <1>1, <1>2, <1>5, TakeShape DEF TakeFileLockChanges, ArenaMoves
<1>6. ASSUME NEW d \in Ids, DiscardUnreferenced(d) PROVE DInv' /\ ArenaMoves
  BY <1>1, <1>2, <1>6, RetainReleaseEvolves
     DEF DiscardUnreferenced, discard_unreferenced, ArenaMoves
<1>7. ASSUME NEW d \in Ids, RetainHandle(d) PROVE DInv' /\ ArenaMoves
  BY <1>1, <1>2, <1>7, OneType, RetainShape, RetainEvolves DEF RetainHandle, ArenaMoves
<1>8. ASSUME NEW d \in Ids, ReleaseHandle(d) PROVE DInv' /\ ArenaMoves
  BY <1>1, <1>2, <1>8, OneType, ReleaseEvolves DEF ReleaseHandle, ArenaMoves
<1>9. ASSUME NEW d \in Ids, CloseInput(d) PROVE DInv' /\ ArenaMoves
  BY <1>1, <1>2, <1>9, CloseInputEvolves DEF CloseInput, ArenaMoves
<1>10. ASSUME NEW d \in Ids, DrainCapture(d) PROVE DInv' /\ ArenaMoves
  BY <1>1, <1>2, <1>10, DrainCaptureEvolves DEF DrainCapture, ArenaMoves
<1>11. ASSUME NEW d \in Ids, NEW i \in Inodes, NEW m \in Modes \cup {"None"}, FileLock(d, i, m)
       PROVE  DInv' /\ ArenaMoves
  <2>1. LockStep(arena, arena', d)
    BY <1>1, <1>11, FileLockStep DEF FileLock
  <2>2. Shaped(arena')
    BY <2>1 DEF LockStep
  <2> QED
    BY <1>2, <1>11, <2>1, <2>2 DEF FileLock, ArenaMoves
<1>12. ASSUME NEW d \in Ids, NEW n \in Sizes, Read(d, n) PROVE DInv' /\ ArenaMoves
  BY <1>1, <1>2, <1>12, DescriptorsAssumption, ReadEvolves DEF Read, ArenaMoves
<1>13. ASSUME NEW d \in Ids, NEW n \in Sizes, AppendInput(d, n) PROVE DInv' /\ ArenaMoves
  BY <1>1, <1>2, <1>13, DescriptorsAssumption, AppendInputEvolves DEF AppendInput, ArenaMoves
<1>14. ASSUME NEW d \in Ids, NEW n \in Sizes, Write(d, n) PROVE DInv' /\ ArenaMoves
  <2> DEFINE p == arena.descriptions[d].pipe
             before == IF p = NoId THEN 0 ELSE sent[p]
             count == Accepted(arena, d, n)
  <2>1. n \in Nat
    BY DescriptorsAssumption
  <2>2. p \in Ids \cup {NoId}
    BY <1>1, ArenaFields, EntryFields DEF Shaped
  <2>3. before \in Nat
    BY <2>2 DEF DInv
  <2>4. count \in Nat
    BY <1>1, <2>1, AcceptedType
  <2>4a. count # 0 => p \in Ids
    BY <1>1 DEF Accepted, Shaped, ShapedEntry
  <2>5. /\ arena' = write(arena, d, n, before) /\ UNCHANGED tables
        /\ sent' = IF count = 0 THEN sent ELSE [sent EXCEPT ![p] = sent[p] + count]
    BY <1>14 DEF Write
  <2> HIDE DEF before, count, p
  <2>6. Shaped(arena') /\ Evolves(arena, arena')
    BY <1>1, <2>1, <2>3, <2>5, WriteEvolves
  <2>7. sent' \in [Ids -> Nat]
    BY <2>4, <2>4a, <2>5 DEF DInv
  <2>8. DInv'
    BY <2>5, <2>6, <2>7 DEF DInv, Shaped, ShapedEntry
  <2> QED
    BY <2>6, <2>8 DEF ArenaMoves
<1>15. ASSUME NEW g \in Groups, RecordGeneration(g) PROVE DInv' /\ ArenaMoves
  BY <1>1, <1>2, <1>15, RecordShape DEF RecordGeneration, ArenaMoves
<1>16. ASSUME NEW n \in Sizes, OpenInput(n) PROVE DInv' /\ ArenaMoves
  <2> DEFINE f == ClosedInput(n)
  <2>1. n \in Nat /\ "Input" \in Kinds
    BY <1>16, DescriptorsAssumption DEF OpenInput, Kinds
  <2>2. f \in LooseEntries /\ f.kind = "Input" /\ f.lock = NoLock /\ f.taken <= f.filled
    BY <2>1 DEF ClosedInput, LooseEntries, Locks
  <2>3. arena.next_description < U32_MAX /\ arena' = allocate(arena, f)
    BY <1>16 DEF OpenInput, CanAllocate
  <2> HIDE DEF f
  <2>4. Shaped(arena') /\ Evolves(arena, arena')
    BY <1>1, <2>2, <2>3, AllocateEvolves
  <2> QED
    BY <1>2, <1>16, <2>4 DEF OpenInput, ArenaMoves
<1> QED
  BY <1>3, <1>4, <1>5, <1>6, <1>7, <1>8, <1>9, <1>10, <1>11, <1>12, <1>13, <1>14, <1>15, <1>16
     DEF ArenaStep

LEMMA TableStepMoves ==
  ASSUME DInv, TableStep
  PROVE  DInv' /\ ArenaMoves
<1>1. Shaped(arena) /\ tables \in [Procs -> Tables] /\ sent \in [Ids -> Nat]
  BY DEF DInv
<1>2. ASSUME Shaped(arena'), Evolves(arena, arena'), tables' \in [Procs -> Tables],
             UNCHANGED sent
      PROVE  DInv' /\ ArenaMoves
  BY <1>1, <1>2 DEF DInv, ArenaMoves, Shaped, ShapedEntry
<1>3. ASSUME NEW p \in Procs, NEW fd \in Fds, NEW d \in Ids, Install(p, fd, d)
      PROVE  DInv' /\ ArenaMoves
  <2>1. Shaped(arena') /\ Evolves(arena, arena')
    BY <1>1, <1>3, RetainReleaseEvolves DEF Install, InstallArena
  <2>2. InstallTable(tables[p], fd, d) \in Tables
    BY <1>1 DEF InstallTable, Tables
  <2>3. tables' = [tables EXCEPT ![p] = InstallTable(tables[p], fd, d)] /\ UNCHANGED sent
    BY <1>3 DEF Install
  <2>4. tables' \in [Procs -> Tables]
    BY <1>1, <2>2, <2>3
  <2> QED
    BY <1>2, <2>1, <2>3, <2>4
<1>4. ASSUME NEW p \in Procs, NEW fd \in Fds, NEW to \in Fds, Duplicate(p, fd, to)
      PROVE  DInv' /\ ArenaMoves
  <2>1. tables[p].entries[fd] \in Ids
    BY <1>1, <1>4 DEF Duplicate, Open, Tables
  <2> QED
    BY <1>3, <1>4, <2>1 DEF Duplicate
<1>5. ASSUME NEW p \in Procs, NEW fd \in Fds, NEW on \in BOOLEAN, SetCloseOnExec(p, fd, on)
      PROVE  DInv' /\ ArenaMoves
  <2> DEFINE t == tables[p]
             c == IF on THEN t.close_on_exec \cup {fd} ELSE t.close_on_exec \ {fd}
             u == [t EXCEPT !.close_on_exec = c]
  <2>1. t \in Tables /\ c \in SUBSET Fds
    BY <1>1 DEF Tables
  <2>2. tables' = [tables EXCEPT ![p] = u] /\ UNCHANGED <<arena, sent>>
    BY <1>5 DEF SetCloseOnExec
  <2> HIDE DEF t, c
  <2>3. u \in Tables
    BY <2>1 DEF Tables
  <2> HIDE DEF u
  <2>4. tables' \in [Procs -> Tables]
    BY <1>1, <2>2, <2>3
  <2>5. Shaped(arena') /\ Evolves(arena, arena')
    <3>1. Evolves(arena, arena)
      BY <1>1, EvolvesRefl
    <3> QED
      BY <1>1, <2>2, <3>1
  <2> QED
    BY <1>2, <2>2, <2>4, <2>5
<1>6. ASSUME NEW p \in Procs, NEW S, S \subseteq Fds, CloseSet(p, S)
      PROVE  DInv' /\ ArenaMoves
  <2>1. Uses(tables[p], S) \in [Ids -> Int]
    BY <1>6, DescriptorsAssumption, FS_Subset, UsesType
  <2>2. arena' = release(arena, Uses(tables[p], S))
    BY <1>6 DEF CloseSet, CloseArena
  <2>3. Shaped(arena') /\ Evolves(arena, arena')
    BY <1>1, <2>1, <2>2, ReleaseEvolves
  <2>4. CloseTable(tables[p], S) \in Tables
    BY <1>1 DEF CloseTable, Tables
  <2>5. tables' = [tables EXCEPT ![p] = CloseTable(tables[p], S)] /\ UNCHANGED sent
    BY <1>6 DEF CloseSet
  <2>6. tables' \in [Procs -> Tables]
    BY <1>1, <2>4, <2>5
  <2> QED
    BY <1>2, <2>3, <2>5, <2>6
<1>7. ASSUME NEW p \in Procs, NEW q \in Procs, Fork(p, q) PROVE DInv' /\ ArenaMoves
  <2>1. Uses(tables[p], Open(tables[p])) \in [Ids -> Int]
    BY DescriptorsAssumption, FS_Subset, UsesType DEF Open
  <2>2. arena' = retain(arena, Uses(tables[p], Open(tables[p])))
    BY <1>7 DEF Fork, ForkArena
  <2>3. Shaped(arena') /\ Evolves(arena, arena')
    BY <1>1, <2>1, <2>2, RetainShape, RetainEvolves
  <2>4. tables' \in [Procs -> Tables] /\ UNCHANGED sent
    BY <1>1, <1>7 DEF Fork
  <2> QED
    BY <1>2, <2>3, <2>4
<1>8. ASSUME NEW p \in Procs, NEW fd \in Fds, Close(p, fd) PROVE DInv' /\ ArenaMoves
  BY <1>6, <1>8 DEF Close
<1>9. ASSUME NEW p \in Procs, CloseForExec(p) PROVE DInv' /\ ArenaMoves
  <2>1. tables[p].close_on_exec \subseteq Fds
    BY <1>1 DEF Tables
  <2> QED
    BY <1>6, <1>9, <2>1 DEF CloseForExec
<1>10. ASSUME NEW p \in Procs, CloseAll(p) PROVE DInv' /\ ArenaMoves
  BY <1>6, <1>10 DEF CloseAll
<1>11. ASSUME NEW p \in Procs, NEW fd \in Fds, ForkFails(p, fd) PROVE DInv' /\ ArenaMoves
  <2> DEFINE n == Uses(tables[p], Before(tables[p], fd))
  <2>1. n \in [Ids -> Int]
    BY DescriptorsAssumption, FS_Subset, UsesType DEF Before, Open
  <2>2. arena' = release(retain(arena, n), n) /\ UNCHANGED <<tables, sent>>
    BY <1>11 DEF ForkFails, ForkUndone
  <2> HIDE DEF n
  <2>3. Shaped(retain(arena, n)) /\ Evolves(arena, retain(arena, n))
    BY <1>1, <2>1, RetainShape, RetainEvolves
  <2>4. Shaped(arena') /\ Evolves(retain(arena, n), arena')
    BY <2>1, <2>2, <2>3, ReleaseEvolves
  <2>5. Evolves(arena, arena')
    BY <1>1, <2>3, <2>4, EvolvesTrans
  <2> QED
    BY <1>1, <1>2, <2>2, <2>4, <2>5
<1> QED
  BY <1>3, <1>4, <1>5, <1>7, <1>8, <1>9, <1>10, <1>11 DEF TableStep

LEMMA DStep ==
  ASSUME DInv, [Next]_vars
  PROVE  DInv' /\ [ArenaMoves]_vars
<1>1. CASE Next
  BY <1>1, ArenaStepMoves, TableStepMoves DEF Next
<1>2. CASE UNCHANGED vars
  BY <1>2 DEF vars, DInv, Shaped, ShapedEntry
<1> QED
  BY <1>1, <1>2

LEMMA DInvariant == Spec => []DInv
BY DInit, DStep, PTL DEF Spec

LEMMA Moves == Spec => [][DInv /\ ArenaMoves]_vars
BY DInvariant, DStep, PTL DEF Spec

(***************************************************************************)
(* The theorems.                                                            *)
(***************************************************************************)

(* What a step does to the lock of one description. *)
LEMMA LockFields ==
  ASSUME DInv, NEW d \in Ids
  PROVE  /\ arena.descriptions[d] \in LooseEntries
         /\ arena.descriptions[d].lock \in Locks
         /\ arena.descriptions[d].lock # NoLock => arena.descriptions[d].lock[2] \in Modes
<1>1. arena.descriptions[d] \in LooseEntries
  BY ArenaFields DEF DInv, Shaped
<1>2. arena.descriptions[d].lock \in Locks
  BY <1>1, EntryFields
<1> QED
  BY <1>1, <1>2 DEF Locks

LEMMA ExclusiveStep ==
  ASSUME DInv, LocksExclusive, ArenaMoves
  PROVE  LocksExclusive'
<1> DEFINE k(d) == arena.descriptions[d].lock
           l(d) == arena'.descriptions[d].lock
<1>1. CASE Evolves(arena, arena')
  <2>1. ASSUME NEW d \in Ids PROVE l(d) = k(d) \/ l(d) = NoLock
    BY <1>1 DEF Evolves, Kept, Gone, Fresh
  <2> QED
    BY <2>1 DEF LocksExclusive
<1>2. ASSUME NEW d \in Ids, LockStep(arena, arena', d) PROVE LocksExclusive'
  <2>1. PICK lock \in Locks :
          /\ arena'.descriptions[d] = Relock(arena.descriptions[d], lock)
          /\ lock \notin {NoLock, k(d)} =>
               \A x \in Ids : x # d => ~Conflicts(k(x), lock[1], lock[2])
    BY <1>2 DEF LockStep
  <2>2. l(d) = lock
    BY <2>1, LockFields, RelockEntry
  <2>3. \A x \in Ids : x # d => l(x) = k(x)
    BY <1>2 DEF LockStep
  <2>4. lock # NoLock => lock[2] \in Modes
    BY DEF Locks
  <2>5. ASSUME NEW x \in Ids, x # d, lock # NoLock, k(x) # NoLock, lock[1] = k(x)[1]
        PROVE  lock[2] = "Shared" /\ k(x)[2] = "Shared"
    <3>1. CASE lock = k(d)
      BY <2>5, <3>1 DEF LocksExclusive
    <3>2. CASE lock # k(d)
      <4>1. ~Conflicts(k(x), lock[1], lock[2])
        BY <2>1, <2>5, <3>2
      <4>2. k(x)[2] \in Modes
        BY <2>5, LockFields
      <4> QED
        BY <2>4, <2>5, <4>1, <4>2 DEF Conflicts, Modes
    <3> QED
      BY <3>1, <3>2
  <2> HIDE DEF k, l
  <2>6. ASSUME NEW x \in Ids, NEW y \in Ids, x # y, l(x) # NoLock, l(y) # NoLock, l(x)[1] = l(y)[1]
        PROVE  l(x)[2] = "Shared" /\ l(y)[2] = "Shared"
    <3>1. CASE x = d
      BY <2>2, <2>3, <2>5, <2>6, <3>1
    <3>2. CASE y = d
      BY <2>2, <2>3, <2>5, <2>6, <3>2
    <3>3. CASE x # d /\ y # d
      <4>1. l(x) = k(x) /\ l(y) = k(y)
        BY <2>3, <3>3
      <4> QED
        BY <2>6, <4>1 DEF LocksExclusive, k
    <3> QED
      BY <3>1, <3>2, <3>3
  <2> QED
    BY <2>6 DEF LocksExclusive, l
<1>3. CASE arena' = take_file_lock_changes(arena)
  <2>1. arena'.descriptions = arena.descriptions
    BY <1>3, TakeShape DEF DInv
  <2> QED
    BY <2>1 DEF LocksExclusive
<1>4. CASE \E g \in Groups : arena' = record_generation(arena, g)
  <2>1. arena'.descriptions = arena.descriptions
    BY <1>4, RecordShape DEF DInv
  <2> QED
    BY <2>1 DEF LocksExclusive
<1> QED
  BY <1>1, <1>2, <1>3, <1>4 DEF ArenaMoves

(* file_lock never grants a lock that conflicts with another description's,  *)
(* and no other method of descriptors.rs grants one, for any number of       *)
(* processes, descriptors and inodes.                                        *)
THEOREM LocksAreExclusive == Spec => []LocksExclusive
<1>1. Init => LocksExclusive
  BY AbsentEntry DEF Init, new, LocksExclusive
<1>2. LocksExclusive /\ [DInv /\ ArenaMoves]_vars => LocksExclusive'
  BY ExclusiveStep DEF vars, LocksExclusive
<1> QED
  BY <1>1, <1>2, Moves, PTL DEF Spec

(* The conjuncts of LockLossSignalled, IdentitiesFresh and EofIsFinal. *)
LEMMA LossStep ==
  ASSUME DInv, ArenaMoves
  PROVE  /\ (\E d \in Ids : /\ arena.descriptions[d].lock # NoLock
                            /\ arena'.descriptions[d].lock # arena.descriptions[d].lock)
              => arena'.file_locks_changed /\ arena'.unseen = Groups
         /\ arena.file_locks_changed /\ ~arena'.file_locks_changed
              => arena'.descriptions = arena.descriptions /\ arena'.unseen = arena.unseen
<1>1. CASE Evolves(arena, arena')
  BY <1>1 DEF Evolves, Kept, Gone, Fresh
<1>2. ASSUME NEW d \in Ids, LockStep(arena, arena', d)
      PROVE  /\ arena.file_locks_changed => arena'.file_locks_changed
             /\ \A x \in Ids : /\ arena.descriptions[x].lock # NoLock
                               /\ arena'.descriptions[x].lock # arena.descriptions[x].lock
                               => arena'.file_locks_changed /\ arena'.unseen = Groups
  <2>1. PICK lock \in Locks :
          /\ arena'.descriptions[d] = Relock(arena.descriptions[d], lock)
          /\ arena.descriptions[d].lock \notin {NoLock, lock}
               => arena'.file_locks_changed /\ arena'.unseen = Groups
    BY <1>2 DEF LockStep
  <2>2. arena'.descriptions[d].lock = lock
    BY <2>1, LockFields, RelockEntry
  <2>3. \A x \in Ids : x # d => arena'.descriptions[x] = arena.descriptions[x]
    BY <1>2 DEF LockStep
  <2> QED
    BY <1>2, <2>1, <2>2, <2>3 DEF LockStep
<1>3. CASE arena' = take_file_lock_changes(arena)
  BY <1>3, TakeShape DEF DInv
<1>4. CASE \E g \in Groups : arena' = record_generation(arena, g)
  BY <1>4, RecordShape DEF DInv
<1> QED
  BY <1>1, <1>2, <1>3, <1>4 DEF ArenaMoves

(* Whoever waits for a lock hears of every lock that goes away: release and  *)
(* file_lock raise the flag that wakes the FileLock waiters and change the   *)
(* generation thread groups compare, only take_file_lock_changes lowers the  *)
(* flag, and it leaves what a group has not seen yet.                        *)
THEOREM LockLossIsSignalled == Spec => LockLossSignalled
BY LossStep, Moves, PTL DEF LockLossSignalled

LEMMA FreshStep ==
  ASSUME DInv, ArenaMoves, NEW d \in Ids
  PROVE  /\ d \notin Live(arena) /\ d \in Live(arena')
              => arena.next_description <= d /\ d < arena'.next_description
         /\ d \in Live(arena) /\ d \in Live(arena')
              => arena'.descriptions[d].kind = arena.descriptions[d].kind
<1>1. CASE Evolves(arena, arena')
  BY <1>1 DEF Evolves, Kept, Gone, Fresh, Live
<1>2. ASSUME NEW x \in Ids, LockStep(arena, arena', x)
      PROVE  arena'.descriptions[d].kind = arena.descriptions[d].kind
  <2>1. PICK lock \in Locks : arena'.descriptions[x] = Relock(arena.descriptions[x], lock)
    BY <1>2 DEF LockStep
  <2>2. arena'.descriptions[x].kind = arena.descriptions[x].kind
    BY <2>1, LockFields, RelockEntry
  <2> QED
    BY <1>2, <2>2 DEF LockStep
<1>3. CASE arena' = take_file_lock_changes(arena)
  BY <1>3, TakeShape DEF DInv, Live
<1>4. CASE \E g \in Groups : arena' = record_generation(arena, g)
  BY <1>4, RecordShape DEF DInv, Live
<1> QED
  BY <1>1, <1>2, <1>3, <1>4 DEF ArenaMoves, Live

(* allocate never hands out an identity a second time, so no sequence of     *)
(* opens, closes and failed opens gives a parked task somebody else's        *)
(* description.                                                              *)
THEOREM IdentitiesAreFresh == Spec => IdentitiesFresh
<1>1. ASSUME [DInv /\ ArenaMoves]_vars
      PROVE  [\A d \in Ids : /\ d \notin Live(arena) /\ d \in Live(arena')
                                => arena.next_description <= d /\ d < arena'.next_description
                             /\ d \in Live(arena) /\ d \in Live(arena')
                                => arena'.descriptions[d].kind = arena.descriptions[d].kind]_vars
  BY <1>1, FreshStep
<1> QED
  BY <1>1, Moves, PTL DEF IdentitiesFresh

LEMMA EofStep ==
  ASSUME DInv, ArenaMoves, NEW d \in Ids,
         arena.descriptions[d].kind = "Input", arena'.descriptions[d].kind = "Input"
  PROVE  /\ arena'.descriptions[d].taken >= arena.descriptions[d].taken
         /\ arena.descriptions[d].closed
              => /\ arena'.descriptions[d].closed
                 /\ arena'.descriptions[d].filled = arena.descriptions[d].filled
<1>0. arena.descriptions[d] \in LooseEntries
  BY LockFields
<1>1. CASE Evolves(arena, arena')
  BY <1>1 DEF Evolves, Kept, Gone, Fresh
<1>2. ASSUME arena'.descriptions[d].taken = arena.descriptions[d].taken,
             arena'.descriptions[d].closed = arena.descriptions[d].closed,
             arena'.descriptions[d].filled = arena.descriptions[d].filled
      PROVE  /\ arena'.descriptions[d].taken >= arena.descriptions[d].taken
             /\ arena.descriptions[d].closed
                  => /\ arena'.descriptions[d].closed
                     /\ arena'.descriptions[d].filled = arena.descriptions[d].filled
  BY <1>0, <1>2, EntryFields
<1>3. ASSUME NEW x \in Ids, LockStep(arena, arena', x)
      PROVE  /\ arena'.descriptions[d].taken = arena.descriptions[d].taken
             /\ arena'.descriptions[d].closed = arena.descriptions[d].closed
             /\ arena'.descriptions[d].filled = arena.descriptions[d].filled
  <2>1. PICK lock \in Locks : arena'.descriptions[x] = Relock(arena.descriptions[x], lock)
    BY <1>3 DEF LockStep
  <2>2. x = d => /\ arena'.descriptions[d].taken = arena.descriptions[d].taken
                 /\ arena'.descriptions[d].closed = arena.descriptions[d].closed
                 /\ arena'.descriptions[d].filled = arena.descriptions[d].filled
    BY <1>0, <2>1, RelockEntry
  <2>3. x # d => arena'.descriptions[d] = arena.descriptions[d]
    BY <1>3 DEF LockStep
  <2> QED
    BY <2>2, <2>3
<1>4. CASE arena' = take_file_lock_changes(arena)
  BY <1>2, <1>4, TakeShape DEF DInv
<1>5. CASE \E g \in Groups : arena' = record_generation(arena, g)
  BY <1>2, <1>5, RecordShape DEF DInv
<1> QED
  BY <1>1, <1>2, <1>3, <1>4, <1>5 DEF ArenaMoves

(* A reader that has seen the end of a streamed input keeps seeing it:       *)
(* append_input leaves a closed input alone, and no read moves its cursor    *)
(* back.                                                                     *)
THEOREM EndOfFileIsFinal == Spec => EofIsFinal
<1> DEFINE A == \A d \in Ids : /\ arena.descriptions[d].kind = "Input"
                               /\ arena'.descriptions[d].kind = "Input"
                     => /\ arena'.descriptions[d].taken >= arena.descriptions[d].taken
                        /\ arena.descriptions[d].closed
                           => /\ arena'.descriptions[d].closed
                              /\ arena'.descriptions[d].filled = arena.descriptions[d].filled
<1>1. ASSUME [DInv /\ ArenaMoves]_vars PROVE [A]_vars
  BY <1>1, EofStep
<1> QED
  BY <1>1, Moves, PTL DEF EofIsFinal
=============================================================================
