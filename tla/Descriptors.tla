---------------------------- MODULE Descriptors ----------------------------
(***************************************************************************)
(* Open descriptions, pipes, advisory locks and descriptor tables of        *)
(* src/src/descriptors.rs: a machine-wide arena of reference-counted open    *)
(* descriptions, shared by the descriptor tables of all processes and by     *)
(* machine-owned handles.                                                    *)
(*                                                                         *)
(* Methods take and return the arena.  U32_MAX is the end of the identity    *)
(* counters and of the reference counters, so that exhaustion is reached on  *)
(* small instances.  Paths, cursors of VFS files and the status flags        *)
(* (append, nonblocking) belong to the callers' VFS work and are left out;   *)
(* bytes of inputs and captures are counted, bytes of pipes are kept.  The   *)
(* null and generated devices are one kind: neither blocks nor keeps bytes.  *)
(* file_lock_generation is only ever compared with the value a group of      *)
(* threads saw last (wasm/threads.rs), so the model keeps the groups for     *)
(* which the two differ; 2^64 releases between two looks are left out.       *)
(***************************************************************************)
EXTENDS Integers, Sequences, FiniteSets

CONSTANTS
  Procs,                  \* owners of descriptor tables
  Fds,                    \* descriptor numbers in use
  Inodes,                 \* lockable files
  Groups,                 \* thread groups with waits of their own on locks
  FileKinds,              \* kinds of description that are not pipe ends
  U32_MAX,
  MAX_FDS_PER_PROCESS, MAX_OPEN_DESCRIPTIONS, MAX_PIPES,
  CAPACITY,               \* the capacity pipes are opened with
  MAX_CAPTURE_BYTES,
  Sizes,                  \* byte counts callers read and write
  MAX_SENT                \* bound: bytes ever written to one pipe

ASSUME DescriptorsAssumption ==
  /\ U32_MAX \in Nat \ {0}
  /\ {MAX_FDS_PER_PROCESS, MAX_OPEN_DESCRIPTIONS, MAX_PIPES, MAX_CAPTURE_BYTES} \subseteq Nat
  /\ CAPACITY \in Nat \ {0}
  /\ MAX_SENT \in Nat /\ Sizes \subseteq Nat
  /\ FileKinds \subseteq {"File", "Input", "Capture", "Null"}
  /\ IsFiniteSet(Procs) /\ IsFiniteSet(Fds) /\ Fds \subseteq Nat

Ids == 1..(U32_MAX - 1)    \* identities the counters can hand out
NoId == 0

NoLock == <<>>
Modes == {"Shared", "Exclusive"}
Locks == {NoLock} \cup (Inodes \X Modes)
Kinds == {"Absent", "PipeReader", "PipeWriter"} \cup FileKinds

(* An entry of the arena.  `filled' and `taken' are bytes.len() and the      *)
(* cursor of an Input, bytes.len() and `delivered' of a Capture.             *)
Entry(kind, pipe) ==
  [kind |-> kind, pipe |-> pipe, references |-> 0, lock |-> NoLock,
   filled |-> 0, taken |-> 0, closed |-> FALSE]

(* What open_input makes of its bytes: an input that cannot grow. *)
ClosedInput(size) ==
  [kind |-> "Input", pipe |-> NoId, references |-> 0, lock |-> NoLock,
   filled |-> size, taken |-> 0, closed |-> TRUE]

Absent == Entry("Absent", NoId)

Pipe(bytes, readers, writers) ==
  [bytes |-> bytes, readers |-> readers, writers |-> writers]

NoPipe == Pipe(<< >>, 0, 0)

VARIABLES
  arena,
  tables,    \* the descriptor table of each process
  handles,   \* machine-owned references outside any table
  sent       \* history: bytes ever written to each pipe

vars == <<arena, tables, handles, sent>>

Entries == [kind : Kinds, pipe : Ids \cup {NoId}, references : 0..U32_MAX, lock : Locks,
            filled : 0..MAX_CAPTURE_BYTES, taken : 0..MAX_CAPTURE_BYTES, closed : BOOLEAN]

Arenas == [descriptions : [Ids -> Entries],
           pipes : [Ids -> [bytes : Seq(Nat), readers : {0, 1}, writers : {0, 1}]],
           next_description : 1..U32_MAX, next_pipe : 1..U32_MAX,
           file_locks_changed : BOOLEAN, unseen : SUBSET Groups]

Tables == [entries : [Fds -> Ids \cup {NoId}], close_on_exec : SUBSET Fds]

Live(a) == {d \in Ids : a.descriptions[d].kind # "Absent"}

LivePipes(a) == {p \in Ids : a.pipes[p] # NoPipe}

EmptyTable == [entries |-> [fd \in Fds |-> NoId], close_on_exec |-> {}]

Open(t) == {fd \in Fds : t.entries[fd] # NoId}

(* How many of the descriptors in S refer to each description. *)
Uses(t, S) == [d \in Ids |-> Cardinality({fd \in S : t.entries[fd] = d})]

One(id) == [d \in Ids |-> IF d = id THEN 1 ELSE 0]

(***************************************************************************)
(* The arena.                                                               *)
(***************************************************************************)
new == [descriptions |-> [d \in Ids |-> Absent], pipes |-> [p \in Ids |-> NoPipe],
        next_description |-> 1, next_pipe |-> 1, file_locks_changed |-> FALSE,
        unseen |-> {}]

CanAllocate(a) == /\ Cardinality(Live(a)) < MAX_OPEN_DESCRIPTIONS
                  /\ a.next_description < U32_MAX

(* Mutant: the lowest free identity is used again. *)
MutAllocate(a, entry) ==
  LET free == Ids \ Live(a)
      d    == CHOOSE x \in free : \A y \in free : x <= y
  IN  [a EXCEPT !.next_description = @ + 1, !.descriptions[d] = entry]

allocate(a, entry) ==
  [a EXCEPT !.next_description                 = @ + 1,
            !.descriptions[a.next_description] = entry]

(* Mutant: the reader is left behind when the writer cannot be allocated. *)
MutOpenPipeNoRollback(a) ==
  LET p == a.next_pipe
      b == [a EXCEPT !.next_pipe = @ + 1]
      c == allocate(b, Entry("PipeReader", p))
  IN  IF Cardinality(LivePipes(a)) >= MAX_PIPES \/ p = U32_MAX THEN a
      ELSE IF ~CanAllocate(b) THEN b
      ELSE IF ~CanAllocate(c) THEN c
      ELSE [allocate(c, Entry("PipeWriter", p)) EXCEPT !.pipes[p] = Pipe(<< >>, 1, 1)]

(* Failure paths undo the pipe and the reader but not the counters. *)
open_pipe(a) ==
  LET p == a.next_pipe
      b == [a EXCEPT !.next_pipe = @ + 1]
      c == allocate(b, Entry("PipeReader", p))
  IN  IF Cardinality(LivePipes(a)) >= MAX_PIPES \/ p = U32_MAX THEN a
      ELSE IF ~CanAllocate(b) THEN b
      ELSE IF ~CanAllocate(c) THEN [c EXCEPT !.descriptions[b.next_description] = Absent]
      ELSE [allocate(c, Entry("PipeWriter", p)) EXCEPT !.pipes[p] = Pipe(<< >>, 1, 1)]

(* Mutant: the reference counter is not checked. *)
MutCanRetain(a, n) == \A d \in Ids : n[d] > 0 => d \in Live(a)

CanRetain(a, n) ==
  \A d \in Ids : n[d] > 0 => d \in Live(a) /\ a.descriptions[d].references + n[d] <= U32_MAX

retain(a, n) ==
  [a EXCEPT !.descriptions = [d \in Ids |-> [a.descriptions[d] EXCEPT !.references = @ + n[d]]]]

(* The descriptions that n releases bring to zero references. *)
Dropped(a, n) == {d \in Ids : n[d] > 0 /\ a.descriptions[d].references = n[d]}

Closes(a, gone, end, p) ==
  \E d \in gone : a.descriptions[d].kind = end /\ a.descriptions[d].pipe = p

(* Mutant: what is buffered is lost with the writing end. *)
MutReleasePipe(a, gone, p) ==
  LET readers == a.pipes[p].readers - (IF Closes(a, gone, "PipeReader", p) THEN 1 ELSE 0)
      writers == a.pipes[p].writers - (IF Closes(a, gone, "PipeWriter", p) THEN 1 ELSE 0)
  IN  IF writers = 0 THEN Pipe(<< >>, readers, writers)
      ELSE Pipe(a.pipes[p].bytes, readers, writers)

(* What becomes of a pipe when the descriptions in `gone' are removed. *)
ReleasePipe(a, gone, p) ==
  LET readers == a.pipes[p].readers - (IF Closes(a, gone, "PipeReader", p) THEN 1 ELSE 0)
      writers == a.pipes[p].writers - (IF Closes(a, gone, "PipeWriter", p) THEN 1 ELSE 0)
  IN  IF readers = 0 /\ writers = 0 THEN NoPipe
      ELSE Pipe(a.pipes[p].bytes, readers, writers)

(* Mutant: dropping a lock with its last reference does not raise the flag. *)
MutReleaseSilent(a, n) ==
  LET gone == Dropped(a, n)
      less == [d \in Ids |-> [a.descriptions[d] EXCEPT !.references = @ - n[d]]]
  IN  [a EXCEPT !.descriptions = [d \in Ids |-> IF d \in gone THEN Absent ELSE less[d]],
                !.pipes = [p \in Ids |-> ReleasePipe(a, gone, p)],
                !.unseen = IF \E d \in gone : a.descriptions[d].lock # NoLock
                           THEN Groups ELSE @]

(* n[d] calls of release(d) for every d. *)
release(a, n) ==
  LET gone == Dropped(a, n)
      less == [d \in Ids |-> [a.descriptions[d] EXCEPT !.references = @ - n[d]]]
  IN  [a EXCEPT !.descriptions = [d \in Ids |-> IF d \in gone THEN Absent ELSE less[d]],
                !.pipes = [p \in Ids |-> ReleasePipe(a, gone, p)],
                !.file_locks_changed = @ \/ \E d \in gone : a.descriptions[d].lock # NoLock,
                !.unseen = IF \E d \in gone : a.descriptions[d].lock # NoLock
                           THEN Groups ELSE @]

CanDiscard(a, d) == d \in Live(a) /\ a.descriptions[d].references = 0

discard_unreferenced(a, d) == release(retain(a, One(d)), One(d))

(* Mutant: a shared request ignores exclusive holders. *)
MutConflicts(held, inode, mode) ==
  held # NoLock /\ held[1] = inode /\ mode = "Exclusive"

Conflicts(held, inode, mode) ==
  held # NoLock /\ held[1] = inode /\ (mode = "Exclusive" \/ held[2] = "Exclusive")

(* Mutant: a conversion raises the flag but not the generation. *)
MutFileLock(a, d, inode, mode) ==
  LET want == IF mode = "None" THEN NoLock ELSE <<inode, mode>>
      held == a.descriptions[d].lock
      b    == [a EXCEPT !.descriptions[d].lock = NoLock,
                        !.file_locks_changed   = @ \/ held # NoLock]
  IN  IF held = want THEN a
      ELSE IF mode = "None" THEN b
      ELSE IF \E e \in Ids : Conflicts(b.descriptions[e].lock, inode, mode) THEN b
      ELSE [b EXCEPT !.descriptions[d].lock = want]

(* The previous lock goes before the new one is tried. *)
file_lock(a, d, inode, mode) ==
  LET want == IF mode = "None" THEN NoLock ELSE <<inode, mode>>
      held == a.descriptions[d].lock
      b    == [a EXCEPT !.descriptions[d].lock = NoLock,
                        !.file_locks_changed   = @ \/ held # NoLock,
                        !.unseen               = IF held # NoLock THEN Groups ELSE @]
  IN  IF held = want THEN a
      ELSE IF mode = "None" THEN b
      ELSE IF \E e \in Ids : Conflicts(b.descriptions[e].lock, inode, mode) THEN b
      ELSE [b EXCEPT !.descriptions[d].lock = want]

take_file_lock_changes(a) == [a EXCEPT !.file_locks_changed = FALSE]

(* wake_blocked: a thread group records the current generation. *)
record_generation(a, g) == [a EXCEPT !.unseen = @ \ {g}]

(***************************************************************************)
(* Input, output and pipes.                                                 *)
(***************************************************************************)
Smaller(x, y) == IF x < y THEN x ELSE y

(* read would report Blocked. *)
ReadBlocks(a, d) ==
  LET e == a.descriptions[d]
  IN  \/ e.kind = "Input" /\ e.taken = e.filled /\ ~e.closed
      \/ e.kind = "PipeReader" /\ a.pipes[e.pipe].bytes = << >> /\ a.pipes[e.pipe].writers > 0

(* The arena after a read; kinds that cannot be read fail without effect. *)
read(a, d, maximum) ==
  LET e == a.descriptions[d]
  IN  IF ReadBlocks(a, d) THEN a
      ELSE IF e.kind = "Input"
      THEN [a EXCEPT !.descriptions[d].taken = Smaller(@ + maximum, e.filled)]
      ELSE IF e.kind = "PipeReader"
      THEN [a EXCEPT !.pipes[e.pipe].bytes = SubSeq(@, Smaller(maximum, Len(@)) + 1, Len(@))]
      ELSE a

(* Bytes a pipe takes of a write: none when broken (no readers) or full. *)
Accepted(a, d, size) ==
  LET e == a.descriptions[d]
      available == CAPACITY - Len(a.pipes[e.pipe].bytes)
  IN  IF e.kind # "PipeWriter" \/ a.pipes[e.pipe].readers = 0 \/ available = 0 THEN 0
      ELSE Smaller(available, size)

(* write; a pipe's bytes are numbered in the order they were written. *)
write(a, d, size, before) ==
  LET e == a.descriptions[d]
  IN  IF e.kind = "Capture" /\ e.filled + size <= MAX_CAPTURE_BYTES
      THEN [a EXCEPT !.descriptions[d].filled = @ + size]
      ELSE IF e.kind = "PipeWriter"
      THEN [a EXCEPT !.pipes[e.pipe].bytes = @ \o [i \in 1..Accepted(a, d, size) |-> before + i]]
      ELSE a

(* Mutant: a closed input still grows. *)
MutAppendInput(a, d, size) ==
  LET e == a.descriptions[d]
  IN  IF e.kind # "Input" \/ e.filled + size > MAX_CAPTURE_BYTES THEN a
      ELSE [a EXCEPT !.descriptions[d].filled = @ + size]

append_input(a, d, size) ==
  LET e == a.descriptions[d]
  IN  IF e.kind # "Input" \/ e.closed \/ e.filled + size > MAX_CAPTURE_BYTES THEN a
      ELSE [a EXCEPT !.descriptions[d].filled = @ + size]

close_input(a, d) ==
  IF a.descriptions[d].kind = "Input" THEN [a EXCEPT !.descriptions[d].closed = TRUE] ELSE a

drain_capture(a, d) ==
  IF a.descriptions[d].kind = "Capture"
  THEN [a EXCEPT !.descriptions[d].taken = a.descriptions[d].filled] ELSE a

(***************************************************************************)
(* Descriptor tables.                                                       *)
(***************************************************************************)
CanInstall(a, t, fd, d) ==
  /\ fd \notin Open(t) => Cardinality(Open(t)) < MAX_FDS_PER_PROCESS
  /\ CanRetain(a, One(d))

InstallTable(t, fd, d) == [entries       |-> [t.entries EXCEPT ![fd] = d],
                           close_on_exec |-> t.close_on_exec \ {fd}]

(* Mutant: the description the number referred to before stays retained. *)
MutInstallArena(a, t, fd, d) == retain(a, One(d))

(* The new description is retained before the previous one is released. *)
InstallArena(a, t, fd, d) == release(retain(a, One(d)), One(t.entries[fd]))

CloseTable(t, S) == [entries       |-> [fd \in Fds |-> IF fd \in S THEN NoId ELSE t.entries[fd]],
                     close_on_exec |-> t.close_on_exec \ S]

CloseArena(a, t, S) == release(a, Uses(t, S))

ForkArena(a, t) == retain(a, Uses(t, Open(t)))

(* The descriptors fork retains before it comes to fd. *)
Before(t, fd) == {f \in Open(t) : f < fd}

(* Mutant: what a failing fork has retained stays retained. *)
MutForkUndone(a, t, fd) == retain(a, Uses(t, Before(t, fd)))

(* A fork that fails at fd releases what it retained before. *)
ForkUndone(a, t, fd) == release(retain(a, Uses(t, Before(t, fd))), Uses(t, Before(t, fd)))

(***************************************************************************)
(* The machine's use of the interface: any live description may be opened,   *)
(* installed, duplicated, forked, read, written, locked and closed.          *)
(***************************************************************************)
Init == /\ arena = new
        /\ tables = [p \in Procs |-> EmptyTable]
        /\ handles = [d \in Ids |-> 0]
        /\ sent = [p \in Ids |-> 0]

OpenDescription(kind) ==
  /\ CanAllocate(arena)
  /\ arena' = allocate(arena, Entry(kind, NoId))
  /\ UNCHANGED <<tables, handles, sent>>

(* open_input refuses more bytes than a capture may hold. *)
OpenInput(size) ==
  /\ "Input" \in FileKinds /\ size <= MAX_CAPTURE_BYTES /\ CanAllocate(arena)
  /\ arena' = allocate(arena, ClosedInput(size))
  /\ UNCHANGED <<tables, handles, sent>>

OpenPipe ==
  /\ arena' = open_pipe(arena)
  /\ UNCHANGED <<tables, handles, sent>>

DiscardUnreferenced(d) ==
  /\ CanDiscard(arena, d)
  /\ arena' = discard_unreferenced(arena, d)
  /\ UNCHANGED <<tables, handles, sent>>

RetainHandle(d) ==
  /\ CanRetain(arena, One(d))
  /\ arena' = retain(arena, One(d))
  /\ handles' = [handles EXCEPT ![d] = @ + 1]
  /\ UNCHANGED <<tables, sent>>

ReleaseHandle(d) ==
  /\ handles[d] > 0
  /\ arena' = release(arena, One(d))
  /\ handles' = [handles EXCEPT ![d] = @ - 1]
  /\ UNCHANGED <<tables, sent>>

FileLock(d, inode, mode) ==
  /\ arena.descriptions[d].kind = "File"
  /\ arena' = file_lock(arena, d, inode, mode)
  /\ UNCHANGED <<tables, handles, sent>>

TakeFileLockChanges ==
  /\ arena.file_locks_changed
  /\ arena' = take_file_lock_changes(arena)
  /\ UNCHANGED <<tables, handles, sent>>

RecordGeneration(g) ==
  /\ g \in arena.unseen
  /\ arena' = record_generation(arena, g)
  /\ UNCHANGED <<tables, handles, sent>>

Read(d, size) ==
  /\ d \in Live(arena)
  /\ arena' = read(arena, d, size)
  /\ UNCHANGED <<tables, handles, sent>>

Write(d, size) ==
  /\ d \in Live(arena)
  /\ LET p == arena.descriptions[d].pipe
         before == IF p = NoId THEN 0 ELSE sent[p]
         count == Accepted(arena, d, size)
     IN  /\ before + size <= MAX_SENT
         /\ arena' = write(arena, d, size, before)
         /\ sent' = IF count = 0 THEN sent ELSE [sent EXCEPT ![p] = @ + count]
  /\ UNCHANGED <<tables, handles>>

AppendInput(d, size) ==
  /\ d \in Live(arena)
  /\ arena' = append_input(arena, d, size)
  /\ UNCHANGED <<tables, handles, sent>>

CloseInput(d) ==
  /\ arena' = close_input(arena, d)
  /\ UNCHANGED <<tables, handles, sent>>

DrainCapture(d) ==
  /\ arena' = drain_capture(arena, d)
  /\ UNCHANGED <<tables, handles, sent>>

Install(p, fd, d) ==
  /\ CanInstall(arena, tables[p], fd, d)
  /\ arena' = InstallArena(arena, tables[p], fd, d)
  /\ tables' = [tables EXCEPT ![p] = InstallTable(@, fd, d)]
  /\ UNCHANGED <<handles, sent>>

(* duplicate returns early when both numbers are the same. *)
Duplicate(p, source, destination) ==
  /\ source \in Open(tables[p]) /\ source # destination
  /\ Install(p, destination, tables[p].entries[source])

SetCloseOnExec(p, fd, enabled) ==
  /\ fd \in Open(tables[p])
  /\ tables' = [tables EXCEPT ![p].close_on_exec = IF enabled THEN @ \cup {fd} ELSE @ \ {fd}]
  /\ UNCHANGED <<arena, handles, sent>>

CloseSet(p, S) ==
  /\ arena' = CloseArena(arena, tables[p], S)
  /\ tables' = [tables EXCEPT ![p] = CloseTable(@, S)]
  /\ UNCHANGED <<handles, sent>>

Close(p, fd) == fd \in Open(tables[p]) /\ CloseSet(p, {fd})

CloseForExec(p) == CloseSet(p, tables[p].close_on_exec)

CloseAll(p) == CloseSet(p, Fds)

(* A new process q starts with a copy of p's table. *)
Fork(p, q) ==
  /\ p # q /\ tables[q] = EmptyTable
  /\ CanRetain(arena, Uses(tables[p], Open(tables[p])))
  /\ arena' = ForkArena(arena, tables[p])
  /\ tables' = [tables EXCEPT ![q] = tables[p]]
  /\ UNCHANGED <<handles, sent>>

(* A retain fails part of the way through the table. *)
ForkFails(p, fd) ==
  /\ fd \in Open(tables[p])
  /\ CanRetain(arena, Uses(tables[p], Before(tables[p], fd)))
  /\ ~CanRetain(arena, Uses(tables[p], Before(tables[p], fd) \cup {fd}))
  /\ arena' = ForkUndone(arena, tables[p], fd)
  /\ UNCHANGED <<tables, handles, sent>>

ArenaStep ==
  \/ \E kind \in FileKinds : OpenDescription(kind)
  \/ \E n \in Sizes : OpenInput(n)
  \/ OpenPipe
  \/ TakeFileLockChanges
  \/ \E g \in Groups : RecordGeneration(g)
  \/ \E d \in Ids : \/ DiscardUnreferenced(d) \/ RetainHandle(d) \/ ReleaseHandle(d)
                    \/ CloseInput(d) \/ DrainCapture(d)
                    \/ \E i \in Inodes, m \in Modes \cup {"None"} : FileLock(d, i, m)
                    \/ \E n \in Sizes : Read(d, n) \/ Write(d, n) \/ AppendInput(d, n)

TableStep ==
  \E p \in Procs :
    \/ \E fd \in Fds : \/ \E d \in Ids : Install(p, fd, d)
                       \/ \E to \in Fds : Duplicate(p, fd, to)
                       \/ \E on \in BOOLEAN : SetCloseOnExec(p, fd, on)
                       \/ Close(p, fd) \/ ForkFails(p, fd)
    \/ CloseForExec(p) \/ CloseAll(p)
    \/ \E q \in Procs : Fork(p, q)

Next == ArenaStep \/ TableStep

Spec == Init /\ [][Next]_vars

(***************************************************************************)
(* Properties.                                                              *)
(***************************************************************************)
(* Entries, pipes and tables stay well formed; a description is never given  *)
(* more references than the u32 counter holds.                               *)
TypeOK == /\ arena \in Arenas
          /\ tables \in [Procs -> Tables]
          /\ handles \in [Ids -> Nat]
          /\ sent \in [Ids -> Nat]

Holders(d) == {h \in Procs \X Fds : tables[h[1]].entries[h[2]] = d}

(* The count DescriptorArena::release tests is exact: it is the number of    *)
(* descriptor table entries and machine handles that refer to the            *)
(* description, through any interleaving of forks, dups, replacing installs, *)
(* exec closes and partly failed opens and forks; no entry refers to a       *)
(* removed one.                                                              *)
ReferencesExact ==
  \A d \in Ids : /\ arena.descriptions[d].references = Cardinality(Holders(d)) + handles[d]
                 /\ (Holders(d) # {} \/ handles[d] > 0) => d \in Live(arena)

Ends(end, p) ==
  {d \in Ids : arena.descriptions[d].kind = end /\ arena.descriptions[d].pipe = p}

(* A pipe lives exactly as long as one of its ends has a description, and    *)
(* its reader and writer counts, which decide between blocking, end of file  *)
(* and BrokenPipe, count the live descriptions of each end.                  *)
PipeEndsCounted ==
  \A p \in Ids : /\ arena.pipes[p].readers = Cardinality(Ends("PipeReader", p))
                 /\ arena.pipes[p].writers = Cardinality(Ends("PipeWriter", p))
                 /\ p >= arena.next_pipe => arena.pipes[p] = NoPipe

(* flock: two descriptions hold locks on one inode only if both are shared,  *)
(* whatever sequence of conversions, failed conversions and closes led there.*)
LocksExclusive ==
  \A d, e \in Ids :
    LET k == arena.descriptions[d].lock
        l == arena.descriptions[e].lock
    IN  d # e /\ k # NoLock /\ l # NoLock /\ k[1] = l[1] => k[2] = "Shared" /\ l[2] = "Shared"

(* A lock that goes away (unlocked, converted, lost in a failed conversion   *)
(* or with the last close) is signalled on both channels: it raises the flag *)
(* from which waiting processes are woken and changes the generation every   *)
(* thread group compares.  Only take_file_lock_changes lowers the flag, and  *)
(* that hides nothing from a group that has not looked yet.                  *)
LockLossSignalled ==
  [][ /\ (\E d \in Ids : /\ arena.descriptions[d].lock # NoLock
                         /\ arena'.descriptions[d].lock # arena.descriptions[d].lock)
         => arena'.file_locks_changed /\ arena'.unseen = Groups
      /\ arena.file_locks_changed /\ ~arena'.file_locks_changed
         => arena'.descriptions = arena.descriptions /\ arena'.unseen = arena.unseen ]_vars

(* An identity is not handed out again after its description is gone, so a   *)
(* task parked on it cannot be woken by an unrelated description.            *)
IdentitiesFresh ==
  [][ \A d \in Ids : /\ d \notin Live(arena) /\ d \in Live(arena')
                        => arena.next_description <= d /\ d < arena'.next_description
                     /\ d \in Live(arena) /\ d \in Live(arena')
                        => arena'.descriptions[d].kind = arena.descriptions[d].kind ]_vars

(* A closed stream input never grows again and its cursor never goes back:   *)
(* a reader that saw end of file keeps seeing it.                            *)
EofIsFinal ==
  [][ \A d \in Ids : /\ arena.descriptions[d].kind = "Input"
                     /\ arena'.descriptions[d].kind = "Input"
                     => /\ arena'.descriptions[d].taken >= arena.descriptions[d].taken
                        /\ arena.descriptions[d].closed
                           => /\ arena'.descriptions[d].closed
                              /\ arena'.descriptions[d].filled = arena.descriptions[d].filled ]_vars

Chan(p) == INSTANCE Channel WITH
             used    <- arena.next_pipe > p,
             reading <- arena.pipes[p].readers > 0,
             writing <- arena.pipes[p].writers > 0,
             buffer  <- arena.pipes[p].bytes

(* Every pipe of the arena behaves as the abstract channel (the conjunction   *)
(* of Chan(p)!Spec over the pipes): bounded, first in first out, with two     *)
(* ends that close once and for good.                                        *)
PipesAreChannels ==
  /\ \A p \in Ids : Chan(p)!Init
  /\ [][\A p \in Ids : Chan(p)!Next \/ UNCHANGED Chan(p)!vars]_vars
=============================================================================
