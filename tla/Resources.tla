----------------------------- MODULE Resources -----------------------------
(***************************************************************************)
(* The deterministic meters of src/src/resources.rs: CPU fuel, modelled      *)
(* working-set memory and output bytes, and the sticky stop reason.          *)
(*                                                                         *)
(* U64_MAX bounds every checked_add.  Memory is handed back in two ways.     *)
(* Long-lived owners (a forked context, its shell state and expansions, a    *)
(* pipe) record what they were granted in a field and release the recorded   *)
(* amount.  Commands that run to their end inside one quantum (dd, sed, jq,  *)
(* tar, zip, git archive) take a mark of the meter instead and release       *)
(* everything above it.  The per-command usage log is left out.              *)
(***************************************************************************)
EXTENDS Integers, FiniteSets, FiniteSetsExt

CONSTANTS
  Owners,        \* fields that record a reservation
  Amounts,       \* sizes a caller may ask for
  U64_MAX,
  CPU_LIMIT, MEMORY_LIMIT, OUTPUT_LIMIT,
  None           \* no stop reason; no mark

ASSUME ResourcesAssumption ==
  /\ U64_MAX \in Nat
  /\ {CPU_LIMIT, MEMORY_LIMIT, OUTPUT_LIMIT} \subseteq 0..U64_MAX
  /\ Amounts \subseteq 0..U64_MAX
  /\ None \notin {"CpuExhausted", "MemoryExhausted", "OutputLimitExceeded"} \cup Nat

VARIABLES
  resources,
  owned,     \* the reservation each owner's field records
  mark,      \* memory_used when the running command began, None outside one
  scratch    \* history: bytes granted to the running command

vars == <<resources, owned, mark, scratch>>

StopReasons == {"CpuExhausted", "MemoryExhausted", "OutputLimitExceeded", None}

Meters == [cpu_used : 0..U64_MAX, memory_current : 0..U64_MAX,
           memory_peak : 0..U64_MAX, output_bytes : 0..U64_MAX,
           stop_reason : StopReasons]

new == [cpu_used |-> 0, memory_current |-> 0, memory_peak |-> 0,
        output_bytes |-> 0, stop_reason |-> None]

is_stopped(r) == r.stop_reason # None

(* checked_add *)
Overflows(x, y) == x + y > U64_MAX

Larger(x, y) == IF x > y THEN x ELSE y

(* Mutant: a refused charge keeps metering after the stop. *)
MutChargeAfterStop(r, units) ==
  IF r.cpu_used + units > CPU_LIMIT
  THEN [r EXCEPT !.cpu_used = CPU_LIMIT, !.stop_reason = "CpuExhausted"]
  ELSE [r EXCEPT !.cpu_used = @ + units]

(* Mutant: the sum wraps around. *)
MutChargeWraps(r, units) ==
  LET next == (r.cpu_used + units) % (U64_MAX + 1)
  IN  IF is_stopped(r) THEN r
      ELSE IF next > CPU_LIMIT
      THEN [r EXCEPT !.cpu_used = CPU_LIMIT, !.stop_reason = "CpuExhausted"]
      ELSE [r EXCEPT !.cpu_used = next]

(* Mutant: the budget is compared with the previous usage. *)
MutChargeLate(r, units) ==
  IF is_stopped(r) THEN r
  ELSE IF r.cpu_used > CPU_LIMIT
  THEN [r EXCEPT !.cpu_used = CPU_LIMIT, !.stop_reason = "CpuExhausted"]
  ELSE [r EXCEPT !.cpu_used = @ + units]

charge_cpu(r, units) ==
  IF is_stopped(r) THEN r
  ELSE IF Overflows(r.cpu_used, units) \/ r.cpu_used + units > CPU_LIMIT
  THEN [r EXCEPT !.cpu_used = CPU_LIMIT, !.stop_reason = "CpuExhausted"]
  ELSE [r EXCEPT !.cpu_used = @ + units]

GrantsMemory(r, bytes) ==
  /\ ~is_stopped(r)
  /\ ~Overflows(r.memory_current, bytes)
  /\ r.memory_current + bytes <= MEMORY_LIMIT

(* Mutant: a refused reservation is counted all the same. *)
MutReserveRefused(r, bytes) ==
  IF is_stopped(r) THEN r
  ELSE IF GrantsMemory(r, bytes)
  THEN [r EXCEPT !.memory_current = @ + bytes,
                 !.memory_peak    = Larger(@, r.memory_current + bytes)]
  ELSE [r EXCEPT !.memory_current = MEMORY_LIMIT, !.memory_peak = MEMORY_LIMIT,
                 !.stop_reason = "MemoryExhausted"]

reserve_memory(r, bytes) ==
  IF is_stopped(r) THEN r
  ELSE IF GrantsMemory(r, bytes)
  THEN [r EXCEPT !.memory_current = @ + bytes,
                 !.memory_peak    = Larger(@, r.memory_current + bytes)]
  ELSE [r EXCEPT !.stop_reason = "MemoryExhausted"]

(* memory_mark.min(memory_current) *)
restore_memory(r, to) == [r EXCEPT !.memory_current = IF to < @ THEN to ELSE @]

(* saturating_sub *)
release_memory(r, bytes) ==
  [r EXCEPT !.memory_current = IF bytes > @ THEN 0 ELSE @ - bytes]

(* Only the second refusal clamps the meter: an overflowing sum leaves it. *)
charge_output(r, bytes) ==
  IF is_stopped(r) THEN r
  ELSE IF Overflows(r.output_bytes, bytes)
  THEN [r EXCEPT !.stop_reason = "OutputLimitExceeded"]
  ELSE IF r.output_bytes + bytes > OUTPUT_LIMIT
  THEN [r EXCEPT !.output_bytes = OUTPUT_LIMIT, !.stop_reason = "OutputLimitExceeded"]
  ELSE [r EXCEPT !.output_bytes = @ + bytes]

Init == /\ resources = new
        /\ owned = [o \in Owners |-> 0]
        /\ mark = None /\ scratch = 0

ChargeCpu(units) == /\ resources' = charge_cpu(resources, units)
                    /\ UNCHANGED <<owned, mark, scratch>>

ChargeOutput(bytes) == /\ resources' = charge_output(resources, bytes)
                       /\ UNCHANGED <<owned, mark, scratch>>

(* create_child, pipe and expansions: a granted reservation is added to the  *)
(* owner's field, a refused one is not.                                      *)
Reserve(o, bytes) ==
  /\ mark = None
  /\ resources' = reserve_memory(resources, bytes)
  /\ owned' = IF GrantsMemory(resources, bytes)
              THEN [owned EXCEPT ![o] = @ + bytes] ELSE owned
  /\ UNCHANGED <<mark, scratch>>

(* sync_shell_memory: the field follows the size of the shell's state. *)
SyncGrows(o, target) ==
  /\ mark = None /\ target > owned[o]
  /\ resources' = reserve_memory(resources, target - owned[o])
  /\ owned' = IF GrantsMemory(resources, target - owned[o])
              THEN [owned EXCEPT ![o] = target] ELSE owned
  /\ UNCHANGED <<mark, scratch>>

SyncShrinks(o, target) ==
  /\ mark = None /\ target <= owned[o]
  /\ resources' = release_memory(resources, owned[o] - target)
  /\ owned' = [owned EXCEPT ![o] = target]
  /\ UNCHANGED <<mark, scratch>>

(* Mutant: the field still records what was released. *)
MutTake(o) ==
  /\ mark = None
  /\ resources' = release_memory(resources, owned[o])
  /\ UNCHANGED <<owned, mark, scratch>>

(* release_expansion_memory, finish_child, release_closed_pipe_memory: the   *)
(* recorded amount is taken out of the field and released.                   *)
Take(o) ==
  /\ mark = None
  /\ resources' = release_memory(resources, owned[o])
  /\ owned' = [owned EXCEPT ![o] = 0]
  /\ UNCHANGED <<mark, scratch>>

(* A command that releases by mark runs without a scheduler boundary, so no  *)
(* owner reserves or releases before it ends.                                *)
BeginCommand ==
  /\ mark = None
  /\ mark' = resources.memory_current
  /\ UNCHANGED <<resources, owned, scratch>>

ReserveScratch(bytes) ==
  /\ mark # None
  /\ resources' = reserve_memory(resources, bytes)
  /\ scratch' = IF GrantsMemory(resources, bytes) THEN scratch + bytes ELSE scratch
  /\ UNCHANGED <<owned, mark>>

EndCommand ==
  /\ mark # None
  /\ resources' = release_memory(resources, IF mark > resources.memory_current THEN 0
                                            ELSE resources.memory_current - mark)
  /\ mark' = None /\ scratch' = 0
  /\ UNCHANGED owned

(* The frame form of the same, offered by Resources; only its test calls it. *)
RestoreFrame ==
  /\ mark # None
  /\ resources' = restore_memory(resources, mark)
  /\ mark' = None /\ scratch' = 0
  /\ UNCHANGED owned

Next == \/ \E n \in Amounts : \/ ChargeCpu(n) \/ ChargeOutput(n) \/ ReserveScratch(n)
                              \/ \E o \in Owners : \/ Reserve(o, n)
                                                   \/ SyncGrows(o, n) \/ SyncShrinks(o, n)
        \/ \E o \in Owners : Take(o)
        \/ BeginCommand \/ EndCommand \/ RestoreFrame

Spec == Init /\ [][Next]_vars

(* No sequence of charges, refusals and releases takes a meter over its      *)
(* limit, also when a sum would overflow, and the peak is a high-water mark. *)
WithinLimits ==
  /\ resources.cpu_used <= CPU_LIMIT
  /\ resources.output_bytes <= OUTPUT_LIMIT
  /\ resources.memory_current <= resources.memory_peak
  /\ resources.memory_peak <= MEMORY_LIMIT

(* What a stopped machine may still do. *)
Frozen(r, s) ==
  is_stopped(r) => /\ s.stop_reason = r.stop_reason
                   /\ s.cpu_used = r.cpu_used /\ s.output_bytes = r.output_bytes
                   /\ s.memory_current <= r.memory_current
                   /\ s.memory_peak = r.memory_peak

(* The first exhausted meter decides the outcome for good: after a stop no   *)
(* charge of any kind changes the reason or the usage, and memory is only    *)
(* given back.                                                               *)
StopIsFinal == [][Frozen(resources, resources')]_vars

(* A charge never rewinds a meter: usage and peak only grow, also when a sum *)
(* leaves u64, so no later charge gets the fuel a first one has used.        *)
NeverRewinds(r, s) == /\ r.cpu_used <= s.cpu_used
                      /\ r.output_bytes <= s.output_bytes
                      /\ r.memory_peak <= s.memory_peak

MetersNeverRewind == [][NeverRewinds(resources, resources')]_vars

(* The working set is exactly what the owners' fields record plus what the   *)
(* running command was granted, across refusals, resizes, releases by amount *)
(* and releases by mark: the saturating subtractions never hide a double     *)
(* release, and a mark never swallows what an owner still records.           *)
LedgerBalanced ==
  resources.memory_current = MapThenSumSet(LAMBDA o : owned[o], Owners) + scratch
=============================================================================
