-------------------------- MODULE ResourcesProofs --------------------------
(***************************************************************************)
(* The meters of resources.rs for any limits, any amounts and any number of  *)
(* owners.                                                                   *)
(***************************************************************************)
EXTENDS Resources, TLAPS

(* The inductive invariant: every meter is a u64 within its limit, and the   *)
(* owners' fields and the mark are naturals, so that what callers hand to    *)
(* the meters is one too.                                                    *)
Metered == /\ resources \in Meters /\ WithinLimits
           /\ owned \in [Owners -> Nat] /\ mark \in Nat \cup {None}

(* Meters r within their limits. *)
Sound(r) == /\ r \in Meters
            /\ r.cpu_used <= CPU_LIMIT
            /\ r.output_bytes <= OUTPUT_LIMIT
            /\ r.memory_current <= r.memory_peak
            /\ r.memory_peak <= MEMORY_LIMIT

(* What a call that turns meters r into s may do. *)
Allowed(r, s) == Sound(s) /\ Frozen(r, s) /\ NeverRewinds(r, s)

LEMMA SoundMeters ==
  ASSUME NEW r, NEW cpu \in 0..CPU_LIMIT, NEW current \in Nat, NEW peak \in 0..MEMORY_LIMIT,
         NEW bytes \in 0..OUTPUT_LIMIT, NEW reason \in StopReasons, current <= peak,
         r = [cpu_used |-> cpu, memory_current |-> current, memory_peak |-> peak,
              output_bytes |-> bytes, stop_reason |-> reason]
  PROVE  Sound(r)
BY ResourcesAssumption DEF Sound, Meters

(* The fields of sound meters. *)
LEMMA MeterFields ==
  ASSUME NEW r, Sound(r)
  PROVE  /\ r = [cpu_used |-> r.cpu_used, memory_current |-> r.memory_current,
                 memory_peak |-> r.memory_peak, output_bytes |-> r.output_bytes,
                 stop_reason |-> r.stop_reason]
         /\ r.cpu_used \in 0..CPU_LIMIT /\ r.memory_current \in Nat
         /\ r.memory_peak \in 0..MEMORY_LIMIT /\ r.output_bytes \in 0..OUTPUT_LIMIT
         /\ r.stop_reason \in StopReasons /\ r.memory_current <= r.memory_peak
BY ResourcesAssumption DEF Sound, Meters

LEMMA ChargeCpuSound ==
  ASSUME NEW r, Sound(r), NEW units \in Nat
  PROVE  Allowed(r, charge_cpu(r, units))
<1> DEFINE s == charge_cpu(r, units)
<1>1. CASE is_stopped(r)
  BY <1>1, MeterFields DEF charge_cpu, Allowed, Frozen, NeverRewinds
<1>2. CASE ~is_stopped(r) /\ (Overflows(r.cpu_used, units) \/ r.cpu_used + units > CPU_LIMIT)
  <2>1. s = [cpu_used |-> CPU_LIMIT, memory_current |-> r.memory_current,
             memory_peak |-> r.memory_peak, output_bytes |-> r.output_bytes,
             stop_reason |-> "CpuExhausted"]
    <3>1. s = [r EXCEPT !.cpu_used = CPU_LIMIT, !.stop_reason = "CpuExhausted"]
      BY <1>2 DEF charge_cpu
    <3> QED
      BY <3>1, MeterFields
  <2>2. CPU_LIMIT \in 0..CPU_LIMIT /\ "CpuExhausted" \in StopReasons
    BY ResourcesAssumption DEF StopReasons
  <2>3. Sound(s)
    BY <2>1, <2>2, MeterFields, SoundMeters
  <2> QED
    BY <2>1, <2>2, <2>3, <1>2, MeterFields DEF Allowed, Frozen, NeverRewinds
<1>3. CASE ~is_stopped(r) /\ ~(Overflows(r.cpu_used, units) \/ r.cpu_used + units > CPU_LIMIT)
  <2>1. s = [cpu_used |-> r.cpu_used + units, memory_current |-> r.memory_current,
             memory_peak |-> r.memory_peak, output_bytes |-> r.output_bytes,
             stop_reason |-> r.stop_reason]
    BY <1>3, MeterFields DEF charge_cpu
  <2>2. r.cpu_used + units \in 0..CPU_LIMIT
    BY <1>3, MeterFields, ResourcesAssumption
  <2>3. Sound(s)
    BY <2>1, <2>2, MeterFields, SoundMeters
  <2> QED
    BY <2>1, <2>2, <2>3, <1>3, MeterFields DEF Allowed, Frozen, NeverRewinds
<1> QED
  BY <1>1, <1>2, <1>3

LEMMA ChargeOutputSound ==
  ASSUME NEW r, Sound(r), NEW n \in Nat
  PROVE  Allowed(r, charge_output(r, n))
<1> DEFINE s == charge_output(r, n)
<1>1. CASE is_stopped(r)
  BY <1>1, MeterFields DEF charge_output, Allowed, Frozen, NeverRewinds
<1>2. CASE ~is_stopped(r)
  <2>1. PICK bytes \in 0..OUTPUT_LIMIT, reason \in StopReasons :
          r.output_bytes <= bytes /\
          s = [cpu_used |-> r.cpu_used, memory_current |-> r.memory_current,
               memory_peak |-> r.memory_peak, output_bytes |-> bytes,
               stop_reason |-> reason]
    <3>1. CASE Overflows(r.output_bytes, n)
      BY <1>2, <3>1, MeterFields DEF charge_output, StopReasons
    <3>2. CASE ~Overflows(r.output_bytes, n) /\ r.output_bytes + n > OUTPUT_LIMIT
      <4>1. s = [r EXCEPT !.output_bytes = OUTPUT_LIMIT, !.stop_reason = "OutputLimitExceeded"]
        BY <1>2, <3>2 DEF charge_output
      <4>2. s = [cpu_used |-> r.cpu_used, memory_current |-> r.memory_current,
                 memory_peak |-> r.memory_peak, output_bytes |-> OUTPUT_LIMIT,
                 stop_reason |-> "OutputLimitExceeded"]
        BY <4>1, MeterFields
      <4> QED
        BY <4>2, MeterFields, ResourcesAssumption DEF StopReasons
    <3>3. CASE ~Overflows(r.output_bytes, n) /\ ~(r.output_bytes + n > OUTPUT_LIMIT)
      <4>1. r.output_bytes + n \in 0..OUTPUT_LIMIT
        BY <3>3, MeterFields, ResourcesAssumption
      <4> QED
        BY <1>2, <3>3, <4>1, MeterFields DEF charge_output
    <3> QED
      BY <3>1, <3>2, <3>3
  <2>2. Sound(s)
    BY <2>1, MeterFields, SoundMeters
  <2> QED
    BY <2>1, <2>2, <1>2, MeterFields DEF Allowed, Frozen, NeverRewinds
<1> QED
  BY <1>1, <1>2

LEMMA ReserveSound ==
  ASSUME NEW r, Sound(r), NEW n \in Nat
  PROVE  Allowed(r, reserve_memory(r, n))
<1> DEFINE s == reserve_memory(r, n)
<1>1. CASE is_stopped(r)
  BY <1>1, MeterFields DEF reserve_memory, Allowed, Frozen, NeverRewinds
<1>2. CASE ~is_stopped(r) /\ GrantsMemory(r, n)
  <2>1. s = [cpu_used |-> r.cpu_used, memory_current |-> r.memory_current + n,
             memory_peak |-> Larger(r.memory_peak, r.memory_current + n),
             output_bytes |-> r.output_bytes, stop_reason |-> r.stop_reason]
    <3>1. s = [r EXCEPT !.memory_current = r.memory_current + n,
                        !.memory_peak = Larger(r.memory_peak, r.memory_current + n)]
      BY <1>2 DEF reserve_memory
    <3> QED
      BY <3>1, MeterFields
  <2>2. /\ r.memory_current + n \in Nat
        /\ Larger(r.memory_peak, r.memory_current + n) \in 0..MEMORY_LIMIT
        /\ r.memory_current + n <= Larger(r.memory_peak, r.memory_current + n)
        /\ r.memory_peak <= Larger(r.memory_peak, r.memory_current + n)
    BY <1>2, MeterFields, ResourcesAssumption DEF GrantsMemory, Larger
  <2>3. Sound(s)
    BY <2>1, <2>2, MeterFields, SoundMeters
  <2> QED
    BY <2>1, <2>2, <2>3, <1>2, MeterFields DEF Allowed, Frozen, NeverRewinds
<1>3. CASE ~is_stopped(r) /\ ~GrantsMemory(r, n)
  <2>1. s = [cpu_used |-> r.cpu_used, memory_current |-> r.memory_current,
             memory_peak |-> r.memory_peak, output_bytes |-> r.output_bytes,
             stop_reason |-> "MemoryExhausted"]
    BY <1>3, MeterFields DEF reserve_memory
  <2>2. Sound(s)
    BY <2>1, MeterFields, SoundMeters DEF StopReasons
  <2> QED
    BY <2>1, <2>2, <1>3, MeterFields DEF Allowed, Frozen, NeverRewinds
<1> QED
  BY <1>1, <1>2, <1>3

LEMMA ReleaseSound ==
  ASSUME NEW r, Sound(r), NEW n \in Nat
  PROVE  Allowed(r, release_memory(r, n))
<1> DEFINE s == release_memory(r, n)
           left == IF n > r.memory_current THEN 0 ELSE r.memory_current - n
<1>1. s = [cpu_used |-> r.cpu_used, memory_current |-> left,
           memory_peak |-> r.memory_peak, output_bytes |-> r.output_bytes,
           stop_reason |-> r.stop_reason]
  BY MeterFields DEF release_memory
<1>2. left \in Nat /\ left <= r.memory_current /\ left <= r.memory_peak
  BY MeterFields
<1> HIDE DEF left
<1>3. Sound(s)
  BY <1>1, <1>2, MeterFields, SoundMeters
<1> QED
  BY <1>1, <1>2, <1>3, MeterFields DEF Allowed, Frozen, NeverRewinds

LEMMA RestoreSound ==
  ASSUME NEW r, Sound(r), NEW to \in Nat
  PROVE  Allowed(r, restore_memory(r, to))
<1> DEFINE s == restore_memory(r, to)
           left == IF to < r.memory_current THEN to ELSE r.memory_current
<1>1. s = [cpu_used |-> r.cpu_used, memory_current |-> left,
           memory_peak |-> r.memory_peak, output_bytes |-> r.output_bytes,
           stop_reason |-> r.stop_reason]
  BY MeterFields DEF restore_memory
<1>2. left \in Nat /\ left <= r.memory_current /\ left <= r.memory_peak
  BY MeterFields
<1> HIDE DEF left
<1>3. Sound(s)
  BY <1>1, <1>2, MeterFields, SoundMeters
<1> QED
  BY <1>1, <1>2, <1>3, MeterFields DEF Allowed, Frozen, NeverRewinds

LEMMA MeteredStep ==
  ASSUME Metered, [Next]_vars
  PROVE  /\ Metered'
         /\ [Frozen(resources, resources')]_vars
         /\ [NeverRewinds(resources, resources')]_vars
<1>1. /\ Sound(resources) /\ owned \in [Owners -> Nat] /\ mark \in Nat \cup {None}
      /\ resources.memory_current \in Nat
  BY MeterFields DEF Metered, WithinLimits, Sound
<1> DEFINE Fields == owned' \in [Owners -> Nat] /\ mark' \in Nat \cup {None}
           Good == Allowed(resources, resources') /\ Fields
<1>2. Amounts \subseteq Nat
  BY ResourcesAssumption
<1>3. ASSUME NEW n \in Amounts, ChargeCpu(n)
      PROVE  Good
  BY <1>1, <1>2, <1>3, ChargeCpuSound DEF ChargeCpu
<1>4. ASSUME NEW n \in Amounts, ChargeOutput(n)
      PROVE  Good
  BY <1>1, <1>2, <1>4, ChargeOutputSound DEF ChargeOutput
<1>5. ASSUME NEW n \in Amounts, ReserveScratch(n)
      PROVE  Good
  BY <1>1, <1>2, <1>5, ReserveSound DEF ReserveScratch
<1>6. ASSUME NEW n \in Amounts, NEW o \in Owners, Reserve(o, n)
      PROVE  Good
  <2>1. Allowed(resources, resources')
    BY <1>1, <1>2, <1>6, ReserveSound DEF Reserve
  <2>2. Fields
    BY <1>1, <1>2, <1>6 DEF Reserve
  <2> QED
    BY <2>1, <2>2
<1>7. ASSUME NEW n \in Amounts, NEW o \in Owners, SyncGrows(o, n)
      PROVE  Good
  <2>1. n - owned[o] \in Nat
    BY <1>1, <1>2, <1>7 DEF SyncGrows
  <2>2. Allowed(resources, resources')
    BY <1>1, <1>7, <2>1, ReserveSound DEF SyncGrows
  <2>3. Fields
    BY <1>1, <1>2, <1>7 DEF SyncGrows
  <2> QED
    BY <2>2, <2>3
<1>8. ASSUME NEW n \in Amounts, NEW o \in Owners, SyncShrinks(o, n)
      PROVE  Good
  <2>1. owned[o] - n \in Nat
    BY <1>1, <1>2, <1>8 DEF SyncShrinks
  <2>2. Allowed(resources, resources')
    BY <1>1, <1>8, <2>1, ReleaseSound DEF SyncShrinks
  <2>3. Fields
    BY <1>1, <1>2, <1>8 DEF SyncShrinks
  <2> QED
    BY <2>2, <2>3
<1>9. ASSUME NEW o \in Owners, Take(o)
      PROVE  Good
  BY <1>1, <1>9, ReleaseSound DEF Take
<1>10. ASSUME BeginCommand \/ UNCHANGED vars
       PROVE  Good
  <2>1. resources' = resources /\ Fields
    BY <1>1, <1>10 DEF BeginCommand, vars
  <2> QED
    BY <1>1, <2>1, MeterFields DEF Allowed, Frozen, NeverRewinds
<1>11. ASSUME EndCommand
       PROVE  Good
  <2>1. (IF mark > resources.memory_current THEN 0 ELSE resources.memory_current - mark) \in Nat
    BY <1>1, <1>11 DEF EndCommand
  <2> QED
    BY <1>1, <1>11, <2>1, ReleaseSound DEF EndCommand
<1>12. ASSUME RestoreFrame
       PROVE  Good
  BY <1>1, <1>12, RestoreSound DEF RestoreFrame
<1>13. Good
  BY <1>3, <1>4, <1>5, <1>6, <1>7, <1>8, <1>9, <1>10, <1>11, <1>12 DEF Next
<1> QED
  BY <1>13 DEF Allowed, Metered, WithinLimits, Sound

LEMMA MeteredInit == Init => Metered
BY ResourcesAssumption DEF Init, new, Metered, Meters, WithinLimits, StopReasons

(* No sequence of charge_cpu, charge_output, reserve_memory, release_memory  *)
(* and restore_memory takes a meter over its limit, for any limits and       *)
(* amounts a u64 holds.                                                      *)
THEOREM MetersWithinLimits == Spec => []WithinLimits
<1>1. Metered => WithinLimits
  BY DEF Metered
<1> QED
  BY <1>1, MeteredInit, MeteredStep, PTL DEF Spec

(* After the first refused charge only release_memory and restore_memory     *)
(* have an effect, and they only give memory back: the stop reason of        *)
(* resources.rs is sticky.                                                   *)
THEOREM StopsAreFinal == Spec => StopIsFinal
<1>1. Spec => []Metered
  BY MeteredInit, MeteredStep, PTL DEF Spec
<1> QED
  BY <1>1, MeteredStep, PTL DEF Spec, StopIsFinal

(* No call of resources.rs rewinds a usage meter or the memory peak: the     *)
(* checked additions clamp at the limit instead of wrapping, for any limits. *)
THEOREM UsageOnlyGrows == Spec => MetersNeverRewind
<1>1. Spec => []Metered
  BY MeteredInit, MeteredStep, PTL DEF Spec
<1> QED
  BY <1>1, MeteredStep, PTL DEF Spec, MetersNeverRewind
=============================================================================
