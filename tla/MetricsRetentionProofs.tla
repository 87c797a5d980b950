----------------------- MODULE MetricsRetentionProofs -----------------------
(***************************************************************************)
(* MetricsRetention for any number of connections and processors, any       *)
(* periods, clocks that jump and statements that fail; and what is purged   *)
(* in time when neither happens.                                           *)
(***************************************************************************)
EXTENDS MetricsRetention, TLAPS

LEMMA LaterIsLatest ==
    ASSUME NEW a \in Int, NEW b \in Int
    PROVE  Later(a, b) \in Int /\ Later(a, b) >= a /\ Later(a, b) >= b
BY DEF Later

LEMMA MinuteIsBefore == \A t \in Nat : MinuteOf(t) \in Int /\ t >= MinuteOf(t)
<1> SUFFICES ASSUME NEW t \in Nat
             PROVE  MinuteOf(t) \in Int /\ t >= MinuteOf(t)
  OBVIOUS
<1>1. t % Bucket \in 0..Bucket - 1
  BY ConstAssumption
<1>2. QED
  BY <1>1, ConstAssumption DEF MinuteOf

\* Only windows write processors in a step of their own, for a sample.
Sampled ==
    /\ \A c \in Services : step[c] # "processors"
    /\ \A c \in Windows : step[c] # "idle" => ts[c] \in Times

TypeInv == TypeOK /\ Sampled

LEMMA CutsAreTimes == TypeOK => clock - Retention \in Int /\ clock - Fine \in Int
BY ConstAssumption DEF TypeOK, Times

LEMMA FailuresType ==
    ASSUME TypeOK, Succeeds \/ Fails
    PROVE  failures' \in 0..MaxFails
BY ConstAssumption DEF TypeOK, Succeeds, Fails

LEMMA MaybeRunType ==
    ASSUME TypeOK, NEW c \in Conns, NEW t \in 0..MaxClock, MaybeRunMaintenance(c, t)
    PROVE  /\ lastMaintenance' \in [Conns -> 0..MaxClock]
           /\ step' \in [Conns -> {"idle", "processors", "purge", "purgeCpu", "thin"}]
           /\ checked' \in Int
           /\ \A d \in Conns : d # c => step'[d] = step[d]
           /\ c \notin Windows => step'[c] # "processors"
<1>1. t \in Int /\ checked \in Int
  BY DEF TypeOK
<1>2. Later(checked, t) \in Int
  BY <1>1, LaterIsLatest
<1>3. CASE Due(c, t)
  BY <1>3, <1>1 DEF MaybeRunMaintenance, Goto, TypeOK
<1>4. CASE ~Due(c, t)
  BY <1>4, <1>2 DEF MaybeRunMaintenance, Goto, AfterMaintenance, TypeOK
<1>5. QED
  BY <1>3, <1>4

LEMMA TypeStep == TypeInv /\ [Next]_vars => TypeInv'
<1> SUFFICES ASSUME TypeInv, [Next]_vars PROVE TypeInv'
  OBVIOUS
<1> USE ConstAssumption DEF TypeInv, tables, conn, history
<1>0. clock \in 0..MaxClock /\ clock \in Times /\ TypeOK
  BY DEF TypeOK, Times
<1>1. ASSUME NEW c \in Conns, InsertSystemSample(c)
      PROVE  TypeInv'
  <2>1. MaybeRunMaintenance(c, clock)
    BY <1>1 DEF InsertSystemSample
  <2>2. TypeOK'
    <3>1. system' \subseteq Times
      BY <1>1, <1>0 DEF InsertSystemSample, TypeOK
    <3>2. ts' \in [Conns -> 0..MaxClock]
      BY <1>1, <1>0 DEF InsertSystemSample, TypeOK
    <3>3. failures' \in 0..MaxFails
      BY <1>0, <1>1, FailuresType DEF InsertSystemSample
    <3>4. QED
      BY <1>1, <1>0, <2>1, <3>1, <3>2, <3>3, MaybeRunType DEF InsertSystemSample, TypeOK
  <2>3. Sampled'
    BY <1>1, <1>0, <2>1, MaybeRunType DEF InsertSystemSample, TypeOK, Sampled, Conns
  <2>4. QED
    BY <2>2, <2>3
<1>2. ASSUME NEW c \in Conns, InsertCpuSamples(c)
      PROVE  TypeInv'
  <2>1. c \in Windows /\ ts[c] \in Times
    BY <1>2 DEF InsertCpuSamples, Sampled, Conns
  <2>2. \A W \in SUBSET Procs : {ts[c]} \X W \subseteq Times \X Procs
    BY <2>1
  <2>3. cpu' \subseteq Times \X Procs /\ seen' \subseteq Times \X Procs
    BY <1>2, <2>2 DEF InsertCpuSamples, TypeOK
  <2>4. step' \in [Conns -> {"idle", "processors", "purge", "purgeCpu", "thin"}]
    BY <1>2 DEF InsertCpuSamples, Goto, TypeOK
  <2>5. ts' \in [Conns -> 0..MaxClock]
    BY <1>2 DEF InsertCpuSamples, TypeOK
  <2>6. Sampled'
    BY <1>2 DEF InsertCpuSamples, Goto, Sampled, TypeOK, Conns
  <2>7. failures' \in 0..MaxFails
    BY <1>0, <1>2, FailuresType DEF InsertCpuSamples
  <2>8. QED
    BY <1>2, <2>3, <2>4, <2>5, <2>6, <2>7 DEF InsertCpuSamples, TypeOK
<1>3. ASSUME NEW c \in Conns, Push(c)
      PROVE  TypeInv'
  <2>1. buffer' \in [Conns -> SUBSET Times]
    BY <1>3, <1>0 DEF Push, TypeOK
  <2>2. ts' \in [Conns -> 0..MaxClock]
    BY <1>3, <1>0 DEF Push, TypeOK
  <2>3. Sampled'
    BY <1>3, <1>0 DEF Push, Sampled, TypeOK, Conns
  <2>4. QED
    BY <1>3, <2>1, <2>2, <2>3 DEF Push, TypeOK
<1>4. ASSUME NEW c \in Conns, Flush(c)
      PROVE  TypeInv'
  <2>1. MaybeRunMaintenance(c, ts[c]) /\ ts[c] \in 0..MaxClock
    BY <1>4 DEF Flush, TypeOK
  <2>2. buffer' \in [Conns -> SUBSET Times] /\ system' \subseteq Times
    BY <1>4 DEF Flush, TypeOK
  <2>3. Sampled'
    <3>1. c \notin Windows /\ step'[c] # "processors"
      BY <1>4, <1>0, <2>1, MaybeRunType DEF Flush
    <3>2. \A d \in Conns : d # c => step'[d] = step[d]
      BY <1>0, <2>1, MaybeRunType
    <3>3. ts' = ts
      BY <1>4 DEF Flush
    <3>4. QED
      BY <3>1, <3>2, <3>3 DEF Sampled, Conns
  <2>4. UNCHANGED <<clock, ts, cutoff, purged, thinned>>
    BY <1>4 DEF Flush
  <2>8. cpu' \subseteq Times \X Procs /\ seen' \subseteq Times \X Procs
    <3>1. PICK rows \in SUBSET (buffer[c] \X Procs) : cpu' = cpu \cup rows /\ seen' = seen \cup rows
      BY <1>4 DEF Flush
    <3>2. rows \subseteq buffer[c] \X Procs /\ buffer[c] \subseteq Times
      BY <3>1 DEF TypeOK
    <3>3. QED
      BY <3>1, <3>2, <1>0 DEF TypeOK
  <2>5. /\ lastMaintenance' \in [Conns -> 0..MaxClock]
        /\ step' \in [Conns -> {"idle", "processors", "purge", "purgeCpu", "thin"}]
        /\ checked' \in Int
    BY <2>1, <1>0, MaybeRunType
  <2>9. failures' \in 0..MaxFails
    BY <1>0, <1>4, FailuresType DEF Flush
  <2>6. TypeOK'
    BY <2>2, <2>4, <2>5, <2>8, <2>9, <1>0 DEF TypeOK
  <2>7. QED
    BY <2>3, <2>6
<1>5. ASSUME NEW c \in Conns, RunMaintenance(c)
      PROVE  TypeInv'
  BY <1>5, <1>0 DEF RunMaintenance, Goto, TypeOK, Sampled, Conns
<1>6. ASSUME NEW c \in Conns, PurgeSystem(c)
      PROVE  TypeInv'
  <2>1. cutoff' \in [Conns -> Int] /\ system' \subseteq Times
    BY <1>6, <1>0, CutsAreTimes DEF PurgeSystem, TypeOK
  <2>2. step' = [step EXCEPT ![c] = "purgeCpu"]
    BY <1>6 DEF PurgeSystem, Goto
  <2>3. Sampled'
    BY <1>6, <2>2 DEF PurgeSystem, TypeOK, Sampled, Conns
  <2>4. failures' \in 0..MaxFails
    BY <1>0, <1>6, FailuresType DEF PurgeSystem
  <2>5. QED
    BY <1>6, <2>1, <2>2, <2>3, <2>4 DEF PurgeSystem, TypeOK
<1>7. ASSUME NEW c \in Conns, PurgeCpu(c)
      PROVE  TypeInv'
  <2>1. purged' \in Int
    BY <1>7, LaterIsLatest DEF PurgeCpu, TypeOK
  <2>2. cpu' \subseteq Times \X Procs /\ cutoff' \in [Conns -> Int]
    BY <1>7 DEF PurgeCpu, TypeOK
  <2>3. step' = [step EXCEPT ![c] = "thin"]
    BY <1>7 DEF PurgeCpu, Goto
  <2>4. Sampled'
    BY <1>7, <2>3 DEF PurgeCpu, TypeOK, Sampled, Conns
  <2>5. failures' \in 0..MaxFails
    BY <1>0, <1>7, FailuresType DEF PurgeCpu
  <2>6. QED
    BY <1>7, <2>1, <2>2, <2>3, <2>4, <2>5 DEF PurgeCpu, TypeOK
<1>8. ASSUME NEW c \in Conns, DownsampleCpu(c)
      PROVE  TypeInv'
  <2>1. thinned' \in Int
    BY <1>8, <1>0, CutsAreTimes, LaterIsLatest DEF DownsampleCpu, TypeOK
  <2>2. cpu' \subseteq Times \X Procs
    BY <1>8 DEF DownsampleCpu, TypeOK
  <2>3. checked' \in Int
    <3>1. lastMaintenance[c] \in Int /\ checked \in Int
      BY DEF TypeOK
    <3>2. QED
      BY <1>8, <3>1, LaterIsLatest DEF DownsampleCpu
  <2>4. step' = [step EXCEPT ![c] = AfterMaintenance(c)] /\ step[c] = "thin"
    BY <1>8 DEF DownsampleCpu, Goto
  <2>5. Sampled'
    BY <1>8, <2>4 DEF DownsampleCpu, AfterMaintenance, TypeOK, Sampled, Conns
  <2>6. failures' \in 0..MaxFails
    BY <1>0, <1>8, FailuresType DEF DownsampleCpu
  <2>7. QED
    BY <1>8, <2>1, <2>2, <2>3, <2>4, <2>5, <2>6 DEF DownsampleCpu, AfterMaintenance, TypeOK
<1>9. CASE Tick
  BY <1>9 DEF Tick, TypeOK, Sampled
<1>10. ASSUME NEW c \in Conns, Reopen(c)
       PROVE  TypeInv'
  <2>1. /\ buffer' \in [Conns -> SUBSET Times]
        /\ lastMaintenance' \in [Conns -> 0..MaxClock]
        /\ ts' \in [Conns -> 0..MaxClock] /\ cutoff' \in [Conns -> Int]
    BY <1>10 DEF Reopen, TypeOK
  <2>2. step' = [step EXCEPT ![c] = "idle"]
    BY <1>10 DEF Reopen, Goto
  <2>3. Sampled'
    BY <1>10, <2>2 DEF Reopen, TypeOK, Sampled, Conns
  <2>4. QED
    BY <1>10, <2>1, <2>2, <2>3 DEF Reopen, TypeOK
<1>11. CASE UNCHANGED vars
  BY <1>11 DEF vars, TypeOK, Sampled
<1>12. QED
  BY <1>1, <1>2, <1>3, <1>4, <1>5, <1>6, <1>7, <1>8, <1>9, <1>10, <1>11
  DEF Next, Writer

LEMMA TypeInvHolds == Spec => []TypeInv
<1>1. Init => TypeInv
  BY ConstAssumption DEF Init, TypeInv, TypeOK, Sampled, Times, Conns
<1>2. QED
  BY <1>1, TypeStep, PTL DEF Spec

\* The variables of every reachable state are well-formed.
THEOREM TypeCorrect == Spec => []TypeOK
<1>1. TypeInv => TypeOK
  BY DEF TypeInv
<1>2. QED
  BY <1>1, TypeInvHolds, PTL

-----------------------------------------------------------------------------
(* Which steps leave cpu_samples and its history alone *)

Elsewhere(c) ==
    InsertSystemSample(c) \/ Push(c) \/ RunMaintenance(c)
    \/ PurgeSystem(c) \/ Reopen(c)

LEMMA CpuUntouched ==
    ASSUME Tick \/ (\E c \in Conns : Elsewhere(c)) \/ UNCHANGED vars
    PROVE  cpu' = cpu /\ seen' = seen /\ purged' = purged /\ thinned' = thinned
BY DEF Elsewhere, Tick, InsertSystemSample, Push, RunMaintenance, PurgeSystem,
       Reopen, vars, tables, history

\* A processor keeps a row in every minute it has ever had one in, unless a
\* purge has reached that minute (MetricsDb.cpp, DownsampleCpuOlderThanDays).
THEOREM MinutesAreKept == Spec => []EveryMinuteKept
<1>1. Init => EveryMinuteKept
  BY DEF Init, EveryMinuteKept
<1>2. TypeInv /\ EveryMinuteKept /\ [Next]_vars => EveryMinuteKept'
  <2> SUFFICES ASSUME TypeInv, EveryMinuteKept, [Next]_vars
               PROVE  EveryMinuteKept'
    OBVIOUS
  <2>1. ASSUME NEW c \in Conns, InsertCpuSamples(c) \/ Flush(c)
        PROVE  EveryMinuteKept'
    BY <2>1 DEF InsertCpuSamples, Flush, EveryMinuteKept
  <2>2. ASSUME NEW c \in Conns, PurgeCpu(c)
        PROVE  EveryMinuteKept'
    <3>1. CASE UNCHANGED <<cpu, purged>>
      BY <2>2, <3>1 DEF PurgeCpu, EveryMinuteKept
    <3>2. CASE cpu' = {r \in cpu : r[1] >= cutoff[c]} /\ purged' = Later(purged, cutoff[c])
      <4> SUFFICES ASSUME NEW r \in seen, MinuteOf(r[1]) >= purged'
                   PROVE  \E q \in cpu' : MinuteOf(q[1]) = MinuteOf(r[1]) /\ q[2] = r[2]
        BY <2>2 DEF PurgeCpu, EveryMinuteKept
      <4>1. /\ purged \in Int /\ cutoff[c] \in Int
            /\ \A q \in cpu \cup seen : q[1] \in Nat
        BY ConstAssumption DEF TypeInv, TypeOK, Times
      <4>2. purged' \in Int /\ purged' >= purged /\ purged' >= cutoff[c]
        BY <3>2, <4>1, LaterIsLatest
      <4>3. MinuteOf(r[1]) \in Int
        BY <4>1, MinuteIsBefore
      <4>4. MinuteOf(r[1]) >= purged /\ MinuteOf(r[1]) >= cutoff[c]
        BY <4>1, <4>2, <4>3
      <4>5. PICK q \in cpu : MinuteOf(q[1]) = MinuteOf(r[1]) /\ q[2] = r[2]
        BY <4>4 DEF EveryMinuteKept
      <4>6. q[1] >= MinuteOf(r[1]) /\ q[1] \in Nat
        BY <4>1, <4>5, MinuteIsBefore
      <4>7. q[1] >= cutoff[c]
        BY <4>1, <4>3, <4>4, <4>6
      <4>8. QED
        BY <3>2, <4>5, <4>7
    <3>3. QED
      BY <2>2, <3>1, <3>2 DEF PurgeCpu
  <2>3. ASSUME NEW c \in Conns, DownsampleCpu(c)
        PROVE  EveryMinuteKept'
    <3>1. CASE UNCHANGED <<cpu, thinned>>
      BY <2>3, <3>1 DEF DownsampleCpu, EveryMinuteKept
    <3>2. ASSUME NEW S \in Selections(DownsampleFrom(cpu)),
                 cpu' = {r \in cpu : r \notin DownsampleFrom(cpu) \/ r[1] \in S}
          PROVE  EveryMinuteKept'
      <4> SUFFICES ASSUME NEW r \in seen, MinuteOf(r[1]) >= purged
                   PROVE  \E q \in cpu' : MinuteOf(q[1]) = MinuteOf(r[1]) /\ q[2] = r[2]
        BY <2>3 DEF DownsampleCpu, EveryMinuteKept
      <4>1. PICK q \in cpu : MinuteOf(q[1]) = MinuteOf(r[1]) /\ q[2] = r[2]
        BY DEF EveryMinuteKept
      <4>2. CASE q \notin DownsampleFrom(cpu)
        BY <3>2, <4>1, <4>2
      <4>3. CASE q \in DownsampleFrom(cpu)
        <5>1. PICK p \in Group(DownsampleFrom(cpu), q) : p[1] \in S
          BY <4>3 DEF Selections
        <5>2. p \in cpu /\ MinuteOf(p[1]) = MinuteOf(q[1]) /\ p[2] = q[2]
          BY <5>1 DEF Group, DownsampleFrom
        <5>3. p \in cpu'
          BY <3>2, <5>1, <5>2
        <5>4. QED
          BY <4>1, <5>2, <5>3
      <4>4. QED
        BY <4>2, <4>3
    <3>3. QED
      BY <2>3, <3>1, <3>2 DEF DownsampleCpu
  <2>4. CASE Tick \/ (\E c \in Conns : Elsewhere(c)) \/ UNCHANGED vars
    BY <2>4, CpuUntouched DEF EveryMinuteKept
  <2>5. QED
    BY <2>1, <2>2, <2>3, <2>4 DEF Next, Writer, Elsewhere
<1>3. QED
  BY <1>1, <1>2, TypeInvHolds, PTL DEF Spec

\* Every row that is newer than all cutoffs so far is still there
\* (MetricsDb.cpp, RunMaintenance).
THEOREM RecentRowsStay == Spec => []RecentIsComplete
<1>1. Init => RecentIsComplete
  BY DEF Init, RecentIsComplete
<1>2. TypeInv /\ RecentIsComplete /\ [Next]_vars => RecentIsComplete'
  <2> SUFFICES ASSUME TypeInv, RecentIsComplete, [Next]_vars
               PROVE  RecentIsComplete'
    OBVIOUS
  <2>0. /\ purged \in Int /\ thinned \in Int /\ clock - Fine \in Int
        /\ \A c \in Conns : cutoff[c] \in Int
        /\ \A r \in seen : r[1] \in Int
    BY ConstAssumption DEF TypeInv, TypeOK, Times
  <2>1. ASSUME NEW c \in Conns, InsertCpuSamples(c) \/ Flush(c)
        PROVE  RecentIsComplete'
    BY <2>1 DEF InsertCpuSamples, Flush, RecentIsComplete
  <2>2. ASSUME NEW c \in Conns, PurgeCpu(c)
        PROVE  RecentIsComplete'
    <3>1. Later(purged, cutoff[c]) \in Int
          /\ Later(purged, cutoff[c]) >= purged /\ Later(purged, cutoff[c]) >= cutoff[c]
      BY <2>0, LaterIsLatest
    <3>2. CASE UNCHANGED <<cpu, purged>>
      BY <2>2, <3>2 DEF PurgeCpu, RecentIsComplete
    <3>3. CASE cpu' = {r \in cpu : r[1] >= cutoff[c]} /\ purged' = Later(purged, cutoff[c])
      <4>1. seen' = seen /\ thinned' = thinned
        BY <2>2 DEF PurgeCpu
      <4>2. \A r \in seen : r[1] >= purged' => r[1] >= purged /\ r[1] >= cutoff[c]
        BY <2>0, <3>1, <3>3
      <4>3. QED
        BY <3>3, <4>1, <4>2 DEF RecentIsComplete
    <3>4. QED
      BY <2>2, <3>2, <3>3 DEF PurgeCpu
  <2>3. ASSUME NEW c \in Conns, DownsampleCpu(c)
        PROVE  RecentIsComplete'
    <3>1. Later(thinned, clock - Fine) \in Int
          /\ Later(thinned, clock - Fine) >= thinned
          /\ Later(thinned, clock - Fine) >= clock - Fine
      BY <2>0, LaterIsLatest
    <3>2. seen' = seen /\ purged' = purged
      BY <2>3 DEF DownsampleCpu
    <3>3. CASE UNCHANGED <<cpu, thinned>>
      BY <3>2, <3>3 DEF RecentIsComplete
    <3>4. ASSUME NEW S \in Selections(DownsampleFrom(cpu)),
                 cpu' = {r \in cpu : r \notin DownsampleFrom(cpu) \/ r[1] \in S},
                 thinned' = Later(thinned, clock - Fine)
          PROVE  RecentIsComplete'
      <4>1. \A r \in seen : r[1] >= thinned' => r[1] >= thinned /\ ~(r[1] < clock - Fine)
        BY <2>0, <3>1, <3>4
      <4>2. QED
        BY <3>2, <3>4, <4>1 DEF RecentIsComplete, DownsampleFrom
    <3>5. QED
      BY <2>3, <3>3, <3>4 DEF DownsampleCpu
  <2>4. CASE Tick \/ (\E c \in Conns : Elsewhere(c)) \/ UNCHANGED vars
    BY <2>4, CpuUntouched DEF RecentIsComplete
  <2>5. QED
    BY <2>1, <2>2, <2>3, <2>4 DEF Next, Writer, Elsewhere
<1>3. QED
  BY <1>1, <1>2, TypeInvHolds, PTL DEF Spec

-----------------------------------------------------------------------------
(* A clock that nobody sets, and statements that all succeed *)

\* All that is remembered lies in the past, and what is being written is young.
InTime ==
    /\ checked =< clock
    /\ \A c \in Conns : lastMaintenance[c] =< clock /\ ts[c] =< clock
    /\ \A c \in Services : \A b \in buffer[c] : b =< clock /\ clock =< b + Buffered
    /\ \A c \in Windows : step[c] # "idle" => clock =< ts[c] + Buffered

LEMMA Numbers ==
    TypeInv => /\ clock \in Int /\ checked \in Int
               /\ Retention \in Nat /\ Every \in Nat /\ Buffered \in Nat
               /\ Buffered =< Retention
               /\ \A c \in Conns : /\ lastMaintenance[c] \in Int /\ ts[c] \in Int
                                   /\ cutoff[c] \in Int
               /\ \A c \in Conns : \A b \in buffer[c] : b \in Int
               /\ \A t \in system : t \in Int
               /\ \A r \in cpu : r[1] \in Int
BY ConstAssumption DEF TypeInv, TypeOK, Times

LEMMA LaterIsOne == \A a, b \in Int : Later(a, b) = a \/ Later(a, b) = b
BY DEF Later

\* MaybeRunMaintenance starts the maintenance of one connection, or finds that
\* the last one is recent.
LEMMA MaybeRunCases ==
    ASSUME TypeInv, NEW c \in Conns, NEW t \in Int, MaybeRunMaintenance(c, t)
    PROVE  \/ /\ lastMaintenance' = [lastMaintenance EXCEPT ![c] = t]
              /\ step' = [step EXCEPT ![c] = "purge"]
              /\ checked' = checked
           \/ /\ t < lastMaintenance[c] + Every
              /\ lastMaintenance' = lastMaintenance
              /\ step' = [step EXCEPT ![c] = AfterMaintenance(c)]
              /\ checked' = Later(checked, t)
<1>1. CASE Due(c, t)
  BY <1>1 DEF MaybeRunMaintenance, Goto
<1>2. CASE ~Due(c, t)
  <2>1. ~(t - lastMaintenance[c] >= Every)
    BY <1>2 DEF Due
  <2>2. t < lastMaintenance[c] + Every
    BY <2>1, Numbers
  <2>3. QED
    BY <1>2, <2>2 DEF MaybeRunMaintenance, Goto
<1>3. QED
  BY <1>1, <1>2

LEMMA InTimeStep ==
    ASSUME ~Jumps, TypeInv, InTime, [Next]_vars
    PROVE  InTime'
<1> USE Numbers
<1>0. DOMAIN lastMaintenance = Conns /\ DOMAIN step = Conns /\ DOMAIN ts = Conns
      /\ DOMAIN buffer = Conns
  BY DEF TypeInv, TypeOK
<1>1. ASSUME NEW c \in Conns, InsertSystemSample(c)
      PROVE  InTime'
  <2>1. MaybeRunMaintenance(c, clock)
    BY <1>1 DEF InsertSystemSample
  <2>2. ts' = [ts EXCEPT ![c] = clock] /\ clock' = clock /\ buffer' = buffer
    BY <1>1 DEF InsertSystemSample
  <2>3. checked' =< clock /\ \A d \in Conns : lastMaintenance'[d] =< clock
    BY <1>0, <2>1, MaybeRunCases, LaterIsOne DEF InTime
  <2>4. \A d \in Conns : d # c => step'[d] = step[d]
    BY <1>0, <2>1, MaybeRunCases
  <2>5. \A d \in Windows : step'[d] # "idle" => clock =< ts'[d] + Buffered
    <3>1. ASSUME NEW d \in Windows, step'[d] # "idle"
          PROVE  clock =< ts'[d] + Buffered
      <4>1. CASE d = c
        BY <4>1, <1>0, <2>2
      <4>2. CASE d # c
        BY <4>2, <1>0, <2>2, <2>4, <3>1 DEF InTime, Conns
      <4>3. QED
        BY <4>1, <4>2
    <3>2. QED
      BY <3>1
  <2>6. QED
    BY <1>0, <2>2, <2>3, <2>5 DEF InTime
<1>2. ASSUME NEW c \in Conns, InsertCpuSamples(c) \/ Reopen(c)
      PROVE  InTime'
  <2>1. /\ clock' = clock /\ checked' = checked
        /\ step' = [step EXCEPT ![c] = "idle"]
        /\ ts' = [ts EXCEPT ![c] = 0]
        /\ lastMaintenance' \in {lastMaintenance, [lastMaintenance EXCEPT ![c] = 0]}
        /\ buffer' \in {buffer, [buffer EXCEPT ![c] = {}]}
    BY <1>2 DEF InsertCpuSamples, Reopen, Goto, history
  <2>2. clock >= 0
    BY DEF TypeInv, TypeOK, Times
  <2>3. \A d \in Conns : lastMaintenance'[d] =< clock /\ ts'[d] =< clock
    BY <1>0, <2>1, <2>2 DEF InTime
  <2>4. \A d \in Services : \A b \in buffer'[d] : b \in buffer[d]
    BY <1>0, <2>1 DEF Conns
  <2>5. \A d \in Windows : step'[d] # "idle" => step[d] # "idle" /\ ts'[d] = ts[d]
    BY <1>0, <2>1 DEF Conns
  <2>6. QED
    BY <2>1, <2>3, <2>4, <2>5 DEF InTime
<1>3. ASSUME NEW c \in Conns, Push(c)
      PROVE  InTime'
  <2>1. /\ clock' = clock /\ checked' = checked /\ step' = step
        /\ lastMaintenance' = lastMaintenance /\ c \notin Windows
        /\ buffer' = [buffer EXCEPT ![c] = buffer[c] \cup {clock}]
        /\ ts' = [ts EXCEPT ![c] = clock]
    BY <1>3, ConstAssumption DEF Push, history
  <2>2. \A d \in Conns : ts'[d] =< clock
    BY <1>0, <2>1 DEF InTime
  <2>3. \A d \in Services : \A b \in buffer'[d] : b \in buffer[d] \/ b = clock
    BY <1>0, <2>1 DEF Conns
  <2>4. \A d \in Windows : ts'[d] = ts[d]
    BY <1>0, <2>1 DEF Conns
  <2>5. QED
    BY <2>1, <2>2, <2>3, <2>4 DEF InTime
<1>4. ASSUME NEW c \in Conns, Flush(c)
      PROVE  InTime'
  <2>1. MaybeRunMaintenance(c, ts[c])
    BY <1>4 DEF Flush
  <2>2. /\ clock' = clock /\ ts' = ts /\ c \notin Windows
        /\ buffer' = [buffer EXCEPT ![c] = {}]
    BY <1>4, ConstAssumption DEF Flush
  <2>3. checked' =< clock /\ \A d \in Conns : lastMaintenance'[d] =< clock
    BY <1>0, <2>1, MaybeRunCases, LaterIsOne DEF InTime
  <2>4. \A d \in Windows : step'[d] = step[d]
    BY <1>0, <2>1, <2>2, MaybeRunCases DEF Conns
  <2>5. \A d \in Services : \A b \in buffer'[d] : b \in buffer[d]
    BY <1>0, <2>2 DEF Conns
  <2>6. QED
    BY <2>2, <2>3, <2>4, <2>5 DEF InTime
<1>5. ASSUME NEW c \in Conns, RunMaintenance(c)
      PROVE  InTime'
  <2>1. /\ clock' = clock /\ checked' = checked /\ ts' = ts /\ buffer' = buffer
        /\ lastMaintenance' = [lastMaintenance EXCEPT ![c] = clock]
        /\ step' = [step EXCEPT ![c] = "purge"] /\ c \notin Windows
    BY <1>5, ConstAssumption DEF RunMaintenance, Goto, history
  <2>2. \A d \in Windows : step'[d] = step[d]
    BY <1>0, <2>1 DEF Conns
  <2>3. \A d \in Conns : lastMaintenance'[d] =< clock
    BY <1>0, <2>1 DEF InTime
  <2>4. QED
    BY <2>1, <2>2, <2>3 DEF InTime
<1>6. ASSUME NEW c \in Conns, PurgeSystem(c) \/ PurgeCpu(c) \/ DownsampleCpu(c)
      PROVE  InTime'
  <2>1. /\ clock' = clock /\ ts' = ts /\ buffer' = buffer
        /\ lastMaintenance' = lastMaintenance
        /\ checked' \in {checked, Later(checked, lastMaintenance[c])}
        /\ step[c] # "idle"
        /\ \A d \in Conns : d # c => step'[d] = step[d]
    BY <1>0, <1>6 DEF PurgeSystem, PurgeCpu, DownsampleCpu, Goto, history
  <2>2. checked' =< clock
    BY <2>1, LaterIsOne DEF InTime
  <2>3. \A d \in Windows : step'[d] # "idle" => step[d] # "idle"
    BY <2>1 DEF Conns
  <2>4. QED
    BY <2>1, <2>2, <2>3 DEF InTime
<1>7. CASE Tick
  <2>1. /\ clock' = clock + 1
        /\ \A c \in Services : \A b \in buffer[c] : clock' =< b + Buffered
        /\ \A c \in Windows : step[c] # "idle" => clock' =< ts[c] + Buffered
    BY <1>7 DEF Tick
  <2>2. UNCHANGED <<conn, history>>
    BY <1>7 DEF Tick
  <2>3. \A c \in Services : \A b \in buffer[c] : b \in Int
    BY DEF Conns
  <2>4. QED
    BY <2>1, <2>2, <2>3 DEF InTime, conn, history
<1>8. CASE UNCHANGED vars
  BY <1>8 DEF InTime, vars, conn, history
<1>9. QED
  BY <1>1, <1>2, <1>3, <1>4, <1>5, <1>6, <1>7, <1>8 DEF Next, Writer

\* The tables have nothing from before k.
RowsFrom(k) == (\A t \in system : t >= k) /\ (\A r \in cpu : r[1] >= k)

\* How far a connection has come since it last began its maintenance.
Maintained(c) ==
    LET k == lastMaintenance[c] - Retention
    IN  /\ step[c] # "purge" => \A t \in system : t >= k
        /\ step[c] = "purgeCpu" => cutoff[c] >= k
        /\ step[c] \notin {"purge", "purgeCpu"} => \A r \in cpu : r[1] >= k

InTables == RowsFrom(checked - Retention - Every) /\ \A c \in Conns : Maintained(c)
PurgedInv == failures = 0 => InTables

\* The rows a step writes are younger than what the next purge takes.
WritesYoung ==
    /\ \A t \in system' : t \in system \/ t >= clock - Retention
    /\ \A r \in cpu' : r \in cpu \/ r[1] >= clock - Retention

LEMMA PrimedNumbers ==
    TypeInv' => /\ \A t \in system' : t \in Int
                /\ \A r \in cpu' : r[1] \in Int
BY ConstAssumption DEF TypeInv, TypeOK, Times

LEMMA RowsAfter ==
    ASSUME TypeInv, TypeInv', WritesYoung, NEW k \in Int, k =< clock - Retention
    PROVE  /\ (\A t \in system : t >= k) => \A t \in system' : t >= k
           /\ (\A r \in cpu : r[1] >= k) => \A r \in cpu' : r[1] >= k
<1>1. \A n \in Int : n >= clock - Retention => n >= k
  BY Numbers
<1>2. QED
  BY <1>1, PrimedNumbers DEF WritesYoung

\* A connection that does not move keeps what it has.
LEMMA OthersStay ==
    ASSUME TypeInv, TypeInv', InTime, WritesYoung, NEW d \in Conns, Maintained(d),
           step'[d] = step[d], lastMaintenance'[d] = lastMaintenance[d],
           cutoff'[d] = cutoff[d]
    PROVE  Maintained(d)'
<1> DEFINE k == lastMaintenance[d] - Retention
<1>1. k \in Int /\ k =< clock - Retention
  BY Numbers DEF InTime
<1>2. /\ (\A t \in system : t >= k) => \A t \in system' : t >= k
      /\ (\A r \in cpu : r[1] >= k) => \A r \in cpu' : r[1] >= k
  <2> HIDE DEF k
  <2>1. QED
    BY <1>1, RowsAfter
<1>3. QED
  BY <1>2 DEF Maintained

\* The bound moves on only to a time for which there is nothing older left.
LEMMA BoundMoves ==
    ASSUME TypeInv, TypeInv', InTime, WritesYoung, RowsFrom(checked - Retention - Every),
           NEW x \in Int, x =< clock, RowsFrom(x - Retention - Every),
           checked' \in {checked, Later(checked, x)}
    PROVE  (RowsFrom(checked - Retention - Every))'
<1>1. PICK y \in {checked, x} : checked' = y
  BY Numbers, LaterIsOne
<1> DEFINE k == y - Retention - Every
<1>2. k \in Int /\ k =< clock - Retention
  BY <1>1, Numbers DEF InTime
<1>3. (\A t \in system : t >= k) /\ (\A r \in cpu : r[1] >= k)
  BY <1>1 DEF RowsFrom
<1>4. (\A t \in system' : t >= k) /\ (\A r \in cpu' : r[1] >= k)
  <2> HIDE DEF k
  <2>1. QED
    BY <1>2, <1>3, RowsAfter
<1>5. QED
  BY <1>1, <1>4 DEF RowsFrom

LEMMA BoundStays ==
    ASSUME TypeInv, TypeInv', InTime, WritesYoung, RowsFrom(checked - Retention - Every),
           checked' = checked
    PROVE  (RowsFrom(checked - Retention - Every))'
BY BoundMoves, Numbers DEF InTime

LEMMA MaybeRunKeeps ==
    ASSUME TypeInv, TypeInv', InTime, WritesYoung, InTables, NEW c \in Conns,
           NEW t \in Int, t =< clock, step[c] = "idle", MaybeRunMaintenance(c, t),
           cutoff' = cutoff
    PROVE  InTables'
<1>0. DOMAIN lastMaintenance = Conns /\ DOMAIN step = Conns
  BY DEF TypeInv, TypeOK
<1>1. CASE /\ lastMaintenance' = [lastMaintenance EXCEPT ![c] = t]
           /\ step' = [step EXCEPT ![c] = "purge"]
           /\ checked' = checked
  <2>1. (RowsFrom(checked - Retention - Every))'
    BY <1>1, BoundStays DEF InTables
  <2>2. step'[c] = "purge"
    BY <1>0, <1>1
  <2>3. Maintained(c)'
    BY <2>2 DEF Maintained
  <2>4. \A d \in Conns : d # c => Maintained(d)'
    BY <1>0, <1>1, OthersStay DEF InTables
  <2>5. QED
    BY <2>1, <2>3, <2>4 DEF InTables
<1>2. CASE /\ t < lastMaintenance[c] + Every
           /\ lastMaintenance' = lastMaintenance
           /\ step' = [step EXCEPT ![c] = AfterMaintenance(c)]
           /\ checked' = Later(checked, t)
  <2> DEFINE k == lastMaintenance[c] - Retention
  <2>1. (\A u \in system : u >= k) /\ (\A r \in cpu : r[1] >= k)
    BY DEF InTables, Maintained
  <2>2. k \in Int /\ k =< clock - Retention
    BY Numbers DEF InTime
  <2>3. \A n \in Int : n >= k => n >= t - Retention - Every
    BY <1>2, Numbers
  <2>4. RowsFrom(t - Retention - Every)
    BY <2>1, <2>3, Numbers DEF RowsFrom
  <2>5. (RowsFrom(checked - Retention - Every))'
    BY <1>2, <2>4, BoundMoves DEF InTables
  <2>6. (\A u \in system' : u >= k) /\ (\A r \in cpu' : r[1] >= k)
    <3> HIDE DEF k
    <3>1. QED
      BY <2>1, <2>2, RowsAfter
  <2>7. step'[c] \in {"processors", "idle"} /\ lastMaintenance'[c] = lastMaintenance[c]
    BY <1>0, <1>2 DEF AfterMaintenance
  <2>8. Maintained(c)'
    BY <2>6, <2>7 DEF Maintained
  <2>9. \A d \in Conns : d # c => Maintained(d)'
    BY <1>0, <1>2, OthersStay DEF InTables
  <2>10. QED
    BY <2>5, <2>8, <2>9 DEF InTables
<1>3. QED
  BY <1>1, <1>2, MaybeRunCases

LEMMA NoneFailed ==
    ASSUME TypeInv, [Next]_vars, failures' = 0
    PROVE  failures = 0 /\ ~Fails
<1>1. failures \in Nat
  BY ConstAssumption DEF TypeInv, TypeOK
<1>2. ~Fails
  BY <1>1 DEF Fails
<1>3. failures' = failures
  <2>1. ASSUME NEW c \in Conns, Writer(c)
        PROVE  failures' = failures
    BY <1>2, <2>1 DEF Writer, InsertSystemSample, InsertCpuSamples, Push, Flush,
       RunMaintenance, PurgeSystem, PurgeCpu, DownsampleCpu, Reopen, Succeeds
  <2>2. QED
    BY <2>1 DEF Next, Tick, vars
<1>4. QED
  BY <1>2, <1>3

LEMMA PurgedStep ==
    ASSUME TypeInv, TypeInv', InTime, PurgedInv, [Next]_vars
    PROVE  PurgedInv'
<1> SUFFICES ASSUME failures' = 0
             PROVE  InTables'
  BY DEF PurgedInv
<1>0. ~Fails /\ InTables
  BY NoneFailed DEF PurgedInv
<1> USE Numbers
<1>d. /\ DOMAIN lastMaintenance = Conns /\ DOMAIN step = Conns
      /\ DOMAIN ts = Conns /\ DOMAIN cutoff = Conns
  BY DEF TypeInv, TypeOK
<1>1. ASSUME NEW c \in Conns, InsertSystemSample(c)
      PROVE  InTables'
  <2>1. WritesYoung
    BY <1>1 DEF InsertSystemSample, WritesYoung
  <2>2. QED
    BY <1>0, <1>1, <2>1, MaybeRunKeeps DEF InsertSystemSample
<1>2. ASSUME NEW c \in Conns, InsertCpuSamples(c)
      PROVE  InTables'
  <2>1. c \in Windows /\ step[c] = "processors"
    BY <1>2 DEF InsertCpuSamples, TypeInv, Sampled, Conns
  <2>2. ts[c] >= clock - Retention
    BY <2>1 DEF InTime
  <2>3. PICK written \in SUBSET Procs : cpu' = cpu \cup ({ts[c]} \X written)
    BY <1>2 DEF InsertCpuSamples
  <2>4. \A r \in {ts[c]} \X written : r[1] = ts[c]
    OBVIOUS
  <2>5. system' = system /\ checked' = checked /\ cutoff' = cutoff
        /\ lastMaintenance' = lastMaintenance /\ step' = [step EXCEPT ![c] = "idle"]
    BY <1>2 DEF InsertCpuSamples, Goto
  <2>6. WritesYoung
    BY <2>2, <2>3, <2>4, <2>5 DEF WritesYoung
  <2>7. \A d \in Conns : d # c => Maintained(d)'
    BY <1>0, <1>d, <2>5, <2>6, OthersStay DEF InTables
  <2>8. Maintained(c)'
    <3> DEFINE k == lastMaintenance[c] - Retention
    <3>1. (\A u \in system : u >= k) /\ (\A r \in cpu : r[1] >= k)
      BY <1>0, <2>1 DEF InTables, Maintained
    <3>2. k \in Int /\ k =< clock - Retention
      BY DEF InTime
    <3>3. (\A u \in system' : u >= k) /\ (\A r \in cpu' : r[1] >= k)
      <4> HIDE DEF k
      <4>1. QED
        BY <2>6, <3>1, <3>2, RowsAfter
    <3>4. step'[c] = "idle" /\ lastMaintenance'[c] = lastMaintenance[c]
      BY <1>d, <2>5
    <3>5. QED
      BY <3>3, <3>4 DEF Maintained
  <2>9. (RowsFrom(checked - Retention - Every))'
    BY <1>0, <2>5, <2>6, BoundStays DEF InTables
  <2>10. QED
    BY <2>7, <2>8, <2>9 DEF InTables
<1>3. ASSUME NEW c \in Conns, Flush(c)
      PROVE  InTables'
  <2>1. PICK written \in SUBSET buffer[c], rows \in SUBSET (buffer[c] \X Procs) :
          system' = system \cup written /\ cpu' = cpu \cup rows
    BY <1>3 DEF Flush
  <2>2. \A b \in buffer[c] : b >= clock - Retention
    BY <1>3 DEF Flush, InTime
  <2>3. \A r \in rows : r[1] \in buffer[c]
    OBVIOUS
  <2>4. WritesYoung
    BY <2>1, <2>2, <2>3 DEF WritesYoung
  <2>5. MaybeRunMaintenance(c, ts[c]) /\ step[c] = "idle" /\ cutoff' = cutoff
    BY <1>3 DEF Flush
  <2>6. ts[c] \in Int /\ ts[c] =< clock
    BY DEF InTime
  <2>7. QED
    BY <1>0, <2>4, <2>5, <2>6, MaybeRunKeeps
<1>4. ASSUME NEW c \in Conns, RunMaintenance(c)
      PROVE  InTables'
  <2>1. system' = system /\ cpu' = cpu /\ checked' = checked /\ cutoff' = cutoff
        /\ lastMaintenance' = [lastMaintenance EXCEPT ![c] = clock]
        /\ step' = [step EXCEPT ![c] = "purge"]
    BY <1>4 DEF RunMaintenance, Goto, tables, history
  <2>2. WritesYoung
    BY <2>1 DEF WritesYoung
  <2>3. \A d \in Conns : d # c => Maintained(d)'
    BY <1>0, <1>d, <2>1, <2>2, OthersStay DEF InTables
  <2>4. step'[c] = "purge"
    BY <1>d, <2>1
  <2>5. QED
    BY <1>0, <2>1, <2>2, <2>3, <2>4, BoundStays DEF InTables, Maintained
<1>5. ASSUME NEW c \in Conns, PurgeSystem(c)
      PROVE  InTables'
  <2>1. cpu' = cpu /\ checked' = checked /\ lastMaintenance' = lastMaintenance
        /\ step' = [step EXCEPT ![c] = "purgeCpu"]
        /\ cutoff' = [cutoff EXCEPT ![c] = clock - Retention]
    BY <1>5 DEF PurgeSystem, Goto, history
  <2>2. cutoff'[c] = clock - Retention /\ step'[c] = "purgeCpu"
    BY <1>d, <2>1
  <2>3. system' = {t \in system : t >= clock - Retention}
    BY <1>0, <1>5, <2>2 DEF PurgeSystem
  <2>4. WritesYoung
    BY <2>1, <2>3 DEF WritesYoung
  <2>5. \A d \in Conns : d # c => Maintained(d)'
    BY <1>0, <1>d, <2>1, <2>4, OthersStay DEF InTables
  <2>6. Maintained(c)'
    <3>1. clock - Retention >= lastMaintenance[c] - Retention
      BY DEF InTime
    <3>2. \A t \in system' : t >= lastMaintenance[c] - Retention
      BY <2>3, <3>1
    <3>3. QED
      BY <2>1, <2>2, <3>1, <3>2 DEF Maintained
  <2>7. QED
    BY <1>0, <2>1, <2>4, <2>5, <2>6, BoundStays DEF InTables
<1>6. ASSUME NEW c \in Conns, PurgeCpu(c)
      PROVE  InTables'
  <2>1. system' = system /\ checked' = checked /\ lastMaintenance' = lastMaintenance
        /\ step' = [step EXCEPT ![c] = "thin"] /\ step[c] = "purgeCpu"
        /\ cutoff' = [cutoff EXCEPT ![c] = 0]
        /\ cpu' = {r \in cpu : r[1] >= cutoff[c]}
    BY <1>0, <1>6 DEF PurgeCpu, Goto
  <2>2. WritesYoung
    BY <2>1 DEF WritesYoung
  <2>3. \A d \in Conns : d # c => Maintained(d)'
    BY <1>0, <1>d, <2>1, <2>2, OthersStay DEF InTables
  <2>4. Maintained(c)'
    <3>1. cutoff[c] >= lastMaintenance[c] - Retention
          /\ \A t \in system : t >= lastMaintenance[c] - Retention
      BY <1>0, <2>1 DEF InTables, Maintained
    <3>2. \A r \in cpu' : r[1] >= lastMaintenance[c] - Retention
      BY <2>1, <3>1
    <3>3. step'[c] = "thin"
      BY <1>d, <2>1
    <3>4. QED
      BY <2>1, <3>1, <3>2, <3>3 DEF Maintained
  <2>5. QED
    BY <1>0, <2>1, <2>2, <2>3, <2>4, BoundStays DEF InTables
<1>7. ASSUME NEW c \in Conns, DownsampleCpu(c)
      PROVE  InTables'
  <2>1. system' = system /\ lastMaintenance' = lastMaintenance /\ cutoff' = cutoff
        /\ checked' = Later(checked, lastMaintenance[c])
        /\ step' = [step EXCEPT ![c] = AfterMaintenance(c)] /\ step[c] = "thin"
    BY <1>7 DEF DownsampleCpu, Goto
  <2>2. cpu' \subseteq cpu
    BY <1>7 DEF DownsampleCpu
  <2>3. WritesYoung
    BY <2>1, <2>2 DEF WritesYoung
  <2>4. \A d \in Conns : d # c => Maintained(d)'
    BY <1>0, <1>d, <2>1, <2>3, OthersStay DEF InTables
  <2>5. /\ \A t \in system : t >= lastMaintenance[c] - Retention
        /\ \A r \in cpu : r[1] >= lastMaintenance[c] - Retention
    BY <1>0, <2>1 DEF InTables, Maintained
  <2>6. step'[c] \in {"processors", "idle"}
    BY <1>d, <2>1 DEF AfterMaintenance
  <2>7. Maintained(c)'
    BY <2>1, <2>2, <2>5, <2>6 DEF Maintained
  <2>8. RowsFrom(lastMaintenance[c] - Retention - Every)
    BY <2>5 DEF RowsFrom
  <2>9. lastMaintenance[c] =< clock
    BY DEF InTime
  <2>10. (RowsFrom(checked - Retention - Every))'
    BY <1>0, <2>1, <2>3, <2>8, <2>9, BoundMoves DEF InTables
  <2>11. QED
    BY <2>4, <2>7, <2>10 DEF InTables
<1>8. ASSUME NEW c \in Conns, Reopen(c)
      PROVE  InTables'
  <2>1. system' = system /\ cpu' = cpu /\ checked' = checked
        /\ lastMaintenance' = [lastMaintenance EXCEPT ![c] = 0]
        /\ cutoff' = [cutoff EXCEPT ![c] = 0]
        /\ step' = [step EXCEPT ![c] = "idle"]
    BY <1>8 DEF Reopen, Goto, tables, history
  <2>2. WritesYoung
    BY <2>1 DEF WritesYoung
  <2>3. \A d \in Conns : d # c => Maintained(d)'
    BY <1>0, <1>d, <2>1, <2>2, OthersStay DEF InTables
  <2>4. Maintained(c)'
    <3>1. (\A t \in system : t \in Nat) /\ (\A r \in cpu : r[1] \in Nat)
      BY ConstAssumption DEF TypeInv, TypeOK, Times
    <3>2. step'[c] = "idle" /\ lastMaintenance'[c] = 0
      BY <1>d, <2>1
    <3>3. \A n \in Nat : n >= 0 - Retention
      OBVIOUS
    <3>4. QED
      BY <2>1, <3>1, <3>2, <3>3 DEF Maintained
  <2>5. QED
    BY <1>0, <2>1, <2>2, <2>3, <2>4, BoundStays DEF InTables
<1>9. CASE Tick \/ (\E c \in Conns : Push(c)) \/ UNCHANGED vars
  <2>1. UNCHANGED <<system, cpu, checked, lastMaintenance, cutoff, step>>
    BY <1>9 DEF Tick, Push, vars, tables, conn, history
  <2>2. QED
    BY <1>0, <2>1 DEF InTables, RowsFrom, Maintained
<1>10. QED
  BY <1>1, <1>2, <1>3, <1>4, <1>5, <1>6, <1>7, <1>8, <1>9 DEF Next, Writer

\* Unless somebody sets the clock, and as long as no statement fails, nothing
\* stays for longer than the retention time and the period of the maintenance
\* (MetricsDb.cpp, MaybeRunMaintenance).
THEOREM NothingStaysForEver ==
    ASSUME ~Jumps
    PROVE  Spec => []NothingIsKeptForever
<1>1. Init => InTime /\ PurgedInv
  <2> SUFFICES ASSUME Init PROVE InTime /\ PurgedInv
    OBVIOUS
  <2>1. InTime
    BY ConstAssumption DEF Init, InTime, Conns
  <2>2. PurgedInv
    BY DEF Init, PurgedInv, InTables, RowsFrom, Maintained
  <2>3. QED
    BY <2>1, <2>2
<1>2. TypeInv /\ TypeInv' /\ InTime /\ PurgedInv /\ [Next]_vars => InTime' /\ PurgedInv'
  BY InTimeStep, PurgedStep
<1>3. PurgedInv => NothingIsKeptForever
  BY DEF PurgedInv, InTables, RowsFrom, NothingIsKeptForever
<1>4. QED
  BY <1>1, <1>2, <1>3, TypeInvHolds, PTL DEF Spec

=============================================================================
