-------------------------- MODULE MetricsRetention --------------------------
(***************************************************************************)
(* What the metrics database keeps (core/MetricsDb.cpp): every writer, the *)
(* service with its buffer and the windows that sample on their own, purges *)
(* and thins out the tables now and then, each on a connection of its own. *)
(*                                                                         *)
(* A row is its key: a time stamp, with a processor in cpu_samples.  Each   *)
(* statement commits by itself, so the writers interleave between them; a   *)
(* statement that finds the database locked for too long does nothing, and *)
(* nobody looks at the result.  Times are in units of which a minute has    *)
(* Bucket.                                                                 *)
(***************************************************************************)
EXTENDS Integers

CONSTANTS
    Services,  \* connections that write through a MetricsWriteBuffer
    Windows,   \* connections of MetricsBackground
    Procs,     \* logical processors
    Bucket,    \* 60: the rows of one minute are thinned out to one
    Retention, \* kRetentionDays
    Fine,      \* kDownsampleAfterDays
    Every,     \* 3600: least time between two maintenances of a connection
    Buffered,  \* bound: how long it takes to write a sample
    Jumps,     \* whether somebody may set the clock
    MaxFails,  \* bound: statements that find the database locked
    MaxClock   \* bound: the last moment

ASSUME ConstAssumption ==
    /\ Services \cap Windows = {}
    /\ Bucket \in Nat \ {0}
    /\ Retention \in Nat /\ Fine \in Nat /\ Every \in Nat
    /\ Buffered \in 0..Retention
    /\ Jumps \in BOOLEAN /\ MaxFails \in Nat
    /\ MaxClock \in Nat \ {0}

Conns == Services \cup Windows
Times == 1..MaxClock

VARIABLES
    clock,    \* time(nullptr)
    system,   \* the time stamps in system_samples
    cpu,      \* the keys in cpu_samples
    buffer,   \* MetricsWriteBuffer: the service's samples not yet written
    step,     \* what a connection does next
    lastMaintenance, \* lastMaintenanceTs_, 0 for never
    ts,       \* the sample the connection is writing
    cutoff,   \* the cutoff of the purge it is in
    seen,     \* history: all keys ever written to cpu_samples
    purged,   \* history: the latest cutoff of a purge of cpu_samples
    thinned,  \* history: the latest cutoff of a thinning
    checked,  \* history: the latest sample for which maintenance was seen to
    failures  \* history: statements that have failed

tables == <<system, cpu>>
conn == <<buffer, step, lastMaintenance, ts, cutoff>>
history == <<seen, purged, thinned, checked>>
vars == <<clock, tables, conn, history, failures>>

Later(a, b) == IF a > b THEN a ELSE b

\* ts / 60 in SQL: the rows of a minute have the same MinuteOf.
MinuteOf(t) == t - (t % Bucket)

Init ==
    /\ clock = 1
    /\ system = {} /\ cpu = {}
    /\ buffer = [c \in Conns |-> {}]
    /\ step = [c \in Conns |-> "idle"]
    /\ lastMaintenance = [c \in Conns |-> 0]
    /\ ts = [c \in Conns |-> 0] /\ cutoff = [c \in Conns |-> 0]
    /\ seen = {} /\ purged = 0 /\ thinned = 0 /\ checked = 0
    /\ failures = 0

Goto(c, s) == step' = [step EXCEPT ![c] = s]

\* What is done for a sample after its maintenance: a window goes on to the
\* processors, the service has written them before.
AfterMaintenance(c) == IF c \in Windows THEN "processors" ELSE "idle"

-----------------------------------------------------------------------------
(* Writing *)

\* A statement does its work, or it fails and nobody notices.
Succeeds == UNCHANGED failures
Fails == failures < MaxFails /\ failures' = failures + 1

\* MaybeRunMaintenance is due for sample t.
DueOnce(c, t) == lastMaintenance[c] = 0 /\ t > 0
Due(c, t) == lastMaintenance[c] = 0 \/ t - lastMaintenance[c] >= Every

\* MaybeRunMaintenance(t), as far as the first statement.
MaybeRunMaintenance(c, t) ==
    IF Due(c, t)
    THEN /\ lastMaintenance' = [lastMaintenance EXCEPT ![c] = t]
         /\ Goto(c, "purge")
         /\ UNCHANGED checked
    ELSE /\ Goto(c, AfterMaintenance(c))
         /\ checked' = Later(checked, t)
         /\ UNCHANGED lastMaintenance

\* MetricsBackground::Tick samples, InsertSystemSample writes.
InsertSystemSample(c) ==
    /\ c \in Windows /\ step[c] = "idle"
    /\ \/ system' = system \cup {clock} /\ Succeeds
       \/ UNCHANGED system /\ Fails
    /\ ts' = [ts EXCEPT ![c] = clock]
    /\ MaybeRunMaintenance(c, clock)
    /\ UNCHANGED <<clock, cpu, buffer, cutoff, seen, purged, thinned>>

\* InsertCpuSamples: all or nothing in a transaction, but row by row if BEGIN
\* has failed, up to the first row that fails.
InsertCpuSamples(c) ==
    /\ step[c] = "processors"
    /\ \E written \in SUBSET Procs :
         /\ IF written = Procs THEN Succeeds ELSE Fails
         /\ cpu' = cpu \cup ({ts[c]} \X written)
         /\ seen' = seen \cup ({ts[c]} \X written)
    /\ Goto(c, "idle")
    /\ ts' = [ts EXCEPT ![c] = 0]
    /\ UNCHANGED <<clock, system, buffer, lastMaintenance, cutoff,
                   purged, thinned, checked>>

\* The service takes a sample.
Push(c) ==
    /\ c \in Services /\ step[c] = "idle"
    /\ buffer' = [buffer EXCEPT ![c] = @ \cup {clock}]
    /\ ts' = [ts EXCEPT ![c] = clock]
    /\ UNCHANGED <<clock, tables, step, lastMaintenance, cutoff, history, failures>>

\* Flush: InsertBatch and clear.  The rows are in one transaction, unless BEGIN
\* has failed; the result of no statement is looked at.  ts[c] is the last
\* sample of the buffer.
Flush(c) ==
    /\ c \in Services /\ step[c] = "idle" /\ buffer[c] # {}
    /\ \E written \in SUBSET buffer[c], rows \in SUBSET (buffer[c] \X Procs) :
         /\ IF written = buffer[c] /\ rows = buffer[c] \X Procs THEN Succeeds ELSE Fails
         /\ system' = system \cup written
         /\ cpu' = cpu \cup rows
         /\ seen' = seen \cup rows
    /\ buffer' = [buffer EXCEPT ![c] = {}]
    /\ MaybeRunMaintenance(c, ts[c])
    /\ UNCHANGED <<clock, ts, cutoff, purged, thinned>>

-----------------------------------------------------------------------------
(* Maintenance *)

\* RunMaintenance(force), once a day in the service.
RunMaintenance(c) ==
    /\ c \in Services /\ step[c] = "idle"
    /\ lastMaintenance' = [lastMaintenance EXCEPT ![c] = clock]
    /\ Goto(c, "purge")
    /\ UNCHANGED <<clock, tables, buffer, ts, cutoff, history, failures>>

\* PurgeOlderThanDays: the clock is read once for both tables.
PurgeSystem(c) ==
    /\ step[c] = "purge"
    /\ cutoff' = [cutoff EXCEPT ![c] = clock - Retention]
    /\ \/ system' = {t \in system : t >= cutoff'[c]} /\ Succeeds
       \/ UNCHANGED system /\ Fails
    /\ Goto(c, "purgeCpu")
    /\ UNCHANGED <<clock, cpu, buffer, lastMaintenance, ts, history>>

PurgeCpu(c) ==
    /\ step[c] = "purgeCpu"
    /\ \/ /\ cpu' = {r \in cpu : r[1] >= cutoff[c]}
          /\ purged' = Later(purged, cutoff[c])
          /\ Succeeds
       \/ UNCHANGED <<cpu, purged>> /\ Fails
    /\ Goto(c, "thin")
    /\ cutoff' = [cutoff EXCEPT ![c] = 0]
    /\ UNCHANGED <<clock, system, buffer, lastMaintenance, ts,
                   seen, thinned, checked>>

\* GROUP BY (ts / 60), proc_index: the rows of a group; SQL may take any
\* of them for the group's ts.
GroupOfMinute(R, r) == {q \in R : MinuteOf(q[1]) = MinuteOf(r[1])}
Group(R, r) == {q \in R : MinuteOf(q[1]) = MinuteOf(r[1]) /\ q[2] = r[2]}

\* The time stamps that may be the result of the inner SELECT on R.
Selections(R) ==
    {S \in SUBSET {r[1] : r \in R} : \A r \in R : \E q \in Group(R, r) : q[1] \in S}

DownsampleUpTo(R) == {r \in R : r[1] <= clock - Fine}
DownsampleFrom(R) == {r \in R : r[1] < clock - Fine}
DownsampleCpu(c) ==
    /\ step[c] = "thin"
    /\ \/ \E S \in Selections(DownsampleFrom(cpu)) :
            /\ cpu' = {r \in cpu : r \notin DownsampleFrom(cpu) \/ r[1] \in S}
            /\ thinned' = Later(thinned, clock - Fine)
            /\ Succeeds
       \/ UNCHANGED <<cpu, thinned>> /\ Fails
    /\ checked' = Later(checked, lastMaintenance[c])
    /\ Goto(c, AfterMaintenance(c))
    /\ UNCHANGED <<clock, system, buffer, lastMaintenance, ts, cutoff,
                   seen, purged>>

-----------------------------------------------------------------------------
(* The surroundings *)

Tick ==
    /\ \E t \in Times :
         /\ Jumps \/ t = clock + 1
         /\ \A c \in Services : \A b \in buffer[c] : t <= b + Buffered
         /\ \A c \in Windows : step[c] # "idle" => t <= ts[c] + Buffered
         /\ clock' = t
    /\ UNCHANGED <<tables, conn, history, failures>>

\* The program ends, or crashes, and Open connects it again.
Reopen(c) ==
    /\ buffer' = [buffer EXCEPT ![c] = {}]
    /\ lastMaintenance' = [lastMaintenance EXCEPT ![c] = 0]
    /\ ts' = [ts EXCEPT ![c] = 0] /\ cutoff' = [cutoff EXCEPT ![c] = 0]
    /\ Goto(c, "idle")
    /\ UNCHANGED <<clock, tables, history, failures>>

-----------------------------------------------------------------------------
Writer(c) ==
    \/ InsertSystemSample(c) \/ InsertCpuSamples(c)
    \/ Push(c) \/ Flush(c) \/ RunMaintenance(c)
    \/ PurgeSystem(c) \/ PurgeCpu(c) \/ DownsampleCpu(c)
    \/ Reopen(c)

Next == Tick \/ \E c \in Conns : Writer(c)

Spec == Init /\ [][Next]_vars

-----------------------------------------------------------------------------
(* Properties *)

TypeOK ==
    /\ clock \in Times
    /\ system \subseteq Times /\ cpu \subseteq Times \X Procs
    /\ buffer \in [Conns -> SUBSET Times]
    /\ step \in [Conns -> {"idle", "processors", "purge", "purgeCpu", "thin"}]
    /\ lastMaintenance \in [Conns -> 0..MaxClock]
    /\ ts \in [Conns -> 0..MaxClock] /\ cutoff \in [Conns -> Int]
    /\ seen \subseteq Times \X Procs
    /\ purged \in Int /\ thinned \in Int /\ checked \in Int
    /\ failures \in 0..MaxFails

\* Thinning never takes the last row a processor has in a minute: whatever was
\* written, all in time, for a minute that no purge has reached still shows in
\* the charts.
EveryMinuteKept ==
    \A r \in seen :
        MinuteOf(r[1]) >= purged =>
            \E q \in cpu : MinuteOf(q[1]) = MinuteOf(r[1]) /\ q[2] = r[2]

\* What neither a purge nor a thinning has reached is there row by row.
RecentIsComplete ==
    \A r \in seen : (r[1] >= purged /\ r[1] >= thinned) => r \in cpu

\* As long as no statement fails, nothing is kept for longer than the retention
\* time and the period of the maintenance, whoever wrote it and however often the
\* programs are restarted.
NothingIsKeptForever ==
    failures = 0 =>
    /\ \A t \in system : t >= checked - Retention - Every
    /\ \A r \in cpu : r[1] >= checked - Retention - Every

=============================================================================
