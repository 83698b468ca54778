------------------------------ MODULE Telemetry ------------------------------
(***************************************************************************)
(* The telemetry ingester: a consumer that reads a partition, dispatches   *)
(* to two bounded channels and then commits, a processor that fills the    *)
(* metric windows and the samples table, a drain for fills, and a ticker   *)
(* that publishes the metrics of the last seconds.  The process may end at *)
(* any point and is started again at the committed offset.                 *)
(***************************************************************************)
EXTENDS Integers, Sequences, SequencesExt, FiniteSets

CONSTANTS Samples,        \* telemetry events by their key (run, bot, seq_num)
          Failed,         \* those that carry an error code
          Delay,          \* recv_ts_ns - send_ts_ns of each
          Fill, Garbage,  \* a fill event; a message that does not decode
          NoEvent,           \* "no event"
          RawCap,         \* capacity of rawCh (10 000 in the code)
          FillCap,        \* capacity of fillCh (1 000 in the code)
          WindowSize,     \* seconds Percentiles looks back (60 in the code)
          Window,         \* seconds MaxTPS looks at (5 in the code)
          MaxLog,         \* bound on the messages produced
          MaxTime         \* bound on the clock

ASSUME TelemetryAssumption ==
    /\ Failed \subseteq Samples /\ Delay \in [Samples -> Int]
    /\ {Fill, Garbage, NoEvent} \cap Samples = {} /\ Fill # Garbage
    /\ {RawCap, FillCap, Window} \subseteq Nat \ {0}
    /\ {WindowSize, MaxLog, MaxTime} \subseteq Nat

LogMessages == Samples \cup {Fill, Garbage}

VARIABLES clock,      \* wall-clock seconds
          log,        \* the partition
          committed,  \* the group's offset: the messages before it are acknowledged
          position,   \* the messages fetched by this process, and before it
          start,      \* history: the offset this process started from
          consumer,   \* the next step of Run: "fetch", "dispatch", "commit"
          rawCh, fillCh,
          processor,  \* the next step of the processor: "receive", "insert", "error"
          current,    \* the event it holds
          window,     \* latencyWindow.samples: [time, event]
          buckets,    \* tpsWindow.buckets (0 for an absent key)
          stored,     \* the keys in telemetry_samples
          handled     \* history: the offsets ever dispatched or rejected

consumerVars == <<committed, position, start, consumer, handled>>
processorVars == <<processor, current, window, stored>>
telemetryVars == <<clock, log, rawCh, fillCh, buckets, consumerVars, processorVars>>

-----------------------------------------------------------------------------
(* Outside: time passes, and bots produce (a retry produces again). *)

Tick ==
    /\ clock < MaxTime
    /\ clock' = clock + 1
    /\ UNCHANGED <<log, rawCh, fillCh, buckets, consumerVars, processorVars>>

Produce(m) ==
    /\ Len(log) < MaxLog
    /\ log' = Append(log, m)
    /\ UNCHANGED <<clock, rawCh, fillCh, buckets, consumerVars, processorVars>>

-----------------------------------------------------------------------------
(* Consumer.Run.  A fetch that fails is tried again and changes nothing. *)

\* Mutant of FetchMessage: fetching acknowledges (auto-commit).
FetchAndCommit ==
    /\ consumer = "fetch"
    /\ position < Len(log)
    /\ position' = position + 1
    /\ committed' = position + 1
    /\ consumer' = "dispatch"
    /\ UNCHANGED <<clock, log, rawCh, fillCh, buckets, start, handled, processorVars>>

FetchMessage ==
    /\ consumer = "fetch"
    /\ position < Len(log)
    /\ position' = position + 1
    /\ consumer' = "dispatch"
    /\ UNCHANGED <<clock, log, rawCh, fillCh, buckets, committed, start, handled, processorVars>>

\* Mutant of Dispatch: events are dropped when the channel is full.
DispatchOrDrop ==
    LET m == log[position] IN
    /\ consumer = "dispatch"
    /\ rawCh' = IF m \in Samples /\ Len(rawCh) < RawCap THEN Append(rawCh, m) ELSE rawCh
    /\ handled' = handled \cup {position}
    /\ consumer' = "commit"
    /\ UNCHANGED <<clock, log, fillCh, buckets, committed, position, start, processorVars>>

\* Mutant of Dispatch: a message that does not decode is fetched again.
DispatchRetries ==
    LET m == log[position] IN
    /\ consumer = "dispatch"
    /\ \/ /\ m # Garbage /\ Len(rawCh) < RawCap
          /\ rawCh' = IF m \in Samples THEN Append(rawCh, m) ELSE rawCh
          /\ handled' = handled \cup {position}
          /\ consumer' = "commit"
          /\ UNCHANGED position
       \/ /\ m = Garbage
          /\ position' = position - 1
          /\ consumer' = "fetch"
          /\ UNCHANGED <<rawCh, handled>>
    /\ UNCHANGED <<clock, log, fillCh, buckets, committed, start, processorVars>>

\* The blocking send; a message that does not decode is only logged.
Dispatch ==
    LET m == log[position] IN
    /\ consumer = "dispatch"
    /\ \/ /\ m \in Samples /\ Len(rawCh) < RawCap
          /\ rawCh' = Append(rawCh, m)
          /\ UNCHANGED fillCh
       \/ /\ m = Fill /\ Len(fillCh) < FillCap
          /\ fillCh' = Append(fillCh, m)
          /\ UNCHANGED rawCh
       \/ /\ m = Garbage
          /\ UNCHANGED <<rawCh, fillCh>>
    /\ handled' = handled \cup {position}
    /\ consumer' = "commit"
    /\ UNCHANGED <<clock, log, buckets, committed, position, start, processorVars>>

CommitOffset ==
    /\ consumer = "commit"
    /\ committed' = position
    /\ consumer' = "fetch"
    /\ UNCHANGED <<clock, log, rawCh, fillCh, buckets, position, start, handled, processorVars>>

\* A failed commit is logged and not tried again.
CommitFails ==
    /\ consumer = "commit"
    /\ consumer' = "fetch"
    /\ UNCHANGED <<clock, log, rawCh, fillCh, buckets, committed, position, start, handled,
                   processorVars>>

-----------------------------------------------------------------------------
(* The processor *)

\* rawCh yields an event: it enters both windows at the same time.
Receive ==
    /\ processor = "receive"
    /\ rawCh # <<>>
    /\ current' = Head(rawCh)
    /\ rawCh' = Tail(rawCh)
    /\ window' = Append(window, [time |-> clock, event |-> Head(rawCh)])
    /\ buckets' = [buckets EXCEPT ![clock] = @ + 1]
    /\ processor' = "insert"
    /\ UNCHANGED <<clock, log, fillCh, stored, consumerVars>>

\* The row is there afterwards, was there before, or the statement failed
\* (or was cut off by its deadline) and is not tried again.
InsertTelemetrySample ==
    /\ processor = "insert"
    /\ stored' \in {stored, stored \cup {current}}
    /\ processor' = IF current \in Failed THEN "error" ELSE "receive"
    /\ current' = IF current \in Failed THEN current ELSE NoEvent
    /\ UNCHANGED <<clock, log, rawCh, fillCh, buckets, window, consumerVars>>

\* The row it inserts has the bot id "error-recorder", which the column's type
\* (UUID) refuses; the error is logged.
RecordError ==
    /\ processor = "error"
    /\ processor' = "receive"
    /\ current' = NoEvent
    /\ UNCHANGED <<clock, log, rawCh, fillCh, buckets, window, stored, consumerVars>>

DrainFills ==
    /\ fillCh # <<>>
    /\ fillCh' = Tail(fillCh)
    /\ UNCHANGED <<clock, log, rawCh, buckets, consumerVars, processorVars>>

-----------------------------------------------------------------------------
(* What the ticker publishes *)

\* LatencyWindow.Add: negative delays (clock skew) count as 0.
LatencyUs(e) == IF Delay[e] < 0 THEN 0 ELSE Delay[e]

\* Percentiles: of the samples not before the cutoff, the latencies.
Snapshot ==
    LET taken[n \in 0..Len(window)] ==
            IF n = 0 THEN <<>>
            ELSE IF window[n].time >= clock - WindowSize
                   THEN Append(taken[n - 1], LatencyUs(window[n].event))
                   ELSE taken[n - 1]
    IN taken[Len(window)]

\* sort.Float64s: the values in ascending order.
SortedValues(values) ==
    LET places == DOMAIN values
        order == CHOOSE at \in Bijection(places, places) :
                     \A i, j \in places : i < j => values[at[i]] <= values[at[j]]
    IN [i \in places |-> values[order[i]]]

Recent == SortedValues(Snapshot)

\* Mutant of Rank: rounded down.
RankFloor(n, p) == (p * n) \div 100

\* int(p*n + 0.9999), with p in percent.
Rank(n, p) == (100 * p * n + 9999) \div 10000

percentileAt(sorted, p) ==
    LET n == Len(sorted) IN
    IF n = 0 THEN 0 ELSE sorted[Max({1, Min({n, Rank(n, p)})})]

\* The first second MaxTPS looks at.
cutoff == clock - (Window - 1)

MaxTPS == Max({0} \cup {buckets[sec] : sec \in {t \in 0..MaxTime : t >= cutoff}})

\* Publishing reads the metrics; what stays of it is that MaxTPS evicts.
PublishMetrics ==
    /\ buckets' = [sec \in 0..MaxTime |-> IF sec < cutoff THEN 0 ELSE buckets[sec]]
    /\ UNCHANGED <<clock, log, rawCh, fillCh, consumerVars, processorVars>>

-----------------------------------------------------------------------------
(* The process dies, or is told to stop, and is started again: everything in *)
(* memory is gone. *)

RestartIngester ==
    /\ position' = committed
    /\ start' = committed
    /\ consumer' = "fetch"
    /\ rawCh' = <<>>
    /\ fillCh' = <<>>
    /\ processor' = "receive"
    /\ current' = NoEvent
    /\ window' = <<>>
    /\ buckets' = [sec \in 0..MaxTime |-> 0]
    /\ UNCHANGED <<clock, log, committed, stored, handled>>

-----------------------------------------------------------------------------
TelemetryInit ==
    /\ clock = 0
    /\ log = <<>>
    /\ committed = 0 /\ position = 0 /\ start = 0
    /\ consumer = "fetch"
    /\ rawCh = <<>> /\ fillCh = <<>>
    /\ processor = "receive" /\ current = NoEvent
    /\ window = <<>>
    /\ buckets = [sec \in 0..MaxTime |-> 0]
    /\ stored = {}
    /\ handled = {}

Process == Receive \/ InsertTelemetrySample \/ RecordError

TelemetryNext ==
    \/ Tick \/ \E m \in LogMessages : Produce(m)
    \/ FetchMessage \/ Dispatch \/ CommitOffset \/ CommitFails
    \/ Process \/ DrainFills \/ PublishMetrics
    \/ RestartIngester

TelemetrySpec == TelemetryInit /\ [][TelemetryNext]_telemetryVars

\* The goroutines run; the process lives long enough, again and again, to
\* dispatch what it fetched and to have a commit accepted.
TelemetryFairness ==
    /\ WF_telemetryVars(FetchMessage)
    /\ SF_telemetryVars(Dispatch)
    /\ SF_telemetryVars(CommitOffset)
    /\ WF_telemetryVars(Process)
    /\ WF_telemetryVars(DrainFills)

TelemetryFairSpec == TelemetrySpec /\ TelemetryFairness

-----------------------------------------------------------------------------
(* Properties *)

\* Types, and the capacity of the channels.
TelemetryTypeOK ==
    /\ clock \in 0..MaxTime
    /\ log \in Seq(LogMessages)
    /\ {committed, position, start} \subseteq 0..Len(log)
    /\ consumer \in {"fetch", "dispatch", "commit"}
    /\ rawCh \in Seq(Samples) /\ Len(rawCh) <= RawCap
    /\ fillCh \in Seq({Fill}) /\ Len(fillCh) <= FillCap
    /\ processor \in {"receive", "insert", "error"}
    /\ current \in Samples \cup {NoEvent}
    /\ window \in Seq([time : 0..MaxTime, event : Samples])
    /\ buckets \in [0..MaxTime -> Nat]
    /\ stored \subseteq Samples
    /\ handled \subseteq 1..Len(log)

\* consumer.go:144-145: an offset is committed only after every message up to
\* it was dispatched (or rejected), by this process or by an earlier one.
CommittedWasHandled == 1..committed \subseteq handled

\* The offsets, and the channels they run ahead of, stay within their bounds.
OffsetsConsistent == TelemetryTypeOK /\ CommittedWasHandled

\* The events the processor has taken and those that wait in the channel.
Taken == [i \in DOMAIN window |-> window[i].event] \o rawCh

\* The last message this process has dispatched or rejected, or was told of.
LastHandled == IF consumer = "dispatch" THEN position - 1 ELSE position

Dispatched == {i \in (start + 1)..LastHandled : log[i] \in Samples}

\* What the processor has taken and what waits in the channel is, in order,
\* without gaps and without repetition, what the partition holds from the
\* offset the process started at to the message being dispatched.
WindowFollowsLog ==
    \E at \in [DOMAIN Taken -> Dispatched] :
        /\ \A k \in DOMAIN Taken : Taken[k] = log[at[k]]
        /\ \A j, k \in DOMAIN Taken : j < k => at[j] < at[k]
        /\ \A i \in Dispatched : \E k \in DOMAIN Taken : at[k] = i

\* The nearest rank: the least of the values that p percent of them do not exceed.
IsPercentile(v, values, p) ==
    LET AtMost(w) == Cardinality({i \in DOMAIN values : values[i] <= w}) IN
    /\ v \in Range(values)
    /\ 100 * AtMost(v) >= p * Cardinality(DOMAIN values)
    /\ \A w \in Range(values) : w < v => 100 * AtMost(w) < p * Cardinality(DOMAIN values)

\* The latencies of the last WindowSize seconds, where the window has them.
RecentLatencies ==
    LET fresh == {i \in DOMAIN window : window[i].time >= clock - WindowSize}
    IN [i \in fresh |-> LatencyUs(window[i].event)]

ProcessedAt(sec) == Cardinality({i \in DOMAIN window : window[i].time = sec})

\* The peak published is the busiest of the last Window seconds, whatever was
\* evicted before (TPSWindow.MaxTPS).
PeakIsExact ==
    /\ \A sec \in 0..clock : clock - sec < Window => ProcessedAt(sec) <= MaxTPS
    /\ MaxTPS = 0 \/ \E sec \in 0..clock : clock - sec < Window /\ ProcessedAt(sec) = MaxTPS

\* Whenever the ticker fires, the percentiles are nearest-rank percentiles of
\* the latencies of the last WindowSize seconds (0 when there are none), however
\* the window is copied, filtered and sorted for them, and the peak is exact.
MetricsAreExact ==
    /\ \A p \in {50, 90, 99} :
           IF DOMAIN RecentLatencies = {}
             THEN percentileAt(Recent, p) = 0
             ELSE IsPercentile(percentileAt(Recent, p), RecentLatencies, p)
    /\ PeakIsExact

\* Every message of the partition is dispatched or rejected in the end: full
\* channels, failed commits and restarts do not stop the consumer for good.
EveryMessageHandled ==
    \A i \in 1..MaxLog : i <= Len(log) ~> i \in handled

-----------------------------------------------------------------------------
(* What a comment says and the code does not do *)

\* consumer.go:144 "At-least-once delivery is guaranteed": an acknowledged
\* event is in the table or on its way to it.
AtLeastOnce ==
    \A i \in 1..committed :
        log[i] \in Samples => log[i] \in stored \cup ToSet(rawCh) \cup {current}
=============================================================================
