----------------------------- MODULE MetricsStore -----------------------------
(***************************************************************************)
(* The anonymous totals of the Overview (metrics-store.mjs): hourly        *)
(* buckets with bounded tables of Providers and models, daily buckets for  *)
(* the heatmap, both held in memory, pruned by the clock on every use,     *)
(* written with a delay, and validated before they are written and when    *)
(* they are read back.  The clock is the machine's and may go back.        *)
(*                                                                         *)
(* Left out of a bucket: results, latency bins and token sums, which grow  *)
(* with the requests and under the same caps.                              *)
(***************************************************************************)
EXTENDS Integers, SequencesExt, FiniteSetsExt

CONSTANTS
  Observations,              \* what the Worker can report: <<provider, model, usage>>, the ids
                             \* numbers, as their order decides which row is evicted
  UnknownModel,              \* an observation without a model
  MaxRows,                   \* MAX_PROVIDERS_PER_BUCKET, MAX_MODELS_PER_BUCKET
  MaxCounter,                \* MAX_COUNTER
  HourRetention,             \* METRICS_RETENTION_BUCKETS
  DayRetention,              \* METRICS_DAILY_RETENTION_DAYS
  HoursPerDay,
  MaxHour,                   \* bound: the clock
  MaxObservations,           \* bound: observations
  MaxFaults                  \* bound: file operations that fail

\* The days that are kept span the hours that are kept.
RetentionsFit ==
  /\ HourRetention \in Nat \ {0} /\ HoursPerDay \in Nat \ {0}
  /\ DayRetention \in Nat /\ DayRetention * HoursPerDay >= HourRetention + HoursPerDay - 1

VARIABLES
  hours, days,               \* buckets and dailyBuckets
  store,                     \* what else the store knows
  file,                      \* the file: NoFile, or its version and its buckets
  clock,                     \* in hours
  observations, faults

metricsVars == <<hours, days, store, file, clock, observations, faults>>

NoFile == [version |-> 0, hours |-> <<>>, days |-> <<>>]

NoRows == [id \in {} |-> 0]

EmptyHour(start) ==
  [start |-> start, requests |-> 0, usage |-> 0, unknown |-> 0, dropped |-> 0,
   providers |-> NoRows, models |-> NoRows, providerOverflow |-> 0, modelOverflow |-> 0]

EmptyDay(start) == [start |-> start, requests |-> 0, usage |-> 0]

DayOf(hour) == hour \div HoursPerDay
Requests(rows) == FoldSet(LAMBDA id, acc : acc + rows[id], 0, DOMAIN rows)
Capped(n) == IF n > MaxCounter THEN MaxCounter ELSE n

------------------------
(* What is kept, and what is valid. *)

\* Buckets of the future are dropped too: the last one is never later than now.
Pruned(buckets, now, retention) ==
  SelectSeq(buckets, LAMBDA b : b.start >= now - (retention - 1) /\ b.start <= now)

PrunedHours == Pruned(hours, clock, HourRetention)
PrunedDays == Pruned(days, DayOf(clock), DayRetention)

StrictlyOrdered(buckets) ==
  \A i \in 1..(Len(buckets) - 1) : buckets[i].start < buckets[i + 1].start

ValidHour(b) ==
  /\ {b.requests, b.usage, b.unknown, b.dropped, b.providerOverflow, b.modelOverflow}
       \subseteq 0..MaxCounter
  /\ b.usage <= b.requests
  /\ Cardinality(DOMAIN b.providers) <= MaxRows /\ Cardinality(DOMAIN b.models) <= MaxRows
  /\ Requests(b.providers) + b.providerOverflow = b.requests
  /\ Requests(b.models) + b.unknown + b.modelOverflow = b.requests

ValidHours(buckets) ==
  /\ Len(buckets) <= HourRetention
  /\ StrictlyOrdered(buckets) /\ \A i \in DOMAIN buckets : ValidHour(buckets[i])

ValidDays(buckets) ==
  /\ Len(buckets) <= DayRetention
  /\ StrictlyOrdered(buckets)
  /\ \A i \in DOMAIN buckets : buckets[i].usage <= buckets[i].requests

\* Mutant of DaysOfHours: a day that is there already is replaced, not added to.
MutantDaysOfHours(buckets) ==
  LET starts == {DayOf(buckets[i].start) : i \in DOMAIN buckets}
      daily(day) == LET b == Last(SelectSeq(buckets, LAMBDA x : DayOf(x.start) = day))
                    IN [start |-> day, requests |-> b.requests, usage |-> b.usage]
  IN [i \in 1..Cardinality(starts) |->
        daily(SetToSortSeq(starts, LAMBDA x, y : x < y)[i])]

\* Schema 1 has no daily buckets: they are what its hours add up to.
DaysOfHours(buckets) ==
  LET starts == {DayOf(buckets[i].start) : i \in DOMAIN buckets}
      total(day, count(_)) ==
        Capped(FoldLeft(LAMBDA acc, b : acc + count(b), 0,
                        SelectSeq(buckets, LAMBDA b : DayOf(b.start) = day)))
      daily(day) == [start |-> day, requests |-> total(day, LAMBDA b : b.requests),
                     usage |-> total(day, LAMBDA b : b.usage)]
  IN [i \in 1..Cardinality(starts) |->
        daily(SetToSortSeq(starts, LAMBDA x, y : x < y)[i])]

------------------------
(* Recording. *)

\* The row with the fewest requests gives way, of those the one with the last id.
Evicted(rows) ==
  CHOOSE id \in DOMAIN rows :
    \A other \in DOMAIN rows :
      \/ rows[id] < rows[other]
      \/ rows[id] = rows[other] /\ id >= other

Full(rows, id) == id \notin DOMAIN rows /\ Cardinality(DOMAIN rows) = MaxRows

Counted(rows, id) ==
  LET kept == IF Full(rows, id) THEN DOMAIN rows \ {Evicted(rows)} ELSE DOMAIN rows
  IN [k \in kept \cup {id} |-> (IF k \in kept THEN rows[k] ELSE 0) + (IF k = id THEN 1 ELSE 0)]

\* The evicted requests are added to what overflowed.
Overflowed(rows, id, overflow) ==
  IF Full(rows, id) THEN Capped(overflow + rows[Evicted(rows)]) ELSE overflow

\* What an observation adds to the bucket of its hour.
Observed(b, provider, model, usage) ==
  LET known == model # UnknownModel
  IN [b EXCEPT !.requests = @ + 1,
               !.usage = @ + usage,
               !.providers = Counted(@, provider),
               !.providerOverflow = Overflowed(b.providers, provider, @),
               !.unknown = IF known THEN @ ELSE @ + 1,
               !.models = IF known THEN Counted(@, model) ELSE @,
               !.modelOverflow = IF known THEN Overflowed(b.models, model, @) ELSE @]

\* The buckets with the current one last.
WithBucket(buckets, empty) ==
  IF buckets # <<>> /\ Last(buckets).start = empty.start THEN buckets ELSE Append(buckets, empty)

WithLast(buckets, b) == ReplaceAt(buckets, Len(buckets), b)

Dirtied == [store EXCEPT !.dirty = TRUE, !.timer = ~store.blocked]

Record(provider, model, usage) ==
  LET current == WithBucket(PrunedHours, EmptyHour(clock))
      today == WithBucket(PrunedDays, EmptyDay(DayOf(clock)))
      b == Last(current)
      d == Last(today)
  IN /\ ~store.closed /\ observations < MaxObservations
     /\ IF b.requests = MaxCounter
          THEN /\ hours' = WithLast(current, [b EXCEPT !.dropped = Capped(@ + 1)])
               /\ days' = PrunedDays
          ELSE /\ hours' = WithLast(current, Observed(b, provider, model, usage))
               /\ days' = WithLast(today, [d EXCEPT !.requests = Capped(@ + 1),
                                                    !.usage = Capped(@ + usage)])
     /\ store' = Dirtied
     /\ observations' = observations + 1
     /\ UNCHANGED <<file, clock, faults>>

\* An observation the Worker could not send.
NoteDropped ==
  LET current == WithBucket(PrunedHours, EmptyHour(clock))
  IN /\ ~store.closed /\ observations < MaxObservations
     /\ hours' = WithLast(current, [Last(current) EXCEPT !.dropped = Capped(@ + 1)])
     /\ days' = PrunedDays
     /\ store' = Dirtied
     /\ observations' = observations + 1
     /\ UNCHANGED <<file, clock, faults>>

\* getOverview, getTokenHeatmap: reading prunes, and does not count as a change.
Read ==
  /\ hours' = PrunedHours /\ days' = PrunedDays
  /\ UNCHANGED <<store, file, clock, observations, faults>>

------------------------
(* The file. *)

\* #persist, leaving the store as `after`: refused when the document is not valid; a fault
\* leaves the old file.
Persisted(after) ==
  LET valid == ValidHours(hours) /\ ValidDays(days)
  IN \/ /\ valid
        /\ file' = [version |-> 2, hours |-> hours, days |-> days]
        /\ store' = [after EXCEPT !.dirty = FALSE, !.state = "ready"]
        /\ UNCHANGED faults
     \/ /\ ~valid \/ faults < MaxFaults
        /\ faults' = IF valid THEN faults + 1 ELSE faults
        /\ store' = [after EXCEPT !.state = "degraded"]
        /\ UNCHANGED file

\* The flush timer.
Flush ==
  /\ ~store.closed /\ store.timer
  /\ Persisted([store EXCEPT !.timer = FALSE])
  /\ UNCHANGED <<hours, days, clock, observations>>

Fresh == [dirty |-> FALSE, timer |-> FALSE, blocked |-> FALSE, closed |-> FALSE, state |-> "ready"]
Unreadable == [Fresh EXCEPT !.blocked = TRUE, !.state = "unavailable"]

Close ==
  LET closed == [store EXCEPT !.timer = FALSE, !.closed = TRUE]
  IN /\ ~store.closed
     /\ IF store.dirty /\ ~store.blocked
          THEN Persisted(closed)
          ELSE store' = closed /\ UNCHANGED <<file, faults>>
     /\ UNCHANGED <<hours, days, clock, observations>>

\* #load by the next Supervisor, after close or after this one died.
Restart ==
  LET loadedDays == IF file.version = 1 THEN DaysOfHours(file.hours) ELSE file.days
  IN /\ \/ /\ ValidHours(file.hours) /\ ValidDays(loadedDays)
           /\ hours' = Pruned(file.hours, clock, HourRetention)
           /\ days' = Pruned(loadedDays, DayOf(clock), DayRetention)
           /\ store' = Fresh /\ UNCHANGED faults
        \/ /\ file # NoFile /\ ~(ValidHours(file.hours) /\ ValidDays(loadedDays))
           /\ hours' = <<>> /\ days' = <<>> /\ store' = Unreadable /\ UNCHANGED faults
        \/ /\ file # NoFile /\ faults < MaxFaults /\ faults' = faults + 1
           /\ hours' = <<>> /\ days' = <<>> /\ store' = Unreadable
     /\ UNCHANGED <<file, clock, observations>>

ClockMoves ==
  /\ clock' \in 0..MaxHour \ {clock}
  /\ UNCHANGED <<hours, days, store, file, observations, faults>>

\* An upgraded installation has a file of schema 1.
Legacy(start) ==
  LET provider == 1
  IN [version |-> 1, days |-> <<>>,
      hours |-> <<Observed(EmptyHour(start), provider, UnknownModel, 1),
                  Observed(EmptyHour(start + 1), provider, UnknownModel, 0)>>]

Init ==
  /\ file \in {NoFile, Legacy(0)}
  /\ hours = <<>> /\ days = <<>> /\ store = [Fresh EXCEPT !.closed = TRUE]
  /\ clock = 1 /\ observations = 0 /\ faults = 0

Next ==
  \/ \E o \in Observations : Record(o[1], o[2], o[3])
  \/ NoteDropped \/ Read \/ Flush \/ Close \/ Restart \/ ClockMoves

Spec == Init /\ [][Next]_metricsVars

------------------------
(* Properties. *)

\* The heatmap has every request of the hourly summary: pruned by another window, capped on
\* its own and rebuilt from a legacy file, a day never shows less than its hours do.
HeatmapCoversHours ==
  \A i \in DOMAIN hours :
    LET shown(count(_)) == FoldLeft(LAMBDA acc, b : acc + count(b), 0,
                              SelectSeq(hours, LAMBDA b : DayOf(b.start) = DayOf(hours[i].start)))
    IN hours[i].requests > 0 =>
         \E d \in ToSet(days) :
           /\ d.start = DayOf(hours[i].start)
           /\ d.requests >= Capped(shown(LAMBDA b : b.requests))
           /\ d.usage >= Capped(shown(LAMBDA b : b.usage))
=============================================================================
