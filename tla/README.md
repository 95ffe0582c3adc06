# rule-engine-core in TLA+

A model of the event-time rule engine of this repository and of the delivery of its
alerts, checked with TLC on small instances and, for most of its safety properties,
proved for every instance with TLAPS. Line numbers
refer to `src/rule_engine/runtime.py` unless another file is named.

Contents: 1 the system, 2 the modules, 3 how the model corresponds to the code,
4 the runs, 5 divergences found, 6 what is proved, 7 what is not modelled, 8 plan.

## 1. The system

A Python library evaluates declarative rules over sensor events. It is single
threaded apart from deliveries with a timeout. Its difficulty is time: an event
carries its own timestamp, the engine keeps a clock (the *watermark*) that only
events and explicit advances move, and everything that depends on the passing of
time (deadlines, windows, schedules, reminders, staged reloads) is a timer that
fires while the clock is being moved.

| Component | State | Operations | Interacts with |
| --- | --- | --- | --- |
| Clock and timer loop (`process_event`, `advance_to`, `_advance_timers_to`, `_next_due_time`, `_fire_due_timers`) | watermark, floor, progress per entity | process an event, advance | calls triggers for events and due instants; activates a staged reload |
| Triggers (event, window, absence, composite, sequence, scheduled) | one `RuleState` per partition and rule | handle an in-order event, a late event, a due instant | evaluate conditions, emit through the lifecycle |
| Conditions and aggregations | none | compare, aggregate | read the buffer of a window |
| Alert lifecycle | episode start, last emission, next reminder, suppressed counts | label or suppress, resolve, retract | finishes drains |
| Late events | counters, total and by rule | refuse, fold in, recompute closed windows | same state as the triggers, other path |
| Reload | rules in force, draining definitions, staged reload | preserve, reset, drain; at once or staged | rewrites the state of every rule |
| Snapshot and restore | a document | save, load with fingerprints | all of the above |
| Explain, simulation | none | what-if answers | read the engine |
| Sink registry, adapters, dead letters (`sinks.py`) | metrics, log, dead-letter file; what the destinations hold | deliver with retries and timeouts, reset, clear | called while alerts are built |
| Declarative documents, compiler, runner, API | none | parse, validate, wrap | |
| Function rules (`engine.py`, `decorators.py`) | none | call Python functions | |

What makes the engine correct, and hard to test:

* the clock never moves backward, no timer is skipped, and moving the clock ends;
* an absence or composite alert is raised exactly while its sources are silent;
* windows and schedules fire on a fixed grid, once each, and see everything that
  belongs to them although the buffer is pruned and late events come in between;
* sequences are matched exactly although partial matches advance, expire, are
  cancelled and consumed together;
* the alerts of a rule in a partition form episodes, one after another;
* a late event is counted once and, if refused, changes nothing;
* a reload keeps state only where it still means the same, and an episode opened
  under a rule is closed under it;
* a delivery is counted, logged and dead-lettered once whatever attempts, exceptions
  and crashes it meets, and a destination gets a second copy only for a reason;
* an exception out of a delivery, which ends a call half way, loses no timer and ends
  no episode in silence;
* an engine restored from a checkpoint repeats the alerts of the one that stopped;
* `explain` tells what `process_event` does.

## 2. The modules

Every module of the engine extends the one before it, so a definition is used by its
name. `Delivery` stands beside the engine: the engine hands it one alert at a time and
takes the results, and neither reads the other's state. What crosses the boundary is
stated by `DeliveryProtocol`: `DeliveryRefinement` shows that `Delivery` implements it,
and `Interruption` is the engine on top of it, where a delivery either answers, and the
step goes on, or raises, and the call is over.

```
RuleTypes <- Aggregations <- Conditions <- Episodes <- Triggers <- Reloading <- Engine
Engine <- EngineProperties <- Explain      <- EngineHistory
                           <- Interruption <- Checkpoint
Delivery <- DeliveryProperties <- DeliveryRefinement -> DeliveryProtocol

Reloading <- HandlerProofs;  HandlerProofs, EngineProperties <- EngineProofs <- StepProofs
StepProofs <- TimerProofs;  TimerProofs, Explain <- SilenceProofs
SilenceProofs, EngineHistory <- HistoryProofs
EngineEpisodes <- EpisodeIds;  StepProofs, EngineEpisodes <- EpisodeProofs
DeliveryRefinement <- DeliveryProofs
```

| Module | Content |
| --- | --- |
| `RuleTypes` | events, rules, the state of a rule, alerts; what compilation accepts; the fingerprint |
| `Aggregations` | the aggregations of a window, their buckets and their chains |
| `Conditions` | comparison, operands, the condition over an event or a window |
| `Episodes` | the alert lifecycle: emit or suppress, remind, resolve |
| `Triggers` | what each trigger does with an in-order event, a late event, a due instant; buffers; closed windows |
| `Reloading` | outcomes of a reload, drains |
| `Engine` | the state machine: calls, the timer loop, late events, reloads |
| `EngineProperties` | type invariant, safety, action and liveness properties |
| `EpisodeProtocol` | abstract specification: what a consumer of alerts is promised |
| `EngineEpisodes` | the refinement mapping from `Engine` to `EpisodeProtocol` |
| `EpisodeIds` | `Engine` beside the alerts so far; what the documentation says of correlation ids, and the code does not keep |
| `EngineHistory` | `Engine` beside a log of the events every rule was handed, and properties over it |
| `Explain` | `explain` as an operator on the state of `Engine`, and its agreement with what then happens |
| `Interruption` | `Engine` with deliveries that raise: what a call cut short leaves behind |
| `Checkpoint` | `Interruption` with snapshots, crashes, restores and the calls made again |
| `EngineClaims` | further statements of the documentation that the code does not keep |
| `Delivery` | the registry, the adapters, the dead-letter store, abandoned writes, crashes |
| `DeliveryProperties`, `MCDelivery` | its properties; the requests of the instances |
| `DeliveryProtocol` | abstract specification: what the engine is promised of a delivery |
| `DeliveryRefinement` | the refinement mapping from `Delivery` to `DeliveryProtocol` |
| `RuleSets`, `MCEngine`, `MCEpisodeIds`, `MCHistory`, `MCInterruption`, `MCCheckpoint` | rules, events and constants of the instances TLC checks |
| `HandlerProofs` | lemmas: what each handler returns, by type and by the timers it sets |
| `EngineProofs` | types, progress, the accounting of late events, the rank of a percentile, the readings in buckets |
| `StepProofs` | lemmas: what one step of the engine does to one rule in one partition |
| `TimerProofs` | buffers in order, timers that track the clock, a clock that moves forward |
| `SilenceProofs` | absence and composite rules track the silence of their sources; `explain` agrees with what happens |
| `HistoryProofs` | buffers, remembered verdicts, previews and partial matches against the events a rule was handed |
| `EpisodeProofs` | episodes: complete, spaced, drained, announced; `Engine` implements `EpisodeProtocol` |
| `DeliveryProofs` | types and accounting of deliveries, the log, copies at the destination, dead letters; `Delivery` implements `DeliveryProtocol`, but for its liveness |

## 3. Model and code

**State.** The variables of `Engine` are the attributes of `CompiledEngine`:
`watermark`, `floor`, `entityWm` (`_entity_watermarks`), `rules`, `states` and
`known` (`_entities`), `draining`, `pending`, `late` and `lateBy`
(`LateEventMetrics`), `suppressed`. `call` is the call in progress, `out` the
alerts it has emitted so far, `served` the number of calls made. A `RuleState`
has the fields of the dataclass; `source_absent` is the set of sources for which
it is true, `closed_windows` the set of ends and the subset that held.

**Steps.** Nothing interrupts a call of `Engine`, and the environment chooses the next
one. A call is several steps only where the code loops:

| Action | Code |
| --- | --- |
| `FirstEvent`, `FirstAdvance` | the first call sets the clock and fires nothing (1417-1419) |
| `AcceptEvent`, `AdvanceTo` | the call begins (1011-1023, 1401-1412) |
| `FireDue` | one turn of the timer loop: the clock moves to the next due instant and all that is due fires (1427-1432, 1491-1559) |
| `Settle` | the loop ends, the clock is set to the target, a staged reload is activated, the event is handed to the rules (1433-1435, 1024-1055) |
| `RefuseLate`, `FoldLate` | an event behind the clock (1329-1399) |
| `Recompute` | one closed window is evaluated again (2091-2126) |
| `ReloadNow`, `StageReload` | `reload` (1057-1089) |

Further modules add calls that end early, and calls around the engine:

| Action | Code |
| --- | --- |
| `TimersInterrupted` | a delivery raises in `_fire_due_timers` (1431): the clock stays at the instant |
| `FirstEventInterrupted`, `EventInterrupted` | a delivery raises while an event is handed to the rules (1024-1052) |
| `FoldLateInterrupted` | a delivery raises while a late event is folded in or a window it reopens is revised (1356-1392) |
| `TakeCheckpoint` | `snapshot` between two calls (1222-1240) |
| `Restart` | the process stopped, at any moment, and `restore` builds a new engine (1242-1301) |
| `NewCall`, `OldCall` | the caller goes on; or, after a restart, makes the calls since the checkpoint again |

Each step applies an operator of `Triggers` to every rule in every partition it
concerns. The operator returns an `Outcome`: the new state, the alerts, whether
an emission was suppressed and whether an episode was resolved. `Commit` writes
these to the variables. Rules and partitions do not read each other's state, so
the order the code takes them in is not visible in it.

**Abstractions.**

* Time is a natural number of ticks. `Day` is the length of a day, a cron
  expression is an offset in it.
* Strings are atoms. The correlation id, a hash of rule, partition and episode
  start, is the episode start: rule and partition index the place the alert is
  kept at.
* A rule has one alert per emission where the code has one per action. Severity,
  message and delivery are left out. The order of alerts of different rules
  within one call is left out; within a rule and partition it is kept.
* Readings and thresholds are integers and what is computed of them is a quotient;
  the code computes with floats. A metric without a value (the mean of an empty
  window) is the empty sequence, and an operand over it fails.
* A rule is `Computable` (an `ASSUME` on the rules of every instance): its operands
  compare numbers and an aggregation with an `input` is given a series. Compilation
  does not ask for this, see section 5.
* `partition_by` is `entity_id` or one attribute, which an event may lack.
* The list of partial matches is a set: equal matches behave equally until a
  completion consumes all of them.
* Pruning drops a prefix of the buffer. The code filters; the two agree because
  the buffer is in order (checked: `BufferInOrder`).
* `explain` is its outcome and the label it announces. The list of checks in an answer
  is wording.
* The document of a checkpoint is a record with the fields the code writes; its JSON
  text and its version number are left out.
* A rule interrupted by an exception is left as the code leaves it at the line of the
  delivery (`Torn`): the trigger has noted what it saw and an emission has been noted,
  but an episode is closed, and a window or a schedule moved on, only afterwards. The
  order in which the rules are taken is a choice: `done` are those taken before.
* `EngineConfig.schedule_start` is left out: it is read only when an event is
  processed before the clock is set, which cannot happen.

`WellFormed` is what `CompiledRule.from_declarative` lets through. It is an
`ASSUME` on the rules of every instance, as are `Computable` and the types of the
constants, and TLC evaluates them on every run.

**Delivery** (lines of `sinks.py`). `overall` and `bySink` are the counters of the
registry, `log` the delivery log, `letters` the lines of the dead-letter store, each
the number of the call that wrote it. `call` is the call of `deliver` in progress.
The rest is outside the process (`objects`, what the stored objects hold), in threads
nobody waits for (`abandoned`), or history (`requests`, `fate`, `tried`, `escaped`,
`cleared`, `recorded`). A call is one step per attempt and per operation on the file,
since a crash or an abandoned write can come between two of them:

| Action | Code |
| --- | --- |
| `Deliver`, `DeliverUnsupported` | the call is counted and an adapter looked for (694-717) |
| `AttemptSucceeds`, `AttemptRetried`, `AttemptFails` | one turn of the loop (723-761): the adapter answers, the counters move, and the call returns, tries again or gives up |
| `AdapterRaises` | an exception leaves the adapter and `deliver` (725) |
| `RecordDeadLetter` | the letter is counted and appended (774-791, 570-579) |
| `KeepLetters`, `TruncateLetters`, `RewriteLetters` | retention (582-590): nothing to do, or the file is opened for writing, which empties it, and then written |
| `StoreRaises` | one of these operations fails |
| `AbandonedLands` | a write that timed out finishes after all (410-421) |
| `ResetMetrics`, `ClearDeliveryLog` | 687-692 |
| `Crash` | the process stops; files and destinations remain |

An adapter is the set of its `Outcomes`: what it may answer, and whether the write
lands now, later or never. An HTTP error of the client's making does not land; an
error of the server, the connection or the file system may have, and a timeout may be one
the operating system reports. A line of a file that is cut off counts as not received.
`MayRaise` lists the adapters with code outside a
`try` block: the whole of the one that prints has none. The key of an object stands for rule and second, as
in the code (1075-1077). Latency and backoff are left out, `sleep` takes no time.
Every attempt has a result of its own, as with all adapters of the repository.

## 4. The runs

The instances of the engine bound the calls by `MaxCalls` and the instants by `MaxTime`; after
`MaxCalls` calls the system stops, so deadlock is not checked. The engine has no
other bound. An engine state is a function of the calls made, so `MaxCalls` is
the depth that counts, and four calls of a run are enough for: open an episode,
cross a deadline, report late, and look at the result; or open, reload, reload,
close. Times go far enough beyond the longest duration of the rules of the run
for at least two deadlines, windows or reminders in a row.
In `Silence` the third source, which only cancels a pattern, reports at instant 2 alone:
after a first step, before or after a second, or too early.

| Run | Instance | Shows |
| --- | --- | --- |
| `Events` | 2 entities, 2 values, 4 event rules: tolerant with cooldown, filtered with reminders, filtered with reminders and a longer cooldown, without emit block, and a window with recomputation on; 4 calls, times to 4 | `ProgressWithinClock`, `LateAccounting`, `DroppedLeavesNoTrace`, `EmissionsSpaced`, `ExplainAgrees`, and the refinement `EpisodesFollowProtocol` |
| `Silence` | 3 sources, an absence rule with reminders, an AND and an OR composite over two of them, the pattern a a b without c within 3; 4 calls, times to 6, c at one instant only | `AbsenceTracksSilence`, `CompositeTracksSources`, `SequenceExact`, `NoOverdueTimer`, `EpisodeComplete`, `ClockNeverRewinds`, `CallsReturn`, `ExplainAgrees` |
| `Windows` | hopping and tumbling windows, a cron rule over bucket counts and one of a median, recomputation on; 4 calls, times to 7 | `WindowTimerTracksClock`, `ScheduleTracksClock`, `BufferInOrder`, `BucketsCover`, `PercentileRanked`, `OpenSpanBuffered`, `ClosedVerdictsRight`, `PreviewExact`, `TypeOK` |
| `Reload` | a window rule with reminders, 3 replacement rule sets, preserve and reset, at once and staged, policy reject, recomputation on, one delivery that raises, one checkpoint and one restart; 4 calls, times to 5 | `TimersSurvive`, `RecoversExactly` |
| `Draining` | 2 entities, a rule with reminders and a partitioning attribute, 2 replacement rule sets, drain, at once and staged, one delivery that raises; 4 calls, times to 3 | `DrainsEndWithEpisodes`, `EpisodesEndAnnounced` |
| `Delivery` | 2 calls to 7 sinks (one without adapter, one without target), 2 attempts each, a file of 1 dead letter | `Accounting`, `LogExact`, `NewestLetters`, `CopiesExplained`, `TypeOK`, and the refinement `DeliveryFollowsProtocol` |

`Reload` and `Draining` have two more bounds. `MaxRaises` is 1: what one exception
leaves behind is what the following calls meet, and a second one finds an engine no
different from one after the first. `MaxJournal` is 2, the calls made after the
checkpoint: one that opens something, and one that must still find it. There is one
restart in a behaviour, under the rules of the checkpoint, when the calls are made again
and compared, or under any other rules that `restore` accepts, when the engine goes on
and `TimersSurvive` is what it must keep.

`RecoversExactly` compares call by call. A call the process stopped in, or that an
exception ended, has delivered a part of its alerts; the restored engine, given the call
again, must deliver these first. It is stated for checkpoints taken outside a drain and
with no reload staged, which is what the documentation limits itself to
(`docs/embedding-examples.md`, Checkpoint And Resume).

`ExplainAgrees` asks `explain` when the timers before an event have fired and compares
the answer with what `process_event` then does. `PreviewExact` does the same for windows,
where `explain` answers for a window that ends at the event, against the history.
`BucketsCover` and `PercentileRanked` state what buckets and percentiles are for, over
the buffers that occur: every reading of a window is in a bucket, and only one on the
bound between two is in both; a percentile has the share of readings below it that its
name says.

`Delivery` is bounded by `MaxCalls` 2, `MaxRecords` 1 and `MaxBreaks` 1 (crashes,
resets and clearings of the log together). Two calls are what retention, the overwriting
of objects and a write that lands during a later call need; the file may hold a letter
of an earlier process, so the first dead letter already makes it rewrite. One break
meets every state of a call. A second one finds the registry as at the start and the
file in a state the first could have left. Two attempts have a first, a last and a
retry between them. After the last call the system stops, so deadlock is not checked.

`CallsReturn` is checked under `FairSpec`, and with the history under `HistFairSpec`: weak fairness of `Progress`, the steps
a call takes once it has begun. The code justifies it: these steps are
consecutive iterations of loops in one function, which Python executes without
waiting for anything. There is no fairness on calls. Nobody has to make one.
`DeliveryFollowsProtocol` contains that every delivery ends. It is checked under weak
fairness of the steps of `deliver`: its loop is bounded and does not wait, given that
every attempt answers, raises or meets its timeout. An adapter that blocks without a
timeout blocks the engine; no configuration value prevents that.

`OpenSpanBuffered`, `ClosedVerdictsRight` and `SequenceExact` compare the engine
with definitions over the whole history of a rule, kept in `log` by
`EngineHistory`; they know nothing of buffers, pruning or partial matches.
`ClosedVerdictsRight` is stated for windows that ended after the last in-order
event of the entity. For older ones the buffer has been pruned (see
`PrunedRevision`), and a reading exactly on the end of a window is counted by a
recomputation and not by the window itself, since the window closes before the
reading arrives.

`EmissionsSpaced` states what the code keeps of the documented distance of two emissions:
`repeat_every` always, and `cooldown` but for the reminder that is pending. `Events` has a
rule whose reminders come before its cooldown ends; for it the documented "larger of the
two" fails (section 5). In the same way `EpisodesFollowProtocol` promises that the alerts
of a track form episodes, and leaves open whether an id is used once and which episode a
retraction belongs to (section 5 and `RetractionsCorrelated`, which `StrayRetraction`
refutes).

The passing runs are bounded by the rules they are given, not by guards against
the behaviours of section 5. Where a property fails for some kind of rule, the
passing run has rules for which the documentation's statement is kept and the
violation run has one for which it is not.

## 5. Divergences

Each of these is a run in which TLC finds the quoted statement violated. All were
reproduced with the Python code.

| Run | What happens |
| --- | --- |
| `LateReminder` | A tolerated late event of an event rule arms its reminder at its own timestamp plus `repeat_every`. If that is before the clock, the next call moves the clock back to it. |
| `SlowEntity` | An entity that is behind the clock, although not behind itself, reports: `last_seen` moves, `absence_fired` and the episode do not. The alert stays open over a live source, and while the entity stays behind no timeout is detected again. |
| `PrunedRevision` | Verdicts are kept for `duration + allowed_lateness`, readings for `duration`. A late event makes a window be evaluated over what is left of it, and an alert is retracted although its window held. |
| `ReminderRemoved` | Under `preserve` a pending reminder outlives the removal of `repeat_every`: `_next_due_time` lists it, `_fire_due_timers` passes over it, and the loop never ends. |
| `StrayRetraction` | A retraction takes its id from the episode open now (2122): after the episode of the window has ended it has the id of no episode, or of a later one, which it closes. |
| `LostObject` | Two entities raise an alert for one rule in one second; both are stored under the same key, both deliveries report success, one alert is gone. |

Further divergences, met while modelling and reproduced with the Python code, that
no run is spent on:

* Reminders do not look at the cooldown (1496): with a `cooldown` longer than
  `repeat_every` they come before it is over, although "the larger of the two" is
  documented to apply (`docs/rule-language.md` 276-277).
* An episode that ends and opens again at the instant it had opened at has the same
  correlation id (2198-2212), where `tests/test_alert_lifecycle.py` 139 and
  `docs/delivery-contract.md` 70-71 tell episodes apart by it. A simulation report takes
  the two for one (482-489).
* A scheduled rule added by a reload never runs for entities that already exist:
  the state a reload creates has no next fire time (1194).
* A second `drain` replaces the definition a draining episode was opened under (1139).
* The directory of a file sink is made outside the adapter's `try` (`sinks.py` 870): if
  that fails, `deliver` raises, the request is counted and nothing else, and the alert
  is neither logged nor dead-lettered, although "at-least-once delivery with retries,
  idempotency keys, and dead letters" is promised (`README.md` 17). In the model it is
  the case `escaped` of `Accounting`.
* Retention truncates the dead-letter file before it writes it again (`sinks.py` 590);
  a crash in between loses all records. In the model it is the exception
  `NewestLetters` makes for a rewrite cut short.
* Any source of an absence rule re-arms its timer (1045) but the deadline is that
  of the first source (1467): a report of the second one after the deadline moves
  the clock back. With sources a and b and a timeout of 3: a at 0, advance to 3, an
  alert; b at 5, advance to 6, and the alert comes again with timestamp 3. Compilation
  checks the timeout only (191-195), while `docs/rule-language.md` 80-86 speaks of "the
  single source trigger". `OneSourceEach` keeps such rules out of the theorems.
* Without `resolve`, an episode never closes (2242).
* A window that is recomputed while the episode of a later one is open continues that
  episode at its own, earlier end: without `cooldown` and `repeat_every` a `repeat` older
  than the `firing` it follows, and `last_emit` moves back (2117, 2230); with one of them
  the new alert is withheld (528). `Events` has the second kind of rule.
* An entity whose events are all behind the clock has no recorded progress (1022),
  so none of them is ever late.
* `condition.operator` is not in the fingerprint (316): a composite rule changed
  from OR to AND keeps an active condition that does not hold. Nor are `resolve`,
  `repeat_every` and `cooldown`: an episode goes on under settings it was not opened
  under, and without the reminder or the end it would have had.
* The first event or advance does not activate a staged reload that is due (1417),
  and one advance past it fires later timers under the old rules (1427-1434).
* A `reset` during a drain discards the episode and leaves the drain (1124).
* A retraction closes an episode without ending its drain (2125).
* Some rules compile and raise whenever they are evaluated: an operand over an
  aggregation in buckets, an `input` that is not in buckets, a function that does not
  exist, a percentile outside 0 to 100 (803-877, 767-775). Their timer stays due, every
  later call starts with it and raises again (1427-1431): one such rule stops the clock
  for all. `ComputableAssumption` excludes them.
* Both ends of a bucket belong to it (789), so a reading on an inner boundary is counted
  in two. `BucketsCover` says this exactly.
* `explain` of a sequence with operands says `would_emit` although nothing is emitted
  (1883), and `docs/embedding-examples.md` reads that answer as "Every check passed".
* `explain` answers from the present state, before the timers that processing the event
  fires first (1634): an absence it calls `already_fired` or `waiting` may be about to fire.
* A snapshot taken during a drain records the fingerprint of the new rule for state made
  under the old one (1232): it is accepted under the new rule and refused under the old.
* A rule added at a restore starts without state, one added by a reload with state for
  all known entities (1187-1197).
* An alert whose delivery raised is not sent again: an emission was already noted (2230),
  so the next one is a `repeat`, or withheld by the cooldown, and its episode has no
  `firing` for the caller. A reminder that raised is skipped.
* If the delivery of a late event raises, `total` has counted it and neither `accepted`
  nor `dropped` has (1337, 1394-1398).
* `compare` knows an alert by rule, partition, instant and label (406-408, 1622-1624): a
  second one at the same instant that only the candidate emits is counted in
  `alert_delta` and missing from `only_candidate`, "alerts the change would introduce"
  (`docs/embedding-examples.md` 331).

## 6. What is proved

Every theorem holds for all values of the constants that satisfy the assumptions the
modules declare (`EngineAssumption`, `CompiledAssumption`, `ComputableAssumption` and
`DayAssumption` for the engine, `DeliveryAssumption` for deliveries): any entities,
sensors, rules and events, any number of calls. Where more is needed it is a named
hypothesis of the theorem, and each hypothesis shuts out one divergence of section 5.
`Step` below is `[][LateHarmless]_vars`, and `HStep` is `[][LateUnsequenced]_histVars`.
`HistSpec` is `Spec` without reloads, beside the log of `EngineHistory`.

| Theorem | Statement | Hypotheses |
| --- | --- | --- |
| `TypeCorrect` | `Spec => []TypeOK` | |
| `ProgressSafe` | `Spec => []ProgressWithinClock` | |
| `LateEventsAccountedFor` | `Spec => []LateAccounting` | |
| `DroppedIsTraceless` | `Spec => DroppedLeavesNoTrace` | |
| `PercentilesRanked` | `Spec => []PercentileRanked` | |
| `BucketsCovered` | `Spec => []BucketsCover` | |
| `BuffersInOrder` | `Spec => []BufferInOrder` | |
| `WindowTimersTrackClock` | `Spec => []WindowTimerTracksClock` | `Straight` |
| `SchedulesTrackClock` | `Spec => []ScheduleTracksClock` | `Straight`, `CronTimes`, `ScheduledByEvents` |
| `NoTimerOverdue` | `Spec /\ Step => []NoOverdueTimer` | `Straight`, `OneSourceEach` |
| `ClockMovesForward` | `Spec /\ Step => ClockNeverRewinds` | `Straight`, `OneSourceEach` |
| `PunctualClock` | `Spec =>` the last two | `Straight`, `OneSourceEach`, `OneEntity`, `Punctual` |
| `SilenceTracked` | `Spec /\ Step => []AbsenceTracksSilence` | `Straight`, `OneSourceEach`, `SteadySilence` |
| `SourcesTracked` | `Spec /\ Step => []CompositeTracksSources` | `Straight`, `OneSourceEach`, `SteadySilence` |
| `PunctualSilence` | `Spec =>` the last two | the same, `OneEntity`, `Punctual` |
| `ExplainTells` | `Spec /\ Step => ExplainAgrees` | `Straight`, `OneSourceEach`, `SteadySilence` |
| `OpenSpansBuffered` | `HistSpec => []OpenSpanBuffered` | |
| `ClosedVerdictsCorrect` | `HistSpec => []ClosedVerdictsRight` | `WindowsByEntity` |
| `PreviewIsExact` | `HistSpec => PreviewExact` | |
| `SequencesExact` | `HistSpec /\ HStep => SequenceExact` | `PlainSequences` |
| `PunctualSequences` | `HistSpec => SequenceExact` | `PlainSequences`, `OneEntity`, `Punctual` |
| `EpisodesComplete` | `Spec => []EpisodeComplete` | `SteadyReminders` |
| `EmissionsApart` | `Spec => EmissionsSpaced` | `SteadyGaps` |
| `DrainsEnd` | `Spec => []DrainsEndWithEpisodes` | `Gentle`, `Unrevised` |
| `EndsAnnounced` | `Spec => EpisodesEndAnnounced` | `Gentle`, `Unrevised`, `NothingRemoved` |
| `EngineImplementsProtocol` | `Spec => EpisodesFollowProtocol` | `Unreloaded`, `WithinTime` |
| `DeliveryTypeCorrect` | `Spec => []TypeOK` | |
| `DeliveriesBalance` | `Spec => []Accounting` | |
| `LogIsExact` | `Spec => []LogExact` | |
| `CopiesAreExplained` | `Spec => []CopiesExplained` | |
| `NewestLettersKept` | `Spec => []NewestLetters` | |
| `DeliveriesImplementProtocol` | `Spec => Promised!Init /\ [][Promised!Next]_(Promised!vars)` | |

### The hypotheses

| Hypothesis | Says | Without it | Satisfied by the runs |
| --- | --- | --- | --- |
| `Straight` | no reload drains | a second drain replaces the definition a state was made under, and the state is then read by a rule of another trigger | `Events`, `Silence`, `Windows`, `Reload` |
| `CronTimes` | a time of day is less than a day | (what parsing gives; `WellFormed` leaves parsing out) | all |
| `ScheduledByEvents` | no reload brings a scheduled rule partitioned by entity | such a rule never runs (1194) | all |
| `OneSourceEach` | an absence rule has one source | a report of the second one moves the clock back (1467) | all |
| `LateHarmless` | an event behind the clock is folded into no rule that draws a deadline from it: `Unhurried` rules are sequences, schedules, and windows and events without reminders | runs `LateReminder`, `SlowEntity` | a condition on steps, not on constants |
| `OneEntity`, `Punctual` | one entity, no tolerance for late events: then every step is `LateHarmless` | the same | `Silence` |
| `SteadySilence` | reloads keep `resolve` and `operator` of rules over silence | they are not in the fingerprint (316): the state is kept and means something else | all |
| `WindowsByEntity` | the window rules are partitioned by entity | the property asks how far the entity of a partition has come, and a zone is no entity: windows close for all its entities by the clock | all |
| `PlainSequences` | a sequence rule has no operands, cooldown or reminders | an operand, or a gap not yet over, withholds the alert of a completed pattern; what these do is `Gap`, `EmitEpisode` and the theorems about episodes | all |
| `LateUnsequenced` | an event that is folded in reaches no sequence rule | it is not handed to the rule (1385): a pattern whose steps arrive out of order is missed | a condition on steps; `Silence` by `OneEntity` and `Punctual` |
| `SteadyReminders`, `SteadyGaps` | reloads keep `repeat_every`; and `cooldown` | the same; run `ReminderRemoved` | all |
| `Gentle` | reloads neither reset, nor preserve rules that are not compatible | discarded episodes, also during a drain (1124) | `Events`, `Silence`, `Windows`, `Draining` |
| `Unrevised` | no recomputation, or no window rule | a retraction leaves its drain (2125), and says `retracted` where the end is `resolved` | `Silence`, `Draining` |
| `NothingRemoved` | reloads remove no rule | its episodes go with it | `Events`, `Silence`, `Windows`, `Draining` |
| `Unreloaded`, `WithinTime` | no reloads; the clock starts and events lie within `MaxTime` | a reload discards episodes, which the protocol does not know; the tracks of the protocol end at `MaxTime` | `Events`, `Silence`, `Windows` |

`OneEntity` and `Punctual` are for a reader who wants a hypothesis on the constants;
the theorems above them say more, since they hold as long as a behaviour has not met
an event that matters.

### The arguments

*Types.* A time is a natural number or `Unset`, and every subtraction of the code
(cutoffs, window starts, lookbacks) must not reach a place where a time is expected; a
closed window remembered by its start instead of its end already breaks `TypeOK`.
`TypeOK` alone is not inductive. `StateInv` adds that a partition holds state only for a
rule that is loaded and that every definition in force, staged or draining is one that
compilation accepted: without these a timer could be asked of no rule, or a window be
aligned to a slide of 0. `HandlerProofs` holds one lemma per handler (`InOrderType`,
`OnLateType`, `OnTimerType`, ...): given a well-typed state and a well-formed rule it
returns a well-typed `Outcome`. `EngineProofs` has one step per action.

*Progress* is only promised between calls. While the timers run, what is never ahead
is the target of the call, and an event waiting for them carries that target as its
time; between calls the clock has taken the target over (`ProgressInv`).

*Late accounting* needs the by-rule counters to be bounded by the totals at every
step, the argument being that an event is accepted when some rule takes it and
dropped when none does (`LateInv`). `DroppedLeavesNoTrace` is an action property; it
follows from the types of the counters and one step per action.

*One step, one rule.* The rest of the theorems about the engine are about the state of
one rule in one partition. `StepProofs` shows that any step leaves it alone, possibly
after a reload gave it up or made it fresh (`Rests`), or hands it to one of four
handlers: `Hears` an event in order, `HearsLate`, `Recomputes` a closed window, `Times`
a due instant that is the earliest of all (`TurnTaken`). The invariant it stands on is
`EngineInv`: types, progress, definitions that are all among those loaded
(`DefinitionsInv`), and an engine without state before its clock is set (`BeforeTime`). `Limit` is how
far the call in progress will have moved the clock when it returns; what the rules
remember is bounded by it and not by the clock, which lags behind while timers run.

*Buffers* (`BufferInv`): in order, and nothing later than `Limit`. An event in order
comes at `Limit` and is appended; a late one is inserted where it belongs; pruning and
the cut at a window end keep a prefix or a suffix.

*Windows and schedules* (`WindowInv`, `ScheduleInv`): while timers run, the next end is
one a sweep up to `Limit` must still meet, and it is after the clock as soon as the call
is over. The step that matters is `Times`: the timer that fires is due, so what it sets
is one slide, or one day, on, and a timer that does not fire is later than the instant.

*Overdue timers* (`TimerInv`): while timers run none is before the clock, and the clock
is not beyond the target; between calls all are after the clock. `Settle` needs that no
timer up to the target is left, and `Times` that everything a handler sets anew is after
the instant it fires at. This is false for exactly the handlers of late events, hence
`LateHarmless`. A clock that never moves back is a corollary: the next due instant is
what the clock moves to.

*Silence* (`KeptInv`): between a report and its deadline nothing is marked; what is
marked has a deadline within `Limit`; the episode is open exactly while something is
marked. The other direction, that a silence is not missed, is `TimerInv`: a source that
is not marked has a timer, and no timer is overdue.

*Explain* has a guard of its own for every guard of the handlers. `ExplainTells` asks it in
the state in which the timers have fired and the event is about to be handed over, and
goes trigger by trigger. For an absence rule it needs that no deadline up to the event is
left and that a fired one has passed its deadline; for a composite rule that a condition
which holds has been announced, so that an event can only end it (both `KeptInv` and
`TimerInv`); for a sequence that an event which completes a match is one `explain`
expects. Every other case is a label or a suppression computed from the same episode
(`EmissionAnswered`), or nothing at all (`QuietAnswered`).

*Buffers and history* (`TrailInv`). A buffer is compared with the log by counting:
`Occurrences` of each event from the start of the earliest window still open, or of the
lookback of a scheduled rule. An event in order adds one to both sides, a late one is put
in the middle of the buffer and at the end of the log (`OccursOnceMore`), and pruning
drops what is before the cutoff. The step that matters is `Times`: the span moves
on with the window, so nothing that was dropped is ever looked at again. The next end
being the next one on the grid is `WindowInv`, which is why the buffer is long enough.

*Verdicts* (`VerdictInv`). Counting is not enough for a verdict, which may depend on the
order: `delta` and the percentage of a change read the first and the last value. So the
buffer and the trail are related by places: `Mirrored` gives every reading of the buffer its
place on the trail, in time order and for one instant in the order of arrival, and no event
from the span on is left out. An event in order goes to the end of both, a late one behind
those of its own instant (`InsertMirrored`), and pruning drops a prefix (`DropMirrored`).
The window of a mirrored buffer is then that of the whole trail (`WindowMirrored`): both are
the events inside, sorted, and there is one way to sort them (`InTimeOrderIs`). The span of
`VerdictInv` starts one window before the last event in order of the entity, because that is
where `_prune_buffer` cuts; an older window may have lost readings, which is the divergence
of run `PrunedRevision`. A remembered verdict is excused only while its window
waits to be asked again (`Open`): a late event either leaves a window
alone (`VerdictUnmoved`) or has it waiting, since `AffectedWindows` are all the
remembered windows the event lies in. `PreviewIsExact` asks the same mirrored buffer about the
window that ends with the event, which comes last in its order (`LastInTurn`).

*Sequences* (`SequenceInv`). The definition in `SequenceExact` places the steps of a
pattern on the trail, the events since the last completion or cancel; the engine keeps
a start and a number of steps for each partial match. `Followed` relates the two in both
directions: every partial match is placed on the trail, and every placement of the first
k steps that has not expired is followed by a match with the same start that is as far or
further. An event that continues a placement then also advances the match
that follows it, and the pattern is completed on one side exactly when it is on the other.
That nothing is said while timers run (`QuietTimers`) makes the alert the one of the event.

*Percentiles.* `Ascending` gives every value a place, the number of values that precede
it; that these are the places 1 to n, each taken once, is a counting argument
(`AscendingIs`). The percentile lies between the values of two neighbouring places, which
bounds how many values can be below and above it (`RankedBetween`).

*Buckets.* The pairs of a bucket and a reading in it are counted by a bijection: every
reading is paired with the bucket it lies in, the earlier one if it is on a bound, and one
on an inner bound with the next bucket as well. Arithmetic then says that these are all the
pairs there are, the last, shorter bucket included (`BucketsCovered`).

*Episodes.* `EpisodeTurn` classifies what a step may do to an episode: keep it
(`Keeps`), open it (`Opens`), emit within it (`Repeats`, `Reminds`), close it (`Closes`)
or retract it (`Retracts`), with the alerts each of these says; an instant may remind
first and then do one of the others (`Ticks`).
`WholeInv` holds of every definition a rule may have, not only of the one in force,
since a draining episode is closed under an older one. The loop over the timers goes
from one due instant to the next, so it passes no reminder by (`OnTime`), and with
`WholeInv` a reminder comes exactly `repeat_every` after the last emission
(`RemindsPunctually`): it may break the cooldown, and nothing else. `OrderedInv` puts the
last emission of a rule with a cooldown or reminders between the start of its episode and
`Limit`; an emission in order is at `Limit`, so it is not behind the last one, and a late
or a revised one passes only if it is a gap later. It is needed for an episode that a
reload discards and the same step opens anew: if that has the old start, it has the old
last emission. A rule without either may emit behind its last emission (2117), and has no
distance to keep. `ClosedInv` bounds the closed windows that are
remembered and those to be recomputed.

*Drains.* A partition is draining exactly while the episode it was taken for is open. It
is its own invariant relative to `EngineInv` and `ClosedInv`: a reload puts exactly the
partitions with an open episode on the list, and `FinishDrain` takes exactly those off
whose handler resolved something, which the classification says is a step that closes.

*Episode protocol.* All tracks of `EpisodeProtocol` may move in a step. The mapping shows
it the open episodes, the last emissions and the alerts of the engine; the proof shows of each
of these cases that the alerts it appends are those one step of a track says (`Tells`,
`TrackRefined`). `UntrackedInv` keeps rules without an emit block from having a track, and
`InTime` the instants within the bound of the tracks.

*Deliveries.* `TypeOK` is inductive as it stands; the part of it that is not typing is
that a call has made no more attempts than its request allows, which makes a
retryable answer on the last attempt the end of the loop. `Accounting` is inductive
relative to it, and holds in the middle of a call because each equation says which phase
is owed a counter (`Pending`). The proof follows one sink: a step counts for the sink of
the call only (`OneSink`), the total moves by as much as one sink's counter
(`CountAddsUp`), and every set of counters `deliver` increments keeps the four equations.

`CopiesInv` counts, for every call, the copies that have landed and the abandoned writes
that still may: together no more than the attempts made. An attempt adds to one of the
two; a late write moves one over. A call that knows of no open answer has its copy
exactly if it was delivered. `LettersInv` follows the file through retention: it is a
suffix of what was recorded, at least as long as the limit unless it is all of it, and
while it is being rewritten that suffix is what the call holds in memory.
`LogInv` keeps the log in the order of the calls, with the entry of a call written in the
same step that ends it; `tried` counts the attempts beside the code.
`DeliveriesImplementProtocol` adds that between its recording and the end of its call
the newest letter is in the file or in that memory (`LetterThere`), which is why a
request that was given up has its letter when the call returns.

### Only model-checked

* Liveness: `CallsReturn`, and the part of `DeliveryFollowsProtocol` that says every
  delivery ends.
* What an aggregation computes: the theorems about windows say that it is asked about the
  right readings in the right order, and of its functions only the percentile and the
  buckets are specified any further.
* `TimersSurvive`, and `DrainsEndWithEpisodes` and `EpisodesEndAnnounced` when a delivery
  raises: they are checked under `InterruptSpec`, while the theorems are about `Spec` of
  `Engine`. What `FoldLateInterrupted` leaves is a fold over the windows it reopens.
* `RecoversExactly` compares two executions, call by call.

The instance of the run that checks a property meets the hypotheses of the theorem about
it (each was evaluated with TLC; none of the runs checks it); the divergences of section 5 are what was
found outside of them.

## 7. Not modelled

* *Simulation and comparison*: they replay a new engine over a sorted batch and tabulate
  its alerts; their state is the engine's.
* *Parsing and validation* of documents, durations and cron expressions, the rendering of
  messages, the runner, the API and the function rules: no state between calls.
* `stddev`: its square root is no quotient.
* Rules whose evaluation raises (`ComputableAssumption`), described in section 5.
* In deliveries: latencies and backoff, an adapter registered after the first call, and a
  dead letter that is not written to disk when the machine, and not only the process, stops.
* An exception anywhere but in a delivery. A checkpoint taken while a call is in progress
  cannot happen: the engine has one thread.
* A second restart, and a restart of the registry together with the engine: `Delivery` has
  its own `Crash`, and the two share no state.

## 8. Plan

Done: the engine, delivery, aggregations, explain, interrupted calls and checkpoints
(modules above), their runs, two refinements and the theorems of section 6.

Next: `TimersSurvive` as a theorem, for deliveries that raise anywhere but in a late event
(`InterruptSpec`): what a torn commit leaves of each rule, and the invariants of the
timers with `disturbed` rules; then the drains and announcements of such an engine.
