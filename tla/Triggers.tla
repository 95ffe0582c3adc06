------------------------------ MODULE Triggers -------------------------------
(***************************************************************************)
(* What each kind of trigger does with an event that arrives in order,     *)
(* with an event that arrives behind the engine clock, and with a timer    *)
(* that falls due.  Each operator maps the state of a rule in a partition  *)
(* to an Outcome of module Episodes.                                       *)
(***************************************************************************)
EXTENDS Episodes

CONSTANT Day     \* ticks between two fire times of a cron expression

ASSUME DayAssumption == Day \in Nat \ {0}

\* Mutant: a time on a boundary belongs to the window that ends there.
AlignWindowEndInclusive(ts, slide) == ((ts + slide - 1) \div slide) * slide

AlignWindowEnd(ts, slide) == ((ts \div slide) + 1) * slide

\* Mutant: a cron time fires again at the instant it has fired.
NextCronFireInclusive(after, cron) ==
  LET today == (after \div Day) * Day + cron
  IN IF today >= after THEN today ELSE today + Day

NextCronFire(after, cron) ==
  LET today == (after \div Day) * Day + cron
  IN IF today > after THEN today ELSE today + Day

\* The state given to a rule that has none in the partition of an event.
FreshState(rule, now) ==
  IF rule.trigger = "scheduled"
  THEN [EmptyState EXCEPT !.nextSchedule = NextCronFire(now, rule.cron)]
  ELSE EmptyState

-----------------------------------------------------------------------------
\* The buffer of a window or scheduled rule, which is kept in time order.

AsReading(ev) == [sensor |-> ev.sensor, value |-> ev.value, ts |-> ev.ts]

Buffers(rule) == rule.trigger \in {"window", "scheduled"}

CountBefore(buffer, ts) == Cardinality({i \in DOMAIN buffer : buffer[i].ts < ts})
CountUpTo(buffer, ts) == Cardinality({i \in DOMAIN buffer : buffer[i].ts <= ts})

DropBefore(buffer, cutoff) ==
  SubSeq(buffer, CountBefore(buffer, cutoff) + 1, Len(buffer))

\* Mutant: a late event is appended like any other.
InsertLast(buffer, reading) == Append(buffer, reading)

\* A late event goes behind the readings of its own time.
InsertInOrder(buffer, reading) ==
  LET k == CountUpTo(buffer, reading.ts)
  IN SubSeq(buffer, 1, k) \o <<reading>> \o SubSeq(buffer, k + 1, Len(buffer))

\* Mutant: only the events of the last slide are kept.
SpanOfSlide(rule) == MaxOf(rule.slide, rule.lookback)

\* How far back an evaluation of the rule can reach.
Span(rule) == MaxOf(rule.duration, rule.lookback)

\* Pruning keeps what the window or the lookback of the rule can still reach,
\* and starts the window timer of a rule that has none yet.
Prune(rule, st, now) ==
  IF Span(rule) = 0 THEN st
  ELSE [st EXCEPT
          !.buffer = DropBefore(@, now - Span(rule)),
          !.nextWindowEnd = IF rule.trigger = "window" /\ @ = Unset
                            THEN AlignWindowEnd(now, rule.slide) ELSE @]

-----------------------------------------------------------------------------
\* event

EvaluateEventRule(rule, st, ev) ==
  IF EvaluateOperands(rule, EventValues(ev))
  THEN EmitEpisode(rule, st, ev.ts)
  ELSE ResolveEpisode(rule, st, ev.ts)

-----------------------------------------------------------------------------
\* sequence: partial matches advance skip-till-next and expire.

\* Mutant: a match that started exactly within ago has expired.
AliveMatchesStrict(rule, st, now) == {m \in st.partial : m.started > now - rule.within}

AliveMatches(rule, st, now) == {m \in st.partial : m.started >= now - rule.within}

Expected(rule, m, sensor) == rule.steps[m.step + 1] = sensor

Completing(rule, matches, sensor) ==
  {m \in matches : Expected(rule, m, sensor) /\ m.step + 1 = Len(rule.steps)}

Advanced(rule, matches, ev) ==
  {IF Expected(rule, m, ev.sensor) THEN [m EXCEPT !.step = @ + 1] ELSE m :
     m \in matches \ Completing(rule, matches, ev.sensor)}
  \cup IF rule.steps[1] = ev.sensor THEN {[started |-> ev.ts, step |-> 1]} ELSE {}

AdvanceSequence(rule, st, ev) ==
  LET alive == AliveMatches(rule, st, ev.ts)
      consumed == [st EXCEPT !.partial = {}]
  IN CASE ev.sensor = rule.without -> Silent(consumed)
       [] /\ ev.sensor # rule.without
          /\ Completing(rule, alive, ev.sensor) = {} ->
            Silent([st EXCEPT !.partial = Advanced(rule, alive, ev)])
       [] OTHER ->
            IF rule.operands # {} /\ ~EvaluateOperands(rule, EventValues(ev))
            THEN Silent(consumed)
            ELSE EmitEpisode(rule, consumed, ev.ts)

-----------------------------------------------------------------------------
\* composite

CompositeConditionActive(rule, absent) ==
  \/ rule.operator = "OR" /\ \E s \in SensorsOf(rule) : s \in absent
  \/ rule.operator # "OR" /\ \A s \in SensorsOf(rule) : s \in absent

\* Mutant: any report ends the condition, also one of several silent sources.
SourceReportsClears(rule, st, ev) ==
  LET heard == [st EXCEPT !.absent = @ \ {ev.sensor}, !.compositeActive = FALSE]
  IN IF st.compositeActive THEN ResolveEpisode(rule, heard, ev.ts) ELSE Silent(heard)

SourceReports(rule, st, ev) ==
  LET absent == st.absent \ {ev.sensor}
      active == CompositeConditionActive(rule, absent)
      heard == [st EXCEPT !.absent = absent, !.compositeActive = active]
  IN IF st.compositeActive /\ ~active
     THEN ResolveEpisode(rule, heard, ev.ts)
     ELSE Silent(heard)

-----------------------------------------------------------------------------
\* absence

\* Mutant: the timer of a source that is back is not armed again.
HeartbeatUnarmed(rule, st, ev) == ResolveEpisode(rule, st, ev.ts)

Heartbeat(rule, st, ev) ==
  ResolveEpisode(rule, [st EXCEPT !.absenceFired = FALSE], ev.ts)

-----------------------------------------------------------------------------
\* An event at or ahead of the engine clock.

InOrder(rule, st, ev) ==
  LET pruned == Prune(rule, st, ev.ts)
      kept == IF Buffers(rule)
              THEN [pruned EXCEPT !.buffer = Append(@, AsReading(ev))]
              ELSE pruned
      heard == [kept EXCEPT !.lastSeen[ev.sensor] = ev.ts]
  IN IF ~MatchesEvent(rule, ev) THEN Silent(kept)
     ELSE CASE rule.trigger = "event" -> EvaluateEventRule(rule, heard, ev)
            [] rule.trigger = "sequence" -> AdvanceSequence(rule, heard, ev)
            [] rule.trigger = "absence" -> Heartbeat(rule, heard, ev)
            [] rule.trigger = "composite" -> SourceReports(rule, heard, ev)
            [] OTHER -> Silent(heard)

\* An event behind the engine clock that the rule tolerates.  It is folded
\* into the state; only an event rule is evaluated on it.
OnLate(rule, st, ev) ==
  LET kept == IF Buffers(rule)
              THEN [st EXCEPT !.buffer = InsertInOrder(@, AsReading(ev))]
              ELSE st
      heard == [kept EXCEPT !.lastSeen[ev.sensor] = MaxOf(@, ev.ts)]
  IN IF ~MatchesEvent(rule, ev) THEN Silent(kept)
     ELSE IF rule.trigger = "event" THEN EvaluateEventRule(rule, heard, ev)
     ELSE Silent(heard)

-----------------------------------------------------------------------------
\* Closed windows, kept for as long as an event may still come for them.

\* Mutant: the first instant of a window is taken not to belong to it.
AffectedWindowsOpen(rule, st, ev) ==
  IF rule.trigger # "window" \/ ~MatchesEvent(rule, ev) THEN {}
  ELSE {end \in st.closed : end - rule.duration < ev.ts /\ ev.ts <= end}

AffectedWindows(rule, st, ev) ==
  IF rule.trigger # "window" \/ ~MatchesEvent(rule, ev) THEN {}
  ELSE {end \in st.closed : end - rule.duration <= ev.ts /\ ev.ts <= end}

\* Mutant: a closed window is remembered by its start.
RecordClosedWindowStart(rule, st, end, holds) ==
  LET start == end - rule.duration
  IN [st EXCEPT !.closed = @ \cup {start},
                !.held = IF holds THEN @ \cup {start} ELSE @ \ {start}]

RecordClosedWindow(rule, st, end, holds) ==
  LET Kept(ends) == {e \in ends : e >= end - (rule.duration + rule.lateness)}
  IN [st EXCEPT !.closed = Kept(@ \cup {end}),
                !.held = Kept(IF holds THEN @ \cup {end} ELSE @ \ {end})]

\* One closed window is evaluated again over what the buffer still holds.
RecomputeWindow(rule, st, end) ==
  LET holds == WindowHolds(rule, st.buffer, end - rule.duration, end)
      noted == [st EXCEPT !.held = IF holds THEN @ \cup {end} ELSE @ \ {end}]
  IN CASE holds = (end \in st.held) -> Silent(st)
       [] holds /\ end \notin st.held -> EmitEpisode(rule, noted, end)
       [] OTHER -> [Emitting(rule, noted, "retracted", end)
                      EXCEPT !.state = CloseEpisode(noted)]

-----------------------------------------------------------------------------
\* Timers

DeadlinePassed(st, sensor, timeout, now) ==
  st.lastSeen[sensor] # Unset /\ st.lastSeen[sensor] + timeout = now

FireAbsence(rule, st, now) ==
  IF /\ ~st.absenceFired
     /\ DeadlinePassed(st, rule.sensors[1], rule.timeout, now)
  THEN EmitEpisode(rule, [st EXCEPT !.absenceFired = TRUE], now)
  ELSE Silent(st)

FireComposite(rule, st, now) ==
  LET gone == {s \in SensorsOf(rule) \ st.absent :
                 DeadlinePassed(st, s, rule.timeouts[s], now)}
      absent == st.absent \cup gone
      starts == /\ gone # {}
                /\ CompositeConditionActive(rule, absent)
                /\ ~st.compositeActive
      noted == [st EXCEPT !.absent = absent,
                          !.compositeActive = @ \/ starts]
  IN IF starts THEN EmitEpisode(rule, noted, now) ELSE Silent(noted)

\* remember is EngineConfig.recompute_late_windows.
FireWindow(rule, st, now, remember) ==
  IF st.nextWindowEnd # now THEN Silent(st)
  ELSE LET holds == WindowHolds(rule, st.buffer, now - rule.duration, now)
           noted == IF remember THEN RecordClosedWindow(rule, st, now, holds) ELSE st
           next == [noted EXCEPT !.nextWindowEnd = now + rule.slide]
       IN IF holds THEN EmitEpisode(rule, next, now) ELSE ResolveEpisode(rule, next, now)

LookbackStart(rule, st, now) ==
  CASE rule.lookback > 0 -> now - rule.lookback
    [] rule.lookback = 0 /\ st.lastSchedule # Unset -> st.lastSchedule
    [] OTHER -> IF st.buffer = << >> THEN now ELSE st.buffer[1].ts

FireScheduled(rule, st, now) ==
  IF st.nextSchedule # now THEN Silent(st)
  ELSE LET holds == WindowHolds(rule, st.buffer, LookbackStart(rule, st, now), now)
           next == [st EXCEPT !.lastSchedule = now,
                              !.nextSchedule = NextCronFire(now, rule.cron)]
       IN IF holds THEN EmitEpisode(rule, next, now) ELSE ResolveEpisode(rule, next, now)

FireTrigger(rule, st, now, remember) ==
  CASE rule.trigger = "absence" -> FireAbsence(rule, st, now)
    [] rule.trigger = "composite" -> FireComposite(rule, st, now)
    [] rule.trigger = "window" -> FireWindow(rule, st, now, remember)
    [] rule.trigger = "scheduled" -> FireScheduled(rule, st, now)
    [] OTHER -> Silent(st)

\* Everything one instant does to one rule: a reminder, then its own timer.
OnTimer(rule, st, now, remember) ==
  LET reminder == Remind(rule, st, now)
  IN Then(reminder, FireTrigger(rule, reminder.state, now, remember))

TriggerDueTimes(rule, st) ==
  CASE rule.trigger = "absence" ->
         IF st.absenceFired \/ st.lastSeen[rule.sensors[1]] = Unset THEN {}
         ELSE {st.lastSeen[rule.sensors[1]] + rule.timeout}
    [] rule.trigger = "composite" ->
         {st.lastSeen[s] + rule.timeouts[s] :
            s \in {q \in SensorsOf(rule) \ st.absent : st.lastSeen[q] # Unset}}
    [] rule.trigger = "window" -> {st.nextWindowEnd} \ {Unset}
    [] rule.trigger = "scheduled" -> {st.nextSchedule} \ {Unset}
    [] OTHER -> {}

ReminderDueTimes(st) ==
  IF EpisodeOpen(st) THEN {st.nextRepeat} \ {Unset} ELSE {}

DueTimes(rule, st) == TriggerDueTimes(rule, st) \cup ReminderDueTimes(st)
=============================================================================
