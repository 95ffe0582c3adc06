-------------------------- MODULE EngineProperties ---------------------------
(***************************************************************************)
(* What the engine promises.  Invariants about timers and conditions are   *)
(* stated between calls, where a caller can see the engine.                *)
(***************************************************************************)
EXTENDS Engine

TypeOK ==
  /\ watermark \in Moment
  /\ floor \in Moment
  /\ entityWm \in [Entities -> Moment]
  /\ rules \in RuleSet
  /\ states \in [Partitions -> [RuleIds -> RuleState \cup {NoState}]]
  /\ known \in SUBSET Partitions
  /\ draining \in [RuleIds -> Drain]
  /\ pending \in Staged \cup {NoReload}
  /\ late \in [total : Nat, accepted : Nat, dropped : Nat, rejected : Nat]
  /\ lateBy \in [RuleIds -> [accepted : Nat, dropped : Nat]]
  /\ suppressed \in [RuleIds -> Nat]
  /\ call \in Call
  /\ out \in [Partitions -> [RuleIds -> Seq(Alert)]]
  /\ served \in Nat

IsIdle == call.stage = "idle"

LiveOf(trigger) == {q \in Live : Governing(q).trigger = trigger}

-----------------------------------------------------------------------------
\* The clock

(* No entity, and no explicit advance, is ahead of the clock between calls: *)
(* lateness (process_event, _entity_reference) is judged against progress   *)
(* the timers have already been run up to.                                  *)
ProgressWithinClock ==
  IsIdle => /\ floor <= watermark
            /\ \A e \in Entities : entityWm[e] <= watermark

(* The clock never moves backward (docs/rule-language.md, Late Events).     *)
ClockNeverRewinds == [][watermark' >= watermark]_vars

(* Between calls every pending timer is in the future: none was skipped by  *)
(* the loop of _advance_timers_to or armed at an instant already passed.    *)
NoOverdueTimer ==
  IsIdle => \A due \in AllDueTimes : due > watermark

(* A call that moves the clock returns: the loop of _advance_timers_to ends *)
(* because firing the timers of an instant always disarms or moves them.    *)
CallsReturn == ~IsIdle ~> IsIdle

-----------------------------------------------------------------------------
\* Late events

(* Every late event is accepted, dropped or rejected, exactly one of them,  *)
(* and no rule counts an event the engine has not counted.                  *)
LateAccounting ==
  /\ late.total = late.accepted + late.dropped + late.rejected
  /\ \A r \in RuleIds :
       /\ lateBy[r].accepted <= late.accepted
       /\ lateBy[r].accepted + lateBy[r].dropped <= late.accepted + late.dropped

(* An event that is counted as dropped or rejected leaves no trace in any   *)
(* rule and emits nothing (_handle_late_event).                             *)
DroppedLeavesNoTrace ==
  [][late'.dropped + late'.rejected > late.dropped + late.rejected
       => /\ out' = Quiet
          /\ UNCHANGED <<states, entityWm, watermark, suppressed>>]_vars

-----------------------------------------------------------------------------
\* Timers and conditions

(* An absence rule that resolves has an episode open exactly while its      *)
(* source has been silent for the timeout: the alert fires when the         *)
(* deadline passes (_fire_due_timers), not before, and closes when the      *)
(* source reports (process_event).                                          *)
AbsenceTracksSilence ==
  IsIdle => \A q \in LiveOf("absence") :
    LET rule == Governing(q)
        st == states[q[1]][q[2]]
        seen == st.lastSeen[rule.sensors[1]]
        silent == seen # Unset /\ watermark >= seen + rule.timeout
    IN /\ st.absenceFired <=> silent
       /\ rule.resolve => (EpisodeOpen(st) <=> silent)

(* A composite rule knows exactly which of its sources are silent, and its  *)
(* episode is open exactly while its condition over them holds.             *)
CompositeTracksSources ==
  IsIdle => \A q \in LiveOf("composite") :
    LET rule == Governing(q)
        st == states[q[1]][q[2]]
        silent == {s \in SensorsOf(rule) : /\ st.lastSeen[s] # Unset
                                           /\ watermark >= st.lastSeen[s] + rule.timeouts[s]}
        active == IF rule.operator = "OR" THEN silent # {}
                  ELSE SensorsOf(rule) \subseteq silent
    IN /\ st.absent = silent
       /\ st.compositeActive <=> active
       /\ rule.resolve => (EpisodeOpen(st) <=> active)

(* A window rule that has seen an event always waits for the first multiple *)
(* of its slide after the clock, so windows close one slide apart, none is  *)
(* skipped and none closes twice (_align_window_end, _fire_due_timers).     *)
WindowTimerTracksClock ==
  IsIdle => \A q \in LiveOf("window") :
    LET next == states[q[1]][q[2]].nextWindowEnd
        slide == Governing(q).slide
    IN next # Unset => /\ next % slide = 0
                       /\ next - slide <= watermark /\ watermark < next

(* A scheduled rule always waits for the first cron time after the clock.   *)
ScheduleTracksClock ==
  IsIdle => \A q \in LiveOf("scheduled") :
    LET next == states[q[1]][q[2]].nextSchedule
    IN /\ next % Day = Governing(q).cron
       /\ next - Day <= watermark /\ watermark < next

(* The buffer is in time order, also after late events were folded in:      *)
(* delta reads its first and its last value (_insert_event_in_order).       *)
BufferInOrder ==
  \A q \in Live : LET buffer == states[q[1]][q[2]].buffer
                  IN \A i, j \in DOMAIN buffer : i < j => buffer[i].ts <= buffer[j].ts

\* The windows that end with a reading, by their start and end.
Asked(q) ==
  {<<ts - Governing(q).duration, ts>> : ts \in {states[q[1]][q[2]].buffer[i].ts :
                                             i \in DOMAIN states[q[1]][q[2]].buffer}}

(* Sub-windows lose no reading of a window: all are in a bucket, and only a *)
(* reading on the bound between two buckets is in both (_chunk_values).     *)
BucketsCover ==
  IsIdle => \A q \in LiveOf("window") :
    \A span \in Asked(q), step \in 1 .. Governing(q).duration :
    LET readings == InWindow(Governing(q), states[q[1]][q[2]].buffer, span[1], span[2])
        shared == {i \in DOMAIN readings : /\ span[1] < readings[i].ts
                                          /\ readings[i].ts < span[2]
                                          /\ (readings[i].ts - span[1]) % step = 0}
        buckets == Buckets(readings, span[1], span[2], step)
    IN Cardinality(UNION {{k} \X DOMAIN buckets[k] : k \in DOMAIN buckets})
         = Len(readings) + Cardinality(shared)

(* A percentile has the share of the values below it that it names, and the *)
(* rest above it, also where the rank falls between two values or on the    *)
(* last one (_percentile).                                                  *)
PercentileRanked ==
  IsIdle => \A q \in LiveOf("window"), percentile \in {30, 50, 95} :
    LET values == ValuesOf(states[q[1]][q[2]].buffer)
        rank == percentile * (Len(values) - 1)
        x == Percentile(values, percentile)
    IN values # << >> =>
         /\ 100 * Cardinality({i \in DOMAIN values : ~AtMost(x, values[i])}) < rank + 100
         /\ 100 * Cardinality({i \in DOMAIN values : ~AtMost(values[i], x)})
              < 100 * Len(values) - rank

-----------------------------------------------------------------------------
\* Episodes

(* An episode is open, has a last emission and, if its rule repeats, a      *)
(* reminder one interval after that emission, all at once or not at all.    *)
EpisodeComplete ==
  \A q \in Live :
    LET rule == Governing(q)
        st == states[q[1]][q[2]]
    IN /\ EpisodeOpen(st) <=> st.lastEmit # Unset
       /\ st.nextRepeat # Unset
            <=> EpisodeOpen(st) /\ rule.repeatEvery > 0
       /\ st.nextRepeat # Unset => st.nextRepeat = st.lastEmit + rule.repeatEvery

(* Two emissions of one episode are at least repeat_every apart, and at     *)
(* least cooldown unless the later one is the reminder that was pending,    *)
(* which the timer sends whatever the cooldown (_lifecycle_decision,        *)
(* _fire_due_timers).                                                       *)
EmissionsSpaced ==
  [][\A p \in Partitions, r \in RuleIds :
       (states[p][r] # NoState /\ states'[p][r] # NoState) =>
       LET was == states[p][r]
           is == states'[p][r]
       IN (/\ EpisodeOpen(was) /\ is.episodeStarted = was.episodeStarted
           /\ is.lastEmit # was.lastEmit)
          => LET rule == RuleFor(rules, draining, p, r)
                 apart == is.lastEmit - was.lastEmit
             IN /\ rule.repeatEvery > 0 => apart >= rule.repeatEvery
                /\ rule.cooldown > 0 =>
                     apart >= rule.cooldown \/ is.lastEmit = was.nextRepeat]_vars

-----------------------------------------------------------------------------
\* Reloads

(* Closing an episode is announced: the episode of a rule that resolves     *)
(* ends with an alert that says so and carries its correlation id, also     *)
(* across a drain, at once or staged, where the previous definition closes  *)
(* what it opened (_apply_reload, _rule_for, _finish_drain).                *)
EpisodesEndAnnounced ==
  [][\A q \in Live :
       LET was == states[q[1]][q[2]]
           is == states'[q[1]][q[2]]
           ended == is = NoState \/ is.episodeStarted # was.episodeStarted
       IN (Governing(q).resolve /\ EpisodeOpen(was) /\ ended) =>
            \E i \in DOMAIN out'[q[1]][q[2]] :
              /\ out'[q[1]][q[2]][i].label = "resolved"
              /\ out'[q[1]][q[2]][i].corr = was.episodeStarted]_vars

(* A partition drains only while its episode is open: it goes over to the   *)
(* new definition with the alert that closes the episode, not before and    *)
(* not later (docs/embedding-examples.md, Draining).                        *)
DrainsEndWithEpisodes ==
  \A r \in RuleIds :
    /\ \A p \in draining[r].parts :
         states[p][r] # NoState /\ EpisodeOpen(states[p][r])
    /\ draining[r].rule = NoRule <=> draining[r].parts = {}
=============================================================================
