------------------------------ MODULE RuleSets -------------------------------
(***************************************************************************)
(* The rules and the events the instances for TLC are made of.             *)
(***************************************************************************)
EXTENDS RuleTypes

\* The fields a rule does not use, as compilation leaves them.
BaseRule ==
  [trigger |-> "event", filter |-> AnyEntity, sensors |-> <<"a">>,
   operator |-> "AND",
   operands |-> {[metric |-> "value", comparison |-> "gt", value |-> 0]},
   aggregations |-> << >>,
   duration |-> 0, slide |-> 0, timeout |-> 0, lookback |-> 0, within |-> 0,
   timeouts |-> [s \in Sensors |-> 0], cron |-> 0, steps |-> << >>,
   without |-> NoSensor, lateness |-> 0, cooldown |-> 0, repeatEvery |-> 0,
   resolve |-> FALSE, partition |-> "entity_id"]

Operands(metric, comparison, n) ==
  {[metric |-> metric, comparison |-> comparison, value |-> n]}

\* An aggregation of the readings, named like its function.
Aggregated(function) ==
  [id |-> function, function |-> function, input |-> NoInput, percentile |-> 50,
   subWindow |-> 0]

\* The largest number of readings in a bucket of one instant.
PeakCount ==
  <<[Aggregated("count") EXCEPT !.subWindow = 1],
    [Aggregated("max") EXCEPT !.id = "peak", !.input = "count"]>>

EventsAt(times) ==
  [entity : Entities, zone : {NoZone}, sensor : Sensors, value : Values, ts : times]

ZonedEventsAt(times) ==
  [entity : Entities, zone : Zones \cup {NoZone}, sensor : Sensors,
   value : Values, ts : times]

\* A heartbeat rule that resolves and reminds.
AbsenceRule ==
  [BaseRule EXCEPT !.trigger = "absence", !.operands = {}, !.timeout = 3,
                   !.repeatEvery = 2, !.cooldown = 1, !.resolve = TRUE]

AbsenceRules == [r \in RuleIds |-> AbsenceRule]

\* Twice a, then b, with c cancelling.
SequenceRule ==
  [BaseRule EXCEPT !.trigger = "sequence", !.operands = {},
                   !.sensors = <<"a", "b", "c">>, !.steps = <<"a", "a", "b">>,
                   !.without = "c", !.within = 3]

\* With an AND and an OR rule over two sources, named by their operator, and a
\* sequence rule over three.
SilenceRules ==
  [r \in RuleIds |->
     CASE r = "gap" -> AbsenceRule
       [] r = "steps" -> SequenceRule
       [] OTHER ->
            [BaseRule EXCEPT !.trigger = "composite", !.operands = {}, !.operator = r,
                             !.sensors = <<"a", "b">>, !.resolve = TRUE,
                             !.timeouts = [s \in Sensors |-> IF s = "a" THEN 2 ELSE 3]]]

\* A tolerant rule with a cooldown, one for a single entity that repeats, one
\* whose reminders come sooner than its cooldown ends, one without an emit
\* block, and a window whose verdict a late event may retract.
EventRules ==
  [r \in RuleIds |->
     CASE r = "spike" ->
            [BaseRule EXCEPT !.lateness = 1, !.cooldown = 2, !.resolve = TRUE]
       [] r = "nag" ->
            [BaseRule EXCEPT !.filter = "e1", !.repeatEvery = 2, !.resolve = TRUE]
       [] r = "eager" ->
            [BaseRule EXCEPT !.filter = "e1", !.cooldown = 3, !.repeatEvery = 2]
       [] r = "plain" -> [BaseRule EXCEPT !.lateness = 2]
       [] r = "flat" ->
            [BaseRule EXCEPT !.trigger = "window", !.duration = 2, !.slide = 2,
                             !.operands = Operands("delta", "lte", 0),
                             !.aggregations = <<Aggregated("delta")>>,
                             !.lateness = 2, !.cooldown = 1, !.resolve = TRUE]]

\* A hopping window, a tumbling one that reminds, and two scheduled rules: one
\* that looks for a burst in its lookback, and one for the median since its
\* previous run.
WindowRules ==
  [r \in RuleIds |->
     CASE r = "hop" ->
            [BaseRule EXCEPT !.trigger = "window", !.duration = 4, !.slide = 2,
                             !.operands = Operands("count", "gte", 2),
                             !.aggregations = <<Aggregated("count")>>,
                             !.resolve = TRUE, !.lateness = 1]
       [] r = "tumble" ->
            [BaseRule EXCEPT !.trigger = "window", !.duration = 3, !.slide = 3,
                             !.operands = Operands("delta", "lte", 0),
                             !.aggregations = <<Aggregated("delta")>>,
                             !.lateness = 3, !.resolve = TRUE, !.repeatEvery = 2]
       [] r = "recent" ->
            [BaseRule EXCEPT !.trigger = "scheduled", !.cron = 1, !.lookback = 2,
                             !.operands = Operands("peak", "gte", 2),
                             !.aggregations = PeakCount,
                             !.resolve = TRUE, !.lateness = 1]
       [] r = "since" ->
            [BaseRule EXCEPT !.trigger = "scheduled", !.cron = 2,
                             !.operands = Operands("percentile", "gt", 0),
                             !.aggregations = <<Aggregated("percentile")>>,
                             !.cooldown = 5]]

-----------------------------------------------------------------------------
\* Reloads

EventRule == [BaseRule EXCEPT !.resolve = TRUE, !.repeatEvery = 2]

Everywhere(rule) == [r \in RuleIds |-> rule]

ResolvingRules == Everywhere([BaseRule EXCEPT !.resolve = TRUE])
RepeatingRules == Everywhere(EventRule)
\* A window rule, and what it becomes: the same structure with another
\* threshold, or other windows.
HopRules == Everywhere([WindowRules["hop"] EXCEPT !.repeatEvery = 3])
LowerHop == Everywhere([HopRules["hop"] EXCEPT !.operands = Operands("count", "gte", 1)])
WiderHop == Everywhere([HopRules["hop"] EXCEPT !.slide = 3])
NoRules == Everywhere(NoRule)

\* A rule partitioned by an attribute, one with a higher threshold and one
\* that is partitioned by entity again.
ZoneRules == Everywhere([BaseRule EXCEPT !.resolve = TRUE, !.repeatEvery = 2,
                                         !.partition = "zone"])
StricterZone == Everywhere([ZoneRules["spike"] EXCEPT !.operands = Operands("value", "gt", 1)])
PerEntity == Everywhere([ZoneRules["spike"] EXCEPT !.partition = "entity_id"])

-----------------------------------------------------------------------------
\* Rules on which a claim of the documentation fails.

LateReminderRules == Everywhere([BaseRule EXCEPT !.lateness = 2, !.repeatEvery = 1])
CountingRules ==
  Everywhere([WindowRules["hop"] EXCEPT !.duration = 2, !.lateness = 3])
=============================================================================
