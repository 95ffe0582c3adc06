------------------------------ MODULE RuleTypes ------------------------------
(***************************************************************************)
(* The data the engine works on: sensor events, compiled rules, the state  *)
(* a rule keeps for one partition, and the alerts it emits.                *)
(*                                                                         *)
(* Event time is a natural number of ticks.  A time that the code keeps as *)
(* None is Unset; a duration that the code keeps as None is 0, a value     *)
(* parse_duration refuses for every duration but allowed_lateness, whose   *)
(* default is 0.                                                           *)
(***************************************************************************)
EXTENDS Integers, Sequences, FiniteSets

CONSTANTS
  Entities,      \* entity_id values
  Zones,         \* values of the attribute that a rule may partition by
  Sensors,       \* sensor_type values
  Values,        \* readings
  RuleIds,       \* rule_id values
  NoZone,        \* the event does not carry the attribute
  NoSensor,      \* no sensor type
  NoRule,        \* no rule of that id is loaded
  NoState        \* the partition holds no state for that rule

Unset == -1
Moment == Nat \cup {Unset}
AnyEntity == "*"

Triggers == {"event", "window", "absence", "composite", "sequence", "scheduled"}
Comparisons == {"eq", "ne", "gt", "gte", "lt", "lte"}

Event == [entity : Entities, zone : Zones \cup {NoZone}, sensor : Sensors,
          value : Values, ts : Nat]

Reading == [sensor : Sensors, value : Values, ts : Nat]

\* metric is "value" for the reading of one event, else the id of an aggregation.
Operand == [metric : STRING, comparison : Comparisons, value : Int]

Functions == {"count", "sum", "mean", "min", "max", "delta", "rate", "percentile"}
NoInput == ""

\* Over the readings of a window, or over the output of an earlier one; in
\* buckets of the length of subWindow if there is one.
Aggregation == [id : STRING, function : Functions, input : STRING,
                percentile : 0 .. 100, subWindow : Nat]

Rule == [trigger : Triggers,
         filter : Entities \cup {AnyEntity},
         sensors : Seq(Sensors),
         operator : {"AND", "OR"},
         operands : SUBSET Operand,
         aggregations : Seq(Aggregation),
         duration : Nat, slide : Nat, timeout : Nat, lookback : Nat, within : Nat,
         timeouts : [Sensors -> Nat],     \* per source, of a composite rule
         cron : Nat,                      \* offset of the fire time in a day
         steps : Seq(Sensors), without : Sensors \cup {NoSensor},
         lateness : Nat,
         cooldown : Nat, repeatEvery : Nat, resolve : BOOLEAN,
         partition : {"entity_id", "zone"}]

RuleSet == [RuleIds -> Rule \cup {NoRule}]

\* A partition of a rule is an entity, or a value of the attribute it is keyed by.
Partitions == Entities \cup Zones
NoPartition == NoZone

PartialMatch == [started : Nat, step : Nat]

\* closed holds the ends of the closed windows that are remembered, and held
\* those of them whose condition was satisfied.
RuleState == [buffer : Seq(Reading),
              lastSeen : [Sensors -> Moment],
              absenceFired : BOOLEAN,
              absent : SUBSET Sensors,
              compositeActive : BOOLEAN,
              nextWindowEnd : Moment,
              nextSchedule : Moment,
              lastSchedule : Moment,
              partial : SUBSET PartialMatch,
              closed : SUBSET Nat,
              held : SUBSET Nat,
              episodeStarted : Moment,
              lastEmit : Moment,
              nextRepeat : Moment]

EmptyState ==
  [buffer |-> << >>, lastSeen |-> [s \in Sensors |-> Unset],
   absenceFired |-> FALSE, absent |-> {}, compositeActive |-> FALSE,
   nextWindowEnd |-> Unset, nextSchedule |-> Unset, lastSchedule |-> Unset,
   partial |-> {}, closed |-> {}, held |-> {},
   episodeStarted |-> Unset, lastEmit |-> Unset, nextRepeat |-> Unset]

Labels == {"firing", "repeat", "resolved", "retracted"}

\* corr stands for the correlation id: the rule and the partition are known
\* from where the alert is kept, so the episode start is what is left of it.
Alert == [label : Labels, ts : Nat, corr : Moment]

-----------------------------------------------------------------------------
\* What a rule is asked about an event.

AppliesToEntity(rule, entity) == rule.filter \in {AnyEntity, entity}

SensorsOf(rule) == {rule.sensors[i] : i \in DOMAIN rule.sensors}

MatchesEvent(rule, ev) ==
  /\ AppliesToEntity(rule, ev.entity)
  /\ ev.sensor \in SensorsOf(rule)

PartitionKey(rule, ev) ==
  IF rule.partition = "entity_id" THEN ev.entity ELSE ev.zone

HasLifecycle(rule) == rule.cooldown > 0 \/ rule.repeatEvery > 0 \/ rule.resolve

\* What compilation has checked of a rule before an engine can hold it.
WellFormed(rule) ==
  /\ rule.sensors # << >>
  /\ rule.trigger = "window" => 0 < rule.slide /\ rule.slide <= rule.duration
  /\ rule.trigger # "window" => rule.duration = 0 /\ rule.slide = 0
  /\ rule.trigger = "absence" => rule.timeout > 0
  /\ rule.trigger = "composite" => \A s \in SensorsOf(rule) : rule.timeouts[s] > 0
  /\ rule.trigger # "scheduled" => rule.lookback = 0
  /\ rule.trigger = "sequence" =>
       /\ rule.within > 0
       /\ Len(rule.steps) >= 2
       /\ \A i \in DOMAIN rule.steps : rule.steps[i] \in SensorsOf(rule)
       /\ rule.without \in SensorsOf(rule) \cup {NoSensor}
  /\ rule.partition # "entity_id" => rule.filter = AnyEntity

\* What compilation does not check: an aggregation takes a series as its input,
\* made before it, and no operand compares one.  The evaluation of another rule
\* may raise whenever it is asked.  (An id that is used twice is left out.)
Computable(rule) ==
  LET aggs == rule.aggregations
  IN /\ \A i \in DOMAIN aggs :
          IF aggs[i].input = NoInput THEN TRUE
          ELSE /\ aggs[i].subWindow = 0
               /\ \E j \in 1 .. i - 1 : aggs[j].id = aggs[i].input /\ aggs[j].subWindow > 0
     /\ \A i, j \in DOMAIN aggs : aggs[i].id = aggs[j].id => i = j
     /\ \A i \in DOMAIN aggs, o \in rule.operands :
          aggs[i].id = o.metric => aggs[i].subWindow = 0

\* The structure that gives stored state its meaning.  Operands, aggregations,
\* the emit block and allowed_lateness are left out, and the sources are sorted.
Fingerprint(rule) ==
  <<rule.trigger, rule.filter, SensorsOf(rule), rule.duration, rule.slide,
    rule.timeout, rule.timeouts, rule.cron, rule.lookback, rule.within,
    rule.steps, rule.without, rule.partition>>

MaxOf(a, b) == IF a >= b THEN a ELSE b
=============================================================================
