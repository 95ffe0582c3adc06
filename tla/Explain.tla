------------------------------- MODULE Explain -------------------------------
(***************************************************************************)
(* explain(event): what every rule would do with an event, answered from   *)
(* the present state and without changing it.  The code answers on a path  *)
(* of its own beside the handlers of module Triggers.                      *)
(***************************************************************************)
EXTENDS EngineProperties

\* An answer; label is that of the alert it announces.
Answer(outcome) == [outcome |-> outcome, label |-> "none"]
WouldEmit(label) == [outcome |-> "would_emit", label |-> label]

-----------------------------------------------------------------------------
\* Mutant: the interval of reminders is not taken for a reason to suppress.
LifecycleOutcomeCooldown(rule, st, now) ==
  IF /\ HasLifecycle(rule) /\ EpisodeOpen(st)
     /\ now - LastEmission(st) < rule.cooldown
  THEN Answer("suppressed")
  ELSE WouldEmit(LifecycleLabel(rule, st))

LifecycleOutcome(rule, st, now) ==
  IF Withheld(rule, st, now) THEN Answer("suppressed")
  ELSE WouldEmit(LifecycleLabel(rule, st))

ExplainEvent(rule, st, ev) ==
  CASE ev.sensor \notin SensorsOf(rule) -> Answer("source_not_matched")
    [] ev.sensor \in SensorsOf(rule) /\ ~EvaluateOperands(rule, EventValues(ev)) ->
         Answer("condition_not_met")
    [] OTHER -> LifecycleOutcome(rule, st, ev.ts)

\* Mutant: an alarm that has been raised is announced again.
ExplainAbsenceAgain(rule, st, ev) ==
  LET seen == st.lastSeen[rule.sensors[1]]
  IN CASE seen = Unset -> Answer("timer_not_started")
       [] seen # Unset /\ ev.sensor \in SensorsOf(rule) -> Answer("timer_reset")
       [] /\ seen # Unset /\ ev.sensor \notin SensorsOf(rule)
          /\ ev.ts < seen + rule.timeout -> Answer("waiting")
       [] OTHER -> LifecycleOutcome(rule, st, ev.ts)

ExplainAbsence(rule, st, ev) ==
  LET seen == st.lastSeen[rule.sensors[1]]
      source == ev.sensor \in SensorsOf(rule)
      expired == ev.ts >= seen + rule.timeout
  IN CASE seen = Unset -> Answer("timer_not_started")
       [] seen # Unset /\ source -> Answer("timer_reset")
       [] seen # Unset /\ ~source /\ ~expired -> Answer("waiting")
       [] seen # Unset /\ ~source /\ expired /\ st.absenceFired -> Answer("already_fired")
       [] OTHER -> LifecycleOutcome(rule, st, ev.ts)

ExplainComposite(rule, st, now) ==
  CASE ~CompositeConditionActive(rule, st.absent) -> Answer("condition_not_met")
    [] CompositeConditionActive(rule, st.absent) /\ st.compositeActive ->
         Answer("already_fired")
    [] OTHER -> LifecycleOutcome(rule, st, now)

\* The window that ends with the event, as if one closed there.
ExplainWindow(rule, st, ev) ==
  LET inside == InWindow(rule, st.buffer, ev.ts - rule.duration, ev.ts)
      events == IF ev.sensor \in SensorsOf(rule)
                THEN InsertInOrder(inside, AsReading(ev)) ELSE inside
  IN IF EvaluateOperands(rule, WindowValues(rule, events, ev.ts - rule.duration, ev.ts))
     THEN LifecycleOutcome(rule, st, ev.ts)
     ELSE Answer("condition_not_met")

\* Mutant: a partial match that has expired is still counted.
ExplainSequenceExpired(rule, st, ev) ==
  CASE ev.sensor = rule.without -> Answer("cancelled")
    [] /\ ev.sensor # rule.without
       /\ ev.sensor \notin {rule.steps[m.step + 1] : m \in st.partial} \cup {rule.steps[1]} ->
         Answer("ignored")
    [] OTHER -> IF Completing(rule, st.partial, ev.sensor) = {} THEN Answer("advanced")
                ELSE LifecycleOutcome(rule, st, ev.ts)

\* The operands of the rule are not asked.
ExplainSequence(rule, st, ev) ==
  LET live == AliveMatches(rule, st, ev.ts)
      expected == {rule.steps[m.step + 1] : m \in live} \cup {rule.steps[1]}
  IN CASE ev.sensor = rule.without -> Answer("cancelled")
       [] ev.sensor # rule.without /\ ev.sensor \notin expected -> Answer("ignored")
       [] OTHER -> IF Completing(rule, live, ev.sensor) = {} THEN Answer("advanced")
                   ELSE LifecycleOutcome(rule, st, ev.ts)

ExplainRule(rule, st, ev) ==
  IF ~AppliesToEntity(rule, ev.entity) THEN Answer("entity_not_matched")
  ELSE CASE rule.trigger = "sequence" -> ExplainSequence(rule, st, ev)
         [] rule.trigger = "event" -> ExplainEvent(rule, st, ev)
         [] rule.trigger = "absence" -> ExplainAbsence(rule, st, ev)
         [] rule.trigger = "composite" -> ExplainComposite(rule, st, ev.ts)
         [] rule.trigger = "window" -> ExplainWindow(rule, st, ev)
         [] OTHER -> Answer("scheduled")

\* The answer for every rule that has one, in the partition of the event and
\* under the definition that governs it.  A partition without state is asked
\* as an empty one.
Explained(ev) ==
  {r \in RuleIds : rules[r] # NoRule /\ PartitionKey(rules[r], ev) # NoPartition}

ExplainFor(ev, r) ==
  LET p == PartitionKey(rules[r], ev)
      st == states[p][r]
  IN ExplainRule(RuleFor(rules, draining, p, r), IF st = NoState THEN EmptyState ELSE st, ev)

-----------------------------------------------------------------------------
\* What became of an event, and of the answer given for it.

\* The event of the call in progress is handed to the rules explained.
HandsOver ==
  /\ call.stage = "timers" /\ call'.stage = "idle" /\ call.event # NoEvent
  /\ pending' = pending

\* The alerts the step adds to what the call has emitted before it.
NewAlerts(p, r) ==
  SubSeq(out'[p][r], Len(out[p][r]) + 1, Len(out'[p][r]))

\* The absence timer that is left runs until due, or there is none.
TimerLeft(rule, st, due) == TriggerDueTimes(rule, st) = due

AnswerKept(answer, rule, seen, ev, after, emitted, withheld) ==
  /\ \A label \in {"firing", "repeat"} :
       answer = WouldEmit(label) <=> \E a \in emitted : a.label = label
  /\ answer.outcome = "suppressed" <=> withheld
  /\ rule.trigger = "absence" =>
       /\ answer.outcome = "waiting" => TimerLeft(rule, after, {seen + rule.timeout})
       /\ answer.outcome = "timer_reset" => TimerLeft(rule, after, {ev.ts + rule.timeout})
       /\ answer.outcome = "already_fired" => TimerLeft(rule, after, {})

(* Once the timers due before an event have fired, explain() tells what     *)
(* process_event does with it: which rules emit and under which label,      *)
(* which are suppressed and which stay silent, and how long an absence      *)
(* timer keeps running.  Windows are answered by a preview                  *)
(* (PreviewExact), and the answer for a sequence leaves out its operands.   *)
ExplainAgrees ==
  [][HandsOver =>
       \A r \in Explained(call.event) :
         LET p == PartitionKey(rules[r], call.event)
             rule == RuleFor(rules, draining, p, r)
             was == states[p][r]
             seen == IF was = NoState \/ rule.trigger # "absence" THEN Unset
                     ELSE was.lastSeen[rule.sensors[1]]
             emitted == {NewAlerts(p, r)[i] : i \in DOMAIN NewAlerts(p, r)}
         IN /\ rule.trigger # "window"
            /\ rule.trigger = "sequence" => rule.operands = {}
            => AnswerKept(ExplainFor(call.event, r), rule, seen, call.event,
                          states'[p][r], emitted, suppressed'[r] > suppressed[r])]_vars
=============================================================================
