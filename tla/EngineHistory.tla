---------------------------- MODULE EngineHistory ----------------------------
(***************************************************************************)
(* The engine with a history: the events each rule was handed in each      *)
(* partition.  It says what a window should have seen and which sequences  *)
(* were really there.  The rules do not change.                            *)
(***************************************************************************)
EXTENDS Explain

VARIABLE log     \* the events handed to every rule, in the order they were

histVars == <<vars, log>>

\* trail ends with an event that completes the pattern of rule: its steps
\* occur in order, from an event no more than within before the last one.
Completes(rule, trail) ==
  LET n == Len(rule.steps)
      last == Len(trail)
  IN /\ last > 0
     /\ \E at \in [1 .. n -> 1 .. last] :
          /\ \A i, j \in 1 .. n : i < j => at[i] < at[j]
          /\ \A i \in 1 .. n : trail[at[i]].sensor = rule.steps[i]
          /\ at[n] = last
          /\ trail[last].ts - trail[at[1]].ts <= rule.within

\* A cancelled or a completed pattern is forgotten, everything else is kept.
Extended(rule, trail, ev) ==
  IF /\ rule.trigger = "sequence"
     /\ ev.sensor = rule.without \/ Completes(rule, Append(trail, ev))
  THEN << >> ELSE Append(trail, ev)

Record(ev, In(_)) ==
  log' = [p \in Partitions |-> [r \in RuleIds |->
            IF p \in In(r) THEN Extended(rules[r], log[p][r], ev) ELSE log[p][r]]]

HistInit == Init /\ log = Quiet

HistNext ==
  \/ \E ev \in Offered :
       \/ FirstEvent(ev) /\ Record(ev, LAMBDA r : SeenIn(rules[r], ev))
       \/ FoldLate(ev) /\ Record(ev, LAMBDA r : FoldedIn(ev, r))
       \/ (RefuseLate(ev) \/ AcceptEvent(ev)) /\ UNCHANGED log
  \/ \E t \in 0 .. MaxTime : (FirstAdvance(t) \/ AdvanceTo(t)) /\ UNCHANGED log
  \/ FireDue /\ UNCHANGED log
  \/ Settle /\ IF call.event = NoEvent THEN UNCHANGED log
               ELSE Record(call.event, LAMBDA r : SeenIn(rules[r], call.event))
  \/ (\E x \in call.reopen : Recompute(x)) /\ UNCHANGED log

HistSpec == HistInit /\ [][HistNext]_histVars
HistFairSpec == HistSpec /\ Fairness

-----------------------------------------------------------------------------
Occurrences(readings, x) == Cardinality({i \in DOMAIN readings : readings[i] = x})

\* The buffer holds every logged event of the span, as often as it came.
Covers(buffer, trail, start) ==
  \A i \in DOMAIN trail :
    LET x == AsReading(trail[i])
    IN x.ts >= start =>
         Occurrences(buffer, x) = Occurrences([j \in DOMAIN trail |-> AsReading(trail[j])], x)

(* What the next window or the next scheduled evaluation will look at is    *)
(* all there: pruning (_prune_buffer), done at the time of each event,      *)
(* never drops an event that a window still open can reach, and no late     *)
(* event that was tolerated is missing from it.                             *)
OpenSpanBuffered ==
  \A q \in Live :
    LET rule == rules[q[2]]
        st == states[q[1]][q[2]]
        trail == log[q[1]][q[2]]
    IN /\ rule.trigger = "window" /\ st.nextWindowEnd # Unset =>
            Covers(st.buffer, trail, st.nextWindowEnd - rule.duration)
       /\ rule.trigger = "scheduled" =>
            Covers(st.buffer, trail,
                   IF rule.lookback > 0 THEN st.nextSchedule - rule.lookback
                   ELSE MaxOf(st.lastSchedule, 0))

\* The i-th event of a trail comes before the j-th, or is it: it is earlier, or
\* of the same instant and came first.
NotAfter(trail, i, j) ==
  \/ trail[i].ts < trail[j].ts
  \/ trail[i].ts = trail[j].ts /\ i <= j

\* What a trail holds at the places chosen, in time order.
InTimeOrder(trail, places) ==
  [k \in 1 .. Cardinality(places) |->
     AsReading(trail[CHOOSE j \in places :
                       Cardinality({i \in places : NotAfter(trail, i, j)}) = k])]

\* The events of a trail that belong to the window that ends at end.
OfWindow(rule, trail, end) ==
  {i \in DOMAIN trail : /\ end - rule.duration <= trail[i].ts /\ trail[i].ts <= end
                        /\ trail[i].sensor \in SensorsOf(rule)}

\* The verdict over every event the rule was handed for the window.
TrueVerdict(rule, trail, end) ==
  EvaluateOperands(rule,
    WindowValues(rule, InTimeOrder(trail, OfWindow(rule, trail, end)),
                 end - rule.duration, end))

(* Once recomputation is done, the verdict remembered for a window that     *)
(* closed after the last in-order event of its entity is the verdict over   *)
(* every event the rule was handed for it, late ones included, in time      *)
(* order (_record_closed_window, _recompute_closed_windows).                *)
ClosedVerdictsRight ==
  IsIdle => \A q \in LiveOf("window") : \A end \in states[q[1]][q[2]].closed :
    end > entityWm[q[1]] =>
      (end \in states[q[1]][q[2]].held
         <=> TrueVerdict(rules[q[2]], log[q[1]][q[2]], end))

(* A sequence rule emits on an event exactly when that event completes the  *)
(* pattern since the last match or cancellation: no match is missed, none   *)
(* is made up, none spans a without event or more than within               *)
(* (_advance_sequence).                                                     *)
SequenceExact ==
  [][(call.stage = "timers" /\ call'.stage = "idle" /\ call.event # NoEvent) =>
       \A r \in RuleIds : \A p \in SeenIn(rules[r], call.event) :
         rules[r].trigger = "sequence" =>
           (out'[p][r] # << >> <=>
              /\ call.event.sensor # rules[r].without
              /\ Completes(rules[r], Append(log[p][r], call.event)))]_histVars

(* The preview explain() gives of a window is the verdict over every event  *)
(* the rule was handed in the span that ends with the event, this one       *)
(* included: neither pruning nor folding takes anything from it             *)
(* (_explain_rule, _prune_buffer).                                          *)
PreviewExact ==
  [][HandsOver =>
       \A r \in Explained(call.event) :
         LET p == PartitionKey(rules[r], call.event)
             ev == call.event
         IN rules[r].trigger = "window" /\ AppliesToEntity(rules[r], ev.entity) =>
              (ExplainFor(ev, r).outcome # "condition_not_met"
                 <=> TrueVerdict(rules[r], Append(log[p][r], ev), ev.ts))]_histVars

-----------------------------------------------------------------------------
\* A claim of the documentation that the code does not keep; see EngineClaims.

(* A verdict remembered for a window that a late event may still reach is   *)
(* the verdict over everything the rule was handed for it, so an event that *)
(* changes nothing stays silent (docs/rule-language.md).                    *)
RevisionsJustified ==
  IsIdle => \A q \in LiveOf("window") : \A end \in states[q[1]][q[2]].closed :
    (\A i \in DOMAIN log[q[1]][q[2]] : log[q[1]][q[2]][i].ts # end) =>
      (end \in states[q[1]][q[2]].held
         <=> TrueVerdict(rules[q[2]], log[q[1]][q[2]], end))
=============================================================================
