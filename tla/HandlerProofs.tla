---------------------------- MODULE HandlerProofs ----------------------------
(***************************************************************************)
(* What the handlers of modules Episodes and Triggers return: given the    *)
(* state of a rule, a state of a rule, and alerts.                         *)
(***************************************************************************)
EXTENDS Reloading, SequenceTheorems, FiniteSetTheorems, TLAPS

\* A rule an engine may hold.
Compiled(rule) == rule \in Rule /\ WellFormed(rule)

LEMMA MaxOfNat ==
  ASSUME NEW a \in Nat, NEW b \in Nat
  PROVE  MaxOf(a, b) \in Nat
BY DEF MaxOf

LEMMA MomentIsInt == Moment \subseteq Int /\ \A t \in Moment : t # Unset => t \in Nat
BY DEF Moment, Unset

LEMMA EmptyStateType == EmptyState \in RuleState
BY EmptySeq DEF EmptyState, RuleState, Moment, Unset

LEMMA SilentType ==
  ASSUME NEW st \in RuleState
  PROVE  Silent(st) \in Outcome /\ Silent(st).state = st
BY EmptySeq DEF Silent, Outcome

LEMMA ThenType ==
  ASSUME NEW first \in Outcome, NEW second \in Outcome
  PROVE  Then(first, second) \in Outcome
<1>1. first.alerts \o second.alerts \in Seq(Alert)
  BY ConcatProperties DEF Outcome
<1> QED BY <1>1 DEF Then, Outcome

-----------------------------------------------------------------------------
\* Episodes

LEMMA EmittingType ==
  ASSUME NEW rule \in Rule, NEW st \in RuleState, NEW label \in Labels, NEW ts \in Nat
  PROVE  Emitting(rule, st, label, ts) \in Outcome
<1>1. BuildAlert(rule, st, label, ts) \in Alert
  BY DEF BuildAlert, Alert, RuleState, Moment
<1>2. <<BuildAlert(rule, st, label, ts)>> \in Seq(Alert)
  BY <1>1
<1> QED BY <1>2, SilentType DEF Emitting, Outcome

LEMMA NoteEmissionType ==
  ASSUME NEW rule \in Rule, NEW st \in RuleState, NEW now \in Nat
  PROVE  NoteEmission(rule, st, now) \in RuleState
<1>1. /\ now \in Moment /\ rule.repeatEvery \in Nat
      /\ now + rule.repeatEvery \in Moment
  BY DEF Moment, Rule
<1>2. /\ (IF EpisodeOpen(st) THEN st.episodeStarted ELSE now) \in Moment
      /\ (IF rule.repeatEvery > 0 THEN now + rule.repeatEvery ELSE st.nextRepeat) \in Moment
  BY <1>1 DEF RuleState
<1> QED BY <1>1, <1>2 DEF NoteEmission, RuleState

LEMMA EmitEpisodeType ==
  ASSUME NEW rule \in Rule, NEW st \in RuleState, NEW now \in Nat
  PROVE  EmitEpisode(rule, st, now) \in Outcome
<1>1. LifecycleLabel(rule, st) \in Labels
  BY DEF LifecycleLabel, Labels
<1>2. Emitting(rule, NoteEmission(rule, st, now), LifecycleLabel(rule, st), now) \in Outcome
  BY <1>1, NoteEmissionType, EmittingType
<1>3. [Silent(st) EXCEPT !.suppressed = TRUE] \in Outcome
  BY SilentType DEF Outcome
<1> QED BY <1>2, <1>3 DEF EmitEpisode

LEMMA CloseEpisodeType ==
  ASSUME NEW st \in RuleState
  PROVE  CloseEpisode(st) \in RuleState
BY DEF CloseEpisode, RuleState, Moment, Unset

LEMMA ResolveEpisodeType ==
  ASSUME NEW rule \in Rule, NEW st \in RuleState, NEW now \in Nat
  PROVE  ResolveEpisode(rule, st, now) \in Outcome
<1>1. Emitting(rule, st, "resolved", now) \in Outcome
  BY EmittingType DEF Labels
<1>2. [Emitting(rule, st, "resolved", now) EXCEPT !.state = CloseEpisode(st),
                                                  !.resolved = TRUE] \in Outcome
  BY <1>1, CloseEpisodeType DEF Outcome
<1> QED BY <1>2, SilentType DEF ResolveEpisode

LEMMA RemindType ==
  ASSUME NEW rule \in Rule, NEW st \in RuleState, NEW now \in Nat
  PROVE  Remind(rule, st, now) \in Outcome /\ Remind(rule, st, now).state \in RuleState
<1>1. now \in Moment /\ now + rule.repeatEvery \in Moment
  BY SMTT(30) DEF Moment, Rule
<1>2. [st EXCEPT !.lastEmit = now, !.nextRepeat = now + rule.repeatEvery] \in RuleState
  BY <1>1 DEF RuleState
<1>3. Remind(rule, st, now) \in Outcome
  BY <1>2, EmittingType, SilentType DEF Remind, Labels
<1> QED BY <1>3 DEF Outcome

-----------------------------------------------------------------------------
\* Times and buffers

LEMMA AlignWindowEndType ==
  ASSUME NEW ts \in Nat, NEW slide \in Nat, slide > 0
  PROVE  AlignWindowEnd(ts, slide) \in Nat
BY DEF AlignWindowEnd

LEMMA NextCronFireType ==
  ASSUME NEW after \in Nat, NEW cron \in Nat
  PROVE  NextCronFire(after, cron) \in Nat
BY DayAssumption DEF NextCronFire

LEMMA FreshStateType ==
  ASSUME NEW rule \in Rule, NEW now \in Nat
  PROVE  FreshState(rule, now) \in RuleState
<1>1. NextCronFire(now, rule.cron) \in Moment
  BY NextCronFireType DEF Rule, Moment
<1> QED BY <1>1, EmptyStateType DEF FreshState, RuleState

LEMMA CountType ==
  ASSUME NEW buffer \in Seq(Reading), NEW ts
  PROVE  /\ CountBefore(buffer, ts) \in 0 .. Len(buffer)
         /\ CountUpTo(buffer, ts) \in 0 .. Len(buffer)
<1> DEFINE D == DOMAIN buffer
<1>1. D = 1 .. Len(buffer) /\ Len(buffer) \in Nat
  BY LenProperties
<1>2. IsFiniteSet(D) /\ Cardinality(D) = Len(buffer)
  <2>1. /\ IsFiniteSet(1 .. Len(buffer))
        /\ Cardinality(1 .. Len(buffer))
             = IF 1 > Len(buffer) THEN 0 ELSE Len(buffer) - 1 + 1
    BY <1>1, FS_Interval
  <2> QED BY <1>1, <2>1
<1> HIDE DEF D
<1>3. ASSUME NEW S \in SUBSET D
      PROVE  Cardinality(S) \in 0 .. Len(buffer)
  <2>1. IsFiniteSet(S) /\ Cardinality(S) <= Cardinality(D)
    BY <1>2, FS_Subset
  <2>2. Cardinality(S) \in Nat
    BY <2>1, FS_CardinalityType
  <2> QED BY <1>1, <1>2, <2>1, <2>2
<1>4. /\ {i \in DOMAIN buffer : buffer[i].ts < ts} \in SUBSET D
      /\ {i \in DOMAIN buffer : buffer[i].ts <= ts} \in SUBSET D
  BY DEF D
<1> QED BY <1>3, <1>4 DEF CountBefore, CountUpTo

LEMMA DropBeforeType ==
  ASSUME NEW buffer \in Seq(Reading), NEW cutoff
  PROVE  DropBefore(buffer, cutoff) \in Seq(Reading)
<1> DEFINE k == CountBefore(buffer, cutoff)
<1>1. k \in 0 .. Len(buffer) /\ Len(buffer) \in Nat
  BY CountType, LenProperties
<1>2. \A i \in k + 1 .. Len(buffer) : buffer[i] \in Reading
  BY <1>1, LenProperties
<1>3. k + 1 \in Int /\ Len(buffer) \in Int
  BY <1>1
<1> HIDE DEF k
<1>4. SubSeq(buffer, k + 1, Len(buffer)) \in Seq(Reading)
  BY <1>2, <1>3, SubSeqProperties
<1> QED BY <1>4 DEF DropBefore, k

LEMMA InsertInOrderType ==
  ASSUME NEW buffer \in Seq(Reading), NEW reading \in Reading
  PROVE  InsertInOrder(buffer, reading) \in Seq(Reading)
<1> DEFINE k == CountUpTo(buffer, reading.ts)
<1>1. k \in 0 .. Len(buffer) /\ Len(buffer) \in Nat
  BY CountType, LenProperties
<1>2. \A i \in 1 .. Len(buffer) : buffer[i] \in Reading
  BY LenProperties
<1>3. /\ \A i \in 1 .. k : buffer[i] \in Reading
      /\ \A i \in k + 1 .. Len(buffer) : buffer[i] \in Reading
      /\ k \in Int /\ k + 1 \in Int /\ Len(buffer) \in Int
  BY <1>1, <1>2
<1> HIDE DEF k
<1>4. SubSeq(buffer, 1, k) \in Seq(Reading)
  BY <1>3, SubSeqProperties
<1>5. SubSeq(buffer, k + 1, Len(buffer)) \in Seq(Reading)
  BY <1>3, SubSeqProperties
<1>6. SubSeq(buffer, 1, k) \o <<reading>> \in Seq(Reading)
  BY <1>4, ConcatProperties
<1>7. SubSeq(buffer, 1, k) \o <<reading>> \o SubSeq(buffer, k + 1, Len(buffer))
        \in Seq(Reading)
  BY <1>5, <1>6, ConcatProperties
<1> QED BY <1>7 DEF InsertInOrder, k

LEMMA AsReadingType ==
  ASSUME NEW ev \in Event
  PROVE  AsReading(ev) \in Reading
BY DEF AsReading, Event, Reading

LEMMA PruneType ==
  ASSUME NEW rule, Compiled(rule), NEW st \in RuleState, NEW now \in Nat
  PROVE  Prune(rule, st, now) \in RuleState
<1>1. DropBefore(st.buffer, now - Span(rule)) \in Seq(Reading)
  BY DropBeforeType DEF RuleState
<1>2. rule.trigger = "window" => AlignWindowEnd(now, rule.slide) \in Moment
  BY AlignWindowEndType DEF Compiled, WellFormed, Rule, Moment
<1>3. (IF rule.trigger = "window" /\ st.nextWindowEnd = Unset
       THEN AlignWindowEnd(now, rule.slide) ELSE st.nextWindowEnd) \in Moment
  BY <1>2 DEF RuleState
<1> QED BY <1>1, <1>3 DEF Prune, RuleState

-----------------------------------------------------------------------------
\* Events

LEMMA EvaluateEventRuleType ==
  ASSUME NEW rule \in Rule, NEW st \in RuleState, NEW ev \in Event
  PROVE  EvaluateEventRule(rule, st, ev) \in Outcome
<1>1. ev.ts \in Nat
  BY DEF Event
<1> QED BY <1>1, EmitEpisodeType, ResolveEpisodeType DEF EvaluateEventRule

LEMMA AdvancedType ==
  ASSUME NEW rule \in Rule, NEW matches \in SUBSET PartialMatch, NEW ev \in Event
  PROVE  Advanced(rule, matches, ev) \in SUBSET PartialMatch
<1>1. [started |-> ev.ts, step |-> 1] \in PartialMatch
  BY DEF Event, PartialMatch
<1>2. ASSUME NEW m \in PartialMatch
      PROVE  [m EXCEPT !.step = @ + 1] \in PartialMatch
  <2>1. m.step + 1 \in Nat
    BY DEF PartialMatch
  <2> QED BY <2>1 DEF PartialMatch
<1> QED BY <1>1, <1>2 DEF Advanced

LEMMA AdvanceSequenceType ==
  ASSUME NEW rule \in Rule, NEW st \in RuleState, NEW ev \in Event
  PROVE  AdvanceSequence(rule, st, ev) \in Outcome
<1> DEFINE alive == AliveMatches(rule, st, ev.ts)
           consumed == [st EXCEPT !.partial = {}]
           advanced == [st EXCEPT !.partial = Advanced(rule, alive, ev)]
<1>1. alive \in SUBSET PartialMatch
  BY DEF AliveMatches, RuleState
<1>2. consumed \in RuleState
  BY DEF RuleState
<1>3. advanced \in RuleState
  BY <1>1, AdvancedType DEF RuleState
<1>4. ev.ts \in Nat
  BY DEF Event
<1>5. Silent(consumed) \in Outcome /\ Silent(advanced) \in Outcome
  BY <1>2, <1>3, SilentType
<1>6. EmitEpisode(rule, consumed, ev.ts) \in Outcome
  BY <1>2, <1>4, EmitEpisodeType
<1>7. AdvanceSequence(rule, st, ev)
        \in {Silent(consumed), Silent(advanced), EmitEpisode(rule, consumed, ev.ts)}
  <2> HIDE DEF alive, consumed, advanced
  <2>1. CASE ev.sensor = rule.without
    BY <2>1 DEF AdvanceSequence, consumed
  <2>2. CASE ev.sensor # rule.without /\ Completing(rule, alive, ev.sensor) = {}
    BY <2>2 DEF AdvanceSequence, alive, advanced
  <2>3. CASE ev.sensor # rule.without /\ Completing(rule, alive, ev.sensor) # {}
    BY <2>3 DEF AdvanceSequence, alive, consumed
  <2> QED BY <2>1, <2>2, <2>3
<1> QED BY <1>5, <1>6, <1>7

LEMMA SourceReportsType ==
  ASSUME NEW rule \in Rule, NEW st \in RuleState, NEW ev \in Event
  PROVE  SourceReports(rule, st, ev) \in Outcome
<1> DEFINE absent == st.absent \ {ev.sensor}
           active == CompositeConditionActive(rule, absent)
           heard == [st EXCEPT !.absent = absent, !.compositeActive = active]
<1>1. active \in BOOLEAN
  BY DEF CompositeConditionActive
<1>2. heard \in RuleState
  <2> HIDE DEF active
  <2> QED BY <1>1 DEF RuleState
<1>3. ev.ts \in Nat
  BY DEF Event
<1>4. Silent(heard) \in Outcome /\ ResolveEpisode(rule, heard, ev.ts) \in Outcome
  BY <1>2, <1>3, SilentType, ResolveEpisodeType
<1> HIDE DEF heard
<1> QED BY <1>4 DEF SourceReports, heard

LEMMA HeartbeatType ==
  ASSUME NEW rule \in Rule, NEW st \in RuleState, NEW ev \in Event
  PROVE  Heartbeat(rule, st, ev) \in Outcome
<1>1. [st EXCEPT !.absenceFired = FALSE] \in RuleState
  BY DEF RuleState
<1>2. ev.ts \in Nat
  BY DEF Event
<1> QED BY <1>1, <1>2, ResolveEpisodeType DEF Heartbeat

(* An event in order leaves a rule with a state of its own. *)
LEMMA InOrderType ==
  ASSUME NEW rule, Compiled(rule), NEW st \in RuleState, NEW ev \in Event
  PROVE  InOrder(rule, st, ev) \in Outcome
<1> DEFINE pruned == Prune(rule, st, ev.ts)
           kept == IF Buffers(rule)
                   THEN [pruned EXCEPT !.buffer = Append(@, AsReading(ev))]
                   ELSE pruned
           heard == [kept EXCEPT !.lastSeen[ev.sensor] = ev.ts]
<1>1. /\ rule \in Rule /\ ev.ts \in Nat /\ ev.ts \in Moment /\ ev.sensor \in Sensors
      /\ AsReading(ev) \in Reading
  BY AsReadingType DEF Compiled, Event, Moment
<1>2. pruned \in RuleState
  BY <1>1, PruneType
<1> HIDE DEF pruned
<1>3. kept \in RuleState
  <2>1. Append(pruned.buffer, AsReading(ev)) \in Seq(Reading)
    BY <1>1, <1>2, AppendProperties DEF RuleState
  <2> QED BY <1>2, <2>1 DEF RuleState
<1> HIDE DEF kept
<1>4. heard \in RuleState
  <2>1. [kept.lastSeen EXCEPT ![ev.sensor] = ev.ts] \in [Sensors -> Moment]
    BY <1>1, <1>3 DEF RuleState
  <2>2. heard = [kept EXCEPT !.lastSeen = [kept.lastSeen EXCEPT ![ev.sensor] = ev.ts]]
    BY <1>3 DEF RuleState
  <2> HIDE DEF heard
  <2> QED BY <1>3, <2>1, <2>2 DEF RuleState
<1> HIDE DEF heard
<1>5. InOrder(rule, st, ev) \in
        {Silent(kept), Silent(heard), EvaluateEventRule(rule, heard, ev),
         AdvanceSequence(rule, heard, ev), Heartbeat(rule, heard, ev),
         SourceReports(rule, heard, ev)}
  <2>1. CASE ~MatchesEvent(rule, ev)
    BY <2>1 DEF InOrder, kept, pruned
  <2>2. CASE MatchesEvent(rule, ev)
    <3>1. InOrder(rule, st, ev) =
            CASE rule.trigger = "event" -> EvaluateEventRule(rule, heard, ev)
              [] rule.trigger = "sequence" -> AdvanceSequence(rule, heard, ev)
              [] rule.trigger = "absence" -> Heartbeat(rule, heard, ev)
              [] rule.trigger = "composite" -> SourceReports(rule, heard, ev)
              [] OTHER -> Silent(heard)
      BY <2>2 DEF InOrder, heard, kept, pruned
    <3> QED BY <3>1
  <2> QED BY <2>1, <2>2
<1> QED BY <1>1, <1>3, <1>4, <1>5, SilentType, EvaluateEventRuleType,
           AdvanceSequenceType, HeartbeatType, SourceReportsType

(* ... and so does a late one. *)
LEMMA OnLateType ==
  ASSUME NEW rule \in Rule, NEW st \in RuleState, NEW ev \in Event
  PROVE  OnLate(rule, st, ev) \in Outcome
<1> DEFINE kept == IF Buffers(rule)
                   THEN [st EXCEPT !.buffer = InsertInOrder(@, AsReading(ev))]
                   ELSE st
           heard == [kept EXCEPT !.lastSeen[ev.sensor] = MaxOf(@, ev.ts)]
<1>1. /\ ev.ts \in Nat /\ ev.ts \in Moment /\ ev.sensor \in Sensors
      /\ AsReading(ev) \in Reading
  BY AsReadingType DEF Event, Moment
<1>2. kept \in RuleState
  <2>1. InsertInOrder(st.buffer, AsReading(ev)) \in Seq(Reading)
    BY <1>1, InsertInOrderType DEF RuleState
  <2> QED BY <2>1 DEF RuleState
<1> HIDE DEF kept
<1>3. heard \in RuleState
  <2> DEFINE seen == MaxOf(kept.lastSeen[ev.sensor], ev.ts)
  <2>1. seen \in Moment
    BY <1>1, <1>2 DEF RuleState, MaxOf
  <2>2. heard = [kept EXCEPT !.lastSeen = [kept.lastSeen EXCEPT ![ev.sensor] = seen]]
    BY <1>2 DEF RuleState
  <2> HIDE DEF seen, heard
  <2>3. [kept.lastSeen EXCEPT ![ev.sensor] = seen] \in [Sensors -> Moment]
    BY <1>1, <1>2, <2>1 DEF RuleState
  <2> QED BY <1>2, <2>2, <2>3 DEF RuleState
<1> HIDE DEF heard
<1>4. OnLate(rule, st, ev) \in
        {Silent(kept), Silent(heard), EvaluateEventRule(rule, heard, ev)}
  BY DEF OnLate, heard, kept
<1> QED BY <1>2, <1>3, <1>4, SilentType, EvaluateEventRuleType

-----------------------------------------------------------------------------
\* Closed windows and timers

LEMMA RecordClosedWindowType ==
  ASSUME NEW rule, NEW st \in RuleState, NEW end \in Nat, NEW holds
  PROVE  RecordClosedWindow(rule, st, end, holds) \in RuleState
<1> DEFINE Kept(ends) == {e \in ends : e >= end - (rule.duration + rule.lateness)}
           held == IF holds THEN st.held \cup {end} ELSE st.held \ {end}
<1>1. held \in SUBSET Nat /\ st.closed \cup {end} \in SUBSET Nat
  BY DEF RuleState
<1>2. Kept(held) \in SUBSET Nat /\ Kept(st.closed \cup {end}) \in SUBSET Nat
  BY <1>1
<1>3. RecordClosedWindow(rule, st, end, holds)
        = [st EXCEPT !.closed = Kept(st.closed \cup {end}), !.held = Kept(held)]
  BY DEF RecordClosedWindow
<1> HIDE DEF Kept, held
<1> QED BY <1>2, <1>3 DEF RuleState

LEMMA RecomputeWindowType ==
  ASSUME NEW rule \in Rule, NEW st \in RuleState, NEW end \in Nat
  PROVE  RecomputeWindow(rule, st, end) \in Outcome
<1> DEFINE holds == WindowHolds(rule, st.buffer, end - rule.duration, end)
           held == IF holds THEN st.held \cup {end} ELSE st.held \ {end}
           noted == [st EXCEPT !.held = held]
<1> HIDE DEF holds
<1>1. noted \in RuleState
  BY DEF RuleState
<1> HIDE DEF noted
<1>2. [Emitting(rule, noted, "retracted", end) EXCEPT !.state = CloseEpisode(noted)]
        \in Outcome
  <2>1. Emitting(rule, noted, "retracted", end) \in Outcome
    BY <1>1, EmittingType DEF Labels
  <2> QED BY <1>1, <2>1, CloseEpisodeType DEF Outcome
<1>3. RecomputeWindow(rule, st, end) \in
        {Silent(st), EmitEpisode(rule, noted, end),
         [Emitting(rule, noted, "retracted", end) EXCEPT !.state = CloseEpisode(noted)]}
  <2>1. RecomputeWindow(rule, st, end) =
          CASE holds = (end \in st.held) -> Silent(st)
            [] holds /\ end \notin st.held -> EmitEpisode(rule, noted, end)
            [] OTHER -> [Emitting(rule, noted, "retracted", end)
                           EXCEPT !.state = CloseEpisode(noted)]
    BY DEF RecomputeWindow, noted, held, holds
  <2>2. holds \in BOOLEAN
    BY DEF holds, WindowHolds, EvaluateOperands
  <2> QED BY <2>1, <2>2
<1> QED BY <1>1, <1>2, <1>3, SilentType, EmitEpisodeType

LEMMA FireAbsenceType ==
  ASSUME NEW rule \in Rule, NEW st \in RuleState, NEW now \in Nat
  PROVE  FireAbsence(rule, st, now) \in Outcome
<1>1. [st EXCEPT !.absenceFired = TRUE] \in RuleState
  BY DEF RuleState
<1> QED BY <1>1, EmitEpisodeType, SilentType DEF FireAbsence

LEMMA FireCompositeType ==
  ASSUME NEW rule \in Rule, NEW st \in RuleState, NEW now \in Nat
  PROVE  FireComposite(rule, st, now) \in Outcome
<1> DEFINE gone == {s \in SensorsOf(rule) \ st.absent :
                      DeadlinePassed(st, s, rule.timeouts[s], now)}
           absent == st.absent \cup gone
           starts == /\ gone # {}
                     /\ CompositeConditionActive(rule, absent)
                     /\ ~st.compositeActive
           active == st.compositeActive \/ starts
           noted == [st EXCEPT !.absent = absent, !.compositeActive = active]
<1>1. absent \in SUBSET Sensors
  <2>1. SensorsOf(rule) \in SUBSET Sensors
    BY LenProperties DEF SensorsOf, Rule
  <2> QED BY <2>1 DEF RuleState
<1>2. active \in BOOLEAN
  OBVIOUS
<1>3. FireComposite(rule, st, now)
        = IF starts THEN EmitEpisode(rule, noted, now) ELSE Silent(noted)
  BY DEF FireComposite
<1> HIDE DEF absent, active, starts
<1>4. noted \in RuleState
  BY <1>1, <1>2 DEF RuleState
<1> QED BY <1>3, <1>4, EmitEpisodeType, SilentType

LEMMA FireWindowType ==
  ASSUME NEW rule \in Rule, NEW st \in RuleState, NEW now \in Nat, NEW remember
  PROVE  FireWindow(rule, st, now, remember) \in Outcome
<1> DEFINE holds == WindowHolds(rule, st.buffer, now - rule.duration, now)
           noted == IF remember THEN RecordClosedWindow(rule, st, now, holds) ELSE st
           next == [noted EXCEPT !.nextWindowEnd = now + rule.slide]
<1>1. now + rule.slide \in Moment
  BY DEF Rule, Moment
<1>2. noted \in RuleState
  BY RecordClosedWindowType
<1>3. FireWindow(rule, st, now, remember)
        \in {Silent(st), EmitEpisode(rule, next, now), ResolveEpisode(rule, next, now)}
  BY DEF FireWindow
<1> HIDE DEF noted
<1>4. next \in RuleState
  BY <1>1, <1>2 DEF RuleState
<1> HIDE DEF next
<1> QED BY <1>3, <1>4, SilentType, EmitEpisodeType, ResolveEpisodeType

LEMMA FireScheduledType ==
  ASSUME NEW rule \in Rule, NEW st \in RuleState, NEW now \in Nat
  PROVE  FireScheduled(rule, st, now) \in Outcome
<1> DEFINE next == [st EXCEPT !.lastSchedule = now,
                              !.nextSchedule = NextCronFire(now, rule.cron)]
<1>1. now \in Moment /\ NextCronFire(now, rule.cron) \in Moment
  BY NextCronFireType DEF Rule, Moment
<1>2. next \in RuleState
  BY <1>1 DEF RuleState
<1>3. FireScheduled(rule, st, now)
        \in {Silent(st), EmitEpisode(rule, next, now), ResolveEpisode(rule, next, now)}
  BY DEF FireScheduled
<1> HIDE DEF next
<1> QED BY <1>2, <1>3, SilentType, EmitEpisodeType, ResolveEpisodeType

(* One instant leaves a rule with a state of its own. *)
LEMMA OnTimerType ==
  ASSUME NEW rule \in Rule, NEW st \in RuleState, NEW now \in Nat, NEW remember
  PROVE  OnTimer(rule, st, now, remember) \in Outcome
<1> DEFINE reminder == Remind(rule, st, now)
<1>1. reminder \in Outcome /\ reminder.state \in RuleState
  BY RemindType
<1> HIDE DEF reminder
<1>2. FireTrigger(rule, reminder.state, now, remember) \in Outcome
  BY <1>1, SilentType, FireAbsenceType, FireCompositeType, FireWindowType,
     FireScheduledType DEF FireTrigger
<1>3. OnTimer(rule, st, now, remember)
        = Then(reminder, FireTrigger(rule, reminder.state, now, remember))
  BY DEF OnTimer, reminder
<1> QED BY <1>1, <1>2, <1>3, ThenType

(* Timers fall due at times, never at Unset. *)
LEMMA DueTimesType ==
  ASSUME NEW rule, Compiled(rule), NEW st \in RuleState
  PROVE  DueTimes(rule, st) \in SUBSET Nat
<1>1. SensorsOf(rule) \in SUBSET Sensors /\ rule \in Rule
  BY LenProperties DEF Compiled, SensorsOf, Rule
<1>2. rule.sensors[1] \in Sensors
  <2>1. rule.sensors \in Seq(Sensors) /\ rule.sensors # << >>
    BY DEF Compiled, WellFormed, Rule
  <2>2. Len(rule.sensors) \in Nat \ {0}
    BY <2>1, EmptySeq
  <2> QED BY <2>1, <2>2, LenProperties
<1>3. \A s \in Sensors : st.lastSeen[s] # Unset =>
        /\ st.lastSeen[s] + rule.timeout \in Nat
        /\ st.lastSeen[s] + rule.timeouts[s] \in Nat
  <2> TAKE s \in Sensors
  <2> HAVE st.lastSeen[s] # Unset
  <2>1. st.lastSeen[s] \in Nat
    BY DEF RuleState, Moment
  <2>2. rule.timeout \in Nat /\ rule.timeouts[s] \in Nat
    BY <1>1 DEF Rule
  <2> QED BY <2>1, <2>2
<1>4. /\ {st.nextWindowEnd} \ {Unset} \in SUBSET Nat
      /\ {st.nextSchedule} \ {Unset} \in SUBSET Nat
      /\ {st.nextRepeat} \ {Unset} \in SUBSET Nat
  BY DEF RuleState, Moment
<1>5. TriggerDueTimes(rule, st) \in SUBSET Nat
  <2>1. CASE rule.trigger = "absence"
    BY <1>2, <1>3, <2>1 DEF TriggerDueTimes
  <2>2. CASE rule.trigger = "composite"
    BY <1>1, <1>3, <2>2 DEF TriggerDueTimes
  <2>3. CASE rule.trigger = "window"
    BY <1>4, <2>3 DEF TriggerDueTimes
  <2>4. CASE rule.trigger = "scheduled"
    BY <1>4, <2>4 DEF TriggerDueTimes
  <2>5. CASE rule.trigger \notin {"absence", "composite", "window", "scheduled"}
    BY <2>5 DEF TriggerDueTimes
  <2> QED BY <2>1, <2>2, <2>3, <2>4, <2>5
<1>6. ReminderDueTimes(st) \in SUBSET Nat
  BY <1>4 DEF ReminderDueTimes
<1> QED BY <1>5, <1>6 DEF DueTimes

-----------------------------------------------------------------------------
\* What the handlers leave alone.  A handler first works on what the rule has
\* seen and waits for, and then on its episode, or the other way round.

\* Everything but the episode.
Alongside(st) ==
  <<st.buffer, st.lastSeen, st.absenceFired, st.absent, st.compositeActive,
    st.nextWindowEnd, st.nextSchedule, st.closed>>

Episode(st) == <<st.episodeStarted, st.lastEmit, st.nextRepeat>>

LEMMA EmitEpisodeAlongside ==
  ASSUME NEW rule \in Rule, NEW st \in RuleState, NEW now \in Nat
  PROVE  Alongside(EmitEpisode(rule, st, now).state) = Alongside(st)
<1>1. EmitEpisode(rule, st, now).state \in {st, NoteEmission(rule, st, now)}
  BY DEF EmitEpisode, Emitting, Silent
<1>2. Alongside(NoteEmission(rule, st, now)) = Alongside(st)
  BY DEF NoteEmission, Alongside, RuleState
<1> QED BY <1>1, <1>2

LEMMA ResolveEpisodeAlongside ==
  ASSUME NEW rule \in Rule, NEW st \in RuleState, NEW now \in Nat
  PROVE  Alongside(ResolveEpisode(rule, st, now).state) = Alongside(st)
<1>1. ResolveEpisode(rule, st, now).state \in {st, CloseEpisode(st)}
  BY DEF ResolveEpisode, Emitting, Silent
<1>2. Alongside(CloseEpisode(st)) = Alongside(st)
  BY DEF CloseEpisode, Alongside, RuleState
<1> QED BY <1>1, <1>2

LEMMA RemindAlongside ==
  ASSUME NEW rule \in Rule, NEW st \in RuleState, NEW now \in Nat
  PROVE  Alongside(Remind(rule, st, now).state) = Alongside(st)
BY DEF Remind, Emitting, Silent, Alongside, RuleState

\* What is left to do once the rule has taken note of what happened.
Sequel(rule, mid, now) ==
  {Silent(mid), EmitEpisode(rule, mid, now), ResolveEpisode(rule, mid, now)}

LEMMA SequelAlongside ==
  ASSUME NEW rule \in Rule, NEW mid \in RuleState, NEW now \in Nat,
         NEW o \in Sequel(rule, mid, now)
  PROVE  Alongside(o.state) = Alongside(mid)
BY EmitEpisodeAlongside, ResolveEpisodeAlongside, SilentType DEF Sequel

(* An event in order is noted, and then an episode may open or close.       *)
LEMMA InOrderCases ==
  ASSUME NEW rule, Compiled(rule), NEW st \in RuleState, NEW ev \in Event
  PROVE  \E mid \in RuleState :
           /\ InOrder(rule, st, ev) \in Sequel(rule, mid, ev.ts)
           /\ Episode(mid) = Episode(st)
           /\ mid.buffer = IF Buffers(rule)
                           THEN Append(Prune(rule, st, ev.ts).buffer, AsReading(ev))
                           ELSE Prune(rule, st, ev.ts).buffer
           /\ mid.nextWindowEnd = Prune(rule, st, ev.ts).nextWindowEnd
           /\ mid.nextSchedule = st.nextSchedule
           /\ mid.closed = st.closed
<1> DEFINE pruned == Prune(rule, st, ev.ts)
           kept == IF Buffers(rule)
                   THEN [pruned EXCEPT !.buffer = Append(@, AsReading(ev))]
                   ELSE pruned
           heard == [kept EXCEPT !.lastSeen[ev.sensor] = ev.ts]
           Noted(mid) ==
             /\ mid \in RuleState /\ Episode(mid) = Episode(kept)
             /\ mid.buffer = kept.buffer /\ mid.nextWindowEnd = kept.nextWindowEnd
             /\ mid.nextSchedule = kept.nextSchedule /\ mid.closed = kept.closed
<1>1. /\ rule \in Rule /\ ev.ts \in Nat /\ ev.ts \in Moment /\ ev.sensor \in Sensors
      /\ AsReading(ev) \in Reading
  BY AsReadingType DEF Compiled, Event, Moment
<1>2. pruned \in RuleState
  BY <1>1, PruneType
<1>3. /\ Episode(pruned) = Episode(st) /\ pruned.nextSchedule = st.nextSchedule
      /\ pruned.closed = st.closed
  BY DEF Prune, Episode, RuleState
<1> HIDE DEF pruned
<1>4. kept \in RuleState
  <2>1. Append(pruned.buffer, AsReading(ev)) \in Seq(Reading)
    BY <1>1, <1>2, AppendProperties DEF RuleState
  <2> QED BY <1>2, <2>1 DEF RuleState
<1>5. /\ Episode(kept) = Episode(st) /\ kept.nextSchedule = st.nextSchedule
      /\ kept.closed = st.closed /\ kept.nextWindowEnd = pruned.nextWindowEnd
      /\ kept.buffer = IF Buffers(rule) THEN Append(pruned.buffer, AsReading(ev))
                       ELSE pruned.buffer
  BY <1>2, <1>3 DEF Episode, RuleState
<1> HIDE DEF kept
<1>6. Noted(heard) /\ Noted(kept)
  <2>1. [kept.lastSeen EXCEPT ![ev.sensor] = ev.ts] \in [Sensors -> Moment]
    BY <1>1, <1>4 DEF RuleState
  <2>2. heard = [kept EXCEPT !.lastSeen = [kept.lastSeen EXCEPT ![ev.sensor] = ev.ts]]
    BY <1>4 DEF RuleState
  <2> HIDE DEF heard
  <2> QED BY <1>4, <2>1, <2>2 DEF RuleState, Episode
<1> DEFINE Result == InOrder(rule, st, ev)
<1> SUFFICES \E mid : Noted(mid) /\ Result \in Sequel(rule, mid, ev.ts)
  BY <1>5 DEF pruned
<1> HIDE DEF heard
<1>7. CASE ~MatchesEvent(rule, ev)
  <2>1. Result = Silent(kept)
    BY <1>7 DEF InOrder, kept, pruned
  <2> QED BY <1>6, <2>1 DEF Sequel
<1>8. CASE MatchesEvent(rule, ev)
  <2>1. Result =
          CASE rule.trigger = "event" -> EvaluateEventRule(rule, heard, ev)
            [] rule.trigger = "sequence" -> AdvanceSequence(rule, heard, ev)
            [] rule.trigger = "absence" -> Heartbeat(rule, heard, ev)
            [] rule.trigger = "composite" -> SourceReports(rule, heard, ev)
            [] OTHER -> Silent(heard)
    BY <1>8 DEF InOrder, heard, kept, pruned
  <2> HIDE DEF Result
  <2>2. CASE rule.trigger = "event"
    <3>1. Result \in Sequel(rule, heard, ev.ts)
      BY <2>1, <2>2 DEF EvaluateEventRule, Sequel
    <3> QED BY <1>6, <3>1
  <2>3. CASE rule.trigger = "sequence"
    <3> DEFINE alive == AliveMatches(rule, heard, ev.ts)
               consumed == [heard EXCEPT !.partial = {}]
               advanced == [heard EXCEPT !.partial = Advanced(rule, alive, ev)]
    <3>1. heard \in RuleState
      BY <1>6
    <3>2. alive \in SUBSET PartialMatch
      BY <3>1 DEF AliveMatches, RuleState
    <3>3. Noted(consumed)
      BY <1>6, <3>1 DEF RuleState, Episode
    <3>4. Noted(advanced)
      BY <1>1, <1>6, <3>1, <3>2, AdvancedType DEF RuleState, Episode
    <3>5. AdvanceSequence(rule, heard, ev)
            \in {Silent(consumed), Silent(advanced), EmitEpisode(rule, consumed, ev.ts)}
      <4> HIDE DEF alive, consumed, advanced
      <4>1. CASE ev.sensor = rule.without
        BY <4>1 DEF AdvanceSequence, consumed
      <4>2. CASE ev.sensor # rule.without /\ Completing(rule, alive, ev.sensor) = {}
        BY <4>2 DEF AdvanceSequence, alive, advanced
      <4>3. CASE ev.sensor # rule.without /\ Completing(rule, alive, ev.sensor) # {}
        BY <4>3 DEF AdvanceSequence, alive, consumed
      <4> QED BY <4>1, <4>2, <4>3
    <3> HIDE DEF alive, consumed, advanced, Noted
    <3> QED BY <2>1, <2>3, <3>3, <3>4, <3>5 DEF Sequel
  <2>4. CASE rule.trigger = "absence"
    <3> DEFINE back == [heard EXCEPT !.absenceFired = FALSE]
    <3>1. Noted(back)
      BY <1>6 DEF RuleState, Episode
    <3>2. Result = ResolveEpisode(rule, back, ev.ts)
      BY <2>1, <2>4 DEF Heartbeat
    <3> HIDE DEF back, Noted
    <3> QED BY <3>1, <3>2 DEF Sequel
  <2>5. CASE rule.trigger = "composite"
    <3> DEFINE absent == heard.absent \ {ev.sensor}
               active == CompositeConditionActive(rule, absent)
               told == [heard EXCEPT !.absent = absent, !.compositeActive = active]
    <3>0. absent \in SUBSET Sensors /\ active \in BOOLEAN
      BY <1>6 DEF RuleState, CompositeConditionActive
    <3> HIDE DEF absent, active
    <3>1. Noted(told)
      BY <1>6, <3>0 DEF RuleState, Episode
    <3>2. Result \in {Silent(told), ResolveEpisode(rule, told, ev.ts)}
      BY <2>1, <2>5 DEF SourceReports, told, active, absent
    <3> HIDE DEF told, Noted
    <3> QED BY <3>1, <3>2 DEF Sequel
  <2>6. CASE rule.trigger \notin {"event", "sequence", "absence", "composite"}
    <3>1. Result = Silent(heard)
      BY <2>1, <2>6
    <3> QED BY <1>6, <3>1 DEF Sequel
  <2> QED BY <2>2, <2>3, <2>4, <2>5, <2>6
<1> QED BY <1>7, <1>8

LEMMA OnLateCases ==
  ASSUME NEW rule \in Rule, NEW st \in RuleState, NEW ev \in Event
  PROVE  \E mid \in RuleState :
           /\ OnLate(rule, st, ev) \in Sequel(rule, mid, ev.ts)
           /\ rule.trigger # "event" => OnLate(rule, st, ev) = Silent(mid)
           /\ Episode(mid) = Episode(st)
           /\ mid.buffer = IF Buffers(rule) THEN InsertInOrder(st.buffer, AsReading(ev))
                           ELSE st.buffer
           /\ mid.nextWindowEnd = st.nextWindowEnd
           /\ mid.nextSchedule = st.nextSchedule
           /\ mid.closed = st.closed
<1> DEFINE kept == IF Buffers(rule)
                   THEN [st EXCEPT !.buffer = InsertInOrder(@, AsReading(ev))]
                   ELSE st
           heard == [kept EXCEPT !.lastSeen[ev.sensor] = MaxOf(@, ev.ts)]
           Noted(mid) ==
             /\ mid \in RuleState /\ Episode(mid) = Episode(st)
             /\ mid.buffer = IF Buffers(rule) THEN InsertInOrder(st.buffer, AsReading(ev))
                             ELSE st.buffer
             /\ mid.nextWindowEnd = st.nextWindowEnd
             /\ mid.nextSchedule = st.nextSchedule
             /\ mid.closed = st.closed
<1>1. /\ ev.ts \in Nat /\ ev.ts \in Moment /\ ev.sensor \in Sensors
      /\ AsReading(ev) \in Reading
  BY AsReadingType DEF Event, Moment
<1>2. Noted(kept)
  <2>1. InsertInOrder(st.buffer, AsReading(ev)) \in Seq(Reading)
    BY <1>1, InsertInOrderType DEF RuleState
  <2> QED BY <2>1 DEF RuleState, Episode
<1> HIDE DEF kept
<1>3. Noted(heard)
  <2> DEFINE seen == MaxOf(kept.lastSeen[ev.sensor], ev.ts)
  <2>1. seen \in Moment
    BY <1>1, <1>2 DEF RuleState, MaxOf
  <2>2. heard = [kept EXCEPT !.lastSeen = [kept.lastSeen EXCEPT ![ev.sensor] = seen]]
    BY <1>2 DEF RuleState
  <2> HIDE DEF seen, heard
  <2>3. [kept.lastSeen EXCEPT ![ev.sensor] = seen] \in [Sensors -> Moment]
    BY <1>1, <1>2, <2>1 DEF RuleState
  <2> QED BY <1>2, <2>2, <2>3 DEF RuleState, Episode
<1> HIDE DEF heard
<1>4. \/ OnLate(rule, st, ev) \in {Silent(kept), Silent(heard)}
      \/ rule.trigger = "event" /\ OnLate(rule, st, ev) = EvaluateEventRule(rule, heard, ev)
  BY DEF OnLate, heard, kept
<1>5. EvaluateEventRule(rule, heard, ev) \in Sequel(rule, heard, ev.ts)
  BY DEF EvaluateEventRule, Sequel
<1> QED BY <1>2, <1>3, <1>4, <1>5 DEF Sequel

(* A closed window that is evaluated again emits, or takes its verdict back. *)
LEMMA RecomputeWindowCases ==
  ASSUME NEW rule \in Rule, NEW st \in RuleState, NEW end \in Nat
  PROVE  \E mid \in RuleState :
           /\ Episode(mid) = Episode(st) /\ Alongside(mid) = Alongside(st)
           /\ RecomputeWindow(rule, st, end) \in
                {Silent(mid), EmitEpisode(rule, mid, end),
                 [Emitting(rule, mid, "retracted", end) EXCEPT !.state = CloseEpisode(mid)]}
<1> DEFINE holds == WindowHolds(rule, st.buffer, end - rule.duration, end)
           held == IF holds THEN st.held \cup {end} ELSE st.held \ {end}
           noted == [st EXCEPT !.held = held]
<1>0. holds \in BOOLEAN
  BY DEF WindowHolds, EvaluateOperands
<1> HIDE DEF holds
<1>1. noted \in RuleState /\ Episode(noted) = Episode(st) /\ Alongside(noted) = Alongside(st)
  BY DEF RuleState, Episode, Alongside
<1>2. RecomputeWindow(rule, st, end) =
        CASE holds = (end \in st.held) -> Silent(st)
          [] holds /\ end \notin st.held -> EmitEpisode(rule, noted, end)
          [] OTHER -> [Emitting(rule, noted, "retracted", end)
                         EXCEPT !.state = CloseEpisode(noted)]
  BY DEF RecomputeWindow, noted, held, holds
<1> HIDE DEF noted
<1> QED BY <1>0, <1>1, <1>2

(* A trigger whose time has come is noted, and then an episode may open or  *)
(* close.                                                                   *)
LEMMA FireTriggerCases ==
  ASSUME NEW rule \in Rule, NEW st \in RuleState, NEW now \in Nat, NEW remember
  PROVE  \E mid \in RuleState :
           /\ FireTrigger(rule, st, now, remember) \in Sequel(rule, mid, now)
           /\ Episode(mid) = Episode(st)
           /\ mid.buffer = st.buffer
           /\ mid.lastSeen = st.lastSeen
           /\ mid.nextWindowEnd = IF rule.trigger = "window" /\ st.nextWindowEnd = now
                                  THEN now + rule.slide ELSE st.nextWindowEnd
           /\ mid.nextSchedule = IF rule.trigger = "scheduled" /\ st.nextSchedule = now
                                 THEN NextCronFire(now, rule.cron) ELSE st.nextSchedule
           /\ mid.closed \subseteq st.closed \cup {now}
           /\ ~remember => mid.closed = st.closed
           /\ (st.absenceFired => mid.absenceFired) /\ st.absent \subseteq mid.absent
<1> DEFINE Noted(mid) ==
             /\ mid \in RuleState /\ Episode(mid) = Episode(st)
             /\ mid.buffer = st.buffer /\ mid.lastSeen = st.lastSeen
             /\ mid.nextWindowEnd = IF rule.trigger = "window" /\ st.nextWindowEnd = now
                                    THEN now + rule.slide ELSE st.nextWindowEnd
             /\ mid.nextSchedule = IF rule.trigger = "scheduled" /\ st.nextSchedule = now
                                   THEN NextCronFire(now, rule.cron) ELSE st.nextSchedule
             /\ mid.closed \subseteq st.closed \cup {now}
             /\ ~remember => mid.closed = st.closed
             /\ (st.absenceFired => mid.absenceFired) /\ st.absent \subseteq mid.absent
           Result == FireTrigger(rule, st, now, remember)
<1> SUFFICES \E mid : Noted(mid) /\ Result \in Sequel(rule, mid, now)
  OBVIOUS
<1>0. /\ now \in Moment /\ now + rule.slide \in Moment
      /\ NextCronFire(now, rule.cron) \in Moment
  <2>1. rule.slide \in Nat /\ rule.cron \in Nat
    BY DEF Rule
  <2>2. NextCronFire(now, rule.cron) \in Nat
    BY <2>1, NextCronFireType
  <2> QED BY <2>1, <2>2 DEF Moment
<1> HIDE DEF Result
<1>1. CASE rule.trigger = "absence"
  <2> DEFINE fired == [st EXCEPT !.absenceFired = TRUE]
  <2>1. Noted(fired) /\ Noted(st)
    BY <1>1 DEF RuleState, Episode
  <2>2. Result \in {Silent(st), EmitEpisode(rule, fired, now)}
    BY <1>1 DEF Result, FireTrigger, FireAbsence
  <2> HIDE DEF fired, Noted
  <2> QED BY <2>1, <2>2 DEF Sequel
<1>2. CASE rule.trigger = "composite"
  <2> DEFINE gone == {s \in SensorsOf(rule) \ st.absent :
                        DeadlinePassed(st, s, rule.timeouts[s], now)}
             absent == st.absent \cup gone
             starts == /\ gone # {}
                       /\ CompositeConditionActive(rule, absent)
                       /\ ~st.compositeActive
             active == st.compositeActive \/ starts
             noted == [st EXCEPT !.absent = absent, !.compositeActive = active]
  <2>1. absent \in SUBSET Sensors
    <3>1. SensorsOf(rule) \in SUBSET Sensors
      BY LenProperties DEF SensorsOf, Rule
    <3> QED BY <3>1 DEF RuleState
  <2>2. active \in BOOLEAN /\ st.absent \subseteq absent
    OBVIOUS
  <2>3. Result = IF starts THEN EmitEpisode(rule, noted, now) ELSE Silent(noted)
    BY <1>2 DEF Result, FireTrigger, FireComposite
  <2> HIDE DEF absent, active, starts
  <2>4. Noted(noted)
    BY <1>2, <2>1, <2>2 DEF RuleState, Episode
  <2> HIDE DEF noted, Noted
  <2> QED BY <2>3, <2>4 DEF Sequel
<1>3. CASE rule.trigger = "window"
  <2> DEFINE holds == WindowHolds(rule, st.buffer, now - rule.duration, now)
             kept == IF remember THEN RecordClosedWindow(rule, st, now, holds) ELSE st
             next == [kept EXCEPT !.nextWindowEnd = now + rule.slide]
  <2>1. CASE st.nextWindowEnd # now
    <3>1. Result = Silent(st)
      BY <1>3, <2>1 DEF Result, FireTrigger, FireWindow
    <3>2. Noted(st)
      BY <1>3, <2>1
    <3> HIDE DEF Noted
    <3> QED BY <3>1, <3>2 DEF Sequel
  <2>2. CASE st.nextWindowEnd = now
    <3>1. Result \in {EmitEpisode(rule, next, now), ResolveEpisode(rule, next, now)}
      BY <1>3, <2>2 DEF Result, FireTrigger, FireWindow
    <3>2. /\ kept \in RuleState /\ Episode(kept) = Episode(st)
          /\ kept.buffer = st.buffer /\ kept.lastSeen = st.lastSeen
          /\ kept.nextSchedule = st.nextSchedule
          /\ kept.absenceFired = st.absenceFired /\ kept.absent = st.absent
          /\ kept.closed \subseteq st.closed \cup {now}
          /\ ~remember => kept.closed = st.closed
      <4>1. CASE remember
        <5> HIDE DEF holds
        <5>1. kept = RecordClosedWindow(rule, st, now, holds)
          BY <4>1
        <5>2. kept \in RuleState
          BY <5>1, RecordClosedWindowType
        <5> QED BY <4>1, <5>1, <5>2 DEF RecordClosedWindow, RuleState, Episode
      <4>2. CASE ~remember
        BY <4>2
      <4> QED BY <4>1, <4>2
    <3> HIDE DEF kept
    <3>3. Noted(next)
      BY <1>0, <1>3, <2>2, <3>2 DEF RuleState, Episode
    <3> HIDE DEF next, Noted
    <3> QED BY <3>1, <3>3 DEF Sequel
  <2> QED BY <2>1, <2>2
<1>4. CASE rule.trigger = "scheduled"
  <2> DEFINE next == [st EXCEPT !.lastSchedule = now,
                                !.nextSchedule = NextCronFire(now, rule.cron)]
  <2>1. CASE st.nextSchedule # now
    <3>1. Result = Silent(st)
      BY <1>4, <2>1 DEF Result, FireTrigger, FireScheduled
    <3>2. Noted(st)
      BY <1>4, <2>1
    <3> HIDE DEF Noted
    <3> QED BY <3>1, <3>2 DEF Sequel
  <2>2. CASE st.nextSchedule = now
    <3>1. Result \in {EmitEpisode(rule, next, now), ResolveEpisode(rule, next, now)}
      BY <1>4, <2>2 DEF Result, FireTrigger, FireScheduled
    <3>2. Noted(next)
      BY <1>0, <1>4, <2>2 DEF RuleState, Episode
    <3> HIDE DEF next, Noted
    <3> QED BY <3>1, <3>2 DEF Sequel
  <2> QED BY <2>1, <2>2
<1>5. CASE rule.trigger \notin {"absence", "composite", "window", "scheduled"}
  <2>1. Result = Silent(st)
    BY <1>5 DEF Result, FireTrigger
  <2>2. Noted(st)
    BY <1>5
  <2> HIDE DEF Noted
  <2> QED BY <2>1, <2>2 DEF Sequel
<1> QED BY <1>1, <1>2, <1>3, <1>4, <1>5

LEMMA RecomputeAlongside ==
  ASSUME NEW rule \in Rule, NEW st \in RuleState, NEW end \in Nat
  PROVE  Alongside(RecomputeWindow(rule, st, end).state) = Alongside(st)
<1>1. PICK mid \in RuleState :
        /\ Alongside(mid) = Alongside(st)
        /\ RecomputeWindow(rule, st, end) \in
             {Silent(mid), EmitEpisode(rule, mid, end),
              [Emitting(rule, mid, "retracted", end) EXCEPT !.state = CloseEpisode(mid)]}
  BY RecomputeWindowCases
<1>2. Silent(mid).state = mid /\ Alongside(EmitEpisode(rule, mid, end).state) = Alongside(mid)
  BY SilentType, EmitEpisodeAlongside
<1>3. [Emitting(rule, mid, "retracted", end) EXCEPT !.state = CloseEpisode(mid)].state
        = CloseEpisode(mid)
  BY DEF Emitting, Silent
<1>4. Alongside(CloseEpisode(mid)) = Alongside(mid)
  BY DEF CloseEpisode, Alongside, RuleState
<1> QED BY <1>1, <1>2, <1>3, <1>4

(* An instant moves the timer that falls due then, and no other.            *)
LEMMA OnTimerTimers ==
  ASSUME NEW rule \in Rule, NEW st \in RuleState, NEW now \in Nat, NEW remember
  PROVE  LET new == OnTimer(rule, st, now, remember).state
         IN /\ new.buffer = st.buffer
            /\ new.nextWindowEnd = IF rule.trigger = "window" /\ st.nextWindowEnd = now
                                   THEN now + rule.slide ELSE st.nextWindowEnd
            /\ new.nextSchedule = IF rule.trigger = "scheduled" /\ st.nextSchedule = now
                                  THEN NextCronFire(now, rule.cron) ELSE st.nextSchedule
            /\ new.closed \subseteq st.closed \cup {now}
            /\ ~remember => new.closed = st.closed
<1> DEFINE reminded == Remind(rule, st, now).state
           new == OnTimer(rule, st, now, remember).state
<1>1. reminded \in RuleState /\ Alongside(reminded) = Alongside(st)
  BY RemindType, RemindAlongside
<1>2. new = FireTrigger(rule, reminded, now, remember).state
  BY DEF OnTimer, Then
<1> HIDE DEF reminded, new
<1>3. PICK mid \in RuleState :
        /\ FireTrigger(rule, reminded, now, remember) \in Sequel(rule, mid, now)
        /\ mid.buffer = reminded.buffer
        /\ mid.nextWindowEnd = IF rule.trigger = "window" /\ reminded.nextWindowEnd = now
                               THEN now + rule.slide ELSE reminded.nextWindowEnd
        /\ mid.nextSchedule = IF rule.trigger = "scheduled" /\ reminded.nextSchedule = now
                              THEN NextCronFire(now, rule.cron) ELSE reminded.nextSchedule
        /\ mid.closed \subseteq reminded.closed \cup {now}
        /\ ~remember => mid.closed = reminded.closed
  BY <1>1, FireTriggerCases
<1>4. Alongside(new) = Alongside(mid)
  BY <1>2, <1>3, SequelAlongside
<1> QED BY <1>1, <1>3, <1>4 DEF Alongside, new

-----------------------------------------------------------------------------
\* What a handler leaves a rule waiting for.

Heard(st, ev) == [st EXCEPT !.lastSeen[ev.sensor] = ev.ts]
HeardAgain(st, ev) == [Heard(st, ev) EXCEPT !.absenceFired = FALSE]

LEMMA HeardType ==
  ASSUME NEW st \in RuleState, NEW ev \in Event
  PROVE  /\ Heard(st, ev) \in RuleState /\ HeardAgain(st, ev) \in RuleState
         /\ Episode(Heard(st, ev)) = Episode(st) /\ Episode(HeardAgain(st, ev)) = Episode(st)
         /\ Heard(st, ev).lastSeen = [st.lastSeen EXCEPT ![ev.sensor] = ev.ts]
         /\ HeardAgain(st, ev).lastSeen = [st.lastSeen EXCEPT ![ev.sensor] = ev.ts]
         /\ Heard(st, ev).absent = st.absent
         /\ Heard(st, ev).compositeActive = st.compositeActive
         /\ ~HeardAgain(st, ev).absenceFired
<1> DEFINE seen == [st.lastSeen EXCEPT ![ev.sensor] = ev.ts]
<1>1. ev.ts \in Moment /\ ev.sensor \in Sensors
  BY DEF Event, Moment
<1>2. seen \in [Sensors -> Moment]
  BY <1>1 DEF RuleState
<1>3. Heard(st, ev) = [st EXCEPT !.lastSeen = seen]
  BY DEF Heard, RuleState
<1> HIDE DEF seen
<1>4. /\ Heard(st, ev) \in RuleState /\ Episode(Heard(st, ev)) = Episode(st)
      /\ Heard(st, ev).lastSeen = seen /\ Heard(st, ev).absent = st.absent
      /\ Heard(st, ev).compositeActive = st.compositeActive
  BY <1>2, <1>3 DEF RuleState, Episode
<1> QED BY <1>4 DEF HeardAgain, RuleState, Episode, seen

LEMMA SpanlessKeeps ==
  ASSUME NEW rule, Compiled(rule), rule.trigger \in {"absence", "composite"}, NEW st, NEW now
  PROVE  Prune(rule, st, now) = st /\ ~Buffers(rule)
BY DEF Compiled, WellFormed, Prune, Span, MaxOf, Buffers

LEMMA InOrderAbsence ==
  ASSUME NEW rule, Compiled(rule), rule.trigger = "absence",
         NEW st \in RuleState, NEW ev \in Event
  PROVE  InOrder(rule, st, ev) = IF MatchesEvent(rule, ev)
                                 THEN ResolveEpisode(rule, HeardAgain(st, ev), ev.ts)
                                 ELSE Silent(st)
BY SpanlessKeeps DEF InOrder, Heartbeat, Heard, HeardAgain

LEMMA InOrderComposite ==
  ASSUME NEW rule, Compiled(rule), rule.trigger = "composite",
         NEW st \in RuleState, NEW ev \in Event
  PROVE  InOrder(rule, st, ev) = IF MatchesEvent(rule, ev)
                                 THEN SourceReports(rule, Heard(st, ev), ev)
                                 ELSE Silent(st)
BY SpanlessKeeps DEF InOrder, Heard

\* A reminder is armed for an open episode only.
Armed(st) == st.nextRepeat # Unset => EpisodeOpen(st)

LEMMA AlongsideDues ==
  ASSUME NEW rule, NEW a, NEW b, Alongside(a) = Alongside(b)
  PROVE  TriggerDueTimes(rule, a) = TriggerDueTimes(rule, b)
BY DEF Alongside, TriggerDueTimes

LEMMA EpisodeDues ==
  ASSUME NEW a, NEW b, Episode(a) = Episode(b)
  PROVE  ReminderDueTimes(a) = ReminderDueTimes(b) /\ (Armed(a) <=> Armed(b))
BY DEF Episode, ReminderDueTimes, EpisodeOpen, Armed

(* An emission arms the reminder anew, and nothing else does.               *)
LEMMA SequelReminders ==
  ASSUME NEW rule \in Rule, NEW mid \in RuleState, NEW now \in Nat,
         NEW o \in Sequel(rule, mid, now), Armed(mid)
  PROVE  /\ Armed(o.state)
         /\ \A t \in ReminderDueTimes(o.state) :
              \/ t \in ReminderDueTimes(mid)
              \/ rule.repeatEvery > 0 /\ t = now + rule.repeatEvery
<1>0. now # Unset
  BY DEF Unset
<1>1. CASE o = Silent(mid)
  BY <1>1, SilentType
<1>2. CASE o = EmitEpisode(rule, mid, now)
  <2>1. o.state = mid \/ o.state = NoteEmission(rule, mid, now)
    BY <1>2 DEF EmitEpisode, Emitting, Silent
  <2>2. CASE o.state = NoteEmission(rule, mid, now)
    BY <1>0, <2>2 DEF NoteEmission, Armed, ReminderDueTimes, EpisodeOpen, RuleState
  <2> QED BY <2>1, <2>2
<1>3. CASE o = ResolveEpisode(rule, mid, now)
  <2>1. o.state = mid \/ o.state = CloseEpisode(mid)
    BY <1>3 DEF ResolveEpisode, Emitting, Silent
  <2>2. CASE o.state = CloseEpisode(mid)
    BY <2>2 DEF CloseEpisode, Armed, ReminderDueTimes, EpisodeOpen, RuleState
  <2> QED BY <2>1, <2>2
<1> QED BY <1>1, <1>2, <1>3 DEF Sequel

LEMMA SequelDues ==
  ASSUME NEW rule \in Rule, NEW st, Armed(st),
         NEW mid \in RuleState, Episode(mid) = Episode(st), NEW now \in Nat,
         NEW o \in Sequel(rule, mid, now)
  PROVE  /\ Armed(o.state)
         /\ \A t \in DueTimes(rule, o.state) :
              \/ t \in TriggerDueTimes(rule, mid)
              \/ t \in ReminderDueTimes(st)
              \/ rule.repeatEvery > 0 /\ t = now + rule.repeatEvery
<1>1. Armed(mid) /\ ReminderDueTimes(mid) = ReminderDueTimes(st)
  BY EpisodeDues
<1>2. TriggerDueTimes(rule, o.state) = TriggerDueTimes(rule, mid)
  BY SequelAlongside, AlongsideDues
<1> QED BY <1>1, <1>2, SequelReminders DEF DueTimes

\* An absence rule that watches one source.
OneSource(rule) == rule.trigger = "absence" => SensorsOf(rule) \subseteq {rule.sensors[1]}

(* An event in order is noted, and then ...: what the trigger waits for is  *)
(* what it waited for before, or later than the event.                      *)
LEMMA InOrderTriggers ==
  ASSUME NEW rule, Compiled(rule), OneSource(rule), NEW st \in RuleState, NEW ev \in Event
  PROVE  \E mid \in RuleState :
           /\ InOrder(rule, st, ev) \in Sequel(rule, mid, ev.ts)
           /\ Episode(mid) = Episode(st)
           /\ \A t \in TriggerDueTimes(rule, mid) :
                t \in TriggerDueTimes(rule, st) \/ t > ev.ts
<1>0. rule \in Rule /\ ev.ts \in Nat /\ ev.sensor \in Sensors /\ ev.ts # Unset
  BY DEF Compiled, Event, Unset
<1>1. Silent(st) \in Sequel(rule, st, ev.ts)
  BY DEF Sequel
<1>2. CASE rule.trigger = "absence"
  <2> DEFINE back == HeardAgain(st, ev)
  <2>1. CASE MatchesEvent(rule, ev)
    <3>1. InOrder(rule, st, ev) \in Sequel(rule, back, ev.ts)
      BY <1>2, <2>1, InOrderAbsence DEF Sequel
    <3>2. /\ back \in RuleState /\ Episode(back) = Episode(st)
          /\ back.lastSeen = [st.lastSeen EXCEPT ![ev.sensor] = ev.ts]
      BY HeardType
    <3>3. ev.sensor = rule.sensors[1]
      BY <1>2, <2>1 DEF MatchesEvent, OneSource
    <3>4. back.lastSeen[rule.sensors[1]] = ev.ts
      BY <1>0, <3>2, <3>3 DEF RuleState
    <3> HIDE DEF back
    <3>5. rule.timeout \in Nat /\ rule.timeout > 0
      BY <1>2 DEF Compiled, WellFormed, Rule
    <3>6. \A t \in TriggerDueTimes(rule, back) : t > ev.ts
      BY <1>0, <1>2, <3>4, <3>5 DEF TriggerDueTimes
    <3> QED BY <3>1, <3>2, <3>6
  <2>2. CASE ~MatchesEvent(rule, ev)
    BY <1>1, <1>2, <2>2, InOrderAbsence
  <2> QED BY <2>1, <2>2
<1>3. CASE rule.trigger = "composite"
  <2> DEFINE heard == Heard(st, ev)
             absent == heard.absent \ {ev.sensor}
             active == CompositeConditionActive(rule, absent)
             told == [heard EXCEPT !.absent = absent, !.compositeActive = active]
  <2>1. CASE MatchesEvent(rule, ev)
    <3>1. /\ heard \in RuleState /\ Episode(heard) = Episode(st)
          /\ heard.lastSeen = [st.lastSeen EXCEPT ![ev.sensor] = ev.ts]
          /\ heard.absent = st.absent
      BY HeardType
    <3>2. InOrder(rule, st, ev) \in Sequel(rule, told, ev.ts)
      BY <1>3, <2>1, InOrderComposite DEF SourceReports, Sequel
    <3>3. absent \in SUBSET Sensors /\ active \in BOOLEAN
      BY <3>1 DEF RuleState, CompositeConditionActive
    <3>4. absent = st.absent \ {ev.sensor}
      BY <3>1
    <3> HIDE DEF heard, absent, active
    <3>5. /\ told \in RuleState /\ Episode(told) = Episode(st)
          /\ told.absent = absent /\ told.lastSeen = heard.lastSeen
      BY <3>1, <3>3 DEF RuleState, Episode
    <3>6. /\ SensorsOf(rule) \subseteq Sensors
          /\ \A s \in SensorsOf(rule) : rule.timeouts[s] \in Nat /\ rule.timeouts[s] > 0
      <4>1. SensorsOf(rule) \subseteq Sensors
        BY <1>0, LenProperties DEF SensorsOf, Rule
      <4> QED BY <1>0, <1>3, <4>1 DEF Compiled, WellFormed, Rule
    <3> HIDE DEF told
    <3>7. ASSUME NEW t \in TriggerDueTimes(rule, told)
          PROVE  t \in TriggerDueTimes(rule, st) \/ t > ev.ts
      <4>1. PICK s \in SensorsOf(rule) :
              /\ s \notin absent /\ told.lastSeen[s] # Unset
              /\ t = told.lastSeen[s] + rule.timeouts[s]
        BY <1>3, <3>5, <3>7 DEF TriggerDueTimes
      <4>2. CASE s = ev.sensor
        <5>1. told.lastSeen[s] = ev.ts
          BY <1>0, <3>1, <3>5, <4>2 DEF RuleState
        <5>2. rule.timeouts[s] \in Nat /\ rule.timeouts[s] > 0
          BY <3>6
        <5> QED BY <1>0, <4>1, <5>1, <5>2
      <4>3. CASE s # ev.sensor
        <5>1. told.lastSeen[s] = st.lastSeen[s] /\ s \notin st.absent
          BY <3>1, <3>4, <3>5, <3>6, <4>1, <4>3 DEF RuleState
        <5> QED BY <1>3, <4>1, <5>1 DEF TriggerDueTimes
      <4> QED BY <4>2, <4>3
    <3> QED BY <3>2, <3>5, <3>7
  <2>2. CASE ~MatchesEvent(rule, ev)
    BY <1>1, <1>3, <2>2, InOrderComposite
  <2> QED BY <2>1, <2>2
<1>4. CASE rule.trigger \notin {"absence", "composite"}
  <2>1. PICK mid \in RuleState :
          /\ InOrder(rule, st, ev) \in Sequel(rule, mid, ev.ts)
          /\ Episode(mid) = Episode(st)
          /\ mid.nextWindowEnd = Prune(rule, st, ev.ts).nextWindowEnd
          /\ mid.nextSchedule = st.nextSchedule
    BY InOrderCases
  <2>2. CASE rule.trigger = "window"
    <3>1. rule.slide \in Nat /\ rule.slide > 0
      BY <1>0, <2>2 DEF Compiled, WellFormed, Rule
    <3>2. AlignWindowEnd(ev.ts, rule.slide) > ev.ts
      BY <1>0, <3>1 DEF AlignWindowEnd
    <3>3. \/ mid.nextWindowEnd = st.nextWindowEnd
          \/ mid.nextWindowEnd = AlignWindowEnd(ev.ts, rule.slide)
      BY <2>1 DEF Prune, RuleState
    <3> QED BY <2>1, <2>2, <3>2, <3>3 DEF TriggerDueTimes
  <2>3. CASE rule.trigger # "window"
    BY <1>4, <2>1, <2>3 DEF TriggerDueTimes
  <2> QED BY <2>2, <2>3
<1> QED BY <1>2, <1>3, <1>4

LEMMA InOrderDues ==
  ASSUME NEW rule, Compiled(rule), OneSource(rule), NEW st \in RuleState, Armed(st),
         NEW ev \in Event
  PROVE  LET new == InOrder(rule, st, ev).state
         IN /\ Armed(new)
            /\ \A t \in DueTimes(rule, new) : t \in DueTimes(rule, st) \/ t > ev.ts
<1>0. rule \in Rule /\ ev.ts \in Nat /\ rule.repeatEvery \in Nat
  BY DEF Compiled, Event, Rule
<1>1. PICK mid \in RuleState :
        /\ InOrder(rule, st, ev) \in Sequel(rule, mid, ev.ts)
        /\ Episode(mid) = Episode(st)
        /\ \A t \in TriggerDueTimes(rule, mid) :
             t \in TriggerDueTimes(rule, st) \/ t > ev.ts
  BY InOrderTriggers
<1>2. /\ Armed(InOrder(rule, st, ev).state)
      /\ \A t \in DueTimes(rule, InOrder(rule, st, ev).state) :
           \/ t \in TriggerDueTimes(rule, mid)
           \/ t \in ReminderDueTimes(st)
           \/ rule.repeatEvery > 0 /\ t = ev.ts + rule.repeatEvery
  BY <1>0, <1>1, SequelDues
<1>3. rule.repeatEvery > 0 => ev.ts + rule.repeatEvery > ev.ts
  BY <1>0
<1> QED BY <1>1, <1>2, <1>3 DEF DueTimes

(* A rule that draws no deadline from an event behind the clock: it is not  *)
(* told of it, or it sends no reminders.                                    *)
Unhurried(rule, recompute) ==
  \/ rule.trigger \in {"scheduled", "sequence"}
  \/ rule.trigger = "window" /\ (recompute => rule.repeatEvery = 0)
  \/ rule.trigger = "event" /\ rule.repeatEvery = 0

LEMMA OnLateDues ==
  ASSUME NEW rule \in Rule, NEW recompute, Unhurried(rule, recompute),
         NEW st \in RuleState, Armed(st), NEW ev \in Event
  PROVE  LET new == OnLate(rule, st, ev).state
         IN Armed(new) /\ DueTimes(rule, new) \subseteq DueTimes(rule, st)
<1>0. ev.ts \in Nat /\ rule.repeatEvery \in Nat
  BY DEF Event, Rule
<1>1. PICK mid \in RuleState :
        /\ OnLate(rule, st, ev) \in Sequel(rule, mid, ev.ts)
        /\ rule.trigger # "event" => OnLate(rule, st, ev) = Silent(mid)
        /\ Episode(mid) = Episode(st)
        /\ mid.nextWindowEnd = st.nextWindowEnd
        /\ mid.nextSchedule = st.nextSchedule
  BY OnLateCases
<1>2. TriggerDueTimes(rule, mid) = TriggerDueTimes(rule, st)
  BY <1>1 DEF TriggerDueTimes, Unhurried
<1>3. CASE rule.trigger # "event"
  <2>1. OnLate(rule, st, ev).state = mid
    BY <1>1, <1>3, SilentType
  <2> QED BY <1>1, <1>2, <2>1, EpisodeDues DEF DueTimes
<1>4. CASE rule.trigger = "event"
  <2>1. rule.repeatEvery = 0
    BY <1>4 DEF Unhurried
  <2> QED BY <1>0, <1>1, <1>2, <2>1, SequelDues DEF DueTimes
<1> QED BY <1>3, <1>4

LEMMA RecomputeDues ==
  ASSUME NEW rule \in Rule, rule.repeatEvery = 0, NEW st \in RuleState, Armed(st),
         NEW end \in Nat
  PROVE  LET new == RecomputeWindow(rule, st, end).state
         IN Armed(new) /\ DueTimes(rule, new) \subseteq DueTimes(rule, st)
<1>1. PICK mid \in RuleState :
        /\ Episode(mid) = Episode(st) /\ Alongside(mid) = Alongside(st)
        /\ RecomputeWindow(rule, st, end) \in
             {Silent(mid), EmitEpisode(rule, mid, end),
              [Emitting(rule, mid, "retracted", end) EXCEPT !.state = CloseEpisode(mid)]}
  BY RecomputeWindowCases
<1>2. TriggerDueTimes(rule, mid) = TriggerDueTimes(rule, st)
  BY <1>1, AlongsideDues
<1>3. CASE RecomputeWindow(rule, st, end) \in {Silent(mid), EmitEpisode(rule, mid, end)}
  <2>1. RecomputeWindow(rule, st, end) \in Sequel(rule, mid, end)
    BY <1>3 DEF Sequel
  <2> QED BY <1>1, <1>2, <2>1, SequelDues DEF DueTimes
<1>4. CASE RecomputeWindow(rule, st, end)
             = [Emitting(rule, mid, "retracted", end) EXCEPT !.state = CloseEpisode(mid)]
  <2>1. RecomputeWindow(rule, st, end).state = CloseEpisode(mid)
    BY <1>4 DEF Emitting, Silent
  <2>2. Alongside(CloseEpisode(mid)) = Alongside(mid)
    BY DEF CloseEpisode, Alongside, RuleState
  <2>3. Armed(CloseEpisode(mid)) /\ ReminderDueTimes(CloseEpisode(mid)) = {}
    BY DEF CloseEpisode, Armed, ReminderDueTimes, EpisodeOpen, RuleState
  <2> QED BY <1>2, <2>1, <2>2, <2>3, AlongsideDues DEF DueTimes
<1> QED BY <1>1, <1>3, <1>4

LEMMA OnTimerDues ==
  ASSUME NEW rule, Compiled(rule), NEW st \in RuleState, Armed(st),
         NEW now \in Nat, NEW remember
  PROVE  LET new == OnTimer(rule, st, now, remember).state
         IN /\ Armed(new)
            /\ \A t \in DueTimes(rule, new) : t \in DueTimes(rule, st) \/ t >= now
<1> DEFINE reminded == Remind(rule, st, now).state
           new == OnTimer(rule, st, now, remember).state
<1>0. /\ rule \in Rule /\ rule.repeatEvery \in Nat /\ rule.slide \in Nat /\ rule.cron \in Nat
  BY DEF Compiled, Rule
<1>1. reminded \in RuleState /\ Alongside(reminded) = Alongside(st)
  BY <1>0, RemindType, RemindAlongside
<1>2. /\ Armed(reminded)
      /\ \A t \in ReminderDueTimes(reminded) : t \in ReminderDueTimes(st) \/ t >= now
  BY <1>0 DEF Remind, ReminderDue, Emitting, Silent, Armed, ReminderDueTimes, EpisodeOpen,
     RuleState
<1>3. new = FireTrigger(rule, reminded, now, remember).state
  BY DEF OnTimer, Then
<1> HIDE DEF reminded, new
<1>4. PICK mid \in RuleState :
        /\ FireTrigger(rule, reminded, now, remember) \in Sequel(rule, mid, now)
        /\ Episode(mid) = Episode(reminded)
        /\ mid.lastSeen = reminded.lastSeen
        /\ mid.nextWindowEnd = IF rule.trigger = "window" /\ reminded.nextWindowEnd = now
                               THEN now + rule.slide ELSE reminded.nextWindowEnd
        /\ mid.nextSchedule = IF rule.trigger = "scheduled" /\ reminded.nextSchedule = now
                              THEN NextCronFire(now, rule.cron) ELSE reminded.nextSchedule
        /\ reminded.absenceFired => mid.absenceFired
        /\ reminded.absent \subseteq mid.absent
  BY <1>0, <1>1, FireTriggerCases
<1>5. NextCronFire(now, rule.cron) >= now
  BY <1>0, DayAssumption DEF NextCronFire
<1>6. \A t \in TriggerDueTimes(rule, mid) : t \in TriggerDueTimes(rule, reminded) \/ t >= now
  BY <1>0, <1>4, <1>5 DEF TriggerDueTimes
<1>7. TriggerDueTimes(rule, reminded) = TriggerDueTimes(rule, st)
  BY <1>1, AlongsideDues
<1>8. /\ Armed(new)
      /\ \A t \in DueTimes(rule, new) :
           \/ t \in TriggerDueTimes(rule, mid)
           \/ t \in ReminderDueTimes(reminded)
           \/ rule.repeatEvery > 0 /\ t = now + rule.repeatEvery
  BY <1>0, <1>2, <1>3, <1>4, SequelDues
<1>9. now + rule.repeatEvery >= now
  BY <1>0
<1> QED BY <1>2, <1>6, <1>7, <1>8, <1>9 DEF DueTimes, new
=============================================================================
