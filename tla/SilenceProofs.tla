---------------------------- MODULE SilenceProofs ----------------------------
(***************************************************************************)
(* The conditions over silent sources are what the clock and the last      *)
(* reports say they are, and explain() answers for them as the engine then *)
(* acts.                                                                   *)
(***************************************************************************)
EXTENDS TimerProofs, Explain

\* What an absence rule knows of its source.
AbsenceKept(rule, st, limit) ==
  LET seen == st.lastSeen[rule.sensors[1]]
  IN /\ st.absenceFired => seen # Unset /\ seen + rule.timeout <= limit
     /\ rule.resolve => (EpisodeOpen(st) <=> st.absenceFired)

\* What a composite rule knows of its sources.
CompositeKept(rule, st, limit) ==
  /\ st.absent \subseteq SensorsOf(rule)
  /\ \A s \in st.absent : st.lastSeen[s] # Unset /\ st.lastSeen[s] + rule.timeouts[s] <= limit
  /\ st.compositeActive <=> CompositeConditionActive(rule, st.absent)
  /\ rule.resolve => (EpisodeOpen(st) <=> st.compositeActive)

Kept(rule, st, limit) ==
  /\ rule.trigger = "absence" => AbsenceKept(rule, st, limit)
  /\ rule.trigger = "composite" => CompositeKept(rule, st, limit)

-----------------------------------------------------------------------------
\* The handlers.

LEMMA SourcesType ==
  ASSUME NEW rule, Compiled(rule)
  PROVE  /\ rule.sensors[1] \in SensorsOf(rule) /\ SensorsOf(rule) \subseteq Sensors
         /\ \A s \in SensorsOf(rule) : rule.timeouts[s] \in Nat
         /\ rule.timeout \in Nat
<1>1. rule.sensors \in Seq(Sensors) /\ rule.sensors # << >>
  BY DEF Compiled, WellFormed, Rule
<1>2. Len(rule.sensors) \in Nat \ {0}
  BY <1>1, EmptySeq
<1>3. rule.sensors[1] \in SensorsOf(rule) /\ SensorsOf(rule) \subseteq Sensors
  BY <1>1, <1>2, LenProperties DEF SensorsOf
<1> QED BY <1>3 DEF Compiled, Rule

LEMMA SeenType ==
  ASSUME NEW st \in RuleState, NEW s \in Sensors
  PROVE  st.lastSeen[s] \in Int /\ (st.lastSeen[s] # Unset => st.lastSeen[s] \in Nat)
BY MomentIsInt DEF RuleState

(* Resolving a rule that resolves leaves no episode open, and nothing else  *)
(* changes.                                                                 *)
LEMMA ResolveCloses ==
  ASSUME NEW rule \in Rule, NEW st \in RuleState, NEW now \in Nat
  PROVE  LET new == ResolveEpisode(rule, st, now).state
         IN Alongside(new) = Alongside(st) /\ (rule.resolve => ~EpisodeOpen(new))
<1>1. ResolveEpisode(rule, st, now).state \in {st, CloseEpisode(st)}
  BY DEF ResolveEpisode, Emitting, Silent
<1>2. rule.resolve /\ EpisodeOpen(st) => ResolveEpisode(rule, st, now).state = CloseEpisode(st)
  BY DEF ResolveEpisode, Emitting, Silent
<1>3. ~EpisodeOpen(CloseEpisode(st))
  BY DEF CloseEpisode, EpisodeOpen, RuleState
<1> QED BY <1>1, <1>2, <1>3, ResolveEpisodeAlongside

(* The first emission of a rule that resolves opens an episode.             *)
LEMMA EmitOpens ==
  ASSUME NEW rule \in Rule, rule.resolve, NEW st \in RuleState, ~EpisodeOpen(st),
         NEW now \in Nat
  PROVE  LET new == EmitEpisode(rule, st, now).state
         IN Alongside(new) = Alongside(st) /\ EpisodeOpen(new)
<1>1. EmitEpisode(rule, st, now).state = NoteEmission(rule, st, now)
  BY DEF EmitEpisode, Withheld, Emitting, Silent
<1>2. EpisodeOpen(NoteEmission(rule, st, now))
  BY DEF NoteEmission, HasLifecycle, EpisodeOpen, RuleState, Unset
<1> QED BY <1>1, <1>2, EmitEpisodeAlongside

LEMMA RemindKeepsOpen ==
  ASSUME NEW rule \in Rule, NEW st \in RuleState, NEW now \in Nat
  PROVE  EpisodeOpen(Remind(rule, st, now).state) <=> EpisodeOpen(st)
BY DEF Remind, Emitting, Silent, EpisodeOpen, RuleState

LEMMA MoreAbsentActive ==
  ASSUME NEW rule, NEW A, NEW B, A \subseteq B, CompositeConditionActive(rule, A)
  PROVE  CompositeConditionActive(rule, B)
BY DEF CompositeConditionActive

LEMMA KeptLater ==
  ASSUME NEW rule, Compiled(rule), NEW st \in RuleState, NEW limit \in Int,
         Kept(rule, st, limit), NEW later \in Int, limit <= later
  PROVE  Kept(rule, st, later)
<1>1. CASE rule.trigger = "absence"
  <2>1. st.lastSeen[rule.sensors[1]] \in Int /\ rule.timeout \in Nat
    BY SourcesType, SeenType
  <2> QED BY <1>1, <2>1 DEF Kept, AbsenceKept
<1>2. CASE rule.trigger = "composite"
  <2>1. \A s \in st.absent : s \in SensorsOf(rule) /\ st.lastSeen[s] + rule.timeouts[s] <= limit
    BY <1>2 DEF Kept, CompositeKept
  <2>2. \A s \in st.absent : st.lastSeen[s] \in Int /\ rule.timeouts[s] \in Nat
    BY <2>1, SourcesType, SeenType
  <2>3. \A s \in st.absent : st.lastSeen[s] + rule.timeouts[s] <= later
    BY <2>1, <2>2
  <2> QED BY <1>2, <2>3 DEF Kept, CompositeKept
<1> QED BY <1>1, <1>2 DEF Kept

LEMMA FreshKept ==
  ASSUME NEW rule, Compiled(rule), NEW limit, NEW now
  PROVE  Kept(rule, EmptyState, limit) /\ Kept(rule, FreshState(rule, now), limit)
<1>1. ~CompositeConditionActive(rule, {})
  BY SourcesType DEF CompositeConditionActive
<1>2. Kept(rule, EmptyState, limit)
  BY <1>1 DEF EmptyState, Kept, AbsenceKept, CompositeKept, EpisodeOpen
<1> QED BY <1>2 DEF FreshState, Kept

(* A report of the source of an absence rule ends its silence.              *)
LEMMA InOrderKeepsAbsence ==
  ASSUME NEW rule, Compiled(rule), rule.trigger = "absence",
         NEW st \in RuleState, NEW ev \in Event, AbsenceKept(rule, st, ev.ts)
  PROVE  AbsenceKept(rule, InOrder(rule, st, ev).state, ev.ts)
<1> DEFINE back == HeardAgain(st, ev)
           new == InOrder(rule, st, ev).state
<1>0. rule \in Rule /\ ev.ts \in Nat
  BY DEF Compiled, Event
<1>1. CASE MatchesEvent(rule, ev)
  <2>1. new = ResolveEpisode(rule, back, ev.ts).state
    BY <1>1, InOrderAbsence
  <2>2. back \in RuleState /\ ~back.absenceFired
    BY HeardType
  <2> HIDE DEF back, new
  <2>3. Alongside(new) = Alongside(back) /\ (rule.resolve => ~EpisodeOpen(new))
    BY <1>0, <2>1, <2>2, ResolveCloses
  <2>4. ~new.absenceFired
    BY <2>2, <2>3 DEF Alongside
  <2>5. AbsenceKept(rule, new, ev.ts)
    BY <2>3, <2>4 DEF AbsenceKept
  <2> QED BY <2>5 DEF new
<1>2. CASE ~MatchesEvent(rule, ev)
  BY <1>2, InOrderAbsence, SilentType
<1> QED BY <1>1, <1>2

(* A report of a source takes it from the silent ones.                      *)
LEMMA InOrderKeepsComposite ==
  ASSUME NEW rule, Compiled(rule), rule.trigger = "composite",
         NEW st \in RuleState, NEW ev \in Event, CompositeKept(rule, st, ev.ts)
  PROVE  CompositeKept(rule, InOrder(rule, st, ev).state, ev.ts)
<1> DEFINE heard == Heard(st, ev)
           absent == heard.absent \ {ev.sensor}
           active == CompositeConditionActive(rule, absent)
           told == [heard EXCEPT !.absent = absent, !.compositeActive = active]
           new == InOrder(rule, st, ev).state
<1>0. rule \in Rule /\ ev.ts \in Nat /\ ev.sensor \in Sensors
  BY DEF Compiled, Event
<1>1. CASE MatchesEvent(rule, ev)
  <2>1. /\ heard \in RuleState /\ Episode(heard) = Episode(st)
        /\ heard.lastSeen = [st.lastSeen EXCEPT ![ev.sensor] = ev.ts]
        /\ heard.absent = st.absent /\ heard.compositeActive = st.compositeActive
    BY HeardType
  <2>2. new = IF st.compositeActive /\ ~active
              THEN ResolveEpisode(rule, told, ev.ts).state ELSE Silent(told).state
    BY <1>1, <2>1, InOrderComposite DEF SourceReports
  <2>3. absent = st.absent \ {ev.sensor} /\ absent \in SUBSET Sensors /\ active \in BOOLEAN
    BY <2>1 DEF RuleState, CompositeConditionActive
  <2>4. active => st.compositeActive
    <3>1. active => CompositeConditionActive(rule, st.absent)
      BY <2>3, MoreAbsentActive
    <3> QED BY <3>1 DEF CompositeKept
  <2>5. active <=> CompositeConditionActive(rule, absent)
    OBVIOUS
  <2> HIDE DEF heard, absent, active, new
  <2>6. /\ told \in RuleState /\ Episode(told) = Episode(st)
        /\ told.absent = absent /\ told.lastSeen = heard.lastSeen
        /\ told.compositeActive = active
    BY <2>1, <2>3 DEF RuleState, Episode
  <2> HIDE DEF told
  <2>7. Alongside(new) = Alongside(told)
    BY <1>0, <2>2, <2>6, ResolveCloses, SilentType
  <2>8. /\ new.absent = absent /\ new.lastSeen = heard.lastSeen
        /\ new.compositeActive = active
    BY <2>6, <2>7 DEF Alongside
  <2>9. \A s \in absent : heard.lastSeen[s] = st.lastSeen[s]
    BY <1>0, <2>1, <2>3 DEF RuleState
  <2>10. rule.resolve => (EpisodeOpen(new) <=> active)
    <3>1. EpisodeOpen(told) <=> EpisodeOpen(st)
      BY <2>6 DEF Episode, EpisodeOpen
    <3>2. CASE st.compositeActive /\ ~active
      BY <1>0, <2>2, <2>6, <3>2, ResolveCloses
    <3>3. CASE ~(st.compositeActive /\ ~active)
      <4>1. new = told
        BY <2>2, <2>6, <3>3, SilentType
      <4> QED BY <2>4, <3>1, <3>3, <4>1 DEF CompositeKept
    <3> QED BY <3>2, <3>3
  <2>11. CompositeKept(rule, new, ev.ts)
    BY <2>3, <2>5, <2>8, <2>9, <2>10 DEF CompositeKept
  <2> QED BY <2>11 DEF new
<1>2. CASE ~MatchesEvent(rule, ev)
  BY <1>2, InOrderComposite, SilentType
<1> QED BY <1>1, <1>2

(* The deadline of a source opens the episode of an absence rule.           *)
LEMMA OnTimerKeepsAbsence ==
  ASSUME NEW rule, Compiled(rule), rule.trigger = "absence", NEW st \in RuleState,
         NEW now \in Nat, NEW limit \in Int, now <= limit, NEW remember,
         AbsenceKept(rule, st, limit)
  PROVE  AbsenceKept(rule, OnTimer(rule, st, now, remember).state, limit)
<1> DEFINE reminded == Remind(rule, st, now).state
           fired == [reminded EXCEPT !.absenceFired = TRUE]
           new == OnTimer(rule, st, now, remember).state
<1>0. rule \in Rule
  BY DEF Compiled
<1>1. /\ reminded \in RuleState /\ Alongside(reminded) = Alongside(st)
      /\ EpisodeOpen(reminded) <=> EpisodeOpen(st)
  BY <1>0, RemindType, RemindAlongside, RemindKeepsOpen
<1>2. new = FireAbsence(rule, reminded, now).state
  BY DEF OnTimer, Then, FireTrigger
<1> HIDE DEF reminded, new
<1>3. AbsenceKept(rule, reminded, limit)
  BY <1>1 DEF AbsenceKept, Alongside
<1>4. CASE ~reminded.absenceFired /\ DeadlinePassed(reminded, rule.sensors[1], rule.timeout, now)
  <2>1. /\ fired \in RuleState /\ fired.absenceFired
        /\ fired.lastSeen = reminded.lastSeen
        /\ EpisodeOpen(fired) <=> EpisodeOpen(reminded)
    BY <1>1 DEF RuleState, EpisodeOpen
  <2>2. new = EmitEpisode(rule, fired, now).state
    BY <1>2, <1>4 DEF FireAbsence
  <2> HIDE DEF fired
  <2>3. Alongside(new) = Alongside(fired)
    BY <1>0, <2>1, <2>2, EmitEpisodeAlongside
  <2>4. rule.resolve => EpisodeOpen(new)
    BY <1>0, <1>3, <1>4, <2>1, <2>2, EmitOpens DEF AbsenceKept
  <2>5. /\ new.absenceFired /\ new.lastSeen = reminded.lastSeen
        /\ reminded.lastSeen[rule.sensors[1]] # Unset
        /\ reminded.lastSeen[rule.sensors[1]] + rule.timeout <= limit
    BY <1>4, <2>1, <2>3 DEF Alongside, DeadlinePassed
  <2>6. AbsenceKept(rule, new, limit)
    BY <2>4, <2>5 DEF AbsenceKept
  <2> QED BY <2>6 DEF new
<1>5. CASE ~(~reminded.absenceFired
             /\ DeadlinePassed(reminded, rule.sensors[1], rule.timeout, now))
  <2>1. new = reminded
    BY <1>1, <1>2, <1>5, SilentType DEF FireAbsence
  <2> QED BY <1>3, <2>1 DEF new
<1> QED BY <1>4, <1>5

(* The deadlines of its sources open the episode of a composite rule, once  *)
(* its condition over them holds.                                           *)
LEMMA OnTimerKeepsComposite ==
  ASSUME NEW rule, Compiled(rule), rule.trigger = "composite", NEW st \in RuleState,
         NEW now \in Nat, NEW limit \in Int, now <= limit, NEW remember,
         CompositeKept(rule, st, limit)
  PROVE  CompositeKept(rule, OnTimer(rule, st, now, remember).state, limit)
<1> DEFINE was == Remind(rule, st, now).state
           gone == {s \in SensorsOf(rule) \ was.absent :
                      DeadlinePassed(was, s, rule.timeouts[s], now)}
           absent == was.absent \cup gone
           starts == /\ gone # {}
                     /\ CompositeConditionActive(rule, absent)
                     /\ ~was.compositeActive
           active == was.compositeActive \/ starts
           noted == [was EXCEPT !.absent = absent, !.compositeActive = active]
           new == OnTimer(rule, st, now, remember).state
<1>0. rule \in Rule /\ SensorsOf(rule) \subseteq Sensors
  BY SourcesType DEF Compiled
<1>1. /\ was \in RuleState /\ Alongside(was) = Alongside(st)
      /\ EpisodeOpen(was) <=> EpisodeOpen(st)
  BY <1>0, RemindType, RemindAlongside, RemindKeepsOpen
<1>2. new = FireComposite(rule, was, now).state
  BY DEF OnTimer, Then, FireTrigger
<1> HIDE DEF was
<1>3. new = IF starts THEN EmitEpisode(rule, noted, now).state ELSE Silent(noted).state
  BY <1>2 DEF FireComposite
<1> HIDE DEF new
<1>4. CompositeKept(rule, was, limit)
  BY <1>1 DEF CompositeKept, Alongside
<1>5. absent \in SUBSET Sensors /\ absent \subseteq SensorsOf(rule)
  BY <1>0, <1>4 DEF CompositeKept
<1>6. \A s \in absent : was.lastSeen[s] # Unset /\ was.lastSeen[s] + rule.timeouts[s] <= limit
  BY <1>4 DEF CompositeKept, DeadlinePassed
<1>7. active <=> CompositeConditionActive(rule, absent)
  <2>1. was.compositeActive => CompositeConditionActive(rule, absent)
    BY <1>4, MoreAbsentActive DEF CompositeKept
  <2>2. gone = {} => absent = was.absent
    OBVIOUS
  <2> QED BY <1>4, <2>1, <2>2 DEF CompositeKept
<1>8. active \in BOOLEAN /\ (starts <=> active /\ ~was.compositeActive)
      /\ (was.compositeActive => active)
  OBVIOUS
<1> HIDE DEF absent, starts, active
<1>9. /\ noted \in RuleState /\ noted.absent = absent /\ noted.compositeActive = active
      /\ noted.lastSeen = was.lastSeen /\ (EpisodeOpen(noted) <=> EpisodeOpen(was))
  BY <1>1, <1>5, <1>8 DEF RuleState, EpisodeOpen
<1> HIDE DEF noted
<1>10. Alongside(new) = Alongside(noted)
  BY <1>0, <1>3, <1>9, EmitEpisodeAlongside, SilentType
<1>11. new.absent = absent /\ new.compositeActive = active /\ new.lastSeen = was.lastSeen
  BY <1>9, <1>10 DEF Alongside
<1>12. rule.resolve => (EpisodeOpen(new) <=> active)
  <2>1. CASE starts
    BY <1>0, <1>3, <1>4, <1>8, <1>9, <2>1, EmitOpens DEF CompositeKept
  <2>2. CASE ~starts
    BY <1>3, <1>4, <1>8, <1>9, <2>2, SilentType DEF CompositeKept
  <2> QED BY <2>1, <2>2
<1>13. CompositeKept(rule, new, limit)
  BY <1>5, <1>6, <1>7, <1>11, <1>12 DEF CompositeKept
<1> QED BY <1>13 DEF new

-----------------------------------------------------------------------------
\* The steps.

\* The definitions of a rule agree on what a reload does not look at: whether
\* episodes are resolved, and how the sources are combined.
SteadySilence ==
  \A r \in RuleIds : \A rule, other \in Definitions(r) :
    rule.trigger = other.trigger /\ rule.trigger \in {"absence", "composite"} =>
      rule.resolve = other.resolve /\ rule.operator = other.operator

KeptInv ==
  \A p \in Partitions, r \in RuleIds :
    states[p][r] # NoState => Kept(rules[r], states[p][r], Limit)

LEMMA CompatibleKept ==
  ASSUME NEW old, Compiled(old), OneSource(old), NEW new, Compiled(new), OneSource(new),
         Compatible(old, new), NEW st, NEW limit, Kept(old, st, limit),
         old.trigger \in {"absence", "composite"} =>
           old.resolve = new.resolve /\ old.operator = new.operator
  PROVE  Kept(new, st, limit)
<1>1. old.trigger = "absence" => old.sensors[1] = new.sensors[1]
  BY CompatibleAgree, SourcesType DEF OneSource
<1>2. old.trigger = new.trigger /\ SensorsOf(old) = SensorsOf(new)
  BY CompatibleAgree
<1>3. CASE old.trigger = "absence"
  BY <1>1, <1>2, <1>3, CompatibleAgree DEF Kept, AbsenceKept
<1>4. CASE old.trigger = "composite"
  <2>1. CompositeConditionActive(old, st.absent) <=> CompositeConditionActive(new, st.absent)
    BY <1>2, <1>4 DEF CompositeConditionActive
  <2> QED BY <1>2, <1>4, <2>1, CompatibleAgree DEF Kept, CompositeKept
<1> QED BY <1>2, <1>3, <1>4 DEF Kept

LEMMA KeptStep ==
  ASSUME EngineInv, Straight, OneSourceEach, SteadySilence, TimerInv, KeptInv,
         [Next]_vars, [LateHarmless]_vars
  PROVE  KeptInv'
<1> SUFFICES ASSUME NEW p \in Partitions, NEW r \in RuleIds, states'[p][r] # NoState
             PROVE  Kept(rules'[r], states'[p][r], Limit')
  BY DEF KeptInv
<1> DEFINE Fine(st) == Kept(rules'[r], st, Limit')
<1>0. \A rule \in Definitions(r) : Compiled(rule) /\ OneSource(rule)
  BY ActingCompiled DEF OneSourceEach
<1>a. Limit \in Int /\ Limit' \in Int /\ Limit <= Limit'
  BY LimitGrows, MomentIsInt DEF EngineInv
<1>1. rules'[r] \in Definitions(r)
  <2>1. rules' \in InUse /\ rules'[r] # NoRule
    BY EngineInvStep DEF EngineInv, StateInv, DefinitionsInv, StatesOK
  <2> QED BY <2>1 DEF Definitions
<1>2. ASSUME states[p][r] # NoState, Compatible(rules[r], rules'[r])
      PROVE  states[p][r] \in RuleState /\ Fine(states[p][r])
  <2>1. rules[r] \in Definitions(r) /\ states[p][r] \in RuleState
    BY <1>2 DEF Definitions, EngineInv, StateInv, DefinitionsInv, StatesOK
  <2>2. Kept(rules[r], states[p][r], Limit')
    BY <1>0, <1>a, <1>2, <2>1, KeptLater DEF KeptInv
  <2>3. rules[r].trigger = rules'[r].trigger
    BY <1>2, CompatibleAgree
  <2>4. rules[r].trigger \in {"absence", "composite"} =>
          rules[r].resolve = rules'[r].resolve /\ rules[r].operator = rules'[r].operator
    BY <1>1, <2>1, <2>3 DEF SteadySilence
  <2> QED BY <1>0, <1>1, <1>2, <2>1, <2>2, <2>4, CompatibleKept
<1>3. ASSUME NEW st, From(p, r, st), st # NoState
      PROVE  st \in RuleState /\ Fine(st)
  BY <1>0, <1>1, <1>2, <1>3, FromStraight, FreshKept
<1>4. ASSUME NEW now PROVE Fine(FreshState(rules'[r], now))
  BY <1>0, <1>1, FreshKept
<1> HIDE DEF Fine
<1> SUFFICES Fine(states'[p][r])
  BY DEF Fine
<1>5. CASE Rests(p, r)
  BY <1>3, <1>5 DEF Rests, Yields, Silent
<1>6. CASE Hears(p, r)
  <2>1. PICK rule \in Definitions(r), st \in RuleState \cup {NoState}, ev \in Event :
          HearsFrom(p, r, rule, st, ev)
    BY <1>6 DEF Hears
  <2>2. /\ Compiled(rule) /\ rule \in Rule /\ ev.ts \in Nat
        /\ rule = rules'[r] /\ ev.ts = Limit'
    BY <1>0, <2>1, ActsStraight DEF HearsFrom, Compiled, Event
  <2> DEFINE was == Ensured(rule, st, ev.ts)
  <2>3. was \in RuleState
    BY <2>2, EnsuredType
  <2>4. states'[p][r] = InOrder(rule, was, ev).state
    BY <2>1 DEF HearsFrom, Yields
  <2>5. Fine(was)
    BY <1>3, <1>4, <2>1, <2>2 DEF Ensured, HearsFrom
  <2> HIDE DEF was
  <2> QED BY <2>2, <2>3, <2>4, <2>5, InOrderKeepsAbsence, InOrderKeepsComposite DEF Fine, Kept
<1>7. CASE HearsLate(p, r)
  <2>1. PICK rule \in Definitions(r), ev \in Event : HearsLateOf(p, r, rule, ev)
    BY <1>7 DEF HearsLate
  <2>2. /\ rule = rules'[r] /\ rule = rules[r] /\ ev \in Offered /\ FoldLate(ev)
        /\ p \in FoldedIn(ev, r)
    BY <2>1, ActsStraight DEF HearsLateOf
  <2>3. ~UNCHANGED vars
    BY <2>2, ServedType DEF FoldLate, Serve, vars, EngineInv
  <2>4. Unhurried(rule, RecomputeLate)
    BY <2>2, <2>3 DEF LateHarmless
  <2> QED BY <2>2, <2>4 DEF Unhurried, Fine, Kept
<1>8. CASE Recomputes(p, r)
  <2>1. PICK rule \in Definitions(r), x \in call.reopen : RecomputesAt(p, r, rule, x)
    BY <1>8 DEF Recomputes
  <2>2. rule = rules[r] /\ rule = rules'[r] /\ x.r = r
    BY <2>1, ActsStraight DEF RecomputesAt
  <2>3. rule.trigger = "window"
    BY <2>2 DEF TimerInv
  <2> QED BY <2>2, <2>3 DEF Fine, Kept
<1>9. CASE Times(p, r)
  <2>1. PICK rule \in Definitions(r), due \in Nat : TimesAt(p, r, rule, due)
    BY <1>9 DEF Times
  <2>2. /\ Compiled(rule) /\ rule = rules'[r] /\ rule = rules[r] /\ states[p][r] # NoState
    BY <1>0, <2>1, ActsStraight, StraightGoverns DEF TimesAt
  <2>3. states'[p][r] = OnTimer(rule, states[p][r], due, RecomputeLate).state
    BY <2>1 DEF TimesAt, Yields
  <2>4. due <= Limit'
    BY <2>1 DEF TimesAt
  <2>5. states[p][r] \in RuleState /\ Fine(states[p][r])
    BY <1>2, <2>2 DEF Compatible
  <2> QED BY <1>a, <2>2, <2>3, <2>4, <2>5, OnTimerKeepsAbsence, OnTimerKeepsComposite
      DEF Fine, Kept
<1>10. Turn(p, r)
  BY TurnTaken
<1> QED BY <1>5, <1>6, <1>7, <1>8, <1>9, <1>10 DEF Turn

LEMMA KeptHolds ==
  ASSUME Straight, OneSourceEach, SteadySilence
  PROVE  Spec /\ [][LateHarmless]_vars => [](EngineInv /\ TimerInv /\ KeptInv)
<1>1. Init => KeptInv
  BY DEF Init, KeptInv
<1>2. EngineInv /\ TimerInv /\ KeptInv /\ [Next]_vars /\ [LateHarmless]_vars => KeptInv'
  BY KeptStep
<1> QED BY <1>1, <1>2, TimersHold, PTL DEF Spec

(* What an idle engine knows of a live rule.                                *)
LEMMA IdleKnows ==
  ASSUME EngineInv, TimerInv, KeptInv, Straight, IsIdle, NEW q \in Live
  PROVE  LET rule == Governing(q)
             st == states[q[1]][q[2]]
         IN /\ Compiled(rule) /\ st \in RuleState
            /\ Kept(rule, st, watermark)
            /\ watermark \in Int
            /\ \A due \in DueTimes(rule, st) : due > watermark
<1>1. q[1] \in Partitions /\ q[2] \in RuleIds /\ states[q[1]][q[2]] # NoState
  BY DEF Live
<1>2. Governing(q) = rules[q[2]]
  BY <1>1, StraightGoverns DEF Governing
<1>3. Limit = watermark /\ \A t : NotOver(t) <=> t > watermark
  BY DEF IsIdle, Limit, NotOver
<1>4. Compiled(rules[q[2]]) /\ states[q[1]][q[2]] \in RuleState /\ watermark \in Int
  BY <1>1, MomentIsInt DEF EngineInv, StateInv, RulesOK, StatesOK
<1> QED BY <1>1, <1>2, <1>3, <1>4 DEF KeptInv, TimerInv

(* Between calls an absence rule has fired, and its episode is open, exactly *)
(* while its source has been silent for the timeout: no silence is missed   *)
(* and none outlives the next report (_fire_due_timers, _evaluate_in_order). *)
THEOREM SilenceTracked ==
  ASSUME Straight, OneSourceEach, SteadySilence
  PROVE  Spec /\ [][LateHarmless]_vars => []AbsenceTracksSilence
<1>1. ASSUME EngineInv, TimerInv, KeptInv PROVE AbsenceTracksSilence
  <2> SUFFICES ASSUME IsIdle, NEW q \in LiveOf("absence")
      PROVE  LET rule == Governing(q)
                 st == states[q[1]][q[2]]
                 seen == st.lastSeen[rule.sensors[1]]
                 silent == seen # Unset /\ watermark >= seen + rule.timeout
             IN /\ st.absenceFired <=> silent
                /\ rule.resolve => (EpisodeOpen(st) <=> silent)
    BY DEF AbsenceTracksSilence
  <2> DEFINE rule == Governing(q)
             st == states[q[1]][q[2]]
             seen == st.lastSeen[rule.sensors[1]]
  <2>1. q \in Live /\ rule.trigger = "absence"
    BY DEF LiveOf
  <2>2. /\ Compiled(rule) /\ st \in RuleState /\ AbsenceKept(rule, st, watermark)
        /\ watermark \in Int /\ \A due \in DueTimes(rule, st) : due > watermark
    BY <1>1, <2>1, IdleKnows DEF Kept
  <2> HIDE DEF rule, st
  <2>3. seen \in Int /\ rule.timeout \in Nat
    BY <2>2, SourcesType, SeenType
  <2>4. ~st.absenceFired /\ seen # Unset => seen + rule.timeout > watermark
    BY <2>1, <2>2 DEF DueTimes, TriggerDueTimes
  <2>5. st.absenceFired <=> seen # Unset /\ watermark >= seen + rule.timeout
    BY <2>2, <2>3, <2>4 DEF AbsenceKept
  <2>6. rule.resolve => (EpisodeOpen(st) <=> st.absenceFired)
    BY <2>2 DEF AbsenceKept
  <2> QED BY <2>5, <2>6 DEF rule, st
<1> QED BY <1>1, KeptHolds, PTL

(* ... and a composite rule has marked exactly the sources that are silent, *)
(* and its episode is open exactly while its condition over them holds.     *)
THEOREM SourcesTracked ==
  ASSUME Straight, OneSourceEach, SteadySilence
  PROVE  Spec /\ [][LateHarmless]_vars => []CompositeTracksSources
<1>1. ASSUME EngineInv, TimerInv, KeptInv PROVE CompositeTracksSources
  <2> SUFFICES ASSUME IsIdle, NEW q \in LiveOf("composite")
      PROVE  LET rule == Governing(q)
                 st == states[q[1]][q[2]]
                 silent == {s \in SensorsOf(rule) :
                              /\ st.lastSeen[s] # Unset
                              /\ watermark >= st.lastSeen[s] + rule.timeouts[s]}
                 active == IF rule.operator = "OR" THEN silent # {}
                           ELSE SensorsOf(rule) \subseteq silent
             IN /\ st.absent = silent
                /\ st.compositeActive <=> active
                /\ rule.resolve => (EpisodeOpen(st) <=> active)
    BY DEF CompositeTracksSources
  <2> DEFINE rule == Governing(q)
             st == states[q[1]][q[2]]
             silent == {s \in SensorsOf(rule) :
                          /\ st.lastSeen[s] # Unset
                          /\ watermark >= st.lastSeen[s] + rule.timeouts[s]}
             active == IF rule.operator = "OR" THEN silent # {}
                       ELSE SensorsOf(rule) \subseteq silent
  <2>1. q \in Live /\ rule.trigger = "composite"
    BY DEF LiveOf
  <2>2. /\ Compiled(rule) /\ st \in RuleState /\ CompositeKept(rule, st, watermark)
        /\ watermark \in Int /\ \A due \in DueTimes(rule, st) : due > watermark
    BY <1>1, <2>1, IdleKnows DEF Kept
  <2> HIDE DEF rule, st
  <2>3. \A s \in SensorsOf(rule) : st.lastSeen[s] \in Int /\ rule.timeouts[s] \in Nat
    BY <2>2, SourcesType, SeenType
  <2>4. ASSUME NEW s \in SensorsOf(rule), s \notin st.absent, st.lastSeen[s] # Unset
        PROVE  st.lastSeen[s] + rule.timeouts[s] > watermark
    <3>1. st.lastSeen[s] + rule.timeouts[s] \in DueTimes(rule, st)
      BY <2>1, <2>4 DEF DueTimes, TriggerDueTimes
    <3> QED BY <2>2, <3>1
  <2>5. st.absent = silent
    BY <2>2, <2>3, <2>4 DEF CompositeKept
  <2> HIDE DEF silent
  <2>6. silent \subseteq SensorsOf(rule)
    BY DEF silent
  <2>7. st.compositeActive <=> active
    BY <2>2, <2>5, <2>6 DEF CompositeKept, CompositeConditionActive
  <2>8. rule.resolve => (EpisodeOpen(st) <=> active)
    BY <2>2, <2>7 DEF CompositeKept
  <2> QED BY <2>5, <2>7, <2>8 DEF rule, st, silent
<1> QED BY <1>1, KeptHolds, PTL

(* With one entity and no tolerance for late events the two hold of every   *)
(* sequence of calls.                                                       *)
THEOREM PunctualSilence ==
  ASSUME Straight, OneSourceEach, SteadySilence, OneEntity, Punctual
  PROVE  Spec => []AbsenceTracksSilence /\ []CompositeTracksSources
BY SilenceTracked, SourcesTracked, PunctualCalls, PTL

-----------------------------------------------------------------------------
\* explain().

\* What a handler does is what the answer announces.
Answered(answer, o) ==
  /\ \A label \in {"firing", "repeat"} :
       answer = WouldEmit(label) <=> \E i \in DOMAIN o.alerts : o.alerts[i].label = label
  /\ answer.outcome = "suppressed" <=> o.suppressed

\* An answer that announces nothing.
Quiescent(answer) == answer.outcome \notin {"would_emit", "suppressed"}

LEMMA QuietAnswered ==
  ASSUME NEW answer, Quiescent(answer), NEW rule, NEW st, NEW now
  PROVE  Answered(answer, Silent(st)) /\ Answered(answer, ResolveEpisode(rule, st, now))
<1>1. \A label : answer # WouldEmit(label)
  BY DEF Quiescent, WouldEmit
<1>2. answer.outcome # "suppressed"
  BY DEF Quiescent
<1>3. DOMAIN << >> = {} /\ ~Silent(st).suppressed /\ Silent(st).alerts = << >>
  BY DEF Silent
<1>4. Answered(answer, Silent(st))
  BY <1>1, <1>2, <1>3 DEF Answered
<1> DEFINE o == ResolveEpisode(rule, st, now)
<1>5. o = Silent(st) \/ /\ ~o.suppressed
                        /\ o.alerts = <<BuildAlert(rule, st, "resolved", now)>>
  BY DEF ResolveEpisode, Emitting, Silent
<1>6. CASE o.alerts = <<BuildAlert(rule, st, "resolved", now)>> /\ ~o.suppressed
  <2>1. \A i \in DOMAIN o.alerts : o.alerts[i].label = "resolved"
    BY <1>6 DEF BuildAlert
  <2> HIDE DEF o
  <2>2. Answered(answer, o)
    BY <1>1, <1>2, <1>6, <2>1 DEF Answered
  <2> QED BY <1>4, <2>2 DEF o
<1> QED BY <1>4, <1>5, <1>6

(* An emission is suppressed, or carries the label announced.               *)
LEMMA EmissionAnswered ==
  ASSUME NEW rule, NEW st, NEW mid, Episode(mid) = Episode(st), NEW now
  PROVE  Answered(LifecycleOutcome(rule, st, now), EmitEpisode(rule, mid, now))
<1> DEFINE label == LifecycleLabel(rule, st)
           after == NoteEmission(rule, mid, now)
<1>1. /\ Withheld(rule, mid, now) <=> Withheld(rule, st, now)
      /\ LifecycleLabel(rule, mid) = label
  BY DEF Episode, Withheld, LifecycleLabel, EpisodeOpen, LastEmission
<1>2. CASE Withheld(rule, st, now)
  <2>1. LifecycleOutcome(rule, st, now) = Answer("suppressed")
    BY <1>2 DEF LifecycleOutcome
  <2>2. EmitEpisode(rule, mid, now).suppressed /\ EmitEpisode(rule, mid, now).alerts = << >>
    BY <1>1, <1>2 DEF EmitEpisode, Silent
  <2> QED BY <2>1, <2>2 DEF Answered, Answer, WouldEmit
<1>3. CASE ~Withheld(rule, st, now)
  <2>1. LifecycleOutcome(rule, st, now) = WouldEmit(label)
    BY <1>3 DEF LifecycleOutcome
  <2>2. /\ EmitEpisode(rule, mid, now).alerts = <<BuildAlert(rule, after, label, now)>>
        /\ ~EmitEpisode(rule, mid, now).suppressed
    BY <1>1, <1>3 DEF EmitEpisode, Emitting, Silent
  <2>3. BuildAlert(rule, after, label, now).label = label
    BY DEF BuildAlert
  <2> HIDE DEF label, after
  <2>4. \A other : WouldEmit(label) = WouldEmit(other) <=> label = other
    BY DEF WouldEmit
  <2>5. WouldEmit(label).outcome # "suppressed"
    BY DEF WouldEmit
  <2>6. /\ DOMAIN EmitEpisode(rule, mid, now).alerts = {1}
        /\ EmitEpisode(rule, mid, now).alerts[1].label = label
    BY <2>2, <2>3
  <2> QED BY <2>1, <2>2, <2>4, <2>5, <2>6 DEF Answered
<1> QED BY <1>2, <1>3

LEMMA SpanlessInOrder ==
  ASSUME NEW rule, Compiled(rule), rule.trigger \notin {"window", "scheduled"},
         NEW st \in RuleState, NEW ev \in Event
  PROVE  InOrder(rule, st, ev) =
           IF ~MatchesEvent(rule, ev) THEN Silent(st)
           ELSE CASE rule.trigger = "event" -> EvaluateEventRule(rule, Heard(st, ev), ev)
                  [] rule.trigger = "sequence" -> AdvanceSequence(rule, Heard(st, ev), ev)
                  [] rule.trigger = "absence" -> Heartbeat(rule, Heard(st, ev), ev)
                  [] rule.trigger = "composite" -> SourceReports(rule, Heard(st, ev), ev)
                  [] OTHER -> Silent(Heard(st, ev))
<1>1. Prune(rule, st, ev.ts) = st /\ ~Buffers(rule)
  BY DEF Compiled, WellFormed, Prune, Span, MaxOf, Buffers
<1> QED BY <1>1 DEF InOrder, Heard

LEMMA EventAnswered ==
  ASSUME NEW rule, Compiled(rule), rule.trigger = "event",
         NEW st \in RuleState, NEW ev \in Event, AppliesToEntity(rule, ev.entity)
  PROVE  Answered(ExplainEvent(rule, st, ev), InOrder(rule, st, ev))
<1>1. Episode(Heard(st, ev)) = Episode(st)
  BY HeardType
<1>2. CASE ev.sensor \notin SensorsOf(rule)
  <2>1. InOrder(rule, st, ev) = Silent(st)
    BY <1>2, SpanlessInOrder DEF MatchesEvent
  <2>2. Quiescent(ExplainEvent(rule, st, ev))
    BY <1>2 DEF ExplainEvent, Answer, Quiescent
  <2> QED BY <2>1, <2>2, QuietAnswered
<1>3. CASE ev.sensor \in SensorsOf(rule)
  <2>1. InOrder(rule, st, ev) = EvaluateEventRule(rule, Heard(st, ev), ev)
    BY <1>3, SpanlessInOrder DEF MatchesEvent
  <2>2. CASE EvaluateOperands(rule, EventValues(ev))
    <3>1. InOrder(rule, st, ev) = EmitEpisode(rule, Heard(st, ev), ev.ts)
      BY <2>1, <2>2 DEF EvaluateEventRule
    <3>2. ExplainEvent(rule, st, ev) = LifecycleOutcome(rule, st, ev.ts)
      BY <1>3, <2>2 DEF ExplainEvent
    <3> QED BY <1>1, <3>1, <3>2, EmissionAnswered
  <2>3. CASE ~EvaluateOperands(rule, EventValues(ev))
    <3>1. InOrder(rule, st, ev) = ResolveEpisode(rule, Heard(st, ev), ev.ts)
      BY <2>1, <2>3 DEF EvaluateEventRule
    <3>2. Quiescent(ExplainEvent(rule, st, ev))
      BY <1>3, <2>3 DEF ExplainEvent, Answer, Quiescent
    <3> QED BY <3>1, <3>2, QuietAnswered
  <2> QED BY <2>2, <2>3
<1> QED BY <1>2, <1>3

LEMMA SequenceAnswered ==
  ASSUME NEW rule, Compiled(rule), rule.trigger = "sequence", rule.operands = {},
         NEW st \in RuleState, NEW ev \in Event, AppliesToEntity(rule, ev.entity)
  PROVE  Answered(ExplainSequence(rule, st, ev), InOrder(rule, st, ev))
<1> DEFINE heard == Heard(st, ev)
           live == AliveMatches(rule, st, ev.ts)
           expected == {rule.steps[m.step + 1] : m \in live} \cup {rule.steps[1]}
           complete == Completing(rule, live, ev.sensor)
           consumed == [heard EXCEPT !.partial = {}]
           advanced == [heard EXCEPT !.partial = Advanced(rule, live, ev)]
           answer == ExplainSequence(rule, st, ev)
<1>1. heard \in RuleState /\ Episode(heard) = Episode(st) /\ heard.partial = st.partial
  BY HeardType DEF Heard, RuleState
<1>2. AliveMatches(rule, heard, ev.ts) = live
  BY <1>1 DEF AliveMatches
<1>3. Episode(consumed) = Episode(st)
  BY <1>1 DEF Episode, RuleState
<1>4. complete # {} => ev.sensor \in SensorsOf(rule) /\ ev.sensor \in expected
  <2> SUFFICES ASSUME NEW m \in complete
               PROVE  ev.sensor \in SensorsOf(rule) /\ ev.sensor \in expected
    OBVIOUS
  <2>1. m \in live /\ rule.steps[m.step + 1] = ev.sensor /\ m.step + 1 = Len(rule.steps)
    BY DEF Completing, Expected
  <2>2. Len(rule.steps) \in DOMAIN rule.steps
    BY LenProperties DEF Compiled, WellFormed, Rule
  <2> QED BY <2>1, <2>2 DEF Compiled, WellFormed
<1>5. answer =
        CASE ev.sensor = rule.without -> Answer("cancelled")
          [] ev.sensor # rule.without /\ ev.sensor \notin expected -> Answer("ignored")
          [] OTHER -> IF complete = {} THEN Answer("advanced")
                      ELSE LifecycleOutcome(rule, st, ev.ts)
  BY DEF ExplainSequence
<1>6. InOrder(rule, st, ev) =
        IF ~MatchesEvent(rule, ev) THEN Silent(st)
        ELSE CASE ev.sensor = rule.without -> Silent(consumed)
               [] ev.sensor # rule.without /\ complete = {} -> Silent(advanced)
               [] OTHER -> EmitEpisode(rule, consumed, ev.ts)
  BY ZenonT(40), <1>2, SpanlessInOrder DEF AdvanceSequence
<1> HIDE DEF heard, live, expected, complete, consumed, advanced, answer
<1>7. CASE complete # {} /\ ev.sensor # rule.without
  <2>1. answer = LifecycleOutcome(rule, st, ev.ts)
    BY <1>4, <1>5, <1>7
  <2>2. InOrder(rule, st, ev) = EmitEpisode(rule, consumed, ev.ts)
    BY <1>4, <1>6, <1>7 DEF MatchesEvent
  <2> QED BY <1>3, <2>1, <2>2, EmissionAnswered DEF answer
<1>8. CASE complete = {} \/ ev.sensor = rule.without
  <2>1. answer \in {Answer("cancelled"), Answer("ignored"), Answer("advanced")}
    BY <1>5, <1>8
  <2>2. InOrder(rule, st, ev) \in {Silent(st), Silent(consumed), Silent(advanced)}
    BY <1>6, <1>8
  <2>3. Quiescent(answer)
    BY <2>1 DEF Answer, Quiescent
  <2> QED BY <2>2, <2>3, QuietAnswered DEF answer
<1> QED BY <1>7, <1>8

(* The condition of a composite rule that holds has been announced by its   *)
(* timer, and a report can only end it.                                     *)
LEMMA CompositeAnswered ==
  ASSUME NEW rule, Compiled(rule), rule.trigger = "composite",
         NEW st \in RuleState, NEW ev \in Event, CompositeKept(rule, st, ev.ts)
  PROVE  Answered(ExplainComposite(rule, st, ev.ts), InOrder(rule, st, ev))
<1>1. ExplainComposite(rule, st, ev.ts) \in {Answer("condition_not_met"), Answer("already_fired")}
  BY DEF CompositeKept, ExplainComposite
<1>2. Quiescent(ExplainComposite(rule, st, ev.ts))
  BY <1>1 DEF Answer, Quiescent
<1>3. \E mid : InOrder(rule, st, ev) \in {Silent(mid), ResolveEpisode(rule, mid, ev.ts)}
  BY InOrderComposite DEF SourceReports
<1> QED BY <1>2, <1>3, QuietAnswered

(* The deadline of a source fires before an event later than it is handed   *)
(* over.                                                                    *)
LEMMA AbsenceAnswered ==
  ASSUME NEW rule, Compiled(rule), rule.trigger = "absence", OneSource(rule),
         NEW st \in RuleState, NEW ev \in Event, AppliesToEntity(rule, ev.entity),
         AbsenceKept(rule, st, ev.ts),
         \A due \in TriggerDueTimes(rule, st) : due > ev.ts
  PROVE  LET answer == ExplainAbsence(rule, st, ev)
             after == InOrder(rule, st, ev).state
             seen == st.lastSeen[rule.sensors[1]]
         IN /\ Answered(answer, InOrder(rule, st, ev))
            /\ answer.outcome = "waiting" => TimerLeft(rule, after, {seen + rule.timeout})
            /\ answer.outcome = "timer_reset" => TimerLeft(rule, after, {ev.ts + rule.timeout})
            /\ answer.outcome = "already_fired" => TimerLeft(rule, after, {})
<1> DEFINE answer == ExplainAbsence(rule, st, ev)
           after == InOrder(rule, st, ev).state
           seen == st.lastSeen[rule.sensors[1]]
           back == HeardAgain(st, ev)
<1>1. /\ rule.sensors[1] \in SensorsOf(rule) /\ rule.sensors[1] \in Sensors
      /\ seen \in Int /\ rule.timeout \in Nat /\ rule \in Rule /\ ev.ts \in Nat
      /\ ev.sensor \in Sensors /\ ev.ts # Unset
  BY SourcesType, SeenType DEF Compiled, Event, Unset
<1>2. ev.sensor \in SensorsOf(rule) <=> MatchesEvent(rule, ev)
  BY DEF MatchesEvent
<1>3. seen # Unset /\ ~st.absenceFired => ev.ts < seen + rule.timeout
  BY DEF TriggerDueTimes
<1>4. st.absenceFired => seen # Unset /\ seen + rule.timeout <= ev.ts
  BY DEF AbsenceKept
<1>5. InOrder(rule, st, ev) = IF MatchesEvent(rule, ev) THEN ResolveEpisode(rule, back, ev.ts)
                              ELSE Silent(st)
  BY InOrderAbsence
<1>6. /\ answer.outcome = "timer_not_started" <=> seen = Unset
      /\ answer.outcome = "timer_reset" <=> seen # Unset /\ MatchesEvent(rule, ev)
      /\ answer.outcome = "waiting" <=>
           seen # Unset /\ ~MatchesEvent(rule, ev) /\ ~st.absenceFired
      /\ answer.outcome \in {"timer_not_started", "timer_reset", "waiting", "already_fired"}
      /\ answer.outcome = "already_fired" => ~MatchesEvent(rule, ev) /\ st.absenceFired
  <2>1. ev.ts >= seen + rule.timeout => seen = Unset \/ st.absenceFired
    BY <1>1, <1>3
  <2>2. st.absenceFired => seen # Unset /\ ev.ts >= seen + rule.timeout
    BY <1>1, <1>4
  <2>3. seen = Unset => answer = Answer("timer_not_started")
    BY DEF ExplainAbsence
  <2>4. seen # Unset /\ MatchesEvent(rule, ev) => answer = Answer("timer_reset")
    BY <1>2 DEF ExplainAbsence
  <2>5. seen # Unset /\ ~MatchesEvent(rule, ev) /\ ~st.absenceFired => answer = Answer("waiting")
    BY <1>2, <2>1 DEF ExplainAbsence
  <2>6. seen # Unset /\ ~MatchesEvent(rule, ev) /\ st.absenceFired
        => answer = Answer("already_fired")
    BY <1>2, <2>2 DEF ExplainAbsence
  <2> HIDE DEF answer, seen
  <2> QED BY <2>3, <2>4, <2>5, <2>6 DEF Answer
<1>7. Answered(answer, InOrder(rule, st, ev))
  <2>1. Quiescent(answer)
    BY <1>6 DEF Quiescent
  <2> HIDE DEF answer, back
  <2> QED BY <1>5, <2>1, QuietAnswered
<1>8. ~MatchesEvent(rule, ev) => after = st
  BY <1>5 DEF Silent
<1>9. MatchesEvent(rule, ev) => TimerLeft(rule, after, {ev.ts + rule.timeout})
  <2> SUFFICES ASSUME MatchesEvent(rule, ev)
               PROVE  TimerLeft(rule, after, {ev.ts + rule.timeout})
    OBVIOUS
  <2>1. back \in RuleState /\ ~back.absenceFired /\ back.lastSeen = [st.lastSeen EXCEPT ![ev.sensor] = ev.ts]
    BY HeardType
  <2>2. ev.sensor = rule.sensors[1]
    BY <1>2 DEF OneSource
  <2>3. back.lastSeen[rule.sensors[1]] = ev.ts
    BY <1>1, <2>1, <2>2 DEF RuleState
  <2>4. after = ResolveEpisode(rule, back, ev.ts).state
    BY <1>5
  <2> HIDE DEF back, after
  <2>5. Alongside(after) = Alongside(back)
    BY <1>1, <2>1, <2>4, ResolveEpisodeAlongside
  <2>6. TriggerDueTimes(rule, after) = TriggerDueTimes(rule, back)
    BY <2>5, AlongsideDues
  <2>7. TriggerDueTimes(rule, back) = {ev.ts + rule.timeout}
    BY <1>1, <2>1, <2>3 DEF TriggerDueTimes
  <2> QED BY <2>6, <2>7 DEF TimerLeft
<1>10. ~MatchesEvent(rule, ev) /\ st.absenceFired => TimerLeft(rule, after, {})
  BY <1>8 DEF TimerLeft, TriggerDueTimes
<1>11. ~MatchesEvent(rule, ev) /\ ~st.absenceFired /\ seen # Unset
         => TimerLeft(rule, after, {seen + rule.timeout})
  BY <1>8 DEF TimerLeft, TriggerDueTimes
<1> HIDE DEF answer, after, seen
<1> QED BY <1>6, <1>7, <1>9, <1>10, <1>11 DEF answer, after, seen

LEMMA RuleAnswered ==
  ASSUME NEW rule, Compiled(rule), OneSource(rule), rule.trigger # "window",
         rule.trigger = "sequence" => rule.operands = {},
         NEW st \in RuleState, NEW ev \in Event, AppliesToEntity(rule, ev.entity),
         Kept(rule, st, ev.ts), \A due \in TriggerDueTimes(rule, st) : due > ev.ts,
         NEW was \in RuleState, rule.trigger # "scheduled" => was = st
  PROVE  LET answer == ExplainRule(rule, st, ev)
             after == InOrder(rule, was, ev).state
             seen == st.lastSeen[rule.sensors[1]]
         IN /\ Answered(answer, InOrder(rule, was, ev))
            /\ rule.trigger = "absence" =>
                 /\ answer.outcome = "waiting" => TimerLeft(rule, after, {seen + rule.timeout})
                 /\ answer.outcome = "timer_reset" =>
                      TimerLeft(rule, after, {ev.ts + rule.timeout})
                 /\ answer.outcome = "already_fired" => TimerLeft(rule, after, {})
<1>1. CASE rule.trigger = "event"
  BY <1>1, EventAnswered DEF ExplainRule
<1>2. CASE rule.trigger = "sequence"
  BY <1>2, SequenceAnswered DEF ExplainRule
<1>3. CASE rule.trigger = "composite"
  BY <1>3, CompositeAnswered DEF ExplainRule, Kept
<1>4. CASE rule.trigger = "absence"
  <2>1. ExplainRule(rule, st, ev) = ExplainAbsence(rule, st, ev) /\ was = st
    BY <1>4 DEF ExplainRule
  <2> QED BY <1>4, <2>1, AbsenceAnswered DEF Kept
<1>5. CASE rule.trigger = "scheduled"
  <2>1. ExplainRule(rule, st, ev) = Answer("scheduled")
    BY <1>5 DEF ExplainRule
  <2>2. Quiescent(ExplainRule(rule, st, ev))
    BY <2>1 DEF Answer, Quiescent
  <2>3. \E mid : InOrder(rule, was, ev) = Silent(mid)
    BY <1>5 DEF InOrder
  <2> QED BY <1>5, <2>2, <2>3, QuietAnswered
<1> QED BY <1>1, <1>2, <1>3, <1>4, <1>5 DEF Compiled, Rule, Triggers

(* A call that hands its event over has run the timers up to it, and has    *)
(* applied no reload.                                                       *)
LEMMA HandedOver ==
  ASSUME EngineInv, [Next]_vars, HandsOver
  PROVE  /\ call.event \in Event /\ Limit = call.event.ts
         /\ TimersRun(call.event.ts)
         /\ Deliver(call.event, rules, states, draining, out)
<1>1. Settle
  BY DEF HandsOver, Next, ProcessEvent, RefuseLate, FoldLate, FirstEvent, AcceptEvent,
         FirstAdvance, AdvanceTo, Reload, ReloadNow, StageReload, Progress, FireDue,
         Recompute, Serve, vars
<1>2. call.event \in Event /\ call.event.ts = call.target /\ Limit = call.event.ts
  BY DEF HandsOver, EngineInv, ProgressInv, Limit
<1>3. ~Activates(call.target)
  BY <1>1 DEF HandsOver, Settle, Activates
<1>4. Activated(call.target) = [rules |-> rules, states |-> states, draining |-> draining]
  BY <1>3 DEF Activated
<1> QED BY <1>1, <1>2, <1>4 DEF Settle, HandsOver

LEMMA NewAlertsAre ==
  ASSUME NEW S, NEW s \in Seq(S), NEW t \in Seq(S)
  PROVE  LET new == SubSeq(s \o t, Len(s) + 1, Len(s \o t))
         IN /\ DOMAIN new = DOMAIN t
            /\ \A i \in DOMAIN t : new[i] = t[i]
<1>1. /\ s \o t \in Seq(S) /\ Len(s) \in Nat /\ Len(t) \in Nat
      /\ Len(s \o t) = Len(s) + Len(t)
      /\ DOMAIN t = 1 .. Len(t)
      /\ \A i \in 1 .. Len(s) + Len(t) :
           (s \o t)[i] = IF i <= Len(s) THEN s[i] ELSE t[i - Len(s)]
  BY ConcatProperties, LenProperties
<1> QED BY <1>1, SubSeqProperties

LEMMA ExplainStep ==
  ASSUME EngineInv, Straight, OneSourceEach, KeptInv, [Next]_vars, HandsOver,
         NEW r \in Explained(call.event)
  PROVE  LET p == PartitionKey(rules[r], call.event)
             rule == RuleFor(rules, draining, p, r)
             was == states[p][r]
             seen == IF was = NoState \/ rule.trigger # "absence" THEN Unset
                     ELSE was.lastSeen[rule.sensors[1]]
             emitted == {NewAlerts(p, r)[i] : i \in DOMAIN NewAlerts(p, r)}
         IN /\ rule.trigger # "window"
            /\ rule.trigger = "sequence" => rule.operands = {}
            => AnswerKept(ExplainFor(call.event, r), rule, seen, call.event,
                          states'[p][r], emitted, suppressed'[r] > suppressed[r])
<1> DEFINE ev == call.event
           p == PartitionKey(rules[r], ev)
           rule == rules[r]
           st == IF states[p][r] = NoState THEN EmptyState ELSE states[p][r]
           was == Ensured(rule, states[p][r], ev.ts)
           handle(q) == InOrder(RuleFor(rules, draining, q, r),
                                Ensured(RuleFor(rules, draining, q, r), states[q][r], ev.ts), ev)
           outcome(q) == IF q \in SeenIn(rules[r], ev) THEN handle(q) ELSE Silent(states[q][r])
           all == [q \in Partitions |-> [s \in RuleIds |->
                     IF q \in SeenIn(rules[s], ev)
                     THEN LET governing == RuleFor(rules, draining, q, s)
                          IN InOrder(governing, Ensured(governing, states[q][s], ev.ts), ev)
                     ELSE Silent(states[q][s])]]
           held == {q \in Partitions : outcome(q).suppressed}
           o == outcome(p)
           answer == ExplainFor(ev, r)
           new == NewAlerts(p, r)
           emitted == {new[i] : i \in DOMAIN new}
           seen == st.lastSeen[rule.sensors[1]]
<1>1. /\ r \in RuleIds /\ rules[r] # NoRule /\ Compiled(rule) /\ OneSource(rule)
      /\ ev \in Event /\ ev.ts \in Nat /\ p \in Partitions /\ p # NoPartition
      /\ rule.sensors[1] \in Sensors
  <2>1. r \in RuleIds /\ rules[r] # NoRule /\ p # NoPartition
    BY DEF Explained
  <2>2. ev \in Event /\ ev.ts \in Nat
    BY HandedOver DEF Event
  <2>3. Compiled(rule) /\ rules[r] \in Definitions(r)
    BY <2>1 DEF EngineInv, StateInv, RulesOK, DefinitionsInv, Definitions
  <2>4. OneSource(rule)
    BY <2>1, <2>3 DEF OneSourceEach
  <2>5. p \in Partitions
    BY <2>1, <2>2 DEF PartitionKey, Partitions, NoPartition, Event
  <2>6. rule.sensors[1] \in Sensors
    BY <2>3, SourcesType
  <2> HIDE DEF p
  <2> QED BY <2>1, <2>2, <2>3, <2>4, <2>5, <2>6
<1>2. RuleFor(rules, draining, p, r) = rule
  BY <1>1, StraightGoverns
<1>3. states[p][r] \in RuleState \cup {NoState} /\ st \in RuleState /\ was \in RuleState
  <2>1. states[p][r] \in RuleState \cup {NoState}
    BY <1>1 DEF EngineInv, StateInv, StatesOK
  <2> QED BY <1>1, <2>1, EmptyStateType, EnsuredType DEF Compiled
<1>4. /\ states'[p][r] = o.state /\ out'[p][r] = out[p][r] \o o.alerts
      /\ suppressed'[r] = suppressed[r] + Cardinality(held)
  <2>1. Commit(all, out, draining)
    BY HandedOver DEF Deliver
  <2>2. \A q \in Partitions : all[q][r] = outcome(q)
    BY <1>1
  <2> HIDE DEF all, outcome, p
  <2>3. held = {q \in Partitions : all[q][r].suppressed}
    BY <2>2
  <2> HIDE DEF held
  <2> QED BY <1>1, <2>1, <2>2, <2>3 DEF Commit
<1>5. o = IF AppliesToEntity(rule, ev.entity) THEN InOrder(rule, was, ev)
          ELSE Silent(states[p][r])
  BY <1>1, <1>2 DEF SeenIn
<1>6. answer = IF AppliesToEntity(rule, ev.entity) THEN ExplainRule(rule, st, ev)
               ELSE Answer("entity_not_matched")
  BY <1>2 DEF ExplainFor, ExplainRule
<1>7. o.alerts \in Seq(Alert) /\ o.suppressed \in BOOLEAN
  <2>1. Silent(states[p][r]).alerts \in Seq(Alert) /\ Silent(states[p][r]).suppressed = FALSE
    BY EmptySeq DEF Silent
  <2>2. InOrder(rule, was, ev) \in Outcome
    BY <1>1, <1>3, InOrderType
  <2> HIDE DEF o, was, p
  <2> QED BY <1>5, <2>1, <2>2 DEF Outcome
<1>8. held = IF o.suppressed THEN {p} ELSE {}
  <2>1. ASSUME NEW q \in Partitions, q # p PROVE ~outcome(q).suppressed
    <3>1. q \notin SeenIn(rules[r], ev)
      BY <2>1 DEF SeenIn
    <3> QED BY <3>1 DEF Silent
  <2> HIDE DEF outcome
  <2> QED BY <1>1, <1>7, <2>1
<1>9. suppressed'[r] > suppressed[r] <=> o.suppressed
  <2>1. suppressed[r] \in Nat
    BY <1>1 DEF EngineInv, StateInv
  <2>2. Cardinality({p}) = 1 /\ Cardinality({}) = 0
    BY FS_Singleton, FS_EmptySet
  <2> HIDE DEF held, o
  <2>3. CASE o.suppressed
    <3>1. Cardinality(held) = 1
      BY <1>8, <2>2, <2>3
    <3> QED BY <1>4, <2>1, <2>3, <3>1
  <2>4. CASE ~o.suppressed
    <3>1. Cardinality(held) = 0
      BY <1>8, <2>2, <2>4
    <3> QED BY <1>4, <2>1, <2>4, <3>1
  <2> QED BY <2>3, <2>4
<1>10. emitted = {o.alerts[i] : i \in DOMAIN o.alerts}
  <2>1. out[p][r] \in Seq(Alert)
    BY <1>1 DEF EngineInv, StateInv, OutOK
  <2> HIDE DEF o, p
  <2>2. DOMAIN new = DOMAIN o.alerts /\ \A i \in DOMAIN o.alerts : new[i] = o.alerts[i]
    <3> DEFINE s == out[p][r]
               t == o.alerts
    <3>1. new = SubSeq(s \o t, Len(s) + 1, Len(s \o t))
      BY <1>4 DEF NewAlerts
    <3>2. s \in Seq(Alert) /\ t \in Seq(Alert)
      BY <1>7, <2>1
    <3> HIDE DEF new, s
    <3>3. DOMAIN new = DOMAIN t /\ \A i \in DOMAIN t : new[i] = t[i]
      <4> HIDE DEF t
      <4> QED BY <3>1, <3>2, NewAlertsAre
    <3> QED BY <3>3
  <2> HIDE DEF new
  <2> QED BY <2>2
<1>11. ASSUME AppliesToEntity(rule, ev.entity)
       PROVE  Kept(rule, st, ev.ts) /\ \A due \in TriggerDueTimes(rule, st) : due > ev.ts
  <2>1. CASE states[p][r] = NoState
    <3>1. st = EmptyState
      BY <2>1
    <3> HIDE DEF st
    <3> QED BY <1>1, <3>1, FreshKept, EmptyDues DEF DueTimes
  <2>2. CASE states[p][r] # NoState
    <3>1. <<p, r>> \in Live /\ Governing(<<p, r>>) = rule /\ st = states[p][r]
      BY <1>1, <1>2, <2>2 DEF Live, Governing
    <3>2. \A due \in DueTimes(rule, st) : due \in AllDueTimes
      BY <3>1 DEF AllDueTimes
    <3>3. Kept(rule, st, ev.ts)
      BY <1>1, <2>2, <3>1, HandedOver DEF KeptInv
    <3> HIDE DEF st, rule, p, ev
    <3> QED BY <3>2, <3>3, HandedOver DEF DueTimes, TimersRun, ev
  <2> QED BY <2>1, <2>2
<1>12. rule.trigger # "scheduled" => was = st
  BY DEF Ensured, FreshState
<1> SUFFICES ASSUME rule.trigger # "window", rule.trigger = "sequence" => rule.operands = {}
             PROVE  /\ Answered(answer, o)
                    /\ rule.trigger = "absence" =>
                         /\ answer.outcome = "waiting" =>
                              TimerLeft(rule, o.state, {seen + rule.timeout})
                         /\ answer.outcome = "timer_reset" =>
                              TimerLeft(rule, o.state, {ev.ts + rule.timeout})
                         /\ answer.outcome = "already_fired" => TimerLeft(rule, o.state, {})
  <2>1. rule.trigger = "absence" =>
          seen = IF states[p][r] = NoState \/ rule.trigger # "absence" THEN Unset
                 ELSE states[p][r].lastSeen[rule.sensors[1]]
    BY <1>1 DEF EmptyState
  <2> HIDE DEF answer, o, emitted, seen, rule, p, ev
  <2>2. ASSUME Answered(answer, o)
        PROVE  /\ \A label \in {"firing", "repeat"} :
                    answer = WouldEmit(label) <=> \E a \in emitted : a.label = label
               /\ answer.outcome = "suppressed" <=> suppressed'[r] > suppressed[r]
    BY <1>9, <1>10, <2>2 DEF Answered
  <2> QED BY <1>2, <1>4, <2>1, <2>2 DEF AnswerKept, answer, emitted, new, rule, p, ev
<1>13. CASE AppliesToEntity(rule, ev.entity)
  <2> HIDE DEF answer, o, seen, rule, p, ev, st, was
  <2> QED BY <1>1, <1>3, <1>5, <1>6, <1>11, <1>12, <1>13, RuleAnswered DEF seen
<1>14. CASE ~AppliesToEntity(rule, ev.entity)
  <2>1. Quiescent(answer) /\ answer.outcome = "entity_not_matched"
    BY <1>6, <1>14 DEF Answer, Quiescent
  <2>2. o = Silent(states[p][r])
    BY <1>5, <1>14
  <2> HIDE DEF answer, o
  <2> QED BY <2>1, <2>2, QuietAnswered
<1> QED BY <1>13, <1>14

(* Once the timers due before an event have fired, explain() tells of an    *)
(* event, an absence, a composite and a scheduled rule, and of a sequence   *)
(* without operands, whether process_event emits, suppresses or stays       *)
(* silent (explain, _explain_rule, _evaluate_in_order).                     *)
THEOREM ExplainTells ==
  ASSUME Straight, OneSourceEach, SteadySilence
  PROVE  Spec /\ [][LateHarmless]_vars => ExplainAgrees
<1>1. ASSUME EngineInv, KeptInv, [Next]_vars, HandsOver
      PROVE  \A r \in Explained(call.event) :
               LET p == PartitionKey(rules[r], call.event)
                   rule == RuleFor(rules, draining, p, r)
                   was == states[p][r]
                   seen == IF was = NoState \/ rule.trigger # "absence" THEN Unset
                           ELSE was.lastSeen[rule.sensors[1]]
                   emitted == {NewAlerts(p, r)[i] : i \in DOMAIN NewAlerts(p, r)}
               IN /\ rule.trigger # "window"
                  /\ rule.trigger = "sequence" => rule.operands = {}
                  => AnswerKept(ExplainFor(call.event, r), rule, seen, call.event,
                                states'[p][r], emitted, suppressed'[r] > suppressed[r])
  BY <1>1, ExplainStep
<1> QED BY <1>1, KeptHolds, PTL DEF Spec, ExplainAgrees
=============================================================================
