---------------------------- MODULE EpisodeProofs ----------------------------
(***************************************************************************)
(* The episodes of a rule: complete at every moment, their emissions spaced *)
(* and their end announced, also across reloads.                           *)
(***************************************************************************)
EXTENDS StepProofs, EngineEpisodes

-----------------------------------------------------------------------------
\* What a handler does to an episode and what it says.  st is the state
\* before, at an instant t, and o what the handler returns.

Closed == <<Unset, Unset, Unset>>

Reminder(rule, st, t) == IF rule.repeatEvery > 0 THEN t + rule.repeatEvery ELSE st.nextRepeat

Saying(label, t, start) == [label |-> label, ts |-> t, corr |-> start]

Does(o, episode, alerts) == Episode(o.state) = episode /\ o.alerts = alerts

Keeps(st, o) == Does(o, Episode(st), << >>) /\ ~o.resolved

Calls(rule, st, t, o) ==
  /\ ~HasLifecycle(rule)
  /\ Does(o, Episode(st), <<Saying("firing", t, Unset)>>) /\ ~o.resolved

Opens(rule, st, t, o) ==
  /\ HasLifecycle(rule) /\ ~EpisodeOpen(st)
  /\ Does(o, <<t, t, Reminder(rule, st, t)>>, <<Saying("firing", t, t)>>) /\ ~o.resolved

Repeats(rule, st, t, o) ==
  /\ HasLifecycle(rule) /\ EpisodeOpen(st)
  /\ Gap(rule) > 0 => t - LastEmission(st) >= Gap(rule)
  /\ Does(o, <<st.episodeStarted, t, Reminder(rule, st, t)>>,
             <<Saying("repeat", t, st.episodeStarted)>>) /\ ~o.resolved

Closes(rule, st, t, o) ==
  /\ rule.resolve /\ EpisodeOpen(st)
  /\ Does(o, Closed, <<Saying("resolved", t, st.episodeStarted)>>) /\ o.resolved

Works(rule, st, t, o) ==
  Keeps(st, o) \/ Calls(rule, st, t, o) \/ Opens(rule, st, t, o) \/ Repeats(rule, st, t, o)
  \/ Closes(rule, st, t, o)

Reminds(rule, st, t, o) ==
  /\ EpisodeOpen(st) /\ st.nextRepeat # Unset /\ st.nextRepeat <= t /\ rule.repeatEvery > 0
  /\ Does(o, <<st.episodeStarted, t, t + rule.repeatEvery>>,
             <<Saying("repeat", t, IF HasLifecycle(rule) THEN st.episodeStarted ELSE Unset)>>)
  /\ ~o.resolved

\* One instant reminds first.
Ticks(rule, st, t, o) ==
  \E first, second :
    /\ first.state \in RuleState /\ o = Then(first, second)
    /\ Keeps(st, first) \/ Reminds(rule, st, t, first)
    /\ Works(rule, first.state, t, second)

Retracts(rule, st, t, o) ==
  /\ rule.trigger = "window"
  /\ Does(o, Closed, <<Saying("retracted", t,
                              IF HasLifecycle(rule) THEN st.episodeStarted ELSE Unset)>>)
  /\ ~o.resolved

LEMMA EmitWorks ==
  ASSUME NEW rule \in Rule, NEW st \in RuleState, NEW t \in Nat
  PROVE  Works(rule, st, t, EmitEpisode(rule, st, t))
<1> DEFINE o == EmitEpisode(rule, st, t)
           noted == NoteEmission(rule, st, t)
<1>1. CASE Withheld(rule, st, t)
  <2>1. o = [Silent(st) EXCEPT !.suppressed = TRUE]
    BY <1>1 DEF EmitEpisode
  <2> HIDE DEF o
  <2>2. Keeps(st, o)
    BY <2>1 DEF Silent, Keeps, Does
  <2> QED BY <2>2 DEF Works, o
<1>2. CASE ~Withheld(rule, st, t)
  <2>1. /\ o.state = noted /\ ~o.resolved
        /\ o.alerts = <<Saying(LifecycleLabel(rule, st), t,
                               IF HasLifecycle(rule) THEN noted.episodeStarted ELSE Unset)>>
    BY <1>2 DEF EmitEpisode, Emitting, Silent, BuildAlert, Saying
  <2> HIDE DEF o
  <2>2. CASE ~HasLifecycle(rule)
    <3>1. noted = st /\ LifecycleLabel(rule, st) = "firing"
      BY <2>2 DEF NoteEmission, LifecycleLabel
    <3>2. Calls(rule, st, t, o)
      BY <2>1, <2>2, <3>1 DEF Calls, Does
    <3> QED BY <3>2 DEF Works, o
  <2>3. CASE HasLifecycle(rule)
    <3>1. /\ noted.episodeStarted = (IF EpisodeOpen(st) THEN st.episodeStarted ELSE t)
          /\ noted.lastEmit = t /\ noted.nextRepeat = Reminder(rule, st, t)
      BY <2>3 DEF NoteEmission, Reminder, RuleState
    <3> HIDE DEF noted
    <3>2. CASE EpisodeOpen(st)
      <4>1. Gap(rule) > 0 => ~(t - LastEmission(st) < Gap(rule))
        BY <1>2, <2>3, <3>2 DEF Withheld
      <4>2. Gap(rule) \in Nat /\ LastEmission(st) \in Int
        BY MomentIsInt DEF Gap, MaxOf, Rule, LastEmission, RuleState
      <4>3. Gap(rule) > 0 => t - LastEmission(st) >= Gap(rule)
        BY <4>1, <4>2
      <4>4. Repeats(rule, st, t, o)
        BY <2>1, <2>3, <3>1, <3>2, <4>3 DEF Repeats, Does, LifecycleLabel, Episode
      <4> QED BY <4>4 DEF Works, o
    <3>3. CASE ~EpisodeOpen(st)
      <4>1. Opens(rule, st, t, o)
        BY <2>1, <2>3, <3>1, <3>3 DEF Opens, Does, LifecycleLabel, Episode
      <4> QED BY <4>1 DEF Works, o
    <3> QED BY <3>2, <3>3
  <2> QED BY <2>2, <2>3
<1> QED BY <1>1, <1>2

LEMMA ResolveWorks ==
  ASSUME NEW rule \in Rule, NEW st \in RuleState, NEW t \in Nat
  PROVE  Works(rule, st, t, ResolveEpisode(rule, st, t))
<1> DEFINE o == ResolveEpisode(rule, st, t)
<1>1. CASE ~rule.resolve \/ ~EpisodeOpen(st)
  <2>1. o = Silent(st)
    BY <1>1 DEF ResolveEpisode
  <2> QED BY <2>1 DEF Works, Keeps, Does, Silent
<1>2. CASE rule.resolve /\ EpisodeOpen(st)
  <2>1. /\ o.state = CloseEpisode(st) /\ o.resolved
        /\ o.alerts = <<Saying("resolved", t, st.episodeStarted)>>
    BY <1>2 DEF ResolveEpisode, Emitting, Silent, BuildAlert, HasLifecycle, Saying
  <2>2. Episode(CloseEpisode(st)) = Closed
    BY DEF CloseEpisode, Episode, Closed, RuleState
  <2> HIDE DEF o
  <2>3. Closes(rule, st, t, o)
    BY <1>2, <2>1, <2>2 DEF Closes, Does
  <2> QED BY <2>3 DEF Works, o
<1> QED BY <1>1, <1>2

(* What comes after a rule has taken note of what it saw works on the       *)
(* episode it found.                                                        *)
LEMMA SequelWorks ==
  ASSUME NEW rule \in Rule, NEW st \in RuleState, NEW mid \in RuleState,
         Episode(mid) = Episode(st), NEW t \in Nat, NEW o \in Sequel(rule, mid, t)
  PROVE  Works(rule, st, t, o)
<1>1. Works(rule, mid, t, o)
  <2>1. Keeps(mid, Silent(mid))
    BY DEF Keeps, Does, Silent
  <2> QED BY <2>1, EmitWorks, ResolveWorks DEF Sequel, Works
<1>2. /\ mid.episodeStarted = st.episodeStarted /\ mid.lastEmit = st.lastEmit
      /\ mid.nextRepeat = st.nextRepeat
  BY DEF Episode
<1>3. EpisodeOpen(mid) <=> EpisodeOpen(st)
  BY <1>2 DEF EpisodeOpen
<1>4. LastEmission(mid) = LastEmission(st) /\ Reminder(rule, mid, t) = Reminder(rule, st, t)
  BY <1>2 DEF LastEmission, Reminder
<1> QED BY <1>1, <1>2, <1>3, <1>4 DEF Works, Keeps, Calls, Opens, Repeats, Closes

LEMMA RemindReminds ==
  ASSUME NEW rule \in Rule, NEW st \in RuleState, NEW t \in Nat
  PROVE  LET o == Remind(rule, st, t) IN Keeps(st, o) \/ Reminds(rule, st, t, o)
<1> DEFINE o == Remind(rule, st, t)
<1>1. CASE ~ReminderDue(rule, st, t)
  BY <1>1 DEF Remind, Keeps, Does, Silent
<1>2. CASE ReminderDue(rule, st, t)
  <2> DEFINE sent == [st EXCEPT !.lastEmit = t, !.nextRepeat = t + rule.repeatEvery]
  <2>1. /\ sent.episodeStarted = st.episodeStarted /\ sent.lastEmit = t
        /\ sent.nextRepeat = t + rule.repeatEvery
    BY DEF RuleState
  <2>2. o = Emitting(rule, sent, "repeat", t)
    BY <1>2 DEF Remind
  <2> HIDE DEF o, sent
  <2>3. /\ o.state = sent /\ ~o.resolved
        /\ o.alerts = <<Saying("repeat", t, IF HasLifecycle(rule) THEN sent.episodeStarted
                                            ELSE Unset)>>
    BY <2>2 DEF Emitting, Silent, BuildAlert, Saying
  <2>4. Reminds(rule, st, t, o)
    BY <1>2, <2>1, <2>3 DEF Reminds, Does, Episode, ReminderDue
  <2> QED BY <2>4 DEF o
<1> QED BY <1>1, <1>2

LEMMA InOrderWorks ==
  ASSUME NEW rule, Compiled(rule), NEW st \in RuleState, NEW ev \in Event
  PROVE  Works(rule, st, ev.ts, InOrder(rule, st, ev))
<1>1. rule \in Rule /\ ev.ts \in Nat
  BY DEF Compiled, Event
<1>2. PICK mid \in RuleState : /\ InOrder(rule, st, ev) \in Sequel(rule, mid, ev.ts)
                               /\ Episode(mid) = Episode(st)
  BY InOrderCases
<1> QED BY <1>1, <1>2, SequelWorks

LEMMA OnLateWorks ==
  ASSUME NEW rule \in Rule, NEW st \in RuleState, NEW ev \in Event
  PROVE  Works(rule, st, ev.ts, OnLate(rule, st, ev))
<1>1. ev.ts \in Nat
  BY DEF Event
<1>2. PICK mid \in RuleState : /\ OnLate(rule, st, ev) \in Sequel(rule, mid, ev.ts)
                               /\ Episode(mid) = Episode(st)
  BY OnLateCases
<1> QED BY <1>1, <1>2, SequelWorks

LEMMA OnTimerTicks ==
  ASSUME NEW rule \in Rule, NEW st \in RuleState, NEW t \in Nat, NEW remember
  PROVE  Ticks(rule, st, t, OnTimer(rule, st, t, remember))
<1> DEFINE first == Remind(rule, st, t)
           second == FireTrigger(rule, first.state, t, remember)
<1>1. OnTimer(rule, st, t, remember) = Then(first, second)
  BY DEF OnTimer
<1>2. first.state \in RuleState /\ (Keeps(st, first) \/ Reminds(rule, st, t, first))
  BY RemindType, RemindReminds
<1> HIDE DEF first
<1>3. PICK mid \in RuleState : /\ second \in Sequel(rule, mid, t)
                               /\ Episode(mid) = Episode(first.state)
  BY <1>2, FireTriggerCases
<1>4. Works(rule, first.state, t, second)
  BY <1>2, <1>3, SequelWorks
<1> QED BY <1>1, <1>2, <1>4 DEF Ticks

LEMMA RecomputeWorks ==
  ASSUME NEW rule \in Rule, NEW st \in RuleState, NEW end \in Nat
  PROVE  LET o == RecomputeWindow(rule, st, end)
         IN Works(rule, st, end, o) \/ (rule.trigger = "window" => Retracts(rule, st, end, o))
<1> DEFINE o == RecomputeWindow(rule, st, end)
<1>1. PICK mid \in RuleState :
        /\ Episode(mid) = Episode(st)
        /\ o \in {Silent(mid), EmitEpisode(rule, mid, end),
                  [Emitting(rule, mid, "retracted", end) EXCEPT !.state = CloseEpisode(mid)]}
  BY RecomputeWindowCases
<1> HIDE DEF o
<1>2. CASE o \in {Silent(mid), EmitEpisode(rule, mid, end)}
  BY <1>1, <1>2, SequelWorks DEF Sequel, o
<1>3. CASE o = [Emitting(rule, mid, "retracted", end) EXCEPT !.state = CloseEpisode(mid)]
  <2>1. /\ o.state = CloseEpisode(mid) /\ ~o.resolved
        /\ o.alerts = <<Saying("retracted", end, IF HasLifecycle(rule) THEN mid.episodeStarted
                                                 ELSE Unset)>>
    BY <1>3 DEF Emitting, Silent, BuildAlert, Saying
  <2>2. Episode(CloseEpisode(mid)) = Closed /\ mid.episodeStarted = st.episodeStarted
    BY <1>1 DEF CloseEpisode, Episode, Closed, RuleState
  <2>3. rule.trigger = "window" => Retracts(rule, st, end, o)
    BY <2>1, <2>2 DEF Retracts, Does
  <2> QED BY <2>3 DEF o
<1> QED BY <1>1, <1>2, <1>3

-----------------------------------------------------------------------------
\* The closed windows that are remembered.

ClosedInv ==
  /\ \A p \in Partitions, r \in RuleIds :
       states[p][r] # NoState => \A end \in states[p][r].closed : end <= Limit
  /\ \A x \in call.reopen :
       RecomputeLate /\ rules[x.r].trigger = "window" /\ x.end <= Limit

LEMMA ReopenStep ==
  ASSUME EngineInv, ClosedInv, [Next]_vars, NEW x \in call'.reopen
  PROVE  RecomputeLate /\ rules'[x.r].trigger = "window" /\ x.end <= Limit'
<1>0. Limit \in Int /\ Limit' \in Int /\ Limit <= Limit'
  BY LimitGrows, MomentIsInt DEF EngineInv
<1>1. ASSUME x \in call.reopen, rules' = rules
      PROVE  RecomputeLate /\ rules'[x.r].trigger = "window" /\ x.end <= Limit'
  <2>1. x.end \in Nat
    BY <1>1 DEF EngineInv, StateInv, Call, Reopened
  <2> QED BY <1>0, <1>1, <2>1 DEF ClosedInv
<1>2. CASE UNCHANGED vars
  BY <1>1, <1>2 DEF vars
<1>3. ASSUME NEW ev \in Offered, ProcessEvent(ev)
      PROVE  RecomputeLate /\ rules'[x.r].trigger = "window" /\ x.end <= Limit'
  <2>1. CASE RefuseLate(ev) \/ FirstEvent(ev)
    BY <1>1, <2>1 DEF RefuseLate, FirstEvent
  <2>2. CASE AcceptEvent(ev)
    BY <2>2 DEF AcceptEvent, Idle
  <2>3. CASE FoldLate(ev)
    <3>1. rules' = rules /\ call' = IF Reopens(ev) = {} THEN Idle
                       ELSE [Idle EXCEPT !.stage = "recompute", !.reopen = Reopens(ev)]
      BY <2>3 DEF FoldLate
    <3>2. x \in Reopens(ev)
      BY <3>1 DEF Idle
    <3>3. PICK q \in Partitions \X RuleIds :
            /\ RecomputeLate /\ q[1] \in FoldedIn(ev, q[2]) /\ states[q[1]][q[2]] # NoState
            /\ x.r = q[2]
            /\ x.end \in AffectedWindows(rules[q[2]], states[q[1]][q[2]], ev)
      BY <3>2 DEF Reopens
    <3>4. /\ rules[x.r].trigger = "window" /\ x.end \in states[q[1]][q[2]].closed
          /\ states[q[1]][q[2]] \in RuleState
      BY <3>3 DEF AffectedWindows, EngineInv, StateInv, StatesOK
    <3>5. x.end \in Nat
      BY <3>4 DEF RuleState
    <3>6. x.end <= Limit
      BY <3>3, <3>4 DEF ClosedInv
    <3> QED BY <1>0, <3>1, <3>3, <3>4, <3>5, <3>6
  <2> QED BY <1>3, <2>1, <2>2, <2>3 DEF ProcessEvent
<1>4. ASSUME NEW t \in 0 .. MaxTime, FirstAdvance(t) \/ AdvanceTo(t)
      PROVE  RecomputeLate /\ rules'[x.r].trigger = "window" /\ x.end <= Limit'
  BY <1>1, <1>4 DEF FirstAdvance, AdvanceTo, Idle
<1>5. ASSUME NEW new \in Reloads, NEW policy \in ReloadPolicies, Reload(new, policy)
      PROVE  FALSE
  BY <1>5 DEF Reload, ReloadNow, StageReload, Serve, EngineInv, StateInv
<1>6. CASE FireDue
  BY <1>1, <1>6 DEF FireDue
<1>7. CASE Settle
  BY <1>7 DEF Settle, Idle
<1>8. ASSUME NEW y \in call.reopen, Recompute(y)
      PROVE  RecomputeLate /\ rules'[x.r].trigger = "window" /\ x.end <= Limit'
  <2>1. call' \in {Idle, [call EXCEPT !.reopen = @ \ {y}]} /\ rules' = rules
    BY <1>8 DEF Recompute
  <2>2. x \in call.reopen
    BY <2>1 DEF Idle, EngineInv, StateInv, Call
  <2> QED BY <1>1, <2>1, <2>2
<1> QED BY <1>2, <1>3, <1>4, <1>5, <1>6, <1>7, <1>8 DEF Next, Progress

LEMMA ClosedInvStep ==
  ASSUME EngineInv, ClosedInv, [Next]_vars
  PROVE  ClosedInv'
<1> SUFFICES ASSUME NEW p \in Partitions, NEW r \in RuleIds, states'[p][r] # NoState
             PROVE  \A end \in states'[p][r].closed : end <= Limit'
  BY ReopenStep DEF ClosedInv
<1> DEFINE Fine(st) == st.closed \subseteq Nat /\ \A end \in st.closed : end <= Limit'
<1>0. Limit \in Int /\ Limit' \in Int /\ Limit <= Limit'
  BY LimitGrows, MomentIsInt DEF EngineInv
<1>1. states[p][r] # NoState => states[p][r] \in RuleState /\ Fine(states[p][r])
  <2>1. states[p][r] # NoState => states[p][r].closed \subseteq Nat /\ states[p][r] \in RuleState
    BY DEF EngineInv, StateInv, StatesOK, RuleState
  <2> QED BY <1>0, <2>1 DEF ClosedInv
<1>2. Fine(EmptyState) /\ \A rule, now : Fine(FreshState(rule, now))
  BY DEF EmptyState, FreshState
<1>3. ASSUME NEW st, From(p, r, st), st # NoState
      PROVE  st \in RuleState /\ Fine(st)
  BY <1>1, <1>2, <1>3, EmptyStateType DEF From
<1>4. ASSUME NEW rule \in Rule, NEW now \in Nat, NEW st, From(p, r, st) \/ st = states[p][r]
      PROVE  Ensured(rule, st, now) \in RuleState /\ Fine(Ensured(rule, st, now))
  BY <1>1, <1>2, <1>3, <1>4, FreshStateType DEF Ensured
<1> HIDE DEF Fine
<1> SUFFICES Fine(states'[p][r])
  BY DEF Fine
<1>5. \A rule \in Definitions(r) : Compiled(rule) /\ rule \in Rule
  BY ActingCompiled DEF Compiled
<1>6. CASE Rests(p, r)
  BY <1>3, <1>6 DEF Rests, Yields, Silent
<1>7. CASE Hears(p, r)
  <2>1. PICK rule \in Definitions(r), st \in RuleState \cup {NoState}, ev \in Event :
          HearsFrom(p, r, rule, st, ev)
    BY <1>7 DEF Hears
  <2>2. Compiled(rule) /\ rule \in Rule /\ ev.ts \in Nat
    BY <1>5 DEF Event
  <2> DEFINE was == Ensured(rule, st, ev.ts)
  <2>3. was \in RuleState /\ Fine(was)
    BY <1>4, <2>1, <2>2 DEF HearsFrom
  <2>4. states'[p][r] = InOrder(rule, was, ev).state
    BY <2>1 DEF HearsFrom, Yields
  <2> HIDE DEF was
  <2>5. PICK mid \in RuleState :
          InOrder(rule, was, ev) \in Sequel(rule, mid, ev.ts) /\ mid.closed = was.closed
    BY <2>2, <2>3, InOrderCases
  <2>6. states'[p][r].closed = was.closed
    BY <2>2, <2>4, <2>5, SequelAlongside DEF Alongside
  <2> QED BY <2>3, <2>6 DEF Fine
<1>8. CASE HearsLate(p, r)
  <2>1. PICK rule \in Definitions(r), ev \in Event : HearsLateOf(p, r, rule, ev)
    BY <1>8 DEF HearsLate
  <2>2. rule \in Rule /\ ev.ts \in Nat /\ Limit \in Nat
    BY <1>5, <2>1 DEF HearsLateOf, Event
  <2> DEFINE was == Ensured(rule, states[p][r], Limit)
  <2>3. was \in RuleState /\ Fine(was)
    BY <1>4, <2>2
  <2>4. states'[p][r] = OnLate(rule, was, ev).state
    BY <2>1 DEF HearsLateOf, Yields
  <2> HIDE DEF was
  <2>5. PICK mid \in RuleState :
          OnLate(rule, was, ev) \in Sequel(rule, mid, ev.ts) /\ mid.closed = was.closed
    BY <2>2, <2>3, OnLateCases
  <2>6. states'[p][r].closed = was.closed
    BY <2>2, <2>4, <2>5, SequelAlongside DEF Alongside
  <2> QED BY <2>3, <2>6 DEF Fine
<1>9. CASE Recomputes(p, r)
  <2>1. PICK rule \in Definitions(r), x \in call.reopen : RecomputesAt(p, r, rule, x)
    BY <1>9 DEF Recomputes
  <2>2. /\ rule \in Rule /\ x.end \in Nat /\ states[p][r] # NoState
        /\ states'[p][r] = RecomputeWindow(rule, states[p][r], x.end).state
    BY <1>5, <2>1 DEF RecomputesAt, Yields, EngineInv, StateInv, Call, Reopened
  <2>3. states'[p][r].closed = states[p][r].closed
    BY <1>1, <2>2, RecomputeAlongside DEF Alongside
  <2> QED BY <1>1, <2>2, <2>3 DEF Fine
<1>10. CASE Times(p, r)
  <2>1. PICK rule \in Definitions(r), due \in Nat : TimesAt(p, r, rule, due)
    BY <1>10 DEF Times
  <2>2. /\ rule \in Rule /\ states[p][r] # NoState /\ due <= Limit'
        /\ states'[p][r] = OnTimer(rule, states[p][r], due, RecomputeLate).state
    BY <1>5, <2>1 DEF TimesAt, Yields
  <2>3. states'[p][r].closed \subseteq states[p][r].closed \cup {due}
    BY <1>1, <2>2, OnTimerTimers
  <2> QED BY <1>1, <2>2, <2>3 DEF Fine
<1>11. Turn(p, r)
  BY TurnTaken
<1> QED BY <1>6, <1>7, <1>8, <1>9, <1>10, <1>11 DEF Turn

LEMMA ClosedInvHolds == Spec => [](EngineInv /\ ClosedInv)
<1>1. Init => ClosedInv
  BY DEF Init, ClosedInv, Idle
<1>2. EngineInv /\ ClosedInv /\ [Next]_vars => ClosedInv'
  BY ClosedInvStep
<1> QED BY <1>1, <1>2, EngineInvHolds, PTL DEF Spec

-----------------------------------------------------------------------------
\* What a step does to an episode.

\* The state a step starts from: the one it finds, or, where there is none or
\* a reload has reset it, one without an episode.
Starts(p, r, st) ==
  /\ st \in RuleState
  /\ \/ st = states[p][r]
     \/ /\ Episode(st) = Closed
        /\ states[p][r] = NoState \/ (rules' \in Reloads /\ Expendable(p, r))

\* The loop over the timers passes no reminder by.
OnTime(st, t) == EpisodeOpen(st) /\ st.nextRepeat # Unset => t <= st.nextRepeat

ActsOn(p, r, rule, st, t, o) ==
  /\ Straight => rule = rules'[r]
  /\ t <= Limit' /\ (states[p][r] # NoState /\ st # states[p][r] => t = Limit')
  /\ \/ Works(rule, st, t, o)
     \/ Ticks(rule, st, t, o) /\ OnTime(st, t)
     \/ RecomputeLate /\ Retracts(rule, st, t, o)
  /\ Yields(p, r, o)

EpisodeTurn(p, r) ==
  \E st :
    /\ Starts(p, r, st)
    /\ \/ \E o : Keeps(st, o) /\ Yields(p, r, o)
       \/ \E rule \in Definitions(r), t \in Nat : \E o : ActsOn(p, r, rule, st, t, o)

LEMMA NoReminderPassed ==
  ASSUME NEW p \in Partitions, NEW r \in RuleIds, states[p][r] # NoState,
         NEW due, \A other \in AllDueTimes : due <= other
  PROVE  OnTime(states[p][r], due)
<1> SUFFICES ASSUME EpisodeOpen(states[p][r]), states[p][r].nextRepeat # Unset
             PROVE  states[p][r].nextRepeat \in AllDueTimes
  BY DEF OnTime
<1> DEFINE q == <<p, r>>
<1>1. q \in Live /\ q[1] = p /\ q[2] = r
  BY DEF Live
<1>2. states[p][r].nextRepeat \in DueTimes(Governing(q), states[p][r])
  BY DEF DueTimes, ReminderDueTimes
<1> HIDE DEF q
<1> QED BY <1>1, <1>2 DEF AllDueTimes

LEMMA EpisodeTurnTaken ==
  ASSUME EngineInv, ClosedInv, [Next]_vars,
         NEW p \in Partitions, NEW r \in RuleIds, states'[p][r] # NoState
  PROVE  EpisodeTurn(p, r)
<1>0. Limit \in Int /\ Limit' \in Int /\ Limit <= Limit'
  BY LimitGrows, MomentIsInt DEF EngineInv
<1>1. Episode(EmptyState) = Closed /\ EmptyState \in RuleState
  BY EmptyStateType DEF Episode, EmptyState, Closed
<1>2. ASSUME NEW rule \in Rule, NEW now \in Nat
      PROVE  FreshState(rule, now) \in RuleState /\ Episode(FreshState(rule, now)) = Closed
  BY FreshStateType DEF FreshState, Episode, EmptyState, Closed
<1>3. states[p][r] # NoState => states[p][r] \in RuleState
  BY DEF EngineInv, StateInv, StatesOK
<1>4. ASSUME NEW st, From(p, r, st), st # NoState PROVE Starts(p, r, st)
  BY <1>1, <1>3, <1>4 DEF From, Starts
<1>5. ASSUME NEW st, From(p, r, st), NEW rule \in Rule, NEW now \in Nat
      PROVE  Starts(p, r, Ensured(rule, st, now))
  <2>1. CASE st # NoState
    BY <1>4, <1>5, <2>1 DEF Ensured
  <2>2. CASE st = NoState
    BY <1>2, <1>5, <2>2, EmptyStateType DEF Ensured, Starts, From
  <2> QED BY <2>1, <2>2
<1>6. \A rule \in Definitions(r) : Compiled(rule) /\ rule \in Rule
  BY ActingCompiled DEF Compiled
<1>7. ASSUME NEW rule \in Definitions(r), NEW st, NEW t \in Nat, NEW o,
             Starts(p, r, st), ActsOn(p, r, rule, st, t, o)
      PROVE  EpisodeTurn(p, r)
  BY <1>7 DEF EpisodeTurn
<1>8. CASE Rests(p, r)
  <2>1. PICK st : From(p, r, st) /\ Yields(p, r, Silent(st))
    BY <1>8 DEF Rests
  <2>2. Starts(p, r, st)
    BY <1>4, <2>1 DEF Yields, Silent
  <2>3. Keeps(st, Silent(st))
    BY DEF Keeps, Does, Silent
  <2> QED BY <2>1, <2>2, <2>3 DEF EpisodeTurn
<1>9. CASE Hears(p, r)
  <2>1. PICK rule \in Definitions(r), st \in RuleState \cup {NoState}, ev \in Event :
          HearsFrom(p, r, rule, st, ev)
    BY <1>9 DEF Hears
  <2>2. /\ Compiled(rule) /\ rule \in Rule /\ ev.ts \in Nat /\ ev.ts = Limit'
        /\ From(p, r, st) /\ (Straight => rule = rules'[r])
    BY <1>6, <2>1 DEF HearsFrom, Event, Acting
  <2> DEFINE was == Ensured(rule, st, ev.ts)
             o == InOrder(rule, was, ev)
  <2>3. Starts(p, r, was)
    BY <1>5, <2>2
  <2>4. Yields(p, r, o)
    BY <2>1 DEF HearsFrom
  <2> HIDE DEF was
  <2>5. Works(rule, was, ev.ts, o)
    BY <2>2, <2>3, InOrderWorks DEF Starts
  <2> HIDE DEF o
  <2>6. ActsOn(p, r, rule, was, ev.ts, o)
    BY <1>0, <2>2, <2>4, <2>5 DEF ActsOn
  <2> QED BY <1>7, <2>2, <2>3, <2>6
<1>10. CASE HearsLate(p, r)
  <2>1. PICK rule \in Definitions(r), ev \in Event : HearsLateOf(p, r, rule, ev)
    BY <1>10 DEF HearsLate
  <2>2. /\ rule \in Rule /\ ev.ts \in Nat /\ ev.ts <= Limit' /\ Limit \in Nat
        /\ Straight => rule = rules'[r]
    BY <1>0, <1>6, <2>1 DEF HearsLateOf, Event, Acting
  <2> DEFINE was == Ensured(rule, states[p][r], Limit)
             o == OnLate(rule, was, ev)
  <2>3. Starts(p, r, was) /\ (states[p][r] # NoState => was = states[p][r])
    BY <1>2, <1>3, <2>2 DEF Starts, Ensured
  <2>4. Yields(p, r, o)
    BY <2>1 DEF HearsLateOf
  <2> HIDE DEF was
  <2>5. Works(rule, was, ev.ts, o)
    BY <2>2, <2>3, OnLateWorks DEF Starts
  <2> HIDE DEF o
  <2>6. ActsOn(p, r, rule, was, ev.ts, o)
    BY <2>2, <2>3, <2>4, <2>5 DEF ActsOn
  <2> QED BY <1>7, <2>2, <2>3, <2>6
<1>11. CASE Recomputes(p, r)
  <2>1. PICK rule \in Definitions(r), x \in call.reopen : RecomputesAt(p, r, rule, x)
    BY <1>11 DEF Recomputes
  <2> DEFINE o == RecomputeWindow(rule, states[p][r], x.end)
  <2>2. /\ rule \in Rule /\ x.end \in Nat /\ states[p][r] # NoState /\ Limit' = Limit
        /\ Yields(p, r, o) /\ (Straight => rule = rules'[r])
        /\ rule = rules[r] /\ x.r = r
    BY <1>6, <2>1 DEF RecomputesAt, Acting, EngineInv, StateInv, Call, Reopened
  <2>3. rule.trigger = "window" /\ x.end <= Limit' /\ RecomputeLate
    BY <2>2 DEF ClosedInv
  <2>4. Works(rule, states[p][r], x.end, o) \/ Retracts(rule, states[p][r], x.end, o)
    BY <1>3, <2>2, <2>3, RecomputeWorks
  <2>5. Starts(p, r, states[p][r])
    BY <1>3, <2>2 DEF Starts
  <2> HIDE DEF o
  <2>6. ActsOn(p, r, rule, states[p][r], x.end, o)
    BY <2>2, <2>3, <2>4 DEF ActsOn
  <2> QED BY <1>7, <2>2, <2>5, <2>6
<1>12. CASE Times(p, r)
  <2>1. PICK rule \in Definitions(r), due \in Nat : TimesAt(p, r, rule, due)
    BY <1>12 DEF Times
  <2> DEFINE o == OnTimer(rule, states[p][r], due, RecomputeLate)
  <2>2. /\ rule \in Rule /\ states[p][r] # NoState /\ due <= Limit'
        /\ Yields(p, r, o) /\ (Straight => rule = rules'[r])
    BY <1>6, <2>1 DEF TimesAt, Acting
  <2>3. Ticks(rule, states[p][r], due, o) /\ OnTime(states[p][r], due)
    <3>1. OnTime(states[p][r], due)
      BY <2>1, <2>2, NoReminderPassed DEF TimesAt
    <3> QED BY <1>3, <2>2, <3>1, OnTimerTicks
  <2>4. Starts(p, r, states[p][r])
    BY <1>3, <2>2 DEF Starts
  <2> HIDE DEF o
  <2>5. ActsOn(p, r, rule, states[p][r], due, o)
    BY <2>2, <2>3 DEF ActsOn
  <2> QED BY <1>7, <2>4, <2>5
<1>13. Turn(p, r)
  BY TurnTaken
<1> QED BY <1>8, <1>9, <1>10, <1>11, <1>12, <1>13 DEF Turn

-----------------------------------------------------------------------------
\* Complete episodes.

\* The definitions of a rule agree on the interval of its reminders, which a
\* reload does not look at.
SteadyReminders ==
  \A r \in RuleIds : \A rule, other \in Definitions(r) :
    rule.repeatEvery = other.repeatEvery

Entire(n, st) ==
  /\ EpisodeOpen(st) <=> st.lastEmit # Unset
  /\ st.nextRepeat # Unset <=> EpisodeOpen(st) /\ n > 0
  /\ st.nextRepeat # Unset => st.nextRepeat = st.lastEmit + n

WholeInv ==
  \A p \in Partitions, r \in RuleIds : states[p][r] # NoState =>
    \A rule \in Definitions(r) : Entire(rule.repeatEvery, states[p][r])

LEMMA WholeOfEpisode ==
  ASSUME NEW n, NEW st, NEW other, Episode(st) = Episode(other), Entire(n, st)
  PROVE  Entire(n, other)
BY DEF Episode, Entire, EpisodeOpen

LEMMA ClosedWhole ==
  ASSUME NEW n, NEW st, Episode(st) = Closed
  PROVE  Entire(n, st)
BY DEF Episode, Closed, Entire, EpisodeOpen

LEMMA EpisodeParts ==
  ASSUME NEW st, NEW a, NEW b, NEW c, Episode(st) = <<a, b, c>>
  PROVE  st.episodeStarted = a /\ st.lastEmit = b /\ st.nextRepeat = c
BY DEF Episode

LEMMA WorksWhole ==
  ASSUME NEW rule \in Rule, NEW st \in RuleState, Entire(rule.repeatEvery, st),
         NEW t \in Nat, NEW o, Works(rule, st, t, o)
  PROVE  Entire(rule.repeatEvery, o.state)
<1>0. t # Unset /\ rule.repeatEvery \in Nat /\ t + rule.repeatEvery # Unset
  <2>1. rule.repeatEvery \in Nat
    BY SMTT(30) DEF Rule
  <2> QED BY <2>1 DEF Unset
<1>1. CASE Keeps(st, o) \/ Calls(rule, st, t, o)
  BY <1>1, WholeOfEpisode DEF Keeps, Calls, Does
<1>2. CASE Opens(rule, st, t, o)
  <2>1. /\ o.state.episodeStarted = t /\ o.state.lastEmit = t
        /\ o.state.nextRepeat = Reminder(rule, st, t) /\ ~EpisodeOpen(st)
    BY <1>2, EpisodeParts DEF Opens, Does
  <2> QED BY <1>0, <2>1 DEF Entire, Reminder, EpisodeOpen
<1>3. CASE Repeats(rule, st, t, o)
  <2>1. /\ o.state.episodeStarted = st.episodeStarted /\ o.state.lastEmit = t
        /\ o.state.nextRepeat = Reminder(rule, st, t) /\ EpisodeOpen(st)
    BY <1>3, EpisodeParts DEF Repeats, Does
  <2> QED BY <1>0, <2>1 DEF Entire, Reminder, EpisodeOpen
<1>4. CASE Closes(rule, st, t, o)
  BY <1>4, ClosedWhole DEF Closes, Does
<1> QED BY <1>1, <1>2, <1>3, <1>4 DEF Works

LEMMA RemindsWhole ==
  ASSUME NEW rule \in Rule, NEW st \in RuleState, NEW t \in Nat, NEW o, Reminds(rule, st, t, o)
  PROVE  Entire(rule.repeatEvery, o.state)
<1>1. /\ o.state.episodeStarted = st.episodeStarted /\ o.state.lastEmit = t
      /\ o.state.nextRepeat = t + rule.repeatEvery /\ EpisodeOpen(st)
  BY EpisodeParts DEF Reminds, Does
<1>2. t # Unset /\ rule.repeatEvery \in Nat /\ rule.repeatEvery > 0
      /\ t + rule.repeatEvery # Unset
  <2>1. rule.repeatEvery \in Nat
    BY SMTT(30) DEF Rule
  <2> QED BY <2>1 DEF Unset, Reminds
<1> QED BY <1>1, <1>2 DEF Entire, EpisodeOpen

LEMMA TicksWhole ==
  ASSUME NEW rule \in Rule, NEW st \in RuleState, Entire(rule.repeatEvery, st),
         NEW t \in Nat, NEW o, Ticks(rule, st, t, o)
  PROVE  Entire(rule.repeatEvery, o.state)
<1>1. PICK first, second :
        /\ first.state \in RuleState /\ o = Then(first, second)
        /\ Keeps(st, first) \/ Reminds(rule, st, t, first)
        /\ Works(rule, first.state, t, second)
  BY DEF Ticks
<1>2. Entire(rule.repeatEvery, first.state)
  BY <1>1, WholeOfEpisode, RemindsWhole DEF Keeps, Does
<1>3. Entire(rule.repeatEvery, second.state)
  BY <1>1, <1>2, WorksWhole
<1> QED BY <1>1, <1>3 DEF Then

LEMMA WholeStep ==
  ASSUME EngineInv, ClosedInv, SteadyReminders, WholeInv, [Next]_vars
  PROVE  WholeInv'
<1> SUFFICES ASSUME NEW p \in Partitions, NEW r \in RuleIds, states'[p][r] # NoState,
                    NEW law \in Definitions(r)
             PROVE  Entire(law.repeatEvery, states'[p][r])
  BY DEF WholeInv, Definitions, InUse
<1>1. PICK st :
        /\ Starts(p, r, st)
        /\ \/ \E o : Keeps(st, o) /\ Yields(p, r, o)
           \/ \E rule \in Definitions(r), t \in Nat : \E o : ActsOn(p, r, rule, st, t, o)
  BY EpisodeTurnTaken DEF EpisodeTurn
<1>2. st \in RuleState /\ Entire(law.repeatEvery, st)
  <2>1. st = states[p][r] => states[p][r] # NoState
    BY <1>1, EngineAssumption DEF Starts
  <2> QED BY <1>1, <2>1, ClosedWhole DEF Starts, WholeInv
<1>3. ASSUME NEW o, Keeps(st, o), Yields(p, r, o)
      PROVE  Entire(law.repeatEvery, states'[p][r])
  BY <1>2, <1>3, WholeOfEpisode DEF Keeps, Does, Yields
<1>4. ASSUME NEW rule \in Definitions(r), NEW t \in Nat, NEW o, ActsOn(p, r, rule, st, t, o)
      PROVE  Entire(law.repeatEvery, states'[p][r])
  <2>1. rule \in Rule /\ rule.repeatEvery = law.repeatEvery
    BY ActingCompiled DEF Compiled, SteadyReminders
  <2>2. states'[p][r] = o.state
    BY <1>4 DEF ActsOn, Yields
  <2>3. CASE Works(rule, st, t, o) \/ Ticks(rule, st, t, o)
    BY <1>2, <2>1, <2>2, <2>3, WorksWhole, TicksWhole
  <2>4. CASE Retracts(rule, st, t, o)
    BY <2>2, <2>4, ClosedWhole DEF Retracts, Does
  <2> QED BY <1>4, <2>3, <2>4 DEF ActsOn
<1> QED BY <1>1, <1>3, <1>4

LEMMA WholeHolds ==
  ASSUME SteadyReminders
  PROVE  Spec => [](EngineInv /\ ClosedInv /\ WholeInv)
<1>1. Init => WholeInv
  BY DEF Init, WholeInv
<1>2. EngineInv /\ ClosedInv /\ WholeInv /\ [Next]_vars => WholeInv'
  BY WholeStep
<1> QED BY <1>1, <1>2, ClosedInvHolds, PTL DEF Spec

(* As long as no reload changes repeat_every, an episode is open, has a     *)
(* last emission and, if its rule repeats, a reminder one interval after    *)
(* it, all at once or not at all: whatever is retracted, reset, drained or  *)
(* folded in (_note_emission, _resolve_episode, _recompute_window).         *)
THEOREM EpisodesComplete ==
  ASSUME SteadyReminders
  PROVE  Spec => []EpisodeComplete
<1>1. ASSUME EngineInv, WholeInv PROVE EpisodeComplete
  <2> SUFFICES ASSUME NEW q \in Live
               PROVE  Entire(Governing(q).repeatEvery, states[q[1]][q[2]])
    BY DEF EpisodeComplete, Entire
  <2>1. q[1] \in Partitions /\ q[2] \in RuleIds /\ states[q[1]][q[2]] # NoState
    BY DEF Live
  <2>2. rules[q[2]] # NoRule
    BY <1>1, <2>1 DEF EngineInv, StateInv, StatesOK
  <2>3. Governing(q) \in Definitions(q[2])
    BY <1>1, <2>1, <2>2, GoverningActs DEF Governing, EngineInv, DefinitionsInv
  <2> QED BY <1>1, <2>1, <2>3 DEF WholeInv
<1> QED BY <1>1, WholeHolds, PTL

-----------------------------------------------------------------------------
\* The distance of two emissions.

\* The definitions of a rule agree on its intervals, which a reload does not
\* look at.
SteadyGaps ==
  \A r \in RuleIds : \A rule, other \in Definitions(r) :
    rule.cooldown = other.cooldown /\ rule.repeatEvery = other.repeatEvery

\* A rule without a gap may emit behind its last emission: a late event, or a
\* window revised.
Ordered(rule, st, limit) ==
  Gap(rule) > 0 /\ EpisodeOpen(st) => st.episodeStarted <= st.lastEmit /\ st.lastEmit <= limit

SpacedBy(rule, was, is) ==
  EpisodeOpen(was) /\ is.episodeStarted = was.episodeStarted /\ is.lastEmit # was.lastEmit
    => LET apart == is.lastEmit - was.lastEmit
       IN /\ rule.repeatEvery > 0 => apart >= rule.repeatEvery
          /\ rule.cooldown > 0 => apart >= rule.cooldown \/ is.lastEmit = was.nextRepeat

OrderedInv ==
  \A p \in Partitions, r \in RuleIds : states[p][r] # NoState =>
    \A rule \in Definitions(r) : Ordered(rule, states[p][r], Limit)

LEMMA GapOf ==
  ASSUME NEW rule \in Rule
  PROVE  /\ Gap(rule) \in Nat /\ Gap(rule) >= rule.cooldown /\ Gap(rule) >= rule.repeatEvery
         /\ rule.cooldown \in Nat /\ rule.repeatEvery \in Nat
BY DEF Gap, MaxOf, Rule

LEMMA SameGaps ==
  ASSUME NEW rule, NEW law, rule.cooldown = law.cooldown, rule.repeatEvery = law.repeatEvery
  PROVE  /\ \A st, limit : Ordered(rule, st, limit) <=> Ordered(law, st, limit)
         /\ \A was, is : SpacedBy(rule, was, is) <=> SpacedBy(law, was, is)
BY DEF Gap, Ordered, SpacedBy

LEMMA SameEpisode ==
  ASSUME NEW rule, NEW st, NEW other, Episode(st) = Episode(other)
  PROVE  /\ \A limit : Ordered(rule, st, limit) <=> Ordered(rule, other, limit)
         /\ \A x : SpacedBy(rule, st, x) <=> SpacedBy(rule, other, x)
         /\ SpacedBy(rule, st, other)
         /\ \A t : OnTime(st, t) <=> OnTime(other, t)
BY DEF Episode, Ordered, SpacedBy, OnTime, EpisodeOpen

LEMMA MomentsOf ==
  ASSUME NEW st \in RuleState
  PROVE  /\ st.episodeStarted \in Int /\ st.lastEmit \in Int /\ st.nextRepeat \in Int
         /\ EpisodeOpen(st) => st.episodeStarted \in Nat
         /\ st.lastEmit # Unset => st.lastEmit \in Nat
BY MomentIsInt DEF RuleState, EpisodeOpen

LEMMA WorksSpaced ==
  ASSUME NEW rule \in Rule, NEW st \in RuleState, Entire(rule.repeatEvery, st),
         NEW limit \in Int, Ordered(rule, st, limit), NEW t \in Nat, t <= limit,
         NEW o, Works(rule, st, t, o)
  PROVE  Ordered(rule, o.state, limit) /\ SpacedBy(rule, st, o.state)
<1>0. /\ st.episodeStarted \in Int /\ st.lastEmit \in Int /\ t # Unset
      /\ Gap(rule) \in Nat /\ rule.cooldown \in Nat /\ rule.repeatEvery \in Nat
      /\ Gap(rule) >= rule.cooldown /\ Gap(rule) >= rule.repeatEvery
  BY MomentsOf, GapOf DEF Unset
<1>1. CASE Keeps(st, o) \/ Calls(rule, st, t, o)
  <2>1. Episode(o.state) = Episode(st)
    BY <1>1 DEF Keeps, Calls, Does
  <2> QED BY <2>1, SameEpisode
<1>2. CASE Opens(rule, st, t, o)
  <2>1. o.state.episodeStarted = t /\ o.state.lastEmit = t /\ ~EpisodeOpen(st)
    BY <1>2, EpisodeParts DEF Opens, Does
  <2> QED BY <2>1 DEF Ordered, SpacedBy
<1>3. CASE Repeats(rule, st, t, o)
  <2>1. o.state.episodeStarted = st.episodeStarted /\ o.state.lastEmit = t /\ EpisodeOpen(st)
    BY <1>3, EpisodeParts DEF Repeats, Does
  <2>2. LastEmission(st) = st.lastEmit
    BY <2>1 DEF Entire, LastEmission
  <2>3. Gap(rule) > 0 => t - st.lastEmit >= Gap(rule)
    BY <1>3, <2>2 DEF Repeats
  <2>4. Gap(rule) > 0 => st.episodeStarted <= t
    <3>1. Gap(rule) > 0 => st.episodeStarted <= st.lastEmit
      BY <2>1 DEF Ordered
    <3> QED BY <1>0, <2>3, <3>1
  <2>5. SpacedBy(rule, st, o.state)
    <3>1. rule.repeatEvery > 0 => t - st.lastEmit >= rule.repeatEvery
      BY <1>0, <2>3
    <3>2. rule.cooldown > 0 => t - st.lastEmit >= rule.cooldown
      BY <1>0, <2>3
    <3> QED BY <2>1, <3>1, <3>2 DEF SpacedBy
  <2> QED BY <2>1, <2>4, <2>5 DEF Ordered
<1>4. CASE Closes(rule, st, t, o)
  <2>1. o.state.episodeStarted = Unset
    BY <1>4 DEF Closes, Does, Episode, Closed
  <2> QED BY <2>1 DEF Ordered, SpacedBy, EpisodeOpen
<1> QED BY <1>1, <1>2, <1>3, <1>4 DEF Works

(* A reminder comes at the very instant it was set for.                     *)
LEMMA RemindsPunctually ==
  ASSUME NEW rule \in Rule, NEW st \in RuleState, Entire(rule.repeatEvery, st),
         NEW t \in Nat, OnTime(st, t), NEW o, Reminds(rule, st, t, o)
  PROVE  /\ EpisodeOpen(st) /\ t = st.nextRepeat /\ t = st.lastEmit + rule.repeatEvery
         /\ rule.repeatEvery \in Nat /\ rule.repeatEvery > 0
         /\ o.state.episodeStarted = st.episodeStarted /\ o.state.lastEmit = t
<1>1. /\ o.state.episodeStarted = st.episodeStarted /\ o.state.lastEmit = t
      /\ EpisodeOpen(st) /\ rule.repeatEvery > 0
  BY EpisodeParts DEF Reminds, Does
<1>2. st.nextRepeat \in Int /\ st.nextRepeat <= t /\ t <= st.nextRepeat
  BY MomentsOf DEF Reminds, OnTime
<1>3. t = st.nextRepeat
  BY <1>2
<1>4. st.nextRepeat = st.lastEmit + rule.repeatEvery
  BY DEF Entire, Reminds
<1> QED BY <1>1, <1>3, <1>4, GapOf

(* Nothing else is said of the episode at the instant of a reminder but,    *)
(* perhaps, that it ends.                                                   *)
LEMMA NothingAfterReminder ==
  ASSUME NEW rule \in Rule, rule.repeatEvery > 0, NEW t \in Nat,
         NEW st, EpisodeOpen(st), HasLifecycle(rule), st.lastEmit = t,
         NEW o, Works(rule, st, t, o)
  PROVE  Keeps(st, o) \/ Closes(rule, st, t, o)
<1>1. LastEmission(st) = t
  BY DEF LastEmission, Unset
<1>2. Gap(rule) \in Nat /\ Gap(rule) > 0
  BY GapOf
<1>3. ~Repeats(rule, st, t, o)
  BY <1>1, <1>2 DEF Repeats
<1> QED BY <1>3 DEF Works, Calls, Opens

LEMMA RemindsSpaced ==
  ASSUME NEW rule \in Rule, NEW st \in RuleState, Entire(rule.repeatEvery, st),
         NEW limit \in Int, Ordered(rule, st, limit), NEW t \in Nat, t <= limit, OnTime(st, t),
         NEW o, Reminds(rule, st, t, o)
  PROVE  Ordered(rule, o.state, limit) /\ SpacedBy(rule, st, o.state)
<1>0. st.episodeStarted \in Int /\ st.lastEmit \in Int
  BY MomentsOf
<1>1. /\ EpisodeOpen(st) /\ t = st.nextRepeat /\ t = st.lastEmit + rule.repeatEvery
      /\ rule.repeatEvery \in Nat /\ rule.repeatEvery > 0
      /\ o.state.episodeStarted = st.episodeStarted /\ o.state.lastEmit = t
  BY RemindsPunctually
<1>2. st.episodeStarted <= t
  <2>1. Gap(rule) > 0
    BY <1>1, GapOf
  <2>2. st.episodeStarted <= st.lastEmit
    BY <1>1, <2>1 DEF Ordered
  <2> QED BY <1>0, <1>1, <2>2
<1>3. t - st.lastEmit >= rule.repeatEvery
  BY <1>0, <1>1
<1> QED BY <1>1, <1>2, <1>3 DEF Ordered, SpacedBy

LEMMA TicksSpaced ==
  ASSUME NEW rule \in Rule, NEW st \in RuleState, Entire(rule.repeatEvery, st),
         NEW limit \in Int, Ordered(rule, st, limit), NEW t \in Nat, t <= limit, OnTime(st, t),
         NEW o, Ticks(rule, st, t, o)
  PROVE  Ordered(rule, o.state, limit) /\ SpacedBy(rule, st, o.state)
<1>1. PICK first, second :
        /\ first.state \in RuleState /\ o = Then(first, second)
        /\ Keeps(st, first) \/ Reminds(rule, st, t, first)
        /\ Works(rule, first.state, t, second)
  BY DEF Ticks
<1>2. o.state = second.state
  BY <1>1 DEF Then
<1>3. CASE Keeps(st, first)
  <2>1. Episode(first.state) = Episode(st)
    BY <1>3 DEF Keeps, Does
  <2>2. Entire(rule.repeatEvery, first.state) /\ Ordered(rule, first.state, limit)
    BY <2>1, WholeOfEpisode, SameEpisode
  <2>3. Ordered(rule, second.state, limit) /\ SpacedBy(rule, first.state, second.state)
    BY <1>1, <2>2, WorksSpaced
  <2> QED BY <1>2, <2>1, <2>3, SameEpisode
<1>4. CASE Reminds(rule, st, t, first)
  <2>1. Ordered(rule, first.state, limit) /\ SpacedBy(rule, st, first.state)
    BY <1>4, RemindsSpaced
  <2>2. /\ HasLifecycle(rule) /\ rule.repeatEvery > 0 /\ first.state.lastEmit = t
        /\ EpisodeOpen(first.state)
    BY <1>4, RemindsPunctually DEF HasLifecycle, EpisodeOpen
  <2>3. CASE Keeps(first.state, second)
    <3>1. Episode(second.state) = Episode(first.state)
      BY <2>3 DEF Keeps, Does
    <3>2. /\ second.state.episodeStarted = first.state.episodeStarted
          /\ second.state.lastEmit = first.state.lastEmit
      BY <3>1 DEF Episode
    <3> QED BY <1>2, <2>1, <3>2 DEF Ordered, SpacedBy, EpisodeOpen
  <2>4. CASE Closes(rule, first.state, t, second)
    <3>1. second.state.episodeStarted = Unset
      BY <2>4 DEF Closes, Does, Episode, Closed
    <3> QED BY <1>2, <3>1 DEF Ordered, SpacedBy, EpisodeOpen
  <2> QED BY <1>1, <2>2, <2>3, <2>4, NothingAfterReminder
<1> QED BY <1>1, <1>3, <1>4

(* An episode that was not open before is opened, and heard of, at once.    *)
LEMMA OpensAnew ==
  ASSUME NEW rule, NEW st, Episode(st) = Closed, NEW t,
         NEW o, Works(rule, st, t, o) \/ Ticks(rule, st, t, o), EpisodeOpen(o.state)
  PROVE  o.state.episodeStarted = t /\ o.state.lastEmit = t
<1>1. ASSUME NEW s, Episode(s) = Closed, NEW w, Works(rule, s, t, w), EpisodeOpen(w.state)
      PROVE  w.state.episodeStarted = t /\ w.state.lastEmit = t
  <2>1. ~EpisodeOpen(s) /\ Episode(w.state) # Episode(s)
    BY <1>1 DEF Episode, Closed, EpisodeOpen
  <2>2. Opens(rule, s, t, w)
    BY <1>1, <2>1 DEF Works, Keeps, Calls, Repeats, Closes, Does
  <2> QED BY <2>2, EpisodeParts DEF Opens, Does
<1>2. CASE Works(rule, st, t, o)
  BY <1>1, <1>2
<1>3. CASE Ticks(rule, st, t, o)
  <2>1. PICK first, second :
          /\ o = Then(first, second)
          /\ Keeps(st, first) \/ Reminds(rule, st, t, first)
          /\ Works(rule, first.state, t, second)
    BY <1>3 DEF Ticks
  <2>2. Episode(first.state) = Closed
    BY <2>1 DEF Reminds, EpisodeOpen, Episode, Closed, Keeps, Does
  <2>3. o.state = second.state
    BY <2>1 DEF Then
  <2> QED BY <1>1, <2>1, <2>2, <2>3
<1> QED BY <1>2, <1>3

(* What a step makes of the episode it finds.                               *)
LEMMA SpacedTurn ==
  ASSUME EngineInv, ClosedInv, SteadyGaps, WholeInv, OrderedInv, [Next]_vars,
         NEW p \in Partitions, NEW r \in RuleIds, states'[p][r] # NoState
  PROVE  \A law \in Definitions(r) :
           /\ Ordered(law, states'[p][r], Limit')
           /\ states[p][r] # NoState => SpacedBy(law, states[p][r], states'[p][r])
<1> DEFINE was == states[p][r]
           is == states'[p][r]
<1>0. Limit \in Int /\ Limit' \in Int /\ Limit <= Limit'
  BY LimitGrows, MomentIsInt DEF EngineInv
<1>1. PICK st :
        /\ Starts(p, r, st)
        /\ \/ \E o : Keeps(st, o) /\ Yields(p, r, o)
           \/ \E rule \in Definitions(r), t \in Nat : \E o : ActsOn(p, r, rule, st, t, o)
  BY EpisodeTurnTaken DEF EpisodeTurn
<1>2. st \in RuleState /\ is \in RuleState /\ (was # NoState => was \in RuleState)
  <2>1. is \in RuleState
    BY EngineInvStep DEF EngineInv, StateInv, StatesOK
  <2> QED BY <1>1, <2>1 DEF Starts, EngineInv, StateInv, StatesOK
<1>3. \A rule \in Definitions(r) :
        rule \in Rule /\ Ordered(rule, st, Limit') /\ Entire(rule.repeatEvery, st)
  <2> SUFFICES ASSUME NEW rule \in Definitions(r)
               PROVE  Ordered(rule, st, Limit') /\ Entire(rule.repeatEvery, st)
    BY ActingCompiled DEF Compiled
  <2>1. CASE st = was
    <3>1. was # NoState
      BY <1>2, <2>1, EngineAssumption
    <3>2. was.lastEmit \in Int /\ was.episodeStarted \in Int
      BY <1>2, <3>1, MomentsOf
    <3>3. Ordered(rule, st, Limit)
      BY <2>1, <3>1 DEF OrderedInv
    <3> QED BY <1>0, <2>1, <3>1, <3>2, <3>3 DEF WholeInv, Ordered
  <2>2. CASE Episode(st) = Closed
    <3>1. ~EpisodeOpen(st)
      BY <2>2 DEF Episode, Closed, EpisodeOpen
    <3> QED BY <2>2, <3>1, ClosedWhole DEF Ordered
  <2> QED BY <1>1, <2>1, <2>2 DEF Starts
<1> SUFFICES ASSUME NEW law \in Definitions(r)
             PROVE  Ordered(law, is, Limit') /\ (was # NoState => SpacedBy(law, was, is))
  OBVIOUS
<1>4. ASSUME Ordered(law, is, Limit'), SpacedBy(law, st, is),
             st # was /\ was # NoState => ~EpisodeOpen(is) \/
               (is.episodeStarted = Limit' /\ is.lastEmit = Limit')
      PROVE  was # NoState => SpacedBy(law, was, is)
  <2>1. CASE st = was
    BY <1>4, <2>1
  <2>2. CASE st # was /\ was # NoState
    <3>1. ASSUME EpisodeOpen(was), is.episodeStarted = was.episodeStarted, Gap(law) > 0
          PROVE  is.lastEmit = was.lastEmit
      <4>1. EpisodeOpen(is)
        BY <3>1 DEF EpisodeOpen
      <4>2. is.episodeStarted = Limit' /\ is.lastEmit = Limit'
        BY <1>4, <2>2, <4>1
      <4>3. was.episodeStarted <= was.lastEmit /\ was.lastEmit <= Limit
        BY <2>2, <3>1 DEF OrderedInv, Ordered
      <4>4. was.lastEmit \in Int
        BY <1>2, <2>2, MomentsOf
      <4> QED BY <1>0, <3>1, <4>2, <4>3, <4>4
    <3>2. ~(Gap(law) > 0) => ~(law.cooldown > 0) /\ ~(law.repeatEvery > 0)
      BY <1>3, GapOf
    <3> QED BY <3>1, <3>2 DEF SpacedBy
  <2> QED BY <2>1, <2>2
<1>5. ASSUME NEW o, Keeps(st, o), Yields(p, r, o)
      PROVE  Ordered(law, is, Limit') /\ (was # NoState => SpacedBy(law, was, is))
  <2>1. Episode(is) = Episode(st)
    BY <1>5 DEF Keeps, Does, Yields
  <2>2. Ordered(law, is, Limit') /\ SpacedBy(law, st, is)
    BY <1>3, <2>1, SameEpisode
  <2>3. st # was => ~EpisodeOpen(is)
    BY <1>1, <2>1 DEF Starts, Episode, Closed, EpisodeOpen
  <2> QED BY <1>4, <2>2, <2>3
<1>6. ASSUME NEW rule \in Definitions(r), NEW t \in Nat, NEW o, ActsOn(p, r, rule, st, t, o)
      PROVE  Ordered(law, is, Limit') /\ (was # NoState => SpacedBy(law, was, is))
  <2>1. is = o.state /\ t <= Limit' /\ (was # NoState /\ st # was => t = Limit')
    BY <1>6 DEF ActsOn, Yields
  <2>2. ASSUME Works(rule, st, t, o) \/ (Ticks(rule, st, t, o) /\ OnTime(st, t))
        PROVE  Ordered(law, is, Limit') /\ (was # NoState => SpacedBy(law, was, is))
    <3>1. Ordered(rule, is, Limit') /\ SpacedBy(rule, st, is)
      BY <1>0, <1>2, <1>3, <2>1, <2>2, WorksSpaced, TicksSpaced
    <3>2. Ordered(law, is, Limit') /\ SpacedBy(law, st, is)
      BY <3>1, SameGaps DEF SteadyGaps
    <3>3. st # was /\ EpisodeOpen(is) /\ was # NoState => is.episodeStarted = t /\ is.lastEmit = t
      BY <1>1, <2>1, <2>2, OpensAnew DEF Starts
    <3> QED BY <1>4, <2>1, <3>2, <3>3
  <2>3. CASE Retracts(rule, st, t, o)
    <3>1. ~EpisodeOpen(is)
      BY <2>1, <2>3 DEF Retracts, Does, Episode, Closed, EpisodeOpen
    <3>2. Ordered(law, is, Limit') /\ SpacedBy(law, st, is)
      BY <3>1 DEF Ordered, SpacedBy, EpisodeOpen
    <3> QED BY <1>4, <3>1, <3>2
  <2> QED BY <1>6, <2>2, <2>3 DEF ActsOn
<1> QED BY <1>1, <1>5, <1>6

LEMMA OrderedHolds ==
  ASSUME SteadyGaps
  PROVE  Spec => [](EngineInv /\ ClosedInv /\ WholeInv /\ OrderedInv)
<1>1. Init => OrderedInv
  BY DEF Init, OrderedInv
<1>2. EngineInv /\ ClosedInv /\ WholeInv /\ OrderedInv /\ [Next]_vars => OrderedInv'
  BY SpacedTurn DEF OrderedInv
<1>3. SteadyReminders
  BY DEF SteadyGaps, SteadyReminders
<1> QED BY <1>1, <1>2, <1>3, WholeHolds, PTL DEF Spec

(* Two emissions of one episode are at least repeat_every apart, and at     *)
(* least cooldown unless the later one is the pending reminder, whatever    *)
(* arrives late, is revised, or is reloaded, as long as no reload changes   *)
(* the two intervals (_lifecycle_decision, _note_emission,                  *)
(* _fire_due_timers).                                                       *)
THEOREM EmissionsApart ==
  ASSUME SteadyGaps
  PROVE  Spec => EmissionsSpaced
<1> DEFINE Apart(p, r) ==
      (states[p][r] # NoState /\ states'[p][r] # NoState) =>
        LET was == states[p][r]
            is == states'[p][r]
        IN (/\ EpisodeOpen(was) /\ is.episodeStarted = was.episodeStarted
            /\ is.lastEmit # was.lastEmit)
           => LET rule == RuleFor(rules, draining, p, r)
                  apart == is.lastEmit - was.lastEmit
              IN /\ rule.repeatEvery > 0 => apart >= rule.repeatEvery
                 /\ rule.cooldown > 0 =>
                      apart >= rule.cooldown \/ is.lastEmit = was.nextRepeat
<1>1. ASSUME EngineInv, ClosedInv, WholeInv, OrderedInv, [Next]_vars,
             NEW p \in Partitions, NEW r \in RuleIds,
             states[p][r] # NoState, states'[p][r] # NoState
      PROVE  SpacedBy(RuleFor(rules, draining, p, r), states[p][r], states'[p][r])
  <2>1. RuleFor(rules, draining, p, r) \in Definitions(r)
    BY <1>1, GoverningActs DEF EngineInv, DefinitionsInv, StateInv, StatesOK
  <2> QED BY <1>1, <2>1, SpacedTurn
<1>2. EngineInv /\ ClosedInv /\ WholeInv /\ OrderedInv /\ [Next]_vars
        => [\A p \in Partitions, r \in RuleIds : Apart(p, r)]_vars
  BY <1>1 DEF SpacedBy
<1> QED BY <1>2, OrderedHolds, PTL DEF Spec, EmissionsSpaced

-----------------------------------------------------------------------------
\* The end of an episode, across reloads.

\* No window is revised after it has closed.
Unrevised ==
  RecomputeLate => \A r \in RuleIds : \A rule \in Definitions(r) : rule.trigger # "window"

\* No reload removes a rule.
NothingRemoved ==
  \A new \in Reloads, r \in RuleIds : Definitions(r) # {} => new[r] # NoRule

Announces(alerts, start) ==
  \E i \in DOMAIN alerts : alerts[i].label = "resolved" /\ alerts[i].corr = start

\* The episode of was goes on in o, or o closes it and says so.
Answers(was, o) ==
  /\ o.alerts \in Seq(Alert)
  /\ \/ o.state.episodeStarted = was.episodeStarted
     \/ o.resolved /\ Announces(o.alerts, was.episodeStarted)

LEMMA AnnouncedAfter ==
  ASSUME NEW a \in Seq(Alert), NEW b \in Seq(Alert), NEW start, Announces(b, start)
  PROVE  Announces(a \o b, start)
<1>1. PICK i \in DOMAIN b : b[i].label = "resolved" /\ b[i].corr = start
  BY DEF Announces
<1>2. i \in 1 .. Len(b) /\ Len(a) \in Nat /\ Len(b) \in Nat
  BY <1>1, LenProperties
<1> DEFINE j == Len(a) + i
<1>3. /\ a \o b \in Seq(Alert) /\ Len(a \o b) = Len(a) + Len(b)
      /\ j \in 1 .. Len(a) + Len(b) /\ (a \o b)[j] = b[i]
  BY <1>2, ConcatProperties
<1>4. j \in DOMAIN (a \o b)
  BY <1>3, LenProperties
<1> HIDE DEF j
<1> QED BY <1>1, <1>3, <1>4 DEF Announces

LEMMA OneAlert ==
  ASSUME NEW label \in Labels, NEW t \in Nat, NEW start \in Moment
  PROVE  <<Saying(label, t, start)>> \in Seq(Alert)
<1> DEFINE alert == Saying(label, t, start)
<1>1. alert \in Alert
  BY DEF Saying, Alert
<1> HIDE DEF alert
<1>2. <<alert>> \in Seq(Alert)
  BY <1>1
<1> QED BY <1>2 DEF alert

(* Work on an open episode continues it, or closes it with an announcement; *)
(* a rule that is not resolved leaves it open.                              *)
LEMMA WorksAnswers ==
  ASSUME NEW rule \in Rule, NEW st \in RuleState, EpisodeOpen(st), NEW t \in Nat, NEW o,
         Works(rule, st, t, o)
  PROVE  Answers(st, o)
<1>0. st.episodeStarted \in Moment /\ Unset \in Moment
  BY DEF RuleState, Moment
<1>1. CASE Keeps(st, o)
  <2>1. << >> \in Seq(Alert)
    BY EmptySeq
  <2> QED BY <1>1, <2>1 DEF Keeps, Does, Episode, Answers
<1>2. CASE Calls(rule, st, t, o)
  BY <1>0, <1>2, OneAlert DEF Calls, Does, Episode, Answers, Labels
<1>3. CASE Opens(rule, st, t, o)
  BY <1>3 DEF Opens
<1>4. CASE Repeats(rule, st, t, o)
  <2>1. o.state.episodeStarted = st.episodeStarted
    BY <1>4, EpisodeParts DEF Repeats, Does
  <2> QED BY <1>0, <1>4, <2>1, OneAlert DEF Repeats, Does, Answers, Labels
<1>5. CASE Closes(rule, st, t, o)
  <2>1. o.alerts = <<Saying("resolved", t, st.episodeStarted)>> /\ o.resolved
    BY <1>5 DEF Closes, Does
  <2>2. 1 \in DOMAIN o.alerts /\ o.alerts[1] = Saying("resolved", t, st.episodeStarted)
    BY <2>1
  <2>3. Announces(o.alerts, st.episodeStarted)
    BY <2>2 DEF Announces, Saying
  <2>4. o.alerts \in Seq(Alert)
    BY <1>0, <2>1, OneAlert DEF Labels
  <2> QED BY <2>1, <2>3, <2>4 DEF Answers
<1> QED BY <1>1, <1>2, <1>3, <1>4, <1>5 DEF Works

LEMMA TicksAnswers ==
  ASSUME NEW rule \in Rule, NEW st \in RuleState, EpisodeOpen(st), NEW t \in Nat, NEW o,
         Ticks(rule, st, t, o)
  PROVE  Answers(st, o)
<1>1. PICK first, second :
        /\ first.state \in RuleState /\ o = Then(first, second)
        /\ Keeps(st, first) \/ Reminds(rule, st, t, first)
        /\ Works(rule, first.state, t, second)
  BY DEF Ticks
<1>2. first.state.episodeStarted = st.episodeStarted /\ first.alerts \in Seq(Alert)
  <2>1. CASE Keeps(st, first)
    <3>1. << >> \in Seq(Alert)
      BY EmptySeq
    <3> QED BY <2>1, <3>1 DEF Keeps, Does, Episode
  <2>2. CASE Reminds(rule, st, t, first)
    <3>1. first.state.episodeStarted = st.episodeStarted
      BY <2>2, EpisodeParts DEF Reminds, Does
    <3>2. (IF HasLifecycle(rule) THEN st.episodeStarted ELSE Unset) \in Moment
      BY DEF RuleState, Moment
    <3> QED BY <2>2, <3>1, <3>2, OneAlert DEF Reminds, Does, Labels
  <2> QED BY <1>1, <2>1, <2>2
<1>3. Answers(first.state, second)
  BY <1>1, <1>2, WorksAnswers DEF EpisodeOpen
<1>4. o.state = second.state /\ o.alerts = first.alerts \o second.alerts
      /\ (second.resolved => o.resolved)
  BY <1>1 DEF Then
<1>5. o.alerts \in Seq(Alert)
  BY <1>2, <1>3, <1>4, ConcatProperties DEF Answers
<1> QED BY <1>2, <1>3, <1>4, <1>5, AnnouncedAfter DEF Answers

\* A drain that holds the partitions of a rule in force whose episodes are open.
Rooted(drain, r, rs) ==
  /\ drain.rule = NoRule <=> drain.parts = {}
  /\ \A p \in drain.parts : /\ p \in Partitions /\ rs[r] # NoRule
                            /\ states[p][r] # NoState /\ EpisodeOpen(states[p][r])

LEMMA FinishRooted ==
  ASSUME NEW drain \in Drain, NEW r, NEW rs, Rooted(drain, r, rs), NEW finished
  PROVE  Rooted(FinishDrain(drain, finished), r, rs)
<1>1. CASE drain.parts \subseteq finished
  BY <1>1 DEF FinishDrain, NoDrain, Rooted
<1>2. CASE ~(drain.parts \subseteq finished)
  <2>1. /\ FinishDrain(drain, finished).rule = drain.rule
        /\ FinishDrain(drain, finished).parts = drain.parts \ finished
    BY <1>2 DEF FinishDrain, Drain
  <2> QED BY <1>2, <2>1 DEF Rooted
<1> QED BY <1>1, <1>2

LEMMA ReloadRooted ==
  ASSUME StateInv, NEW new \in Reloads, NEW policy \in ReloadPolicies,
         NEW r \in RuleIds, Rooted(draining[r], r, rules)
  PROVE  Rooted(ApplyReload(rules, states, draining, known, new, policy).draining[r], r, new)
<1> DEFINE open == [s \in RuleIds |-> OpenEpisodes(states, s)]
           outcome == [s \in RuleIds |-> ReloadOutcome(rules[s], new[s], open[s], policy)]
           dr == [s \in RuleIds |->
                    CASE outcome[s] = "removed" -> NoDrain
                      [] outcome[s] = "draining" -> [rule |-> rules[s], parts |-> open[s]]
                      [] OTHER -> draining[s]]
<1>1. ApplyReload(rules, states, draining, known, new, policy).draining[r] = dr[r]
  BY DEF ApplyReload
<1>2. outcome[r] = ReloadOutcome(rules[r], new[r], OpenEpisodes(states, r), policy)
  OBVIOUS
<1>3. dr[r] = CASE outcome[r] = "removed" -> NoDrain
                [] outcome[r] = "draining" -> [rule |-> rules[r], parts |-> open[r]]
                [] OTHER -> draining[r]
  OBVIOUS
<1>4. open[r] = OpenEpisodes(states, r)
  OBVIOUS
<1> HIDE DEF outcome, dr, open
<1>5. CASE outcome[r] = "removed"
  BY <1>1, <1>3, <1>5 DEF NoDrain, Rooted
<1>6. CASE outcome[r] = "draining"
  <2>1. rules[r] # NoRule /\ new[r] # NoRule /\ OpenEpisodes(states, r) # {}
    BY <1>2, <1>6 DEF ReloadOutcome
  <2>2. dr[r] = [rule |-> rules[r], parts |-> OpenEpisodes(states, r)]
    BY <1>3, <1>4, <1>6
  <2> QED BY <1>1, <2>1, <2>2 DEF Rooted, OpenEpisodes
<1>7. CASE outcome[r] \notin {"removed", "draining"}
  <2>1. dr[r] = draining[r]
    BY <1>3, <1>7
  <2>2. new[r] = NoRule => rules[r] = NoRule
    BY <1>2, <1>7 DEF ReloadOutcome
  <2> QED BY <1>1, <2>1, <2>2 DEF Rooted
<1> QED BY <1>1, <1>5, <1>6, <1>7

LEMMA CommitRooted ==
  ASSUME NEW outcome, NEW sofar, NEW dr, DrainsOK(dr), Commit(outcome, sofar, dr),
         NEW r \in RuleIds, NEW rs, Rooted(dr[r], r, rs)
  PROVE  Rooted(draining'[r], r, rs)
<1>1. draining'[r] = FinishDrain(dr[r], {p \in Partitions : outcome[p][r].resolved})
  BY DEF Commit
<1> QED BY <1>1, FinishRooted DEF DrainsOK

(* A drain begins with the episodes that are open, and a step can only end  *)
(* what is left of it.                                                      *)
LEMMA DrainsRooted ==
  ASSUME EngineInv, DrainsEndWithEpisodes, [Next]_vars, NEW r \in RuleIds
  PROVE  Rooted(draining'[r], r, rules')
<1>0. DrainsOK(draining) /\ Rooted(draining[r], r, rules)
  <2>1. draining[r].parts \subseteq Partitions
    BY DEF EngineInv, StateInv, DrainsOK, Drain
  <2> QED BY <2>1 DEF EngineInv, StateInv, StatesOK, DrainsEndWithEpisodes, Rooted
<1>1. CASE UNCHANGED <<rules, draining>>
  BY <1>0, <1>1
<1>2. ASSUME NEW ev \in Offered, ProcessEvent(ev)
      PROVE  Rooted(draining'[r], r, rules')
  <2>1. CASE RefuseLate(ev) \/ AcceptEvent(ev)
    BY <1>1, <2>1 DEF RefuseLate, AcceptEvent
  <2>2. CASE FoldLate(ev)
    BY <1>0, <2>2, CommitRooted DEF FoldLate
  <2>3. CASE FirstEvent(ev)
    BY <1>0, <2>3, CommitRooted DEF FirstEvent, Deliver
  <2> QED BY <1>2, <2>1, <2>2, <2>3 DEF ProcessEvent
<1>3. ASSUME NEW t \in 0 .. MaxTime, FirstAdvance(t) \/ AdvanceTo(t)
      PROVE  UNCHANGED <<rules, draining>>
  BY <1>3 DEF FirstAdvance, AdvanceTo
<1>4. ASSUME NEW new \in Reloads, NEW policy \in ReloadPolicies, Reload(new, policy)
      PROVE  Rooted(draining'[r], r, rules')
  <2>1. CASE ReloadNow(new, policy)
    <3> DEFINE now == ApplyReload(rules, states, draining, known, new, policy)
    <3>1. rules' = now.rules /\ draining' = now.draining
      BY <2>1 DEF ReloadNow
    <3>2. now.rules = new
      BY DEF ApplyReload
    <3>3. Rooted(now.draining[r], r, new)
      BY <1>0, ReloadRooted DEF EngineInv
    <3> HIDE DEF now
    <3> QED BY <3>1, <3>2, <3>3
  <2>2. ASSUME NEW at \in 0 .. MaxTime, StageReload(new, policy, at)
        PROVE  UNCHANGED <<rules, draining>>
    BY <2>2 DEF StageReload
  <2> QED BY <1>1, <1>4, <2>1, <2>2 DEF Reload
<1>5. CASE FireDue
  BY <1>0, <1>5, CommitRooted DEF FireDue
<1>6. ASSUME NEW x \in call.reopen, Recompute(x)
      PROVE  Rooted(draining'[r], r, rules')
  BY <1>0, <1>6, CommitRooted DEF Recompute
<1>7. CASE Settle
  <2> DEFINE now == Activated(call.target)
  <2>1. rules' = now.rules /\ (call.event = NoEvent => draining' = now.draining)
        /\ (call.event # NoEvent =>
              Deliver(call.event, now.rules, now.states, now.draining, out))
    BY <1>7 DEF Settle
  <2>2. Rooted(now.draining[r], r, now.rules) /\ DrainsOK(now.draining)
    <3>1. CASE Activates(call.target)
      <4>1. /\ pending.rules \in Reloads /\ pending.policy \in ReloadPolicies
            /\ RulesOK(pending.rules)
        BY <3>1 DEF Activates, EngineInv, StateInv, DefinitionsInv
      <4>2. now = ApplyReload(rules, states, draining, known, pending.rules, pending.policy)
        BY <3>1 DEF Activated
      <4> HIDE DEF now
      <4>3. now.rules = pending.rules /\ DrainsOK(now.draining)
        BY <4>1, <4>2, ApplyReloadType DEF EngineInv
      <4> QED BY <1>0, <4>1, <4>2, <4>3, ReloadRooted DEF EngineInv
    <3>2. CASE ~Activates(call.target)
      BY <1>0, <3>2 DEF Activated
    <3> QED BY <3>1, <3>2
  <2> HIDE DEF now
  <2> QED BY <2>1, <2>2, CommitRooted DEF Deliver
<1> QED BY <1>1, <1>2, <1>3, <1>4, <1>5, <1>6, <1>7 DEF Next, Progress, vars

(* The rules change by a reload only.                                       *)
LEMMA RulesStep ==
  ASSUME EngineInv, [Next]_vars
  PROVE  rules' = rules \/ rules' \in Reloads
<1>1. ASSUME NEW ev \in Offered, ProcessEvent(ev) PROVE rules' = rules
  BY <1>1 DEF ProcessEvent, RefuseLate, FoldLate, FirstEvent, AcceptEvent
<1>2. ASSUME NEW t \in 0 .. MaxTime, FirstAdvance(t) \/ AdvanceTo(t) PROVE rules' = rules
  BY <1>2 DEF FirstAdvance, AdvanceTo
<1>3. ASSUME NEW new \in Reloads, NEW policy \in ReloadPolicies, Reload(new, policy)
      PROVE  rules' = rules \/ rules' \in Reloads
  BY <1>3 DEF Reload, ReloadNow, StageReload, ApplyReload
<1>4. CASE Settle
  BY <1>4 DEF Settle, Activated, Activates, ApplyReload, EngineInv, DefinitionsInv
<1>5. CASE FireDue
  BY <1>5 DEF FireDue
<1>6. ASSUME NEW x \in call.reopen, Recompute(x) PROVE rules' = rules
  BY <1>6 DEF Recompute
<1> QED BY <1>1, <1>2, <1>3, <1>4, <1>5, <1>6 DEF Next, Progress, vars

(* A step leaves a rule that holds no state alone.                          *)
LEMMA TurnState ==
  ASSUME EngineInv, [Next]_vars, NEW p \in Partitions, NEW r \in RuleIds,
         states'[p][r] = NoState
  PROVE  Rests(p, r)
<1>0. states[p][r] # NoState => states[p][r] \in RuleState
  BY DEF EngineInv, StateInv, StatesOK
<1>1. NoState \notin RuleState
  BY EngineAssumption
<1>2. \A rule \in Definitions(r) : Compiled(rule) /\ rule \in Rule
  BY ActingCompiled DEF Compiled
<1>3. ASSUME Hears(p, r) PROVE FALSE
  <2>1. PICK rule \in Definitions(r), st \in RuleState \cup {NoState}, ev \in Event :
          HearsFrom(p, r, rule, st, ev)
    BY <1>3 DEF Hears
  <2>2. Ensured(rule, st, ev.ts) \in RuleState
    BY <1>2, EnsuredType DEF Event
  <2>3. InOrder(rule, Ensured(rule, st, ev.ts), ev).state \in RuleState
    BY <1>2, <2>2, InOrderType DEF Outcome
  <2> QED BY <1>1, <2>1, <2>3 DEF HearsFrom, Yields
<1>4. ASSUME HearsLate(p, r) PROVE FALSE
  <2>1. PICK rule \in Definitions(r), ev \in Event : HearsLateOf(p, r, rule, ev)
    BY <1>4 DEF HearsLate
  <2>2. Ensured(rule, states[p][r], Limit) \in RuleState
    BY <1>0, <1>2, <2>1, EnsuredType DEF HearsLateOf
  <2>3. OnLate(rule, Ensured(rule, states[p][r], Limit), ev).state \in RuleState
    BY <1>2, <2>2, OnLateType DEF Outcome
  <2> QED BY <1>1, <2>1, <2>3 DEF HearsLateOf, Yields
<1>5. ASSUME Recomputes(p, r) PROVE FALSE
  <2>1. PICK rule \in Definitions(r), x \in call.reopen : RecomputesAt(p, r, rule, x)
    BY <1>5 DEF Recomputes
  <2>2. rule \in Rule /\ x.end \in Nat /\ states[p][r] \in RuleState
    BY <1>0, <1>2, <2>1 DEF RecomputesAt, EngineInv, StateInv, Call, Reopened
  <2>3. RecomputeWindow(rule, states[p][r], x.end).state \in RuleState
    BY <2>2, RecomputeWindowType DEF Outcome
  <2> QED BY <1>1, <2>1, <2>3 DEF RecomputesAt, Yields
<1>6. ASSUME Times(p, r) PROVE FALSE
  <2>1. PICK rule \in Definitions(r), due \in Nat : TimesAt(p, r, rule, due)
    BY <1>6 DEF Times
  <2>2. OnTimer(rule, states[p][r], due, RecomputeLate).state \in RuleState
    BY <1>0, <1>2, <2>1, OnTimerType DEF TimesAt, Outcome
  <2> QED BY <1>1, <2>1, <2>2 DEF TimesAt, Yields
<1> QED BY <1>3, <1>4, <1>5, <1>6, TurnTaken DEF Turn

(* Under gentle reloads the turn of a rule with an open episode starts from *)
(* that episode, and its state is still there when the rule is.             *)
LEMMA OpenTurn ==
  ASSUME Gentle, Unrevised, EngineInv, ClosedInv, [Next]_vars,
         NEW p \in Partitions, NEW r \in RuleIds, rules'[r] # NoRule,
         states[p][r] # NoState, EpisodeOpen(states[p][r])
  PROVE  /\ states'[p][r] # NoState
         /\ \E o : Answers(states[p][r], o) /\ Yields(p, r, o)
<1>0. states[p][r] \in RuleState
  BY DEF EngineInv, StateInv, StatesOK
<1>1. ASSUME NEW st, From(p, r, st) PROVE st = states[p][r]
  BY <1>1 DEF From, Expendable
<1>2. states'[p][r] # NoState
  BY <1>1, TurnState DEF Rests, Yields, Silent
<1>3. PICK st :
        /\ Starts(p, r, st)
        /\ \/ \E o : Keeps(st, o) /\ Yields(p, r, o)
           \/ \E rule \in Definitions(r), t \in Nat : \E o : ActsOn(p, r, rule, st, t, o)
  BY <1>2, EpisodeTurnTaken DEF EpisodeTurn
<1>4. st = states[p][r]
  BY <1>3 DEF Starts, Expendable
<1>5. ASSUME NEW o, Keeps(st, o), Yields(p, r, o)
      PROVE  \E x : Answers(states[p][r], x) /\ Yields(p, r, x)
  <2>1. << >> \in Seq(Alert)
    BY EmptySeq
  <2>2. Answers(st, o)
    BY <1>5, <2>1 DEF Keeps, Does, Episode, Answers
  <2> QED BY <1>4, <1>5, <2>2
<1>6. ASSUME NEW rule \in Definitions(r), NEW t \in Nat, NEW o, ActsOn(p, r, rule, st, t, o)
      PROVE  \E x : Answers(states[p][r], x) /\ Yields(p, r, x)
  <2>1. rule \in Rule
    BY ActingCompiled DEF Compiled
  <2>2. Works(rule, st, t, o) \/ Ticks(rule, st, t, o)
    BY <1>6 DEF ActsOn, Retracts, Unrevised
  <2>3. Answers(st, o)
    BY <1>0, <1>4, <2>1, <2>2, WorksAnswers, TicksAnswers
  <2> QED BY <1>4, <1>6, <2>3 DEF ActsOn
<1> QED BY <1>2, <1>3, <1>5, <1>6

LEMMA DrainsStep ==
  ASSUME Gentle, Unrevised, EngineInv, ClosedInv, DrainsEndWithEpisodes, [Next]_vars
  PROVE  DrainsEndWithEpisodes'
<1> SUFFICES ASSUME NEW r \in RuleIds
             PROVE  /\ \A p \in draining'[r].parts :
                         states'[p][r] # NoState /\ EpisodeOpen(states'[p][r])
                    /\ draining'[r].rule = NoRule <=> draining'[r].parts = {}
  BY DEF DrainsEndWithEpisodes
<1>1. Rooted(draining'[r], r, rules')
  BY DrainsRooted
<1>2. ASSUME NEW p \in draining'[r].parts
      PROVE  states'[p][r] # NoState /\ EpisodeOpen(states'[p][r])
  <2>1. /\ p \in Partitions /\ rules'[r] # NoRule
        /\ states[p][r] # NoState /\ EpisodeOpen(states[p][r])
    BY <1>1, <1>2 DEF Rooted
  <2>2. states'[p][r] # NoState
    BY <2>1, OpenTurn
  <2>3. PICK o : Answers(states[p][r], o) /\ Yields(p, r, o)
    BY <2>1, OpenTurn
  <2>4. ~o.resolved /\ states'[p][r] = o.state
    BY <1>2, <2>3 DEF Yields
  <2>5. states'[p][r].episodeStarted = states[p][r].episodeStarted
    BY <2>3, <2>4 DEF Answers
  <2> QED BY <2>1, <2>2, <2>5 DEF EpisodeOpen
<1> QED BY <1>1, <1>2 DEF Rooted

(* A reload hands the partitions whose episodes are open to the definition  *)
(* that opened them, and each goes over to the new definition with the      *)
(* alert that closes its episode, not before and not later, as long as no   *)
(* reload discards open episodes and no window is revised after its close,  *)
(* which may retract an episode and leave its drain (_apply_reload,         *)
(* _rule_for, _finish_drain, _recompute_window).                            *)
THEOREM DrainsEnd ==
  ASSUME Gentle, Unrevised
  PROVE  Spec => []DrainsEndWithEpisodes
<1>1. Init => DrainsEndWithEpisodes
  BY DEF Init, DrainsEndWithEpisodes, NoDrain
<1>2. EngineInv /\ ClosedInv /\ DrainsEndWithEpisodes /\ [Next]_vars => DrainsEndWithEpisodes'
  BY DrainsStep
<1> QED BY <1>1, <1>2, ClosedInvHolds, PTL DEF Spec

(* Under the same conditions, and if no reload removes a rule, an episode   *)
(* never ends in silence: a step that ends it appends the alert that says   *)
(* so with the correlation id of the episode (_resolve_episode,             *)
(* _apply_reload).                                                          *)
THEOREM EndsAnnounced ==
  ASSUME Gentle, Unrevised, NothingRemoved
  PROVE  Spec => EpisodesEndAnnounced
<1> DEFINE Ends(q) ==
             LET was == states[q[1]][q[2]]
                 is == states'[q[1]][q[2]]
                 ended == is = NoState \/ is.episodeStarted # was.episodeStarted
             IN (Governing(q).resolve /\ EpisodeOpen(was) /\ ended) =>
                  \E i \in DOMAIN out'[q[1]][q[2]] :
                    /\ out'[q[1]][q[2]][i].label = "resolved"
                    /\ out'[q[1]][q[2]][i].corr = was.episodeStarted
<1>1. ASSUME EngineInv, ClosedInv, [Next]_vars, NEW q \in Live
      PROVE  Ends(q)
  <2> DEFINE p == q[1]
             r == q[2]
  <2>1. p \in Partitions /\ r \in RuleIds /\ states[p][r] # NoState
    BY DEF Live
  <2>2. rules'[r] # NoRule
    <3>1. rules[r] # NoRule /\ rules[r] \in Definitions(r)
      BY <1>1, <2>1 DEF EngineInv, StateInv, StatesOK, DefinitionsInv, Definitions
    <3>2. rules' = rules \/ rules' \in Reloads
      BY <1>1, RulesStep
    <3> QED BY <2>1, <3>1, <3>2 DEF NothingRemoved
  <2> HIDE DEF p, r
  <2>3. ASSUME EpisodeOpen(states[p][r]),
               states'[p][r] = NoState
                 \/ states'[p][r].episodeStarted # states[p][r].episodeStarted
        PROVE  Announces(out'[p][r], states[p][r].episodeStarted)
    <3>1. states'[p][r] # NoState
      BY <1>1, <2>1, <2>2, <2>3, OpenTurn
    <3>2. PICK o : Answers(states[p][r], o) /\ Yields(p, r, o)
      BY <1>1, <2>1, <2>2, <2>3, OpenTurn
    <3>3. /\ o.alerts \in Seq(Alert) /\ Announces(o.alerts, states[p][r].episodeStarted)
          /\ out'[p][r] \in {o.alerts, out[p][r] \o o.alerts}
      BY <2>3, <3>1, <3>2 DEF Answers, Yields
    <3>4. out[p][r] \in Seq(Alert)
      BY <1>1, <2>1 DEF EngineInv, StateInv, OutOK
    <3> QED BY <3>3, <3>4, AnnouncedAfter
  <2> QED BY <2>3 DEF Announces, p, r
<1>2. EngineInv /\ ClosedInv /\ [Next]_vars => [\A q \in Live : Ends(q)]_vars
  BY <1>1
<1> QED BY <1>2, ClosedInvHolds, PTL DEF Spec, EpisodesEndAnnounced

-----------------------------------------------------------------------------
\* The episode protocol.

\* The rules stay, and no call moves the clock beyond the bound of the model.
Unreloaded == Reloads = {}
WithinTime == InitialWatermark <= MaxTime /\ \A ev \in Offered : ev.ts <= MaxTime

InTime == Limit <= MaxTime

\* A rule without an emit block has no episodes.
UntrackedInv ==
  \A p \in Partitions, r \in RuleIds :
    states[p][r] # NoState /\ ~HasLifecycle(InitialRules[r]) => ~EpisodeOpen(states[p][r])

LEMMA OneDefinition ==
  ASSUME Unreloaded, NEW r \in RuleIds, NEW rule \in Definitions(r)
  PROVE  rule = InitialRules[r]
BY DEF Unreloaded, Definitions, InUse

LEMMA InTimeStep ==
  ASSUME Unreloaded, WithinTime, EngineInv, InTime, [Next]_vars
  PROVE  InTime'
<1>0. Limit \in Int /\ Limit' \in Int /\ Limit <= Limit'
  BY LimitGrows, MomentIsInt DEF EngineInv
<1>1. CASE UNCHANGED vars
  BY <1>1 DEF vars, InTime, Limit
<1>2. ASSUME NEW ev \in Offered, ProcessEvent(ev) PROVE InTime'
  <2>1. ev.ts <= MaxTime /\ call.stage = "idle"
    BY <1>2 DEF WithinTime, ProcessEvent, RefuseLate, FoldLate, FirstEvent, AcceptEvent, Serve
  <2>2. CASE RefuseLate(ev)
    BY <2>2 DEF RefuseLate, InTime, Limit
  <2>3. CASE FoldLate(ev)
    <3>1. call' = IF Reopens(ev) = {} THEN Idle
                  ELSE [Idle EXCEPT !.stage = "recompute", !.reopen = Reopens(ev)]
      BY <2>3 DEF FoldLate
    <3>2. call'.stage # "timers"
      BY <3>1 DEF Idle
    <3>3. watermark' = watermark
      BY <2>3 DEF FoldLate
    <3> QED BY <2>1, <3>2, <3>3 DEF InTime, Limit
  <2>4. CASE FirstEvent(ev)
    BY <2>1, <2>4 DEF FirstEvent, InTime, Limit
  <2>5. CASE AcceptEvent(ev)
    BY <2>1, <2>5 DEF AcceptEvent, InTime, Limit, Idle
  <2> QED BY <1>2, <2>2, <2>3, <2>4, <2>5 DEF ProcessEvent
<1>3. ASSUME NEW t \in 0 .. MaxTime, FirstAdvance(t) \/ AdvanceTo(t) PROVE InTime'
  <2>1. t <= MaxTime
    BY EngineAssumption
  <2>2. CASE FirstAdvance(t)
    BY <2>1, <2>2 DEF FirstAdvance, Serve, InTime, Limit
  <2>3. CASE AdvanceTo(t)
    BY <2>1, <2>3 DEF AdvanceTo, Serve, InTime, Limit, Idle
  <2> QED BY <1>3, <2>2, <2>3
<1>4. ASSUME NEW new \in Reloads, NEW policy \in ReloadPolicies, Reload(new, policy)
      PROVE  FALSE
  BY DEF Unreloaded
<1>5. CASE FireDue
  BY <1>5 DEF FireDue, InTime, Limit
<1>6. CASE Settle
  BY <1>6 DEF Settle, InTime, Limit, Idle
<1>7. ASSUME NEW x \in call.reopen, Recompute(x) PROVE InTime'
  <2>1. call.stage = "recompute" /\ watermark' = watermark
    BY <1>7 DEF Recompute
  <2>2. call'.stage # "timers"
    BY <1>7, <2>1 DEF Recompute, Idle, EngineInv, StateInv, Call
  <2> QED BY <2>1, <2>2 DEF InTime, Limit
<1> QED BY <1>1, <1>2, <1>3, <1>4, <1>5, <1>6, <1>7 DEF Next, Progress

LEMMA UntrackedStep ==
  ASSUME Unreloaded, EngineInv, ClosedInv, UntrackedInv, [Next]_vars
  PROVE  UntrackedInv'
<1> SUFFICES ASSUME NEW p \in Partitions, NEW r \in RuleIds, states'[p][r] # NoState,
                    ~HasLifecycle(InitialRules[r])
             PROVE  ~EpisodeOpen(states'[p][r])
  BY DEF UntrackedInv
<1>1. PICK st :
        /\ Starts(p, r, st)
        /\ \/ \E o : Keeps(st, o) /\ Yields(p, r, o)
           \/ \E rule \in Definitions(r), t \in Nat : \E o : ActsOn(p, r, rule, st, t, o)
  BY EpisodeTurnTaken DEF EpisodeTurn
<1>2. ~EpisodeOpen(st)
  <2>1. st = states[p][r] => states[p][r] # NoState
    BY <1>1, EngineAssumption DEF Starts
  <2> QED BY <1>1, <2>1 DEF Starts, UntrackedInv, Episode, Closed, EpisodeOpen
<1>3. ASSUME NEW o, Keeps(st, o), Yields(p, r, o) PROVE ~EpisodeOpen(states'[p][r])
  BY <1>2, <1>3 DEF Keeps, Does, Yields, Episode, EpisodeOpen
<1>4. ASSUME NEW rule \in Definitions(r), NEW t \in Nat, NEW o, ActsOn(p, r, rule, st, t, o)
      PROVE  ~EpisodeOpen(states'[p][r])
  <2>1. ~HasLifecycle(rule) /\ states'[p][r] = o.state
    BY <1>4, OneDefinition DEF ActsOn, Yields
  <2>2. ASSUME NEW s, ~EpisodeOpen(s), NEW w, Works(rule, s, t, w) PROVE ~EpisodeOpen(w.state)
    BY <2>1, <2>2 DEF Works, Keeps, Calls, Opens, Repeats, Closes, Does, Episode, EpisodeOpen
  <2>3. CASE Works(rule, st, t, o)
    BY <1>2, <2>1, <2>2, <2>3
  <2>4. CASE Ticks(rule, st, t, o)
    BY <1>2, <2>1, <2>2, <2>4 DEF Ticks, Then, Keeps, Reminds, Does, Episode, EpisodeOpen
  <2>5. CASE Retracts(rule, st, t, o)
    BY <2>1, <2>5 DEF Retracts, Does, Episode, Closed, EpisodeOpen
  <2> QED BY <1>4, <2>3, <2>4, <2>5 DEF ActsOn
<1> QED BY <1>1, <1>3, <1>4

\* The track of the protocol before a step and after it.
OpenedAt(p, r) == IF states[p][r] = NoState THEN Unset ELSE states[p][r].episodeStarted
SaidAt(p, r) == IF states[p][r] = NoState THEN Unset ELSE states[p][r].lastEmit

\* What the step of a track amounts to, in terms of the engine.
Tells(p, r, alerts, start, said) ==
  /\ out'[p][r] \in {out[p][r] \o alerts, alerts}
  /\ OpenedAt(p, r)' = start /\ SaidAt(p, r)' = said

TellsAt(p, r, t) ==
  LET rule == InitialRules[r]
      opened == OpenedAt(p, r)
      spaced == Gap(rule) > 0 => t - SaidAt(p, r) >= Gap(rule)
      reminds == rule.repeatEvery > 0 /\ t = SaidAt(p, r) + rule.repeatEvery
  IN \/ /\ ~HasLifecycle(rule)
        /\ Tells(p, r, <<Saying("firing", t, Unset)>>, opened, SaidAt(p, r))
     \/ /\ HasLifecycle(rule) /\ opened = Unset
        /\ Tells(p, r, <<Saying("firing", t, t)>>, t, t)
     \/ /\ HasLifecycle(rule) /\ opened # Unset /\ (spaced \/ reminds)
        /\ Tells(p, r, <<Saying("repeat", t, opened)>>, opened, t)
     \/ /\ rule.resolve /\ opened # Unset
        /\ Tells(p, r, <<Saying("resolved", t, opened)>>, Unset, Unset)
     \/ /\ rule.resolve /\ opened # Unset /\ reminds
        /\ Tells(p, r, <<Saying("repeat", t, opened), Saying("resolved", t, opened)>>,
                 Unset, Unset)
     \/ /\ RecomputeLate /\ rule.trigger = "window"
        /\ Tells(p, r, <<Saying("retracted", t, opened)>>, Unset, Unset)

TracksStep(p, r) ==
  \/ Tells(p, r, << >>, OpenedAt(p, r), SaidAt(p, r))
  \/ \E t \in 0 .. MaxTime : TellsAt(p, r, t)

LEMMA TrackRefined ==
  ASSUME NEW p \in Partitions, NEW r \in RuleIds, TracksStep(p, r)
  PROVE  Protocol!TrackStep(<<p, r>>)
<1> DEFINE k == <<p, r>>
<1>1. k \in EveryTrack /\ k[1] = p /\ k[2] = r
  BY DEF EveryTrack
<1> HIDE DEF k
<1> DEFINE rule == InitialRules[r]
           opened == OpenedAt(p, r)
           said == SaidAt(p, r)
           spaced(t) == Gap(rule) > 0 => t - said >= Gap(rule)
           reminds(t) == rule.repeatEvery > 0 /\ t = said + rule.repeatEvery
<1>3. CASE Tells(p, r, << >>, opened, said)
  <2>1. Protocol!Silence(k)
    BY <1>1, <1>3 DEF Protocol!Silence, Protocol!Say, Protocol!Becomes,
      Tells, OpenedAt, SaidAt, Saying, Protocol!Saying
  <2> QED BY <2>1 DEF Protocol!TrackStep, k
<1>4. ASSUME NEW t \in 0 .. MaxTime
      PROVE  (spaced(t) => Protocol!Spaced(k, t)) /\ (reminds(t) => Protocol!Reminds(k, t))
  BY <1>1, <1>4 DEF Protocol!Spaced, Protocol!Reminds, OpenedAt, SaidAt
<1>5. ASSUME NEW t \in 0 .. MaxTime, ~HasLifecycle(rule),
             Tells(p, r, <<Saying("firing", t, Unset)>>, opened, said)
      PROVE  Protocol!FireUntracked(k, t)
  BY <1>1, <1>5 DEF Protocol!FireUntracked, Protocol!Spaced, Protocol!Say, Protocol!Becomes,
      Tells, OpenedAt, SaidAt, Saying, Protocol!Saying
<1>6. ASSUME NEW t \in 0 .. MaxTime, HasLifecycle(rule), opened = Unset,
             Tells(p, r, <<Saying("firing", t, t)>>, t, t)
      PROVE  Protocol!Fire(k, t)
  BY <1>1, <1>6 DEF Protocol!Fire, Protocol!Spaced, Protocol!Say, Protocol!Becomes,
      Tells, OpenedAt, SaidAt, Saying, Protocol!Saying
<1>7. ASSUME NEW t \in 0 .. MaxTime, HasLifecycle(rule), opened # Unset, spaced(t) \/ reminds(t),
             Tells(p, r, <<Saying("repeat", t, opened)>>, opened, t)
      PROVE  Protocol!Repeat(k, t)
  <2>1. Protocol!Spaced(k, t) \/ Protocol!Reminds(k, t)
    BY <1>4, <1>7
  <2> QED BY <1>1, <1>7, <2>1 DEF Protocol!Repeat, Protocol!Say, Protocol!Becomes,
      Tells, OpenedAt, SaidAt, Saying, Protocol!Saying
<1>8. ASSUME NEW t \in 0 .. MaxTime, rule.resolve, opened # Unset,
             Tells(p, r, <<Saying("resolved", t, opened)>>, Unset, Unset)
      PROVE  Protocol!Resolve(k, t)
  BY <1>1, <1>8 DEF Protocol!Resolve, Protocol!Spaced, Protocol!Say, Protocol!Becomes,
      Tells, OpenedAt, SaidAt, Saying, Protocol!Saying
<1>9. ASSUME NEW t \in 0 .. MaxTime, rule.resolve, opened # Unset, reminds(t),
             Tells(p, r, <<Saying("repeat", t, opened), Saying("resolved", t, opened)>>,
                   Unset, Unset)
      PROVE  Protocol!RemindAndResolve(k, t)
  <2>1. Protocol!Reminds(k, t)
    BY <1>4, <1>9
  <2> QED BY <1>1, <1>9, <2>1 DEF Protocol!RemindAndResolve, Protocol!Say, Protocol!Becomes,
      Tells, OpenedAt, SaidAt, Saying, Protocol!Saying
<1>10. ASSUME NEW t \in 0 .. MaxTime, RecomputeLate, rule.trigger = "window",
              Tells(p, r, <<Saying("retracted", t, opened)>>, Unset, Unset)
       PROVE  Protocol!Retract(k, t) \/ Protocol!RetractEnded(k, t)
  <2>1. CASE opened # Unset
    BY <1>1, <1>10, <2>1 DEF Protocol!Retract, Protocol!Say, Protocol!Becomes,
      Tells, OpenedAt, SaidAt, Saying, Protocol!Saying
  <2>2. CASE opened = Unset
    BY <1>1, <1>10, <2>2 DEF Protocol!RetractEnded, Protocol!Say, Protocol!Becomes,
      Tells, OpenedAt, SaidAt, Saying, Protocol!Saying
  <2> QED BY <2>1, <2>2
<1> QED BY <1>3, <1>5, <1>6, <1>7, <1>8, <1>9, <1>10
        DEF TracksStep, TellsAt, Protocol!TrackStep, k

\* The step of a track as the rule that takes it sees it.
Sees(p, r, rule, st, o) ==
  /\ rule = InitialRules[r] /\ states'[p][r] # NoState /\ Yields(p, r, o)
  /\ OpenedAt(p, r) = st.episodeStarted /\ SaidAt(p, r) = st.lastEmit

LEMMA SeesTells ==
  ASSUME NEW p, NEW r, NEW rule, NEW st, NEW o, Sees(p, r, rule, st, o)
  PROVE  Tells(p, r, o.alerts, o.state.episodeStarted, o.state.lastEmit)
BY DEF Sees, Yields, Tells, OpenedAt, SaidAt

LEMMA OneThenOther ==
  ASSUME NEW x, NEW y
  PROVE  <<x>> \o <<y>> = <<x, y>>
<1> DEFINE s == <<x>> \o <<y>>
           S == {x, y}
<1>0. x \in S /\ y \in S
  OBVIOUS
<1> HIDE DEF S
<1>1. <<x>> \in Seq(S) /\ <<y>> \in Seq(S) /\ <<x, y>> \in Seq(S)
  BY <1>0
<1>2. Len(<<x>>) = 1 /\ Len(<<y>>) = 1 /\ Len(<<x, y>>) = 2
  OBVIOUS
<1>3. s \in Seq(S) /\ Len(s) = 2 /\ s[1] = x /\ s[2] = y
  BY <1>1, <1>2, ConcatProperties
<1> HIDE DEF s
<1>4. \A i \in 1 .. 2 : s[i] = <<x, y>>[i]
  BY <1>3
<1>5. s = <<x, y>>
  BY <1>1, <1>2, <1>3, <1>4, SeqEqual
<1> QED BY <1>5 DEF s

LEMMA WorksTracks ==
  ASSUME NEW p, NEW r, NEW rule \in Rule,
         NEW st \in RuleState, Entire(rule.repeatEvery, st),
         NEW t \in 0 .. MaxTime, NEW o, Sees(p, r, rule, st, o), Works(rule, st, t, o)
  PROVE  TracksStep(p, r)
<1>0. t \in Nat
  BY EngineAssumption
<1>1. Tells(p, r, o.alerts, o.state.episodeStarted, o.state.lastEmit)
  BY SeesTells
<1>2. CASE Keeps(st, o)
  <2>1. Tells(p, r, << >>, OpenedAt(p, r), SaidAt(p, r))
    BY <1>1, <1>2 DEF Keeps, Does, Episode, Sees
  <2> QED BY <2>1 DEF TracksStep
<1>3. CASE Calls(rule, st, t, o)
  <2>1. Tells(p, r, <<Saying("firing", t, Unset)>>, OpenedAt(p, r), SaidAt(p, r))
    BY <1>1, <1>3 DEF Calls, Does, Episode, Sees
  <2>2. TellsAt(p, r, t)
    BY <1>3, <2>1 DEF TellsAt, Calls, Sees
  <2> QED BY <2>2 DEF TracksStep
<1>4. CASE Opens(rule, st, t, o)
  <2>1. o.state.episodeStarted = t /\ o.state.lastEmit = t
    BY <1>4, EpisodeParts DEF Opens, Does
  <2>2. Tells(p, r, <<Saying("firing", t, t)>>, t, t)
    BY <1>1, <1>4, <2>1 DEF Opens, Does
  <2>3. TellsAt(p, r, t)
    BY <1>4, <2>2 DEF TellsAt, Opens, Sees, EpisodeOpen
  <2> QED BY <2>3 DEF TracksStep
<1>5. CASE Repeats(rule, st, t, o)
  <2>1. o.state.episodeStarted = st.episodeStarted /\ o.state.lastEmit = t
    BY <1>5, EpisodeParts DEF Repeats, Does
  <2>2. Tells(p, r, <<Saying("repeat", t, OpenedAt(p, r))>>, OpenedAt(p, r), t)
    BY <1>1, <1>5, <2>1 DEF Repeats, Does, Sees
  <2>3. LastEmission(st) = st.lastEmit
    BY <1>5 DEF Repeats, Entire, LastEmission
  <2>4. /\ HasLifecycle(InitialRules[r]) /\ OpenedAt(p, r) # Unset
        /\ Gap(InitialRules[r]) > 0 => t - SaidAt(p, r) >= Gap(InitialRules[r])
    BY <1>5, <2>3 DEF Repeats, EpisodeOpen, Sees
  <2>5. TellsAt(p, r, t)
    BY <2>2, <2>4 DEF TellsAt
  <2> QED BY <2>5 DEF TracksStep
<1>6. CASE Closes(rule, st, t, o)
  <2>1. o.state.episodeStarted = Unset /\ o.state.lastEmit = Unset
    BY <1>6, EpisodeParts DEF Closes, Does, Closed
  <2>2. Tells(p, r, <<Saying("resolved", t, OpenedAt(p, r))>>, Unset, Unset)
    BY <1>1, <1>6, <2>1 DEF Closes, Does, Sees
  <2>3. TellsAt(p, r, t)
    BY <1>6, <2>2 DEF TellsAt, Closes, EpisodeOpen, Sees
  <2> QED BY <2>3 DEF TracksStep
<1> QED BY <1>2, <1>3, <1>4, <1>5, <1>6 DEF Works

LEMMA TicksTracks ==
  ASSUME NEW p, NEW r, NEW rule \in Rule,
         NEW st \in RuleState, Entire(rule.repeatEvery, st),
         NEW t \in 0 .. MaxTime, OnTime(st, t),
         NEW o, Sees(p, r, rule, st, o), Ticks(rule, st, t, o)
  PROVE  TracksStep(p, r)
<1>0. t \in Nat
  BY EngineAssumption
<1>1. PICK first, second :
        /\ first.state \in RuleState /\ o = Then(first, second)
        /\ Keeps(st, first) \/ Reminds(rule, st, t, first)
        /\ Works(rule, first.state, t, second)
  BY DEF Ticks
<1>2. /\ o.state = second.state /\ o.alerts = first.alerts \o second.alerts
      /\ (second.resolved => o.resolved)
  BY <1>1 DEF Then
<1>3. Tells(p, r, o.alerts, o.state.episodeStarted, o.state.lastEmit)
  BY SeesTells
<1>4. \A x : << >> \o <<x>> = <<x>> /\ <<x>> \o << >> = <<x>>
  OBVIOUS
<1>5. << >> \o << >> = << >>
  <2>1. << >> \in Seq(Alert)
    BY EmptySeq
  <2> QED BY <2>1, ConcatEmptySeq
<1>6. CASE Keeps(st, first)
  <2>1. first.alerts \o second.alerts = second.alerts
    BY <1>1, <1>4, <1>5, <1>6 DEF Keeps, Does, Works, Calls, Opens, Repeats, Closes
  <2>2. Episode(first.state) = Episode(st) /\ Entire(rule.repeatEvery, first.state)
    BY <1>6, WholeOfEpisode DEF Keeps, Does
  <2>3. Yields(p, r, second)
    BY <1>2, <2>1 DEF Sees, Yields
  <2>4. Sees(p, r, rule, first.state, second)
    BY <2>2, <2>3 DEF Sees, Episode
  <2> QED BY <1>1, <2>2, <2>4, WorksTracks
<1>7. CASE Reminds(rule, st, t, first)
  <2>1. /\ HasLifecycle(rule) /\ EpisodeOpen(st) /\ rule.repeatEvery > 0
        /\ t = st.lastEmit + rule.repeatEvery
        /\ first.alerts = <<Saying("repeat", t, st.episodeStarted)>>
        /\ first.state.episodeStarted = st.episodeStarted /\ first.state.lastEmit = t
    <3>1. HasLifecycle(rule) /\ first.alerts = <<Saying("repeat", t, st.episodeStarted)>>
      BY <1>7 DEF Reminds, Does, HasLifecycle
    <3> QED BY <1>0, <1>7, <3>1, RemindsPunctually
  <2>2. /\ HasLifecycle(InitialRules[r]) /\ OpenedAt(p, r) # Unset
        /\ InitialRules[r].repeatEvery > 0
        /\ t = SaidAt(p, r) + InitialRules[r].repeatEvery
    BY <2>1 DEF Sees, EpisodeOpen
  <2>3. CASE Keeps(first.state, second)
    <3>1. o.alerts = <<Saying("repeat", t, OpenedAt(p, r))>>
      BY <1>2, <1>4, <2>1, <2>3 DEF Keeps, Does, Sees
    <3>2. o.state.episodeStarted = OpenedAt(p, r) /\ o.state.lastEmit = t
      BY <1>2, <2>1, <2>3 DEF Keeps, Does, Episode, Sees
    <3>3. TellsAt(p, r, t)
      BY <1>3, <2>2, <3>1, <3>2 DEF TellsAt
    <3> QED BY <3>3 DEF TracksStep
  <2>4. CASE Closes(rule, first.state, t, second)
    <3>1. o.alerts = <<Saying("repeat", t, OpenedAt(p, r)), Saying("resolved", t, OpenedAt(p, r))>>
      BY <1>2, <2>1, <2>4, OneThenOther DEF Closes, Does, Sees
    <3>2. o.state.episodeStarted = Unset /\ o.state.lastEmit = Unset
      BY <1>2, <2>4, EpisodeParts DEF Closes, Does, Closed
    <3>3. TellsAt(p, r, t)
      BY <1>3, <2>2, <2>4, <3>1, <3>2 DEF TellsAt, Closes, Sees
    <3> QED BY <3>3 DEF TracksStep
  <2>5. EpisodeOpen(first.state)
    BY <2>1 DEF EpisodeOpen
  <2> QED BY <1>0, <1>1, <2>1, <2>3, <2>4, <2>5, NothingAfterReminder
<1> QED BY <1>1, <1>6, <1>7

LEMMA EngineTracks ==
  ASSUME Unreloaded, EngineInv, ClosedInv, WholeInv, UntrackedInv, InTime',
         [Next]_vars, NEW p \in Partitions, NEW r \in RuleIds
  PROVE  TracksStep(p, r)
<1>1. CASE states'[p][r] = NoState
  <2>1. PICK st : From(p, r, st) /\ Yields(p, r, Silent(st))
    BY <1>1, TurnState DEF Rests
  <2>2. st = NoState
    BY <1>1, <2>1 DEF Yields, Silent
  <2>3. states[p][r] = NoState
    BY <2>1, <2>2 DEF From, Unreloaded
  <2>4. Tells(p, r, << >>, OpenedAt(p, r), SaidAt(p, r))
    BY <1>1, <2>1, <2>2, <2>3 DEF Tells, OpenedAt, SaidAt, Yields, Silent
  <2> QED BY <2>4 DEF TracksStep
<1>2. CASE states'[p][r] # NoState
  <2>1. PICK st :
          /\ Starts(p, r, st)
          /\ \/ \E o : Keeps(st, o) /\ Yields(p, r, o)
             \/ \E rule \in Definitions(r), t \in Nat : \E o : ActsOn(p, r, rule, st, t, o)
    BY <1>2, EpisodeTurnTaken DEF EpisodeTurn
  <2>2. /\ st \in RuleState
        /\ OpenedAt(p, r) = st.episodeStarted /\ SaidAt(p, r) = st.lastEmit
        /\ \A rule \in Definitions(r) : Entire(rule.repeatEvery, st)
        /\ ~HasLifecycle(InitialRules[r]) => ~EpisodeOpen(st)
    <3>1. CASE states[p][r] = NoState
      <4>1. st \in RuleState /\ Episode(st) = Closed
        BY <2>1, <3>1, EngineAssumption DEF Starts
      <4>2. st.episodeStarted = Unset /\ st.lastEmit = Unset
        BY <4>1, EpisodeParts DEF Closed
      <4> QED BY <3>1, <4>1, <4>2, ClosedWhole DEF OpenedAt, SaidAt, EpisodeOpen
    <3>2. CASE states[p][r] # NoState
      BY <2>1, <3>2 DEF Starts, Unreloaded, OpenedAt, SaidAt, WholeInv, UntrackedInv
    <3> QED BY <3>1, <3>2
  <2>3. ASSUME NEW o, Keeps(st, o), Yields(p, r, o) PROVE TracksStep(p, r)
    <3>1. o.state.episodeStarted = st.episodeStarted /\ o.state.lastEmit = st.lastEmit
          /\ o.alerts = << >>
      BY <2>3 DEF Keeps, Does, Episode
    <3>2. Tells(p, r, << >>, OpenedAt(p, r), SaidAt(p, r))
      BY <1>2, <2>2, <2>3, <3>1 DEF Tells, OpenedAt, SaidAt, Yields
    <3> QED BY <3>2 DEF TracksStep
  <2>4. ASSUME NEW rule \in Definitions(r), NEW t \in Nat, NEW o, ActsOn(p, r, rule, st, t, o)
        PROVE  TracksStep(p, r)
    <3>1. rule \in Rule /\ rule = InitialRules[r]
      BY ActingCompiled, OneDefinition DEF Compiled
    <3>2. t \in 0 .. MaxTime
      <4>1. Limit' \in Int /\ t <= Limit' /\ Limit' <= MaxTime
        BY <2>4, LimitGrows, MomentIsInt DEF ActsOn, EngineInv, InTime
      <4> QED BY <4>1, EngineAssumption
    <3>3. Sees(p, r, rule, st, o)
      BY <1>2, <2>2, <2>4, <3>1 DEF Sees, ActsOn
    <3>4. CASE Works(rule, st, t, o) \/ (Ticks(rule, st, t, o) /\ OnTime(st, t))
      BY <2>2, <3>1, <3>2, <3>3, <3>4, WorksTracks, TicksTracks
    <3>5. CASE RecomputeLate /\ Retracts(rule, st, t, o)
      <4>1. o.state.episodeStarted = Unset /\ o.state.lastEmit = Unset
        BY <3>5, EpisodeParts DEF Retracts, Does, Closed
      <4>2. o.alerts = <<Saying("retracted", t, OpenedAt(p, r))>>
        BY <2>2, <3>1, <3>5 DEF Retracts, Does, EpisodeOpen
      <4>3. Tells(p, r, <<Saying("retracted", t, OpenedAt(p, r))>>, Unset, Unset)
        BY <3>3, <4>1, <4>2, SeesTells
      <4>4. TellsAt(p, r, t)
        BY <3>1, <3>5, <4>3 DEF TellsAt, Retracts
      <4> QED BY <3>2, <4>4 DEF TracksStep
    <3> QED BY <2>4, <3>4, <3>5 DEF ActsOn
  <2> QED BY <2>1, <2>3, <2>4
<1> QED BY <1>1, <1>2

(* The alerts of a rule in a partition form episodes, one after another,    *)
(* whatever the events, their order and the timers: the engine implements   *)
(* the episode protocol, every step of it a step of all the tracks or a     *)
(* stutter, if no rules are reloaded.  Which episode a retraction belongs   *)
(* to, and that ids are not used again, is not promised (_note_emission,    *)
(* _lifecycle_label, _resolve_episode, _correlation_id, _recompute_window). *)
THEOREM EngineImplementsProtocol ==
  ASSUME Unreloaded, WithinTime
  PROVE  Spec => EpisodesFollowProtocol
<1>1. Init => Protocol!Init /\ UntrackedInv /\ InTime
  <2> SUFFICES ASSUME Init PROVE Protocol!Init /\ UntrackedInv /\ InTime
    OBVIOUS
  <2>1. \A p \in Partitions, r \in RuleIds : states[p][r] = NoState /\ out[p][r] = << >>
    BY DEF Init, Quiet
  <2>2. Protocol!Init
    BY <2>1 DEF Protocol!Init, EveryTrack
  <2>3. UntrackedInv
    BY <2>1 DEF UntrackedInv
  <2>4. InTime
    BY DEF Init, InTime, Limit, Idle, WithinTime
  <2> QED BY <2>2, <2>3, <2>4
<1>2. EngineInv /\ ClosedInv /\ UntrackedInv /\ InTime /\ [Next]_vars
        => UntrackedInv' /\ InTime'
  BY UntrackedStep, InTimeStep
<1>3. SteadyReminders
  BY OneDefinition DEF SteadyReminders
<1>4. EngineInv /\ ClosedInv /\ WholeInv /\ UntrackedInv /\ InTime' /\ [Next]_vars
        => [Protocol!Next]_(Protocol!vars)
  <2> SUFFICES ASSUME EngineInv, ClosedInv, WholeInv, UntrackedInv, InTime', [Next]_vars
               PROVE  Protocol!Next
    OBVIOUS
  <2>1. ASSUME NEW k \in EveryTrack PROVE Protocol!TrackStep(k)
    <3>1. k[1] \in Partitions /\ k[2] \in RuleIds /\ k = <<k[1], k[2]>>
      BY DEF EveryTrack
    <3>2. TracksStep(k[1], k[2])
      BY <3>1, EngineTracks
    <3>3. Protocol!TrackStep(<<k[1], k[2]>>)
      BY <3>1, <3>2, TrackRefined
    <3> QED BY <3>1, <3>3
  <2> QED BY <2>1 DEF Protocol!Next
<1> QED BY <1>1, <1>2, <1>3, <1>4, WholeHolds, PTL
        DEF Spec, EpisodesFollowProtocol, Protocol!Spec
=============================================================================
