---------------------------- MODULE Interruption -----------------------------
(***************************************************************************)
(* An engine whose deliveries may raise.  Alerts are delivered while the   *)
(* rules are evaluated, so an exception that leaves a delivery (see module *)
(* Delivery) leaves the call: the rules handled before it have changed     *)
(* their state, the rule that was emitting is half way through its         *)
(* handler, the others have seen nothing, and the caller gets no alerts.   *)
(* out then holds what was delivered.                                      *)
(*                                                                         *)
(* A delivery ends by an answer or by an exception, which is what module   *)
(* DeliveryProtocol promises of it and all that is used here.  Deliveries  *)
(* raise while timers fire, while an event is handed to the rules and      *)
(* while a late one is folded in.  The order the rules are taken in is     *)
(* arbitrary.                                                              *)
(***************************************************************************)
EXTENDS EngineProperties

CONSTANT MaxRaises     \* bound on the deliveries that raise

ASSUME RaisesAssumption == MaxRaises \in Nat

VARIABLES
  disturbed,     \* the timers of the instant the clock is at were cut short
  raised         \* the deliveries that have raised

faultVars == <<disturbed, raised>>

Raises == raised < MaxRaises /\ raised' = raised + 1

Tracks == Partitions \X RuleIds

-----------------------------------------------------------------------------
\* Mutant: an episode is closed before its end is announced.
TornClosed(before, outcome) ==
  [Silent(outcome.state) EXCEPT !.state.nextWindowEnd = before.nextWindowEnd,
                                !.state.nextSchedule = before.nextSchedule,
                                !.state.lastSchedule = before.lastSchedule]

\* What is left of the handling of a rule whose alert could not be delivered:
\* its trigger has noted what it saw and an emission has been noted, but an
\* episode is closed, and the timer of a window or of a schedule moved on,
\* only after the delivery.
Torn(before, outcome) ==
  LET closing == outcome.alerts[1].label \in {"resolved", "retracted"}
  IN [Silent(outcome.state) EXCEPT
        !.state.episodeStarted = IF closing THEN before.episodeStarted ELSE @,
        !.state.lastEmit = IF closing THEN before.lastEmit ELSE @,
        !.state.nextRepeat = IF closing THEN before.nextRepeat ELSE @,
        !.state.nextWindowEnd = before.nextWindowEnd,
        !.state.nextSchedule = before.nextSchedule,
        !.state.lastSchedule = before.lastSchedule]

\* A timer first reminds and then fires, so either alert may be the one.
TornTimer(rule, st, due) ==
  LET reminder == Remind(rule, st, due)
      trigger == FireTrigger(rule, reminder.state, due, RecomputeLate)
  IN (IF reminder.alerts = << >> THEN {} ELSE {Silent(reminder.state)})
     \cup (IF trigger.alerts = << >> THEN {}
           ELSE {Then(reminder, Torn(reminder.state, trigger))})

\* The tracks in done were handled, x was interrupted, the rest saw nothing.
CommitUpTo(done, x, torn, whole, before, sofar, dr) ==
  Commit([p \in Partitions |-> [r \in RuleIds |->
            CASE <<p, r>> \in done -> whole[p][r]
              [] <<p, r>> = x -> torn
              [] OTHER -> Silent(before[p][r])]],
         sofar, dr)

-----------------------------------------------------------------------------
\* A delivery raises in _fire_due_timers: the clock stays at the instant, and
\* what was not handled there is still due.
TimersInterrupted ==
  /\ Raises
  /\ call.stage = "timers"
  /\ \E due \in AllDueTimes :
       LET Fired(q) == OnTimer(Governing(q), states[q[1]][q[2]], due, RecomputeLate)
       IN /\ due <= call.target
          /\ \A other \in AllDueTimes : due <= other
          /\ watermark' = due
          /\ \E x \in Live : \E done \in SUBSET (Live \ {x}) :
               \E torn \in TornTimer(Governing(x), states[x[1]][x[2]], due) :
                 CommitUpTo(done, x, torn,
                            [p \in Partitions |-> [r \in RuleIds |->
                               IF <<p, r>> \in Live THEN Fired(<<p, r>>) ELSE Silent(NoState)]],
                            states, out, draining)
  /\ call' = Idle
  /\ disturbed' = TRUE
  /\ UNCHANGED <<floor, entityWm, rules, known, pending, late, lateBy, served>>

\* A delivery raises while ev is handed to the rules.
DeliverInterrupted(ev, rs, sts, dr, sofar) ==
  LET seen == {q \in Tracks : q[1] \in SeenIn(rs[q[2]], ev)}
      Before(q) == Ensured(RuleFor(rs, dr, q[1], q[2]), sts[q[1]][q[2]], ev.ts)
      Handled(q) == InOrder(RuleFor(rs, dr, q[1], q[2]), Before(q), ev)
  IN /\ \E x \in seen : \E done \in SUBSET (seen \ {x}) :
          /\ Handled(x).alerts # << >>
          /\ CommitUpTo(done, x, Torn(Before(x), Handled(x)),
                        [p \in Partitions |-> [r \in RuleIds |->
                           IF <<p, r>> \in seen THEN Handled(<<p, r>>) ELSE Silent(sts[p][r])]],
                        sts, sofar, dr)
          /\ known' = known \cup {q[1] : q \in done \cup {x}}
     /\ entityWm' = [entityWm EXCEPT ![ev.entity] = MaxOf(@, ev.ts)]

FirstEventInterrupted(ev) ==
  /\ Serve
  /\ Raises
  /\ watermark = Unset
  /\ watermark' = ev.ts
  /\ DeliverInterrupted(ev, rules, states, draining, Quiet)
  /\ UNCHANGED <<floor, rules, pending, late, lateBy, call, disturbed>>

-----------------------------------------------------------------------------
\* A delivery raises while a late event is folded in: each rule takes it and
\* evaluates the windows it reopens, in their order, before the next rule does.

Revised(rule, st, ends) ==
  FoldLeft(LAMBDA outcome, end : Then(outcome, RecomputeWindow(rule, outcome.state, end)),
           Silent(st), SetToSortSeq(ends, <))

Reopening(rule, st, ev) == IF RecomputeLate THEN AffectedWindows(rule, st, ev) ELSE {}

Folded(rule, st, ev) ==
  LET taken == OnLate(rule, st, ev)
  IN Then(taken, Revised(rule, taken.state, Reopening(rule, st, ev)))

\* The alert of an event rule may be the one, or that of a window revised,
\* which comes before the report is noted.
TornFold(rule, st, ev) ==
  LET taken == OnLate(rule, st, ev)
      ends == Reopening(rule, st, ev)
      Earlier(end) == Revised(rule, taken.state, {e \in ends : e < end})
      Revision(end) == RecomputeWindow(rule, Earlier(end).state, end)
  IN (IF taken.alerts = << >> THEN {} ELSE {Torn(st, taken)})
     \cup {[Then(Earlier(end), Torn(Earlier(end).state, Revision(end)))
              EXCEPT !.state.lastSeen = st.lastSeen] :
             end \in {e \in ends : Revision(e).alerts # << >>}}

\* The event is counted, and then only by the rules it has reached.
CountLateUpTo(ev, reached) ==
  IF Lateness(ev) = 0 THEN UNCHANGED <<late, lateBy>>
  ELSE /\ late' = [late EXCEPT !.total = @ + 1]
       /\ lateBy' = [r \in RuleIds |->
            IF \A p \in Partitions : <<p, r>> \notin reached THEN lateBy[r]
            ELSE IF Tolerates(rules[r], ev) THEN [lateBy[r] EXCEPT !.accepted = @ + 1]
            ELSE [lateBy[r] EXCEPT !.dropped = @ + 1]]

FoldLateInterrupted(ev) ==
  LET seen == {q \in Tracks : q[1] \in SeenIn(rules[q[2]], ev)}
      taken == {q \in seen : Tolerates(rules[q[2]], ev)}
      Before(q) == Ensured(rules[q[2]], states[q[1]][q[2]], watermark)
  IN /\ Serve
     /\ Raises
     /\ Behind(ev)
     /\ ~BeyondMaxLateness(ev)
     /\ \E x \in taken : \E done \in SUBSET (seen \ {x}) :
          /\ \E torn \in TornFold(rules[x[2]], Before(x), ev) :
               CommitUpTo(done \cap taken, x, torn,
                          [p \in Partitions |-> [r \in RuleIds |->
                             IF <<p, r>> \in taken
                             THEN Folded(rules[r], Before(<<p, r>>), ev)
                             ELSE Silent(states[p][r])]],
                          states, Quiet, draining)
          /\ CountLateUpTo(ev, done \cup {x})
          /\ known' = known \cup {q[1] : q \in (done \cap taken) \cup {x}}
     /\ UNCHANGED <<watermark, floor, entityWm, rules, pending, call, disturbed>>

-----------------------------------------------------------------------------
\* The timers up to the event have run, and a staged reload is in force.
EventInterrupted ==
  /\ Raises
  /\ call.stage = "timers" /\ call.event # NoEvent
  /\ TimersRun(call.target)
  /\ watermark' = call.target
  /\ pending' = IF Activates(call.target) THEN NoReload ELSE pending
  /\ LET now == Activated(call.target)
     IN /\ rules' = now.rules
        /\ DeliverInterrupted(call.event, now.rules, now.states, now.draining, out)
  /\ call' = Idle
  /\ disturbed' = FALSE
  /\ UNCHANGED <<floor, late, lateBy, served>>

\* The steps of a call in progress.  Once its timers have run, nothing is
\* left of an earlier interruption.
Proceed ==
  /\ Progress
  /\ disturbed' = IF call.stage = "timers" /\ TimersRun(call.target)
                  THEN FALSE ELSE disturbed
  /\ UNCHANGED raised

\* A call of one step.
InterruptedAtOnce(ev) == FirstEventInterrupted(ev) \/ FoldLateInterrupted(ev)

\* A call in progress.
Interrupt == TimersInterrupted \/ EventInterrupted

-----------------------------------------------------------------------------
InterruptInit == Init /\ disturbed = FALSE /\ raised = 0

InterruptNext ==
  \/ /\ \/ \E ev \in Offered : ProcessEvent(ev)
        \/ \E t \in 0 .. MaxTime : FirstAdvance(t) \/ AdvanceTo(t)
        \/ \E new \in Reloads, policy \in ReloadPolicies : Reload(new, policy)
     /\ UNCHANGED faultVars
  \/ \E ev \in Offered : InterruptedAtOnce(ev)
  \/ Proceed
  \/ Interrupt

InterruptSpec == InterruptInit /\ [][InterruptNext]_<<vars, faultVars>>

-----------------------------------------------------------------------------
(* A delivery that raises delays timers and loses none: the clock stands at *)
(* the instant that was cut short, nothing before it is left, and the next  *)
(* call that moves the clock fires what was not handled, after which the    *)
(* windows are on their grid again (_advance_timers_to sets the clock       *)
(* before firing, _fire_due_timers moves a window on after emitting).       *)
TimersSurvive ==
  IF disturbed THEN \A due \in AllDueTimes : due >= watermark
  ELSE NoOverdueTimer /\ WindowTimerTracksClock
=============================================================================
