------------------------------- MODULE Engine --------------------------------
(***************************************************************************)
(* CompiledEngine: the event-time engine.  One call is in progress at a    *)
(* time.  A call that moves the clock fires the timers that fall due on    *)
(* the way one instant after the other, settles the clock on its target,   *)
(* activates a staged reload and then hands its event, if it has one, to   *)
(* the rules.  An event behind the clock is folded in instead, and the     *)
(* closed windows it touches are evaluated again one by one.               *)
(*                                                                         *)
(* The order in which the rules of one step emit is left out: the alerts   *)
(* of a call are kept per partition and per rule.                          *)
(***************************************************************************)
EXTENDS Reloading

CONSTANTS
  InitialRules,      \* the rules the engine is built with
  Reloads,           \* the rule sets it may be reloaded with
  ReloadPolicies,    \* the policies a reload may use
  LatePolicy,        \* EngineConfig.late_event_policy
  RecomputeLate,     \* EngineConfig.recompute_late_windows
  InitialWatermark,  \* EngineConfig.initial_watermark, or Unset
  Offered,           \* the events that may be offered
  MaxTime,           \* bound on the instants time is advanced to
  MaxCalls,          \* bound on the calls served
  NoEvent, NoReload

ASSUME EngineAssumption ==
  /\ InitialRules \in RuleSet
  /\ Reloads \subseteq RuleSet
  /\ ReloadPolicies \subseteq Policies
  /\ LatePolicy \in {"reject", "drop"}
  /\ RecomputeLate \in BOOLEAN
  /\ InitialWatermark \in Moment
  /\ Offered \subseteq Event
  /\ MaxTime \in Nat /\ MaxCalls \in Nat
  /\ Values \subseteq Int
  /\ NoZone \notin Zones \cup Entities /\ NoSensor \notin Sensors
  /\ NoRule \notin Rule /\ NoState \notin RuleState
  /\ NoEvent \notin Event
  /\ IsFiniteSet(Entities) /\ IsFiniteSet(Zones) /\ IsFiniteSet(RuleIds)
  /\ IsFiniteSet(Sensors)

\* Compilation refuses every other rule.
ASSUME CompiledAssumption ==
  \A rs \in {InitialRules} \cup Reloads : \A r \in RuleIds :
    rs[r] # NoRule => WellFormed(rs[r])

\* No evaluation raises.
ASSUME ComputableAssumption ==
  \A rs \in {InitialRules} \cup Reloads : \A r \in RuleIds :
    rs[r] # NoRule => Computable(rs[r])

Staged == [rules : RuleSet, policy : Policies, at : Nat]

VARIABLES
  watermark,     \* the engine clock
  floor,         \* what advance_to and the configuration declared for everyone
  entityWm,      \* how far every entity has progressed
  rules,         \* the rules in force
  states,        \* the state of every rule in every partition
  known,         \* the partitions the engine has an entry for
  draining,      \* the previous definitions that open episodes drain under
  pending,       \* the staged reload
  late,          \* LateEventMetrics
  lateBy,        \* its breakdown by rule
  suppressed,    \* emissions blocked by a cooldown, by rule
  call,          \* the call in progress
  out,           \* the alerts of the call in progress, or of the last one
  served         \* the calls made so far

vars == <<watermark, floor, entityWm, rules, states, known, draining, pending,
          late, lateBy, suppressed, call, out, served>>

Stages == {"idle", "timers", "recompute"}
Reopened == [p : Partitions, r : RuleIds, end : Nat]
Call == [stage : Stages, target : Moment, event : Event \cup {NoEvent},
         reopen : SUBSET Reopened]
Idle == [stage |-> "idle", target |-> Unset, event |-> NoEvent, reopen |-> {}]
Quiet == [p \in Partitions |-> [r \in RuleIds |-> << >>]]

Init ==
  /\ watermark = InitialWatermark
  /\ floor = InitialWatermark
  /\ entityWm = [e \in Entities |-> Unset]
  /\ rules = InitialRules
  /\ states = [p \in Partitions |-> [r \in RuleIds |-> NoState]]
  /\ known = {}
  /\ draining = [r \in RuleIds |-> NoDrain]
  /\ pending = NoReload
  /\ late = [total |-> 0, accepted |-> 0, dropped |-> 0, rejected |-> 0]
  /\ lateBy = [r \in RuleIds |-> [accepted |-> 0, dropped |-> 0]]
  /\ suppressed = [r \in RuleIds |-> 0]
  /\ call = Idle
  /\ out = Quiet
  /\ served = 0

-----------------------------------------------------------------------------
\* A call begins: nothing else is in progress, and its alerts start empty.
Serve ==
  /\ call.stage = "idle"
  /\ served < MaxCalls
  /\ served' = served + 1

\* What one step does to every rule of every partition.  sofar holds the
\* alerts of the call before the step, dr the drains it starts from.
Commit(outcome, sofar, dr) ==
  /\ states' = [p \in Partitions |-> [r \in RuleIds |-> outcome[p][r].state]]
  /\ out' = [p \in Partitions |-> [r \in RuleIds |-> sofar[p][r] \o outcome[p][r].alerts]]
  /\ suppressed' = [r \in RuleIds |->
       suppressed[r] + Cardinality({p \in Partitions : outcome[p][r].suppressed})]
  /\ draining' = [r \in RuleIds |->
       FinishDrain(dr[r], {p \in Partitions : outcome[p][r].resolved})]

\* The partition in which rule sees ev, if it does.
SeenIn(rule, ev) ==
  IF rule = NoRule THEN {}
  ELSE IF AppliesToEntity(rule, ev.entity) THEN {PartitionKey(rule, ev)} \ {NoPartition}
  ELSE {}

Ensured(rule, st, now) == IF st = NoState THEN FreshState(rule, now) ELSE st

\* The event is handed to every rule in force, in the partition it belongs to,
\* under the definition that governs that partition.
Deliver(ev, rs, sts, dr, sofar) ==
  /\ Commit([p \in Partitions |-> [r \in RuleIds |->
               IF p \in SeenIn(rs[r], ev)
               THEN LET rule == RuleFor(rs, dr, p, r)
                    IN InOrder(rule, Ensured(rule, sts[p][r], ev.ts), ev)
               ELSE Silent(sts[p][r])]],
            sofar, dr)
  /\ known' = known \cup UNION {SeenIn(rs[r], ev) : r \in RuleIds}
  /\ entityWm' = [entityWm EXCEPT ![ev.entity] = MaxOf(@, ev.ts)]

-----------------------------------------------------------------------------
\* Events behind the engine clock.

Behind(ev) == watermark # Unset /\ ev.ts < watermark

\* How far the entity has progressed, or the floor declared for everyone.
EntityReference(entity) == MaxOf(entityWm[entity], floor)

Lateness(ev) ==
  IF ev.ts < EntityReference(ev.entity) THEN EntityReference(ev.entity) - ev.ts ELSE 0

Tolerates(rule, ev) == Lateness(ev) <= rule.lateness

\* No rule's tolerance, nor the zero used when no rule is loaded, reaches it.
BeyondMaxLateness(ev) ==
  /\ Lateness(ev) > 0
  /\ \A r \in RuleIds : rules[r] # NoRule => ~Tolerates(rules[r], ev)

\* process_event raises, or discards the event and counts it.
RefuseLate(ev) ==
  /\ Serve
  /\ Behind(ev)
  /\ BeyondMaxLateness(ev)
  /\ late' = IF LatePolicy = "reject"
             THEN [late EXCEPT !.total = @ + 1, !.rejected = @ + 1]
             ELSE [late EXCEPT !.total = @ + 1, !.dropped = @ + 1]
  /\ out' = Quiet
  /\ UNCHANGED <<watermark, floor, entityWm, rules, states, known, draining,
                 pending, lateBy, suppressed, call>>

\* The partitions in which ev is folded into rule r.  The definition in force
\* is used, also where a previous one is draining.
FoldedIn(ev, r) ==
  {p \in SeenIn(rules[r], ev) : Tolerates(rules[r], ev)}

\* Mutant: an event that one rule takes and another refuses counts twice.
CountLateTwice(ev) ==
  LET accepted == \E r \in RuleIds : FoldedIn(ev, r) # {}
      refused == \E r \in RuleIds : SeenIn(rules[r], ev) # FoldedIn(ev, r)
  IN IF Lateness(ev) = 0 THEN UNCHANGED <<late, lateBy>>
     ELSE /\ late' = [late EXCEPT !.total = @ + 1,
                                  !.accepted = @ + IF accepted THEN 1 ELSE 0,
                                  !.dropped = @ + IF refused THEN 1 ELSE 0]
          /\ UNCHANGED lateBy

CountLate(ev) ==
  LET accepted == \E r \in RuleIds : FoldedIn(ev, r) # {}
  IN IF Lateness(ev) = 0 THEN UNCHANGED <<late, lateBy>>
     ELSE /\ late' = [late EXCEPT !.total = @ + 1,
                                  !.accepted = @ + IF accepted THEN 1 ELSE 0,
                                  !.dropped = @ + IF accepted THEN 0 ELSE 1]
          /\ lateBy' = [r \in RuleIds |->
               [accepted |-> lateBy[r].accepted + IF FoldedIn(ev, r) # {} THEN 1 ELSE 0,
                dropped |-> lateBy[r].dropped
                              + IF SeenIn(rules[r], ev) # FoldedIn(ev, r) THEN 1 ELSE 0]]

\* The closed windows a late event falls into, to be evaluated again.
Reopens(ev) ==
  IF ~RecomputeLate THEN {}
  ELSE UNION {{[p |-> q[1], r |-> q[2], end |-> end] :
                 end \in AffectedWindows(rules[q[2]], states[q[1]][q[2]], ev)} :
              q \in {q \in Partitions \X RuleIds :
                       q[1] \in FoldedIn(ev, q[2]) /\ states[q[1]][q[2]] # NoState}}

FoldLate(ev) ==
  /\ Serve
  /\ Behind(ev)
  /\ ~BeyondMaxLateness(ev)
  /\ CountLate(ev)
  /\ Commit([p \in Partitions |-> [r \in RuleIds |->
               IF p \in FoldedIn(ev, r)
               THEN OnLate(rules[r], Ensured(rules[r], states[p][r], watermark), ev)
               ELSE Silent(states[p][r])]],
            Quiet, draining)
  /\ known' = known \cup UNION {FoldedIn(ev, r) : r \in RuleIds}
  /\ call' = IF Reopens(ev) = {} THEN Idle
             ELSE [Idle EXCEPT !.stage = "recompute", !.reopen = Reopens(ev)]
  /\ UNCHANGED <<watermark, floor, entityWm, rules, pending>>

\* The windows of one rule are taken in the order of their ends.
Recompute(x) ==
  /\ call.stage = "recompute"
  /\ x \in call.reopen
  /\ \A y \in call.reopen : y.p = x.p /\ y.r = x.r => x.end <= y.end
  /\ Commit([p \in Partitions |-> [r \in RuleIds |->
               IF p = x.p /\ r = x.r THEN RecomputeWindow(rules[r], states[p][r], x.end)
               ELSE Silent(states[p][r])]],
            out, draining)
  /\ call' = IF call.reopen = {x} THEN Idle ELSE [call EXCEPT !.reopen = @ \ {x}]
  /\ UNCHANGED <<watermark, floor, entityWm, rules, known, pending, late, lateBy, served>>

-----------------------------------------------------------------------------
\* Events at or ahead of the clock, and explicit advances of it.

\* The first event of all sets the clock without any timer to fire.
FirstEvent(ev) ==
  /\ Serve
  /\ watermark = Unset
  /\ watermark' = ev.ts
  /\ Deliver(ev, rules, states, draining, Quiet)
  /\ UNCHANGED <<floor, rules, pending, late, lateBy, call>>

\* Mutant: time may be moved backward.
AheadUnchecked(t) == watermark # Unset

\* Events behind the clock are folded in, advances to behind it are refused.
Ahead(t) == watermark # Unset /\ t >= watermark

AcceptEvent(ev) ==
  /\ Serve
  /\ Ahead(ev.ts)
  /\ call' = [Idle EXCEPT !.stage = "timers", !.target = ev.ts, !.event = ev]
  /\ out' = Quiet
  /\ UNCHANGED <<watermark, floor, entityWm, rules, states, known, draining,
                 pending, late, lateBy, suppressed>>

FirstAdvance(target) ==
  /\ Serve
  /\ watermark = Unset
  /\ watermark' = target
  /\ floor' = MaxOf(floor, target)
  /\ out' = Quiet
  /\ UNCHANGED <<entityWm, rules, states, known, draining, pending,
                 late, lateBy, suppressed, call>>

AdvanceTo(target) ==
  /\ Serve
  /\ Ahead(target)
  /\ call' = [Idle EXCEPT !.stage = "timers", !.target = target]
  /\ out' = Quiet
  /\ UNCHANGED <<watermark, floor, entityWm, rules, states, known, draining,
                 pending, late, lateBy, suppressed>>

-----------------------------------------------------------------------------
\* The timer loop.

\* The rules that hold state, by partition, and the definition governing one.
Live == {q \in Partitions \X RuleIds : states[q[1]][q[2]] # NoState}
Governing(q) == RuleFor(rules, draining, q[1], q[2])

AllDueTimes == UNION {DueTimes(Governing(q), states[q[1]][q[2]]) : q \in Live}

\* One turn of the loop: the clock moves to the next due time, and every
\* timer due then fires.
FireDue ==
  /\ call.stage = "timers"
  /\ \E due \in AllDueTimes :
       /\ due <= call.target
       /\ \A other \in AllDueTimes : due <= other
       /\ watermark' = due
       /\ Commit([p \in Partitions |-> [r \in RuleIds |->
                    IF states[p][r] = NoState THEN Silent(NoState)
                    ELSE OnTimer(RuleFor(rules, draining, p, r), states[p][r], due,
                                 RecomputeLate)]],
                 out, draining)
  /\ UNCHANGED <<floor, entityWm, rules, known, pending, late, lateBy, call, served>>

\* Mutant: a timer due at the target itself is left for the next call.
TimersRunBefore(target) == \A due \in AllDueTimes : due >= target

\* No timer is left that falls due up to the target.
TimersRun(target) == \A due \in AllDueTimes : due > target

Activates(target) == pending # NoReload /\ target >= pending.at

\* The rules, states and drains once the clock has settled on target.
Activated(target) ==
  IF Activates(target)
  THEN ApplyReload(rules, states, draining, known, pending.rules, pending.policy)
  ELSE [rules |-> rules, states |-> states, draining |-> draining]

\* The timers have all fired: the clock settles on it, a
\* staged reload whose time has come is applied, and the call completes.
Settle ==
  /\ call.stage = "timers"
  /\ TimersRun(call.target)
  /\ watermark' = call.target
  /\ pending' = IF Activates(call.target) THEN NoReload ELSE pending
  /\ LET now == Activated(call.target)
     IN /\ rules' = now.rules
        /\ IF call.event = NoEvent
           THEN /\ floor' = MaxOf(floor, call.target)
                /\ states' = now.states
                /\ draining' = now.draining
                /\ UNCHANGED <<known, entityWm, suppressed, out>>
           ELSE /\ Deliver(call.event, now.rules, now.states, now.draining, out)
                /\ UNCHANGED floor
  /\ call' = Idle
  /\ UNCHANGED <<late, lateBy, served>>

-----------------------------------------------------------------------------
\* Reloading the rules of a live engine, at once or at a later watermark.

ReloadNow(new, policy) ==
  /\ Serve
  /\ LET now == ApplyReload(rules, states, draining, known, new, policy)
     IN /\ rules' = now.rules
        /\ states' = now.states
        /\ draining' = now.draining
  /\ out' = Quiet
  /\ UNCHANGED <<watermark, floor, entityWm, known, pending, late, lateBy,
                 suppressed, call>>

StageReload(new, policy, at) ==
  /\ Serve
  /\ watermark = Unset \/ at > watermark
  /\ pending' = [rules |-> new, policy |-> policy, at |-> at]
  /\ out' = Quiet
  /\ UNCHANGED <<watermark, floor, entityWm, rules, states, known, draining,
                 late, lateBy, suppressed, call>>

-----------------------------------------------------------------------------
ProcessEvent(ev) ==
  \/ RefuseLate(ev)
  \/ FoldLate(ev)
  \/ FirstEvent(ev)
  \/ AcceptEvent(ev)

Reload(new, policy) ==
  \/ ReloadNow(new, policy)
  \/ \E at \in 0 .. MaxTime : StageReload(new, policy, at)

\* The steps a call takes once it has begun: the code runs them to the end.
Progress ==
  \/ FireDue
  \/ Settle
  \/ \E x \in call.reopen : Recompute(x)

Next ==
  \/ \E ev \in Offered : ProcessEvent(ev)
  \/ \E t \in 0 .. MaxTime : FirstAdvance(t) \/ AdvanceTo(t)
  \/ \E new \in Reloads, policy \in ReloadPolicies : Reload(new, policy)
  \/ Progress

\* A call that has begun keeps running; nobody has to make a call.
Fairness == WF_vars(Progress)

Spec == Init /\ [][Next]_vars
FairSpec == Spec /\ Fairness
=============================================================================
