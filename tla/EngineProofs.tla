---------------------------- MODULE EngineProofs -----------------------------
(***************************************************************************)
(* What is proved of the engine for every set of entities, sensors, rules  *)
(* and events, every rule set it is built with or reloaded with, and calls *)
(* without a bound that matters.                                           *)
(***************************************************************************)
EXTENDS EngineProperties, HandlerProofs, FunctionTheorems

-----------------------------------------------------------------------------
\* The clock and the progress of the entities.

NotAhead(limit) ==
  /\ floor <= limit
  /\ \A e \in Entities : entityWm[e] <= limit

(* While a call runs the timers the clock may lag behind an entity, but its *)
(* target does not; between calls the clock has caught up.                  *)
ProgressInv ==
  /\ floor \in Moment
  /\ entityWm \in [Entities -> Moment]
  /\ call.stage = "timers" => /\ call.target \in Nat
                              /\ call.event # NoEvent => /\ call.event \in Event
                                                         /\ call.event.ts = call.target
                              /\ NotAhead(call.target)
  /\ call.stage # "timers" => watermark \in Moment /\ NotAhead(watermark)

LEMMA MaxOfMoment ==
  ASSUME NEW a \in Moment, NEW b \in Moment
  PROVE  /\ MaxOf(a, b) \in Moment
         /\ MaxOf(a, b) >= a
         /\ MaxOf(a, b) >= b
         /\ \A c \in Int : a <= c /\ b <= c => MaxOf(a, b) <= c
BY DEF MaxOf, Moment, Unset

(* Handing an event to the rules moves the progress of its entity alone, to *)
(* the time of the event if that is ahead.                                  *)
LEMMA DeliverProgress ==
  ASSUME NEW ev \in Event, NEW rs, NEW sts, NEW dr, NEW sofar,
         entityWm \in [Entities -> Moment],
         NEW limit \in Int, ev.ts <= limit,
         \A e \in Entities : entityWm[e] <= limit,
         Deliver(ev, rs, sts, dr, sofar)
  PROVE  /\ entityWm' \in [Entities -> Moment]
         /\ \A e \in Entities : entityWm'[e] <= limit
<1>1. ev.entity \in Entities /\ ev.ts \in Moment
  BY DEF Event, Moment
<1>2. entityWm' = [entityWm EXCEPT ![ev.entity] = MaxOf(@, ev.ts)]
  BY DEF Deliver
<1>3. /\ MaxOf(entityWm[ev.entity], ev.ts) \in Moment
      /\ MaxOf(entityWm[ev.entity], ev.ts) <= limit
  BY <1>1, MaxOfMoment
<1> QED BY <1>1, <1>2, <1>3

LEMMA ProgressInit == Init => ProgressInv
BY EngineAssumption DEF Init, ProgressInv, NotAhead, Idle, Moment, Unset

LEMMA ProgressStep == ProgressInv /\ [Next]_vars => ProgressInv'
<1> SUFFICES ASSUME ProgressInv, [Next]_vars PROVE ProgressInv'
  OBVIOUS
<1> USE DEF ProgressInv, NotAhead
<1>1. ASSUME NEW ev \in Offered, ProcessEvent(ev) PROVE ProgressInv'
  <2>0. ev \in Event /\ ev.ts \in Nat
    BY <1>1, EngineAssumption DEF Event
  <2>1. CASE RefuseLate(ev)
    BY <2>1 DEF RefuseLate, Serve
  <2>2. CASE FoldLate(ev)
    BY <2>2 DEF FoldLate, Serve, Idle
  <2>3. CASE FirstEvent(ev)
    <3>1. /\ watermark = -1 /\ watermark' = ev.ts /\ floor' = floor
          /\ call' = call /\ call.stage = "idle"
      BY <2>3 DEF FirstEvent, Serve, Unset
    <3>2. /\ entityWm' \in [Entities -> Moment]
          /\ \A e \in Entities : entityWm'[e] <= ev.ts
      <4>1. Deliver(ev, rules, states, draining, Quiet)
        BY <2>3 DEF FirstEvent
      <4>2. \A e \in Entities : entityWm[e] <= ev.ts
        BY <3>1, <2>0 DEF Moment, Unset
      <4> QED BY <4>1, <4>2, <2>0, DeliverProgress
    <3> QED BY <3>1, <3>2, <2>0 DEF Moment, Unset
  <2>4. CASE AcceptEvent(ev)
    BY <2>4, <2>0 DEF AcceptEvent, Serve, Ahead, Idle, Moment, Unset
  <2> QED BY <1>1, <2>1, <2>2, <2>3, <2>4 DEF ProcessEvent
<1>2. ASSUME NEW t \in 0 .. MaxTime, FirstAdvance(t) PROVE ProgressInv'
  <2>1. /\ watermark = -1 /\ watermark' = t /\ floor' = MaxOf(floor, t)
        /\ entityWm' = entityWm /\ call' = call /\ call.stage = "idle"
    BY <1>2 DEF FirstAdvance, Serve, Unset
  <2>2. t \in Nat
    BY EngineAssumption
  <2> QED BY <2>1, <2>2, MaxOfMoment DEF Moment, Unset
<1>3. ASSUME NEW t \in 0 .. MaxTime, AdvanceTo(t) PROVE ProgressInv'
  <2>1. t \in Nat
    BY EngineAssumption
  <2> QED BY <1>3, <2>1 DEF AdvanceTo, Serve, Ahead, Idle, Moment, Unset
<1>4. ASSUME NEW new \in Reloads, NEW policy \in ReloadPolicies, Reload(new, policy)
      PROVE ProgressInv'
  BY <1>4 DEF Reload, ReloadNow, StageReload, Serve
<1>5. CASE FireDue
  BY <1>5 DEF FireDue
<1>6. CASE Settle
  <2>1. /\ call.stage = "timers" /\ watermark' = call.target /\ call'.stage = "idle"
    BY <1>6 DEF Settle, Idle
  <2>2. CASE call.event = NoEvent
    <3>1. floor' = MaxOf(floor, call.target) /\ entityWm' = entityWm
      BY <1>6, <2>2 DEF Settle
    <3> QED BY <2>1, <3>1, MaxOfMoment DEF Moment, Unset
  <2>3. CASE call.event # NoEvent
    <3>1. PICK rs, sts, dr : Deliver(call.event, rs, sts, dr, out) /\ floor' = floor
      BY <1>6, <2>3 DEF Settle
    <3>2. /\ entityWm' \in [Entities -> Moment]
          /\ \A e \in Entities : entityWm'[e] <= call.target
      BY <2>1, <2>3, <3>1, DeliverProgress
    <3> QED BY <2>1, <3>1, <3>2 DEF Moment, Unset
  <2> QED BY <2>2, <2>3
<1>7. ASSUME NEW x \in call.reopen, Recompute(x) PROVE ProgressInv'
  BY <1>7 DEF Recompute, Idle
<1>8. CASE UNCHANGED vars
  BY <1>8 DEF vars
<1> QED BY <1>1, <1>2, <1>3, <1>4, <1>5, <1>6, <1>7, <1>8 DEF Next, Progress

(* No entity and no explicit advance is ahead of the clock between calls,   *)
(* so lateness is judged against time the timers have been run up to        *)
(* (process_event, advance_to, _entity_reference).                          *)
THEOREM ProgressSafe == Spec => []ProgressWithinClock
<1>1. ProgressInv => ProgressWithinClock
  BY DEF ProgressInv, ProgressWithinClock, NotAhead, IsIdle
<1> QED BY <1>1, ProgressInit, ProgressStep, PTL DEF Spec

-----------------------------------------------------------------------------
\* The accounting of late events.

LateMetrics == [total : Nat, accepted : Nat, dropped : Nat, rejected : Nat]
LateByRule == [RuleIds -> [accepted : Nat, dropped : Nat]]

LateInv ==
  /\ late \in LateMetrics
  /\ lateBy \in LateByRule
  /\ LateAccounting

(* A rule sees an event in one partition at most, and folds it in there or  *)
(* not at all: it never both accepts and drops one event.                   *)
LEMMA AcceptedOrRefused ==
  ASSUME NEW ev \in Event, NEW r \in RuleIds, FoldedIn(ev, r) # {}
  PROVE  SeenIn(rules[r], ev) = FoldedIn(ev, r)
BY DEF FoldedIn

LEMMA CountLateKeeps ==
  ASSUME LateInv, NEW ev \in Event, CountLate(ev)
  PROVE  LateInv'
<1>1. CASE Lateness(ev) = 0
  BY <1>1 DEF CountLate, LateInv, LateAccounting
<1>2. CASE Lateness(ev) # 0
  <2> DEFINE taken == \E r \in RuleIds : FoldedIn(ev, r) # {}
             a == IF taken THEN 1 ELSE 0
             d == IF taken THEN 0 ELSE 1
  <2>1. late' = [late EXCEPT !.total = @ + 1, !.accepted = @ + a, !.dropped = @ + d]
    BY <1>2 DEF CountLate
  <2>2. lateBy' = [r \in RuleIds |->
          [accepted |-> lateBy[r].accepted + IF FoldedIn(ev, r) # {} THEN 1 ELSE 0,
           dropped |-> lateBy[r].dropped
                         + IF SeenIn(rules[r], ev) # FoldedIn(ev, r) THEN 1 ELSE 0]]
    BY <1>2 DEF CountLate
  <2>a. a \in Nat /\ d \in Nat /\ a + d = 1 /\ (taken => a = 1)
    OBVIOUS
  <2> HIDE DEF taken, a, d
  <2>0. /\ late \in LateMetrics
        /\ late.total = late.accepted + late.dropped + late.rejected
    BY DEF LateInv, LateAccounting
  <2>3. /\ late' \in LateMetrics
        /\ late'.total = late'.accepted + late'.dropped + late'.rejected
        /\ late'.accepted + late'.dropped = late.accepted + late.dropped + 1
        /\ late'.accepted = late.accepted + a
    <3>1. /\ late.total \in Nat /\ late.accepted \in Nat
          /\ late.dropped \in Nat /\ late.rejected \in Nat
      BY <2>0 DEF LateMetrics
    <3>2. /\ late.total + 1 \in Nat /\ late.accepted + a \in Nat
          /\ late.dropped + d \in Nat
      BY <2>a, <3>1
    <3>3. late' \in LateMetrics
      BY <2>0, <2>1, <3>2 DEF LateMetrics
    <3>4. /\ late'.total = late.total + 1 /\ late'.accepted = late.accepted + a
          /\ late'.dropped = late.dropped + d /\ late'.rejected = late.rejected
      BY <2>0, <2>1 DEF LateMetrics
    <3> QED BY <2>0, <2>a, <3>1, <3>3, <3>4
  <2>4. lateBy' \in LateByRule
    BY <2>2 DEF LateInv, LateByRule
  <2>5. ASSUME NEW r \in RuleIds
        PROVE  /\ lateBy'[r].accepted <= late'.accepted
               /\ lateBy'[r].accepted + lateBy'[r].dropped <= late'.accepted + late'.dropped
    <3>1. /\ lateBy[r].accepted \in Nat /\ lateBy[r].dropped \in Nat
          /\ lateBy[r].accepted <= late.accepted
          /\ lateBy[r].accepted + lateBy[r].dropped <= late.accepted + late.dropped
          /\ late.accepted \in Nat /\ late.dropped \in Nat
      BY DEF LateInv, LateAccounting, LateByRule, LateMetrics
    <3>2. CASE FoldedIn(ev, r) # {}
      <4>1. a = 1
        BY <2>a, <3>2 DEF taken
      <4>2. lateBy'[r] = [accepted |-> lateBy[r].accepted + 1, dropped |-> lateBy[r].dropped]
        BY <2>2, <3>1, <3>2, AcceptedOrRefused
      <4> QED BY <2>3, <3>1, <4>1, <4>2
    <3>3. CASE FoldedIn(ev, r) = {}
      <4>1. /\ lateBy'[r].accepted = lateBy[r].accepted
            /\ lateBy'[r].dropped \in {lateBy[r].dropped, lateBy[r].dropped + 1}
        BY <2>2, <3>1, <3>3
      <4> QED BY <2>3, <2>a, <3>1, <4>1
    <3> QED BY <3>2, <3>3
  <2> QED BY <2>3, <2>4, <2>5 DEF LateInv, LateAccounting
<1> QED BY <1>1, <1>2

LEMMA LateStep == LateInv /\ [Next]_vars => LateInv'
<1> SUFFICES ASSUME LateInv, [Next]_vars PROVE LateInv'
  OBVIOUS
<1>1. ASSUME NEW ev \in Offered, ProcessEvent(ev) PROVE LateInv'
  <2>0. ev \in Event
    BY EngineAssumption
  <2>1. CASE RefuseLate(ev)
    <3>1. /\ late \in LateMetrics /\ lateBy \in LateByRule
          /\ LateAccounting
      BY DEF LateInv
    <3>2. /\ lateBy' = lateBy
          /\ \/ late' = [late EXCEPT !.total = @ + 1, !.rejected = @ + 1]
             \/ late' = [late EXCEPT !.total = @ + 1, !.dropped = @ + 1]
      BY <2>1 DEF RefuseLate
    <3>3. /\ late' \in LateMetrics
          /\ late'.total = late'.accepted + late'.dropped + late'.rejected
          /\ late'.accepted = late.accepted
          /\ late'.dropped \in {late.dropped, late.dropped + 1}
      <4>1. /\ late.total \in Nat /\ late.accepted \in Nat
            /\ late.dropped \in Nat /\ late.rejected \in Nat
        BY <3>1 DEF LateMetrics
      <4>2. /\ late.total + 1 \in Nat /\ late.dropped + 1 \in Nat
            /\ late.rejected + 1 \in Nat
        BY <4>1
      <4>3. late' \in LateMetrics
        BY <3>1, <3>2, <4>2 DEF LateMetrics
      <4>4. /\ late'.total = late.total + 1 /\ late'.accepted = late.accepted
            /\ \/ late'.dropped = late.dropped /\ late'.rejected = late.rejected + 1
               \/ late'.dropped = late.dropped + 1 /\ late'.rejected = late.rejected
        BY <3>1, <3>2 DEF LateMetrics
      <4> QED BY <3>1, <4>1, <4>3, <4>4 DEF LateAccounting
    <3>4. ASSUME NEW r \in RuleIds
          PROVE  /\ lateBy'[r].accepted <= late'.accepted
                 /\ lateBy'[r].accepted + lateBy'[r].dropped <= late'.accepted + late'.dropped
      <4>1. /\ lateBy[r].accepted \in Nat /\ lateBy[r].dropped \in Nat
            /\ late.accepted \in Nat /\ late.dropped \in Nat
            /\ lateBy[r].accepted <= late.accepted
            /\ lateBy[r].accepted + lateBy[r].dropped <= late.accepted + late.dropped
        BY <3>1 DEF LateAccounting, LateByRule, LateMetrics
      <4> QED BY <3>2, <3>3, <4>1
    <3> QED BY <3>1, <3>2, <3>3, <3>4 DEF LateInv, LateAccounting
  <2>2. CASE FoldLate(ev)
    BY <2>0, <2>2, CountLateKeeps DEF FoldLate
  <2>3. CASE FirstEvent(ev)
    BY <2>3 DEF FirstEvent, LateInv, LateAccounting
  <2>4. CASE AcceptEvent(ev)
    BY <2>4 DEF AcceptEvent, LateInv, LateAccounting
  <2> QED BY <1>1, <2>1, <2>2, <2>3, <2>4 DEF ProcessEvent
<1>2. ASSUME NEW t \in 0 .. MaxTime, FirstAdvance(t) \/ AdvanceTo(t) PROVE LateInv'
  BY <1>2 DEF FirstAdvance, AdvanceTo, LateInv, LateAccounting
<1>3. ASSUME NEW new \in Reloads, NEW policy \in ReloadPolicies, Reload(new, policy)
      PROVE LateInv'
  BY <1>3 DEF Reload, ReloadNow, StageReload, LateInv, LateAccounting
<1>4. CASE Progress
  BY <1>4 DEF Progress, FireDue, Settle, Recompute, LateInv, LateAccounting
<1>5. CASE UNCHANGED vars
  BY <1>5 DEF vars, LateInv, LateAccounting
<1> QED BY <1>1, <1>2, <1>3, <1>4, <1>5 DEF Next

(* Every late event is accepted, dropped or rejected, exactly one of them,  *)
(* and no rule counts an event the engine has not counted                   *)
(* (_handle_late_event).                                                    *)
THEOREM LateEventsAccountedFor == Spec => []LateAccounting
<1>1. Init => LateInv
  BY DEF Init, LateInv, LateAccounting, LateMetrics, LateByRule
<1>2. LateInv => LateAccounting
  BY DEF LateInv
<1> QED BY <1>1, <1>2, LateStep, PTL DEF Spec

-----------------------------------------------------------------------------
\* Types.  A partition holds state only for a rule that is loaded, and every
\* definition in use is one that compilation accepted: without these a timer
\* could be asked of no rule, and a window be aligned to a slide of 0.

RulesOK(rs) ==
  rs \in RuleSet /\ \A r \in RuleIds : rs[r] # NoRule => Compiled(rs[r])

StatesOK(sts, rs) ==
  /\ sts \in [Partitions -> [RuleIds -> RuleState \cup {NoState}]]
  /\ \A p \in Partitions, r \in RuleIds : sts[p][r] # NoState => rs[r] # NoRule

DrainsOK(dr) ==
  /\ dr \in [RuleIds -> Drain]
  /\ \A r \in RuleIds : dr[r].parts # {} => Compiled(dr[r].rule)

OutOK(o) == o \in [Partitions -> [RuleIds -> Seq(Alert)]]

StateInv ==
  /\ watermark \in Moment
  /\ RulesOK(rules)
  /\ StatesOK(states, rules)
  /\ known \in SUBSET Partitions
  /\ DrainsOK(draining)
  /\ pending \in Staged \cup {NoReload}
  /\ pending # NoReload => RulesOK(pending.rules)
  /\ suppressed \in [RuleIds -> Nat]
  /\ call \in Call
  /\ call.stage # "recompute" => call.reopen = {}
  /\ \A x \in call.reopen : states[x.p][x.r] # NoState
  /\ OutOK(out)
  /\ served \in Nat

\* What a step may do to a rule that holds no state, too.
Handled == [state : RuleState \cup {NoState}, alerts : Seq(Alert),
            suppressed : BOOLEAN, resolved : BOOLEAN]

LEMMA OutcomeHandled == Outcome \subseteq Handled
BY DEF Outcome, Handled

LEMMA SilentHandled ==
  ASSUME NEW st \in RuleState \cup {NoState}
  PROVE  Silent(st) \in Handled /\ Silent(st).state = st
BY EmptySeq DEF Silent, Handled

LEMMA QuietType == OutOK(Quiet)
BY EmptySeq DEF OutOK, Quiet

LEMMA NoDrainType == NoDrain \in Drain /\ NoDrain.parts = {}
BY DEF NoDrain, Drain

LEMMA PartitionsFinite == IsFiniteSet(Partitions)
BY EngineAssumption, FS_Union DEF Partitions

LEMMA GoverningCompiled ==
  ASSUME NEW rs, RulesOK(rs), NEW dr, DrainsOK(dr),
         NEW p \in Partitions, NEW r \in RuleIds, rs[r] # NoRule
  PROVE  Compiled(RuleFor(rs, dr, p, r))
<1>1. CASE p \in dr[r].parts
  BY <1>1 DEF RuleFor, DrainsOK
<1>2. CASE p \notin dr[r].parts
  BY <1>2 DEF RuleFor, RulesOK
<1> QED BY <1>1, <1>2

(* A step that hands every rule in every partition something to do leaves   *)
(* the state, the alerts, the counters and the drains well typed.           *)
LEMMA CommitType ==
  ASSUME NEW outcome, NEW sofar, NEW dr,
         \A p \in Partitions, r \in RuleIds : outcome[p][r] \in Handled,
         OutOK(sofar), DrainsOK(dr), suppressed \in [RuleIds -> Nat],
         Commit(outcome, sofar, dr)
  PROVE  /\ states' \in [Partitions -> [RuleIds -> RuleState \cup {NoState}]]
         /\ \A p \in Partitions, r \in RuleIds : states'[p][r] = outcome[p][r].state
         /\ OutOK(out')
         /\ suppressed' \in [RuleIds -> Nat]
         /\ DrainsOK(draining')
<1>1. states' = [p \in Partitions |-> [r \in RuleIds |-> outcome[p][r].state]]
  BY DEF Commit
<1>2. \A p \in Partitions, r \in RuleIds :
        /\ outcome[p][r].state \in RuleState \cup {NoState}
        /\ outcome[p][r].alerts \in Seq(Alert)
  BY DEF Handled
<1>3. OutOK(out')
  <2>1. out' = [p \in Partitions |->
                  [r \in RuleIds |-> sofar[p][r] \o outcome[p][r].alerts]]
    BY DEF Commit
  <2>2. \A p \in Partitions, r \in RuleIds :
          sofar[p][r] \o outcome[p][r].alerts \in Seq(Alert)
    BY <1>2, ConcatProperties DEF OutOK
  <2> QED BY <2>1, <2>2 DEF OutOK
<1>4. suppressed' \in [RuleIds -> Nat]
  <2>1. suppressed' = [r \in RuleIds |-> suppressed[r]
                         + Cardinality({p \in Partitions : outcome[p][r].suppressed})]
    BY DEF Commit
  <2>2. ASSUME NEW r \in RuleIds
        PROVE  Cardinality({p \in Partitions : outcome[p][r].suppressed}) \in Nat
    <3>1. {p \in Partitions : outcome[p][r].suppressed} \in SUBSET Partitions
      OBVIOUS
    <3>2. IsFiniteSet({p \in Partitions : outcome[p][r].suppressed})
      BY <3>1, PartitionsFinite, FS_Subset
    <3> QED BY <3>2, FS_CardinalityType
  <2> QED BY <2>1, <2>2
<1>5. DrainsOK(draining')
  <2>1. draining' = [r \in RuleIds |-> FinishDrain(dr[r],
                       {p \in Partitions : outcome[p][r].resolved})]
    BY DEF Commit
  <2>2. ASSUME NEW r \in RuleIds
        PROVE  /\ draining'[r] \in Drain
               /\ draining'[r].parts # {} => Compiled(draining'[r].rule)
    <3> DEFINE finished == {p \in Partitions : outcome[p][r].resolved}
    <3>1. dr[r] \in Drain /\ (dr[r].parts # {} => Compiled(dr[r].rule))
      BY DEF DrainsOK
    <3>2. draining'[r] = FinishDrain(dr[r], finished)
      BY <2>1
    <3> HIDE DEF finished
    <3>3. CASE dr[r].parts \subseteq finished
      BY <3>2, <3>3, NoDrainType DEF FinishDrain
    <3>4. CASE ~(dr[r].parts \subseteq finished)
      <4>1. draining'[r] = [dr[r] EXCEPT !.parts = @ \ finished]
        BY <3>2, <3>4 DEF FinishDrain
      <4>2. dr[r].parts # {}
        BY <3>4
      <4> QED BY <3>1, <4>1, <4>2 DEF Drain
    <3> QED BY <3>3, <3>4
  <2> QED BY <2>1, <2>2 DEF DrainsOK
<1> QED BY <1>1, <1>2, <1>3, <1>4, <1>5

LEMMA SeenInType ==
  ASSUME NEW rule, NEW ev \in Event
  PROVE  SeenIn(rule, ev) \in SUBSET Partitions
BY DEF SeenIn, PartitionKey, Partitions, NoPartition, Event

LEMMA EnsuredType ==
  ASSUME NEW rule \in Rule, NEW st \in RuleState \cup {NoState}, NEW now \in Nat
  PROVE  Ensured(rule, st, now) \in RuleState
BY FreshStateType DEF Ensured

LEMMA DeliverType ==
  ASSUME NEW ev \in Event, NEW rs, RulesOK(rs), NEW sts, StatesOK(sts, rs),
         NEW dr, DrainsOK(dr), NEW sofar, OutOK(sofar),
         suppressed \in [RuleIds -> Nat], known \in SUBSET Partitions,
         Deliver(ev, rs, sts, dr, sofar)
  PROVE  /\ StatesOK(states', rs)
         /\ OutOK(out') /\ suppressed' \in [RuleIds -> Nat] /\ DrainsOK(draining')
         /\ known' \in SUBSET Partitions
<1> DEFINE handle(p, r) ==
             LET rule == RuleFor(rs, dr, p, r)
             IN InOrder(rule, Ensured(rule, sts[p][r], ev.ts), ev)
           outcome == [p \in Partitions |-> [r \in RuleIds |->
                         IF p \in SeenIn(rs[r], ev) THEN handle(p, r)
                         ELSE Silent(sts[p][r])]]
<1>1. Commit(outcome, sofar, dr)
  BY DEF Deliver
<1>2. ASSUME NEW p \in Partitions, NEW r \in RuleIds, p \in SeenIn(rs[r], ev)
      PROVE  rs[r] # NoRule /\ handle(p, r) \in Outcome
  <2>1. rs[r] # NoRule
    BY <1>2 DEF SeenIn
  <2>2. Compiled(RuleFor(rs, dr, p, r))
    BY <2>1, GoverningCompiled
  <2>3. Ensured(RuleFor(rs, dr, p, r), sts[p][r], ev.ts) \in RuleState
    BY ZenonT(40), <2>2, EnsuredType DEF StatesOK, Compiled, Event
  <2> QED BY <2>1, <2>2, <2>3, InOrderType
<1> HIDE DEF handle
<1>3. ASSUME NEW p \in Partitions, NEW r \in RuleIds
      PROVE  /\ outcome[p][r] \in Handled
             /\ outcome[p][r].state # NoState => rs[r] # NoRule
  <2>1. CASE p \in SeenIn(rs[r], ev)
    BY <1>2, <2>1, OutcomeHandled
  <2>2. CASE p \notin SeenIn(rs[r], ev)
    BY <2>2, SilentHandled DEF StatesOK
  <2> QED BY <2>1, <2>2
<1> HIDE DEF outcome
<1>4. known' \in SUBSET Partitions
  BY SeenInType DEF Deliver
<1> QED BY <1>1, <1>3, <1>4, CommitType DEF StatesOK

LEMMA FireDueType ==
  ASSUME StateInv, FireDue
  PROVE  /\ watermark' \in Nat /\ StatesOK(states', rules)
         /\ OutOK(out') /\ suppressed' \in [RuleIds -> Nat] /\ DrainsOK(draining')
<1>1. AllDueTimes \in SUBSET Nat
  <2>1. ASSUME NEW q \in Live
        PROVE  DueTimes(Governing(q), states[q[1]][q[2]]) \in SUBSET Nat
    <3>1. /\ q[1] \in Partitions /\ q[2] \in RuleIds
          /\ states[q[1]][q[2]] # NoState
      BY DEF Live
    <3>2. states[q[1]][q[2]] \in RuleState /\ rules[q[2]] # NoRule
      BY <3>1 DEF StateInv, StatesOK
    <3>3. Compiled(Governing(q))
      BY <3>1, <3>2, GoverningCompiled DEF Governing, StateInv
    <3> QED BY <3>2, <3>3, DueTimesType
  <2> QED BY <2>1 DEF AllDueTimes
<1>2. PICK due \in AllDueTimes :
        /\ watermark' = due
        /\ Commit([p \in Partitions |-> [r \in RuleIds |->
                    IF states[p][r] = NoState THEN Silent(NoState)
                    ELSE OnTimer(RuleFor(rules, draining, p, r), states[p][r], due,
                                 RecomputeLate)]],
                  out, draining)
  BY DEF FireDue
<1> DEFINE handle(p, r) ==
             OnTimer(RuleFor(rules, draining, p, r), states[p][r], due, RecomputeLate)
           outcome == [p \in Partitions |-> [r \in RuleIds |->
                         IF states[p][r] = NoState THEN Silent(NoState) ELSE handle(p, r)]]
<1>3. due \in Nat
  BY <1>1
<1>4. Commit(outcome, out, draining)
  BY <1>2
<1>5. ASSUME NEW p \in Partitions, NEW r \in RuleIds, states[p][r] # NoState
      PROVE  rules[r] # NoRule /\ handle(p, r) \in Outcome
  <2>1. states[p][r] \in RuleState /\ rules[r] # NoRule
    BY <1>5 DEF StateInv, StatesOK
  <2>2. RuleFor(rules, draining, p, r) \in Rule
    BY <2>1, GoverningCompiled DEF StateInv, Compiled
  <2> QED BY <1>3, <2>1, <2>2, OnTimerType
<1> HIDE DEF handle
<1>6. ASSUME NEW p \in Partitions, NEW r \in RuleIds
      PROVE  /\ outcome[p][r] \in Handled
             /\ outcome[p][r].state # NoState => rules[r] # NoRule
  <2>1. CASE states[p][r] = NoState
    BY <2>1, SilentHandled
  <2>2. CASE states[p][r] # NoState
    BY <1>5, <2>2, OutcomeHandled
  <2> QED BY <2>1, <2>2
<1> HIDE DEF outcome
<1>7. OutOK(out) /\ DrainsOK(draining) /\ suppressed \in [RuleIds -> Nat]
  BY DEF StateInv
<1>8. /\ states' \in [Partitions -> [RuleIds -> RuleState \cup {NoState}]]
      /\ \A p \in Partitions, r \in RuleIds : states'[p][r] = outcome[p][r].state
      /\ OutOK(out') /\ suppressed' \in [RuleIds -> Nat] /\ DrainsOK(draining')
  BY <1>4, <1>6, <1>7, CommitType
<1> QED BY <1>2, <1>3, <1>6, <1>8 DEF StatesOK

(* Swapping the rules leaves no state without a rule, and keeps a previous  *)
(* definition only where a rule was loaded before.                          *)
LEMMA ApplyReloadType ==
  ASSUME StateInv, NEW new, RulesOK(new), NEW policy
  PROVE  LET now == ApplyReload(rules, states, draining, known, new, policy)
         IN now.rules = new /\ StatesOK(now.states, new) /\ DrainsOK(now.draining)
<1> DEFINE open == [r \in RuleIds |-> OpenEpisodes(states, r)]
           outcome == [r \in RuleIds |-> ReloadOutcome(rules[r], new[r], open[r], policy)]
           kept(p, r) == IF Retains(outcome[r], Compatible(rules[r], new[r]), p \in open[r])
                         THEN states[p][r] ELSE NoState
           sts == [p \in Partitions |-> [r \in RuleIds |->
                     Reconciled(new[r], kept(p, r), p, known)]]
           dr == [r \in RuleIds |->
                    CASE outcome[r] = "removed" -> NoDrain
                      [] outcome[r] = "draining" -> [rule |-> rules[r], parts |-> open[r]]
                      [] OTHER -> draining[r]]
<1>1. ApplyReload(rules, states, draining, known, new, policy)
        = [rules |-> new, states |-> sts, draining |-> dr]
  BY DEF ApplyReload
<1>2. ASSUME NEW p \in Partitions, NEW r \in RuleIds
      PROVE  /\ sts[p][r] \in RuleState \cup {NoState}
             /\ sts[p][r] # NoState => new[r] # NoRule
  <2>1. kept(p, r) \in RuleState \cup {NoState}
    BY DEF StateInv, StatesOK
  <2>2. sts[p][r] = Reconciled(new[r], kept(p, r), p, known)
    OBVIOUS
  <2> HIDE DEF kept, sts
  <2>3. Reconciled(new[r], kept(p, r), p, known) \in {NoState, EmptyState, kept(p, r)}
    BY DEF Reconciled
  <2>4. new[r] = NoRule => Reconciled(new[r], kept(p, r), p, known) = NoState
    BY DEF Reconciled
  <2> QED BY <2>1, <2>2, <2>3, <2>4, EmptyStateType
<1>3. ASSUME NEW r \in RuleIds
      PROVE  dr[r] \in Drain /\ (dr[r].parts # {} => Compiled(dr[r].rule))
  <2>1. CASE outcome[r] = "removed"
    BY <2>1, NoDrainType
  <2>2. CASE outcome[r] = "draining"
    <3>1. dr[r] = [rule |-> rules[r], parts |-> OpenEpisodes(states, r)]
      BY <2>2
    <3>2. rules[r] # NoRule
      BY <2>2 DEF ReloadOutcome
    <3>3. Compiled(rules[r])
      BY <3>2 DEF StateInv, RulesOK
    <3> QED BY <3>1, <3>3 DEF Drain, OpenEpisodes, Compiled
  <2>3. CASE outcome[r] \notin {"removed", "draining"}
    BY <2>3 DEF StateInv, DrainsOK
  <2> QED BY <2>1, <2>2, <2>3
<1>4. /\ sts = [p \in Partitions |-> [r \in RuleIds |-> sts[p][r]]]
      /\ dr = [r \in RuleIds |-> dr[r]]
  OBVIOUS
<1> HIDE DEF sts, dr
<1>5. StatesOK(sts, new)
  BY <1>2, <1>4 DEF StatesOK
<1>6. DrainsOK(dr)
  BY <1>3, <1>4 DEF DrainsOK
<1> QED BY <1>1, <1>5, <1>6

LEMMA FoldLateType ==
  ASSUME StateInv, NEW ev \in Event, FoldLate(ev)
  PROVE  StateInv'
<1> DEFINE handle(p, r) ==
             OnLate(rules[r], Ensured(rules[r], states[p][r], watermark), ev)
           outcome == [p \in Partitions |-> [r \in RuleIds |->
                         IF p \in FoldedIn(ev, r) THEN handle(p, r)
                         ELSE Silent(states[p][r])]]
<1>1. /\ Commit(outcome, Quiet, draining) /\ watermark \in Nat
      /\ served \in Nat /\ served' = served + 1
  BY DEF FoldLate, Behind, StateInv, Moment, Serve
<1>2. ASSUME NEW p \in Partitions, NEW r \in RuleIds, p \in FoldedIn(ev, r)
      PROVE  rules[r] # NoRule /\ handle(p, r) \in Outcome
  <2>1. rules[r] # NoRule
    BY <1>2 DEF FoldedIn, SeenIn
  <2>2. rules[r] \in Rule
    BY <2>1 DEF StateInv, RulesOK, Compiled
  <2>3. Ensured(rules[r], states[p][r], watermark) \in RuleState
    BY <1>1, <2>2, EnsuredType DEF StateInv, StatesOK
  <2> QED BY <2>1, <2>2, <2>3, OnLateType
<1> HIDE DEF handle
<1>3. ASSUME NEW p \in Partitions, NEW r \in RuleIds
      PROVE  /\ outcome[p][r] \in Handled
             /\ outcome[p][r].state # NoState => rules[r] # NoRule
             /\ p \in FoldedIn(ev, r) => outcome[p][r].state # NoState
  <2>1. CASE p \in FoldedIn(ev, r)
    <3>1. handle(p, r) \in Outcome /\ rules[r] # NoRule
      BY <1>2, <2>1
    <3>2. handle(p, r).state # NoState
      BY <3>1, EngineAssumption DEF Outcome
    <3> QED BY <2>1, <3>1, <3>2, OutcomeHandled
  <2>2. CASE p \notin FoldedIn(ev, r)
    BY <2>2, SilentHandled DEF StateInv, StatesOK
  <2> QED BY <2>1, <2>2
<1> HIDE DEF outcome
<1>4. DrainsOK(draining) /\ suppressed \in [RuleIds -> Nat]
  BY DEF StateInv
<1>5. /\ states' \in [Partitions -> [RuleIds -> RuleState \cup {NoState}]]
      /\ \A p \in Partitions, r \in RuleIds : states'[p][r] = outcome[p][r].state
      /\ OutOK(out') /\ suppressed' \in [RuleIds -> Nat] /\ DrainsOK(draining')
  BY <1>1, <1>3, <1>4, QuietType, CommitType
<1>6. StatesOK(states', rules)
  BY <1>3, <1>5 DEF StatesOK
<1>7. known' \in SUBSET Partitions
  <2>1. \A r \in RuleIds : FoldedIn(ev, r) \in SUBSET Partitions
    BY SeenInType DEF FoldedIn
  <2>2. known' = known \cup UNION {FoldedIn(ev, r) : r \in RuleIds}
    BY DEF FoldLate
  <2> QED BY <2>1, <2>2 DEF StateInv
<1>8. ASSUME NEW x \in Reopens(ev)
      PROVE  x \in Reopened /\ states'[x.p][x.r] # NoState
  <2>1. PICK q \in Partitions \X RuleIds :
          /\ q[1] \in FoldedIn(ev, q[2]) /\ states[q[1]][q[2]] # NoState
          /\ \E end \in AffectedWindows(rules[q[2]], states[q[1]][q[2]], ev) :
               x = [p |-> q[1], r |-> q[2], end |-> end]
    BY <1>8 DEF Reopens
  <2>2. PICK end \in AffectedWindows(rules[q[2]], states[q[1]][q[2]], ev) :
          x = [p |-> q[1], r |-> q[2], end |-> end]
    BY <2>1
  <2>3. q[1] \in Partitions /\ q[2] \in RuleIds
    BY <2>1
  <2>4. states[q[1]][q[2]] \in RuleState
    BY <2>1, <2>3 DEF StateInv, StatesOK
  <2>5. end \in Nat
    BY <2>2, <2>4 DEF AffectedWindows, RuleState
  <2> QED BY <1>3, <1>5, <2>1, <2>2, <2>3, <2>5 DEF Reopened
<1>9. /\ call' \in Call
      /\ call'.stage # "recompute" => call'.reopen = {}
      /\ call'.reopen \subseteq Reopens(ev)
  <2>1. call' = IF Reopens(ev) = {} THEN Idle
                ELSE [Idle EXCEPT !.stage = "recompute", !.reopen = Reopens(ev)]
    BY DEF FoldLate
  <2>2. Reopens(ev) \in SUBSET Reopened
    BY <1>8
  <2> QED BY <2>1, <2>2 DEF Idle, Call, Stages, Moment, Unset
<1>10. /\ watermark' = watermark /\ rules' = rules /\ pending' = pending
  BY DEF FoldLate
<1> QED BY <1>1, <1>5, <1>6, <1>7, <1>8, <1>9, <1>10 DEF StateInv

LEMMA RecomputeType ==
  ASSUME StateInv, NEW x \in call.reopen, Recompute(x)
  PROVE  StateInv'
<1> DEFINE outcome == [p \in Partitions |-> [r \in RuleIds |->
                         IF p = x.p /\ r = x.r
                         THEN RecomputeWindow(rules[r], states[p][r], x.end)
                         ELSE Silent(states[p][r])]]
<1>1. Commit(outcome, out, draining)
  BY DEF Recompute
<1>2. x \in Reopened /\ states[x.p][x.r] # NoState
  BY DEF StateInv, Call
<1>3. ASSUME NEW p \in Partitions, NEW r \in RuleIds
      PROVE  /\ outcome[p][r] \in Handled
             /\ outcome[p][r].state # NoState <=> states[p][r] # NoState
  <2>1. CASE p = x.p /\ r = x.r
    <3>1. states[p][r] \in RuleState /\ rules[r] # NoRule
      BY <1>2, <2>1 DEF StateInv, StatesOK
    <3>2. rules[r] \in Rule /\ x.end \in Nat
      BY <1>2, <3>1 DEF StateInv, RulesOK, Compiled, Reopened
    <3>3. RecomputeWindow(rules[r], states[p][r], x.end) \in Outcome
      BY <3>1, <3>2, RecomputeWindowType
    <3>4. RecomputeWindow(rules[r], states[p][r], x.end).state # NoState
      BY <3>3, EngineAssumption DEF Outcome
    <3> QED BY <1>2, <2>1, <3>3, <3>4, OutcomeHandled
  <2>2. CASE ~(p = x.p /\ r = x.r)
    <3>1. outcome[p][r] = Silent(states[p][r])
      BY <2>2
    <3> QED BY <3>1, SilentHandled DEF StateInv, StatesOK
  <2> QED BY <2>1, <2>2
<1> HIDE DEF outcome
<1>4. OutOK(out) /\ DrainsOK(draining) /\ suppressed \in [RuleIds -> Nat]
  BY DEF StateInv
<1>5. /\ states' \in [Partitions -> [RuleIds -> RuleState \cup {NoState}]]
      /\ \A p \in Partitions, r \in RuleIds : states'[p][r] = outcome[p][r].state
      /\ OutOK(out') /\ suppressed' \in [RuleIds -> Nat] /\ DrainsOK(draining')
  BY <1>1, <1>3, <1>4, CommitType
<1>6. StatesOK(states', rules)
  BY <1>3, <1>5 DEF StatesOK, StateInv
<1>7. /\ call' \in Call
      /\ call'.stage # "recompute" => call'.reopen = {}
      /\ call'.reopen \subseteq call.reopen
  <2>1. call' = IF call.reopen = {x} THEN Idle ELSE [call EXCEPT !.reopen = @ \ {x}]
    BY DEF Recompute
  <2>2. call \in Call /\ call.stage = "recompute"
    BY DEF Recompute, StateInv
  <2> QED BY <2>1, <2>2 DEF Idle, Call, Stages, Moment, Unset
<1>8. \A y \in call'.reopen : states'[y.p][y.r] # NoState
  <2> TAKE y \in call'.reopen
  <2>1. y \in Reopened /\ states[y.p][y.r] # NoState
    BY <1>7 DEF StateInv, Call
  <2> QED BY <2>1, <1>3, <1>5 DEF Reopened
<1>9. /\ watermark' = watermark /\ rules' = rules /\ pending' = pending
      /\ known' = known /\ served' = served
  BY DEF Recompute
<1> QED BY <1>5, <1>6, <1>7, <1>8, <1>9 DEF StateInv

LEMMA ReloadableOK ==
  /\ RulesOK(InitialRules)
  /\ \A new \in Reloads : RulesOK(new)
<1>1. ASSUME NEW rs \in {InitialRules} \cup Reloads
      PROVE  RulesOK(rs)
  <2>1. rs \in RuleSet /\ \A r \in RuleIds : rs[r] # NoRule => WellFormed(rs[r])
    BY EngineAssumption, CompiledAssumption
  <2> QED BY <2>1 DEF RulesOK, RuleSet, Compiled
<1> QED BY <1>1

LEMMA StateInit == Init => StateInv
<1> SUFFICES ASSUME Init PROVE StateInv
  OBVIOUS
<1>1. watermark \in Moment /\ RulesOK(rules)
  BY EngineAssumption, ReloadableOK DEF Init
<1>2. StatesOK(states, rules)
  BY DEF Init, StatesOK
<1>3. DrainsOK(draining)
  BY NoDrainType DEF Init, DrainsOK
<1>4. call \in Call /\ call.reopen = {}
  BY DEF Init, Idle, Call, Stages, Moment, Unset
<1>5. /\ OutOK(out) /\ pending = NoReload /\ known = {} /\ served = 0
      /\ suppressed \in [RuleIds -> Nat]
  BY QuietType DEF Init
<1> QED BY <1>1, <1>2, <1>3, <1>4, <1>5 DEF StateInv

LEMMA ServedType ==
  ASSUME StateInv, Serve
  PROVE  served' \in Nat /\ call.stage = "idle" /\ call.reopen = {}
BY DEF StateInv, Serve

LEMMA EventType ==
  ASSUME StateInv, NEW ev \in Event, ProcessEvent(ev)
  PROVE  StateInv'
<1>0. ev.ts \in Nat
  BY DEF Event
<1>1. CASE RefuseLate(ev)
  BY <1>1, ServedType, QuietType DEF RefuseLate, StateInv
<1>2. CASE FoldLate(ev)
  BY <1>2, FoldLateType
<1>3. CASE FirstEvent(ev)
  <2>1. /\ StatesOK(states', rules) /\ known' \in SUBSET Partitions
        /\ OutOK(out') /\ suppressed' \in [RuleIds -> Nat] /\ DrainsOK(draining')
    BY <1>3, DeliverType, QuietType DEF FirstEvent, StateInv
  <2>2. /\ watermark' \in Moment /\ rules' = rules /\ pending' = pending /\ call' = call
        /\ call.reopen = {} /\ served' \in Nat
    BY <1>0, <1>3, ServedType DEF FirstEvent, Moment
  <2> QED BY <2>1, <2>2 DEF StateInv
<1>4. CASE AcceptEvent(ev)
  <2>1. call' \in Call /\ call'.reopen = {}
    BY <1>0, <1>4 DEF AcceptEvent, Idle, Call, Stages, Moment
  <2>2. served' \in Nat
    BY <1>4, ServedType DEF AcceptEvent
  <2> QED BY <1>4, <2>1, <2>2, QuietType DEF AcceptEvent, StateInv
<1> QED BY <1>1, <1>2, <1>3, <1>4 DEF ProcessEvent

LEMMA AdvanceType ==
  ASSUME StateInv, NEW t \in Nat, FirstAdvance(t) \/ AdvanceTo(t)
  PROVE  StateInv'
<1>1. CASE FirstAdvance(t)
  <2>1. watermark' \in Moment /\ served' \in Nat /\ call.reopen = {}
    BY <1>1, ServedType DEF FirstAdvance, Moment
  <2> QED BY <1>1, <2>1, QuietType DEF FirstAdvance, StateInv
<1>2. CASE AdvanceTo(t)
  <2>1. call' \in Call /\ call'.reopen = {}
    BY <1>2 DEF AdvanceTo, Idle, Call, Stages, Moment
  <2>2. served' \in Nat
    BY <1>2, ServedType DEF AdvanceTo
  <2> QED BY <1>2, <2>1, <2>2, QuietType DEF AdvanceTo, StateInv
<1> QED BY <1>1, <1>2

LEMMA ReloadType ==
  ASSUME StateInv, NEW new \in Reloads, NEW policy \in ReloadPolicies, Reload(new, policy)
  PROVE  StateInv'
<1>0. RulesOK(new)
  BY ReloadableOK
<1>1. CASE ReloadNow(new, policy)
  <2>1. /\ rules' = new /\ StatesOK(states', new) /\ DrainsOK(draining')
    BY <1>0, <1>1, ApplyReloadType DEF ReloadNow
  <2>2. /\ served' \in Nat /\ call' = call /\ call.reopen = {} /\ OutOK(out')
    BY <1>1, ServedType, QuietType DEF ReloadNow
  <2>3. /\ watermark' = watermark /\ known' = known /\ pending' = pending
        /\ suppressed' = suppressed
    BY <1>1 DEF ReloadNow
  <2> QED BY <1>0, <2>1, <2>2, <2>3 DEF StateInv
<1>2. ASSUME NEW at \in 0 .. MaxTime, StageReload(new, policy, at) PROVE StateInv'
  <2>1. pending' \in Staged /\ RulesOK(pending'.rules)
    <3>1. at \in Nat /\ policy \in Policies /\ new \in RuleSet
      BY EngineAssumption
    <3> QED BY <1>0, <1>2, <3>1 DEF StageReload, Staged
  <2>2. served' \in Nat
    BY <1>2, ServedType DEF StageReload
  <2> QED BY <1>2, <2>1, <2>2, QuietType DEF StageReload, StateInv
<1> QED BY <1>1, <1>2 DEF Reload

LEMMA SettleType ==
  ASSUME StateInv, call.target \in Nat, Settle
  PROVE  StateInv'
<1> DEFINE now == Activated(call.target)
<1>1. RulesOK(now.rules) /\ StatesOK(now.states, now.rules) /\ DrainsOK(now.draining)
  <2>1. CASE Activates(call.target)
    <3>1. RulesOK(pending.rules)
      BY <2>1 DEF Activates, StateInv
    <3> QED BY <2>1, <3>1, ApplyReloadType DEF Activated
  <2>2. CASE ~Activates(call.target)
    BY <2>2 DEF Activated, StateInv
  <2> QED BY <2>1, <2>2
<1>2. /\ watermark' \in Moment /\ served' = served
      /\ rules' = now.rules
      /\ pending' \in {NoReload, pending}
      /\ call' = Idle
  BY DEF Settle, Moment
<1> HIDE DEF now
<1>3. /\ StatesOK(states', now.rules) /\ known' \in SUBSET Partitions
      /\ OutOK(out') /\ suppressed' \in [RuleIds -> Nat] /\ DrainsOK(draining')
  <2>1. CASE call.event = NoEvent
    <3>1. /\ states' = now.states /\ draining' = now.draining
          /\ known' = known /\ suppressed' = suppressed /\ out' = out
      BY <2>1 DEF Settle, now
    <3> QED BY <1>1, <3>1 DEF StateInv
  <2>2. CASE call.event # NoEvent
    <3>1. Deliver(call.event, now.rules, now.states, now.draining, out)
      BY <2>2 DEF Settle, now
    <3>2. call.event \in Event
      BY <2>2 DEF StateInv, Call
    <3>3. OutOK(out) /\ suppressed \in [RuleIds -> Nat] /\ known \in SUBSET Partitions
      BY DEF StateInv
    <3> QED BY <1>1, <3>1, <3>2, <3>3, DeliverType
  <2> QED BY <2>1, <2>2
<1>4. call' \in Call /\ call'.reopen = {}
  BY <1>2 DEF Idle, Call, Stages, Moment, Unset
<1> QED BY <1>1, <1>2, <1>3, <1>4 DEF StateInv

LEMMA StateStep == StateInv /\ ProgressInv /\ [Next]_vars => StateInv'
<1> SUFFICES ASSUME StateInv, ProgressInv, [Next]_vars PROVE StateInv'
  OBVIOUS
<1>1. ASSUME NEW ev \in Offered, ProcessEvent(ev) PROVE StateInv'
  BY <1>1, EventType, EngineAssumption
<1>2. ASSUME NEW t \in 0 .. MaxTime, FirstAdvance(t) \/ AdvanceTo(t) PROVE StateInv'
  <2>1. t \in Nat
    BY EngineAssumption
  <2> QED BY <1>2, <2>1, AdvanceType
<1>3. ASSUME NEW new \in Reloads, NEW policy \in ReloadPolicies, Reload(new, policy)
      PROVE StateInv'
  BY <1>3, ReloadType
<1>4. CASE FireDue
  <2>1. /\ watermark' \in Moment /\ StatesOK(states', rules)
        /\ OutOK(out') /\ suppressed' \in [RuleIds -> Nat] /\ DrainsOK(draining')
    BY <1>4, FireDueType DEF Moment
  <2>2. call.reopen = {}
    BY <1>4 DEF FireDue, StateInv
  <2>3. /\ rules' = rules /\ known' = known /\ pending' = pending /\ call' = call
        /\ served' = served
    BY <1>4 DEF FireDue
  <2> QED BY <2>1, <2>2, <2>3 DEF StateInv
<1>5. CASE Settle
  BY <1>5, SettleType DEF ProgressInv, Settle
<1>6. ASSUME NEW x \in call.reopen, Recompute(x) PROVE StateInv'
  BY <1>6, RecomputeType
<1>7. CASE UNCHANGED vars
  BY <1>7 DEF vars, StateInv
<1> QED BY <1>1, <1>2, <1>3, <1>4, <1>5, <1>6, <1>7 DEF Next, Progress

(* Every state of the engine is well typed: every timer falls due at a      *)
(* time, every partition holds state only for a loaded rule, whatever       *)
(* events, advances, reloads and drains came before.                        *)
THEOREM TypeCorrect == Spec => []TypeOK
<1>1. ProgressInv /\ LateInv /\ StateInv => TypeOK
  BY DEF ProgressInv, LateInv, LateMetrics, LateByRule, StateInv, RulesOK, StatesOK,
         DrainsOK, OutOK, TypeOK
<1>2. Init => LateInv
  BY DEF Init, LateInv, LateAccounting, LateMetrics, LateByRule
<1> QED BY <1>1, <1>2, ProgressInit, ProgressStep, LateStep, StateInit, StateStep,
           PTL DEF Spec

-----------------------------------------------------------------------------
\* Dropped events

(* An event that is counted as dropped or rejected leaves no trace in any   *)
(* rule and emits nothing (_handle_late_event).                             *)
LEMMA DroppedStep ==
  ASSUME StateInv, LateInv, [Next]_vars,
         late'.dropped + late'.rejected > late.dropped + late.rejected
  PROVE  out' = Quiet /\ UNCHANGED <<states, entityWm, watermark, suppressed>>
<1>1. /\ late.total \in Nat /\ late.accepted \in Nat
      /\ late.dropped \in Nat /\ late.rejected \in Nat
  BY DEF LateInv, LateMetrics
<1>2. late' # late
  BY <1>1
<1>3. PICK ev \in Offered : RefuseLate(ev) \/ FoldLate(ev)
  BY <1>2 DEF Next, ProcessEvent, FirstEvent, AcceptEvent, FirstAdvance, AdvanceTo,
       Reload, ReloadNow, StageReload, Progress, FireDue, Settle, Recompute, vars
<1>4. CASE RefuseLate(ev)
  BY <1>4 DEF RefuseLate
<1>5. CASE FoldLate(ev)
  <2>1. CountLate(ev)
    BY <1>5 DEF FoldLate
  <2>2. \A r \in RuleIds : FoldedIn(ev, r) = {}
    <3> DEFINE taken == \E r \in RuleIds : FoldedIn(ev, r) # {}
    <3> SUFFICES ASSUME taken PROVE FALSE
      OBVIOUS
    <3>1. Lateness(ev) # 0
      BY <1>2, <2>1 DEF CountLate
    <3> HIDE DEF taken
    <3>2. late' = [late EXCEPT !.total = @ + 1,
                               !.accepted = @ + IF taken THEN 1 ELSE 0,
                               !.dropped = @ + IF taken THEN 0 ELSE 1]
      BY <2>1, <3>1 DEF CountLate, taken
    <3>3. late'.dropped = late.dropped + 0 /\ late'.rejected = late.rejected
      BY <3>2 DEF LateInv, LateMetrics
    <3> QED BY <1>1, <3>3
  <2> DEFINE outcome == [p \in Partitions |-> [r \in RuleIds |-> Silent(states[p][r])]]
  <2>3. Commit(outcome, Quiet, draining)
    BY <1>5, <2>2 DEF FoldLate
  <2>4. ASSUME NEW p \in Partitions, NEW r \in RuleIds
        PROVE  /\ outcome[p][r].state = states[p][r] /\ outcome[p][r].alerts = << >>
               /\ outcome[p][r].suppressed = FALSE
    BY DEF Silent
  <2> HIDE DEF outcome
  <2>5. states' = states
    <3>1. states' = [p \in Partitions |-> [r \in RuleIds |-> outcome[p][r].state]]
      BY <2>3 DEF Commit
    <3>2. states' = [p \in Partitions |-> [r \in RuleIds |-> states[p][r]]]
      BY <2>4, <3>1, Zenon
    <3>3. states \in [Partitions -> [RuleIds -> RuleState \cup {NoState}]]
      BY DEF StateInv, StatesOK
    <3>4. states = [p \in Partitions |-> states[p]]
      BY <3>3
    <3>5. \A p \in Partitions : states[p] = [r \in RuleIds |-> states[p][r]]
      BY <3>3
    <3> QED BY <3>2, <3>4, <3>5, Zenon
  <2>6. out' = Quiet
    <3>1. out' = [p \in Partitions |->
                    [r \in RuleIds |-> Quiet[p][r] \o outcome[p][r].alerts]]
      BY <2>3 DEF Commit
    <3>2. ASSUME NEW p \in Partitions, NEW r \in RuleIds
          PROVE  Quiet[p][r] \o outcome[p][r].alerts = << >>
      <4>1. Quiet[p][r] = << >>
        BY DEF Quiet
      <4>2. << >> \o << >> = << >>
        BY EmptySeq, ConcatEmptySeq
      <4> QED BY <2>4, <4>1, <4>2
    <3> QED BY <3>1, <3>2, Zenon DEF Quiet
  <2>7. suppressed' = suppressed
    <3>1. suppressed' = [r \in RuleIds |-> suppressed[r]
                           + Cardinality({p \in Partitions : outcome[p][r].suppressed})]
      BY <2>3 DEF Commit
    <3>2. \A r \in RuleIds : {p \in Partitions : outcome[p][r].suppressed} = {}
      BY <2>4
    <3> QED BY <3>1, <3>2, FS_EmptySet DEF StateInv
  <2> QED BY <1>5, <2>5, <2>6, <2>7 DEF FoldLate
<1> QED BY <1>3, <1>4, <1>5

(* ... in every behaviour. *)
THEOREM DroppedIsTraceless == Spec => DroppedLeavesNoTrace
<1>1. Init => LateInv
  BY DEF Init, LateInv, LateAccounting, LateMetrics, LateByRule
<1>2. StateInv /\ LateInv /\ [Next]_vars
        => [late'.dropped + late'.rejected > late.dropped + late.rejected
              => /\ out' = Quiet
                 /\ UNCHANGED <<states, entityWm, watermark, suppressed>>]_vars
  BY DroppedStep
<1> QED BY <1>1, <1>2, ProgressInit, ProgressStep, LateStep, StateInit, StateStep,
           PTL DEF Spec, DroppedLeavesNoTrace
-----------------------------------------------------------------------------
\* Percentiles

\* The whole numbers of a sequence, as the aggregations take them.
WholeOnes(v) == [i \in DOMAIN v |-> Whole(v[i])]

\* What has its place not after the j-th number of v.
UpTo(v, j) == {i \in DOMAIN v : v[i] <= v[j] /\ (i <= j \/ v[i] < v[j])}

LEMMA WholeOrder ==
  ASSUME NEW a \in Int, NEW b \in Int
  PROVE  AtMost(Whole(a), Whole(b)) <=> a <= b
BY DEF AtMost, Whole

LEMMA UpToSize ==
  ASSUME NEW n \in Nat, NEW v \in [1 .. n -> Int], NEW j \in 1 .. n
  PROVE  /\ IsFiniteSet(UpTo(v, j))
         /\ Cardinality(UpTo(v, j)) \in 1 .. n
<1>1. IsFiniteSet(1 .. n) /\ Cardinality(1 .. n) = n
  BY FS_Interval
<1>2. UpTo(v, j) \subseteq 1 .. n /\ j \in UpTo(v, j)
  BY DEF UpTo
<1>3. IsFiniteSet(UpTo(v, j)) /\ Cardinality(UpTo(v, j)) <= n
  BY <1>1, <1>2, FS_Subset
<1>4. Cardinality(UpTo(v, j)) \in Nat /\ Cardinality(UpTo(v, j)) # 0
  BY <1>2, <1>3, FS_CardinalityType, FS_EmptySet
<1> QED
  BY <1>3, <1>4

\* The numbers are placed in their order.
LEMMA UpToGrows ==
  ASSUME NEW n \in Nat, NEW v \in [1 .. n -> Int], NEW i \in 1 .. n, NEW j \in 1 .. n,
         i # j, i \in UpTo(v, j)
  PROVE  Cardinality(UpTo(v, i)) < Cardinality(UpTo(v, j))
<1>1. UpTo(v, i) \subseteq UpTo(v, j) \ {j}
  BY DEF UpTo
<1>2. j \in UpTo(v, j)
  BY DEF UpTo
<1>3. /\ IsFiniteSet(UpTo(v, j)) /\ Cardinality(UpTo(v, j)) \in 1 .. n
      /\ Cardinality(UpTo(v, i)) \in 1 .. n
  BY UpToSize
<1>4. /\ IsFiniteSet(UpTo(v, j) \ {j})
      /\ Cardinality(UpTo(v, j) \ {j}) = Cardinality(UpTo(v, j)) - 1
  BY <1>2, <1>3, FS_RemoveElement
<1>5. Cardinality(UpTo(v, i)) <= Cardinality(UpTo(v, j) \ {j})
  BY <1>1, <1>4, FS_Subset
<1> QED
  BY <1>3, <1>4, <1>5

\* at has the place in v of the number that comes at each place when they ascend.
Sorts(at, n, v) ==
  /\ at \in [1 .. n -> 1 .. n]
  /\ \A k \in 1 .. n : Ascending(WholeOnes(v))[k] = Whole(v[at[k]])
  /\ \A k \in 1 .. n : Cardinality(UpTo(v, at[k])) = k

\* Every number has a place of its own, and every place is taken; the number at a
\* place is at most that at a later one.
LEMMA AscendingIs ==
  ASSUME NEW n \in Nat, NEW v \in [1 .. n -> Int]
  PROVE  \E at : Sorts(at, n, v)
<1> DEFINE place == [j \in 1 .. n |-> Cardinality(UpTo(v, j))]
           at == [k \in 1 .. n |-> CHOOSE j \in 1 .. n : place[j] = k]
<1>1. place \in [1 .. n -> 1 .. n]
  BY UpToSize
<1>2. \A i, j \in 1 .. n : i # j => place[i] # place[j]
  <2> SUFFICES ASSUME NEW i \in 1 .. n, NEW j \in 1 .. n, i # j PROVE place[i] # place[j]
    OBVIOUS
  <2>1. i \in UpTo(v, j) \/ j \in UpTo(v, i)
    BY DEF UpTo
  <2>2. place[i] < place[j] \/ place[j] < place[i]
    BY <2>1, UpToGrows
  <2> QED
    BY <1>1, <2>2
<1>3. place \in Injection(1 .. n, 1 .. n)
  BY <1>1, <1>2 DEF Injection, IsInjective
<1>4. place \in Surjection(1 .. n, 1 .. n)
  BY <1>3, FS_Interval, FS_Injection
<1>5. \A k \in 1 .. n : \E j \in 1 .. n : place[j] = k
  BY <1>4 DEF Surjection
<1>6. \A k \in 1 .. n : at[k] \in 1 .. n /\ place[at[k]] = k
  BY <1>5
<1>7. ASSUME NEW k \in 1 .. n PROVE Ascending(WholeOnes(v))[k] = Whole(v[at[k]])
  <2> DEFINE w == WholeOnes(v)
  <2>1. DOMAIN w = 1 .. n /\ \A i \in 1 .. n : w[i] = Whole(v[i])
    BY DEF WholeOnes
  <2>2. ASSUME NEW j \in 1 .. n
        PROVE  {i \in DOMAIN w : AtMost(w[i], w[j]) /\ (i <= j \/ ~AtMost(w[j], w[i]))}
                 = UpTo(v, j)
    <3>1. \A i \in 1 .. n : /\ AtMost(w[i], w[j]) <=> v[i] <= v[j]
                            /\ AtMost(w[j], w[i]) <=> v[j] <= v[i]
      BY <2>1, WholeOrder
    <3> QED
      BY <2>1, <3>1 DEF UpTo
  <2> HIDE DEF w
  <2>3. Ascending(w)[k] =
          w[CHOOSE j \in DOMAIN w :
              Cardinality({i \in DOMAIN w :
                 AtMost(w[i], w[j]) /\ (i <= j \/ ~AtMost(w[j], w[i]))}) = k]
    BY <2>1 DEF Ascending
  <2>4. (CHOOSE j \in DOMAIN w :
           Cardinality({i \in DOMAIN w :
              AtMost(w[i], w[j]) /\ (i <= j \/ ~AtMost(w[j], w[i]))}) = k)
          = (CHOOSE j \in 1 .. n : place[j] = k)
    <3>1. \A j \in 1 .. n :
            Cardinality({i \in DOMAIN w :
              AtMost(w[i], w[j]) /\ (i <= j \/ ~AtMost(w[j], w[i]))}) = place[j]
      BY <2>2
    <3> QED
      BY <2>1, <3>1
  <2>5. Ascending(w)[k] = w[at[k]]
    BY <2>3, <2>4
  <2> QED
    BY <1>6, <2>1, <2>5 DEF w
<1>8. at \in [1 .. n -> 1 .. n]
  BY <1>6
<1>9. \A k \in 1 .. n : Cardinality(UpTo(v, at[k])) = k
  BY <1>6
<1> HIDE DEF at
<1>10. Sorts(at, n, v)
  BY <1>7, <1>8, <1>9 DEF Sorts
<1> QED
  BY <1>10, Zenon

\* A set of numbers has at most as many as there are places between two that its
\* numbers lie between.
LEMMA PlacesBound ==
  ASSUME NEW n \in Nat, NEW v \in [1 .. n -> Int], NEW K \in SUBSET (1 .. n),
         NEW lo \in Nat, NEW hi \in Nat, lo <= hi,
         \A i \in K : Cardinality(UpTo(v, i)) \in lo + 1 .. hi
  PROVE  Cardinality(K) \in Nat /\ Cardinality(K) <= hi - lo
<1> DEFINE place == [i \in K |-> Cardinality(UpTo(v, i))]
<1>1. place \in [K -> lo + 1 .. hi]
  OBVIOUS
<1>2. \A i, j \in K : i # j => place[i] # place[j]
  <2> SUFFICES ASSUME NEW i \in K, NEW j \in K, i # j PROVE place[i] # place[j]
    OBVIOUS
  <2>1. i \in UpTo(v, j) \/ j \in UpTo(v, i)
    BY DEF UpTo
  <2>2. place[i] < place[j] \/ place[j] < place[i]
    BY <2>1, UpToGrows
  <2> QED
    BY <1>1, <2>2
<1>3. place \in Injection(K, lo + 1 .. hi)
  BY <1>1, <1>2 DEF Injection, IsInjective
<1>4. IsFiniteSet(lo + 1 .. hi) /\ Cardinality(lo + 1 .. hi) = hi - lo
  <2>1. /\ IsFiniteSet(lo + 1 .. hi)
        /\ Cardinality(lo + 1 .. hi) = IF lo + 1 > hi THEN 0 ELSE hi - (lo + 1) + 1
    BY lo + 1 \in Int, hi \in Int, FS_Interval
  <2> QED
    BY <2>1
<1>5. IsFiniteSet(K) /\ Cardinality(K) <= hi - lo
  BY <1>3, <1>4, FS_Injection
<1> QED
  BY <1>5, FS_CardinalityType

\* The point a share of m hundredths on the line from a to b.
Between(a, b, m) == Plus(Whole(a), Scaled(Minus(Whole(b), Whole(a)), m, 100))

LEMMA OnTheLine ==
  ASSUME NEW a \in Int, NEW b \in Int, a <= b, NEW m \in 0 .. 99
  PROVE  /\ \A c \in Int : ~AtMost(Between(a, b, m), Whole(c)) => c < b /\ (m = 0 => c < a)
         /\ \A c \in Int : ~AtMost(Whole(c), Between(a, b, m)) => a < c
<1> DEFINE d == (b - a) * m
           x == Between(a, b, m)
<1>1. d \in Int /\ 0 <= d /\ (m = 0 => d = 0)
  <2>1. \A e \in Nat : \A h \in Nat : e * h \in Nat /\ (h = 0 => e * h = 0)
    OBVIOUS
  <2> QED
    BY <2>1
<1>2. d <= 100 * (b - a)
  <2>1. \A e \in Nat : \A h \in Nat : e * h + e * (100 - h) = 100 * e
    OBVIOUS
  <2>2. \A e \in Nat : \A h \in 0 .. 99 : e * (100 - h) \in Nat
    OBVIOUS
  <2> QED
    BY <2>1, <2>2
<1>3. x.num = a * 100 + d /\ x.den = 100
  <2>1. Minus(Whole(b), Whole(a)).num = b - a /\ Minus(Whole(b), Whole(a)).den = 1
    BY DEF Minus, Plus, Scaled, Whole
  <2>2. /\ Scaled(Minus(Whole(b), Whole(a)), m, 100).num = d
        /\ Scaled(Minus(Whole(b), Whole(a)), m, 100).den = 100
    BY <2>1 DEF Scaled
  <2> HIDE DEF d
  <2> QED
    BY <1>1, <2>2 DEF Plus, Whole, Between
<1> HIDE DEF d, x
<1>4. \A c \in Int : /\ AtMost(x, Whole(c)) <=> a * 100 + d <= c * 100
                     /\ AtMost(Whole(c), x) <=> c * 100 <= a * 100 + d
  BY <1>1, <1>3 DEF AtMost, Whole
<1>5. /\ \A c \in Int : ~AtMost(x, Whole(c)) => c < b /\ (m = 0 => c < a)
      /\ \A c \in Int : ~AtMost(Whole(c), x) => a < c
  BY <1>1, <1>2, <1>4
<1> QED
  BY <1>5 DEF x

\* Numbers that lie below the one at a place, or above it, are at places before it,
\* or behind it.
LEMMA PlacedBefore ==
  ASSUME NEW n \in Nat, NEW v \in [1 .. n -> Int], NEW K \in SUBSET (1 .. n),
         NEW j \in 1 .. n, NEW place \in 1 .. n, Cardinality(UpTo(v, j)) = place
  PROVE  /\ (\A i \in K : v[i] < v[j]) =>
              Cardinality(K) \in Nat /\ Cardinality(K) <= place - 1
         /\ (\A i \in K : v[j] < v[i]) =>
              Cardinality(K) \in Nat /\ Cardinality(K) <= n - place
<1>1. \A i \in 1 .. n : Cardinality(UpTo(v, i)) \in 1 .. n
  BY UpToSize
<1>2. ASSUME \A i \in K : v[i] < v[j]
      PROVE  Cardinality(K) \in Nat /\ Cardinality(K) <= place - 1
  <2>1. ASSUME NEW i \in K PROVE Cardinality(UpTo(v, i)) < place
    <3>1. i \in UpTo(v, j) /\ i # j
      BY <1>2 DEF UpTo
    <3> QED
      BY <3>1, UpToGrows
  <2>2. PICK lo \in Nat, hi \in Nat : lo = 0 /\ hi = place - 1
    OBVIOUS
  <2>3. lo <= hi /\ \A i \in K : Cardinality(UpTo(v, i)) \in lo + 1 .. hi
    BY <1>1, <2>1, <2>2
  <2>4. Cardinality(K) \in Nat /\ Cardinality(K) <= hi - lo
    BY <2>3, PlacesBound
  <2> QED
    BY <2>2, <2>4
<1>3. ASSUME \A i \in K : v[j] < v[i]
      PROVE  Cardinality(K) \in Nat /\ Cardinality(K) <= n - place
  <2>1. ASSUME NEW i \in K PROVE place < Cardinality(UpTo(v, i))
    <3>1. j \in UpTo(v, i) /\ i # j
      BY <1>3 DEF UpTo
    <3> QED
      BY <3>1, UpToGrows
  <2>2. \A i \in K : Cardinality(UpTo(v, i)) \in place + 1 .. n
    BY <1>1, <2>1
  <2>3. place \in Nat /\ place <= n
    OBVIOUS
  <2> QED
    BY <2>2, <2>3, PlacesBound
<1> QED
  BY <1>2, <1>3

\* A number at a place is at most the one at a later place.
LEMMA PlacedInOrder ==
  ASSUME NEW n \in Nat, NEW v \in [1 .. n -> Int], NEW i \in 1 .. n, NEW j \in 1 .. n,
         Cardinality(UpTo(v, i)) <= Cardinality(UpTo(v, j))
  PROVE  v[i] <= v[j]
<1> SUFFICES ASSUME v[j] < v[i] PROVE FALSE
  OBVIOUS
<1>1. j \in UpTo(v, i) /\ j # i
  BY DEF UpTo
<1>2. Cardinality(UpTo(v, i)) \in 1 .. n /\ Cardinality(UpTo(v, j)) \in 1 .. n
  BY UpToSize
<1> QED
  BY <1>1, <1>2, UpToGrows

\* Those of a sequence that are below x, and above it.
Under(values, x) == {i \in DOMAIN values : ~AtMost(x, values[i])}
Over(values, x) == {i \in DOMAIN values : ~AtMost(values[i], x)}

\* The numbers around the point between two places next to each other.
LEMMA RankedBetween ==
  ASSUME NEW n \in Nat, NEW v \in [1 .. n -> Int], NEW i \in 1 .. n, NEW j \in 1 .. n,
         NEW m \in 0 .. 99,
         Cardinality(UpTo(v, i)) <= Cardinality(UpTo(v, j)),
         Cardinality(UpTo(v, j)) <= Cardinality(UpTo(v, i)) + 1,
         Cardinality(UpTo(v, i)) = Cardinality(UpTo(v, j)) => m = 0
  PROVE  LET x == Between(v[i], v[j], m)
             below == Cardinality(Under(WholeOnes(v), x))
             above == Cardinality(Over(WholeOnes(v), x))
             place == Cardinality(UpTo(v, i))
         IN /\ below \in Nat /\ above \in Nat
            /\ below <= IF m = 0 THEN place - 1 ELSE place
            /\ above <= n - place
<1> DEFINE x == Between(v[i], v[j], m)
           K == Under(WholeOnes(v), x)
           L == Over(WholeOnes(v), x)
<1>1. v[i] \in Int /\ v[j] \in Int /\ v[i] <= v[j]
  BY PlacedInOrder
<1>2. /\ \A h \in K : v[h] < v[j] /\ (m = 0 => v[h] < v[i])
      /\ \A h \in L : v[i] < v[h]
  <2>1. DOMAIN WholeOnes(v) = 1 .. n /\ \A h \in 1 .. n : WholeOnes(v)[h] = Whole(v[h])
    BY DEF WholeOnes
  <2>2. /\ \A c \in Int : ~AtMost(x, Whole(c)) => c < v[j] /\ (m = 0 => c < v[i])
        /\ \A c \in Int : ~AtMost(Whole(c), x) => v[i] < c
    BY <1>1, OnTheLine
  <2> HIDE DEF x
  <2> QED
    BY <2>1, <2>2 DEF Under, Over
<1>3. K \in SUBSET (1 .. n) /\ L \in SUBSET (1 .. n)
  BY DEF Under, Over, WholeOnes
<1>4. Cardinality(UpTo(v, i)) \in 1 .. n /\ Cardinality(UpTo(v, j)) \in 1 .. n
  BY UpToSize
<1> HIDE DEF K, L
<1>5. /\ Cardinality(K) \in Nat
      /\ Cardinality(K) <= Cardinality(UpTo(v, j)) - 1
      /\ m = 0 => Cardinality(K) <= Cardinality(UpTo(v, i)) - 1
      /\ Cardinality(L) \in Nat
      /\ Cardinality(L) <= n - Cardinality(UpTo(v, i))
  BY <1>2, <1>3, <1>4, PlacedBefore
<1>6. Cardinality(K) <= IF m = 0 THEN Cardinality(UpTo(v, i)) - 1 ELSE Cardinality(UpTo(v, i))
  BY <1>4, <1>5
<1> QED
  BY <1>5, <1>6 DEF K, L

\* What _percentile returns has at most the share of the numbers below it that the
\* percentile names, and at most the rest above it.
LEMMA RankedPercentile ==
  ASSUME NEW n \in Nat \ {0}, NEW v \in [1 .. n -> Int], NEW percentile \in 0 .. 100
  PROVE  LET x == Percentile(WholeOnes(v), percentile)
             rank == percentile * (n - 1)
         IN
         /\ 100 * Cardinality(Under(WholeOnes(v), x)) < rank + 100
         /\ 100 * Cardinality(Over(WholeOnes(v), x)) < 100 * n - rank
<1> DEFINE x == Percentile(WholeOnes(v), percentile)
           rank == percentile * (n - 1)
<1>1. rank \in Nat /\ rank <= 100 * (n - 1)
  <2>1. \A h \in Nat : percentile * h \in Nat /\ percentile * h <= 100 * h
    <3>1. \A h \in Nat : percentile * h + (100 - percentile) * h = 100 * h
      OBVIOUS
    <3>2. \A e, h \in Nat : e * h \in Nat
      OBVIOUS
    <3> QED
      BY <3>1, <3>2
  <2> QED
    BY <2>1
<1> HIDE DEF rank
<1>2. PICK k \in Nat, m \in 0 .. 99 : k = rank \div 100 /\ m = rank % 100 /\ rank = 100 * k + m
  <2>1. rank \div 100 \in Nat /\ rank % 100 \in 0 .. 99
        /\ rank = 100 * (rank \div 100) + (rank % 100)
    BY <1>1
  <2> QED
    BY <2>1
<1>3. k <= n - 1 /\ (k = n - 1 => m = 0)
  BY <1>1, <1>2
<1>4. PICK top \in Nat : top = Min({k + 1, n - 1}) /\ top = IF k + 1 <= n - 1 THEN k + 1 ELSE n - 1
  BY <1>3 DEF Min
<1>5. Min({k, n - 1}) = k
  BY <1>3 DEF Min
<1>6. PICK at \in [1 .. n -> 1 .. n] :
        /\ \A j \in 1 .. n : Ascending(WholeOnes(v))[j] = Whole(v[at[j]])
        /\ \A j \in 1 .. n : Cardinality(UpTo(v, at[j])) = j
  <2>1. n \in Nat
    OBVIOUS
  <2>2. PICK at : Sorts(at, n, v)
    BY <2>1, AscendingIs, Zenon
  <2> QED
    BY <2>2, Zenon DEF Sorts
<1>7. k + 1 \in 1 .. n /\ top + 1 \in 1 .. n /\ k <= top /\ top <= k + 1 /\ (top = k => m = 0)
        /\ top < n
  <2>1. k + 1 <= n - 1 \/ k = n - 1
    BY <1>3
  <2>2. CASE k + 1 <= n - 1
    <3>1. top = k + 1
      BY <1>4, <2>2
    <3>2. k + 1 \in 1 .. n /\ k + 2 \in 1 .. n
      BY <2>2
    <3>3. k <= k + 1 /\ k + 1 # k /\ k + 1 < n /\ (k + 1) + 1 = k + 2
      BY <2>2
    <3> QED
      BY <3>1, <3>2, <3>3
  <2>3. CASE k = n - 1
    <3>1. top = k /\ m = 0
      <4>1. ~(k + 1 <= n - 1)
        BY <2>3
      <4>2. top = n - 1
        BY <1>4, <4>1, Zenon
      <4> QED
        BY <1>3, <2>3, <4>2, Zenon
    <3>2. k + 1 \in 1 .. n /\ k <= k /\ k <= k + 1 /\ k < n
      BY <2>3
    <3> QED
      BY <3>1, <3>2
  <2> QED
    BY <2>1, <2>2, <2>3, Zenon
<1>8. PICK i \in 1 .. n, j \in 1 .. n : i = at[k + 1] /\ j = at[top + 1]
  BY <1>6, <1>7
<1>9. x = Between(v[i], v[j], m)
  <2>1. Len(WholeOnes(v)) = n
    BY DEF WholeOnes
  <2>2. x = Plus(Ascending(WholeOnes(v))[k + 1],
                 Scaled(Minus(Ascending(WholeOnes(v))[top + 1],
                              Ascending(WholeOnes(v))[k + 1]), m, 100))
    BY <1>2, <1>4, <1>5, <2>1 DEF Percentile, rank
  <2> QED
    BY <1>6, <1>7, <1>8, <2>2 DEF Between
<1>10. Cardinality(UpTo(v, i)) = k + 1 /\ Cardinality(UpTo(v, j)) = top + 1
  BY <1>6, <1>7, <1>8
<1> DEFINE below == Cardinality(Under(WholeOnes(v), x))
           above == Cardinality(Over(WholeOnes(v), x))
<1>11. /\ below \in Nat /\ above \in Nat
       /\ below <= IF m = 0 THEN k ELSE k + 1
       /\ above <= n - (k + 1)
  <2>1. /\ Cardinality(UpTo(v, i)) <= Cardinality(UpTo(v, j))
        /\ Cardinality(UpTo(v, j)) <= Cardinality(UpTo(v, i)) + 1
        /\ Cardinality(UpTo(v, i)) = Cardinality(UpTo(v, j)) => m = 0
    BY <1>7, <1>10
  <2>2. /\ below \in Nat /\ above \in Nat
        /\ below <= IF m = 0 THEN Cardinality(UpTo(v, i)) - 1 ELSE Cardinality(UpTo(v, i))
        /\ above <= n - Cardinality(UpTo(v, i))
    BY <1>9, <2>1, RankedBetween
  <2> HIDE DEF below, above
  <2> QED
    BY <1>10, <2>2
<1> HIDE DEF below, above
<1>12. 100 * below < rank + 100 /\ 100 * above < 100 * n - rank
  <2>1. \A b, a \in Nat : /\ b <= IF m = 0 THEN k ELSE k + 1
                          /\ a <= n - (k + 1)
                          => 100 * b < 100 * k + m + 100 /\ 100 * a < 100 * n - (100 * k + m)
    OBVIOUS
  <2> QED
    BY <1>2, <1>11, <2>1
<1> QED
  BY <1>12 DEF rank, below, above

\* PercentileRanked says this of every window and of three percentiles.
RankedAt(values, percentile) ==
  LET rank == percentile * (Len(values) - 1)
      x == Percentile(values, percentile)
  IN
  /\ 100 * Cardinality({i \in DOMAIN values : ~AtMost(x, values[i])}) < rank + 100
  /\ 100 * Cardinality({i \in DOMAIN values : ~AtMost(values[i], x)}) < 100 * Len(values) - rank

\* The same for the readings of a buffer.
LEMMA RankedReadings ==
  ASSUME NEW buffer \in Seq(Reading), buffer # << >>, NEW percentile \in 0 .. 100
  PROVE  RankedAt(ValuesOf(buffer), percentile)
<1>1. PICK n \in Nat \ {0} : n = Len(buffer) /\ DOMAIN buffer = 1 .. n
  OBVIOUS
<1>2. \A i \in 1 .. n : buffer[i].value \in Int
  <2>1. \A i \in 1 .. n : buffer[i] \in Reading
    BY <1>1
  <2>2. \A e \in Reading : e.value \in Int
    BY EngineAssumption DEF Reading
  <2> QED
    BY <2>1, <2>2
<1>3. PICK v \in [1 .. n -> Int] : v = [i \in 1 .. n |-> buffer[i].value]
  BY <1>2
<1>4. ValuesOf(buffer) = WholeOnes(v)
  BY <1>1, <1>3 DEF ValuesOf, WholeOnes
<1>5. Len(WholeOnes(v)) = n
  BY DEF WholeOnes
<1>6. LET x == Percentile(WholeOnes(v), percentile)
          rank == percentile * (n - 1)
      IN /\ 100 * Cardinality(Under(WholeOnes(v), x)) < rank + 100
         /\ 100 * Cardinality(Over(WholeOnes(v), x)) < 100 * n - rank
  BY RankedPercentile
<1>7. RankedAt(WholeOnes(v), percentile)
  BY <1>5, <1>6 DEF RankedAt, Under, Over
<1> QED
  BY <1>4, <1>7

(* A percentile has at most the share of the values below it that it names, *)
(* and at most the rest above it, whatever the readings of a window are     *)
(* (_percentile).                                                           *)
THEOREM PercentilesRanked == Spec => []PercentileRanked
<1>1. ASSUME StateInv, NEW q \in LiveOf("window"), NEW percentile \in 0 .. 100,
             ValuesOf(states[q[1]][q[2]].buffer) # << >>
      PROVE  RankedAt(ValuesOf(states[q[1]][q[2]].buffer), percentile)
  <2>1. PICK buffer \in Seq(Reading) : buffer = states[q[1]][q[2]].buffer
    BY <1>1 DEF LiveOf, Live, StateInv, StatesOK, RuleState
  <2>2. buffer # << >>
    BY <1>1, <2>1 DEF ValuesOf
  <2> QED
    BY <2>1, <2>2, RankedReadings
<1>2. ASSUME NEW percentile \in {30, 50, 95}
      PROVE  percentile \in 0 .. 100
  <2>1. percentile = 30 \/ percentile = 50 \/ percentile = 95
    BY <1>2, SMT
  <2> QED
    BY <2>1, SMT
<1>3. ASSUME StateInv
      PROVE  PercentileRanked
  <2>1. \A q \in LiveOf("window"), percentile \in {30, 50, 95} :
          ValuesOf(states[q[1]][q[2]].buffer) # << >>
            => RankedAt(ValuesOf(states[q[1]][q[2]].buffer), percentile)
    <3> TAKE q \in LiveOf("window"), percentile \in {30, 50, 95}
    <3> HAVE ValuesOf(states[q[1]][q[2]].buffer) # << >>
    <3>1. percentile \in 0 .. 100
      BY <1>2
    <3> QED
      BY <1>1, <1>3, <3>1, Zenon
  <2> QED
    BY <2>1, Zenon DEF PercentileRanked, RankedAt
<1> QED
  BY <1>3, StateInit, StateStep, ProgressInit, ProgressStep, PTL DEF Spec

-----------------------------------------------------------------------------
\* Choosing places of a sequence

\* What is ordered not after j, among S.
UpToIn(S, order, j) == {i \in S : <<i, j>> \in order}

\* S is totally ordered.
TotalOrder(S, order) ==
  /\ \A i \in S : <<i, i>> \in order
  /\ \A i, j \in S : i # j => (<<i, j>> \in order <=> <<j, i>> \notin order)
  /\ \A i, j, k \in S : <<i, j>> \in order /\ <<j, k>> \in order => <<i, k>> \in order

LEMMA UpToInSize ==
  ASSUME NEW S, IsFiniteSet(S), NEW order, TotalOrder(S, order), NEW j \in S
  PROVE  /\ IsFiniteSet(UpToIn(S, order, j))
         /\ Cardinality(UpToIn(S, order, j)) \in 1 .. Cardinality(S)
         /\ \A i \in S : i # j /\ <<i, j>> \in order =>
              Cardinality(UpToIn(S, order, i)) < Cardinality(UpToIn(S, order, j))
<1> DEFINE U(i) == UpToIn(S, order, i)
<1>1. \A i \in S : U(i) \subseteq S /\ i \in U(i)
  BY DEF UpToIn, TotalOrder
<1>2. \A i \in S : /\ IsFiniteSet(U(i)) /\ Cardinality(U(i)) \in Nat
                   /\ Cardinality(U(i)) <= Cardinality(S) /\ Cardinality(U(i)) # 0
  <2> SUFFICES ASSUME NEW i \in S
               PROVE  /\ IsFiniteSet(U(i)) /\ Cardinality(U(i)) \in Nat
                      /\ Cardinality(U(i)) <= Cardinality(S) /\ Cardinality(U(i)) # 0
    OBVIOUS
  <2> HIDE DEF U
  <2>1. IsFiniteSet(U(i)) /\ Cardinality(U(i)) <= Cardinality(S)
    BY <1>1, FS_Subset
  <2>2. Cardinality(U(i)) \in Nat /\ Cardinality(U(i)) # 0
    BY <1>1, <2>1, FS_CardinalityType, FS_EmptySet
  <2> QED BY <2>1, <2>2
<1>3. ASSUME NEW i \in S, i # j, <<i, j>> \in order
      PROVE  Cardinality(U(i)) < Cardinality(U(j))
  <2>1. U(i) \subseteq U(j) \ {j}
    BY <1>3 DEF UpToIn, TotalOrder
  <2> HIDE DEF U
  <2>2. IsFiniteSet(U(j) \ {j}) /\ Cardinality(U(j) \ {j}) = Cardinality(U(j)) - 1
    BY <1>1, <1>2, FS_RemoveElement
  <2>3. Cardinality(U(i)) <= Cardinality(U(j) \ {j})
    BY <2>1, <2>2, FS_Subset
  <2> QED BY <1>2, <1>3, <2>2, <2>3
<1>4. Cardinality(S) \in Nat
  BY FS_CardinalityType
<1> HIDE DEF U
<1>5. Cardinality(U(j)) \in 1 .. Cardinality(S)
  BY <1>2, <1>4
<1> QED BY <1>2, <1>3, <1>5 DEF U

\* Every rank is that of one element, and the ranks are in order.
LEMMA Ranked ==
  ASSUME NEW S, IsFiniteSet(S), NEW order, TotalOrder(S, order)
  PROVE  /\ Cardinality(S) \in Nat
         /\ \E at \in [1 .. Cardinality(S) -> S] :
              /\ \A k \in 1 .. Cardinality(S) :
                   at[k] = CHOOSE j \in S : Cardinality(UpToIn(S, order, j)) = k
              /\ \A k \in 1 .. Cardinality(S) : Cardinality(UpToIn(S, order, at[k])) = k
              /\ \A j \in S : \E k \in 1 .. Cardinality(S) : at[k] = j
              /\ \A k, l \in 1 .. Cardinality(S) : k < l => <<at[k], at[l]>> \in order
<1> DEFINE n == Cardinality(S)
           rank == [j \in S |-> Cardinality(UpToIn(S, order, j))]
           at == [k \in 1 .. n |-> CHOOSE j \in S : rank[j] = k]
<1>1. n \in Nat
  BY FS_CardinalityType
<1>2. rank \in [S -> 1 .. n]
  BY UpToInSize
<1>3. \A i, j \in S : i # j /\ <<i, j>> \in order => rank[i] < rank[j]
  BY UpToInSize
<1>4. \A i, j \in S : i # j => <<i, j>> \in order \/ <<j, i>> \in order
  BY DEF TotalOrder
<1> HIDE DEF rank
<1>5. \A i, j \in S : i # j => rank[i] # rank[j]
  <2> SUFFICES ASSUME NEW i \in S, NEW j \in S, i # j PROVE rank[i] # rank[j]
    OBVIOUS
  <2>1. rank[i] \in Int /\ rank[j] \in Int
    BY <1>2
  <2>2. rank[i] < rank[j] \/ rank[j] < rank[i]
    BY <1>3, <1>4
  <2> QED BY <2>1, <2>2
<1>6. rank \in Injection(S, 1 .. n)
  BY <1>2, <1>5 DEF Injection, IsInjective
<1>7. IsFiniteSet(1 .. n) /\ Cardinality(1 .. n) = n
  BY <1>1, FS_Interval
<1>8. rank \in Surjection(S, 1 .. n)
  BY <1>6, <1>7, FS_Injection
<1>9. \A k \in 1 .. n : \E j \in S : rank[j] = k
  BY <1>8 DEF Surjection
<1>10. \A k \in 1 .. n : at[k] \in S /\ rank[at[k]] = k
  BY <1>9
<1>11. at \in [1 .. n -> S]
  BY <1>10
<1>12. \A k \in 1 .. n :
         /\ at[k] = CHOOSE j \in S : Cardinality(UpToIn(S, order, j)) = k
         /\ Cardinality(UpToIn(S, order, at[k])) = k
  <2> SUFFICES ASSUME NEW k \in 1 .. n
               PROVE  /\ at[k] = CHOOSE j \in S : Cardinality(UpToIn(S, order, j)) = k
                      /\ Cardinality(UpToIn(S, order, at[k])) = k
    OBVIOUS
  <2>1. \A j \in S : rank[j] = Cardinality(UpToIn(S, order, j))
    BY DEF rank
  <2>2. (CHOOSE j \in S : rank[j] = k)
          = CHOOSE j \in S : Cardinality(UpToIn(S, order, j)) = k
    BY <2>1
  <2> QED BY <1>10, <2>1, <2>2
<1> HIDE DEF at, n
<1>13. \A j \in S : \E k \in 1 .. n : at[k] = j
  <2> SUFFICES ASSUME NEW j \in S PROVE \E k \in 1 .. n : at[k] = j
    OBVIOUS
  <2>1. rank[j] \in 1 .. n
    BY <1>2
  <2>2. at[rank[j]] \in S /\ rank[at[rank[j]]] = rank[j]
    BY <1>10, <2>1
  <2>3. at[rank[j]] = j
    BY <1>5, <2>2
  <2> QED BY <2>1, <2>3
<1>14. ASSUME NEW k \in 1 .. n, NEW l \in 1 .. n, k < l
       PROVE  <<at[k], at[l]>> \in order
  <2>1. at[k] \in S /\ at[l] \in S /\ rank[at[k]] = k /\ rank[at[l]] = l
    BY <1>10
  <2>2. k \in Int /\ l \in Int
    OBVIOUS
  <2>3. at[k] # at[l]
    BY <1>14, <2>1, <2>2
  <2>4. <<at[l], at[k]>> \in order => l < k
    BY <1>3, <2>1, <2>3
  <2>5. <<at[l], at[k]>> \notin order
    BY <1>14, <2>2, <2>4
  <2> QED BY <1>4, <2>1, <2>3, <2>5
<1> QED BY <1>1, <1>11, <1>12, <1>13, <1>14 DEF n

\* pos has the elements of S one after the other, each before the next by order.
Lists(pos, m, S, order) ==
  /\ pos \in [1 .. m -> S]
  /\ \A k, l \in 1 .. m : k < l => pos[k] # pos[l] /\ <<pos[k], pos[l]>> \in order
  /\ \A j \in S : \E k \in 1 .. m : pos[k] = j

\* An enumeration of S in its order has each element at its rank.
LEMMA EnumeratedByRank ==
  ASSUME NEW S, NEW order, TotalOrder(S, order), NEW m \in Nat, NEW pos,
         Lists(pos, m, S, order)
  PROVE  /\ IsFiniteSet(S) /\ Cardinality(S) = m
         /\ \A k \in 1 .. m : pos[k] = CHOOSE j \in S : Cardinality(UpToIn(S, order, j)) = k
<1>a. /\ pos \in [1 .. m -> S]
      /\ \A k, l \in 1 .. m : k < l => pos[k] # pos[l] /\ <<pos[k], pos[l]>> \in order
      /\ \A j \in S : \E k \in 1 .. m : pos[k] = j
  BY DEF Lists
<1> USE <1>a
<1>0. \A k, l \in 1 .. m : pos[k] = pos[l] => k = l
  <2> SUFFICES ASSUME NEW k \in 1 .. m, NEW l \in 1 .. m, k # l PROVE pos[k] # pos[l]
    OBVIOUS
  <2>1. k < l \/ l < k
    OBVIOUS
  <2> QED BY <2>1
<1>1. pos \in Bijection(1 .. m, S)
  BY <1>0 DEF Bijection, Injection, IsInjective, Surjection
<1>2. IsFiniteSet(1 .. m) /\ Cardinality(1 .. m) = m
  BY FS_Interval
<1>3. IsFiniteSet(S) /\ Cardinality(S) = m
  BY <1>1, <1>2, FS_Bijection DEF ExistsBijection
<1>4. ASSUME NEW k \in 1 .. m PROVE Cardinality(UpToIn(S, order, pos[k])) = k
  <2> DEFINE f == [i \in 1 .. k |-> pos[i]]
             U == UpToIn(S, order, pos[k])
  <2>1. \A i \in 1 .. k : i \in 1 .. m /\ f[i] = pos[i] /\ pos[i] \in U
    <3> SUFFICES ASSUME NEW i \in 1 .. k PROVE i \in 1 .. m /\ pos[i] \in U
      OBVIOUS
    <3>1. i \in 1 .. m
      OBVIOUS
    <3>2. i = k \/ i < k
      OBVIOUS
    <3> QED BY <3>1, <3>2 DEF UpToIn, TotalOrder
  <2>2. \A j \in U : \E i \in 1 .. k : f[i] = j
    <3> SUFFICES ASSUME NEW j \in U PROVE \E i \in 1 .. k : f[i] = j
      OBVIOUS
    <3>1. PICK i \in 1 .. m : pos[i] = j
      BY DEF UpToIn
    <3>2. <<pos[i], pos[k]>> \in order
      BY <3>1 DEF UpToIn
    <3>3. ~(k < i)
      BY <3>2 DEF TotalOrder
    <3>4. i \in 1 .. k
      BY <3>3
    <3> QED BY <3>1, <3>4
  <2>3. f \in [1 .. k -> U]
    BY <2>1
  <2>4. \A i, j \in 1 .. k : f[i] = f[j] => i = j
    BY <1>0, <2>1
  <2> HIDE DEF f, U
  <2>5. f \in Bijection(1 .. k, U)
    BY <2>2, <2>3, <2>4 DEF Bijection, Injection, IsInjective, Surjection
  <2>6. k \in Nat /\ IsFiniteSet(1 .. k) /\ Cardinality(1 .. k) = k
    BY FS_Interval
  <2> QED BY <2>5, <2>6, FS_Bijection DEF ExistsBijection, U
<1>5. ASSUME NEW k \in 1 .. m
      PROVE  pos[k] = CHOOSE j \in S : Cardinality(UpToIn(S, order, j)) = k
  <2>1. \A j \in S : Cardinality(UpToIn(S, order, j)) = k => j = pos[k]
    <3> SUFFICES ASSUME NEW j \in S, Cardinality(UpToIn(S, order, j)) = k PROVE j = pos[k]
      OBVIOUS
    <3>1. PICK i \in 1 .. m : pos[i] = j
      OBVIOUS
    <3>2. Cardinality(UpToIn(S, order, pos[i])) = i
      BY <1>4
    <3> QED BY <3>1, <3>2
  <2> QED BY <1>4, <2>1
<1> QED BY <1>3, <1>5

\* at has the chosen places in order, and what is chosen of s is what s has there.
Chosen(at, s, places, m) ==
  /\ at \in [1 .. m -> places]
  /\ Picked(s, places) = [k \in 1 .. m |-> s[at[k]]]
  /\ \A i \in places : \E k \in 1 .. m : at[k] = i
  /\ \A k, l \in 1 .. m : k < l => at[k] < at[l]

\* What is chosen of a sequence is what it has at the chosen places, in order.
LEMMA PickedIs ==
  ASSUME NEW n \in Nat, NEW places \in SUBSET (1 .. n), NEW s
  PROVE  /\ IsFiniteSet(places) /\ Cardinality(places) \in Nat
         /\ \E at : Chosen(at, s, places, Cardinality(places))
<1> DEFINE order == {x \in places \X places : x[1] <= x[2]}
           m == Cardinality(places)
<1>1. IsFiniteSet(places) /\ m \in Nat
  <2>1. IsFiniteSet(1 .. n)
    BY FS_Interval
  <2>2. IsFiniteSet(places)
    BY <2>1, FS_Subset
  <2> QED BY <2>2, FS_CardinalityType
<1>2. \A i, j \in places : <<i, j>> \in order <=> i <= j
  OBVIOUS
<1>3. \A i \in places : i \in Int
  OBVIOUS
<1>4. \A j \in places : UpToIn(places, order, j) = {i \in places : i <= j}
  BY <1>2 DEF UpToIn
<1> HIDE DEF order
<1>5. TotalOrder(places, order)
  BY <1>2, <1>3 DEF TotalOrder
<1>6. PICK at \in [1 .. m -> places] :
        /\ \A k \in 1 .. m :
             at[k] = CHOOSE j \in places : Cardinality(UpToIn(places, order, j)) = k
        /\ \A j \in places : \E k \in 1 .. m : at[k] = j
        /\ \A k \in 1 .. m : Cardinality(UpToIn(places, order, at[k])) = k
        /\ \A k, l \in 1 .. m : k < l => <<at[k], at[l]>> \in order
  BY <1>1, <1>5, Ranked
<1>7. \A k \in 1 .. m :
        at[k] = CHOOSE j \in places : Cardinality({i \in places : i <= j}) = k
  <2> SUFFICES ASSUME NEW k \in 1 .. m
               PROVE  at[k] = CHOOSE j \in places : Cardinality({i \in places : i <= j}) = k
    OBVIOUS
  <2>1. \A j \in places : Cardinality(UpToIn(places, order, j)) = k
                            <=> Cardinality({i \in places : i <= j}) = k
    BY <1>4
  <2>2. (CHOOSE j \in places : Cardinality(UpToIn(places, order, j)) = k)
          = CHOOSE j \in places : Cardinality({i \in places : i <= j}) = k
    BY <2>1
  <2> QED BY <1>6, <2>2
<1>8. Picked(s, places) = [k \in 1 .. m |-> s[at[k]]]
  <2>1. \A k \in 1 .. m :
          s[CHOOSE i \in places : Cardinality({j \in places : j <= i}) = k] = s[at[k]]
    BY <1>7
  <2>2. Picked(s, places)
          = [k \in 1 .. m |-> s[CHOOSE i \in places : Cardinality({j \in places : j <= i}) = k]]
    BY DEF Picked
  <2> HIDE DEF m
  <2> QED BY <2>1, <2>2
<1>9. ASSUME NEW k \in 1 .. m, NEW l \in 1 .. m, k < l PROVE at[k] < at[l]
  <2>0. at[k] \in Int /\ at[l] \in Int
    BY <1>3
  <2>1. at[k] <= at[l]
    BY <1>2, <1>6, <1>9
  <2>2. at[k] # at[l]
    BY <1>6, <1>9
  <2> QED BY <2>0, <2>1, <2>2
<1>10. \A i \in places : \E k \in 1 .. m : at[k] = i
  BY <1>6
<1> HIDE DEF m
<1>11. Chosen(at, s, places, m)
  BY <1>8, <1>9, <1>10 DEF Chosen
<1> QED BY <1>1, <1>11, Zenon DEF m

-----------------------------------------------------------------------------
\* Buckets

LEMMA TimesMonotone ==
  ASSUME NEW a \in Int, NEW b \in Int, NEW step \in Nat \ {0}
  PROVE  /\ a * step \in Int /\ b * step \in Int
         /\ a * step < b * step <=> a < b
         /\ a * step <= b * step <=> a <= b
<1>1. a * step \in Int /\ b * step \in Int
  OBVIOUS
<1>2. ASSUME NEW x \in Int, NEW y \in Int, x < y PROVE x * step < y * step
  <2>1. y - x \in Nat /\ y - x > 0
    BY <1>2
  <2>2. (y - x) * step > 0
    BY <2>1
  <2>3. y * step = x * step + (y - x) * step
    OBVIOUS
  <2>4. x * step \in Int /\ (y - x) * step \in Int
    OBVIOUS
  <2> QED BY <2>2, <2>3, <2>4
<1>3. a < b \/ a = b \/ b < a
  OBVIOUS
<1>4. a < b => a * step < b * step
  BY <1>2
<1>5. b < a => b * step < a * step
  BY <1>2
<1> QED BY <1>1, <1>3, <1>4, <1>5

\* A reading at distance d from the start of a window is in the bucket it is in, and
\* on the bound of two in the next one too.
LEMMA BucketOf ==
  ASSUME NEW width \in Nat \ {0}, NEW step \in Nat \ {0}, NEW d \in 0 .. width
  PROVE  LET c == (width + step - 1) \div step
             home == IF d = 0 THEN 1 ELSE (d - 1) \div step + 1
             bound == 0 < d /\ d < width /\ d % step = 0
         IN /\ c \in Nat /\ home \in 1 .. c
            /\ bound => home + 1 \in 1 .. c
            /\ \A k \in 1 .. c :
                 (k - 1) * step <= d /\ d <= k * step <=> k = home \/ (bound /\ k = home + 1)
<1> DEFINE c == (width + step - 1) \div step
           home == IF d = 0 THEN 1 ELSE (d - 1) \div step + 1
           bound == 0 < d /\ d < width /\ d % step = 0
<1>1. c \in Nat /\ width <= c * step /\ (c - 1) * step < width
  <2>1. width + step - 1 \in Nat
    OBVIOUS
  <2>2. c \in Nat /\ c * step <= width + step - 1 /\ width + step - 1 < c * step + step
    BY <2>1
  <2>3. (c - 1) * step = c * step - step /\ c * step \in Int
    BY <2>2
  <2> QED BY <2>2, <2>3
<1>2. home \in Nat /\ home >= 1 /\ d <= home * step /\ (d > 0 => (home - 1) * step < d)
  <2>1. CASE d = 0
    <3>1. home = 1 /\ 1 * step = step
      BY <2>1
    <3> QED BY <2>1, <3>1
  <2>2. CASE d > 0
    <3> DEFINE q == (d - 1) \div step
    <3>1. d - 1 \in Nat
      BY <2>2
    <3>2. q \in Nat /\ q * step <= d - 1 /\ d - 1 < q * step + step
      BY <3>1
    <3>3. home = q + 1
      BY <2>2
    <3> HIDE DEF q, home
    <3>4. (home - 1) * step = q * step /\ home * step = q * step + step /\ q * step \in Int
      BY <3>2, <3>3
    <3> QED BY <3>2, <3>3, <3>4
  <2> QED BY <2>1, <2>2
<1>3. d > 0 => (d % step = 0 <=> d = home * step)
  <2> SUFFICES ASSUME d > 0 PROVE d % step = 0 <=> d = home * step
    OBVIOUS
  <2>1. ASSUME d % step = 0 PROVE d = home * step
    <3> DEFINE q == d \div step
    <3>1. q \in Nat /\ d = q * step
      BY <2>1
    <3> HIDE DEF q, home
    <3>2. home - 1 < q /\ q <= home
      BY <1>2, <3>1, TimesMonotone
    <3>3. q = home
      BY <1>2, <3>1, <3>2
    <3> QED BY <3>1, <3>3
  <2>2. ASSUME d = home * step PROVE d % step = 0
    <3> HIDE DEF home
    <3>1. (home * step) % step = 0
      BY <1>2
    <3> QED BY <2>2, <3>1
  <2> QED BY <2>1, <2>2
<1> HIDE DEF c, home
<1>4. home <= c
  <2>1. CASE d = 0
    <3>1. home = 1
      BY <2>1 DEF home
    <3>2. c # 0
      <4> SUFFICES ASSUME c = 0 PROVE FALSE
        OBVIOUS
      <4>1. c * step = 0
        OBVIOUS
      <4> QED BY <1>1, <4>1
    <3> QED BY <1>1, <3>1, <3>2
  <2>2. CASE d > 0
    <3>1. (home - 1) * step < c * step
      <4>1. (home - 1) * step \in Int /\ c * step \in Int
        BY <1>1, <1>2
      <4> QED BY <1>1, <1>2, <2>2, <4>1
    <3>2. home - 1 \in Int /\ c \in Int
      BY <1>1, <1>2
    <3>3. home - 1 < c
      BY <3>1, <3>2, TimesMonotone
    <3> QED BY <1>2, <3>2, <3>3
  <2> QED BY <2>1, <2>2
<1>5. bound => home + 1 <= c
  <2> SUFFICES ASSUME bound PROVE home + 1 <= c
    OBVIOUS
  <2>1. d = home * step /\ home * step \in Int /\ c * step \in Int
    BY <1>1, <1>2, <1>3
  <2>2. home * step < c * step
    BY <1>1, <2>1
  <2>3. home < c
    BY <1>1, <1>2, <2>2, TimesMonotone
  <2> QED BY <1>1, <1>2, <2>3
<1>6. ASSUME NEW k \in 1 .. c
      PROVE  (k - 1) * step <= d /\ d <= k * step <=> k = home \/ (bound /\ k = home + 1)
  <2>1. k \in Int /\ k - 1 \in Int /\ home \in Int /\ home - 1 \in Int
    BY <1>1, <1>2
  <2>2. /\ k * step \in Int /\ (k - 1) * step \in Int /\ home * step \in Int
        /\ (home - 1) * step \in Int
    BY <2>1
  <2>3. CASE d = 0
    <3>1. home = 1 /\ ~bound
      BY <2>3 DEF home
    <3>2. 0 <= k * step
      BY <2>1
    <3>3. (k - 1) * step <= 0 * step <=> k - 1 <= 0
      BY <2>1, TimesMonotone
    <3>4. 0 * step = 0
      OBVIOUS
    <3>5. (k - 1) * step <= 0 <=> k = 1
      BY <2>1, <3>3, <3>4
    <3>6. d <= k * step
      BY <2>3, <3>2
    <3>7. (k - 1) * step <= d <=> k = 1
      BY <2>3, <3>5
    <3> HIDE DEF bound
    <3> QED BY <3>1, <3>6, <3>7, Zenon
  <2>4. CASE d > 0
    <3>1. ASSUME (k - 1) * step <= d, d <= k * step
          PROVE  k = home \/ (bound /\ k = home + 1)
      <4>1. k - 1 <= home
        <5>1. (k - 1) * step <= home * step
          BY <1>2, <2>2, <3>1
        <5> QED BY <2>1, <5>1, TimesMonotone
      <4>2. home - 1 < k
        <5>1. (home - 1) * step < k * step
          BY <1>2, <2>2, <2>4, <3>1
        <5> QED BY <2>1, <5>1, TimesMonotone
      <4>3. k = home \/ k = home + 1
        BY <2>1, <4>1, <4>2
      <4>4. k = home + 1 => bound
        <5> SUFFICES ASSUME k = home + 1 PROVE bound
          OBVIOUS
        <5>1. k - 1 = home
          BY <2>1
        <5>2. d = home * step
          BY <1>2, <2>2, <3>1, <5>1
        <5>3. home < c
          BY <1>1, <2>1
        <5>4. home <= c - 1 /\ c - 1 \in Int
          BY <1>1, <2>1, <5>3
        <5>5. home * step <= (c - 1) * step /\ (c - 1) * step \in Int
          BY <2>1, <5>4, TimesMonotone
        <5>6. d < width
          BY <1>1, <2>2, <5>2, <5>5
        <5>7. d % step = 0
          BY <1>3, <2>4, <5>2
        <5>8. 0 < d
          BY <2>4
        <5> QED BY <5>6, <5>7, <5>8, Zenon
      <4> QED BY <4>3, <4>4
    <3>2. ASSUME k = home PROVE (k - 1) * step <= d /\ d <= k * step
      BY <1>2, <2>2, <2>4, <3>2
    <3>3. ASSUME bound, k = home + 1 PROVE (k - 1) * step <= d /\ d <= k * step
      <4>1. d = home * step /\ k - 1 = home
        BY <1>3, <2>1, <3>3
      <4>2. home * step <= k * step
        <5>1. home <= k
          BY <2>1, <3>3
        <5> QED BY <2>1, <5>1, TimesMonotone
      <4> QED BY <2>2, <4>1, <4>2
    <3> QED BY <3>1, <3>2, <3>3
  <2> QED BY <2>3, <2>4
<1> HIDE DEF bound
<1> QED BY <1>1, <1>2, <1>4, <1>5, <1>6 DEF c, home, bound

\* at has every one of places once.
Enumerates(at, places) ==
  /\ \A k \in 1 .. Cardinality(places) : at[k] \in places
  /\ \A k, l \in 1 .. Cardinality(places) : at[k] = at[l] => k = l
  /\ \A i \in places : \E k \in 1 .. Cardinality(places) : at[k] = i

\* at has the places that what is chosen of s comes from, in its order.
PickedFrom(at, s, places) ==
  /\ Enumerates(at, places)
  /\ \A k, l \in 1 .. Cardinality(places) : k < l => at[k] < at[l]
  /\ \A k \in 1 .. Cardinality(places) : Picked(s, places)[k] = s[at[k]]

LEMMA PickedPlaces ==
  ASSUME NEW n \in Nat, NEW places \in SUBSET (1 .. n), NEW s
  PROVE  /\ Cardinality(places) \in Nat
         /\ DOMAIN Picked(s, places) = 1 .. Cardinality(places)
         /\ \E at : PickedFrom(at, s, places)
<1>0. PICK m : m = Cardinality(places)
  OBVIOUS
<1>1. m \in Nat
  BY <1>0, PickedIs
<1>2. PICK at \in [1 .. m -> places] :
        /\ Picked(s, places) = [k \in 1 .. m |-> s[at[k]]]
        /\ \A i \in places : \E k \in 1 .. m : at[k] = i
        /\ \A k, l \in 1 .. m : k < l => at[k] < at[l]
  <2>1. PICK at : Chosen(at, s, places, Cardinality(places))
    BY PickedIs, Zenon
  <2>2. Chosen(at, s, places, m)
    BY <1>0, <2>1
  <2> QED BY <2>2, Zenon DEF Chosen
<1>3. ASSUME NEW k \in 1 .. m, NEW l \in 1 .. m, at[k] = at[l] PROVE k = l
  <2>1. at[k] \in 1 .. n
    BY at[k] \in places
  <2>2. ~(k < l) /\ ~(l < k)
    BY <1>1, <1>2, <1>3, <2>1
  <2> QED BY <2>2
<1>4. Enumerates(at, places)
  BY <1>0, <1>1, <1>2, <1>3 DEF Enumerates
<1>5. PickedFrom(at, s, places)
  BY <1>0, <1>2, <1>4 DEF PickedFrom
<1> QED BY <1>0, <1>1, <1>2, <1>5

\* The buckets hold every reading of the window, and those on a bound of two twice.
Covered(readings, start, end, step) ==
  LET buckets == Buckets(readings, start, end, step)
      shared == {i \in DOMAIN readings : /\ start < readings[i].ts /\ readings[i].ts < end
                                         /\ (readings[i].ts - start) % step = 0}
  IN Cardinality(UNION {{k} \X DOMAIN buckets[k] : k \in DOMAIN buckets})
       = Len(readings) + Cardinality(shared)

LEMMA BucketsCount ==
  ASSUME NEW n \in Nat, NEW readings, DOMAIN readings = 1 .. n, Len(readings) = n,
         NEW start \in Int, NEW width \in Nat \ {0}, NEW step \in Nat \ {0},
         \A i \in 1 .. n : readings[i].ts \in start .. start + width
  PROVE  Covered(readings, start, start + width, step)
<1> DEFINE end == start + width
           c == (end - start + step - 1) \div step
           Inside(k) == InBucket(readings, start, end, step, k)
           filled == {k \in 1 .. c : Inside(k) # {}}
           each == [k \in 1 .. c |-> Picked(readings, Inside(k))]
           buckets == Buckets(readings, start, end, step)
           shared == {i \in 1 .. n : /\ start < readings[i].ts /\ readings[i].ts < end
                                     /\ (readings[i].ts - start) % step = 0}
           d(i) == readings[i].ts - start
           home == [i \in 1 .. n |-> IF d(i) = 0 THEN 1 ELSE (d(i) - 1) \div step + 1]
           P == UNION {{k} \X DOMAIN buckets[k] : k \in DOMAIN buckets}
           Q == {x \in (1 .. c) \X (1 .. n) : x[2] \in Inside(x[1])}
<1>1. end \in Int /\ c = (width + step - 1) \div step
  <2>1. end - start + step - 1 = width + step - 1
    OBVIOUS
  <2> QED BY <2>1
<1>2. ASSUME NEW i \in 1 .. n
      PROVE  /\ c \in Nat /\ home[i] \in 1 .. c
             /\ i \in shared => home[i] + 1 \in 1 .. c
             /\ \A k \in 1 .. c :
                  i \in Inside(k) <=> k = home[i] \/ (i \in shared /\ k = home[i] + 1)
  <2> DEFINE e == d(i)
  <2>1. e \in 0 .. width
    OBVIOUS
  <2>2. /\ start < readings[i].ts <=> 0 < e
        /\ readings[i].ts < end <=> e < width
    OBVIOUS
  <2>3. i \in shared <=> 0 < e /\ e < width /\ e % step = 0
    BY <2>2
  <2>4. home[i] = IF e = 0 THEN 1 ELSE (e - 1) \div step + 1
    OBVIOUS
  <2>5. ASSUME NEW k \in 1 .. c
        PROVE  i \in Inside(k) <=> (k - 1) * step <= e /\ e <= k * step
    <3>1. (k - 1) * step \in Int /\ k * step \in Int
      OBVIOUS
    <3>2. readings[i].ts \in Int /\ readings[i].ts <= end
      OBVIOUS
    <3>3. i \in Inside(k) <=> /\ start + (k - 1) * step <= readings[i].ts
                              /\ readings[i].ts <= start + k * step
      BY <3>2 DEF InBucket
    <3> HIDE DEF Inside
    <3> QED BY <3>1, <3>2, <3>3
  <2> HIDE DEF e, home, shared, c, Inside
  <2>6. /\ (width + step - 1) \div step \in Nat
        /\ (IF e = 0 THEN 1 ELSE (e - 1) \div step + 1) \in 1 .. (width + step - 1) \div step
        /\ 0 < e /\ e < width /\ e % step = 0
             => (IF e = 0 THEN 1 ELSE (e - 1) \div step + 1) + 1 \in 1 .. (width + step - 1) \div step
        /\ \A k \in 1 .. (width + step - 1) \div step :
             (k - 1) * step <= e /\ e <= k * step
               <=> \/ k = IF e = 0 THEN 1 ELSE (e - 1) \div step + 1
                   \/ /\ 0 < e /\ e < width /\ e % step = 0
                      /\ k = (IF e = 0 THEN 1 ELSE (e - 1) \div step + 1) + 1
    BY <2>1, BucketOf
  <2>7. /\ c \in Nat /\ home[i] \in 1 .. c
        /\ i \in shared => home[i] + 1 \in 1 .. c
        /\ \A k \in 1 .. c : (k - 1) * step <= e /\ e <= k * step
                               <=> k = home[i] \/ (i \in shared /\ k = home[i] + 1)
    BY <1>1, <2>3, <2>4, <2>6, Zenon
  <2> QED BY <2>5, <2>7, Zenon
<1> HIDE DEF c, home, shared, d
\* The pairs of a bucket and a reading in it.
<1>3. IsFiniteSet(Q) /\ Cardinality(Q) = n + Cardinality(shared)
  <2> DEFINE A == {x \in Q : x[1] = home[x[2]]}
             B == {x \in Q : x[1] = home[x[2]] + 1}
             a == [i \in 1 .. n |-> <<home[i], i>>]
             b == [i \in shared |-> <<home[i] + 1, i>>]
  <2>1. shared \subseteq 1 .. n
    BY DEF shared
  <2>2. \A i \in 1 .. n : home[i] \in Int
    BY <1>2
  <2> HIDE DEF Inside
  <2>3. \A k, i : <<k, i>> \in Q <=> /\ k \in 1 .. c /\ i \in 1 .. n
                                     /\ k = home[i] \/ (i \in shared /\ k = home[i] + 1)
    BY <1>2
  <2>4. \A x \in Q : x = <<x[1], x[2]>>
    OBVIOUS
  <2> HIDE DEF Q
  <2>5. Q = A \cup B /\ A \cap B = {}
    <3>1. \A x \in Q : x[2] \in 1 .. n /\ (x[1] = home[x[2]] \/ x[1] = home[x[2]] + 1)
      BY <2>3, <2>4
    <3>2. \A x \in Q : ~(x[1] = home[x[2]] /\ x[1] = home[x[2]] + 1)
      BY <2>2, <3>1
    <3> QED BY <3>1, <3>2
  <2>6. a \in Bijection(1 .. n, A)
    <3>1. \A i \in 1 .. n : a[i] \in A
      BY <1>2, <2>3
    <3>2. \A i, j \in 1 .. n : a[i] = a[j] => i = j
      OBVIOUS
    <3>3. \A x \in A : \E i \in 1 .. n : a[i] = x
      <4> SUFFICES ASSUME NEW x \in A PROVE \E i \in 1 .. n : a[i] = x
        OBVIOUS
      <4>1. x[2] \in 1 .. n /\ x = <<home[x[2]], x[2]>>
        BY <2>3, <2>4
      <4> QED BY <4>1
    <3> HIDE DEF A
    <3>4. a \in [1 .. n -> A]
      BY <3>1
    <3> HIDE DEF a
    <3> QED BY <3>2, <3>3, <3>4 DEF Bijection, Injection, IsInjective, Surjection
  <2>7. b \in Bijection(shared, B)
    <3>1. \A i \in shared : b[i] \in B
      BY <1>2, <2>1, <2>3
    <3>2. \A i, j \in shared : b[i] = b[j] => i = j
      OBVIOUS
    <3>3. \A x \in B : \E i \in shared : b[i] = x
      <4> SUFFICES ASSUME NEW x \in B PROVE \E i \in shared : b[i] = x
        OBVIOUS
      <4>1. x[2] \in 1 .. n /\ x[1] = home[x[2]] + 1 /\ x = <<x[1], x[2]>> /\ x \in Q
        BY <2>3, <2>4
      <4>2. x[1] # home[x[2]]
        BY <2>2, <4>1
      <4>3. x[2] \in shared
        BY <2>3, <4>1, <4>2
      <4> QED BY <4>1, <4>3
    <3> HIDE DEF B
    <3>4. b \in [shared -> B]
      BY <3>1
    <3> HIDE DEF b
    <3> QED BY <3>2, <3>3, <3>4 DEF Bijection, Injection, IsInjective, Surjection
  <2> HIDE DEF A, B, a, b
  <2>8. IsFiniteSet(1 .. n) /\ Cardinality(1 .. n) = n
    BY FS_Interval
  <2>9. IsFiniteSet(shared)
    BY <2>1, <2>8, FS_Subset
  <2>10. IsFiniteSet(A) /\ Cardinality(A) = n
    BY <2>6, <2>8, FS_Bijection DEF ExistsBijection
  <2>11. IsFiniteSet(B) /\ Cardinality(B) = Cardinality(shared)
    BY <2>7, <2>9, FS_Bijection DEF ExistsBijection
  <2>12. Cardinality(A \cap B) = 0 /\ Cardinality(shared) \in Nat
    BY <2>5, <2>9, FS_EmptySet, FS_CardinalityType
  <2>13. IsFiniteSet(A \cup B)
         /\ Cardinality(A \cup B) = Cardinality(A) + Cardinality(B) - Cardinality(A \cap B)
    BY <2>10, <2>11, FS_Union
  <2> QED BY <2>5, <2>10, <2>11, <2>12, <2>13
\* The places of the buckets, and the place each has in the pairs.
<1> DEFINE m == Cardinality(filled)
           size(k) == Cardinality(Inside(k))
<1>4. \A k \in 1 .. c : Inside(k) \in SUBSET (1 .. n)
  BY DEF InBucket
<1>5. c \in Nat
  <2>1. width + step - 1 \in Nat
    OBVIOUS
  <2> QED BY <1>1, <2>1
<1>6. filled \in SUBSET (1 .. c) /\ DOMAIN each = 1 .. c
  OBVIOUS
<1>7. buckets = Picked(each, filled)
  BY DEF Buckets, c
<1> HIDE DEF Inside, buckets
<1>8. \A k \in 1 .. c : each[k] = Picked(readings, Inside(k))
  OBVIOUS
<1> HIDE DEF each, filled, m
<1>9. m \in Nat /\ DOMAIN buckets = 1 .. m
  BY <1>5, <1>6, <1>7, PickedPlaces DEF m
<1>10. PICK fill : /\ Enumerates(fill, filled)
                   /\ \A k \in 1 .. m : buckets[k] = each[fill[k]]
  <2>1. \E at : PickedFrom(at, each, filled)
    BY <1>5, <1>6, PickedPlaces
  <2> QED BY <1>7, <2>1 DEF PickedFrom, m
<1>11. \A k \in 1 .. c : \E at : Enumerates(at, Inside(k))
  BY <1>4, PickedPlaces DEF PickedFrom
<1>12. \A k \in 1 .. c : DOMAIN each[k] = 1 .. size(k)
  BY <1>4, <1>8, PickedPlaces
<1> DEFINE At == [k \in 1 .. c |-> CHOOSE at : Enumerates(at, Inside(k))]
<1>13. \A k \in 1 .. c : Enumerates(At[k], Inside(k))
  BY <1>11
<1> HIDE DEF At
<1>14. /\ \A k \in 1 .. m : fill[k] \in 1 .. c /\ DOMAIN buckets[k] = 1 .. size(fill[k])
       /\ \A k, l \in 1 .. m : fill[k] = fill[l] => k = l
       /\ \A j \in filled : \E k \in 1 .. m : fill[k] = j
  <2>1. /\ \A k \in 1 .. m : fill[k] \in filled
        /\ \A k, l \in 1 .. m : fill[k] = fill[l] => k = l
        /\ \A j \in filled : \E k \in 1 .. m : fill[k] = j
    BY <1>10 DEF Enumerates, m
  <2> HIDE DEF size
  <2> QED BY <1>6, <1>10, <1>12, <2>1
<1>15. /\ \A k \in 1 .. c : \A i \in 1 .. size(k) : At[k][i] \in Inside(k)
       /\ \A k \in 1 .. c : \A i, j \in 1 .. size(k) : At[k][i] = At[k][j] => i = j
       /\ \A k \in 1 .. c : \A x \in Inside(k) : \E i \in 1 .. size(k) : At[k][i] = x
  BY <1>13 DEF Enumerates
<1> HIDE DEF size
<1> DEFINE f == [x \in P |-> <<fill[x[1]], At[fill[x[1]]][x[2]]>>]
<1>16. /\ \A x \in P : x = <<x[1], x[2]>> /\ x[1] \in 1 .. m /\ x[2] \in 1 .. size(fill[x[1]])
       /\ \A k \in 1 .. m : \A i \in 1 .. size(fill[k]) : <<k, i>> \in P
  <2>1. \A x : x \in P <=> \E k \in 1 .. m : x \in {k} \X (1 .. size(fill[k]))
    <3>1. \A k \in 1 .. m : {k} \X DOMAIN buckets[k] = {k} \X (1 .. size(fill[k]))
      BY <1>14, Zenon
    <3>2. \A x : x \in P <=> \E k \in DOMAIN buckets : x \in {k} \X DOMAIN buckets[k]
      BY Zenon
    <3> HIDE DEF P
    <3> QED BY <1>9, <3>1, <3>2, Zenon
  <2> HIDE DEF P
  <2> QED BY <2>1
<1> HIDE DEF P
<1>17. \A x \in P : f[x] \in Q
  <2> SUFFICES ASSUME NEW x \in P PROVE <<fill[x[1]], At[fill[x[1]]][x[2]]>> \in Q
    OBVIOUS
  <2>1. fill[x[1]] \in 1 .. c /\ At[fill[x[1]]][x[2]] \in Inside(fill[x[1]])
    BY <1>14, <1>15, <1>16
  <2> QED BY <1>4, <2>1
<1>18. \A x, y \in P : f[x] = f[y] => x = y
  <2> SUFFICES ASSUME NEW x \in P, NEW y \in P, f[x] = f[y] PROVE x = y
    OBVIOUS
  <2>1. fill[x[1]] = fill[y[1]] /\ At[fill[x[1]]][x[2]] = At[fill[y[1]]][y[2]]
    OBVIOUS
  <2>2. x[1] = y[1]
    BY <1>14, <1>16, <2>1
  <2>3. x[2] = y[2]
    BY <1>14, <1>15, <1>16, <2>1, <2>2
  <2> QED BY <1>16, <2>2, <2>3
<1>19. \A y \in Q : \E x \in P : f[x] = y
  <2> SUFFICES ASSUME NEW y \in Q PROVE \E x \in P : f[x] = y
    OBVIOUS
  <2>1. y[1] \in 1 .. c /\ y[2] \in Inside(y[1]) /\ y = <<y[1], y[2]>>
    OBVIOUS
  <2>2. y[1] \in filled
    BY <2>1 DEF filled
  <2>3. PICK k \in 1 .. m : fill[k] = y[1]
    BY <1>14, <2>2
  <2>4. PICK i \in 1 .. size(y[1]) : At[y[1]][i] = y[2]
    BY <1>15, <2>1
  <2>5. <<k, i>> \in P
    BY <1>16, <2>3, <2>4
  <2>6. f[<<k, i>>] = y
    BY <2>1, <2>3, <2>4, <2>5
  <2> QED BY <2>5, <2>6
<1> HIDE DEF Q
<1>20. f \in [P -> Q]
  BY <1>17
<1> HIDE DEF f
<1>21. f \in Bijection(P, Q)
  BY <1>18, <1>19, <1>20 DEF Bijection, Injection, IsInjective, Surjection
<1>22. Cardinality(P) = Cardinality(Q)
  <2>1. ExistsBijection(P, Q)
    BY <1>21 DEF ExistsBijection
  <2>2. ExistsBijection(Q, P)
    BY <2>1, Fun_ExistsBijSymmetric
  <2> QED BY <1>3, <2>2, FS_Bijection
<1> QED BY <1>3, <1>22 DEF P, shared, buckets, Covered

\* What belongs to a window has a time in it.
LEMMA InWindowIs ==
  ASSUME NEW rule, NEW buffer \in Seq(Reading), NEW start \in Int, NEW end \in Int
  PROVE  \E n \in Nat : LET readings == InWindow(rule, buffer, start, end)
                        IN /\ DOMAIN readings = 1 .. n /\ Len(readings) = n
                           /\ \A k \in 1 .. n : readings[k].ts \in start .. end
<1> DEFINE places == {i \in DOMAIN buffer : /\ start <= buffer[i].ts /\ buffer[i].ts <= end
                                            /\ buffer[i].sensor \in SensorsOf(rule)}
           n == Cardinality(places)
<1>1. Len(buffer) \in Nat /\ places \in SUBSET (1 .. Len(buffer))
  OBVIOUS
<1>2. \A i \in places : buffer[i].ts \in start .. end
  <2>1. \A i \in places : i \in 1 .. Len(buffer) /\ buffer[i] \in Reading
    OBVIOUS
  <2>2. \A i \in places : buffer[i].ts \in Nat
    BY <2>1 DEF Reading
  <2> QED BY <2>2
<1>3. InWindow(rule, buffer, start, end) = Picked(buffer, places)
  BY DEF InWindow
<1> HIDE DEF places
<1>4. n \in Nat /\ \E at : PickedFrom(at, buffer, places)
  BY <1>1, PickedPlaces
<1>5. PICK at : PickedFrom(at, buffer, places)
  BY <1>4
<1>6. \A k \in 1 .. n : at[k] \in places /\ Picked(buffer, places)[k] = buffer[at[k]]
  BY <1>5 DEF PickedFrom, Enumerates
<1>7. DOMAIN Picked(buffer, places) = 1 .. n /\ Len(Picked(buffer, places)) = n
  BY <1>4 DEF Picked
<1> HIDE DEF n
<1>8. \A k \in 1 .. n : Picked(buffer, places)[k].ts \in start .. end
  BY <1>2, <1>6
<1> QED BY <1>3, <1>4, <1>7, <1>8

(* The buckets of a window hold every one of its readings, and only one on  *)
(* the bound of two is in both, for every buffer a window rule can have and *)
(* every length of a bucket up to that of the window (_chunk_values).       *)
THEOREM BucketsCovered == Spec => []BucketsCover
<1>1. ASSUME EngineAssumption, StateInv, NEW q \in LiveOf("window")
      PROVE  /\ Governing(q).duration \in Nat \ {0}
             /\ states[q[1]][q[2]].buffer \in Seq(Reading)
  <2>1. q[1] \in Partitions /\ q[2] \in RuleIds /\ states[q[1]][q[2]] # NoState
    BY DEF LiveOf, Live
  <2>2. states[q[1]][q[2]] \in RuleState /\ rules[q[2]] # NoRule
    BY <1>1, <2>1 DEF StateInv, StatesOK
  <2>3. Compiled(Governing(q))
    BY <1>1, <2>1, <2>2, GoverningCompiled DEF Governing, StateInv
  <2>4. Governing(q).trigger = "window"
    BY DEF LiveOf
  <2>5. Governing(q).duration \in Nat \ {0}
    BY <2>3, <2>4 DEF Compiled, WellFormed, Rule
  <2> QED BY <2>2, <2>5 DEF RuleState
<1>2. ASSUME NEW rule, NEW buffer \in Seq(Reading), NEW ts \in Nat,
             NEW width \in Nat \ {0}, NEW step \in 1 .. width
      PROVE  Covered(InWindow(rule, buffer, ts - width, ts), ts - width, ts, step)
  <2> DEFINE start == ts - width
             readings == InWindow(rule, buffer, start, ts)
  <2>1. start \in Int /\ start + width = ts /\ step \in Nat \ {0}
    OBVIOUS
  <2> HIDE DEF start
  <2>2. PICK n \in Nat : /\ DOMAIN readings = 1 .. n /\ Len(readings) = n
                         /\ \A k \in 1 .. n : readings[k].ts \in start .. ts
    BY <2>1, InWindowIs
  <2> HIDE DEF readings
  <2>3. Covered(readings, start, start + width, step)
    BY <2>1, <2>2, BucketsCount
  <2> QED BY <2>1, <2>3 DEF readings, start
<1>3. ASSUME EngineAssumption, StateInv PROVE BucketsCover
  <2> SUFFICES ASSUME NEW q \in LiveOf("window"), NEW span \in Asked(q),
                      NEW step \in 1 .. Governing(q).duration
               PROVE  Covered(InWindow(Governing(q), states[q[1]][q[2]].buffer, span[1], span[2]),
                              span[1], span[2], step)
    BY Zenon DEF BucketsCover, Covered
  <2>1. PICK ts \in {states[q[1]][q[2]].buffer[i].ts : i \in DOMAIN states[q[1]][q[2]].buffer} :
          span = <<ts - Governing(q).duration, ts>>
    BY DEF Asked
  <2>2. span[1] = ts - Governing(q).duration /\ span[2] = ts
    BY <2>1
  <2> DEFINE buffer == states[q[1]][q[2]].buffer
             width == Governing(q).duration
  <2>3. width \in Nat \ {0} /\ buffer \in Seq(Reading)
    BY <1>1, <1>3
  <2>4. step \in 1 .. width
    OBVIOUS
  <2> HIDE DEF buffer, width
  <2>5. ts \in Nat
    <3>1. PICK i \in DOMAIN buffer : ts = buffer[i].ts
      BY <2>1 DEF buffer
    <3>2. buffer[i] \in Reading
      BY <2>3
    <3> QED BY <3>1, <3>2 DEF Reading
  <2>6. span[1] = ts - width /\ span[2] = ts
    BY <2>2 DEF width
  <2> QED BY <1>2, <2>3, <2>4, <2>5, <2>6 DEF buffer
<1> QED BY <1>3, EngineAssumption, StateInit, StateStep, ProgressInit, ProgressStep, PTL DEF Spec

-----------------------------------------------------------------------------
=============================================================================
