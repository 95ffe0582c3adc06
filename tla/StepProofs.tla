----------------------------- MODULE StepProofs ------------------------------
(***************************************************************************)
(* What one step of the engine does to one rule in one partition.  Every   *)
(* step leaves the rule alone, gives its state up to a reload, or hands it *)
(* to one of the four handlers of module Triggers; the theorems about      *)
(* buffers, timers and episodes look at those cases only.                  *)
(***************************************************************************)
EXTENDS EngineProofs

\* The rule sets the engine may come to hold, and the definitions of a rule.
InUse == {InitialRules} \cup Reloads
Definitions(r) == {rs[r] : rs \in InUse} \ {NoRule}

Straight == "drain" \notin ReloadPolicies

\* Every reload keeps the open episodes of the rules that stay.
Gentle ==
  /\ "reset" \notin ReloadPolicies
  /\ "preserve" \in ReloadPolicies =>
       \A r \in RuleIds : \A rule, other \in Definitions(r) : Compatible(rule, other)

DefinitionsInv ==
  /\ rules \in InUse
  /\ pending # NoReload => pending.rules \in Reloads /\ pending.policy \in ReloadPolicies
  /\ \A r \in RuleIds : draining[r].parts # {} => draining[r].rule \in Definitions(r)
  /\ Straight => \A r \in RuleIds : draining[r] = NoDrain

\* Before the clock is set nothing has happened.
BeforeTime ==
  call.stage # "timers" /\ watermark = Unset =>
    known = {} /\ \A p \in Partitions, r \in RuleIds : states[p][r] = NoState

EngineInv == ProgressInv /\ StateInv /\ DefinitionsInv /\ BeforeTime

\* How far a call in progress will have moved the clock when it returns.
Limit == IF call.stage = "timers" THEN call.target ELSE watermark

-----------------------------------------------------------------------------
\* The cases.

Yields(p, r, o) ==
  /\ states'[p][r] = o.state
  /\ out'[p][r] \in {o.alerts, out[p][r] \o o.alerts}
  /\ o.resolved => p \notin draining'[r].parts

\* What a reload may discard.
Expendable(p, r) ==
  Gentle /\ rules'[r] # NoRule /\ states[p][r] # NoState => ~EpisodeOpen(states[p][r])

\* The state a step starts from, once the reload it applies, if any, is done.
From(p, r, st) ==
  \/ st = states[p][r] /\ (Straight /\ st # NoState => Compatible(rules[r], rules'[r]))
  \/ st = NoState /\ rules' \in Reloads /\ Expendable(p, r)
  \/ /\ st = EmptyState
     /\ known # {} /\ rules' \in Reloads /\ Expendable(p, r)
     /\ rules'[r] # NoRule /\ rules'[r].partition = "entity_id"

Acting(rule, r) == rule \in Definitions(r) /\ (Straight => rule = rules'[r])

Rests(p, r) == \E st : From(p, r, st) /\ Yields(p, r, Silent(st))

HearsFrom(p, r, rule, st, ev) ==
  /\ Acting(rule, r) /\ From(p, r, st)
  /\ ev.ts = Limit' /\ call'.stage # "timers"
  /\ Yields(p, r, InOrder(rule, Ensured(rule, st, ev.ts), ev))

HearsLateOf(p, r, rule, ev) ==
  /\ Acting(rule, r) /\ rule = rules[r]
  /\ ev \in Offered /\ FoldLate(ev) /\ p \in FoldedIn(ev, r)
  /\ ev.ts < Limit /\ Limit \in Nat /\ Limit' = Limit
  /\ Yields(p, r, OnLate(rule, Ensured(rule, states[p][r], Limit), ev))

RecomputesAt(p, r, rule, x) ==
  /\ Acting(rule, r) /\ rule = rules[r] /\ call.stage = "recompute"
  /\ x.p = p /\ x.r = r /\ states[p][r] # NoState /\ Limit' = Limit
  /\ Yields(p, r, RecomputeWindow(rule, states[p][r], x.end))

TimesAt(p, r, rule, due) ==
  /\ Acting(rule, r) /\ rule = RuleFor(rules, draining, p, r)
  /\ states[p][r] # NoState
  /\ call.stage = "timers" /\ call' = call /\ due <= Limit /\ Limit' = Limit
  /\ due = watermark' /\ \A other \in AllDueTimes : due <= other
  /\ Yields(p, r, OnTimer(rule, states[p][r], due, RecomputeLate))

Hears(p, r) ==
  \E rule \in Definitions(r), st \in RuleState \cup {NoState}, ev \in Event :
    HearsFrom(p, r, rule, st, ev)
HearsLate(p, r) ==
  \E rule \in Definitions(r), ev \in Event : HearsLateOf(p, r, rule, ev)
Recomputes(p, r) ==
  \E rule \in Definitions(r), x \in call.reopen : RecomputesAt(p, r, rule, x)
Times(p, r) ==
  \E rule \in Definitions(r), due \in Nat : TimesAt(p, r, rule, due)

Turn(p, r) ==
  Rests(p, r) \/ Hears(p, r) \/ HearsLate(p, r) \/ Recomputes(p, r) \/ Times(p, r)

-----------------------------------------------------------------------------
(* A step that is committed gives every rule what its handler makes of it.  *)
LEMMA CommitAt ==
  ASSUME NEW outcome, NEW sofar, NEW dr, DrainsOK(dr), Commit(outcome, sofar, dr),
         NEW p \in Partitions, NEW r \in RuleIds,
         sofar[p][r] \in {<< >>, out[p][r]},
         outcome[p][r] \in Handled
  PROVE  /\ Yields(p, r, outcome[p][r])
         /\ draining'[r] = FinishDrain(dr[r], {q \in Partitions : outcome[q][r].resolved})
<1>1. /\ states'[p][r] = outcome[p][r].state
      /\ out'[p][r] = sofar[p][r] \o outcome[p][r].alerts
  BY DEF Commit
<1>2. outcome[p][r].alerts \in Seq(Alert)
  BY DEF Handled
<1>3. << >> \o outcome[p][r].alerts = outcome[p][r].alerts
  BY <1>2, ConcatEmptySeq
<1>4. draining'[r] = FinishDrain(dr[r], {q \in Partitions : outcome[q][r].resolved})
  BY DEF Commit
<1>5. outcome[p][r].resolved => p \notin draining'[r].parts
  BY <1>4, NoDrainType DEF FinishDrain, DrainsOK, Drain
<1> QED BY <1>1, <1>3, <1>4, <1>5 DEF Yields

(* An event is heard by a rule in its partition, and leaves it alone in the *)
(* others.                                                                  *)
LEMMA DeliverAt ==
  ASSUME NEW ev \in Event, NEW rs, RulesOK(rs), NEW sts, StatesOK(sts, rs),
         NEW dr, DrainsOK(dr), NEW sofar, OutOK(sofar),
         Deliver(ev, rs, sts, dr, sofar),
         NEW p \in Partitions, NEW r \in RuleIds, sofar[p][r] \in {<< >>, out[p][r]}
  PROVE  LET rule == RuleFor(rs, dr, p, r)
         IN \/ /\ rs[r] # NoRule
               /\ Yields(p, r, InOrder(rule, Ensured(rule, sts[p][r], ev.ts), ev))
            \/ Yields(p, r, Silent(sts[p][r]))
<1> DEFINE handle(q, s) ==
             LET rule == RuleFor(rs, dr, q, s)
             IN InOrder(rule, Ensured(rule, sts[q][s], ev.ts), ev)
           outcome == [q \in Partitions |-> [s \in RuleIds |->
                         IF q \in SeenIn(rs[s], ev) THEN handle(q, s)
                         ELSE Silent(sts[q][s])]]
<1>1. Commit(outcome, sofar, dr)
  BY DEF Deliver
<1>2. outcome[p][r] = IF p \in SeenIn(rs[r], ev) THEN handle(p, r) ELSE Silent(sts[p][r])
  OBVIOUS
<1>3. ASSUME p \in SeenIn(rs[r], ev)
      PROVE  rs[r] # NoRule /\ handle(p, r) \in Handled
  <2>1. rs[r] # NoRule
    BY <1>3 DEF SeenIn
  <2>2. Compiled(RuleFor(rs, dr, p, r))
    BY <2>1, GoverningCompiled
  <2>3. Ensured(RuleFor(rs, dr, p, r), sts[p][r], ev.ts) \in RuleState
    BY <2>2, EnsuredType DEF StatesOK, Compiled, Event
  <2> QED BY <2>1, <2>2, <2>3, InOrderType, OutcomeHandled
<1>4. Silent(sts[p][r]) \in Handled
  BY SilentHandled DEF StatesOK
<1> HIDE DEF outcome
<1>5. outcome[p][r] \in Handled
  BY <1>2, <1>3, <1>4
<1>6. Yields(p, r, outcome[p][r])
  BY <1>1, <1>5, CommitAt
<1> QED BY <1>2, <1>3, <1>6

(* A reload keeps the state of a rule, drops it, or gives a partition that  *)
(* is known a fresh one; without drains what is kept has the structure of   *)
(* the new definition (_apply_reload, _reconcile_states).                   *)
LEMMA ReloadAt ==
  ASSUME StateInv, DefinitionsInv, NEW new \in Reloads, NEW policy \in ReloadPolicies,
         NEW p \in Partitions, NEW r \in RuleIds
  PROVE  LET now == ApplyReload(rules, states, draining, known, new, policy)
             st == now.states[p][r]
         IN /\ now.rules = new
            /\ \/ /\ st = states[p][r]
                  /\ Straight /\ st # NoState => Compatible(rules[r], new[r])
               \/ st = NoState
               \/ /\ st = EmptyState
                  /\ known # {} /\ new[r] # NoRule /\ new[r].partition = "entity_id"
<1> DEFINE open == [s \in RuleIds |-> OpenEpisodes(states, s)]
           outcome == [s \in RuleIds |-> ReloadOutcome(rules[s], new[s], open[s], policy)]
           kept(q, s) == IF Retains(outcome[s], Compatible(rules[s], new[s]), q \in open[s])
                         THEN states[q][s] ELSE NoState
           sts == [q \in Partitions |-> [s \in RuleIds |->
                     Reconciled(new[s], kept(q, s), q, known)]]
           now == ApplyReload(rules, states, draining, known, new, policy)
<1>1. now.rules = new /\ now.states = sts
  BY DEF ApplyReload
<1>2. outcome[r] = ReloadOutcome(rules[r], new[r], OpenEpisodes(states, r), policy)
  OBVIOUS
<1>3. sts[p][r] = Reconciled(new[r], kept(p, r), p, known)
  OBVIOUS
<1>4. kept(p, r) \in {NoState, states[p][r]}
  OBVIOUS
<1>5. ASSUME Straight, kept(p, r) # NoState
      PROVE  Compatible(rules[r], new[r])
  <2>1. policy # "drain"
    BY <1>5 DEF Straight
  <2>2. Retains(outcome[r], Compatible(rules[r], new[r]), p \in open[r])
    BY <1>5
  <2>3. states[p][r] # NoState
    BY <1>5
  <2>4. rules[r] # NoRule
    BY <2>3 DEF StateInv, StatesOK
  <2> HIDE DEF outcome, kept
  <2> QED BY <1>2, <2>1, <2>2, <2>4 DEF Retains, ReloadOutcome
<1> HIDE DEF outcome, kept, sts, now
<1>6. \/ /\ sts[p][r] = states[p][r]
         /\ Straight /\ sts[p][r] # NoState => Compatible(rules[r], new[r])
      \/ sts[p][r] = NoState
      \/ /\ sts[p][r] = EmptyState
         /\ known # {} /\ new[r] # NoRule /\ new[r].partition = "entity_id"
  BY <1>3, <1>4, <1>5 DEF Reconciled
<1> QED BY <1>1, <1>6 DEF now

(* A gentle reload keeps the open episodes of a rule that stays.            *)
LEMMA ReloadKeepsOpen ==
  ASSUME Gentle, StateInv, DefinitionsInv, NEW new \in Reloads, NEW policy \in ReloadPolicies,
         NEW p \in Partitions, NEW r \in RuleIds,
         new[r] # NoRule, states[p][r] # NoState, EpisodeOpen(states[p][r])
  PROVE  ApplyReload(rules, states, draining, known, new, policy).states[p][r] = states[p][r]
<1> DEFINE open == [s \in RuleIds |-> OpenEpisodes(states, s)]
           outcome == [s \in RuleIds |-> ReloadOutcome(rules[s], new[s], open[s], policy)]
           kept(q, s) == IF Retains(outcome[s], Compatible(rules[s], new[s]), q \in open[s])
                         THEN states[q][s] ELSE NoState
           sts == [q \in Partitions |-> [s \in RuleIds |->
                     Reconciled(new[s], kept(q, s), q, known)]]
<1>1. ApplyReload(rules, states, draining, known, new, policy).states = sts
  BY DEF ApplyReload
<1>2. outcome[r] = ReloadOutcome(rules[r], new[r], OpenEpisodes(states, r), policy)
  OBVIOUS
<1>3. sts[p][r] = Reconciled(new[r], kept(p, r), p, known)
  OBVIOUS
<1>4. p \in open[r] /\ p \in OpenEpisodes(states, r)
  BY DEF OpenEpisodes
<1>5. rules[r] # NoRule /\ rules[r] \in Definitions(r) /\ new[r] \in Definitions(r)
  BY DEF StateInv, StatesOK, DefinitionsInv, Definitions, InUse
<1>6. policy \in {"preserve", "drain"} /\ (policy = "preserve" => Compatible(rules[r], new[r]))
  BY <1>5, EngineAssumption DEF Gentle, Policies
<1> HIDE DEF outcome, sts
<1>7. outcome[r] \in {"draining", "preserved"}
  BY <1>2, <1>4, <1>5, <1>6 DEF ReloadOutcome
<1>8. Retains(outcome[r], Compatible(rules[r], new[r]), p \in open[r])
  BY <1>4, <1>7 DEF Retains
<1>9. kept(p, r) = states[p][r]
  BY <1>8
<1> HIDE DEF kept
<1> QED BY <1>1, <1>3, <1>9 DEF Reconciled

(* A reload leaves a drain as it is, ends it, or begins one under the       *)
(* definition that was in force.                                            *)
LEMMA ReloadDrains ==
  ASSUME DefinitionsInv, NEW new \in Reloads, NEW policy \in ReloadPolicies,
         NEW r \in RuleIds
  PROVE  LET drain == ApplyReload(rules, states, draining, known, new, policy).draining[r]
         IN /\ drain.parts # {} => drain.rule \in Definitions(r)
            /\ Straight => drain = NoDrain
<1> DEFINE open == [s \in RuleIds |-> OpenEpisodes(states, s)]
           outcome == [s \in RuleIds |-> ReloadOutcome(rules[s], new[s], open[s], policy)]
           dr == [s \in RuleIds |->
                    CASE outcome[s] = "removed" -> NoDrain
                      [] outcome[s] = "draining" -> [rule |-> rules[s], parts |-> open[s]]
                      [] OTHER -> draining[s]]
           drain == ApplyReload(rules, states, draining, known, new, policy).draining[r]
<1>1. drain = dr[r]
  BY DEF ApplyReload
<1>2. outcome[r] = ReloadOutcome(rules[r], new[r], OpenEpisodes(states, r), policy)
  OBVIOUS
<1>3. dr[r] = CASE outcome[r] = "removed" -> NoDrain
                [] outcome[r] = "draining" -> [rule |-> rules[r], parts |-> open[r]]
                [] OTHER -> draining[r]
  OBVIOUS
<1> HIDE DEF outcome, dr, drain
<1>4. outcome[r] = "draining" => rules[r] # NoRule /\ policy = "drain"
  BY <1>2 DEF ReloadOutcome
<1>5. rules[r] # NoRule => rules[r] \in Definitions(r)
  BY DEF DefinitionsInv, Definitions
<1>6. dr[r].parts # {} => dr[r].rule \in Definitions(r)
  BY <1>3, <1>4, <1>5, NoDrainType DEF DefinitionsInv
<1>7. Straight => dr[r] = NoDrain
  BY <1>3, <1>4 DEF DefinitionsInv, Straight
<1> QED BY <1>1, <1>6, <1>7 DEF drain

-----------------------------------------------------------------------------
(* The instant the calls have moved the clock to never goes back, although  *)
(* the clock may, while a call runs the timers.                             *)
LEMMA LimitGrows ==
  ASSUME ProgressInv, StateInv, [Next]_vars
  PROVE  Limit \in Moment /\ Limit' \in Moment /\ Limit <= Limit'
<1>1. Limit \in Moment /\ watermark \in Moment
  BY DEF Limit, StateInv, Call
<1> SUFFICES Limit' = Limit \/ (Limit' \in Nat /\ Limit <= Limit')
  BY <1>1 DEF Moment, Unset
<1>2. CASE UNCHANGED vars
  BY <1>2 DEF vars, Limit
<1>3. ASSUME NEW ev \in Offered, ProcessEvent(ev)
      PROVE  Limit' = Limit \/ (Limit' \in Nat /\ Limit <= Limit')
  <2>1. ev.ts \in Nat
    BY EngineAssumption DEF Event
  <2>2. CASE RefuseLate(ev)
    BY <2>2 DEF RefuseLate, Serve, Limit
  <2>5. CASE FoldLate(ev)
    <3>1. call' = IF Reopens(ev) = {} THEN Idle
                  ELSE [Idle EXCEPT !.stage = "recompute", !.reopen = Reopens(ev)]
      BY <2>5 DEF FoldLate
    <3>2. call'.stage # "timers"
      BY <3>1 DEF Idle
    <3>3. call.stage # "timers" /\ watermark' = watermark
      BY <2>5 DEF FoldLate, Serve
    <3> QED BY <3>2, <3>3 DEF Limit
  <2>3. CASE FirstEvent(ev)
    <3>1. Limit = Unset /\ Limit' = ev.ts
      BY <2>3 DEF FirstEvent, Serve, Limit
    <3> QED BY <2>1, <3>1 DEF Unset
  <2>4. CASE AcceptEvent(ev)
    <3>1. Limit = watermark /\ Limit' = ev.ts /\ ev.ts >= watermark
      BY <2>4 DEF AcceptEvent, Serve, Ahead, Idle, Limit
    <3> QED BY <1>1, <2>1, <3>1 DEF Moment, Unset
  <2> QED BY <1>3, <2>2, <2>3, <2>4, <2>5 DEF ProcessEvent
<1>4. ASSUME NEW t \in 0 .. MaxTime, FirstAdvance(t) \/ AdvanceTo(t)
      PROVE  Limit' = Limit \/ (Limit' \in Nat /\ Limit <= Limit')
  <2>1. t \in Nat
    BY EngineAssumption
  <2>2. CASE FirstAdvance(t)
    <3>1. Limit = Unset /\ Limit' = t
      BY <2>2 DEF FirstAdvance, Serve, Limit
    <3> QED BY <2>1, <3>1 DEF Unset
  <2>3. CASE AdvanceTo(t)
    <3>1. Limit = watermark /\ Limit' = t /\ t >= watermark
      BY <2>3 DEF AdvanceTo, Serve, Ahead, Idle, Limit
    <3> QED BY <1>1, <2>1, <3>1 DEF Moment, Unset
  <2> QED BY <1>4, <2>2, <2>3
<1>5. ASSUME NEW new \in Reloads, NEW policy \in ReloadPolicies, Reload(new, policy)
      PROVE  Limit' = Limit \/ (Limit' \in Nat /\ Limit <= Limit')
  BY <1>5 DEF Reload, ReloadNow, StageReload, Limit
<1>6. CASE FireDue
  BY <1>6 DEF FireDue, Limit
<1>7. CASE Settle
  BY <1>7 DEF Settle, Idle, Limit
<1>8. ASSUME NEW x \in call.reopen, Recompute(x)
      PROVE  Limit' = Limit \/ (Limit' \in Nat /\ Limit <= Limit')
  BY <1>8 DEF Recompute, Idle, Limit
<1> QED BY <1>1, <1>2, <1>3, <1>4, <1>5, <1>6, <1>7, <1>8 DEF Next, Progress

-----------------------------------------------------------------------------
\* The definitions in use, and the time before the first call.

LEMMA FinishDrainKeeps ==
  ASSUME NEW drain \in Drain, NEW finished
  PROVE  /\ FinishDrain(drain, finished).parts \subseteq drain.parts
         /\ FinishDrain(drain, finished).parts # {} =>
              FinishDrain(drain, finished).rule = drain.rule
         /\ drain = NoDrain => FinishDrain(drain, finished) = NoDrain
BY NoDrainType DEF FinishDrain, Drain

LEMMA CommitDefinitions ==
  ASSUME NEW outcome, NEW sofar, NEW dr, DrainsOK(dr), Commit(outcome, sofar, dr),
         \A r \in RuleIds : dr[r].parts # {} => dr[r].rule \in Definitions(r),
         Straight => \A r \in RuleIds : dr[r] = NoDrain
  PROVE  /\ \A r \in RuleIds : draining'[r].parts # {} => draining'[r].rule \in Definitions(r)
         /\ Straight => \A r \in RuleIds : draining'[r] = NoDrain
<1>1. ASSUME NEW r \in RuleIds
      PROVE  /\ draining'[r].parts # {} => draining'[r].rule \in Definitions(r)
             /\ Straight => draining'[r] = NoDrain
  <2>1. draining'[r] = FinishDrain(dr[r], {p \in Partitions : outcome[p][r].resolved})
    BY DEF Commit
  <2>2. dr[r] \in Drain
    BY DEF DrainsOK
  <2>3. /\ draining'[r].parts \subseteq dr[r].parts
        /\ draining'[r].parts # {} => draining'[r].rule = dr[r].rule
        /\ dr[r] = NoDrain => draining'[r] = NoDrain
    BY <2>1, <2>2, FinishDrainKeeps
  <2> QED BY <2>3
<1> QED BY <1>1

LEMMA DefinitionsInit == Init => DefinitionsInv /\ BeforeTime
BY NoDrainType DEF Init, DefinitionsInv, BeforeTime, InUse

LEMMA DefinitionsStep ==
  ASSUME ProgressInv, StateInv, DefinitionsInv, [Next]_vars
  PROVE  DefinitionsInv'
<1> USE DEF DefinitionsInv
<1>0. DrainsOK(draining)
  BY DEF StateInv
<1>1. CASE UNCHANGED vars
  BY <1>1 DEF vars
<1>2. ASSUME NEW ev \in Offered, ProcessEvent(ev) PROVE DefinitionsInv'
  <2>1. CASE RefuseLate(ev)
    BY <2>1 DEF RefuseLate
  <2>2. CASE FoldLate(ev)
    BY <1>0, <2>2, CommitDefinitions DEF FoldLate
  <2>3. CASE FirstEvent(ev)
    BY <1>0, <2>3, CommitDefinitions DEF FirstEvent, Deliver
  <2>4. CASE AcceptEvent(ev)
    BY <2>4 DEF AcceptEvent
  <2> QED BY <1>2, <2>1, <2>2, <2>3, <2>4 DEF ProcessEvent
<1>3. ASSUME NEW t \in 0 .. MaxTime, FirstAdvance(t) \/ AdvanceTo(t) PROVE DefinitionsInv'
  BY <1>3 DEF FirstAdvance, AdvanceTo
<1>4. ASSUME NEW new \in Reloads, NEW policy \in ReloadPolicies, Reload(new, policy)
      PROVE DefinitionsInv'
  <2>1. CASE ReloadNow(new, policy)
    <3>1. /\ rules' = ApplyReload(rules, states, draining, known, new, policy).rules
          /\ draining' = ApplyReload(rules, states, draining, known, new, policy).draining
          /\ pending' = pending
      BY <2>1 DEF ReloadNow
    <3>2. rules' = new
      BY <3>1 DEF ApplyReload
    <3>3. \A r \in RuleIds :
            /\ draining'[r].parts # {} => draining'[r].rule \in Definitions(r)
            /\ Straight => draining'[r] = NoDrain
      BY <3>1, ReloadDrains
    <3> QED BY <3>1, <3>2, <3>3 DEF InUse
  <2>2. ASSUME NEW at \in 0 .. MaxTime, StageReload(new, policy, at) PROVE DefinitionsInv'
    BY <2>2 DEF StageReload
  <2> QED BY <1>4, <2>1, <2>2 DEF Reload
<1>5. CASE FireDue
  BY <1>0, <1>5, CommitDefinitions DEF FireDue
<1>6. CASE Settle
  <2> DEFINE now == Activated(call.target)
  <2>1. /\ now.rules \in InUse
        /\ \A r \in RuleIds :
             /\ now.draining[r].parts # {} => now.draining[r].rule \in Definitions(r)
             /\ Straight => now.draining[r] = NoDrain
    <3>1. CASE Activates(call.target)
      <4>1. pending.rules \in Reloads /\ pending.policy \in ReloadPolicies
        BY <3>1 DEF Activates
      <4>2. now = ApplyReload(rules, states, draining, known, pending.rules, pending.policy)
        BY <3>1 DEF Activated
      <4>3. now.rules = pending.rules
        BY <4>2 DEF ApplyReload
      <4> QED BY <4>1, <4>2, <4>3, ReloadDrains DEF InUse
    <3>2. CASE ~Activates(call.target)
      BY <3>2 DEF Activated
    <3> QED BY <3>1, <3>2
  <2>2. DrainsOK(now.draining)
    <3>1. CASE Activates(call.target)
      <4>1. RulesOK(pending.rules)
        BY <3>1 DEF Activates, StateInv
      <4> QED BY <3>1, <4>1, ApplyReloadType DEF Activated
    <3>2. CASE ~Activates(call.target)
      BY <1>0, <3>2 DEF Activated
    <3> QED BY <3>1, <3>2
  <2>3. rules' = now.rules /\ pending' \in {NoReload, pending}
    BY <1>6 DEF Settle
  <2> HIDE DEF now
  <2>4. \/ draining' = now.draining
        \/ Deliver(call.event, now.rules, now.states, now.draining, out)
    BY <1>6 DEF Settle, now
  <2>5. \A r \in RuleIds :
          /\ draining'[r].parts # {} => draining'[r].rule \in Definitions(r)
          /\ Straight => draining'[r] = NoDrain
    BY <2>1, <2>2, <2>4, CommitDefinitions DEF Deliver
  <2> QED BY <2>1, <2>3, <2>5
<1>7. ASSUME NEW x \in call.reopen, Recompute(x) PROVE DefinitionsInv'
  BY <1>0, <1>7, CommitDefinitions DEF Recompute
<1> QED BY <1>1, <1>2, <1>3, <1>4, <1>5, <1>6, <1>7 DEF Next, Progress

LEMMA BeforeTimeStep ==
  ASSUME EngineInv, [Next]_vars
  PROVE  BeforeTime'
<1> USE DEF EngineInv
<1> SUFFICES ASSUME call'.stage # "timers", watermark' = Unset
             PROVE  known' = {} /\ \A p \in Partitions, r \in RuleIds : states'[p][r] = NoState
  BY DEF BeforeTime
<1> DEFINE Nothing == known' = {} /\ \A p \in Partitions, r \in RuleIds : states'[p][r] = NoState
<1>1. CASE UNCHANGED vars
  BY <1>1 DEF vars, BeforeTime
<1>2. ASSUME NEW ev \in Offered, ProcessEvent(ev) PROVE Nothing
  <2>1. CASE RefuseLate(ev) \/ FoldLate(ev)
    BY <2>1 DEF RefuseLate, FoldLate, Behind
  <2>2. CASE FirstEvent(ev)
    <3>1. ev.ts \in Nat
      BY EngineAssumption DEF Event
    <3> QED BY <2>2, <3>1 DEF FirstEvent, Unset
  <2>3. CASE AcceptEvent(ev)
    BY <2>3 DEF AcceptEvent, Idle
  <2> QED BY <1>2, <2>1, <2>2, <2>3 DEF ProcessEvent
<1>3. ASSUME NEW t \in 0 .. MaxTime, FirstAdvance(t) \/ AdvanceTo(t) PROVE Nothing
  <2>1. t \in Nat
    BY EngineAssumption
  <2>2. CASE FirstAdvance(t)
    BY <2>1, <2>2 DEF FirstAdvance, Unset
  <2>3. CASE AdvanceTo(t)
    BY <2>3 DEF AdvanceTo, Idle
  <2> QED BY <1>3, <2>2, <2>3
<1>4. ASSUME NEW new \in Reloads, NEW policy \in ReloadPolicies, Reload(new, policy)
      PROVE Nothing
  <2>1. CASE ReloadNow(new, policy)
    <3>1. /\ states' = ApplyReload(rules, states, draining, known, new, policy).states
          /\ known' = known /\ watermark' = watermark /\ call' = call
      BY <2>1 DEF ReloadNow
    <3>2. known = {} /\ \A p \in Partitions, r \in RuleIds : states[p][r] = NoState
      BY <3>1 DEF BeforeTime
    <3>3. ASSUME NEW p \in Partitions, NEW r \in RuleIds
          PROVE  states'[p][r] = NoState
      BY <3>1, <3>2, ReloadAt
    <3> QED BY <3>1, <3>2, <3>3
  <2>2. ASSUME NEW at \in 0 .. MaxTime, StageReload(new, policy, at) PROVE Nothing
    BY <2>2 DEF StageReload, BeforeTime
  <2> QED BY <1>4, <2>1, <2>2 DEF Reload
<1>5. CASE FireDue
  BY <1>5 DEF FireDue
<1>6. CASE Settle
  BY <1>6 DEF Settle, ProgressInv, Unset
<1>7. ASSUME NEW x \in call.reopen, Recompute(x) PROVE Nothing
  <2>1. states[x.p][x.r] # NoState /\ x.p \in Partitions /\ x.r \in RuleIds
    BY DEF StateInv, Call, Reopened
  <2>2. call.stage # "timers" /\ watermark' = watermark
    BY <1>7 DEF Recompute
  <2> QED BY <2>1, <2>2 DEF BeforeTime
<1> QED BY <1>1, <1>2, <1>3, <1>4, <1>5, <1>6, <1>7 DEF Next, Progress

LEMMA EngineInvStep == EngineInv /\ [Next]_vars => EngineInv'
BY ProgressStep, StateStep, DefinitionsStep, BeforeTimeStep DEF EngineInv

LEMMA EngineInvHolds == Spec => []EngineInv
<1>1. Init => EngineInv
  BY ProgressInit, StateInit, DefinitionsInit DEF EngineInv
<1> QED BY <1>1, EngineInvStep, PTL DEF Spec

-----------------------------------------------------------------------------
\* Every step is one of the cases.

LEMMA GoverningActs ==
  ASSUME NEW rs \in InUse, NEW dr, NEW p, NEW r \in RuleIds, rs[r] # NoRule,
         dr[r].parts # {} => dr[r].rule \in Definitions(r),
         Straight => dr[r] = NoDrain
  PROVE  /\ RuleFor(rs, dr, p, r) \in Definitions(r)
         /\ Straight => RuleFor(rs, dr, p, r) = rs[r]
<1>1. rs[r] \in Definitions(r)
  BY DEF Definitions
<1> QED BY <1>1, NoDrainType DEF RuleFor

LEMMA EmptyNotOpen == ~EpisodeOpen(EmptyState)
BY DEF EmptyState, EpisodeOpen

LEMMA FromType ==
  ASSUME StateInv, NEW p \in Partitions, NEW r \in RuleIds, NEW st, From(p, r, st)
  PROVE  st \in RuleState \cup {NoState}
BY EmptyStateType DEF From, StateInv, StatesOK

LEMMA ActingCompiled ==
  ASSUME NEW r \in RuleIds, NEW rule \in Definitions(r)
  PROVE  Compiled(rule)
BY ReloadableOK DEF Definitions, InUse, RulesOK

LEMMA StaysAt ==
  ASSUME StateInv, UNCHANGED <<rules, states>>,
         NEW p \in Partitions, NEW r \in RuleIds, out'[p][r] \in {<< >>, out[p][r]}
  PROVE  Turn(p, r)
<1>1. From(p, r, states[p][r])
  BY DEF From, Compatible
<1>2. out[p][r] \o << >> = out[p][r]
  BY ConcatEmptySeq DEF StateInv, OutOK
<1>3. Yields(p, r, Silent(states[p][r]))
  BY <1>2 DEF Yields, Silent
<1> QED BY <1>1, <1>3 DEF Turn, Rests

LEMMA EventTurn ==
  ASSUME EngineInv, NEW ev \in Offered, ProcessEvent(ev),
         NEW p \in Partitions, NEW r \in RuleIds
  PROVE  Turn(p, r)
<1>0. ev \in Event /\ ev.ts \in Nat /\ Quiet[p][r] = << >> /\ DrainsOK(draining)
  BY EngineAssumption DEF Event, Quiet, EngineInv, StateInv
<1>1. CASE RefuseLate(ev)
  BY <1>0, <1>1, StaysAt DEF RefuseLate, EngineInv
<1>2. CASE FoldLate(ev)
  <2> DEFINE handle(q, s) ==
               OnLate(rules[s], Ensured(rules[s], states[q][s], watermark), ev)
             outcome == [q \in Partitions |-> [s \in RuleIds |->
                           IF q \in FoldedIn(ev, s) THEN handle(q, s)
                           ELSE Silent(states[q][s])]]
  <2>0. Commit(outcome, Quiet, draining)
    BY <1>2 DEF FoldLate
  <2>1. /\ watermark' = watermark /\ rules' = rules
        /\ watermark \in Nat /\ ev.ts < watermark /\ call.stage # "timers"
    BY <1>2 DEF FoldLate, Behind, EngineInv, StateInv, Moment, Serve
  <2>2. CASE p \in FoldedIn(ev, r)
    <3>1. rules[r] # NoRule
      BY <2>2 DEF FoldedIn, SeenIn
    <3>2. rules[r] \in Rule
      BY <3>1 DEF EngineInv, StateInv, RulesOK, Compiled
    <3>3. Ensured(rules[r], states[p][r], watermark) \in RuleState
      BY <2>1, <3>2, EnsuredType DEF EngineInv, StateInv, StatesOK
    <3>4. outcome[p][r] = handle(p, r) /\ handle(p, r) \in Handled
      BY <1>0, <2>2, <3>2, <3>3, OnLateType, OutcomeHandled
    <3> HIDE DEF outcome
    <3>a. Yields(p, r, outcome[p][r])
      BY <1>0, <2>0, <3>4, CommitAt
    <3>5. Yields(p, r, handle(p, r))
      BY <3>4, <3>a
    <3>6. Acting(rules[r], r)
      BY <2>1, <3>1 DEF Acting, Definitions, EngineInv, DefinitionsInv
    <3>7. Limit = watermark /\ Limit' = watermark
      <4>1. call' = IF Reopens(ev) = {} THEN Idle
                    ELSE [Idle EXCEPT !.stage = "recompute", !.reopen = Reopens(ev)]
        BY <1>2 DEF FoldLate
      <4>2. call'.stage # "timers"
        BY <4>1 DEF Idle
      <4> QED BY <2>1, <4>2 DEF Limit
    <3>8. Yields(p, r, OnLate(rules[r], Ensured(rules[r], states[p][r], Limit), ev))
      BY <3>5, <3>7
    <3>9. HearsLateOf(p, r, rules[r], ev)
      BY <1>2, <2>1, <2>2, <3>6, <3>7, <3>8 DEF HearsLateOf
    <3> QED BY <1>0, <3>6, <3>9 DEF Turn, HearsLate, Acting
  <2>3. CASE p \notin FoldedIn(ev, r)
    <3>1. outcome[p][r] = Silent(states[p][r])
      BY <2>3
    <3>2. outcome[p][r] \in Handled
      BY <3>1, SilentHandled DEF EngineInv, StateInv, StatesOK
    <3> HIDE DEF outcome, handle
    <3>a. Yields(p, r, outcome[p][r])
      BY <1>0, <2>0, <3>2, CommitAt
    <3>3. Yields(p, r, Silent(states[p][r]))
      BY <3>1, <3>a
    <3>4. From(p, r, states[p][r])
      BY <2>1 DEF From, Compatible
    <3> QED BY <3>3, <3>4 DEF Turn, Rests
  <2> QED BY <2>2, <2>3
<1>3. CASE FirstEvent(ev)
  <2> DEFINE rule == RuleFor(rules, draining, p, r)
  <2>1. /\ Deliver(ev, rules, states, draining, Quiet) /\ rules' = rules
        /\ watermark' = ev.ts /\ call' = call /\ call.stage = "idle"
    BY <1>3 DEF FirstEvent, Serve
  <2>2. RulesOK(rules) /\ StatesOK(states, rules) /\ DrainsOK(draining)
    BY DEF EngineInv, StateInv
  <2>3. \/ /\ rules[r] # NoRule
           /\ Yields(p, r, InOrder(rule, Ensured(rule, states[p][r], ev.ts), ev))
        \/ Yields(p, r, Silent(states[p][r]))
    BY <1>0, <2>1, <2>2, QuietType, DeliverAt
  <2>4. From(p, r, states[p][r])
    BY <2>1 DEF From, Compatible
  <2>5. rules[r] # NoRule => Acting(rule, r)
    BY <2>1, GoverningActs DEF Acting, EngineInv, DefinitionsInv
  <2>6. ev.ts = Limit' /\ call'.stage # "timers"
    BY <2>1 DEF Limit
  <2> HIDE DEF rule
  <2>7. CASE rules[r] # NoRule
              /\ Yields(p, r, InOrder(rule, Ensured(rule, states[p][r], ev.ts), ev))
    <3>1. HearsFrom(p, r, rule, states[p][r], ev)
      BY <2>4, <2>5, <2>6, <2>7 DEF HearsFrom
    <3>2. states[p][r] \in RuleState \cup {NoState}
      BY DEF EngineInv, StateInv, StatesOK
    <3> QED BY <1>0, <2>5, <2>7, <3>1, <3>2 DEF Turn, Hears, Acting
  <2>8. CASE Yields(p, r, Silent(states[p][r]))
    BY <2>4, <2>8 DEF Turn, Rests
  <2> QED BY <2>3, <2>7, <2>8
<1>4. CASE AcceptEvent(ev)
  BY <1>0, <1>4, StaysAt DEF AcceptEvent, EngineInv
<1> QED BY <1>1, <1>2, <1>3, <1>4 DEF ProcessEvent

LEMMA ReloadTurn ==
  ASSUME EngineInv, NEW new \in Reloads, NEW policy \in ReloadPolicies, Reload(new, policy),
         NEW p \in Partitions, NEW r \in RuleIds
  PROVE  Turn(p, r)
<1>0. Quiet[p][r] = << >>
  BY DEF Quiet
<1>1. CASE ReloadNow(new, policy)
  <2> DEFINE now == ApplyReload(rules, states, draining, known, new, policy)
  <2>1. rules' = now.rules /\ states' = now.states /\ out' = Quiet
    BY <1>1 DEF ReloadNow
  <2>2. /\ now.rules = new
        /\ \/ /\ now.states[p][r] = states[p][r]
              /\ Straight /\ now.states[p][r] # NoState => Compatible(rules[r], new[r])
           \/ now.states[p][r] = NoState
           \/ /\ now.states[p][r] = EmptyState
              /\ known # {} /\ new[r] # NoRule /\ new[r].partition = "entity_id"
    BY ReloadAt DEF EngineInv
  <2>5. Gentle /\ new[r] # NoRule /\ states[p][r] # NoState /\ EpisodeOpen(states[p][r]) =>
          now.states[p][r] = states[p][r]
    BY ReloadKeepsOpen DEF EngineInv
  <2>6. new \in Reloads /\ (states[p][r] # NoState => rules[r] # NoRule)
    BY DEF EngineInv, StateInv, StatesOK
  <2> HIDE DEF now
  <2>3. From(p, r, states'[p][r])
    BY <2>1, <2>2, <2>5, <2>6, EmptyNotOpen DEF From, Expendable
  <2>4. Yields(p, r, Silent(states'[p][r]))
    BY <1>0, <2>1 DEF Yields, Silent
  <2> QED BY <2>3, <2>4 DEF Turn, Rests
<1>2. ASSUME NEW at \in 0 .. MaxTime, StageReload(new, policy, at) PROVE Turn(p, r)
  BY <1>0, <1>2, StaysAt DEF StageReload, EngineInv
<1> QED BY <1>1, <1>2 DEF Reload

LEMMA FireDueTurn ==
  ASSUME EngineInv, FireDue, NEW p \in Partitions, NEW r \in RuleIds
  PROVE  Turn(p, r)
<1>1. PICK due \in AllDueTimes :
        /\ due <= call.target
        /\ \A other \in AllDueTimes : due <= other
        /\ watermark' = due
        /\ Commit([q \in Partitions |-> [s \in RuleIds |->
                    IF states[q][s] = NoState THEN Silent(NoState)
                    ELSE OnTimer(RuleFor(rules, draining, q, s), states[q][s], due,
                                 RecomputeLate)]],
                  out, draining)
  BY DEF FireDue
<1> DEFINE outcome == [q \in Partitions |-> [s \in RuleIds |->
                         IF states[q][s] = NoState THEN Silent(NoState)
                         ELSE OnTimer(RuleFor(rules, draining, q, s), states[q][s], due,
                                      RecomputeLate)]]
           rule == RuleFor(rules, draining, p, r)
<1>2. Commit(outcome, out, draining) /\ DrainsOK(draining)
  BY <1>1 DEF EngineInv, StateInv
<1>3. /\ due \in Nat /\ rules' = rules /\ call' = call /\ call.stage = "timers"
      /\ Limit = call.target /\ Limit' = Limit
  BY <1>1, FireDueType DEF FireDue, EngineInv, Limit
<1>4. CASE states[p][r] = NoState
  <2>1. outcome[p][r] = Silent(states[p][r])
    BY <1>4
  <2>2. outcome[p][r] \in Handled
    BY <1>4, <2>1, SilentHandled
  <2> HIDE DEF outcome
  <2>3. Yields(p, r, Silent(states[p][r]))
    BY ZenonT(40), <1>2, <2>1, <2>2, CommitAt
  <2>4. From(p, r, states[p][r])
    BY <1>3 DEF From, Compatible
  <2> QED BY <2>3, <2>4 DEF Turn, Rests
<1>5. CASE states[p][r] # NoState
  <2>1. states[p][r] \in RuleState /\ rules[r] # NoRule
    BY <1>5 DEF EngineInv, StateInv, StatesOK
  <2>2. rule \in Rule
    BY <2>1, GoverningCompiled DEF EngineInv, StateInv, Compiled
  <2>3. outcome[p][r] = OnTimer(rule, states[p][r], due, RecomputeLate)
    BY <1>5
  <2>4. outcome[p][r] \in Handled
    BY <1>3, <2>1, <2>2, <2>3, OnTimerType, OutcomeHandled
  <2>5. Acting(rule, r)
    BY <1>3, <2>1, GoverningActs DEF Acting, EngineInv, DefinitionsInv
  <2> HIDE DEF outcome
  <2>6. Yields(p, r, OnTimer(rule, states[p][r], due, RecomputeLate))
    BY ZenonT(40), <1>2, <2>3, <2>4, CommitAt
  <2> HIDE DEF rule
  <2>7. TimesAt(p, r, rule, due)
    BY <1>1, <1>3, <1>5, <2>5, <2>6 DEF TimesAt, rule
  <2> QED BY <1>3, <2>5, <2>7 DEF Turn, Times, Acting
<1> QED BY <1>4, <1>5

LEMMA SettleTurn ==
  ASSUME EngineInv, Settle, NEW p \in Partitions, NEW r \in RuleIds
  PROVE  Turn(p, r)
<1> DEFINE now == Activated(call.target)
           st == now.states[p][r]
           rule == RuleFor(now.rules, now.draining, p, r)
<1>1. /\ call.stage = "timers" /\ watermark' = call.target /\ rules' = now.rules
      /\ call' = Idle
  BY DEF Settle
<1>2. /\ RulesOK(now.rules) /\ StatesOK(now.states, now.rules) /\ DrainsOK(now.draining)
      /\ now.rules \in InUse
      /\ now.draining[r].parts # {} => now.draining[r].rule \in Definitions(r)
      /\ Straight => now.draining[r] = NoDrain
      /\ From(p, r, st)
  <2>1. CASE Activates(call.target)
    <3>1. /\ pending.rules \in Reloads /\ pending.policy \in ReloadPolicies
          /\ RulesOK(pending.rules)
      BY <2>1 DEF Activates, EngineInv, StateInv, DefinitionsInv
    <3>2. now = ApplyReload(rules, states, draining, known, pending.rules, pending.policy)
      BY <2>1 DEF Activated
    <3> HIDE DEF now
    <3>3. /\ now.rules = pending.rules /\ StatesOK(now.states, pending.rules)
          /\ DrainsOK(now.draining)
      BY <3>1, <3>2, ApplyReloadType DEF EngineInv
    <3>4. /\ now.draining[r].parts # {} => now.draining[r].rule \in Definitions(r)
          /\ Straight => now.draining[r] = NoDrain
      BY <3>1, <3>2, ReloadDrains DEF EngineInv
    <3>5. \/ /\ st = states[p][r]
             /\ Straight /\ st # NoState => Compatible(rules[r], pending.rules[r])
          \/ st = NoState
          \/ /\ st = EmptyState
             /\ known # {} /\ pending.rules[r] # NoRule
             /\ pending.rules[r].partition = "entity_id"
      BY <3>1, <3>2, ReloadAt DEF EngineInv
    <3>7. Gentle /\ pending.rules[r] # NoRule /\ states[p][r] # NoState
            /\ EpisodeOpen(states[p][r]) => st = states[p][r]
      BY <3>1, <3>2, ReloadKeepsOpen DEF EngineInv
    <3>6. From(p, r, st)
      BY <1>1, <3>1, <3>3, <3>5, <3>7, EmptyNotOpen DEF From, Expendable
    <3> QED BY <3>1, <3>3, <3>4, <3>6 DEF InUse
  <2>2. CASE ~Activates(call.target)
    <3>1. now = [rules |-> rules, states |-> states, draining |-> draining]
      BY <2>2 DEF Activated
    <3> HIDE DEF now
    <3> QED BY <1>1, <3>1 DEF EngineInv, StateInv, DefinitionsInv, From, Compatible
  <2> QED BY <2>1, <2>2
<1>3. CASE call.event = NoEvent
  <2>1. states' = now.states /\ out' = out
    BY <1>3 DEF Settle
  <2>2. out[p][r] \o << >> = out[p][r]
    BY ConcatEmptySeq DEF EngineInv, StateInv, OutOK
  <2> HIDE DEF now
  <2>3. Yields(p, r, Silent(st))
    BY <2>1, <2>2 DEF Yields, Silent
  <2> QED BY <1>2, <2>3 DEF Turn, Rests
<1>4. CASE call.event # NoEvent
  <2> DEFINE ev == call.event
  <2>1. Deliver(ev, now.rules, now.states, now.draining, out)
    BY <1>4 DEF Settle
  <2>2. ev \in Event /\ ev.ts = call.target /\ OutOK(out)
    BY <1>1, <1>4 DEF EngineInv, ProgressInv, StateInv
  <2>3. ev.ts = Limit' /\ call'.stage # "timers"
    BY <1>1, <2>2 DEF Limit, Idle
  <2> HIDE DEF now, ev
  <2>4. \/ /\ now.rules[r] # NoRule
           /\ Yields(p, r, InOrder(rule, Ensured(rule, st, ev.ts), ev))
        \/ Yields(p, r, Silent(st))
    BY <1>2, <2>1, <2>2, DeliverAt
  <2>5. now.rules[r] # NoRule => Acting(rule, r)
    BY <1>1, <1>2, GoverningActs DEF Acting
  <2> HIDE DEF rule, st
  <2>6. From(p, r, st)
    BY <1>2
  <2>7. CASE now.rules[r] # NoRule /\ Yields(p, r, InOrder(rule, Ensured(rule, st, ev.ts), ev))
    <3>1. HearsFrom(p, r, rule, st, ev)
      BY <2>3, <2>5, <2>6, <2>7 DEF HearsFrom
    <3>2. st \in RuleState \cup {NoState}
      BY <2>6, FromType DEF EngineInv
    <3> QED BY <2>2, <2>5, <2>7, <3>1, <3>2 DEF Turn, Hears, Acting
  <2>8. CASE Yields(p, r, Silent(st))
    BY <2>6, <2>8 DEF Turn, Rests
  <2> QED BY <2>4, <2>7, <2>8
<1> QED BY <1>3, <1>4

LEMMA RecomputeTurn ==
  ASSUME EngineInv, NEW x \in call.reopen, Recompute(x),
         NEW p \in Partitions, NEW r \in RuleIds
  PROVE  Turn(p, r)
<1> DEFINE outcome == [q \in Partitions |-> [s \in RuleIds |->
                         IF q = x.p /\ s = x.r
                         THEN RecomputeWindow(rules[s], states[q][s], x.end)
                         ELSE Silent(states[q][s])]]
<1>0. Commit(outcome, out, draining) /\ DrainsOK(draining)
  BY DEF Recompute, EngineInv, StateInv
<1>1. rules' = rules /\ watermark' = watermark /\ call.stage = "recompute"
  BY DEF Recompute
<1>2. Limit' = Limit
  BY <1>1 DEF Recompute, Idle, Limit, EngineInv, StateInv, Call
<1>3. x \in Reopened /\ states[x.p][x.r] # NoState
  BY DEF EngineInv, StateInv, Call
<1>4. CASE p = x.p /\ r = x.r
  <2>1. states[p][r] \in RuleState /\ rules[r] # NoRule
    BY <1>3, <1>4 DEF EngineInv, StateInv, StatesOK
  <2>2. rules[r] \in Rule /\ x.end \in Nat
    BY <1>3, <2>1 DEF EngineInv, StateInv, RulesOK, Compiled, Reopened
  <2>3. outcome[p][r] = RecomputeWindow(rules[r], states[p][r], x.end)
    BY <1>4
  <2>4. outcome[p][r] \in Handled
    BY <2>1, <2>2, <2>3, RecomputeWindowType, OutcomeHandled
  <2>5. Acting(rules[r], r)
    BY <1>1, <2>1 DEF Acting, Definitions, EngineInv, DefinitionsInv
  <2> HIDE DEF outcome
  <2>a. Yields(p, r, outcome[p][r])
    BY <1>0, <2>4, CommitAt
  <2>6. Yields(p, r, RecomputeWindow(rules[r], states[p][r], x.end))
    BY <2>3, <2>a
  <2>7. RecomputesAt(p, r, rules[r], x)
    BY <1>1, <1>2, <1>3, <1>4, <2>5, <2>6 DEF RecomputesAt
  <2> QED BY <2>5, <2>7 DEF Turn, Recomputes, Acting
<1>5. CASE ~(p = x.p /\ r = x.r)
  <2>1. outcome[p][r] = Silent(states[p][r])
    BY <1>5
  <2>2. outcome[p][r] \in Handled
    BY <2>1, SilentHandled DEF EngineInv, StateInv, StatesOK
  <2> HIDE DEF outcome
  <2>a. Yields(p, r, outcome[p][r])
    BY <1>0, <2>2, CommitAt
  <2>3. Yields(p, r, Silent(states[p][r]))
    BY <2>1, <2>a
  <2>4. From(p, r, states[p][r])
    BY <1>1 DEF From, Compatible
  <2> QED BY <2>3, <2>4 DEF Turn, Rests
<1> QED BY <1>4, <1>5

(* Whatever the engine does, a rule in a partition rests, hears an event in *)
(* order or late, has a closed window evaluated again, or a timer fired.    *)
LEMMA TurnTaken ==
  ASSUME EngineInv, [Next]_vars, NEW p \in Partitions, NEW r \in RuleIds
  PROVE  Turn(p, r)
<1>1. CASE UNCHANGED vars
  BY <1>1, StaysAt DEF vars, EngineInv
<1>2. ASSUME NEW t \in 0 .. MaxTime, FirstAdvance(t) \/ AdvanceTo(t) PROVE Turn(p, r)
  <2>1. out'[p][r] = << >> /\ rules' = rules /\ states' = states
    BY <1>2 DEF FirstAdvance, AdvanceTo, Quiet
  <2> QED BY <2>1, StaysAt DEF EngineInv
<1> QED BY <1>1, <1>2, EventTurn, ReloadTurn, FireDueTurn, SettleTurn, RecomputeTurn
        DEF Next, Progress
=============================================================================
