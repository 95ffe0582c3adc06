----------------------------- MODULE Reloading -------------------------------
(***************************************************************************)
(* Swapping the rule set of a live engine: what becomes of the state of    *)
(* every rule in every partition, and of the previous definition of a rule *)
(* whose open episodes are left to drain.                                  *)
(***************************************************************************)
EXTENDS Triggers

Policies == {"preserve", "reset", "drain"}

\* A drain keeps the previous definition for the partitions with an open episode.
Drain == [rule : Rule \cup {NoRule}, parts : SUBSET Partitions]
NoDrain == [rule |-> NoRule, parts |-> {}]

\* The definition that governs a partition, which may be a draining one.
RuleFor(rules, draining, p, r) ==
  IF p \in draining[r].parts THEN draining[r].rule ELSE rules[r]

FinishDrain(drain, finished) ==
  IF drain.parts \subseteq finished THEN NoDrain
  ELSE [drain EXCEPT !.parts = @ \ finished]

OpenEpisodes(states, r) ==
  {p \in Partitions : states[p][r] # NoState /\ EpisodeOpen(states[p][r])}

Compatible(old, new) == Fingerprint(old) = Fingerprint(new)

\* What a reload does to a rule id.
ReloadOutcome(old, new, open, policy) ==
  CASE new = NoRule -> IF old = NoRule THEN "absent" ELSE "removed"
    [] new # NoRule /\ old = NoRule -> "added"
    [] OTHER ->
         CASE policy = "reset" -> "reset"
           [] policy = "drain" /\ open # {} -> "draining"
           [] OTHER -> IF Compatible(old, new) THEN "preserved" ELSE "reset"

Reconciled(rule, st, p, known) ==
  CASE rule = NoRule -> NoState
    [] /\ rule # NoRule /\ st = NoState /\ p \in known
       /\ rule.partition = "entity_id" /\ AppliesToEntity(rule, p) -> EmptyState
    [] OTHER -> st

\* Whether the state of a rule in a partition outlives a reload.
Retains(outcome, compatible, isOpen) ==
  \/ outcome \in {"preserved", "added", "absent"}
  \/ outcome = "draining" /\ (compatible \/ isOpen)

\* The engine after the rules in force are replaced by the rules of new.
ApplyReload(rules, states, draining, known, new, policy) ==
  LET open == [r \in RuleIds |-> OpenEpisodes(states, r)]
      outcome == [r \in RuleIds |-> ReloadOutcome(rules[r], new[r], open[r], policy)]
      Retained(p, r) ==
        Retains(outcome[r], Compatible(rules[r], new[r]), p \in open[r])
  IN [rules |-> new,
      states |-> [p \in Partitions |-> [r \in RuleIds |->
                    Reconciled(new[r], IF Retained(p, r) THEN states[p][r] ELSE NoState,
                               p, known)]],
      draining |-> [r \in RuleIds |->
                      CASE outcome[r] = "removed" -> NoDrain
                        [] outcome[r] = "draining" -> [rule |-> rules[r], parts |-> open[r]]
                        [] OTHER -> draining[r]]]
=============================================================================
