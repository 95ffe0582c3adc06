----------------------------- MODULE EpisodeIds ------------------------------
(***************************************************************************)
(* The engine with a history: the alerts of every rule in every partition  *)
(* so far, which is what a consumer has who groups them by correlation id. *)
(* The documentation says of the id of a retraction what the code does not *)
(* keep; the claim is refuted by a run of its own.                         *)
(***************************************************************************)
EXTENDS EngineEpisodes

VARIABLE told     \* the alerts emitted so far, by partition and rule

idVars == <<vars, told>>

\* The alerts a step emits: those of a call that begins, or those that it adds
\* to the call in progress.
Emitted(p, r) ==
  LET said == IF served' = served THEN Len(out[p][r]) ELSE 0
  IN {out'[p][r][i] : i \in said + 1 .. Len(out'[p][r])}

IdInit == Init /\ told = [p \in Partitions |-> [r \in RuleIds |-> {}]]

IdNext ==
  /\ Next
  /\ told' = [p \in Partitions |-> [r \in RuleIds |-> told[p][r] \cup Emitted(p, r)]]

IdSpec == IdInit /\ [][IdNext]_idVars

(* A retraction carries the correlation id of the original episode: one     *)
(* under which the window it takes back was announced                       *)
(* (_recompute_closed_windows, _correlation_id; docs/rule-language.md,      *)
(* Recomputing Closed Windows).                                             *)
RetractionsCorrelated ==
  [][\A p \in Partitions, r \in RuleIds : \A alert \in Emitted(p, r) :
       LET announced == {earlier \in told[p][r] : /\ earlier.label \in {"firing", "repeat"}
                                                  /\ earlier.ts = alert.ts}
       IN (alert.label = "retracted" /\ announced # {}) =>
            \E earlier \in announced : earlier.corr = alert.corr]_idVars
=============================================================================
