---------------------------- MODULE EngineClaims -----------------------------
(***************************************************************************)
(* What the documentation says of the engine and the code does not keep.   *)
(* Each claim is refuted by a run of its own; the rules of that run are in *)
(* module RuleSets.                                                        *)
(***************************************************************************)
EXTENDS EngineEpisodes

(* An absence rule fires when no matching event arrives within its timeout  *)
(* (README.md, Triggers), and an entity running ahead does not make the     *)
(* events of another look late (docs/rule-language.md, Late Events): no     *)
(* episode stays open over a source that has reported within the timeout.   *)
AbsenceEpisodeJustified ==
  IsIdle => \A q \in LiveOf("absence") :
    LET rule == rules[q[2]]
        st == states[q[1]][q[2]]
    IN EpisodeOpen(st) => watermark >= st.lastSeen[rule.sensors[1]] + rule.timeout
=============================================================================
