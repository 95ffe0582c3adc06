----------------------------- MODULE MCEpisodeIds ----------------------------
(* Instances of the engine with the history of its episodes for TLC. *)
EXTENDS EpisodeIds, RuleSets

PlainEvents == EventsAt(0 .. MaxTime)
=============================================================================
