--------------------------- MODULE EngineEpisodes ----------------------------
(***************************************************************************)
(* The alerts of every rule in every partition of the engine follow the    *)
(* episode protocol.                                                       *)
(***************************************************************************)
EXTENDS Explain

EveryTrack == Partitions \X RuleIds

Protocol == INSTANCE EpisodeProtocol WITH
  Tracks <- EveryTrack,
  Times <- 0 .. MaxTime,
  Tracked <- {k \in EveryTrack : HasLifecycle(InitialRules[k[2]])},
  Resolving <- {k \in EveryTrack : InitialRules[k[2]].resolve},
  Revising <- {k \in EveryTrack : RecomputeLate /\ InitialRules[k[2]].trigger = "window"},
  MinGap <- [k \in EveryTrack |-> Gap(InitialRules[k[2]])],
  Interval <- [k \in EveryTrack |-> InitialRules[k[2]].repeatEvery],
  None <- Unset,
  opened <- [k \in EveryTrack |->
               IF states[k[1]][k[2]] = NoState THEN Unset
               ELSE states[k[1]][k[2]].episodeStarted],
  lastSaid <- [k \in EveryTrack |->
                 IF states[k[1]][k[2]] = NoState THEN Unset
                 ELSE states[k[1]][k[2]].lastEmit],
  heard <- [k \in EveryTrack |-> out[k[1]][k[2]]]

(* The alerts of a rule in a partition form episodes, one after another:    *)
(* one firing, repeats that keep the gap or are reminders, at most one      *)
(* closing alert, all of them with the id of the episode that is open.      *)
(* It is not promised which episode a retraction belongs to (see            *)
(* RetractionsCorrelated), nor that an id is used once: an episode that     *)
(* opens at the instant an earlier one opened at has its id                 *)
(* (_lifecycle_label, _resolve_episode, _correlation_id).                   *)
EpisodesFollowProtocol == Protocol!Spec
=============================================================================
