--------------------------- MODULE EpisodeProtocol ---------------------------
(***************************************************************************)
(* What a consumer of alerts is promised.  The alerts of one rule in one   *)
(* partition form a track.  On a track that is tracked an episode opens    *)
(* with a firing alert, is followed by repeats and closes with a           *)
(* resolution or a retraction, and all its alerts carry the instant it     *)
(* opened at.  A repeat is a gap after the alert before it, or a reminder  *)
(* one interval after it.  A retraction while no episode is open carries   *)
(* no instant.  Nothing keeps an episode from opening at the instant an    *)
(* earlier one did.  An untracked track fires alerts that carry no instant.*)
(***************************************************************************)
EXTENDS Integers, Sequences

CONSTANTS
  Tracks,      \* the tracks
  Times,       \* the instants alerts may carry
  Tracked,     \* the tracks whose rule has an emit block
  Resolving,   \* those whose rule announces the end of an episode
  Revising,    \* those whose rule takes verdicts back
  MinGap,      \* how long alerts of an episode are held back, by track, or 0
  Interval,    \* how long after an alert a reminder follows, by track, or 0
  None         \* no instant

VARIABLES
  opened,      \* when the open episode of a track started, or None
  lastSaid,    \* when it was last heard of, or None
  heard        \* the alerts of the call in progress, by track

vars == <<opened, lastSaid, heard>>

Saying(label, t, start) == [label |-> label, ts |-> t, corr |-> start]

\* The alerts continue those of the call in progress or begin those of a call.
Say(k, alerts) == heard'[k] \in {heard[k] \o alerts, alerts}
Becomes(k, start, said) == opened'[k] = start /\ lastSaid'[k] = said

Init ==
  /\ opened = [k \in Tracks |-> None]
  /\ lastSaid = [k \in Tracks |-> None]
  /\ heard = [k \in Tracks |-> << >>]

Silence(k) == Say(k, << >>) /\ Becomes(k, opened[k], lastSaid[k])

FireUntracked(k, t) ==
  /\ k \notin Tracked
  /\ Say(k, <<Saying("firing", t, None)>>)
  /\ Becomes(k, opened[k], lastSaid[k])

Fire(k, t) ==
  /\ k \in Tracked
  /\ opened[k] = None
  /\ Say(k, <<Saying("firing", t, t)>>)
  /\ Becomes(k, t, t)

Spaced(k, t) == MinGap[k] > 0 => t - lastSaid[k] >= MinGap[k]
Reminds(k, t) == Interval[k] > 0 /\ t = lastSaid[k] + Interval[k]

Repeat(k, t) ==
  /\ k \in Tracked
  /\ opened[k] # None
  /\ Spaced(k, t) \/ Reminds(k, t)
  /\ Say(k, <<Saying("repeat", t, opened[k])>>)
  /\ Becomes(k, opened[k], t)

Resolve(k, t) ==
  /\ k \in Resolving
  /\ opened[k] # None
  /\ Say(k, <<Saying("resolved", t, opened[k])>>)
  /\ Becomes(k, None, None)

\* A reminder may fall due at the very instant the episode ends.
RemindAndResolve(k, t) ==
  /\ k \in Resolving
  /\ opened[k] # None
  /\ Reminds(k, t)
  /\ Say(k, <<Saying("repeat", t, opened[k]), Saying("resolved", t, opened[k])>>)
  /\ Becomes(k, None, None)

\* The verdict behind an alert is taken back, and the open episode with it.
Retract(k, t) ==
  /\ k \in Revising
  /\ opened[k] # None
  /\ Say(k, <<Saying("retracted", t, opened[k])>>)
  /\ Becomes(k, None, None)

\* It is taken back after the episode has ended, or without one.
RetractEnded(k, t) ==
  /\ k \in Revising
  /\ opened[k] = None
  /\ Say(k, <<Saying("retracted", t, None)>>)
  /\ Becomes(k, None, None)

TrackStep(k) ==
  \/ Silence(k)
  \/ \E t \in Times :
       \/ FireUntracked(k, t)
       \/ Fire(k, t)
       \/ Repeat(k, t)
       \/ Resolve(k, t)
       \/ RemindAndResolve(k, t)
       \/ Retract(k, t)
       \/ RetractEnded(k, t)

\* The tracks are independent and may move together.
Next ==
  /\ DOMAIN opened' = Tracks /\ DOMAIN lastSaid' = Tracks /\ DOMAIN heard' = Tracks
  /\ \A k \in Tracks : TrackStep(k)

Spec == Init /\ [][Next]_vars
=============================================================================
