------------------------------ MODULE Episodes -------------------------------
(***************************************************************************)
(* The alert lifecycle of one rule in one partition: an episode opens with *)
(* a firing alert, repeats while it is open and closes with a resolution.  *)
(* Every operator returns the state the rule is left in and what it emits. *)
(***************************************************************************)
EXTENDS Conditions

\* What handling one event or one timer does to the state of a rule: whether
\* an emission was held back by the cooldown, and whether an episode was
\* resolved, which ends a drain.
Outcome == [state : RuleState, alerts : Seq(Alert),
            suppressed : BOOLEAN, resolved : BOOLEAN]

Silent(st) ==
  [state |-> st, alerts |-> << >>, suppressed |-> FALSE, resolved |-> FALSE]

Then(first, second) ==
  [state |-> second.state, alerts |-> first.alerts \o second.alerts,
   suppressed |-> first.suppressed \/ second.suppressed,
   resolved |-> first.resolved \/ second.resolved]

\* A rule without an emit block has no episodes, so its alerts carry no start.
BuildAlert(rule, st, label, ts) ==
  [label |-> label, ts |-> ts,
   corr |-> IF HasLifecycle(rule) THEN st.episodeStarted ELSE Unset]

Emitting(rule, st, label, ts) ==
  [Silent(st) EXCEPT !.alerts = <<BuildAlert(rule, st, label, ts)>>]

\* Mutant: repeat_every does not hold emissions back.
GapOfCooldown(rule) == rule.cooldown

Gap(rule) == MaxOf(rule.cooldown, rule.repeatEvery)

EpisodeOpen(st) == st.episodeStarted # Unset

LastEmission(st) == IF st.lastEmit # Unset THEN st.lastEmit ELSE st.episodeStarted

Withheld(rule, st, now) ==
  /\ HasLifecycle(rule)
  /\ EpisodeOpen(st)
  /\ Gap(rule) > 0
  /\ now - LastEmission(st) < Gap(rule)

LifecycleLabel(rule, st) ==
  IF HasLifecycle(rule) /\ EpisodeOpen(st) THEN "repeat" ELSE "firing"

\* Mutant: every emission begins an episode anew.
NoteEmissionAnew(rule, st, now) ==
  IF ~HasLifecycle(rule) THEN st
  ELSE [st EXCEPT !.episodeStarted = now, !.lastEmit = now,
                  !.nextRepeat = IF rule.repeatEvery > 0
                                 THEN now + rule.repeatEvery ELSE @]

NoteEmission(rule, st, now) ==
  IF ~HasLifecycle(rule) THEN st
  ELSE [st EXCEPT !.episodeStarted = IF EpisodeOpen(st) THEN @ ELSE now,
                  !.lastEmit = now,
                  !.nextRepeat = IF rule.repeatEvery > 0
                                 THEN now + rule.repeatEvery ELSE @]

\* The condition of the rule holds at now.
EmitEpisode(rule, st, now) ==
  IF Withheld(rule, st, now)
  THEN [Silent(st) EXCEPT !.suppressed = TRUE]
  ELSE Emitting(rule, NoteEmission(rule, st, now), LifecycleLabel(rule, st), now)

CloseEpisode(st) ==
  [st EXCEPT !.episodeStarted = Unset, !.lastEmit = Unset, !.nextRepeat = Unset]

\* Mutant: the end of an episode does not end its drain.
ResolveEpisodeUndrained(rule, st, now) ==
  IF ~rule.resolve \/ ~EpisodeOpen(st) THEN Silent(st)
  ELSE [Emitting(rule, st, "resolved", now) EXCEPT !.state = CloseEpisode(st)]

\* The condition of the rule has cleared at now.
ResolveEpisode(rule, st, now) ==
  IF ~rule.resolve \/ ~EpisodeOpen(st) THEN Silent(st)
  ELSE [Emitting(rule, st, "resolved", now) EXCEPT !.state = CloseEpisode(st),
                                                   !.resolved = TRUE]

\* Mutant: a reminder is sent one instant after it is due.
ReminderOverdue(rule, st, now) ==
  EpisodeOpen(st) /\ st.nextRepeat # Unset /\ st.nextRepeat < now /\ rule.repeatEvery > 0

ReminderDue(rule, st, now) ==
  /\ EpisodeOpen(st)
  /\ st.nextRepeat # Unset
  /\ st.nextRepeat <= now
  /\ rule.repeatEvery > 0

\* Mutant: a reminder does not count as an emission.
RemindUnnoted(rule, st, now) ==
  IF ~ReminderDue(rule, st, now) THEN Silent(st)
  ELSE Emitting(rule, [st EXCEPT !.nextRepeat = now + rule.repeatEvery], "repeat", now)

\* The reminder a timer sends for an episode that is still open.
Remind(rule, st, now) ==
  IF ~ReminderDue(rule, st, now) THEN Silent(st)
  ELSE Emitting(rule, [st EXCEPT !.lastEmit = now,
                                 !.nextRepeat = now + rule.repeatEvery],
                "repeat", now)
=============================================================================
