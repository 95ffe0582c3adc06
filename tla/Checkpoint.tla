----------------------------- MODULE Checkpoint ------------------------------
(***************************************************************************)
(* Snapshot and restore.  A checkpoint of the engine is written between    *)
(* two calls; the process may stop at any later moment, in the middle of a *)
(* call or after a delivery raised; a new engine is built from the         *)
(* checkpoint, under the same rules or under others; and the caller makes  *)
(* the calls again that came after the checkpoint.  One restart is         *)
(* explored per behaviour.                                                 *)
(***************************************************************************)
EXTENDS Interruption

CONSTANTS
  NoCheckpoint,
  MaxJournal     \* bound on the calls made after a checkpoint

ASSUME JournalAssumption == MaxJournal \in Nat

VARIABLES
  saved,      \* the checkpoint, and the rules of the engine it was taken from
  journal,    \* the calls begun since, each with the alerts it delivered
  again       \* how many of them the restored engine was given; Unset before

checkpointVars == <<saved, journal, again>>

-----------------------------------------------------------------------------
\* Documents

\* Mutant: the reminder of an episode is not written.
StoredForgetful(st) ==
  [buffered_events |-> st.buffer,
   last_seen |-> [s \in {s \in Sensors : st.lastSeen[s] # Unset} |-> st.lastSeen[s]],
   absence_fired |-> st.absenceFired,
   source_absent |-> st.absent,
   composite_active |-> st.compositeActive,
   next_window_end |-> st.nextWindowEnd,
   next_schedule_fire |-> st.nextSchedule,
   last_schedule_fire |-> st.lastSchedule,
   closed_windows |-> [end \in st.closed |-> end \in st.held],
   partial_matches |-> st.partial,
   episode_started |-> st.episodeStarted,
   last_emit |-> st.lastEmit,
   next_repeat_fire |-> Unset]

Stored(st) ==
  [buffered_events |-> st.buffer,
   last_seen |-> [s \in {s \in Sensors : st.lastSeen[s] # Unset} |-> st.lastSeen[s]],
   absence_fired |-> st.absenceFired,
   source_absent |-> st.absent,
   composite_active |-> st.compositeActive,
   next_window_end |-> st.nextWindowEnd,
   next_schedule_fire |-> st.nextSchedule,
   last_schedule_fire |-> st.lastSchedule,
   closed_windows |-> [end \in st.closed |-> end \in st.held],
   partial_matches |-> st.partial,
   episode_started |-> st.episodeStarted,
   last_emit |-> st.lastEmit,
   next_repeat_fire |-> st.nextRepeat]

Loaded(doc) ==
  [buffer |-> doc.buffered_events,
   lastSeen |-> [s \in Sensors |-> IF s \in DOMAIN doc.last_seen THEN doc.last_seen[s]
                                   ELSE Unset],
   absenceFired |-> doc.absence_fired,
   absent |-> doc.source_absent,
   compositeActive |-> doc.composite_active,
   nextWindowEnd |-> doc.next_window_end,
   nextSchedule |-> doc.next_schedule_fire,
   lastSchedule |-> doc.last_schedule_fire,
   partial |-> doc.partial_matches,
   closed |-> DOMAIN doc.closed_windows,
   held |-> {end \in DOMAIN doc.closed_windows : doc.closed_windows[end]},
   episodeStarted |-> doc.episode_started,
   lastEmit |-> doc.last_emit,
   nextRepeat |-> doc.next_repeat_fire]

\* The rules of which something is recorded, by what is recorded of them.
Loadable(rs) == {r \in RuleIds : rs[r] # NoRule}

\* Drains and a staged reload are not part of it.
Snapshot ==
  [watermark |-> watermark,
   entities |-> [p \in known |-> [r \in {r \in RuleIds : states[p][r] # NoState} |->
                                    Stored(states[p][r])]],
   rule_fingerprints |-> [r \in Loadable(rules) |-> Fingerprint(rules[r])],
   late_event_metrics |-> [counters |-> late, byRule |-> lateBy],
   suppressed_counts |-> suppressed,
   floor_watermark |-> floor,
   entity_watermarks |-> entityWm]

\* Mutant: a snapshot is loaded into any rules.
AcceptsAny(doc, rs) == TRUE

\* Restore refuses a rule that has changed its structure.
Accepts(doc, rs) ==
  \A r \in Loadable(rs) \cap DOMAIN doc.rule_fingerprints :
    doc.rule_fingerprints[r] = Fingerprint(rs[r])

\* The engine restore builds: a new one, and then what the document holds for
\* the rules there are.
Restored(doc, rs) ==
  /\ rules' = rs
  /\ watermark' = doc.watermark
  /\ known' = DOMAIN doc.entities
  /\ states' = [p \in Partitions |-> [r \in RuleIds |->
                  IF p \in DOMAIN doc.entities
                     /\ r \in Loadable(rs) \cap DOMAIN doc.entities[p]
                  THEN Loaded(doc.entities[p][r]) ELSE NoState]]
  /\ suppressed' = doc.suppressed_counts
  /\ entityWm' = doc.entity_watermarks
  /\ floor' = doc.floor_watermark
  /\ late' = doc.late_event_metrics.counters
  /\ lateBy' = doc.late_event_metrics.byRule
  /\ draining' = [r \in RuleIds |-> NoDrain]
  /\ pending' = NoReload
  /\ call' = Idle
  /\ out' = Quiet

-----------------------------------------------------------------------------
\* The calls of the program around the engine

Calls ==
  [kind : {"event"}, event : Offered]
  \cup [kind : {"advance"}, to : 0 .. MaxTime]
  \cup [kind : {"reload"}, rules : Reloads, policy : ReloadPolicies]
  \cup [kind : {"stage"}, rules : Reloads, policy : ReloadPolicies, at : 0 .. MaxTime]

Make(c) ==
  \/ c.kind = "event" /\ ProcessEvent(c.event)
  \/ c.kind = "advance" /\ (FirstAdvance(c.to) \/ AdvanceTo(c.to))
  \/ c.kind = "reload" /\ ReloadNow(c.rules, c.policy)
  \/ c.kind = "stage" /\ StageReload(c.rules, c.policy, c.at)

Watching == saved # NoCheckpoint /\ again = Unset
Replaying == saved # NoCheckpoint /\ again # Unset

\* whole says whether the call returned to its caller.
Entry(c, raises) ==
  [call |-> c, delivered |-> out', whole |-> call'.stage = "idle" /\ ~raises]

Begun(c, raises) ==
  journal' = IF Watching THEN Append(journal, Entry(c, raises)) ELSE journal

Gone(raises) ==
  journal' = IF Watching /\ journal # << >>
             THEN [journal EXCEPT ![Len(journal)] = Entry(@.call, raises)]
             ELSE journal

\* A caller that goes on after an exception makes other alerts than one that
\* starts again, so what follows is not compared.
Comparable ==
  Watching => /\ Len(journal) < MaxJournal
              /\ \A i \in DOMAIN journal : journal[i].whole

NewCall ==
  /\ ~Replaying
  /\ Comparable
  /\ \E c \in Calls : /\ Make(c)
                      /\ Begun(c, FALSE)
  /\ UNCHANGED <<faultVars, saved, again>>

NewCallRaises ==
  /\ ~Replaying
  /\ Comparable
  /\ \E c \in Calls : /\ c.kind = "event" /\ InterruptedAtOnce(c.event)
                      /\ Begun(c, TRUE)
  /\ UNCHANGED <<saved, again>>

\* A journaled call is made again.
OldCall ==
  /\ Replaying
  /\ again < Len(journal)
  /\ Make(journal[again + 1].call)
  /\ again' = again + 1
  /\ UNCHANGED <<faultVars, saved, journal>>

CallProceeds ==
  /\ Proceed
  /\ Gone(FALSE)
  /\ UNCHANGED <<saved, again>>

CallRaises ==
  /\ ~Replaying
  /\ Interrupt
  /\ Gone(TRUE)
  /\ UNCHANGED <<saved, again>>

TakeCheckpoint ==
  /\ saved = NoCheckpoint /\ again = Unset
  /\ IsIdle
  /\ saved' = [document |-> Snapshot, rules |-> rules,
               served |-> served, disturbed |-> disturbed,
               exact |-> /\ pending = NoReload
                         /\ \A r \in RuleIds : draining[r] = NoDrain]
  /\ UNCHANGED <<vars, faultVars, journal, again>>

\* The process stops and an engine with the rules rs takes over.  Under the
\* same rules the caller repeats its calls; under others it goes on.
Restart(rs) ==
  /\ Watching
  /\ Accepts(saved.document, rs)
  /\ Restored(saved.document, rs)
  /\ served' = saved.served
  /\ disturbed' = saved.disturbed
  /\ again' = 0
  /\ IF rs = saved.rules /\ saved.exact
     THEN UNCHANGED <<saved, journal>>
     ELSE saved' = NoCheckpoint /\ journal' = << >>
  /\ UNCHANGED raised

CheckpointInit ==
  InterruptInit /\ saved = NoCheckpoint /\ journal = << >> /\ again = Unset

CheckpointNext ==
  \/ NewCall
  \/ NewCallRaises
  \/ OldCall
  \/ CallProceeds
  \/ CallRaises
  \/ TakeCheckpoint
  \/ \E rs \in {InitialRules} \cup Reloads : Restart(rs)

CheckpointSpec ==
  CheckpointInit /\ [][CheckpointNext]_<<vars, faultVars, checkpointVars>>

-----------------------------------------------------------------------------
(* A restored engine gives the alerts the first one gave, call by call, and *)
(* for the call the first one did not survive at least those it delivered   *)
(* (docs/embedding-examples.md, Checkpoint And Resume; not for a checkpoint *)
(* taken in a drain or with a reload staged, see its Limitation).           *)
RecoversExactly ==
  (Replaying /\ IsIdle /\ again > 0) =>
    LET entry == journal[again]
    IN \A p \in Partitions, r \in RuleIds :
         IF entry.whole THEN out[p][r] = entry.delivered[p][r]
         ELSE /\ Len(entry.delivered[p][r]) <= Len(out[p][r])
              /\ entry.delivered[p][r] = SubSeq(out[p][r], 1, Len(entry.delivered[p][r]))
=============================================================================
