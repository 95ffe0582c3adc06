------------------------------ MODULE MCHistory ------------------------------
(* Instances of the engine with its history for TLC. *)
EXTENDS EngineHistory, RuleSets

PlainEvents == EventsAt(0 .. MaxTime)

\* The third source reports at one instant only, in the midst of the others.
SteppedEvents == {ev \in PlainEvents : ev.sensor = "c" => ev.ts = 2}
=============================================================================
