---------------------------- MODULE MCInterruption ---------------------------
(* Instances of the engine with deliveries that raise, for TLC. *)
EXTENDS Interruption, RuleSets

ZonedEvents == ZonedEventsAt(0 .. MaxTime)

ToOtherZones == {StricterZone, PerEntity}
=============================================================================
