------------------------------ MODULE MCEngine -------------------------------
(* Instances of the engine for TLC. *)
EXTENDS EngineClaims, RuleSets

PlainEvents == EventsAt(0 .. MaxTime)

ToResolving == {ResolvingRules}
=============================================================================
