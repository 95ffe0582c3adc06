---------------------------- MODULE MCCheckpoint -----------------------------
(* Instances of the engine with checkpoints for TLC. *)
EXTENDS Checkpoint, RuleSets

PlainEvents == EventsAt(0 .. MaxTime)

ToOtherWindows == {LowerHop, WiderHop, NoRules}
=============================================================================
