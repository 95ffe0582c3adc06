-------------------------- MODULE DeliveryProtocol ---------------------------
(***************************************************************************)
(* What the engine is promised of a delivery.  Requests are made one at a  *)
(* time, and each has one end, which never changes afterwards: delivered,  *)
(* and then a copy has reached the destination; dead, and then its dead    *)
(* letter is in the store at that moment; or an exception, the one end the *)
(* caller is not told by an answer; unless the process stops.  Copies may  *)
(* reach a destination at any time, also after the end.                    *)
(***************************************************************************)
EXTENDS Naturals, Sequences

CONSTANT Recording     \* dead letters are kept

VARIABLES
  fate,       \* how each request ended, "open" while it is in progress
  copies,     \* the copies its destination has received
  kept        \* the requests whose dead letter is in the store

vars == <<fate, copies, kept>>

Newest == Len(fate)
InProgress == fate # << >> /\ fate[Newest] = "open"

Init == fate = << >> /\ copies = << >> /\ kept \subseteq {0}

Request ==
  /\ ~InProgress
  /\ fate' = Append(fate, "open")
  /\ copies' = Append(copies, 0)
  /\ kept' = kept

Arrives(n) == copies' = [copies EXCEPT ![n] = @ + 1]

Arrival ==
  /\ \E n \in DOMAIN copies : Arrives(n)
  /\ UNCHANGED <<fate, kept>>

\* A dead letter is recorded, and older ones may be given up for it.
Bury ==
  /\ InProgress
  /\ kept' \subseteq kept \cup {Newest}
  /\ UNCHANGED <<fate, copies>>

Ends(how) == InProgress /\ fate' = [fate EXCEPT ![Newest] = how]

Succeed ==
  /\ Ends("delivered")
  /\ copies' = copies \/ Arrives(Newest)
  /\ copies'[Newest] > 0
  /\ kept' = kept

GiveUp ==
  /\ Ends("dead")
  /\ kept' \subseteq kept
  /\ Recording => Newest \in kept'
  /\ copies' = copies

Fail ==
  /\ Ends("raised") \/ Ends("crashed")
  /\ copies' = copies \/ Arrives(Newest)
  /\ kept' \subseteq kept \cup {Newest}

\* The process stops between two requests.
Stop ==
  /\ ~InProgress
  /\ kept' \subseteq kept
  /\ UNCHANGED <<fate, copies>>

Next == Request \/ Arrival \/ Bury \/ Succeed \/ GiveUp \/ Fail \/ Stop

Spec == Init /\ [][Next]_vars /\ (InProgress ~> ~InProgress)
=============================================================================
