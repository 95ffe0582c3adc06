------------------------- MODULE DeliveryRefinement --------------------------
(***************************************************************************)
(* Deliveries keep what DeliveryProtocol promises.                         *)
(***************************************************************************)
EXTENDS DeliveryProperties

\* While the file is rewritten its records are in memory.
Promised == INSTANCE DeliveryProtocol WITH
  Recording <- Store # "none",
  copies <- [n \in Numbers |-> tried[n].landed],
  kept <- ToSet(IF InPhase("rewrite") THEN call.kept ELSE letters)

(* A call of deliver has one end, comes to it, and leaves what its answer   *)
(* says: a copy at the destination, or a dead letter in the store, whatever *)
(* retries, retention, exceptions and late writes it met (deliver,          *)
(* FileDeadLetterStore.record).                                             *)
DeliveryFollowsProtocol == Promised!Spec
=============================================================================
