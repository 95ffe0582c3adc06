----------------------------- MODULE MCDelivery ------------------------------
(* Instances of the delivery of alerts for TLC. *)
EXTENDS DeliveryRefinement

To(sink, alert, timed, retryable, attempts) ==
  [sink |-> sink, alert |-> alert, object |-> "second", target |-> TRUE,
   timed |-> timed, retryable |-> retryable, attempts |-> attempts]

\* An action with a sink of each kind.
EverySink ==
  {To("stdout", "a", FALSE, FALSE, 2), To("file", "a", TRUE, FALSE, 2),
   To("webhook", "a", FALSE, FALSE, 2), To("queue", "a", FALSE, TRUE, 2),
   To("object_storage", "a", TRUE, FALSE, 2), To("custom", "a", FALSE, FALSE, 2),
   [To("webhook", "a", FALSE, FALSE, 2) EXCEPT !.target = FALSE]}

\* Alerts of two entities, stored.
TwoEntities ==
  {To("object_storage", a, TRUE, FALSE, 2) : a \in {"a", "b"}}
=============================================================================
