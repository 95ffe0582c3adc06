-------------------------- MODULE DeliveryProperties -------------------------
(***************************************************************************)
(* What the delivery of alerts guarantees.                                 *)
(***************************************************************************)
EXTENDS Delivery, SequencesExt

Numbers == 1 .. Len(requests)

\* The state is well formed: a call never makes more attempts than its policy
\* allows (RetryPolicy), and only a call that has begun can still be writing.
TypeOK ==
  /\ overall \in [Counters -> Nat]
  /\ bySink \in [SinkTypes -> [Counters -> Nat]]
  /\ log \in Seq([number : Nat, attempts : Nat, dead : BOOLEAN, retryable : BOOLEAN])
  /\ call \in Calls \cup {NoCall}
  /\ requests \in Seq(Request)
  /\ fate \in Seq({"open", "delivered", "dead", "raised", "crashed"})
  /\ tried \in Seq([attempts : Nat, unsure : BOOLEAN, landed : Nat])
  /\ Len(fate) = Len(requests)
  /\ Len(tried) = Len(requests)
  /\ call # NoCall => Len(requests) > 0 /\ call.attempt <= Current.attempts
  /\ abandoned \subseteq [number : Numbers, attempt : Nat]
  /\ letters \in Seq(Nat)
  /\ objects \in [Objects -> Nat]
  /\ escaped \in [SinkTypes -> Nat]
  /\ cleared \in Nat
  /\ recorded \in Seq(Nat)
  /\ breaks \in 0 .. MaxBreaks

\* 1 if a call for the sink is in one of the phases.
Pending(s, phases) ==
  IF call # NoCall /\ Current.sink = s /\ call.phase \in phases THEN 1 ELSE 0

Total(c) ==
  bySink["stdout"][c] + bySink["file"][c] + bySink["webhook"][c]
    + bySink["queue"][c] + bySink["object_storage"][c] + bySink["custom"][c]

Balanced(s) ==
  /\ bySink[s]["total_requests"] =
       bySink[s]["delivered"] + bySink[s]["dead_letters"] + escaped[s]
         + Pending(s, {"attempt", "letter"})
  /\ bySink[s]["total_attempts"] + bySink[s]["unsupported"] =
       bySink[s]["delivered"] + bySink[s]["failed"]
  /\ bySink[s]["failed"] =
       bySink[s]["dead_letters"] + bySink[s]["retries_attempted"]
         + Pending(s, {"letter"})
  /\ bySink[s]["retries_attempted"] <= bySink[s]["retryable_failures"]

\* The counters of every sink balance in every state, also while a call is in
\* progress and after exceptions, and add up to the overall ones
\* (_increment_metrics, at its places in deliver): a request is delivered,
\* dead-lettered, ended by an adapter's exception, or in progress; an attempt
\* is delivered or failed; a failure leads to a retry or to a dead letter.
Accounting ==
  /\ \A c \in Counters : overall[c] = Total(c)
  /\ \A s \in SinkTypes : Balanced(s)

Logged(n) == n > cleared /\ fate[n] \in {"delivered", "dead"}

\* The log has, in order, one entry for each call that has returned since it was
\* cleared and for no other, with the attempts really made; and a request is given
\* up with a failure that could be retried only after all attempts.
LogExact ==
  /\ {log[i].number : i \in DOMAIN log} = {n \in Numbers : Logged(n)}
  /\ \A i, j \in DOMAIN log : i < j => log[i].number < log[j].number
  /\ \A i \in DOMAIN log :
       LET e == log[i] IN
         /\ e.attempts = tried[e.number].attempts
         /\ e.dead <=> fate[e.number] = "dead"
         /\ e.dead /\ e.retryable => e.attempts = requests[e.number].attempts

\* The dead-letter file holds the newest records, at least MaxRecords of them,
\* except while it is rewritten and what a rewrite that was cut short has lost;
\* after a call that wrote one it holds no more than MaxRecords
\* (FileDeadLetterStore.record).
NewestLetters ==
  Store = "file" =>
    /\ ~InPhase("rewrite") =>
         /\ IsSuffix(letters, recorded)
         /\ Len(letters) >= MaxRecords \/ letters = recorded
    /\ call = NoCall /\ requests # << >> /\ Last(fate) = "dead" =>
         Len(letters) <= MaxRecords

\* A destination receives an alert twice, or one that was given up, only if the
\* answer to an attempt did not tell whether it was received: a timeout, an
\* error of the server, the connection or the disk, an exception, a crash (retries in
\* deliver, writes that _run_with_timeout abandons).
CopiesExplained ==
  \A n \in Numbers :
    LET t == tried[n] IN
      /\ ~t.unsure => t.landed = IF fate[n] = "delivered" THEN 1 ELSE 0
      /\ fate[n] = "delivered" => t.landed > 0
      /\ fate[n] \notin {"crashed", "raised"} => t.landed <= t.attempts

\* README.md promises at-least-once delivery. Once an object-storage call has
\* reported an alert delivered, the alert can be read there.
DeliveredObjectsKept ==
  \A n \in Numbers :
    fate[n] = "delivered" /\ requests[n].sink = "object_storage" =>
      LET holder == objects[requests[n].object] IN
        holder # 0 /\ requests[holder].alert = requests[n].alert
=============================================================================
