--------------------------- MODULE DeliveryProofs ----------------------------
(***************************************************************************)
(* The accounting of deliveries holds for every number of requests, every  *)
(* retry policy and every kind of dead-letter store.  The proof follows    *)
(* the phases of a call: each counter that a step raises is matched by     *)
(* another one or by the call that is pending.  The log, the copies at the *)
(* destinations and the dead letters follow, each with the part of a call  *)
(* that is still owed, and then the promise made to the engine.            *)
(***************************************************************************)
EXTENDS DeliveryRefinement, SequenceTheorems, FiniteSetTheorems, TLAPS

\* What a step that counts leaves in the counters of all sinks.
LEMMA CountEffect ==
  ASSUME TypeOK, NEW s \in SinkTypes, NEW K, Count(s, K)
  PROVE  /\ overall' \in [Counters -> Nat]
         /\ bySink' \in [SinkTypes -> [Counters -> Nat]]
         /\ \A c \in Counters : overall'[c] = overall[c] + IF c \in K THEN 1 ELSE 0
         /\ \A c \in Counters : bySink'[s][c] = bySink[s][c] + IF c \in K THEN 1 ELSE 0
         /\ \A t \in SinkTypes \ {s} : bySink'[t] = bySink[t]
<1>1. /\ overall \in [Counters -> Nat]
      /\ bySink \in [SinkTypes -> [Counters -> Nat]]
  BY DEF TypeOK
<1>2. \A m \in [Counters -> Nat] :
        /\ Merge(m, K) \in [Counters -> Nat]
        /\ \A c \in Counters : Merge(m, K)[c] = m[c] + IF c \in K THEN 1 ELSE 0
  BY DEF Merge
<1>3. /\ overall' = Merge(overall, K)
      /\ bySink' = [bySink EXCEPT ![s] = Merge(@, K)]
  BY DEF Count
<1>4. bySink[s] \in [Counters -> Nat] /\ bySink'[s] = Merge(bySink[s], K)
  BY <1>1, <1>3
<1> QED
  BY <1>1, <1>2, <1>3, <1>4

\* Counting keeps the overall counters the sums of those of the sinks.
LEMMA CountAddsUp ==
  ASSUME TypeOK, NEW s \in SinkTypes, NEW K, Count(s, K),
         \A c \in Counters : overall[c] = Total(c)
  PROVE  \A c \in Counters : overall'[c] = Total(c)'
<1> SUFFICES ASSUME NEW c \in Counters PROVE overall'[c] = Total(c)'
  OBVIOUS
<1> DEFINE one == IF c \in K THEN 1 ELSE 0
<1>1. \A t \in SinkTypes : bySink[t][c] \in Nat
  BY DEF TypeOK
<1>2. one \in Nat
  OBVIOUS
<1>3. \A t \in SinkTypes : bySink'[t][c] = bySink[t][c] + IF t = s THEN one ELSE 0
  BY <1>1, CountEffect
<1>4. overall'[c] = Total(c) + one
  BY CountEffect
<1> HIDE DEF one
<1> QED
  BY <1>1, <1>2, <1>3, <1>4 DEF Total, SinkTypes

-----------------------------------------------------------------------------
\* Types

LEMMA LastOfType ==
  ASSUME NEW s \in Seq(Nat), NEW n \in Nat \ {0}
  PROVE  LastOf(s, n) \in Seq(Nat)
<1>1. CASE Len(s) <= n
  BY <1>1 DEF LastOf
<1>2. CASE ~(Len(s) <= n)
  <2>1. Len(s) - n + 1 \in 1 .. Len(s) + 1 /\ Len(s) \in Nat
    BY <1>2
  <2>2. SubSeq(s, Len(s) - n + 1, Len(s)) \in Seq(Nat)
    BY <2>1, SubSeqProperties
  <2> QED
    BY <1>2, <2>2 DEF LastOf
<1> QED
  BY <1>1, <1>2

\* The request of the call in progress.
LEMMA CurrentType ==
  ASSUME TypeOK, call # NoCall
  PROVE  /\ Current \in Request
         /\ Current.sink \in SinkTypes
         /\ Len(requests) \in Nat \ {0}
         /\ call \in Calls
<1>1. Len(requests) \in Nat /\ Len(requests) > 0 /\ requests \in Seq(Request)
  BY DEF TypeOK
<1>2. Current \in Request
  BY <1>1 DEF Current
<1>3. Current.sink \in SinkTypes
  BY <1>2 DEF Request
<1>4. call \in Calls
  BY DEF TypeOK
<1> QED
  BY <1>1, <1>2, <1>3, <1>4

LEMMA BegunType ==
  ASSUME TypeOK, NEW q \in Request, NEW phase \in {"attempt", "letter"},
         NEW attempt \in {0, 1}, Begun(q, phase, attempt),
         overall' \in [Counters -> Nat],
         bySink' \in [SinkTypes -> [Counters -> Nat]]
  PROVE  TypeOK'
<1>1. /\ requests' \in Seq(Request)
      /\ Len(requests') = Len(requests) + 1
      /\ requests'[Len(requests')] = q
  BY DEF TypeOK, Begun
<1>2. /\ fate' \in Seq({"open", "delivered", "dead", "raised", "crashed"})
      /\ Len(fate') = Len(fate) + 1
  BY DEF TypeOK, Begun
<1>3. /\ tried' \in Seq([attempts : Nat, unsure : BOOLEAN, landed : Nat])
      /\ Len(tried') = Len(tried) + 1
  BY DEF TypeOK, Begun
<1>4. call' \in Calls /\ call'.attempt = attempt
  BY DEF Begun, Calls
<1>5. Numbers \subseteq Numbers'
  BY <1>1 DEF Numbers, TypeOK
<1>6. attempt <= q.attempts
  BY SMTT(30) DEF Request
<1> QED
  BY <1>1, <1>2, <1>3, <1>4, <1>5, <1>6 DEF TypeOK, Begun, world, Current

Outcome ==
  [status : {"delivered", "failed"}, retryable : BOOLEAN,
   write : {"now", "later", "never"}]

LEMMA OutcomesType ==
  ASSUME NEW q \in Request
  PROVE  Outcomes(q) \subseteq Outcome
<1>1. Success \in Outcome
  BY DEF Success, Outcome
<1>2. \A r \in BOOLEAN : \A writes \in SUBSET {"now", "later", "never"} :
        Failures(r, writes) \subseteq Outcome
  BY DEF Failures, Outcome
<1>3. TimedOut(q) \subseteq Outcome
  BY <1>2 DEF TimedOut
<1>4. q.retryable \in BOOLEAN /\ q.sink \in SinkTypes
  BY DEF Request
<1>5. /\ FileSink(q) \subseteq Outcome
      /\ WebhookSink(q) \subseteq Outcome
      /\ QueueSink(q) \subseteq Outcome
  BY <1>1, <1>2, <1>3, <1>4 DEF FileSink, WebhookSink, QueueSink
<1>6. ObjectStorageSink(q) \subseteq Outcome
  BY <1>3, <1>5 DEF ObjectStorageSink
<1>7. q.target \in BOOLEAN
  BY DEF Request
<1> QED
  BY <1>1, <1>2, <1>4, <1>5, <1>6, <1>7 DEF Outcomes, SinkTypes

LEMMA StoredType ==
  ASSUME TypeOK, NEW n \in Numbers
  PROVE  Stored(n) \in [Objects -> Nat]
<1>1. objects \in [Objects -> Nat] /\ n \in Nat
  BY DEF TypeOK, Numbers
<1> QED
  BY <1>1 DEF Stored

\* The variables an attempt changes, whatever comes of it.
LEMMA AttemptedType ==
  ASSUME TypeOK, call # NoCall, NEW o \in Outcome, Attempted(o)
  PROVE  /\ tried' \in Seq([attempts : Nat, unsure : BOOLEAN, landed : Nat])
         /\ Len(tried') = Len(tried)
         /\ objects' \in [Objects -> Nat]
         /\ abandoned' \subseteq [number : Numbers, attempt : Nat]
<1>1. Len(requests) \in Numbers /\ call.attempt \in Nat
  BY CurrentType DEF Numbers, Calls
<1>2. objects' \in [Objects -> Nat]
  BY <1>1, StoredType DEF Attempted, TypeOK
<1>3. abandoned' \subseteq [number : Numbers, attempt : Nat]
  BY <1>1 DEF Attempted, TypeOK
<1> DEFINE T == [attempts : Nat, unsure : BOOLEAN, landed : Nat]
           t == tried[Len(tried)]
           new == [attempts |-> t.attempts + 1,
                   unsure |-> t.unsure \/ (o.status = "failed" /\ o.write # "never"),
                   landed |-> t.landed + IF o.write = "now" THEN 1 ELSE 0]
<1>4. tried \in Seq(T) /\ Len(tried) \in 1 .. Len(tried)
  BY CurrentType DEF TypeOK
<1>5. t \in T
  <2> HIDE DEF T
  <2> QED
    BY <1>4
<1>6. new \in T
  BY <1>5
<1>7. tried' = [tried EXCEPT ![Len(tried)] = new]
  BY DEF Attempted
<1> HIDE DEF T, t, new
<1>8. tried' \in Seq(T) /\ Len(tried') = Len(tried)
  BY <1>4, <1>6, <1>7, ExceptSeq
<1> QED
  BY <1>2, <1>3, <1>8 DEF T

\* A write that lands is one more copy of its call.
LEMMA CopiedType ==
  ASSUME TypeOK, NEW n \in Numbers, NEW u \in BOOLEAN,
         tried' = [tried EXCEPT ![n] = Copied(@, u)]
  PROVE  /\ tried' \in Seq([attempts : Nat, unsure : BOOLEAN, landed : Nat])
         /\ Len(tried') = Len(tried)
<1> DEFINE T == [attempts : Nat, unsure : BOOLEAN, landed : Nat]
           new == Copied(tried[n], u)
<1>1. tried \in Seq(T) /\ n \in 1 .. Len(tried)
  BY DEF TypeOK, Numbers
<1>2. tried[n] \in T
  <2> HIDE DEF T
  <2> QED
    BY <1>1
<1>3. new \in T
  BY <1>2 DEF Copied
<1>4. tried' = [tried EXCEPT ![n] = new]
  OBVIOUS
<1> HIDE DEF T, new
<1>5. tried' \in Seq(T) /\ Len(tried') = Len(tried)
  BY <1>1, <1>3, <1>4, ExceptSeq
<1> QED
  BY <1>5 DEF T

LEMMA FateType ==
  ASSUME TypeOK, call # NoCall,
         NEW f \in {"open", "delivered", "dead", "raised", "crashed"},
         fate' = [fate EXCEPT ![Len(fate)] = f]
  PROVE  /\ fate' \in Seq({"open", "delivered", "dead", "raised", "crashed"})
         /\ Len(fate') = Len(fate)
<1> DEFINE F == {"open", "delivered", "dead", "raised", "crashed"}
<1>1. fate \in Seq(F) /\ Len(fate) \in 1 .. Len(fate)
  BY CurrentType DEF TypeOK
<1> HIDE DEF F
<1>2. fate' \in Seq(F) /\ Len(fate') = Len(fate)
  <2>1. f \in F
    BY DEF F
  <2> QED
    BY <1>1, <2>1, ExceptSeq
<1> QED
  BY <1>2 DEF F

LEMMA ReturnType ==
  ASSUME TypeOK, call # NoCall, NEW status \in {"delivered", "dead"},
         NEW retryable \in BOOLEAN, Return(status, retryable)
  PROVE  /\ call' = NoCall
         /\ fate' \in Seq({"open", "delivered", "dead", "raised", "crashed"})
         /\ Len(fate') = Len(fate)
         /\ log' \in Seq([number : Nat, attempts : Nat, dead : BOOLEAN,
                          retryable : BOOLEAN])
<1>1. /\ fate' \in Seq({"open", "delivered", "dead", "raised", "crashed"})
      /\ Len(fate') = Len(fate)
  BY FateType DEF Return
<1> DEFINE E == [number : Nat, attempts : Nat, dead : BOOLEAN, retryable : BOOLEAN]
           e == [number |-> Len(requests), attempts |-> call.attempt,
                 dead |-> status = "dead", retryable |-> retryable]
<1>2. e \in E
  BY CurrentType DEF Calls
<1>3. log \in Seq(E) /\ log' = Append(log, e)
  BY DEF TypeOK, Return
<1> HIDE DEF E, e
<1>4. log' \in Seq(E)
  BY <1>2, <1>3
<1> QED
  BY <1>1, <1>4 DEF E, Return

LEMMA InitType == Init => TypeOK
<1> SUFFICES ASSUME Init PROVE TypeOK
  OBVIOUS
<1>1. letters \in Seq(Nat)
  <2>1. PICK k \in 0 .. IF Store = "file" THEN MaxRecords ELSE 0 : letters \in [1 .. k -> {0}]
    BY DEF Init, Earlier
  <2>2. k \in Nat
    BY <2>1, DeliveryAssumption
  <2> QED
    BY <2>1, <2>2
<1>2. NoMetrics \in [Counters -> Nat]
  BY DEF NoMetrics
<1>3. 0 \in 0 .. MaxBreaks
  BY DeliveryAssumption
<1> QED
  BY <1>1, <1>2, <1>3 DEF Init, TypeOK, Numbers

LEMMA NextType == TypeOK /\ [Next]_vars => TypeOK'
<1> SUFFICES ASSUME TypeOK, [Next]_vars PROVE TypeOK'
  OBVIOUS
<1> USE DEF metrics, world, history
<1>1. ASSUME NEW q \in Requests, Deliver(q) PROVE TypeOK'
  <2>1. q \in Request /\ q.sink \in SinkTypes
    BY DeliveryAssumption DEF Request
  <2> QED
    BY <1>1, <2>1, CountEffect, BegunType DEF Deliver
<1>2. ASSUME NEW q \in Requests, DeliverUnsupported(q) PROVE TypeOK'
  <2>1. q \in Request /\ q.sink \in SinkTypes
    BY DeliveryAssumption DEF Request
  <2> QED
    BY <1>2, <2>1, CountEffect, BegunType DEF DeliverUnsupported
<1>3. ASSUME AttemptSucceeds PROVE TypeOK'
  <2>1. call # NoCall
    BY <1>3 DEF AttemptSucceeds, InPhase
  <2>2. PICK o \in Outcome : Attempted(o)
    BY <1>3, <2>1, CurrentType, OutcomesType DEF AttemptSucceeds
  <2>3. /\ overall' \in [Counters -> Nat]
        /\ bySink' \in [SinkTypes -> [Counters -> Nat]]
    BY <1>3, <2>1, CurrentType, CountEffect DEF AttemptSucceeds
  <2>4. Return("delivered", FALSE)
    BY <1>3 DEF AttemptSucceeds
  <2>5. requests' = requests
    BY <2>2 DEF Attempted
  <2> QED
    BY <2>1, <2>2, <2>3, <2>4, <2>5, AttemptedType, ReturnType
    DEF TypeOK, Attempted, Numbers
<1>4. ASSUME AttemptRetried PROVE TypeOK'
  <2>1. call # NoCall
    BY <1>4 DEF AttemptRetried, InPhase
  <2>2. PICK o \in Outcome : /\ Attempted(o)
                             /\ Retries(o, call.attempt, Current.attempts)
                             /\ Count(Current.sink, FailureCounters(o) \cup {"retries_attempted"})
    BY <1>4, <2>1, CurrentType, OutcomesType DEF AttemptRetried
  <2>3. /\ overall' \in [Counters -> Nat]
        /\ bySink' \in [SinkTypes -> [Counters -> Nat]]
    BY <2>1, <2>2, CurrentType, CountEffect
  <2>4. requests' = requests /\ fate' = fate /\ log' = log
    BY <1>4, <2>2 DEF Attempted, AttemptRetried
  <2>5. /\ call' \in Calls
        /\ call'.attempt <= Current.attempts
    <3>1. call' = [call EXCEPT !.attempt = call.attempt + 1] /\ call \in Calls
      BY <1>4, <2>1, CurrentType DEF AttemptRetried
    <3>2. call.attempt < Current.attempts /\ Current.attempts \in Nat
      BY <2>1, <2>2, CurrentType DEF Retries, Request
    <3> QED
      BY <3>1, <3>2 DEF Calls
  <2>6. Len(requests') > 0 /\ Current' = Current
    BY <2>1, <2>4, CurrentType DEF Current
  <2> QED
    BY <2>1, <2>2, <2>3, <2>4, <2>5, <2>6, AttemptedType DEF TypeOK, Attempted, Numbers
<1>5. ASSUME AttemptFails PROVE TypeOK'
  <2>1. call # NoCall
    BY <1>5 DEF AttemptFails, InPhase
  <2>2. PICK o \in Outcome :
          /\ Attempted(o)
          /\ Count(Current.sink, FailureCounters(o))
          /\ call' = [call EXCEPT !.phase = "letter", !.retryable = o.retryable]
    BY <1>5, <2>1, CurrentType, OutcomesType DEF AttemptFails
  <2>3. /\ overall' \in [Counters -> Nat]
        /\ bySink' \in [SinkTypes -> [Counters -> Nat]]
    BY <2>1, <2>2, CurrentType, CountEffect
  <2>4. requests' = requests /\ fate' = fate /\ log' = log
    BY <1>5, <2>2 DEF Attempted, AttemptFails
  <2>5. call' \in Calls /\ call'.attempt = call.attempt
    <3>1. o.retryable \in BOOLEAN /\ call \in Calls
      BY <2>1, CurrentType DEF Outcome
    <3> QED
      BY <2>2, <3>1 DEF Calls
  <2>6. Len(requests') > 0 /\ Current' = Current
    BY <2>1, <2>4, CurrentType DEF Current
  <2> QED
    BY <2>1, <2>2, <2>3, <2>4, <2>5, <2>6, AttemptedType DEF TypeOK, Attempted, Numbers
<1>6. ASSUME AdapterRaises PROVE TypeOK'
  <2>1. call # NoCall
    BY <1>6 DEF AdapterRaises, InPhase
  <2>2. /\ fate' \in Seq({"open", "delivered", "dead", "raised", "crashed"})
        /\ Len(fate') = Len(fate)
        /\ call' = NoCall
    BY <1>6, <2>1, FateType DEF AdapterRaises, Raise
  <2>3. escaped' \in [SinkTypes -> Nat]
    BY SMTT(30), <1>6, <2>1, CurrentType DEF AdapterRaises, TypeOK
  <2>4. /\ tried' \in Seq([attempts : Nat, unsure : BOOLEAN, landed : Nat])
        /\ Len(tried') = Len(tried)
    <3>1. Len(requests) \in Numbers /\ Len(tried) = Len(requests)
      BY <2>1, CurrentType DEF Numbers, TypeOK
    <3> QED
      BY <1>6, <3>1, CopiedType DEF AdapterRaises, TypeOK
  <2> QED
    BY <1>6, <2>2, <2>3, <2>4 DEF AdapterRaises, TypeOK, Numbers
<1>7. ASSUME ResetMetrics PROVE TypeOK'
  BY <1>7, DeliveryAssumption DEF ResetMetrics, Break, TypeOK, Numbers, NoMetrics
<1>8. ASSUME ClearDeliveryLog PROVE TypeOK'
  BY <1>8, DeliveryAssumption DEF ClearDeliveryLog, Break, TypeOK, Numbers
<1>9. ASSUME RecordDeadLetter PROVE TypeOK'
  <2>1. call # NoCall
    BY <1>9 DEF RecordDeadLetter, InPhase
  <2>2. /\ overall' \in [Counters -> Nat]
        /\ bySink' \in [SinkTypes -> [Counters -> Nat]]
    BY <1>9, <2>1, CurrentType, CountEffect DEF RecordDeadLetter
  <2>3. letters' \in Seq(Nat) /\ recorded' \in Seq(Nat)
    BY <1>9, <2>1, CurrentType DEF RecordDeadLetter, TypeOK
  <2>4. call' \in Calls /\ call'.attempt = call.attempt
    BY <1>9, <2>1, CurrentType DEF RecordDeadLetter, Calls
  <2> QED
    BY <1>9, <2>1, <2>2, <2>3, <2>4 DEF RecordDeadLetter, TypeOK, Numbers, Current
<1>10. ASSUME KeepLetters PROVE TypeOK'
  <2>1. call # NoCall /\ call.retryable \in BOOLEAN
    BY <1>10, CurrentType DEF KeepLetters, InPhase, Calls
  <2> QED
    BY <1>10, <2>1, ReturnType DEF KeepLetters, TypeOK, Numbers
<1>11. ASSUME TruncateLetters PROVE TypeOK'
  <2>1. call # NoCall
    BY <1>11 DEF TruncateLetters, InPhase
  <2>2. LastOf(letters, MaxRecords) \in Seq(Nat)
    BY LastOfType, DeliveryAssumption DEF TypeOK
  <2>3. call' \in Calls /\ call'.attempt = call.attempt
    BY <1>11, <2>1, <2>2, CurrentType DEF TruncateLetters, Calls
  <2> QED
    BY <1>11, <2>1, <2>3 DEF TruncateLetters, TypeOK, Numbers, Current
<1>12. ASSUME RewriteLetters PROVE TypeOK'
  <2>1. call # NoCall /\ call.retryable \in BOOLEAN /\ call.kept \in Seq(Nat)
    BY <1>12, CurrentType DEF RewriteLetters, InPhase, Calls
  <2> QED
    BY <1>12, <2>1, ReturnType DEF RewriteLetters, TypeOK, Numbers
<1>13. ASSUME StoreRaises PROVE TypeOK'
  <2>1. call # NoCall
    BY <1>13 DEF StoreRaises
  <2>2. /\ overall' \in [Counters -> Nat]
        /\ bySink' \in [SinkTypes -> [Counters -> Nat]]
    BY <1>13, <2>1, CurrentType, CountEffect DEF StoreRaises
  <2>3. /\ fate' \in Seq({"open", "delivered", "dead", "raised", "crashed"})
        /\ Len(fate') = Len(fate)
        /\ call' = NoCall
    BY <1>13, <2>1, FateType DEF StoreRaises, Raise
  <2>4. recorded' \in Seq(Nat)
    BY <1>13 DEF StoreRaises, TypeOK
  <2> QED
    BY <1>13, <2>2, <2>3, <2>4 DEF StoreRaises, TypeOK, Numbers
<1>14. ASSUME NEW w \in abandoned, AbandonedLands(w) PROVE TypeOK'
  <2>1. w.number \in Numbers
    BY DEF TypeOK
  <2>2. objects' \in [Objects -> Nat]
    BY <1>14, <2>1, StoredType DEF AbandonedLands
  <2>3. /\ tried' \in Seq([attempts : Nat, unsure : BOOLEAN, landed : Nat])
        /\ Len(tried') = Len(tried)
    BY <1>14, <2>1, CopiedType DEF AbandonedLands
  <2> QED
    BY <1>14, <2>2, <2>3 DEF AbandonedLands, TypeOK, Numbers, Current
<1>15. ASSUME Crash PROVE TypeOK'
  <2>1. /\ objects' \in [Objects -> Nat]
        /\ tried' \in Seq([attempts : Nat, unsure : BOOLEAN, landed : Nat])
        /\ Len(tried') = Len(tried)
    <3>1. CASE UNCHANGED <<objects, tried>>
      BY <3>1 DEF TypeOK
    <3>2. CASE /\ InPhase("attempt")
               /\ objects' = Stored(Len(requests))
               /\ tried' = [tried EXCEPT ![Len(tried)] = Copied(@, TRUE)]
      <4>1. Len(requests) \in Numbers /\ Len(tried) = Len(requests)
        BY <3>2, CurrentType DEF InPhase, Numbers, TypeOK
      <4> QED
        BY <3>2, <4>1, StoredType, CopiedType
    <3> QED
      BY <1>15, <3>1, <3>2 DEF Crash
  <2>2. /\ fate' \in Seq({"open", "delivered", "dead", "raised", "crashed"})
        /\ Len(fate') = Len(fate)
    BY <1>15, FateType DEF Crash, TypeOK
  <2>3. letters' \in Seq(Nat) /\ recorded' \in Seq(Nat)
    BY <1>15 DEF Crash, TypeOK
  <2> QED
    BY <1>15, <2>1, <2>2, <2>3, DeliveryAssumption
    DEF Crash, Break, TypeOK, Numbers, NoMetrics
<1>16. ASSUME UNCHANGED vars PROVE TypeOK'
  BY <1>16 DEF vars, TypeOK, Numbers, Current
<1> QED
  BY <1>1, <1>2, <1>3, <1>4, <1>5, <1>6, <1>7, <1>8, <1>9, <1>10, <1>11, <1>12, <1>13,
     <1>14, <1>15, <1>16 DEF Next, Progress

-----------------------------------------------------------------------------
\* Accounting

\* A step that counts for one sink, the sink of the call, concerns no other.
LEMMA OneSink ==
  ASSUME TypeOK, Accounting, NEW s \in SinkTypes, NEW K, Count(s, K),
         escaped' = escaped,
         call = NoCall \/ Current.sink = s,
         call' = NoCall \/ Current'.sink = s,
         Balanced(s)'
  PROVE  Accounting'
<1>1. \A c \in Counters : overall'[c] = Total(c)'
  BY CountAddsUp DEF Accounting
<1>2. ASSUME NEW t \in SinkTypes, t # s PROVE Balanced(t)'
  <2>1. bySink'[t] = bySink[t]
    BY <1>2, CountEffect
  <2>2. /\ Pending(t, {"attempt", "letter"})' = Pending(t, {"attempt", "letter"})
        /\ Pending(t, {"letter"})' = Pending(t, {"letter"})
    BY <1>2 DEF Pending
  <2>3. Balanced(t)
    BY DEF Accounting
  <2> QED
    BY <2>1, <2>2, <2>3 DEF Balanced
<1> QED
  BY <1>1, <1>2 DEF Accounting

\* The counters of the sink of a call, one by one.
LEMMA SinkCounters ==
  ASSUME TypeOK, NEW s \in SinkTypes
  PROVE  \A c \in Counters : bySink[s][c] \in Nat
BY DEF TypeOK

\* The steps that change no counter, no exception count and no pending phase.
LEMMA NothingCounted ==
  ASSUME Accounting, UNCHANGED <<metrics, escaped>>,
         \A s \in SinkTypes : \A P \in {{"attempt", "letter"}, {"letter"}} :
           Pending(s, P)' = Pending(s, P)
  PROVE  Accounting'
<1>1. \A c \in Counters : overall'[c] = Total(c)'
  BY DEF Accounting, Total, metrics
<1>2. ASSUME NEW s \in SinkTypes PROVE Balanced(s)'
  BY DEF Accounting, Balanced, metrics
<1> QED
  BY <1>1, <1>2 DEF Accounting

\* Counters at zero, no exceptions and no call are in balance.
LEMMA ZeroBalance ==
  /\ overall = NoMetrics /\ bySink = [s \in SinkTypes |-> NoMetrics]
  /\ escaped = [s \in SinkTypes |-> 0] /\ call = NoCall
  => Accounting
BY DEF NoMetrics, Accounting, Balanced, Total, Pending, Counters, SinkTypes

LEMMA InitAccounting == Init => Accounting
BY ZeroBalance DEF Init

LEMMA NextAccounting == TypeOK /\ TypeOK' /\ Accounting /\ [Next]_vars => Accounting'
<1> SUFFICES ASSUME TypeOK, TypeOK', Accounting, [Next]_vars PROVE Accounting'
  OBVIOUS
<1>1. ASSUME NEW q \in Requests, NEW phase \in {"attempt", "letter"},
             NEW attempt \in {0, 1}, NEW K,
             Begun(q, phase, attempt), Count(q.sink, K),
             \/ phase = "attempt" /\ K = {"total_requests"}
             \/ phase = "letter" /\ K = {"total_requests", "failed", "unsupported"}
      PROVE  Accounting'
  <2>1. q \in Request /\ q.sink \in SinkTypes
    BY DeliveryAssumption DEF Request
  <2>2. call = NoCall /\ escaped' = escaped
    BY <1>1 DEF Begun
  <2>3. call' # NoCall /\ call'.phase = phase /\ Current' = q
    <3>1. call' = [phase |-> phase, attempt |-> attempt, retryable |-> FALSE, kept |-> << >>]
      BY <1>1 DEF Begun
    <3>2. call' \in Calls
      BY <3>1 DEF Calls
    <3>3. requests \in Seq(Request) /\ requests' = Append(requests, q)
      BY <1>1 DEF Begun, TypeOK
    <3>4. Current' = q
      BY <3>3, <2>1 DEF Current
    <3>5. call' # NoCall
      BY <3>2, DeliveryAssumption
    <3>6. call'.phase = phase
      BY <3>1
    <3> QED
      BY <3>4, <3>5, <3>6
  <2>4. Balanced(q.sink)
    BY <2>1 DEF Accounting
  <2>5. Balanced(q.sink)'
    <3>1. /\ Pending(q.sink, {"attempt", "letter"}) = 0
          /\ Pending(q.sink, {"letter"}) = 0
          /\ Pending(q.sink, {"attempt", "letter"})' = 1
          /\ Pending(q.sink, {"letter"})' = IF phase = "letter" THEN 1 ELSE 0
      BY <2>2, <2>3 DEF Pending
    <3>2. /\ \A c \in Counters : bySink[q.sink][c] \in Nat
          /\ \A c \in Counters :
               bySink'[q.sink][c] = bySink[q.sink][c] + IF c \in K THEN 1 ELSE 0
      BY <1>1, <2>1, CountEffect, SinkCounters
    <3>3. escaped[q.sink] \in Nat
      BY <2>1 DEF TypeOK
    <3>4. CASE phase = "attempt" /\ K = {"total_requests"}
      <4>1. /\ bySink'[q.sink]["total_requests"] = bySink[q.sink]["total_requests"] + 1
            /\ \A c \in Counters \ {"total_requests"} : bySink'[q.sink][c] = bySink[q.sink][c]
        BY <3>2, <3>4 DEF Counters
      <4> QED
        BY <2>2, <2>4, <3>1, <3>2, <3>3, <3>4, <4>1 DEF Balanced, Counters
    <3>5. CASE phase = "letter" /\ K = {"total_requests", "failed", "unsupported"}
      <4>1. /\ \A c \in {"total_requests", "failed", "unsupported"} :
                 bySink'[q.sink][c] = bySink[q.sink][c] + 1
            /\ \A c \in Counters \ {"total_requests", "failed", "unsupported"} :
                 bySink'[q.sink][c] = bySink[q.sink][c]
        BY <3>2, <3>5 DEF Counters
      <4> QED
        BY <2>2, <2>4, <3>1, <3>2, <3>3, <3>5, <4>1 DEF Balanced, Counters
    <3> QED
      BY <1>1, <3>4, <3>5
  <2> QED
    BY <1>1, <2>1, <2>2, <2>3, <2>5, OneSink
<1>2. ASSUME NEW q \in Requests, Deliver(q) \/ DeliverUnsupported(q) PROVE Accounting'
  BY <1>1, <1>2 DEF Deliver, DeliverUnsupported
<1>3. ASSUME call # NoCall, NEW K, Count(Current.sink, K), escaped' = escaped,
             requests' = requests,
             \/ /\ call.phase = "attempt"
                /\ call' = NoCall
                /\ K = {"total_attempts", "delivered"}
             \/ /\ call.phase = "attempt"
                /\ call' # NoCall
                /\ call'.phase = "attempt"
                /\ K = {"total_attempts", "failed", "retryable_failures", "retries_attempted"}
             \/ /\ call.phase = "attempt"
                /\ call' # NoCall
                /\ call'.phase = "letter"
                /\ \/ K = {"total_attempts", "failed"}
                   \/ K = {"total_attempts", "failed", "retryable_failures"}
             \/ /\ call.phase = "letter"
                /\ call' # NoCall => call'.phase = "retain"
                /\ K = {"dead_letters"}
      PROVE  Accounting'
  <2>1. PICK s \in SinkTypes : s = Current.sink
    BY <1>3, CurrentType
  <2>2. Current' = Current
    BY <1>3 DEF Current
  <2>3. Balanced(s)
    BY DEF Accounting
  <2>4. /\ Count(s, K)
        /\ \A c \in Counters : bySink[s][c] \in Nat
        /\ \A c \in Counters : bySink'[s][c] = bySink[s][c] + IF c \in K THEN 1 ELSE 0
    BY <1>3, <2>1, CountEffect, SinkCounters
  <2>5. /\ Pending(s, {"attempt", "letter"})
             = IF call.phase \in {"attempt", "letter"} THEN 1 ELSE 0
        /\ Pending(s, {"letter"}) = IF call.phase = "letter" THEN 1 ELSE 0
        /\ call' = NoCall => /\ Pending(s, {"attempt", "letter"})' = 0
                             /\ Pending(s, {"letter"})' = 0
        /\ call' # NoCall =>
             /\ Pending(s, {"attempt", "letter"})'
                  = IF call'.phase \in {"attempt", "letter"} THEN 1 ELSE 0
             /\ Pending(s, {"letter"})' = IF call'.phase = "letter" THEN 1 ELSE 0
    BY <1>3, <2>1, <2>2 DEF Pending
  <2>6. escaped[s] \in Nat
    BY DEF TypeOK
  <2>7. Balanced(s)'
    <3>1. CASE /\ call.phase = "attempt" /\ call' = NoCall
                /\ K = {"total_attempts", "delivered"}
      <4>1. /\ \A c \in {"total_attempts", "delivered"} :
                 bySink'[s][c] = bySink[s][c] + 1
            /\ \A c \in Counters \ {"total_attempts", "delivered"} :
                 bySink'[s][c] = bySink[s][c]
        BY <2>4, <3>1 DEF Counters
      <4>2. escaped'[s] = escaped[s]
        BY <1>3
      <4>3. /\ Pending(s, {"attempt", "letter"}) = 1 /\ Pending(s, {"letter"}) = 0
            /\ Pending(s, {"attempt", "letter"})' = 0 /\ Pending(s, {"letter"})' = 0
        BY <2>5, <3>1
      <4> QED
        BY <2>3, <2>4, <2>6, <4>1, <4>2, <4>3 DEF Balanced, Counters
    <3>2. CASE /\ call.phase = "attempt" /\ call' # NoCall /\ call'.phase = "attempt"
                /\ K = {"total_attempts", "failed", "retryable_failures", "retries_attempted"}
      <4>1. /\ \A c \in {"total_attempts", "failed", "retryable_failures", "retries_attempted"} :
                 bySink'[s][c] = bySink[s][c] + 1
            /\ \A c \in Counters \ {"total_attempts", "failed", "retryable_failures", "retries_attempted"} :
                 bySink'[s][c] = bySink[s][c]
        BY <2>4, <3>2 DEF Counters
      <4>2. escaped'[s] = escaped[s]
        BY <1>3
      <4>3. /\ Pending(s, {"attempt", "letter"}) = 1 /\ Pending(s, {"letter"}) = 0
            /\ Pending(s, {"attempt", "letter"})' = 1 /\ Pending(s, {"letter"})' = 0
        BY <2>5, <3>2
      <4> QED
        BY <2>3, <2>4, <2>6, <4>1, <4>2, <4>3 DEF Balanced, Counters
    <3>3. CASE /\ call.phase = "attempt" /\ call' # NoCall /\ call'.phase = "letter"
                /\ K = {"total_attempts", "failed"}
      <4>1. /\ \A c \in {"total_attempts", "failed"} :
                 bySink'[s][c] = bySink[s][c] + 1
            /\ \A c \in Counters \ {"total_attempts", "failed"} :
                 bySink'[s][c] = bySink[s][c]
        BY <2>4, <3>3 DEF Counters
      <4>2. escaped'[s] = escaped[s]
        BY <1>3
      <4>3. /\ Pending(s, {"attempt", "letter"}) = 1 /\ Pending(s, {"letter"}) = 0
            /\ Pending(s, {"attempt", "letter"})' = 1 /\ Pending(s, {"letter"})' = 1
        BY <2>5, <3>3
      <4> QED
        BY <2>3, <2>4, <2>6, <4>1, <4>2, <4>3 DEF Balanced, Counters
    <3>4. CASE /\ call.phase = "attempt" /\ call' # NoCall /\ call'.phase = "letter"
                /\ K = {"total_attempts", "failed", "retryable_failures"}
      <4>1. /\ \A c \in {"total_attempts", "failed", "retryable_failures"} :
                 bySink'[s][c] = bySink[s][c] + 1
            /\ \A c \in Counters \ {"total_attempts", "failed", "retryable_failures"} :
                 bySink'[s][c] = bySink[s][c]
        BY <2>4, <3>4 DEF Counters
      <4>2. escaped'[s] = escaped[s]
        BY <1>3
      <4>3. /\ Pending(s, {"attempt", "letter"}) = 1 /\ Pending(s, {"letter"}) = 0
            /\ Pending(s, {"attempt", "letter"})' = 1 /\ Pending(s, {"letter"})' = 1
        BY <2>5, <3>4
      <4> QED
        BY <2>3, <2>4, <2>6, <4>1, <4>2, <4>3 DEF Balanced, Counters
    <3>5. CASE /\ call.phase = "letter" /\ (call' # NoCall => call'.phase = "retain")
                /\ K = {"dead_letters"}
      <4>1. /\ \A c \in {"dead_letters"} :
                 bySink'[s][c] = bySink[s][c] + 1
            /\ \A c \in Counters \ {"dead_letters"} :
                 bySink'[s][c] = bySink[s][c]
        BY <2>4, <3>5 DEF Counters
      <4>2. escaped'[s] = escaped[s]
        BY <1>3
      <4>3. /\ Pending(s, {"attempt", "letter"}) = 1 /\ Pending(s, {"letter"}) = 1
            /\ Pending(s, {"attempt", "letter"})' = 0 /\ Pending(s, {"letter"})' = 0
        BY <2>5, <3>5
      <4> QED
        BY <2>3, <2>4, <2>6, <4>1, <4>2, <4>3 DEF Balanced, Counters
    <3> QED
      BY <1>3, <3>1, <3>2, <3>3, <3>4, <3>5
  <2> QED
    BY <1>3, <2>1, <2>2, <2>4, <2>7, OneSink
<1>4. ASSUME AttemptSucceeds PROVE Accounting'
  <2>1. call # NoCall /\ call.phase = "attempt" /\ call' = NoCall
    BY <1>4 DEF AttemptSucceeds, InPhase, Return
  <2>2. requests' = requests /\ escaped' = escaped
    BY <1>4 DEF AttemptSucceeds, Attempted
  <2> QED
    BY <1>3, <1>4, <2>1, <2>2 DEF AttemptSucceeds
<1>5. ASSUME AttemptRetried PROVE Accounting'
  <2>1. call # NoCall /\ call.phase = "attempt" /\ call \in Calls
    BY <1>5, CurrentType DEF AttemptRetried, InPhase
  <2>2. requests' = requests /\ escaped' = escaped
    BY <1>5 DEF AttemptRetried, Attempted
  <2>3. call' # NoCall /\ call'.phase = "attempt"
    <3>1. call' = [call EXCEPT !.attempt = @ + 1]
      BY <1>5 DEF AttemptRetried
    <3> QED
      BY <2>1, <3>1, DeliveryAssumption DEF Calls
  <2>4. Count(Current.sink, {"total_attempts", "failed", "retryable_failures", "retries_attempted"})
    <3>1. PICK o : /\ Retries(o, call.attempt, Current.attempts)
                  /\ Count(Current.sink, FailureCounters(o) \cup {"retries_attempted"})
      BY <1>5 DEF AttemptRetried
    <3>2. FailureCounters(o) \cup {"retries_attempted"}
            = {"total_attempts", "failed", "retryable_failures", "retries_attempted"}
      BY <3>1 DEF FailureCounters, Retries
    <3> QED
      BY <3>1, <3>2
  <2> QED
    BY <1>3, <2>1, <2>2, <2>3, <2>4
<1>6. ASSUME AttemptFails PROVE Accounting'
  <2>1. call # NoCall /\ call.phase = "attempt" /\ call \in Calls
    BY <1>6, CurrentType DEF AttemptFails, InPhase
  <2>2. PICK o \in Outcome :
          /\ Attempted(o)
          /\ Count(Current.sink, FailureCounters(o))
          /\ call' = [call EXCEPT !.phase = "letter", !.retryable = o.retryable]
    BY <1>6, <2>1, CurrentType, OutcomesType DEF AttemptFails
  <2>3. requests' = requests /\ escaped' = escaped
    BY <2>2 DEF Attempted
  <2>4. call' # NoCall /\ call'.phase = "letter"
    BY <2>1, <2>2, DeliveryAssumption DEF Calls, Outcome
  <2>5. \/ FailureCounters(o) = {"total_attempts", "failed"}
        \/ FailureCounters(o) = {"total_attempts", "failed", "retryable_failures"}
    BY DEF FailureCounters
  <2> QED
    BY <1>3, <2>1, <2>2, <2>3, <2>4, <2>5
<1>7. ASSUME RecordDeadLetter PROVE Accounting'
  <2>1. call # NoCall /\ call.phase = "letter" /\ call \in Calls
    BY <1>7, CurrentType DEF RecordDeadLetter, InPhase
  <2>2. call'.phase = "retain"
    BY <1>7, <2>1 DEF RecordDeadLetter, Calls
  <2> QED
    BY <1>3, <1>7, <2>1, <2>2 DEF RecordDeadLetter
<1>8. ASSUME StoreRaises PROVE Accounting'
  <2>1. call # NoCall /\ call' = NoCall /\ requests' = requests /\ escaped' = escaped
    BY <1>8 DEF StoreRaises, Raise
  <2>2. CASE call.phase = "letter"
    BY <1>3, <1>8, <2>1, <2>2 DEF StoreRaises
  <2>3. CASE call.phase # "letter"
    <3>1. call.phase \notin {"attempt", "letter"} /\ Count(Current.sink, {})
      BY <1>8, <2>3 DEF StoreRaises
    <3>2. Current.sink \in SinkTypes
      BY <2>1, CurrentType
    <3>3. UNCHANGED metrics
      <4>1. Merge(overall, {}) = overall /\ Merge(bySink[Current.sink], {}) = bySink[Current.sink]
        BY <3>2 DEF Merge, TypeOK
      <4> QED
        BY <3>1, <3>2, <4>1 DEF Count, metrics, TypeOK
    <3> QED
      BY <2>1, <3>1, <3>3, NothingCounted DEF Pending
  <2> QED
    BY <2>2, <2>3
<1>9. ASSUME AdapterRaises PROVE Accounting'
  <2>1. /\ call # NoCall /\ call.phase = "attempt" /\ call' = NoCall
        /\ UNCHANGED metrics
        /\ escaped' = [escaped EXCEPT ![Current.sink] = @ + 1]
    BY <1>9 DEF AdapterRaises, InPhase, Raise
  <2>2. PICK s \in SinkTypes : s = Current.sink
    BY <2>1, CurrentType
  <2>3. \A c \in Counters : overall'[c] = Total(c)'
    BY <2>1 DEF Accounting, Total, metrics
  <2>4. ASSUME NEW t \in SinkTypes PROVE Balanced(t)'
    <3>1. Balanced(t) /\ bySink' = bySink
      BY <2>1 DEF Accounting, metrics
    <3>2. /\ Pending(t, {"attempt", "letter"}) = IF t = s THEN 1 ELSE 0
          /\ Pending(t, {"letter"}) = 0
          /\ Pending(t, {"attempt", "letter"})' = 0
          /\ Pending(t, {"letter"})' = 0
      BY <2>1, <2>2 DEF Pending
    <3>3. escaped[t] \in Nat /\ \A c \in Counters : bySink[t][c] \in Nat
      BY SinkCounters DEF TypeOK
    <3>4. escaped \in [SinkTypes -> Nat] /\ escaped' = [escaped EXCEPT ![s] = @ + 1]
      BY <2>1, <2>2 DEF TypeOK
    <3>5. CASE t = s
      <4>1. escaped'[t] = escaped[t] + 1
        BY <3>4, <3>5
      <4>2. Pending(t, {"attempt", "letter"}) = 1
        BY <3>2, <3>5
      <4>3. \A c \in Counters : bySink'[t][c] = bySink[t][c]
        BY <3>1
      <4>4. Balanced(t)
        BY <3>1
      <4>5. /\ bySink'[t]["total_requests"] =
                 bySink'[t]["delivered"] + bySink'[t]["dead_letters"] + escaped'[t]
        BY <3>3, <4>1, <4>2, <4>3, <4>4 DEF Balanced, Counters
      <4>6. Pending(t, {"attempt", "letter"})' = 0 /\ Pending(t, {"letter"})' = 0
        BY <3>2
      <4>7. Pending(t, {"letter"}) = 0
        BY <3>2
      <4>8. escaped'[t] \in Nat /\ \A c \in Counters : bySink'[t][c] \in Nat
        BY <3>3, <4>1, <4>3
      <4> QED
        BY <3>3, <4>3, <4>4, <4>5, <4>6, <4>7, <4>8 DEF Balanced, Counters
    <3>6. CASE t # s
      <4>1. escaped'[t] = escaped[t]
        BY <3>4, <3>6
      <4> QED
        BY <3>1, <3>2, <3>3, <3>6, <4>1 DEF Balanced, Counters
    <3> QED
      BY <3>5, <3>6
  <2> QED
    BY <2>3, <2>4 DEF Accounting
<1>10. ASSUME KeepLetters \/ TruncateLetters \/ RewriteLetters PROVE Accounting'
  <2>1. /\ call # NoCall /\ call.phase \in {"retain", "rewrite"}
        /\ UNCHANGED <<metrics, escaped>>
    BY <1>10 DEF KeepLetters, TruncateLetters, RewriteLetters, InPhase, history
  <2>2. call' = NoCall \/ call'.phase = "rewrite"
    <3>1. CASE TruncateLetters
      <4>1. call \in Calls
        BY <2>1, CurrentType
      <4> QED
        BY <3>1, <4>1 DEF TruncateLetters, Calls
    <3> QED
      BY <1>10, <3>1 DEF KeepLetters, RewriteLetters, Return
  <2> QED
    BY <2>1, <2>2, NothingCounted DEF Pending
<1>11. ASSUME /\ overall' = NoMetrics /\ bySink' = [s \in SinkTypes |-> NoMetrics]
              /\ escaped' = [s \in SinkTypes |-> 0] /\ call' = NoCall
       PROVE  Accounting'
  BY <1>11 DEF NoMetrics, Accounting, Balanced, Total, Pending, Counters, SinkTypes
<1>12. ASSUME ResetMetrics \/ Crash PROVE Accounting'
  BY <1>11, <1>12 DEF ResetMetrics, Crash
<1>13. ASSUME ClearDeliveryLog PROVE Accounting'
  BY <1>13, NothingCounted DEF ClearDeliveryLog, Pending
<1>14. ASSUME NEW w \in abandoned, AbandonedLands(w) PROVE Accounting'
  BY <1>14, NothingCounted DEF AbandonedLands, Pending, Current
<1>15. ASSUME UNCHANGED vars PROVE Accounting'
  BY <1>15, NothingCounted DEF vars, history, Pending, Current
<1> QED
  BY <1>2, <1>4, <1>5, <1>6, <1>7, <1>8, <1>9, <1>10, <1>12, <1>13, <1>14, <1>15
  DEF Next, Progress

-----------------------------------------------------------------------------
\* The state is well formed in every state, so no call ever makes more attempts
\* than the max_attempts of its sink (the loop of deliver).
THEOREM DeliveryTypeCorrect == Spec => []TypeOK
<1>1. TypeOK /\ [Next]_vars => TypeOK'
  BY NextType
<1> QED
  BY <1>1, InitType, PTL DEF Spec

\* For any sinks, adapters, policies and store, whatever the adapters return or
\* raise and wherever the process stops, the counters of every sink balance
\* (_increment_metrics, at its places in deliver).
THEOREM DeliveriesBalance == Spec => []Accounting
<1>1. TypeOK /\ TypeOK' /\ Accounting /\ [Next]_vars => Accounting'
  BY NextAccounting
<1> QED
  BY <1>1, InitAccounting, DeliveryTypeCorrect, PTL DEF Spec

-----------------------------------------------------------------------------
\* Copies

\* The call in progress, and no other, has no end yet.
OpenIsNewest ==
  /\ call # NoCall => fate[Len(fate)] = "open"
  /\ \A n \in Numbers : fate[n] = "open" => call # NoCall /\ n = Len(fate)

\* The writes of a call that have been abandoned and may still land.
Waiting(n) == {w \in abandoned : w.number = n}

CopiesOf(n) ==
  /\ ~tried[n].unsure => tried[n].landed = IF fate[n] = "delivered" THEN 1 ELSE 0
  /\ fate[n] = "delivered" => tried[n].landed > 0
  /\ fate[n] \notin {"crashed", "raised"} =>
       tried[n].landed + Cardinality(Waiting(n)) <= tried[n].attempts

\* The inductive invariant: an abandoned write is one attempt that has not
\* landed, of a call that knows that it may.
CopiesInv ==
  /\ OpenIsNewest
  /\ IsFiniteSet(abandoned)
  /\ \A w \in abandoned : tried[w.number].unsure
  /\ \A n \in Numbers : CopiesOf(n)

\* What the state says of one call.
LEMMA CallType ==
  ASSUME TypeOK, NEW n \in Numbers
  PROVE  /\ n \in 1 .. Len(tried) /\ n \in 1 .. Len(fate) /\ n \in Nat
         /\ tried[n].attempts \in Nat
         /\ tried[n].unsure \in BOOLEAN
         /\ tried[n].landed \in Nat
         /\ fate[n] \in {"open", "delivered", "dead", "raised", "crashed"}
<1> DEFINE T == [attempts : Nat, unsure : BOOLEAN, landed : Nat]
           F == {"open", "delivered", "dead", "raised", "crashed"}
<1>1. tried \in Seq(T) /\ fate \in Seq(F)
  BY DEF TypeOK
<1>2. n \in 1 .. Len(tried) /\ n \in 1 .. Len(fate) /\ n \in Nat
  BY DEF TypeOK, Numbers
<1>3. tried[n] \in T /\ fate[n] \in F
  <2> HIDE DEF T, F
  <2> QED
    BY <1>1, <1>2
<1> QED
  BY <1>2, <1>3

LEMMA WaitingFinite ==
  ASSUME IsFiniteSet(abandoned), NEW n
  PROVE  IsFiniteSet(Waiting(n)) /\ Cardinality(Waiting(n)) \in Nat
<1>1. Waiting(n) \subseteq abandoned
  BY DEF Waiting
<1> QED
  BY <1>1, FS_Subset, FS_CardinalityType

\* An adapter that reports a delivery has written (the adapters of sinks.py).
LEMMA DeliveredIsWritten ==
  ASSUME NEW q \in Request, NEW o \in Outcomes(q), o.status = "delivered"
  PROVE  o.write = "now"
<1> DEFINE Sure == {x \in Outcome : x.status = "delivered" => x.write = "now"}
<1>1. Success \in Sure
  BY DEF Success, Outcome
<1>2. \A r \in BOOLEAN : \A writes \in SUBSET {"now", "later", "never"} :
        Failures(r, writes) \subseteq Sure
  BY DEF Failures, Outcome
<1> HIDE DEF Sure
<1>3. TimedOut(q) \subseteq Sure
  BY <1>2 DEF TimedOut
<1>4. q.retryable \in BOOLEAN /\ q.sink \in SinkTypes /\ q.target \in BOOLEAN
  BY DEF Request
<1>5. /\ FileSink(q) \subseteq Sure
      /\ WebhookSink(q) \subseteq Sure
      /\ QueueSink(q) \subseteq Sure
  BY <1>1, <1>2, <1>3, <1>4 DEF FileSink, WebhookSink, QueueSink
<1>6. ObjectStorageSink(q) \subseteq Sure
  BY <1>3, <1>5 DEF ObjectStorageSink
<1>7. Outcomes(q) \subseteq Sure
  BY <1>1, <1>2, <1>4, <1>5, <1>6 DEF Outcomes, SinkTypes
<1> QED
  BY <1>7 DEF Sure

\* A call that ends gets its end, and the others keep theirs.
LEMMA EndEffect ==
  ASSUME TypeOK, call # NoCall, NEW f,
         fate' = [fate EXCEPT ![Len(fate)] = f]
  PROVE  /\ Len(requests) \in Numbers
         /\ Len(fate) = Len(requests) /\ Len(tried) = Len(requests)
         /\ fate'[Len(requests)] = f
         /\ \A n \in Numbers : n # Len(requests) => fate'[n] = fate[n]
         /\ Len(fate') = Len(fate)
<1>1. Len(requests) \in Numbers /\ Len(fate) = Len(requests) /\ Len(tried) = Len(requests)
  BY CurrentType DEF Numbers, TypeOK
<1>2. DOMAIN fate = Numbers
  BY <1>1 DEF TypeOK, Numbers
<1> QED
  BY <1>1, <1>2 DEF TypeOK

LEMMA OpenEnds ==
  ASSUME TypeOK, OpenIsNewest, call # NoCall, NEW f, f # "open",
         fate' = [fate EXCEPT ![Len(fate)] = f], call' = NoCall,
         requests' = requests
  PROVE  OpenIsNewest'
BY EndEffect DEF OpenIsNewest, Numbers

LEMMA OpenBegins ==
  ASSUME TypeOK, OpenIsNewest, NEW q, NEW phase, NEW attempt,
         call' # NoCall, Begun(q, phase, attempt)
  PROVE  OpenIsNewest'
<1>1. /\ requests' = Append(requests, q) /\ fate' = Append(fate, "open")
      /\ call = NoCall
  BY DEF Begun
<1>2. Len(fate) = Len(requests) /\ Len(requests) \in Nat
  BY DEF TypeOK
<1>3. Len(fate') = Len(fate) + 1 /\ Len(requests') = Len(requests) + 1
  BY <1>1 DEF TypeOK
<1>4. fate'[Len(fate')] = "open" /\ \A n \in Numbers : fate'[n] = fate[n]
  BY <1>1, <1>2, <1>3 DEF TypeOK, Numbers
<1> QED
  BY <1>1, <1>2, <1>3, <1>4 DEF OpenIsNewest, Numbers

LEMMA OpenKept ==
  ASSUME OpenIsNewest, UNCHANGED <<fate, requests>>, (call' = NoCall) = (call = NoCall)
  PROVE  OpenIsNewest'
BY DEF OpenIsNewest, Numbers

\* A step that ends a call, or neither begins nor ends one.
LEMMA NextOpen ==
  ASSUME TypeOK, TypeOK', OpenIsNewest, [Next]_vars
  PROVE  OpenIsNewest'
<1> USE DEF metrics, world, history
<1>1. ASSUME NEW q \in Requests, Deliver(q) \/ DeliverUnsupported(q) PROVE OpenIsNewest'
  <2>1. PICK phase \in {"attempt", "letter"}, attempt \in {0, 1} : Begun(q, phase, attempt)
    BY <1>1 DEF Deliver, DeliverUnsupported
  <2>2. call' # NoCall
    <3>1. call' = [phase |-> phase, attempt |-> attempt, retryable |-> FALSE, kept |-> << >>]
      BY <2>1 DEF Begun
    <3>2. call' \in Calls
      BY <3>1 DEF Calls
    <3> QED
      BY <3>2, DeliveryAssumption
  <2> QED
    BY <2>1, <2>2, OpenBegins
<1>2. ASSUME AttemptSucceeds \/ AdapterRaises \/ KeepLetters \/ RewriteLetters \/ StoreRaises
      PROVE  OpenIsNewest'
  <2>1. /\ call # NoCall /\ call' = NoCall /\ requests' = requests
        /\ \E f \in {"delivered", "dead", "raised"} : fate' = [fate EXCEPT ![Len(fate)] = f]
    BY <1>2 DEF AttemptSucceeds, AdapterRaises, KeepLetters, RewriteLetters, StoreRaises,
                Return, Raise, InPhase, Attempted
  <2> QED
    BY <2>1, OpenEnds
<1>3. ASSUME AttemptRetried \/ AttemptFails \/ RecordDeadLetter \/ TruncateLetters
      PROVE  OpenIsNewest'
  <2>1. /\ call # NoCall /\ UNCHANGED <<fate, requests>>
    BY <1>3 DEF AttemptRetried, AttemptFails, RecordDeadLetter, TruncateLetters, InPhase, Attempted
  <2>2. call \in Calls
    BY <2>1, CurrentType
  <2>3. call' # NoCall
    <3>1. CASE AttemptRetried
      <4>1. call' = [call EXCEPT !.attempt = call.attempt + 1] /\ call.attempt \in Nat
        BY <2>2, <3>1 DEF AttemptRetried, Calls
      <4>2. call' \in Calls
        BY <2>2, <4>1 DEF Calls
      <4> QED
        BY <4>2, DeliveryAssumption
    <3>2. CASE AttemptFails
      <4>1. PICK o \in Outcome : call' = [call EXCEPT !.phase = "letter", !.retryable = o.retryable]
        BY <2>1, <3>2, CurrentType, OutcomesType DEF AttemptFails
      <4>2. call' \in Calls
        BY <2>2, <4>1 DEF Calls, Outcome
      <4> QED
        BY <4>2, DeliveryAssumption
    <3>3. CASE RecordDeadLetter
      <4>1. call' \in Calls
        BY <2>2, <3>3 DEF Calls, RecordDeadLetter
      <4> QED
        BY <4>1, DeliveryAssumption
    <3>4. CASE TruncateLetters
      <4>1. LastOf(letters, MaxRecords) \in Seq(Nat)
        BY LastOfType, DeliveryAssumption DEF TypeOK
      <4>2. call' \in Calls
        BY <2>2, <3>4, <4>1 DEF Calls, TruncateLetters
      <4> QED
        BY <4>2, DeliveryAssumption
    <3> QED
      BY <1>3, <3>1, <3>2, <3>3, <3>4
  <2> QED
    BY <2>1, <2>3, OpenKept
<1>4. ASSUME ResetMetrics \/ ClearDeliveryLog \/ UNCHANGED vars PROVE OpenIsNewest'
  BY <1>4, OpenKept DEF ResetMetrics, ClearDeliveryLog, vars
<1>5. ASSUME NEW w \in abandoned, AbandonedLands(w) PROVE OpenIsNewest'
  BY <1>5, OpenKept DEF AbandonedLands
<1>6. ASSUME Crash PROVE OpenIsNewest'
  <2>1. CASE call = NoCall
    BY <1>6, <2>1, OpenKept DEF Crash
  <2>2. CASE call # NoCall
    BY <1>6, <2>2, OpenEnds DEF Crash
  <2> QED
    BY <2>1, <2>2
<1> QED
  BY <1>1, <1>2, <1>3, <1>4, <1>5, <1>6 DEF Next, Progress

\* Steps that neither write nor report a delivery.
LEMMA CopiesKept ==
  ASSUME TypeOK, CopiesInv, OpenIsNewest',
         UNCHANGED <<tried, abandoned, requests>>,
         \A n \in Numbers : fate'[n] = fate[n] \/ (fate[n] = "open" /\ fate'[n] # "delivered")
  PROVE  CopiesInv'
<1>1. ASSUME NEW n \in Numbers PROVE CopiesOf(n)'
  <2>1. CopiesOf(n) /\ Waiting(n)' = Waiting(n)
    BY DEF CopiesInv, Waiting
  <2> QED
    BY <2>1 DEF CopiesOf
<1>2. Numbers' = Numbers
  BY DEF Numbers
<1> QED
  BY <1>1, <1>2 DEF CopiesInv

LEMMA CopiesBegin ==
  ASSUME TypeOK, CopiesInv, OpenIsNewest', NEW q, NEW phase, NEW attempt,
         Begun(q, phase, attempt)
  PROVE  CopiesInv'
<1> DEFINE new == [attempts |-> 0, unsure |-> FALSE, landed |-> 0]
<1>1. /\ requests' = Append(requests, q) /\ fate' = Append(fate, "open")
      /\ tried' = Append(tried, new) /\ abandoned' = abandoned
  BY DEF Begun, world
<1>2. /\ Len(fate) = Len(requests) /\ Len(tried) = Len(requests) /\ Len(requests) \in Nat
      /\ Len(requests') = Len(requests) + 1
  BY <1>1 DEF TypeOK
<1>3. /\ \A n \in Numbers : tried'[n] = tried[n] /\ fate'[n] = fate[n]
      /\ tried'[Len(requests')] = new /\ fate'[Len(requests')] = "open"
  BY <1>1, <1>2 DEF TypeOK, Numbers
<1>4. ASSUME NEW n \in Numbers' PROVE CopiesOf(n)'
  <2>1. CASE n \in Numbers
    <3>1. CopiesOf(n) /\ Waiting(n)' = Waiting(n)
      BY <1>1, <2>1 DEF CopiesInv, Waiting
    <3> QED
      BY <1>3, <2>1, <3>1 DEF CopiesOf
  <2>2. CASE n \notin Numbers
    <3>1. n = Len(requests')
      BY <1>2, <2>2 DEF Numbers
    <3>2. Waiting(n)' = {}
      BY <1>1, <2>2 DEF Waiting, TypeOK
    <3>3. Cardinality(Waiting(n)') = 0
      BY <3>2, FS_EmptySet
    <3> QED
      BY <1>3, <3>1, <3>3 DEF CopiesOf
  <2> QED
    BY <2>1, <2>2
<1>5. \A w \in abandoned' : tried'[w.number].unsure
  BY <1>1, <1>3 DEF CopiesInv, TypeOK
<1> QED
  BY <1>1, <1>4, <1>5 DEF CopiesInv

\* What an attempt leaves of its call.
LEMMA AttemptEffect ==
  ASSUME TypeOK, call # NoCall, NEW o \in Outcome, Attempted(o)
  PROVE  LET k == Len(requests) IN
         /\ k \in Numbers
         /\ tried'[k].attempts = tried[k].attempts + 1
         /\ tried'[k].unsure = (tried[k].unsure \/ (o.status = "failed" /\ o.write # "never"))
         /\ tried'[k].landed = tried[k].landed + IF o.write = "now" THEN 1 ELSE 0
         /\ \A n \in Numbers : n # k => tried'[n] = tried[n]
         /\ requests' = requests
<1>1. Len(requests) \in Numbers /\ Len(tried) = Len(requests)
  BY CurrentType DEF Numbers, TypeOK
<1>2. DOMAIN tried = Numbers
  BY <1>1 DEF TypeOK, Numbers
<1> QED
  BY <1>1, <1>2 DEF Attempted

LEMMA CopiedEffect ==
  ASSUME NEW t, NEW u \in BOOLEAN
  PROVE  /\ Copied(t, u).attempts = t.attempts
         /\ Copied(t, u).unsure = (t.unsure \/ u)
         /\ Copied(t, u).landed = t.landed + 1
BY DEF Copied

\* An attempt writes at most once, now or, when it is abandoned, later.
LEMMA CopiesAttempt ==
  ASSUME TypeOK, CopiesInv, OpenIsNewest', call # NoCall,
         NEW o \in Outcome, Attempted(o),
         o.status = "delivered" => o.write = "now",
         \/ fate' = fate /\ o.status = "failed"
         \/ fate' = [fate EXCEPT ![Len(fate)] = "delivered"] /\ o.status = "delivered"
  PROVE  CopiesInv'
<1>0. PICK k \in Numbers : k = Len(requests)
  BY AttemptEffect
<1> DEFINE later == [number |-> k, attempt |-> call.attempt]
<1>1. /\ tried'[k].attempts = tried[k].attempts + 1
      /\ tried'[k].unsure = (tried[k].unsure \/ (o.status = "failed" /\ o.write # "never"))
      /\ tried'[k].landed = tried[k].landed + IF o.write = "now" THEN 1 ELSE 0
      /\ \A n \in Numbers : n # k => tried'[n] = tried[n]
      /\ requests' = requests
  BY <1>0, AttemptEffect
<1>2. fate[k] = "open"
  <2>1. Len(fate) = k
    BY <1>0 DEF TypeOK
  <2> QED
    BY <2>1 DEF CopiesInv, OpenIsNewest
<1>3. /\ \A n \in Numbers : n # k => fate'[n] = fate[n]
      /\ fate'[k] = IF o.status = "delivered" THEN "delivered" ELSE "open"
  <2>1. CASE fate' = fate /\ o.status = "failed"
    BY <1>2, <2>1
  <2>2. CASE fate' = [fate EXCEPT ![Len(fate)] = "delivered"] /\ o.status = "delivered"
    BY <1>0, <2>2, EndEffect
  <2> QED
    BY <2>1, <2>2
<1>4. abandoned' = IF o.write = "later" THEN abandoned \cup {later} ELSE abandoned
  BY <1>0 DEF Attempted
<1>5. IsFiniteSet(abandoned')
  BY <1>4, FS_AddElement DEF CopiesInv
<1>6. \A n \in Numbers : n # k => Waiting(n)' = Waiting(n)
  BY <1>4 DEF Waiting
<1>7. Cardinality(Waiting(k)') <= Cardinality(Waiting(k)) + IF o.write = "later" THEN 1 ELSE 0
  <2>1. IsFiniteSet(Waiting(k)) /\ Cardinality(Waiting(k)) \in Nat
    BY WaitingFinite DEF CopiesInv
  <2>2. CASE o.write = "later"
    <3>1. Waiting(k)' = Waiting(k) \cup {later}
      BY <1>4, <2>2 DEF Waiting
    <3>2. Cardinality(Waiting(k)') \in {Cardinality(Waiting(k)), Cardinality(Waiting(k)) + 1}
      BY <2>1, <3>1, FS_AddElement
    <3> QED
      BY <2>1, <2>2, <3>2
  <2>3. CASE o.write # "later"
    <3>1. Waiting(k)' = Waiting(k)
      BY <1>4, <2>3 DEF Waiting
    <3> QED
      BY <2>1, <2>3, <3>1
  <2> QED
    BY <2>2, <2>3
<1>8. ASSUME NEW n \in Numbers PROVE CopiesOf(n)'
  <2>1. CopiesOf(n)
    BY DEF CopiesInv
  <2>2. CASE n # k
    BY <1>1, <1>3, <1>6, <2>1, <2>2 DEF CopiesOf
  <2>3. CASE n = k
    <3>1. /\ tried[k].attempts \in Nat /\ tried[k].landed \in Nat
          /\ tried[k].unsure \in BOOLEAN
      BY <1>1, CallType
    <3>2. /\ Cardinality(Waiting(k)) \in Nat
          /\ Cardinality(Waiting(k)') \in Nat
      <4>1. Waiting(k)' \subseteq abandoned'
        BY DEF Waiting
      <4>2. IsFiniteSet(Waiting(k)')
        BY <1>5, <4>1, FS_Subset
      <4> QED
        BY <4>2, WaitingFinite, FS_CardinalityType DEF CopiesInv
    <3>3. /\ ~tried[k].unsure => tried[k].landed = 0
          /\ tried[k].landed + Cardinality(Waiting(k)) <= tried[k].attempts
      BY <1>2, <2>1, <2>3 DEF CopiesOf
    <3>4. ~tried'[k].unsure => tried'[k].landed = IF fate'[k] = "delivered" THEN 1 ELSE 0
      <4>1. CASE o.status = "delivered"
        BY <1>1, <1>3, <3>1, <3>3, <4>1
      <4>2. CASE o.status = "failed"
        <5>1. CASE o.write = "never"
          <6>1. tried'[k].unsure = tried[k].unsure /\ tried'[k].landed = tried[k].landed
            BY <1>1, <3>1, <5>1
          <6> QED
            BY <1>3, <3>3, <4>2, <6>1
        <5>2. CASE o.write # "never"
          BY <1>1, <4>2, <5>2
        <5> QED
          BY <5>1, <5>2
      <4> QED
        BY <4>1, <4>2 DEF Outcome
    <3>5. fate'[k] = "delivered" => tried'[k].landed > 0
      BY <1>1, <1>3, <3>1
    <3>6. tried'[k].landed + Cardinality(Waiting(k)') <= tried'[k].attempts
      BY SMTT(30), <1>1, <1>7, <3>1, <3>2, <3>3
    <3>7. CopiesOf(k)'
      BY <3>4, <3>5, <3>6 DEF CopiesOf
    <3> QED
      BY <2>3, <3>7
  <2> QED
    BY <2>2, <2>3
<1>9. ASSUME NEW w \in abandoned' PROVE tried'[w.number].unsure
  <2>1. CASE w \in abandoned
    <3>1. w.number \in Numbers /\ tried[w.number].unsure
      BY <2>1 DEF CopiesInv, TypeOK
    <3> QED
      BY <1>1, <3>1
  <2>2. CASE w \notin abandoned
    <3>1. w = later /\ o.write = "later"
      BY <1>4, <2>2
    <3> QED
      BY <1>1, <3>1 DEF Outcome
  <2> QED
    BY <2>1, <2>2
<1>10. Numbers' = Numbers
  BY <1>1 DEF Numbers
<1> QED
  BY <1>5, <1>8, <1>9, <1>10 DEF CopiesInv

\* A call that ends without an answer, whatever its last attempt has written.
LEMMA CopiesBroken ==
  ASSUME TypeOK, CopiesInv, OpenIsNewest', call # NoCall, NEW f \in {"raised", "crashed"},
         fate' = [fate EXCEPT ![Len(fate)] = f], requests' = requests,
         \/ tried' = tried
         \/ tried' = [tried EXCEPT ![Len(tried)] = Copied(@, TRUE)],
         abandoned' \in {abandoned, {}}
  PROVE  CopiesInv'
<1>1. /\ Len(requests) \in Numbers /\ Len(fate) = Len(requests) /\ Len(tried) = Len(requests)
      /\ fate'[Len(requests)] = f
      /\ \A n \in Numbers : n # Len(requests) => fate'[n] = fate[n]
  BY EndEffect
<1>2. fate[Len(requests)] = "open"
  BY <1>1 DEF CopiesInv, OpenIsNewest
<1>3. DOMAIN tried = Numbers
  BY <1>1 DEF TypeOK, Numbers
<1>4. /\ \A n \in Numbers : n # Len(requests) => tried'[n] = tried[n]
      /\ \A n \in Numbers : tried[n].unsure => tried'[n].unsure
      /\ \/ tried' = tried
         \/ tried'[Len(requests)].unsure
  <2>1. CASE tried' = tried
    BY <2>1
  <2>2. CASE tried' = [tried EXCEPT ![Len(tried)] = Copied(@, TRUE)]
    <3>1. tried'[Len(requests)] = Copied(tried[Len(requests)], TRUE)
      BY <1>1, <1>3, <2>2
    <3>2. tried'[Len(requests)].unsure
      <4>1. Copied(tried[Len(requests)], TRUE).unsure = TRUE
        BY Zenon DEF Copied
      <4> QED
        BY <3>1, <4>1
    <3>3. \A n \in Numbers : n # Len(requests) => tried'[n] = tried[n]
      BY <1>1, <1>3, <2>2
    <3> QED
      BY <3>2, <3>3
  <2> QED
    BY <2>1, <2>2
<1>5. IsFiniteSet(abandoned') /\ abandoned' \subseteq abandoned
  BY FS_EmptySet DEF CopiesInv
<1>6. ASSUME NEW n \in Numbers PROVE CopiesOf(n)'
  <2>1. CopiesOf(n)
    BY DEF CopiesInv
  <2>2. CASE n # Len(requests)
    <3>1. tried'[n] = tried[n] /\ fate'[n] = fate[n]
      BY <1>1, <1>4, <2>2
    <3>2. Cardinality(Waiting(n)') <= Cardinality(Waiting(n))
      <4>1. Waiting(n)' \in {Waiting(n), {}}
        BY DEF Waiting
      <4>2. Cardinality(Waiting(n)) \in Nat
        BY WaitingFinite DEF CopiesInv
      <4>3. Cardinality(Waiting(n)') \in {Cardinality(Waiting(n)), 0}
        BY <4>1, FS_EmptySet
      <4> QED
        BY <4>2, <4>3
    <3>3. /\ tried[n].attempts \in Nat /\ tried[n].landed \in Nat
          /\ Cardinality(Waiting(n)) \in Nat
      BY CallType, WaitingFinite DEF CopiesInv
    <3>4. Cardinality(Waiting(n)') \in Nat
      <4>1. IsFiniteSet(Waiting(n)')
        BY <1>5, FS_Subset DEF Waiting
      <4> QED
        BY <4>1, FS_CardinalityType
    <3> QED
      BY <2>1, <3>1, <3>2, <3>3, <3>4 DEF CopiesOf
  <2>3. CASE n = Len(requests)
    BY <1>1, <1>2, <1>4, <2>1, <2>3 DEF CopiesOf
  <2> QED
    BY <2>2, <2>3
<1>7. \A w \in abandoned' : tried'[w.number].unsure
  BY <1>4, <1>5 DEF CopiesInv, TypeOK
<1>8. Numbers' = Numbers
  BY DEF Numbers
<1> QED
  BY <1>5, <1>6, <1>7, <1>8 DEF CopiesInv

\* A write that lands late is one of those that were waiting.
LEMMA CopiesLand ==
  ASSUME TypeOK, CopiesInv, OpenIsNewest', NEW w \in abandoned, AbandonedLands(w)
  PROVE  CopiesInv'
<1>0. PICK k \in Numbers : k = w.number
  BY DEF TypeOK
<1>1. /\ tried' = [tried EXCEPT ![k] = Copied(tried[k], FALSE)]
      /\ abandoned' = abandoned \ {w} /\ fate' = fate /\ requests' = requests
  BY <1>0 DEF AbandonedLands
<1>2. DOMAIN tried = Numbers
  BY DEF TypeOK, Numbers
<1>3. \A n \in Numbers : n # k => tried'[n] = tried[n]
  BY <1>1, <1>2
<1>4. /\ tried'[k].attempts = tried[k].attempts
      /\ tried'[k].landed = tried[k].landed + 1
      /\ tried'[k].unsure
  <2>1. tried'[k] = Copied(tried[k], FALSE) /\ tried[k].unsure
    BY <1>0, <1>1, <1>2 DEF CopiesInv
  <2>2. (tried[k].unsure \/ FALSE) = TRUE
    <3>1. tried[k].unsure \in BOOLEAN
      BY CallType
    <3> QED
      BY <2>1, <3>1
  <2>3. tried'[k].unsure = TRUE
    BY <2>1, <2>2, CopiedEffect
  <2> QED
    BY <2>1, <2>3, CopiedEffect
<1>5. IsFiniteSet(abandoned')
  BY <1>1, FS_RemoveElement DEF CopiesInv
<1>6. \A n \in Numbers : n # k => Waiting(n)' = Waiting(n)
  BY <1>0, <1>1 DEF Waiting
<1>7. /\ Cardinality(Waiting(k)') = Cardinality(Waiting(k)) - 1
      /\ Cardinality(Waiting(k)) \in Nat
  <2>1. Waiting(k)' = Waiting(k) \ {w} /\ w \in Waiting(k)
    BY <1>0, <1>1 DEF Waiting
  <2> QED
    BY <2>1, WaitingFinite, FS_RemoveElement DEF CopiesInv
<1>8. ASSUME NEW n \in Numbers PROVE CopiesOf(n)'
  <2>1. CopiesOf(n)
    BY DEF CopiesInv
  <2>2. CASE n # k
    BY <1>1, <1>3, <1>6, <2>1, <2>2 DEF CopiesOf
  <2>3. CASE n = k
    <3>1. tried[k].attempts \in Nat /\ tried[k].landed \in Nat
      BY CallType
    <3>2. CopiesOf(k)
      BY <2>1, <2>3
    <3>3. fate'[k] = "delivered" => tried'[k].landed > 0
      BY <1>4, <3>1
    <3>4. fate'[k] \notin {"crashed", "raised"} =>
            tried'[k].landed + Cardinality(Waiting(k)') <= tried'[k].attempts
      <4>1. fate[k] \notin {"crashed", "raised"} =>
              tried[k].landed + Cardinality(Waiting(k)) <= tried[k].attempts
        BY <3>2 DEF CopiesOf
      <4>2. tried'[k].landed + Cardinality(Waiting(k)')
              = tried[k].landed + Cardinality(Waiting(k))
        BY <1>4, <1>7, <3>1
      <4>3. fate'[k] = fate[k]
        BY <1>1
      <4> QED
        BY <1>4, <4>1, <4>2, <4>3
    <3>5. CopiesOf(k)'
      BY <1>4, <3>3, <3>4 DEF CopiesOf
    <3> QED
      BY <2>3, <3>5
  <2> QED
    BY <2>2, <2>3
<1>9. \A v \in abandoned' : tried'[v.number].unsure
  BY <1>1, <1>3, <1>4 DEF CopiesInv, TypeOK
<1>10. Numbers' = Numbers
  BY <1>1 DEF Numbers
<1> QED
  BY <1>5, <1>8, <1>9, <1>10 DEF CopiesInv

LEMMA InitCopies == Init => CopiesInv
<1> SUFFICES ASSUME Init PROVE CopiesInv
  OBVIOUS
<1>1. requests = << >> /\ abandoned = {} /\ call = NoCall
  BY DEF Init
<1>2. Numbers = {}
  BY <1>1 DEF Numbers
<1> QED
  BY <1>1, <1>2, FS_EmptySet DEF CopiesInv, OpenIsNewest

LEMMA NextCopies ==
  ASSUME TypeOK, TypeOK', CopiesInv, [Next]_vars
  PROVE  CopiesInv'
<1> USE DEF metrics, world, history
<1>0. OpenIsNewest'
  BY NextOpen DEF CopiesInv
<1>1. ASSUME NEW q \in Requests, Deliver(q) \/ DeliverUnsupported(q) PROVE CopiesInv'
  BY <1>0, <1>1, CopiesBegin DEF Deliver, DeliverUnsupported
<1>2. ASSUME AttemptSucceeds PROVE CopiesInv'
  <2>1. call # NoCall
    BY <1>2 DEF AttemptSucceeds, InPhase
  <2>2. PICK o \in Outcomes(Current) : o.status = "delivered" /\ Attempted(o)
    BY <1>2 DEF AttemptSucceeds
  <2>3. o \in Outcome /\ o.write = "now"
    BY <2>1, <2>2, CurrentType, OutcomesType, DeliveredIsWritten
  <2>4. fate' = [fate EXCEPT ![Len(fate)] = "delivered"]
    BY <1>2 DEF AttemptSucceeds, Return
  <2> QED
    BY <1>0, <2>1, <2>2, <2>3, <2>4, CopiesAttempt
<1>3. ASSUME AttemptRetried \/ AttemptFails PROVE CopiesInv'
  <2>1. call # NoCall /\ fate' = fate
    BY <1>3 DEF AttemptRetried, AttemptFails, InPhase
  <2>2. PICK o \in Outcomes(Current) : o.status = "failed" /\ Attempted(o)
    BY <1>3 DEF AttemptRetried, AttemptFails
  <2>3. o \in Outcome
    BY <2>1, CurrentType, OutcomesType
  <2> QED
    BY <1>0, <2>1, <2>2, <2>3, CopiesAttempt
<1>4. ASSUME AdapterRaises PROVE CopiesInv'
  <2>1. /\ call # NoCall /\ UNCHANGED <<requests, abandoned>>
        /\ fate' = [fate EXCEPT ![Len(fate)] = "raised"]
        /\ \/ tried' = tried
           \/ tried' = [tried EXCEPT ![Len(tried)] = Copied(@, TRUE)]
    BY <1>4 DEF AdapterRaises, InPhase, Raise
  <2> QED
    BY <1>0, <2>1, CopiesBroken
<1>5. ASSUME RecordDeadLetter \/ TruncateLetters PROVE CopiesInv'
  BY <1>0, <1>5, CopiesKept DEF RecordDeadLetter, TruncateLetters
<1>6. ASSUME KeepLetters \/ RewriteLetters \/ StoreRaises PROVE CopiesInv'
  <2>1. /\ call # NoCall /\ UNCHANGED <<requests, abandoned, tried>>
        /\ \E f \in {"dead", "raised"} : fate' = [fate EXCEPT ![Len(fate)] = f]
    BY <1>6 DEF KeepLetters, RewriteLetters, StoreRaises, InPhase, Return, Raise
  <2>2. fate[Len(requests)] = "open"
    BY <2>1, EndEffect DEF CopiesInv, OpenIsNewest
  <2>3. \A n \in Numbers : fate'[n] = fate[n] \/ (fate[n] = "open" /\ fate'[n] # "delivered")
    BY <2>1, <2>2, EndEffect
  <2> QED
    BY <1>0, <2>1, <2>3, CopiesKept
<1>7. ASSUME ResetMetrics \/ ClearDeliveryLog \/ UNCHANGED vars PROVE CopiesInv'
  BY <1>0, <1>7, CopiesKept DEF ResetMetrics, ClearDeliveryLog, vars
<1>8. ASSUME NEW w \in abandoned, AbandonedLands(w) PROVE CopiesInv'
  BY <1>0, <1>8, CopiesLand
<1>9. ASSUME Crash PROVE CopiesInv'
  <2>1. CASE call # NoCall
    BY <1>0, <1>9, <2>1, CopiesBroken DEF Crash
  <2>2. CASE call = NoCall
    <3>1. UNCHANGED <<requests, tried, fate>> /\ abandoned' = {}
      BY <1>9, <2>2 DEF Crash, InPhase
    <3>2. ASSUME NEW n \in Numbers PROVE CopiesOf(n)'
      <4>1. CopiesOf(n) /\ Cardinality(Waiting(n)) \in Nat
        BY WaitingFinite DEF CopiesInv
      <4>2. Waiting(n)' = {}
        BY <3>1 DEF Waiting
      <4>3. Cardinality(Waiting(n)') = 0
        BY <4>2, FS_EmptySet
      <4>4. tried[n].landed \in Nat /\ tried[n].attempts \in Nat
        BY CallType
      <4> QED
        BY <3>1, <4>1, <4>3, <4>4 DEF CopiesOf
    <3>3. Numbers' = Numbers
      BY <3>1 DEF Numbers
    <3> QED
      BY <1>0, <3>1, <3>2, <3>3, FS_EmptySet DEF CopiesInv
  <2> QED
    BY <2>1, <2>2
<1> QED
  BY <1>1, <1>2, <1>3, <1>4, <1>5, <1>6, <1>7, <1>8, <1>9 DEF Next, Progress

\* For any sinks, adapters, policies and store: a destination has received an
\* alert more than once, or one that was given up, only when the answer to an
\* attempt left open whether it had, and never more often than there were
\* attempts while calls end by an answer (deliver, _run_with_timeout).
THEOREM CopiesAreExplained == Spec => []CopiesExplained
<1>1. TypeOK /\ TypeOK' /\ CopiesInv /\ [Next]_vars => CopiesInv'
  BY NextCopies
<1>2. TypeOK /\ CopiesInv => CopiesExplained
  <2> SUFFICES ASSUME TypeOK, CopiesInv, NEW n \in Numbers
               PROVE  /\ ~tried[n].unsure => tried[n].landed = IF fate[n] = "delivered" THEN 1 ELSE 0
                      /\ fate[n] = "delivered" => tried[n].landed > 0
                      /\ fate[n] \notin {"crashed", "raised"} => tried[n].landed <= tried[n].attempts
    BY DEF CopiesExplained
  <2>1. Cardinality(Waiting(n)) \in Nat /\ tried[n].landed \in Nat /\ tried[n].attempts \in Nat
    BY WaitingFinite, CallType DEF CopiesInv
  <2> QED
    BY <2>1 DEF CopiesInv, CopiesOf
<1> QED
  BY <1>1, <1>2, InitCopies, DeliveryTypeCorrect, PTL DEF Spec

-----------------------------------------------------------------------------
\* Dead letters

\* What IsSuffix says, index by index.
EndsWith(t, s) ==
  Len(s) <= Len(t) /\ \A i \in 1 .. Len(s) : s[i] = t[Len(t) - Len(s) + i]

LEMMA FirstOnes ==
  ASSUME NEW u \in Seq(Nat), NEW m \in Nat, m <= Len(u)
  PROVE  /\ SubSeq(u, 1, m) \in Seq(Nat) /\ Len(SubSeq(u, 1, m)) = m
         /\ \A i \in 1 .. m : SubSeq(u, 1, m)[i] = u[i]
<1>1. \A i \in 1 .. m : u[i] \in Nat
  OBVIOUS
<1>2. /\ SubSeq(u, 1, m) \in Seq(Nat)
      /\ Len(SubSeq(u, 1, m)) = IF 1 <= m THEN m - 1 + 1 ELSE 0
      /\ \A i \in 1 .. m - 1 + 1 : SubSeq(u, 1, m)[i] = u[1 + i - 1]
  BY <1>1, SubSeqProperties
<1>3. m - 1 + 1 = m /\ \A i \in 1 .. m : 1 + i - 1 = i
  OBVIOUS
<1> QED
  BY <1>2, <1>3

LEMMA SuffixIs ==
  ASSUME NEW s \in Seq(Nat), NEW t \in Seq(Nat)
  PROVE  IsSuffix(s, t) <=> EndsWith(t, s)
<1> DEFINE m == Len(s)
           n == Len(t)
           rs == Reverse(s)
           rt == Reverse(t)
<1>1. m \in Nat /\ n \in Nat
  OBVIOUS
<1>2. \A u \in Seq(Nat) :
        /\ Reverse(u) \in Seq(Nat) /\ Len(Reverse(u)) = Len(u)
        /\ \A i \in 1 .. Len(u) : Reverse(u)[i] = u[Len(u) - i + 1]
  <2> SUFFICES ASSUME NEW u \in Seq(Nat)
               PROVE  /\ Reverse(u) \in Seq(Nat) /\ Len(Reverse(u)) = Len(u)
                      /\ \A i \in 1 .. Len(u) : Reverse(u)[i] = u[Len(u) - i + 1]
    OBVIOUS
  <2>1. Len(u) \in Nat /\ \A i \in 1 .. Len(u) : u[Len(u) - i + 1] \in Nat
    OBVIOUS
  <2>2. Reverse(u) \in [1 .. Len(u) -> Nat]
    BY <2>1 DEF Reverse
  <2> QED
    BY <2>1, <2>2, IsASeq DEF Reverse
<1>3. /\ rs \in Seq(Nat) /\ Len(rs) = m /\ \A i \in 1 .. m : rs[i] = s[m - i + 1]
      /\ rt \in Seq(Nat) /\ Len(rt) = n /\ \A i \in 1 .. n : rt[i] = t[n - i + 1]
  BY <1>2
<1> HIDE DEF rs, rt
<1>4. IsSuffix(s, t) <=> m <= n /\ SubSeq(rs, 1, m) = SubSeq(rt, 1, m)
  BY <1>3 DEF IsSuffix, IsPrefix, rs, rt
<1>5. EndsWith(t, s) <=> m <= n /\ \A i \in 1 .. m : s[i] = t[n - m + i]
  BY DEF EndsWith
<1> SUFFICES ASSUME m <= n
             PROVE  SubSeq(rs, 1, m) = SubSeq(rt, 1, m) <=>
                      \A i \in 1 .. m : s[i] = t[n - m + i]
  BY <1>4, <1>5
<1>6. /\ SubSeq(rs, 1, m) \in Seq(Nat) /\ Len(SubSeq(rs, 1, m)) = m
      /\ \A i \in 1 .. m : SubSeq(rs, 1, m)[i] = s[m - i + 1]
      /\ SubSeq(rt, 1, m) \in Seq(Nat) /\ Len(SubSeq(rt, 1, m)) = m
      /\ \A i \in 1 .. m : SubSeq(rt, 1, m)[i] = t[n - i + 1]
  <2> HIDE DEF m, n
  <2>1. /\ SubSeq(rs, 1, m) \in Seq(Nat) /\ Len(SubSeq(rs, 1, m)) = m
        /\ \A i \in 1 .. m : SubSeq(rs, 1, m)[i] = rs[i]
    BY <1>1, <1>3, FirstOnes
  <2>2. /\ SubSeq(rt, 1, m) \in Seq(Nat) /\ Len(SubSeq(rt, 1, m)) = m
        /\ \A i \in 1 .. m : SubSeq(rt, 1, m)[i] = rt[i]
    BY <1>1, <1>3, FirstOnes
  <2>3. \A i \in 1 .. m : i \in 1 .. n
    BY <1>1
  <2> QED
    BY <1>3, <2>1, <2>2, <2>3
<1> HIDE DEF m, n
<1>7. SubSeq(rs, 1, m) = SubSeq(rt, 1, m) <=>
        \A i \in 1 .. m : s[m - i + 1] = t[n - i + 1]
  <2>1. ASSUME \A i \in 1 .. m : s[m - i + 1] = t[n - i + 1]
        PROVE  SubSeq(rs, 1, m) = SubSeq(rt, 1, m)
    BY <1>6, <2>1, SeqEqual
  <2> QED
    BY <1>6, <2>1
<1>8. (\A i \in 1 .. m : s[m - i + 1] = t[n - i + 1]) <=>
        \A i \in 1 .. m : s[i] = t[n - m + i]
  <2>1. ASSUME \A i \in 1 .. m : s[m - i + 1] = t[n - i + 1], NEW i \in 1 .. m
        PROVE  s[i] = t[n - m + i]
    <3>1. /\ m - i + 1 \in 1 .. m /\ m - (m - i + 1) + 1 = i
          /\ n - (m - i + 1) + 1 = n - m + i
      BY <1>1
    <3> QED
      BY <2>1, <3>1
  <2>2. ASSUME \A i \in 1 .. m : s[i] = t[n - m + i], NEW i \in 1 .. m
        PROVE  s[m - i + 1] = t[n - i + 1]
    <3>1. m - i + 1 \in 1 .. m /\ n - m + (m - i + 1) = n - i + 1
      BY <1>1
    <3> QED
      BY <2>2, <3>1
  <2> QED
    BY <2>1, <2>2
<1> QED
  BY <1>7, <1>8

\* A letter that is recorded last is recorded last in both.
LEMMA SuffixAppend ==
  ASSUME NEW s \in Seq(Nat), NEW t \in Seq(Nat), NEW x \in Nat, IsSuffix(s, t)
  PROVE  IsSuffix(Append(s, x), Append(t, x))
<1>1. EndsWith(t, s)
  BY SuffixIs
<1>2. EndsWith(Append(t, x), Append(s, x))
  <2>1. /\ Len(Append(s, x)) = Len(s) + 1 /\ Len(Append(t, x)) = Len(t) + 1
        /\ Len(s) \in Nat /\ Len(t) \in Nat /\ Len(s) <= Len(t)
    BY <1>1 DEF EndsWith
  <2>2. ASSUME NEW i \in 1 .. Len(s) + 1
        PROVE  Append(s, x)[i] = Append(t, x)[Len(t) + 1 - (Len(s) + 1) + i]
    <3>1. Len(t) + 1 - (Len(s) + 1) + i = Len(t) - Len(s) + i
      BY <2>1
    <3>2. CASE i \in 1 .. Len(s)
      <4>1. Append(s, x)[i] = s[i] /\ s[i] = t[Len(t) - Len(s) + i]
        BY <1>1, <3>2 DEF EndsWith
      <4>2. Len(t) - Len(s) + i \in 1 .. Len(t)
        BY <2>1, <3>2
      <4>3. Append(t, x)[Len(t) - Len(s) + i] = t[Len(t) - Len(s) + i]
        BY <4>2
      <4> QED
        BY <3>1, <4>1, <4>3
    <3>3. CASE i = Len(s) + 1
      <4>1. Len(t) - Len(s) + i = Len(t) + 1
        BY <2>1, <3>3
      <4> QED
        BY <3>1, <3>3, <4>1
    <3> QED
      BY SMTT(30), <2>1, <3>2, <3>3
  <2> DEFINE a == Append(s, x)
             b == Append(t, x)
  <2>3. /\ Len(a) = Len(s) + 1 /\ Len(b) = Len(t) + 1 /\ Len(a) <= Len(b)
        /\ \A i \in 1 .. Len(s) + 1 : a[i] = b[Len(t) + 1 - (Len(s) + 1) + i]
    BY <2>1, <2>2
  <2> HIDE DEF a, b
  <2>4. EndsWith(b, a)
    <3>1. ASSUME NEW i \in 1 .. Len(a) PROVE a[i] = b[Len(b) - Len(a) + i]
      <4>1. i \in 1 .. Len(s) + 1
        BY <2>3
      <4>2. Len(b) - Len(a) + i = Len(t) + 1 - (Len(s) + 1) + i
        BY <2>3
      <4> QED
        BY <2>3, <4>1, <4>2
    <3> QED
      BY <2>3, <3>1 DEF EndsWith
  <2> QED
    BY <2>4 DEF a, b
<1>3. Append(s, x) \in Seq(Nat) /\ Append(t, x) \in Seq(Nat)
  OBVIOUS
<1> QED
  BY <1>2, <1>3, SuffixIs

LEMMA SuffixSelf ==
  ASSUME NEW s \in Seq(Nat)
  PROVE  IsSuffix(s, s) /\ IsSuffix(<< >>, s)
<1>1. EndsWith(s, s) /\ EndsWith(s, << >>) /\ << >> \in Seq(Nat)
  BY DEF EndsWith
<1> QED
  BY <1>1, SuffixIs

\* Retention keeps the last lines (FileDeadLetterStore.record).
LEMMA LastOfKeeps ==
  ASSUME NEW s \in Seq(Nat), NEW t \in Seq(Nat), NEW n \in Nat \ {0},
         IsSuffix(s, t), Len(s) > n
  PROVE  /\ LastOf(s, n) \in Seq(Nat)
         /\ Len(LastOf(s, n)) = n
         /\ LastOf(s, n)[n] = s[Len(s)]
         /\ IsSuffix(LastOf(s, n), t)
<1> DEFINE m == Len(s)
           u == SubSeq(s, m - n + 1, m)
<1>1. /\ LastOf(s, n) = u /\ m \in Nat /\ m > n
      /\ \A i \in m - n + 1 .. m : s[i] \in Nat
  BY DEF LastOf
<1>2. /\ u \in Seq(Nat)
      /\ Len(u) = IF m - n + 1 <= m THEN m - (m - n + 1) + 1 ELSE 0
      /\ \A i \in 1 .. m - (m - n + 1) + 1 : u[i] = s[(m - n + 1) + i - 1]
  <2>1. m - n + 1 \in Int /\ m \in Int
    BY <1>1
  <2> HIDE DEF m
  <2> QED
    BY SMTT(30), <1>1, <2>1, SubSeqProperties
<1> HIDE DEF u, m
<1>3. Len(u) = n /\ \A i \in 1 .. n : u[i] = s[m - n + i]
  <2>1. m - n + 1 <= m /\ m - (m - n + 1) + 1 = n
    BY <1>1
  <2>2. \A i \in 1 .. n : (m - n + 1) + i - 1 = m - n + i
    BY <1>1
  <2> QED
    BY <1>2, <2>1, <2>2
<1>4. u[n] = s[m]
  <2>1. n \in 1 .. n /\ m - n + n = m
    BY <1>1
  <2> QED
    BY <1>3, <2>1
<1>5. Len(t) \in Nat /\ m <= Len(t) /\ \A i \in 1 .. m : s[i] = t[Len(t) - m + i]
  BY SuffixIs DEF EndsWith, m
<1>6. EndsWith(t, u)
  <2>1. ASSUME NEW i \in 1 .. n PROVE u[i] = t[Len(t) - n + i]
    <3>1. /\ m - n + i \in 1 .. m
          /\ Len(t) - m + (m - n + i) = Len(t) - n + i
      BY <1>1, <1>5
    <3> QED
      BY <1>3, <1>5, <3>1
  <2> QED
    BY <1>1, <1>3, <1>5, <2>1 DEF EndsWith
<1> QED
  BY <1>1, <1>2, <1>3, <1>4, <1>6, SuffixIs DEF m

\* The inductive invariant: what the file holds, or what a rewrite is about to
\* write, is the newest of what was recorded.
LettersInv ==
  Store = "file" =>
    /\ ~InPhase("rewrite") =>
         /\ IsSuffix(letters, recorded)
         /\ Len(letters) >= MaxRecords \/ letters = recorded
    /\ InPhase("rewrite") =>
         /\ letters = << >>
         /\ IsSuffix(call.kept, recorded)
         /\ Len(call.kept) = MaxRecords
    /\ call = NoCall /\ requests # << >> /\ Last(fate) = "dead" =>
         Len(letters) <= MaxRecords

\* A call that has ended as f is the last one.
LEMMA LastEnd ==
  ASSUME TypeOK, call # NoCall, NEW f, fate' = [fate EXCEPT ![Len(fate)] = f]
  PROVE  Last(fate') = f
BY EndEffect DEF Last

LEMMA InitLetters == Init => LettersInv
<1> SUFFICES ASSUME Init PROVE LettersInv
  OBVIOUS
<1>1. letters = recorded /\ call = NoCall /\ requests = << >> /\ letters \in Seq(Nat)
  BY InitType DEF Init, TypeOK
<1> QED
  BY <1>1, SuffixSelf DEF LettersInv, InPhase

LEMMA NextLetters ==
  ASSUME TypeOK, TypeOK', LettersInv, [Next]_vars
  PROVE  LettersInv'
<1> USE DEF metrics, world, history
<1> SUFFICES ASSUME Store = "file" PROVE LettersInv'
  BY DEF LettersInv
<1>0. /\ MaxRecords \in Nat \ {0}
      /\ letters \in Seq(Nat) /\ recorded \in Seq(Nat) /\ Len(requests) \in Nat
  BY DeliveryAssumption DEF TypeOK
<1>1. ASSUME NEW q \in Requests, Deliver(q) \/ DeliverUnsupported(q) PROVE LettersInv'
  <2>1. PICK phase \in {"attempt", "letter"}, attempt \in {0, 1} : Begun(q, phase, attempt)
    BY <1>1 DEF Deliver, DeliverUnsupported
  <2>2. /\ call = NoCall /\ call'.phase = phase
        /\ UNCHANGED <<letters, recorded>>
    BY <2>1 DEF Begun
  <2>3. call' # NoCall
    <3>1. call' = [phase |-> phase, attempt |-> attempt, retryable |-> FALSE, kept |-> << >>]
      BY <2>1 DEF Begun
    <3>2. call' \in Calls
      BY <3>1 DEF Calls
    <3> QED
      BY <3>2, DeliveryAssumption
  <2> QED
    BY <2>2, <2>3 DEF LettersInv, InPhase
<1>2. ASSUME AttemptSucceeds \/ AdapterRaises PROVE LettersInv'
  <2>1. /\ call # NoCall /\ call.phase = "attempt" /\ call' = NoCall
        /\ UNCHANGED <<letters, recorded>>
        /\ \E f \in {"delivered", "raised"} : fate' = [fate EXCEPT ![Len(fate)] = f]
    BY <1>2 DEF AttemptSucceeds, AdapterRaises, Return, Raise, InPhase, Attempted
  <2>2. Last(fate') # "dead"
    BY <2>1, LastEnd
  <2> QED
    BY <2>1, <2>2 DEF LettersInv, InPhase
<1>3. ASSUME AttemptRetried \/ AttemptFails PROVE LettersInv'
  <2>1. /\ call # NoCall /\ call.phase = "attempt" /\ UNCHANGED <<letters, recorded>>
        /\ call \in Calls
    BY <1>3, CurrentType DEF AttemptRetried, AttemptFails, InPhase, Attempted
  <2>2. call' # NoCall /\ call'.phase \in {"attempt", "letter"}
    <3>1. CASE AttemptRetried
      <4>1. call' = [call EXCEPT !.attempt = call.attempt + 1] /\ call.attempt \in Nat
        BY <2>1, <3>1 DEF AttemptRetried, Calls
      <4>2. call' \in Calls /\ call'.phase = "attempt"
        BY <2>1, <4>1 DEF Calls
      <4> QED
        BY <4>2, DeliveryAssumption
    <3>2. CASE AttemptFails
      <4>1. PICK o \in Outcome : call' = [call EXCEPT !.phase = "letter", !.retryable = o.retryable]
        BY <2>1, <3>2, CurrentType, OutcomesType DEF AttemptFails
      <4>2. call' \in Calls /\ call'.phase = "letter"
        BY <2>1, <4>1 DEF Calls, Outcome
      <4> QED
        BY <4>2, DeliveryAssumption
    <3> QED
      BY <1>3, <3>1, <3>2
  <2> QED
    BY <2>1, <2>2 DEF LettersInv, InPhase
<1>4. ASSUME RecordDeadLetter PROVE LettersInv'
  <2>1. /\ call # NoCall /\ call.phase = "letter" /\ call \in Calls
        /\ letters' = Append(letters, Len(requests))
        /\ recorded' = Append(recorded, Len(requests))
        /\ call' = [call EXCEPT !.phase = "retain"]
    BY <1>4, CurrentType DEF RecordDeadLetter, InPhase
  <2>2. call' # NoCall /\ call'.phase = "retain"
    <3>1. call' \in Calls /\ call'.phase = "retain"
      BY <2>1 DEF Calls
    <3> QED
      BY <3>1, DeliveryAssumption
  <2>3. IsSuffix(letters, recorded) /\ (Len(letters) >= MaxRecords \/ letters = recorded)
    BY <2>1 DEF LettersInv, InPhase
  <2>4. IsSuffix(letters', recorded')
    BY <1>0, <2>1, <2>3, SuffixAppend
  <2>5. Len(letters') = Len(letters) + 1
    BY <1>0, <2>1
  <2>6. Len(letters') >= MaxRecords \/ letters' = recorded'
    BY <1>0, <2>1, <2>3, <2>5
  <2> QED
    BY <2>2, <2>4, <2>6 DEF LettersInv, InPhase
<1>5. ASSUME KeepLetters PROVE LettersInv'
  <2>1. /\ call # NoCall /\ call.phase = "retain" /\ call' = NoCall
        /\ UNCHANGED <<letters, recorded>> /\ ~(Len(letters) > MaxRecords)
    BY <1>5 DEF KeepLetters, InPhase, Return, Exceeds
  <2>2. Len(letters) <= MaxRecords
    BY <1>0, <2>1
  <2> QED
    BY <2>1, <2>2 DEF LettersInv, InPhase
<1>6. ASSUME TruncateLetters PROVE LettersInv'
  <2>1. /\ call # NoCall /\ call.phase = "retain" /\ call \in Calls
        /\ Len(letters) > MaxRecords
        /\ letters' = << >> /\ recorded' = recorded
        /\ call' = [call EXCEPT !.phase = "rewrite", !.kept = LastOf(letters, MaxRecords)]
    BY <1>6, CurrentType DEF TruncateLetters, InPhase, Exceeds
  <2>2. IsSuffix(letters, recorded)
    BY <2>1 DEF LettersInv, InPhase
  <2>3. /\ LastOf(letters, MaxRecords) \in Seq(Nat)
        /\ Len(LastOf(letters, MaxRecords)) = MaxRecords
        /\ IsSuffix(LastOf(letters, MaxRecords), recorded)
    BY <1>0, <2>1, <2>2, LastOfKeeps
  <2>4. /\ call' # NoCall /\ call'.phase = "rewrite"
        /\ call'.kept = LastOf(letters, MaxRecords)
    <3>1. /\ call' \in Calls /\ call'.phase = "rewrite"
          /\ call'.kept = LastOf(letters, MaxRecords)
      BY <2>1, <2>3 DEF Calls
    <3> QED
      BY <3>1, DeliveryAssumption
  <2> QED
    BY <2>1, <2>3, <2>4 DEF LettersInv, InPhase
<1>7. ASSUME RewriteLetters PROVE LettersInv'
  <2>1. /\ call # NoCall /\ call.phase = "rewrite" /\ call' = NoCall
        /\ letters' = call.kept /\ recorded' = recorded
    BY <1>7 DEF RewriteLetters, InPhase, Return
  <2>2. IsSuffix(letters', recorded') /\ Len(letters') = MaxRecords
    BY <2>1 DEF LettersInv, InPhase
  <2> QED
    BY <1>0, <2>1, <2>2 DEF LettersInv, InPhase
<1>8. ASSUME StoreRaises PROVE LettersInv'
  <2>1. /\ call # NoCall /\ call' = NoCall /\ letters' = letters
        /\ recorded' = IF call.phase = "rewrite" THEN << >> ELSE recorded
        /\ fate' = [fate EXCEPT ![Len(fate)] = "raised"]
    BY <1>8 DEF StoreRaises, Raise
  <2>2. Last(fate') # "dead"
    BY <2>1, LastEnd
  <2>3. CASE call.phase = "rewrite"
    <3>1. letters' = << >> /\ recorded' = << >>
      BY <2>1, <2>3 DEF LettersInv, InPhase
    <3>2. IsSuffix(letters', recorded')
      BY <3>1, SuffixSelf, EmptySeq
    <3> QED
      BY <2>1, <2>2, <3>1, <3>2 DEF LettersInv, InPhase
  <2>4. CASE call.phase # "rewrite"
    BY <2>1, <2>2, <2>4 DEF LettersInv, InPhase
  <2> QED
    BY <2>3, <2>4
<1>9. ASSUME UNCHANGED <<letters, recorded, call, requests, fate>> PROVE LettersInv'
  BY <1>9 DEF LettersInv, InPhase
<1>10. ASSUME ResetMetrics \/ ClearDeliveryLog \/ (\E w \in abandoned : AbandonedLands(w))
              \/ UNCHANGED vars
       PROVE  LettersInv'
  BY <1>9, <1>10 DEF ResetMetrics, ClearDeliveryLog, AbandonedLands, vars
<1>11. ASSUME Crash PROVE LettersInv'
  <2>1. /\ call' = NoCall /\ letters' = letters /\ requests' = requests
        /\ recorded' = IF ~InPhase("rewrite") THEN recorded ELSE << >>
    BY <1>11 DEF Crash
  <2>2. ~InPhase("rewrite")'
    BY <2>1 DEF InPhase
  <2>3. CASE call = NoCall
    <3>1. fate' = fate /\ recorded' = recorded
      BY <1>11, <2>1, <2>3 DEF Crash, InPhase
    <3> QED
      BY <2>1, <2>2, <2>3, <3>1 DEF LettersInv, InPhase
  <2>4. CASE call # NoCall
    <3>1. Last(fate') # "dead"
      BY <1>11, <2>4, LastEnd DEF Crash
    <3>2. CASE InPhase("rewrite")
      <4>1. letters' = << >> /\ recorded' = << >>
        BY <2>1, <3>2 DEF LettersInv
      <4>2. IsSuffix(letters', recorded')
        BY <4>1, SuffixSelf, EmptySeq
      <4> QED
        BY <2>2, <3>1, <4>1, <4>2 DEF LettersInv
    <3>3. CASE ~InPhase("rewrite")
      BY <2>1, <2>2, <3>1, <3>3 DEF LettersInv
    <3> QED
      BY <3>2, <3>3
  <2> QED
    BY <2>3, <2>4
<1> QED
  BY <1>1, <1>2, <1>3, <1>4, <1>5, <1>6, <1>7, <1>8, <1>10, <1>11 DEF Next, Progress

\* For any sinks, adapters and policies, and any number of retained records:
\* the dead-letter file holds the newest of the records, as many as it retains
\* or all of them, and no more after a call that wrote one; except while it is
\* rewritten, and what a rewrite that was cut short has lost
\* (FileDeadLetterStore.record).
THEOREM NewestLettersKept == Spec => []NewestLetters
<1>1. TypeOK /\ TypeOK' /\ LettersInv /\ [Next]_vars => LettersInv'
  BY NextLetters
<1>2. LettersInv => NewestLetters
  BY DEF LettersInv, NewestLetters
<1> QED
  BY <1>1, <1>2, InitLetters, DeliveryTypeCorrect, PTL DEF Spec

-----------------------------------------------------------------------------
\* The delivery log

\* The call in progress was begun after the log was cleared; it has made the
\* attempts it counts, and has a failure that could be retried only if these are
\* all.
InCall ==
  call # NoCall =>
    /\ cleared < Len(requests)
    /\ tried[Len(requests)].attempts =
         IF call.phase = "attempt" THEN call.attempt - 1 ELSE call.attempt
    /\ call.phase # "attempt" /\ call.retryable => call.attempt = Current.attempts

EntryExact(i) ==
  LET e == log[i] IN
    /\ e.attempts = tried[e.number].attempts
    /\ e.dead <=> fate[e.number] = "dead"
    /\ e.dead /\ e.retryable => e.attempts = requests[e.number].attempts

\* The inductive invariant.
LogInv ==
  /\ OpenIsNewest
  /\ cleared <= Len(requests)
  /\ InCall
  /\ LogExact

\* An entry is of a call that has returned, and exact.
LEMMA EntryType ==
  ASSUME TypeOK, LogInv, NEW i \in DOMAIN log
  PROVE  /\ log[i].number \in Numbers
         /\ Logged(log[i].number)
         /\ EntryExact(i)
<1>1. log[i].number \in {n \in Numbers : Logged(n)}
  BY DEF LogInv, LogExact
<1> QED
  BY <1>1 DEF LogInv, LogExact, EntryExact

\* A log that is empty, cleared after every call that was begun.
LEMMA LogEmpty ==
  ASSUME OpenIsNewest', requests \in Seq(Request), log' = << >>,
         cleared' = Len(requests), requests' = requests, call' = NoCall
  PROVE  LogInv'
<1>1. Len(requests) \in Nat
  OBVIOUS
<1>2. DOMAIN log' = {}
  OBVIOUS
<1>3. {log'[i].number : i \in DOMAIN log'} = {}
  BY <1>2
<1>4. \A n \in Numbers' : ~Logged(n)'
  BY <1>1 DEF Numbers, Logged
<1>5. LogExact'
  BY <1>2, <1>3, <1>4 DEF LogExact
<1> QED
  BY <1>1, <1>5 DEF LogInv, InCall

\* A step that leaves the log, the calls that have returned and the requests that
\* were made alone.
LEMMA LogKept ==
  ASSUME TypeOK, LogInv, OpenIsNewest', InCall', cleared' <= Len(requests'),
         UNCHANGED <<log, cleared>>,
         Numbers \subseteq Numbers',
         \A n \in Numbers : requests'[n] = requests[n],
         \A n \in Numbers : tried'[n].attempts = tried[n].attempts \/ ~Logged(n),
         \A n \in Numbers : Logged(n) => fate'[n] = fate[n],
         \A n \in Numbers' : Logged(n)' => n \in Numbers /\ Logged(n)
  PROVE  LogInv'
<1>1. \A n \in Numbers' : Logged(n)' <=> n \in Numbers /\ Logged(n)
  BY DEF Logged
<1>2. {n \in Numbers : Logged(n)}' = {n \in Numbers : Logged(n)}
  BY <1>1
<1>3. \A i \in DOMAIN log : EntryExact(i)'
  BY EntryType DEF EntryExact
<1>4. LogExact'
  BY <1>2, <1>3 DEF LogExact, LogInv, EntryExact
<1> QED
  BY <1>4 DEF LogInv

\* A call that returns is logged.
LEMMA LogReturns ==
  ASSUME TypeOK, TypeOK', LogInv, OpenIsNewest', call # NoCall,
         NEW status \in {"delivered", "dead"}, NEW retryable \in BOOLEAN,
         Return(status, retryable), UNCHANGED <<cleared, requests>>,
         tried'[Len(requests)].attempts = call.attempt,
         \A n \in Numbers : n # Len(requests) => tried'[n] = tried[n],
         status = "dead" /\ retryable => call.attempt = Current.attempts
  PROVE  LogInv'
<1> DEFINE k == Len(requests)
           entry == [number |-> k, attempts |-> call.attempt,
                     dead |-> status = "dead", retryable |-> retryable]
<1>1. k \in Numbers /\ k \in Nat /\ call \in Calls
  BY CurrentType DEF Numbers
<1>2. /\ fate'[k] = status
      /\ \A n \in Numbers : n # k => fate'[n] = fate[n]
  BY EndEffect DEF Return
<1>3. fate[k] = "open" /\ cleared < k
  BY DEF LogInv, OpenIsNewest, InCall, TypeOK
<1>4. /\ Len(log') = Len(log) + 1 /\ Len(log) \in Nat
      /\ DOMAIN log = 1 .. Len(log) /\ DOMAIN log' = 1 .. Len(log) + 1
      /\ log'[Len(log) + 1] = entry
      /\ \A i \in DOMAIN log : log'[i] = log[i]
  <2>1. log \in Seq([number : Nat, attempts : Nat, dead : BOOLEAN, retryable : BOOLEAN])
    BY DEF TypeOK
  <2>2. log' = Append(log, entry)
    BY DEF Return
  <2> HIDE DEF entry
  <2> QED
    BY <2>1, <2>2
<1>5. /\ \A n \in Numbers : n # k => (Logged(n)' <=> Logged(n))
      /\ Logged(k)' /\ ~Logged(k)
      /\ Numbers' = Numbers
  BY <1>1, <1>2, <1>3 DEF Logged, Numbers
<1>6. \A i \in DOMAIN log : log[i].number \in Numbers /\ log[i].number # k /\ log[i].number < k
  BY <1>1, <1>5, EntryType DEF Numbers
<1>7. {log'[i].number : i \in DOMAIN log'} = {n \in Numbers : Logged(n)} \cup {k}
  <2>1. {log[i].number : i \in DOMAIN log} = {n \in Numbers : Logged(n)}
    BY DEF LogInv, LogExact
  <2>2. log'[Len(log) + 1].number = k
    BY <1>4
  <2>3. {log'[i].number : i \in DOMAIN log'} = {log[i].number : i \in DOMAIN log} \cup {k}
    <3> HIDE DEF k, entry
    <3> QED
      BY <1>4, <2>2
  <2> QED
    BY <2>1, <2>3
<1>8. {n \in Numbers : Logged(n)}' = {n \in Numbers : Logged(n)} \cup {k}
  BY <1>1, <1>5
<1>9. \A i, j \in DOMAIN log' : i < j => log'[i].number < log'[j].number
  <2> SUFFICES ASSUME NEW i \in DOMAIN log', NEW j \in DOMAIN log', i < j
               PROVE  log'[i].number < log'[j].number
    OBVIOUS
  <2>1. i \in DOMAIN log
    BY <1>4
  <2>2. CASE j \in DOMAIN log
    BY <1>4, <2>1, <2>2 DEF LogInv, LogExact
  <2>3. CASE j = Len(log) + 1
    BY <1>4, <1>6, <2>1, <2>3
  <2> QED
    BY <1>4, <2>2, <2>3
<1>10. \A i \in DOMAIN log' : EntryExact(i)'
  <2>1. ASSUME NEW i \in DOMAIN log PROVE EntryExact(i)'
    <3>1. EntryExact(i) /\ log'[i] = log[i]
      BY <1>4, EntryType
    <3>2. log[i].number \in Numbers /\ log[i].number # k
      BY <1>6
    <3> QED
      BY <1>2, <3>1, <3>2 DEF EntryExact
  <2>2. ASSUME NEW i, i = Len(log) + 1 PROVE EntryExact(i)'
    <3>1. /\ entry.number = k /\ entry.attempts = call.attempt
          /\ entry.dead = (status = "dead") /\ entry.retryable = retryable
      OBVIOUS
    <3> QED
      BY <1>2, <1>4, <2>2, <3>1 DEF EntryExact, Current
  <2>3. \A i \in DOMAIN log' : i \in DOMAIN log \/ i = Len(log) + 1
    BY <1>4
  <2> QED
    BY <2>1, <2>2, <2>3
<1>11. LogExact'
  BY <1>7, <1>8, <1>9, <1>10 DEF LogExact, EntryExact
<1> QED
  BY <1>11 DEF LogInv, InCall, Return

LEMMA InitLog == Init => LogInv
<1> SUFFICES ASSUME Init PROVE LogInv
  OBVIOUS
<1>1. DOMAIN log = {} /\ Numbers = {} /\ Len(requests) = 0
  BY DEF Init, Numbers
<1>2. LogExact
  BY <1>1 DEF LogExact
<1> QED
  BY <1>1, <1>2 DEF Init, LogInv, InCall, OpenIsNewest

LEMMA NextLog ==
  ASSUME TypeOK, TypeOK', LogInv, [Next]_vars
  PROVE  LogInv'
<1> USE DEF metrics, world, history
<1>1. OpenIsNewest'
  BY NextOpen DEF LogInv
<1>2. ASSUME NEW q \in Requests, Deliver(q) \/ DeliverUnsupported(q) PROVE LogInv'
  <2>1. PICK phase \in {"attempt", "letter"}, attempt \in {0, 1} :
          /\ Begun(q, phase, attempt)
          /\ attempt = IF phase = "attempt" THEN 1 ELSE 0
    BY <1>2 DEF Deliver, DeliverUnsupported
  <2>2. /\ requests' = Append(requests, q) /\ fate' = Append(fate, "open")
        /\ tried' = Append(tried, [attempts |-> 0, unsure |-> FALSE, landed |-> 0])
        /\ UNCHANGED <<log, cleared>>
        /\ call' = [phase |-> phase, attempt |-> attempt, retryable |-> FALSE, kept |-> << >>]
    BY <2>1 DEF Begun
  <2>3. /\ Len(fate) = Len(requests) /\ Len(tried) = Len(requests) /\ Len(requests) \in Nat
        /\ Len(requests') = Len(requests) + 1 /\ cleared \in Nat
    BY <2>2 DEF TypeOK
  <2>4. /\ \A n \in Numbers : /\ tried'[n] = tried[n] /\ fate'[n] = fate[n]
                              /\ requests'[n] = requests[n]
        /\ tried'[Len(requests')].attempts = 0 /\ fate'[Len(requests')] = "open"
    BY SMTT(30), <2>2, <2>3 DEF TypeOK, Numbers
  <2>5. Numbers \subseteq Numbers' /\ \A n \in Numbers' \ Numbers : n = Len(requests')
    BY <2>3 DEF Numbers
  <2>6. /\ call'.phase = phase /\ call'.attempt = attempt /\ call'.retryable = FALSE
    BY <2>2
  <2>7. InCall'
    BY <2>1, <2>2, <2>3, <2>4, <2>6 DEF InCall, LogInv
  <2>8. \A n \in Numbers' : Logged(n)' => n \in Numbers /\ Logged(n)
    BY <2>2, <2>4, <2>5 DEF Logged
  <2>9. cleared' <= Len(requests')
    BY <2>2, <2>3 DEF LogInv
  <2> QED
    BY <1>1, <2>2, <2>4, <2>5, <2>7, <2>8, <2>9, LogKept
<1>3. ASSUME AttemptSucceeds PROVE LogInv'
  <2>1. /\ call # NoCall /\ call.phase = "attempt" /\ UNCHANGED <<cleared, requests>>
        /\ Return("delivered", FALSE)
    BY <1>3 DEF AttemptSucceeds, InPhase, Attempted
  <2>2. PICK o \in Outcome : Attempted(o)
    BY <1>3, <2>1, CurrentType, OutcomesType DEF AttemptSucceeds
  <2>3. call.attempt \in Nat
    BY <2>1, CurrentType DEF Calls
  <2>4. tried[Len(requests)].attempts = call.attempt - 1
    BY <2>1 DEF LogInv, InCall
  <2>5. /\ tried'[Len(requests)].attempts = call.attempt
        /\ \A n \in Numbers : n # Len(requests) => tried'[n] = tried[n]
    BY <2>1, <2>2, <2>3, <2>4, AttemptEffect
  <2> QED
    BY <1>1, <2>1, <2>5, LogReturns
<1>4. ASSUME KeepLetters \/ RewriteLetters PROVE LogInv'
  <2>1. /\ call # NoCall /\ call.phase # "attempt" /\ UNCHANGED <<cleared, requests, tried>>
        /\ Return("dead", call.retryable)
    BY <1>4 DEF KeepLetters, RewriteLetters, InPhase
  <2>2. call.retryable \in BOOLEAN
    BY <2>1, CurrentType DEF Calls
  <2>3. /\ tried[Len(requests)].attempts = call.attempt
        /\ call.retryable => call.attempt = Current.attempts
    BY <2>1 DEF LogInv, InCall
  <2> QED
    BY <1>1, <2>1, <2>2, <2>3, LogReturns
\* The other steps leave the calls that have returned as they are.
<1>5. ASSUME UNCHANGED <<log, cleared, requests>>, InCall',
             \A n \in Numbers : tried'[n].attempts = tried[n].attempts \/ ~Logged(n),
             \A n \in Numbers : \/ fate'[n] = fate[n]
                                \/ fate[n] = "open" /\ fate'[n] \notin {"delivered", "dead"}
      PROVE  LogInv'
  <2>1. Numbers' = Numbers /\ cleared' <= Len(requests')
    BY <1>5 DEF Numbers, LogInv
  <2>2. \A n \in Numbers : (Logged(n)' <=> Logged(n)) /\ (Logged(n) => fate'[n] = fate[n])
    BY <1>5 DEF Logged
  <2> QED
    BY <1>1, <1>5, <2>1, <2>2, LogKept
\* No entry is of the call in progress.
<1>6. call # NoCall => ~Logged(Len(requests))
  BY DEF Logged, LogInv, OpenIsNewest, TypeOK
<1>7. ASSUME AttemptRetried \/ AttemptFails PROVE LogInv'
  <2>1. /\ call # NoCall /\ call.phase = "attempt"
        /\ UNCHANGED <<log, fate, cleared, requests>>
    BY <1>7 DEF AttemptRetried, AttemptFails, InPhase, Attempted
  <2>2. /\ call \in Calls /\ call.attempt \in Nat /\ Len(requests) \in Numbers
        /\ Current \in Request /\ Current.attempts \in Nat
        /\ call.attempt <= Current.attempts
    <3>1. call \in Calls /\ Current \in Request /\ Len(requests) \in Numbers
      BY <2>1, CurrentType DEF Numbers
    <3>2. call.attempt <= Current.attempts
      BY <2>1 DEF TypeOK
    <3> QED
      BY <3>1, <3>2 DEF Calls, Request
  <2>3. PICK o \in Outcome :
          /\ Attempted(o)
          /\ \/ call' = [call EXCEPT !.attempt = call.attempt + 1]
             \/ /\ ~Retries(o, call.attempt, Current.attempts)
                /\ call' = [call EXCEPT !.phase = "letter", !.retryable = o.retryable]
    BY <1>7, <2>1, CurrentType, OutcomesType DEF AttemptRetried, AttemptFails
  <2>4. /\ tried'[Len(requests)].attempts = call.attempt
        /\ \A n \in Numbers : n # Len(requests) => tried'[n] = tried[n]
    <3>1. tried[Len(requests)].attempts = call.attempt - 1
      BY <2>1 DEF LogInv, InCall
    <3> QED
      BY <2>1, <2>2, <2>3, <3>1, AttemptEffect
  <2>5. cleared < Len(requests) /\ Current' = Current
    BY <2>1 DEF LogInv, InCall, Current
  <2>6. CASE call' = [call EXCEPT !.attempt = call.attempt + 1]
    <3>1. call'.attempt = call.attempt + 1 /\ call'.phase = "attempt"
      BY <2>1, <2>2, <2>6 DEF Calls
    <3>2. InCall'
      BY <2>1, <2>2, <2>4, <2>5, <3>1 DEF InCall
    <3> QED
      BY <1>5, <1>6, <2>1, <2>4, <3>2
  <2>7. CASE /\ ~Retries(o, call.attempt, Current.attempts)
             /\ call' = [call EXCEPT !.phase = "letter", !.retryable = o.retryable]
    <3>1. call'.attempt = call.attempt /\ call'.phase = "letter" /\ call'.retryable = o.retryable
      BY <2>2, <2>7 DEF Calls
    <3>2. o.retryable => call.attempt = Current.attempts
      BY <2>2, <2>7 DEF Retries
    <3>3. InCall'
      BY <2>1, <2>2, <2>4, <2>5, <3>1, <3>2 DEF InCall
    <3> QED
      BY <1>5, <1>6, <2>1, <2>4, <3>3
  <2> QED
    BY <2>3, <2>6, <2>7
<1>8. ASSUME RecordDeadLetter \/ TruncateLetters PROVE LogInv'
  <2>1. /\ call # NoCall /\ call.phase # "attempt"
        /\ UNCHANGED <<log, fate, cleared, requests, tried>>
    BY <1>8 DEF RecordDeadLetter, TruncateLetters, InPhase
  <2>2. call \in Calls
    BY <2>1, CurrentType
  <2>3. /\ call'.attempt = call.attempt /\ call'.retryable = call.retryable
        /\ call'.phase # "attempt"
    BY <1>8, <2>2 DEF RecordDeadLetter, TruncateLetters, Calls
  <2>4. InCall'
    BY <2>1, <2>3 DEF InCall, LogInv, Current
  <2> QED
    BY <1>5, <2>1, <2>4
<1>9. ASSUME AdapterRaises \/ StoreRaises PROVE LogInv'
  <2>1. /\ call # NoCall /\ call' = NoCall /\ fate' = [fate EXCEPT ![Len(fate)] = "raised"]
        /\ UNCHANGED <<log, cleared, requests>>
    BY <1>9 DEF AdapterRaises, StoreRaises, Raise, InPhase
  <2>2. \/ UNCHANGED tried
        \/ tried' = [tried EXCEPT ![Len(tried)] = Copied(tried[Len(tried)], TRUE)]
    BY <1>9 DEF AdapterRaises, StoreRaises
  <2>3. DOMAIN tried = Numbers /\ Len(tried) \in Numbers
    BY <2>1 DEF TypeOK, Numbers
  <2>4. \A n \in Numbers : tried'[n].attempts = tried[n].attempts
    <3>1. Copied(tried[Len(tried)], TRUE).attempts = tried[Len(tried)].attempts
      BY CopiedEffect
    <3> QED
      BY <2>2, <2>3, <3>1
  <2>5. \A n \in Numbers : \/ fate'[n] = fate[n]
                           \/ fate[n] = "open" /\ fate'[n] = "raised"
    BY <2>1, EndEffect DEF LogInv, OpenIsNewest
  <2>6. InCall'
    BY <2>1 DEF InCall
  <2> QED
    BY <1>5, <2>1, <2>4, <2>5, <2>6
<1>10. ASSUME ResetMetrics \/ UNCHANGED vars PROVE LogInv'
  <2>1. UNCHANGED <<log, cleared, requests, call, fate, tried>>
    BY <1>10 DEF ResetMetrics, vars
  <2>2. InCall'
    BY <2>1 DEF LogInv, InCall, Current
  <2> QED
    BY <1>5, <2>1, <2>2
<1>11. ASSUME NEW w \in abandoned, AbandonedLands(w) PROVE LogInv'
  <2>1. /\ UNCHANGED <<log, cleared, requests, call, fate>>
        /\ tried' = [tried EXCEPT ![w.number] = Copied(tried[w.number], FALSE)]
    BY <1>11 DEF AbandonedLands
  <2>2. DOMAIN tried = Numbers /\ w.number \in Numbers
    BY DEF TypeOK, Numbers
  <2>3. \A n \in Numbers : tried'[n].attempts = tried[n].attempts
    <3>1. Copied(tried[w.number], FALSE).attempts = tried[w.number].attempts
      BY CopiedEffect
    <3> QED
      BY <2>1, <2>2, <3>1
  <2>4. call # NoCall => Len(requests) \in Numbers
    BY DEF TypeOK, Numbers
  <2>5. InCall'
    BY <2>1, <2>3, <2>4 DEF LogInv, InCall, Current
  <2> QED
    BY <1>5, <2>1, <2>3, <2>5
<1>12. ASSUME ClearDeliveryLog \/ Crash PROVE LogInv'
  <2>1. /\ log' = << >> /\ cleared' = Len(requests) /\ requests' = requests
        /\ call' = NoCall
    BY <1>12 DEF ClearDeliveryLog, Crash
  <2> QED
    BY <1>1, <2>1, LogEmpty DEF TypeOK
<1> QED
  BY <1>2, <1>3, <1>4, <1>7, <1>8, <1>9, <1>10, <1>11, <1>12 DEF Next, Progress

\* The delivery log has, in order, one entry for each call of deliver that has
\* returned since it was cleared and for no other; the entry has the attempts that
\* were made, and a request is given up with a failure that could be retried only
\* after all of them, for every retry policy (deliver of SinkRegistry).
THEOREM LogIsExact == Spec => []LogExact
<1>1. Init => TypeOK /\ LogInv
  BY InitType, InitLog
<1>2. TypeOK /\ LogInv /\ [Next]_vars => (TypeOK /\ LogInv)'
  BY NextType, NextLog
<1>3. LogInv => LogExact
  BY DEF LogInv
<1> QED
  BY <1>1, <1>2, <1>3, PTL DEF Spec

-----------------------------------------------------------------------------
\* Every delivery keeps what DeliveryProtocol promises of it, step by step: the
\* initial states are initial states of the protocol, and each step of a call, of
\* a late write or of a crash is a step of the protocol or changes nothing it
\* speaks of.

\* What the protocol sees of a state besides the ends of the calls.
CopiesSeen == [n \in Numbers |-> tried[n].landed]
LettersSeen == IF InPhase("rewrite") THEN call.kept ELSE letters
KeptSeen == ToSet(LettersSeen)

\* Between its recording and the return of its call the newest letter is there.
LetterThere ==
  /\ InPhase("retain") /\ Store # "none" =>
       letters # << >> /\ Last(letters) = Len(requests)
  /\ InPhase("rewrite") =>
       letters = << >> /\ call.kept # << >> /\ Last(call.kept) = Len(requests)

\* How the phase of a call changes.
LEMMA Phases ==
  ASSUME TypeOK, call # NoCall, NEW p \in {"attempt", "letter", "retain", "rewrite"}
  PROVE  /\ \A a \in Nat : call' = [call EXCEPT !.attempt = a] =>
              call' # NoCall /\ call'.phase = call.phase
         /\ \A r \in BOOLEAN : call' = [call EXCEPT !.phase = p, !.retryable = r] =>
              call' # NoCall /\ call'.phase = p
         /\ call' = [call EXCEPT !.phase = p] =>
              call' # NoCall /\ call'.phase = p
         /\ \A s \in Seq(Nat) : call' = [call EXCEPT !.phase = p, !.kept = s] =>
              call' # NoCall /\ call'.phase = p /\ call'.kept = s
<1>1. call \in Calls /\ NoCall \notin Calls
  BY CurrentType, DeliveryAssumption
<1>2. ASSUME NEW a \in Nat, call' = [call EXCEPT !.attempt = a]
      PROVE  call' # NoCall /\ call'.phase = call.phase
  <2>1. call' \in Calls /\ call'.phase = call.phase
    BY <1>1, <1>2 DEF Calls
  <2> QED
    BY <1>1, <2>1
<1>3. ASSUME NEW r \in BOOLEAN, call' = [call EXCEPT !.phase = p, !.retryable = r]
      PROVE  call' # NoCall /\ call'.phase = p
  <2>1. call' \in Calls /\ call'.phase = p
    BY <1>1, <1>3 DEF Calls
  <2> QED
    BY <1>1, <2>1
<1>4. ASSUME call' = [call EXCEPT !.phase = p]
      PROVE  call' # NoCall /\ call'.phase = p
  <2>1. call' \in Calls /\ call'.phase = p
    BY <1>1, <1>4 DEF Calls
  <2> QED
    BY <1>1, <2>1
<1>5. ASSUME NEW s \in Seq(Nat), call' = [call EXCEPT !.phase = p, !.kept = s]
      PROVE  call' # NoCall /\ call'.phase = p /\ call'.kept = s
  <2>1. call' \in Calls /\ call'.phase = p /\ call'.kept = s
    BY <1>1, <1>5 DEF Calls
  <2> QED
    BY <1>1, <2>1
<1> QED
  BY <1>2, <1>3, <1>4, <1>5

\* A call that begins is in its first phase.
LEMMA BegunPhase ==
  ASSUME NEW q, NEW phase \in {"attempt", "letter"}, NEW attempt \in {0, 1},
         Begun(q, phase, attempt)
  PROVE  call = NoCall /\ call' # NoCall /\ call'.phase = phase
<1>1. call' = [phase |-> phase, attempt |-> attempt, retryable |-> FALSE, kept |-> << >>]
  BY DEF Begun
<1>2. call' \in Calls /\ call'.phase = phase
  BY <1>1 DEF Calls
<1> QED
  BY <1>2, DeliveryAssumption DEF Begun

LEMMA NextLetterThere ==
  ASSUME TypeOK, LetterThere, [Next]_vars
  PROVE  LetterThere'
<1> USE DEF metrics, world, history
<1>0. letters \in Seq(Nat) /\ Len(requests) \in Nat /\ MaxRecords \in Nat \ {0}
  BY DeliveryAssumption DEF TypeOK
<1>1. ASSUME NEW q \in Requests, Deliver(q) \/ DeliverUnsupported(q) PROVE LetterThere'
  BY <1>1, BegunPhase DEF Deliver, DeliverUnsupported, LetterThere, InPhase
<1>2. ASSUME call' = NoCall PROVE LetterThere'
  BY <1>2 DEF LetterThere, InPhase
<1>3. ASSUME AttemptSucceeds \/ AdapterRaises \/ KeepLetters \/ RewriteLetters \/ StoreRaises
             \/ ResetMetrics \/ ClearDeliveryLog \/ Crash
      PROVE  LetterThere'
  BY <1>2, <1>3 DEF AttemptSucceeds, AdapterRaises, KeepLetters, RewriteLetters, StoreRaises,
                    ResetMetrics, ClearDeliveryLog, Crash, Return, Raise
<1>4. ASSUME AttemptRetried \/ AttemptFails PROVE LetterThere'
  <2>1. call # NoCall /\ call.phase = "attempt" /\ call \in Calls
    BY <1>4, CurrentType DEF AttemptRetried, AttemptFails, InPhase
  <2>2. call'.phase \in {"attempt", "letter"}
    <3>1. CASE AttemptRetried
      <4>1. call' = [call EXCEPT !.attempt = call.attempt + 1] /\ call.attempt + 1 \in Nat
        BY <2>1, <3>1 DEF AttemptRetried, Calls
      <4> QED
        BY <2>1, <4>1, Phases
    <3>2. CASE AttemptFails
      <4>1. PICK o \in Outcome : call' = [call EXCEPT !.phase = "letter", !.retryable = o.retryable]
        BY <2>1, <3>2, CurrentType, OutcomesType DEF AttemptFails
      <4>2. o.retryable \in BOOLEAN
        BY DEF Outcome
      <4> QED
        BY <2>1, <4>1, <4>2, Phases
    <3> QED
      BY <1>4, <3>1, <3>2
  <2> QED
    BY <2>2 DEF LetterThere, InPhase
<1>5. ASSUME RecordDeadLetter PROVE LetterThere'
  <2>1. /\ call # NoCall /\ call' = [call EXCEPT !.phase = "retain"]
        /\ letters' = IF Store = "none" THEN letters ELSE Append(letters, Len(requests))
        /\ requests' = requests
    BY <1>5 DEF RecordDeadLetter, InPhase
  <2>2. call'.phase = "retain"
    BY <2>1, Phases
  <2>3. ASSUME Store # "none" PROVE letters' # << >> /\ Last(letters') = Len(requests')
    BY <1>0, <2>1, <2>3, AppendProperties DEF Last
  <2> QED
    BY <2>2, <2>3 DEF LetterThere, InPhase
<1>6. ASSUME TruncateLetters PROVE LetterThere'
  <2>1. /\ call # NoCall /\ call.phase = "retain" /\ requests' = requests
        /\ Store = "file" /\ Len(letters) > MaxRecords /\ letters' = << >>
        /\ call' = [call EXCEPT !.phase = "rewrite", !.kept = LastOf(letters, MaxRecords)]
    BY <1>6 DEF TruncateLetters, InPhase, Exceeds
  <2>2. /\ LastOf(letters, MaxRecords) \in Seq(Nat)
        /\ Len(LastOf(letters, MaxRecords)) = MaxRecords
        /\ LastOf(letters, MaxRecords)[MaxRecords] = letters[Len(letters)]
    BY <1>0, <2>1, SuffixSelf, LastOfKeeps
  <2>3. /\ call' # NoCall /\ call'.phase = "rewrite"
        /\ call'.kept = LastOf(letters, MaxRecords)
    BY <2>1, <2>2, Phases
  <2>4. letters[Len(letters)] = Len(requests)
    BY <2>1 DEF LetterThere, InPhase, Last
  <2>5. call'.kept # << >> /\ Last(call'.kept) = Len(requests')
    BY <1>0, <2>1, <2>2, <2>3, <2>4 DEF Last
  <2> QED
    BY <2>1, <2>3, <2>5 DEF LetterThere, InPhase
<1>7. ASSUME (\E w \in abandoned : AbandonedLands(w)) \/ UNCHANGED vars PROVE LetterThere'
  <2>1. UNCHANGED <<call, letters, requests>>
    BY <1>7 DEF AbandonedLands, vars
  <2> QED
    BY <2>1 DEF LetterThere, InPhase
<1> QED
  BY <1>1, <1>3, <1>4, <1>5, <1>6, <1>7 DEF Next, Progress

-----------------------------------------------------------------------------
\* What the protocol sees

LEMMA SeenType ==
  ASSUME TypeOK
  PROVE  /\ CopiesSeen \in Seq(Nat) /\ Len(CopiesSeen) = Len(requests)
         /\ DOMAIN CopiesSeen = Numbers
         /\ \A n \in Numbers : CopiesSeen[n] = tried[n].landed
         /\ LettersSeen \in Seq(Nat)
         /\ Len(fate) = Len(requests) /\ Len(requests) \in Nat
<1>1. Len(requests) \in Nat /\ Len(fate) = Len(requests)
  BY DEF TypeOK
<1>2. CopiesSeen \in [1 .. Len(requests) -> Nat]
  BY CallType DEF CopiesSeen, Numbers
<1>3. CopiesSeen \in Seq(Nat) /\ Len(CopiesSeen) = Len(requests)
  BY <1>1, <1>2, IsASeq
<1>4. LettersSeen \in Seq(Nat)
  <2>1. call # NoCall => call.kept \in Seq(Nat)
    BY CurrentType DEF Calls
  <2> QED
    BY <2>1 DEF LettersSeen, InPhase, TypeOK
<1> QED
  BY <1>1, <1>3, <1>4 DEF CopiesSeen

\* The protocol's view of the call in progress.
LEMMA InProgressSeen ==
  ASSUME TypeOK, OpenIsNewest
  PROVE  Promised!InProgress <=> call # NoCall
<1>1. Len(fate) = Len(requests) /\ Len(requests) \in Nat
  BY SeenType
<1>2. ASSUME call # NoCall PROVE Promised!InProgress
  <2>1. Len(requests) > 0 /\ fate # << >>
    BY <1>1, <1>2, CurrentType
  <2> QED
    BY <1>2, <2>1 DEF OpenIsNewest, Promised!InProgress, Promised!Newest
<1>3. ASSUME Promised!InProgress PROVE call # NoCall
  <2>1. fate # << >> /\ fate[Len(fate)] = "open"
    BY <1>3 DEF Promised!InProgress, Promised!Newest
  <2>2. Len(fate) \in Numbers
    BY <1>1, <2>1 DEF Numbers, TypeOK
  <2> QED
    BY <2>1, <2>2 DEF OpenIsNewest
<1> QED
  BY <1>2, <1>3

\* A call begins.
LEMMA BeginRefined ==
  ASSUME TypeOK, TypeOK', OpenIsNewest, NEW q, NEW phase \in {"attempt", "letter"},
         NEW attempt \in {0, 1}, Begun(q, phase, attempt)
  PROVE  Promised!Request
<1> DEFINE new == [attempts |-> 0, unsure |-> FALSE, landed |-> 0]
<1>1. /\ call = NoCall /\ call' # NoCall /\ call'.phase = phase
      /\ requests' = Append(requests, q) /\ fate' = Append(fate, "open")
      /\ tried' = Append(tried, new) /\ letters' = letters
  BY BegunPhase DEF Begun, world
<1>2. ~Promised!InProgress
  BY <1>1, InProgressSeen
<1>3. KeptSeen' = KeptSeen
  BY <1>1 DEF KeptSeen, LettersSeen, InPhase
<1>4. CopiesSeen' = Append(CopiesSeen, 0)
  <2>1. /\ Len(requests') = Len(requests) + 1 /\ Len(requests) \in Nat
        /\ Len(tried) = Len(requests)
    BY <1>1 DEF TypeOK
  <2>2. /\ \A n \in Numbers : tried'[n] = tried[n]
        /\ tried'[Len(requests) + 1].landed = 0
    BY <1>1, <2>1 DEF TypeOK, Numbers
  <2>3. Numbers' = 1 .. Len(requests) + 1
    BY <2>1 DEF Numbers
  <2>4. /\ CopiesSeen \in Seq(Nat) /\ Len(CopiesSeen) = Len(requests)
        /\ \A n \in Numbers : CopiesSeen[n] = tried[n].landed
    BY SeenType
  <2>5. CopiesSeen' = [n \in 1 .. Len(requests) + 1 |-> tried'[n].landed]
    BY <2>3 DEF CopiesSeen
  <2> DEFINE c == Append(CopiesSeen, 0)
  <2>6. /\ c \in Seq(Nat) /\ Len(c) = Len(requests) + 1
        /\ \A n \in Numbers : c[n] = tried[n].landed
        /\ c[Len(requests) + 1] = 0
    BY <2>4, AppendProperties DEF Numbers
  <2> HIDE DEF c
  <2>7. ASSUME NEW n \in 1 .. Len(requests) + 1 PROVE tried'[n].landed = c[n]
    <3>1. CASE n \in Numbers
      BY <2>2, <2>6, <3>1
    <3>2. CASE n \notin Numbers
      <4>1. n = Len(requests) + 1
        BY <2>1, <3>2 DEF Numbers
      <4> QED
        BY <2>2, <2>6, <4>1
    <3> QED
      BY <3>1, <3>2
  <2>8. CopiesSeen' = c
    <3>1. c \in [1 .. Len(requests) + 1 -> Nat]
      BY <2>6, LenProperties
    <3> QED
      BY <2>5, <2>7, <3>1
  <2> QED
    BY <2>8 DEF c
<1> QED
  BY <1>1, <1>2, <1>3, <1>4 DEF Promised!Request, CopiesSeen, KeptSeen, LettersSeen

\* What becomes of the copies when one call has one copy more, or none.
LEMMA CopiesChange ==
  ASSUME TypeOK, TypeOK', requests' = requests, NEW k \in Numbers,
         \A n \in Numbers : n # k => tried'[n].landed = tried[n].landed
  PROVE  /\ tried'[k].landed = tried[k].landed => CopiesSeen' = CopiesSeen
         /\ tried'[k].landed = tried[k].landed + 1 =>
              CopiesSeen' = [CopiesSeen EXCEPT ![k] = @ + 1]
<1>1. Numbers' = Numbers
  BY DEF Numbers
<1>2. ASSUME tried'[k].landed = tried[k].landed PROVE CopiesSeen' = CopiesSeen
  BY <1>1, <1>2 DEF CopiesSeen
<1>3. ASSUME tried'[k].landed = tried[k].landed + 1
      PROVE  CopiesSeen' = [CopiesSeen EXCEPT ![k] = @ + 1]
  BY <1>1, <1>3 DEF CopiesSeen
<1> QED
  BY <1>2, <1>3

LEMMA SameCopies ==
  ASSUME UNCHANGED <<tried, requests>>
  PROVE  CopiesSeen' = CopiesSeen
BY DEF CopiesSeen, Numbers

\* A write of an attempt, or an abandoned one, reaches the destination.
LEMMA ArrivalRefined ==
  ASSUME TypeOK, UNCHANGED fate, KeptSeen' = KeptSeen,
         \/ CopiesSeen' = CopiesSeen
         \/ \E k \in Numbers : CopiesSeen' = [CopiesSeen EXCEPT ![k] = @ + 1]
  PROVE  Promised!Arrival \/ UNCHANGED Promised!vars
<1>1. ASSUME CopiesSeen' = CopiesSeen PROVE UNCHANGED Promised!vars
  BY <1>1 DEF Promised!vars, CopiesSeen, KeptSeen, LettersSeen
<1>2. ASSUME NEW k \in Numbers, CopiesSeen' = [CopiesSeen EXCEPT ![k] = @ + 1]
      PROVE  Promised!Arrival
  <2>1. k \in DOMAIN CopiesSeen
    BY SeenType
  <2> QED
    BY <1>2, <2>1 DEF Promised!Arrival, Promised!Arrives, CopiesSeen, KeptSeen, LettersSeen
<1> QED
  BY <1>1, <1>2

-----------------------------------------------------------------------------
\* The steps of a call

\* An attempt writes at most one copy of its own call at once.
LEMMA AttemptSeen ==
  ASSUME TypeOK, TypeOK', call # NoCall, NEW o \in Outcome, Attempted(o)
  PROVE  /\ Len(requests) \in Numbers
         /\ o.write = "now" =>
              CopiesSeen' = [CopiesSeen EXCEPT ![Len(requests)] = @ + 1]
         /\ o.write # "now" => CopiesSeen' = CopiesSeen
<1>0. PICK k \in Numbers : k = Len(requests)
  BY AttemptEffect
<1>1. /\ tried'[k].landed = tried[k].landed + IF o.write = "now" THEN 1 ELSE 0
      /\ \A n \in Numbers : n # k => tried'[n] = tried[n]
      /\ requests' = requests
  BY <1>0, AttemptEffect
<1>2. tried[k].landed \in Nat
  BY CallType
<1>3. /\ tried'[k].landed = tried[k].landed => CopiesSeen' = CopiesSeen
      /\ tried'[k].landed = tried[k].landed + 1 =>
           CopiesSeen' = [CopiesSeen EXCEPT ![k] = @ + 1]
  BY <1>1, CopiesChange
<1> QED
  BY <1>0, <1>1, <1>2, <1>3

LEMMA SucceedRefined ==
  ASSUME TypeOK, TypeOK', CopiesInv, AttemptSucceeds
  PROVE  Promised!Succeed
<1>1. call # NoCall /\ call.phase = "attempt"
  BY DEF AttemptSucceeds, InPhase
<1>2. PICK o \in Outcomes(Current) : o.status = "delivered" /\ Attempted(o)
  BY DEF AttemptSucceeds
<1>3. o \in Outcome /\ o.write = "now"
  BY <1>1, <1>2, CurrentType, OutcomesType, DeliveredIsWritten
<1>4. /\ Len(requests) \in Numbers
      /\ CopiesSeen' = [CopiesSeen EXCEPT ![Len(requests)] = @ + 1]
  BY <1>1, <1>2, <1>3, AttemptSeen
<1>5. /\ call' = NoCall /\ letters' = letters
      /\ fate' = [fate EXCEPT ![Len(fate)] = "delivered"]
  BY <1>2 DEF AttemptSucceeds, Return, Attempted
<1>6. KeptSeen' = KeptSeen
  BY <1>1, <1>5 DEF KeptSeen, LettersSeen, InPhase
<1>7. Promised!InProgress
  BY <1>1, InProgressSeen DEF CopiesInv
<1>8. CopiesSeen'[Len(fate)] > 0
  BY <1>4, SeenType, CallType
<1>9. CopiesSeen' = [CopiesSeen EXCEPT ![Len(fate)] = @ + 1]
  BY <1>4, SeenType
<1> QED
  BY <1>5, <1>6, <1>7, <1>8, <1>9
  DEF Promised!Succeed, Promised!Ends, Promised!Arrives, Promised!Newest,
      CopiesSeen, KeptSeen, LettersSeen

LEMMA RetryRefined ==
  ASSUME TypeOK, TypeOK', CopiesInv, AttemptRetried \/ AttemptFails
  PROVE  Promised!Arrival \/ UNCHANGED Promised!vars
<1>1. call # NoCall /\ call.phase = "attempt" /\ fate' = fate /\ call \in Calls
  BY CurrentType DEF AttemptRetried, AttemptFails, InPhase
<1>2. PICK o \in Outcomes(Current) :
        /\ Attempted(o)
        /\ \/ call' = [call EXCEPT !.attempt = @ + 1]
           \/ call' = [call EXCEPT !.phase = "letter", !.retryable = o.retryable]
  BY DEF AttemptRetried, AttemptFails
<1>3. o \in Outcome /\ o.retryable \in BOOLEAN /\ call.attempt + 1 \in Nat
  BY <1>1, <1>2, CurrentType, OutcomesType DEF Outcome, Calls
<1>4. call'.phase \in {"attempt", "letter"}
  BY <1>1, <1>2, <1>3, Phases
<1>5. letters' = letters
  BY <1>2 DEF Attempted
<1>6. KeptSeen' = KeptSeen
  BY <1>1, <1>4, <1>5 DEF KeptSeen, LettersSeen, InPhase
<1> QED
  BY <1>1, <1>2, <1>3, <1>6, AttemptSeen, ArrivalRefined

\* A call that ends by an exception, or is cut short.
LEMMA FailRefined ==
  ASSUME TypeOK, TypeOK', CopiesInv, call # NoCall, NEW f \in {"raised", "crashed"},
         fate' = [fate EXCEPT ![Len(fate)] = f], requests' = requests,
         \/ tried' = tried
         \/ tried' = [tried EXCEPT ![Len(tried)] = Copied(@, TRUE)],
         KeptSeen' \subseteq KeptSeen
  PROVE  Promised!Fail
<1>1. PICK k \in Numbers : k = Len(requests) /\ k = Len(fate) /\ k = Len(tried)
  BY EndEffect
<1>2. \/ CopiesSeen' = CopiesSeen
      \/ CopiesSeen' = [CopiesSeen EXCEPT ![Len(fate)] = @ + 1]
  <2>1. CASE tried' = tried
    BY <2>1, SameCopies
  <2>2. CASE tried' = [tried EXCEPT ![k] = Copied(@, TRUE)]
    <3>1. DOMAIN tried = Numbers
      BY <1>1 DEF TypeOK, Numbers
    <3>2. /\ tried'[k].landed = tried[k].landed + 1
          /\ \A n \in Numbers : n # k => tried'[n] = tried[n]
      BY <2>2, <3>1, CopiedEffect
    <3>3. CopiesSeen' = [CopiesSeen EXCEPT ![k] = @ + 1]
      BY <3>2, CopiesChange
    <3> QED
      BY <1>1, <3>3
  <2> QED
    BY <1>1, <2>1, <2>2
<1>3. Promised!InProgress
  BY InProgressSeen DEF CopiesInv
<1> QED
  BY <1>2, <1>3 DEF Promised!Fail, Promised!Ends, Promised!Arrives, Promised!Newest,
                    CopiesSeen, KeptSeen, LettersSeen

\* A dead letter is recorded, and older ones may be given up for it.
LEMMA BuryRefined ==
  ASSUME TypeOK, CopiesInv, RecordDeadLetter \/ TruncateLetters
  PROVE  Promised!Bury
<1>1. /\ call # NoCall /\ call.phase # "rewrite" /\ UNCHANGED <<fate, tried, requests>>
  BY DEF RecordDeadLetter, TruncateLetters, InPhase, history
<1>2. Promised!InProgress /\ CopiesSeen' = CopiesSeen
  BY <1>1, InProgressSeen, SameCopies DEF CopiesInv
<1>3. letters \in Seq(Nat) /\ Len(requests) = Len(fate) /\ MaxRecords \in Nat \ {0}
  BY DeliveryAssumption DEF TypeOK
<1>4. KeptSeen = ToSet(letters)
  BY <1>1 DEF KeptSeen, LettersSeen, InPhase
<1>5. KeptSeen' \subseteq KeptSeen \cup {Len(fate)}
  <2>1. CASE RecordDeadLetter
    <3>1. call'.phase = "retain"
      <4>1. call' = [call EXCEPT !.phase = "retain"]
        BY <2>1 DEF RecordDeadLetter
      <4> QED
        BY <1>1, <4>1, Phases
    <3>2. letters' = letters \/ letters' = Append(letters, Len(fate))
      BY <1>3, <2>1 DEF RecordDeadLetter
    <3>3. KeptSeen' = ToSet(letters')
      BY <3>1 DEF KeptSeen, LettersSeen, InPhase
    <3>4. ToSet(Append(letters, Len(fate))) \subseteq ToSet(letters) \cup {Len(fate)}
      <4> DEFINE a == Append(letters, Len(fate))
      <4>1. /\ DOMAIN a = 1 .. Len(letters) + 1
            /\ \A i \in 1 .. Len(letters) : a[i] = letters[i]
            /\ a[Len(letters) + 1] = Len(fate)
            /\ DOMAIN letters = 1 .. Len(letters)
        BY <1>3
      <4> HIDE DEF a
      <4>2. ASSUME NEW i \in DOMAIN a PROVE a[i] \in ToSet(letters) \cup {Len(fate)}
        <5>1. CASE i \in 1 .. Len(letters)
          BY <4>1, <5>1 DEF ToSet
        <5>2. CASE i = Len(letters) + 1
          BY <4>1, <5>2
        <5>3. Len(letters) \in Nat
          BY <1>3
        <5> QED
          BY <4>1, <5>1, <5>2, <5>3
      <4>3. ToSet(a) \subseteq ToSet(letters) \cup {Len(fate)}
        BY <4>2 DEF ToSet
      <4> QED
        BY <4>3 DEF a
    <3> QED
      BY <1>4, <3>2, <3>3, <3>4
  <2>2. CASE TruncateLetters
    <3>1. Len(letters) > MaxRecords
      BY <2>2 DEF TruncateLetters, Exceeds
    <3> DEFINE u == LastOf(letters, MaxRecords)
    <3>2. u \in Seq(Nat) /\ IsSuffix(u, letters)
      BY <1>3, <3>1, SuffixSelf, LastOfKeeps
    <3>3. call' # NoCall /\ call'.phase = "rewrite" /\ call'.kept = u
      <4>1. call' = [call EXCEPT !.phase = "rewrite", !.kept = u]
        BY <2>2 DEF TruncateLetters
      <4> QED
        BY <1>1, <3>2, <4>1, Phases
    <3>4. KeptSeen' = ToSet(call'.kept)
      BY <3>3 DEF KeptSeen, LettersSeen, InPhase
    <3>5. ToSet(call'.kept) \subseteq ToSet(letters)
      <4>1. EndsWith(letters, u)
        BY <1>3, <3>2, SuffixIs
      <4> HIDE DEF u
      <4>2. ASSUME NEW i \in DOMAIN u PROVE u[i] \in ToSet(letters)
        <5>1. i \in 1 .. Len(u) /\ Len(u) \in Nat /\ Len(letters) \in Nat
          BY <1>3, <3>2
        <5>2. Len(letters) - Len(u) + i \in 1 .. Len(letters)
          BY <4>1, <5>1 DEF EndsWith
        <5>3. u[i] = letters[Len(letters) - Len(u) + i]
          BY <4>1, <5>1 DEF EndsWith
        <5> QED
          BY <1>3, <5>2, <5>3 DEF ToSet
      <4> QED
        BY <3>3, <4>2 DEF ToSet
    <3> QED
      BY <1>4, <3>4, <3>5
  <2> QED
    BY <2>1, <2>2
<1> QED
  BY <1>1, <1>2, <1>5 DEF Promised!Bury, Promised!Newest, CopiesSeen, KeptSeen, LettersSeen

\* A call returns after its dead letter: the letter is in the store.
LEMMA GiveUpRefined ==
  ASSUME TypeOK, CopiesInv, LetterThere, KeepLetters \/ RewriteLetters
  PROVE  Promised!GiveUp
<1>1. /\ call # NoCall /\ call' = NoCall /\ UNCHANGED <<tried, requests>>
      /\ fate' = [fate EXCEPT ![Len(fate)] = "dead"]
      /\ letters' = LettersSeen
  BY DEF KeepLetters, RewriteLetters, InPhase, Return, LettersSeen, world
<1>2. Promised!InProgress /\ CopiesSeen' = CopiesSeen
  BY <1>1, InProgressSeen, SameCopies DEF CopiesInv
<1>3. KeptSeen' = KeptSeen
  BY <1>1 DEF KeptSeen, LettersSeen, InPhase
<1>4. ASSUME Store # "none" PROVE Len(fate) \in KeptSeen
  <2>1. LettersSeen # << >> /\ Last(LettersSeen) = Len(requests)
    BY <1>4 DEF KeepLetters, RewriteLetters, LetterThere, LettersSeen, InPhase
  <2>2. LettersSeen \in Seq(Nat) /\ Len(requests) = Len(fate)
    BY SeenType
  <2>3. Len(LettersSeen) \in DOMAIN LettersSeen
    BY <2>1, <2>2
  <2> QED
    BY <2>1, <2>2, <2>3 DEF KeptSeen, ToSet, Last
<1> QED
  BY <1>1, <1>2, <1>3, <1>4
  DEF Promised!GiveUp, Promised!Ends, Promised!Newest, CopiesSeen, KeptSeen, LettersSeen

\* A crash, between two calls or in one.
LEMMA CrashRefined ==
  ASSUME TypeOK, TypeOK', CopiesInv, LetterThere, Crash
  PROVE  Promised!Fail \/ Promised!Stop
<1>1. /\ call' = NoCall /\ requests' = requests
      /\ letters' = IF Store = "file" THEN letters ELSE << >>
      /\ \/ tried' = tried
         \/ InPhase("attempt") /\ tried' = [tried EXCEPT ![Len(tried)] = Copied(@, TRUE)]
  BY DEF Crash
<1>2. KeptSeen' \subseteq KeptSeen
  <2>1. LettersSeen' \in {LettersSeen, << >>}
    BY <1>1 DEF LettersSeen, InPhase, LetterThere
  <2>2. ToSet(<< >>) = {}
    BY DEF ToSet
  <2> QED
    BY <2>1, <2>2 DEF KeptSeen
<1>3. CASE call # NoCall
  <2>1. fate' = [fate EXCEPT ![Len(fate)] = "crashed"]
    BY <1>3 DEF Crash
  <2> QED
    BY <1>1, <1>2, <1>3, <2>1, FailRefined
<1>4. CASE call = NoCall
  <2>1. UNCHANGED <<fate, tried>>
    BY <1>1, <1>4 DEF Crash, InPhase
  <2>2. ~Promised!InProgress /\ CopiesSeen' = CopiesSeen
    BY <1>1, <1>4, <2>1, InProgressSeen, SameCopies DEF CopiesInv
  <2> QED
    BY <1>2, <2>1, <2>2 DEF Promised!Stop, CopiesSeen, KeptSeen, LettersSeen
<1> QED
  BY <1>3, <1>4

LEMMA InitRefined == Init => Promised!Init
<1> SUFFICES ASSUME Init PROVE Promised!Init
  OBVIOUS
<1>1. requests = << >> /\ fate = << >> /\ call = NoCall /\ letters \in Earlier
  BY DEF Init
<1>2. CopiesSeen = << >>
  <2>1. TypeOK
    BY InitType
  <2> QED
    BY <1>1, <2>1, SeenType, EmptySeq
<1>3. KeptSeen \subseteq {0}
  <2>1. KeptSeen = ToSet(letters)
    BY <1>1 DEF KeptSeen, LettersSeen, InPhase
  <2>2. PICK k : letters \in [1 .. k -> {0}]
    BY <1>1 DEF Earlier
  <2> QED
    BY <2>1, <2>2 DEF ToSet
<1> QED
  BY <1>1, <1>2, <1>3 DEF Promised!Init, CopiesSeen, KeptSeen, LettersSeen

LEMMA NextRefined ==
  ASSUME TypeOK, TypeOK', CopiesInv, LetterThere, [Next]_vars
  PROVE  [Promised!Next]_(Promised!vars)
<1> USE DEF metrics, world, history
<1> SUFFICES Promised!Next \/ UNCHANGED Promised!vars
  OBVIOUS
<1>1. ASSUME NEW q \in Requests, Deliver(q) \/ DeliverUnsupported(q) PROVE Promised!Next
  <2>1. PICK phase \in {"attempt", "letter"}, attempt \in {0, 1} : Begun(q, phase, attempt)
    BY <1>1 DEF Deliver, DeliverUnsupported
  <2> QED
    BY <2>1, BeginRefined DEF CopiesInv, Promised!Next
<1>2. ASSUME AttemptSucceeds PROVE Promised!Next
  BY <1>2, SucceedRefined DEF Promised!Next
<1>3. ASSUME AttemptRetried \/ AttemptFails PROVE Promised!Next \/ UNCHANGED Promised!vars
  BY <1>3, RetryRefined DEF Promised!Next
<1>4. ASSUME AdapterRaises PROVE Promised!Next
  <2>1. /\ call # NoCall /\ call.phase = "attempt" /\ call' = NoCall
        /\ UNCHANGED <<requests, letters>>
        /\ fate' = [fate EXCEPT ![Len(fate)] = "raised"]
        /\ \/ tried' = tried
           \/ tried' = [tried EXCEPT ![Len(tried)] = Copied(@, TRUE)]
    BY <1>4 DEF AdapterRaises, InPhase, Raise
  <2>2. KeptSeen' = KeptSeen
    BY <2>1 DEF KeptSeen, LettersSeen, InPhase
  <2> QED
    BY <2>1, <2>2, FailRefined DEF Promised!Next
<1>5. ASSUME RecordDeadLetter \/ TruncateLetters PROVE Promised!Next
  BY <1>5, BuryRefined DEF Promised!Next
<1>6. ASSUME KeepLetters \/ RewriteLetters PROVE Promised!Next
  BY <1>6, GiveUpRefined DEF Promised!Next
<1>7. ASSUME StoreRaises PROVE Promised!Next
  <2>1. /\ call # NoCall /\ call' = NoCall /\ UNCHANGED <<requests, letters, tried>>
        /\ fate' = [fate EXCEPT ![Len(fate)] = "raised"]
    BY <1>7 DEF StoreRaises, Raise
  <2>2. KeptSeen' \subseteq KeptSeen
    <3>1. LettersSeen' \in {LettersSeen, << >>}
      BY <2>1 DEF LettersSeen, InPhase, LetterThere
    <3>2. ToSet(<< >>) = {}
      BY DEF ToSet
    <3> QED
      BY <3>1, <3>2 DEF KeptSeen
  <2> QED
    BY <2>1, <2>2, FailRefined DEF Promised!Next
<1>8. ASSUME ResetMetrics \/ ClearDeliveryLog \/ UNCHANGED vars
      PROVE  UNCHANGED Promised!vars
  <2>1. UNCHANGED <<fate, tried, requests, letters, call>>
    BY <1>8 DEF ResetMetrics, ClearDeliveryLog, vars
  <2>2. CopiesSeen' = CopiesSeen /\ KeptSeen' = KeptSeen
    BY <2>1, SameCopies DEF KeptSeen, LettersSeen, InPhase
  <2> QED
    BY <2>1, <2>2 DEF Promised!vars, CopiesSeen, KeptSeen, LettersSeen
<1>9. ASSUME NEW w \in abandoned, AbandonedLands(w)
      PROVE  Promised!Next \/ UNCHANGED Promised!vars
  <2>0. PICK k \in Numbers : k = w.number
    BY DEF TypeOK
  <2>1. /\ UNCHANGED <<fate, requests, letters, call>>
        /\ tried' = [tried EXCEPT ![k] = Copied(tried[k], FALSE)]
    BY <1>9, <2>0 DEF AbandonedLands
  <2>2. DOMAIN tried = Numbers
    BY DEF TypeOK, Numbers
  <2>3. /\ tried'[k].landed = tried[k].landed + 1
        /\ \A n \in Numbers : n # k => tried'[n] = tried[n]
    BY <2>1, <2>2, CopiedEffect
  <2>4. CopiesSeen' = [CopiesSeen EXCEPT ![k] = @ + 1]
    BY <2>1, <2>3, CopiesChange
  <2>5. KeptSeen' = KeptSeen
    BY <2>1 DEF KeptSeen, LettersSeen, InPhase
  <2> QED
    BY <2>1, <2>4, <2>5, ArrivalRefined DEF Promised!Next
<1>10. ASSUME Crash PROVE Promised!Next
  BY <1>10, CrashRefined DEF Promised!Next
<1> QED
  BY <1>1, <1>2, <1>3, <1>4, <1>5, <1>6, <1>7, <1>8, <1>9, <1>10 DEF Next, Progress

-----------------------------------------------------------------------------
\* Deliveries implement their protocol but for its liveness, for any sinks,
\* adapters, policies and store: a request has one end and keeps it, a delivered
\* one has a copy at the destination, one that was given up has its letter in
\* the store when its call returns, and only requests that have been made leave
\* copies and letters, through retries, retention, exceptions, late writes and
\* crashes (deliver, FileDeadLetterStore.record).
THEOREM DeliveriesImplementProtocol ==
  Spec => Promised!Init /\ [][Promised!Next]_(Promised!vars)
<1>1. Init => LetterThere
  BY DEF Init, LetterThere, InPhase
<1>2. TypeOK /\ LetterThere /\ [Next]_vars => LetterThere'
  BY NextLetterThere
<1>3. TypeOK /\ TypeOK' /\ CopiesInv /\ [Next]_vars => CopiesInv'
  BY NextCopies
<1>4. TypeOK /\ TypeOK' /\ CopiesInv /\ LetterThere /\ [Next]_vars
        => [Promised!Next]_(Promised!vars)
  BY NextRefined
<1> QED
  BY <1>1, <1>2, <1>3, <1>4, InitCopies, InitRefined, DeliveryTypeCorrect, PTL DEF Spec
=============================================================================
