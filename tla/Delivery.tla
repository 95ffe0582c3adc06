------------------------------ MODULE Delivery -------------------------------
(***************************************************************************)
(* Delivery of alerts: the registry that retries, counts and logs, the     *)
(* adapters, and the dead-letter store (sinks.py).                         *)
(*                                                                         *)
(* The engine makes one call of SinkRegistry.deliver at a time. A call is  *)
(* one step per attempt and one per operation on the dead-letter file, so  *)
(* that a crash of the process, or a write an earlier attempt gave up      *)
(* waiting for, can come in between.                                       *)
(***************************************************************************)
EXTENDS Integers, Sequences

CONSTANTS
  Requests,     \* the requests the engine may make
  Objects,      \* keys of stored objects
  Alerts,       \* idempotency keys
  Adapters,     \* the sink types an adapter is registered for
  Store,        \* the dead-letter store: "none", "memory" or "file"
  MaxRecords,   \* how many records the file retains
  MaxCalls,     \* bound on the calls of deliver
  MaxBreaks,    \* bound on crashes and resets together
  NoCall

SinkTypes == {"stdout", "file", "webhook", "queue", "object_storage", "custom"}

\* A request with the parts of its sink configuration that deliver and the
\* adapters read: whether the destination is named, whether the write has a
\* deadline, whether unknown failures may be retried, and max_attempts.
Request ==
  [sink : SinkTypes, alert : Alerts, object : Objects, target : BOOLEAN,
   timed : BOOLEAN, retryable : BOOLEAN, attempts : Nat \ {0}]

\* The call of deliver in progress; kept is what a rewrite of the dead-letter
\* file is about to write.
Calls ==
  [phase : {"attempt", "letter", "retain", "rewrite"}, attempt : Nat,
   retryable : BOOLEAN, kept : Seq(Nat)]

ASSUME DeliveryAssumption ==
  /\ Requests \subseteq Request
  /\ Adapters \subseteq SinkTypes
  /\ Store \in {"none", "memory", "file"}
  /\ MaxRecords \in Nat \ {0}
  /\ MaxCalls \in Nat
  /\ MaxBreaks \in Nat
  /\ NoCall \notin Calls

Counters ==
  {"total_requests", "total_attempts", "delivered", "failed", "unsupported",
   "retryable_failures", "retries_attempted", "dead_letters"}

NoMetrics == [c \in Counters |-> 0]

VARIABLES
  overall,      \* counters of all sinks
  bySink,       \* counters of each sink type
  log,          \* the delivery log
  call,         \* the call of deliver in progress
  abandoned,    \* writes whose attempt timed out and that still run
  letters,      \* the dead-letter store: the number of the call, or 0, of each line
  objects,      \* the call whose write an object holds, 0 for none
  \* history
  requests,     \* the requests, in the order of the calls
  fate,         \* how each call ended
  tried,        \* per call: attempts, whether one is uncertain, writes landed
  escaped,      \* calls an adapter's exception ended, per sink, since the reset
  cleared,      \* how many calls had been made when the log was last cleared
  recorded,     \* dead letters written, in order, since a rewrite was cut short
  breaks        \* crashes and resets so far

metrics == <<overall, bySink>>
world == <<abandoned, letters, objects>>
history == <<requests, fate, tried, escaped, cleared, recorded, breaks>>
vars == <<metrics, log, call, world, history>>

\* A file of dead letters may be there from an earlier process.
Earlier == UNION {[1 .. k -> {0}] : k \in 0 .. IF Store = "file" THEN MaxRecords ELSE 0}

Init ==
  /\ overall = NoMetrics
  /\ bySink = [s \in SinkTypes |-> NoMetrics]
  /\ log = << >>
  /\ call = NoCall
  /\ abandoned = {}
  /\ letters \in Earlier
  /\ objects = [k \in Objects |-> 0]
  /\ requests = << >>
  /\ fate = << >>
  /\ tried = << >>
  /\ escaped = [s \in SinkTypes |-> 0]
  /\ cleared = 0
  /\ recorded = letters
  /\ breaks = 0

-----------------------------------------------------------------------------
\* Adapters: what an attempt returns, and whether the destination receives the
\* write now, perhaps later, or never.

Success == [status |-> "delivered", retryable |-> FALSE, write |-> "now"]

Failures(retryable, writes) ==
  [status : {"failed"}, retryable : {retryable}, write : writes]

\* The thread that writes is not stopped when its time is up.
TimedOut(q) == IF q.timed THEN Failures(TRUE, {"later", "never"}) ELSE {}

\* The operating system may report a timeout of its own, and may report an error
\* when the line is out (a line that is cut off counts as not received).
FileSink(q) ==
  {Success} \cup TimedOut(q) \cup Failures(TRUE, {"now", "never"})
            \cup Failures(FALSE, {"now", "never"})

\* An error of the server or the connection does not tell whether the request
\* has been taken.
WebhookSink(q) ==
  {Success} \cup Failures(TRUE, {"now", "never"}) \cup Failures(FALSE, {"never"})

QueueSink(q) ==
  {Success} \cup Failures(TRUE, {"now", "never"})
            \cup Failures(q.retryable, {"now", "never"})

ObjectStorageSink(q) == QueueSink(q) \cup TimedOut(q)

\* Nothing is known of the adapter of another sink type.
Outcomes(q) ==
  CASE q.sink = "stdout" -> {Success}
    [] q.sink \notin {"stdout", "custom"} /\ ~q.target -> Failures(FALSE, {"never"})
    [] q.sink = "file" /\ q.target -> FileSink(q)
    [] q.sink = "webhook" /\ q.target -> WebhookSink(q)
    [] q.sink = "queue" /\ q.target -> QueueSink(q)
    [] q.sink = "object_storage" /\ q.target -> ObjectStorageSink(q)
    [] q.sink = "custom" ->
         {Success} \cup Failures(TRUE, {"now", "never"})
                   \cup Failures(FALSE, {"now", "never"})

\* Printing is not guarded; the file's directory, the webhook's address and the
\* text of an object are made outside the try blocks, and an answer that is not
\* HTTP is not caught.
MayRaise(q) ==
  \/ q.sink \in {"stdout", "custom"}
  \/ q.sink \in {"file", "webhook", "object_storage"} /\ q.target

-----------------------------------------------------------------------------
\* The registry

Current == requests[Len(requests)]
InPhase(p) == call # NoCall /\ call.phase = p

Merge(m, counted) == [c \in Counters |-> m[c] + IF c \in counted THEN 1 ELSE 0]

Count(sink, counted) ==
  /\ overall' = Merge(overall, counted)
  /\ bySink' = [bySink EXCEPT ![sink] = Merge(@, counted)]

\* Mutant: the entry has the retries instead of the attempts.
ReturnRetries(status, retryable) ==
  /\ call' = NoCall
  /\ fate' = [fate EXCEPT ![Len(fate)] = status]
  /\ log' = Append(log, [number |-> Len(requests), attempts |-> call.attempt - 1,
                         dead |-> status = "dead", retryable |-> retryable])

\* The call returns, and the log has an entry for it.
Return(status, retryable) ==
  /\ call' = NoCall
  /\ fate' = [fate EXCEPT ![Len(fate)] = status]
  /\ log' = Append(log, [number |-> Len(requests), attempts |-> call.attempt,
                         dead |-> status = "dead", retryable |-> retryable])

\* The call ends by an exception.
Raise ==
  /\ call' = NoCall
  /\ fate' = [fate EXCEPT ![Len(fate)] = "raised"]

Begun(q, phase, attempt) ==
  /\ call = NoCall
  /\ Len(requests) < MaxCalls
  /\ call' = [phase |-> phase, attempt |-> attempt, retryable |-> FALSE, kept |-> << >>]
  /\ requests' = Append(requests, q)
  /\ fate' = Append(fate, "open")
  /\ tried' = Append(tried, [attempts |-> 0, unsure |-> FALSE, landed |-> 0])
  /\ UNCHANGED <<log, world, escaped, cleared, recorded, breaks>>

Deliver(q) ==
  /\ q.sink \in Adapters
  /\ Count(q.sink, {"total_requests"})
  /\ Begun(q, "attempt", 1)

DeliverUnsupported(q) ==
  /\ q.sink \notin Adapters
  /\ Count(q.sink, {"total_requests", "failed", "unsupported"})
  /\ Begun(q, "letter", 0)

\* The write of a call lands. The key of an object is that of its rule and second.
Stored(n) ==
  IF requests[n].sink = "object_storage"
  THEN [objects EXCEPT ![requests[n].object] = n] ELSE objects

\* One more copy has reached the destination.
Copied(t, unsure) ==
  [attempts |-> t.attempts, unsure |-> t.unsure \/ unsure, landed |-> t.landed + 1]

\* What an attempt does outside the registry.
Attempted(o) ==
  /\ tried' = [tried EXCEPT ![Len(tried)] =
                 [attempts |-> @.attempts + 1,
                  unsure |-> @.unsure \/ (o.status = "failed" /\ o.write # "never"),
                  landed |-> @.landed + IF o.write = "now" THEN 1 ELSE 0]]
  /\ objects' = IF o.write = "now" THEN Stored(Len(requests)) ELSE objects
  /\ abandoned' = IF o.write = "later"
                  THEN abandoned \cup {[number |-> Len(requests), attempt |-> call.attempt]}
                  ELSE abandoned
  /\ UNCHANGED <<letters, requests, escaped, cleared, recorded, breaks>>

\* Mutant: one attempt too many.
RetriesInclusive(o, attempt, limit) == o.retryable /\ attempt <= limit

Retries(o, attempt, limit) == o.retryable /\ attempt < limit

\* Mutant: a failure is counted once, by its kind.
FailureCountersEither(o) ==
  {"total_attempts", IF o.retryable THEN "retryable_failures" ELSE "failed"}

FailureCounters(o) ==
  {"total_attempts", "failed"} \cup (IF o.retryable THEN {"retryable_failures"} ELSE {})

\* Mutant: the loop is left and the call goes on.
AttemptSucceedsOnly ==
  /\ InPhase("attempt")
  /\ \E o \in Outcomes(Current) :
       /\ o.status = "delivered"
       /\ Attempted(o)
  /\ Count(Current.sink, {"total_attempts", "delivered"})
  /\ call' = [call EXCEPT !.phase = "letter"]
  /\ UNCHANGED <<log, fate>>

AttemptSucceeds ==
  /\ InPhase("attempt")
  /\ \E o \in Outcomes(Current) :
       /\ o.status = "delivered"
       /\ Attempted(o)
  /\ Count(Current.sink, {"total_attempts", "delivered"})
  /\ Return("delivered", FALSE)

AttemptRetried ==
  /\ InPhase("attempt")
  /\ \E o \in Outcomes(Current) :
       /\ o.status = "failed"
       /\ Retries(o, call.attempt, Current.attempts)
       /\ Attempted(o)
       /\ Count(Current.sink, FailureCounters(o) \cup {"retries_attempted"})
  /\ call' = [call EXCEPT !.attempt = @ + 1]
  /\ UNCHANGED <<log, fate>>

AttemptFails ==
  /\ InPhase("attempt")
  /\ \E o \in Outcomes(Current) :
       /\ o.status = "failed"
       /\ ~Retries(o, call.attempt, Current.attempts)
       /\ Attempted(o)
       /\ Count(Current.sink, FailureCounters(o))
       /\ call' = [call EXCEPT !.phase = "letter", !.retryable = o.retryable]
  /\ UNCHANGED <<log, fate>>

AdapterRaises ==
  /\ InPhase("attempt")
  /\ MayRaise(Current)
  /\ Raise
  /\ escaped' = [escaped EXCEPT ![Current.sink] = @ + 1]
  /\ \/ UNCHANGED tried
     \/ /\ Current.sink \in {"webhook", "custom"}
        /\ tried' = [tried EXCEPT ![Len(tried)] = Copied(@, TRUE)]
  /\ UNCHANGED <<metrics, log, world, requests, cleared, recorded, breaks>>

Break == breaks < MaxBreaks /\ breaks' = breaks + 1

ResetMetrics ==
  /\ call = NoCall
  /\ Break
  /\ overall' = NoMetrics
  /\ bySink' = [s \in SinkTypes |-> NoMetrics]
  /\ escaped' = [s \in SinkTypes |-> 0]
  /\ UNCHANGED <<log, call, world, requests, fate, tried, cleared, recorded>>

ClearDeliveryLog ==
  /\ call = NoCall
  /\ Break
  /\ log' = << >>
  /\ cleared' = Len(requests)
  /\ UNCHANGED <<metrics, call, world, requests, fate, tried, escaped, recorded>>

-----------------------------------------------------------------------------
\* Dead letters

\* Mutant: the oldest are kept.
LastOfOldest(s, n) == SubSeq(s, 1, n)

LastOf(s, n) == IF Len(s) <= n THEN s ELSE SubSeq(s, Len(s) - n + 1, Len(s))

\* The file keeps MaxRecords lines, the other stores all of them.
Exceeds(lines) == Store = "file" /\ Len(lines) > MaxRecords

RecordDeadLetter ==
  /\ InPhase("letter")
  /\ Count(Current.sink, {"dead_letters"})
  /\ letters' = IF Store = "none" THEN letters ELSE Append(letters, Len(requests))
  /\ recorded' = IF Store = "none" THEN recorded ELSE Append(recorded, Len(requests))
  /\ call' = [call EXCEPT !.phase = "retain"]
  /\ UNCHANGED <<log, abandoned, objects, requests, fate, tried, escaped, cleared, breaks>>

KeepLetters ==
  /\ InPhase("retain")
  /\ ~Exceeds(letters)
  /\ Return("dead", call.retryable)
  /\ UNCHANGED <<metrics, world, requests, tried, escaped, cleared, recorded, breaks>>

\* The file is opened for writing, which empties it.
TruncateLetters ==
  /\ InPhase("retain")
  /\ Exceeds(letters)
  /\ letters' = << >>
  /\ call' = [call EXCEPT !.phase = "rewrite", !.kept = LastOf(letters, MaxRecords)]
  /\ UNCHANGED <<metrics, log, abandoned, objects, history>>

RewriteLetters ==
  /\ InPhase("rewrite")
  /\ letters' = call.kept
  /\ Return("dead", call.retryable)
  /\ UNCHANGED <<metrics, abandoned, objects, requests, tried, escaped, cleared,
                 recorded, breaks>>

\* An operation on the file fails; the exception leaves deliver.
StoreRaises ==
  /\ Store = "file"
  /\ call # NoCall
  /\ call.phase # "attempt"
  /\ Count(Current.sink, IF call.phase = "letter" THEN {"dead_letters"} ELSE {})
  /\ Raise
  /\ recorded' = IF call.phase = "rewrite" THEN << >> ELSE recorded
  /\ UNCHANGED <<log, world, requests, tried, escaped, cleared, breaks>>

-----------------------------------------------------------------------------
\* What goes on beside the call

\* A write an attempt has given up reaches its destination after all. (One that
\* fails is one that never lands.)
AbandonedLands(w) ==
  /\ tried' = [tried EXCEPT ![w.number] = Copied(@, FALSE)]
  /\ objects' = Stored(w.number)
  /\ abandoned' = abandoned \ {w}
  /\ UNCHANGED <<metrics, log, call, letters, requests, fate, escaped, cleared,
                 recorded, breaks>>

\* The process stops and is started again: only files and destinations remain.
\* The write of an attempt in progress may have landed.
Crash ==
  /\ Break
  /\ overall' = NoMetrics
  /\ bySink' = [s \in SinkTypes |-> NoMetrics]
  /\ escaped' = [s \in SinkTypes |-> 0]
  /\ log' = << >>
  /\ cleared' = Len(requests)
  /\ call' = NoCall
  /\ fate' = IF call = NoCall THEN fate ELSE [fate EXCEPT ![Len(fate)] = "crashed"]
  /\ abandoned' = {}
  /\ letters' = IF Store = "file" THEN letters ELSE << >>
  /\ recorded' = IF Store = "file" /\ ~InPhase("rewrite") THEN recorded ELSE << >>
  /\ \/ UNCHANGED <<objects, tried>>
     \/ /\ InPhase("attempt")
        /\ Success \in Outcomes(Current)
        /\ objects' = Stored(Len(requests))
        /\ tried' = [tried EXCEPT ![Len(tried)] = Copied(@, TRUE)]
  /\ UNCHANGED requests

\* The steps of a call that has begun.
Progress ==
  \/ AttemptSucceeds \/ AttemptRetried \/ AttemptFails \/ AdapterRaises
  \/ RecordDeadLetter \/ KeepLetters \/ TruncateLetters \/ RewriteLetters \/ StoreRaises

Next ==
  \/ \E q \in Requests : Deliver(q) \/ DeliverUnsupported(q)
  \/ Progress
  \/ \E w \in abandoned : AbandonedLands(w)
  \/ ResetMetrics \/ ClearDeliveryLog \/ Crash

Spec == Init /\ [][Next]_vars

\* Every attempt comes to an answer, an exception or the end of its deadline,
\* and deliver does not stop between two attempts.
FairSpec == Spec /\ WF_vars(Progress)
=============================================================================
