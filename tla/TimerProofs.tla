---------------------------- MODULE TimerProofs ------------------------------
(***************************************************************************)
(* What a rule remembers and waits for, as the clock moves: the buffer is  *)
(* in time order, the timers track the clock, and the conditions over      *)
(* silent sources are what the clock and the last reports say they are.    *)
(***************************************************************************)
EXTENDS StepProofs

-----------------------------------------------------------------------------
\* Buffers in time order.

\* In time order, with nothing later than limit.
InOrderUpTo(buffer, limit) ==
  /\ \A i, j \in DOMAIN buffer : i < j => buffer[i].ts <= buffer[j].ts
  /\ \A i \in DOMAIN buffer : buffer[i].ts <= limit

BufferInv ==
  \A p \in Partitions, r \in RuleIds :
    states[p][r] # NoState => InOrderUpTo(states[p][r].buffer, Limit)

LEMMA ReadingTimes ==
  ASSUME NEW buffer \in Seq(Reading)
  PROVE  /\ DOMAIN buffer = 1 .. Len(buffer) /\ Len(buffer) \in Nat
         /\ \A i \in 1 .. Len(buffer) : buffer[i] \in Reading /\ buffer[i].ts \in Nat
<1>1. DOMAIN buffer = 1 .. Len(buffer) /\ Len(buffer) \in Nat
  BY LenProperties
<1>2. \A i \in 1 .. Len(buffer) : buffer[i] \in Reading
  BY LenProperties
<1>3. \A e \in Reading : e.ts \in Nat
  BY DEF Reading
<1> QED BY <1>1, <1>2, <1>3

(* What is dropped is the front of the buffer.                              *)
LEMMA DropShape ==
  ASSUME NEW buffer \in Seq(Reading), NEW cutoff
  PROVE  LET n == Len(buffer)
             k == CountBefore(buffer, cutoff)
             rest == DropBefore(buffer, cutoff)
         IN /\ k \in 0 .. n
            /\ DOMAIN rest = 1 .. n - k
            /\ \A i \in 1 .. n - k : k + i \in 1 .. n /\ rest[i] = buffer[k + i]
<1> DEFINE k == CountBefore(buffer, cutoff)
           n == Len(buffer)
           rest == SubSeq(buffer, k + 1, n)
<1>1. k \in 0 .. n /\ n \in Nat
  BY CountType, LenProperties
<1>2. DOMAIN buffer = 1 .. n /\ \A i \in 1 .. n : buffer[i] \in Reading /\ buffer[i].ts \in Nat
  BY ReadingTimes
<1>3. DropBefore(buffer, cutoff) = rest
  BY DEF DropBefore
<1> HIDE DEF k
<1>4. k + 1 \in Int /\ n \in Int /\ \A i \in k + 1 .. n : buffer[i] \in Reading
  BY <1>1, <1>2
<1>5. /\ rest \in Seq(Reading)
      /\ Len(rest) = IF k + 1 <= n THEN n - (k + 1) + 1 ELSE 0
      /\ \A i \in 1 .. n - (k + 1) + 1 : rest[i] = buffer[k + 1 + i - 1]
  BY <1>4, SubSeqProperties
<1>6. DOMAIN rest = 1 .. Len(rest)
  BY <1>5, LenProperties
<1> HIDE DEF rest, n
<1>7. DOMAIN rest = 1 .. n - k
  BY SMTT(30), <1>1, <1>5, <1>6
<1>8. \A i \in DOMAIN rest : k + i \in 1 .. n /\ rest[i] = buffer[k + i]
  BY SMTT(30), <1>1, <1>5, <1>6
<1> QED BY <1>1, <1>3, <1>7, <1>8 DEF k, n

(* What is left once readings are dropped from the front is in order.       *)
LEMMA DropBeforeOrdered ==
  ASSUME NEW buffer \in Seq(Reading), NEW limit \in Int, InOrderUpTo(buffer, limit), NEW cutoff
  PROVE  InOrderUpTo(DropBefore(buffer, cutoff), limit)
<1> DEFINE n == Len(buffer)
           rest == DropBefore(buffer, cutoff)
<1>1. DOMAIN buffer = 1 .. n /\ n \in Nat /\ \A i \in 1 .. n : buffer[i].ts \in Nat
  BY ReadingTimes
<1>2. PICK k \in 0 .. n :
        /\ DOMAIN rest = 1 .. n - k
        /\ \A i \in 1 .. n - k : k + i \in 1 .. n /\ rest[i] = buffer[k + i]
  BY DropShape
<1> HIDE DEF rest, n
<1>3. ASSUME NEW i \in DOMAIN rest, NEW j \in DOMAIN rest, i < j
      PROVE  rest[i].ts <= rest[j].ts
  <2>1. k + i \in 1 .. n /\ k + j \in 1 .. n /\ k + i < k + j
    BY <1>1, <1>2, <1>3
  <2>2. buffer[k + i].ts <= buffer[k + j].ts
    BY <1>1, <2>1 DEF InOrderUpTo
  <2> QED BY <1>2, <2>2
<1>4. \A i \in DOMAIN rest : rest[i].ts <= limit
  BY <1>1, <1>2 DEF InOrderUpTo
<1> QED BY <1>3, <1>4 DEF InOrderUpTo, rest

(* An event that is not behind the buffer goes to its end.                  *)
LEMMA AppendOrdered ==
  ASSUME NEW buffer \in Seq(Reading), NEW reading \in Reading,
         InOrderUpTo(buffer, reading.ts)
  PROVE  InOrderUpTo(Append(buffer, reading), reading.ts)
<1>1. /\ Len(buffer) \in Nat /\ DOMAIN buffer = 1 .. Len(buffer)
      /\ \A i \in 1 .. Len(buffer) : buffer[i].ts \in Nat
  BY ReadingTimes
<1>2. reading.ts \in Nat
  BY DEF Reading
<1>3. /\ DOMAIN Append(buffer, reading) = 1 .. Len(buffer) + 1
      /\ \A i \in 1 .. Len(buffer) : Append(buffer, reading)[i] = buffer[i]
      /\ Append(buffer, reading)[Len(buffer) + 1] = reading
  BY AppendProperties, LenProperties
<1> QED BY <1>1, <1>2, <1>3 DEF InOrderUpTo

(* In a buffer in time order, the readings up to an instant are the first   *)
(* ones.                                                                    *)
LEMMA CountUpToOrdered ==
  ASSUME NEW buffer \in Seq(Reading), NEW limit \in Int, InOrderUpTo(buffer, limit),
         NEW ts \in Nat, NEW i \in 1 .. Len(buffer)
  PROVE  buffer[i].ts <= ts <=> i <= CountUpTo(buffer, ts)
<1> DEFINE n == Len(buffer)
           S == {j \in DOMAIN buffer : buffer[j].ts <= ts}
<1>1. /\ n \in Nat /\ DOMAIN buffer = 1 .. n
      /\ \A j \in 1 .. n : buffer[j].ts \in Nat
  BY ReadingTimes
<1>2. CountUpTo(buffer, ts) = Cardinality(S)
  BY DEF CountUpTo
<1>3. \A k \in 0 .. n : IsFiniteSet(1 .. k) /\ Cardinality(1 .. k) = k
  <2> TAKE k \in 0 .. n
  <2>1. k \in Nat
    BY <1>1
  <2>2. /\ IsFiniteSet(1 .. k)
        /\ Cardinality(1 .. k) = IF 1 > k THEN 0 ELSE k - 1 + 1
    BY <2>1, FS_Interval
  <2> QED BY <2>1, <2>2
<1>4. S \in SUBSET (1 .. n)
  BY <1>1
<1>5. IsFiniteSet(S) /\ Cardinality(S) \in Nat
  BY <1>1, <1>3, <1>4, FS_Subset, FS_CardinalityType
<1> HIDE DEF S
<1>6. ASSUME buffer[i].ts <= ts PROVE i <= Cardinality(S)
  <2>1. 1 .. i \in SUBSET S
    <3> SUFFICES ASSUME NEW j \in 1 .. i PROVE j \in S
      OBVIOUS
    <3>1. j \in 1 .. n
      BY <1>1
    <3>2. buffer[j].ts <= buffer[i].ts
      BY <1>1, <3>1 DEF InOrderUpTo
    <3> QED BY <1>1, <1>6, <3>1, <3>2 DEF S
  <2>2. Cardinality(1 .. i) <= Cardinality(S)
    BY <1>5, <2>1, FS_Subset
  <2> QED BY <1>1, <1>3, <2>2
<1>7. ASSUME ~(buffer[i].ts <= ts) PROVE ~(i <= Cardinality(S))
  <2>1. S \in SUBSET (1 .. i - 1)
    <3> SUFFICES ASSUME NEW j \in S PROVE j \in 1 .. i - 1
      OBVIOUS
    <3>1. j \in 1 .. n /\ buffer[j].ts <= ts
      BY <1>1 DEF S
    <3>2. ~(i <= j)
      <4> SUFFICES ASSUME i <= j PROVE FALSE
        OBVIOUS
      <4>1. buffer[i].ts <= buffer[j].ts
        BY <1>1, <3>1 DEF InOrderUpTo
      <4> QED BY <1>1, <1>7, <3>1, <4>1
    <3> QED BY <3>1, <3>2
  <2>2. i - 1 \in 0 .. n
    BY <1>1
  <2>3. Cardinality(S) <= Cardinality(1 .. i - 1)
    BY <1>3, <2>1, <2>2, FS_Subset
  <2> QED BY <1>3, <1>5, <2>2, <2>3
<1> QED BY <1>2, <1>6, <1>7

(* What is inserted gets a place of its own, what is behind it moves on.    *)
LEMMA InsertShape ==
  ASSUME NEW buffer \in Seq(Reading), NEW limit \in Int, InOrderUpTo(buffer, limit),
         NEW reading \in Reading
  PROVE  LET n == Len(buffer)
             new == InsertInOrder(buffer, reading)
         IN /\ DOMAIN new = 1 .. n + 1
            /\ \E k \in 0 .. n :
                 /\ \A i \in 1 .. n : buffer[i].ts <= reading.ts <=> i <= k
                 /\ \A i \in 1 .. k : new[i] = buffer[i]
                 /\ new[k + 1] = reading
                 /\ \A i \in k + 2 .. n + 1 : new[i] = buffer[i - 1]
<1> DEFINE n == Len(buffer)
           k == CountUpTo(buffer, reading.ts)
           head == SubSeq(buffer, 1, k)
           tail == SubSeq(buffer, k + 1, n)
           new == head \o <<reading>> \o tail
<1>1. /\ n \in Nat /\ DOMAIN buffer = 1 .. n
      /\ \A i \in 1 .. n : buffer[i] \in Reading /\ buffer[i].ts \in Nat
  BY ReadingTimes
<1>2. reading.ts \in Nat
  BY DEF Reading
<1>3. k \in 0 .. n
  BY CountType
<1>4. \A i \in 1 .. n : buffer[i].ts <= reading.ts <=> i <= k
  BY <1>2, CountUpToOrdered
<1>5. InsertInOrder(buffer, reading) = new
  BY DEF InsertInOrder
<1> HIDE DEF k
<1>6. /\ head \in Seq(Reading) /\ Len(head) = k
      /\ \A i \in 1 .. k : head[i] = buffer[i]
  <2>1. \A i \in 1 .. k : buffer[i] \in Reading
    BY <1>1, <1>3
  <2>2. /\ head \in Seq(Reading)
        /\ Len(head) = IF 1 <= k THEN k - 1 + 1 ELSE 0
        /\ \A i \in 1 .. k - 1 + 1 : head[i] = buffer[1 + i - 1]
    BY <1>3, <2>1, SubSeqProperties
  <2> QED BY <1>3, <2>2
<1>7. /\ tail \in Seq(Reading) /\ Len(tail) = n - k
      /\ \A i \in 1 .. n - k : tail[i] = buffer[k + i]
  <2>1. \A i \in k + 1 .. n : buffer[i] \in Reading
    BY <1>1, <1>3
  <2>2. k + 1 \in Int /\ n \in Int
    BY <1>1, <1>3
  <2>3. /\ tail \in Seq(Reading)
        /\ Len(tail) = IF k + 1 <= n THEN n - (k + 1) + 1 ELSE 0
        /\ \A i \in 1 .. n - (k + 1) + 1 : tail[i] = buffer[k + 1 + i - 1]
    BY <2>1, <2>2, SubSeqProperties
  <2>4. Len(tail) = n - k
    <3>1. \A a \in Nat : \A b \in 0 .. a :
            (IF b + 1 <= a THEN a - (b + 1) + 1 ELSE 0) = a - b
      OBVIOUS
    <3>2. (IF k + 1 <= n THEN n - (k + 1) + 1 ELSE 0) = n - k
      BY <1>1, <1>3, <3>1
    <3> HIDE DEF tail, n
    <3> QED BY <2>3, <3>2
  <2>5. ASSUME NEW i \in 1 .. n - k PROVE tail[i] = buffer[k + i]
    <3>1. i \in 1 .. n - (k + 1) + 1 /\ k + 1 + i - 1 = k + i
      BY <1>1, <1>3
    <3> HIDE DEF tail
    <3> QED BY <2>3, <3>1
  <2> QED BY <2>3, <2>4, <2>5
<1> HIDE DEF head, tail
<1>8. /\ head \o <<reading>> \in Seq(Reading)
      /\ Len(head \o <<reading>>) = k + 1
      /\ \A i \in 1 .. k : (head \o <<reading>>)[i] = head[i]
      /\ (head \o <<reading>>)[k + 1] = reading
  <2>1. <<reading>> \in Seq(Reading) /\ Len(<<reading>>) = 1 /\ <<reading>>[1] = reading
    OBVIOUS
  <2> QED BY <1>3, <1>6, <2>1, ConcatProperties
<1>9. /\ new \in Seq(Reading) /\ Len(new) = n + 1
      /\ \A i \in 1 .. k + 1 : new[i] = (head \o <<reading>>)[i]
      /\ \A i \in k + 2 .. n + 1 : new[i] = tail[i - (k + 1)]
  BY <1>1, <1>3, <1>7, <1>8, ConcatProperties
<1>10. DOMAIN new = 1 .. n + 1
  BY <1>9, LenProperties
<1> HIDE DEF new, n
<1>11. /\ \A i \in 1 .. k : new[i] = buffer[i]
       /\ new[k + 1] = reading
       /\ \A i \in k + 2 .. n + 1 : new[i] = buffer[i - 1]
  <2>1. \A i \in 1 .. k : new[i] = buffer[i]
    BY <1>3, <1>6, <1>8, <1>9
  <2>2. new[k + 1] = reading
    BY <1>3, <1>8, <1>9
  <2>3. ASSUME NEW i \in k + 2 .. n + 1 PROVE new[i] = buffer[i - 1]
    <3>1. i - (k + 1) \in 1 .. n - k /\ k + (i - (k + 1)) = i - 1
      BY <1>1, <1>3
    <3> QED BY <1>7, <1>9, <3>1
  <2> QED BY <2>1, <2>2, <2>3
<1> QED BY <1>3, <1>4, <1>5, <1>10, <1>11 DEF n

(* An event behind the buffer goes behind the readings of its own time.     *)
LEMMA InsertOrdered ==
  ASSUME NEW buffer \in Seq(Reading), NEW limit \in Int, InOrderUpTo(buffer, limit),
         NEW reading \in Reading, reading.ts <= limit
  PROVE  InOrderUpTo(InsertInOrder(buffer, reading), limit)
<1> DEFINE n == Len(buffer)
           new == InsertInOrder(buffer, reading)
<1>1. /\ n \in Nat /\ DOMAIN buffer = 1 .. n
      /\ \A i \in 1 .. n : buffer[i] \in Reading /\ buffer[i].ts \in Nat
  BY ReadingTimes
<1>2. reading.ts \in Nat
  BY DEF Reading
<1>3. DOMAIN new = 1 .. n + 1
  BY InsertShape
<1>4. PICK k \in 0 .. n :
         /\ \A i \in 1 .. n : buffer[i].ts <= reading.ts <=> i <= k
         /\ \A i \in 1 .. k : new[i] = buffer[i]
         /\ new[k + 1] = reading
         /\ \A i \in k + 2 .. n + 1 : new[i] = buffer[i - 1]
  BY InsertShape
<1> HIDE DEF new, n
<1>5. \A i \in 1 .. n : buffer[i].ts <= limit
  BY <1>1 DEF InOrderUpTo
<1>6. \A i, j \in 1 .. n : i < j => buffer[i].ts <= buffer[j].ts
  BY <1>1 DEF InOrderUpTo
<1>7. ASSUME NEW i \in 1 .. n + 1
       PROVE  new[i].ts \in Nat /\ new[i].ts <= limit
  <2>1. \/ i \in 1 .. k \/ i = k + 1 \/ (i \in k + 2 .. n + 1 /\ i - 1 \in 1 .. n)
    BY <1>1, <1>4
  <2>2. i \in 1 .. k => i \in 1 .. n
    BY <1>1, <1>4
  <2> QED BY <1>1, <1>2, <1>4, <1>5, <2>1, <2>2
<1>8. ASSUME NEW i \in 1 .. n + 1, NEW j \in 1 .. n + 1, i < j
       PROVE  new[i].ts <= new[j].ts
  <2>1. CASE j <= k
    <3>1. i \in 1 .. k /\ j \in 1 .. k /\ i \in 1 .. n /\ j \in 1 .. n
      BY <1>1, <1>4, <1>8, <2>1
    <3> QED BY <1>4, <1>6, <1>8, <3>1
  <2>2. CASE j = k + 1
    <3>1. i \in 1 .. k /\ i \in 1 .. n
      BY <1>1, <1>4, <1>8, <2>2
    <3> QED BY <1>4, <2>2, <3>1
  <2>3. CASE j > k + 1
    <3>1. j \in k + 2 .. n + 1 /\ j - 1 \in 1 .. n /\ ~(j - 1 <= k)
      BY <1>1, <1>4, <2>3
    <3>2. new[j] = buffer[j - 1] /\ ~(buffer[j - 1].ts <= reading.ts)
      BY <1>4, <3>1
    <3>3. CASE i <= k
      <4>1. i \in 1 .. k /\ i \in 1 .. n /\ i < j - 1
        BY <1>1, <1>4, <2>3, <3>3
      <4> QED BY <1>4, <1>6, <3>1, <3>2, <4>1
    <3>4. CASE i = k + 1
      BY <1>1, <1>2, <1>4, <3>1, <3>2, <3>4
    <3>5. CASE i > k + 1
      <4>1. i \in k + 2 .. n + 1 /\ i - 1 \in 1 .. n /\ i - 1 < j - 1
        BY <1>1, <1>4, <1>8, <3>5
      <4> QED BY <1>4, <1>6, <3>1, <3>2, <4>1
    <3> QED BY <1>1, <1>4, <3>3, <3>4, <3>5
  <2> QED BY <1>1, <1>4, <2>1, <2>2, <2>3
<1> QED BY <1>3, <1>7, <1>8 DEF InOrderUpTo, new

LEMMA PruneOrdered ==
  ASSUME NEW rule, NEW st \in RuleState, NEW limit \in Int, InOrderUpTo(st.buffer, limit),
         NEW now
  PROVE  InOrderUpTo(Prune(rule, st, now).buffer, limit)
<1>1. Prune(rule, st, now).buffer \in {st.buffer, DropBefore(st.buffer, now - Span(rule))}
  BY DEF Prune, RuleState
<1>2. st.buffer \in Seq(Reading)
  BY DEF RuleState
<1> QED BY <1>1, <1>2, DropBeforeOrdered

LEMMA InOrderLater ==
  ASSUME NEW buffer \in Seq(Reading), NEW limit \in Int, InOrderUpTo(buffer, limit),
         NEW later \in Int, limit <= later
  PROVE  InOrderUpTo(buffer, later)
BY ReadingTimes DEF InOrderUpTo

LEMMA EmptyOrdered ==
  ASSUME NEW rule, NEW now, NEW limit
  PROVE  /\ InOrderUpTo(EmptyState.buffer, limit)
         /\ InOrderUpTo(FreshState(rule, now).buffer, limit)
BY EmptySeq DEF EmptyState, FreshState, InOrderUpTo

\* What an event in order, and a due instant, do to the buffer of a rule.
LEMMA InOrderBuffer ==
  ASSUME NEW rule, Compiled(rule), NEW st \in RuleState, NEW ev \in Event
  PROVE  LET pruned == Prune(rule, st, ev.ts)
         IN \E mid \in RuleState :
              /\ InOrder(rule, st, ev) \in Sequel(rule, mid, ev.ts)
              /\ mid.buffer \in {pruned.buffer, Append(pruned.buffer, AsReading(ev))}
<1> DEFINE pruned == Prune(rule, st, ev.ts)
<1>1. PICK mid \in RuleState :
        /\ InOrder(rule, st, ev) \in Sequel(rule, mid, ev.ts)
        /\ Episode(mid) = Episode(st)
        /\ mid.buffer = IF Buffers(rule) THEN Append(pruned.buffer, AsReading(ev))
                                         ELSE pruned.buffer
        /\ mid.nextWindowEnd = pruned.nextWindowEnd
        /\ mid.nextSchedule = st.nextSchedule
        /\ mid.closed = st.closed
  BY InOrderCases
<1> HIDE DEF pruned
<1>2. mid.buffer \in {pruned.buffer, Append(pruned.buffer, AsReading(ev))}
  BY <1>1
<1> QED BY <1>1, <1>2 DEF pruned

LEMMA FireTriggerBuffer ==
  ASSUME NEW rule \in Rule, NEW st \in RuleState, NEW now \in Nat, NEW remember
  PROVE  \E mid \in RuleState :
           /\ FireTrigger(rule, st, now, remember) \in Sequel(rule, mid, now)
           /\ mid.buffer = st.buffer
<1>1. PICK mid \in RuleState :
        /\ FireTrigger(rule, st, now, remember) \in Sequel(rule, mid, now)
        /\ Episode(mid) = Episode(st)
        /\ mid.buffer = st.buffer
        /\ mid.lastSeen = st.lastSeen
        /\ mid.nextWindowEnd = IF rule.trigger = "window" /\ st.nextWindowEnd = now
                               THEN now + rule.slide ELSE st.nextWindowEnd
        /\ mid.nextSchedule = IF rule.trigger = "scheduled" /\ st.nextSchedule = now
                              THEN NextCronFire(now, rule.cron) ELSE st.nextSchedule
        /\ mid.closed \subseteq st.closed \cup {now}
        /\ ~remember => mid.closed = st.closed
        /\ (st.absenceFired => mid.absenceFired) /\ st.absent \subseteq mid.absent
  BY FireTriggerCases
<1> QED BY <1>1

(* No step puts a reading of the buffer out of order.                       *)
LEMMA BufferStep ==
  ASSUME EngineInv, BufferInv, [Next]_vars
  PROVE  BufferInv'
<1> SUFFICES ASSUME NEW p \in Partitions, NEW r \in RuleIds, states'[p][r] # NoState
             PROVE  InOrderUpTo(states'[p][r].buffer, Limit')
  BY DEF BufferInv
<1>0. Limit \in Int /\ Limit' \in Int /\ Limit <= Limit'
  BY LimitGrows, MomentIsInt DEF EngineInv
<1>1. ASSUME states[p][r] # NoState
      PROVE  /\ states[p][r] \in RuleState
             /\ InOrderUpTo(states[p][r].buffer, Limit')
  <2>1. states[p][r] \in RuleState
    BY <1>1 DEF EngineInv, StateInv, StatesOK
  <2>2. states[p][r].buffer \in Seq(Reading) /\ InOrderUpTo(states[p][r].buffer, Limit)
    BY <1>1, <2>1 DEF BufferInv, RuleState
  <2> QED BY <1>0, <2>1, <2>2, InOrderLater
<1>2. ASSUME NEW st, From(p, r, st), st # NoState
      PROVE  st \in RuleState /\ InOrderUpTo(st.buffer, Limit')
  BY <1>1, <1>2, EmptyStateType, EmptyOrdered DEF From
<1>3. ASSUME NEW rule \in Rule, NEW now \in Nat, NEW st, From(p, r, st) \/ st = states[p][r]
      PROVE  /\ Ensured(rule, st, now) \in RuleState
             /\ InOrderUpTo(Ensured(rule, st, now).buffer, Limit')
  BY <1>1, <1>2, <1>3, FreshStateType, EmptyOrdered DEF Ensured
<1>4. \A rule \in Definitions(r) : Compiled(rule)
  BY ActingCompiled
<1>5. CASE Rests(p, r)
  BY <1>2, <1>5 DEF Rests, Yields, Silent
<1>6. CASE Hears(p, r)
  <2>1. PICK rule \in Definitions(r), st \in RuleState \cup {NoState}, ev \in Event :
          HearsFrom(p, r, rule, st, ev)
    BY <1>6 DEF Hears
  <2>2. Compiled(rule) /\ rule \in Rule /\ ev.ts \in Nat /\ ev.ts = Limit'
    BY <1>4, <2>1 DEF HearsFrom, Compiled, Event
  <2> DEFINE was == Ensured(rule, st, ev.ts)
             pruned == Prune(rule, was, ev.ts)
  <2>3. was \in RuleState /\ InOrderUpTo(was.buffer, Limit')
    BY <1>3, <2>1, <2>2 DEF HearsFrom
  <2>4. states'[p][r] = InOrder(rule, was, ev).state
    BY <2>1 DEF HearsFrom, Yields
  <2> HIDE DEF was
  <2>5. PICK mid \in RuleState :
          /\ InOrder(rule, was, ev) \in Sequel(rule, mid, ev.ts)
          /\ mid.buffer \in {pruned.buffer, Append(pruned.buffer, AsReading(ev))}
    BY <2>2, <2>3, InOrderBuffer
  <2>6. states'[p][r].buffer = mid.buffer
    BY <2>2, <2>4, <2>5, SequelAlongside DEF Alongside
  <2>7. /\ pruned.buffer \in Seq(Reading) /\ InOrderUpTo(pruned.buffer, Limit')
    BY <1>0, <2>2, <2>3, PruneOrdered, PruneType DEF RuleState
  <2>8. AsReading(ev) \in Reading /\ AsReading(ev).ts = ev.ts
    BY AsReadingType DEF AsReading
  <2> HIDE DEF pruned
  <2> QED BY <2>2, <2>5, <2>6, <2>7, <2>8, AppendOrdered
<1>7. CASE HearsLate(p, r)
  <2>1. PICK rule \in Definitions(r), ev \in Event : HearsLateOf(p, r, rule, ev)
    BY <1>7 DEF HearsLate
  <2>2. /\ rule \in Rule /\ ev.ts \in Nat /\ Limit \in Nat /\ ev.ts <= Limit' /\ Limit' = Limit
    BY <1>4, <2>1 DEF HearsLateOf, Compiled, Event
  <2> DEFINE was == Ensured(rule, states[p][r], Limit)
  <2>3. was \in RuleState /\ InOrderUpTo(was.buffer, Limit')
    BY <1>3, <2>2
  <2>4. states'[p][r] = OnLate(rule, was, ev).state
    BY <2>1 DEF HearsLateOf, Yields
  <2> HIDE DEF was
  <2>5. PICK mid \in RuleState :
          /\ OnLate(rule, was, ev) \in Sequel(rule, mid, ev.ts)
          /\ mid.buffer \in {was.buffer, InsertInOrder(was.buffer, AsReading(ev))}
    BY <2>2, <2>3, OnLateCases
  <2>6. states'[p][r].buffer = mid.buffer
    BY <2>2, <2>4, <2>5, SequelAlongside DEF Alongside
  <2>7. was.buffer \in Seq(Reading)
    BY <2>3 DEF RuleState
  <2>8. AsReading(ev) \in Reading /\ AsReading(ev).ts = ev.ts
    BY AsReadingType DEF AsReading
  <2> QED BY <1>0, <2>2, <2>3, <2>5, <2>6, <2>7, <2>8, InsertOrdered
<1>8. CASE Recomputes(p, r)
  <2>1. PICK rule \in Definitions(r), x \in call.reopen : RecomputesAt(p, r, rule, x)
    BY <1>8 DEF Recomputes
  <2>2. rule \in Rule /\ x.end \in Nat
    BY <1>4, <2>1 DEF RecomputesAt, Compiled, EngineInv, StateInv, Call, Reopened
  <2>3. states[p][r] # NoState /\ states'[p][r] = RecomputeWindow(rule, states[p][r], x.end).state
    BY <2>1 DEF RecomputesAt, Yields
  <2>4. PICK mid \in RuleState :
          /\ Alongside(mid) = Alongside(states[p][r])
          /\ RecomputeWindow(rule, states[p][r], x.end) \in
               {Silent(mid), EmitEpisode(rule, mid, x.end),
                [Emitting(rule, mid, "retracted", x.end) EXCEPT !.state = CloseEpisode(mid)]}
    BY <1>1, <2>2, <2>3, RecomputeWindowCases
  <2>5. Alongside(states'[p][r]) = Alongside(mid)
    <3>1. Alongside(CloseEpisode(mid)) = Alongside(mid)
      BY DEF CloseEpisode, Alongside, RuleState
    <3>2. [Emitting(rule, mid, "retracted", x.end) EXCEPT !.state = CloseEpisode(mid)].state
            = CloseEpisode(mid)
      BY DEF Emitting, Silent
    <3>3. Silent(mid).state = mid
      BY SilentType
    <3>4. Alongside(EmitEpisode(rule, mid, x.end).state) = Alongside(mid)
      BY <2>2, EmitEpisodeAlongside
    <3> QED BY <2>3, <2>4, <3>1, <3>2, <3>3, <3>4
  <2> QED BY <1>1, <2>3, <2>4, <2>5 DEF Alongside
<1>9. CASE Times(p, r)
  <2>1. PICK rule \in Definitions(r), due \in Nat : TimesAt(p, r, rule, due)
    BY <1>9 DEF Times
  <2>2. rule \in Rule /\ states[p][r] \in RuleState
    BY <1>1, <1>4, <2>1 DEF TimesAt, Compiled
  <2> DEFINE reminded == Remind(rule, states[p][r], due).state
  <2>3. reminded \in RuleState /\ Alongside(reminded) = Alongside(states[p][r])
    BY <2>2, RemindType, RemindAlongside
  <2>4. states'[p][r] = FireTrigger(rule, reminded, due, RecomputeLate).state
    BY <2>1 DEF TimesAt, Yields, OnTimer, Then
  <2> HIDE DEF reminded
  <2>5. PICK mid \in RuleState :
          /\ FireTrigger(rule, reminded, due, RecomputeLate) \in Sequel(rule, mid, due)
          /\ mid.buffer = reminded.buffer
    BY <2>2, <2>3, FireTriggerBuffer
  <2>6. states'[p][r].buffer = states[p][r].buffer
    BY <2>2, <2>3, <2>4, <2>5, SequelAlongside DEF Alongside
  <2>7. states[p][r] # NoState
    BY <2>1 DEF TimesAt
  <2> QED BY <1>1, <2>6, <2>7
<1>10. Turn(p, r)
  BY TurnTaken
<1> QED BY <1>5, <1>6, <1>7, <1>8, <1>9, <1>10 DEF Turn

(* Whatever arrives late, the buffer of a rule is in time order: delta      *)
(* reads its first and its last value, and pruning cuts it at one place     *)
(* (_insert_event_in_order, _prune_events).                                 *)
THEOREM BuffersInOrder == Spec => []BufferInOrder
<1>1. Init => BufferInv
  BY DEF Init, BufferInv
<1>2. BufferInv => BufferInOrder
  BY DEF BufferInv, BufferInOrder, Live, InOrderUpTo
<1> QED BY <1>1, <1>2, BufferStep, EngineInvHolds, PTL DEF Spec

-----------------------------------------------------------------------------
\* Windows and schedules that track the clock.

LEMMA MultipleAndRest ==
  ASSUME NEW q \in Nat, NEW d \in Nat \ {0}, NEW c \in 0 .. d - 1
  PROVE  (q * d + c) % d = c
OBVIOUS

(* The first multiple of the slide after an instant (_align_window_end).    *)
LEMMA AlignWindowEndNext ==
  ASSUME NEW ts \in Nat, NEW slide \in Nat \ {0}
  PROVE  LET end == AlignWindowEnd(ts, slide)
         IN end \in Nat /\ end % slide = 0 /\ ts < end /\ end - slide <= ts
BY DEF AlignWindowEnd

LEMMA NextMultiple ==
  ASSUME NEW end \in Nat, NEW slide \in Nat \ {0}, end % slide = 0
  PROVE  (end + slide) % slide = 0
<1>1. end = (end \div slide) * slide /\ end \div slide \in Nat
  OBVIOUS
<1>2. end + slide = (end \div slide + 1) * slide + 0
  BY <1>1
<1>3. 0 \in 0 .. slide - 1 /\ end \div slide + 1 \in Nat
  BY <1>1
<1> QED BY ZenonT(40), <1>2, <1>3, MultipleAndRest

(* The first cron time after an instant (_next_cron_fire).                  *)
LEMMA NextCronFireNext ==
  ASSUME NEW after \in Nat, NEW cron \in 0 .. Day - 1
  PROVE  LET next == NextCronFire(after, cron)
         IN next \in Nat /\ next % Day = cron /\ after < next /\ next - Day <= after
<1> DEFINE q == after \div Day
           today == q * Day + cron
           next == NextCronFire(after, cron)
<1>1. q \in Nat /\ q * Day <= after /\ after < q * Day + Day /\ q * Day \in Nat
  BY DayAssumption
<1>2. Day \in Nat \ {0} /\ today \in Nat
  BY <1>1, DayAssumption
<1>3. today % Day = cron
  BY <1>1, <1>2, MultipleAndRest
<1>4. (today + Day) % Day = cron
  <2>1. today + Day = (q + 1) * Day + cron
    BY <1>1, <1>2
  <2>2. q + 1 \in Nat
    BY <1>1
  <2> HIDE DEF q, today
  <2> QED BY <1>2, <2>1, <2>2, MultipleAndRest
<1>5. next = IF today > after THEN today ELSE today + Day
  BY DEF NextCronFire
<1> HIDE DEF q, today, next
<1>6. q * Day <= today /\ today < q * Day + Day
  BY <1>1, <1>2 DEF today
<1> QED BY <1>1, <1>2, <1>3, <1>4, <1>5, <1>6 DEF next

(* When a call has returned, either it ran the timers up to the clock, or   *)
(* it left the clock alone, or there was nothing before it.                 *)
LEMMA ClockSettles ==
  ASSUME EngineInv, [Next]_vars, call'.stage # "timers"
  PROVE  \/ call.stage = "timers" /\ TimersRun(watermark')
         \/ call.stage # "timers" /\ watermark' = watermark
         \/ \A p \in Partitions, r \in RuleIds : states[p][r] = NoState
<1>1. CASE UNCHANGED vars
  BY <1>1 DEF vars
<1>2. ASSUME NEW ev \in Offered, ProcessEvent(ev)
      PROVE  \/ call.stage # "timers" /\ watermark' = watermark
             \/ \A p \in Partitions, r \in RuleIds : states[p][r] = NoState
  BY <1>2 DEF ProcessEvent, RefuseLate, FoldLate, FirstEvent, AcceptEvent, Serve, EngineInv,
     BeforeTime
<1>3. ASSUME NEW t \in 0 .. MaxTime, FirstAdvance(t) \/ AdvanceTo(t)
      PROVE  \A p \in Partitions, r \in RuleIds : states[p][r] = NoState
  <2>1. CASE FirstAdvance(t)
    BY <2>1 DEF FirstAdvance, Serve, EngineInv, BeforeTime
  <2>2. CASE AdvanceTo(t)
    BY <2>2 DEF AdvanceTo, Idle
  <2> QED BY <1>3, <2>1, <2>2
<1>4. ASSUME NEW new \in Reloads, NEW policy \in ReloadPolicies, Reload(new, policy)
      PROVE  call.stage # "timers" /\ watermark' = watermark
  BY <1>4 DEF Reload, ReloadNow, StageReload, Serve
<1>5. CASE FireDue
  BY <1>5 DEF FireDue
<1>6. CASE Settle
  BY <1>6 DEF Settle
<1>7. ASSUME NEW x \in call.reopen, Recompute(x)
      PROVE  call.stage # "timers" /\ watermark' = watermark
  BY <1>7 DEF Recompute
<1> QED BY <1>1, <1>2, <1>3, <1>4, <1>5, <1>6, <1>7 DEF Next, Progress

LEMMA StraightGoverns ==
  ASSUME EngineInv, Straight, NEW p, NEW r \in RuleIds
  PROVE  RuleFor(rules, draining, p, r) = rules[r]
BY NoDrainType DEF EngineInv, DefinitionsInv, RuleFor

(* Without drains, what a rule waited for is still ahead when a call has    *)
(* returned.                                                                *)
LEMMA DueAhead ==
  ASSUME EngineInv, Straight, [Next]_vars, call'.stage # "timers",
         NEW p \in Partitions, NEW r \in RuleIds, states[p][r] # NoState,
         NEW due \in DueTimes(rules[r], states[p][r]),
         call.stage # "timers" => due > watermark
  PROVE  due > watermark'
<1>1. CASE call.stage = "timers" /\ TimersRun(watermark')
  <2>1. <<p, r>> \in Live /\ Governing(<<p, r>>) = rules[r]
    BY StraightGoverns DEF Live, Governing
  <2>2. due \in AllDueTimes
    BY <2>1 DEF AllDueTimes
  <2> QED BY <1>1, <2>2 DEF TimersRun
<1> QED BY <1>1, ClockSettles

LEMMA CompatibleAgree ==
  ASSUME NEW old, NEW new, Compatible(old, new)
  PROVE  /\ old.trigger = new.trigger /\ SensorsOf(old) = SensorsOf(new)
         /\ old.slide = new.slide /\ old.timeout = new.timeout
         /\ old.timeouts = new.timeouts /\ old.cron = new.cron
         /\ old.partition = new.partition
BY DEF Compatible, Fingerprint

\* What the next window end of a rule, and its next cron time, are bound to.
WindowBound(rule, next, limit) ==
  next \in Nat /\ next % rule.slide = 0 /\ next - rule.slide <= limit

ScheduleBound(rule, next, limit) ==
  next \in Nat /\ next % Day = rule.cron /\ next - Day <= limit

WindowInv ==
  \A p \in Partitions, r \in RuleIds :
    LET next == states[p][r].nextWindowEnd
    IN (states[p][r] # NoState /\ rules[r].trigger = "window" /\ next # Unset) =>
         /\ WindowBound(rules[r], next, Limit)
         /\ call.stage # "timers" => next > watermark

(* A state that outlives a step of the engine without drains is one of a    *)
(* rule of the same structure, or a fresh one.                              *)
LEMMA FromStraight ==
  ASSUME EngineInv, Straight, NEW p \in Partitions, NEW r \in RuleIds,
         NEW st, From(p, r, st), st # NoState
  PROVE  /\ st \in RuleState
         /\ \/ st = states[p][r] /\ Compatible(rules[r], rules'[r])
            \/ /\ st = EmptyState /\ rules' \in Reloads
               /\ rules'[r] # NoRule /\ rules'[r].partition = "entity_id"
BY FromType, EngineAssumption DEF From, EngineInv

(* Without drains the definition that acts is the one in force after it.    *)
LEMMA ActsStraight ==
  ASSUME Straight, NEW r, NEW rule, Acting(rule, r)
  PROVE  rule = rules'[r]
BY DEF Acting

LEMMA WindowStep ==
  ASSUME EngineInv, Straight, WindowInv, [Next]_vars
  PROVE  WindowInv'
<1> SUFFICES ASSUME NEW p \in Partitions, NEW r \in RuleIds,
                    states'[p][r] # NoState, rules'[r].trigger = "window",
                    states'[p][r].nextWindowEnd # Unset
             PROVE  /\ WindowBound(rules'[r], states'[p][r].nextWindowEnd, Limit')
                    /\ call'.stage # "timers" => states'[p][r].nextWindowEnd > watermark'
  BY DEF WindowInv
<1> DEFINE Fine(next) == /\ WindowBound(rules'[r], next, Limit')
                         /\ call'.stage # "timers" => next > watermark'
<1>0. Limit \in Int /\ Limit' \in Int /\ Limit <= Limit'
  BY LimitGrows, MomentIsInt DEF EngineInv
<1>1. ASSUME states[p][r] # NoState, Compatible(rules[r], rules'[r]),
             states[p][r].nextWindowEnd # Unset
      PROVE  Fine(states[p][r].nextWindowEnd)
  <2> DEFINE next == states[p][r].nextWindowEnd
  <2>1. rules[r].trigger = "window" /\ rules[r].slide = rules'[r].slide
    BY <1>1, CompatibleAgree
  <2>2. WindowBound(rules[r], next, Limit) /\ (call.stage # "timers" => next > watermark)
    BY <1>1, <2>1 DEF WindowInv
  <2>3. rules[r].slide \in Nat
    <3>1. rules[r] # NoRule
      BY <1>1 DEF EngineInv, StateInv, StatesOK
    <3> QED BY <3>1 DEF EngineInv, StateInv, RulesOK, Compiled, Rule
  <2>4. next \in DueTimes(rules[r], states[p][r])
    BY <1>1, <2>1 DEF DueTimes, TriggerDueTimes
  <2>5. call'.stage # "timers" => next > watermark'
    BY <1>1, <2>2, <2>4, DueAhead
  <2> QED BY <1>0, <2>1, <2>2, <2>3, <2>5 DEF WindowBound
<1>2. \A rule \in Definitions(r) : Compiled(rule)
  BY ActingCompiled
<1>3. call'.stage # "timers" => watermark' = Limit'
  BY DEF Limit
<1>4. call.stage # "timers" => watermark = Limit
  BY DEF Limit
<1>5. ASSUME NEW st, From(p, r, st), st # NoState, st.nextWindowEnd # Unset
      PROVE  Fine(st.nextWindowEnd)
  BY <1>1, <1>5, FromStraight DEF EmptyState
<1> HIDE DEF Fine
<1> SUFFICES Fine(states'[p][r].nextWindowEnd)
  BY DEF Fine
<1>6. CASE Rests(p, r)
  BY <1>5, <1>6 DEF Rests, Yields, Silent
<1>7. CASE Hears(p, r)
  <2>1. PICK rule \in Definitions(r), st \in RuleState \cup {NoState}, ev \in Event :
          HearsFrom(p, r, rule, st, ev)
    BY <1>7 DEF Hears
  <2>2. /\ Compiled(rule) /\ rule \in Rule /\ ev.ts \in Nat /\ ev.ts = Limit'
        /\ rule = rules'[r]
    BY <1>2, <2>1, ActsStraight DEF HearsFrom, Compiled, Event
  <2>3. rule.slide \in Nat \ {0} /\ Span(rule) # 0
    BY SMTT(30), <2>2 DEF Compiled, WellFormed, Rule, Span, MaxOf
  <2> DEFINE was == Ensured(rule, st, ev.ts)
  <2>4. was \in RuleState
    BY <2>2, EnsuredType
  <2>5. states'[p][r] = InOrder(rule, was, ev).state
    BY <2>1 DEF HearsFrom, Yields
  <2>6. was.nextWindowEnd # Unset => Fine(was.nextWindowEnd)
    BY <1>5, <2>1 DEF Ensured, FreshState, EmptyState, HearsFrom
  <2> HIDE DEF was
  <2>7. PICK mid \in RuleState :
          /\ InOrder(rule, was, ev) \in Sequel(rule, mid, ev.ts)
          /\ mid.nextWindowEnd = Prune(rule, was, ev.ts).nextWindowEnd
    BY <2>2, <2>4, InOrderCases
  <2>8. states'[p][r].nextWindowEnd = mid.nextWindowEnd
    BY <2>2, <2>5, <2>7, SequelAlongside DEF Alongside
  <2>9. mid.nextWindowEnd = IF was.nextWindowEnd = Unset
                            THEN AlignWindowEnd(ev.ts, rule.slide) ELSE was.nextWindowEnd
    BY <2>2, <2>3, <2>4, <2>7 DEF Prune, RuleState
  <2>10. Fine(AlignWindowEnd(ev.ts, rule.slide))
    BY <1>3, <2>2, <2>3, AlignWindowEndNext DEF Fine, WindowBound
  <2> QED BY <2>6, <2>8, <2>9, <2>10
<1>8. CASE HearsLate(p, r)
  <2>1. PICK rule \in Definitions(r), ev \in Event : HearsLateOf(p, r, rule, ev)
    BY <1>8 DEF HearsLate
  <2>2. rule \in Rule /\ ev.ts \in Nat /\ Limit \in Nat /\ rule = rules'[r] /\ rule = rules[r]
    BY <1>2, <2>1, ActsStraight DEF HearsLateOf, Compiled, Event
  <2> DEFINE was == Ensured(rule, states[p][r], Limit)
  <2>3. was \in RuleState
    BY <2>2, EnsuredType DEF EngineInv, StateInv, StatesOK
  <2>4. states'[p][r] = OnLate(rule, was, ev).state
    BY <2>1 DEF HearsLateOf, Yields
  <2>5. was.nextWindowEnd # Unset => Fine(was.nextWindowEnd)
    BY <1>1, <2>2 DEF Ensured, FreshState, EmptyState, Compatible
  <2> HIDE DEF was
  <2>6. PICK mid \in RuleState :
          /\ OnLate(rule, was, ev) \in Sequel(rule, mid, ev.ts)
          /\ mid.nextWindowEnd = was.nextWindowEnd
    BY <2>2, <2>3, OnLateCases
  <2>7. states'[p][r].nextWindowEnd = was.nextWindowEnd
    BY <2>2, <2>4, <2>6, SequelAlongside DEF Alongside
  <2> QED BY <2>5, <2>7
<1>9. CASE Recomputes(p, r)
  <2>1. PICK rule \in Definitions(r), x \in call.reopen : RecomputesAt(p, r, rule, x)
    BY <1>9 DEF Recomputes
  <2>2. /\ rule = rules[r] /\ rule = rules'[r] /\ states[p][r] # NoState
        /\ states'[p][r] = RecomputeWindow(rule, states[p][r], x.end).state
    BY <2>1, ActsStraight DEF RecomputesAt, Yields
  <2>3. /\ rule \in Rule /\ x.end \in Nat /\ states[p][r] \in RuleState
    BY <1>2, <2>2 DEF Compiled, EngineInv, StateInv, StatesOK, Call, Reopened
  <2>4. states'[p][r].nextWindowEnd = states[p][r].nextWindowEnd
    BY <2>2, <2>3, RecomputeAlongside DEF Alongside
  <2> QED BY <1>1, <2>2, <2>4 DEF Compatible
<1>10. CASE Times(p, r)
  <2>1. PICK rule \in Definitions(r), due \in Nat : TimesAt(p, r, rule, due)
    BY <1>10 DEF Times
  <2>2. /\ rule \in Rule /\ Compiled(rule) /\ rule = rules'[r] /\ rule = rules[r]
        /\ states[p][r] # NoState /\ states[p][r] \in RuleState
    BY <1>2, <2>1, ActsStraight, StraightGoverns
       DEF TimesAt, Compiled, EngineInv, StateInv, StatesOK
  <2>3. rule.slide \in Nat \ {0}
    BY <2>2 DEF Compiled, WellFormed, Rule
  <2>4. states'[p][r] = OnTimer(rule, states[p][r], due, RecomputeLate).state
    BY <2>1 DEF TimesAt, Yields
  <2>5. states'[p][r].nextWindowEnd =
          IF states[p][r].nextWindowEnd = due THEN due + rule.slide
          ELSE states[p][r].nextWindowEnd
    BY <2>2, <2>4, OnTimerTimers
  <2>6. CASE states[p][r].nextWindowEnd = due
    <3>1. WindowBound(rule, due, Limit) /\ due # Unset
      BY <2>2, <2>6 DEF WindowInv, Unset
    <3>2. (due + rule.slide) % rule.slide = 0
      BY <2>3, <3>1, NextMultiple DEF WindowBound
    <3>3. WindowBound(rule, due + rule.slide, Limit')
      BY <1>0, <2>1, <2>3, <3>2 DEF WindowBound, TimesAt
    <3>4. call'.stage = "timers"
      BY <2>1 DEF TimesAt
    <3> QED BY <2>2, <2>5, <2>6, <3>3, <3>4 DEF Fine
  <2>7. CASE states[p][r].nextWindowEnd # due
    BY <1>1, <2>2, <2>5, <2>7 DEF Compatible
  <2> QED BY <2>6, <2>7
<1>11. Turn(p, r)
  BY TurnTaken
<1> QED BY <1>6, <1>7, <1>8, <1>9, <1>10, <1>11 DEF Turn

(* As long as no reload drains, a window rule waits for the first multiple  *)
(* of its slide after the clock, whatever events and reloads came between   *)
(* (_align_window_end, _fire_due_timers).                                   *)
THEOREM WindowTimersTrackClock ==
  ASSUME Straight
  PROVE  Spec => []WindowTimerTracksClock
<1>1. Init => WindowInv
  BY DEF Init, WindowInv
<1>2. ASSUME EngineInv, WindowInv PROVE WindowTimerTracksClock
  <2> SUFFICES ASSUME IsIdle, NEW p \in Partitions, NEW r \in RuleIds,
                      states[p][r] # NoState, rules[r].trigger = "window",
                      states[p][r].nextWindowEnd # Unset
               PROVE  LET next == states[p][r].nextWindowEnd
                      IN /\ next % rules[r].slide = 0
                         /\ next - rules[r].slide <= watermark /\ watermark < next
    BY <1>2, StraightGoverns DEF WindowTimerTracksClock, LiveOf, Live, Governing
  <2>1. Limit = watermark /\ call.stage # "timers"
    BY DEF IsIdle, Limit
  <2>2. watermark \in Moment
    BY <1>2 DEF EngineInv, StateInv
  <2> QED BY <1>2, <2>1, <2>2, MomentIsInt DEF WindowInv, WindowBound
<1>3. EngineInv /\ WindowInv /\ [Next]_vars => WindowInv'
  BY WindowStep
<1> QED BY <1>1, <1>2, <1>3, EngineInvHolds, PTL DEF Spec

\* A cron time is an instant of the day.
CronTimes ==
  \A r \in RuleIds : \A rule \in Definitions(r) :
    rule.trigger = "scheduled" => rule.cron < Day

\* No reload brings a scheduled rule that is given a state before its first event.
ScheduledByEvents ==
  \A rs \in Reloads, r \in RuleIds :
    rs[r] # NoRule /\ rs[r].trigger = "scheduled" => rs[r].partition # "entity_id"

ScheduleInv ==
  \A p \in Partitions, r \in RuleIds :
    LET next == states[p][r].nextSchedule
    IN (states[p][r] # NoState /\ rules[r].trigger = "scheduled") =>
         /\ next # Unset /\ ScheduleBound(rules[r], next, Limit)
         /\ call.stage # "timers" => next > watermark

LEMMA ScheduleStep ==
  ASSUME EngineInv, Straight, CronTimes, ScheduledByEvents, ScheduleInv, [Next]_vars
  PROVE  ScheduleInv'
<1> SUFFICES ASSUME NEW p \in Partitions, NEW r \in RuleIds,
                    states'[p][r] # NoState, rules'[r].trigger = "scheduled"
             PROVE  LET next == states'[p][r].nextSchedule
                    IN /\ next # Unset /\ ScheduleBound(rules'[r], next, Limit')
                       /\ call'.stage # "timers" => next > watermark'
  BY DEF ScheduleInv
<1> DEFINE Fine(next) == /\ next # Unset /\ ScheduleBound(rules'[r], next, Limit')
                         /\ call'.stage # "timers" => next > watermark'
<1>0. Limit \in Int /\ Limit' \in Int /\ Limit <= Limit'
  BY LimitGrows, MomentIsInt DEF EngineInv
<1>1. ASSUME states[p][r] # NoState, Compatible(rules[r], rules'[r])
      PROVE  Fine(states[p][r].nextSchedule)
  <2> DEFINE next == states[p][r].nextSchedule
  <2>1. rules[r].trigger = "scheduled" /\ rules[r].cron = rules'[r].cron
    BY <1>1, CompatibleAgree
  <2>2. /\ next # Unset /\ ScheduleBound(rules[r], next, Limit)
        /\ call.stage # "timers" => next > watermark
    BY <1>1, <2>1 DEF ScheduleInv
  <2>3. next \in DueTimes(rules[r], states[p][r])
    BY <2>1, <2>2 DEF DueTimes, TriggerDueTimes
  <2>4. call'.stage # "timers" => next > watermark'
    BY <1>1, <2>2, <2>3, DueAhead
  <2>5. next - Day <= Limit'
    BY <1>0, <2>2, DayAssumption DEF ScheduleBound
  <2> QED BY <2>1, <2>2, <2>4, <2>5 DEF ScheduleBound
<1>2. ASSUME NEW now \in Nat, NEW rule \in Definitions(r), rule = rules'[r],
             now = Limit' \/ (now <= Limit' /\ call'.stage = "timers")
      PROVE  Fine(NextCronFire(now, rule.cron))
  <2>1. rule.cron \in 0 .. Day - 1
    BY SMTT(30), <1>2, ActingCompiled, DayAssumption DEF CronTimes, Compiled, Rule
  <2> DEFINE next == NextCronFire(now, rule.cron)
  <2>2. next \in Nat /\ next % Day = rule.cron /\ now < next /\ next - Day <= now
    BY <2>1, NextCronFireNext
  <2>3. call'.stage # "timers" => watermark' = now
    BY <1>2 DEF Limit
  <2> HIDE DEF next
  <2>4. next - Day <= Limit'
    BY <1>0, <1>2, <2>2, DayAssumption
  <2> QED BY <1>2, <2>2, <2>3, <2>4 DEF ScheduleBound, Unset, next
<1>3. \A rule \in Definitions(r) : Compiled(rule)
  BY ActingCompiled
<1>4. ASSUME NEW st, From(p, r, st), st # NoState
      PROVE  Fine(st.nextSchedule)
  <2>1. st = states[p][r] /\ Compatible(rules[r], rules'[r])
    BY <1>4, FromStraight DEF ScheduledByEvents
  <2> QED BY <1>1, <1>4, <2>1
<1> HIDE DEF Fine
<1> SUFFICES Fine(states'[p][r].nextSchedule)
  BY DEF Fine
<1>5. ASSUME NEW rule \in Definitions(r), rule = rules'[r], NEW now \in Nat, now = Limit'
      PROVE  Fine(FreshState(rule, now).nextSchedule)
  <2>1. FreshState(rule, now).nextSchedule = NextCronFire(now, rule.cron)
    BY <1>5 DEF FreshState, EmptyState
  <2> QED BY <1>2, <1>5, <2>1
<1>6. CASE Rests(p, r)
  BY <1>4, <1>6 DEF Rests, Yields, Silent
<1>7. CASE Hears(p, r)
  <2>1. PICK rule \in Definitions(r), st \in RuleState \cup {NoState}, ev \in Event :
          HearsFrom(p, r, rule, st, ev)
    BY <1>7 DEF Hears
  <2>2. /\ Compiled(rule) /\ rule \in Rule /\ ev.ts \in Nat /\ ev.ts = Limit'
        /\ rule = rules'[r]
    BY <1>3, <2>1, ActsStraight DEF HearsFrom, Compiled, Event
  <2> DEFINE was == Ensured(rule, st, ev.ts)
  <2>3. was \in RuleState
    BY <2>2, EnsuredType
  <2>4. states'[p][r] = InOrder(rule, was, ev).state
    BY <2>1 DEF HearsFrom, Yields
  <2>5. Fine(was.nextSchedule)
    BY <1>4, <1>5, <2>1, <2>2 DEF Ensured, HearsFrom
  <2> HIDE DEF was
  <2>6. PICK mid \in RuleState :
          /\ InOrder(rule, was, ev) \in Sequel(rule, mid, ev.ts)
          /\ mid.nextSchedule = was.nextSchedule
    BY <2>2, <2>3, InOrderCases
  <2>7. states'[p][r].nextSchedule = mid.nextSchedule
    BY <2>2, <2>4, <2>6, SequelAlongside DEF Alongside
  <2> QED BY <2>5, <2>6, <2>7
<1>8. CASE HearsLate(p, r)
  <2>1. PICK rule \in Definitions(r), ev \in Event : HearsLateOf(p, r, rule, ev)
    BY <1>8 DEF HearsLate
  <2>2. /\ rule \in Rule /\ ev.ts \in Nat /\ Limit \in Nat /\ Limit' = Limit
        /\ rule = rules'[r] /\ rule = rules[r]
    BY <1>3, <2>1, ActsStraight DEF HearsLateOf, Compiled, Event
  <2> DEFINE was == Ensured(rule, states[p][r], Limit)
  <2>3. was \in RuleState
    BY <2>2, EnsuredType DEF EngineInv, StateInv, StatesOK
  <2>4. states'[p][r] = OnLate(rule, was, ev).state
    BY <2>1 DEF HearsLateOf, Yields
  <2>5. Fine(was.nextSchedule)
    BY <1>1, <1>5, <2>2 DEF Ensured, Compatible
  <2> HIDE DEF was
  <2>6. PICK mid \in RuleState :
          /\ OnLate(rule, was, ev) \in Sequel(rule, mid, ev.ts)
          /\ mid.nextSchedule = was.nextSchedule
    BY <2>2, <2>3, OnLateCases
  <2>7. states'[p][r].nextSchedule = was.nextSchedule
    BY <2>2, <2>4, <2>6, SequelAlongside DEF Alongside
  <2> QED BY <2>5, <2>7
<1>9. CASE Recomputes(p, r)
  <2>1. PICK rule \in Definitions(r), x \in call.reopen : RecomputesAt(p, r, rule, x)
    BY <1>9 DEF Recomputes
  <2>2. /\ rule = rules[r] /\ rule = rules'[r] /\ states[p][r] # NoState
        /\ states'[p][r] = RecomputeWindow(rule, states[p][r], x.end).state
    BY <2>1, ActsStraight DEF RecomputesAt, Yields
  <2>3. /\ rule \in Rule /\ x.end \in Nat /\ states[p][r] \in RuleState
    BY <1>3, <2>2 DEF Compiled, EngineInv, StateInv, StatesOK, Call, Reopened
  <2>4. states'[p][r].nextSchedule = states[p][r].nextSchedule
    BY <2>2, <2>3, RecomputeAlongside DEF Alongside
  <2> QED BY <1>1, <2>2, <2>4 DEF Compatible
<1>10. CASE Times(p, r)
  <2>1. PICK rule \in Definitions(r), due \in Nat : TimesAt(p, r, rule, due)
    BY <1>10 DEF Times
  <2>2. /\ rule \in Rule /\ Compiled(rule) /\ rule = rules'[r] /\ rule = rules[r]
        /\ states[p][r] # NoState /\ states[p][r] \in RuleState
    BY <1>3, <2>1, ActsStraight, StraightGoverns
       DEF TimesAt, Compiled, EngineInv, StateInv, StatesOK
  <2>3. states'[p][r] = OnTimer(rule, states[p][r], due, RecomputeLate).state
    BY <2>1 DEF TimesAt, Yields
  <2>4. states'[p][r].nextSchedule =
          IF states[p][r].nextSchedule = due THEN NextCronFire(due, rule.cron)
          ELSE states[p][r].nextSchedule
    BY <2>2, <2>3, OnTimerTimers
  <2>5. due <= Limit' /\ call'.stage = "timers"
    BY <2>1 DEF TimesAt
  <2>6. Fine(NextCronFire(due, rule.cron))
    BY <1>2, <2>2, <2>5
  <2>7. Fine(states[p][r].nextSchedule)
    BY <1>1, <2>2 DEF Compatible
  <2> QED BY <2>4, <2>6, <2>7
<1>11. Turn(p, r)
  BY TurnTaken
<1> QED BY <1>6, <1>7, <1>8, <1>9, <1>10, <1>11 DEF Turn

(* As long as no reload drains, and none brings a scheduled rule that is    *)
(* given a state before its first event, a scheduled rule waits for the     *)
(* first cron time after the clock (_next_cron_fire, _reconcile_state).     *)
THEOREM SchedulesTrackClock ==
  ASSUME Straight, CronTimes, ScheduledByEvents
  PROVE  Spec => []ScheduleTracksClock
<1>1. Init => ScheduleInv
  BY DEF Init, ScheduleInv
<1>2. ASSUME EngineInv, ScheduleInv PROVE ScheduleTracksClock
  <2> SUFFICES ASSUME IsIdle, NEW p \in Partitions, NEW r \in RuleIds,
                      states[p][r] # NoState, rules[r].trigger = "scheduled"
               PROVE  LET next == states[p][r].nextSchedule
                      IN /\ next % Day = rules[r].cron
                         /\ next - Day <= watermark /\ watermark < next
    BY <1>2, StraightGoverns DEF ScheduleTracksClock, LiveOf, Live, Governing
  <2>1. Limit = watermark /\ call.stage # "timers"
    BY DEF IsIdle, Limit
  <2>2. watermark \in Moment
    BY <1>2 DEF EngineInv, StateInv
  <2> QED BY <1>2, <2>1, <2>2, MomentIsInt DEF ScheduleInv, ScheduleBound
<1>3. EngineInv /\ ScheduleInv /\ [Next]_vars => ScheduleInv'
  BY ScheduleStep
<1> QED BY <1>1, <1>2, <1>3, EngineInvHolds, PTL DEF Spec

-----------------------------------------------------------------------------
\* Timers that are never overdue.

OneSourceEach == \A r \in RuleIds : \A rule \in Definitions(r) : OneSource(rule)

\* An event behind the clock reaches only rules that draw no deadline from it.
LateHarmless ==
  \A ev \in Offered : FoldLate(ev) =>
    \A r \in RuleIds : FoldedIn(ev, r) # {} => Unhurried(rules[r], RecomputeLate)

\* While timers run those of the present instant may still have to fire.
NotOver(t) == IF call.stage = "timers" THEN t >= watermark ELSE t > watermark

TimerInv ==
  /\ \A p \in Partitions, r \in RuleIds : states[p][r] # NoState =>
       /\ Armed(states[p][r])
       /\ \A t \in DueTimes(rules[r], states[p][r]) : NotOver(t)
  /\ call.stage = "timers" => watermark \in Nat /\ watermark <= call.target
  /\ \A x \in call.reopen :
       rules[x.r].trigger = "window" /\ rules[x.r].repeatEvery = 0

LEMMA DuesAreTimes ==
  ASSUME EngineInv, Straight, NEW p \in Partitions, NEW r \in RuleIds,
         states[p][r] # NoState, NEW due \in DueTimes(rules[r], states[p][r])
  PROVE  due \in Nat
<1>1. states[p][r] \in RuleState /\ Compiled(rules[r])
  BY DEF EngineInv, StateInv, StatesOK, RulesOK
<1> QED BY <1>1, DueTimesType

(* What a rule waited for before a step is not over after it.               *)
LEMMA StillAhead ==
  ASSUME EngineInv, Straight, TimerInv, [Next]_vars,
         NEW p \in Partitions, NEW r \in RuleIds, states[p][r] # NoState,
         NEW due \in DueTimes(rules[r], states[p][r])
  PROVE  NotOver(due)'
<1>1. NotOver(due)
  BY DEF TimerInv
<1>2. due \in Nat /\ watermark \in Moment
  BY DuesAreTimes DEF EngineInv, StateInv
<1>3. CASE call'.stage # "timers"
  BY <1>1, <1>3, DueAhead DEF NotOver
<1>4. CASE call'.stage = "timers"
  <2>1. CASE FireDue
    <3>1. <<p, r>> \in Live /\ Governing(<<p, r>>) = rules[r]
      BY StraightGoverns DEF Live, Governing
    <3>2. due \in AllDueTimes
      BY <3>1 DEF AllDueTimes
    <3>3. PICK other \in AllDueTimes : watermark' = other /\ other <= due
      BY <2>1, <3>2 DEF FireDue
    <3>4. other \in Nat
      BY <3>3, FireDueType, <2>1 DEF EngineInv, AllDueTimes
    <3> QED BY <1>2, <1>4, <3>3, <3>4 DEF NotOver
  <2>2. CASE watermark' = watermark
    BY <1>1, <1>2, <1>4, <2>2, MomentIsInt DEF NotOver
  <2>3. FireDue \/ watermark' = watermark
    <3>1. CASE UNCHANGED vars
      BY <3>1 DEF vars
    <3>2. ASSUME NEW ev \in Offered, ProcessEvent(ev) PROVE watermark' = watermark
      BY <1>4, <3>2 DEF ProcessEvent, RefuseLate, FoldLate, FirstEvent, AcceptEvent, Serve
    <3>3. ASSUME NEW t \in 0 .. MaxTime, FirstAdvance(t) \/ AdvanceTo(t)
          PROVE  watermark' = watermark
      BY <1>4, <3>3 DEF FirstAdvance, AdvanceTo, Serve
    <3>4. ASSUME NEW new \in Reloads, NEW policy \in ReloadPolicies, Reload(new, policy)
          PROVE  watermark' = watermark
      BY <3>4 DEF Reload, ReloadNow, StageReload
    <3>5. CASE Settle
      BY <1>4, <3>5 DEF Settle, Idle
    <3>6. ASSUME NEW x \in call.reopen, Recompute(x) PROVE watermark' = watermark
      BY <3>6 DEF Recompute
    <3> QED BY <3>1, <3>2, <3>3, <3>4, <3>5, <3>6 DEF Next, Progress
  <2> QED BY <2>1, <2>2, <2>3
<1> QED BY <1>3, <1>4

LEMMA CompatibleDues ==
  ASSUME NEW old, Compiled(old), OneSource(old), NEW new, Compiled(new), OneSource(new),
         Compatible(old, new), NEW st
  PROVE  DueTimes(new, st) = DueTimes(old, st)
<1>1. old.trigger = "absence" => old.sensors[1] = new.sensors[1]
  <2> SUFFICES ASSUME old.trigger = "absence" PROVE old.sensors[1] = new.sensors[1]
    OBVIOUS
  <2>1. /\ new.trigger = "absence" /\ SensorsOf(old) = SensorsOf(new)
        /\ SensorsOf(old) \subseteq {old.sensors[1]}
    BY CompatibleAgree DEF OneSource
  <2>2. 1 \in DOMAIN new.sensors
    <3>1. new.sensors \in Seq(Sensors) /\ new.sensors # << >>
      BY DEF Compiled, WellFormed, Rule
    <3>2. Len(new.sensors) \in Nat \ {0}
      BY <3>1, EmptySeq
    <3> QED BY <3>1, <3>2, LenProperties
  <2> QED BY <2>1, <2>2 DEF SensorsOf
<1> QED BY <1>1, CompatibleAgree DEF DueTimes, TriggerDueTimes

LEMMA EmptyDues ==
  ASSUME NEW rule, Compiled(rule)
  PROVE  DueTimes(rule, EmptyState) = {} /\ Armed(EmptyState)
<1>1. rule.sensors \in Seq(Sensors) /\ rule.sensors # << >>
  BY DEF Compiled, WellFormed, Rule
<1>2. Len(rule.sensors) \in Nat \ {0}
  BY <1>1, EmptySeq
<1>3. /\ \A s \in SensorsOf(rule) : s \in Sensors
      /\ rule.sensors[1] \in Sensors
  BY <1>1, <1>2, LenProperties DEF SensorsOf
<1> QED BY <1>3 DEF EmptyState, DueTimes, TriggerDueTimes, ReminderDueTimes, EpisodeOpen, Armed

LEMMA FreshDues ==
  ASSUME NEW rule, Compiled(rule), NEW now \in Nat
  PROVE  /\ Armed(FreshState(rule, now))
         /\ \A t \in DueTimes(rule, FreshState(rule, now)) : t > now
<1>1. CASE rule.trigger = "scheduled"
  <2>1. /\ FreshState(rule, now).episodeStarted = Unset
        /\ FreshState(rule, now).nextRepeat = Unset
        /\ FreshState(rule, now).nextSchedule = NextCronFire(now, rule.cron)
    BY <1>1 DEF FreshState, EmptyState
  <2>2. NextCronFire(now, rule.cron) > now
    BY SMTT(30), DayAssumption DEF NextCronFire, Compiled, Rule
  <2> QED BY <1>1, <2>1, <2>2 DEF DueTimes, TriggerDueTimes, ReminderDueTimes, EpisodeOpen, Armed
<1>2. CASE rule.trigger # "scheduled"
  BY <1>2, EmptyDues DEF FreshState
<1> QED BY <1>1, <1>2

\* Where the clock stands after a step, and what is still to be evaluated again.
LEMMA TimerStage ==
  ASSUME EngineInv, Straight, TimerInv, [Next]_vars, [LateHarmless]_vars
  PROVE  /\ call'.stage = "timers" => watermark' \in Nat /\ watermark' <= call'.target
         /\ \A x \in call'.reopen :
              rules'[x.r].trigger = "window" /\ rules'[x.r].repeatEvery = 0
<1>1. CASE UNCHANGED vars
  BY <1>1 DEF vars, TimerInv
<1>2. ASSUME NEW ev \in Offered, ProcessEvent(ev)
      PROVE  /\ call'.stage = "timers" => watermark' \in Nat /\ watermark' <= call'.target
             /\ \A x \in call'.reopen :
                  rules'[x.r].trigger = "window" /\ rules'[x.r].repeatEvery = 0
  <2>0. call.reopen = {} /\ watermark \in Moment /\ call.stage # "timers"
    BY <1>2 DEF EngineInv, StateInv, ProcessEvent, RefuseLate, FoldLate, FirstEvent,
       AcceptEvent, Serve
  <2>1. CASE RefuseLate(ev) \/ FirstEvent(ev)
    BY <2>0, <2>1 DEF RefuseLate, FirstEvent
  <2>2. CASE AcceptEvent(ev)
    BY <2>0, <2>2 DEF AcceptEvent, Ahead, Idle, Moment
  <2>3. CASE FoldLate(ev)
    <3>1. rules' = rules /\ call' = IF Reopens(ev) = {} THEN Idle
                       ELSE [Idle EXCEPT !.stage = "recompute", !.reopen = Reopens(ev)]
      BY <2>3 DEF FoldLate
    <3>2. call'.stage # "timers" /\ call'.reopen \subseteq Reopens(ev)
      BY <3>1 DEF Idle
    <3>3. ~UNCHANGED vars
      BY <2>3, ServedType DEF FoldLate, Serve, vars, EngineInv
    <3>4. \A r \in RuleIds : FoldedIn(ev, r) # {} => Unhurried(rules[r], RecomputeLate)
      BY <2>3, <3>3 DEF LateHarmless
    <3>5. ASSUME NEW x \in Reopens(ev)
          PROVE  rules[x.r].trigger = "window" /\ rules[x.r].repeatEvery = 0
      <4>1. PICK q \in Partitions \X RuleIds :
              /\ RecomputeLate /\ q[1] \in FoldedIn(ev, q[2]) /\ x.r = q[2]
              /\ AffectedWindows(rules[q[2]], states[q[1]][q[2]], ev) # {}
        BY <3>5 DEF Reopens
      <4>2. rules[x.r].trigger = "window" /\ Unhurried(rules[x.r], RecomputeLate)
        BY <3>4, <4>1 DEF AffectedWindows
      <4> QED BY <4>1, <4>2 DEF Unhurried
    <3> QED BY <3>1, <3>2, <3>5
  <2> QED BY <1>2, <2>1, <2>2, <2>3 DEF ProcessEvent
<1>3. ASSUME NEW t \in 0 .. MaxTime, FirstAdvance(t) \/ AdvanceTo(t)
      PROVE  /\ call'.stage = "timers" => watermark' \in Nat /\ watermark' <= call'.target
             /\ \A x \in call'.reopen :
                  rules'[x.r].trigger = "window" /\ rules'[x.r].repeatEvery = 0
  <2>1. call.reopen = {} /\ watermark \in Moment /\ call.stage # "timers"
    BY <1>3 DEF EngineInv, StateInv, FirstAdvance, AdvanceTo, Serve
  <2>2. CASE FirstAdvance(t)
    BY <2>1, <2>2 DEF FirstAdvance
  <2>3. CASE AdvanceTo(t)
    BY <2>1, <2>3 DEF AdvanceTo, Ahead, Idle, Moment
  <2> QED BY <1>3, <2>2, <2>3
<1>4. ASSUME NEW new \in Reloads, NEW policy \in ReloadPolicies, Reload(new, policy)
      PROVE  call' = call /\ call.stage = "idle" /\ call.reopen = {}
  BY <1>4 DEF Reload, ReloadNow, StageReload, Serve, EngineInv, StateInv
<1>5. CASE FireDue
  <2>1. watermark' \in Nat /\ watermark' <= call.target /\ call' = call /\ rules' = rules
    BY <1>5, FireDueType DEF FireDue, EngineInv
  <2> QED BY <2>1 DEF TimerInv
<1>6. CASE Settle
  BY <1>6 DEF Settle, Idle
<1>7. ASSUME NEW x \in call.reopen, Recompute(x)
      PROVE  call'.stage # "timers" /\ call'.reopen \subseteq call.reopen /\ rules' = rules
  BY <1>7 DEF Recompute, Idle, EngineInv, StateInv, Call
<1> QED BY <1>1, <1>2, <1>3, <1>4, <1>5, <1>6, <1>7 DEF Next, Progress, TimerInv

LEMMA TimerStep ==
  ASSUME EngineInv, Straight, OneSourceEach, TimerInv, [Next]_vars, [LateHarmless]_vars
  PROVE  TimerInv'
<1> SUFFICES ASSUME NEW p \in Partitions, NEW r \in RuleIds, states'[p][r] # NoState
             PROVE  /\ Armed(states'[p][r])
                    /\ \A t \in DueTimes(rules'[r], states'[p][r]) : NotOver(t)'
  BY TimerStage DEF TimerInv
<1> DEFINE Fine(st) == Armed(st) /\ \A t \in DueTimes(rules'[r], st) : NotOver(t)'
<1>0. \A rule \in Definitions(r) : Compiled(rule) /\ OneSource(rule)
  BY ActingCompiled DEF OneSourceEach
<1>1. rules'[r] \in Definitions(r)
  <2>1. rules' \in InUse /\ rules'[r] # NoRule
    BY EngineInvStep DEF EngineInv, StateInv, DefinitionsInv, StatesOK
  <2> QED BY <2>1 DEF Definitions
<1>2. ASSUME states[p][r] # NoState, Compatible(rules[r], rules'[r])
      PROVE  Fine(states[p][r])
  <2>1. rules[r] \in Definitions(r)
    BY <1>2 DEF Definitions, EngineInv, StateInv, DefinitionsInv, StatesOK
  <2>2. DueTimes(rules'[r], states[p][r]) = DueTimes(rules[r], states[p][r])
    BY <1>0, <1>1, <1>2, <2>1, CompatibleDues
  <2> QED BY <1>2, <2>2, StillAhead DEF TimerInv
<1>3. ASSUME NEW st, From(p, r, st), st # NoState
      PROVE  st \in RuleState /\ Fine(st)
  <2>1. CASE st = states[p][r] /\ Compatible(rules[r], rules'[r])
    BY <1>2, <1>3, <2>1, FromStraight
  <2>2. CASE st = EmptyState
    BY <1>0, <1>1, <2>2, EmptyDues, EmptyStateType
  <2> QED BY <1>3, <2>1, <2>2, FromStraight
<1>4. ASSUME NEW now \in Nat, now = watermark', call'.stage # "timers"
      PROVE  Fine(FreshState(rules'[r], now))
  BY <1>0, <1>1, <1>4, FreshDues DEF NotOver
<1> HIDE DEF Fine
<1> SUFFICES Fine(states'[p][r])
  BY DEF Fine
<1>5. CASE Rests(p, r)
  BY <1>3, <1>5 DEF Rests, Yields, Silent
<1>6. CASE Hears(p, r)
  <2>1. PICK rule \in Definitions(r), st \in RuleState \cup {NoState}, ev \in Event :
          HearsFrom(p, r, rule, st, ev)
    BY <1>6 DEF Hears
  <2>2. /\ Compiled(rule) /\ OneSource(rule) /\ rule \in Rule /\ ev.ts \in Nat
        /\ rule = rules'[r] /\ ev.ts = watermark' /\ call'.stage # "timers"
    BY <1>0, <2>1, ActsStraight DEF HearsFrom, Compiled, Event, Limit
  <2> DEFINE was == Ensured(rule, st, ev.ts)
  <2>3. was \in RuleState
    BY <2>2, EnsuredType
  <2>4. states'[p][r] = InOrder(rule, was, ev).state
    BY <2>1 DEF HearsFrom, Yields
  <2>5. Fine(was)
    BY <1>3, <1>4, <2>1, <2>2 DEF Ensured, HearsFrom
  <2> HIDE DEF was
  <2>6. /\ Armed(states'[p][r])
        /\ \A t \in DueTimes(rule, states'[p][r]) : t \in DueTimes(rule, was) \/ t > ev.ts
    BY <2>2, <2>3, <2>4, <2>5, InOrderDues DEF Fine
  <2> QED BY <2>2, <2>5, <2>6 DEF Fine, NotOver
<1>7. CASE HearsLate(p, r)
  <2>1. PICK rule \in Definitions(r), ev \in Event : HearsLateOf(p, r, rule, ev)
    BY <1>7 DEF HearsLate
  <2>2. /\ rule \in Rule /\ Limit \in Nat /\ Limit' = Limit
        /\ rule = rules'[r] /\ rule = rules[r] /\ ev \in Offered /\ FoldLate(ev)
        /\ p \in FoldedIn(ev, r)
    BY <1>0, <2>1, ActsStraight DEF HearsLateOf, Compiled
  <2>3. call'.stage # "timers" /\ Limit = watermark'
    <3>1. call'.stage # "timers"
      BY <2>2 DEF FoldLate, Idle
    <3> QED BY <2>2, <3>1 DEF Limit
  <2>4. Unhurried(rule, RecomputeLate)
    <3>1. ~UNCHANGED vars
      BY <2>2, ServedType DEF FoldLate, Serve, vars, EngineInv
    <3> QED BY <2>2, <3>1 DEF LateHarmless
  <2> DEFINE was == Ensured(rule, states[p][r], Limit)
  <2>5. was \in RuleState
    BY <2>2, EnsuredType DEF EngineInv, StateInv, StatesOK
  <2>6. states'[p][r] = OnLate(rule, was, ev).state
    BY <2>1 DEF HearsLateOf, Yields
  <2>7. Fine(was)
    BY <1>2, <1>4, <2>2, <2>3 DEF Ensured, Compatible
  <2> HIDE DEF was
  <2>8. Armed(states'[p][r]) /\ DueTimes(rule, states'[p][r]) \subseteq DueTimes(rule, was)
    BY <2>2, <2>4, <2>5, <2>6, <2>7, OnLateDues DEF Fine
  <2> QED BY <2>2, <2>7, <2>8 DEF Fine
<1>8. CASE Recomputes(p, r)
  <2>1. PICK rule \in Definitions(r), x \in call.reopen : RecomputesAt(p, r, rule, x)
    BY <1>8 DEF Recomputes
  <2>2. /\ rule = rules[r] /\ rule = rules'[r] /\ states[p][r] # NoState
        /\ states'[p][r] = RecomputeWindow(rule, states[p][r], x.end).state /\ x.r = r
    BY <2>1, ActsStraight DEF RecomputesAt, Yields
  <2>a. rule.repeatEvery = 0
    BY <2>2 DEF TimerInv
  <2>b. rule \in Rule /\ x.end \in Nat /\ states[p][r] \in RuleState
    BY <1>0, <2>2 DEF Compiled, EngineInv, StateInv, StatesOK, Call, Reopened
  <2>3. /\ rule \in Rule /\ x.end \in Nat /\ states[p][r] \in RuleState
        /\ rule.repeatEvery = 0
    BY <2>a, <2>b
  <2>4. Fine(states[p][r])
    BY <1>2, <2>2 DEF Compatible
  <2>5. /\ Armed(states'[p][r])
        /\ DueTimes(rule, states'[p][r]) \subseteq DueTimes(rule, states[p][r])
    BY <2>2, <2>3, <2>4, RecomputeDues DEF Fine
  <2> QED BY <2>2, <2>4, <2>5 DEF Fine
<1>9. CASE Times(p, r)
  <2>1. PICK rule \in Definitions(r), due \in Nat : TimesAt(p, r, rule, due)
    BY <1>9 DEF Times
  <2>2. /\ Compiled(rule) /\ rule = rules'[r] /\ rule = rules[r]
        /\ states[p][r] # NoState /\ states[p][r] \in RuleState
    BY <1>0, <2>1, ActsStraight, StraightGoverns
       DEF TimesAt, EngineInv, StateInv, StatesOK
  <2>3. states'[p][r] = OnTimer(rule, states[p][r], due, RecomputeLate).state
    BY <2>1 DEF TimesAt, Yields
  <2>4. due = watermark' /\ call'.stage = "timers"
    BY <2>1 DEF TimesAt
  <2>5. Fine(states[p][r])
    BY <1>2, <2>2 DEF Compatible
  <2>6. /\ Armed(states'[p][r])
        /\ \A t \in DueTimes(rule, states'[p][r]) :
             t \in DueTimes(rule, states[p][r]) \/ t >= due
    BY <2>2, <2>3, <2>5, OnTimerDues DEF Fine
  <2> QED BY <2>2, <2>4, <2>5, <2>6 DEF Fine, NotOver
<1>10. Turn(p, r)
  BY TurnTaken
<1> QED BY <1>5, <1>6, <1>7, <1>8, <1>9, <1>10 DEF Turn

LEMMA TimersHold ==
  ASSUME Straight, OneSourceEach
  PROVE  Spec /\ [][LateHarmless]_vars => [](EngineInv /\ TimerInv)
<1>1. Init => TimerInv
  BY DEF Init, TimerInv, Idle
<1>2. EngineInv /\ TimerInv /\ [Next]_vars /\ [LateHarmless]_vars => TimerInv'
  BY TimerStep
<1> QED BY <1>1, <1>2, EngineInvHolds, PTL DEF Spec

(* As long as no reload drains, no absence rule watches several sources and *)
(* no event behind the clock reaches a rule that draws a deadline from it,  *)
(* every timer that is pending between calls is in the future               *)
(* (_advance_timers_to, _next_due_time).                                    *)
THEOREM NoTimerOverdue ==
  ASSUME Straight, OneSourceEach
  PROVE  Spec /\ [][LateHarmless]_vars => []NoOverdueTimer
<1>1. ASSUME EngineInv, TimerInv PROVE NoOverdueTimer
  <2> SUFFICES ASSUME IsIdle, NEW due \in AllDueTimes
               PROVE  due > watermark
    BY DEF NoOverdueTimer
  <2>1. PICK q \in Live : due \in DueTimes(Governing(q), states[q[1]][q[2]])
    BY DEF AllDueTimes
  <2>2. /\ q[1] \in Partitions /\ q[2] \in RuleIds /\ states[q[1]][q[2]] # NoState
        /\ Governing(q) = rules[q[2]]
    BY <1>1, <2>1, StraightGoverns DEF Live, Governing
  <2> QED BY <1>1, <2>1, <2>2 DEF TimerInv, NotOver, IsIdle
<1> QED BY <1>1, TimersHold, PTL

(* ... and the clock never moves backward.                                  *)
THEOREM ClockMovesForward ==
  ASSUME Straight, OneSourceEach
  PROVE  Spec /\ [][LateHarmless]_vars => ClockNeverRewinds
<1>1. ASSUME EngineInv, TimerInv, [Next]_vars PROVE [watermark' >= watermark]_vars
  <2>0. watermark \in Moment
    BY <1>1 DEF EngineInv, StateInv
  <2>1. CASE UNCHANGED vars
    BY <2>1
  <2>2. ASSUME NEW ev \in Offered, ProcessEvent(ev) PROVE watermark' >= watermark
    <3>1. ev.ts \in Nat
      BY EngineAssumption DEF Event
    <3> QED BY <2>0, <2>2, <3>1, MomentIsInt
         DEF ProcessEvent, RefuseLate, FoldLate, FirstEvent, AcceptEvent, Unset
  <2>3. ASSUME NEW t \in 0 .. MaxTime, FirstAdvance(t) \/ AdvanceTo(t)
        PROVE  watermark' >= watermark
    BY <2>0, <2>3, MomentIsInt, EngineAssumption DEF FirstAdvance, AdvanceTo, Unset
  <2>4. ASSUME NEW new \in Reloads, NEW policy \in ReloadPolicies, Reload(new, policy)
        PROVE  watermark' >= watermark
    BY <2>0, <2>4, MomentIsInt DEF Reload, ReloadNow, StageReload
  <2>5. CASE FireDue
    <3>1. PICK q \in Live : watermark' \in DueTimes(Governing(q), states[q[1]][q[2]])
      BY <2>5 DEF FireDue, AllDueTimes
    <3>2. /\ q[1] \in Partitions /\ q[2] \in RuleIds /\ states[q[1]][q[2]] # NoState
          /\ Governing(q) = rules[q[2]]
      BY <1>1, <3>1, StraightGoverns DEF Live, Governing
    <3> QED BY <1>1, <2>5, <3>1, <3>2 DEF TimerInv, NotOver, FireDue
  <2>6. CASE Settle
    BY <1>1, <2>0, <2>6, MomentIsInt DEF Settle, TimerInv, EngineInv, ProgressInv
  <2>7. ASSUME NEW x \in call.reopen, Recompute(x) PROVE watermark' >= watermark
    BY <2>0, <2>7, MomentIsInt DEF Recompute
  <2> QED BY <1>1, <2>1, <2>2, <2>3, <2>4, <2>5, <2>6, <2>7 DEF Next, Progress
<1> QED BY <1>1, TimersHold, PTL DEF Spec, ClockNeverRewinds

\* One entity, and no rule that tolerates a late event.
OneEntity == \A e, f \in Entities : e = f
Punctual == \A r \in RuleIds : \A rule \in Definitions(r) : rule.lateness = 0

Abreast ==
  call.stage # "timers" /\ watermark # Unset =>
    \A e \in Entities : EntityReference(e) = watermark

LEMMA DeliverAbreast ==
  ASSUME OneEntity, NEW ev \in Event, NEW rs, NEW sts, NEW dr, NEW sofar,
         Deliver(ev, rs, sts, dr, sofar), entityWm \in [Entities -> Moment],
         NotAhead(ev.ts), floor' = floor, floor \in Moment,
         NEW e \in Entities
  PROVE  MaxOf(entityWm'[e], floor') = ev.ts
<1>1. ev.ts \in Nat /\ ev.entity = e
  BY DEF Event, OneEntity
<1>2. entityWm'[e] = MaxOf(entityWm[e], ev.ts)
  BY <1>1 DEF Deliver
<1>3. entityWm[e] \in Int /\ floor \in Int /\ entityWm[e] <= ev.ts /\ floor <= ev.ts
  BY MomentIsInt DEF NotAhead
<1> QED BY <1>1, <1>2, <1>3 DEF MaxOf

(* With one entity no event is behind the clock without being late.         *)
LEMMA AbreastStep ==
  ASSUME EngineInv, OneEntity, Abreast, [Next]_vars
  PROVE  Abreast'
<1> SUFFICES ASSUME call'.stage # "timers", watermark' # Unset, NEW e \in Entities
             PROVE  MaxOf(entityWm'[e], floor') = watermark'
  BY DEF Abreast, EntityReference
<1>0. floor \in Moment /\ entityWm \in [Entities -> Moment] /\ watermark \in Moment
  BY DEF EngineInv, ProgressInv, StateInv
<1>a. floor \in Int /\ \A f \in Entities : entityWm[f] \in Int
  BY <1>0, MomentIsInt
<1>1. ASSUME call.stage # "timers", UNCHANGED <<watermark, entityWm, floor>>
      PROVE  MaxOf(entityWm'[e], floor') = watermark'
  BY <1>1 DEF Abreast, EntityReference
<1>2. CASE UNCHANGED vars
  BY <1>1, <1>2 DEF vars
<1>3. ASSUME NEW ev \in Offered, ProcessEvent(ev)
      PROVE  MaxOf(entityWm'[e], floor') = watermark'
  <2>1. CASE RefuseLate(ev) \/ AcceptEvent(ev)
    BY <1>1, <2>1 DEF RefuseLate, AcceptEvent, Serve
  <2>2. CASE FoldLate(ev)
    BY <1>1, <2>2 DEF FoldLate, Serve
  <2>3. CASE FirstEvent(ev)
    <3>1. /\ Deliver(ev, rules, states, draining, Quiet) /\ watermark' = ev.ts
          /\ watermark = Unset /\ call.stage # "timers" /\ floor' = floor
      BY <2>3 DEF FirstEvent, Serve
    <3>2. ev \in Event /\ ev.ts \in Nat /\ NotAhead(Unset)
      BY <3>1, EngineAssumption DEF Event, EngineInv, ProgressInv
    <3>3. NotAhead(ev.ts)
      BY <1>a, <3>2 DEF NotAhead, Unset
    <3> QED BY <1>0, <3>1, <3>2, <3>3, DeliverAbreast
  <2> QED BY <1>3, <2>1, <2>2, <2>3 DEF ProcessEvent
<1>4. ASSUME NEW t \in 0 .. MaxTime, FirstAdvance(t) \/ AdvanceTo(t)
      PROVE  MaxOf(entityWm'[e], floor') = watermark'
  <2>1. CASE FirstAdvance(t)
    <3>1. /\ watermark' = t /\ watermark = Unset /\ call.stage # "timers"
          /\ floor' = MaxOf(floor, t) /\ entityWm' = entityWm
      BY <2>1 DEF FirstAdvance, Serve
    <3>2. t \in Nat /\ entityWm[e] <= Unset /\ floor <= Unset
      BY <3>1, EngineAssumption DEF EngineInv, ProgressInv, NotAhead
    <3> QED BY <1>a, <3>1, <3>2 DEF MaxOf, Unset
  <2>2. CASE AdvanceTo(t)
    BY <1>1, <2>2 DEF AdvanceTo, Serve
  <2> QED BY <1>4, <2>1, <2>2
<1>5. ASSUME NEW new \in Reloads, NEW policy \in ReloadPolicies, Reload(new, policy)
      PROVE  MaxOf(entityWm'[e], floor') = watermark'
  BY <1>1, <1>5 DEF Reload, ReloadNow, StageReload, Serve
<1>6. CASE FireDue
  BY <1>6 DEF FireDue
<1>7. CASE Settle
  <2>1. /\ call.target \in Nat /\ NotAhead(call.target) /\ watermark' = call.target
    BY <1>7 DEF Settle, EngineInv, ProgressInv
  <2>2. CASE call.event = NoEvent
    <3>1. floor' = MaxOf(floor, call.target) /\ entityWm' = entityWm
      BY <1>7, <2>2 DEF Settle
    <3>2. entityWm[e] <= call.target /\ floor <= call.target
      BY <2>1 DEF NotAhead
    <3> QED BY <1>a, <2>1, <3>1, <3>2 DEF MaxOf
  <2>3. CASE call.event # NoEvent
    <3> DEFINE now == Activated(call.target)
    <3>1. /\ Deliver(call.event, now.rules, now.states, now.draining, out)
          /\ floor' = floor
      BY <1>7, <2>3 DEF Settle
    <3>2. call.event \in Event /\ call.event.ts = call.target
      BY <1>7, <2>3 DEF Settle, EngineInv, ProgressInv
    <3> HIDE DEF now
    <3> QED BY <1>0, <2>1, <3>1, <3>2, DeliverAbreast
  <2> QED BY <2>2, <2>3
<1>8. ASSUME NEW x \in call.reopen, Recompute(x)
      PROVE  MaxOf(entityWm'[e], floor') = watermark'
  BY <1>1, <1>8 DEF Recompute
<1> QED BY <1>2, <1>3, <1>4, <1>5, <1>6, <1>7, <1>8 DEF Next, Progress

LEMMA PunctualFoldsNothing ==
  ASSUME EngineInv, Punctual, Abreast,
         NEW ev \in Offered, FoldLate(ev), NEW r \in RuleIds, FoldedIn(ev, r) # {}
  PROVE  FALSE
<1>1. ev.ts \in Nat /\ ev.entity \in Entities
  BY EngineAssumption DEF Event
<1>2. /\ call.stage # "timers" /\ watermark # Unset /\ watermark \in Moment
      /\ ev.ts < watermark
  BY DEF FoldLate, Serve, Behind, EngineInv, StateInv
<1>3. EntityReference(ev.entity) = watermark /\ watermark \in Nat
  BY <1>1, <1>2 DEF Abreast, Moment
<1>4. Lateness(ev) \in Nat /\ Lateness(ev) > 0
  BY <1>1, <1>2, <1>3 DEF Lateness
<1>5. rules[r] # NoRule /\ Tolerates(rules[r], ev)
  BY DEF FoldedIn, SeenIn
<1>6. rules[r] \in Definitions(r)
  BY <1>5 DEF Definitions, EngineInv, DefinitionsInv
<1>7. rules[r].lateness = 0
  BY <1>6 DEF Punctual
<1> QED BY <1>4, <1>5, <1>7 DEF Tolerates

LEMMA PunctualHarmless ==
  ASSUME EngineInv, Punctual, Abreast
  PROVE  LateHarmless
BY PunctualFoldsNothing DEF LateHarmless

LEMMA PunctualCalls ==
  ASSUME OneEntity, Punctual
  PROVE  Spec => [][LateHarmless]_vars
<1>1. Init => Abreast
  BY EngineAssumption DEF Init, Abreast, EntityReference, MaxOf, Moment, Unset
<1>2. EngineInv /\ Abreast /\ [Next]_vars => Abreast'
  BY AbreastStep
<1>3. EngineInv /\ Abreast => LateHarmless
  BY PunctualHarmless
<1> QED BY <1>1, <1>2, <1>3, EngineInvHolds, PTL DEF Spec

(* With one entity and no tolerance no event behind the clock is ever       *)
(* folded in, so the two hold of every call (_handle_late_event).           *)
THEOREM PunctualClock ==
  ASSUME Straight, OneSourceEach, OneEntity, Punctual
  PROVE  Spec => []NoOverdueTimer /\ ClockNeverRewinds
BY PunctualCalls, NoTimerOverdue, ClockMovesForward, PTL
=============================================================================
