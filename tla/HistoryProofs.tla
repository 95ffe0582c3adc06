---------------------------- MODULE HistoryProofs ----------------------------
(***************************************************************************)
(* What a window or a scheduled rule can still look at is in its buffer,   *)
(* as often as it was handed to the rule: readings are counted as they     *)
(* come in, in order or late, and as pruning drops them.  A sequence rule  *)
(* emits when its pattern is there: the partial matches it keeps follow    *)
(* every placement of its steps that can still be completed.               *)
(* A remembered verdict, and the preview of a window, are those over all   *)
(* the rule was handed: the buffer mirrors the trail, in the order of      *)
(* time, from one window before the last event in order on.                *)
(***************************************************************************)
EXTENDS EngineHistory, SilenceProofs

-----------------------------------------------------------------------------
\* Counting the places of a reading.

Places(s, x) == {i \in DOMAIN s : s[i] = x}

LEMMA PlacesCount ==
  ASSUME NEW n \in Nat, NEW s, DOMAIN s = 1 .. n, NEW x
  PROVE  /\ IsFiniteSet(Places(s, x)) /\ Cardinality(Places(s, x)) \in Nat
         /\ Occurrences(s, x) = Cardinality(Places(s, x))
<1>1. IsFiniteSet(1 .. n)
  BY FS_Interval
<1>2. Places(s, x) \subseteq 1 .. n
  BY DEF Places
<1>3. Occurrences(s, x) = Cardinality(Places(s, x))
  BY DEF Occurrences, Places
<1> QED BY <1>1, <1>2, <1>3, FS_Subset, FS_CardinalityType

(* What is put in at one place, here behind the k-th, is there once more    *)
(* than before; nothing else is.                                            *)
LEMMA OccursOnceMore ==
  ASSUME NEW n \in Nat, NEW s, DOMAIN s = 1 .. n, NEW k \in 0 .. n, NEW y,
         NEW t, DOMAIN t = 1 .. n + 1,
         \A i \in 1 .. k : t[i] = s[i],
         t[k + 1] = y,
         \A i \in k + 2 .. n + 1 : t[i] = s[i - 1],
         NEW x
  PROVE  Occurrences(t, x) = Occurrences(s, x) + IF y = x THEN 1 ELSE 0
<1> DEFINE old == Places(s, x)
           new == Places(t, x) \ {k + 1}
           f == [i \in old |-> IF i <= k THEN i ELSE i + 1]
<1>1. /\ IsFiniteSet(old) /\ Cardinality(old) \in Nat
      /\ Occurrences(s, x) = Cardinality(old)
  BY PlacesCount
<1>2. n + 1 \in Nat
  OBVIOUS
<1>3. /\ IsFiniteSet(Places(t, x)) /\ Cardinality(Places(t, x)) \in Nat
      /\ Occurrences(t, x) = Cardinality(Places(t, x))
  BY <1>2, PlacesCount
<1>4. \A i \in old : i \in 1 .. n /\ s[i] = x
  BY DEF Places
<1>5. \A i \in old : f[i] \in new
  <2> SUFFICES ASSUME NEW i \in old PROVE f[i] \in new
    OBVIOUS
  <2>1. CASE i <= k
    BY <1>4, <2>1 DEF Places
  <2>2. CASE i > k
    <3>1. i + 1 \in k + 2 .. n + 1 /\ (i + 1) - 1 = i /\ i + 1 # k + 1
      BY <1>4, <2>2
    <3>2. t[i + 1] = s[i]
      BY <3>1
    <3> QED BY <1>4, <2>2, <3>1, <3>2 DEF Places
  <2> QED BY <1>4, <2>1, <2>2
<1>6. \A i, j \in old : f[i] = f[j] => i = j
  BY <1>4
<1>7. \A j \in new : \E i \in old : f[i] = j
  <2> SUFFICES ASSUME NEW j \in new PROVE \E i \in old : f[i] = j
    OBVIOUS
  <2>1. j \in 1 .. n + 1 /\ t[j] = x /\ j # k + 1
    BY DEF Places
  <2>2. CASE j <= k
    <3>1. j \in 1 .. n /\ s[j] = x
      BY <2>1, <2>2
    <3> QED BY <2>2, <3>1 DEF Places
  <2>3. CASE j > k
    <3>1. j \in k + 2 .. n + 1 /\ j - 1 \in 1 .. n /\ ~(j - 1 <= k) /\ (j - 1) + 1 = j
      BY <2>1, <2>3
    <3>2. s[j - 1] = x
      BY <2>1, <3>1
    <3>3. j - 1 \in old
      BY <3>1, <3>2 DEF Places
    <3> QED BY <3>1, <3>3
  <2> QED BY <2>1, <2>2, <2>3
<1>8. f \in Bijection(old, new)
  <2>1. f \in [old -> new]
    BY <1>5
  <2> HIDE DEF f, old, new
  <2> QED BY <1>6, <1>7, <2>1 DEF Bijection, Injection, Surjection, IsInjective
<1>9. Cardinality(new) = Cardinality(old)
  BY <1>1, <1>8, FS_Bijection DEF ExistsBijection
<1>10. Cardinality(new) = IF k + 1 \in Places(t, x) THEN Cardinality(Places(t, x)) - 1
                          ELSE Cardinality(Places(t, x))
  BY <1>3, FS_RemoveElement
<1>11. k + 1 \in Places(t, x) <=> y = x
  BY DEF Places
<1> QED BY <1>1, <1>3, <1>9, <1>10, <1>11

(* Readings that are not among those dropped stay as often as they were.    *)
LEMMA OccursAsOften ==
  ASSUME NEW n \in Nat, NEW s, DOMAIN s = 1 .. n,
         NEW k \in 0 .. n, NEW m \in Nat, m = n - k,
         NEW t, DOMAIN t = 1 .. m, \A i \in 1 .. m : k + i \in 1 .. n /\ t[i] = s[k + i],
         NEW x, \A i \in 1 .. k : s[i] # x
  PROVE  Occurrences(t, x) = Occurrences(s, x)
<1> DEFINE f == [i \in Places(t, x) |-> k + i]
<1>1. /\ IsFiniteSet(Places(t, x))
      /\ Occurrences(t, x) = Cardinality(Places(t, x))
      /\ Occurrences(s, x) = Cardinality(Places(s, x))
  BY PlacesCount
<1>2. \A i \in Places(t, x) : i \in 1 .. m /\ k + i \in Places(s, x)
  BY DEF Places
<1>3. \A j \in Places(s, x) : j - k \in Places(t, x) /\ k + (j - k) = j
  <2> SUFFICES ASSUME NEW j \in Places(s, x) PROVE j - k \in Places(t, x) /\ k + (j - k) = j
    OBVIOUS
  <2>1. j \in 1 .. n /\ s[j] = x
    BY DEF Places
  <2>2. ~(j <= k)
    BY <2>1
  <2>3. j - k \in 1 .. m /\ k + (j - k) = j
    BY <2>1, <2>2
  <2>4. t[j - k] = s[j]
    BY <2>3
  <2> QED BY <2>1, <2>3, <2>4 DEF Places
<1>4. f \in Bijection(Places(t, x), Places(s, x))
  <2>1. f \in [Places(t, x) -> Places(s, x)]
    BY <1>2
  <2>2. \A i, j \in Places(t, x) : f[i] = f[j] => i = j
    BY <1>2
  <2>3. \A j \in Places(s, x) : \E i \in Places(t, x) : f[i] = j
    BY <1>3
  <2> HIDE DEF f
  <2> QED BY <2>1, <2>2, <2>3 DEF Bijection, Injection, Surjection, IsInjective
<1> QED BY <1>1, <1>4, FS_Bijection DEF ExistsBijection

-----------------------------------------------------------------------------
\* The buffer beside the events that came.

ReadingsOf(trail) == [j \in DOMAIN trail |-> AsReading(trail[j])]

\* Every reading from start on is in the buffer as often as it came.
WholeSpan(buffer, trail, start) ==
  \A x \in Reading : x.ts >= start => Occurrences(buffer, x) = Occurrences(ReadingsOf(trail), x)

LEMMA TrailGrows ==
  ASSUME NEW trail \in Seq(Event), NEW ev \in Event, NEW x
  PROVE  Occurrences(ReadingsOf(Append(trail, ev)), x)
           = Occurrences(ReadingsOf(trail), x) + IF AsReading(ev) = x THEN 1 ELSE 0
<1> DEFINE n == Len(trail)
           s == ReadingsOf(trail)
           t == ReadingsOf(Append(trail, ev))
<1>1. n \in Nat /\ DOMAIN trail = 1 .. n
  BY LenProperties
<1>2. /\ DOMAIN Append(trail, ev) = 1 .. n + 1
      /\ \A i \in 1 .. n : Append(trail, ev)[i] = trail[i]
      /\ Append(trail, ev)[n + 1] = ev
  BY AppendProperties, LenProperties
<1>3. /\ DOMAIN s = 1 .. n /\ DOMAIN t = 1 .. n + 1
      /\ \A i \in 1 .. n : t[i] = s[i]
      /\ t[n + 1] = AsReading(ev)
  BY <1>1, <1>2 DEF ReadingsOf
<1>4. n \in 0 .. n /\ \A i \in n + 2 .. n + 1 : t[i] = s[i - 1]
  BY <1>1
<1> HIDE DEF n, s, t
<1>5. Occurrences(t, x) = Occurrences(s, x) + IF AsReading(ev) = x THEN 1 ELSE 0
  BY <1>1, <1>3, <1>4, OccursOnceMore
<1> QED BY <1>5 DEF s, t

LEMMA AppendedOnceMore ==
  ASSUME NEW buffer \in Seq(Reading), NEW reading \in Reading, NEW x
  PROVE  Occurrences(Append(buffer, reading), x)
           = Occurrences(buffer, x) + IF reading = x THEN 1 ELSE 0
<1> DEFINE n == Len(buffer)
           t == Append(buffer, reading)
<1>1. n \in Nat /\ DOMAIN buffer = 1 .. n
  BY LenProperties
<1>2. /\ DOMAIN t = 1 .. n + 1
      /\ \A i \in 1 .. n : t[i] = buffer[i]
      /\ t[n + 1] = reading
  BY AppendProperties, LenProperties
<1>3. n \in 0 .. n /\ \A i \in n + 2 .. n + 1 : t[i] = buffer[i - 1]
  BY <1>1
<1> HIDE DEF n, t
<1>4. Occurrences(t, x) = Occurrences(buffer, x) + IF reading = x THEN 1 ELSE 0
  BY <1>1, <1>2, <1>3, OccursOnceMore
<1> QED BY <1>4 DEF t

LEMMA InsertedOnceMore ==
  ASSUME NEW buffer \in Seq(Reading), NEW limit \in Int, InOrderUpTo(buffer, limit),
         NEW reading \in Reading, NEW x
  PROVE  Occurrences(InsertInOrder(buffer, reading), x)
           = Occurrences(buffer, x) + IF reading = x THEN 1 ELSE 0
<1> DEFINE n == Len(buffer)
           t == InsertInOrder(buffer, reading)
<1>1. n \in Nat /\ DOMAIN buffer = 1 .. n
  BY LenProperties
<1>2. /\ DOMAIN t = 1 .. n + 1
      /\ \E k \in 0 .. n : /\ \A i \in 1 .. k : t[i] = buffer[i]
                           /\ t[k + 1] = reading
                           /\ \A i \in k + 2 .. n + 1 : t[i] = buffer[i - 1]
  BY InsertShape
<1> HIDE DEF n, t
<1>3. Occurrences(t, x) = Occurrences(buffer, x) + IF reading = x THEN 1 ELSE 0
  BY <1>1, <1>2, OccursOnceMore
<1> QED BY <1>3 DEF t

LEMMA FirstOnes ==
  ASSUME NEW m \in Nat
  PROVE  IsFiniteSet(1 .. m) /\ Cardinality(1 .. m) = m
<1>1. IsFiniteSet(1 .. m) /\ Cardinality(1 .. m) = IF 1 > m THEN 0 ELSE m - 1 + 1
  BY FS_Interval
<1> QED BY <1>1

(* Pruning drops no reading from the cutoff on.                             *)
LEMMA DroppedBefore ==
  ASSUME NEW buffer \in Seq(Reading), NEW limit \in Int, InOrderUpTo(buffer, limit),
         NEW cutoff \in Int, NEW i \in 1 .. Len(buffer), i <= CountBefore(buffer, cutoff)
  PROVE  buffer[i].ts < cutoff
<1> DEFINE n == Len(buffer)
           S == {j \in DOMAIN buffer : buffer[j].ts < cutoff}
<1>1. /\ n \in Nat /\ DOMAIN buffer = 1 .. n
      /\ \A j \in 1 .. n : buffer[j].ts \in Nat
  BY ReadingTimes
<1> SUFFICES ASSUME ~(buffer[i].ts < cutoff)
             PROVE  FALSE
  BY <1>1
<1>2. CountBefore(buffer, cutoff) = Cardinality(S)
  BY DEF CountBefore
<1>3. i - 1 \in Nat /\ IsFiniteSet(1 .. i - 1) /\ Cardinality(1 .. i - 1) = i - 1
  <2>1. PICK m \in Nat : m = i - 1
    BY <1>1
  <2> QED BY <2>1, FirstOnes
<1>4. S \in SUBSET (1 .. i - 1)
  <2> SUFFICES ASSUME NEW j \in S PROVE j \in 1 .. i - 1
    OBVIOUS
  <2>1. j \in 1 .. n /\ buffer[j].ts < cutoff
    BY <1>1
  <2>2. ~(i <= j)
    <3> SUFFICES ASSUME i <= j PROVE FALSE
      OBVIOUS
    <3>1. buffer[i].ts <= buffer[j].ts
      BY <1>1, <2>1 DEF InOrderUpTo
    <3> QED BY <1>1, <2>1, <3>1
  <2> QED BY <2>1, <2>2
<1> HIDE DEF S
<1>5. Cardinality(S) <= i - 1 /\ Cardinality(S) \in Nat
  BY ZenonT(40), <1>3, <1>4, FS_Subset, FS_CardinalityType
<1> QED BY <1>1, <1>2, <1>5

LEMMA DroppedAsOften ==
  ASSUME NEW buffer \in Seq(Reading), NEW limit \in Int, InOrderUpTo(buffer, limit),
         NEW cutoff \in Int, NEW x \in Reading, x.ts >= cutoff
  PROVE  Occurrences(DropBefore(buffer, cutoff), x) = Occurrences(buffer, x)
<1> DEFINE n == Len(buffer)
           t == DropBefore(buffer, cutoff)
<1>1. n \in Nat /\ DOMAIN buffer = 1 .. n
  BY LenProperties
<1>2. PICK k \in 0 .. n :
        /\ k = CountBefore(buffer, cutoff) /\ DOMAIN t = 1 .. n - k
        /\ \A i \in 1 .. n - k : k + i \in 1 .. n /\ t[i] = buffer[k + i]
  BY DropShape
<1>3. PICK m \in Nat : m = n - k
  BY <1>1, <1>2
<1>4. ASSUME NEW i \in 1 .. k PROVE buffer[i] # x
  <2>1. i \in 1 .. n /\ i <= CountBefore(buffer, cutoff)
    BY <1>1, <1>2
  <2>2. buffer[i].ts < cutoff /\ buffer[i].ts \in Nat
    BY <2>1, DroppedBefore, ReadingTimes
  <2>3. x.ts \in Nat
    BY DEF Reading
  <2> QED BY <2>2, <2>3
<1>5. /\ DOMAIN t = 1 .. m
      /\ \A i \in 1 .. m : k + i \in 1 .. n /\ t[i] = buffer[k + i]
  BY <1>2, <1>3
<1> HIDE DEF n, t
<1>6. Occurrences(t, x) = Occurrences(buffer, x)
  <2>1. k \in 0 .. n /\ m \in Nat
    OBVIOUS
  <2>2. \A i \in 1 .. k : buffer[i] # x
    BY <1>4
  <2>3. DOMAIN t = 1 .. m
    BY <1>5
  <2>4. \A i \in 1 .. m : k + i \in 1 .. n /\ t[i] = buffer[k + i]
    BY <1>5
  <2> QED BY <1>1, <1>3, <2>1, <2>2, <2>3, <2>4, OccursAsOften, SMTT(60)
<1> QED BY <1>6 DEF t

-----------------------------------------------------------------------------
\* What the handlers do to it.

\* From where on the next evaluation of a rule looks at its buffer.
Reach(rule, st) ==
  IF rule.trigger = "window"
  THEN IF st.nextWindowEnd = Unset THEN 0 ELSE st.nextWindowEnd - rule.duration
  ELSE IF rule.lookback > 0 THEN st.nextSchedule - rule.lookback ELSE 0

\* The state holds what is to be looked at, and a scheduled rule has a date.
HoldsSpan(rule, st, trail) ==
  /\ rule.trigger = "scheduled" => st.nextSchedule # Unset
  /\ WholeSpan(st.buffer, trail, Reach(rule, st))

LEMMA ReachType ==
  ASSUME NEW rule \in Rule, NEW st \in RuleState
  PROVE  Reach(rule, st) \in Int
<1>1. st.nextWindowEnd \in Int /\ st.nextSchedule \in Int
  BY MomentIsInt DEF RuleState
<1>2. rule.duration \in Nat /\ rule.lookback \in Nat
  BY DEF Rule
<1> QED BY <1>1, <1>2 DEF Reach

LEMMA NarrowerSpan ==
  ASSUME NEW buffer, NEW trail, NEW start \in Int, WholeSpan(buffer, trail, start),
         NEW later \in Int, start <= later
  PROVE  WholeSpan(buffer, trail, later)
BY DEF WholeSpan, Reading

(* The date after an instant, whatever the offset of the rule.              *)
LEMMA NextCronFireLater ==
  ASSUME NEW after \in Nat, NEW cron \in Nat
  PROVE  NextCronFire(after, cron) \in Nat /\ after < NextCronFire(after, cron)
<1>1. PICK q \in Nat, m \in 0 .. Day - 1 : q = after \div Day /\ after = q * Day + m
  BY DayAssumption
<1>2. q * Day \in Nat
  BY DayAssumption
<1> QED BY <1>1, <1>2, DayAssumption DEF NextCronFire

LEMMA FreshSpan ==
  ASSUME NEW rule \in Rule, NEW now \in Nat
  PROVE  /\ FreshState(rule, now) \in RuleState
         /\ HoldsSpan(rule, FreshState(rule, now), << >>)
         /\ InOrderUpTo(FreshState(rule, now).buffer, now)
         /\ FreshState(rule, now).nextWindowEnd = Unset
         /\ rule.trigger = "scheduled" => FreshState(rule, now).nextSchedule > now
<1> DEFINE st == FreshState(rule, now)
<1>1. st \in RuleState /\ InOrderUpTo(st.buffer, now)
  BY FreshStateType, EmptyOrdered
<1>2. st.buffer = << >> /\ st.nextWindowEnd = Unset
  BY DEF FreshState, EmptyState
<1>3. rule.trigger = "scheduled" => st.nextSchedule = NextCronFire(now, rule.cron)
  BY DEF FreshState, EmptyState
<1>4. rule.cron \in Nat
  BY DEF Rule
<1>5. rule.trigger = "scheduled" => st.nextSchedule > now /\ st.nextSchedule # Unset
  <2>1. NextCronFire(now, rule.cron) \in Nat /\ now < NextCronFire(now, rule.cron)
    BY <1>4, NextCronFireLater
  <2> HIDE DEF st
  <2> QED BY <1>3, <2>1 DEF Unset
<1>6. ReadingsOf(<< >>) = << >>
  BY DEF ReadingsOf
<1>7. WholeSpan(st.buffer, << >>, Reach(rule, st))
  BY <1>2, <1>6 DEF WholeSpan
<1> QED BY <1>1, <1>2, <1>5, <1>7 DEF HoldsSpan

(* A rule prunes no further back than its next evaluation will look, and    *)
(* then keeps the event.                                                    *)
LEMMA InOrderSpan ==
  ASSUME NEW rule, Compiled(rule), Buffers(rule), NEW st \in RuleState, NEW ev \in Event,
         NEW limit \in Int, InOrderUpTo(st.buffer, limit),
         NEW trail \in Seq(Event), HoldsSpan(rule, st, trail),
         rule.trigger = "window" /\ st.nextWindowEnd # Unset => st.nextWindowEnd > ev.ts,
         rule.trigger = "scheduled" => st.nextSchedule > ev.ts
  PROVE  HoldsSpan(rule, InOrder(rule, st, ev).state, Append(trail, ev))
<1> DEFINE new == InOrder(rule, st, ev).state
           pruned == Prune(rule, st, ev.ts)
           cutoff == ev.ts - Span(rule)
<1>1. rule \in Rule /\ ev.ts \in Nat /\ st.buffer \in Seq(Reading)
  BY DEF Compiled, Event, RuleState
<1>2. /\ new \in RuleState
      /\ new.buffer = Append(pruned.buffer, AsReading(ev))
      /\ new.nextWindowEnd = pruned.nextWindowEnd
      /\ new.nextSchedule = st.nextSchedule
  <2>1. PICK mid \in RuleState :
          /\ InOrder(rule, st, ev) \in Sequel(rule, mid, ev.ts)
          /\ Episode(mid) = Episode(st)
          /\ mid.buffer = IF Buffers(rule)
                          THEN Append(Prune(rule, st, ev.ts).buffer, AsReading(ev))
                          ELSE Prune(rule, st, ev.ts).buffer
          /\ mid.nextWindowEnd = Prune(rule, st, ev.ts).nextWindowEnd
          /\ mid.nextSchedule = st.nextSchedule
          /\ mid.closed = st.closed
    BY InOrderCases
  <2>2. Alongside(new) = Alongside(mid)
    BY <1>1, <2>1, SequelAlongside
  <2>3. new \in RuleState
    BY InOrderType DEF Outcome
  <2> QED BY <2>1, <2>2, <2>3 DEF Alongside
<1>3. /\ rule.duration \in Nat /\ rule.lookback \in Nat /\ rule.slide \in Nat
      /\ rule.trigger = "window" => 0 < rule.slide /\ rule.slide <= rule.duration
                                    /\ rule.lookback = 0
      /\ rule.trigger # "window" => rule.duration = 0
      /\ rule.trigger = "window" \/ rule.trigger = "scheduled"
  BY DEF Compiled, WellFormed, Rule, Buffers
<1>4. st.nextWindowEnd \in Int /\ st.nextSchedule \in Int
  BY MomentIsInt DEF RuleState
<1>5. AsReading(ev) \in Reading
  BY AsReadingType
<1>6. Span(rule) \in Nat /\ Span(rule) = IF rule.trigger = "window" THEN rule.duration
                                         ELSE rule.lookback
  BY <1>3 DEF Span, MaxOf
<1>7. /\ pruned.buffer = IF Span(rule) = 0 THEN st.buffer ELSE DropBefore(st.buffer, cutoff)
      /\ pruned.nextWindowEnd = IF Span(rule) # 0 /\ rule.trigger = "window"
                                   /\ st.nextWindowEnd = Unset
                                THEN AlignWindowEnd(ev.ts, rule.slide) ELSE st.nextWindowEnd
  BY DEF Prune, RuleState
<1> HIDE DEF new, pruned
<1>8. rule.trigger = "window" =>
        AlignWindowEnd(ev.ts, rule.slide) \in Nat /\ AlignWindowEnd(ev.ts, rule.slide) > ev.ts
  <2> SUFFICES ASSUME rule.trigger = "window"
               PROVE  AlignWindowEnd(ev.ts, rule.slide) \in Nat
                        /\ AlignWindowEnd(ev.ts, rule.slide) > ev.ts
    OBVIOUS
  <2>1. rule.slide \in Nat \ {0}
    BY <1>3
  <2>2. AlignWindowEnd(ev.ts, rule.slide) \in Nat /\ ev.ts < AlignWindowEnd(ev.ts, rule.slide)
    BY <1>1, <2>1, AlignWindowEndNext
  <2> QED BY <1>1, <2>2
<1>9. /\ Reach(rule, st) \in Int /\ Reach(rule, new) \in Int
      /\ Span(rule) # 0 => cutoff <= Reach(rule, new)
      /\ Reach(rule, st) <= Reach(rule, new) \/ Reach(rule, st) = 0
  <2>1. CASE rule.trigger = "window"
    BY SMTT(30), <1>1, <1>2, <1>3, <1>4, <1>6, <1>7, <1>8, <2>1 DEF Reach, Unset
  <2>2. CASE rule.trigger = "scheduled"
    BY <1>1, <1>2, <1>3, <1>4, <1>6, <2>2 DEF Reach
  <2> QED BY <1>3, <2>1, <2>2
<1>10. cutoff \in Int
  BY <1>1, <1>6
<1> HIDE DEF cutoff
<1>11. ASSUME NEW x \in Reading, x.ts >= Reach(rule, new)
       PROVE  Occurrences(new.buffer, x) = Occurrences(ReadingsOf(Append(trail, ev)), x)
  <2>1. x.ts \in Nat
    BY DEF Reading
  <2>2. x.ts >= Reach(rule, st) /\ (Span(rule) # 0 => x.ts >= cutoff)
    BY <1>9, <1>10, <1>11, <2>1
  <2>3. Occurrences(st.buffer, x) = Occurrences(ReadingsOf(trail), x)
    BY <2>2 DEF HoldsSpan, WholeSpan
  <2>4. Occurrences(pruned.buffer, x) = Occurrences(st.buffer, x)
    BY <1>1, <1>7, <1>10, <2>2, DroppedAsOften
  <2>5. pruned.buffer \in Seq(Reading)
    BY <1>1, <1>7, DropBeforeType
  <2> QED BY <1>2, <1>5, <2>3, <2>4, <2>5, AppendedOnceMore, TrailGrows
<1>12. rule.trigger = "scheduled" => new.nextSchedule # Unset
  BY <1>2 DEF HoldsSpan
<1> QED BY <1>11, <1>12 DEF HoldsSpan, WholeSpan, new

(* A late event is kept, and nothing is pruned.                             *)
LEMMA OnLateSpan ==
  ASSUME NEW rule \in Rule, Buffers(rule), NEW st \in RuleState, NEW ev \in Event,
         NEW limit \in Int, InOrderUpTo(st.buffer, limit),
         NEW trail \in Seq(Event), HoldsSpan(rule, st, trail)
  PROVE  HoldsSpan(rule, OnLate(rule, st, ev).state, Append(trail, ev))
<1> DEFINE new == OnLate(rule, st, ev).state
<1>1. ev.ts \in Nat /\ st.buffer \in Seq(Reading) /\ AsReading(ev) \in Reading
  BY AsReadingType DEF Event, RuleState
<1>2. /\ new.buffer = InsertInOrder(st.buffer, AsReading(ev))
      /\ new.nextWindowEnd = st.nextWindowEnd
      /\ new.nextSchedule = st.nextSchedule
  <2>1. PICK mid \in RuleState :
           /\ OnLate(rule, st, ev) \in Sequel(rule, mid, ev.ts)
           /\ rule.trigger # "event" => OnLate(rule, st, ev) = Silent(mid)
           /\ Episode(mid) = Episode(st)
           /\ mid.buffer = IF Buffers(rule) THEN InsertInOrder(st.buffer, AsReading(ev))
                           ELSE st.buffer
           /\ mid.nextWindowEnd = st.nextWindowEnd
           /\ mid.nextSchedule = st.nextSchedule
           /\ mid.closed = st.closed
    BY OnLateCases
  <2>2. Alongside(new) = Alongside(mid)
    BY <1>1, <2>1, SequelAlongside
  <2> QED BY <2>1, <2>2 DEF Alongside
<1>3. Reach(rule, new) = Reach(rule, st)
  BY <1>2 DEF Reach
<1> HIDE DEF new
<1>4. ASSUME NEW x \in Reading, x.ts >= Reach(rule, st)
      PROVE  Occurrences(new.buffer, x) = Occurrences(ReadingsOf(Append(trail, ev)), x)
  <2>1. Occurrences(st.buffer, x) = Occurrences(ReadingsOf(trail), x)
    BY <1>4 DEF HoldsSpan, WholeSpan
  <2> QED BY <1>1, <1>2, <2>1, InsertedOnceMore, TrailGrows
<1> QED BY <1>2, <1>3, <1>4 DEF HoldsSpan, WholeSpan, new

(* A timer moves what the rule will look at forward.                        *)
LEMMA OnTimerSpan ==
  ASSUME NEW rule, Compiled(rule), NEW st \in RuleState, NEW now \in Nat, NEW remember,
         NEW trail, HoldsSpan(rule, st, trail)
  PROVE  HoldsSpan(rule, OnTimer(rule, st, now, remember).state, trail)
<1> DEFINE new == OnTimer(rule, st, now, remember).state
<1>1. rule \in Rule /\ rule.slide \in Nat /\ rule.cron \in Nat /\ rule.lookback \in Nat
      /\ rule.duration \in Nat
  BY DEF Compiled, Rule
<1>2. /\ new.buffer = st.buffer
      /\ new.nextWindowEnd = IF rule.trigger = "window" /\ st.nextWindowEnd = now
                             THEN now + rule.slide ELSE st.nextWindowEnd
      /\ new.nextSchedule = IF rule.trigger = "scheduled" /\ st.nextSchedule = now
                            THEN NextCronFire(now, rule.cron) ELSE st.nextSchedule
  BY <1>1, OnTimerTimers
<1>3. new \in RuleState
  BY <1>1, OnTimerType DEF Outcome
<1> HIDE DEF new
<1>4. NextCronFire(now, rule.cron) \in Nat /\ now < NextCronFire(now, rule.cron)
  BY <1>1, NextCronFireLater
<1>5. st.nextWindowEnd \in Int /\ st.nextSchedule \in Int
  BY MomentIsInt DEF RuleState
<1>6. Reach(rule, st) \in Int /\ Reach(rule, new) \in Int
  BY <1>1, <1>3, ReachType
<1>7. rule.trigger = "scheduled" => new.nextSchedule # Unset
  BY <1>2, <1>4 DEF HoldsSpan, Unset
<1>8. Reach(rule, st) <= Reach(rule, new)
  BY <1>1, <1>2, <1>4, <1>5 DEF Reach, Unset
<1>9. WholeSpan(new.buffer, trail, Reach(rule, new))
  BY <1>2, <1>6, <1>8, NarrowerSpan DEF HoldsSpan
<1> QED BY <1>7, <1>9 DEF HoldsSpan, new

LEMMA RecomputeSpan ==
  ASSUME NEW rule \in Rule, NEW st \in RuleState, NEW end \in Nat,
         NEW trail, HoldsSpan(rule, st, trail)
  PROVE  HoldsSpan(rule, RecomputeWindow(rule, st, end).state, trail)
<1>1. Alongside(RecomputeWindow(rule, st, end).state) = Alongside(st)
  BY RecomputeAlongside
<1> QED BY <1>1 DEF Alongside, HoldsSpan, Reach

-----------------------------------------------------------------------------
\* The steps of an engine that is not reloaded, and what they log.

\* Nothing is staged, and no partition drains.
NoReloads == pending = NoReload /\ \A r \in RuleIds : draining[r] = NoDrain

\* The closed windows of a rule in a partition that wait to be asked again.
Open(p, r) == {x.end : x \in {y \in call.reopen : y.p = p /\ y.r = r}}

\* The rule is not concerned.
LeavesAlone(p, r) ==
  /\ states'[p][r] = states[p][r] /\ log'[p][r] = log[p][r]
  /\ Open(p, r) \subseteq Open(p, r)'

\* An event is handed to a rule once the timers due before it have fired.
HandsTo(p, r, ev) ==
  /\ ev \in Event /\ rules[r] # NoRule /\ p \in SeenIn(rules[r], ev)
  /\ entityWm' = [entityWm EXCEPT ![ev.entity] = MaxOf(@, ev.ts)]
  /\ AppliesToEntity(rules[r], ev.entity) /\ Limit' = ev.ts
  /\ states'[p][r] = InOrder(rules[r], Ensured(rules[r], states[p][r], ev.ts), ev).state
  /\ log'[p][r] = Extended(rules[r], log[p][r], ev)
  /\ states[p][r] # NoState => \A due \in DueTimes(rules[r], states[p][r]) : due > ev.ts

FoldsInto(p, r, ev) ==
  /\ ev \in Event /\ rules[r] # NoRule /\ watermark \in Nat
  /\ ev \in Offered /\ FoldLate(ev) /\ p \in FoldedIn(ev, r) /\ Open(p, r) = {}
  /\ states'[p][r] = OnLate(rules[r], Ensured(rules[r], states[p][r], watermark), ev).state
  /\ log'[p][r] = Extended(rules[r], log[p][r], ev)

TicksAt(p, r, due) ==
  /\ due \in Nat /\ due <= Limit' /\ states[p][r] # NoState
  /\ states'[p][r] = OnTimer(rules[r], states[p][r], due, RecomputeLate).state
  /\ log'[p][r] = log[p][r] /\ Open(p, r)' = Open(p, r)

AsksAgain(p, r, end) ==
  /\ end \in Nat /\ states[p][r] # NoState
  /\ states'[p][r] = RecomputeWindow(rules[r], states[p][r], end).state
  /\ log'[p][r] = log[p][r] /\ Open(p, r)' = Open(p, r) \ {end}

HistTurn(p, r) ==
  \/ LeavesAlone(p, r)
  \/ \E ev : HandsTo(p, r, ev) \/ FoldsInto(p, r, ev)
  \/ \E t : TicksAt(p, r, t) \/ AsksAgain(p, r, t)

(* The history watches the engine, which makes the steps it always makes.   *)
LEMMA HistNextIsNext == [HistNext]_histVars => [Next]_vars
<1>1. HistNext => Next
  BY DEF HistNext, Next, ProcessEvent, Progress
<1> QED BY <1>1 DEF histVars

LEMMA GovernedByRules ==
  ASSUME NoReloads, NEW p, NEW r \in RuleIds
  PROVE  RuleFor(rules, draining, p, r) = rules[r]
BY DEF NoReloads, NoDrain, RuleFor

LEMMA CommitUndrained ==
  ASSUME NoReloads, NEW outcome, NEW sofar, Commit(outcome, sofar, draining)
  PROVE  /\ \A r \in RuleIds : draining'[r] = NoDrain
         /\ \A p \in Partitions, r \in RuleIds : states'[p][r] = outcome[p][r].state
<1>1. \A finished : FinishDrain(NoDrain, finished) = NoDrain
  BY DEF FinishDrain, NoDrain
<1> QED BY <1>1 DEF Commit, NoReloads

LEMMA RecordedAt ==
  ASSUME NEW ev, NEW In(_), Record(ev, In), NEW p \in Partitions, NEW r \in RuleIds
  PROVE  log'[p][r] = IF p \in In(r) THEN Extended(rules[r], log[p][r], ev) ELSE log[p][r]
BY DEF Record

LEMMA DeliverUndrained ==
  ASSUME NoReloads, NEW ev, NEW sofar, Deliver(ev, rules, states, draining, sofar)
  PROVE  \A r \in RuleIds : draining'[r] = NoDrain
BY CommitUndrained DEF Deliver

LEMMA DeliveredTo ==
  ASSUME NoReloads, NEW ev \in Event, NEW sofar, Deliver(ev, rules, states, draining, sofar),
         Record(ev, LAMBDA r : SeenIn(rules[r], ev)),
         NEW p \in Partitions, NEW r \in RuleIds,
         states[p][r] # NoState => \A due \in DueTimes(rules[r], states[p][r]) : due > ev.ts,
         Limit' = ev.ts, Open(p, r) = {}
  PROVE  HistTurn(p, r)
<1>1. /\ draining'[r] = NoDrain
      /\ states'[p][r] = IF p \in SeenIn(rules[r], ev)
                         THEN InOrder(rules[r], Ensured(rules[r], states[p][r], ev.ts), ev).state
                         ELSE Silent(states[p][r]).state
  BY CommitUndrained, GovernedByRules DEF Deliver
<1>2. log'[p][r] = IF p \in SeenIn(rules[r], ev) THEN Extended(rules[r], log[p][r], ev)
                   ELSE log[p][r]
  BY DEF Record
<1>3. Silent(states[p][r]).state = states[p][r]
  BY DEF Silent
<1>4. p \in SeenIn(rules[r], ev) => rules[r] # NoRule /\ AppliesToEntity(rules[r], ev.entity)
  BY DEF SeenIn
<1>5. entityWm' = [entityWm EXCEPT ![ev.entity] = MaxOf(@, ev.ts)]
  BY DEF Deliver
<1> QED BY <1>1, <1>2, <1>3, <1>4, <1>5 DEF HistTurn, HandsTo, LeavesAlone

LEMMA HistTurnTaken ==
  ASSUME EngineInv, NoReloads, [HistNext]_histVars
  PROVE  /\ NoReloads' /\ rules' = rules
         /\ \A p \in Partitions, r \in RuleIds : HistTurn(p, r)
<1> DEFINE Goal == /\ pending' = NoReload /\ rules' = rules
                   /\ \A r \in RuleIds : draining'[r] = NoDrain
                   /\ \A p \in Partitions, r \in RuleIds : HistTurn(p, r)
<1>0. ASSUME call.stage # "recompute", NEW p, NEW r
      PROVE  Open(p, r) = {}
  BY <1>0 DEF Open, EngineInv, StateInv
<1>1. ASSUME UNCHANGED log, UNCHANGED <<rules, states, draining, pending>>,
             call.stage # "recompute" \/ call' = call
      PROVE  Goal
  <2>1. \A p \in Partitions, r \in RuleIds : Open(p, r) \subseteq Open(p, r)'
    BY <1>0, <1>1 DEF Open
  <2> QED BY <1>1, <2>1 DEF HistTurn, LeavesAlone, NoReloads
<1>2. ASSUME NEW ev \in Offered, FirstEvent(ev), Record(ev, LAMBDA r : SeenIn(rules[r], ev))
      PROVE  Goal
  <2>1. ev \in Event
    BY EngineAssumption
  <2>2. \A p \in Partitions, r \in RuleIds : states[p][r] = NoState
    BY <1>2 DEF FirstEvent, Serve, EngineInv, BeforeTime
  <2>3. Deliver(ev, rules, states, draining, Quiet) /\ rules' = rules /\ pending' = pending
    BY <1>2 DEF FirstEvent
  <2>4. Limit' = ev.ts
    BY <1>2 DEF FirstEvent, Serve, Limit
  <2>5. \A p \in Partitions, r \in RuleIds : Open(p, r) = {}
    BY <1>0, <1>2 DEF FirstEvent, Serve
  <2> QED BY <1>2, <2>1, <2>2, <2>3, <2>4, <2>5, DeliveredTo, DeliverUndrained DEF NoReloads
<1>3. ASSUME NEW ev \in Offered, FoldLate(ev), Record(ev, LAMBDA r : FoldedIn(ev, r))
      PROVE  Goal
  <2>1. ev \in Event /\ watermark \in Nat
    BY <1>3, EngineAssumption DEF FoldLate, Behind, EngineInv, ProgressInv, StateInv, Moment, Unset
  <2>2. rules' = rules /\ pending' = NoReload /\ \A r \in RuleIds : draining'[r] = NoDrain
    BY <1>3, CommitUndrained DEF FoldLate, NoReloads
  <2>3. ASSUME NEW p \in Partitions, NEW r \in RuleIds
        PROVE  HistTurn(p, r)
    <3>1. states'[p][r] =
            IF p \in FoldedIn(ev, r)
            THEN OnLate(rules[r], Ensured(rules[r], states[p][r], watermark), ev).state
            ELSE Silent(states[p][r]).state
      BY <1>3, CommitUndrained DEF FoldLate
    <3>2. log'[p][r] = IF p \in FoldedIn(ev, r) THEN Extended(rules[r], log[p][r], ev)
                       ELSE log[p][r]
      BY <1>3 DEF Record
    <3>3. Silent(states[p][r]).state = states[p][r]
      BY DEF Silent
    <3>4. p \in FoldedIn(ev, r) => rules[r] # NoRule
      BY DEF SeenIn, FoldedIn
    <3>5. Open(p, r) = {}
      BY <1>0, <1>3 DEF FoldLate, Serve
    <3> QED BY <1>3, <2>1, <3>1, <3>2, <3>3, <3>4, <3>5 DEF HistTurn, FoldsInto, LeavesAlone
  <2> QED BY <2>2, <2>3
<1>4. ASSUME FireDue, UNCHANGED log
      PROVE  Goal
  <2>1. PICK due \in AllDueTimes :
          /\ due <= call.target
          /\ Commit([p \in Partitions |-> [r \in RuleIds |->
                       IF states[p][r] = NoState THEN Silent(NoState)
                       ELSE OnTimer(RuleFor(rules, draining, p, r), states[p][r], due,
                                    RecomputeLate)]],
                    out, draining)
    BY <1>4 DEF FireDue
  <2>2. due \in Nat
    <3>1. PICK q \in Live : due \in DueTimes(Governing(q), states[q[1]][q[2]])
      BY <2>1 DEF AllDueTimes
    <3>2. /\ q[1] \in Partitions /\ q[2] \in RuleIds /\ states[q[1]][q[2]] # NoState
          /\ Governing(q) = rules[q[2]]
      BY <3>1, GovernedByRules DEF Live, Governing
    <3>3. states[q[1]][q[2]] \in RuleState /\ Compiled(rules[q[2]])
      BY <3>2 DEF EngineInv, StateInv, StatesOK, RulesOK
    <3> QED BY <3>1, <3>2, <3>3, DueTimesType
  <2>4. \A r \in RuleIds : draining'[r] = NoDrain
    BY <2>1, CommitUndrained
  <2>3. ASSUME NEW p \in Partitions, NEW r \in RuleIds
        PROVE  HistTurn(p, r)
    <3>1. states'[p][r] = IF states[p][r] = NoState THEN Silent(NoState).state
                          ELSE OnTimer(rules[r], states[p][r], due, RecomputeLate).state
      BY <2>1, CommitUndrained, GovernedByRules
    <3>2. Silent(NoState).state = NoState
      BY DEF Silent
    <3>3. due <= Limit' /\ Open(p, r)' = Open(p, r)
      BY <1>4, <2>1 DEF FireDue, Limit, Open
    <3> QED BY <1>4, <2>2, <3>1, <3>2, <3>3 DEF HistTurn, TicksAt, LeavesAlone
  <2> QED BY <1>4, <2>3, <2>4 DEF FireDue, NoReloads
<1>5. ASSUME Settle, IF call.event = NoEvent THEN UNCHANGED log
                     ELSE Record(call.event, LAMBDA r : SeenIn(rules[r], call.event))
      PROVE  Goal
  <2>1. Activated(call.target) = [rules |-> rules, states |-> states, draining |-> draining]
    BY DEF Activated, Activates, NoReloads
  <2>2. rules' = rules /\ pending' = NoReload
    BY <1>5, <2>1 DEF Settle, NoReloads, Activates
  <2>3. CASE call.event = NoEvent
    <3>1. UNCHANGED log /\ states' = states /\ draining' = draining
      BY <1>5, <2>1, <2>3 DEF Settle
    <3>2. \A p \in Partitions, r \in RuleIds : Open(p, r) = {}
      BY <1>0, <1>5 DEF Settle
    <3> QED BY <2>2, <3>1, <3>2 DEF HistTurn, LeavesAlone, NoReloads
  <2>4. CASE call.event # NoEvent
    <3>1. call.event \in Event /\ call.target = call.event.ts
      BY <1>5, <2>4 DEF Settle, EngineInv, ProgressInv, StateInv, Call
    <3>2. Deliver(call.event, rules, states, draining, out)
      BY <1>5, <2>1, <2>4 DEF Settle
    <3>3. ASSUME NEW p \in Partitions, NEW r \in RuleIds, states[p][r] # NoState,
                 NEW due \in DueTimes(rules[r], states[p][r])
          PROVE  due > call.event.ts
      <4>1. <<p, r>> \in Live /\ Governing(<<p, r>>) = rules[r]
        BY <3>3, GovernedByRules DEF Live, Governing
      <4>2. due \in AllDueTimes
        BY <3>3, <4>1 DEF AllDueTimes
      <4> QED BY <1>5, <3>1, <4>2 DEF Settle, TimersRun
    <3>4. Limit' = call.event.ts
      BY <1>5, <3>1 DEF Settle, Idle, Limit
    <3>5. \A p \in Partitions, r \in RuleIds : Open(p, r) = {}
      BY <1>0, <1>5 DEF Settle
    <3>6. \A r \in RuleIds : draining'[r] = NoDrain
      BY <3>2, DeliverUndrained
    <3>7. Record(call.event, LAMBDA r : SeenIn(rules[r], call.event))
      BY <1>5, <2>4
    <3>8. \A p \in Partitions, r \in RuleIds : HistTurn(p, r)
      BY <3>1, <3>2, <3>3, <3>4, <3>5, <3>7, DeliveredTo
    <3> QED BY <2>2, <3>6, <3>8
  <2> QED BY <2>3, <2>4
<1>6. ASSUME NEW x \in call.reopen, Recompute(x), UNCHANGED log
      PROVE  Goal
  <2>1. x.end \in Nat
    BY DEF EngineInv, StateInv, Call, Reopened
  <2>2. ASSUME NEW p \in Partitions, NEW r \in RuleIds
        PROVE  HistTurn(p, r)
    <3>1. states'[p][r] = IF p = x.p /\ r = x.r
                          THEN RecomputeWindow(rules[r], states[p][r], x.end).state
                          ELSE Silent(states[p][r]).state
      BY <1>6, CommitUndrained DEF Recompute
    <3>2. Silent(states[p][r]).state = states[p][r]
      BY DEF Silent
    <3>3. p = x.p /\ r = x.r => states[p][r] # NoState
      BY DEF EngineInv, StateInv
    <3>4. call'.reopen = call.reopen \ {x}
      BY <1>6 DEF Recompute, Idle, EngineInv, StateInv, Call
    <3>5. \A y \in call.reopen : y.p = x.p /\ y.r = x.r /\ y.end = x.end => y = x
      BY DEF EngineInv, StateInv, Call, Reopened
    <3>6. CASE p = x.p /\ r = x.r
      <4>1. Open(p, r)' = Open(p, r) \ {x.end}
        BY <3>4, <3>5, <3>6 DEF Open
      <4> QED BY <1>6, <2>1, <3>1, <3>3, <3>6, <4>1 DEF HistTurn, AsksAgain
    <3>7. CASE ~(p = x.p /\ r = x.r)
      <4>1. Open(p, r) \subseteq Open(p, r)'
        BY <3>4, <3>7 DEF Open
      <4> QED BY <1>6, <3>1, <3>2, <3>7, <4>1 DEF HistTurn, LeavesAlone
    <3> QED BY <3>6, <3>7
  <2>3. \A r \in RuleIds : draining'[r] = NoDrain
    BY <1>6, CommitUndrained DEF Recompute
  <2> QED BY <1>6, <2>2, <2>3 DEF Recompute, NoReloads
<1>7. ASSUME NEW ev \in Offered, RefuseLate(ev) \/ AcceptEvent(ev), UNCHANGED log
      PROVE  Goal
  BY <1>1, <1>7 DEF RefuseLate, AcceptEvent, Serve
<1>8. ASSUME NEW t \in 0 .. MaxTime, FirstAdvance(t) \/ AdvanceTo(t), UNCHANGED log
      PROVE  Goal
  BY <1>1, <1>8 DEF FirstAdvance, AdvanceTo, Serve
<1>9. ASSUME UNCHANGED histVars
      PROVE  Goal
  BY <1>1, <1>9 DEF histVars, vars
<1>10. Goal
  BY <1>2, <1>3, <1>4, <1>5, <1>6, <1>7, <1>8, <1>9 DEF HistNext
<1> QED BY <1>10 DEF NoReloads

-----------------------------------------------------------------------------
\* The open spans.

\* What has been handed to a rule is on the trail, and what it can still look
\* at is in its buffer.
TrailInv ==
  /\ log \in [Partitions -> [RuleIds -> Seq(Event)]]
  /\ \A p \in Partitions, r \in RuleIds :
       /\ states[p][r] = NoState => log[p][r] = << >>
       /\ states[p][r] # NoState /\ Buffers(rules[r]) =>
            HoldsSpan(rules[r], states[p][r], log[p][r])

LEMMA TrailInit ==
  ASSUME HistInit
  PROVE  NoReloads /\ TrailInv
<1>1. << >> \in Seq(Event)
  BY EmptySeq
<1>2. \A p \in Partitions, r \in RuleIds : states[p][r] = NoState /\ log[p][r] = << >>
  BY DEF HistInit, Init, Quiet
<1>3. log \in [Partitions -> [RuleIds -> Seq(Event)]]
  BY <1>1 DEF HistInit, Quiet
<1>4. NoReloads
  BY DEF HistInit, Init, NoReloads
<1> QED BY <1>2, <1>3, <1>4 DEF TrailInv

LEMMA ExtendedType ==
  ASSUME NEW rule, NEW trail \in Seq(Event), NEW ev \in Event
  PROVE  /\ Extended(rule, trail, ev) \in Seq(Event)
         /\ Buffers(rule) => Extended(rule, trail, ev) = Append(trail, ev)
<1>1. Append(trail, ev) \in Seq(Event) /\ << >> \in Seq(Event)
  BY AppendProperties, EmptySeq
<1> QED BY <1>1 DEF Extended, Buffers

LEMMA LogTypeStep ==
  ASSUME log \in [Partitions -> [RuleIds -> Seq(Event)]], HistNext, EngineInv
  PROVE  log' \in [Partitions -> [RuleIds -> Seq(Event)]]
<1>1. ASSUME NEW ev \in Event, NEW In(_), Record(ev, In)
      PROVE  log' \in [Partitions -> [RuleIds -> Seq(Event)]]
  BY <1>1, ExtendedType DEF Record
<1>2. ASSUME NEW ev \in Offered
      PROVE  ev \in Event
  BY EngineAssumption
<1>3. CASE UNCHANGED log
  BY <1>3
<1>4. ASSUME NEW ev \in Offered, Record(ev, LAMBDA r : SeenIn(rules[r], ev))
      PROVE  log' \in [Partitions -> [RuleIds -> Seq(Event)]]
  BY <1>2, <1>4, ExtendedType DEF Record
<1>5. ASSUME NEW ev \in Offered, Record(ev, LAMBDA r : FoldedIn(ev, r))
      PROVE  log' \in [Partitions -> [RuleIds -> Seq(Event)]]
  BY <1>2, <1>5, ExtendedType DEF Record
<1>6. ASSUME Settle, call.event # NoEvent,
             Record(call.event, LAMBDA r : SeenIn(rules[r], call.event))
      PROVE  log' \in [Partitions -> [RuleIds -> Seq(Event)]]
  <2>1. call.event \in Event
    BY <1>6 DEF Settle, EngineInv, ProgressInv
  <2> QED BY <1>6, <2>1, ExtendedType DEF Record
<1> QED BY <1>3, <1>4, <1>5, <1>6 DEF HistNext

(* Nothing a step does takes away what an open window or the next run of a  *)
(* schedule will look at.                                                   *)
LEMMA TrailStep ==
  ASSUME EngineInv, BufferInv, NoReloads, TrailInv, [HistNext]_histVars
  PROVE  TrailInv'
<1>1. log' \in [Partitions -> [RuleIds -> Seq(Event)]]
  BY LogTypeStep DEF TrailInv, histVars
<1> SUFFICES ASSUME NEW p \in Partitions, NEW r \in RuleIds
             PROVE  /\ states'[p][r] = NoState => log'[p][r] = << >>
                    /\ states'[p][r] # NoState /\ Buffers(rules[r]) =>
                         HoldsSpan(rules[r], states'[p][r], log'[p][r])
  BY <1>1, HistTurnTaken DEF TrailInv
<1>2. /\ log[p][r] \in Seq(Event)
      /\ states[p][r] = NoState => log[p][r] = << >>
      /\ states[p][r] # NoState /\ Buffers(rules[r]) =>
           HoldsSpan(rules[r], states[p][r], log[p][r])
  BY DEF TrailInv
<1>3. rules[r] # NoRule => Compiled(rules[r]) /\ rules[r] \in Rule
  BY DEF EngineInv, StateInv, RulesOK, Compiled
<1>4. states[p][r] # NoState =>
        states[p][r] \in RuleState /\ Compiled(rules[r]) /\ rules[r] \in Rule
  BY DEF EngineInv, StateInv, RulesOK, StatesOK, Compiled
<1>5. NoState \notin RuleState
  BY EngineAssumption
<1>6. CASE LeavesAlone(p, r)
  BY <1>2, <1>6 DEF LeavesAlone
<1>7. ASSUME NEW ev, HandsTo(p, r, ev)
      PROVE  /\ states'[p][r] # NoState
             /\ Buffers(rules[r]) => HoldsSpan(rules[r], states'[p][r], log'[p][r])
  <2> DEFINE was == Ensured(rules[r], states[p][r], ev.ts)
  <2>1. /\ ev \in Event /\ ev.ts \in Nat /\ Compiled(rules[r]) /\ rules[r] \in Rule
        /\ states'[p][r] = InOrder(rules[r], was, ev).state
    BY <1>3, <1>7 DEF HandsTo, Event
  <2>2. was \in RuleState
    BY <1>4, <2>1, FreshSpan DEF Ensured
  <2>3. states'[p][r] # NoState
    BY <1>5, <2>1, <2>2, InOrderType DEF Outcome
  <2>4. ASSUME Buffers(rules[r])
        PROVE  HoldsSpan(rules[r], states'[p][r], log'[p][r])
    <3>1. /\ \E limit \in Int : InOrderUpTo(was.buffer, limit)
          /\ HoldsSpan(rules[r], was, log[p][r])
          /\ rules[r].trigger = "window" /\ was.nextWindowEnd # Unset =>
               was.nextWindowEnd > ev.ts
          /\ rules[r].trigger = "scheduled" => was.nextSchedule > ev.ts
      <4>1. CASE states[p][r] = NoState
        <5>1. was = FreshState(rules[r], ev.ts)
          BY <4>1 DEF Ensured
        <5>2. ev.ts \in Int
          BY <2>1
        <5> HIDE DEF was
        <5> QED BY <1>2, <2>1, <4>1, <5>1, <5>2, FreshSpan
      <4>2. CASE states[p][r] # NoState
        <5>1. was = states[p][r]
          BY <4>2 DEF Ensured
        <5>2. Limit \in Int
          BY HistNextIsNext, LimitGrows, MomentIsInt DEF EngineInv
        <5>3. InOrderUpTo(was.buffer, Limit)
          BY <4>2, <5>1 DEF BufferInv
        <5>4. HoldsSpan(rules[r], was, log[p][r])
          BY <1>2, <2>4, <4>2, <5>1
        <5>5. \A due \in TriggerDueTimes(rules[r], was) : due > ev.ts
          BY <1>7, <4>2, <5>1 DEF HandsTo, DueTimes
        <5> HIDE DEF was
        <5>6. /\ rules[r].trigger = "window" /\ was.nextWindowEnd # Unset =>
                   was.nextWindowEnd > ev.ts
              /\ rules[r].trigger = "scheduled" => was.nextSchedule > ev.ts
          BY <5>4, <5>5 DEF TriggerDueTimes, HoldsSpan
        <5> QED BY <5>2, <5>3, <5>4, <5>6
      <4> QED BY <4>1, <4>2
    <3>2. log'[p][r] = Append(log[p][r], ev)
      BY <1>2, <1>7, <2>1, <2>4, ExtendedType DEF HandsTo
    <3> HIDE DEF was
    <3> QED BY <1>2, <2>1, <2>2, <2>4, <3>1, <3>2, InOrderSpan
  <2> QED BY <2>3, <2>4
<1>8. ASSUME NEW ev, FoldsInto(p, r, ev)
      PROVE  /\ states'[p][r] # NoState
             /\ Buffers(rules[r]) => HoldsSpan(rules[r], states'[p][r], log'[p][r])
  <2> DEFINE was == Ensured(rules[r], states[p][r], watermark)
  <2>1. /\ ev \in Event /\ watermark \in Nat /\ rules[r] \in Rule
        /\ states'[p][r] = OnLate(rules[r], was, ev).state
    BY <1>3, <1>8 DEF FoldsInto
  <2>2. was \in RuleState
    BY <1>4, <2>1, FreshSpan DEF Ensured
  <2>3. states'[p][r] # NoState
    BY <1>5, <2>1, <2>2, OnLateType DEF Outcome
  <2>4. ASSUME Buffers(rules[r])
        PROVE  HoldsSpan(rules[r], states'[p][r], log'[p][r])
    <3>1. /\ \E limit \in Int : InOrderUpTo(was.buffer, limit)
          /\ HoldsSpan(rules[r], was, log[p][r])
      <4>1. CASE states[p][r] = NoState
        <5>1. was = FreshState(rules[r], watermark)
          BY <4>1 DEF Ensured
        <5>2. watermark \in Int
          BY <2>1
        <5> HIDE DEF was
        <5> QED BY <1>2, <2>1, <4>1, <5>1, <5>2, FreshSpan
      <4>2. CASE states[p][r] # NoState
        <5>1. was = states[p][r]
          BY <4>2 DEF Ensured
        <5>2. Limit \in Int
          BY HistNextIsNext, LimitGrows, MomentIsInt DEF EngineInv
        <5>3. InOrderUpTo(was.buffer, Limit)
          BY <4>2, <5>1 DEF BufferInv
        <5> QED BY <1>2, <2>4, <4>2, <5>1, <5>2, <5>3
      <4> QED BY <4>1, <4>2
    <3>2. log'[p][r] = Append(log[p][r], ev)
      BY <1>2, <1>8, <2>1, <2>4, ExtendedType DEF FoldsInto
    <3> HIDE DEF was
    <3> QED BY <1>2, <2>1, <2>2, <2>4, <3>1, <3>2, OnLateSpan
  <2> QED BY <2>3, <2>4
<1>9. ASSUME NEW due, TicksAt(p, r, due)
      PROVE  /\ states'[p][r] # NoState
             /\ Buffers(rules[r]) => HoldsSpan(rules[r], states'[p][r], log'[p][r])
  BY <1>2, <1>4, <1>5, <1>9, OnTimerSpan, OnTimerType DEF TicksAt, Outcome
<1>10. ASSUME NEW end, AsksAgain(p, r, end)
       PROVE  /\ states'[p][r] # NoState
              /\ Buffers(rules[r]) => HoldsSpan(rules[r], states'[p][r], log'[p][r])
  <2>1. /\ end \in Nat /\ states[p][r] # NoState /\ log'[p][r] = log[p][r]
        /\ states'[p][r] = RecomputeWindow(rules[r], states[p][r], end).state
    BY <1>10 DEF AsksAgain
  <2>2. states'[p][r] # NoState
    BY <1>4, <1>5, <2>1, RecomputeWindowType DEF Outcome
  <2> QED BY <1>2, <1>4, <2>1, <2>2, RecomputeSpan
<1>11. HistTurn(p, r)
  BY HistTurnTaken
<1> QED BY <1>6, <1>7, <1>8, <1>9, <1>10, <1>11 DEF HistTurn

LEMMA WholeSpanCovers ==
  ASSUME NEW buffer, NEW trail \in Seq(Event), NEW start \in Int,
         WholeSpan(buffer, trail, start), NEW later \in Int, start <= later
  PROVE  Covers(buffer, trail, later)
<1> SUFFICES ASSUME NEW i \in DOMAIN trail, AsReading(trail[i]).ts >= later
             PROVE  Occurrences(buffer, AsReading(trail[i]))
                      = Occurrences(ReadingsOf(trail), AsReading(trail[i]))
  BY DEF Covers, ReadingsOf
<1>1. trail[i] \in Event
  BY LenProperties
<1>2. AsReading(trail[i]) \in Reading /\ AsReading(trail[i]).ts \in Nat
  BY <1>1, AsReadingType DEF Reading
<1>3. AsReading(trail[i]).ts >= start
  BY <1>2
<1> QED BY <1>2, <1>3 DEF WholeSpan

LEMMA HistEngineInv == HistSpec => [](EngineInv /\ BufferInv)
<1>1. HistInit => Init
  BY DEF HistInit
<1>2. Init => BufferInv
  BY DEF Init, BufferInv
<1>3. Init => EngineInv
  BY ProgressInit, StateInit, DefinitionsInit DEF EngineInv
<1>4. EngineInv /\ BufferInv /\ [HistNext]_histVars => (EngineInv /\ BufferInv)'
  BY HistNextIsNext, EngineInvStep, BufferStep
<1> QED BY <1>1, <1>2, <1>3, <1>4, PTL DEF HistSpec

(* What the next window or the next run of a schedule will look at is in    *)
(* the buffer, every event handed to the rule as often as it came: pruning, *)
(* done at the time of each event, takes nothing from a window still open,  *)
(* and no late event that was tolerated is missing (_prune_buffer,          *)
(* _insert_event_in_order).                                                 *)
THEOREM OpenSpansBuffered == HistSpec => []OpenSpanBuffered
<1>1. HistInit => NoReloads /\ TrailInv
  BY TrailInit
<1>2. EngineInv /\ BufferInv /\ NoReloads /\ TrailInv /\ [HistNext]_histVars
        => NoReloads' /\ TrailInv'
  BY HistTurnTaken, TrailStep
<1>3. ASSUME EngineInv, NoReloads, TrailInv
      PROVE  OpenSpanBuffered
  <2> SUFFICES ASSUME NEW q \in Live
               PROVE  LET rule == rules[q[2]]
                          st == states[q[1]][q[2]]
                          trail == log[q[1]][q[2]]
                      IN /\ rule.trigger = "window" /\ st.nextWindowEnd # Unset =>
                              Covers(st.buffer, trail, st.nextWindowEnd - rule.duration)
                         /\ rule.trigger = "scheduled" =>
                              Covers(st.buffer, trail,
                                     IF rule.lookback > 0 THEN st.nextSchedule - rule.lookback
                                     ELSE MaxOf(st.lastSchedule, 0))
    BY DEF OpenSpanBuffered
  <2>1. PICK p \in Partitions, r \in RuleIds : q[1] = p /\ q[2] = r /\ states[p][r] # NoState
    BY DEF Live
  <2>2. states[p][r] \in RuleState /\ rules[r] \in Rule
    BY <1>3, <2>1 DEF EngineInv, StateInv, StatesOK, RulesOK, Compiled
  <2>3. PICK rule \in Rule, st \in RuleState, trail \in Seq(Event) :
          rule = rules[r] /\ st = states[p][r] /\ trail = log[p][r]
    BY <1>3, <2>1, <2>2 DEF TrailInv
  <2>4. Buffers(rule) => WholeSpan(st.buffer, trail, Reach(rule, st))
    BY <1>3, <2>1, <2>3 DEF TrailInv, HoldsSpan
  <2>5. /\ Reach(rule, st) \in Int
        /\ st.nextWindowEnd - rule.duration \in Int
        /\ st.nextSchedule - rule.lookback \in Int
        /\ MaxOf(st.lastSchedule, 0) \in Int /\ 0 <= MaxOf(st.lastSchedule, 0)
    <3>1. /\ st.nextWindowEnd \in Int /\ st.nextSchedule \in Int /\ st.lastSchedule \in Int
      BY <2>3, MomentIsInt DEF RuleState
    <3>2. rule.duration \in Nat /\ rule.lookback \in Nat
      BY <2>3 DEF Rule
    <3> QED BY <2>3, <3>1, <3>2, ReachType DEF MaxOf
  <2>6. rule.trigger = "window" /\ st.nextWindowEnd # Unset =>
          Covers(st.buffer, trail, st.nextWindowEnd - rule.duration)
    <3> SUFFICES ASSUME rule.trigger = "window", st.nextWindowEnd # Unset
                 PROVE  Covers(st.buffer, trail, st.nextWindowEnd - rule.duration)
      OBVIOUS
    <3>1. Reach(rule, st) = st.nextWindowEnd - rule.duration /\ Buffers(rule)
      BY DEF Reach, Buffers
    <3> QED BY <2>3, <2>4, <2>5, <3>1, WholeSpanCovers
  <2>7. ASSUME rule.trigger = "scheduled"
        PROVE  Covers(st.buffer, trail,
                      IF rule.lookback > 0 THEN st.nextSchedule - rule.lookback
                      ELSE MaxOf(st.lastSchedule, 0))
    <3>1. Buffers(rule)
      BY <2>7 DEF Buffers
    <3>2. CASE rule.lookback > 0
      <4>1. Reach(rule, st) = st.nextSchedule - rule.lookback
        BY <2>7, <3>2 DEF Reach
      <4> QED BY <2>3, <2>4, <2>5, <3>1, <3>2, <4>1, WholeSpanCovers
    <3>3. CASE ~(rule.lookback > 0)
      <4>1. Reach(rule, st) = 0
        BY <2>7, <3>3 DEF Reach
      <4>2. Covers(st.buffer, trail, MaxOf(st.lastSchedule, 0))
        BY <2>3, <2>4, <2>5, <3>1, <4>1, WholeSpanCovers
      <4> QED BY <3>3, <4>2
    <3> QED BY <3>2, <3>3
  <2> QED BY <2>1, <2>3, <2>6, <2>7
<1> QED BY <1>1, <1>2, <1>3, HistEngineInv, PTL DEF HistSpec

-----------------------------------------------------------------------------
\* Sequences.

\* The ways the first k steps of a rule are found on the trail, in order.
Placements(rule, trail, k) ==
  {at \in [1 .. k -> 1 .. Len(trail)] :
     /\ \A i, j \in 1 .. k : i < j => at[i] < at[j]
     /\ \A i \in 1 .. k : trail[at[i]].sensor = rule.steps[i]}

LEMMA PlacedBeforeLast ==
  ASSUME NEW rule, NEW trail, Len(trail) \in Nat, NEW k \in Nat \ {0},
         NEW next, next = k + 1, NEW at \in Placements(rule, trail, next)
  PROVE  /\ [i \in 1 .. k |-> at[i]] \in Placements(rule, trail, k)
         /\ at[k] < at[next]
BY DEF Placements

LEMMA PlacedStill ==
  ASSUME NEW rule, NEW trail \in Seq(Event), NEW ev \in Event, NEW k \in Nat \ {0},
         NEW at \in Placements(rule, trail, k)
  PROVE  at \in Placements(rule, Append(trail, ev), k)
<1>1. /\ Len(Append(trail, ev)) = Len(trail) + 1 /\ Len(trail) \in Nat
      /\ \A i \in 1 .. Len(trail) : Append(trail, ev)[i] = trail[i]
  BY AppendProperties, LenProperties
<1> DEFINE more == Append(trail, ev)
<1> HIDE DEF more
<1>2. \A i \in 1 .. k : at[i] \in 1 .. Len(trail)
  BY DEF Placements
<1>3. at \in [1 .. k -> 1 .. Len(more)]
  BY <1>1 DEF Placements, more
<1> QED BY <1>1, <1>2, <1>3 DEF Placements, more

LEMMA PlacedOneMore ==
  ASSUME NEW rule, NEW trail \in Seq(Event), NEW ev \in Event, NEW k \in Nat \ {0},
         NEW next, next = k + 1, rule.steps[next] = ev.sensor,
         NEW at \in Placements(rule, trail, k)
  PROVE  \E longer \in Placements(rule, Append(trail, ev), next) :
           longer[1] = at[1] /\ longer[next] = Len(trail) + 1
<1> DEFINE more == Append(trail, ev)
           longer == [i \in 1 .. next |-> IF i = next THEN Len(trail) + 1 ELSE at[i]]
<1>1. /\ Len(more) = Len(trail) + 1 /\ Len(trail) \in Nat
      /\ \A i \in 1 .. Len(trail) : more[i] = trail[i]
      /\ more[Len(trail) + 1] = ev
  BY AppendProperties, LenProperties
<1> HIDE DEF more
<1>2. /\ \A i \in 1 .. k : at[i] \in 1 .. Len(trail) /\ trail[at[i]].sensor = rule.steps[i]
      /\ \A i, j \in 1 .. k : i < j => at[i] < at[j]
  BY DEF Placements
<1>3. \A i \in 1 .. next : longer[i] = IF i = next THEN Len(trail) + 1 ELSE at[i]
  OBVIOUS
<1>4. longer \in [1 .. next -> 1 .. Len(more)]
  BY <1>1, <1>2
<1> HIDE DEF longer
<1>5. \A i, j \in 1 .. next : i < j => longer[i] < longer[j]
  BY <1>2, <1>3
<1>6. \A i \in 1 .. next : more[longer[i]].sensor = rule.steps[i]
  BY SMTT(30), <1>1, <1>2, <1>3
<1>7. longer[1] = at[1] /\ longer[next] = Len(trail) + 1
  BY <1>3
<1> QED BY <1>4, <1>5, <1>6, <1>7 DEF Placements, more, longer

(* What is found on a longer trail was there before, or ends with the event *)
(* that came.                                                               *)
LEMMA PlacedSplit ==
  ASSUME NEW rule, NEW trail \in Seq(Event), NEW ev \in Event, NEW k \in Nat \ {0},
         NEW at \in Placements(rule, Append(trail, ev), k)
  PROVE  \/ at \in Placements(rule, trail, k) /\ Append(trail, ev)[at[1]] = trail[at[1]]
         \/ at[k] = Len(trail) + 1 /\ ev.sensor = rule.steps[k]
<1> DEFINE more == Append(trail, ev)
<1>1. /\ Len(more) = Len(trail) + 1 /\ Len(trail) \in Nat
      /\ \A i \in 1 .. Len(trail) : more[i] = trail[i]
      /\ more[Len(trail) + 1] = ev
  BY AppendProperties, LenProperties
<1>2. /\ at \in [1 .. k -> 1 .. Len(more)]
      /\ \A i, j \in 1 .. k : i < j => at[i] < at[j]
      /\ \A i \in 1 .. k : more[at[i]].sensor = rule.steps[i]
  BY DEF Placements
<1> HIDE DEF more
<1>3. CASE at[k] = Len(trail) + 1
  BY <1>1, <1>2, <1>3 DEF more
<1>4. CASE at[k] # Len(trail) + 1
  <2>1. \A i \in 1 .. k : at[i] \in 1 .. Len(trail)
    BY <1>1, <1>2, <1>4
  <2>2. at \in [1 .. k -> 1 .. Len(trail)]
    BY <1>2, <2>1
  <2> QED BY <1>1, <1>2, <2>1, <2>2 DEF Placements, more
<1> QED BY <1>3, <1>4

\* Every partial match is found on the trail, and everything found there that
\* may still complete has been followed as far.
Followed(rule, st, trail, limit) ==
  LET n == Len(rule.steps)
  IN /\ \A m \in st.partial :
          /\ m.step \in 1 .. n - 1
          /\ \E at \in Placements(rule, trail, m.step) : trail[at[1]].ts = m.started
     /\ \A k \in 1 .. n - 1 : \A at \in Placements(rule, trail, k) :
          \/ trail[at[1]].ts < limit - rule.within
          \/ \E m \in st.partial : m.started = trail[at[1]].ts /\ m.step >= k

LEMMA StepsType ==
  ASSUME NEW rule, Compiled(rule), rule.trigger = "sequence"
  PROVE  /\ Len(rule.steps) \in Nat /\ Len(rule.steps) >= 2 /\ rule.within \in Nat
         /\ \A i \in 1 .. Len(rule.steps) : rule.steps[i] \in SensorsOf(rule)
         /\ \A ev \in Event : ev.sensor = rule.without => ev.sensor \in SensorsOf(rule)
<1>1. Len(rule.steps) \in Nat /\ DOMAIN rule.steps = 1 .. Len(rule.steps)
  BY LenProperties DEF Compiled, Rule
<1>2. rule.within \in Nat /\ Len(rule.steps) >= 2
  BY DEF Compiled, Rule, WellFormed
<1>3. /\ \A i \in DOMAIN rule.steps : rule.steps[i] \in SensorsOf(rule)
      /\ rule.without \in SensorsOf(rule) \cup {NoSensor}
  BY DEF Compiled, WellFormed
<1>4. \A ev \in Event : ev.sensor \in Sensors
  BY DEF Event
<1>5. NoSensor \notin Sensors
  BY EngineAssumption
<1> QED BY <1>1, <1>2, <1>3, <1>4, <1>5

LEMMA PlacedTime ==
  ASSUME NEW rule, NEW trail \in Seq(Event), NEW k \in Nat \ {0},
         NEW at \in Placements(rule, trail, k)
  PROVE  trail[at[1]].ts \in Nat /\ at[1] \in 1 .. Len(trail)
<1>1. at[1] \in 1 .. Len(trail)
  BY DEF Placements
<1>2. trail[at[1]] \in Event
  BY <1>1, LenProperties
<1> QED BY <1>1, <1>2 DEF Event

LEMMA FollowedLater ==
  ASSUME NEW rule, Compiled(rule), rule.trigger = "sequence", NEW st,
         NEW trail \in Seq(Event), NEW limit \in Int, Followed(rule, st, trail, limit),
         NEW later \in Int, limit <= later
  PROVE  Followed(rule, st, trail, later)
<1>1. Len(rule.steps) \in Nat /\ rule.within \in Nat
  BY StepsType
<1>2. ASSUME NEW k \in 1 .. Len(rule.steps) - 1, NEW at \in Placements(rule, trail, k),
             trail[at[1]].ts < limit - rule.within
      PROVE  trail[at[1]].ts < later - rule.within
  <2>1. k \in Nat \ {0}
    BY <1>1
  <2>2. trail[at[1]].ts \in Nat
    BY <2>1, PlacedTime
  <2> QED BY <1>1, <1>2, <2>2
<1> QED BY <1>2 DEF Followed

LEMMA NothingFollowed ==
  ASSUME NEW rule, Compiled(rule), rule.trigger = "sequence", NEW st, st.partial = {},
         NEW limit
  PROVE  Followed(rule, st, << >>, limit)
<1>1. Len(rule.steps) \in Nat
  BY StepsType
<1>2. ASSUME NEW k \in 1 .. Len(rule.steps) - 1, NEW at \in Placements(rule, << >>, k)
      PROVE  FALSE
  <2>1. k \in Nat \ {0} /\ << >> \in Seq(Event) /\ Len(<< >>) = 0
    BY <1>1, EmptySeq
  <2>2. at[1] \in 1 .. 0
    BY <2>1, PlacedTime
  <2> QED BY <2>2
<1> QED BY <1>2 DEF Followed

(* The event completes a match that is alive exactly when it completes the  *)
(* pattern on the trail.                                                    *)
LEMMA CompletesExactly ==
  ASSUME NEW rule, Compiled(rule), rule.trigger = "sequence", NEW st \in RuleState,
         NEW trail \in Seq(Event), NEW ev \in Event, NEW limit \in Int, limit <= ev.ts,
         Followed(rule, st, trail, limit)
  PROVE  Completes(rule, Append(trail, ev))
           <=> Completing(rule, AliveMatches(rule, st, ev.ts), ev.sensor) # {}
<1> DEFINE n == Len(rule.steps)
           more == Append(trail, ev)
           last == Len(more)
<1>1. n \in Nat /\ n >= 2 /\ rule.within \in Nat /\ ev.ts \in Nat
  BY StepsType DEF Event
<1>2. /\ last = Len(trail) + 1 /\ Len(trail) \in Nat /\ more[last] = ev
      /\ \A i \in 1 .. Len(trail) : more[i] = trail[i]
  BY AppendProperties, LenProperties
<1>4. Completes(rule, more) <=>
        \E at \in Placements(rule, more, n) :
          at[n] = last /\ ev.ts - more[at[1]].ts <= rule.within
  <2>1. last > 0
    BY <1>2
  <2>2. Completes(rule, more) <=>
          \E at \in [1 .. n -> 1 .. last] :
            /\ \A i, j \in 1 .. n : i < j => at[i] < at[j]
            /\ \A i \in 1 .. n : more[at[i]].sensor = rule.steps[i]
            /\ at[n] = last
            /\ more[last].ts - more[at[1]].ts <= rule.within
    BY <2>1 DEF Completes
  <2> HIDE DEF more, n
  <2> QED BY <1>2, <2>2 DEF Placements
<1>5. \A m \in st.partial : m.started \in Nat /\ m.step \in Nat
  BY DEF RuleState, PartialMatch
<1> HIDE DEF more, n
<1>3. PICK k \in Nat \ {0} : n = k + 1 /\ k \in 1 .. n - 1
  <2>1. n - 1 \in Nat \ {0} /\ n = (n - 1) + 1 /\ n - 1 \in 1 .. n - 1
    BY <1>1
  <2> QED BY <2>1
<1>6. ASSUME NEW at \in Placements(rule, more, n), at[n] = last,
             ev.ts - more[at[1]].ts <= rule.within
      PROVE  Completing(rule, AliveMatches(rule, st, ev.ts), ev.sensor) # {}
  <2> DEFINE before == [i \in 1 .. k |-> at[i]]
  <2>1. before \in Placements(rule, more, k) /\ before[k] < last /\ before[1] = at[1]
    <3>1. before[k] = at[k] /\ before[1] = at[1]
      BY <1>3
    <3>2. Len(more) \in Nat
      BY <1>2
    <3>3. before \in Placements(rule, more, k) /\ at[k] < at[n]
      BY <1>3, <3>2, PlacedBeforeLast
    <3> QED BY <1>6, <3>1, <3>3
  <2> HIDE DEF before
  <2>2. before \in Placements(rule, trail, k) /\ more[before[1]] = trail[before[1]]
    <3>1. before[k] # Len(trail) + 1
      <4>1. before[k] \in Int
        BY <1>2, <1>3, <2>1 DEF Placements
      <4> QED BY <1>2, <2>1, <4>1
    <3>2. before \in Placements(rule, Append(trail, ev), k)
      BY <2>1 DEF more
    <3>3. /\ before \in Placements(rule, trail, k)
          /\ Append(trail, ev)[before[1]] = trail[before[1]]
      <4>1. k \in Nat \ {0}
        BY <1>3
      <4>2. \/ /\ before \in Placements(rule, trail, k)
               /\ Append(trail, ev)[before[1]] = trail[before[1]]
            \/ before[k] = Len(trail) + 1 /\ ev.sensor = rule.steps[k]
        BY <3>2, <4>1, PlacedSplit, Zenon
      <4> QED BY <3>1, <4>2, Zenon
    <3> QED BY <3>3 DEF more
  <2>3. trail[before[1]].ts \in Nat
    BY <2>2, PlacedTime
  <2>4. ~(trail[before[1]].ts < limit - rule.within)
    BY <1>1, <1>6, <2>1, <2>2, <2>3
  <2>5. PICK m \in st.partial : m.started = trail[before[1]].ts /\ m.step >= k
    BY <1>3, <2>2, <2>4 DEF Followed, n
  <2>6. m.step = k
    BY <1>1, <1>3, <2>5 DEF Followed, n
  <2>7. rule.steps[n] = ev.sensor
    <3>1. n \in 1 .. n
      BY <1>1
    <3> QED BY <1>2, <1>6, <3>1 DEF Placements
  <2>8. m \in AliveMatches(rule, st, ev.ts)
    BY <1>1, <1>5, <1>6, <2>1, <2>2, <2>3, <2>5 DEF AliveMatches
  <2> QED BY <1>3, <2>6, <2>7, <2>8 DEF Completing, Expected, n
<1>7. ASSUME NEW m \in Completing(rule, AliveMatches(rule, st, ev.ts), ev.sensor)
      PROVE  \E at \in Placements(rule, more, n) :
               at[n] = last /\ ev.ts - more[at[1]].ts <= rule.within
  <2>1. /\ m \in st.partial /\ m.started >= ev.ts - rule.within
        /\ rule.steps[n] = ev.sensor /\ m.step = k
    BY <1>1, <1>3, <1>5 DEF Completing, AliveMatches, Expected, n
  <2>2. PICK at \in Placements(rule, trail, k) : trail[at[1]].ts = m.started
    BY <2>1 DEF Followed
  <2>3. PICK longer \in Placements(rule, more, n) : longer[1] = at[1] /\ longer[n] = last
    <3>1. rule.steps[n] = ev.sensor /\ at \in Placements(rule, trail, k) /\ n = k + 1
      BY <1>3, <2>1, <2>2
    <3>2. \E x \in Placements(rule, Append(trail, ev), n) :
            x[1] = at[1] /\ x[n] = Len(trail) + 1
      BY SMTT(30), <3>1, PlacedOneMore
    <3>3. Append(trail, ev) = more /\ Len(trail) + 1 = last
      BY <1>2 DEF more
    <3> QED BY <3>2, <3>3, Zenon
  <2>4. more[longer[1]].ts = m.started
    BY <1>2, <2>2, <2>3, PlacedTime
  <2> QED BY <1>1, <1>5, <2>1, <2>3, <2>4
<1> QED BY <1>4, <1>6, <1>7 DEF more

(* An event that is none of the steps of the rule changes nothing.          *)
LEMMA StillFollowed ==
  ASSUME NEW rule, Compiled(rule), rule.trigger = "sequence", NEW st \in RuleState,
         NEW trail \in Seq(Event), NEW ev \in Event, ev.sensor \notin SensorsOf(rule),
         NEW limit, Followed(rule, st, trail, limit)
  PROVE  Followed(rule, st, Append(trail, ev), limit)
<1> DEFINE n == Len(rule.steps)
           more == Append(trail, ev)
<1>1. n \in Nat /\ \A i \in 1 .. n : rule.steps[i] \in SensorsOf(rule)
  BY StepsType
<1>2. \A k \in 1 .. n - 1 : k \in Nat \ {0} /\ k \in 1 .. n
  BY <1>1
<1>5. \A i \in 1 .. Len(trail) : more[i] = trail[i]
  BY AppendProperties
<1>3. ASSUME NEW m \in st.partial
      PROVE  /\ m.step \in 1 .. n - 1
             /\ \E at \in Placements(rule, more, m.step) : more[at[1]].ts = m.started
  <2>1. m.step \in 1 .. n - 1
    BY <1>3 DEF Followed
  <2>2. PICK k : k \in Nat \ {0} /\ k = m.step
    BY <1>2, <2>1
  <2>3. PICK at \in Placements(rule, trail, k) : trail[at[1]].ts = m.started
    BY <1>3, <2>2 DEF Followed
  <2>4. at \in Placements(rule, Append(trail, ev), k)
    <3>1. k \in Nat \ {0}
      BY <2>2
    <3> QED BY <2>3, <3>1, PlacedStill
  <2>5. more[at[1]] = trail[at[1]]
    BY <1>5, <2>2, <2>3, PlacedTime
  <2> HIDE DEF more
  <2> QED BY <2>1, <2>2, <2>3, <2>4, <2>5 DEF more
<1>4. ASSUME NEW k \in 1 .. n - 1, NEW at \in Placements(rule, more, k)
      PROVE  \/ more[at[1]].ts < limit - rule.within
             \/ \E m \in st.partial : m.started = more[at[1]].ts /\ m.step >= k
  <2>1. k \in Nat \ {0} /\ rule.steps[k] \in SensorsOf(rule)
    BY <1>1, <1>2
  <2>2. \A x \in Placements(rule, Append(trail, ev), k) :
          \/ x \in Placements(rule, trail, k) /\ Append(trail, ev)[x[1]] = trail[x[1]]
          \/ x[k] = Len(trail) + 1 /\ ev.sensor = rule.steps[k]
    BY ZenonT(40), <2>1, PlacedSplit
  <2>3. at \in Placements(rule, trail, k) /\ more[at[1]] = trail[at[1]]
    BY <2>1, <2>2
  <2> QED BY <2>3 DEF Followed
<1> QED BY <1>3, <1>4 DEF Followed

(* An event that completes nothing advances what it is expected by, and may *)
(* begin a match.                                                           *)
LEMMA AdvanceFollows ==
  ASSUME NEW rule, Compiled(rule), rule.trigger = "sequence", NEW st \in RuleState,
         NEW trail \in Seq(Event), NEW ev \in Event, NEW limit \in Int, limit <= ev.ts,
         Followed(rule, st, trail, limit),
         Completing(rule, AliveMatches(rule, st, ev.ts), ev.sensor) = {},
         NEW new, new.partial = Advanced(rule, AliveMatches(rule, st, ev.ts), ev)
  PROVE  Followed(rule, new, Append(trail, ev), ev.ts)
<1> DEFINE n == Len(rule.steps)
           more == Append(trail, ev)
           alive == AliveMatches(rule, st, ev.ts)
           begun == [started |-> ev.ts, step |-> 1]
           moved(m) == IF Expected(rule, m, ev.sensor) THEN [m EXCEPT !.step = @ + 1] ELSE m
           Reached(k, ts) == \/ ts < ev.ts - rule.within
                             \/ \E m \in new.partial : m.started = ts /\ m.step >= k
<1>1. n \in Nat /\ n >= 2 /\ rule.within \in Nat /\ ev.ts \in Nat
  BY StepsType DEF Event
<1>2. /\ Len(more) = Len(trail) + 1 /\ Len(trail) \in Nat /\ more[Len(trail) + 1] = ev
      /\ \A i \in 1 .. Len(trail) : more[i] = trail[i]
  BY AppendProperties, LenProperties
<1>3. \A m \in st.partial : /\ m \in PartialMatch /\ m.started \in Nat /\ m.step \in Nat \ {0}
                            /\ m.step \in 1 .. n - 1
  <2>1. \A m \in st.partial : m \in PartialMatch /\ m.step \in 1 .. n - 1
    BY DEF Followed, RuleState
  <2> HIDE DEF n
  <2> QED BY <1>1, <2>1 DEF PartialMatch
<1>4. new.partial = {moved(m) : m \in alive} \cup IF rule.steps[1] = ev.sensor THEN {begun} ELSE {}
  BY DEF Advanced
<1>5. \A m \in alive : m \in st.partial /\ m.started >= ev.ts - rule.within
  BY DEF AliveMatches
<1>6. \A m \in st.partial : m \notin alive => m.started < ev.ts - rule.within
  BY <1>1, <1>3 DEF AliveMatches
<1>7. \A m \in alive : Expected(rule, m, ev.sensor) => m.step + 1 # n
  BY DEF Completing
<1>8. \A m \in st.partial :
        /\ moved(m).started = m.started
        /\ moved(m).step = IF Expected(rule, m, ev.sensor) THEN m.step + 1 ELSE m.step
  BY <1>3 DEF PartialMatch
<1>9. \A m \in st.partial : Expected(rule, m, ev.sensor) <=> rule.steps[m.step + 1] = ev.sensor
  BY DEF Expected
<1> HIDE DEF n, more, alive, moved
<1>10. ASSUME NEW at, at = [i \in 1 .. 1 |-> Len(trail) + 1], rule.steps[1] = ev.sensor
       PROVE  at \in Placements(rule, more, 1) /\ more[at[1]].ts = ev.ts
  BY <1>2, <1>10 DEF Placements
<1>11. ASSUME NEW m \in new.partial
       PROVE  /\ m.step \in 1 .. n - 1
              /\ \E at \in Placements(rule, more, m.step) : more[at[1]].ts = m.started
  <2>1. CASE rule.steps[1] = ev.sensor /\ m = begun
    <3>1. m.step = 1 /\ m.started = ev.ts
      BY <2>1
    <3>2. PICK at : at \in Placements(rule, more, 1) /\ more[at[1]].ts = ev.ts
      BY <1>10, <2>1
    <3> QED BY <1>1, <3>1, <3>2
  <2>2. ASSUME NEW old \in alive, m = moved(old)
        PROVE  /\ m.step \in 1 .. n - 1
               /\ \E at \in Placements(rule, more, m.step) : more[at[1]].ts = m.started
    <3>1. /\ old \in st.partial /\ old.step \in Nat \ {0} /\ old.step \in 1 .. n - 1
          /\ m.started = old.started
      BY <1>3, <1>5, <1>8, <2>2
    <3>0. PICK k : k \in Nat \ {0} /\ k = old.step
      BY <3>1
    <3>2. PICK at \in Placements(rule, trail, k) : trail[at[1]].ts = old.started
      BY <3>0, <3>1 DEF Followed
    <3>5. k \in Nat \ {0}
      BY <3>0
    <3>3. CASE Expected(rule, old, ev.sensor)
      <4>1. PICK next : next = m.step /\ next = k + 1 /\ next # n /\ rule.steps[next] = ev.sensor
        BY <1>7, <1>8, <1>9, <2>2, <3>0, <3>1, <3>3
      <4>2. PICK longer : /\ longer \in Placements(rule, Append(trail, ev), next)
                          /\ longer[1] = at[1]
        <5>1. next = k + 1 /\ rule.steps[next] = ev.sensor
          BY <4>1
        <5>2. at \in Placements(rule, trail, k)
          BY <3>2
        <5> QED BY <3>5, <5>1, <5>2, PlacedOneMore
      <4>3. more[longer[1]] = trail[at[1]]
        BY <1>2, <3>0, <3>2, <4>2, PlacedTime
      <4>4. m.step \in 1 .. n - 1
        BY <1>1, <3>0, <3>1, <4>1
      <4> QED BY <3>1, <3>2, <4>1, <4>2, <4>3, <4>4 DEF more
    <3>4. CASE ~Expected(rule, old, ev.sensor)
      <4>1. m.step = old.step
        BY <1>8, <2>2, <3>1, <3>4
      <4>2. at \in Placements(rule, more, k) /\ more[at[1]] = trail[at[1]]
        <5>1. at \in Placements(rule, Append(trail, ev), k)
          BY <3>2, <3>5, PlacedStill
        <5>2. more[at[1]] = trail[at[1]]
          BY <1>2, <3>2, <3>5, PlacedTime
        <5> QED BY <5>1, <5>2 DEF more
      <4> QED BY <3>0, <3>1, <3>2, <4>1, <4>2
    <3> QED BY <3>3, <3>4
  <2> QED BY <1>4, <1>11, <2>1, <2>2
\* What has been followed is followed on, unless it expires.
<1>12. ASSUME NEW k \in 1 .. n - 1, NEW at \in Placements(rule, trail, k)
       PROVE  \/ trail[at[1]].ts < ev.ts - rule.within
              \/ \E m \in alive : m.started = trail[at[1]].ts /\ m.step >= k
  <2>1. trail[at[1]].ts \in Nat
    BY <1>1, PlacedTime
  <2>2. \/ trail[at[1]].ts < limit - rule.within
        \/ \E m \in st.partial : m.started = trail[at[1]].ts /\ m.step >= k
    BY DEF Followed, n
  <2> QED BY <1>1, <1>6, <2>1, <2>2
<1>13. ASSUME NEW m \in alive
       PROVE  moved(m) \in new.partial /\ moved(m).started = m.started /\ moved(m).step >= m.step
  BY <1>3, <1>4, <1>5, <1>8
<1>14. ASSUME NEW k \in 1 .. n - 1, NEW at \in Placements(rule, more, k)
       PROVE  Reached(k, more[at[1]].ts)
  <2>0. k \in Nat \ {0}
    BY <1>1
  <2>1. CASE at \in Placements(rule, trail, k) /\ more[at[1]] = trail[at[1]]
    <3>1. ASSUME NEW m \in alive, m.started = trail[at[1]].ts, m.step >= k
          PROVE  Reached(k, more[at[1]].ts)
      <4>1. moved(m).step >= k
        BY <1>3, <1>5, <1>8, <2>0, <3>1
      <4> QED BY <1>13, <2>1, <3>1, <4>1
    <3> QED BY <1>12, <2>1, <3>1
  <2>2. CASE at[k] = Len(trail) + 1 /\ ev.sensor = rule.steps[k]
    <3>1. CASE k = 1
      <4>1. more[at[1]].ts = ev.ts /\ begun \in new.partial
        BY <1>2, <1>4, <2>2, <3>1
      <4>2. begun.started = ev.ts /\ begun.step = 1
        OBVIOUS
      <4> HIDE DEF begun
      <4> QED BY <3>1, <4>1, <4>2
    <3>2. CASE k # 1
      <4>1. PICK j \in Nat \ {0} : k = j + 1 /\ j \in 1 .. n - 1
        <5>1. k - 1 \in Nat \ {0} /\ k = (k - 1) + 1 /\ k - 1 \in 1 .. n - 1
          BY <1>1, <2>0, <3>2
        <5> QED BY <5>1
      <4> DEFINE before == [i \in 1 .. j |-> at[i]]
      <4>2. before \in Placements(rule, more, j) /\ at[j] < at[k]
        BY <1>2, <4>1, PlacedBeforeLast
      <4>3. before[j] = at[j] /\ before[1] = at[1]
        BY <4>1
      <4> HIDE DEF before
      <4>4. before[j] \in Int /\ before[j] # Len(trail) + 1
        <5>1. before[j] \in Int
          BY <1>2, <4>1, <4>2 DEF Placements
        <5> QED BY <1>2, <2>2, <4>2, <4>3, <5>1
      <4>5. \A x \in Placements(rule, Append(trail, ev), j) :
              \/ x \in Placements(rule, trail, j) /\ Append(trail, ev)[x[1]] = trail[x[1]]
              \/ x[j] = Len(trail) + 1 /\ ev.sensor = rule.steps[j]
        BY ZenonT(40), <4>1, PlacedSplit
      <4>6. before \in Placements(rule, trail, j) /\ more[at[1]] = trail[before[1]]
        BY <4>2, <4>3, <4>4, <4>5 DEF more
      <4>7. ASSUME NEW m \in alive, m.started = trail[before[1]].ts, m.step >= j
            PROVE  Reached(k, more[at[1]].ts)
        <5>1. m.step \in Nat /\ m \in st.partial
          BY <1>3, <1>5
        <5>2. moved(m).step >= k
          BY <1>8, <1>9, <2>2, <4>1, <4>7, <5>1
        <5> QED BY <1>13, <4>6, <4>7, <5>2
      <4> QED BY <1>12, <4>1, <4>6, <4>7
    <3> QED BY <3>1, <3>2
  <2>3. \A x \in Placements(rule, Append(trail, ev), k) :
          \/ x \in Placements(rule, trail, k) /\ Append(trail, ev)[x[1]] = trail[x[1]]
          \/ x[k] = Len(trail) + 1 /\ ev.sensor = rule.steps[k]
    BY ZenonT(40), <2>0, PlacedSplit
  <2>4. \/ at \in Placements(rule, trail, k) /\ more[at[1]] = trail[at[1]]
        \/ at[k] = Len(trail) + 1 /\ ev.sensor = rule.steps[k]
    BY <2>3 DEF more
  <2> HIDE DEF Reached
  <2> QED BY <2>1, <2>2, <2>4
<1> QED BY <1>11, <1>14 DEF Followed, more, n

\* A sequence rule that compares nothing, never holds an alert back and never
\* reminds of one.
PlainSequence(rule) ==
  rule.trigger = "sequence" /\ rule.operands = {} /\ rule.cooldown = 0 /\ rule.repeatEvery = 0

LEMMA PlainEmits ==
  ASSUME NEW rule, Compiled(rule), PlainSequence(rule), NEW st, NEW now
  PROVE  /\ EmitEpisode(rule, st, now).alerts # << >>
         /\ st \in RuleState => EmitEpisode(rule, st, now).state.partial = st.partial
<1>1. Gap(rule) = 0
  BY DEF Gap, MaxOf, PlainSequence
<1>2. EmitEpisode(rule, st, now) =
        Emitting(rule, NoteEmission(rule, st, now), LifecycleLabel(rule, st), now)
  BY <1>1 DEF EmitEpisode, Withheld
<1>3. \A s, label : Emitting(rule, s, label, now).state = s
                    /\ Emitting(rule, s, label, now).alerts # << >>
  BY DEF Emitting, Silent
<1>4. st \in RuleState => NoteEmission(rule, st, now).partial = st.partial
  BY DEF NoteEmission, RuleState
<1> QED BY <1>2, <1>3, <1>4

LEMMA PlainTimer ==
  ASSUME NEW rule, Compiled(rule), PlainSequence(rule), NEW st, NEW now, NEW remember
  PROVE  /\ OnTimer(rule, st, now, remember).state = st
         /\ OnTimer(rule, st, now, remember).alerts = << >>
<1>1. Remind(rule, st, now) = Silent(st)
  BY DEF Remind, ReminderDue, PlainSequence
<1>2. FireTrigger(rule, st, now, remember) = Silent(st)
  BY DEF FireTrigger, PlainSequence
<1>3. Silent(st).state = st /\ Silent(st).alerts = << >> /\ << >> \o << >> = << >>
  BY DEF Silent
<1>4. OnTimer(rule, st, now, remember)
        = Then(Silent(st), FireTrigger(rule, Silent(st).state, now, remember))
  BY <1>1 DEF OnTimer
<1>5. OnTimer(rule, st, now, remember) = Then(Silent(st), Silent(st))
  BY <1>2, <1>3, <1>4
<1> QED BY <1>3, <1>5 DEF Then

(* An event leaves the matches as far as the trail, and is answered with an *)
(* alert exactly when it completes the pattern there.                       *)
LEMMA SequenceInOrder ==
  ASSUME NEW rule, Compiled(rule), PlainSequence(rule), NEW st \in RuleState,
         NEW trail \in Seq(Event), NEW ev \in Event, AppliesToEntity(rule, ev.entity),
         NEW limit \in Int, limit <= ev.ts, Followed(rule, st, trail, limit)
  PROVE  /\ Followed(rule, InOrder(rule, st, ev).state, Extended(rule, trail, ev), ev.ts)
         /\ InOrder(rule, st, ev).alerts # << >> <=>
              ev.sensor # rule.without /\ Completes(rule, Append(trail, ev))
<1> DEFINE o == InOrder(rule, st, ev)
           heard == Heard(st, ev)
           live == AliveMatches(rule, st, ev.ts)
           complete == Completing(rule, live, ev.sensor)
           consumed == [heard EXCEPT !.partial = {}]
           advanced == [heard EXCEPT !.partial = Advanced(rule, live, ev)]
<1>0. rule.trigger = "sequence" /\ rule.operands = {} /\ rule \in Rule /\ ev.ts \in Int
  BY DEF PlainSequence, Compiled, Event
<1>1. heard \in RuleState /\ heard.partial = st.partial
  BY HeardType DEF Heard, RuleState
<1>2. consumed \in RuleState /\ consumed.partial = {}
  BY <1>1 DEF RuleState
<1>3. advanced.partial = Advanced(rule, live, ev)
  BY <1>1 DEF RuleState
<1>4. AliveMatches(rule, heard, ev.ts) = live
  BY <1>1 DEF AliveMatches
<1>5. Completes(rule, Append(trail, ev)) <=> complete # {}
  BY <1>0, CompletesExactly
<1>6. complete # {} => ev.sensor \in SensorsOf(rule)
  <2> SUFFICES ASSUME NEW m \in complete
               PROVE  ev.sensor \in SensorsOf(rule)
    OBVIOUS
  <2>1. rule.steps[Len(rule.steps)] = ev.sensor
    BY DEF Completing, Expected
  <2>2. Len(rule.steps) \in 1 .. Len(rule.steps)
    BY <1>0, StepsType
  <2> QED BY <1>0, <2>1, <2>2, StepsType
<1>7. o = IF ev.sensor \notin SensorsOf(rule) THEN Silent(st)
          ELSE CASE ev.sensor = rule.without -> Silent(consumed)
                 [] ev.sensor # rule.without /\ complete = {} -> Silent(advanced)
                 [] OTHER -> EmitEpisode(rule, consumed, ev.ts)
  <2>1. MatchesEvent(rule, ev) <=> ev.sensor \in SensorsOf(rule)
    BY DEF MatchesEvent
  <2>2. o = IF ev.sensor \notin SensorsOf(rule) THEN Silent(st)
            ELSE AdvanceSequence(rule, heard, ev)
    BY <1>0, <2>1, SpanlessInOrder
  <2>3. AdvanceSequence(rule, heard, ev) =
          CASE ev.sensor = rule.without -> Silent(consumed)
            [] ev.sensor # rule.without /\ complete = {} -> Silent(advanced)
            [] OTHER -> EmitEpisode(rule, consumed, ev.ts)
    BY <1>0, <1>4 DEF AdvanceSequence
  <2> HIDE DEF o, heard, live, complete, consumed, advanced
  <2> QED BY <2>2, <2>3
<1>8. Extended(rule, trail, ev) =
        IF ev.sensor = rule.without \/ complete # {} THEN << >> ELSE Append(trail, ev)
  BY <1>0, <1>5 DEF Extended
<1>9. \A s : Silent(s).state = s /\ Silent(s).alerts = << >>
  BY DEF Silent
<1> HIDE DEF o, heard, live, complete, consumed, advanced
<1>10. CASE ev.sensor \notin SensorsOf(rule)
  <2>1. complete = {} /\ ev.sensor # rule.without
    BY <1>0, <1>6, <1>10, StepsType
  <2>2. Followed(rule, st, Append(trail, ev), limit)
    BY <1>0, <1>10, StillFollowed
  <2>3. Append(trail, ev) \in Seq(Event)
    BY AppendProperties
  <2>4. Followed(rule, st, Append(trail, ev), ev.ts)
    BY <1>0, <2>2, <2>3, FollowedLater
  <2>5. o.state = st /\ o.alerts = << >>
    BY <1>7, <1>9, <1>10
  <2> QED BY <1>5, <1>8, <2>1, <2>4, <2>5 DEF o
<1>11. CASE ev.sensor \in SensorsOf(rule) /\ ev.sensor = rule.without
  <2>1. o.state = consumed /\ o.alerts = << >>
    BY <1>7, <1>9, <1>11
  <2>2. Followed(rule, consumed, << >>, ev.ts)
    BY <1>0, <1>2, NothingFollowed
  <2> QED BY <1>8, <1>11, <2>1, <2>2 DEF o
<1>12. CASE ev.sensor # rule.without /\ complete # {}
  <2>1. o = EmitEpisode(rule, consumed, ev.ts)
    BY <1>6, <1>7, <1>12
  <2>2. o.state.partial = {} /\ o.alerts # << >>
    BY <1>2, <2>1, PlainEmits
  <2>3. Followed(rule, o.state, << >>, ev.ts)
    BY <1>0, <2>2, NothingFollowed
  <2> QED BY <1>5, <1>8, <1>12, <2>2, <2>3 DEF o
<1>13. CASE ev.sensor \in SensorsOf(rule) /\ ev.sensor # rule.without /\ complete = {}
  <2>1. o.state = advanced /\ o.alerts = << >>
    BY <1>7, <1>9, <1>13
  <2>2. Followed(rule, advanced, Append(trail, ev), ev.ts)
    BY <1>0, <1>3, <1>13, AdvanceFollows DEF live, complete
  <2> QED BY <1>5, <1>8, <1>13, <2>1, <2>2 DEF o
<1> QED BY <1>10, <1>11, <1>12, <1>13

PlainSequences ==
  \A r \in RuleIds : \A rule \in Definitions(r) :
    rule.trigger = "sequence" => PlainSequence(rule)

\* An event that is folded in reaches no sequence rule, which would not be told.
LateUnsequenced ==
  \A ev \in Offered : FoldLate(ev) =>
    \A r \in RuleIds : FoldedIn(ev, r) # {} => rules[r].trigger # "sequence"

\* A rule that holds state has followed its trail, and says nothing while timers
\* run.
SequenceInv ==
  \A p \in Partitions, r \in RuleIds :
    rules[r] # NoRule /\ rules[r].trigger = "sequence" =>
      /\ states[p][r] # NoState => Followed(rules[r], states[p][r], log[p][r], Limit)
      /\ call.stage = "timers" => out[p][r] = << >>

LEMMA QuietTimers ==
  ASSUME EngineInv, NoReloads, [HistNext]_histVars, NEW p \in Partitions, NEW r \in RuleIds,
         Compiled(rules[r]), PlainSequence(rules[r]),
         call.stage = "timers" => out[p][r] = << >>, call'.stage = "timers"
  PROVE  out'[p][r] = << >>
<1>1. ASSUME NEW ev \in Offered, AcceptEvent(ev)
      PROVE  out'[p][r] = << >>
  BY <1>1 DEF AcceptEvent, Quiet
<1>2. ASSUME NEW t \in 0 .. MaxTime, FirstAdvance(t) \/ AdvanceTo(t)
      PROVE  out'[p][r] = << >>
  BY <1>2 DEF FirstAdvance, AdvanceTo, Quiet
<1>3. ASSUME NEW ev \in Offered, FirstEvent(ev) \/ RefuseLate(ev)
      PROVE  FALSE
  BY <1>3 DEF FirstEvent, RefuseLate, Serve
<1>4. ASSUME NEW ev \in Offered, FoldLate(ev)
      PROVE  FALSE
  BY <1>4 DEF FoldLate, Idle
<1>5. ASSUME NEW x \in call.reopen, Recompute(x)
      PROVE  FALSE
  <2>1. call.stage = "recompute" /\ call' \in {Idle, [call EXCEPT !.reopen = @ \ {x}]}
    BY <1>5 DEF Recompute
  <2>2. [call EXCEPT !.reopen = @ \ {x}].stage = call.stage
    BY DEF EngineInv, StateInv, Call
  <2>3. Idle.stage = "idle"
    BY DEF Idle
  <2> QED BY <2>1, <2>2, <2>3
<1>6. ASSUME Settle
      PROVE  FALSE
  BY <1>6 DEF Settle, Idle
<1>7. ASSUME FireDue
      PROVE  out'[p][r] = << >>
  <2>1. PICK due :
          Commit([q \in Partitions |-> [s \in RuleIds |->
                    IF states[q][s] = NoState THEN Silent(NoState)
                    ELSE OnTimer(RuleFor(rules, draining, q, s), states[q][s], due,
                                 RecomputeLate)]],
                 out, draining)
    BY <1>7 DEF FireDue
  <2>2. RuleFor(rules, draining, p, r) = rules[r]
    BY GovernedByRules
  <2>3. out'[p][r] = out[p][r] \o (IF states[p][r] = NoState THEN Silent(NoState)
                                   ELSE OnTimer(rules[r], states[p][r], due, RecomputeLate)).alerts
    BY <2>1, <2>2 DEF Commit
  <2>4. out[p][r] = << >>
    BY <1>7 DEF FireDue
  <2>5. Silent(NoState).alerts = << >> /\ << >> \o << >> = << >>
    BY DEF Silent
  <2> QED BY <2>3, <2>4, <2>5, PlainTimer
<1>8. ASSUME UNCHANGED histVars
      PROVE  out'[p][r] = << >>
  BY <1>8 DEF histVars, vars
<1> QED BY <1>1, <1>2, <1>3, <1>4, <1>5, <1>6, <1>7, <1>8 DEF HistNext

LEMMA RecomputeStillFollowed ==
  ASSUME NEW rule, Compiled(rule), PlainSequence(rule), NEW st \in RuleState, NEW end
  PROVE  RecomputeWindow(rule, st, end).state.partial = st.partial
<1> DEFINE holds == WindowHolds(rule, st.buffer, end - rule.duration, end)
           noted == [st EXCEPT !.held = IF holds THEN @ \cup {end} ELSE @ \ {end}]
           retracted == [Emitting(rule, noted, "retracted", end)
                           EXCEPT !.state = CloseEpisode(noted)]
<1>1. RecomputeWindow(rule, st, end)
        \in {Silent(st), EmitEpisode(rule, noted, end), retracted}
  BY DEF RecomputeWindow
<1>2. noted.partial = st.partial /\ CloseEpisode(noted).partial = st.partial
  BY DEF RuleState, CloseEpisode
<1>3. Silent(st).state = st /\ retracted.state = CloseEpisode(noted)
  BY DEF Silent, Emitting
<1>4. EmitEpisode(rule, noted, end).state \in {noted, NoteEmission(rule, noted, end)}
  BY DEF EmitEpisode, Emitting, Silent
<1>5. NoteEmission(rule, noted, end).partial = st.partial
  BY <1>2 DEF NoteEmission, RuleState
<1> QED BY <1>1, <1>2, <1>3, <1>4, <1>5

LEMMA SequenceStep ==
  ASSUME PlainSequences, EngineInv, NoReloads, TrailInv, SequenceInv,
         [HistNext]_histVars, [LateUnsequenced]_histVars
  PROVE  SequenceInv'
<1> SUFFICES ASSUME NEW p \in Partitions, NEW r \in RuleIds,
                    rules[r] # NoRule, rules[r].trigger = "sequence"
             PROVE  /\ states'[p][r] # NoState =>
                         Followed(rules[r], states'[p][r], log'[p][r], Limit')
                    /\ call'.stage = "timers" => out'[p][r] = << >>
  BY HistTurnTaken DEF SequenceInv
<1>1. Compiled(rules[r]) /\ PlainSequence(rules[r])
  BY DEF PlainSequences, EngineInv, StateInv, RulesOK, DefinitionsInv, Definitions
<1>2. call'.stage = "timers" => out'[p][r] = << >>
  BY <1>1, QuietTimers DEF SequenceInv
<1>3. /\ log[p][r] \in Seq(Event)
      /\ states[p][r] = NoState => log[p][r] = << >>
      /\ states[p][r] # NoState =>
           states[p][r] \in RuleState /\ Followed(rules[r], states[p][r], log[p][r], Limit)
  BY DEF TrailInv, SequenceInv, EngineInv, StateInv, StatesOK
<1>4. Limit \in Int /\ Limit' \in Int /\ Limit <= Limit'
  BY HistNextIsNext, LimitGrows, MomentIsInt DEF EngineInv
<1>5. ASSUME states'[p][r].partial = states[p][r].partial, log'[p][r] = log[p][r],
             states[p][r] # NoState
      PROVE  Followed(rules[r], states'[p][r], log'[p][r], Limit')
  <2>1. Followed(rules[r], states[p][r], log[p][r], Limit')
    BY <1>1, <1>3, <1>4, <1>5, FollowedLater
  <2> QED BY <1>5, <2>1 DEF Followed
<1>6. ASSUME NEW ev, HandsTo(p, r, ev)
      PROVE  Followed(rules[r], states'[p][r], log'[p][r], Limit')
  <2> DEFINE was == Ensured(rules[r], states[p][r], ev.ts)
  <2>1. /\ ev \in Event /\ ev.ts \in Nat /\ Limit' = ev.ts
        /\ AppliesToEntity(rules[r], ev.entity)
        /\ states'[p][r] = InOrder(rules[r], was, ev).state
        /\ log'[p][r] = Extended(rules[r], log[p][r], ev)
    BY <1>6 DEF HandsTo, Event
  <2>2. was \in RuleState /\ Followed(rules[r], was, log[p][r], Limit)
    <3>1. CASE states[p][r] # NoState
      BY <1>3, <3>1 DEF Ensured
    <3>2. CASE states[p][r] = NoState
      <4>1. was = EmptyState /\ EmptyState.partial = {} /\ log[p][r] = << >>
        BY <1>3, <3>2 DEF Ensured, FreshState, EmptyState
      <4>2. Followed(rules[r], was, << >>, Limit)
        BY <1>1, <4>1, NothingFollowed
      <4> QED BY <4>1, <4>2, EmptyStateType
    <3> QED BY <3>1, <3>2
  <2> HIDE DEF was
  <2> QED BY <1>1, <1>3, <1>4, <2>1, <2>2, SequenceInOrder
<1>7. ASSUME NEW ev, FoldsInto(p, r, ev)
      PROVE  UNCHANGED histVars
  <2>1. ev \in Offered /\ FoldLate(ev) /\ FoldedIn(ev, r) # {}
    BY <1>7 DEF FoldsInto
  <2> QED BY <2>1 DEF LateUnsequenced
<1>8. ASSUME NEW t, TicksAt(p, r, t)
      PROVE  states'[p][r] = states[p][r] /\ log'[p][r] = log[p][r]
  BY <1>1, <1>8, PlainTimer DEF TicksAt
<1>9. ASSUME NEW end, AsksAgain(p, r, end)
      PROVE  states'[p][r].partial = states[p][r].partial /\ states[p][r] # NoState
             /\ log'[p][r] = log[p][r]
  BY <1>1, <1>3, <1>9, RecomputeStillFollowed DEF AsksAgain
<1>10. UNCHANGED histVars => states'[p][r] = states[p][r] /\ log'[p][r] = log[p][r]
  BY DEF histVars, vars
<1>11. HistTurn(p, r)
  BY HistTurnTaken
<1>12. ASSUME states'[p][r] = states[p][r], log'[p][r] = log[p][r], states'[p][r] # NoState
       PROVE  Followed(rules[r], states'[p][r], log'[p][r], Limit')
  BY <1>5, <1>12
<1> QED BY <1>2, <1>5, <1>6, <1>7, <1>8, <1>9, <1>10, <1>11, <1>12 DEF HistTurn, LeavesAlone

LEMMA SequenceAnswersExactly ==
  ASSUME PlainSequences, EngineInv, NoReloads, TrailInv, SequenceInv, [HistNext]_histVars,
         call.stage = "timers", call'.stage = "idle", call.event # NoEvent,
         NEW r \in RuleIds, NEW p \in SeenIn(rules[r], call.event),
         rules[r].trigger = "sequence"
  PROVE  out'[p][r] # << >> <=>
           /\ call.event.sensor # rules[r].without
           /\ Completes(rules[r], Append(log[p][r], call.event))
<1> DEFINE ev == call.event
           was == Ensured(rules[r], states[p][r], ev.ts)
           o == InOrder(rules[r], was, ev)
<1>1. HandsOver
  BY HistTurnTaken DEF HandsOver, NoReloads
<1>2. /\ ev \in Event /\ ev.ts \in Nat /\ Limit = ev.ts
      /\ Deliver(ev, rules, states, draining, out)
  BY <1>1, HistNextIsNext, HandedOver DEF Event
<1>3. /\ p \in Partitions /\ rules[r] # NoRule /\ AppliesToEntity(rules[r], ev.entity)
  BY <1>2 DEF SeenIn, PartitionKey, Partitions, NoPartition, Event
<1>4. Compiled(rules[r]) /\ PlainSequence(rules[r])
  BY <1>3 DEF PlainSequences, EngineInv, StateInv, RulesOK, DefinitionsInv, Definitions
<1>5. log[p][r] \in Seq(Event) /\ out[p][r] = << >>
  BY <1>3 DEF TrailInv, SequenceInv
<1>6. was \in RuleState /\ Followed(rules[r], was, log[p][r], Limit)
  <2>1. CASE states[p][r] # NoState
    BY <1>3, <2>1 DEF Ensured, SequenceInv, EngineInv, StateInv, StatesOK
  <2>2. CASE states[p][r] = NoState
    <3>1. was = EmptyState /\ EmptyState.partial = {} /\ log[p][r] = << >>
      BY <1>3, <2>2 DEF Ensured, FreshState, EmptyState, TrailInv
    <3>2. Followed(rules[r], was, << >>, Limit)
      BY <1>4, <3>1, NothingFollowed
    <3> QED BY <3>1, <3>2, EmptyStateType
  <2> QED BY <2>1, <2>2
<1>7. out'[p][r] = out[p][r] \o o.alerts
  <2>1. RuleFor(rules, draining, p, r) = rules[r]
    BY GovernedByRules
  <2> QED BY <1>2, <1>3, <2>1 DEF Deliver, Commit
<1>8. o.alerts \in Seq(Alert)
  BY <1>2, <1>4, <1>6, InOrderType DEF Outcome
<1>9. o.alerts # << >> <=> ev.sensor # rules[r].without /\ Completes(rules[r], Append(log[p][r], ev))
  BY <1>2, <1>3, <1>4, <1>5, <1>6, SequenceInOrder
<1> HIDE DEF o
<1>10. << >> \o o.alerts = o.alerts
  BY <1>8
<1> QED BY <1>5, <1>7, <1>9, <1>10

(* While no event that is folded in reaches a sequence rule, such a rule    *)
(* that compares nothing and does not limit its alerts emits exactly when   *)
(* its pattern is completed (_advance_sequence).                            *)
THEOREM SequencesExact ==
  ASSUME PlainSequences
  PROVE  HistSpec /\ [][LateUnsequenced]_histVars => SequenceExact
<1>1. HistInit => SequenceInv
  BY DEF HistInit, Init, SequenceInv, Idle
<1>2. /\ EngineInv /\ NoReloads /\ TrailInv /\ SequenceInv
      /\ [HistNext]_histVars /\ [LateUnsequenced]_histVars
      => SequenceInv'
  BY SequenceStep
<1>3. EngineInv /\ NoReloads /\ TrailInv /\ SequenceInv /\ [HistNext]_histVars
      => [(call.stage = "timers" /\ call'.stage = "idle" /\ call.event # NoEvent) =>
            \A r \in RuleIds : \A p \in SeenIn(rules[r], call.event) :
              rules[r].trigger = "sequence" =>
                (out'[p][r] # << >> <=>
                   /\ call.event.sensor # rules[r].without
                   /\ Completes(rules[r], Append(log[p][r], call.event)))]_histVars
  BY SequenceAnswersExactly
<1>4. HistInit => NoReloads /\ TrailInv
  BY TrailInit
<1>5. EngineInv /\ BufferInv /\ NoReloads /\ TrailInv /\ [HistNext]_histVars
      => NoReloads' /\ TrailInv'
  BY HistTurnTaken, TrailStep
<1> QED BY <1>1, <1>2, <1>3, <1>4, <1>5, HistEngineInv, PTL DEF HistSpec, SequenceExact

(* With one entity and no tolerance no event behind the clock is ever       *)
(* folded in, so it holds of every call (_advance_sequence,                 *)
(* _handle_late_event).                                                     *)
THEOREM PunctualSequences ==
  ASSUME PlainSequences, OneEntity, Punctual
  PROVE  HistSpec => SequenceExact
<1>1. HistInit => Abreast
  BY EngineAssumption DEF HistInit, Init, Abreast, EntityReference, MaxOf, Moment, Unset
<1>2. EngineInv /\ Abreast /\ [HistNext]_histVars => Abreast'
  BY AbreastStep, HistNextIsNext
<1>3. EngineInv /\ Abreast => LateUnsequenced
  BY PunctualFoldsNothing DEF LateUnsequenced
<1> QED BY <1>1, <1>2, <1>3, HistEngineInv, SequencesExact, PTL DEF HistSpec

-----------------------------------------------------------------------------
\* A buffer and the order of the trail.

\* at has the places chosen of a trail, in the order of its events.
InTurn(at, m, trail, places) ==
  /\ at \in [1 .. m -> places]
  /\ \A k, l \in 1 .. m : k < l => at[k] # at[l] /\ NotAfter(trail, at[k], at[l])
  /\ \A j \in places : \E k \in 1 .. m : at[k] = j

\* The order of a trail, on some of its places.
TimeOrder(trail, places) == {x \in places \X places : NotAfter(trail, x[1], x[2])}

LEMMA EventTimes ==
  ASSUME NEW trail \in Seq(Event)
  PROVE  /\ Len(trail) \in Nat /\ DOMAIN trail = 1 .. Len(trail)
         /\ \A j \in 1 .. Len(trail) :
              /\ trail[j] \in Event /\ trail[j].ts \in Nat
              /\ AsReading(trail[j]).ts = trail[j].ts
              /\ AsReading(trail[j]).sensor = trail[j].sensor
<1>1. Len(trail) \in Nat /\ DOMAIN trail = 1 .. Len(trail)
  BY LenProperties
<1>2. \A j \in 1 .. Len(trail) : trail[j] \in Event
  BY <1>1
<1> QED BY <1>1, <1>2 DEF Event, AsReading

LEMMA TimeOrdered ==
  ASSUME NEW trail \in Seq(Event), NEW places \in SUBSET (1 .. Len(trail))
  PROVE  /\ IsFiniteSet(places)
         /\ TotalOrder(places, TimeOrder(trail, places))
         /\ \A j \in places : UpToIn(places, TimeOrder(trail, places), j)
                                = {i \in places : NotAfter(trail, i, j)}
<1>1. Len(trail) \in Nat /\ \A j \in places : j \in Nat /\ trail[j].ts \in Nat
  BY EventTimes
<1>2. IsFiniteSet(1 .. Len(trail))
  BY <1>1, FS_Interval
<1>3. IsFiniteSet(places)
  BY <1>2, FS_Subset
<1>4. \A i, j \in places : <<i, j>> \in TimeOrder(trail, places) <=> NotAfter(trail, i, j)
  BY DEF TimeOrder
<1>5. \A i \in places : NotAfter(trail, i, i)
  BY <1>1 DEF NotAfter
<1>6. \A i, j \in places : i # j => (NotAfter(trail, i, j) <=> ~NotAfter(trail, j, i))
  BY <1>1 DEF NotAfter
<1>7. \A i, j, k \in places :
        NotAfter(trail, i, j) /\ NotAfter(trail, j, k) => NotAfter(trail, i, k)
  BY <1>1 DEF NotAfter
<1>8. TotalOrder(places, TimeOrder(trail, places))
  BY <1>4, <1>5, <1>6, <1>7 DEF TotalOrder
<1> QED BY <1>3, <1>4, <1>8 DEF UpToIn

\* There is one such enumeration, and it is what InTimeOrder follows.
LEMMA SomeTurn ==
  ASSUME NEW trail \in Seq(Event), NEW places \in SUBSET (1 .. Len(trail))
  PROVE  \E m \in Nat : \E at : InTurn(at, m, trail, places)
<1> DEFINE order == TimeOrder(trail, places)
           m == Cardinality(places)
<1>1. IsFiniteSet(places) /\ TotalOrder(places, order)
  BY TimeOrdered
<1>2. \A i, j \in places : <<i, j>> \in order => NotAfter(trail, i, j)
  BY DEF TimeOrder
<1> HIDE DEF order
<1>3. m \in Nat
  BY <1>1, Ranked
<1>4. PICK at \in [1 .. m -> places] :
        /\ \A k \in 1 .. m : Cardinality(UpToIn(places, order, at[k])) = k
        /\ \A j \in places : \E k \in 1 .. m : at[k] = j
        /\ \A k, l \in 1 .. m : k < l => <<at[k], at[l]>> \in order
  BY <1>1, Ranked
<1> HIDE DEF m
<1>5. \A k, l \in 1 .. m : k < l => at[k] # at[l] /\ NotAfter(trail, at[k], at[l])
  <2> SUFFICES ASSUME NEW k \in 1 .. m, NEW l \in 1 .. m, k < l
               PROVE  at[k] # at[l] /\ NotAfter(trail, at[k], at[l])
    OBVIOUS
  <2>1. at[k] # at[l]
    BY <1>3, <1>4
  <2> QED BY <1>2, <1>4, <2>1
<1> QED BY <1>3, <1>4, <1>5 DEF InTurn

\* What the buffer has of the events at the places of at.
TimedBy(trail, at, m) == [k \in 1 .. m |-> AsReading(trail[at[k]])]

LEMMA InTimeOrderIs ==
  ASSUME NEW trail \in Seq(Event), NEW places \in SUBSET (1 .. Len(trail)),
         NEW m \in Nat, NEW at, InTurn(at, m, trail, places)
  PROVE  InTimeOrder(trail, places) = TimedBy(trail, at, m)
<1> DEFINE order == TimeOrder(trail, places)
<1>1. /\ TotalOrder(places, order)
      /\ \A j \in places : UpToIn(places, order, j) = {i \in places : NotAfter(trail, i, j)}
  BY TimeOrdered
<1>2. \A i, j \in places : NotAfter(trail, i, j) => <<i, j>> \in order
  BY DEF TimeOrder
<1> HIDE DEF order
<1>3. Lists(at, m, places, order)
  BY <1>2 DEF InTurn, Lists
<1>4. /\ Cardinality(places) = m
      /\ \A k \in 1 .. m : at[k] = CHOOSE j \in places : Cardinality(UpToIn(places, order, j)) = k
  BY <1>1, <1>3, EnumeratedByRank
<1>5. ASSUME NEW k \in 1 .. m
      PROVE  at[k] = CHOOSE j \in places :
                       Cardinality({i \in places : NotAfter(trail, i, j)}) = k
  <2>1. \A j \in places : Cardinality(UpToIn(places, order, j)) = k
                            <=> Cardinality({i \in places : NotAfter(trail, i, j)}) = k
    BY <1>1
  <2>2. (CHOOSE j \in places : Cardinality(UpToIn(places, order, j)) = k)
          = CHOOSE j \in places : Cardinality({i \in places : NotAfter(trail, i, j)}) = k
    BY <2>1
  <2> QED BY <1>4, <2>2
<1>6. InTimeOrder(trail, places)
        = [k \in 1 .. m |->
             AsReading(trail[CHOOSE j \in places :
                               Cardinality({i \in places : NotAfter(trail, i, j)}) = k])]
  BY <1>4 DEF InTimeOrder
<1>7. \A k \in 1 .. m :
        AsReading(trail[CHOOSE j \in places :
                          Cardinality({i \in places : NotAfter(trail, i, j)}) = k])
          = AsReading(trail[at[k]])
  BY <1>5
<1> QED BY <1>6, <1>7 DEF TimedBy

\* pos has the place on the trail of every reading of the buffer.
Mirrors(pos, buffer, trail) ==
  /\ pos \in [1 .. Len(buffer) -> 1 .. Len(trail)]
  /\ \A k \in 1 .. Len(buffer) : buffer[k] = AsReading(trail[pos[k]])
  /\ \A k, l \in 1 .. Len(buffer) :
       k < l => pos[k] # pos[l] /\ NotAfter(trail, pos[k], pos[l])

Reaches(pos, buffer, trail, start) ==
  \A j \in 1 .. Len(trail) : trail[j].ts >= start => \E k \in 1 .. Len(buffer) : pos[k] = j

\* The buffer has the events of the trail from start on, in time order and in
\* the order they came where they are of one instant, and maybe older ones.
Mirrored(buffer, trail, start) ==
  \E pos : Mirrors(pos, buffer, trail) /\ Reaches(pos, buffer, trail, start)

LEMMA NothingMirrored ==
  ASSUME NEW start
  PROVE  Mirrored(<< >>, << >>, start)
<1> DEFINE pos == [k \in 1 .. 0 |-> 0]
<1>1. Len(<< >>) = 0 /\ \A k \in 1 .. 0 : FALSE
  OBVIOUS
<1>2. pos \in [1 .. 0 -> 1 .. 0]
  BY <1>1
<1> HIDE DEF pos
<1>3. Mirrors(pos, << >>, << >>)
  BY <1>1, <1>2 DEF Mirrors
<1>4. Reaches(pos, << >>, << >>, start)
  BY <1>1 DEF Reaches
<1> QED BY <1>3, <1>4 DEF Mirrored

LEMMA LaterMirrored ==
  ASSUME NEW buffer, NEW trail \in Seq(Event), NEW start \in Int, NEW later \in Int,
         start <= later, Mirrored(buffer, trail, start)
  PROVE  Mirrored(buffer, trail, later)
<1>1. \A j \in 1 .. Len(trail) : trail[j].ts \in Nat
  BY EventTimes
<1>2. \A pos : Reaches(pos, buffer, trail, start) => Reaches(pos, buffer, trail, later)
  BY <1>1 DEF Reaches
<1> QED BY <1>2 DEF Mirrored

(* A reading goes into the buffer behind those of its own time, and its     *)
(* event to the end of the trail.                                           *)
LEMMA InsertMirrored ==
  ASSUME NEW buffer \in Seq(Reading), NEW trail \in Seq(Event), NEW ev \in Event,
         NEW start \in Int, Mirrored(buffer, trail, start),
         NEW k \in 0 .. Len(buffer), NEW new, Len(new) = Len(buffer) + 1,
         \A i \in 1 .. k : new[i] = buffer[i] /\ buffer[i].ts <= ev.ts,
         new[k + 1] = AsReading(ev),
         \A i \in k + 2 .. Len(buffer) + 1 : new[i] = buffer[i - 1] /\ buffer[i - 1].ts > ev.ts
  PROVE  Mirrored(new, Append(trail, ev), start)
<1> DEFINE n == Len(buffer)
           t == Len(trail)
           grown == Append(trail, ev)
<1>1. PICK pos : Mirrors(pos, buffer, trail) /\ Reaches(pos, buffer, trail, start)
  BY DEF Mirrored
<1> DEFINE at == [i \in 1 .. n + 1 |-> IF i <= k THEN pos[i]
                                       ELSE IF i = k + 1 THEN t + 1 ELSE pos[i - 1]]
<1>2. /\ n \in Nat /\ t \in Nat /\ ev.ts \in Nat /\ k \in 0 .. n
      /\ \A j \in 1 .. t : trail[j].ts \in Nat /\ AsReading(trail[j]).ts = trail[j].ts
  BY EventTimes, ReadingTimes DEF Event
<1>3. /\ Len(grown) = t + 1 /\ grown[t + 1] = ev
      /\ \A j \in 1 .. t : grown[j] = trail[j]
  BY <1>2, AppendProperties
<1>4. /\ pos \in [1 .. n -> 1 .. t]
      /\ \A i \in 1 .. n : buffer[i] = AsReading(trail[pos[i]])
      /\ \A i, l \in 1 .. n : i < l => pos[i] # pos[l] /\ NotAfter(trail, pos[i], pos[l])
      /\ \A j \in 1 .. t : trail[j].ts >= start => \E i \in 1 .. n : pos[i] = j
  BY <1>1 DEF Mirrors, Reaches
<1>5. \A i \in 1 .. n : pos[i] \in 1 .. t /\ trail[pos[i]].ts = buffer[i].ts
  BY <1>2, <1>4
<1>6. \A i \in 1 .. n + 1 :
        \/ i \in 1 .. k /\ i \in 1 .. n /\ at[i] = pos[i] /\ new[i] = buffer[i]
        \/ i = k + 1 /\ at[i] = t + 1 /\ new[i] = AsReading(ev)
        \/ /\ i \in k + 2 .. n + 1 /\ i - 1 \in 1 .. n
           /\ at[i] = pos[i - 1] /\ new[i] = buffer[i - 1]
  BY <1>2
<1>7. \A i \in 1 .. n : /\ i <= k => i \in 1 .. n + 1 /\ at[i] = pos[i]
                        /\ i > k => i + 1 \in 1 .. n + 1 /\ at[i + 1] = pos[i]
  <2> SUFFICES ASSUME NEW i \in 1 .. n
               PROVE  /\ i <= k => i \in 1 .. n + 1 /\ at[i] = pos[i]
                      /\ i > k => i + 1 \in 1 .. n + 1 /\ at[i + 1] = pos[i]
    OBVIOUS
  <2>1. i > k => i + 1 \in 1 .. n + 1 /\ ~(i + 1 <= k) /\ i + 1 # k + 1 /\ (i + 1) - 1 = i
    BY <1>2
  <2> QED BY <1>2, <2>1
<1>8. at[k + 1] = t + 1 /\ k + 1 \in 1 .. n + 1
  BY <1>2
<1>9. at \in [1 .. n + 1 -> 1 .. t + 1]
  <2>1. \A i \in 1 .. n + 1 : at[i] \in 1 .. t + 1
    BY <1>2, <1>5, <1>6
  <2> QED BY <2>1
<1> HIDE DEF at, n, t
<1>10. \A x, y \in 1 .. t : NotAfter(grown, x, y) <=> NotAfter(trail, x, y)
  BY <1>3 DEF NotAfter
<1>11. ASSUME NEW i \in 1 .. n + 1 PROVE new[i] = AsReading(grown[at[i]])
  <2>1. ASSUME NEW l \in 1 .. n, at[i] = pos[l], new[i] = buffer[l]
        PROVE  new[i] = AsReading(grown[at[i]])
    <3>1. grown[pos[l]] = trail[pos[l]]
      BY <1>3, <1>5
    <3> QED BY <1>4, <2>1, <3>1
  <2> QED BY <1>3, <1>6, <2>1
<1>12. ASSUME NEW i \in 1 .. n + 1, NEW l \in 1 .. n + 1, i < l
       PROVE  at[i] # at[l] /\ NotAfter(grown, at[i], at[l])
  <2>1. CASE l \in 1 .. k
    <3>1. /\ i \in 1 .. n /\ i <= k /\ i < k + 1
          /\ l \in 1 .. n /\ l <= k /\ l < k + 1
      BY <1>2, <1>12, <2>1
    <3>2. at[i] = pos[i] /\ at[l] = pos[l]
      BY <1>7, <3>1
    <3> QED BY <1>4, <1>5, <1>10, <1>12, <3>1, <3>2
  <2>2. CASE l = k + 1
    <3>1. i \in 1 .. k /\ i \in 1 .. n /\ at[i] = pos[i]
      BY <1>2, <1>6, <1>12, <2>2
    <3>2. trail[pos[i]].ts <= ev.ts /\ pos[i] \in 1 .. t
      BY <1>5, <3>1
    <3>3. grown[pos[i]].ts <= grown[t + 1].ts
      BY <1>3, <3>2
    <3>4. grown[pos[i]].ts \in Nat /\ grown[t + 1].ts \in Nat
      BY <1>2, <1>3, <3>2
    <3>5. pos[i] <= t + 1 /\ pos[i] # t + 1
      BY <1>2, <3>2
    <3>6. NotAfter(grown, pos[i], t + 1)
      <4>1. \A x, y \in Nat : x <= y => x < y \/ x = y
        OBVIOUS
      <4>2. grown[pos[i]].ts < grown[t + 1].ts \/ grown[pos[i]].ts = grown[t + 1].ts
        BY <3>3, <3>4, <4>1
      <4> QED BY <3>5, <4>2 DEF NotAfter
    <3> QED BY <1>8, <2>2, <3>1, <3>5, <3>6
  <2>3. CASE i = k + 1
    <3>1. l \in k + 2 .. n + 1 /\ l - 1 \in 1 .. n /\ at[l] = pos[l - 1]
      BY <1>2, <1>6, <1>12, <2>3
    <3>2. buffer[l - 1].ts > ev.ts
      BY <3>1 DEF n
    <3>3. trail[pos[l - 1]].ts > ev.ts /\ pos[l - 1] \in 1 .. t
      BY <1>5, <3>1, <3>2
    <3>4. grown[t + 1].ts < grown[pos[l - 1]].ts
      BY <1>2, <1>3, <3>3
    <3>5. pos[l - 1] # t + 1
      BY <1>2, <3>3
    <3>6. NotAfter(grown, t + 1, pos[l - 1])
      BY <3>4 DEF NotAfter
    <3> QED BY <1>8, <2>3, <3>1, <3>5, <3>6
  <2>4. CASE i \in 1 .. k /\ l \in k + 2 .. n + 1
    <3>1. i \in 1 .. n /\ at[i] = pos[i] /\ l - 1 \in 1 .. n /\ at[l] = pos[l - 1] /\ i < l - 1
      BY <1>2, <1>6, <2>4
    <3> QED BY <1>4, <1>5, <1>10, <3>1
  <2>5. CASE i \in k + 2 .. n + 1
    <3>1. l \in k + 2 .. n + 1
      BY <1>2, <1>12, <2>5
    <3>2. /\ i - 1 \in 1 .. n /\ at[i] = pos[i - 1] /\ l - 1 \in 1 .. n /\ at[l] = pos[l - 1]
          /\ i - 1 < l - 1
      BY <1>2, <1>6, <1>12, <2>5, <3>1
    <3> QED BY <1>4, <1>5, <1>10, <3>2
  <2> QED BY <1>2, <1>12, <2>1, <2>2, <2>3, <2>4, <2>5
<1>13. Mirrors(at, new, grown)
  <2>1. Len(new) = n + 1
    BY DEF n
  <2> QED BY <1>3, <1>9, <1>11, <1>12, <2>1 DEF Mirrors
<1>14. ASSUME NEW j \in 1 .. t + 1, grown[j].ts >= start
       PROVE  \E i \in 1 .. n + 1 : at[i] = j
  <2>1. CASE j = t + 1
    BY <1>8, <2>1
  <2>2. CASE j \in 1 .. t
    <3>1. trail[j].ts >= start
      BY <1>3, <1>14, <2>2
    <3>2. PICK i \in 1 .. n : pos[i] = j
      BY <1>4, <2>2, <3>1
    <3>3. i <= k \/ i > k
      BY <1>2
    <3> QED BY <1>7, <3>2, <3>3
  <2>3. j = t + 1 \/ j \in 1 .. t
    BY <1>2
  <2> QED BY <2>1, <2>2, <2>3
<1>15. Reaches(at, new, grown, start)
  <2>1. Len(new) = n + 1
    BY DEF n
  <2> QED BY <1>3, <1>14, <2>1 DEF Reaches
<1> QED BY <1>13, <1>15 DEF Mirrored

\* Pruning up to the start takes nothing away that is looked at.
LEMMA DropMirrored ==
  ASSUME NEW buffer \in Seq(Reading), NEW limit \in Int, InOrderUpTo(buffer, limit),
         NEW trail \in Seq(Event), NEW start \in Int, Mirrored(buffer, trail, start),
         NEW cutoff \in Int, cutoff <= start
  PROVE  Mirrored(DropBefore(buffer, cutoff), trail, start)
<1> DEFINE n == Len(buffer)
           t == Len(trail)
           rest == DropBefore(buffer, cutoff)
<1>1. PICK pos : Mirrors(pos, buffer, trail) /\ Reaches(pos, buffer, trail, start)
  BY DEF Mirrored
<1>2. PICK k \in 0 .. n :
        /\ k = CountBefore(buffer, cutoff) /\ DOMAIN rest = 1 .. n - k
        /\ \A i \in 1 .. n - k : k + i \in 1 .. n /\ rest[i] = buffer[k + i]
  BY DropShape
<1>3. /\ n \in Nat /\ t \in Nat
      /\ \A j \in 1 .. t : trail[j].ts \in Nat /\ AsReading(trail[j]).ts = trail[j].ts
  BY EventTimes, ReadingTimes
<1>4. PICK m \in Nat : m = n - k
  BY <1>2, <1>3
<1>5. Len(rest) = m
  <2>1. rest \in Seq(Reading)
    BY DropBeforeType
  <2>2. DOMAIN rest = 1 .. Len(rest) /\ Len(rest) \in Nat
    BY <2>1, LenProperties
  <2> QED BY <1>2, <1>4, <2>2
<1>6. /\ pos \in [1 .. n -> 1 .. t]
      /\ \A i \in 1 .. n : buffer[i] = AsReading(trail[pos[i]])
      /\ \A i, l \in 1 .. n : i < l => pos[i] # pos[l] /\ NotAfter(trail, pos[i], pos[l])
      /\ \A j \in 1 .. t : trail[j].ts >= start => \E i \in 1 .. n : pos[i] = j
  BY <1>1 DEF Mirrors, Reaches
<1>7. \A i \in 1 .. k : buffer[i].ts < cutoff
  <2> SUFFICES ASSUME NEW i \in 1 .. k PROVE buffer[i].ts < cutoff
    OBVIOUS
  <2>1. i \in 1 .. n /\ i <= CountBefore(buffer, cutoff)
    BY <1>2, <1>3
  <2> QED BY <2>1, DroppedBefore
<1> DEFINE at == [i \in 1 .. m |-> pos[k + i]]
<1>8. \A i \in 1 .. m : k + i \in 1 .. n /\ at[i] = pos[k + i] /\ rest[i] = buffer[k + i]
  BY <1>2, <1>4
<1>9. \A i \in k + 1 .. n : i - k \in 1 .. m /\ at[i - k] = pos[i]
  <2> SUFFICES ASSUME NEW i \in k + 1 .. n PROVE i - k \in 1 .. m /\ at[i - k] = pos[i]
    OBVIOUS
  <2>1. i - k \in 1 .. m /\ k + (i - k) = i
    BY <1>2, <1>3, <1>4
  <2> QED BY <2>1
<1>10. at \in [1 .. m -> 1 .. t]
  BY <1>6, <1>8
<1> HIDE DEF at, n, t
<1>11. \A i, l \in 1 .. m : i < l => at[i] # at[l] /\ NotAfter(trail, at[i], at[l])
  <2> SUFFICES ASSUME NEW i \in 1 .. m, NEW l \in 1 .. m, i < l
               PROVE  at[i] # at[l] /\ NotAfter(trail, at[i], at[l])
    OBVIOUS
  <2>1. k + i \in 1 .. n /\ k + l \in 1 .. n /\ k + i < k + l
    BY <1>2, <1>8
  <2> QED BY <1>6, <1>8, <2>1
<1>12. Mirrors(at, rest, trail)
  <2>1. \A i \in 1 .. m : rest[i] = AsReading(trail[at[i]])
    BY <1>6, <1>8
  <2> HIDE DEF rest
  <2> QED BY <1>5, <1>10, <1>11, <2>1 DEF Mirrors, t
<1>13. ASSUME NEW j \in 1 .. t, trail[j].ts >= start
       PROVE  \E i \in 1 .. m : at[i] = j
  <2>1. PICK i \in 1 .. n : pos[i] = j
    BY <1>6, <1>13
  <2>2. buffer[i].ts = trail[j].ts /\ trail[j].ts \in Nat
    BY <1>3, <1>6, <2>1
  <2>3. i \notin 1 .. k
    BY <1>7, <1>13, <2>2
  <2>4. i \in k + 1 .. n
    BY <1>2, <1>3, <2>3
  <2> QED BY <1>9, <2>1, <2>4
<1>14. Reaches(at, rest, trail, start)
  BY <1>5, <1>13 DEF Reaches, t
<1> QED BY <1>12, <1>14 DEF Mirrored

LEMMA AppendMirrored ==
  ASSUME NEW buffer \in Seq(Reading), NEW trail \in Seq(Event), NEW ev \in Event,
         InOrderUpTo(buffer, ev.ts),
         NEW start \in Int, Mirrored(buffer, trail, start)
  PROVE  Mirrored(Append(buffer, AsReading(ev)), Append(trail, ev), start)
<1> DEFINE n == Len(buffer)
           new == Append(buffer, AsReading(ev))
<1>1. n \in Nat /\ DOMAIN buffer = 1 .. n
  BY LenProperties
<1>2. AsReading(ev) \in Reading
  BY AsReadingType
<1>3. /\ Len(new) = n + 1 /\ new[n + 1] = AsReading(ev)
      /\ \A i \in 1 .. n : new[i] = buffer[i]
  BY <1>2, AppendProperties
<1>4. \A i \in 1 .. n : new[i] = buffer[i] /\ buffer[i].ts <= ev.ts
  BY <1>1, <1>3 DEF InOrderUpTo
<1>5. n \in 0 .. n /\ \A i \in n + 2 .. n + 1 : FALSE
  BY <1>1
<1> HIDE DEF new
<1>6. \A i \in n + 2 .. n + 1 : new[i] = buffer[i - 1] /\ buffer[i - 1].ts > ev.ts
  BY <1>5
<1>7. Mirrored(new, Append(trail, ev), start)
  BY <1>3, <1>4, <1>5, <1>6, InsertMirrored
<1> QED BY <1>7 DEF new

LEMMA InsertedMirrored ==
  ASSUME NEW buffer \in Seq(Reading), NEW limit \in Int, InOrderUpTo(buffer, limit),
         NEW trail \in Seq(Event), NEW ev \in Event,
         NEW start \in Int, Mirrored(buffer, trail, start)
  PROVE  Mirrored(InsertInOrder(buffer, AsReading(ev)), Append(trail, ev), start)
<1> DEFINE n == Len(buffer)
           new == InsertInOrder(buffer, AsReading(ev))
<1>1. /\ n \in Nat /\ ev.ts \in Nat
      /\ \A i \in 1 .. n : buffer[i].ts \in Nat
  BY ReadingTimes DEF Event
<1>2. AsReading(ev) \in Reading /\ AsReading(ev).ts = ev.ts
  BY AsReadingType DEF AsReading
<1>3. /\ DOMAIN new = 1 .. n + 1
      /\ \E k \in 0 .. n :
           /\ \A i \in 1 .. n : buffer[i].ts <= AsReading(ev).ts <=> i <= k
           /\ \A i \in 1 .. k : new[i] = buffer[i]
           /\ new[k + 1] = AsReading(ev)
           /\ \A i \in k + 2 .. n + 1 : new[i] = buffer[i - 1]
  BY <1>2, InsertShape
<1>4. PICK k \in 0 .. n :
        /\ \A i \in 1 .. n : buffer[i].ts <= ev.ts <=> i <= k
        /\ \A i \in 1 .. k : new[i] = buffer[i]
        /\ new[k + 1] = AsReading(ev)
        /\ \A i \in k + 2 .. n + 1 : new[i] = buffer[i - 1]
  BY <1>2, <1>3
<1>5. Len(new) = n + 1
  <2>1. new \in Seq(Reading)
    BY <1>2, InsertInOrderType
  <2>2. DOMAIN new = 1 .. Len(new) /\ Len(new) \in Nat
    BY <2>1, LenProperties
  <2> HIDE DEF new
  <2> QED BY <1>1, <1>3, <2>2
<1> HIDE DEF new
<1>6. \A i \in 1 .. k : new[i] = buffer[i] /\ buffer[i].ts <= ev.ts
  <2>1. \A i \in 1 .. k : i \in 1 .. n /\ i <= k
    BY <1>1
  <2> QED BY <1>4, <2>1
<1>7. \A i \in k + 2 .. n + 1 : new[i] = buffer[i - 1] /\ buffer[i - 1].ts > ev.ts
  <2>1. \A i \in k + 2 .. n + 1 : i - 1 \in 1 .. n /\ ~(i - 1 <= k)
    BY <1>1
  <2> QED BY <1>1, <1>4, <2>1
<1>8. Mirrored(new, Append(trail, ev), start)
  BY <1>4, <1>5, <1>6, <1>7, InsertMirrored
<1> QED BY <1>8 DEF new

-----------------------------------------------------------------------------
\* The verdict over a buffer that mirrors the trail.

LEMMA OfWindowType ==
  ASSUME NEW rule, NEW trail \in Seq(Event), NEW end
  PROVE  /\ OfWindow(rule, trail, end) \in SUBSET (1 .. Len(trail))
         /\ \A j \in 1 .. Len(trail) :
              j \in OfWindow(rule, trail, end) <=>
                /\ end - rule.duration <= trail[j].ts /\ trail[j].ts <= end
                /\ trail[j].sensor \in SensorsOf(rule)
<1>1. DOMAIN trail = 1 .. Len(trail)
  BY EventTimes
<1> QED BY <1>1 DEF OfWindow

LEMMA WindowMirrored ==
  ASSUME NEW rule, NEW buffer \in Seq(Reading), NEW trail \in Seq(Event),
         NEW start, NEW end, start = end - rule.duration, Mirrored(buffer, trail, start)
  PROVE  InWindow(rule, buffer, start, end) = InTimeOrder(trail, OfWindow(rule, trail, end))
<1> DEFINE n == Len(buffer)
           t == Len(trail)
           inside == {i \in DOMAIN buffer : /\ start <= buffer[i].ts /\ buffer[i].ts <= end
                                            /\ buffer[i].sensor \in SensorsOf(rule)}
           places == OfWindow(rule, trail, end)
           m == Cardinality(inside)
<1>1. PICK pos : Mirrors(pos, buffer, trail) /\ Reaches(pos, buffer, trail, start)
  BY DEF Mirrored
<1>2. /\ n \in Nat /\ t \in Nat /\ DOMAIN buffer = 1 .. n
      /\ \A j \in 1 .. t : /\ AsReading(trail[j]).ts = trail[j].ts
                           /\ AsReading(trail[j]).sensor = trail[j].sensor
  BY EventTimes, ReadingTimes
<1>3. /\ pos \in [1 .. n -> 1 .. t]
      /\ \A i \in 1 .. n : buffer[i] = AsReading(trail[pos[i]])
      /\ \A i, l \in 1 .. n : i < l => pos[i] # pos[l] /\ NotAfter(trail, pos[i], pos[l])
      /\ \A j \in 1 .. t : trail[j].ts >= start => \E i \in 1 .. n : pos[i] = j
  BY <1>1 DEF Mirrors, Reaches
<1>4. \A i \in 1 .. n : i \in inside <=> pos[i] \in places
  <2> SUFFICES ASSUME NEW i \in 1 .. n PROVE i \in inside <=> pos[i] \in places
    OBVIOUS
  <2>1. /\ pos[i] \in 1 .. t /\ buffer[i].ts = trail[pos[i]].ts
        /\ buffer[i].sensor = trail[pos[i]].sensor
    BY <1>2, <1>3
  <2>2. pos[i] \in places <=> /\ start <= trail[pos[i]].ts /\ trail[pos[i]].ts <= end
                              /\ trail[pos[i]].sensor \in SensorsOf(rule)
    BY <2>1, OfWindowType
  <2> HIDE DEF places
  <2> QED BY <1>2, <2>1, <2>2
<1>5. \A j \in places : \E i \in inside : pos[i] = j
  <2> SUFFICES ASSUME NEW j \in places PROVE \E i \in inside : pos[i] = j
    OBVIOUS
  <2>1. j \in 1 .. t /\ start <= trail[j].ts
    BY OfWindowType
  <2>2. trail[j].ts >= start
    BY <2>1
  <2>3. PICK i \in 1 .. n : pos[i] = j
    BY <1>3, <2>1, <2>2
  <2> HIDE DEF places, inside
  <2> QED BY <1>4, <2>3
<1>6. inside \in SUBSET (1 .. n) /\ InWindow(rule, buffer, start, end) = Picked(buffer, inside)
  BY <1>2 DEF InWindow
<1>7. places \in SUBSET (1 .. t)
  BY OfWindowType
<1> HIDE DEF inside, places
<1>8. m \in Nat /\ \E at : PickedFrom(at, buffer, inside)
  BY <1>2, <1>6, PickedPlaces
<1>9. PICK at : PickedFrom(at, buffer, inside)
  BY <1>8
<1> HIDE DEF m, n, t
<1>10. /\ \A k \in 1 .. m : at[k] \in inside
       /\ \A k, l \in 1 .. m : k < l => at[k] < at[l]
       /\ \A i \in inside : \E k \in 1 .. m : at[k] = i
       /\ \A k \in 1 .. m : Picked(buffer, inside)[k] = buffer[at[k]]
  BY <1>9 DEF PickedFrom, Enumerates, m
<1>11. Picked(buffer, inside) = [k \in 1 .. m |-> buffer[at[k]]]
  <2>1. Picked(buffer, inside)
          = [k \in 1 .. m |-> buffer[CHOOSE i \in inside :
                                       Cardinality({j \in inside : j <= i}) = k]]
    BY DEF Picked, m
  <2>2. DOMAIN Picked(buffer, inside) = 1 .. m
    BY <2>1
  <2> QED BY <1>10, <2>1, <2>2
<1> DEFINE turn == [k \in 1 .. m |-> pos[at[k]]]
<1>12. \A k \in 1 .. m : at[k] \in inside /\ at[k] \in 1 .. n /\ turn[k] = pos[at[k]]
  BY <1>6, <1>10
<1>13. turn \in [1 .. m -> places]
  BY <1>4, <1>12
<1> HIDE DEF turn
<1>14. \A k, l \in 1 .. m : k < l => turn[k] # turn[l] /\ NotAfter(trail, turn[k], turn[l])
  BY <1>3, <1>10, <1>12
<1>15. \A j \in places : \E k \in 1 .. m : turn[k] = j
  BY <1>5, <1>10, <1>12
<1>16. InTurn(turn, m, trail, places)
  BY <1>13, <1>14, <1>15 DEF InTurn
<1>17. InTimeOrder(trail, places) = [k \in 1 .. m |-> AsReading(trail[turn[k]])]
  BY <1>7, <1>8, <1>16, InTimeOrderIs DEF t, TimedBy
<1>18. \A k \in 1 .. m : buffer[at[k]] = AsReading(trail[turn[k]])
  BY <1>3, <1>12
<1> QED BY <1>6, <1>11, <1>17, <1>18 DEF places

(* A buffer that has what a window looks at gives the verdict over all that *)
(* the rule was handed for it.                                              *)
LEMMA VerdictMirrored ==
  ASSUME NEW rule, NEW buffer \in Seq(Reading), NEW trail \in Seq(Event),
         NEW end, Mirrored(buffer, trail, end - rule.duration)
  PROVE  WindowHolds(rule, buffer, end - rule.duration, end) = TrueVerdict(rule, trail, end)
<1>1. InWindow(rule, buffer, end - rule.duration, end)
        = InTimeOrder(trail, OfWindow(rule, trail, end))
  BY WindowMirrored
<1> QED BY <1>1 DEF WindowHolds, TrueVerdict

(* An event that does not belong to a window leaves its verdict.            *)
LEMMA VerdictUnmoved ==
  ASSUME NEW rule, NEW trail \in Seq(Event), NEW ev \in Event, NEW end,
         ~(/\ end - rule.duration <= ev.ts /\ ev.ts <= end
           /\ ev.sensor \in SensorsOf(rule))
  PROVE  TrueVerdict(rule, Append(trail, ev), end) = TrueVerdict(rule, trail, end)
<1> DEFINE t == Len(trail)
           grown == Append(trail, ev)
           places == OfWindow(rule, trail, end)
<1>1. t \in Nat /\ grown \in Seq(Event)
  BY EventTimes, AppendProperties
<1>2. /\ Len(grown) = t + 1 /\ grown[t + 1] = ev
      /\ \A j \in 1 .. t : grown[j] = trail[j]
  BY AppendProperties
<1> HIDE DEF grown, t
<1>3. places \in SUBSET (1 .. t) /\ OfWindow(rule, grown, end) \in SUBSET (1 .. t + 1)
  BY <1>1, <1>2, OfWindowType DEF t
<1>4. OfWindow(rule, grown, end) = places
  <2>1. ASSUME NEW j \in 1 .. t
        PROVE  j \in OfWindow(rule, grown, end) <=> j \in places
    <3>1. j \in 1 .. t + 1
      BY <1>1
    <3>2. j \in OfWindow(rule, grown, end) <=>
            /\ end - rule.duration <= grown[j].ts /\ grown[j].ts <= end
            /\ grown[j].sensor \in SensorsOf(rule)
      BY <1>1, <1>2, <3>1, OfWindowType
    <3>3. j \in places <=>
            /\ end - rule.duration <= trail[j].ts /\ trail[j].ts <= end
            /\ trail[j].sensor \in SensorsOf(rule)
      BY OfWindowType DEF t
    <3> QED BY <1>2, <3>2, <3>3
  <2>2. t + 1 \notin OfWindow(rule, grown, end)
    <3>1. t + 1 \in 1 .. t + 1
      BY <1>1
    <3> QED BY <1>1, <1>2, <3>1, OfWindowType
  <2>3. \A j \in 1 .. t + 1 : j \in 1 .. t \/ j = t + 1
    BY <1>1
  <2>4. \A j \in 1 .. t : j \in 1 .. t + 1 /\ j # t + 1
    BY <1>1
  <2> HIDE DEF places
  <2>5. ASSUME NEW j PROVE j \in OfWindow(rule, grown, end) <=> j \in places
    BY <1>3, <2>1, <2>2, <2>3, <2>4, Zenon
  <2> QED BY <2>5, Zenon
<1> HIDE DEF places
<1>5. PICK m \in Nat : \E at : InTurn(at, m, trail, places)
  BY <1>3, SomeTurn DEF t
<1>6. PICK at : InTurn(at, m, trail, places)
  BY <1>5
<1>7. InTimeOrder(trail, places) = [k \in 1 .. m |-> AsReading(trail[at[k]])]
  BY <1>3, <1>6, InTimeOrderIs DEF t, TimedBy
<1>8. \A i, j \in 1 .. t : NotAfter(grown, i, j) <=> NotAfter(trail, i, j)
  BY <1>2 DEF NotAfter
<1>9. \A k \in 1 .. m : at[k] \in 1 .. t /\ grown[at[k]] = trail[at[k]]
  BY <1>2, <1>3, <1>6 DEF InTurn
<1>10. InTurn(at, m, grown, places)
  BY <1>6, <1>8, <1>9 DEF InTurn
<1>11. places \in SUBSET (1 .. Len(grown))
  BY <1>1, <1>2, <1>3
<1>12. InTimeOrder(grown, places) = [k \in 1 .. m |-> AsReading(grown[at[k]])]
  <2>1. grown \in Seq(Event)
    BY <1>1
  <2>2. InTimeOrder(grown, places) = TimedBy(grown, at, m)
    BY <1>10, <1>11, <2>1, InTimeOrderIs, Zenon
  <2> QED BY <2>2 DEF TimedBy
<1>13. InTimeOrder(grown, places) = InTimeOrder(trail, places)
  BY <1>7, <1>9, <1>12
<1> QED BY <1>4, <1>13 DEF TrueVerdict, places, grown

-----------------------------------------------------------------------------
\* What the handlers do to what a window rule remembers.

Recall(st) == <<st.buffer, st.closed, st.held>>

LEMMA SequelRecall ==
  ASSUME NEW rule \in Rule, NEW mid \in RuleState, NEW now,
         NEW o \in Sequel(rule, mid, now)
  PROVE  Recall(o.state) = Recall(mid)
<1>1. Recall(NoteEmission(rule, mid, now)) = Recall(mid)
  BY DEF NoteEmission, Recall, RuleState
<1>2. Recall(CloseEpisode(mid)) = Recall(mid)
  BY DEF CloseEpisode, Recall, RuleState
<1>3. EmitEpisode(rule, mid, now).state \in {mid, NoteEmission(rule, mid, now)}
  BY DEF EmitEpisode, Emitting, Silent
<1>4. ResolveEpisode(rule, mid, now).state \in {mid, CloseEpisode(mid)}
  BY DEF ResolveEpisode, Emitting, Silent
<1>5. Silent(mid).state = mid
  BY DEF Silent
<1> QED BY <1>1, <1>2, <1>3, <1>4, <1>5 DEF Sequel

LEMMA RemindRecall ==
  ASSUME NEW rule \in Rule, NEW st \in RuleState, NEW now \in Nat
  PROVE  Recall(Remind(rule, st, now).state) = Recall(st)
BY DEF Remind, Emitting, Silent, Recall, RuleState

LEMMA WindowInOrder ==
  ASSUME NEW rule, Compiled(rule), rule.trigger = "window",
         NEW st \in RuleState, NEW ev \in Event
  PROVE  Recall(InOrder(rule, st, ev).state)
           = <<Append(DropBefore(st.buffer, ev.ts - rule.duration), AsReading(ev)),
               st.closed, st.held>>
<1> DEFINE pruned == Prune(rule, st, ev.ts)
           kept == [pruned EXCEPT !.buffer = Append(@, AsReading(ev))]
           heard == [kept EXCEPT !.lastSeen[ev.sensor] = ev.ts]
<1>1. rule.duration \in Nat \ {0} /\ rule.lookback = 0
  BY DEF Compiled, WellFormed, Rule
<1>2. Span(rule) = rule.duration
  BY <1>1 DEF Span, MaxOf
<1>3. pruned \in RuleState
  BY PruneType DEF Event
<1>4. Recall(pruned) = <<DropBefore(st.buffer, ev.ts - rule.duration), st.closed, st.held>>
  BY <1>1, <1>2 DEF Prune, Recall, RuleState
<1> HIDE DEF pruned
<1>5. kept \in RuleState
  <2>1. Append(pruned.buffer, AsReading(ev)) \in Seq(Reading)
    BY <1>3, AsReadingType, AppendProperties DEF RuleState
  <2> QED BY <1>3, <2>1 DEF RuleState
<1>6. Recall(kept) = <<Append(pruned.buffer, AsReading(ev)), pruned.closed, pruned.held>>
  BY <1>3 DEF Recall, RuleState
<1> HIDE DEF kept
<1>7. Recall(heard) = Recall(kept)
  BY <1>5 DEF Recall, RuleState
<1>8. InOrder(rule, st, ev) = IF ~MatchesEvent(rule, ev) THEN Silent(kept) ELSE Silent(heard)
  BY DEF InOrder, Buffers, heard, kept, pruned
<1> HIDE DEF heard
<1>9. InOrder(rule, st, ev).state \in {kept, heard}
  BY <1>8 DEF Silent
<1> QED BY <1>4, <1>6, <1>7, <1>9 DEF Recall

LEMMA WindowOnLate ==
  ASSUME NEW rule \in Rule, rule.trigger = "window", NEW st \in RuleState, NEW ev \in Event
  PROVE  Recall(OnLate(rule, st, ev).state)
           = <<InsertInOrder(st.buffer, AsReading(ev)), st.closed, st.held>>
<1> DEFINE kept == [st EXCEPT !.buffer = InsertInOrder(@, AsReading(ev))]
           heard == [kept EXCEPT !.lastSeen[ev.sensor] = MaxOf(@, ev.ts)]
<1>1. kept \in RuleState
  <2>1. InsertInOrder(st.buffer, AsReading(ev)) \in Seq(Reading)
    BY AsReadingType, InsertInOrderType DEF RuleState
  <2> QED BY <2>1 DEF RuleState
<1>2. Recall(kept) = <<InsertInOrder(st.buffer, AsReading(ev)), st.closed, st.held>>
  BY DEF Recall, RuleState
<1> HIDE DEF kept
<1>3. Recall(heard) = Recall(kept)
  BY <1>1 DEF Recall, RuleState
<1>4. OnLate(rule, st, ev) = IF ~MatchesEvent(rule, ev) THEN Silent(kept) ELSE Silent(heard)
  BY DEF OnLate, Buffers, heard, kept
<1> HIDE DEF heard
<1>5. OnLate(rule, st, ev).state \in {kept, heard}
  BY <1>4 DEF Silent
<1> QED BY <1>2, <1>3, <1>5

(* A window that closes is remembered with the verdict over what the buffer *)
(* has of it; the others keep theirs, or are forgotten.                     *)
LEMMA WindowOnTimer ==
  ASSUME NEW rule \in Rule, rule.trigger = "window", NEW st \in RuleState, NEW now \in Nat,
         NEW remember
  PROVE  LET new == OnTimer(rule, st, now, remember).state
         IN /\ new.buffer = st.buffer
            /\ \A end \in new.closed :
                 \/ end \in st.closed /\ (end \in new.held <=> end \in st.held)
                 \/ /\ remember /\ end = now
                    /\ end \in new.held
                         <=> WindowHolds(rule, st.buffer, now - rule.duration, now)
<1> DEFINE reminded == Remind(rule, st, now).state
           new == OnTimer(rule, st, now, remember).state
           holds == WindowHolds(rule, st.buffer, now - rule.duration, now)
           Noted(mid) ==
             /\ mid.buffer = st.buffer
             /\ \A end \in mid.closed :
                  \/ end \in st.closed /\ (end \in mid.held <=> end \in st.held)
                  \/ remember /\ end = now /\ (end \in mid.held <=> holds)
<1>1. reminded \in RuleState /\ Recall(reminded) = Recall(st)
  BY RemindType, RemindRecall
<1>2. new = FireWindow(rule, reminded, now, remember).state
  BY DEF OnTimer, Then, FireTrigger
<1> HIDE DEF reminded, new
<1>3. ASSUME NEW mid, Recall(new) = Recall(mid), Noted(mid)
      PROVE  Noted(new)
  BY <1>3 DEF Recall
<1>4. Noted(reminded)
  BY <1>1 DEF Recall
<1>5. CASE reminded.nextWindowEnd # now
  <2>1. new = reminded
    BY <1>2, <1>5 DEF FireWindow, Silent
  <2> QED BY <1>4, <2>1 DEF new
<1>6. CASE reminded.nextWindowEnd = now
  <2> DEFINE noted == IF remember THEN RecordClosedWindow(rule, reminded, now, holds)
                      ELSE reminded
             next == [noted EXCEPT !.nextWindowEnd = now + rule.slide]
  <2>1. WindowHolds(rule, reminded.buffer, now - rule.duration, now) = holds
    BY <1>1 DEF Recall
  <2>2. FireWindow(rule, reminded, now, remember)
          \in {EmitEpisode(rule, next, now), ResolveEpisode(rule, next, now)}
    BY <1>6, <2>1 DEF FireWindow
  <2>3. noted \in RuleState
    BY <1>1, RecordClosedWindowType
  <2>4. Noted(noted)
    <3>1. CASE ~remember
      BY <1>4, <3>1
    <3>2. CASE remember
      <4>1. /\ noted.buffer = reminded.buffer
            /\ noted.closed = {e \in reminded.closed \cup {now} :
                                 e >= now - (rule.duration + rule.lateness)}
            /\ noted.held = {e \in (IF holds THEN reminded.held \cup {now}
                                    ELSE reminded.held \ {now}) :
                               e >= now - (rule.duration + rule.lateness)}
        BY <1>1, <3>2 DEF RecordClosedWindow, RuleState
      <4>2. /\ reminded.buffer = st.buffer /\ reminded.closed = st.closed
            /\ reminded.held = st.held
        BY <1>1 DEF Recall
      <4> HIDE DEF noted, holds
      <4>3. ASSUME NEW end \in noted.closed, end # now
            PROVE  end \in st.closed /\ (end \in noted.held <=> end \in st.held)
        BY <4>1, <4>2, <4>3
      <4>4. now \in noted.closed => (now \in noted.held <=> holds)
        BY <4>1
      <4> QED BY <3>2, <4>1, <4>2, <4>3, <4>4
    <3> QED BY <3>1, <3>2
  <2> HIDE DEF noted
  <2>5. next \in RuleState /\ Recall(next) = Recall(noted)
    <3>1. now + rule.slide \in Moment
      BY DEF Rule, Moment
    <3> QED BY <2>3, <3>1 DEF Recall, RuleState
  <2> HIDE DEF next
  <2>6. Recall(new) = Recall(next)
    BY <1>2, <2>2, <2>5, SequelRecall DEF Sequel
  <2> HIDE DEF Noted
  <2>7. Noted(new)
    BY <1>3, <2>4, <2>5, <2>6
  <2> QED BY <2>7 DEF Noted, new, holds
<1> QED BY <1>5, <1>6

(* A closed window that is asked again gets the verdict over what the       *)
(* buffer has of it now.                                                    *)
LEMMA WindowRecomputed ==
  ASSUME NEW rule \in Rule, NEW st \in RuleState, NEW end \in Nat
  PROVE  LET new == RecomputeWindow(rule, st, end).state
         IN /\ new.buffer = st.buffer /\ new.closed = st.closed
            /\ \A e : e # end => (e \in new.held <=> e \in st.held)
            /\ end \in new.held <=> WindowHolds(rule, st.buffer, end - rule.duration, end)
<1> DEFINE new == RecomputeWindow(rule, st, end).state
           holds == WindowHolds(rule, st.buffer, end - rule.duration, end)
           held == IF holds THEN st.held \cup {end} ELSE st.held \ {end}
           noted == [st EXCEPT !.held = held]
<1>0. holds \in BOOLEAN
  BY DEF WindowHolds, EvaluateOperands
<1>1. RecomputeWindow(rule, st, end) =
        CASE holds = (end \in st.held) -> Silent(st)
          [] holds /\ end \notin st.held -> EmitEpisode(rule, noted, end)
          [] OTHER -> [Emitting(rule, noted, "retracted", end)
                         EXCEPT !.state = CloseEpisode(noted)]
  BY DEF RecomputeWindow
<1> HIDE DEF holds
<1>2. noted \in RuleState /\ Recall(noted) = <<st.buffer, st.closed, held>>
  BY DEF RuleState, Recall
<1>3. CASE holds = (end \in st.held)
  <2> HIDE DEF noted
  <2>0. RecomputeWindow(rule, st, end) = Silent(st)
    BY <1>1, <1>3
  <2>1. new = st
    BY <2>0 DEF Silent
  <2> HIDE DEF new
  <2>2. end \in new.held <=> holds
    BY <1>3, <2>1, Zenon
  <2>3. /\ new.buffer = st.buffer /\ new.closed = st.closed
        /\ \A e : e # end => (e \in new.held <=> e \in st.held)
    BY <2>1
  <2> QED BY <2>2, <2>3, Zenon DEF holds, new
<1>4. CASE holds # (end \in st.held)
  <2>1. RecomputeWindow(rule, st, end) =
          IF holds THEN EmitEpisode(rule, noted, end)
          ELSE [Emitting(rule, noted, "retracted", end) EXCEPT !.state = CloseEpisode(noted)]
    BY <1>0, <1>1, <1>4
  <2> HIDE DEF noted
  <2>2. Recall(EmitEpisode(rule, noted, end).state) = Recall(noted)
    BY <1>2, SequelRecall DEF Sequel
  <2>3. Recall(CloseEpisode(noted)) = Recall(noted)
    BY <1>2 DEF CloseEpisode, Recall, RuleState
  <2>4. [Emitting(rule, noted, "retracted", end) EXCEPT !.state = CloseEpisode(noted)].state
          = CloseEpisode(noted)
    BY DEF Emitting, Silent
  <2>5. Recall(new) = Recall(noted)
    BY <2>1, <2>2, <2>3, <2>4
  <2> HIDE DEF new
  <2>6. new.buffer = st.buffer /\ new.closed = st.closed /\ new.held = held
    BY <1>2, <2>5 DEF Recall
  <2> QED BY <2>6 DEF new, holds
<1> QED BY <1>3, <1>4

-----------------------------------------------------------------------------
\* The verdicts that are remembered.

(* A window rule has in its buffer what it may be asked for a window that   *)
(* closes after now, and the verdict it remembers for such a window is the  *)
(* one over all it was handed, unless the window waits to be asked again.   *)
Remembers(rule, st, trail, now, limit, open) ==
  /\ Mirrored(st.buffer, trail, now - rule.duration)
  /\ st.closed # {} => RecomputeLate
  /\ \A end \in st.closed :
       /\ end <= limit
       /\ end > now /\ end \notin open =>
            (end \in st.held <=> TrueVerdict(rule, trail, end))

LEMMA RemembersLater ==
  ASSUME NEW rule \in Rule, NEW st \in RuleState, NEW trail \in Seq(Event),
         NEW now \in Int, NEW limit \in Int, NEW open,
         Remembers(rule, st, trail, now, limit, open),
         NEW later \in Int, now <= later, NEW upto \in Int, limit <= upto,
         NEW more, open \subseteq more
  PROVE  Remembers(rule, st, trail, later, upto, more)
<1>1. rule.duration \in Nat /\ \A end \in st.closed : end \in Nat
  BY DEF Rule, RuleState
<1>2. Mirrored(st.buffer, trail, later - rule.duration)
  <2>1. /\ now - rule.duration \in Int /\ later - rule.duration \in Int
        /\ now - rule.duration <= later - rule.duration
    BY <1>1
  <2>2. Mirrored(st.buffer, trail, now - rule.duration)
    BY DEF Remembers
  <2> QED BY <2>1, <2>2, LaterMirrored
<1>3. ASSUME NEW end \in st.closed
      PROVE  /\ end <= upto
             /\ end > later /\ end \notin more =>
                  (end \in st.held <=> TrueVerdict(rule, trail, end))
  <2>1. end <= limit /\ (end > now /\ end \notin open =>
                           (end \in st.held <=> TrueVerdict(rule, trail, end)))
    BY DEF Remembers
  <2>2. end <= upto /\ (end > later => end > now) /\ (end \notin more => end \notin open)
    BY <1>1, <2>1
  <2> QED BY <2>1, <2>2
<1>4. st.closed # {} => RecomputeLate
  BY DEF Remembers
<1> QED BY <1>2, <1>3, <1>4 DEF Remembers

LEMMA FreshRemembers ==
  ASSUME NEW rule \in Rule, NEW t, NEW now \in Int, NEW limit, NEW open
  PROVE  /\ Remembers(rule, FreshState(rule, t), << >>, now, limit, open)
         /\ Remembers(rule, EmptyState, << >>, now, limit, open)
<1>1. /\ FreshState(rule, t).buffer = << >> /\ FreshState(rule, t).closed = {}
      /\ EmptyState.buffer = << >> /\ EmptyState.closed = {}
  BY DEF FreshState, EmptyState
<1>2. Mirrored(<< >>, << >>, now - rule.duration)
  BY NothingMirrored
<1> QED BY <1>1, <1>2 DEF Remembers

(* No window closes after an event in order, so nothing is claimed yet.     *)
LEMMA InOrderRemembers ==
  ASSUME NEW rule, Compiled(rule), rule.trigger = "window",
         NEW st \in RuleState, NEW ev \in Event, NEW trail \in Seq(Event),
         InOrderUpTo(st.buffer, ev.ts),
         NEW now \in Int, NEW limit \in Int, limit <= ev.ts, NEW open,
         Remembers(rule, st, trail, now, limit, open),
         NEW later \in Int, now <= later, ev.ts <= later, NEW more
  PROVE  Remembers(rule, InOrder(rule, st, ev).state, Append(trail, ev), later, ev.ts, more)
<1> DEFINE new == InOrder(rule, st, ev).state
           cutoff == ev.ts - rule.duration
           start == later - rule.duration
<1>1. /\ rule \in Rule /\ rule.duration \in Nat /\ ev.ts \in Int
      /\ st.buffer \in Seq(Reading) /\ st.closed \in SUBSET Nat
  <2>1. rule \in Rule
    BY DEF Compiled
  <2>2. rule.duration \in Nat
    BY <2>1 DEF Rule
  <2>3. ev.ts \in Int
    BY DEF Event
  <2>4. st.buffer \in Seq(Reading) /\ st.closed \in SUBSET Nat
    BY DEF RuleState
  <2> QED BY <2>1, <2>2, <2>3, <2>4
<1>2. cutoff \in Int /\ start \in Int /\ cutoff <= start
      /\ now - rule.duration \in Int /\ now - rule.duration <= start
  BY <1>1
<1> HIDE DEF cutoff, start
<1>3. /\ new.buffer = Append(DropBefore(st.buffer, cutoff), AsReading(ev))
      /\ new.closed = st.closed
  BY WindowInOrder DEF Recall, cutoff
<1>4. Mirrored(st.buffer, trail, start)
  BY <1>2, LaterMirrored DEF Remembers
<1>5. Mirrored(DropBefore(st.buffer, cutoff), trail, start)
  BY <1>1, <1>2, <1>4, DropMirrored
<1>6. /\ DropBefore(st.buffer, cutoff) \in Seq(Reading)
      /\ InOrderUpTo(DropBefore(st.buffer, cutoff), ev.ts)
  BY <1>1, DropBeforeType, DropBeforeOrdered
<1>7. Mirrored(new.buffer, Append(trail, ev), start)
  BY <1>2, <1>3, <1>5, <1>6, AppendMirrored
<1> HIDE DEF new
<1>8. \A end \in new.closed : end <= ev.ts /\ ~(end > later)
  <2> SUFFICES ASSUME NEW end \in st.closed PROVE end <= ev.ts /\ ~(end > later)
    BY <1>3
  <2>1. end \in Nat /\ end <= limit
    BY <1>1 DEF Remembers
  <2> QED BY <1>1, <2>1
<1>9. new.closed # {} => RecomputeLate
  BY <1>3 DEF Remembers
<1> QED BY <1>7, <1>8, <1>9 DEF Remembers, start, new

(* A late event changes the verdict of the windows it belongs to, and those *)
(* are asked again.                                                         *)
LEMMA OnLateRemembers ==
  ASSUME NEW rule \in Rule, rule.trigger = "window",
         NEW st \in RuleState, NEW ev \in Event, NEW trail \in Seq(Event),
         NEW bound \in Int, InOrderUpTo(st.buffer, bound), AppliesToEntity(rule, ev.entity),
         NEW now \in Int, NEW limit \in Int,
         Remembers(rule, st, trail, now, limit, {}),
         NEW more, RecomputeLate => AffectedWindows(rule, st, ev) \subseteq more
  PROVE  Remembers(rule, OnLate(rule, st, ev).state, Append(trail, ev), now, limit, more)
<1> DEFINE new == OnLate(rule, st, ev).state
           start == now - rule.duration
<1>1. /\ rule.duration \in Nat /\ st.buffer \in Seq(Reading) /\ start \in Int
  BY DEF Rule, RuleState
<1>2. /\ new.buffer = InsertInOrder(st.buffer, AsReading(ev))
      /\ new.closed = st.closed /\ new.held = st.held
  BY WindowOnLate DEF Recall
<1> HIDE DEF new
<1>3. Mirrored(new.buffer, Append(trail, ev), start)
  BY <1>1, <1>2, InsertedMirrored DEF Remembers
<1>4. ASSUME NEW end \in st.closed, end > now, end \notin more
      PROVE  end \in st.held <=> TrueVerdict(rule, Append(trail, ev), end)
  <2>1. RecomputeLate
    BY DEF Remembers
  <2>2. end \notin AffectedWindows(rule, st, ev)
    BY <1>4, <2>1
  <2>3. ~(/\ end - rule.duration <= ev.ts /\ ev.ts <= end
          /\ ev.sensor \in SensorsOf(rule))
    BY <2>2 DEF AffectedWindows, MatchesEvent
  <2>4. TrueVerdict(rule, Append(trail, ev), end) = TrueVerdict(rule, trail, end)
    BY <2>3, VerdictUnmoved
  <2>5. end \in st.held <=> TrueVerdict(rule, trail, end)
    BY <1>4 DEF Remembers
  <2> QED BY <2>4, <2>5
<1>5. st.closed # {} => RecomputeLate
  BY DEF Remembers
<1>6. \A end \in st.closed : end <= limit
  BY DEF Remembers
<1> QED BY <1>2, <1>3, <1>4, <1>5, <1>6 DEF Remembers, start, new

(* A window that closes now has all its events in the buffer.               *)
LEMMA OnTimerRemembers ==
  ASSUME NEW rule \in Rule, rule.trigger = "window",
         NEW st \in RuleState, NEW t \in Nat, NEW trail \in Seq(Event),
         NEW now \in Int, NEW limit \in Int, t <= limit, NEW open,
         Remembers(rule, st, trail, now, limit, open)
  PROVE  Remembers(rule, OnTimer(rule, st, t, RecomputeLate).state, trail, now, limit, open)
<1> DEFINE new == OnTimer(rule, st, t, RecomputeLate).state
<1>1. rule.duration \in Nat /\ st.buffer \in Seq(Reading)
  BY DEF Rule, RuleState
<1>2. /\ new.buffer = st.buffer
      /\ \A end \in new.closed :
           \/ end \in st.closed /\ (end \in new.held <=> end \in st.held)
           \/ /\ RecomputeLate /\ end = t
              /\ end \in new.held <=> WindowHolds(rule, st.buffer, t - rule.duration, t)
  BY WindowOnTimer
<1> HIDE DEF new
<1>3. ASSUME t > now
      PROVE  WindowHolds(rule, st.buffer, t - rule.duration, t) = TrueVerdict(rule, trail, t)
  <2>1. /\ now - rule.duration \in Int /\ t - rule.duration \in Int
        /\ now - rule.duration <= t - rule.duration
    BY <1>1, <1>3
  <2>2. Mirrored(st.buffer, trail, t - rule.duration)
    BY <2>1, LaterMirrored DEF Remembers
  <2> QED BY <1>1, <2>2, VerdictMirrored
<1>4. ASSUME NEW end \in new.closed
      PROVE  /\ RecomputeLate /\ end <= limit
             /\ end > now /\ end \notin open =>
                  (end \in new.held <=> TrueVerdict(rule, trail, end))
  <2>1. CASE end \in st.closed /\ (end \in new.held <=> end \in st.held)
    BY <2>1 DEF Remembers
  <2>2. CASE /\ RecomputeLate /\ end = t
             /\ end \in new.held <=> WindowHolds(rule, st.buffer, t - rule.duration, t)
    BY <1>3, <2>2
  <2> QED BY <1>2, <2>1, <2>2
<1>5. Mirrored(new.buffer, trail, now - rule.duration)
  BY <1>2 DEF Remembers
<1> QED BY <1>4, <1>5 DEF Remembers, new

LEMMA RecomputeRemembers ==
  ASSUME NEW rule \in Rule, NEW st \in RuleState, NEW end \in Nat, NEW trail \in Seq(Event),
         NEW now \in Int, NEW limit \in Int, NEW open,
         Remembers(rule, st, trail, now, limit, open)
  PROVE  Remembers(rule, RecomputeWindow(rule, st, end).state, trail, now, limit,
                   open \ {end})
<1> DEFINE new == RecomputeWindow(rule, st, end).state
<1>1. rule.duration \in Nat /\ st.buffer \in Seq(Reading)
  BY DEF Rule, RuleState
<1>2. /\ new.buffer = st.buffer /\ new.closed = st.closed
      /\ \A e : e # end => (e \in new.held <=> e \in st.held)
      /\ end \in new.held <=> WindowHolds(rule, st.buffer, end - rule.duration, end)
  BY WindowRecomputed
<1> HIDE DEF new
<1>3. ASSUME end > now
      PROVE  WindowHolds(rule, st.buffer, end - rule.duration, end)
               = TrueVerdict(rule, trail, end)
  <2>1. /\ now - rule.duration \in Int /\ end - rule.duration \in Int
        /\ now - rule.duration <= end - rule.duration
    BY <1>1, <1>3
  <2>2. Mirrored(st.buffer, trail, end - rule.duration)
    BY <2>1, LaterMirrored DEF Remembers
  <2> QED BY <1>1, <2>2, VerdictMirrored
<1>4. ASSUME NEW e \in st.closed, e > now, e \notin open \ {end}
      PROVE  e \in new.held <=> TrueVerdict(rule, trail, e)
  <2>1. CASE e = end
    BY <1>2, <1>3, <1>4, <2>1
  <2>2. CASE e # end
    <3>1. e \in st.held <=> TrueVerdict(rule, trail, e)
      BY <1>4, <2>2 DEF Remembers
    <3> QED BY <1>2, <2>2, <3>1
  <2> QED BY <2>1, <2>2
<1>5. (st.closed # {} => RecomputeLate) /\ \A e \in st.closed : e <= limit
  BY DEF Remembers
<1>6. Mirrored(new.buffer, trail, now - rule.duration)
  BY <1>2 DEF Remembers
<1> QED BY <1>2, <1>4, <1>5, <1>6 DEF Remembers, new

\* How far the events of a window rule have come in a partition.
Progressed(p, rule) == IF rule.partition = "entity_id" THEN entityWm[p] ELSE Limit

VerdictInv ==
  \A p \in Partitions, r \in RuleIds :
    states[p][r] # NoState /\ rules[r].trigger = "window" =>
      /\ rules[r].partition = "entity_id" => p \in Entities
      /\ Remembers(rules[r], states[p][r], log[p][r], Progressed(p, rules[r]), Limit,
                   Open(p, r))

LEMMA EntityAdvances ==
  ASSUME EngineInv, [Next]_vars, NEW e \in Entities
  PROVE  entityWm[e] \in Int /\ entityWm'[e] \in Int /\ entityWm[e] <= entityWm'[e]
<1>1. /\ entityWm \in [Entities -> Moment] /\ entityWm' \in [Entities -> Moment]
  BY EngineInvStep DEF EngineInv, ProgressInv
<1>2. entityWm[e] \in Int /\ entityWm'[e] \in Int
  BY <1>1, MomentIsInt
<1>3. ASSUME NEW ev, entityWm' = [entityWm EXCEPT ![ev.entity] = MaxOf(@, ev.ts)]
      PROVE  entityWm[e] <= entityWm'[e]
  <2>1. CASE e = ev.entity
    <3>1. entityWm'[e] = MaxOf(entityWm[e], ev.ts)
      BY <1>1, <1>3, <2>1
    <3> QED BY <1>2, <3>1 DEF MaxOf
  <2>2. CASE e # ev.entity
    BY <1>1, <1>2, <1>3, <2>2
  <2> QED BY <2>1, <2>2
<1>4. entityWm' = entityWm
        \/ \E ev : entityWm' = [entityWm EXCEPT ![ev.entity] = MaxOf(@, ev.ts)]
  <2>1. CASE UNCHANGED vars
    BY <2>1 DEF vars
  <2>2. ASSUME NEW ev \in Offered, ProcessEvent(ev)
        PROVE  entityWm' = entityWm
                 \/ \E x : entityWm' = [entityWm EXCEPT ![x.entity] = MaxOf(@, x.ts)]
    BY <2>2 DEF ProcessEvent, RefuseLate, FoldLate, FirstEvent, AcceptEvent, Deliver
  <2>3. ASSUME NEW t \in 0 .. MaxTime, FirstAdvance(t) \/ AdvanceTo(t)
        PROVE  entityWm' = entityWm
    BY <2>3 DEF FirstAdvance, AdvanceTo
  <2>4. ASSUME NEW new \in Reloads, NEW policy \in ReloadPolicies, Reload(new, policy)
        PROVE  entityWm' = entityWm
    BY <2>4 DEF Reload, ReloadNow, StageReload
  <2>5. CASE FireDue \/ \E x \in call.reopen : Recompute(x)
    BY <2>5 DEF FireDue, Recompute
  <2>6. CASE Settle
    <3>1. CASE call.event = NoEvent
      BY <2>6, <3>1 DEF Settle
    <3>2. CASE call.event # NoEvent
      BY <2>6, <3>2 DEF Settle, Deliver
    <3> QED BY <3>1, <3>2
  <2> QED BY <2>1, <2>2, <2>3, <2>4, <2>5, <2>6 DEF Next, Progress
<1> QED BY <1>2, <1>3, <1>4

LEMMA ProgressedLater ==
  ASSUME EngineInv, [Next]_vars, NEW p, NEW rule, rule.partition = "entity_id" => p \in Entities
  PROVE  /\ Progressed(p, rule) \in Int
         /\ (IF rule.partition = "entity_id" THEN entityWm'[p] ELSE Limit') \in Int
         /\ Progressed(p, rule) <= IF rule.partition = "entity_id" THEN entityWm'[p] ELSE Limit'
<1>1. Limit \in Int /\ Limit' \in Int /\ Limit <= Limit'
  BY LimitGrows, MomentIsInt DEF EngineInv
<1>2. CASE rule.partition = "entity_id"
  BY <1>2, EntityAdvances DEF Progressed
<1>3. CASE rule.partition # "entity_id"
  BY <1>1, <1>3 DEF Progressed
<1> QED BY <1>2, <1>3

\* The windows a late event belongs to wait to be asked again.
LEMMA ReopenedOpen ==
  ASSUME EngineInv, NEW ev \in Offered, FoldLate(ev), RecomputeLate,
         NEW p \in Partitions, NEW r \in RuleIds, p \in FoldedIn(ev, r),
         states[p][r] # NoState
  PROVE  AffectedWindows(rules[r], states[p][r], ev) \subseteq Open(p, r)'
<1> SUFFICES ASSUME NEW end \in AffectedWindows(rules[r], states[p][r], ev)
             PROVE  end \in Open(p, r)'
  OBVIOUS
<1> DEFINE x == [p |-> p, r |-> r, end |-> end]
           q == <<p, r>>
<1>1. x \in Reopens(ev)
  <2>1. q \in {z \in Partitions \X RuleIds :
                 z[1] \in FoldedIn(ev, z[2]) /\ states[z[1]][z[2]] # NoState}
    OBVIOUS
  <2>2. x \in {[p |-> q[1], r |-> q[2], end |-> e] :
                 e \in AffectedWindows(rules[q[2]], states[q[1]][q[2]], ev)}
    OBVIOUS
  <2> HIDE DEF x, q
  <2> QED BY <2>1, <2>2 DEF Reopens
<1>2. call'.reopen = Reopens(ev)
  <2>1. call' = [Idle EXCEPT !.stage = "recompute", !.reopen = Reopens(ev)]
    BY <1>1 DEF FoldLate
  <2> QED BY <2>1 DEF Idle
<1>3. x \in {y \in call'.reopen : y.p = p /\ y.r = r} /\ x.end = end
  BY <1>1, <1>2
<1> QED BY <1>3 DEF Open

LEMMA VerdictInit ==
  ASSUME HistInit
  PROVE  VerdictInv
BY DEF HistInit, Init, VerdictInv

(* Whatever a step does, the verdicts that are remembered stay those over   *)
(* the whole trail.                                                         *)
LEMMA VerdictStep ==
  ASSUME EngineInv, BufferInv, NoReloads, TrailInv, VerdictInv, [HistNext]_histVars
  PROVE  VerdictInv'
<1> SUFFICES ASSUME NEW p \in Partitions, NEW r \in RuleIds,
                    states'[p][r] # NoState, rules[r].trigger = "window"
             PROVE  /\ rules[r].partition = "entity_id" => p \in Entities
                    /\ Remembers(rules[r], states'[p][r], log'[p][r],
                                 Progressed(p, rules[r])', Limit', Open(p, r)')
  BY HistTurnTaken DEF VerdictInv, Progressed
<1> DEFINE rule == rules[r]
           st == states[p][r]
           trail == log[p][r]
           now == Progressed(p, rule)
           later == IF rule.partition = "entity_id" THEN entityWm'[p] ELSE Limit'
           open == Open(p, r)
           more == Open(p, r)'
<1> HIDE DEF rule, now, later, open, more, st, trail
<1>1. [Next]_vars
  BY HistNextIsNext
<1>2. Limit \in Int /\ Limit' \in Int /\ Limit <= Limit'
  BY <1>1, LimitGrows, MomentIsInt DEF EngineInv
<1>3. trail \in Seq(Event) /\ (st = NoState => trail = << >>)
  BY DEF TrailInv, trail, st
<1>4. /\ rules[r] # NoRule => Compiled(rule) /\ rule \in Rule
      /\ rule.trigger = "window"
  BY DEF EngineInv, StateInv, RulesOK, Compiled, rule
<1>5. ASSUME st # NoState
      PROVE  /\ st \in RuleState /\ Compiled(rule) /\ rule \in Rule
             /\ InOrderUpTo(st.buffer, Limit)
             /\ rule.partition = "entity_id" => p \in Entities
             /\ Remembers(rule, st, trail, now, Limit, open)
  BY <1>5 DEF EngineInv, StateInv, RulesOK, StatesOK, Compiled, BufferInv, VerdictInv,
              st, rule, trail, now, open
<1>6. ASSUME rule.partition = "entity_id" => p \in Entities
      PROVE  now \in Int /\ later \in Int /\ now <= later
  BY <1>1, <1>6, ProgressedLater DEF now, later
<1>7. rules' = rules
  BY HistTurnTaken
<1>8. ASSUME /\ rule.partition = "entity_id" => p \in Entities
             /\ Remembers(rule, states'[p][r], log'[p][r], later, Limit', more)
      PROVE  /\ rules[r].partition = "entity_id" => p \in Entities
             /\ Remembers(rules[r], states'[p][r], log'[p][r],
                          Progressed(p, rules[r])', Limit', Open(p, r)')
  BY <1>7, <1>8 DEF rule, later, more, Progressed
<1> SUFFICES /\ rule.partition = "entity_id" => p \in Entities
             /\ Remembers(rule, states'[p][r], log'[p][r], later, Limit', more)
  BY <1>8
<1>9. CASE LeavesAlone(p, r)
  <2>1. states'[p][r] = st /\ log'[p][r] = trail /\ open \subseteq more /\ st # NoState
    BY <1>9 DEF LeavesAlone, st, trail, open, more
  <2> QED BY <1>2, <1>3, <1>5, <1>6, <2>1, RemembersLater
<1>10. ASSUME NEW ev, HandsTo(p, r, ev)
       PROVE  /\ rule.partition = "entity_id" => p \in Entities
              /\ Remembers(rule, states'[p][r], log'[p][r], later, Limit', more)
  <2> DEFINE was == Ensured(rule, st, ev.ts)
  <2>1. /\ ev \in Event /\ ev.ts \in Nat /\ ev.entity \in Entities
        /\ Compiled(rule) /\ rule \in Rule
        /\ states'[p][r] = InOrder(rule, was, ev).state
        /\ Limit' = ev.ts
        /\ p \in SeenIn(rule, ev)
    BY <1>4, <1>10 DEF HandsTo, Event, rule, st
  <2>2. p = PartitionKey(rule, ev)
    BY <2>1 DEF SeenIn
  <2>3. rule.partition = "entity_id" => p = ev.entity /\ p \in Entities
    BY <2>1, <2>2 DEF PartitionKey
  <2>4. ev.ts <= later
    <3>1. CASE rule.partition = "entity_id"
      <4>1. entityWm \in [Entities -> Moment] /\ entityWm[p] \in Int
        BY <2>3, <3>1, MomentIsInt DEF EngineInv, ProgressInv
      <4>2. later = MaxOf(entityWm[p], ev.ts)
        BY <1>10, <2>3, <3>1, <4>1 DEF HandsTo, later
      <4> QED BY <2>1, <4>1, <4>2 DEF MaxOf
    <3>2. CASE rule.partition # "entity_id"
      BY <2>1, <3>2 DEF later
    <3> QED BY <3>1, <3>2
  <2>5. log'[p][r] = Append(trail, ev)
    <3>1. Buffers(rule)
      BY <1>4 DEF Buffers
    <3> QED BY <1>3, <1>10, <2>1, <3>1, ExtendedType DEF HandsTo, rule, trail
  <2>6. /\ was \in RuleState /\ InOrderUpTo(was.buffer, ev.ts)
        /\ Remembers(rule, was, trail, now, Limit, open)
    <3>1. CASE st = NoState
      <4>1. was = FreshState(rule, ev.ts)
        BY <3>1 DEF Ensured
      <4>2. now \in Int
        BY <1>6, <2>3
      <4> HIDE DEF was
      <4> QED BY <1>3, <2>1, <3>1, <4>1, <4>2, FreshStateType, EmptyOrdered, FreshRemembers
    <3>2. CASE st # NoState
      <4>1. was = st
        BY <3>2 DEF Ensured
      <4>2. st.buffer \in Seq(Reading) /\ InOrderUpTo(st.buffer, Limit)
        BY <1>5, <3>2 DEF RuleState
      <4>3. InOrderUpTo(st.buffer, ev.ts)
        BY <1>2, <2>1, <4>2, InOrderLater
      <4> HIDE DEF was
      <4> QED BY <1>5, <3>2, <4>1, <4>3
    <3> QED BY <3>1, <3>2
  <2> HIDE DEF was
  <2>7. now \in Int /\ later \in Int /\ now <= later
    BY <1>6, <2>3
  <2>8. Limit <= ev.ts
    BY <1>2, <2>1
  <2>9. Remembers(rule, InOrder(rule, was, ev).state, Append(trail, ev), later, ev.ts, more)
    BY <1>2, <1>3, <1>4, <2>1, <2>4, <2>6, <2>7, <2>8, InOrderRemembers
  <2> QED BY <2>1, <2>3, <2>5, <2>9
<1>11. ASSUME NEW ev, FoldsInto(p, r, ev)
       PROVE  /\ rule.partition = "entity_id" => p \in Entities
              /\ Remembers(rule, states'[p][r], log'[p][r], later, Limit', more)
  <2> DEFINE was == Ensured(rule, st, watermark)
  <2>1. /\ ev \in Event /\ ev.entity \in Entities /\ watermark \in Nat
        /\ rule \in Rule
        /\ states'[p][r] = OnLate(rule, was, ev).state
        /\ p \in FoldedIn(ev, r) /\ ev \in Offered /\ FoldLate(ev) /\ open = {}
    BY <1>4, <1>11 DEF FoldsInto, Event, rule, st, open
  <2>2. p = PartitionKey(rule, ev) /\ AppliesToEntity(rule, ev.entity)
    BY <2>1 DEF FoldedIn, SeenIn, rule
  <2>3. rule.partition = "entity_id" => p \in Entities
    BY <2>1, <2>2 DEF PartitionKey
  <2>4. now \in Int /\ later \in Int /\ now <= later
    BY <1>6, <2>3
  <2>5. log'[p][r] = Append(trail, ev)
    <3>1. Buffers(rule)
      BY <1>4 DEF Buffers
    <3> QED BY <1>3, <1>11, <2>1, <3>1, ExtendedType DEF FoldsInto, rule, trail
  <2>6. /\ was \in RuleState /\ InOrderUpTo(was.buffer, Limit)
        /\ Remembers(rule, was, trail, now, Limit, {})
        /\ RecomputeLate => AffectedWindows(rule, was, ev) \subseteq more
    <3>1. CASE st = NoState
      <4>1. was = FreshState(rule, watermark)
        BY <3>1 DEF Ensured
      <4>2. was.closed = {}
        BY <4>1 DEF FreshState, EmptyState
      <4>3. AffectedWindows(rule, was, ev) = {}
        BY <4>2 DEF AffectedWindows
      <4> HIDE DEF was
      <4> QED BY <1>3, <2>1, <2>4, <3>1, <4>1, <4>3, FreshStateType, EmptyOrdered, FreshRemembers
    <3>2. CASE st # NoState
      <4>1. was = st
        BY <3>2 DEF Ensured
      <4>2. RecomputeLate => AffectedWindows(rule, st, ev) \subseteq more
        BY <2>1, <3>2, ReopenedOpen DEF rule, st, more
      <4> HIDE DEF was
      <4> QED BY <1>5, <2>1, <3>2, <4>1, <4>2
    <3> QED BY <3>1, <3>2
  <2> HIDE DEF was
  <2>7. Remembers(rule, OnLate(rule, was, ev).state, Append(trail, ev), now, Limit, more)
    BY <1>2, <1>3, <1>4, <2>1, <2>2, <2>4, <2>6, OnLateRemembers
  <2>8. OnLate(rule, was, ev).state \in RuleState /\ Append(trail, ev) \in Seq(Event)
    BY <1>3, <2>1, <2>6, OnLateType, AppendProperties DEF Outcome
  <2>9. Remembers(rule, OnLate(rule, was, ev).state, Append(trail, ev), later, Limit', more)
    BY <1>2, <2>1, <2>4, <2>7, <2>8, RemembersLater
  <2> QED BY <2>1, <2>3, <2>5, <2>9
<1>12. ASSUME NEW due, TicksAt(p, r, due)
       PROVE  /\ rule.partition = "entity_id" => p \in Entities
              /\ Remembers(rule, states'[p][r], log'[p][r], later, Limit', more)
  <2>1. /\ due \in Nat /\ due <= Limit' /\ st # NoState
        /\ states'[p][r] = OnTimer(rule, st, due, RecomputeLate).state
        /\ log'[p][r] = trail /\ more = open
    BY <1>12 DEF TicksAt, rule, st, trail, open, more
  <2>2. Remembers(rule, st, trail, later, Limit', more)
    BY <1>2, <1>3, <1>5, <1>6, <2>1, RemembersLater
  <2>3. later \in Int
    BY <1>5, <1>6, <2>1
  <2> QED BY <1>2, <1>3, <1>4, <1>5, <2>1, <2>2, <2>3, OnTimerRemembers
<1>13. ASSUME NEW end, AsksAgain(p, r, end)
       PROVE  /\ rule.partition = "entity_id" => p \in Entities
              /\ Remembers(rule, states'[p][r], log'[p][r], later, Limit', more)
  <2>1. /\ end \in Nat /\ st # NoState
        /\ states'[p][r] = RecomputeWindow(rule, st, end).state
        /\ log'[p][r] = trail /\ more = open \ {end}
    BY <1>13 DEF AsksAgain, rule, st, trail, open, more
  <2>2. Remembers(rule, st, trail, later, Limit', open)
    BY <1>2, <1>3, <1>5, <1>6, <2>1, RemembersLater
  <2>3. later \in Int
    BY <1>5, <1>6, <2>1
  <2> QED BY <1>2, <1>3, <1>5, <2>1, <2>2, <2>3, RecomputeRemembers
<1>14. HistTurn(p, r)
  BY HistTurnTaken
<1> QED BY <1>9, <1>10, <1>11, <1>12, <1>13, <1>14 DEF HistTurn

\* The time of a window rule is that of the entity it watches.
WindowsByEntity ==
  \A r \in RuleIds : InitialRules[r] # NoRule /\ InitialRules[r].trigger = "window" =>
                       InitialRules[r].partition = "entity_id"

Unreloaded == rules = InitialRules

(* For window rules that are partitioned by entity, a remembered verdict    *)
(* that a late event may still change is the verdict over every event the   *)
(* rule was handed for the window, late ones included and in time order:    *)
(* the buffer mirrors the trail from one window before the last event in    *)
(* order on, and the windows a late event belongs to are all asked again    *)
(* (_record_closed_window, _recompute_closed_windows, _prune_buffer).       *)
THEOREM ClosedVerdictsCorrect ==
  ASSUME WindowsByEntity
  PROVE  HistSpec => []ClosedVerdictsRight
<1>1. HistInit => NoReloads /\ TrailInv /\ VerdictInv /\ Unreloaded
  BY TrailInit, VerdictInit DEF HistInit, Init, Unreloaded
<1>2. EngineInv /\ BufferInv /\ NoReloads /\ TrailInv /\ VerdictInv /\ Unreloaded
      /\ [HistNext]_histVars
        => NoReloads' /\ TrailInv' /\ VerdictInv' /\ Unreloaded'
  BY HistTurnTaken, TrailStep, VerdictStep DEF Unreloaded
<1>3. ASSUME EngineInv, NoReloads, VerdictInv, Unreloaded
      PROVE  ClosedVerdictsRight
  <2> SUFFICES ASSUME IsIdle, NEW q \in LiveOf("window"),
                      NEW end \in states[q[1]][q[2]].closed, end > entityWm[q[1]]
               PROVE  end \in states[q[1]][q[2]].held
                        <=> TrueVerdict(rules[q[2]], log[q[1]][q[2]], end)
    BY DEF ClosedVerdictsRight
  <2>1. q[1] \in Partitions /\ q[2] \in RuleIds /\ states[q[1]][q[2]] # NoState
    BY DEF LiveOf, Live
  <2>2. Governing(q) = rules[q[2]] /\ rules[q[2]] # NoRule
    BY <1>3, <2>1, GovernedByRules DEF Governing, EngineInv, StateInv, StatesOK
  <2>3. rules[q[2]].trigger = "window" /\ rules[q[2]].partition = "entity_id"
    BY <1>3, <2>1, <2>2 DEF LiveOf, WindowsByEntity, Unreloaded
  <2>4. Open(q[1], q[2]) = {}
    BY <1>3 DEF Open, IsIdle, EngineInv, StateInv
  <2> QED BY <1>3, <2>1, <2>3, <2>4 DEF VerdictInv, Remembers, Progressed
<1> QED BY <1>1, <1>2, <1>3, HistEngineInv, PTL DEF HistSpec

-----------------------------------------------------------------------------
\* The preview of a window.

(* An event that is as late as those chosen comes last in their order.      *)
LEMMA LastInTurn ==
  ASSUME NEW trail \in Seq(Event), NEW places \in SUBSET (1 .. Len(trail)), NEW ev \in Event,
         \A j \in places : trail[j].ts <= ev.ts
  PROVE  LET chosen == InTimeOrder(trail, places)
         IN /\ chosen \in Seq(Reading)
            /\ \A k \in 1 .. Len(chosen) : chosen[k].ts <= ev.ts
            /\ InTimeOrder(Append(trail, ev), places \cup {Len(trail) + 1})
                 = Append(chosen, AsReading(ev))
<1> DEFINE t == Len(trail)
           grown == Append(trail, ev)
           chosen == InTimeOrder(trail, places)
           more == places \cup {t + 1}
<1>1. /\ t \in Nat /\ grown \in Seq(Event) /\ ev.ts \in Nat
      /\ \A j \in 1 .. t : trail[j] \in Event /\ trail[j].ts \in Nat
                           /\ AsReading(trail[j]).ts = trail[j].ts
  BY EventTimes, AppendProperties DEF Event
<1>2. /\ Len(grown) = t + 1 /\ grown[t + 1] = ev
      /\ \A j \in 1 .. t : grown[j] = trail[j]
  BY AppendProperties
<1>3. /\ places \in SUBSET (1 .. t) /\ more \in SUBSET (1 .. Len(grown))
      /\ t + 1 \notin places
  <2>1. places \in SUBSET (1 .. t)
    OBVIOUS
  <2> HIDE DEF grown, t
  <2>2. \A j \in 1 .. t : j \in 1 .. t + 1 /\ j # t + 1
    BY <1>1
  <2>3. t + 1 \in 1 .. t + 1
    BY <1>1
  <2> QED BY <1>2, <2>1, <2>2, <2>3
<1>4. PICK m \in Nat : \E at : InTurn(at, m, trail, places)
  BY SomeTurn
<1>5. PICK at : InTurn(at, m, trail, places)
  BY <1>4
<1>6. chosen = [k \in 1 .. m |-> AsReading(trail[at[k]])]
  BY <1>5, InTimeOrderIs DEF TimedBy
<1> HIDE DEF grown, t, chosen
<1>7. /\ at \in [1 .. m -> places]
      /\ \A k, l \in 1 .. m : k < l => at[k] # at[l] /\ NotAfter(trail, at[k], at[l])
      /\ \A j \in places : \E k \in 1 .. m : at[k] = j
  BY <1>5 DEF InTurn
<1>8. \A k \in 1 .. m : /\ at[k] \in places /\ at[k] \in 1 .. t /\ at[k] \in Nat
                        /\ trail[at[k]] \in Event /\ trail[at[k]].ts \in Nat
                        /\ trail[at[k]].ts <= ev.ts
                        /\ grown[at[k]] = trail[at[k]] /\ at[k] # t + 1 /\ at[k] <= t + 1
  <2> SUFFICES ASSUME NEW k \in 1 .. m
               PROVE  /\ at[k] \in places /\ at[k] \in 1 .. t /\ at[k] \in Nat
                      /\ trail[at[k]] \in Event /\ trail[at[k]].ts \in Nat
                      /\ trail[at[k]].ts <= ev.ts
                      /\ grown[at[k]] = trail[at[k]] /\ at[k] # t + 1 /\ at[k] <= t + 1
    OBVIOUS
  <2>1. at[k] \in places
    BY <1>7
  <2>2. at[k] \in 1 .. t /\ trail[at[k]].ts <= ev.ts
    BY <1>3, <2>1
  <2>3. at[k] \in Nat /\ at[k] # t + 1 /\ at[k] <= t + 1
    BY <1>1, <2>2
  <2> QED BY <1>1, <1>2, <2>1, <2>2, <2>3
<1>9. /\ chosen \in Seq(Reading) /\ Len(chosen) = m
      /\ \A k \in 1 .. m : chosen[k] = AsReading(trail[at[k]])
  <2>1. \A k \in 1 .. m : AsReading(trail[at[k]]) \in Reading
    BY <1>8, AsReadingType
  <2> QED BY <1>6, <2>1
<1>10. \A k \in 1 .. Len(chosen) : chosen[k].ts <= ev.ts
  BY <1>1, <1>8, <1>9
<1> DEFINE next == [k \in 1 .. m + 1 |-> IF k <= m THEN at[k] ELSE t + 1]
<1>11. /\ \A k \in 1 .. m : k \in 1 .. m + 1 /\ next[k] = at[k]
       /\ next[m + 1] = t + 1 /\ m + 1 \in 1 .. m + 1
       /\ \A k \in 1 .. m + 1 : k \in 1 .. m \/ k = m + 1
  BY <1>4
<1>12. next \in [1 .. m + 1 -> more]
  BY <1>8, <1>11
<1> HIDE DEF next, more
<1>13. \A k, l \in 1 .. m + 1 : k < l => next[k] # next[l] /\ NotAfter(grown, next[k], next[l])
  <2> SUFFICES ASSUME NEW k \in 1 .. m + 1, NEW l \in 1 .. m + 1, k < l
               PROVE  next[k] # next[l] /\ NotAfter(grown, next[k], next[l])
    OBVIOUS
  <2>1. k \in 1 .. m
    BY <1>4, <1>11
  <2>2. CASE l \in 1 .. m
    <3>1. next[k] = at[k] /\ next[l] = at[l]
      BY <1>11, <2>1, <2>2
    <3>2. at[k] # at[l] /\ NotAfter(trail, at[k], at[l])
      BY <1>7, <2>1, <2>2
    <3>3. grown[at[k]] = trail[at[k]] /\ grown[at[l]] = trail[at[l]]
      BY <1>8, <2>1, <2>2
    <3> QED BY <3>1, <3>2, <3>3 DEF NotAfter
  <2>3. CASE l = m + 1
    <3>1. next[k] = at[k] /\ next[l] = t + 1
      BY <1>11, <2>1, <2>3
    <3>2. /\ trail[at[k]].ts \in Nat /\ trail[at[k]].ts <= ev.ts
          /\ grown[at[k]] = trail[at[k]] /\ at[k] # t + 1 /\ at[k] <= t + 1
      BY <1>8, <2>1
    <3>3. grown[at[k]].ts < grown[t + 1].ts \/ grown[at[k]].ts = grown[t + 1].ts
      BY <1>1, <1>2, <3>2
    <3> QED BY <3>1, <3>2, <3>3 DEF NotAfter
  <2> QED BY <1>11, <2>2, <2>3
<1>14. \A j \in more : \E k \in 1 .. m + 1 : next[k] = j
  <2> SUFFICES ASSUME NEW j \in more PROVE \E k \in 1 .. m + 1 : next[k] = j
    OBVIOUS
  <2>1. j \in places \/ j = t + 1
    BY DEF more
  <2> QED BY <1>7, <1>11, <2>1
<1>15. InTurn(next, m + 1, grown, more)
  BY <1>12, <1>13, <1>14 DEF InTurn
<1>16. InTimeOrder(grown, more) = [k \in 1 .. m + 1 |-> AsReading(grown[next[k]])]
  <2>1. m + 1 \in Nat
    BY <1>4
  <2>2. grown \in Seq(Event) /\ more \in SUBSET (1 .. Len(grown))
    BY <1>1, <1>3
  <2>3. InTimeOrder(grown, more) = TimedBy(grown, next, m + 1)
    BY <1>15, <2>1, <2>2, InTimeOrderIs, Zenon
  <2> QED BY <2>3 DEF TimedBy
<1>17. AsReading(ev) \in Reading
  BY AsReadingType
<1>18. /\ Append(chosen, AsReading(ev)) \in Seq(Reading)
       /\ Len(Append(chosen, AsReading(ev))) = m + 1
       /\ \A k \in 1 .. m : Append(chosen, AsReading(ev))[k] = chosen[k]
       /\ Append(chosen, AsReading(ev))[m + 1] = AsReading(ev)
  BY <1>9, <1>17, AppendProperties
<1>19. \A k \in 1 .. m + 1 : AsReading(grown[next[k]]) = Append(chosen, AsReading(ev))[k]
  BY <1>2, <1>8, <1>9, <1>11, <1>18
<1>20. InTimeOrder(grown, more) = Append(chosen, AsReading(ev))
  <2> DEFINE grew == Append(chosen, AsReading(ev))
  <2>1. DOMAIN grew = 1 .. m + 1 /\ grew \in [1 .. m + 1 -> Reading]
    <3>1. grew \in Seq(Reading) /\ Len(grew) = m + 1
      BY <1>18
    <3> HIDE DEF grew
    <3> QED BY <3>1, LenProperties
  <2>2. \A k \in 1 .. m + 1 : AsReading(grown[next[k]]) = grew[k]
    BY <1>19
  <2> HIDE DEF grew
  <2>3. grew = [k \in 1 .. m + 1 |-> grew[k]]
    BY <2>1
  <2>4. InTimeOrder(grown, more) = grew
    BY <1>16, <2>2, <2>3
  <2> QED BY <2>4 DEF grew
<1> QED BY <1>9, <1>10, <1>20 DEF grown, more, chosen, t

LEMMA InsertedLast ==
  ASSUME NEW readings \in Seq(Reading), NEW x \in Reading,
         \A k \in 1 .. Len(readings) : readings[k].ts <= x.ts
  PROVE  InsertInOrder(readings, x) = Append(readings, x)
<1> DEFINE n == Len(readings)
<1>1. n \in Nat /\ DOMAIN readings = 1 .. n
  BY LenProperties
<1>2. {i \in DOMAIN readings : readings[i].ts <= x.ts} = 1 .. n
  BY <1>1
<1> HIDE DEF n
<1>3. CountUpTo(readings, x.ts) = n
  <2>1. Cardinality(1 .. n) = n
    BY <1>1, FS_Interval
  <2> QED BY <1>2, <2>1 DEF CountUpTo
<1>4. SubSeq(readings, 1, n) = readings
  BY <1>1 DEF n
<1>5. SubSeq(readings, n + 1, n) = << >>
  BY <1>1
<1>6. (readings \o <<x>>) \o << >> = Append(readings, x)
  OBVIOUS
<1> QED BY <1>3, <1>4, <1>5, <1>6 DEF InsertInOrder, n

(* The readings the preview looks at are those of the window that ends with *)
(* the event, itself included.                                              *)
LEMMA PreviewMirrored ==
  ASSUME NEW rule, NEW buffer \in Seq(Reading), NEW trail \in Seq(Event), NEW ev \in Event,
         rule.duration \in Nat, Mirrored(buffer, trail, ev.ts - rule.duration)
  PROVE  LET inside == InWindow(rule, buffer, ev.ts - rule.duration, ev.ts)
             events == IF ev.sensor \in SensorsOf(rule)
                       THEN InsertInOrder(inside, AsReading(ev)) ELSE inside
         IN EvaluateOperands(rule, WindowValues(rule, events, ev.ts - rule.duration, ev.ts))
              = TrueVerdict(rule, Append(trail, ev), ev.ts)
<1> DEFINE t == Len(trail)
           grown == Append(trail, ev)
           places == OfWindow(rule, trail, ev.ts)
           inside == InWindow(rule, buffer, ev.ts - rule.duration, ev.ts)
<1>1. inside = InTimeOrder(trail, places)
  BY WindowMirrored
<1> HIDE DEF inside
<1>2. CASE ev.sensor \notin SensorsOf(rule)
  <2>1. TrueVerdict(rule, grown, ev.ts) = TrueVerdict(rule, trail, ev.ts)
    BY <1>2, VerdictUnmoved
  <2> QED BY <1>1, <1>2, <2>1 DEF TrueVerdict, inside
<1>3. CASE ev.sensor \in SensorsOf(rule)
  <2>1. /\ t \in Nat /\ grown \in Seq(Event) /\ ev.ts \in Nat
        /\ Len(grown) = t + 1 /\ grown[t + 1] = ev
        /\ \A j \in 1 .. t : grown[j] = trail[j]
        /\ \A j \in 1 .. t : trail[j].ts \in Nat
    <3>1. t \in Nat /\ (\A j \in 1 .. t : trail[j].ts \in Nat) /\ ev.ts \in Nat
      BY EventTimes DEF Event
    <3>2. /\ grown \in Seq(Event) /\ Len(grown) = t + 1 /\ grown[t + 1] = ev
          /\ \A j \in 1 .. t : grown[j] = trail[j]
      BY AppendProperties
    <3> HIDE DEF grown, t
    <3> QED BY <3>1, <3>2
  <2>2. /\ places \in SUBSET (1 .. t)
        /\ \A j \in 1 .. t :
             j \in places <=> /\ ev.ts - rule.duration <= trail[j].ts /\ trail[j].ts <= ev.ts
                              /\ trail[j].sensor \in SensorsOf(rule)
    BY OfWindowType
  <2>3. /\ OfWindow(rule, grown, ev.ts) \in SUBSET (1 .. t + 1)
        /\ \A j \in 1 .. t + 1 :
             j \in OfWindow(rule, grown, ev.ts)
               <=> /\ ev.ts - rule.duration <= grown[j].ts /\ grown[j].ts <= ev.ts
                   /\ grown[j].sensor \in SensorsOf(rule)
    <3> HIDE DEF grown, t
    <3> QED BY <2>1, OfWindowType
  <2> HIDE DEF grown, t, places
  <2>4. \A j \in 1 .. t : j \in OfWindow(rule, grown, ev.ts) <=> j \in places
    <3>1. \A j \in 1 .. t : j \in 1 .. t + 1
      BY <2>1
    <3> QED BY <2>1, <2>2, <2>3, <3>1
  <2>5. t + 1 \in OfWindow(rule, grown, ev.ts)
    <3>1. t + 1 \in 1 .. t + 1 /\ ev.ts - rule.duration <= ev.ts /\ ev.ts <= ev.ts
      BY <2>1
    <3> QED BY <1>3, <2>1, <2>3, <3>1
  <2>6. OfWindow(rule, grown, ev.ts) = places \cup {t + 1}
    <3>1. \A j \in 1 .. t + 1 : j \in 1 .. t \/ j = t + 1
      BY <2>1
    <3>2. ASSUME NEW j PROVE j \in OfWindow(rule, grown, ev.ts) <=> j \in places \cup {t + 1}
      BY <2>2, <2>3, <2>4, <2>5, <3>1, Zenon
    <3> QED BY <3>2, Zenon
  <2>7. \A j \in places : trail[j].ts <= ev.ts
    BY <2>2
  <2>8. /\ inside \in Seq(Reading)
        /\ \A k \in 1 .. Len(inside) : inside[k].ts <= ev.ts
        /\ InTimeOrder(grown, places \cup {t + 1}) = Append(inside, AsReading(ev))
    BY <1>1, <2>2, <2>7, LastInTurn DEF grown, t
  <2>9. AsReading(ev) \in Reading /\ AsReading(ev).ts = ev.ts
    BY AsReadingType DEF AsReading
  <2>10. InsertInOrder(inside, AsReading(ev)) = Append(inside, AsReading(ev))
    BY <2>8, <2>9, InsertedLast
  <2>11. InTimeOrder(grown, OfWindow(rule, grown, ev.ts)) = InsertInOrder(inside, AsReading(ev))
    BY <2>6, <2>8, <2>10
  <2> QED BY <1>3, <2>11 DEF TrueVerdict, inside, grown
<1> QED BY <1>2, <1>3

(* Whatever the rule, the events handed to it and the state it is asked in, *)
(* the preview is right.                                                    *)
LEMMA PreviewStep ==
  ASSUME EngineInv, NoReloads, TrailInv, VerdictInv, [Next]_vars, HandsOver,
         NEW r \in Explained(call.event), rules[r].trigger = "window",
         AppliesToEntity(rules[r], call.event.entity)
  PROVE  ExplainFor(call.event, r).outcome # "condition_not_met"
           <=> TrueVerdict(rules[r], Append(log[PartitionKey(rules[r], call.event)][r],
                                            call.event), call.event.ts)
<1> DEFINE ev == call.event
           rule == rules[r]
           p == PartitionKey(rule, ev)
           st == IF states[p][r] = NoState THEN EmptyState ELSE states[p][r]
           trail == log[p][r]
<1>1. ev \in Event /\ Limit = ev.ts /\ ev.ts \in Nat
  BY HandedOver DEF Event
<1>2. r \in RuleIds /\ rule # NoRule /\ p # NoPartition
  BY DEF Explained
<1>3. p \in Partitions /\ (rule.partition = "entity_id" => p = ev.entity /\ p \in Entities)
  BY <1>1, <1>2 DEF PartitionKey, Partitions, NoPartition, Event
<1>4. rule \in Rule /\ Compiled(rule) /\ rule.duration \in Nat
  BY <1>2 DEF EngineInv, StateInv, RulesOK, Compiled, Rule
<1>5. trail \in Seq(Event) /\ (states[p][r] = NoState => trail = << >>)
  BY <1>2, <1>3 DEF TrailInv
<1>6. st \in RuleState
  BY <1>2, <1>3, EmptyStateType DEF EngineInv, StateInv, StatesOK
<1>7. Mirrored(st.buffer, trail, ev.ts - rule.duration)
  <2>1. CASE states[p][r] = NoState
    <3>1. st.buffer = << >> /\ trail = << >>
      BY <1>5, <2>1 DEF EmptyState
    <3> QED BY <3>1, NothingMirrored
  <2>2. CASE states[p][r] # NoState
    <3>1. Mirrored(st.buffer, trail, Progressed(p, rule) - rule.duration)
      BY <1>2, <1>3, <2>2 DEF VerdictInv, Remembers
    <3>2. Progressed(p, rule) \in Int /\ Progressed(p, rule) <= ev.ts
      <4>1. NotAhead(ev.ts) /\ entityWm \in [Entities -> Moment]
        BY DEF HandsOver, EngineInv, ProgressInv
      <4>2. CASE rule.partition = "entity_id"
        <5>1. p \in Entities
          BY <1>3, <4>2
        <5>2. entityWm[p] \in Int /\ entityWm[p] <= ev.ts
          BY <4>1, <5>1, MomentIsInt DEF NotAhead
        <5> QED BY <4>2, <5>2 DEF Progressed
      <4>3. CASE rule.partition # "entity_id"
        BY <1>1, <4>3 DEF Progressed
      <4> QED BY <4>2, <4>3
    <3> HIDE DEF st, trail, p, rule, ev
    <3>3. /\ Progressed(p, rule) - rule.duration \in Int /\ ev.ts - rule.duration \in Int
          /\ Progressed(p, rule) - rule.duration <= ev.ts - rule.duration
      BY <1>1, <1>4, <3>2
    <3> QED BY <1>5, <3>1, <3>3, LaterMirrored
  <2> QED BY <2>1, <2>2
<1>8. ExplainFor(ev, r) = ExplainWindow(rule, st, ev)
  <2>1. RuleFor(rules, draining, p, r) = rule
    BY <1>2, GovernedByRules
  <2> QED BY <2>1 DEF ExplainFor, ExplainRule
<1> DEFINE inside == InWindow(rule, st.buffer, ev.ts - rule.duration, ev.ts)
           events == IF ev.sensor \in SensorsOf(rule)
                     THEN InsertInOrder(inside, AsReading(ev)) ELSE inside
           holds == EvaluateOperands(rule,
                      WindowValues(rule, events, ev.ts - rule.duration, ev.ts))
<1>9. holds = TrueVerdict(rule, Append(trail, ev), ev.ts)
  <2>1. st.buffer \in Seq(Reading)
    BY <1>6 DEF RuleState
  <2> HIDE DEF st, trail, rule, ev
  <2> QED BY <1>1, <1>4, <1>5, <1>7, <2>1, PreviewMirrored
<1>10. /\ holds => ExplainWindow(rule, st, ev) = LifecycleOutcome(rule, st, ev.ts)
       /\ ~holds => ExplainWindow(rule, st, ev) = Answer("condition_not_met")
  BY DEF ExplainWindow
<1> HIDE DEF holds, st
<1>11. LifecycleOutcome(rule, st, ev.ts).outcome # "condition_not_met"
  BY DEF LifecycleOutcome, Answer, WouldEmit
<1>12. Answer("condition_not_met").outcome = "condition_not_met"
  BY DEF Answer
<1> QED BY <1>8, <1>9, <1>10, <1>11, <1>12

(* The preview explain() gives of a window is the verdict over every event  *)
(* the rule was handed in the span that ends with the event, this one       *)
(* included (_explain_rule, _prune_buffer): nothing that pruning has taken  *)
(* out of the buffer, and nothing that was folded in late, is missing.      *)
THEOREM PreviewIsExact == HistSpec => PreviewExact
<1>1. HistInit => NoReloads /\ TrailInv /\ VerdictInv
  BY TrailInit, VerdictInit
<1>2. EngineInv /\ BufferInv /\ NoReloads /\ TrailInv /\ VerdictInv /\ [HistNext]_histVars
        => NoReloads' /\ TrailInv' /\ VerdictInv'
  BY HistTurnTaken, TrailStep, VerdictStep
<1>3. ASSUME EngineInv, NoReloads, TrailInv, VerdictInv, [HistNext]_histVars, HandsOver
      PROVE  \A r \in Explained(call.event) :
               LET p == PartitionKey(rules[r], call.event)
                   ev == call.event
               IN rules[r].trigger = "window" /\ AppliesToEntity(rules[r], ev.entity) =>
                    (ExplainFor(ev, r).outcome # "condition_not_met"
                       <=> TrueVerdict(rules[r], Append(log[p][r], ev), ev.ts))
  BY <1>3, HistNextIsNext, PreviewStep
<1> QED BY <1>1, <1>2, <1>3, HistEngineInv, PTL DEF HistSpec, PreviewExact
=============================================================================
