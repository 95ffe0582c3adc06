---------------------------- MODULE Aggregations -----------------------------
(***************************************************************************)
(* What a rule computes of the readings of a window: its aggregations, in  *)
(* their order.  An aggregation with a sub_window gives a series, one      *)
(* number for every bucket that holds a reading, and a later one may take  *)
(* that series as its input.                                               *)
(*                                                                         *)
(* Numbers are quotients; an output is a sequence of them, empty where the *)
(* code has None.  stddev, which is none, is left out.                     *)
(***************************************************************************)
EXTENDS RuleTypes, SequencesExt

Whole(n) == [num |-> n, den |-> 1]
Scaled(q, n, d) == [num |-> q.num * n, den |-> q.den * d]
Plus(a, b) == [num |-> a.num * b.den + b.num * a.den, den |-> a.den * b.den]
Minus(a, b) == Plus(a, Scaled(b, -1, 1))
AtMost(a, b) == a.num * b.den <= b.num * a.den

Total(values) == FoldLeft(Plus, Whole(0), values)
Delta(values) == Minus(values[Len(values)], values[1])

\* The values in ascending order: each has its place after those it does not
\* precede, and equal ones keep their order.
Ascending(values) ==
  LET Place(j) ==
        Cardinality({i \in DOMAIN values :
                       /\ AtMost(values[i], values[j])
                       /\ i <= j \/ ~AtMost(values[j], values[i])})
  IN [n \in DOMAIN values |-> values[CHOOSE j \in DOMAIN values : Place(j) = n]]

\* Mutant: the rank is taken of the number of values, not of the last index.
PercentileOfCount(values, percentile) ==
  LET ordered == Ascending(values)
      rank == Min({percentile * Len(values), 100 * (Len(values) - 1)})
      Nth(i) == ordered[Min({i, Len(values) - 1}) + 1]
      lower == Nth(rank \div 100)
      upper == Nth(rank \div 100 + 1)
  IN Plus(lower, Scaled(Minus(upper, lower), rank % 100, 100))

\* The value at a rank between two values lies on the line between them.
Percentile(values, percentile) ==
  LET ordered == Ascending(values)
      rank == percentile * (Len(values) - 1)
      Nth(i) == ordered[Min({i, Len(values) - 1}) + 1]
      lower == Nth(rank \div 100)
      upper == Nth(rank \div 100 + 1)
  IN Plus(lower, Scaled(Minus(upper, lower), rank % 100, 100))

\* The smallest and the largest value are the percentiles 0 and 100.
Aggregate(function, values, percentile, duration) ==
  CASE function = "count" -> <<Whole(Len(values))>>
    [] function = "sum" -> <<Total(values)>>
    [] function \notin {"count", "sum"} /\ values = << >> -> << >>
    [] function = "rate" /\ values # << >> ->
         IF duration = 0 THEN << >> ELSE <<Scaled(Delta(values), 1, duration)>>
    [] OTHER ->
         <<CASE function = "mean" -> Scaled(Total(values), 1, Len(values))
             [] function = "min" -> Percentile(values, 0)
             [] function = "max" -> Percentile(values, 100)
             [] function = "delta" -> Delta(values)
             [] function = "percentile" -> Percentile(values, percentile)>>

\* What a sequence holds at the places chosen, in its order.
Picked(s, places) ==
  [k \in 1 .. Cardinality(places) |->
     s[CHOOSE i \in places : Cardinality({j \in places : j <= i}) = k]]

\* Mutant: a bucket is open at its end.
BucketsOpen(readings, start, end, step) ==
  LET From(k) == start + (k - 1) * step
      Inside(k) == {i \in DOMAIN readings : /\ From(k) <= readings[i].ts
                                            /\ readings[i].ts < Min({From(k + 1), end})}
      chunks == 1 .. (end - start + step - 1) \div step
  IN Picked([k \in chunks |-> Picked(readings, Inside(k))], {k \in chunks : Inside(k) # {}})

\* The readings of the k-th bucket, which includes both its ends.
InBucket(readings, start, end, step, k) ==
  {i \in DOMAIN readings : /\ start + (k - 1) * step <= readings[i].ts
                           /\ readings[i].ts <= start + k * step
                           /\ readings[i].ts <= end}

\* The buckets that hold a reading.
Buckets(readings, start, end, step) ==
  LET Inside(k) == InBucket(readings, start, end, step, k)
      chunks == 1 .. (end - start + step - 1) \div step
  IN Picked([k \in chunks |-> Picked(readings, Inside(k))], {k \in chunks : Inside(k) # {}})

ValuesOf(readings) == [i \in DOMAIN readings |-> Whole(readings[i].value)]

EvaluateAggregation(agg, readings, start, end, outputs) ==
  IF agg.subWindow > 0
  THEN LET buckets == Buckets(readings, start, end, agg.subWindow)
       IN [k \in DOMAIN buckets |->
             Aggregate(agg.function, ValuesOf(buckets[k]), agg.percentile, agg.subWindow)[1]]
  ELSE Aggregate(agg.function,
                 IF agg.input = NoInput THEN ValuesOf(readings) ELSE outputs[agg.input],
                 agg.percentile, end - start)

WindowValues(rule, readings, start, end) ==
  FoldLeft(LAMBDA outputs, agg :
             (agg.id :> EvaluateAggregation(agg, readings, start, end, outputs)) @@ outputs,
           [const |-> <<Whole(1)>>], rule.aggregations)
=============================================================================
