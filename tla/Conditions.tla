----------------------------- MODULE Conditions ------------------------------
(***************************************************************************)
(* Evaluation of a rule's condition over the value of one event or over    *)
(* the aggregates of a window.  A metric without a value (an aggregate of  *)
(* an empty window, a name the event does not carry) satisfies nothing.    *)
(***************************************************************************)
EXTENDS Aggregations

Compare(left, comparison, right) ==
  LET a == left.num
      b == right * left.den
  IN CASE comparison = "eq"  -> a = b
       [] comparison = "ne"  -> a # b
       [] comparison = "gt"  -> a > b
       [] comparison = "gte" -> a >= b
       [] comparison = "lt"  -> a < b
       [] comparison = "lte" -> a <= b

Satisfied(operand, values) ==
  /\ operand.metric \in DOMAIN values
  /\ \E i \in DOMAIN values[operand.metric] :
       Compare(values[operand.metric][i], operand.comparison, operand.value)

\* A condition without operands never holds; any operator but OR is AND.
EvaluateOperands(rule, values) ==
  /\ rule.operands # {}
  /\ \/ rule.operator = "OR" /\ \E o \in rule.operands : Satisfied(o, values)
     \/ rule.operator # "OR" /\ \A o \in rule.operands : Satisfied(o, values)

EventValues(ev) == [value |-> <<Whole(ev.value)>>, const |-> <<Whole(1)>>]

\* The readings of a buffer that belong to the window [start, end] of a rule.
InWindow(rule, buffer, start, end) ==
  Picked(buffer, {i \in DOMAIN buffer : /\ start <= buffer[i].ts /\ buffer[i].ts <= end
                                        /\ buffer[i].sensor \in SensorsOf(rule)})

WindowHolds(rule, buffer, start, end) ==
  EvaluateOperands(rule,
                   WindowValues(rule, InWindow(rule, buffer, start, end), start, end))
=============================================================================
