------------------------- MODULE MC_PureAlgorithms -------------------------
(* The pure algorithms of the UVE path checked against their reference    *)
(* definitions: every state is one bounded input, drawn from the inputs  *)
(* of one kind, and the invariants compare the code's result with the     *)
(* reference on it.                                                        *)
EXTENDS ParallelAggregator, AlarmEvaluator

VARIABLES kind, input

vars == <<kind, input>>

Kinds == {"default", "struct", "union", "append", "compare", "rule"}

(* The evaluator's one attribute name, also a struct type name.          *)
MC_NameSeq == <<"a">>

(* Conditions over the type "a" of the UVE: a nested attribute against a *)
(* literal, a fan-out against null, an ordering against an int, two paths *)
(* against each other, and the type names against a list.                 *)
Cond(p1, op, lit, p2) == [op1 |-> p1, op |-> op, lit |-> lit, op2 |-> p2]
MC_Conds ==
    { Cond(<<"a", "a">>, "==", Num(1), <<>>),
      Cond(<<"a", "*">>, "!=", Null, <<>>),
      Cond(<<"a">>, "<", Num(1), <<>>),
      Cond(<<"a", "a">>, "==", NoLit, <<"a", "*">>),
      Cond(<<"__key">>, "in", Lst(<<Str("a")>>), <<>>) }

InputsOf(k) ==
    CASE k = "default" -> DefaultInputs
      [] k = "struct"  -> StructInputs
      [] k = "union"   -> UnionInputs
      [] k = "append"  -> AppendInputs
      [] k = "compare" -> CompareVals \X CompareVals
      [] k = "rule"    -> [uve : Uves, rules : RulesOf(MC_Conds)]

Init == \E k \in Kinds : kind = k /\ input \in InputsOf(k)

Next == UNCHANGED vars

Spec == Init /\ [][Next]_vars

-----------------------------------------------------------------------------
(* get_uve's default aggregation (_default_agg) lists each distinct value *)
(* once with exactly the sources holding it, in order, and returns a      *)
(* single value on its own (spec 4.2, "one aggregated entry per distinct  *)
(* value, carrying the list of contributing sources").                     *)
DefaultGroupsSources == kind = "default" => GroupsSources(input)

(* _struct_sum_agg sums every integer leaf over all sources that have it, *)
(* including leaves the first source lacks (spec 4.2 and scenario 4).     *)
StructSumFieldwise == kind = "struct" => SumsFieldwise(input)

(* _list_union_agg keeps each element of all sources' lists exactly once  *)
(* and sets @size to their number (spec 4.2, stable deduplication).       *)
UnionIsSetUnion == kind = "union" => IsSetUnion(input)

(* For a list whose struct has a listkey, _append_agg with               *)
(* consolidate_list folds the entries of all sources that share a listkey *)
(* into one, in order of first appearance, summing their counters (spec   *)
(* 4.2, scenario 5).                                                       *)
AppendFoldsByListkey == kind = "append" => FoldsByListkey(input)

(* _compare_operand_vals follows spec 4.3's null ordering and gives each  *)
(* operator the opposite verdict of its complement whenever neither       *)
(* raises.                                                                 *)
CompareConsistent == kind = "compare" => ComparisonsConsistent(input[1], input[2])

(* _evaluate_uve_for_alarms with process_alarms raises an alarm with      *)
(* exactly the and_lists whose conditions all match, never evaluates a    *)
(* condition after a failing one, and gives null rules when an evaluated  *)
(* condition raises (spec 4.3 and 7).                                      *)
RuleShortCircuit == kind = "rule" => ShortCircuitSemantics(input.rules, input.uve)
============================================================================
