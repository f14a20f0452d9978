---------------------------- MODULE AlarmEvaluator ----------------------------
(***************************************************************************)
(* The generic alarm rule evaluator of alarm-gen (AlarmProcessor in       *)
(* alarmgen.py): the walk of a dotted path through a flattened UVE, the    *)
(* comparison of two operand values, the fan-out over lists, and the       *)
(* OR-of-AND loop whose result process_alarms turns into a UVEAlarmInfo.   *)
(*                                                                         *)
(* A UVE value is one of the Python values a flattened UVE holds: None,    *)
(* an int, a str, a dict or a list.  A str is a word (an attribute name,   *)
(* which json.loads rejects) or a string of digits (which it parses to an  *)
(* int).  A dict is a function from attribute names; its iteration order   *)
(* is the order of NameSeq.  Match variables, the uve_path records, the    *)
(* severity and description are left out: they are carried into the      *)
(* match records and never decide whether an alarm is raised.             *)
(***************************************************************************)
EXTENDS Integers, Sequences, SequencesExt, FiniteSetsExt

CONSTANT NameSeq     \* attribute names, in dict order and in string order

Names == ToSet(NameSeq)

(* Every value has every field, so that sets of values can be ordered.   *)
Val(t, n, x, f, l) == [t |-> t, n |-> n, s |-> x, f |-> f, l |-> l]
Null      == Val("null", 0, "", <<>>, <<>>)
Num(n)    == Val("num", n, "", <<>>, <<>>)
Str(x)    == Val("str", 0, x, <<>>, <<>>)
Obj(f)    == Val("obj", 0, "", f, <<>>)
Lst(l)    == Val("lst", 0, "", <<>>, l)

(* operand2 given as a UVE path: json_value is None.                       *)
NoLit     == Val("nolit", 0, "", <<>>, <<>>)

(* The keys of a dict in iteration order.                                  *)
KeysOf(o) == SelectSeq(NameSeq, LAMBDA k : k \in DOMAIN o.f)

-----------------------------------------------------------------------------
(* What _get_uve_attribute returns: a {'value', 'status'} dict, a Python   *)
(* list of such results, or None when it falls off its if-chain.           *)
Res(v, ok)  == [k |-> "res", v |-> v, ok |-> ok]
Many(s)     == [k |-> "many", s |-> s]
Undef       == [k |-> "none"]

(* The digit strings of the model and the ints json.loads makes of them.  *)
Digits == "0" :> 0 @@ "1" :> 1 @@ "2" :> 2

(* json.loads of a str: digits give an int, a word raises ValueError.      *)
Parses(v) == v.t = "str" /\ v.s \in DOMAIN Digits

(* _get_uve_attribute: '*' and '__value' fan out over a dict's values,    *)
(* '__key' over its keys, a list fans out with the same path, and a str    *)
(* with path left is parsed and walked again.                              *)
RECURSIVE GetUveAttribute(_, _)
GetUveAttribute(t, path) ==
    IF t = Null \/ path = <<>> THEN Res(t, path = <<>>)
    ELSE CASE t.t = "obj" ->
                LET ks == KeysOf(t) IN
                CASE Head(path) \in {"*", "__value"} ->
                       Many([i \in DOMAIN ks |-> GetUveAttribute(t.f[ks[i]], Tail(path))])
                  [] Head(path) = "__key" ->
                       Many([i \in DOMAIN ks |-> GetUveAttribute(Str(ks[i]), Tail(path))])
                  [] OTHER ->
                       GetUveAttribute(IF Head(path) \in DOMAIN t.f THEN t.f[Head(path)] ELSE Null,
                                       Tail(path))
           [] t.t = "lst" -> Many([i \in DOMAIN t.l |-> GetUveAttribute(t.l[i], path)])
           [] t.t = "str" -> IF Parses(t) THEN GetUveAttribute(Num(Digits[t.s]), path) ELSE Res(Null, FALSE)
           [] OTHER       -> Undef

-----------------------------------------------------------------------------
(* _compare_operand_vals first json.loads both values; anything but a str  *)
(* of digits raises and is kept as it is.                                  *)
Loads(v) == IF Parses(v) THEN Num(Digits[v.s]) ELSE v

(* A verdict of a Python comparison: true, false, or raised TypeError.    *)
Yes == "T"
No  == "F"
Exc == "E"
V(b) == IF b THEN Yes ELSE No

(* A str's place in Python's string order: digit strings first, then the  *)
(* names, which NameSeq lists in order.                                    *)
StrRank(x) == IF x \in DOMAIN Digits THEN Digits[x]
              ELSE 10 + CHOOSE i \in DOMAIN NameSeq : NameSeq[i] = x

(* Python's a < b on two values: ints and strs among themselves, lists     *)
(* lexicographically at their first differing element; any other pair     *)
(* raises TypeError.                                                       *)
RECURSIVE PyLess(_, _)
PyLess(a, b) ==
    CASE a.t = "num" /\ b.t = "num" -> V(a.n < b.n)
      [] a.t = "str" /\ b.t = "str" -> V(StrRank(a.s) < StrRank(b.s))
      [] a.t = "lst" /\ b.t = "lst" ->
           LET D == {i \in DOMAIN a.l \cap DOMAIN b.l : a.l[i] # b.l[i]} IN
           IF D = {} THEN V(Len(a.l) < Len(b.l))
           ELSE PyLess(a.l[Min(D)], b.l[Min(D)])
      [] OTHER -> Exc

(* Python's a <= b: equal lists compare without touching their elements.  *)
PyLe(a, b) == LET l == PyLess(a, b) IN IF l = Exc THEN Exc ELSE V(l = Yes \/ a = b)

(* 'range': val2[0] <= val1 <= val2[1], the second test only when the     *)
(* first holds.                                                            *)
RangeOf(v, lo, hi) ==
    LET l == PyLe(lo, v) IN IF l = Yes THEN PyLe(v, hi) ELSE l

(* The size of a list operand against an int operand2.                     *)
SizeIs(a, b) == a.t = "lst" /\ b.t = "num" /\ Len(a.l) = b.n

(* Mutant: '<' without its both-None guard.                              *)
CompareOperandVals_NoBothNone(x, y, op) ==
    LET a == Loads(x)  b == Loads(y) IN
    CASE op = "==" -> V(a = b)
      [] op = "!=" -> V(a # b)
      [] op = "<"  -> IF a = Null THEN Yes ELSE IF b = Null THEN No ELSE PyLess(a, b)
      [] op = "<=" -> IF a = Null THEN Yes ELSE IF b = Null THEN No ELSE PyLe(a, b)
      [] op = ">"  -> IF a = Null /\ b = Null THEN No ELSE IF b = Null THEN Yes
                      ELSE IF a = Null THEN No ELSE PyLess(b, a)
      [] op = ">=" -> IF b = Null THEN Yes ELSE IF a = Null THEN No ELSE PyLe(b, a)
      [] op = "in"     -> V(b.t = "lst" /\ \E i \in DOMAIN b.l : b.l[i] = a)
      [] op = "not in" -> V(b.t # "lst" \/ \A i \in DOMAIN b.l : b.l[i] # a)
      [] op = "range"  -> IF b.t = "lst" /\ Len(b.l) >= 2 THEN RangeOf(a, b.l[1], b.l[2]) ELSE Exc
      [] op = "size==" -> V(SizeIs(a, b))
      [] op = "size!=" -> V(~SizeIs(a, b))

CompareOperandVals(x, y, op) ==
    LET a == Loads(x)  b == Loads(y) IN
    CASE op = "==" -> V(a = b)
      [] op = "!=" -> V(a # b)
      [] op = "<"  -> IF a = Null /\ b = Null THEN No ELSE IF a = Null THEN Yes
                      ELSE IF b = Null THEN No ELSE PyLess(a, b)
      [] op = "<=" -> IF a = Null THEN Yes ELSE IF b = Null THEN No ELSE PyLe(a, b)
      [] op = ">"  -> IF a = Null /\ b = Null THEN No ELSE IF b = Null THEN Yes
                      ELSE IF a = Null THEN No ELSE PyLess(b, a)
      [] op = ">=" -> IF b = Null THEN Yes ELSE IF a = Null THEN No ELSE PyLe(b, a)
      [] op = "in"     -> V(b.t = "lst" /\ \E i \in DOMAIN b.l : b.l[i] = a)
      [] op = "not in" -> V(b.t # "lst" \/ \A i \in DOMAIN b.l : b.l[i] # a)
      [] op = "range"  -> IF b.t = "lst" /\ Len(b.l) >= 2 THEN RangeOf(a, b.l[1], b.l[2]) ELSE Exc
      [] op = "size==" -> V(SizeIs(a, b))
      [] op = "size!=" -> V(~SizeIs(a, b))

Ops == {"==", "!=", "<", "<=", ">", ">=", "in", "not in", "range", "size==", "size!="}

-----------------------------------------------------------------------------
(* The outcome of one condition: it fails (and_list_fail), raises, or      *)
(* matches with its match records.                                        *)
Fail       == [r |-> "fail"]
Raise      == [r |-> "exc"]
Matched(m) == [r |-> "match", m |-> m]

(* A match record: _get_alarm_match's json_operand1_value and              *)
(* json_operand2_value.  _get_json_value keeps a str that parses as JSON  *)
(* and json.dumps anything else, so a digit string and its int give the   *)
(* same text; a text is represented by the value it denotes.               *)
JsonValue(v) == Loads(v)
AlarmMatch(v1, v2) == <<JsonValue(v1), IF v2 = NoLit THEN NoLit ELSE JsonValue(v2)>>

(* The verdict of one element pair of a fan-out: its match record when   *)
(* the comparison holds, No when not, Exc when it raises, including on an  *)
(* element that is itself a list or None ([...]['value']).                *)
PairVerdict(r1, r2, isj, op) ==
    IF r1.k # "res" \/ (~isj /\ r2.k # "res") THEN [r |-> Exc]
    ELSE LET v2 == IF isj THEN r2 ELSE r2.v
             c  == CompareOperandVals(r1.v, v2, op)
         IN IF c = Yes THEN [r |-> Yes, m |-> AlarmMatch(r1.v, IF isj THEN NoLit ELSE v2)]
            ELSE [r |-> c]

(* A fan-out's outcome: any raising pair raises; otherwise the matching    *)
(* pairs in order, and no match fails the condition.                       *)
FanOutcome(vs) ==
    IF \E i \in DOMAIN vs : vs[i].r = Exc THEN Raise
    ELSE LET ms == SelectSeq(vs, LAMBDA x : x.r = Yes) IN
         IF ms = <<>> THEN Fail ELSE Matched([i \in DOMAIN ms |-> ms[i].m])

(* The body of the and_list loop for one condition exp on uve: the        *)
(* status tests, the three fan-out cases and the scalar comparison.        *)
(* operand2 is exp.lit, the parsed json_value, or NoLit for a UVE path.    *)
CondOutcome(uve, exp) ==
    LET o1  == GetUveAttribute(uve, exp.op1)
        isj == exp.lit # NoLit
        o2  == IF isj THEN exp.lit ELSE GetUveAttribute(uve, exp.op2)
        l1  == o1.k = "many"
        l2  == ~isj /\ o2.k = "many"
    IN CASE o1.k = "res" /\ ~o1.ok -> Fail
         [] ~isj /\ o2.k = "res" /\ ~o2.ok -> Fail
         [] l1 /\ l2 ->
              IF Len(o1.s) # Len(o2.s) THEN Fail
              ELSE FanOutcome([i \in DOMAIN o1.s |-> PairVerdict(o1.s[i], o2.s[i], FALSE, exp.op)])
         [] l1 ->
              IF ~isj /\ o2.k # "res" THEN Raise
              ELSE FanOutcome([i \in DOMAIN o1.s |-> PairVerdict(o1.s[i], o2, isj, exp.op)])
         [] l2 -> FanOutcome([i \in DOMAIN o2.s |-> PairVerdict(o1, o2.s[i], FALSE, exp.op)])
         [] OTHER ->
              LET v == PairVerdict(o1, o2, isj, exp.op) IN
              CASE v.r = Exc -> Raise
                [] v.r = No  -> Fail
                [] OTHER     -> Matched(<<v.m>>)

(* A condition's outcome o joined to the and_list so far.                 *)
Conjoin(acc, exp, o) ==
    IF o.r = "match" THEN [acc EXCEPT !.m = Append(@, [cond |-> exp, match |-> o.m])]
    ELSE o

(* Mutant: the loop does not break on a failed condition, so a later    *)
(* condition that raises still raises.                                    *)
NoBreak(acc, exp, o) ==
    IF o.r = "exc" THEN o ELSE IF acc.r # "match" THEN acc ELSE Conjoin(acc, exp, o)
AndStep_NoBreak(uve, acc, exp) == NoBreak(acc, exp, CondOutcome(uve, exp))

(* One condition of an and_list: once a condition has failed the loop has *)
(* broken and the rest are not evaluated.                                 *)
AndStep(uve, acc, exp) ==
    IF acc.r # "match" THEN acc ELSE Conjoin(acc, exp, CondOutcome(uve, exp))

(* The and_list loop: and_list_fail starts FALSE for each and_list.       *)
AndListOutcome(uve, al) ==
    LET acc[i \in 0..Len(al)] ==
            IF i = 0 THEN Matched(<<>>) ELSE AndStep(uve, acc[i - 1], al[i])
    IN acc[Len(al)]

(* An and_list's outcome o joined to the or_list so far: a raising         *)
(* condition ends the whole evaluation, a passing and_list joins it.       *)
Disjoin(acc, o) ==
    CASE o.r = "exc"   -> Raise
      [] o.r = "match" -> [acc EXCEPT !.m = Append(@, o.m)]
      [] OTHER         -> acc

(* One and_list of the OR loop, which has been left if an exception rose. *)
OrStep(uve, acc, al) ==
    IF acc.r = "exc" THEN acc ELSE Disjoin(acc, AndListOutcome(uve, al))

(* process_alarms' use of the result: the alarm_rules of the UVEAlarmInfo *)
(* put in uve_alarms ("rules", the or_list; "null", the AlarmRules(None)  *)
(* of the exception branch), or no entry ("none").                         *)
Publish(o) ==
    CASE o.r = "exc" -> [a |-> "null"]
      [] o.m = <<>>  -> [a |-> "none"]
      [] OTHER       -> [a |-> "rules", or |-> o.m]

(* _evaluate_uve_for_alarms for a rule with no project scope, inside       *)
(* process_alarms for an enabled alarm.                                    *)
ProcessAlarms(rules, uve) ==
    LET acc[i \in 0..Len(rules)] ==
            IF i = 0 THEN Matched(<<>>) ELSE OrStep(uve, acc[i - 1], rules[i])
    IN Publish(acc[Len(rules)])

-----------------------------------------------------------------------------
(* Bounded inputs.  Leaves are None, the int 1 and the digit string "1";  *)
(* a UVE is a dict of struct types whose values nest dicts and lists two  *)
(* levels deep, lists of at most two elements.                            *)
Leaves0     == {Null, Num(1), Str("1")}
DictsOf(S)  == {Obj(f) : f \in UNION {[K -> S] : K \in SUBSET Names}}
ListsOf(S)  == {Lst(s) : s \in SeqOf(S, 2) \ {<<>>}}
Values1     == Leaves0 \cup DictsOf(Leaves0) \cup ListsOf(Leaves0)
Values2     == Values1 \cup DictsOf(Values1) \cup ListsOf(DictsOf(Leaves0))
Uves        == DictsOf(Values2)

(* Operand values as _compare_operand_vals receives them.                 *)
CompareVals ==
    {Null, Num(1), Num(2), Str("1"), Str(NameSeq[1]), Obj(<<>>), Lst(<<>>),
     Lst(<<Num(1)>>), Lst(<<Null>>), Lst(<<Num(1), Num(2)>>), Lst(<<Str("1")>>)}

(* Rules of up to two and_lists of up to two of the conditions Conds.     *)
RulesOf(Conds) ==
    LET AndLists == SeqOf(Conds, 2) \ {<<>>} IN SeqOf(AndLists, 2) \ {<<>>}

-----------------------------------------------------------------------------
(* What the evaluator promises, stated without the code's loops.          *)

(* Spec 4.3's null semantics of the ordered operators, and every operator *)
(* the complement of its opposite whenever neither raises: ==/!=, </>=,   *)
(* >/<=, in/not in, size==/size!=.                                         *)
ComparisonsConsistent(x, y) ==
    LET C(op) == CompareOperandVals(x, y, op)
        a == Loads(x)
        b == Loads(y)
        Opposite(o1, o2) == C(o1) # Exc /\ C(o2) # Exc => (C(o1) = Yes <=> C(o2) = No)
    IN /\ Opposite("==", "!=") /\ Opposite("<", ">=") /\ Opposite(">", "<=")
       /\ Opposite("in", "not in") /\ Opposite("size==", "size!=")
       /\ a = Null /\ b # Null => C("<") = Yes /\ C("<=") = Yes /\ C(">") = No /\ C(">=") = No
       /\ b = Null /\ a # Null => C(">") = Yes /\ C(">=") = Yes /\ C("<") = No /\ C("<=") = No
       /\ a = Null /\ b = Null => C("<") = No /\ C(">") = No

(* The OR-of-AND semantics of spec 4.3 with spec 7's error policy: the    *)
(* alarm carries exactly the and_lists all of whose conditions match, in  *)
(* order; the first condition of an and_list that does not match ends it, *)
(* so a later one is never evaluated; and a condition that raises where   *)
(* it is evaluated gives the alarm null rules.                             *)
ShortCircuitHolds(rules, outs, result) ==
    LET bad(j)     == {i \in DOMAIN outs[j] : outs[j][i].r # "match"}
        status(j)  == IF bad(j) = {} THEN "match" ELSE outs[j][Min(bad(j))].r
        passing    == SelectSeq([j \in DOMAIN rules |-> j], LAMBDA j : status(j) = "match")
        records(j) == [i \in DOMAIN rules[j] |-> [cond |-> rules[j][i], match |-> outs[j][i].m]]
    IN result =
         IF \E j \in DOMAIN rules : status(j) = "exc" THEN [a |-> "null"]
         ELSE IF passing = <<>> THEN [a |-> "none"]
         ELSE [a |-> "rules", or |-> [n \in DOMAIN passing |-> records(passing[n])]]

ShortCircuitSemantics(rules, uve) ==
    ShortCircuitHolds(rules,
                      [j \in DOMAIN rules |-> [i \in DOMAIN rules[j] |-> CondOutcome(uve, rules[j][i])]],
                      ProcessAlarms(rules, uve))

====
